---------------------------- MODULE ParserProofs ----------------------------
(***************************************************************************)
(* The safety of Parser for every set of requests and reports and every    *)
(* bound on them.                                                          *)
(***************************************************************************)
EXTENDS Parser, TLAPS, SequenceTheorems

(* What a callback caches and an extractor publishes.                      *)
Entry == [id : 0 .. 10, subject : 0 .. 15, status : 0 .. 4, content : Seq(Nat)]

Answer == [subject : {"neighbour", "state", "send"} \cup Topics \cup Reports,
           form : {"ok", "error", "value", "malformed", "partial", "empty"},
           answers : Request \cup {NoRequest}, content : Seq(Nat)]

(* TypeOK is not inductive: it says nothing of the answers under way, nor  *)
(* that sendSync has a request to send.                                    *)
Typed ==
  /\ TypeOK
  /\ ros # "idle" => pending \in Request
  /\ fromModem \in Seq(Answer)
  /\ counts \in [requests : Nat, reports : Nat, losses : Nat]

-----------------------------------------------------------------------------
(* Topics and requests.                                                    *)

(* The topics, and the number of the subject of each.                      *)
LEMMA TopicSet ==
  /\ Topics = {"version", "address", "protocol", "protocols", "protocolinfo", "routing",
               "neighbours", "states", "statistics", "data", "discovery", "polling"}
  /\ \A t \in Topics : SubjectOf[t] \in 0 .. 15 /\ SubjectOf[t] \in Nat
BY DEF Topics, SubjectOf, VERSION, ADDRESS, PROTOCOL, PROTOCOLS, PROTOCOLINFO, ROUTING,
       NEIGHBOURS, STATES, STATISTICS, DATA, DISCOVERY, POLLING

(* NoRequest is none: its topic is no topic.                               *)
LEMMA RequestTopic ==
  /\ \A r \in Request : r.topic \in Topics /\ r # NoRequest
  /\ NoRequest.topic \notin Topics
BY TopicSet DEF Request, NoRequest

(* An answer on a topic belongs to a request of that topic.                *)
LEMMA SubjectType ==
  \A r \in Request : AnswerSubject(r) \in {"neighbour", "state", "send"} \cup Topics
BY RequestTopic DEF AnswerSubject

(* The modem's answers have the forms that the extractors tell apart.      *)
LEMMA FormType ==
  \A s : Forms(s) \subseteq {"ok", "error", "value", "malformed", "partial", "empty"}
BY DEF Forms

(* A queue without its head.                                               *)
LEMMA Taken ==
  ASSUME NEW S, NEW s \in Seq(S), s # << >>
  PROVE  /\ Tail(s) \in Seq(S) /\ Head(s) \in S /\ Head(s) = s[1]
         /\ 1 \in DOMAIN s
         /\ \A i \in DOMAIN Tail(s) : i \in Nat /\ i + 1 \in DOMAIN s /\ Tail(s)[i] = s[i + 1]
<1>1. Len(s) \in Nat /\ DOMAIN s = 1 .. Len(s) /\ Len(s) # 0
  BY EmptySeq, LenProperties
<1>2. /\ Tail(s) \in Seq(S) /\ Len(Tail(s)) = Len(s) - 1 /\ Head(s) \in S
      /\ \A i \in 1 .. Len(Tail(s)) : Tail(s)[i] = s[i + 1]
  BY HeadTailProperties
<1>3. Head(s) = s[1]
  BY <1>1
<1> QED BY <1>1, <1>2, <1>3, LenProperties

(* A queue with one more element.                                          *)
LEMMA Appended ==
  ASSUME NEW S, NEW s \in Seq(S), NEW e \in S
  PROVE  /\ Append(s, e) \in Seq(S)
         /\ \A i \in DOMAIN Append(s, e) :
              (i \in DOMAIN s /\ Append(s, e)[i] = s[i]) \/ (i = Len(s) + 1 /\ Append(s, e)[i] = e)
         /\ Len(s) \in Nat /\ DOMAIN s = 1 .. Len(s)
BY AppendProperties, LenProperties

(* What is left of a queue when the connection is lost.                    *)
LEMMA Prefix ==
  ASSUME NEW S, NEW s \in Seq(S), NEW k \in 0 .. Len(s)
  PROVE  /\ SubSeq(s, 1, k) \in Seq(S)
         /\ \A i \in DOMAIN SubSeq(s, 1, k) : i \in DOMAIN s /\ SubSeq(s, 1, k)[i] = s[i]
<1>1. Len(s) \in Nat /\ DOMAIN s = 1 .. Len(s) /\ \A i \in 1 .. Len(s) : s[i] \in S
  BY LenProperties, ElementOfSeq
<1>2. /\ SubSeq(s, 1, k) \in Seq(S) /\ Len(SubSeq(s, 1, k)) = k
      /\ \A i \in 1 .. k : SubSeq(s, 1, k)[i] = s[i]
  BY <1>1, SubSeqProperties
<1> QED BY <1>1, <1>2, LenProperties

-----------------------------------------------------------------------------
(* What the callbacks have in common.                                      *)
Caches(topic, entry, supported) ==
  /\ Callback(topic, entry, supported)
  /\ topic \in Topics /\ entry \in Entry /\ supported \in BOOLEAN
  /\ inbox # << >> /\ Head(inbox) \in Message /\ Head(inbox).status = UNDEFINED
  /\ topic \notin {"states", "data"} => entry.subject = SubjectOf[topic]
  /\ entry.id = Head(inbox).id
  /\ topic = "states" => /\ entry.subject = Head(inbox).subject
                         /\ supported => Head(inbox).subject \in {STATE_, STATES}
  /\ topic = "discovery" => entry.content = Head(inbox).content

(* A callback that does not ignore its message keeps one entry, and asks   *)
(* the modem for it only if the topic supports it.                         *)
LEMMA Caching ==
  ASSUME TypeOK, RosCallback, ~IgnoreOwn
  PROVE  \E topic \in Topics, entry \in Entry, supported \in BOOLEAN :
           Caches(topic, entry, supported)
<1>e. ASSUME NEW t \in Topics
      PROVE  /\ cached[t] \in Entry
             /\ t \notin {"states", "data"} => cached[t].subject = SubjectOf[t]
  BY DEF TypeOK, Entry
<1>q. ASSUME inbox # << >> PROVE Head(inbox) \in Message
  BY <1>q, Taken DEF TypeOK
<1>c. ASSUME NEW t \in Topics, NEW entry \in Entry, NEW b \in BOOLEAN, Callback(t, entry, b),
             t \notin {"states", "data"} => entry.subject = SubjectOf[t],
             entry.id = Head(inbox).id,
             t = "states" => /\ entry.subject = Head(inbox).subject
                             /\ b => Head(inbox).subject \in {STATE_, STATES},
             t = "discovery" => entry.content = Head(inbox).content
      PROVE  \E topic \in Topics, e \in Entry, supported \in BOOLEAN : Caches(topic, e, supported)
  BY <1>c, <1>q DEF Caches, Callback
<1>i. ASSUME inbox # << >>, NEW t \in Topics
      PROVE  /\ Cache(t) \in Entry
             /\ Cache(t).id = Head(inbox).id /\ Cache(t).subject = cached[t].subject
  BY <1>i, <1>q, <1>e DEF Cache, Entry, Message
<1>s. \A ids : Asks(ids) \in BOOLEAN
  BY DEF Asks
<1>1. CASE VersionCallback
  BY <1>1, <1>c, <1>i, <1>e, <1>s, TopicSet DEF VersionCallback, Callback
<1>2. CASE AddressCallback
  BY <1>2, <1>c, <1>i, <1>e, <1>s, TopicSet DEF AddressCallback, Callback
<1>3. CASE ProtocolCallback
  BY <1>3, <1>c, <1>i, <1>e, <1>s, TopicSet DEF ProtocolCallback, Callback
<1>4. CASE ProtocolsCallback
  BY <1>4, <1>c, <1>i, <1>e, <1>s, TopicSet DEF ProtocolsCallback, Callback
<1>5. CASE ProtocolinfoCallback
  BY <1>5, <1>c, <1>i, <1>e, <1>s, TopicSet DEF ProtocolinfoCallback, Callback
<1>6. CASE RoutingCallback
  BY <1>6, <1>c, <1>i, <1>e, <1>s, TopicSet DEF RoutingCallback, Callback
<1>7. CASE NeighboursCallback
  BY <1>7, <1>c, <1>i, <1>e, <1>s, TopicSet DEF NeighboursCallback, Callback
<1>8. CASE StatesCallback
  <2> DEFINE entry == [Cache("states") EXCEPT !.subject = Head(inbox).subject]
             b == \/ Asks({GET, RESET}) /\ Head(inbox).subject = STATE_
                  \/ Asks({GET}) /\ Head(inbox).subject = STATES
  <2>1. inbox # << >> /\ Callback("states", entry, b)
    BY <1>8 DEF StatesCallback, Callback
  <2>2. Cache("states") \in Entry /\ Cache("states").id = Head(inbox).id
        /\ Head(inbox).subject \in 0 .. 15
    BY <2>1, <1>i, <1>q, TopicSet DEF Message
  <2>3. entry \in Entry /\ entry.id = Head(inbox).id /\ entry.subject = Head(inbox).subject
    BY <2>2 DEF Entry
  <2>4. b \in BOOLEAN /\ (b => Head(inbox).subject \in {STATE_, STATES})
    OBVIOUS
  <2> HIDE DEF entry, b
  <2> QED BY <2>1, <2>3, <2>4, <1>c, TopicSet
<1>9. CASE StatisticsCallback
  <2> DEFINE b == \/ Asks({GET}) /\ \E type \in DOMAIN StatisticsTypes :
                                      Head(inbox).content = <<StatisticsTypes[type]>>
                  \/ Asks({CLEAR}) /\ Head(inbox).content = <<StatisticsTypes["data"]>>
  <2>1. inbox # << >> /\ Callback("statistics", Cache("statistics"), b)
    BY <1>9 DEF StatisticsCallback, Callback
  <2>2. b \in BOOLEAN
    OBVIOUS
  <2>3. Cache("statistics") \in Entry /\ Cache("statistics").id = Head(inbox).id
        /\ Cache("statistics").subject = SubjectOf["statistics"]
    BY <2>1, <1>i, <1>e, TopicSet
  <2> DEFINE entry == Cache("statistics")
  <2> HIDE DEF b, entry
  <2> QED BY <2>1, <2>2, <2>3, <1>c, TopicSet DEF entry
<1>10. CASE DataCallback
  BY <1>10, <1>c, <1>i, <1>e, <1>s, TopicSet DEF DataCallback, Callback
<1>11. CASE DiscoveryCallback
  <2> DEFINE entry == [Cache("discovery") EXCEPT !.content = Head(inbox).content]
             b == Asks({GET, START, STOP})
  <2>1. inbox # << >> /\ Callback("discovery", entry, b)
    BY <1>11 DEF DiscoveryCallback, Callback
  <2>2. Cache("discovery") \in Entry /\ Cache("discovery").id = Head(inbox).id
        /\ Cache("discovery").subject = SubjectOf["discovery"]
        /\ Head(inbox).content \in Seq(Nat)
    BY <2>1, <1>i, <1>e, <1>q, TopicSet DEF Message
  <2>3. entry \in Entry /\ entry.id = Head(inbox).id /\ entry.content = Head(inbox).content
        /\ entry.subject = SubjectOf["discovery"]
    BY <2>2 DEF Entry
  <2> HIDE DEF entry
  <2> QED BY <2>1, <2>3, <1>c, <1>s, TopicSet
<1>12. CASE PollingCallback
  <2> DEFINE entry == [Cache("polling") EXCEPT !.content = IF Asks({SET}) THEN Head(inbox).content ELSE @]
             b == Asks({SET, START, STOP})
  <2>1. inbox # << >> /\ Callback("polling", entry, b)
    BY <1>12 DEF PollingCallback, Callback
  <2>2. Cache("polling") \in Entry /\ Cache("polling").id = Head(inbox).id
        /\ Cache("polling").subject = SubjectOf["polling"]
        /\ Head(inbox).content \in Seq(Nat)
    BY <2>1, <1>i, <1>e, <1>q, TopicSet DEF Message
  <2>3. entry \in Entry /\ entry.id = Head(inbox).id /\ entry.subject = SubjectOf["polling"]
    BY <2>2 DEF Entry
  <2> HIDE DEF entry
  <2> QED BY <2>1, <2>3, <1>c, <1>s, TopicSet
<1> QED
  BY <1>1, <1>2, <1>3, <1>4, <1>5, <1>6, <1>7, <1>8, <1>9, <1>10, <1>11, <1>12
  DEF RosCallback

-----------------------------------------------------------------------------
(* What the extractors that publish have in common.                        *)
Publishes(topic, entry) ==
  /\ fromModem # << >> /\ Head(fromModem) \in Answer
  /\ topic \in Topics /\ entry \in Entry
  /\ PublishOn(topic, entry)
  /\ entry.status # UNDEFINED
  /\ topic \notin {"states", "data"} => entry.subject = SubjectOf[topic]
  /\ timer' = IF Arrives("recv") THEN timer ELSE "idle"
  /\ entry.id = cached[topic].id \/ (Arrives("recv") /\ topic = "data")
  /\ Head(fromModem).subject \in {"neighbour", "state", "send", "recv"} \cup Topics
  /\ Arrives("recv") => topic = "data"
  /\ ~Arrives("recv") =>
       \A r \in Request : Head(fromModem).subject = AnswerSubject(r) => topic = r.topic
  /\ topic = "states" => entry.subject = IF Arrives("state") THEN STATE_ ELSE STATES
  /\ topic = "discovery" /\ Form = "ok" => entry.content = Kept("discovery")

(* What an extractor reads.                                                *)
LEMMA Contents ==
  ASSUME Typed, fromModem # << >>, NEW t \in Topics
  PROVE  /\ Told \in Seq(Nat) /\ Kept(t) \in Seq(Nat) /\ << >> \in Seq(Nat)
         /\ Kept(t) \o Told \in Seq(Nat)
<1>1. cached[t] \in Entry
  BY DEF Typed, TypeOK, Entry
<1>2. Head(fromModem) \in Answer
  BY Taken DEF Typed
<1>3. Told \in Seq(Nat) /\ Kept(t) \in Seq(Nat) /\ << >> \in Seq(Nat)
  <2>1. Told \in Seq(Nat)
    BY <1>2 DEF Told, Answer
  <2>2. Kept(t) \in Seq(Nat)
    BY <1>1 DEF Kept, Entry
  <2> QED BY <2>1, <2>2, EmptySeq
<1>4. Kept(t) \o Told \in Seq(Nat)
  BY <1>3, ConcatProperties
<1> QED BY <1>3, <1>4

(* The entries that extractors make of a cached message.                   *)
LEMMA WithType ==
  ASSUME Typed, NEW t \in Topics, NEW st \in {OK, ERROR, EMPTY}, NEW c \in Seq(Nat)
  PROVE  /\ With(t, st, c) \in Entry
         /\ With(t, st, c).id = cached[t].id /\ With(t, st, c).subject = cached[t].subject
         /\ With(t, st, c).status # UNDEFINED /\ With(t, st, c).content = c
<1>1. cached[t] \in Entry
  BY DEF Typed, TypeOK, Entry
<1>2. st \in 0 .. 4 /\ st # UNDEFINED
  BY DEF OK, ERROR, EMPTY, UNDEFINED
<1> HIDE DEF OK, ERROR, EMPTY
<1>3. With(t, st, c) \in Entry
  BY <1>1, <1>2 DEF With, Entry
<1>4. With(t, st, c).id = cached[t].id /\ With(t, st, c).subject = cached[t].subject
  BY <1>1 DEF With, Entry
<1>5. With(t, st, c).status = st /\ With(t, st, c).content = c
  BY <1>1 DEF With, Entry
<1> QED BY <1>2, <1>3, <1>4, <1>5

(* What nl_rcv_extract makes of the cached message.                        *)
LEMMA ReceivedType ==
  ASSUME Typed
  PROVE  Received \in Entry /\ Received.status # UNDEFINED
<1>1. PICK e \in Entry : e = cached["data"]
  BY TopicSet DEF Typed, TypeOK, Entry
<1>2. RECV \in 0 .. 10 /\ DATA \in 0 .. 15 /\ OK \in 0 .. 4 /\ OK # UNDEFINED
  BY DEF RECV, DATA, OK, UNDEFINED
<1>3. [e EXCEPT !.id = RECV, !.subject = DATA, !.status = OK] \in Entry
  BY <1>2 DEF Entry
<1>4. [e EXCEPT !.id = RECV, !.subject = DATA, !.status = OK].status = OK
  BY DEF Entry
<1> QED BY <1>1, <1>2, <1>3, <1>4 DEF Received

(* Extractors by the subject of the answer and the topic it belongs to.    *)
LEMMA SubjectTopic ==
  ASSUME NEW r \in Request
  PROVE  \/ AnswerSubject(r) = "neighbour" /\ r.topic = "neighbours"
         \/ AnswerSubject(r) = "state" /\ r.topic = "states"
         \/ AnswerSubject(r) = "send" /\ r.topic = "data"
         \/ AnswerSubject(r) = r.topic /\ r.topic \in Topics \ {"data"}
<1>1. r.topic \in Topics
  BY RequestTopic
<1>2. CASE r.topic = "neighbours" /\ r.id = DELETE
  BY <1>2 DEF AnswerSubject
<1>3. CASE r.topic = "states" /\ r.subject = STATE_
  BY <1>3 DEF AnswerSubject
<1>4. CASE r.topic = "data"
  BY <1>4 DEF AnswerSubject
<1>5. CASE /\ ~(r.topic = "neighbours" /\ r.id = DELETE) /\ ~(r.topic = "states" /\ r.subject = STATE_)
           /\ r.topic # "data"
  BY <1>5, <1>1 DEF AnswerSubject
<1> QED BY <1>2, <1>3, <1>4, <1>5

(* Every extractor but those of reports and of unknown subjects publishes. *)
LEMMA Publishing ==
  ASSUME Typed, ExtractSubject \/ RcvExtract, ~ExtractReport, ~ExtractUnknown
  PROVE  \E topic \in Topics, entry \in Entry : Publishes(topic, entry)
<1>a. fromModem # << >> /\ Head(fromModem) \in Answer
  <2>1. fromModem # << >>
    BY DEF ExtractSubject, RcvExtract, Arrives, Extract, ExtractVersion, ExtractAddress,
           ExtractProtocol, ExtractProtocols, ExtractProtocolinfo, ExtractRouting,
           ExtractNeighbours, ExtractNeighbour, ExtractState, ExtractStates,
           ExtractStatistics, ExtractSend, ExtractDiscovery, ExtractPolling
  <2> QED BY <2>1, Taken DEF Typed
<1>e. ASSUME NEW t \in Topics
      PROVE  /\ cached[t] \in Entry
             /\ t \notin {"states", "data"} => cached[t].subject = SubjectOf[t]
  BY DEF Typed, TypeOK, Entry
<1>r. ASSUME NEW s, NEW t \in Topics,
             \/ s = t /\ t # "data"
             \/ s = "neighbour" /\ t = "neighbours"
             \/ s = "state" /\ t = "states"
             \/ s = "send" /\ t = "data"
      PROVE  \A r \in Request : s = AnswerSubject(r) => t = r.topic
  BY <1>r, SubjectTopic, TopicSet
(* An answer that leaves id and subject alone.                             *)
<1>p. ASSUME NEW s, NEW t \in Topics, NEW st \in {OK, ERROR, EMPTY}, NEW c \in Seq(Nat),
             Extract(s, t, With(t, st, c)), s # "recv", t \notin {"states", "data"},
             \/ s = t
             \/ s = "neighbour" /\ t = "neighbours",
             t = "discovery" /\ Form = "ok" => c = Kept("discovery")
      PROVE  \E topic \in Topics, entry \in Entry : Publishes(topic, entry)
  <2> DEFINE e == With(t, st, c)
  <2>1. /\ e \in Entry /\ e.id = cached[t].id /\ e.subject = cached[t].subject
        /\ e.status # UNDEFINED /\ e.content = c
    BY WithType
  <2>2. Head(fromModem).subject = s /\ timer' = "idle" /\ PublishOn(t, e)
    BY <1>p DEF Extract, Arrives
  <2> HIDE DEF e
  <2>3. e.subject = SubjectOf[t]
    BY <2>1, <1>e, <1>p
  <2>4. \A r \in Request : Head(fromModem).subject = AnswerSubject(r) => t = r.topic
    BY <1>p, <1>r, <2>2
  <2>6. t = "discovery" /\ Form = "ok" => e.content = Kept("discovery")
    BY <1>p, <2>1
  <2>7. ~Arrives("recv") /\ Head(fromModem).subject \in {"neighbour"} \cup Topics
    BY <1>p, <2>2 DEF Arrives
  <2>8. Publishes(t, e)
    BY <1>a, <1>p, <2>1, <2>2, <2>3, <2>4, <2>6, <2>7 DEF Publishes
  <2> QED BY <2>1, <2>8
(* An answer that sets the subject.                                        *)
<1>s. ASSUME NEW s, NEW t \in {"states", "data"}, NEW st \in {OK, ERROR, EMPTY}, NEW c \in Seq(Nat),
             NEW sub \in 0 .. 15,
             Extract(s, t, [With(t, st, c) EXCEPT !.subject = sub]),
             \/ s = "states" /\ t = "states" /\ sub = STATES
             \/ s = "state" /\ t = "states" /\ sub = STATE_
             \/ s = "send" /\ t = "data"
      PROVE  \E topic \in Topics, entry \in Entry : Publishes(topic, entry)
  <2> DEFINE e == [With(t, st, c) EXCEPT !.subject = sub]
  <2>t. t \in Topics
    BY TopicSet
  <2>1. /\ e \in Entry /\ e.id = cached[t].id /\ e.subject = sub
        /\ e.status # UNDEFINED /\ e.content = c
    <3> DEFINE w == With(t, st, c)
    <3>1. /\ w \in Entry /\ w.id = cached[t].id /\ w.status # UNDEFINED /\ w.content = c
      BY <2>t, WithType
    <3> HIDE DEF w
    <3>2. [w EXCEPT !.subject = sub] \in Entry
      BY <3>1 DEF Entry
    <3>3. /\ [w EXCEPT !.subject = sub].id = w.id /\ [w EXCEPT !.subject = sub].subject = sub
          /\ [w EXCEPT !.subject = sub].status = w.status
          /\ [w EXCEPT !.subject = sub].content = w.content
      BY <3>1 DEF Entry
    <3> QED BY <3>1, <3>2, <3>3 DEF w
  <2>2. Head(fromModem).subject = s /\ timer' = "idle" /\ PublishOn(t, e)
    BY <1>s DEF Extract, Arrives
  <2> HIDE DEF e
  <2>4. \A r \in Request : Head(fromModem).subject = AnswerSubject(r) => t = r.topic
    BY <1>s, <1>r, <2>2, <2>t
  <2>6. t = "states" => e.subject = IF Arrives("state") THEN STATE_ ELSE STATES
    BY <1>s, <1>a, <2>1, <2>2 DEF Arrives
  <2>7. Publishes(t, e)
    <3>1. Head(fromModem).subject \in {"neighbour", "state", "send", "recv"} \cup Topics
      BY <1>s, <2>2, <2>t
    <3>2. ~Arrives("recv") /\ t \notin {"discovery", "protocols"}
      BY <1>s, <2>2 DEF Arrives
    <3> QED BY <1>a, <2>t, <2>1, <2>2, <2>4, <2>6, <3>1, <3>2 DEF Publishes
  <2> QED BY <2>1, <2>7, <2>t
<1>o. OK \in {OK, ERROR, EMPTY} /\ ERROR \in {OK, ERROR, EMPTY} /\ EMPTY \in {OK, ERROR, EMPTY}
      /\ STATE_ \in 0 .. 15 /\ STATES \in 0 .. 15 /\ SEND \in 0 .. 15
  BY DEF STATE_, STATES, SEND
<1>w. ASSUME NEW t \in Topics
      PROVE  Told \in Seq(Nat) /\ Kept(t) \in Seq(Nat) /\ << >> \in Seq(Nat)
             /\ Kept(t) \o Told \in Seq(Nat)
  BY <1>a, Contents
<1>k. ASSUME NEW s, NEW t \in Topics \ {"states", "data", "discovery"},
             s = t, Extract(s, t, Plain(t)), s # "recv"
      PROVE  \E topic \in Topics, entry \in Entry : Publishes(topic, entry)
  <2>1. CASE Form = "value"
    BY <1>k, <2>1, <1>p, <1>o, <1>w DEF Plain
  <2>2. CASE Form # "value"
    BY <1>k, <2>2, <1>p, <1>o, <1>w DEF Plain
  <2> QED BY <2>1, <2>2
<1>1. CASE ExtractVersion
  BY <1>1, <1>k, TopicSet DEF ExtractVersion
<1>2. CASE ExtractAddress
  BY <1>2, <1>k, TopicSet DEF ExtractAddress
<1>3. CASE ExtractProtocol
  BY <1>3, <1>k, TopicSet DEF ExtractProtocol
<1>4. CASE ExtractProtocolinfo
  BY <1>4, <1>k, TopicSet DEF ExtractProtocolinfo
<1>5. CASE ExtractRouting
  BY <1>5, <1>k, TopicSet DEF ExtractRouting
<1>6. CASE ExtractProtocols
  <2>t. "protocols" \in Topics
    BY TopicSet
  <2>1. CASE Form = "value"
    BY <1>6, <2>1, <2>t, <1>p, <1>o, <1>w DEF ExtractProtocols
  <2>2. CASE Form # "value"
    BY <1>6, <2>2, <2>t, <1>p, <1>o, <1>w DEF ExtractProtocols
  <2> QED BY <2>1, <2>2
<1>7. CASE ExtractNeighbours
  <2>t. "neighbours" \in Topics
    BY TopicSet
  <2>c. PICK colon \in BOOLEAN :
          Extract("neighbours", "neighbours",
                  CASE Form = "value" /\ ~colon -> With("neighbours", OK, Told)
                    [] Form = "error"           -> With("neighbours", ERROR, Kept("neighbours"))
                    [] OTHER                    -> With("neighbours", ERROR, << >>))
    BY <1>7 DEF ExtractNeighbours, ColonBehind
  <2>1. CASE Form = "value" /\ ~colon
    BY <2>c, <2>1, <2>t, <1>p, <1>o, <1>w
  <2>2. CASE Form = "error"
    BY <2>c, <2>2, <2>t, <1>p, <1>o, <1>w
  <2>3. CASE Form # "error" /\ ~(Form = "value" /\ ~colon)
    BY <2>c, <2>3, <2>t, <1>p, <1>o, <1>w
  <2> QED BY <2>1, <2>2, <2>3
<1>8. CASE ExtractNeighbour
  <2>t. "neighbours" \in Topics
    BY TopicSet
  <2>1. CASE Form = "ok"
    BY <1>8, <2>1, <2>t, <1>p, <1>o, <1>w DEF ExtractNeighbour
  <2>2. CASE Form # "ok"
    BY <1>8, <2>2, <2>t, <1>p, <1>o, <1>w DEF ExtractNeighbour
  <2> QED BY <2>1, <2>2
<1>9. CASE ExtractState
  <2>t. "states" \in Topics
    BY TopicSet
  <2>1. CASE Form = "value"
    BY <1>9, <2>1, <2>t, <1>s, <1>o, <1>w DEF ExtractState
  <2>2. CASE Form = "ok"
    BY <1>9, <2>2, <2>t, <1>s, <1>o, <1>w DEF ExtractState
  <2>3. CASE Form = "error"
    BY <1>9, <2>3, <2>t, <1>s, <1>o, <1>w DEF ExtractState
  <2>4. CASE Form \notin {"value", "ok", "error"}
    BY <1>9, <2>4, <2>t, <1>s, <1>o, <1>w DEF ExtractState
  <2> QED BY <2>1, <2>2, <2>3, <2>4
<1>10. CASE ExtractStates
  <2>t. "states" \in Topics
    BY TopicSet
  <2>1. CASE Form = "value"
    BY <1>10, <2>1, <2>t, <1>s, <1>o, <1>w DEF ExtractStates, Plain
  <2>2. CASE Form # "value"
    BY <1>10, <2>2, <2>t, <1>s, <1>o, <1>w DEF ExtractStates, Plain
  <2> QED BY <2>1, <2>2
<1>11. CASE ExtractStatistics
  <2>t. "statistics" \in Topics
    BY TopicSet
  <2>1. CASE Form = "value"
    BY <1>11, <2>1, <2>t, <1>p, <1>o, <1>w DEF ExtractStatistics
  <2>2. CASE Form = "ok"
    BY <1>11, <2>2, <2>t, <1>p, <1>o, <1>w DEF ExtractStatistics
  <2>3. CASE Form = "empty"
    BY <1>11, <2>3, <2>t, <1>p, <1>o, <1>w DEF ExtractStatistics
  <2>4. CASE Form = "partial"
    BY <1>11, <2>4, <2>t, <1>p, <1>o, <1>w DEF ExtractStatistics
  <2>5. CASE Form \notin {"value", "ok", "empty", "partial"}
    BY <1>11, <2>5, <2>t, <1>p, <1>o, <1>w DEF ExtractStatistics
  <2> QED BY <2>1, <2>2, <2>3, <2>4, <2>5
<1>12. CASE ExtractSend
  <2>t. "data" \in Topics
    BY TopicSet
  <2>1. CASE Form = "value"
    BY <1>12, <2>1, <2>t, <1>s, <1>o, <1>w DEF ExtractSend
  <2>2. CASE Form = "ok"
    BY <1>12, <2>2, <2>t, <1>s, <1>o, <1>w DEF ExtractSend
  <2>3. CASE Form \notin {"value", "ok"}
    BY <1>12, <2>3, <2>t, <1>s, <1>o, <1>w DEF ExtractSend
  <2> QED BY <2>1, <2>2, <2>3
<1>13. CASE ExtractDiscovery
  <2>t. "discovery" \in Topics
    BY TopicSet
  <2>1. CASE Form = "ok"
    BY <1>13, <2>1, <2>t, <1>p, <1>o, <1>w DEF ExtractDiscovery
  <2>2. CASE Form = "value"
    BY <1>13, <2>2, <2>t, <1>p, <1>o, <1>w DEF ExtractDiscovery
  <2>3. CASE Form \notin {"ok", "value"}
    BY <1>13, <2>3, <2>t, <1>p, <1>o, <1>w DEF ExtractDiscovery
  <2> QED BY <2>1, <2>2, <2>3
<1>14. CASE ExtractPolling
  <2>t. "polling" \in Topics
    BY TopicSet
  <2>1. CASE Form = "value"
    BY <1>14, <2>1, <2>t, <1>p, <1>o, <1>w DEF ExtractPolling
  <2>2. CASE Form = "ok"
    BY <1>14, <2>2, <2>t, <1>p, <1>o, <1>w DEF ExtractPolling
  <2>3. CASE Form \notin {"value", "ok"}
    BY <1>14, <2>3, <2>t, <1>p, <1>o, <1>w DEF ExtractPolling
  <2> QED BY <2>1, <2>2, <2>3
<1>15. CASE RcvExtract
  <2>t. "data" \in Topics
    BY TopicSet
  <2>2. Received \in Entry /\ Received.status # UNDEFINED
    BY ReceivedType
  <2>3. Publishes("data", Received)
    BY <1>15, <1>a, <2>t, <2>2 DEF Publishes, RcvExtract, Arrives
  <2> QED BY <2>t, <2>2, <2>3
<1> QED
  BY <1>1, <1>2, <1>3, <1>4, <1>5, <1>6, <1>7, <1>8, <1>9, <1>10, <1>11, <1>12, <1>13,
     <1>14, <1>15
  DEF ExtractSubject

-----------------------------------------------------------------------------
(* Type correctness.                                                       *)

(* The nodes start with the types they keep.                               *)
LEMMA TypeInit == Init => Typed
<1> SUFFICES ASSUME Init PROVE Typed
  OBVIOUS
<1>1. cached \in [Topics -> Entry]
  BY TopicSet, EmptySeq DEF Init, Entry, UNDEFINED
<1>2. \A t \in Topics \ {"states", "data"} : cached[t].subject = SubjectOf[t]
  BY DEF Init
<1>3. /\ inbox \in Seq(Message) /\ toModem \in Seq(Request) /\ fromModem \in Seq(Answer)
  BY EmptySeq DEF Init
<1>4. waiting \in [Topics -> Request \cup {NoRequest}] /\ pending \in Request \cup {NoRequest}
  BY DEF Init
<1>5. counts \in [requests : Nat, reports : Nat, losses : Nat]
  BY DEF Init
<1> QED BY <1>1, <1>2, <1>3, <1>4, <1>5 DEF Init, Typed, TypeOK, Entry

(* A message made of an entry.                                             *)
LEMMA MessageType ==
  ASSUME Typed, NEW t \in Topics, NEW e \in Entry, Publishes(t, e)
  PROVE  [topic |-> t, id |-> e.id, subject |-> e.subject, status |-> e.status,
          content |-> e.content, answers |-> Head(fromModem).answers, form |-> Form] \in Message
BY DEF Publishes, Message, Entry, Answer, Form

(* Every step keeps the types.                                             *)
LEMMA TypeStep == ASSUME Typed, [Next]_vars PROVE Typed'
<1> USE DEF Typed
<1>1. ASSUME NEW r \in Requests, Ask(r) PROVE Typed'
  <2>1. r \in Request
    BY RequestsAssumption
  <2>2. [topic |-> r.topic, id |-> r.id, subject |-> r.subject,
         status |-> UNDEFINED, content |-> r.content,
         answers |-> NoRequest, form |-> "request"] \in Message
    BY <2>1, EmptySeq DEF Message, Request, UNDEFINED
  <2>3. inbox' \in Seq(Message)
    BY <1>1, <2>2, Appended DEF Ask, TypeOK
  <2>4. waiting' \in [Topics -> Request \cup {NoRequest}]
    BY <1>1, <2>1 DEF Ask, TypeOK
  <2>5. counts' \in [requests : Nat, reports : Nat, losses : Nat]
    <3>1. counts' = [counts EXCEPT !.requests = @ + 1]
      BY <1>1 DEF Ask
    <3>2. counts \in [requests : Nat, reports : Nat, losses : Nat]
      OBVIOUS
    <3>3. counts.requests + 1 \in Nat
      BY <3>2
    <3> QED BY <3>1, <3>2, <3>3
  <2> QED BY <1>1, <2>3, <2>4, <2>5 DEF Ask, TypeOK, rosVars, timerVars, wireVars
<1>2. ASSUME NEW t \in Topics, GiveUp(t) PROVE Typed'
  BY <1>2 DEF GiveUp, TypeOK, rosVars, timerVars, wireVars
<1>3. CASE IgnoreOwn
  BY <1>3, Taken DEF IgnoreOwn, TypeOK, rosVars, timerVars, wireVars
<1>4. CASE RosCallback /\ ~IgnoreOwn
  <2>1. PICK t \in Topics, e \in Entry, b \in BOOLEAN : Caches(t, e, b)
    BY <1>4, Caching
  <2>2. inbox' \in Seq(Message)
    BY <2>1, Taken DEF Caches, Callback, TypeOK
  <2>3. cached' \in [Topics -> Entry]
    BY <2>1 DEF Caches, Callback, TypeOK, Entry
  <2>4. \A u \in Topics \ {"states", "data"} : cached'[u].subject = SubjectOf[u]
    BY <2>1 DEF Caches, Callback, TypeOK
  <2>5. ros' \in {"idle", "send", "arm"} /\ pending' \in Request \cup {NoRequest}
    <3>1. [topic |-> t, id |-> Head(inbox).id, subject |-> Head(inbox).subject,
           content |-> Head(inbox).content] \in Request
      BY <2>1 DEF Caches, Message, Request
    <3>2. CASE b
      BY <2>1, <3>1, <3>2 DEF Caches, Callback
    <3>3. CASE ~b
      BY <2>1, <3>3 DEF Caches, Callback, rosVars, TypeOK
    <3> QED BY <3>2, <3>3
  <2>6. ros' # "idle" => pending' \in Request
    <3>1. [topic |-> t, id |-> Head(inbox).id, subject |-> Head(inbox).subject,
           content |-> Head(inbox).content] \in Request
      BY <2>1 DEF Caches, Message, Request
    <3> QED BY <2>1, <3>1 DEF Caches, Callback, rosVars
  <2> QED BY <2>1, <2>2, <2>3, <2>4, <2>5, <2>6
          DEF Caches, Callback, TypeOK, Entry, timerVars, wireVars
<1>5. CASE SendSync
  <2>1. toModem' \in Seq(Request)
    <3>1. Append(toModem, pending) \in Seq(Request)
      BY <1>5, Appended DEF TypeOK, SendSync
    <3> QED BY <1>5, <3>1 DEF SendSync, TypeOK
  <2> QED BY <1>5, <2>1 DEF SendSync, TypeOK, timerVars
<1>6. CASE ArmTimer
  BY <1>6 DEF ArmTimer, TypeOK, wireVars
<1>7. CASE (ExtractSubject \/ RcvExtract) /\ ~ExtractReport /\ ~ExtractUnknown
  <2>1. PICK t \in Topics, e \in Entry : Publishes(t, e)
    BY <1>7, Publishing
  <2>2. inbox' \in Seq(Message)
    BY <2>1, MessageType, Appended DEF Publishes, PublishOn, TypeOK
  <2>3. cached' \in [Topics -> Entry]
    BY <2>1 DEF Publishes, PublishOn, TypeOK, Entry
  <2>4. \A u \in Topics \ {"states", "data"} : cached'[u].subject = SubjectOf[u]
    BY <2>1 DEF Publishes, PublishOn, TypeOK
  <2>5. waiting' \in [Topics -> Request \cup {NoRequest}] /\ due' \subseteq Topics
    BY <2>1 DEF Publishes, PublishOn, TypeOK
  <2>6. fromModem' \in Seq(Answer)
    BY <2>1, Taken DEF Publishes, PublishOn
  <2>7. timer' \in {"idle", "armed"}
    BY <2>1 DEF Publishes, PublishOn, TypeOK
  <2> QED BY <2>1, <2>2, <2>3, <2>4, <2>5, <2>6, <2>7
          DEF Publishes, PublishOn, TypeOK, Entry, rosVars
<1>8. CASE ExtractReport \/ ExtractUnknown
  <2>1. fromModem' \in Seq(Answer)
    <3>1. fromModem # << >> /\ fromModem' = Tail(fromModem)
      BY <1>8 DEF ExtractReport, ExtractUnknown, Arrives
    <3> QED BY <3>1, Taken
  <2> QED BY <1>8, <2>1 DEF ExtractReport, ExtractUnknown, TypeOK, rosVars, timerVars
<1>9. CASE RcvIncomplete
  <2>1. cached' \in [Topics -> Entry]
    BY <1>9, ReceivedType DEF RcvIncomplete, TypeOK, Entry
  <2>2. \A u \in Topics \ {"states", "data"} : cached'[u].subject = SubjectOf[u]
    BY <1>9 DEF RcvIncomplete, TypeOK
  <2> QED BY <1>9, <2>1, <2>2 DEF RcvIncomplete, TypeOK, Entry, rosVars, timerVars, wireVars
<1>10. CASE HandleAnswerTimeout
  BY <1>10 DEF HandleAnswerTimeout, TypeOK, rosVars, wireVars
<1>11. CASE TimerExpires
  BY <1>11 DEF TimerExpires, TypeOK, rosVars, wireVars
<1>12. CASE ModemAnswers
  <2> DEFINE h == Head(toModem)
  <2>1. h \in Request /\ toModem' \in Seq(Request)
    BY <1>12, Taken DEF ModemAnswers, TypeOK
  <2>2. PICK form \in Forms(AnswerSubject(h)) :
          fromModem' = Append(fromModem, Telegram(AnswerSubject(h), form, h))
    BY <1>12 DEF ModemAnswers
  <2>3. Telegram(AnswerSubject(h), form, h) \in Answer
    <3> HIDE DEF h
    <3>1. AnswerSubject(h) \in {"neighbour", "state", "send"} \cup Topics
      BY <2>1, SubjectType
    <3>2. form \in {"ok", "error", "value", "malformed", "partial", "empty"}
      BY FormType
    <3>3. Telegram(AnswerSubject(h), form, h).content \in Seq(Nat)
      BY EmptySeq DEF Telegram
    <3> QED BY <2>1, <3>1, <3>2, <3>3 DEF Telegram, Answer
  <2>4. fromModem' \in Seq(Answer)
    BY <2>2, <2>3, Appended
  <2> QED BY <1>12, <2>1, <2>4 DEF ModemAnswers, TypeOK, rosVars, timerVars
<1>13. CASE ModemReports
  <2>1. PICK subject \in Reports : fromModem' = Append(fromModem, Telegram(subject, "value", NoRequest))
    BY <1>13 DEF ModemReports
  <2>2. Telegram(subject, "value", NoRequest) \in Answer
    <3>1. Telegram(subject, "value", NoRequest).content \in Seq(Nat)
      BY EmptySeq DEF Telegram
    <3> QED BY <3>1 DEF Telegram, Answer
  <2>3. fromModem' \in Seq(Answer)
    BY <2>1, <2>2, Appended
  <2>4. counts' \in [requests : Nat, reports : Nat, losses : Nat]
    <3>1. counts' = [counts EXCEPT !.reports = @ + 1]
      BY <1>13 DEF ModemReports
    <3>2. counts.reports + 1 \in Nat
      OBVIOUS
    <3> QED BY <3>1, <3>2
  <2> QED BY <1>13, <2>3, <2>4 DEF ModemReports, TypeOK, rosVars, timerVars
<1>14. CASE Disconnected
  <2>1. fromModem' \in Seq(Answer)
    <3>1. PICK k \in 0 .. Len(fromModem) : fromModem' = SubSeq(fromModem, 1, k)
      BY <1>14 DEF Disconnected
    <3> QED BY <3>1, SubSeqProperties
  <2>2. counts' \in [requests : Nat, reports : Nat, losses : Nat]
    BY <1>14 DEF Disconnected
  <2> QED BY <1>14, <2>1, <2>2, EmptySeq DEF Disconnected, TypeOK, rosVars, timerVars
<1>15. CASE Connected
  BY <1>15 DEF Connected, TypeOK, rosVars, timerVars
<1>16. CASE UNCHANGED vars
  BY <1>16 DEF vars, TypeOK
<1>17. CASE RcvDropped
  <2>1. cached' \in [Topics -> Entry]
    BY <1>17, ReceivedType DEF RcvDropped, TypeOK, Entry
  <2>2. \A u \in Topics \ {"states", "data"} : cached'[u].subject = SubjectOf[u]
    BY <1>17 DEF RcvDropped, TypeOK
  <2>3. fromModem' \in Seq(Answer)
    BY <1>17, Taken DEF RcvDropped, Arrives
  <2> QED BY <1>17, <2>1, <2>2, <2>3 DEF RcvDropped, TypeOK, Entry, rosVars, timerVars
<1> QED
  BY <1>1, <1>2, <1>3, <1>4, <1>5, <1>6, <1>7, <1>8, <1>9, <1>10, <1>11, <1>12, <1>13,
     <1>14, <1>15, <1>16, <1>17
  DEF Next, RosThread, IoThread

(* The messages, the caches and what is under way are of their types: no   *)
(* callback and no extractor of parser.h writes another topic's subject    *)
(* into a cached message, but those of states and data.                    *)
THEOREM TypeCorrect == Spec => []TypeOK
<1>1. Spec => []Typed
  BY TypeInit, TypeStep, PTL DEF Spec
<1>2. Typed => TypeOK
  BY DEF Typed
<1> QED BY <1>1, <1>2, PTL

-----------------------------------------------------------------------------
(* What is under way.                                                      *)

(* An answer of the modem is one that AnswerSubject and Forms allow; what  *)
(* answers nothing is a report.                                            *)
AnswersFit ==
  \A i \in DOMAIN fromModem :
    /\ fromModem[i].answers = NoRequest => fromModem[i].subject \in Reports
    /\ fromModem[i].answers # NoRequest =>
         /\ fromModem[i].subject = AnswerSubject(fromModem[i].answers)
         /\ fromModem[i].form \in Forms(fromModem[i].subject)

(* Where a request on a topic can be: in the queue of the callbacks, in    *)
(* sendSync, on its way to the modem, or answered and on its way back.     *)
Called(t)   == \E i \in DOMAIN inbox : inbox[i].status = UNDEFINED /\ inbox[i].topic = t
Sending(t)  == ros = "send" /\ pending.topic = t
Owed(t)     == \E i \in DOMAIN toModem : toModem[i].topic = t
Answered(t) == \E i \in DOMAIN fromModem : fromModem[i].answers.topic = t

(* No two requests of a topic are in one place,                            *)
Once ==
  /\ \A i, j \in DOMAIN inbox :
       inbox[i].status = UNDEFINED /\ inbox[j].status = UNDEFINED
         /\ inbox[i].topic = inbox[j].topic => i = j
  /\ \A i, j \in DOMAIN toModem : toModem[i].topic = toModem[j].topic => i = j
  /\ \A i, j \in DOMAIN fromModem :
       fromModem[i].answers # NoRequest
         /\ fromModem[i].answers.topic = fromModem[j].answers.topic => i = j

(* nor in two.                                                             *)
Exclusive ==
  \A t \in Topics :
    /\ Called(t) => ~Sending(t) /\ ~Owed(t) /\ ~Answered(t)
    /\ Sending(t) => ~Owed(t) /\ ~Answered(t)
    /\ Owed(t) => ~Answered(t)

(* Whatever is under way is what a client waits for.                       *)
Awaited ==
  /\ \A t \in Topics : waiting[t] # NoRequest => waiting[t] \in Requests /\ waiting[t].topic = t
  /\ \A i \in DOMAIN inbox : inbox[i].status = UNDEFINED =>
       waiting[inbox[i].topic] = [topic |-> inbox[i].topic, id |-> inbox[i].id,
                                  subject |-> inbox[i].subject, content |-> inbox[i].content]
  /\ ros = "send" => waiting[pending.topic] = pending
  /\ \A i \in DOMAIN toModem : waiting[toModem[i].topic] = toModem[i]
  /\ \A i \in DOMAIN fromModem : fromModem[i].answers # NoRequest =>
       waiting[fromModem[i].answers.topic] = fromModem[i].answers

(* Once its callback has run, the cached message remembers the request.    *)
Remembers(t) ==
  /\ cached[t].id = waiting[t].id
  /\ t = "states" => /\ cached[t].subject = waiting[t].subject
                     /\ waiting[t].subject \in {STATE_, STATES}
  /\ t = "discovery" => cached[t].content = waiting[t].content

Remembered == \A t \in Topics : Sending(t) \/ Owed(t) \/ Answered(t) => Remembers(t)

OneRequestPerTopic == Once /\ Exclusive /\ Awaited /\ Remembered

(* The request that an answer belongs to, as its extractor knows it.       *)
LEMMA Answering ==
  ASSUME Typed, AnswersFit, NEW t \in Topics, NEW e \in Entry, Publishes(t, e),
         Head(fromModem).answers # NoRequest
  PROVE  /\ ~Arrives("recv")
         /\ Head(fromModem).answers \in Request /\ t = Head(fromModem).answers.topic
         /\ Head(fromModem).subject = AnswerSubject(Head(fromModem).answers)
         /\ Form \in Forms(Head(fromModem).subject)
<1> DEFINE h == Head(fromModem)
<1>1. fromModem # << >> /\ h \in Answer
  BY DEF Publishes
<1>2. h = fromModem[1] /\ 1 \in DOMAIN fromModem
  BY <1>1, Taken DEF Typed
<1>3. h.answers \in Request
  BY <1>1 DEF Answer
<1>4. h.subject = AnswerSubject(h.answers) /\ h.form \in Forms(h.subject)
  BY <1>2 DEF AnswersFit
<1> HIDE DEF h
<1>5. h.subject # "recv"
  BY <1>3, <1>4, SubjectType, TopicSet
<1>6. ~Arrives("recv")
  BY <1>5 DEF Arrives, h
<1>7. t = h.answers.topic
  BY <1>3, <1>4, <1>6 DEF Publishes, h
<1> QED BY <1>3, <1>4, <1>6, <1>7 DEF h, Form

(* Every step keeps what is under way from the modem an answer to its      *)
(* request: only the modem adds to it.                                     *)
LEMMA FitStep == ASSUME Typed, AnswersFit, [Next]_vars PROVE AnswersFit'
<1>u. ASSUME UNCHANGED fromModem PROVE AnswersFit'
  BY <1>u DEF AnswersFit
<1>t. ASSUME fromModem # << >>, fromModem' = Tail(fromModem) PROVE AnswersFit'
  BY <1>t, Taken DEF AnswersFit, Typed
<1>1. ASSUME NEW r \in Requests, Ask(r) PROVE AnswersFit'
  BY <1>1, <1>u DEF Ask, wireVars
<1>2. ASSUME NEW t \in Topics, GiveUp(t) PROVE AnswersFit'
  BY <1>2, <1>u DEF GiveUp, wireVars
<1>3. CASE IgnoreOwn
  BY <1>3, <1>u DEF IgnoreOwn, wireVars
<1>4. CASE RosCallback /\ ~IgnoreOwn
  BY <1>4, <1>u, Caching DEF Caches, Callback, wireVars, Typed
<1>5. CASE SendSync \/ ArmTimer \/ RcvIncomplete \/ HandleAnswerTimeout \/ TimerExpires \/ Connected
  BY <1>5, <1>u DEF SendSync, ArmTimer, RcvIncomplete, HandleAnswerTimeout, TimerExpires,
                    Connected, wireVars
<1>6. CASE (ExtractSubject \/ RcvExtract) /\ ~ExtractReport /\ ~ExtractUnknown
  BY ZenonT(30), <1>6, <1>t, Publishing DEF Publishes, PublishOn
<1>7. CASE ExtractReport \/ ExtractUnknown \/ RcvDropped
  BY <1>7, <1>t DEF ExtractReport, ExtractUnknown, RcvDropped, Arrives
<1>8. CASE ModemAnswers
  <2> DEFINE h == Head(toModem)
  <2>1. h \in Request
    BY <1>8, Taken DEF ModemAnswers, Typed, TypeOK
  <2>2. PICK form \in Forms(AnswerSubject(h)) :
          fromModem' = Append(fromModem, Telegram(AnswerSubject(h), form, h))
    BY <1>8 DEF ModemAnswers
  <2> HIDE DEF h
  <2>3. h # NoRequest
    BY <2>1, RequestTopic
  <2> DEFINE a == Telegram(AnswerSubject(h), form, h)
  <2>4. a.subject = AnswerSubject(h) /\ a.form = form /\ a.answers = h
    BY DEF Telegram
  <2> HIDE DEF a
  <2>5. \A i \in DOMAIN fromModem' : (i \in DOMAIN fromModem /\ fromModem'[i] = fromModem[i])
                                     \/ fromModem'[i] = a
    BY <2>2, AppendProperties, LenProperties DEF Typed, a
  <2> QED BY <2>2, <2>3, <2>4, <2>5 DEF AnswersFit
<1>9. CASE ModemReports
  <2>1. PICK subject \in Reports : fromModem' = Append(fromModem, Telegram(subject, "value", NoRequest))
    BY <1>9 DEF ModemReports
  <2> DEFINE a == Telegram(subject, "value", NoRequest)
  <2>2. a.subject = subject /\ a.answers = NoRequest
    BY DEF Telegram
  <2> HIDE DEF a
  <2>3. \A i \in DOMAIN fromModem' : (i \in DOMAIN fromModem /\ fromModem'[i] = fromModem[i])
                                     \/ fromModem'[i] = a
    BY <2>1, AppendProperties, LenProperties DEF Typed, a
  <2> QED BY <2>1, <2>2, <2>3 DEF AnswersFit
<1>10. CASE Disconnected
  BY <1>10, Prefix DEF AnswersFit, Typed, Disconnected
<1>11. CASE UNCHANGED vars
  BY <1>11, <1>u DEF vars
<1> QED
  BY <1>1, <1>2, <1>3, <1>4, <1>5, <1>6, <1>7, <1>8, <1>9, <1>10, <1>11
  DEF Next, RosThread, IoThread

-----------------------------------------------------------------------------
(* What the node hears of itself.                                          *)

(* The message that an extractor publishes.                                *)
Made(t, e) ==
  [topic |-> t, id |-> e.id, subject |-> e.subject, status |-> e.status,
   content |-> e.content, answers |-> Head(fromModem).answers, form |-> Form]

(* Nothing but an extractor publishes.                                     *)
LEMMA PublishedStep ==
  ASSUME Typed, [Next]_vars
  PROVE  \/ Published' \subseteq Published
         \/ \E t \in Topics, e \in Entry :
              Publishes(t, e) /\ Published' \subseteq Published \cup {Made(t, e)}
<1>u. ASSUME UNCHANGED inbox PROVE Published' \subseteq Published
  BY <1>u DEF Published
<1>t. ASSUME inbox # << >>, inbox' = Tail(inbox) PROVE Published' \subseteq Published
  BY <1>t, Taken DEF Published, Typed, TypeOK
<1>1. ASSUME NEW r \in Requests, Ask(r) PROVE Published' \subseteq Published
  <2> DEFINE m == [topic |-> r.topic, id |-> r.id, subject |-> r.subject,
                   status |-> UNDEFINED, content |-> r.content,
                   answers |-> NoRequest, form |-> "request"]
  <2>1. m.form = "request"
    OBVIOUS
  <2>2. inbox' = Append(inbox, m)
    BY <1>1 DEF Ask
  <2> HIDE DEF m
  <2>3. \A i \in DOMAIN inbox' : (i \in DOMAIN inbox /\ inbox'[i] = inbox[i]) \/ inbox'[i] = m
    BY <2>2, AppendProperties, LenProperties DEF Typed, TypeOK
  <2> QED BY <2>1, <2>3 DEF Published
<1>2. ASSUME NEW t \in Topics, GiveUp(t) PROVE Published' \subseteq Published
  BY <1>2, <1>u DEF GiveUp
<1>3. CASE IgnoreOwn
  BY <1>3, <1>t DEF IgnoreOwn
<1>4. CASE RosCallback /\ ~IgnoreOwn
  BY <1>4, <1>t, Caching DEF Caches, Callback, Typed
<1>5. CASE SendSync \/ ArmTimer \/ RcvIncomplete \/ RcvDropped \/ HandleAnswerTimeout
             \/ TimerExpires \/ Connected \/ ExtractReport \/ ExtractUnknown \/ ModemAnswers \/ ModemReports
             \/ Disconnected \/ UNCHANGED vars
  BY <1>5, <1>u DEF SendSync, ArmTimer, RcvIncomplete, RcvDropped, HandleAnswerTimeout,
                    TimerExpires, Connected, ExtractReport, ExtractUnknown, ModemAnswers, ModemReports,
                    Disconnected, vars
<1>6. CASE (ExtractSubject \/ RcvExtract) /\ ~ExtractReport /\ ~ExtractUnknown
  <2>1. PICK t \in Topics, e \in Entry : Publishes(t, e)
    BY <1>6, Publishing
  <2>2. inbox' = Append(inbox, Made(t, e))
    BY <2>1 DEF Publishes, PublishOn, Made
  <2>3. \A i \in DOMAIN inbox' : (i \in DOMAIN inbox /\ inbox'[i] = inbox[i])
                                 \/ inbox'[i] = Made(t, e)
    BY <2>2, AppendProperties, LenProperties DEF Typed, TypeOK
  <2>4. Published' \subseteq Published \cup {Made(t, e)}
    BY <2>3 DEF Published
  <2> QED BY <2>1, <2>4
<1> QED
  BY <1>1, <1>2, <1>3, <1>4, <1>5, <1>6 DEF Next, RosThread, IoThread

(* What is published has a status, and a request has none: the invariant   *)
(* is kept by whatever publishes.                                          *)
LEMMA OwnStep ==
  ASSUME Typed, OwnAnswersIgnored, [Next]_vars PROVE OwnAnswersIgnored'
<1>1. CASE Published' \subseteq Published
  BY <1>1 DEF OwnAnswersIgnored
<1>2. ASSUME NEW t \in Topics, NEW e \in Entry, Publishes(t, e),
             Published' \subseteq Published \cup {Made(t, e)}
      PROVE  OwnAnswersIgnored'
  <2>1. Made(t, e).status = e.status /\ e.status # UNDEFINED
    BY <1>2 DEF Made, Publishes
  <2> QED BY <1>2, <2>1 DEF OwnAnswersIgnored
<1> QED BY <1>1, <1>2, PublishedStep

(* Nothing is published or under way at the start.                         *)
LEMMA QuietInit == Init => AnswersFit /\ Published = {}
<1> SUFFICES ASSUME Init PROVE AnswersFit /\ Published = {}
  OBVIOUS
<1>1. DOMAIN inbox = {} /\ DOMAIN fromModem = {}
  BY DEF Init
<1> QED BY <1>1 DEF AnswersFit, Published

(* No answer and no report that parser.h publishes comes back to its       *)
(* callbacks as a request.                                                 *)
THEOREM NoAnswerIsARequest == Spec => []OwnAnswersIgnored
<1>1. Init => Typed /\ OwnAnswersIgnored
  BY TypeInit, QuietInit DEF OwnAnswersIgnored
<1>2. Typed /\ OwnAnswersIgnored /\ [Next]_vars => Typed' /\ OwnAnswersIgnored'
  BY TypeStep, OwnStep
<1> QED BY <1>1, <1>2, PTL DEF Spec

-----------------------------------------------------------------------------
(* Clients that wait for one another on a topic.                           *)

(* The hypotheses on the clients and on the modem: no client asks on a     *)
(* topic on which an answer is awaited, none leaves while its request or   *)
(* the answer is under way, the modem sends the reports that parser.h      *)
(* knows, and received data, which are published on the topic of the       *)
(* requests to send, meet none of these.                                   *)
Calm ==
  /\ Patience # "none" /\ Stay
  /\ Reports \subseteq {"delivered", "recv", "unknown"}
  /\ "recv" \in Reports => \A r \in Requests : r.topic # "data"

(* A client that waits for its answers asks only where none is awaited.    *)
LEMMA Patient == ASSUME Calm, NEW t \in Topics, MayAsk(t) PROVE waiting[t] = NoRequest
BY BoundsAssumption DEF Calm, MayAsk

(* Nothing is under way on a topic on which nobody waits.                  *)
LEMMA Free ==
  ASSUME Typed, Awaited, NEW t \in Topics, waiting[t] = NoRequest
  PROVE  ~Called(t) /\ ~Sending(t) /\ ~Owed(t) /\ ~Answered(t)
<1>1. ~Called(t)
  <2> SUFFICES ASSUME NEW i \in DOMAIN inbox, inbox[i].status = UNDEFINED, inbox[i].topic = t
               PROVE  FALSE
    BY DEF Called
  <2>1. waiting[t] = [topic |-> t, id |-> inbox[i].id, subject |-> inbox[i].subject,
                      content |-> inbox[i].content]
    BY DEF Awaited
  <2>2. waiting[t].topic = t
    BY <2>1
  <2> QED BY <2>2, RequestTopic
<1>2. ~Sending(t)
  BY RequestTopic DEF Sending, Awaited, Typed
<1>3. ~Owed(t)
  <2> SUFFICES ASSUME NEW i \in DOMAIN toModem, toModem[i].topic = t PROVE FALSE
    BY DEF Owed
  <2>1. toModem[i] \in Request
    BY ElementOfSeq, LenProperties DEF Typed, TypeOK
  <2> QED BY <2>1, RequestTopic DEF Awaited
<1>4. ~Answered(t)
  <2> SUFFICES ASSUME NEW i \in DOMAIN fromModem, fromModem[i].answers.topic = t PROVE FALSE
    BY DEF Answered
  <2>1. fromModem[i].answers # NoRequest
    BY RequestTopic
  <2> QED BY <2>1 DEF Awaited
<1> QED BY <1>1, <1>2, <1>3, <1>4

(* What a report carries does not touch a topic on which a client waits.   *)
LEMMA ReportTopic ==
  ASSUME Typed, AnswersFit, Awaited, Calm, Arrives("recv")
  PROVE  Head(fromModem).answers = NoRequest /\ waiting["data"] = NoRequest
<1> DEFINE h == Head(fromModem)
<1>1. h = fromModem[1] /\ 1 \in DOMAIN fromModem /\ h \in Answer /\ h.subject = "recv"
  BY Taken DEF Typed, Arrives
<1>2. h.answers = NoRequest
  <2> SUFFICES ASSUME h.answers # NoRequest PROVE FALSE
    OBVIOUS
  <2>1. h.answers \in Request
    BY <1>1 DEF Answer
  <2>2. h.subject = AnswerSubject(h.answers)
    BY <1>1 DEF AnswersFit
  <2> HIDE DEF h
  <2> QED BY <2>1, <2>2, <1>1, SubjectType, TopicSet
<1>3. "recv" \in Reports
  BY <1>1, <1>2 DEF AnswersFit
<1> QED BY <1>2, <1>3, TopicSet DEF Calm, Awaited

(* An extractor publishes an awaited answer or received data.              *)
LEMMA PublishedAnswer ==
  ASSUME Typed, AnswersFit, Awaited, Calm, NEW t \in Topics, NEW e \in Entry, Publishes(t, e)
  PROVE  \/ /\ Head(fromModem).answers \in Request /\ t = Head(fromModem).answers.topic
            /\ Head(fromModem).answers = waiting[t] /\ ~Arrives("recv") /\ Answered(t)
            /\ Head(fromModem).subject = AnswerSubject(waiting[t])
         \/ /\ Head(fromModem).answers = NoRequest /\ waiting[t] = NoRequest /\ t = "data"
            /\ Arrives("recv")
<1> DEFINE h == Head(fromModem)
<1>1. fromModem # << >> /\ h = fromModem[1] /\ 1 \in DOMAIN fromModem /\ h \in Answer
  BY Taken DEF Typed, Publishes
<1>2. CASE h.answers # NoRequest
  <2>1. /\ ~Arrives("recv") /\ h.answers \in Request /\ t = h.answers.topic
        /\ h.subject = AnswerSubject(h.answers)
    BY <1>2, Answering
  <2>2. h.answers = waiting[t]
    BY <1>1, <1>2, <2>1 DEF Awaited
  <2>3. Answered(t)
    BY <1>1, <2>1 DEF Answered
  <2> QED BY <2>1, <2>2, <2>3
<1>3. CASE h.answers = NoRequest
  <2>1. h.subject \in {"delivered", "recv", "unknown"}
    BY <1>1, <1>3 DEF AnswersFit, Calm
  <2>2. h.subject = "recv"
    <3>1. h.subject \in {"neighbour", "state", "send", "recv"} \cup Topics
      BY DEF Publishes
    <3> QED BY <2>1, <3>1, TopicSet
  <2>3. Arrives("recv")
    BY <1>1, <2>2 DEF Arrives
  <2>4. t = "data"
    BY <2>3 DEF Publishes
  <2> QED BY <1>3, <2>3, <2>4, ReportTopic
<1> QED BY <1>2, <1>3

(* The elements of the queues.                                             *)
LEMMA UnderWayType ==
  ASSUME Typed
  PROVE  /\ \A i \in DOMAIN inbox : inbox[i] \in Message
         /\ \A i \in DOMAIN toModem : toModem[i] \in Request
         /\ \A i \in DOMAIN fromModem : fromModem[i] \in Answer
         /\ \A i \in DOMAIN fromModem :
              fromModem[i].answers # NoRequest => fromModem[i].answers \in Request
<1>1. \A i \in DOMAIN fromModem : fromModem[i] \in Answer
  BY ElementOfSeq, LenProperties DEF Typed
<1> QED BY <1>1, ElementOfSeq, LenProperties DEF Typed, TypeOK, Answer

(* Steps that lose what is under way, or leave it alone.                   *)
LEMMA OneLost ==
  ASSUME OneRequestPerTopic, UNCHANGED <<cached, waiting>>,
         UNCHANGED inbox,
         ros' = "send" => ros = "send" /\ pending' = pending,
         toModem' = toModem \/ DOMAIN toModem' = {},
         \A i \in DOMAIN fromModem' : i \in DOMAIN fromModem /\ fromModem'[i] = fromModem[i]
  PROVE  OneRequestPerTopic'
<1>1. \A t \in Topics : /\ Called(t)' => Called(t)
                        /\ Sending(t)' => Sending(t)
                        /\ Owed(t)' => Owed(t)
                        /\ Answered(t)' => Answered(t)
  BY DEF Called, Sending, Owed, Answered
<1>2. Once'
  BY DEF OneRequestPerTopic, Once
<1>3. Exclusive'
  BY <1>1 DEF OneRequestPerTopic, Exclusive
<1>4. Awaited'
  BY DEF OneRequestPerTopic, Awaited
<1>5. Remembered'
  BY <1>1 DEF OneRequestPerTopic, Remembered, Remembers
<1> QED BY <1>2, <1>3, <1>4, <1>5 DEF OneRequestPerTopic

(* A client asks on a topic where nothing is under way, ...                *)
LEMMA OneAsk ==
  ASSUME Typed, Calm, OneRequestPerTopic, NEW r \in Requests, Ask(r)
  PROVE  OneRequestPerTopic'
<1> DEFINE t == r.topic
           m == [topic |-> t, id |-> r.id, subject |-> r.subject,
                 status |-> UNDEFINED, content |-> r.content,
                 answers |-> NoRequest, form |-> "request"]
<1>1. r \in Request /\ t \in Topics
  BY RequestsAssumption, RequestTopic
<1>2. waiting[t] = NoRequest
  BY <1>1, Patient DEF Ask
<1>3. ~Called(t) /\ ~Sending(t) /\ ~Owed(t) /\ ~Answered(t)
  BY <1>1, <1>2, Free DEF OneRequestPerTopic
<1>4. /\ m.topic = t /\ m.status = UNDEFINED
      /\ [topic |-> m.topic, id |-> m.id, subject |-> m.subject, content |-> m.content] = r
  BY <1>1 DEF Request
<1>5. /\ inbox' = Append(inbox, m) /\ waiting' = [waiting EXCEPT ![t] = r]
      /\ UNCHANGED <<cached, ros, pending, toModem, fromModem>>
  BY DEF Ask, rosVars, wireVars
<1> HIDE DEF m
<1>6. \A i \in DOMAIN inbox' : \/ i \in DOMAIN inbox /\ inbox'[i] = inbox[i]
                               \/ i = Len(inbox) + 1 /\ inbox'[i] = m
  BY <1>5, AppendProperties, LenProperties DEF Typed, TypeOK
<1>7. waiting'[t] = r /\ \A u \in Topics : u # t => waiting'[u] = waiting[u]
  BY <1>1, <1>5 DEF Typed, TypeOK
<1> HIDE DEF t
<1>8. \A u \in Topics : /\ Called(u)' => Called(u) \/ u = t
                        /\ Sending(u)' => Sending(u)
                        /\ Owed(u)' => Owed(u)
                        /\ Answered(u)' => Answered(u)
  BY <1>4, <1>5, <1>6 DEF Called, Sending, Owed, Answered
<1>9. Once'
  <2>1. \A i \in DOMAIN inbox : inbox[i].status = UNDEFINED => inbox[i].topic # t
    BY <1>3 DEF Called
  <2>2. ASSUME NEW i \in DOMAIN inbox', NEW j \in DOMAIN inbox',
               inbox'[i].status = UNDEFINED, inbox'[j].status = UNDEFINED,
               inbox'[i].topic = inbox'[j].topic
        PROVE  i = j
    BY <2>1, <2>2, <1>4, <1>6 DEF OneRequestPerTopic, Once
  <2> QED BY <2>2, <1>5 DEF OneRequestPerTopic, Once
<1>10. Exclusive'
  BY <1>3, <1>8 DEF OneRequestPerTopic, Exclusive
<1>11. Awaited'
  <2>1. \A u \in Topics : waiting'[u] # NoRequest => waiting'[u] \in Requests /\ waiting'[u].topic = u
    BY <1>7 DEF OneRequestPerTopic, Awaited, t
  <2>2. ASSUME NEW i \in DOMAIN inbox', inbox'[i].status = UNDEFINED
        PROVE  waiting'[inbox'[i].topic] =
                 [topic |-> inbox'[i].topic, id |-> inbox'[i].id,
                  subject |-> inbox'[i].subject, content |-> inbox'[i].content]
    <3>1. CASE i \in DOMAIN inbox /\ inbox'[i] = inbox[i]
      <4>1. inbox[i].topic \in Topics /\ inbox[i].topic # t
        BY <3>1, <2>2, <1>3, UnderWayType DEF Called, Message
      <4> QED BY <3>1, <4>1, <2>2, <1>7 DEF OneRequestPerTopic, Awaited
    <3>2. CASE inbox'[i] = m
      BY <3>2, <1>4, <1>7
    <3> QED BY <3>1, <3>2, <1>6
  <2>3. ros' = "send" => waiting'[pending'.topic] = pending'
    <3> SUFFICES ASSUME ros = "send" PROVE waiting'[pending.topic] = pending
      BY <1>5
    <3>1. pending.topic \in Topics /\ pending.topic # t
      BY <1>3, RequestTopic DEF Sending, Typed
    <3> QED BY <3>1, <1>7 DEF OneRequestPerTopic, Awaited
  <2>4. \A i \in DOMAIN toModem' : waiting'[toModem'[i].topic] = toModem'[i]
    <3> SUFFICES ASSUME NEW i \in DOMAIN toModem PROVE waiting'[toModem[i].topic] = toModem[i]
      BY <1>5
    <3>1. toModem[i] \in Request /\ toModem[i].topic # t
      BY <1>3, ElementOfSeq, LenProperties DEF Owed, Typed, TypeOK
    <3> QED BY <3>1, <1>7, RequestTopic DEF OneRequestPerTopic, Awaited
  <2>5. \A i \in DOMAIN fromModem' : fromModem'[i].answers # NoRequest =>
          waiting'[fromModem'[i].answers.topic] = fromModem'[i].answers
    <3> SUFFICES ASSUME NEW i \in DOMAIN fromModem, fromModem[i].answers # NoRequest
                 PROVE  waiting'[fromModem[i].answers.topic] = fromModem[i].answers
      BY <1>5
    <3>1. fromModem[i] \in Answer
      BY ElementOfSeq, LenProperties DEF Typed
    <3>2. fromModem[i].answers \in Request /\ fromModem[i].answers.topic # t
      BY <1>3, <3>1 DEF Answered, Answer
    <3> QED BY <3>2, <1>7, RequestTopic DEF OneRequestPerTopic, Awaited
  <2> QED BY <2>1, <2>2, <2>3, <2>4, <2>5 DEF Awaited
<1>12. Remembered'
  <2> SUFFICES ASSUME NEW u \in Topics, Sending(u)' \/ Owed(u)' \/ Answered(u)'
               PROVE  Remembers(u)'
    BY DEF Remembered
  <2>1. u # t /\ (Sending(u) \/ Owed(u) \/ Answered(u))
    BY <1>3, <1>8
  <2>2. Remembers(u)
    BY <2>1 DEF OneRequestPerTopic, Remembered
  <2> QED BY <2>1, <2>2, <1>5, <1>7 DEF Remembers
<1> QED BY <1>9, <1>10, <1>11, <1>12 DEF OneRequestPerTopic

(* A client gives up, or is answered, when nothing of its topic is left    *)
(* under way.                                                              *)
LEMMA OneForgotten ==
  ASSUME Typed, OneRequestPerTopic, NEW t \in Topics,
         waiting' = [waiting EXCEPT ![t] = NoRequest],
         \A u \in Topics : u # t => cached'[u] = cached[u],
         UNCHANGED <<ros, pending, toModem>>,
         \A i \in DOMAIN inbox' : inbox'[i].status = UNDEFINED =>
           i \in DOMAIN inbox /\ inbox'[i] = inbox[i],
         \/ UNCHANGED fromModem
         \/ fromModem # << >> /\ fromModem' = Tail(fromModem),
         ~Called(t), ~Sending(t), ~Owed(t), ~Answered(t)'
  PROVE  OneRequestPerTopic'
<1>1. waiting'[t] = NoRequest /\ \A u \in Topics : u # t => waiting'[u] = waiting[u]
  BY DEF Typed, TypeOK
<1>2. \/ UNCHANGED fromModem
      \/ \A i \in DOMAIN fromModem' :
           i \in Nat /\ i + 1 \in DOMAIN fromModem /\ fromModem'[i] = fromModem[i + 1]
  <2>1. fromModem \in Seq(Answer)
    BY DEF Typed
  <2>2. CASE fromModem # << >> /\ fromModem' = Tail(fromModem)
    <3>1. \A i \in DOMAIN Tail(fromModem) :
            i \in Nat /\ i + 1 \in DOMAIN fromModem /\ Tail(fromModem)[i] = fromModem[i + 1]
      BY <2>1, <2>2, Taken
    <3> QED BY <2>2, <3>1
  <2> QED BY <2>2
<1>3. \A u \in Topics : /\ Called(u)' => Called(u)
                        /\ Sending(u)' => Sending(u)
                        /\ Owed(u)' => Owed(u)
                        /\ Answered(u)' => Answered(u)
  BY <1>2 DEF Called, Sending, Owed, Answered
<1>4. Once'
  <2>1. \A i, j \in DOMAIN inbox' :
          inbox'[i].status = UNDEFINED /\ inbox'[j].status = UNDEFINED
            /\ inbox'[i].topic = inbox'[j].topic => i = j
    BY DEF OneRequestPerTopic, Once
  <2>2. \A i, j \in DOMAIN fromModem' :
          fromModem'[i].answers # NoRequest
            /\ fromModem'[i].answers.topic = fromModem'[j].answers.topic => i = j
    <3>1. CASE UNCHANGED fromModem
      BY <3>1 DEF OneRequestPerTopic, Once
    <3>2. CASE \A i \in DOMAIN fromModem' :
           i \in Nat /\ i + 1 \in DOMAIN fromModem /\ fromModem'[i] = fromModem[i + 1]
      <4> SUFFICES ASSUME NEW i \in DOMAIN fromModem', NEW j \in DOMAIN fromModem',
                          fromModem'[i].answers # NoRequest,
                          fromModem'[i].answers.topic = fromModem'[j].answers.topic
                   PROVE  i = j
        OBVIOUS
      <4>1. /\ i + 1 \in DOMAIN fromModem /\ j + 1 \in DOMAIN fromModem
            /\ fromModem'[i] = fromModem[i + 1] /\ fromModem'[j] = fromModem[j + 1]
            /\ i \in Nat /\ j \in Nat
        BY <3>2
      <4>2. /\ fromModem[i + 1].answers # NoRequest
            /\ fromModem[i + 1].answers.topic = fromModem[j + 1].answers.topic
        BY <4>1
      <4>3. i + 1 = j + 1
        BY <4>1, <4>2 DEF OneRequestPerTopic, Once
      <4> QED BY <4>1, <4>3
    <3> QED BY <3>1, <3>2, <1>2
  <2> QED BY <2>1, <2>2 DEF OneRequestPerTopic, Once
<1>5. Exclusive'
  BY <1>3 DEF OneRequestPerTopic, Exclusive
<1>6. Awaited'
  <2>1. \A u \in Topics : waiting'[u] # NoRequest => waiting'[u] \in Requests /\ waiting'[u].topic = u
    BY <1>1 DEF OneRequestPerTopic, Awaited
  <2>2. ASSUME NEW i \in DOMAIN inbox', inbox'[i].status = UNDEFINED
        PROVE  waiting'[inbox'[i].topic] =
                 [topic |-> inbox'[i].topic, id |-> inbox'[i].id,
                  subject |-> inbox'[i].subject, content |-> inbox'[i].content]
    <3>1. i \in DOMAIN inbox /\ inbox'[i] = inbox[i]
      BY <2>2
    <3>2. inbox[i].topic \in Topics /\ inbox[i].topic # t
      BY <3>1, <2>2, UnderWayType DEF Called, Message
    <3> QED BY <3>1, <3>2, <2>2, <1>1 DEF OneRequestPerTopic, Awaited
  <2>3. ros' = "send" => waiting'[pending'.topic] = pending'
    <3> SUFFICES ASSUME ros = "send" PROVE waiting'[pending.topic] = pending
      OBVIOUS
    <3>1. pending.topic \in Topics /\ pending.topic # t
      BY RequestTopic DEF Sending, Typed
    <3> QED BY <3>1, <1>1 DEF OneRequestPerTopic, Awaited
  <2>4. \A i \in DOMAIN toModem' : waiting'[toModem'[i].topic] = toModem'[i]
    <3> SUFFICES ASSUME NEW i \in DOMAIN toModem PROVE waiting'[toModem[i].topic] = toModem[i]
      OBVIOUS
    <3>1. toModem[i] \in Request /\ toModem[i].topic # t
      BY UnderWayType DEF Owed
    <3> QED BY <3>1, <1>1, RequestTopic DEF OneRequestPerTopic, Awaited
  <2>5. ASSUME NEW i \in DOMAIN fromModem', fromModem'[i].answers # NoRequest
        PROVE  waiting'[fromModem'[i].answers.topic] = fromModem'[i].answers
    <3>1. PICK j \in DOMAIN fromModem : fromModem'[i] = fromModem[j]
      BY <1>2
    <3>2. fromModem[j].answers \in Request /\ fromModem[j].answers.topic # t
      BY <2>5, <3>1, UnderWayType DEF Answered
    <3> QED BY <2>5, <3>1, <3>2, <1>1, RequestTopic DEF OneRequestPerTopic, Awaited
  <2> QED BY <2>1, <2>2, <2>3, <2>4, <2>5 DEF Awaited
<1>7. Remembered'
  <2> SUFFICES ASSUME NEW u \in Topics, Sending(u)' \/ Owed(u)' \/ Answered(u)'
               PROVE  Remembers(u)'
    BY DEF Remembered
  <2>1. u # t
    <3>1. ~Sending(t)' /\ ~Owed(t)'
      BY <1>3
    <3> QED BY <3>1
  <2>2. Remembers(u)
    BY <1>3 DEF OneRequestPerTopic, Remembered
  <2> QED BY <2>1, <2>2, <1>1 DEF Remembers
<1> QED BY <1>4, <1>5, <1>6, <1>7 DEF OneRequestPerTopic

(* ... the callback moves its request from the topic to the cache, ...     *)
LEMMA OneCallback ==
  ASSUME Typed, OneRequestPerTopic, RosCallback, ~IgnoreOwn
  PROVE  OneRequestPerTopic'
<1>1. PICK t \in Topics, e \in Entry, b \in BOOLEAN : Caches(t, e, b)
  BY Caching DEF Typed
<1> DEFINE h == Head(inbox)
           r == [topic |-> t, id |-> h.id, subject |-> h.subject, content |-> h.content]
<1>2. /\ inbox # << >> /\ h \in Message /\ h.status = UNDEFINED /\ h.topic = t
      /\ inbox' = Tail(inbox) /\ ros = "idle"
      /\ UNCHANGED <<toModem, fromModem, waiting>>
      /\ ros' # "idle" => ros' = "send" /\ pending' = r /\ b
  BY <1>1 DEF Caches, Callback, rosVars, wireVars
<1>3. cached'[t] = e /\ \A u \in Topics : u # t => cached'[u] = cached[u]
  BY <1>1 DEF Caches, Callback, Typed, TypeOK
<1>4. h = inbox[1] /\ 1 \in DOMAIN inbox
      /\ \A i \in DOMAIN inbox' : i \in Nat /\ i # 0 /\ i + 1 \in DOMAIN inbox /\ inbox'[i] = inbox[i + 1]
  BY <1>2, Taken, LenProperties DEF Typed, TypeOK
<1>5. Called(t)
  BY <1>2, <1>4 DEF Called
<1>6. waiting[t] = r
  BY <1>2, <1>4 DEF OneRequestPerTopic, Awaited
<1>7. r.topic = t /\ r.id = e.id
  BY <1>1 DEF Caches
<1>8. ~Called(t)'
  <2> SUFFICES ASSUME NEW i \in DOMAIN inbox', inbox'[i].status = UNDEFINED, inbox'[i].topic = t
               PROVE  FALSE
    BY DEF Called
  <2>1. i + 1 = 1
    BY <1>2, <1>4 DEF OneRequestPerTopic, Once
  <2> QED BY <2>1, <1>4
<1>9. /\ \A u \in Topics : Called(u)' => Called(u)
      /\ \A u \in Topics : ~Sending(u)
      /\ \A u \in Topics : Sending(u)' => u = t /\ b
      /\ \A u \in Topics : (Owed(u)' => Owed(u)) /\ (Answered(u)' => Answered(u))
  BY <1>2, <1>4, <1>7 DEF Called, Sending, Owed, Answered
<1>10. Once'
  <2>1. ASSUME NEW i \in DOMAIN inbox', NEW j \in DOMAIN inbox',
               inbox'[i].status = UNDEFINED, inbox'[j].status = UNDEFINED,
               inbox'[i].topic = inbox'[j].topic
        PROVE  i = j
    <3>1. i + 1 = j + 1
      BY <2>1, <1>4 DEF OneRequestPerTopic, Once
    <3> QED BY <3>1, <1>4
  <2> QED BY <2>1, <1>2 DEF OneRequestPerTopic, Once
<1>11. Exclusive'
  BY <1>5, <1>8, <1>9 DEF OneRequestPerTopic, Exclusive
<1>12. Awaited'
  <2>1. ros' = "send" => waiting'[pending'.topic] = pending'
    BY <1>2, <1>6, <1>7
  <2>2. ASSUME NEW i \in DOMAIN inbox', inbox'[i].status = UNDEFINED
        PROVE  waiting'[inbox'[i].topic] =
                 [topic |-> inbox'[i].topic, id |-> inbox'[i].id,
                  subject |-> inbox'[i].subject, content |-> inbox'[i].content]
    BY <2>2, <1>2, <1>4 DEF OneRequestPerTopic, Awaited
  <2> QED BY <2>1, <2>2, <1>2 DEF OneRequestPerTopic, Awaited
<1>13. Remembered'
  <2> SUFFICES ASSUME NEW u \in Topics, Sending(u)' \/ Owed(u)' \/ Answered(u)'
               PROVE  Remembers(u)'
    BY DEF Remembered
  <2>1. CASE u = t
    <3>1. b
      BY <2>1, <1>5, <1>9 DEF OneRequestPerTopic, Exclusive
    <3>2. /\ t = "states" => e.subject = h.subject /\ h.subject \in {STATE_, STATES}
          /\ t = "discovery" => e.content = h.content
      BY <3>1, <1>1 DEF Caches
    <3>3. r.subject = h.subject /\ r.content = h.content
      OBVIOUS
    <3> HIDE DEF r
    <3> QED BY <2>1, <3>2, <3>3, <1>2, <1>3, <1>6, <1>7 DEF Remembers
  <2>2. CASE u # t
    <3>1. Remembers(u)
      BY <2>2, <1>9 DEF OneRequestPerTopic, Remembered
    <3> QED BY <2>2, <3>1, <1>2, <1>3 DEF Remembers
  <2> QED BY <2>1, <2>2
<1> QED BY <1>10, <1>11, <1>12, <1>13 DEF OneRequestPerTopic

(* ... send() hands it to the modem or drops it, ...                       *)
LEMMA OneSent == ASSUME Typed, OneRequestPerTopic, SendSync PROVE OneRequestPerTopic'
<1>1. CASE toModem' = toModem
  <2>1. ros' # "send" /\ UNCHANGED <<cached, inbox, fromModem, waiting>>
    BY DEF SendSync
  <2> QED BY <1>1, <2>1, OneLost
<1>2. CASE toModem' # toModem
  <2> DEFINE t == pending.topic
  <2>1. /\ ros = "send" /\ ros' = "arm" /\ toModem' = Append(toModem, pending)
        /\ UNCHANGED <<cached, inbox, pending, fromModem, waiting>>
    BY <1>2 DEF SendSync
  <2>2. pending \in Request /\ t \in Topics /\ Sending(t)
    BY <2>1, RequestTopic DEF Typed, Sending
  <2>3. \A i \in DOMAIN toModem' : \/ i \in DOMAIN toModem /\ toModem'[i] = toModem[i]
                                   \/ i = Len(toModem) + 1 /\ toModem'[i] = pending
    BY <2>1, <2>2, Appended DEF Typed, TypeOK
  <2>4. ~Called(t) /\ ~Owed(t) /\ ~Answered(t) /\ waiting[t] = pending
    BY <2>1, <2>2 DEF OneRequestPerTopic, Exclusive, Awaited
  <2>5. \A u \in Topics : /\ Called(u)' => Called(u)
                          /\ ~Sending(u)'
                          /\ Owed(u)' => Owed(u) \/ u = t
                          /\ Answered(u)' => Answered(u)
    BY <2>1, <2>3 DEF Called, Sending, Owed, Answered
  <2>6. Once'
    <3>1. \A i, j \in DOMAIN toModem' : toModem'[i].topic = toModem'[j].topic => i = j
      BY <2>3, <2>4 DEF OneRequestPerTopic, Once, Owed
    <3> QED BY <2>1, <3>1 DEF OneRequestPerTopic, Once
  <2>7. Exclusive'
    BY <2>4, <2>5 DEF OneRequestPerTopic, Exclusive
  <2>8. Awaited'
    BY <2>1, <2>3, <2>4 DEF OneRequestPerTopic, Awaited
  <2>9. Remembered'
    BY <2>1, <2>2, <2>5 DEF OneRequestPerTopic, Remembered, Remembers
  <2> QED BY <2>6, <2>7, <2>8, <2>9 DEF OneRequestPerTopic
<1> QED BY <1>1, <1>2

(* ... and the modem turns it into one answer.                             *)
LEMMA OneAnswered == ASSUME Typed, OneRequestPerTopic, ModemAnswers PROVE OneRequestPerTopic'
<1>1. /\ toModem # << >> /\ toModem' = Tail(toModem)
      /\ UNCHANGED <<cached, inbox, ros, pending, waiting>>
  BY DEF ModemAnswers, rosVars
<1>h. PICK h \in Request : h = Head(toModem)
  BY <1>1, Taken DEF Typed, TypeOK
<1>t. PICK t \in Topics : t = h.topic
  BY RequestTopic
<1>2. PICK form \in Forms(AnswerSubject(h)) :
        fromModem' = Append(fromModem, Telegram(AnswerSubject(h), form, h))
  BY <1>h DEF ModemAnswers
<1> DEFINE a == Telegram(AnswerSubject(h), form, h)
<1>3. a.answers = h
  BY DEF Telegram
<1> HIDE DEF a
<1>4. h = toModem[1] /\ 1 \in DOMAIN toModem
      /\ \A i \in DOMAIN toModem' :
           i \in Nat /\ i # 0 /\ i + 1 \in DOMAIN toModem /\ toModem'[i] = toModem[i + 1]
  BY <1>1, <1>h, Taken, LenProperties DEF Typed, TypeOK
<1>5. \A i \in DOMAIN fromModem' : \/ i \in DOMAIN fromModem /\ fromModem'[i] = fromModem[i]
                                   \/ i = Len(fromModem) + 1 /\ fromModem'[i] = a
  BY <1>2, AppendProperties, LenProperties DEF Typed, a
<1>6. Owed(t)
  BY <1>4, <1>t DEF Owed
<1>7. ~Called(t) /\ ~Sending(t) /\ ~Answered(t) /\ waiting[t] = h
  BY <1>4, <1>6, <1>t DEF OneRequestPerTopic, Exclusive, Awaited
<1>8. ~Owed(t)'
  <2> SUFFICES ASSUME NEW i \in DOMAIN toModem', toModem'[i].topic = t PROVE FALSE
    BY DEF Owed
  <2>1. i + 1 = 1
    BY <1>4, <1>t DEF OneRequestPerTopic, Once
  <2> QED BY <2>1, <1>4
<1>9. \A u \in Topics : /\ Called(u)' => Called(u)
                        /\ Sending(u)' => Sending(u)
                        /\ Owed(u)' => Owed(u)
                        /\ Answered(u)' => Answered(u) \/ u = t
  BY <1>1, <1>3, <1>4, <1>5, <1>t DEF Called, Sending, Owed, Answered
<1>10. Once'
  <2>1. ASSUME NEW i \in DOMAIN toModem', NEW j \in DOMAIN toModem',
               toModem'[i].topic = toModem'[j].topic
        PROVE  i = j
    <3>1. i + 1 = j + 1
      BY <2>1, <1>4 DEF OneRequestPerTopic, Once
    <3> QED BY <3>1, <1>4
  <2>2. \A i \in DOMAIN fromModem : fromModem[i].answers.topic # t
    BY <1>7 DEF Answered
  <2>3. ASSUME NEW i \in DOMAIN fromModem', NEW j \in DOMAIN fromModem',
               fromModem'[i].answers # NoRequest,
               fromModem'[i].answers.topic = fromModem'[j].answers.topic
        PROVE  i = j
    BY <2>2, <2>3, <1>3, <1>5, <1>t DEF OneRequestPerTopic, Once
  <2> QED BY <2>1, <2>3, <1>1 DEF OneRequestPerTopic, Once
<1>11. Exclusive'
  BY <1>7, <1>8, <1>9 DEF OneRequestPerTopic, Exclusive
<1>12. Awaited'
  <2>1. \A i \in DOMAIN toModem' : waiting'[toModem'[i].topic] = toModem'[i]
    BY <1>1, <1>4 DEF OneRequestPerTopic, Awaited
  <2>2. \A i \in DOMAIN fromModem' : fromModem'[i].answers # NoRequest =>
          waiting'[fromModem'[i].answers.topic] = fromModem'[i].answers
    BY <1>1, <1>3, <1>5, <1>7, <1>t DEF OneRequestPerTopic, Awaited
  <2> QED BY <2>1, <2>2, <1>1 DEF OneRequestPerTopic, Awaited
<1>13. Remembered'
  BY <1>1, <1>4, <1>6, <1>9 DEF OneRequestPerTopic, Remembered, Remembers
<1> QED BY <1>10, <1>11, <1>12, <1>13 DEF OneRequestPerTopic

(* OneRequestPerTopic is inductive, given the types and Calm.              *)
LEMMA OneStep ==
  ASSUME Typed, AnswersFit, Calm, OneRequestPerTopic, [Next]_vars
  PROVE  OneRequestPerTopic'
<1>1. ASSUME NEW r \in Requests, Ask(r) PROVE OneRequestPerTopic'
  BY <1>1, OneAsk
<1>2. ASSUME NEW t \in Topics, GiveUp(t) PROVE OneRequestPerTopic'
  <2>1. waiting[t].topic = t
    BY <1>2 DEF GiveUp, OneRequestPerTopic, Awaited
  <2>2. ~Called(t) /\ ~Sending(t) /\ ~Owed(t) /\ ~Answered(t)
    BY <1>2, <2>1 DEF GiveUp, Calm, UnderWay, Called, Sending, Owed, Answered
  <2>3. ~Answered(t)'
    BY <1>2, <2>2 DEF GiveUp, Answered, wireVars
  <2> QED BY <1>2, <2>2, <2>3, OneForgotten DEF GiveUp, rosVars, wireVars
<1>3. CASE IgnoreOwn
  <2>1. \A i \in DOMAIN inbox' : i \in Nat /\ i + 1 \in DOMAIN inbox /\ inbox'[i] = inbox[i + 1]
    BY <1>3, Taken DEF IgnoreOwn, Typed, TypeOK
  <2>2. UNCHANGED <<cached, ros, pending, toModem, fromModem, waiting>>
    BY <1>3 DEF IgnoreOwn, rosVars, wireVars
  <2>3. \A t \in Topics : /\ Called(t)' => Called(t)
                          /\ (Sending(t)' <=> Sending(t)) /\ (Owed(t)' <=> Owed(t))
                          /\ (Answered(t)' <=> Answered(t))
    BY <2>1, <2>2 DEF Called, Sending, Owed, Answered
  <2>4. Once'
    <3>1. ASSUME NEW i \in DOMAIN inbox', NEW j \in DOMAIN inbox',
                 inbox'[i].status = UNDEFINED, inbox'[j].status = UNDEFINED,
                 inbox'[i].topic = inbox'[j].topic
          PROVE  i = j
      <4>1. i + 1 = j + 1
        BY <3>1, <2>1 DEF OneRequestPerTopic, Once
      <4> QED BY <4>1, <2>1
    <3> QED BY <3>1, <2>2 DEF OneRequestPerTopic, Once
  <2>5. Exclusive'
    BY <2>3 DEF OneRequestPerTopic, Exclusive
  <2>6. Awaited'
    BY <2>1, <2>2 DEF OneRequestPerTopic, Awaited
  <2>7. Remembered'
    BY <2>2, <2>3 DEF OneRequestPerTopic, Remembered, Remembers
  <2> QED BY <2>4, <2>5, <2>6, <2>7 DEF OneRequestPerTopic
<1>4. CASE RosCallback /\ ~IgnoreOwn
  BY <1>4, OneCallback
<1>5. CASE SendSync
  BY <1>5, OneSent
<1>6. CASE ArmTimer \/ HandleAnswerTimeout \/ TimerExpires \/ Connected \/ UNCHANGED vars
  BY <1>6, OneLost DEF ArmTimer, HandleAnswerTimeout, TimerExpires, Connected, vars, rosVars, wireVars
<1>7. CASE (ExtractSubject \/ RcvExtract) /\ ~ExtractReport /\ ~ExtractUnknown
  <2>1. PICK t \in Topics, e \in Entry : Publishes(t, e)
    BY <1>7, Publishing
  <2>2. /\ fromModem # << >> /\ fromModem' = Tail(fromModem)
        /\ waiting' = [waiting EXCEPT ![t] = NoRequest] /\ UNCHANGED <<ros, pending, toModem>>
        /\ inbox' = Append(inbox, Made(t, e)) /\ cached' = [cached EXCEPT ![t] = e]
        /\ Made(t, e).status # UNDEFINED
    BY <2>1 DEF Publishes, PublishOn, Made, rosVars
  <2>3. \A i \in DOMAIN inbox' : inbox'[i].status = UNDEFINED =>
          i \in DOMAIN inbox /\ inbox'[i] = inbox[i]
    <3> DEFINE m == Made(t, e)
    <3>1. inbox' = Append(inbox, m) /\ m.status # UNDEFINED
      BY <2>2
    <3> HIDE DEF m
    <3> QED BY <3>1, AppendProperties, LenProperties DEF Typed, TypeOK
  <2>4. \A u \in Topics : u # t => cached'[u] = cached[u]
    BY <2>2 DEF Typed, TypeOK
  <2>5. ~Called(t) /\ ~Sending(t) /\ ~Owed(t)
    <3>1. CASE Answered(t)
      BY <3>1 DEF OneRequestPerTopic, Exclusive
    <3>2. CASE waiting[t] = NoRequest
      BY <3>2, Free DEF OneRequestPerTopic
    <3> QED BY <3>1, <3>2, <2>1, PublishedAnswer DEF OneRequestPerTopic
  <2>6. ~Answered(t)'
    <3> SUFFICES ASSUME NEW i \in DOMAIN fromModem', fromModem'[i].answers.topic = t PROVE FALSE
      BY DEF Answered
    <3>1. /\ i \in Nat /\ i # 0 /\ i + 1 \in DOMAIN fromModem /\ fromModem'[i] = fromModem[i + 1]
          /\ Head(fromModem) = fromModem[1] /\ 1 \in DOMAIN fromModem
      BY <2>2, Taken, LenProperties DEF Typed
    <3>2. Answered(t) /\ waiting[t] # NoRequest
      BY <3>1, Free DEF Answered, OneRequestPerTopic
    <3>3. fromModem[1].answers \in Request /\ t = fromModem[1].answers.topic
      BY <2>1, <3>1, <3>2, PublishedAnswer DEF OneRequestPerTopic
    <3>4. 1 = i + 1
      BY <3>1, <3>3, RequestTopic DEF OneRequestPerTopic, Once
    <3> QED BY <3>1, <3>4
  <2> QED BY <2>2, <2>3, <2>4, <2>5, <2>6, OneForgotten
<1>8. CASE ExtractReport \/ ExtractUnknown
  <2>1. \A i \in DOMAIN fromModem' :
          i \in Nat /\ i + 1 \in DOMAIN fromModem /\ fromModem'[i] = fromModem[i + 1]
    <3>1. fromModem # << >> /\ fromModem' = Tail(fromModem)
      BY <1>8 DEF ExtractReport, ExtractUnknown, Arrives
    <3> QED BY <3>1, Taken DEF Typed
  <2>2. UNCHANGED <<cached, inbox, ros, pending, toModem, waiting>>
    BY <1>8 DEF ExtractReport, ExtractUnknown, rosVars
  <2>3. \A t \in Topics : /\ Answered(t)' => Answered(t)
                          /\ (Sending(t)' <=> Sending(t)) /\ (Owed(t)' <=> Owed(t))
                          /\ (Called(t)' <=> Called(t))
    BY <2>1, <2>2 DEF Called, Sending, Owed, Answered
  <2>4. Once'
    <3>1. ASSUME NEW i \in DOMAIN fromModem', NEW j \in DOMAIN fromModem',
                 fromModem'[i].answers # NoRequest,
                 fromModem'[i].answers.topic = fromModem'[j].answers.topic
          PROVE  i = j
      <4>1. i + 1 = j + 1
        BY <3>1, <2>1 DEF OneRequestPerTopic, Once
      <4> QED BY <4>1, <2>1
    <3> QED BY <3>1, <2>2 DEF OneRequestPerTopic, Once
  <2>5. Exclusive'
    BY <2>3 DEF OneRequestPerTopic, Exclusive
  <2>6. Awaited'
    BY <2>1, <2>2 DEF OneRequestPerTopic, Awaited
  <2>7. Remembered'
    BY <2>2, <2>3 DEF OneRequestPerTopic, Remembered, Remembers
  <2> QED BY <2>4, <2>5, <2>6, <2>7 DEF OneRequestPerTopic
<1>9. CASE RcvIncomplete
  <2>1. /\ \A u \in Topics : u # "data" => cached'[u] = cached[u]
        /\ UNCHANGED <<inbox, ros, pending, toModem, fromModem, waiting>>
    BY <1>9 DEF RcvIncomplete, rosVars, wireVars, Typed, TypeOK
  <2>2. waiting["data"] = NoRequest
    BY <1>9, ReportTopic DEF RcvIncomplete, OneRequestPerTopic
  <2>3. ~Called("data") /\ ~Sending("data") /\ ~Owed("data") /\ ~Answered("data")
    BY <2>2, Free, TopicSet DEF OneRequestPerTopic
  <2>4. waiting' = [waiting EXCEPT !["data"] = NoRequest]
    BY <2>1, <2>2 DEF Typed, TypeOK
  <2>5. ~Answered("data")'
    BY <2>1, <2>3 DEF Answered
  <2> QED BY <2>1, <2>3, <2>4, <2>5, OneForgotten, TopicSet
<1>10. CASE ModemAnswers
  BY <1>10, OneAnswered
<1>11. CASE ModemReports
  <2>1. PICK subject \in Reports : fromModem' = Append(fromModem, Telegram(subject, "value", NoRequest))
    BY <1>11 DEF ModemReports
  <2> DEFINE a == Telegram(subject, "value", NoRequest)
  <2>2. a.answers = NoRequest
    BY DEF Telegram
  <2> HIDE DEF a
  <2>3. \A i \in DOMAIN fromModem' : (i \in DOMAIN fromModem /\ fromModem'[i] = fromModem[i])
                                     \/ fromModem'[i] = a
    BY <2>1, AppendProperties, LenProperties DEF Typed, a
  <2>4. UNCHANGED <<cached, inbox, ros, pending, toModem, waiting>>
    BY <1>11 DEF ModemReports, rosVars
  <2>5. \A t \in Topics : /\ Answered(t)' => Answered(t)
                          /\ (Sending(t)' <=> Sending(t)) /\ (Owed(t)' <=> Owed(t))
                          /\ (Called(t)' <=> Called(t))
    BY <2>2, <2>3, <2>4, RequestTopic DEF Called, Sending, Owed, Answered
  <2>6. Once'
    <3>1. ASSUME NEW i \in DOMAIN fromModem', NEW j \in DOMAIN fromModem',
                 fromModem'[i].answers # NoRequest,
                 fromModem'[i].answers.topic = fromModem'[j].answers.topic
          PROVE  i = j
      <4>1. i \in DOMAIN fromModem /\ fromModem'[i] = fromModem[i]
        BY <3>1, <2>2, <2>3
      <4>2. fromModem[i].answers.topic # NoRequest.topic
        BY <3>1, <4>1, UnderWayType, RequestTopic
      <4>3. j \in DOMAIN fromModem /\ fromModem'[j] = fromModem[j]
        BY <3>1, <4>1, <4>2, <2>2, <2>3
      <4> QED BY <3>1, <4>1, <4>3 DEF OneRequestPerTopic, Once
    <3> QED BY <3>1, <2>4 DEF OneRequestPerTopic, Once
  <2>7. Exclusive'
    BY <2>5 DEF OneRequestPerTopic, Exclusive
  <2>8. Awaited'
    BY <2>2, <2>3, <2>4 DEF OneRequestPerTopic, Awaited
  <2>9. Remembered'
    BY <2>4, <2>5 DEF OneRequestPerTopic, Remembered, Remembers
  <2> QED BY <2>6, <2>7, <2>8, <2>9 DEF OneRequestPerTopic
<1>12. CASE Disconnected
  <2>1. PICK k \in 0 .. Len(fromModem) : fromModem' = SubSeq(fromModem, 1, k)
    BY <1>12 DEF Disconnected
  <2>2. \A i \in DOMAIN fromModem' : i \in DOMAIN fromModem /\ fromModem'[i] = fromModem[i]
    BY <2>1, Prefix DEF Typed
  <2>3. DOMAIN toModem' = {}
    BY <1>12 DEF Disconnected
  <2> QED BY <1>12, <2>2, <2>3, OneLost DEF Disconnected, rosVars
<1>13. CASE RcvDropped
  <2>1. /\ \A u \in Topics : u # "data" => cached'[u] = cached[u]
        /\ UNCHANGED <<inbox, ros, pending, toModem, waiting>>
        /\ fromModem # << >> /\ fromModem' = Tail(fromModem)
    BY <1>13 DEF RcvDropped, Arrives, rosVars, Typed, TypeOK
  <2>2. waiting["data"] = NoRequest
    BY <1>13, ReportTopic DEF RcvDropped, OneRequestPerTopic
  <2>3. ~Called("data") /\ ~Sending("data") /\ ~Owed("data") /\ ~Answered("data")
    BY <2>2, Free, TopicSet DEF OneRequestPerTopic
  <2>4. waiting' = [waiting EXCEPT !["data"] = NoRequest]
    BY <2>1, <2>2 DEF Typed, TypeOK
  <2>5. ~Answered("data")'
    BY <2>1, <2>3, Taken DEF Answered, Typed
  <2> QED BY <2>1, <2>3, <2>4, <2>5, OneForgotten, TopicSet
<1> QED
  BY <1>1, <1>2, <1>3, <1>4, <1>5, <1>6, <1>7, <1>8, <1>9, <1>10, <1>11, <1>12, <1>13
  DEF Next, RosThread, IoThread

(* No topic has a request at the start.                                    *)
LEMMA OneInit == Init => OneRequestPerTopic
<1> SUFFICES ASSUME Init PROVE OneRequestPerTopic
  OBVIOUS
<1>1. DOMAIN inbox = {} /\ DOMAIN toModem = {} /\ DOMAIN fromModem = {} /\ ros = "idle"
  BY DEF Init
<1>2. \A t \in Topics : ~Called(t) /\ ~Sending(t) /\ ~Owed(t) /\ ~Answered(t) /\ waiting[t] = NoRequest
  BY <1>1 DEF Init, Called, Sending, Owed, Answered
<1> QED BY <1>1, <1>2 DEF OneRequestPerTopic, Once, Exclusive, Awaited, Remembered

(* With patient clients the answers carry their requests.                  *)
LEMMA MatchStep ==
  ASSUME Typed, AnswersFit, Calm, OneRequestPerTopic, AnswerMatchesRequest, [Next]_vars
  PROVE  AnswerMatchesRequest'
<1>1. CASE Published' \subseteq Published
  BY <1>1 DEF AnswerMatchesRequest
<1>2. ASSUME NEW t \in Topics, NEW e \in Entry, Publishes(t, e),
             Published' \subseteq Published \cup {Made(t, e)}
      PROVE  AnswerMatchesRequest'
  <2> DEFINE m == Made(t, e)
  <2>1. /\ m.topic = t /\ m.answers = Head(fromModem).answers /\ m.form = Form
        /\ m.content = e.content /\ m.id = e.id /\ m.subject = e.subject
    BY DEF Made
  <2> HIDE DEF m
  <2>2. ASSUME m.answers # NoRequest
        PROVE  /\ m.id = m.answers.id
               /\ m.topic = "states" => m.subject = m.answers.subject
               /\ m.topic = "discovery" /\ m.id = START /\ m.form = "ok" =>
                    m.content = m.answers.content
    <3>1. /\ m.answers \in Request /\ t = m.answers.topic /\ m.answers = waiting[t]
          /\ ~Arrives("recv") /\ Answered(t)
          /\ Head(fromModem).subject = AnswerSubject(waiting[t])
      BY <1>2, <2>1, <2>2, PublishedAnswer DEF OneRequestPerTopic
    <3>2. Remembers(t)
      BY <3>1 DEF OneRequestPerTopic, Remembered
    <3>3. m.id = m.answers.id
      BY <1>2, <2>1, <3>1, <3>2 DEF Publishes, Remembers
    <3>4. t = "states" => m.subject = m.answers.subject
      <4> SUFFICES ASSUME t = "states" PROVE m.subject = m.answers.subject
        OBVIOUS
      <4>1. m.answers.subject \in {STATE_, STATES}
        BY <3>1, <3>2 DEF Remembers
      <4>2. m.subject = IF Arrives("state") THEN STATE_ ELSE STATES
        BY <1>2, <2>1 DEF Publishes
      <4>3. Arrives("state") <=> AnswerSubject(waiting[t]) = "state"
        BY <1>2, <3>1 DEF Arrives, Publishes
      <4>4. AnswerSubject(waiting[t]) = "state" <=> waiting[t].subject = STATE_
        BY <3>1 DEF AnswerSubject
      <4> QED BY <3>1, <4>1, <4>2, <4>3, <4>4
    <3>5. t = "discovery" /\ Form = "ok" => m.content = m.answers.content
      BY <1>2, <2>1, <3>1, <3>2 DEF Publishes, Remembers, Kept
    <3> QED BY <2>1, <3>3, <3>4, <3>5
  <2> QED BY <1>2, <2>2 DEF AnswerMatchesRequest, m
<1> QED BY <1>1, <1>2, PublishedStep

(* The answer on a topic carries the request it answers, for clients that  *)
(* stay for the answer on a topic before they ask on it again, and as long *)
(* as no data is received while data is sent.                              *)
THEOREM AnswersMatchRequests == ASSUME Calm PROVE Spec => []AnswerMatchesRequest
<1>1. Init => Typed /\ AnswersFit /\ OneRequestPerTopic /\ AnswerMatchesRequest
  BY TypeInit, QuietInit, OneInit DEF AnswerMatchesRequest
<1>2. Typed /\ AnswersFit /\ OneRequestPerTopic /\ AnswerMatchesRequest /\ [Next]_vars
        => Typed' /\ AnswersFit' /\ OneRequestPerTopic' /\ AnswerMatchesRequest'
  BY TypeStep, FitStep, OneStep, MatchStep
<1> QED BY <1>1, <1>2, PTL DEF Spec

(* What ends the wait of a client with a message is the answer to its own  *)
(* request: nothing but a publication on its topic does, and what is       *)
(* published on a topic on which a client waits is the awaited answer.     *)
LEMMA OwnRequestStep ==
  ASSUME Typed, AnswersFit, Calm, OneRequestPerTopic, [Next]_vars,
         NEW t \in Topics, waiting[t] # NoRequest, waiting'[t] = NoRequest, inbox' # inbox
  PROVE  inbox'[Len(inbox')].answers = waiting[t]
<1>1. ASSUME NEW r \in Requests, Ask(r) PROVE FALSE
  <2>1. r \in Request /\ waiting' = [waiting EXCEPT ![r.topic] = r]
    BY <1>1, RequestsAssumption DEF Ask
  <2>2. waiting'[t] = waiting[t] \/ waiting'[t] = r
    BY <2>1 DEF Typed, TypeOK
  <2> QED BY <2>1, <2>2, RequestTopic
<1>2. ASSUME NEW u \in Topics, GiveUp(u) PROVE FALSE
  BY <1>2 DEF GiveUp
<1>3. CASE IgnoreOwn
  BY <1>3 DEF IgnoreOwn
<1>4. CASE RosCallback /\ ~IgnoreOwn
  BY <1>4, Caching DEF Caches, Callback, Typed
<1>5. CASE SendSync \/ ArmTimer \/ RcvIncomplete \/ RcvDropped \/ HandleAnswerTimeout
             \/ TimerExpires \/ Connected \/ ExtractReport \/ ExtractUnknown \/ ModemAnswers
             \/ ModemReports \/ Disconnected \/ UNCHANGED vars
  BY <1>5 DEF SendSync, ArmTimer, RcvIncomplete, RcvDropped, HandleAnswerTimeout,
              TimerExpires, Connected, ExtractReport, ExtractUnknown, ModemAnswers,
              ModemReports, Disconnected, vars
<1>6. CASE (ExtractSubject \/ RcvExtract) /\ ~ExtractReport /\ ~ExtractUnknown
  <2>1. PICK u \in Topics, e \in Entry : Publishes(u, e)
    BY <1>6, Publishing
  <2>2. waiting' = [waiting EXCEPT ![u] = NoRequest] /\ inbox' = Append(inbox, Made(u, e))
    BY <2>1 DEF Publishes, PublishOn, Made
  <2>3. u = t
    BY <2>2 DEF Typed, TypeOK
  <2>4. Head(fromModem).answers = waiting[t]
    BY <2>1, <2>3, PublishedAnswer DEF OneRequestPerTopic
  <2>5. inbox'[Len(inbox')] = Made(u, e)
    BY <2>2, AppendProperties, LenProperties DEF Typed, TypeOK
  <2> QED BY <2>4, <2>5 DEF Made
<1> QED
  BY <1>1, <1>2, <1>3, <1>4, <1>5, <1>6 DEF Next, RosThread, IoThread

(* What a waiting client takes for its answer belongs to its own request,  *)
(* for the same clients: sendSync sends a request once, sendSync and the   *)
(* handler of the timer send nothing else, and every extractor publishes   *)
(* on the topic of the request.                                            *)
THEOREM AnswersAreToOwnRequests == ASSUME Calm PROVE Spec => AnswerIsToOwnRequest
<1> DEFINE Own == \A t \in Topics :
                    waiting[t] # NoRequest /\ waiting'[t] = NoRequest /\ inbox' # inbox =>
                      inbox'[Len(inbox')].answers = waiting[t]
<1>1. Init => Typed /\ AnswersFit /\ OneRequestPerTopic
  BY TypeInit, QuietInit, OneInit
<1>2. Typed /\ AnswersFit /\ OneRequestPerTopic /\ [Next]_vars
        => Typed' /\ AnswersFit' /\ OneRequestPerTopic'
  BY TypeStep, FitStep, OneStep
<1>3. Typed /\ AnswersFit /\ OneRequestPerTopic /\ [Next]_vars => Own
  BY OwnRequestStep
<1> QED BY <1>1, <1>2, <1>3, PTL DEF Spec, AnswerIsToOwnRequest

-----------------------------------------------------------------------------
(* One request at a time in the whole system.                              *)

(* At most one client waits, an accepted request without an answer is the  *)
(* one it waits for, and sendSync refuses nothing: no line of parser.h     *)
(* assigns anything but WAITSYNC_NO to waitsync_.                          *)
OneRequest ==
  /\ \A t, u \in Topics : waiting[t] # NoRequest /\ waiting[u] # NoRequest => t = u
  /\ \A t \in due : waiting[t] # NoRequest
  /\ waitsync_ = "NO"

Noticing == OneRequest /\ MissingAnswerNoticed

(* Steps that accept no request and leave the timer alone.                 *)
LEMMA StillNoticed ==
  ASSUME Noticing, UNCHANGED <<ros, timer, expired>>, waitsync_' = waitsync_ \/ waitsync_' = "NO",
         due' \subseteq due,
         \A t \in Topics : waiting'[t] # NoRequest => waiting[t] # NoRequest,
         \A t \in due' : waiting'[t] # NoRequest
  PROVE  Noticing'
BY DEF Noticing, OneRequest, MissingAnswerNoticed

(* Every step keeps a timer, or what is about to arm or to report it, for  *)
(* the answer that is missing: of the extractors, only that of the answer  *)
(* itself cancels the timer.                                               *)
LEMMA NoticedStep ==
  ASSUME Typed, AnswersFit, Calm, Patience = "one", "delivered" \notin Reports,
         OneRequestPerTopic, Noticing, [Next]_vars
  PROVE  Noticing'
<1>d. due \subseteq Topics /\ \A t \in due : waiting[t] # NoRequest
  BY DEF Typed, TypeOK, Noticing, OneRequest
<1>1. ASSUME NEW r \in Requests, Ask(r) PROVE Noticing'
  <2>1. \A t \in Topics : waiting[t] = NoRequest
    BY <1>1 DEF Ask, MayAsk
  <2>2. due = {}
    BY <2>1, <1>d
  <2>3. waiting' = [waiting EXCEPT ![r.topic] = r] /\ UNCHANGED <<due, waitsync_>>
    BY <1>1 DEF Ask
  <2>4. \A t \in Topics : t # r.topic => waiting'[t] = NoRequest
    BY <2>1, <2>3 DEF Typed, TypeOK
  <2> QED BY <2>2, <2>3, <2>4 DEF Noticing, OneRequest, MissingAnswerNoticed
<1>2. ASSUME NEW t \in Topics, GiveUp(t) PROVE Noticing'
  <2>1. waiting' = [waiting EXCEPT ![t] = NoRequest] /\ due' = due \ {t}
        /\ UNCHANGED <<ros, timer, expired, waitsync_>>
    BY <1>2 DEF GiveUp, rosVars, timerVars
  <2>2. waiting'[t] = NoRequest /\ \A u \in Topics : u # t => waiting'[u] = waiting[u]
    BY <2>1 DEF Typed, TypeOK
  <2> QED BY <2>1, <2>2, <1>d, StillNoticed
<1>3. CASE RosCallback /\ ~IgnoreOwn
  <2>1. PICK t \in Topics, e \in Entry, b \in BOOLEAN : Caches(t, e, b)
    BY <1>3, Caching DEF Typed
  <2>2. UNCHANGED <<waiting, waitsync_, timer, expired>>
    BY <2>1 DEF Caches, Callback, timerVars
  <2>3. CASE b
    <3>1. ros' = "send" /\ due' = due \cup {t}
      BY <2>1, <2>3 DEF Caches, Callback
    <3>2. waiting[t] # NoRequest
      <4>1. inbox[1].status = UNDEFINED /\ inbox[1].topic = t /\ 1 \in DOMAIN inbox
        BY <2>1, Taken DEF Caches, Callback, Typed, TypeOK
      <4>2. Called(t)
        BY <4>1 DEF Called
      <4> QED BY <4>2, Free DEF OneRequestPerTopic
    <3> QED BY <2>2, <3>1, <3>2 DEF Noticing, OneRequest, MissingAnswerNoticed
  <2>4. CASE ~b
    <3>1. UNCHANGED <<ros, due>>
      BY <2>1, <2>4 DEF Caches, Callback, rosVars
    <3> QED BY <2>2, <3>1, <1>d, StillNoticed
  <2> QED BY <2>3, <2>4
<1>4. CASE SendSync
  BY <1>4 DEF SendSync, Noticing, OneRequest, MissingAnswerNoticed
<1>5. CASE ArmTimer \/ TimerExpires
  BY <1>5 DEF ArmTimer, TimerExpires, Noticing, OneRequest, MissingAnswerNoticed
<1>6. CASE HandleAnswerTimeout
  <2>1. due' \subseteq due /\ (due' = {} \/ ros # "idle" \/ timer = "armed")
    BY <1>6 DEF HandleAnswerTimeout, Typed, TypeOK
  <2>2. UNCHANGED <<ros, timer, waiting, waitsync_>>
    BY <1>6 DEF HandleAnswerTimeout, rosVars
  <2> QED BY <2>1, <2>2 DEF Noticing, OneRequest, MissingAnswerNoticed
<1>7. CASE ExtractReport
  <2>1. /\ Head(fromModem) = fromModem[1] /\ 1 \in DOMAIN fromModem
        /\ Head(fromModem) \in Answer /\ Head(fromModem).subject = "delivered"
    BY <1>7, Taken DEF ExtractReport, Arrives, Typed
  <2>2. fromModem[1].answers # NoRequest
    BY <2>1 DEF AnswersFit
  <2>3. fromModem[1].answers \in Request /\ "delivered" = AnswerSubject(fromModem[1].answers)
    BY <2>1, <2>2, UnderWayType DEF AnswersFit
  <2> QED BY <2>3, SubjectType, TopicSet
<1>8. CASE (ExtractSubject \/ RcvExtract) /\ ~ExtractReport /\ ~ExtractUnknown
  <2>1. PICK t \in Topics, e \in Entry : Publishes(t, e)
    BY <1>8, Publishing
  <2>2. /\ waiting' = [waiting EXCEPT ![t] = NoRequest] /\ due' = due \ {t}
        /\ UNCHANGED <<ros, expired, waitsync_>>
    BY <2>1 DEF Publishes, PublishOn, rosVars
  <2>3. waiting'[t] = NoRequest /\ \A u \in Topics : u # t => waiting'[u] = waiting[u]
    BY <2>2 DEF Typed, TypeOK
  <2>4. CASE waiting[t] # NoRequest
    <3>1. due' = {}
      BY <2>2, <2>4, <1>d DEF Noticing, OneRequest
    <3> QED BY <2>2, <2>3, <3>1 DEF Noticing, OneRequest, MissingAnswerNoticed
  <2>5. CASE waiting[t] = NoRequest
    <3>1. Arrives("recv")
      BY <2>1, <2>5, PublishedAnswer, RequestTopic DEF OneRequestPerTopic
    <3>2. UNCHANGED timer
      BY <2>1, <3>1 DEF Publishes
    <3> QED BY <2>2, <2>3, <3>2, <1>d, StillNoticed
  <2> QED BY <2>4, <2>5
<1>9. CASE IgnoreOwn \/ RcvIncomplete \/ RcvDropped \/ ExtractUnknown \/ ModemAnswers
             \/ ModemReports \/ Disconnected \/ Connected \/ UNCHANGED vars
  <2>1. /\ UNCHANGED <<ros, timer, expired, waiting, due>>
        /\ waitsync_' = waitsync_ \/ waitsync_' = "NO"
    BY <1>9 DEF IgnoreOwn, RcvIncomplete, RcvDropped, ExtractUnknown, ModemAnswers,
                ModemReports, Disconnected, Connected, vars, rosVars, timerVars
  <2> QED BY <2>1, <1>d, StillNoticed
<1> QED
  BY <1>1, <1>2, <1>3, <1>4, <1>5, <1>6, <1>7, <1>8, <1>9 DEF Next, RosThread, IoThread

(* An accepted request that is neither answered nor given up is reported   *)
(* as missing, whatever is lost, if there is one request at a time in the  *)
(* whole system, its client stays for the answer, and the modem reports no *)
(* delivery: any other answer and any report cancel the timer.             *)
THEOREM MissingAnswersNoticed ==
  ASSUME Calm, Patience = "one", "delivered" \notin Reports
  PROVE  Spec => []MissingAnswerNoticed
<1>1. Init => Typed /\ AnswersFit /\ OneRequestPerTopic /\ Noticing
  <2>1. Init => Noticing
    BY DEF Init, Noticing, OneRequest, MissingAnswerNoticed
  <2> QED BY <2>1, TypeInit, QuietInit, OneInit
<1>2. Typed /\ AnswersFit /\ OneRequestPerTopic /\ Noticing /\ [Next]_vars
        => Typed' /\ AnswersFit' /\ OneRequestPerTopic' /\ Noticing'
  BY TypeStep, FitStep, OneStep, NoticedStep
<1>3. Noticing => MissingAnswerNoticed
  BY DEF Noticing
<1> QED BY <1>1, <1>2, <1>3, PTL DEF Spec
=============================================================================
