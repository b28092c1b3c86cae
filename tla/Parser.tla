------------------------------- MODULE Parser -------------------------------
(***************************************************************************)
(* src/src/parser.h: the ROS interface of the network layer.  Clients      *)
(* publish a request on the topic of a subject; its callback caches the    *)
(* request's id and sends a telegram.  The modem's answer is published on  *)
(* the same topic, under the cached id.  The node subscribes to the topics *)
(* it publishes on, so its own answers come back to the callbacks.         *)
(*                                                                         *)
(* The ROS thread runs the callbacks and sendSync; the I/O thread runs the *)
(* extractors and the handler of answer_timer_.  No lock orders them.  The *)
(* byte stream between modem and extractors is the subject of Framing:     *)
(* here a telegram or an answer is a record.                               *)
(***************************************************************************)
EXTENDS Integers, Sequences

CONSTANTS
  Requests,     \* what clients may publish
  Reports,      \* subjects of the telegrams the modem sends unasked
  Patience,     \* "one": one client, one request at a time; "topic": one
                \* request at a time on each topic; "none": requests at will
  Stay,         \* whether a client stays while its request, or an answer on
                \* its topic, is under way; the scripts leave at any time
  MaxRequests, MaxReports, MaxLosses   \* bounds: requests, reports, link losses

(* msg/NLCommand.msg: commands, subjects and status.  STATE is a word of    *)
(* TLA+.                                                                   *)
UNDEFINED == 0
GET == 1
SET == 2
DELETE == 3
RESET == 4
CLEAR == 5
SEND == 6
RECV == 7
START == 8
STOP == 9

ADDRESS == 1
PROTOCOL == 2
PROTOCOLS == 3
PROTOCOLINFO == 4
ROUTING == 5
NEIGHBOURS == 7
STATE_ == 8
STATES == 9
STATISTICS == 10
VERSION == 11
DATA == 12
DISCOVERY == 13
POLLING == 14

OK == 1
ERROR == 2
EMPTY == 4

(* The topics with a callback, and the subject each cached message starts with. *)
SubjectOf ==
  [version |-> VERSION, address |-> ADDRESS, protocol |-> PROTOCOL,
   protocols |-> PROTOCOLS, protocolinfo |-> PROTOCOLINFO, routing |-> ROUTING,
   neighbours |-> NEIGHBOURS, states |-> STATES, statistics |-> STATISTICS,
   data |-> DATA, discovery |-> DISCOVERY, polling |-> POLLING]

Topics == DOMAIN SubjectOf

(* msg/NLStatistics.msg: the types of statistics.                          *)
StatisticsTypes == [neighbours |-> 1, paths |-> 2, data |-> 3]

(* A request: the part of a message the callback reads.  content stands    *)
(* for its arguments: the empty sequence is an empty list.  That of a      *)
(* request for statistics is the type.                                     *)
Request == [topic : Topics, id : 0 .. 10, subject : 0 .. 15, content : Seq(Nat)]

NoRequest == [topic |-> "none", id |-> 0, subject |-> 0, content |-> << >>]

(* neighboursCallback reads neighbours[0] of a DELETE without a test: a    *)
(* DELETE names a neighbour.                                               *)
ASSUME RequestsAssumption ==
  /\ Requests \subseteq Request
  /\ \A r \in Requests : r.topic = "neighbours" /\ r.id = DELETE => r.content # << >>

ASSUME BoundsAssumption ==
  /\ Patience \in {"one", "topic", "none"} /\ Stay \in BOOLEAN
  /\ MaxRequests \in Nat /\ MaxReports \in Nat /\ MaxLosses \in Nat

VARIABLES
  cached,    \* version_, address_, ... : the message of each topic
  waitsync_,
  inbox,     \* the ROS callback queue: requests and the node's own answers
  ros,       \* ROS thread: idle, or before a step of sendSync: send, arm
  pending,   \* the request whose telegram the ROS thread is sending
  timer,     \* answer_timer_: idle or armed
  expired,   \* the handler of an expired wait is queued
  link,      \* whether comm_ is connected
  toModem, fromModem,   \* telegrams and answers under way
  waiting,   \* clients: the request that is unanswered on each topic
  due,       \* history: the topics with an accepted request that is neither
             \* answered, nor given up, nor reported missing
  counts     \* for the bounds: requests, reports, losses

rosVars   == <<ros, pending>>
timerVars == <<timer, expired>>
wireVars  == <<link, toModem, fromModem>>
vars == <<cached, waitsync_, inbox, ros, pending, timer, expired, link,
          toModem, fromModem, waiting, due, counts>>

(* A message on a topic.  answers and form are history: the request that   *)
(* the answer belongs to, and the form of the answer it was made from.     *)
Message == [topic : Topics, id : 0 .. 10, subject : 0 .. 15, status : 0 .. 4,
            content : Seq(Nat), answers : Request \cup {NoRequest},
            form : {"request"} \cup {"ok", "error", "value", "malformed", "partial", "empty"}]

TypeOK ==
  /\ cached \in [Topics -> [id : 0 .. 10, subject : 0 .. 15, status : 0 .. 4,
                            content : Seq(Nat)]]
  /\ \A t \in Topics \ {"states", "data"} : cached[t].subject = SubjectOf[t]
  /\ waitsync_ \in {"NO", "SINGLELINE", "MULTILINE", "BINARY"}
  /\ inbox \in Seq(Message)
  /\ ros \in {"idle", "send", "arm"} /\ pending \in Request \cup {NoRequest}
  /\ timer \in {"idle", "armed"} /\ expired \in BOOLEAN
  /\ link \in BOOLEAN /\ toModem \in Seq(Request)
  /\ waiting \in [Topics -> Request \cup {NoRequest}]
  /\ due \subseteq Topics

-----------------------------------------------------------------------------
(* The clients: scripts that publish a request and listen on its topic for *)
(* a message whose status is not UNDEFINED.                                *)

MayAsk(t) ==
  CASE Patience = "one"   -> \A u \in Topics : waiting[u] = NoRequest
    [] Patience = "topic" -> waiting[t] = NoRequest
    [] Patience = "none"  -> TRUE

Ask(r) ==
  /\ MayAsk(r.topic)
  /\ counts.requests < MaxRequests
  /\ counts' = [counts EXCEPT !.requests = @ + 1]
  /\ inbox' = Append(inbox, [topic |-> r.topic, id |-> r.id, subject |-> r.subject,
                             status |-> UNDEFINED, content |-> r.content,
                             answers |-> NoRequest, form |-> "request"])
  /\ waiting' = [waiting EXCEPT ![r.topic] = r]
  /\ UNCHANGED <<cached, waitsync_, rosVars, timerVars, wireVars, due>>

UnderWay(r) ==
  \/ \E i \in DOMAIN inbox : inbox[i].status = UNDEFINED /\ inbox[i].topic = r.topic
  \/ ros # "idle" /\ pending.topic = r.topic
  \/ \E i \in DOMAIN toModem : toModem[i].topic = r.topic
  \/ \E i \in DOMAIN fromModem : fromModem[i].answers.topic = r.topic

(* A script leaves two or three seconds after its request, whatever is     *)
(* under way.  One that stays gives up only what can no longer come: a     *)
(* request that was refused or lost.                                       *)
GiveUp(t) ==
  /\ waiting[t] # NoRequest
  /\ Stay => ~UnderWay(waiting[t])
  /\ waiting' = [waiting EXCEPT ![t] = NoRequest]
  /\ due' = due \ {t}
  /\ UNCHANGED <<cached, waitsync_, inbox, rosVars, timerVars, wireVars, counts>>

-----------------------------------------------------------------------------
(* The callbacks, in the ROS thread.                                       *)

IgnoreOwn ==
  /\ ros = "idle" /\ inbox # << >> /\ Head(inbox).status # UNDEFINED
  /\ inbox' = Tail(inbox)
  /\ UNCHANGED <<cached, waitsync_, rosVars, timerVars, wireVars, waiting, due, counts>>

(* What the callbacks have in common: entry is what they cache, supported  *)
(* the condition under which they compose a telegram and call sendSync.    *)
(* The cache is written first, whether or not the request is supported.    *)
Callback(topic, entry, supported) ==
  /\ ros = "idle" /\ inbox # << >>
  /\ Head(inbox).topic = topic /\ Head(inbox).status = UNDEFINED
  /\ inbox' = Tail(inbox)
  /\ cached' = [cached EXCEPT ![topic] = entry]
  /\ IF supported
     THEN /\ ros' = "send"
          /\ pending' = [topic |-> topic, id |-> Head(inbox).id,
                         subject |-> Head(inbox).subject, content |-> Head(inbox).content]
          /\ due' = due \cup {topic}
     ELSE UNCHANGED <<rosVars, due>>
  /\ UNCHANGED <<waitsync_, timerVars, wireVars, waiting, counts>>

Cache(topic) == [cached[topic] EXCEPT !.id = Head(inbox).id]
Asks(ids)    == Head(inbox).id \in ids

VersionCallback      == Callback("version", Cache("version"), Asks({GET}))
AddressCallback      == Callback("address", Cache("address"), Asks({GET, SET}))
ProtocolCallback     == Callback("protocol", Cache("protocol"), Asks({GET, SET}))
ProtocolsCallback    == Callback("protocols", Cache("protocols"), Asks({GET}))
ProtocolinfoCallback == Callback("protocolinfo", Cache("protocolinfo"), Asks({GET}))

RoutingCallback ==
  Callback("routing", Cache("routing"),
           Asks({GET}) \/ (Asks({SET}) /\ Head(inbox).content # << >>))

NeighboursCallback ==
  Callback("neighbours", Cache("neighbours"),
           Asks({GET, DELETE}) \/ (Asks({SET}) /\ Head(inbox).content # << >>))

StatesCallback ==
  Callback("states", [Cache("states") EXCEPT !.subject = Head(inbox).subject],
           \/ Asks({GET, RESET}) /\ Head(inbox).subject = STATE_
           \/ Asks({GET}) /\ Head(inbox).subject = STATES)

StatisticsCallback ==
  Callback("statistics", Cache("statistics"),
           \/ Asks({GET}) /\ \E type \in DOMAIN StatisticsTypes :
                              Head(inbox).content = <<StatisticsTypes[type]>>
           \/ Asks({CLEAR}) /\ Head(inbox).content = <<StatisticsTypes["data"]>>)

DataCallback == Callback("data", Cache("data"), Asks({SEND}))

(* Mutation of DiscoveryCallback: the period is not cached.                *)
DiscoveryCallbackForgets ==
  Callback("discovery", Cache("discovery"), Asks({GET, START, STOP}))

DiscoveryCallback ==
  Callback("discovery", [Cache("discovery") EXCEPT !.content = Head(inbox).content],
           Asks({GET, START, STOP}))

PollingCallback ==
  Callback("polling",
           [Cache("polling") EXCEPT !.content = IF Asks({SET}) THEN Head(inbox).content ELSE @],
           Asks({SET, START, STOP}))

RosCallback ==
  \/ IgnoreOwn
  \/ VersionCallback \/ AddressCallback \/ ProtocolCallback \/ ProtocolsCallback
  \/ ProtocolinfoCallback \/ RoutingCallback \/ NeighboursCallback \/ StatesCallback
  \/ StatisticsCallback \/ DataCallback \/ DiscoveryCallback \/ PollingCallback

-----------------------------------------------------------------------------
(* sendSync: the telegram leaves before the answer timer is armed, and the *)
(* I/O thread may run in between.                                          *)

SendSync ==
  /\ ros = "send"
  /\ IF waitsync_ = "NO"
     THEN /\ toModem' = IF link THEN Append(toModem, pending) ELSE toModem
          /\ ros' = "arm"
          /\ UNCHANGED due
     ELSE /\ ros' = "idle"       \* "sequence error"
          /\ due' = due \ {pending.topic}
          /\ UNCHANGED toModem
  /\ UNCHANGED <<cached, waitsync_, inbox, pending, timerVars, link, fromModem,
                 waiting, counts>>

(* Mutation of ArmTimer: only a telegram that was sent is waited for.      *)
ArmTimerIfSent ==
  /\ ros = "arm"
  /\ ros' = "idle"
  /\ timer' = IF link THEN "armed" ELSE timer
  /\ UNCHANGED <<cached, waitsync_, inbox, pending, expired, wireVars, waiting, due, counts>>

ArmTimer ==
  /\ ros = "arm"
  /\ ros' = "idle"
  /\ timer' = "armed"
  /\ UNCHANGED <<cached, waitsync_, inbox, pending, expired, wireVars, waiting, due, counts>>

(* The wait ends.  Its handler is queued; cancelling has no effect on it.  *)
(* The reactor runs what is queued before it looks at the timer again.     *)
TimerExpires ==
  /\ timer = "armed" /\ ~expired
  /\ timer' = "idle" /\ expired' = TRUE
  /\ UNCHANGED <<cached, waitsync_, inbox, rosVars, wireVars, waiting, due, counts>>

(* Mutation of HandleAnswerTimeout: the telegram is sent again.            *)
HandleAnswerTimeoutRetries ==
  /\ expired
  /\ expired' = FALSE
  /\ toModem' = IF link THEN Append(toModem, pending) ELSE toModem
  /\ UNCHANGED <<cached, waitsync_, inbox, rosVars, timer, link, fromModem, waiting, due, counts>>

(* "waitsync_ == WAITSYNC_NO" compares and assigns nothing: the handler    *)
(* only logs "Answer timeout".  What it says is about the last request if  *)
(* that request has been sent and its wait is not running any more.        *)
HandleAnswerTimeout ==
  /\ expired
  /\ expired' = FALSE
  /\ due' = IF ros = "idle" /\ timer = "idle" THEN {} ELSE due
  /\ UNCHANGED <<cached, waitsync_, inbox, rosVars, timer, wireVars, waiting, counts>>

-----------------------------------------------------------------------------
(* The extractors, in the I/O thread.                                      *)

Arrives(subject) == fromModem # << >> /\ Head(fromModem).subject = subject

Form == Head(fromModem).form

(* Publication of the topic's message: subscribers of the topic, the node  *)
(* among them, are sent a copy of it.  The listener of a client takes a    *)
(* message with a status for its answer.                                   *)
PublishOn(topic, entry) ==
  /\ cached' = [cached EXCEPT ![topic] = entry]
  /\ inbox' = Append(inbox, [topic |-> topic, id |-> entry.id, subject |-> entry.subject,
                             status |-> entry.status, content |-> entry.content,
                             answers |-> Head(fromModem).answers, form |-> Form])
  /\ IF entry.status # UNDEFINED
     THEN waiting' = [waiting EXCEPT ![topic] = NoRequest] /\ due' = due \ {topic}
     ELSE UNCHANGED <<waiting, due>>
  /\ fromModem' = Tail(fromModem)
  /\ UNCHANGED <<waitsync_, rosVars, expired, link, toModem, counts>>

(* Every extractor but nl_rcv_extract begins by cancelling the timer.      *)
Extract(subject, topic, entry) ==
  Arrives(subject) /\ timer' = "idle" /\ PublishOn(topic, entry)

(* The cached message with a status, and with what the telegram told where *)
(* the extractor read it.                                                  *)
With(topic, status, content) ==
  [cached[topic] EXCEPT !.status = status, !.content = content]

Kept(topic) == cached[topic].content
Told        == Head(fromModem).content

(* A value replaces what was cached; anything else is an error that leaves *)
(* the cached value in place.                                              *)
Plain(topic) ==
  IF Form = "value" THEN With(topic, OK, Told) ELSE With(topic, ERROR, Kept(topic))

(* Mutation of ExtractProtocol: a copy of another extractor, half adapted.  *)
ExtractProtocolElsewhere == Extract("protocol", "address", Plain("protocol"))

(* Mutation of ExtractAddress: it returns at once when it reads an error.  *)
ExtractAddressSilent ==
  /\ Arrives("address")
  /\ IF Form = "value"
     THEN timer' = "idle" /\ PublishOn("address", Plain("address"))
     ELSE /\ fromModem' = Tail(fromModem)
          /\ UNCHANGED <<cached, waitsync_, inbox, rosVars, timerVars, link, toModem,
                         waiting, due, counts>>

ExtractVersion      == Extract("version", "version", Plain("version"))
ExtractAddress      == Extract("address", "address", Plain("address"))
ExtractProtocol     == Extract("protocol", "protocol", Plain("protocol"))
ExtractProtocolinfo == Extract("protocolinfo", "protocolinfo", Plain("protocolinfo"))
ExtractRouting      == Extract("routing", "routing", Plain("routing"))

(* The names are pushed behind those of the last answer.                   *)
ExtractProtocols ==
  Extract("protocols", "protocols",
          IF Form = "value" THEN With("protocols", OK, Kept("protocols") \o Told)
                            ELSE With("protocols", ERROR, Kept("protocols")))

(* Whether a colon may be in the buffer behind the answer.                 *)
ColonBehind ==
  \E i \in 2 .. Len(fromModem) :
    /\ fromModem[i].subject \in {"version", "protocolinfo", "neighbours", "state", "states",
                                 "statistics", "recv", "unknown"}
    /\ fromModem[i].form \in {"value", "malformed", "partial"}

(* The list is erased before it is parsed.  Any colon in the buffer makes  *)
(* it a long list, of which a short one is not.                            *)
ExtractNeighbours ==
  \E colon \in {FALSE, ColonBehind} :
    Extract("neighbours", "neighbours",
            CASE Form = "value" /\ ~colon -> With("neighbours", OK, Told)
              [] Form = "error"           -> With("neighbours", ERROR, Kept("neighbours"))
              [] OTHER                    -> With("neighbours", ERROR, << >>))

ExtractNeighbour ==
  Extract("neighbour", "neighbours",
          IF Form = "ok" THEN With("neighbours", OK, << >>)
                         ELSE With("neighbours", ERROR, Kept("neighbours")))

ExtractState ==
  Extract("state", "states",
          [(CASE Form = "value" -> With("states", OK, Told)
              [] Form = "ok"    -> With("states", OK, << >>)
              [] Form = "error" -> With("states", ERROR, Kept("states"))
              [] OTHER          -> With("states", ERROR, << >>))
           EXCEPT !.subject = STATE_])

ExtractStates ==
  Extract("states", "states", [Plain("states") EXCEPT !.subject = STATES])

(* The items before the first that is malformed stay in the list.          *)
ExtractStatistics ==
  Extract("statistics", "statistics",
          CASE Form = "value"   -> With("statistics", OK, Told)
            [] Form = "partial" -> With("statistics", ERROR, Told)
            [] Form = "ok"      -> With("statistics", OK, << >>)
            [] Form = "empty"   -> With("statistics", EMPTY, << >>)
            [] OTHER            -> With("statistics", ERROR, << >>))

(* nl_extract_send writes the command SEND into the field of the subject.  *)
ExtractSend ==
  Extract("send", "data",
          [(CASE Form = "value" -> With("data", OK, Told)
              [] Form = "ok"    -> With("data", OK, Kept("data"))
              [] OTHER          -> With("data", ERROR, Kept("data")))
           EXCEPT !.subject = SEND])

(* Mutation of ExtractDiscovery: an "ok" leaves the status as it was.      *)
ExtractDiscoveryAsIs ==
  Extract("discovery", "discovery",
          IF Form = "ok" THEN cached["discovery"] ELSE With("discovery", OK, Told))

ExtractDiscovery ==
  Extract("discovery", "discovery",
          CASE Form = "ok"    -> With("discovery", OK, Kept("discovery"))
            [] Form = "value" -> With("discovery", OK, Told)
            [] OTHER          -> With("discovery", ERROR, Kept("discovery")))

ExtractPolling ==
  Extract("polling", "polling",
          CASE Form = "value" -> With("polling", OK, Told)
            [] Form = "ok"    -> With("polling", OK, << >>)
            [] OTHER          -> With("polling", ERROR, << >>))

(* nl_rcv_extract makes a RECV of the cached message before it looks for   *)
(* the payload.                                                            *)
Received == [cached["data"] EXCEPT !.id = RECV, !.subject = DATA, !.status = OK]

(* Mutation of RcvExtract: the timer is cancelled, as by all the others.   *)
RcvExtractCancels == Extract("recv", "data", Received)

(* Mutation of RcvExtract: the status is set only where an answer is due.  *)
RcvExtractUnset ==
  /\ Arrives("recv") /\ UNCHANGED timer
  /\ PublishOn("data", [cached["data"] EXCEPT !.id = RECV, !.subject = DATA])

(* Data from the network.  The timer is left alone.  The payload is the    *)
(* message's data, not the reference that content stands for on this topic. *)
RcvExtract == Arrives("recv") /\ UNCHANGED timer /\ PublishOn("data", Received)

(* The payload is not complete yet.                                        *)
RcvIncomplete ==
  /\ Arrives("recv")
  /\ cached' = [cached EXCEPT !["data"] = Received]
  /\ UNCHANGED <<waitsync_, inbox, rosVars, timerVars, wireVars, waiting, due, counts>>

(* The line cannot be parsed, or ends too early: it is dropped.            *)
RcvDropped ==
  /\ Arrives("recv")
  /\ cached' = [cached EXCEPT !["data"] = Received]
  /\ fromModem' = Tail(fromModem)
  /\ UNCHANGED <<waitsync_, inbox, rosVars, timerVars, link, toModem, waiting, due, counts>>

(* delivered, and failed alike: published on data_report, which has no     *)
(* callback.                                                               *)
ExtractReport ==
  /\ Arrives("delivered")
  /\ timer' = "idle"
  /\ fromModem' = Tail(fromModem)
  /\ UNCHANGED <<cached, waitsync_, inbox, rosVars, expired, link, toModem,
                 waiting, due, counts>>

(* A subject that nl_extract_subject does not know is dropped.             *)
ExtractUnknown ==
  /\ Arrives("unknown")
  /\ fromModem' = Tail(fromModem)
  /\ UNCHANGED <<cached, waitsync_, inbox, rosVars, timerVars, link, toModem,
                 waiting, due, counts>>

ExtractSubject ==
  \/ ExtractVersion \/ ExtractAddress \/ ExtractProtocol \/ ExtractProtocols
  \/ ExtractProtocolinfo \/ ExtractRouting \/ ExtractNeighbours \/ ExtractNeighbour
  \/ ExtractState \/ ExtractStates \/ ExtractStatistics \/ ExtractSend
  \/ ExtractReport \/ ExtractDiscovery \/ ExtractPolling \/ ExtractUnknown

-----------------------------------------------------------------------------
(* The modem and the link to it.                                           *)

(* The subject under which the modem answers a telegram.                   *)
AnswerSubject(r) ==
  CASE r.topic = "neighbours" /\ r.id = DELETE   -> "neighbour"
    [] r.topic = "states" /\ r.subject = STATE_   -> "state"
    [] r.topic = "data"                          -> "send"
    [] OTHER                                     -> r.topic

(* The forms of an answer that the extractor of its subject distinguishes. *)
(* A number that is not one ends the process (boost::bad_lexical_cast): no *)
(* answer takes that form here.                                            *)
Forms(subject) ==
  CASE subject \in {"version", "neighbours"}           -> {"value", "error", "malformed"}
    [] subject = "neighbour"                           -> {"ok", "error", "malformed"}
    [] subject = "state"                               -> {"value", "ok", "error", "malformed"}
    [] subject = "statistics"                          -> {"value", "ok", "error", "empty", "malformed", "partial"}
    [] subject \in {"send", "polling"}                 -> {"value", "ok", "error"}
    [] subject = "discovery"                           -> {"value", "ok", "malformed"}
    [] subject \in {"delivered", "recv", "unknown"}        -> {"value"}
    [] OTHER                                           -> {"value", "error"}

Telegram(subject, form, r) ==
  [subject |-> subject, form |-> form, answers |-> r,
   content |-> IF form \in {"value", "partial"} THEN <<1>> ELSE << >>]

(* The modem answers in the order in which telegrams reach it.             *)
ModemAnswers ==
  /\ toModem # << >>
  /\ toModem' = Tail(toModem)
  /\ \E form \in Forms(AnswerSubject(Head(toModem))) :
       fromModem' = Append(fromModem, Telegram(AnswerSubject(Head(toModem)), form, Head(toModem)))
  /\ UNCHANGED <<cached, waitsync_, inbox, rosVars, timerVars, link, waiting, due, counts>>

ModemReports ==
  /\ link
  /\ counts.reports < MaxReports
  /\ \E subject \in Reports :
       fromModem' = Append(fromModem, Telegram(subject, "value", NoRequest))
  /\ counts' = [counts EXCEPT !.reports = @ + 1]
  /\ UNCHANGED <<cached, waitsync_, inbox, rosVars, timerVars, link, toModem, waiting, due>>

(* do_close: disconnected() resets waitsync_; what is under way is lost,   *)
(* except for what had been read and whose handler is still to run.        *)
Disconnected ==
  /\ link
  /\ counts.losses < MaxLosses
  /\ counts' = [counts EXCEPT !.losses = @ + 1]
  /\ link' = FALSE /\ waitsync_' = "NO"
  /\ toModem' = << >>
  /\ \E k \in 0 .. Len(fromModem) : fromModem' = SubSeq(fromModem, 1, k)
  /\ UNCHANGED <<cached, inbox, rosVars, timerVars, waiting, due>>

Connected ==
  /\ ~link
  /\ link' = TRUE
  /\ UNCHANGED <<cached, waitsync_, inbox, rosVars, timerVars, toModem, fromModem,
                 waiting, due, counts>>

-----------------------------------------------------------------------------
Init ==
  /\ cached = [t \in Topics |-> [id |-> UNDEFINED, subject |-> SubjectOf[t],
                                 status |-> UNDEFINED, content |-> << >>]]
  /\ waitsync_ = "NO"
  /\ inbox = << >>
  /\ ros = "idle" /\ pending = NoRequest
  /\ timer = "idle" /\ expired = FALSE
  /\ link = FALSE /\ toModem = << >> /\ fromModem = << >>
  /\ waiting = [t \in Topics |-> NoRequest]
  /\ due = {}
  /\ counts = [requests |-> 0, reports |-> 0, losses |-> 0]

RosThread == RosCallback \/ SendSync \/ ArmTimer
IoThread  == ExtractSubject \/ RcvExtract \/ RcvIncomplete \/ RcvDropped \/ HandleAnswerTimeout

Next ==
  \/ \E r \in Requests : Ask(r)
  \/ \E t \in Topics : GiveUp(t)
  \/ RosThread \/ IoThread \/ TimerExpires
  \/ ModemAnswers \/ ModemReports \/ Connected \/ Disconnected

Spec == Init /\ [][Next]_vars

(* Neither thread blocks, and the modem answers what reaches it.           *)
FairSpec == Spec /\ WF_vars(RosThread) /\ WF_vars(IoThread) /\ WF_vars(ModemAnswers)

-----------------------------------------------------------------------------
(* Properties.                                                             *)

Published == {inbox[i] : i \in {j \in DOMAIN inbox : inbox[j].form # "request"}}

(* The node hears itself.  Whatever sequence of answers and reports it     *)
(* publishes, none of them passes for a request: none is sent back to the  *)
(* modem, whose answer would be published and sent back again.             *)
OwnAnswersIgnored == \A m \in Published : m.status # UNDEFINED

(* The answer that is published carries the request it answers, although   *)
(* id, subject and period are cached per topic when the request comes in   *)
(* and read when the answer does: clients that stay for the answer on the  *)
(* topic before they ask again are told whose answer it is.                *)
AnswerMatchesRequest ==
  \A m \in Published : m.answers # NoRequest =>
    /\ m.id = m.answers.id
    /\ m.topic = "states" => m.subject = m.answers.subject
    /\ m.topic = "discovery" /\ m.id = START /\ m.form = "ok" =>
         m.content = m.answers.content

(* Requests are synchronous: the modem is never asked while it owes an     *)
(* answer; sendSync refuses such a request as a sequence error.            *)
OneTelegramAtATime ==
  Len(toModem) + Len(SelectSeq(fromModem, LAMBDA a : a.answers # NoRequest)) <= 1

(* What a waiting client takes for its answer, the next message with a     *)
(* status on its topic, is the answer to its own request: no telegram is   *)
(* sent twice, none goes unasked, and no answer comes after its time or on *)
(* another topic.  It holds for clients that stay for the answer and are   *)
(* not met by received data.                                               *)
AnswerIsToOwnRequest ==
  [][\A t \in Topics :
       waiting[t] # NoRequest /\ waiting'[t] = NoRequest /\ inbox' # inbox =>
         inbox'[Len(inbox')].answers = waiting[t]]_vars

(* A request that the node has accepted is answered, given up, or reported *)
(* as missing: until then sendSync is about to arm the timer, or the timer *)
(* runs, or its handler is about to report.  It holds, whatever is lost,   *)
(* if there is one request at a time in the whole system and no delivery   *)
(* report: other answers and reports cancel the timer.                     *)
MissingAnswerNoticed == due # {} => ros # "idle" \/ timer = "armed" \/ expired

(* The answer timer only runs out on a request that is unanswered.         *)
NoSpuriousTimeout ==
  [][~expired /\ expired' => \E t \in Topics : waiting[t] # NoRequest]_vars

(* A telegram that reaches the modem ends the wait of the client that      *)
(* asked, unless the connection is lost.                                   *)
TelegramsAreAnswered ==
  \A t \in {r.topic : r \in Requests} :
    (\E i \in DOMAIN toModem : toModem[i].topic = t) ~> (waiting[t] = NoRequest \/ ~link)
=============================================================================
