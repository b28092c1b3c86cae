----------------------------- MODULE DriverProofs -----------------------------
(***************************************************************************)
(* The connection and the parser in one process, for every set of messages *)
(* and every bound: the one chunk between them is neither lost nor parsed  *)
(* late, so the process does to the stream of the modem what Framing says. *)
(* The proofs use what has been proved of the two components.              *)
(***************************************************************************)
EXTENDS Driver, TLAPS, SequenceTheorems

TP == INSTANCE TcpClientProofs

FP == INSTANCE FramingProofs WITH wire <- mem_ \o wire

(* What the theorems of the components assume of their constants.          *)
LEMMA Constants ==
  /\ MaxWrites \in Nat /\ MaxMessages \in Nat /\ MaxLosses \in Nat
  /\ Messages \subseteq [kind : FP!Kinds, payload : Seq({FP!Byte, FP!LF})]
BY ConnectionAssumption, StreamAssumption
   DEF F!Kinds, F!Byte, F!LF, F!Sym, FP!Kinds, FP!Byte, FP!LF, FP!Sym

-----------------------------------------------------------------------------
(* The connection does not notice that the parser is there.                *)

(* The driver runs the handlers of the connection and nothing else of it.  *)
LEMMA ConnectionStep == [Next]_vars => [TP!Next]_(TP!vars)
<1> SUFFICES ASSUME [Next]_vars PROVE [TP!Next]_(TP!vars)
  OBVIOUS
<1>1. CASE T!Handler
  BY <1>1
  DEF TP!Next, T!Handler, TP!Handler, T!HandleConnect, TP!HandleConnect, T!HandleRead,
      TP!HandleRead, T!HandleWrite, TP!HandleWrite, T!ReconnectTimeout, TP!ReconnectTimeout,
      T!Handling, TP!Handling, T!DoClose, TP!DoClose, T!AlreadyClosed, TP!AlreadyClosed,
      T!CloseAndRetry, TP!CloseAndRetry, T!StartRead, TP!StartRead, T!Connect, TP!Connect,
      T!Done, TP!Done, T!OneIf, TP!OneIf, T!Aborted, TP!Aborted, T!Established, TP!Established
<1>2. CASE T!ConnectDone \/ T!ReadDone \/ T!WriteDone \/ T!TimerExpires
  BY <1>2
  DEF TP!Next, TP!Reactor, T!ConnectDone, TP!ConnectDone, T!ReadDone, TP!ReadDone,
      T!WriteDone, TP!WriteDone, T!TimerExpires, TP!TimerExpires, T!Done, TP!Done
<1>3. CASE T!SendTest \/ T!SendWrite
  BY <1>3
  DEF TP!Next, T!SendTest, TP!SendTest, T!SendWrite, TP!SendWrite, T!io, TP!io,
      T!Unhandled, TP!Unhandled, T!Cardinality, TP!Cardinality, T!Done, TP!Done
<1>4. CASE UNCHANGED tcp
  BY <1>4 DEF tcp, TP!vars
<1> QED
  BY <1>1, <1>2, <1>3, <1>4
  DEF Next, IoThread, HandleRead, Parse, Handler, ModemSends, ReadDone, ConnectDone,
      Elsewhere, vars

(* The client of the driver starts as any client does.                     *)
LEMMA ConnectionInit == Init => TP!Init
BY DEF Init, T!Init, TP!Init

(* What has been proved of the connection alone holds within the driver.   *)
LEMMA ConnectionInvariant == Spec => []TP!IInv
<1>1. Spec => TP!Spec
  BY ConnectionInit, ConnectionStep, PTL DEF Spec, TP!Spec
<1> QED BY <1>1, TP!Inductive, Constants

(* The driver is a client: the parser never delays or reorders what the    *)
(* connection does, other than by the time it takes.                       *)
THEOREM ConnectionRefined == Spec => T!Spec
<1>1. Init => T!Init
  BY DEF Init
<1>2. [Next]_vars => [T!Next]_(T!vars)
  BY DEF Next, IoThread, HandleRead, Parse, Handler, ModemSends, ReadDone, ConnectDone,
         Elsewhere, vars, tcp, T!Next, T!Reactor, T!vars
<1> QED BY <1>1, <1>2, PTL DEF Spec, T!Spec

-----------------------------------------------------------------------------
(* The chunk.                                                              *)

(* A chunk waits in mem_ only while its handler is queued, and no other    *)
(* handler of the parser runs; one whose connection has been closed is     *)
(* parsed before the next attempt.                                         *)
Chunk ==
  /\ FP!TypeOK /\ mem_ \in Seq(FP!Symbol) /\ wire \in Seq(FP!Symbol) /\ stale \in BOOLEAN
  /\ OneChunk
  /\ parsing => T!Queued("read")
  /\ stale => mem_ # << >> /\ state_ = "DISCONNECTED"
  /\ socket_ = "open" => losses < MaxLosses

(* Nothing has been read at the start.                                     *)
LEMMA ChunkInit == Init => Chunk
<1> SUFFICES ASSUME Init PROVE Chunk
  OBVIOUS
<1>1. mem_ = << >> /\ wire = << >> /\ mem_ \o wire = << >> /\ more_ = << >>
      /\ parsing = FALSE /\ sent = << >> /\ extracted = << >> /\ tame = TRUE /\ losses = 0
      /\ stale = FALSE /\ socket_ = "unconnected"
  BY ConcatEmptySeq, EmptySeq DEF Init, F!Init, T!Init
<1>2. FP!TypeOK
  <2>1. FP!Init
    BY <1>1 DEF FP!Init
  <2> QED BY <2>1, FP!TypeInit, Constants
<1>3. << >> \in Seq(FP!Symbol)
  OBVIOUS
<1>4. stale \in BOOLEAN
  BY <1>1, Zenon
<1> QED BY <1>1, <1>2, <1>3, <1>4 DEF Chunk, OneChunk

(* While a chunk waits, the only other handlers that may run are those of  *)
(* a write.  They leave the chunk's handler in the queue, start no read    *)
(* and begin no attempt.                                                   *)
LEMMA ChunkStays ==
  ASSUME TP!IInv, T!Handler, ~(T!Handling("read") /\ Head(ready).error = "none"),
         NEW i \in DOMAIN ready, ready[i] = T!Done("read", "none")
  PROVE  /\ "read" \notin inFlight'
         /\ \E j \in DOMAIN ready' : ready'[j] = T!Done("read", "none")
         /\ UNCHANGED <<state_, socket_>> \/ state_' = "DISCONNECTED"
<1>1. ready \in Seq(TP!Completion) /\ ready[i].op = "read" /\ ready[i].error = "none"
      /\ inFlight \in SUBSET {"connect", "read"} /\ writes \in Nat
  BY DEF TP!IInv, TP!TypeOK, T!Done
<1>2. ready # << >>
  BY DEF T!Handler, T!HandleConnect, T!HandleRead, T!HandleWrite, T!ReconnectTimeout, T!Handling
<1>3. /\ Tail(ready) \in Seq(TP!Completion)
      /\ Len(ready) \in Nat /\ Len(ready) >= 1 /\ Len(Tail(ready)) = Len(ready) - 1
      /\ DOMAIN ready = 1 .. Len(ready)
      /\ DOMAIN Tail(ready) = 1 .. Len(ready) - 1
      /\ \A k \in DOMAIN Tail(ready) : Tail(ready)[k] = ready[k + 1]
      /\ Head(ready) = ready[1] /\ Head(ready) \in TP!Completion
  BY <1>1, <1>2, TP!Taken
<1>4. i # 1 /\ i \in Nat /\ 1 < i /\ 1 \in DOMAIN ready
  <2>1. i # 1
    BY <1>1, <1>2, <1>3 DEF T!Handling
  <2> QED BY <2>1, <1>3
<1>5. Head(ready).op \notin {"connect", "timer", "read"}
  <2>1. ready[1].op # "connect" /\ ready[1].op # "timer"
    BY <1>1, <1>4 DEF TP!IInv, TP!Order
  <2>2. ready[1].op # "read"
    BY <1>1, <1>4 DEF TP!IInv, TP!SingleReader
  <2> QED BY <2>1, <2>2, <1>3
<1>6. T!HandleWrite
  BY <1>5 DEF T!Handler, T!HandleConnect, T!HandleRead, T!ReconnectTimeout, T!Handling
<1>7. "read" \notin inFlight
  BY <1>1 DEF TP!IInv, TP!SingleReader, TP!Queued
<1>8. PICK j \in DOMAIN Tail(ready) : Tail(ready)[j] = T!Done("read", "none")
  <2>1. i - 1 \in DOMAIN Tail(ready) /\ (i - 1) + 1 = i
    BY <1>3, <1>4
  <2> QED BY <2>1, <1>3
<1>9. CASE ready' = Tail(ready) /\ UNCHANGED <<state_, socket_, inFlight>>
  BY <1>7, <1>8, <1>9
<1>10. CASE T!CloseAndRetry
  <2>1. timer # "armed" /\ T!OneIf(timer = "armed", T!Done("timer", "aborted")) = << >>
    BY <1>10 DEF T!CloseAndRetry, TP!IInv, TP!SingleReconnect, T!OneIf
  <2>2. TP!Aborted \in Seq(TP!Completion)
    <3>1. ~("connect" \in inFlight /\ "read" \in inFlight)
      BY <1>7
    <3> QED BY <3>1, <1>1, TP!AbortedShape, Constants
  <2>3. TP!Aborted = T!Aborted
    BY DEF TP!Aborted, T!Aborted, TP!OneIf, T!OneIf, TP!Done, T!Done
  <2>4. PICK a \in Seq(TP!Completion) : a = T!Aborted
    BY <2>2, <2>3
  <2>5. ready' = (Tail(ready) \o a) \o << >>
    BY <1>10, <2>1, <2>4 DEF T!CloseAndRetry
  <2>6. /\ Tail(ready) \o a \in Seq(TP!Completion)
        /\ DOMAIN Tail(ready) = 1 .. Len(Tail(ready))
        /\ DOMAIN (Tail(ready) \o a) = 1 .. Len(Tail(ready)) + Len(a)
        /\ \A k \in 1 .. Len(Tail(ready)) : (Tail(ready) \o a)[k] = Tail(ready)[k]
        /\ Len(a) \in Nat /\ Len(Tail(ready)) \in Nat
    <3>1. Tail(ready) \in Seq(TP!Completion)
      BY <1>3
    <3> QED BY <3>1, FP!Joined, Constants
  <2>7. ready' = Tail(ready) \o a
    BY <2>5, <2>6, ConcatEmptySeq
  <2>8. j \in DOMAIN ready' /\ ready'[j] = T!Done("read", "none")
    BY <2>6, <2>7, <1>8
  <2> QED BY <2>8, <1>10 DEF T!CloseAndRetry
<1> QED BY <1>6, <1>9, <1>10 DEF T!HandleWrite, T!DoClose, T!AlreadyClosed

-----------------------------------------------------------------------------
(* What the parser is given.                                               *)

(* One call of to_term_nl is the same in the driver.                       *)
LEMMA SameParser == F!ToTermNl = FP!ToTermNl
BY DEF F!ToTermNl, F!LineFeeds, F!LF, F!Sym, F!StartsMessage, F!N, F!Kinds, F!NeedMoreData,
       F!Dropped, F!NlRcvExtract, F!From, F!PayloadEnds, F!OnlyCR, F!CR, F!Took, F!Extracted,
       F!DropLine, F!FirstLineFeed, F!Multiline, F!BlankLines, F!LastBlankLine, F!Chomp,
       F!OneLine,
       FP!ToTermNl, FP!LineFeeds, FP!LF, FP!Sym, FP!StartsMessage, FP!N, FP!Kinds,
       FP!NeedMoreData, FP!Dropped, FP!NlRcvExtract, FP!From, FP!PayloadEnds, FP!OnlyCR, FP!CR,
       FP!Took, FP!Extracted, FP!DropLine, FP!FirstLineFeed, FP!Multiline, FP!BlankLines,
       FP!LastBlankLine, FP!Chomp, FP!OneLine

(* So are the messages, ...                                                *)
LEMMA SameMessages ==
  ASSUME NEW m, NEW n
  PROVE  F!Encoded(m, n) = FP!Encoded(m, n) /\ F!Body(m) = FP!Body(m)
BY DEF F!Encoded, F!Header, F!Body, F!End, F!Eol, F!CR, F!LF, F!N, F!Sym,
       FP!Encoded, FP!Header, FP!Body, FP!End, FP!Eol, FP!CR, FP!LF, FP!N, FP!Sym

(* ... what of them is tame, ...                                           *)
LEMMA SameTame ==
  ASSUME NEW m, NEW s
  PROVE  /\ F!Pending("multi", s) = FP!Pending("multi", s)
         /\ F!BlankLines(F!Body(m) \o F!Eol) = FP!BlankLines(FP!Body(m) \o FP!Eol)
         /\ F!LineFeeds(m.payload) = FP!LineFeeds(m.payload)
BY DEF F!Pending, F!BlankLines, F!LineFeeds, F!OnlyCR, F!Body, F!Eol, F!CR, F!LF, F!Sym,
       FP!Pending, FP!BlankLines, FP!LineFeeds, FP!OnlyCR, FP!Body, FP!Eol, FP!CR, FP!LF, FP!Sym

(* ... and the framing that Driver says it implements.                     *)
LEMMA SameFraming == FP!Spec => Stream!Spec
<1>1. FP!Init => Stream!Init
  BY DEF FP!Init, Stream!Init
<1>2. [FP!Next]_(FP!vars) => [Stream!Next]_(Stream!vars)
  BY DEF FP!vars, Stream!vars,
  FP!Next, FP!Parse, FP!ToTerm, FP!Again, FP!ModemSends, FP!Sends, FP!Disconnected, FP!Pending,
  FP!Encoded, FP!Header, FP!Body, FP!End, FP!Eol, FP!ToTermNl, FP!LineFeeds, FP!LF, FP!Sym,
  FP!StartsMessage, FP!N, FP!Kinds, FP!NeedMoreData, FP!Dropped, FP!NlRcvExtract, FP!From,
  FP!PayloadEnds, FP!OnlyCR, FP!CR, FP!Took, FP!Extracted, FP!DropLine, FP!FirstLineFeed,
  FP!Multiline, FP!BlankLines, FP!LastBlankLine, FP!Chomp, FP!OneLine,
  Stream!Next, Stream!Parse, Stream!ToTerm, Stream!Again, Stream!ModemSends, Stream!Sends,
  Stream!Disconnected, Stream!Pending, Stream!Encoded, Stream!Header, Stream!Body, Stream!End,
  Stream!Eol, Stream!ToTermNl, Stream!LineFeeds, Stream!LF, Stream!Sym, Stream!StartsMessage,
  Stream!N, Stream!Kinds, Stream!NeedMoreData, Stream!Dropped, Stream!NlRcvExtract, Stream!From,
  Stream!PayloadEnds, Stream!OnlyCR, Stream!CR, Stream!Took, Stream!Extracted, Stream!DropLine,
  Stream!FirstLineFeed, Stream!Multiline, Stream!BlankLines, Stream!LastBlankLine, Stream!Chomp,
  Stream!OneLine
<1> QED BY <1>1, <1>2, PTL DEF FP!Spec, Stream!Spec

(* The reactor reads into mem_ only when it is empty, and to_term is not   *)
(* running then.                                                           *)
LEMMA NoChunkBefore ==
  ASSUME TP!IInv, Chunk, T!ReadDone
  PROVE  mem_ = << >> /\ ~parsing /\ ~stale /\ "read" \notin inFlight'
<1>1. "read" \in inFlight /\ "read" \notin inFlight'
  BY DEF T!ReadDone
<1>2. mem_ = << >>
  BY <1>1 DEF Chunk, OneChunk
<1>3. ~T!Queued("read")
  BY <1>1 DEF TP!IInv, TP!SingleReader, TP!Queued, T!Queued
<1> QED BY <1>1, <1>2, <1>3 DEF Chunk

(* What read_done does to the stream: it is cut, and nothing else.         *)
LEMMA ReadKeepsStream ==
  ASSUME TP!IInv, Chunk, ReadDone
  PROVE  (mem_ \o wire)' = mem_ \o wire /\ mem_' \in Seq(FP!Symbol) /\ wire' \in Seq(FP!Symbol)
<1>1. mem_ = << >> /\ wire \in Seq(FP!Symbol) /\ mem_ \in Seq(FP!Symbol)
  BY NoChunkBefore DEF ReadDone, Chunk
<1>2. CASE UNCHANGED <<mem_, wire>>
  BY <1>1, <1>2
<1>3. ASSUME NEW k \in 1 .. Len(wire), mem_' = SubSeq(wire, 1, k), wire' = F!From(wire, k + 1)
      PROVE  (mem_ \o wire)' = mem_ \o wire /\ mem_' \in Seq(FP!Symbol) /\ wire' \in Seq(FP!Symbol)
  <2>1. PICK w \in Seq(FP!Symbol) : w = wire
    BY <1>1
  <2>2. k \in 0 .. Len(w) /\ k + 1 \in 1 .. Len(w) + 1
    BY <2>1, LenProperties
  <2>3. wire' = FP!From(w, k + 1) /\ mem_' = SubSeq(w, 1, k)
    BY <2>1, <1>3 DEF F!From, FP!From
  <2>4. SubSeq(w, 1, k) \o FP!From(w, k + 1) = w
    BY <2>2, FP!Rejoined, Constants
  <2>5. SubSeq(w, 1, k) \in Seq(FP!Symbol)
    BY <2>2, FP!Front, Constants
  <2>6. FP!From(w, k + 1) \in Seq(FP!Symbol)
    BY <2>2, FP!Rest, Constants
  <2>7. mem_ \o wire = w
    BY <1>1, <2>1, ConcatEmptySeq
  <2> QED BY <2>3, <2>4, <2>5, <2>6, <2>7
<1> QED BY <1>2, <1>3 DEF ReadDone

(* What the modem sends is sent behind the chunk.                          *)
LEMMA SendsBehindChunk ==
  ASSUME Chunk, ModemSends
  PROVE  FP!ModemSends /\ wire' \in Seq(FP!Symbol)
<1>1. PICK m \in Messages :
        /\ wire' = wire \o F!Encoded(m, Len(sent) + 1)
        /\ sent' = Append(sent, [kind |-> m.kind, n |-> Len(sent) + 1, body |-> F!Body(m)])
        /\ tame' = /\ tame
                   /\ m.kind # "refusal"
                   /\ IF m.kind = "multi"
                      THEN ~F!Pending("multi", more_ \o mem_ \o wire)
                           /\ F!BlankLines(F!Body(m) \o F!Eol) = {}
                      ELSE F!LineFeeds(m.payload) = {}
  BY DEF ModemSends, F!Sends
<1>2. Len(sent) < MaxMessages /\ UNCHANGED <<mem_, more_, parsing, extracted, losses>>
  BY DEF ModemSends, F!Sends
<1>3. wire \in Seq(FP!Symbol) /\ mem_ \in Seq(FP!Symbol) /\ more_ \in Seq(FP!Symbol)
      /\ sent \in Seq(FP!Message)
  BY DEF Chunk, FP!TypeOK
<1>4. more_ \o mem_ \o wire = more_ \o (mem_ \o wire)
  BY <1>3, ConcatAssociative
<1>5. PICK e \in Seq(FP!Symbol) : e = FP!Encoded(m, Len(sent) + 1) /\ e = F!Encoded(m, Len(sent) + 1)
  <2>1. Len(sent) + 1 \in Nat
    BY <1>3, LenProperties
  <2>2. FP!Encoded(m, Len(sent) + 1) \in Seq(FP!Symbol)
    BY <2>1, FP!OnTheWire, Constants
  <2> QED BY <2>2, SameMessages
<1>6. wire' \in Seq(FP!Symbol)
  BY <1>1, <1>3, <1>5, ConcatProperties
<1>7. (mem_ \o wire)' = (mem_ \o wire) \o FP!Encoded(m, Len(sent) + 1)
  <2>1. PICK c \in Seq(FP!Symbol), w \in Seq(FP!Symbol) : c = mem_ /\ w = wire
    BY <1>3
  <2>2. c \o (w \o e) = (c \o w) \o e
    BY ConcatAssociative
  <2> QED BY <2>1, <2>2, <1>1, <1>2, <1>5
<1>8. sent' = Append(sent, [kind |-> m.kind, n |-> Len(sent) + 1, body |-> FP!Body(m)])
  BY <1>1, SameMessages
<1>9. tame' = /\ tame
              /\ m.kind # "refusal"
              /\ IF m.kind = "multi"
                 THEN ~FP!Pending("multi", more_ \o (mem_ \o wire))
                      /\ FP!BlankLines(FP!Body(m) \o FP!Eol) = {}
                 ELSE FP!LineFeeds(m.payload) = {}
  <2>1. /\ F!Pending("multi", more_ \o mem_ \o wire) = FP!Pending("multi", more_ \o (mem_ \o wire))
        /\ F!BlankLines(F!Body(m) \o F!Eol) = FP!BlankLines(FP!Body(m) \o FP!Eol)
        /\ F!LineFeeds(m.payload) = FP!LineFeeds(m.payload)
    BY <1>4, SameTame
  <2> QED BY <2>1, <1>1, Zenon
<1> QED BY <1>2, <1>6, <1>7, <1>8, <1>9 DEF FP!ModemSends, FP!Sends

(* handle_read hands over exactly the chunk.                               *)
LEMMA ReadsChunk == Chunk /\ HandleRead => FP!ToTerm
<1> SUFFICES ASSUME Chunk, HandleRead PROVE FP!ToTerm
  OBVIOUS
<1>1. PICK c \in Seq(FP!Symbol), w \in Seq(FP!Symbol) : c = mem_ /\ w = wire
  BY DEF Chunk
<1>2. /\ c \o w \in Seq(FP!Symbol) /\ Len(c) \in Nat /\ Len(w) \in Nat
      /\ Len(c \o w) = Len(c) + Len(w)
      /\ \A i \in 1 .. Len(c) : (c \o w)[i] = c[i]
      /\ \A i \in 1 .. Len(w) : (c \o w)[Len(c) + i] = w[i]
  BY FP!Joined, Constants
<1>3. Len(c) # 0 /\ ~parsing
  BY <1>1, EmptySeq DEF HandleRead
<1>4. Len(c) \in 1 .. Len(c \o w) /\ Len(c) \in 0 .. Len(c \o w) /\ Len(c) + 1 \in 1 .. Len(c \o w) + 1
  BY <1>2, <1>3
<1>5. SubSeq(c \o w, 1, Len(c)) = c
  <2>1. /\ SubSeq(c \o w, 1, Len(c)) \in Seq(FP!Symbol) /\ Len(SubSeq(c \o w, 1, Len(c))) = Len(c)
        /\ \A i \in 1 .. Len(c) : SubSeq(c \o w, 1, Len(c))[i] = (c \o w)[i]
    BY <1>2, <1>4, FP!Front, Constants
  <2> QED BY <2>1, <1>2, SeqEqual
<1>6. FP!From(c \o w, Len(c) + 1) = w
  <2>1. PICK r \in Seq(FP!Symbol) : r = FP!From(c \o w, Len(c) + 1) /\ c \o r = c \o w
    <3>1. FP!From(c \o w, Len(c) + 1) \in Seq(FP!Symbol)
      BY <1>2, <1>4, FP!Rest, Constants
    <3>2. SubSeq(c \o w, 1, Len(c)) \o FP!From(c \o w, Len(c) + 1) = c \o w
      BY <1>2, <1>4, FP!Rejoined, Constants
    <3> QED BY <3>1, <3>2, <1>5
  <2> QED BY ZenonT(30), <2>1, ConcatSimplifications
<1>7. more_' = more_ \o SubSeq(mem_ \o wire, 1, Len(c))
  BY <1>1, <1>5 DEF HandleRead
<1>8. (mem_ \o wire)' = FP!From(mem_ \o wire, Len(c) + 1)
  <2>1. (mem_ \o wire)' = wire
    BY ConcatEmptySeq DEF HandleRead, Chunk
  <2> QED BY <2>1, <1>1, <1>6
<1>9. Len(c) \in 1 .. Len(mem_ \o wire)
  BY <1>1, <1>4
<1> QED BY <1>3, <1>7, <1>8, <1>9 DEF FP!ToTerm, HandleRead

(* A handler that closes the connection drops what is under way, but not   *)
(* the chunk.                                                              *)
LEMMA ClosingKeepsChunk ==
  ASSUME Chunk, Handler, socket_ = "open", socket_' # "open"
  PROVE  FP!Disconnected
<1>1. PICK c \in Seq(FP!Symbol), w \in Seq(FP!Symbol) : c = mem_ /\ w = wire
  BY DEF Chunk
<1>2. /\ c \o w \in Seq(FP!Symbol) /\ Len(c) \in Nat /\ Len(w) \in Nat
      /\ Len(c \o w) = Len(c) + Len(w)
      /\ \A i \in 1 .. Len(c) : (c \o w)[i] = c[i]
  BY FP!Joined, Constants
<1>3. Len(c) \in 0 .. Len(c \o w)
  BY <1>2
<1>4. SubSeq(c \o w, 1, Len(c)) = c
  <2>1. /\ SubSeq(c \o w, 1, Len(c)) \in Seq(FP!Symbol) /\ Len(SubSeq(c \o w, 1, Len(c))) = Len(c)
        /\ \A i \in 1 .. Len(c) : SubSeq(c \o w, 1, Len(c))[i] = (c \o w)[i]
    BY <1>2, <1>3, FP!Front, Constants
  <2> QED BY <2>1, <1>2, SeqEqual
<1>5. (mem_ \o wire)' = SubSeq(mem_ \o wire, 1, Len(c))
  <2>1. (mem_ \o wire)' = c
    BY <1>1, ConcatEmptySeq DEF Handler
  <2> QED BY <2>1, <1>1, <1>4
<1>6. Len(c) \in 0 .. Len(mem_ \o wire)
  BY <1>1, <1>3
<1>7. losses < MaxLosses
  BY DEF Chunk
<1> QED BY <1>5, <1>6, <1>7 DEF Handler, FP!Disconnected

(* Every step of the driver is one of the framing, or none of its concern. *)
LEMMA FramingStep == TP!IInv /\ Chunk /\ [Next]_vars => [FP!Next]_(FP!vars)
<1> SUFFICES ASSUME TP!IInv, Chunk, [Next]_vars PROVE [FP!Next]_(FP!vars)
  OBVIOUS
<1>1. CASE HandleRead
  BY <1>1, ReadsChunk DEF FP!Next
<1>2. CASE Parse
  BY <1>2, SameParser DEF Parse, F!Parse, FP!Parse, F!Again, FP!Again, FP!Next
<1>3. CASE Handler
  <2>1. CASE socket_ = "open" /\ socket_' # "open"
    BY <2>1, <1>3, ClosingKeepsChunk DEF FP!Next
  <2>2. CASE ~(socket_ = "open" /\ socket_' # "open")
    BY <2>2, <1>3 DEF Handler, FP!vars
  <2> QED BY <2>1, <2>2
<1>4. CASE ModemSends
  BY <1>4, SendsBehindChunk DEF FP!Next
<1>5. CASE ReadDone
  BY <1>5, ReadKeepsStream DEF ReadDone, FP!vars
<1>6. CASE ConnectDone \/ Elsewhere \/ UNCHANGED vars
  BY <1>6 DEF ConnectDone, Elsewhere, vars, framing, FP!vars
<1> QED BY <1>1, <1>2, <1>3, <1>4, <1>5, <1>6 DEF Next, IoThread

(* Chunk is inductive, given what holds of the connection.                 *)
LEMMA ChunkStep == TP!IInv /\ Chunk /\ [Next]_vars => Chunk'
<1> SUFFICES ASSUME TP!IInv, Chunk, [Next]_vars PROVE Chunk'
  OBVIOUS
<1>1. FP!TypeOK'
  BY FramingStep, FP!TypeStep, Constants DEF Chunk
<1>2. CASE HandleRead
  <2>1. T!Queued("read")
    <3>1. ready # << >> /\ Head(ready).op = "read" /\ ready \in Seq(TP!Completion)
      BY <1>2 DEF HandleRead, T!Handling, TP!IInv, TP!TypeOK
    <3>2. Head(ready) = ready[1] /\ 1 \in DOMAIN ready
      BY <3>1, TP!Taken, Constants
    <3> QED BY <3>1, <3>2 DEF T!Queued
  <2>2. T!Queued("read")' /\ UNCHANGED <<socket_, wire, losses>> /\ mem_' = << >> /\ stale' = FALSE
    BY <1>2, <2>1 DEF HandleRead, tcp, T!Queued
  <2>3. mem_' \in Seq(FP!Symbol) /\ wire' \in Seq(FP!Symbol)
    BY <2>2 DEF Chunk
  <2>4. stale' \in BOOLEAN
    BY <2>2, Zenon
  <2> QED BY <1>1, <2>2, <2>3, <2>4 DEF Chunk, OneChunk
<1>3. CASE Parse
  <2>1. UNCHANGED <<tcp, mem_, stale, wire, losses>> /\ parsing
    BY <1>3 DEF Parse, F!Parse
  <2>2. mem_ = << >>
    BY <2>1 DEF Chunk, OneChunk
  <2> QED BY <1>1, <2>1, <2>2 DEF Chunk, OneChunk, T!Queued, tcp
<1>4. CASE Handler
  <2>1. ~parsing' /\ mem_' = mem_ /\ ~parsing
    BY <1>4 DEF Handler
  <2>2. ASSUME mem_ # << >>
        PROVE  OneChunk' /\ (UNCHANGED <<state_, socket_>> \/ state_' = "DISCONNECTED")
    <3>1. PICK i \in DOMAIN ready : ready[i] = T!Done("read", "none")
      BY <2>2 DEF Chunk, OneChunk
    <3>2. T!Handler /\ ~(T!Handling("read") /\ Head(ready).error = "none")
      BY <1>4, <2>2 DEF Handler
    <3>3. /\ "read" \notin inFlight'
          /\ \E j \in DOMAIN ready' : ready'[j] = T!Done("read", "none")
          /\ UNCHANGED <<state_, socket_>> \/ state_' = "DISCONNECTED"
      BY <3>1, <3>2, ChunkStays
    <3> QED BY <3>3, <2>1 DEF OneChunk
  <2>3. OneChunk'
    BY <2>1, <2>2 DEF OneChunk
  <2>4. CASE socket_ = "open" /\ socket_' # "open"
    <3>1. wire' = << >> /\ stale' = (mem_ # << >>)
      BY <1>4, <2>4 DEF Handler
    <3>2. wire' \in Seq(FP!Symbol) /\ mem_' \in Seq(FP!Symbol)
      BY <2>1, <3>1 DEF Chunk
    <3>3. stale' \in BOOLEAN
      BY <3>1, Zenon
    <3>4. stale' => mem_' # << >> /\ state_' = "DISCONNECTED"
      BY <2>1, <2>2, <2>4, <3>1
    <3> QED BY <1>1, <2>1, <2>3, <2>4, <3>2, <3>3, <3>4 DEF Chunk
  <2>5. CASE ~(socket_ = "open" /\ socket_' # "open")
    <3>1. UNCHANGED <<wire, losses, stale>>
      BY <1>4, <2>5 DEF Handler
    <3>2. stale' => mem_' # << >> /\ state_' = "DISCONNECTED"
      BY <2>1, <2>2, <3>1 DEF Chunk
    <3>3. socket_' = "open" => socket_ = "open"
      BY <1>4 DEF Handler, T!Handler, T!HandleConnect, T!HandleRead, T!HandleWrite,
                  T!ReconnectTimeout, T!DoClose, T!AlreadyClosed, T!CloseAndRetry, T!Connect
    <3> QED BY <1>1, <2>1, <2>3, <3>1, <3>2, <3>3 DEF Chunk
  <2> QED BY <2>4, <2>5
<1>5. CASE ModemSends
  <2>1. UNCHANGED <<tcp, mem_, stale, parsing, losses>>
    BY <1>5 DEF ModemSends, F!Sends
  <2>2. wire' \in Seq(FP!Symbol)
    BY <1>5, SendsBehindChunk
  <2> QED BY <1>1, <2>1, <2>2 DEF Chunk, OneChunk, T!Queued, tcp
<1>6. CASE ReadDone
  <2>1. mem_ = << >> /\ ~parsing /\ ~stale /\ "read" \notin inFlight'
    BY <1>6, NoChunkBefore DEF ReadDone
  <2>2. UNCHANGED <<socket_, parsing, stale, losses>>
    BY <1>6 DEF ReadDone, T!ReadDone
  <2>3. mem_' \in Seq(FP!Symbol) /\ wire' \in Seq(FP!Symbol)
    BY <1>6, ReadKeepsStream
  <2>4. mem_' # << >> => \E i \in DOMAIN ready' : ready'[i] = T!Done("read", "none")
    <3>1. PICK e \in {"none", "failed"} : ready' = Append(ready, T!Done("read", e))
      BY <1>6 DEF ReadDone, T!ReadDone
    <3>2. PICK q \in Seq(TP!Completion) : q = ready
      BY DEF TP!IInv, TP!TypeOK
    <3>3. PICK d \in TP!Completion : d = T!Done("read", e) /\ d.error = e
      <4>1. T!Done("read", e) \in TP!Completion /\ T!Done("read", e).error = e
        BY DEF T!Done, TP!Completion
      <4> QED BY <4>1
    <3>4. /\ DOMAIN Append(q, d) = 1 .. Len(q) + 1 /\ Len(q) \in Nat
          /\ Append(q, d)[Len(q) + 1] = d /\ Append(q, d) \in Seq(TP!Completion)
      BY TP!Appended, Constants
    <3>5. Len(q) + 1 \in DOMAIN ready' /\ ready'[Len(q) + 1] = d
      BY <3>1, <3>2, <3>3, <3>4
    <3>6. Len(ready') = Len(q) + 1
      <4>1. Len(Append(q, d)) = Len(q) + 1
        BY AppendProperties
      <4> QED BY <4>1, <3>1, <3>2, <3>3
    <3>7. mem_' # << >> => d.error = "none"
      BY <1>6, <2>1, <3>5, <3>6 DEF ReadDone
    <3>8. d.error = "none" => d = T!Done("read", "none")
      BY <3>3
    <3> QED BY <3>5, <3>7, <3>8
  <2> QED BY <1>1, <2>1, <2>2, <2>3, <2>4 DEF Chunk, OneChunk
<1>7. CASE ConnectDone \/ Elsewhere
  <2>1. UNCHANGED <<wire, mem_, stale, parsing, losses>>
    BY <1>7 DEF ConnectDone, Elsewhere, framing
  <2>2. /\ state_' = state_ /\ (socket_' = "open" => socket_ = "open" \/ losses < MaxLosses)
        /\ inFlight' \subseteq inFlight
    BY <1>7 DEF ConnectDone, Elsewhere, T!ConnectDone, T!WriteDone, T!TimerExpires, T!SendTest,
                T!SendWrite, T!io
  <2>3. \A i \in DOMAIN ready : i \in DOMAIN ready' /\ ready'[i] = ready[i]
    <3>1. PICK q \in Seq(TP!Completion) : q = ready
      BY DEF TP!IInv, TP!TypeOK
    <3>2. \/ ready' = q
          \/ \E o \in {"connect", "read", "write", "timer"}, e \in {"none", "failed", "aborted"} :
               ready' = Append(q, T!Done(o, e))
      BY <1>7, <3>1 DEF ConnectDone, Elsewhere, T!ConnectDone, T!WriteDone, T!TimerExpires,
                        T!SendTest, T!SendWrite, T!io
    <3>3. ASSUME NEW o \in {"connect", "read", "write", "timer"},
                 NEW e \in {"none", "failed", "aborted"}, ready' = Append(q, T!Done(o, e))
          PROVE  \A i \in DOMAIN q : i \in DOMAIN ready' /\ ready'[i] = q[i]
      <4>1. PICK d \in TP!Completion : d = T!Done(o, e)
        BY DEF T!Done, TP!Completion
      <4>2. /\ DOMAIN Append(q, d) = 1 .. Len(q) + 1 /\ Len(q) \in Nat /\ DOMAIN q = 1 .. Len(q)
            /\ \A i \in DOMAIN q : Append(q, d)[i] = q[i]
        BY TP!Appended, Constants
      <4> QED BY <3>3, <4>1, <4>2
    <3> QED BY <3>1, <3>2, <3>3
  <2>4. T!Queued("read") => T!Queued("read")'
    BY <2>3 DEF T!Queued
  <2>5. OneChunk'
    BY <2>1, <2>2, <2>3 DEF Chunk, OneChunk
  <2>6. socket_' = "open" => losses' < MaxLosses
    BY <2>1, <2>2 DEF Chunk
  <2> QED BY <1>1, <2>1, <2>2, <2>4, <2>5, <2>6 DEF Chunk
<1>8. CASE UNCHANGED vars
  BY <1>1, <1>8 DEF vars, tcp, framing, Chunk, OneChunk, T!Queued
<1> QED BY <1>2, <1>3, <1>4, <1>5, <1>6, <1>7, <1>8 DEF Next, IoThread

(* The invariant of the chunk.                                             *)
THEOREM ChunkWaits == Spec => []Chunk
BY ConnectionInvariant, ChunkInit, ChunkStep, PTL DEF Spec

(* A chunk in mem_ is neither overwritten by another read nor orphaned by  *)
(* a close.                                                                *)
THEOREM ChunkIsParsed == Spec => []OneChunk
BY ChunkWaits, PTL DEF Chunk

(* A chunk whose connection has been closed is parsed before another       *)
(* attempt begins.                                                         *)
THEOREM ChunkBeforeAttempt == Spec => ChunksInTurn
<1>1. Chunk /\ [Next]_vars => [mem_ # << >> /\ mem_' = << >> /\ stale => state_ = "DISCONNECTED"]_vars
  BY DEF Chunk
<1> QED BY <1>1, ChunkWaits, PTL DEF Spec, ChunksInTurn

(* The driver implements the framing, the stream being what is in mem_ and *)
(* what is behind it: the parser is given what Framing says, ...           *)
THEOREM FramingRefined == Spec => Stream!Spec
<1>1. Init => FP!Init
  BY ConcatEmptySeq, EmptySeq DEF Init, F!Init, FP!Init
<1>2. Spec => FP!Spec
  BY <1>1, ConnectionInvariant, ChunkWaits, FramingStep, PTL DEF Spec, FP!Spec
<1> QED BY <1>2, SameFraming

(* ... so that what Framing promises of a stream that nothing disturbs     *)
(* holds in the process: however handlers, reads and closes interleave,    *)
(* the extractors are given what the modem sent.                           *)
THEOREM DriverStreamIntact == Spec => []Stream!StreamIntact
<1>1. Init => FP!Init
  BY ConcatEmptySeq, EmptySeq DEF Init, F!Init, FP!Init
<1>2. Spec => FP!Spec
  BY <1>1, ConnectionInvariant, ChunkWaits, FramingStep, PTL DEF Spec, FP!Spec
<1>3. FP!Spec => []FP!StreamIntact
  BY FP!StreamStaysIntact, Constants
<1>4. FP!StreamIntact => Stream!StreamIntact
  BY DEF FP!StreamIntact, Stream!StreamIntact, FP!WellFormed, Stream!WellFormed
<1> QED BY <1>2, <1>3, <1>4, PTL
=============================================================================
