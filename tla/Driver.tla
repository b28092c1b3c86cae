------------------------------- MODULE Driver -------------------------------
(***************************************************************************)
(* The connection of tcp_client.h and the parser of parser.h in one        *)
(* process, as evins_nl_driver.cpp starts them: what the reactor reads     *)
(* into mem_ waits there until handle_read runs, and is parsed before the  *)
(* next handler.  In between the connection may have been closed.          *)
(***************************************************************************)
EXTENDS Integers, Sequences

CONSTANTS MaxWrites, Messages, MaxMessages, MaxLosses   \* of the two components

VARIABLES
  state_, socket_, inFlight, writes, timer, ready, sender, connection,
  wire, more_, parsing, sent, extracted, tame, losses,
  mem_,    \* the chunk that was read and is not parsed, none if empty
  stale    \* history: the connection the chunk came from has been closed

T == INSTANCE TcpClient
F == INSTANCE Framing

ASSUME ConnectionAssumption == MaxWrites \in Nat

ASSUME StreamAssumption ==
  /\ Messages \subseteq [kind : F!Kinds, payload : Seq({F!Byte, F!LF})]
  /\ MaxMessages \in Nat /\ MaxLosses \in Nat

tcp     == <<state_, socket_, inFlight, writes, timer, ready, sender, connection>>
framing == <<wire, more_, parsing, sent, extracted, tame, losses>>
vars    == <<tcp, framing, mem_, stale>>

-----------------------------------------------------------------------------
(* The modem sends as soon as it has accepted the connection.              *)
ModemSends ==
  /\ socket_ = "open"
  /\ F!Sends(more_ \o mem_ \o wire)
  /\ UNCHANGED <<tcp, mem_, stale>>

ReadDone ==
  /\ T!ReadDone
  /\ \/ /\ ready'[Len(ready')].error = "none"
        /\ \E k \in 1 .. Len(wire) :
             mem_' = SubSeq(wire, 1, k) /\ wire' = F!From(wire, k + 1)
     \/ ready'[Len(ready')].error # "none" /\ UNCHANGED <<mem_, wire>>
  /\ UNCHANGED <<more_, parsing, sent, extracted, tame, losses, stale>>

(* The bound on losses is one on connections: each is lost at most once.   *)
ConnectDone ==
  /\ T!ConnectDone
  /\ socket_' = "open" => losses < MaxLosses
  /\ UNCHANGED <<framing, mem_, stale>>

(* What the reactor and the ROS thread do besides.                         *)
Elsewhere ==
  /\ T!WriteDone \/ T!TimerExpires \/ T!SendTest \/ T!SendWrite
  /\ UNCHANGED <<framing, mem_, stale>>

(* Mutation of HandleRead: the chunk is left in mem_.                      *)
HandleReadTwice ==
  /\ ~parsing
  /\ T!Handling("read") /\ mem_ # << >>
  /\ more_' = more_ \o mem_
  /\ parsing' = TRUE
  /\ UNCHANGED <<tcp, wire, sent, extracted, tame, losses, mem_, stale>>

(* handle_read hands the chunk to to_term, ...                             *)
HandleRead ==
  /\ ~parsing
  /\ T!Handling("read") /\ Head(ready).error = "none" /\ mem_ # << >>
  /\ more_' = more_ \o mem_
  /\ mem_' = << >>
  /\ parsing' = TRUE
  /\ stale' = FALSE
  /\ UNCHANGED <<tcp, wire, sent, extracted, tame, losses>>

(* ... which loops in the I/O thread, ...                                  *)
Parse == F!Parse /\ UNCHANGED <<tcp, mem_, stale>>

(* ... and goes on.  The other handlers run between two calls of to_term.  *)
(* Whatever closes the socket drops what is under way.                     *)
Handler ==
  /\ ~parsing
  /\ ~(T!Handling("read") /\ Head(ready).error = "none" /\ mem_ # << >>)
  /\ T!Handler
  /\ IF socket_ = "open" /\ socket_' # "open"
     THEN /\ wire' = << >> /\ tame' = FALSE /\ losses' = losses + 1
          /\ stale' = (mem_ # << >>)
     ELSE UNCHANGED <<wire, tame, losses, stale>>
  /\ UNCHANGED <<more_, parsing, sent, extracted, mem_>>

-----------------------------------------------------------------------------
Init == T!Init /\ F!Init /\ mem_ = << >> /\ stale = FALSE

IoThread == HandleRead \/ Parse \/ Handler

Next == IoThread \/ ModemSends \/ ReadDone \/ ConnectDone \/ Elsewhere

Spec == Init /\ [][Next]_vars

(* io_service::run never blocks in a handler.                              *)
FairSpec == Spec /\ WF_vars(IoThread)

-----------------------------------------------------------------------------
(* Properties.                                                             *)

(* There is one mem_.  A chunk in it is neither overwritten by another     *)
(* read nor orphaned by a close: the handler that parses it is queued.     *)
OneChunk ==
  mem_ # << >> =>
    /\ ~parsing /\ "read" \notin inFlight
    /\ \E i \in DOMAIN ready : ready[i] = T!Done("read", "none")

(* Data that was read before the connection was closed is still parsed,    *)
(* after disconnected().  It is parsed before the next attempt begins, so  *)
(* that it is never taken for data of the connection that follows.         *)
ChunksInTurn ==
  [][mem_ # << >> /\ mem_' = << >> /\ stale => state_ = "DISCONNECTED"]_vars

(* The parser is given what Framing says: the stream of the modem, cut     *)
(* anywhere, of which a loss drops all but what was read; and its loop     *)
(* ends, as the I/O thread does nothing else meanwhile.                    *)
Stream == INSTANCE Framing WITH wire <- mem_ \o wire

ImplementsFraming == Stream!FairSpec
=============================================================================
