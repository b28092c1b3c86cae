------------------------------ MODULE TcpClient ------------------------------
(***************************************************************************)
(* src/src/tcp_client.h: the connection to the modem over TCP.             *)
(*                                                                         *)
(* Two threads act on it.  The I/O thread runs io_service::run and calls   *)
(* one completion handler at a time, in the order in which the operations  *)
(* completed.  The ROS thread calls send(), which tests state_ and then    *)
(* starts a write: the I/O thread may run in between.                      *)
(***************************************************************************)
EXTENDS Integers, Sequences, FiniteSets

CONSTANT MaxWrites   \* bound: telegrams written whose completion is not handled

ASSUME MaxWritesAssumption == MaxWrites \in Nat

VARIABLES
  state_,      \* connection_state
  socket_,     \* closed; unconnected (a descriptor, no peer); open
  inFlight,    \* which of async_connect and async_read the reactor holds
  writes,      \* how many async_writes the reactor holds
  timer,       \* reconnect_timer_: idle, or armed with a wait pending
  ready,       \* completions whose handler has not run yet, oldest first
  sender,      \* ROS thread: idle, or between the test and the write of send()
  connection   \* last Bool published on the "connection" topic

io   == <<state_, socket_, inFlight, writes, timer, ready, connection>>
vars == <<state_, socket_, inFlight, writes, timer, ready, sender, connection>>

States     == {"DISCONNECTED", "WAITING", "CONNECTED"}
Completion == [op : {"connect", "read", "write", "timer"},
               error : {"none", "failed", "aborted"}]

Done(op, error) == [op |-> op, error |-> error]

TypeOK ==
  /\ state_ \in States
  /\ socket_ \in {"closed", "unconnected", "open"}
  /\ inFlight \in SUBSET {"connect", "read"}
  /\ writes \in Nat
  /\ timer \in {"idle", "armed"}
  /\ ready \in Seq(Completion)
  /\ sender \in {"idle", "writing"}
  /\ connection \in BOOLEAN

-----------------------------------------------------------------------------
(* boost::asio, as the code uses it.                                       *)

OneIf(cond, c) == IF cond THEN <<c>> ELSE << >>

(* What closing the socket completes: every operation it still holds.      *)
Aborted ==
  OneIf("connect" \in inFlight, Done("connect", "aborted"))
    \o OneIf("read" \in inFlight, Done("read", "aborted"))
    \o [i \in 1 .. writes |-> Done("write", "aborted")]

(* async_connect reports an abort when the socket was closed before its    *)
(* completion is handled, even if the connection had been established.     *)
Established(c) == c.error = "none" /\ socket_ # "closed"

ConnectDone ==
  /\ "connect" \in inFlight
  /\ inFlight' = inFlight \ {"connect"}
  /\ \E e \in {"none", "failed"} :
       /\ ready' = Append(ready, Done("connect", e))
       /\ socket_' = IF e = "none" THEN "open" ELSE socket_
  /\ UNCHANGED <<state_, writes, timer, sender, connection>>

(* Data arrived, or the peer closed or reset the connection.               *)
ReadDone ==
  /\ "read" \in inFlight
  /\ inFlight' = inFlight \ {"read"}
  /\ \E e \in {"none", "failed"} : ready' = Append(ready, Done("read", e))
  /\ UNCHANGED <<state_, socket_, writes, timer, sender, connection>>

WriteDone ==
  /\ writes > 0
  /\ writes' = writes - 1
  /\ \E e \in {"none", "failed"} :
       /\ e = "none" => socket_ = "open"
       /\ ready' = Append(ready, Done("write", e))
  /\ UNCHANGED <<state_, socket_, inFlight, timer, sender, connection>>

TimerExpires ==
  /\ timer = "armed"
  /\ timer' = "idle"
  /\ ready' = Append(ready, Done("timer", "none"))
  /\ UNCHANGED <<state_, socket_, inFlight, writes, sender, connection>>

-----------------------------------------------------------------------------
(* The I/O thread: one handler per step.  Handling names the completion    *)
(* whose handler runs; Tail(ready) is the queue without it.                *)

Handling(op) == ready # << >> /\ Head(ready).op = op

AlreadyClosed ==
  /\ state_ = "DISCONNECTED"
  /\ ready' = Tail(ready)
  /\ UNCHANGED <<state_, socket_, inFlight, writes, timer, connection>>

(* Mutation of CloseAndRetry: do_close without its test of state_.         *)
CloseAgain ==
  /\ socket_' = "closed" /\ inFlight' = {} /\ writes' = 0
  /\ connection' = FALSE /\ timer' = "armed"
  /\ ready' = Tail(ready) \o Aborted \o OneIf(timer = "armed", Done("timer", "aborted"))
  /\ state_' = "DISCONNECTED"

(* Mutation of CloseAndRetry: do_close does not call disconnected().       *)
CloseSilently ==
  /\ state_ # "DISCONNECTED"
  /\ socket_' = "closed" /\ inFlight' = {} /\ writes' = 0
  /\ UNCHANGED connection /\ timer' = "armed"
  /\ ready' = Tail(ready) \o Aborted
  /\ state_' = "DISCONNECTED"

(* Mutation of CloseAndRetry: the next attempt begins at once.             *)
CloseAndReconnect ==
  /\ state_ # "DISCONNECTED"
  /\ socket_' = "unconnected" /\ inFlight' = {"connect"} /\ writes' = 0
  /\ connection' = FALSE /\ timer' = "idle"
  /\ ready' = Tail(ready) \o Aborted
  /\ state_' = "WAITING"

CloseAndRetry ==
  /\ state_ # "DISCONNECTED"
  /\ socket_' = "closed"
  /\ inFlight' = {}
  /\ writes' = 0
  /\ connection' = FALSE
  /\ timer' = "armed"
  /\ ready' = Tail(ready) \o Aborted
                \o OneIf(timer = "armed", Done("timer", "aborted"))
  /\ state_' = "DISCONNECTED"

DoClose == AlreadyClosed \/ CloseAndRetry

(* async_read into mem_: refused at once on a socket that is not open.     *)
StartRead ==
  IF socket_ = "open"
  THEN inFlight' = inFlight \cup {"read"} /\ ready' = Tail(ready)
  ELSE inFlight' = inFlight /\ ready' = Append(Tail(ready), Done("read", "failed"))

(* async_connect closes whatever the socket was before it opens it again.  *)
Connect ==
  /\ state_' = "WAITING"
  /\ socket_' = "unconnected"
  /\ inFlight' = {"connect"}
  /\ writes' = 0
  /\ ready' = Tail(ready) \o Aborted
  /\ UNCHANGED <<timer, connection>>

(* Mutation of HandleConnect: the state of the socket is taken for state_. *)
HandleConnectAsSocket ==
  /\ Handling("connect")
  /\ \/ /\ Established(Head(ready))
        /\ state_' = socket_
        /\ connection' = TRUE
        /\ StartRead
        /\ UNCHANGED <<socket_, writes, timer>>
     \/ ~Established(Head(ready)) /\ DoClose
  /\ UNCHANGED sender

HandleConnect ==
  /\ Handling("connect")
  /\ \/ /\ Established(Head(ready))
        /\ state_' = "CONNECTED"
        /\ connection' = TRUE
        /\ StartRead
        /\ UNCHANGED <<socket_, writes, timer>>
     \/ ~Established(Head(ready)) /\ DoClose
  /\ UNCHANGED sender

(* Mutation of HandleRead: the next read is not started.                   *)
HandleReadOnce ==
  /\ Handling("read")
  /\ \/ /\ Head(ready).error = "none"
        /\ ready' = Tail(ready)
        /\ UNCHANGED <<state_, socket_, inFlight, writes, timer, connection>>
     \/ Head(ready).error # "none" /\ DoClose
  /\ UNCHANGED sender

HandleRead ==
  /\ Handling("read")
  /\ \/ /\ Head(ready).error = "none"
        /\ StartRead
        /\ UNCHANGED <<state_, socket_, writes, timer, connection>>
     \/ Head(ready).error # "none" /\ DoClose
  /\ UNCHANGED sender

(* Mutation of HandleWrite: a read is started, as in handle_read.          *)
HandleWriteReads ==
  /\ Handling("write")
  /\ \/ /\ Head(ready).error = "none"
        /\ StartRead
        /\ UNCHANGED <<state_, socket_, writes, timer, connection>>
     \/ Head(ready).error # "none" /\ DoClose
  /\ UNCHANGED sender

HandleWrite ==
  /\ Handling("write")
  /\ \/ /\ Head(ready).error = "none"
        /\ ready' = Tail(ready)
        /\ UNCHANGED <<state_, socket_, inFlight, writes, timer, connection>>
     \/ Head(ready).error # "none" /\ DoClose
  /\ UNCHANGED sender

(* A wait that was cancelled returns at once.  do_close never cancels one: *)
(* SingleReconnect says that no wait is pending when it runs.              *)
ReconnectTimeout ==
  /\ Handling("timer")
  /\ IF Head(ready).error = "aborted"
     THEN /\ ready' = Tail(ready)
          /\ UNCHANGED <<state_, socket_, inFlight, writes, timer, connection>>
     ELSE Connect
  /\ UNCHANGED sender

-----------------------------------------------------------------------------
(* The ROS thread in send().                                               *)

Unhandled == writes + Cardinality({i \in DOMAIN ready : ready[i].op = "write"})

SendTest ==
  /\ sender = "idle"
  /\ Unhandled < MaxWrites
  /\ state_ = "CONNECTED"      \* otherwise: "cannot send, not connected"
  /\ sender' = "writing"
  /\ UNCHANGED io

SendWrite ==
  /\ sender = "writing"
  /\ sender' = "idle"
  /\ IF socket_ = "closed"
     THEN ready' = Append(ready, Done("write", "failed")) /\ UNCHANGED writes
     ELSE writes' = writes + 1 /\ UNCHANGED ready
  /\ UNCHANGED <<state_, socket_, inFlight, timer, connection>>

-----------------------------------------------------------------------------
(* The constructor has called connect().                                   *)
Init ==
  /\ state_ = "WAITING"
  /\ socket_ = "unconnected"
  /\ inFlight = {"connect"}
  /\ writes = 0
  /\ timer = "idle"
  /\ ready = << >>
  /\ sender = "idle"
  /\ connection = FALSE

Handler == HandleConnect \/ HandleRead \/ HandleWrite \/ ReconnectTimeout

Reactor == ConnectDone \/ ReadDone \/ WriteDone \/ TimerExpires

Next == Handler \/ Reactor \/ SendTest \/ SendWrite

Spec == Init /\ [][Next]_vars

(* io_service::run never blocks in a handler, and deadlines pass.          *)
FairSpec == Spec /\ WF_vars(Handler) /\ WF_vars(TimerExpires)

-----------------------------------------------------------------------------
(* Properties.                                                             *)

Queued(op) == \E i \in DOMAIN ready : ready[i].op = op

(* The io_service never runs out of work, and the work it holds is the one *)
(* the state needs: a disconnected client has a reconnect coming, a        *)
(* waiting one the end of an attempt, a connected one a read.  Otherwise   *)
(* run() would return and the node would be deaf for good.                 *)
AlwaysDriven ==
  /\ state_ = "DISCONNECTED" => timer = "armed" \/ Queued("timer")
  /\ state_ = "WAITING" => "connect" \in inFlight \/ Queued("connect")
  /\ state_ = "CONNECTED" => "read" \in inFlight \/ Queued("read")

(* do_close arms the reconnect timer without knowing what is still queued: *)
(* there is nevertheless never a second reconnect coming, nor one while    *)
(* the client is connected or connecting, so no attempt tears down a       *)
(* connection that another attempt has just made.                          *)
SingleReconnect ==
  /\ \A i, j \in DOMAIN ready :
       ready[i].op = "timer" /\ ready[j].op = "timer" => i = j
  /\ timer = "armed" => ~Queued("timer")
  /\ state_ # "DISCONNECTED" => timer = "idle" /\ ~Queued("timer")

(* All reads share the buffer mem_: two reads are never outstanding at     *)
(* once, whatever order a failed write, a failed read and the reconnect    *)
(* are handled in.                                                         *)
SingleReader ==
  /\ \A i, j \in DOMAIN ready :
       ready[i].op = "read" /\ ready[j].op = "read" => i = j
  /\ "read" \in inFlight => ~Queued("read")

(* The client is a link: subscribers of "connection" are told the truth,   *)
(* and every loss is followed by another attempt.                          *)
L == INSTANCE Link WITH link <- state_, announced <- connection

ImplementsLink == L!FairSpec
=============================================================================
