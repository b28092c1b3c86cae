---------------------------- MODULE SerialClient ----------------------------
(***************************************************************************)
(* src/src/serial_client.h: the connection to the modem over a serial      *)
(* line.  It has no connection_state: port_ itself, a shared pointer that  *)
(* do_close resets, is all it knows.                                       *)
(*                                                                         *)
(* The threads are those of TcpClient.  The I/O thread runs one handler at *)
(* a time; connect() is two steps of it, as the ROS thread may use port_   *)
(* before it is open.  The ROS thread in send() reads the pointer and then *)
(* calls the port it points to, without a test.                            *)
(***************************************************************************)
EXTENDS Integers, Sequences, FiniteSets

CONSTANTS
  MaxWrites,   \* bound: telegrams written whose completion is not handled
  MaxSlips     \* bound: waits that end before older handlers have run

ASSUME BoundsAssumption == MaxWrites \in Nat /\ MaxSlips \in Nat

VARIABLES
  port_,       \* none; unopened (connect() is running); open
  reads,       \* how many async_reads the reactor holds
  writes,      \* how many async_writes the reactor holds
  timer,       \* reconnect_timer_: idle, or armed with a wait pending
  ready,       \* completions whose handler has not run yet, oldest first
  sender,      \* ROS thread: before spin, idle, or in send() with a pointer
               \* to the port, which dangles when the port has been reset
  connection,  \* last Bool published on the "connection" topic
  crashed,     \* the process has ended
  slips        \* history: the timer ran out although handlers were waiting

vars == <<port_, reads, writes, timer, ready, sender, connection, crashed, slips>>

Completion == [op : {"read", "write", "timer"}, error : {"none", "failed", "aborted"}]

Done(op, error) == [op |-> op, error |-> error]

TypeOK ==
  /\ port_ \in {"none", "unopened", "open"}
  /\ reads \in Nat /\ writes \in Nat
  /\ timer \in {"idle", "armed"}
  /\ ready \in Seq(Completion)
  /\ sender \in {"starting", "idle", "writing", "dangling"}
  /\ connection \in BOOLEAN /\ crashed \in BOOLEAN
  /\ slips \in Nat

-----------------------------------------------------------------------------
(* boost::asio, as the code uses it.                                       *)

Times(n, c) == [i \in 1 .. n |-> c]

Aborted == Times(reads, Done("read", "aborted")) \o Times(writes, Done("write", "aborted"))

ReadDone ==
  /\ reads > 0
  /\ reads' = reads - 1
  /\ \E e \in {"none", "failed"} : ready' = Append(ready, Done("read", e))
  /\ UNCHANGED <<port_, writes, timer, sender, connection, crashed, slips>>

WriteDone ==
  /\ writes > 0
  /\ writes' = writes - 1
  /\ \E e \in {"none", "failed"} : ready' = Append(ready, Done("write", e))
  /\ UNCHANGED <<port_, reads, timer, sender, connection, crashed, slips>>

(* The second of the wait is over.  As a rule it outlasts every handler    *)
(* that was queued when the port was closed.                               *)
TimerExpires ==
  /\ timer = "armed"
  /\ timer' = "idle"
  /\ \/ ready = << >> /\ UNCHANGED slips
     \/ ready # << >> /\ slips < MaxSlips /\ slips' = slips + 1
  /\ ready' = Append(ready, Done("timer", "none"))
  /\ UNCHANGED <<port_, reads, writes, sender, connection, crashed>>

-----------------------------------------------------------------------------
(* The I/O thread: one handler per step, none while connect() is running.  *)

Handling(op) == port_ # "unopened" /\ ready # << >> /\ Head(ready).op = op

Crash ==
  /\ crashed' = TRUE
  /\ UNCHANGED <<port_, reads, writes, timer, ready, sender, connection, slips>>

(* Mutation of DoClose: the timer is not armed.                            *)
DoCloseForGood ==
  /\ connection' = FALSE
  /\ port_' = "none" /\ reads' = 0 /\ writes' = 0
  /\ timer' = "idle"
  /\ ready' = Tail(ready) \o Aborted
  /\ sender' = IF sender = "writing" THEN "dangling" ELSE sender
  /\ UNCHANGED <<crashed, slips>>

(* Mutation of DoClose: the read that failed is counted down again.        *)
DoCloseCounts ==
  /\ connection' = FALSE
  /\ port_' = "none" /\ reads' = reads - 1 /\ writes' = 0
  /\ timer' = "armed"
  /\ ready' = Tail(ready) \o Aborted
  /\ sender' = IF sender = "writing" THEN "dangling" ELSE sender
  /\ UNCHANGED <<crashed, slips>>

(* Mutation of DoClose: disconnected() is not called.                      *)
DoCloseSilently ==
  /\ port_' = "none" /\ reads' = 0 /\ writes' = 0
  /\ timer' = "armed"
  /\ ready' = Tail(ready) \o Aborted
                \o Times(IF timer = "armed" THEN 1 ELSE 0, Done("timer", "aborted"))
  /\ sender' = IF sender = "writing" THEN "dangling" ELSE sender
  /\ UNCHANGED <<connection, crashed, slips>>

(* do_close, from a handler.  It tests for a port and not for a state, and *)
(* arms the timer whenever it runs: cancel() aborts the wait under way but *)
(* has no effect on one that has ended and whose handler is queued.        *)
DoClose ==
  /\ connection' = FALSE
  /\ port_' = "none" /\ reads' = 0 /\ writes' = 0
  /\ timer' = "armed"
  /\ ready' = Tail(ready) \o Aborted
                \o Times(IF timer = "armed" THEN 1 ELSE 0, Done("timer", "aborted"))
  /\ sender' = IF sender = "writing" THEN "dangling" ELSE sender
  /\ UNCHANGED <<crashed, slips>>

Proceed ==
  /\ ready' = Tail(ready)
  /\ UNCHANGED <<port_, writes, timer, sender, connection, crashed, slips>>

(* Data.  When the port has been closed since it arrived, port_ is null.   *)
OnReceive ==
  /\ Handling("read")
  /\ \/ /\ Head(ready).error = "none" /\ port_ = "open"
        /\ reads' = reads + 1 /\ Proceed
     \/ Head(ready).error = "none" /\ port_ = "none" /\ Crash
     \/ Head(ready).error # "none" /\ DoClose

(* Mutation of HandleWrite: a read is started, as in on_receive_.          *)
HandleWriteReads ==
  /\ Handling("write")
  /\ \/ Head(ready).error = "none" /\ reads' = reads + 1 /\ Proceed
     \/ Head(ready).error # "none" /\ DoClose

HandleWrite ==
  /\ Handling("write")
  /\ \/ Head(ready).error = "none" /\ UNCHANGED reads /\ Proceed
     \/ Head(ready).error # "none" /\ DoClose

(* Mutation of ReconnectTimeout: a wait that was cancelled counts.         *)
ReconnectCancelled ==
  /\ Handling("timer")
  /\ \/ /\ port_ = "none"
        /\ port_' = "unopened"
        /\ ready' = Tail(ready)
        /\ UNCHANGED <<reads, writes, timer, sender, connection, crashed, slips>>
     \/ port_ = "open" /\ DoClose

(* connect() makes a port, or closes the one there is.                     *)
ReconnectTimeout ==
  /\ Handling("timer")
  /\ \/ Head(ready).error = "aborted" /\ UNCHANGED reads /\ Proceed
     \/ /\ Head(ready).error = "none" /\ port_ = "none"
        /\ port_' = "unopened"
        /\ ready' = Tail(ready)
        /\ UNCHANGED <<reads, writes, timer, sender, connection, crashed, slips>>
     \/ Head(ready).error = "none" /\ port_ = "open" /\ DoClose

(* Mutation of Opened: the first read is forgotten.                        *)
OpenedDeaf ==
  /\ port_' = "open" /\ connection' = TRUE /\ UNCHANGED reads
  /\ sender' = IF sender = "starting" THEN "idle" ELSE sender
  /\ UNCHANGED <<writes, timer, ready, crashed, slips>>

(* The rest of connect().  The ROS thread starts to spin when the          *)
(* constructor has returned.                                               *)
Opened ==
  /\ port_' = "open"
  /\ connection' = TRUE
  /\ reads' = reads + 1
  /\ sender' = IF sender = "starting" THEN "idle" ELSE sender
  /\ UNCHANGED <<writes, timer, ready, crashed, slips>>

(* open() fails: do_close reports the loss and cancels a port that is not  *)
(* open, which throws.  A set_option that fails throws as well.  Nothing   *)
(* catches either, and the process ends before the timer is armed.         *)
OpenFailed ==
  /\ crashed' = TRUE
  /\ port_' = "none" /\ connection' = FALSE
  /\ UNCHANGED <<reads, writes, timer, ready, sender, slips>>

Connect == port_ = "unopened" /\ (Opened \/ OpenFailed)

-----------------------------------------------------------------------------
(* The ROS thread in send().                                               *)

Unhandled == writes + Cardinality({i \in DOMAIN ready : ready[i].op = "write"})

SendDeref ==
  /\ sender = "idle"
  /\ Unhandled < MaxWrites
  /\ \/ /\ port_ # "none"
        /\ sender' = "writing"
        /\ UNCHANGED <<port_, reads, writes, timer, ready, connection, crashed, slips>>
     \/ port_ = "none" /\ Crash

Fails == ready' = Append(ready, Done("write", "failed")) /\ UNCHANGED writes

(* A port that is not open refuses.  A port that has been freed is         *)
(* undefined behaviour: it ends the process, or the remains of the port    *)
(* refuse, or a new port in the same place takes the telegram.             *)
SendWrite ==
  \/ /\ sender \in {"writing", "dangling"}
     /\ sender' = "idle"
     /\ \/ port_ = "open" /\ writes' = writes + 1 /\ UNCHANGED ready
        \/ (port_ = "unopened" \/ sender = "dangling") /\ Fails
     /\ UNCHANGED <<port_, reads, timer, connection, crashed, slips>>
  \/ sender = "dangling" /\ Crash

-----------------------------------------------------------------------------
(* The constructor is in connect().                                        *)
Init ==
  /\ port_ = "unopened"
  /\ reads = 0 /\ writes = 0
  /\ timer = "idle"
  /\ ready = << >>
  /\ sender = "starting"
  /\ connection = FALSE /\ crashed = FALSE
  /\ slips = 0

IoThread == ~crashed /\ (Connect \/ OnReceive \/ HandleWrite \/ ReconnectTimeout)

Reactor == ~crashed /\ (ReadDone \/ WriteDone \/ TimerExpires)

RosThread == ~crashed /\ (SendDeref \/ SendWrite)

Next == IoThread \/ Reactor \/ RosThread

Spec == Init /\ [][Next]_vars

(* io_service::run never blocks in a handler, and deadlines pass.          *)
FairSpec == Spec /\ WF_vars(IoThread) /\ WF_vars(~crashed /\ TimerExpires)

-----------------------------------------------------------------------------
(* Properties.                                                             *)

Queued(op) == \E i \in DOMAIN ready : ready[i].op = op

Prompt == slips = 0

(* However often do_close runs for one loss, and whatever wait it cancels, *)
(* a process that lives holds the work its port needs: an open port a      *)
(* read, no port a reconnect that is not cancelled.                        *)
AlwaysDriven ==
  ~crashed =>
    /\ port_ = "open" => reads > 0 \/ Queued("read")
    /\ port_ = "none" =>
         timer = "armed" \/ \E i \in DOMAIN ready : ready[i] = Done("timer", "none")

(* All reads share the buffer mem_.  Two of them are never outstanding as  *)
(* long as the reconnect does not overtake the handlers of the operations  *)
(* that the close aborted.                                                 *)
SingleReader ==
  Prompt => reads + Cardinality({i \in DOMAIN ready : ready[i].op = "read"}) <= 1

(* Each of these handlers arms the timer again.  Under the same condition  *)
(* none of these waits outlives the reconnect, to find "port is already    *)
(* opened" and tear down the new connection.                               *)
NoTeardown ==
  Prompt /\ ~crashed /\ port_ # "none" =>
    timer = "idle" /\ ~\E i \in DOMAIN ready : ready[i] = Done("timer", "none")

(* A close is followed by another attempt, unless the process ends.        *)
Reconnects == port_ = "none" ~> (port_ = "unopened" \/ crashed)

(* When a reconnect finds that "port_->open() failed", another one is      *)
(* coming: what connect() calls do_close for.                              *)
FailedOpenIsRetried ==
  [][sender # "starting" /\ port_ = "unopened" /\ port_' = "none" => timer' = "armed"]_vars

(* The safety of a link, as for TCP: subscribers of "connection" are told  *)
(* the truth, up to the end of the process.                                *)
L == INSTANCE Link WITH
       link <- CASE port_ = "open"     -> "CONNECTED"
                 [] port_ = "unopened" -> "WAITING"
                 [] port_ = "none"     -> "DISCONNECTED",
       announced <- connection

ImplementsLink == L!Spec
=============================================================================
