--------------------------- MODULE TcpClientProofs ---------------------------
(***************************************************************************)
(* The safety of the TCP client for every number of outstanding writes:    *)
(* type correctness, the three invariants of TcpClient, and the refinement *)
(* of Link.  All of them follow from one inductive invariant, IInv.        *)
(***************************************************************************)
EXTENDS TcpClient, TLAPS, SequenceTheorems

(* What the socket and the reactor hold in each connection state.          *)
Holds ==
  /\ state_ = "DISCONNECTED" => socket_ = "closed" /\ inFlight = {} /\ writes = 0
  /\ state_ = "WAITING" => socket_ # "closed"
  /\ state_ = "CONNECTED" => socket_ = "open"
  /\ "connect" \in inFlight => state_ = "WAITING" /\ ~Queued("connect")
  /\ "read" \in inFlight => state_ = "CONNECTED"

(* Which completions can still be queued in each connection state.         *)
Stale ==
  /\ state_ = "CONNECTED" => ~Queued("connect")
  /\ state_ = "WAITING" => \A i \in DOMAIN ready :
                             /\ ready[i].op = "read" => ready[i].error # "none"
                             /\ ready[i].op = "connect" /\ ready[i].error = "none" => socket_ = "open"

(* The order of what is queued.  An ended attempt and a successful read    *)
(* are never queued together, and no read is queued behind an attempt; the *)
(* reconnect has neither an attempt nor a successful read behind it, so    *)
(* the attempt it makes starts from a clean queue.                         *)
Order ==
  \A i, j \in DOMAIN ready :
    /\ ready[i].op = "connect" => ready[j].op # "read" \/ (j < i /\ ready[j].error # "none")
    /\ ready[i].op = "connect" /\ ready[j].op = "connect" => i = j
    /\ ready[i].op = "timer" /\ i < j =>
         /\ ready[j].op # "connect"
         /\ ready[j].op = "read" => ready[j].error # "none"

(* The reconnect timer is never cancelled while it is armed.               *)
NotCancelled == \A i \in DOMAIN ready : ready[i].op = "timer" => ready[i].error = "none"

IInv ==
  /\ TypeOK /\ AlwaysDriven /\ SingleReconnect /\ SingleReader
  /\ Holds /\ Stale /\ Order /\ NotCancelled

-----------------------------------------------------------------------------
(* Queues of completions.                                                  *)

(* A completion that an operator of TcpClient makes has the type of one.   *)
LEMMA DoneIsCompletion ==
  ASSUME NEW o \in {"connect", "read", "write", "timer"},
         NEW e \in {"none", "failed", "aborted"}
  PROVE  /\ Done(o, e) \in Completion
         /\ Done(o, e).op = o /\ Done(o, e).error = e
  BY DEF Done, Completion

(* The elements of the queue after one more completion.                    *)
LEMMA Appended ==
  ASSUME NEW s \in Seq(Completion), NEW c \in Completion
  PROVE  /\ Append(s, c) \in Seq(Completion)
         /\ DOMAIN Append(s, c) = 1 .. Len(s) + 1
         /\ DOMAIN s = 1 .. Len(s)
         /\ Len(s) \in Nat
         /\ \A i \in DOMAIN s : Append(s, c)[i] = s[i]
         /\ Append(s, c)[Len(s) + 1] = c
  BY AppendProperties

(* The elements of the queue once its head has been taken.                 *)
LEMMA Taken ==
  ASSUME NEW s \in Seq(Completion), s # << >>
  PROVE  /\ Tail(s) \in Seq(Completion)
         /\ Len(s) \in Nat /\ Len(s) >= 1 /\ Len(Tail(s)) = Len(s) - 1
         /\ DOMAIN s = 1 .. Len(s)
         /\ DOMAIN Tail(s) = 1 .. Len(s) - 1
         /\ \A i \in DOMAIN Tail(s) : Tail(s)[i] = s[i + 1]
         /\ Head(s) = s[1] /\ Head(s) \in Completion
  <1>1. Len(s) \in Nat /\ DOMAIN s = 1 .. Len(s)
    BY LenProperties
  <1>2. Len(s) # 0
    BY EmptySeq, <1>1
  <1>3. Tail(s) \in Seq(Completion) /\ Len(Tail(s)) = Len(s) - 1
        /\ \A i \in 1 .. Len(Tail(s)) : Tail(s)[i] = s[i + 1]
    BY HeadTailProperties
  <1>4. DOMAIN Tail(s) = 1 .. Len(s) - 1
    BY <1>3, LenProperties
  <1>5. Head(s) = s[1] /\ s[1] \in Completion
    BY <1>1, <1>2, ElementOfSeq, HeadTailProperties
  <1> QED
    BY <1>1, <1>2, <1>3, <1>4, <1>5

(* What closing the socket completes, when the reactor does not hold both  *)
(* a connect and a read: aborted operations, the connect or read first.    *)
LEMMA AbortedShape ==
  ASSUME inFlight \in SUBSET {"connect", "read"}, writes \in Nat,
         ~("connect" \in inFlight /\ "read" \in inFlight)
  PROVE  /\ Aborted \in Seq(Completion)
         /\ \A i \in DOMAIN Aborted :
              /\ Aborted[i].error = "aborted"
              /\ Aborted[i].op \in {"connect", "read", "write"}
              /\ Aborted[i].op = "connect" => "connect" \in inFlight /\ i = 1
              /\ Aborted[i].op = "read" => "read" \in inFlight /\ i = 1
  <1> DEFINE W == [i \in 1 .. writes |-> Done("write", "aborted")]
             C == OneIf("connect" \in inFlight, Done("connect", "aborted"))
             R == OneIf("read" \in inFlight, Done("read", "aborted"))
  <1>1. /\ W \in Seq(Completion) /\ Len(W) \in Nat
        /\ \A i \in 1 .. Len(W) : W[i] = Done("write", "aborted")
    BY DoneIsCompletion
  <1>2. /\ C \in Seq(Completion) /\ Len(C) \in {0, 1}
        /\ Len(C) = 1 => "connect" \in inFlight
        /\ \A i \in 1 .. Len(C) : C[i] = Done("connect", "aborted")
    BY DoneIsCompletion DEF OneIf
  <1>3. /\ R \in Seq(Completion) /\ Len(R) \in {0, 1}
        /\ Len(R) = 1 => "read" \in inFlight
        /\ \A i \in 1 .. Len(R) : R[i] = Done("read", "aborted")
    BY DoneIsCompletion DEF OneIf
  <1>4. Aborted = (C \o R) \o W
    BY DEF Aborted
  <1> HIDE DEF W, C, R
  <1>5. /\ C \o R \in Seq(Completion) /\ Len(C \o R) = Len(C) + Len(R)
        /\ \A i \in 1 .. Len(C) + Len(R) :
             (C \o R)[i] = IF i <= Len(C) THEN C[i] ELSE R[i - Len(C)]
    BY ONLY <1>2, <1>3, ConcatProperties
  <1>6. /\ Aborted \in Seq(Completion)
        /\ Len(Aborted) = Len(C) + Len(R) + Len(W)
        /\ \A i \in 1 .. Len(C) + Len(R) + Len(W) :
             Aborted[i] = IF i <= Len(C) + Len(R) THEN (C \o R)[i]
                                                 ELSE W[i - (Len(C) + Len(R))]
    <2>1. /\ (C \o R) \o W \in Seq(Completion)
          /\ Len((C \o R) \o W) = Len(C \o R) + Len(W)
          /\ \A i \in 1 .. Len(C \o R) + Len(W) : ((C \o R) \o W)[i] =
               IF i <= Len(C \o R) THEN (C \o R)[i] ELSE W[i - Len(C \o R)]
      BY ONLY <1>1, <1>5, ConcatProperties
    <2> QED
      BY <2>1, <1>4, <1>5
  <1>7. DOMAIN Aborted = 1 .. Len(C) + Len(R) + Len(W)
    BY ONLY <1>6, LenProperties
  <1>8. ASSUME NEW i \in DOMAIN Aborted
        PROVE  \/ Aborted[i] = Done("connect", "aborted") /\ "connect" \in inFlight /\ i = 1
               \/ Aborted[i] = Done("read", "aborted") /\ "read" \in inFlight /\ i = 1
               \/ Aborted[i] = Done("write", "aborted")
    <2>1. CASE i <= Len(C)
      BY <2>1, <1>2, <1>3, <1>5, <1>6, <1>7, <1>1
    <2>2. CASE Len(C) < i /\ i <= Len(C) + Len(R)
      <3>1. Aborted[i] = R[i - Len(C)] /\ i - Len(C) \in 1 .. Len(R) /\ Len(R) = 1
        BY <2>2, <1>2, <1>3, <1>5, <1>6, <1>7, <1>1
      <3>2. Len(C) = 0
        BY <3>1, <1>2, <1>3
      <3> QED
        BY <3>1, <3>2, <1>3, <2>2
    <2>3. CASE Len(C) + Len(R) < i
      <3>1. i - (Len(C) + Len(R)) \in 1 .. Len(W)
        BY <2>3, <1>1, <1>2, <1>3, <1>7
      <3> QED
        BY <3>1, <2>3, <1>1, <1>2, <1>3, <1>6, <1>7
    <2> QED
      BY <2>1, <2>2, <2>3, <1>1, <1>2, <1>3, <1>7
  <1> QED
    BY <1>6, <1>8, DoneIsCompletion

-----------------------------------------------------------------------------
(* The inductive invariant.                                                *)

(* The constructor: an attempt is running and nothing has completed.       *)
LEMMA InitIInv ==
  ASSUME Init
  PROVE  IInv
  <1>1. ready = << >> /\ ready \in Seq(Completion) /\ DOMAIN ready = {}
    BY DEF Init
  <1> QED
    BY <1>1 DEF Init, IInv, TypeOK, States, AlwaysDriven, SingleReconnect,
                SingleReader, Queued, Holds, Stale, Order, NotCancelled

(* The connect completes: it was held, so no other completion of it is     *)
(* queued, and the client is waiting for it.                               *)
LEMMA ConnectDoneIInv ==
  ASSUME IInv, ConnectDone
  PROVE  IInv'
  <1>1. PICK e \in {"none", "failed"} :
          /\ ready' = Append(ready, Done("connect", e))
          /\ socket_' = IF e = "none" THEN "open" ELSE socket_
    BY DEF ConnectDone
  <1> DEFINE c == Done("connect", e)
  <1>2. c \in Completion /\ c.op = "connect" /\ c.error = e /\ ready \in Seq(Completion)
    BY DoneIsCompletion DEF IInv, TypeOK
  <1> HIDE DEF c
  <1>3. /\ ready' \in Seq(Completion)
        /\ DOMAIN ready' = 1 .. Len(ready) + 1 /\ DOMAIN ready = 1 .. Len(ready)
        /\ Len(ready) \in Nat
        /\ \A i \in DOMAIN ready : ready'[i] = ready[i]
        /\ ready'[Len(ready) + 1] = c
    BY <1>1, <1>2, Appended DEF c
  <1>4. state_ = "WAITING" /\ ~Queued("connect") /\ "connect" \in inFlight
        /\ inFlight' = inFlight \ {"connect"} /\ "read" \notin inFlight
    BY DEF IInv, Holds, ConnectDone
  <1> USE <1>1, <1>2, <1>3, <1>4 DEF ConnectDone, IInv
  <1>5. TypeOK'
    BY DEF TypeOK
  <1>6. AlwaysDriven'
    BY DEF AlwaysDriven, Queued
  <1>7. SingleReconnect'
    BY DEF SingleReconnect, Queued
  <1>8. SingleReader'
    BY DEF SingleReader, Queued
  <1>9. Holds' /\ Stale'
    BY DEF Holds, Stale, Queued
  <1>10. Order'
    BY DEF Order, Stale, SingleReconnect, Queued
  <1>11. NotCancelled'
    BY DEF NotCancelled
  <1> QED
    BY <1>5, <1>6, <1>7, <1>8, <1>9, <1>10, <1>11

(* The read completes: the client is connected and no other read is queued. *)
LEMMA ReadDoneIInv ==
  ASSUME IInv, ReadDone
  PROVE  IInv'
  <1>1. PICK e \in {"none", "failed"} : ready' = Append(ready, Done("read", e))
    BY DEF ReadDone
  <1> DEFINE c == Done("read", e)
  <1>2. c \in Completion /\ c.op = "read" /\ ready \in Seq(Completion)
    BY DoneIsCompletion DEF IInv, TypeOK
  <1> HIDE DEF c
  <1>3. /\ ready' \in Seq(Completion)
        /\ DOMAIN ready' = 1 .. Len(ready) + 1 /\ DOMAIN ready = 1 .. Len(ready)
        /\ Len(ready) \in Nat
        /\ \A i \in DOMAIN ready : ready'[i] = ready[i]
        /\ ready'[Len(ready) + 1] = c
    BY <1>1, <1>2, Appended DEF c
  <1>4. state_ = "CONNECTED" /\ "read" \in inFlight /\ inFlight' = inFlight \ {"read"}
        /\ ~Queued("read") /\ ~Queued("connect") /\ ~Queued("timer")
    BY DEF IInv, Holds, Stale, SingleReader, SingleReconnect, ReadDone
  <1> USE <1>1, <1>2, <1>3, <1>4 DEF ReadDone, IInv
  <1>5. TypeOK'
    BY DEF TypeOK
  <1>6. AlwaysDriven'
    BY DEF AlwaysDriven, Queued
  <1>7. SingleReconnect'
    BY DEF SingleReconnect, Queued
  <1>8. SingleReader'
    BY DEF SingleReader, Queued
  <1>9. Holds' /\ Stale'
    BY DEF Holds, Stale, Queued
  <1>10. Order'
    BY DEF Order, Stale, SingleReconnect, Queued
  <1>11. NotCancelled'
    BY DEF NotCancelled
  <1> QED
    BY <1>5, <1>6, <1>7, <1>8, <1>9, <1>10, <1>11

(* A write completes: nothing depends on the writes that are queued.       *)
LEMMA WriteDoneIInv ==
  ASSUME IInv, WriteDone
  PROVE  IInv'
  <1>1. PICK e \in {"none", "failed"} : ready' = Append(ready, Done("write", e))
    BY DEF WriteDone
  <1> DEFINE c == Done("write", e)
  <1>2. c \in Completion /\ c.op = "write" /\ ready \in Seq(Completion)
    BY DoneIsCompletion DEF IInv, TypeOK
  <1> HIDE DEF c
  <1>3. /\ ready' \in Seq(Completion)
        /\ DOMAIN ready' = 1 .. Len(ready) + 1 /\ DOMAIN ready = 1 .. Len(ready)
        /\ Len(ready) \in Nat
        /\ \A i \in DOMAIN ready : ready'[i] = ready[i]
        /\ ready'[Len(ready) + 1] = c
    BY <1>1, <1>2, Appended DEF c
  <1>4. state_ # "DISCONNECTED" /\ writes \in Nat
    BY DEF IInv, Holds, TypeOK, WriteDone
  <1> USE <1>1, <1>2, <1>3, <1>4 DEF WriteDone, IInv
  <1>5. TypeOK'
    BY DEF TypeOK
  <1>6. AlwaysDriven'
    BY DEF AlwaysDriven, Queued
  <1>7. SingleReconnect'
    BY DEF SingleReconnect, Queued
  <1>8. SingleReader'
    BY DEF SingleReader, Queued
  <1>9. Holds' /\ Stale'
    BY DEF Holds, Stale, Queued
  <1>10. Order'
    BY DEF Order, Stale, SingleReconnect, Queued
  <1>11. NotCancelled'
    BY DEF NotCancelled
  <1> QED
    BY <1>5, <1>6, <1>7, <1>8, <1>9, <1>10, <1>11

(* The reconnect becomes due: the timer was armed, so none was queued.     *)
LEMMA TimerExpiresIInv ==
  ASSUME IInv, TimerExpires
  PROVE  IInv'
  <1>1. ready' = Append(ready, Done("timer", "none"))
    BY DEF TimerExpires
  <1> DEFINE c == Done("timer", "none")
  <1>2. c \in Completion /\ c.op = "timer" /\ c.error = "none" /\ ready \in Seq(Completion)
    BY DoneIsCompletion DEF IInv, TypeOK
  <1> HIDE DEF c
  <1>3. /\ ready' \in Seq(Completion)
        /\ DOMAIN ready' = 1 .. Len(ready) + 1 /\ DOMAIN ready = 1 .. Len(ready)
        /\ Len(ready) \in Nat
        /\ \A i \in DOMAIN ready : ready'[i] = ready[i]
        /\ ready'[Len(ready) + 1] = c
    BY <1>1, <1>2, Appended DEF c
  <1>4. timer = "armed" /\ ~Queued("timer") /\ state_ = "DISCONNECTED"
    BY DEF IInv, TypeOK, States, SingleReconnect, TimerExpires
  <1> USE <1>1, <1>2, <1>3, <1>4 DEF TimerExpires, IInv
  <1>5. TypeOK'
    BY DEF TypeOK
  <1>6. AlwaysDriven'
    BY DEF AlwaysDriven, Queued
  <1>7. SingleReconnect'
    BY DEF SingleReconnect, Queued
  <1>8. SingleReader'
    BY DEF SingleReader, Queued
  <1>9. Holds' /\ Stale'
    BY DEF Holds, Stale, Queued
  <1>10. Order'
    BY DEF Order, Stale, SingleReconnect, Queued
  <1>11. NotCancelled'
    BY DEF NotCancelled
  <1> QED
    BY <1>5, <1>6, <1>7, <1>8, <1>9, <1>10, <1>11

(* The send() of the ROS thread only adds a write, or a failed one.        *)
LEMMA SendIInv ==
  ASSUME IInv, SendTest \/ SendWrite
  PROVE  IInv'
  <1> USE DEF IInv
  <1>1. CASE UNCHANGED <<state_, socket_, inFlight, timer, ready, connection>> /\ writes' = writes
    BY <1>1 DEF SendTest, SendWrite, TypeOK, AlwaysDriven, SingleReconnect, SingleReader,
                Queued, Holds, Stale, Order, NotCancelled
  <1>2. CASE SendWrite /\ socket_ # "closed"
    BY <1>2 DEF SendWrite, TypeOK, AlwaysDriven, SingleReconnect, SingleReader,
                Queued, Holds, Stale, Order, NotCancelled
  <1>3. CASE SendWrite /\ socket_ = "closed"
    <2> DEFINE c == Done("write", "failed")
    <2>1. c \in Completion /\ c.op = "write" /\ ready \in Seq(Completion)
      BY DoneIsCompletion DEF TypeOK
    <2>2. ready' = Append(ready, c)
      BY <1>3 DEF SendWrite
    <2> HIDE DEF c
    <2>3. /\ ready' \in Seq(Completion)
          /\ DOMAIN ready' = 1 .. Len(ready) + 1 /\ DOMAIN ready = 1 .. Len(ready)
          /\ Len(ready) \in Nat
          /\ \A i \in DOMAIN ready : ready'[i] = ready[i]
          /\ ready'[Len(ready) + 1] = c
      BY <2>1, <2>2, Appended
    <2> USE <1>3, <2>1, <2>3 DEF SendWrite
    <2>4. TypeOK'
      BY DEF TypeOK
    <2>5. AlwaysDriven' /\ SingleReconnect' /\ SingleReader'
      BY DEF AlwaysDriven, SingleReconnect, SingleReader, Queued
    <2>6. Holds' /\ Stale' /\ Order' /\ NotCancelled'
      BY DEF Holds, Stale, Order, NotCancelled, Queued
    <2> QED
      BY <2>4, <2>5, <2>6
  <1> QED
    BY <1>1, <1>2, <1>3 DEF SendTest, SendWrite, io

(* do_close on a client that is already closed drops one completion, which *)
(* must not be the reconnect it waits for.                                 *)
LEMMA AlreadyClosedIInv ==
  ASSUME IInv, AlreadyClosed, ready # << >>, Head(ready).op # "timer", UNCHANGED sender
  PROVE  IInv'
  <1>1. ready \in Seq(Completion) /\ ready' = Tail(ready) /\ state_ = "DISCONNECTED"
    BY DEF IInv, TypeOK, AlreadyClosed
  <1>2. /\ ready' \in Seq(Completion)
        /\ Len(ready) \in Nat /\ DOMAIN ready = 1 .. Len(ready)
        /\ DOMAIN ready' = 1 .. Len(ready) - 1
        /\ \A i \in DOMAIN ready' : ready'[i] = ready[i + 1]
        /\ ready[1].op # "timer"
    BY <1>1, Taken
  <1>3. \A i \in DOMAIN ready : i = 1 \/ (i - 1 \in DOMAIN ready' /\ ready'[i - 1] = ready[i])
    BY <1>2
  <1>4. \A i \in DOMAIN ready' : i + 1 \in DOMAIN ready
    BY <1>2
  <1> USE <1>1, <1>2, <1>3, <1>4 DEF IInv, AlreadyClosed
  <1>a. TypeOK'
    BY DEF TypeOK, States
  <1>b. AlwaysDriven'
    BY DEF AlwaysDriven, Queued
  <1>c. SingleReconnect'
    BY DEF SingleReconnect, Queued
  <1>d. SingleReader'
    BY DEF SingleReader, Queued
  <1>e. Holds' /\ Stale'
    BY DEF Holds, Stale, Queued
  <1>f. Order'
    BY DEF Order, Stale, SingleReconnect, Queued
  <1>g. NotCancelled'
    BY DEF NotCancelled
  <1> QED
    BY <1>a, <1>b, <1>c, <1>d, <1>e, <1>f, <1>g

(* do_close on a client that is waiting or connected: what is held is      *)
(* aborted, and the only reconnect is the one it arms.                     *)
LEMMA CloseAndRetryIInv ==
  ASSUME IInv, CloseAndRetry, ready # << >>, UNCHANGED sender
  PROVE  IInv'
  <1> DEFINE s == Tail(ready)
             a == Aborted
  <1>1. /\ ready \in Seq(Completion) /\ state_ # "DISCONNECTED" /\ timer = "idle"
        /\ ~Queued("timer") /\ inFlight \in SUBSET {"connect", "read"}
        /\ writes \in Nat /\ ~("connect" \in inFlight /\ "read" \in inFlight)
    BY DEF IInv, TypeOK, CloseAndRetry, SingleReconnect, Holds
  <1>2. /\ s \in Seq(Completion) /\ Len(s) = Len(ready) - 1 /\ Len(ready) \in Nat
        /\ DOMAIN ready = 1 .. Len(ready) /\ Len(ready) >= 1
        /\ \A i \in 1 .. Len(s) : s[i] = ready[i + 1]
    BY <1>1, Taken
  <1>3. /\ a \in Seq(Completion)
        /\ \A i \in DOMAIN a :
             /\ a[i].error = "aborted" /\ a[i].op \in {"connect", "read", "write"}
             /\ a[i].op = "connect" => "connect" \in inFlight /\ i = 1
             /\ a[i].op = "read" => "read" \in inFlight /\ i = 1
    BY <1>1, AbortedShape
  <1>4. OneIf(timer = "armed", Done("timer", "aborted")) = << >>
    BY <1>1 DEF OneIf
  <1>5. ready' = s \o a
    <2> HIDE DEF s, a
    <2>1. ready' = s \o a \o << >>
      BY <1>4 DEF CloseAndRetry, s, a
    <2>2. s \o a \in Seq(Completion)
      BY <1>2, <1>3, ConcatProperties
    <2> QED
      BY <2>1, <2>2, ConcatEmptySeq
  <1> HIDE DEF s, a
  <1>6. /\ Len(a) \in Nat /\ DOMAIN a = 1 .. Len(a)
        /\ ready' \in Seq(Completion)
        /\ DOMAIN ready' = 1 .. Len(s) + Len(a)
        /\ \A i \in 1 .. Len(s) + Len(a) :
             ready'[i] = IF i <= Len(s) THEN s[i] ELSE a[i - Len(s)]
    BY <1>2, <1>3, <1>5, ConcatProperties, LenProperties
  (* Each completion that is queued now was queued behind the head, or is  *)
  (* an aborted operation behind all of those.                             *)
  <1>7. ASSUME NEW i \in DOMAIN ready'
        PROVE  \/ i <= Len(s) /\ i + 1 \in DOMAIN ready /\ ready'[i] = ready[i + 1]
               \/ /\ i > Len(s) /\ i - Len(s) \in DOMAIN a
                  /\ ready'[i].error = "aborted" /\ ready'[i].op # "timer"
                  /\ ready'[i].op = "connect" => "connect" \in inFlight /\ i = Len(s) + 1
                  /\ ready'[i].op = "read" => "read" \in inFlight /\ i = Len(s) + 1
    <2>1. CASE i <= Len(s)
      BY <2>1, <1>2, <1>6
    <2>2. CASE i > Len(s)
      <3>1. i - Len(s) \in DOMAIN a /\ ready'[i] = a[i - Len(s)]
        <4>1. i \in 1 .. Len(s) + Len(a) /\ Len(s) \in Nat /\ Len(a) \in Nat
          BY <1>2, <1>6
        <4>2. i - Len(s) \in 1 .. Len(a)
          BY <4>1, <2>2
        <4> QED
          BY <4>1, <4>2, <2>2, <1>6
      <3>2. i - Len(s) = 1 => i = Len(s) + 1
        BY <1>2, <1>6
      <3> QED
        BY <2>2, <3>1, <3>2, <1>3
    <2> QED
      BY <2>1, <2>2, <1>2, <1>6
  <1>8. /\ state_' = "DISCONNECTED" /\ socket_' = "closed" /\ inFlight' = {}
        /\ writes' = 0 /\ timer' = "armed" /\ connection' = FALSE
    BY DEF CloseAndRetry
  <1>9. ~Queued("timer")' /\ NotCancelled'
    BY <1>1, <1>2, <1>7, <1>6 DEF Queued, NotCancelled
  <1> USE <1>8, <1>9, <1>6
  <1>a. TypeOK'
    BY DEF TypeOK, States, IInv
  <1>b. AlwaysDriven'
    BY DEF AlwaysDriven
  <1>c. SingleReconnect'
    BY DEF SingleReconnect, Queued
  <1>d. SingleReader'
    BY <1>2, <1>7 DEF SingleReader, Queued, IInv
  <1>e. Holds' /\ Stale'
    BY DEF Holds, Stale
  <1>f. Order'
    <2> SUFFICES ASSUME NEW i \in DOMAIN ready', NEW j \in DOMAIN ready'
        PROVE  /\ ready'[i].op = "connect" =>
                    ready'[j].op # "read" \/ (j < i /\ ready'[j].error # "none")
               /\ ready'[i].op = "connect" /\ ready'[j].op = "connect" => i = j
      BY <1>9 DEF Order, Queued
    <2> QED
      BY <1>1, <1>2, <1>7 DEF IInv, Order, Holds, Stale, Queued
  <1> QED
    BY <1>9, <1>a, <1>b, <1>c, <1>d, <1>e, <1>f DEF IInv

(* An attempt that succeeded starts the one read of the connection.        *)
LEMMA EstablishedIInv ==
  ASSUME IInv, HandleConnect, Established(Head(ready))
  PROVE  IInv'
  <1>1. /\ ready \in Seq(Completion) /\ ready # << >> /\ ready[1] = Head(ready)
        /\ 1 \in DOMAIN ready
        /\ Head(ready).op = "connect" /\ Head(ready).error = "none"
        /\ socket_ # "closed" /\ state_ \in States
        /\ StartRead /\ state_' = "CONNECTED" /\ connection' = TRUE
        /\ UNCHANGED <<socket_, writes, timer, sender>>
    <2>1. ready \in Seq(Completion) /\ ready # << >> /\ state_ \in States
      BY DEF IInv, TypeOK, HandleConnect, Handling
    <2>2. Head(ready) = ready[1] /\ Head(ready) \in Completion /\ 1 \in DOMAIN ready
      BY <2>1, Taken
    <2> QED
      BY <2>1, <2>2 DEF HandleConnect, Handling, Established, Done, Completion
  <1>5. state_ = "WAITING" /\ socket_ = "open"
    BY <1>1 DEF IInv, Holds, Stale, Queued, States
  <1>6. inFlight' = inFlight \cup {"read"} /\ ready' = Tail(ready)
    BY <1>1, <1>5 DEF StartRead
  <1>2. /\ ready' \in Seq(Completion)
        /\ Len(ready) \in Nat /\ DOMAIN ready = 1 .. Len(ready)
        /\ DOMAIN ready' = 1 .. Len(ready) - 1
        /\ \A i \in DOMAIN ready' : ready'[i] = ready[i + 1]
        /\ 1 \in DOMAIN ready /\ ready[1] = Head(ready)
    BY <1>1, <1>6, Taken
  <1>3. \A i \in DOMAIN ready : i = 1 \/ (i - 1 \in DOMAIN ready' /\ ready'[i - 1] = ready[i])
    BY <1>2
  <1>4. \A i \in DOMAIN ready' : i + 1 \in DOMAIN ready
    BY <1>2
  <1>7. \A i \in DOMAIN ready : ready[i].op # "read" /\ (ready[i].op = "connect" => i = 1)
    BY <1>1, <1>2, <1>5 DEF IInv, Order, Holds
  <1>8. inFlight = {}
    BY <1>1, <1>5 DEF IInv, TypeOK, Holds, Queued
  <1> USE <1>1, <1>2, <1>3, <1>4, <1>5, <1>6, <1>7, <1>8 DEF IInv
  <1>a. TypeOK'
    BY DEF TypeOK, States
  <1>b. AlwaysDriven'
    BY DEF AlwaysDriven, Queued
  <1>c. SingleReconnect'
    BY DEF SingleReconnect, Queued
  <1>d. SingleReader'
    BY DEF SingleReader, Queued
  <1>e. Holds' /\ Stale'
    BY DEF Holds, Stale, Queued
  <1>f. Order'
    BY DEF Order, Stale, Holds, SingleReconnect, Queued
  <1>g. NotCancelled'
    BY DEF NotCancelled
  <1> QED
    BY <1>a, <1>b, <1>c, <1>d, <1>e, <1>f, <1>g

(* After data the connection is read again; on a socket that was closed    *)
(* meanwhile the read is refused, and its failure is queued.               *)
LEMMA ReadAgainIInv ==
  ASSUME IInv, HandleRead, Head(ready).error = "none"
  PROVE  IInv'
  <1>1. /\ ready \in Seq(Completion) /\ ready # << >> /\ ready[1] = Head(ready)
        /\ 1 \in DOMAIN ready
        /\ Head(ready).op = "read" /\ Head(ready).error = "none" /\ state_ \in States
        /\ StartRead /\ UNCHANGED <<state_, socket_, writes, timer, sender, connection>>
    <2>1. ready \in Seq(Completion) /\ ready # << >> /\ state_ \in States
      BY DEF IInv, TypeOK, HandleRead, Handling
    <2>2. Head(ready) = ready[1] /\ 1 \in DOMAIN ready
      BY <2>1, Taken
    <2> QED
      BY <2>1, <2>2 DEF HandleRead, Handling
  <1>2. /\ Tail(ready) \in Seq(Completion)
        /\ Len(ready) \in Nat /\ Len(ready) >= 1 /\ DOMAIN ready = 1 .. Len(ready)
        /\ DOMAIN Tail(ready) = 1 .. Len(ready) - 1 /\ Len(Tail(ready)) = Len(ready) - 1
        /\ \A i \in DOMAIN Tail(ready) : Tail(ready)[i] = ready[i + 1]
    BY <1>1, Taken
  <1>3. \A i \in DOMAIN ready : ready[i].op = "read" => i = 1
    BY <1>1 DEF IInv, SingleReader
  <1>4. /\ state_ # "WAITING" /\ ~Queued("connect") /\ inFlight = {}
    BY <1>1 DEF IInv, TypeOK, Stale, Order, SingleReader, Holds, Queued
  <1>5. CASE socket_ = "open"
    <2>1. ready' = Tail(ready) /\ inFlight' = {"read"} /\ state_ = "CONNECTED"
      BY <1>1, <1>4, <1>5 DEF StartRead, IInv, Holds, States
    <2>2. \A i \in DOMAIN ready' : i + 1 \in DOMAIN ready /\ ready'[i] = ready[i + 1]
      BY <1>2, <2>1
    <2> USE <1>1, <1>2, <1>3, <1>4, <1>5, <2>1, <2>2
    <2>a. ~Queued("timer")' /\ ~Queued("read")' /\ ~Queued("connect")'
      BY DEF IInv, SingleReconnect, Queued
    <2>b. TypeOK' /\ AlwaysDriven' /\ SingleReconnect' /\ SingleReader'
      BY <2>a DEF IInv, TypeOK, AlwaysDriven, SingleReconnect, SingleReader, Queued
    <2>c. Holds' /\ Stale' /\ Order' /\ NotCancelled'
      BY <2>a DEF IInv, Holds, Stale, Order, NotCancelled, Queued
    <2> QED
      BY <2>b, <2>c DEF IInv
  <1>6. CASE socket_ # "open"
    <2> DEFINE c == Done("read", "failed")
    <2>1. c \in Completion /\ c.op = "read" /\ c.error = "failed"
      BY DoneIsCompletion
    <2>2. ready' = Append(Tail(ready), c) /\ inFlight' = {} /\ state_ = "DISCONNECTED"
      BY <1>1, <1>4, <1>6 DEF StartRead, IInv, Holds, States
    <2> HIDE DEF c
    <2>3. /\ ready' \in Seq(Completion) /\ DOMAIN ready' = 1 .. Len(ready)
          /\ \A i \in DOMAIN Tail(ready) : ready'[i] = ready[i + 1]
          /\ ready'[Len(ready)] = c
      BY <1>2, <2>1, <2>2, Appended
    <2>4. ASSUME NEW i \in DOMAIN ready'
          PROVE  \/ i < Len(ready) /\ i + 1 \in DOMAIN ready /\ ready'[i] = ready[i + 1]
                 \/ i = Len(ready) /\ ready'[i] = c
      BY <1>2, <2>3
    <2>5. \A i \in DOMAIN ready : i = 1 \/ (i - 1 \in DOMAIN ready' /\ ready'[i - 1] = ready[i])
      BY <1>2, <2>3
    <2> USE <1>1, <1>2, <1>3, <1>4, <1>6, <2>1, <2>2, <2>3, <2>4, <2>5
    <2>a. TypeOK'
      BY DEF IInv, TypeOK
    <2>f. Queued("timer")' <=> Queued("timer")
      BY ONLY <1>1, <2>1, <2>4, <2>5 DEF Queued
    <2>g. ASSUME NEW i \in DOMAIN ready', NEW j \in DOMAIN ready',
                 ready'[i].op = "timer", ready'[j].op = "timer"
          PROVE  i = j
      <3>1. i + 1 \in DOMAIN ready /\ ready'[i] = ready[i + 1]
            /\ j + 1 \in DOMAIN ready /\ ready'[j] = ready[j + 1]
        BY ONLY <2>1, <2>4, <2>g
      <3>2. i + 1 = j + 1 /\ i \in Nat /\ j \in Nat
        BY ONLY <3>1, <2>3, <1>2, <2>g, IInv DEF IInv, SingleReconnect
      <3> QED
        BY ONLY <3>2
    <2>h. state_' = "DISCONNECTED" /\ timer' = timer
      BY ONLY <1>1, <2>2
    <2>b. AlwaysDriven' /\ SingleReconnect'
      BY ONLY <2>f, <2>g, <2>h, <2>2, IInv DEF IInv, AlwaysDriven, SingleReconnect
    <2>c. SingleReader' /\ NotCancelled'
      BY DEF IInv, SingleReader, NotCancelled, Queued
    <2>d. Holds' /\ Stale'
      BY DEF IInv, Holds, Stale, Queued
    <2>e. Order'
      BY DEF IInv, Order, Queued
    <2> QED
      BY <2>a, <2>b, <2>c, <2>d, <2>e DEF IInv
  <1> QED
    BY <1>5, <1>6

(* A write that succeeded changes nothing but the queue.                   *)
LEMMA WrittenIInv ==
  ASSUME IInv, HandleWrite, Head(ready).error = "none"
  PROVE  IInv'
  <1>1. /\ ready \in Seq(Completion) /\ ready # << >> /\ Head(ready).op = "write"
        /\ ready' = Tail(ready)
        /\ UNCHANGED <<state_, socket_, inFlight, writes, timer, sender, connection>>
    BY DEF IInv, TypeOK, HandleWrite, Handling
  <1>2. /\ ready' \in Seq(Completion)
        /\ Len(ready) \in Nat /\ DOMAIN ready = 1 .. Len(ready)
        /\ DOMAIN ready' = 1 .. Len(ready) - 1
        /\ \A i \in DOMAIN ready' : ready'[i] = ready[i + 1]
        /\ 1 \in DOMAIN ready /\ ready[1] = Head(ready)
    BY <1>1, Taken
  <1>3. \A i \in DOMAIN ready : i = 1 \/ (i - 1 \in DOMAIN ready' /\ ready'[i - 1] = ready[i])
    BY <1>2
  <1>4. \A i \in DOMAIN ready' : i + 1 \in DOMAIN ready
    BY <1>2
  <1> USE <1>1, <1>2, <1>3, <1>4 DEF IInv
  <1>a. TypeOK'
    BY DEF TypeOK, States
  <1>b. AlwaysDriven'
    BY DEF AlwaysDriven, Queued
  <1>c. SingleReconnect'
    BY DEF SingleReconnect, Queued
  <1>d. SingleReader'
    BY DEF SingleReader, Queued
  <1>e. Holds' /\ Stale'
    BY DEF Holds, Stale, Queued
  <1>f. Order'
    BY DEF Order, Stale, Holds, SingleReconnect, Queued
  <1>g. NotCancelled'
    BY DEF NotCancelled
  <1> QED
    BY <1>a, <1>b, <1>c, <1>d, <1>e, <1>f, <1>g

(* The reconnect: nothing is held, so connect() aborts nothing, and what   *)
(* is queued behind it are writes and failed reads.                        *)
LEMMA ReconnectIInv ==
  ASSUME IInv, ReconnectTimeout
  PROVE  IInv'
  <1>0. /\ ready \in Seq(Completion) /\ ready # << >> /\ Head(ready).op = "timer"
        /\ state_ \in States /\ timer \in {"idle", "armed"}
    BY DEF IInv, TypeOK, ReconnectTimeout, Handling
  <1>5. ready[1] = Head(ready) /\ 1 \in DOMAIN ready
    BY <1>0, Taken
  <1>6. /\ Head(ready).error = "none" /\ state_ = "DISCONNECTED" /\ timer = "idle"
        /\ inFlight = {} /\ writes = 0
    BY <1>0, <1>5 DEF IInv, NotCancelled, SingleReconnect, Queued, Holds
  <1>7. Aborted = << >>
    BY <1>6 DEF Aborted, OneIf
  <1>8. Tail(ready) \in Seq(Completion)
    BY <1>0, Taken
  <1>1. /\ ready \in Seq(Completion) /\ ready # << >> /\ ready' = Tail(ready)
        /\ state_' = "WAITING" /\ socket_' = "unconnected" /\ inFlight' = {"connect"}
        /\ writes' = 0 /\ UNCHANGED <<timer, sender, connection>>
    BY <1>0, <1>6, <1>7, <1>8, ConcatEmptySeq DEF ReconnectTimeout, Connect
  <1>2. /\ ready' \in Seq(Completion)
        /\ Len(ready) \in Nat /\ DOMAIN ready = 1 .. Len(ready)
        /\ DOMAIN ready' = 1 .. Len(ready) - 1
        /\ \A i \in DOMAIN ready' : ready'[i] = ready[i + 1]
        /\ 1 \in DOMAIN ready /\ ready[1] = Head(ready)
    BY <1>1, Taken
  <1>3. \A i \in DOMAIN ready : i = 1 \/ (i - 1 \in DOMAIN ready' /\ ready'[i - 1] = ready[i])
    BY <1>2
  <1>4. \A i \in DOMAIN ready' : i + 1 \in DOMAIN ready
    BY <1>2
  <1>9. \A i \in DOMAIN ready :
          i # 1 => /\ ready[i].op \notin {"connect", "timer"}
                   /\ ready[i].op = "read" => ready[i].error # "none"
    BY <1>0, <1>2, <1>5 DEF IInv, Order, SingleReconnect
  <1>10. \A i \in DOMAIN ready' : /\ ready'[i].op \notin {"connect", "timer"}
                                  /\ ready'[i].op = "read" => ready'[i].error # "none"
    <2> SUFFICES ASSUME NEW i \in DOMAIN ready'
                 PROVE  /\ ready'[i].op \notin {"connect", "timer"}
                        /\ ready'[i].op = "read" => ready'[i].error # "none"
      OBVIOUS
    <2>1. i \in Nat /\ i >= 1 /\ i + 1 \in DOMAIN ready /\ ready'[i] = ready[i + 1]
      BY <1>2
    <2>2. PICK k \in DOMAIN ready : k # 1 /\ ready'[i] = ready[k]
      BY <2>1
    <2> QED
      BY <2>2, <1>9
  <1>11. ~Queued("timer")' /\ ~Queued("connect")'
    BY ONLY <1>10 DEF Queued
  <1>12. /\ state_' = "WAITING" /\ socket_' = "unconnected" /\ inFlight' = {"connect"}
         /\ timer' = "idle"
    BY <1>1, <1>6
  <1>c. SingleReconnect'
    BY ONLY <1>11, <1>12 DEF SingleReconnect, Queued
  <1>e. Holds' /\ Stale'
    BY ONLY <1>10, <1>11, <1>12 DEF Holds, Stale, Queued
  <1> USE <1>1, <1>2, <1>3, <1>4, <1>6, <1>10 DEF IInv
  <1>a. TypeOK'
    BY DEF TypeOK, States
  <1>b. AlwaysDriven'
    BY DEF AlwaysDriven, Queued
  <1>d. SingleReader'
    BY DEF SingleReader, Queued
  <1>f. Order'
    BY DEF Order, Stale, Holds, SingleReconnect, Queued
  <1>g. NotCancelled'
    BY DEF NotCancelled
  <1> QED
    BY <1>a, <1>b, <1>c, <1>d, <1>e, <1>f, <1>g

(* Every handler, every completion and every step of send() preserves IInv, *)
(* do_close from whichever of the three handlers calls it.                 *)
LEMMA StepIInv ==
  ASSUME IInv, [Next]_vars
  PROVE  IInv'
  <1>1. CASE HandleConnect
    <2>1. ready # << >> /\ Head(ready).op = "connect" /\ UNCHANGED sender
      BY <1>1 DEF HandleConnect, Handling
    <2>2. CASE Established(Head(ready))
      BY <1>1, <2>2, EstablishedIInv
    <2>3. CASE DoClose
      BY <2>1, <2>3, AlreadyClosedIInv, CloseAndRetryIInv DEF DoClose
    <2> QED
      BY <1>1, <2>2, <2>3 DEF HandleConnect
  <1>2. CASE HandleRead
    <2>1. ready # << >> /\ Head(ready).op = "read" /\ UNCHANGED sender
      BY <1>2 DEF HandleRead, Handling
    <2>2. CASE Head(ready).error = "none"
      BY <1>2, <2>2, ReadAgainIInv
    <2>3. CASE DoClose
      BY <2>1, <2>3, AlreadyClosedIInv, CloseAndRetryIInv DEF DoClose
    <2> QED
      BY <1>2, <2>2, <2>3 DEF HandleRead
  <1>3. CASE HandleWrite
    <2>1. ready # << >> /\ Head(ready).op = "write" /\ UNCHANGED sender
      BY <1>3 DEF HandleWrite, Handling
    <2>2. CASE Head(ready).error = "none"
      BY <1>3, <2>2, WrittenIInv
    <2>3. CASE DoClose
      BY <2>1, <2>3, AlreadyClosedIInv, CloseAndRetryIInv DEF DoClose
    <2> QED
      BY <1>3, <2>2, <2>3 DEF HandleWrite
  <1>4. CASE ReconnectTimeout
    BY <1>4, ReconnectIInv
  <1>5. CASE ConnectDone \/ ReadDone \/ WriteDone \/ TimerExpires
    BY <1>5, ConnectDoneIInv, ReadDoneIInv, WriteDoneIInv, TimerExpiresIInv
  <1>6. CASE SendTest \/ SendWrite
    BY <1>6, SendIInv
  <1>7. CASE UNCHANGED vars
    BY <1>7 DEF vars, IInv, TypeOK, AlwaysDriven, SingleReconnect, SingleReader,
                Queued, Holds, Stale, Order, NotCancelled
  <1> QED
    BY <1>1, <1>2, <1>3, <1>4, <1>5, <1>6, <1>7 DEF Next, Handler, Reactor

(* IInv holds in every state the client reaches.                           *)
THEOREM Inductive == Spec => []IInv
  <1>1. Init => IInv
    BY InitIInv
  <1>2. IInv /\ [Next]_vars => IInv'
    BY StepIInv
  <1> QED
    BY <1>1, <1>2, PTL DEF Spec

-----------------------------------------------------------------------------
(* The theorems.                                                           *)

(* Every variable of the client keeps its type, whatever the outcome and   *)
(* the order of the operations of tcp_client.                              *)
THEOREM TypeCorrect == Spec => []TypeOK
  BY Inductive, PTL DEF IInv

(* The io_service of the client never runs out of work: in each state the  *)
(* operation that the state waits for is running or its handler is queued. *)
THEOREM Driven == Spec => []AlwaysDriven
  BY Inductive, PTL DEF IInv

(* do_close never arms a second reconnect, whichever handlers called it.   *)
THEOREM OneReconnect == Spec => []SingleReconnect
  BY Inductive, PTL DEF IInv

(* Two reads never share the buffer mem_.                                  *)
THEOREM OneReader == Spec => []SingleReader
  BY Inductive, PTL DEF IInv

(* The initial state and every step of the client are an initial state and *)
(* a step, or a stutter, of the abstract link: the "connection" topic says *)
(* TRUE exactly when handle_connect has succeeded and do_close has not run *)
(* since, and a connection is only ever gained by an attempt.              *)
THEOREM Refinement == Spec => L!Spec
  <1>1. Init => L!Init
    BY DEF Init, L!Init
  <1>2. IInv /\ [Next]_vars => [L!Next]_(L!vars)
    <2> SUFFICES ASSUME IInv, [Next]_vars
                 PROVE  [L!Next]_(L!vars)
      OBVIOUS
    <2> USE DEF L!Next, L!vars, L!Gained, L!Lost, L!Retry
    <2>1. CASE UNCHANGED <<state_, connection>>
      BY <2>1
    <2>2. CASE DoClose
      BY <2>2 DEF DoClose, AlreadyClosed, CloseAndRetry, IInv, TypeOK, States
    <2>3. CASE HandleConnect /\ Established(Head(ready))
      <3>1. state_ = "WAITING"
        <4>1. ready \in Seq(Completion) /\ ready # << >> /\ Head(ready).op = "connect"
              /\ socket_ # "closed" /\ state_ \in States
          BY <2>3 DEF IInv, TypeOK, HandleConnect, Handling, Established
        <4>2. ready[1] = Head(ready) /\ 1 \in DOMAIN ready
          BY <4>1, Taken
        <4> QED
          BY <4>1, <4>2 DEF IInv, Holds, Stale, Queued, States
      <3> QED
        BY <2>3, <3>1 DEF HandleConnect, DoClose, AlreadyClosed, CloseAndRetry
    <2>4. CASE ReconnectTimeout
      <3>1. state_ = "DISCONNECTED"
        <4>1. ready \in Seq(Completion) /\ ready # << >> /\ Head(ready).op = "timer"
          BY <2>4 DEF IInv, TypeOK, ReconnectTimeout, Handling
        <4>2. ready[1] = Head(ready) /\ 1 \in DOMAIN ready
          BY <4>1, Taken
        <4> QED
          BY <4>1, <4>2 DEF IInv, SingleReconnect, Queued
      <3> QED
        BY <2>4, <3>1 DEF ReconnectTimeout, Connect
    <2> QED
      BY <2>1, <2>2, <2>3, <2>4
      DEF vars, io, Next, Handler, Reactor, HandleConnect, HandleRead, HandleWrite,
          ConnectDone, ReadDone, WriteDone, TimerExpires, SendTest, SendWrite
  <1> QED
    BY <1>1, <1>2, Inductive, PTL DEF Spec, L!Spec
=============================================================================
