------------------------- MODULE SerialClientProofs -------------------------
(***************************************************************************)
(* The safety of the serial client for every number of outstanding writes  *)
(* and of waits that end early: type correctness, the invariants of        *)
(* SerialClient, and the refinement of the safety of Link.                 *)
(***************************************************************************)
EXTENDS SerialClient, TLAPS, SequenceTheorems, FiniteSetTheorems

(* Nobody is told of a connection that is not there.                       *)
Told == port_ # "open" => ~connection

(* Only an open port holds a read, and the reads that a close aborted are  *)
(* out of the queue when the port is opened again: the wait that ended is  *)
(* alone at the head, as it found the queue empty.                         *)
OutOfTheWay ==
  /\ port_ # "open" => reads = 0
  /\ port_ = "unopened" => ~Queued("read")
  /\ \A i \in DOMAIN ready :
       ready[i] = Done("timer", "none") => i = 1 /\ timer = "idle" /\ ~Queued("read")

(* At most one read, held by the reactor or queued.                        *)
OneRead ==
  /\ reads <= 1
  /\ reads = 1 => ~Queued("read")
  /\ \A i, j \in DOMAIN ready : ready[i].op = "read" /\ ready[j].op = "read" => i = j

IInv ==
  /\ TypeOK /\ AlwaysDriven /\ Told
  /\ Prompt => OutOfTheWay /\ OneRead /\ NoTeardown

-----------------------------------------------------------------------------
(* Queues of completions.                                                  *)

(* The completions that the module makes.                                  *)
LEMMA DoneIsCompletion ==
  ASSUME NEW o \in {"read", "write", "timer"}, NEW e \in {"none", "failed", "aborted"}
  PROVE  Done(o, e) \in Completion /\ Done(o, e).op = o /\ Done(o, e).error = e
BY DEF Done, Completion

(* The queue after one more completion.                                    *)
LEMMA Appended ==
  ASSUME NEW s \in Seq(Completion), NEW c \in Completion
  PROVE  /\ Append(s, c) \in Seq(Completion)
         /\ Len(s) \in Nat
         /\ DOMAIN s = 1 .. Len(s)
         /\ DOMAIN Append(s, c) = 1 .. Len(s) + 1
         /\ \A i \in DOMAIN s : Append(s, c)[i] = s[i]
         /\ Append(s, c)[Len(s) + 1] = c
BY AppendProperties

(* The queue without its head.                                             *)
LEMMA Taken ==
  ASSUME NEW s \in Seq(Completion), s # << >>
  PROVE  /\ Tail(s) \in Seq(Completion)
         /\ Len(s) \in Nat /\ Len(s) >= 1 /\ Len(Tail(s)) = Len(s) - 1
         /\ DOMAIN s = 1 .. Len(s) /\ DOMAIN Tail(s) = 1 .. Len(s) - 1
         /\ \A i \in DOMAIN Tail(s) : Tail(s)[i] = s[i + 1]
         /\ Head(s) = s[1] /\ s[1] \in Completion
<1>1. Len(s) \in Nat /\ DOMAIN s = 1 .. Len(s) /\ Len(s) # 0
  BY EmptySeq, LenProperties
<1>2. /\ Tail(s) \in Seq(Completion) /\ Len(Tail(s)) = Len(s) - 1
      /\ \A i \in 1 .. Len(Tail(s)) : Tail(s)[i] = s[i + 1]
  BY HeadTailProperties
<1>3. Head(s) = s[1] /\ s[1] \in Completion
  BY <1>1, ElementOfSeq, HeadTailProperties
<1> QED BY <1>1, <1>2, <1>3, LenProperties

(* A completion several times.                                             *)
LEMMA TimesSeq ==
  ASSUME NEW n \in Nat, NEW c \in Completion
  PROVE  /\ Times(n, c) \in Seq(Completion) /\ Len(Times(n, c)) = n
         /\ \A i \in 1 .. n : Times(n, c)[i] = c
BY DEF Times

(* Where the elements of a concatenation come from.                        *)
LEMMA Concatenated ==
  ASSUME NEW s \in Seq(Completion), NEW t \in Seq(Completion)
  PROVE  /\ s \o t \in Seq(Completion) /\ Len(s) \in Nat /\ Len(t) \in Nat
         /\ Len(s \o t) = Len(s) + Len(t)
         /\ DOMAIN (s \o t) = 1 .. Len(s) + Len(t)
         /\ \A i \in 1 .. Len(s) : (s \o t)[i] = s[i]
         /\ \A i \in Len(s) + 1 .. Len(s) + Len(t) : (s \o t)[i] = t[i - Len(s)]
BY ConcatProperties, LenProperties

(* Where the elements come from when do_close joins four sequences.       *)
MadeOf(x, q, r, w, t) ==
  \A i \in DOMAIN x :
    \/ i \in 1 .. Len(q) /\ x[i] = q[i]
    \/ \E k \in 1 .. Len(r) : i = Len(q) + k /\ x[i] = r[k]
    \/ \E k \in 1 .. Len(w) : x[i] = w[k]
    \/ \E k \in 1 .. Len(t) : x[i] = t[k]

(* The queue of do_close is a queue again, made of those four.             *)
LEMMA Joined ==
  ASSUME NEW q \in Seq(Completion), NEW r \in Seq(Completion),
         NEW w \in Seq(Completion), NEW t \in Seq(Completion),
         NEW x, x = (q \o (r \o w)) \o t
  PROVE  x \in Seq(Completion) /\ MadeOf(x, q, r, w, t)
<1> DEFINE u == r \o w
           v == q \o u
<1>1. /\ u \in Seq(Completion) /\ Len(r) \in Nat /\ Len(w) \in Nat
      /\ Len(u) = Len(r) + Len(w)
      /\ \A i \in 1 .. Len(r) : u[i] = r[i]
      /\ \A i \in Len(r) + 1 .. Len(r) + Len(w) : u[i] = w[i - Len(r)]
  BY Concatenated
<1> HIDE DEF u
<1>2. /\ v \in Seq(Completion) /\ Len(q) \in Nat /\ Len(u) \in Nat
      /\ Len(v) = Len(q) + Len(u)
      /\ \A i \in 1 .. Len(q) : v[i] = q[i]
      /\ \A i \in Len(q) + 1 .. Len(q) + Len(u) : v[i] = u[i - Len(q)]
  BY <1>1, Concatenated
<1>x. x = v \o t
  BY DEF u
<1> HIDE DEF v
<1>3. /\ x \in Seq(Completion) /\ Len(v) \in Nat /\ Len(t) \in Nat
      /\ DOMAIN x = 1 .. Len(v) + Len(t)
      /\ \A i \in 1 .. Len(v) : x[i] = v[i]
      /\ \A i \in Len(v) + 1 .. Len(v) + Len(t) : x[i] = t[i - Len(v)]
  <2>1. v \in Seq(Completion) /\ t \in Seq(Completion)
    BY <1>2
  <2>2. /\ v \o t \in Seq(Completion) /\ Len(v) \in Nat /\ Len(t) \in Nat
        /\ DOMAIN (v \o t) = 1 .. Len(v) + Len(t)
        /\ \A i \in 1 .. Len(v) : (v \o t)[i] = v[i]
        /\ \A i \in Len(v) + 1 .. Len(v) + Len(t) : (v \o t)[i] = t[i - Len(v)]
    BY ONLY <2>1, Concatenated
  <2> QED BY ONLY <1>x, <2>2
<1>4. ASSUME NEW i \in DOMAIN x
      PROVE  \/ i \in 1 .. Len(q) /\ x[i] = q[i]
             \/ \E k \in 1 .. Len(r) : i = Len(q) + k /\ x[i] = r[k]
             \/ \E k \in 1 .. Len(w) : x[i] = w[k]
             \/ \E k \in 1 .. Len(t) : x[i] = t[k]
  <2>1. CASE i \in 1 .. Len(q)
    <3>1. i \in 1 .. Len(v)
      BY ONLY <2>1, <1>1, <1>2
    <3> QED BY ONLY <2>1, <3>1, <1>2, <1>3
  <2>2. CASE i \in Len(q) + 1 .. Len(q) + Len(r)
    <3>1. i \in 1 .. Len(v) /\ i \in Len(q) + 1 .. Len(q) + Len(u)
      BY ONLY <2>2, <1>1, <1>2
    <3>2. x[i] = u[i - Len(q)]
      BY ONLY <3>1, <1>2, <1>3
    <3>3. i - Len(q) \in 1 .. Len(r) /\ i = Len(q) + (i - Len(q))
      BY ONLY <2>2, <1>1, <1>2
    <3> QED BY ONLY <3>2, <3>3, <1>1
  <2>3. CASE i \in Len(q) + Len(r) + 1 .. Len(v)
    <3>1. i \in 1 .. Len(v) /\ i \in Len(q) + 1 .. Len(q) + Len(u)
      BY ONLY <2>3, <1>1, <1>2
    <3>2. x[i] = u[i - Len(q)]
      BY ONLY <3>1, <1>2, <1>3
    <3>3. /\ i - Len(q) \in Len(r) + 1 .. Len(r) + Len(w)
          /\ (i - Len(q)) - Len(r) \in 1 .. Len(w)
      BY ONLY <2>3, <1>1, <1>2
    <3>4. u[i - Len(q)] = w[(i - Len(q)) - Len(r)]
      BY ONLY <3>3, <1>1
    <3> QED BY ONLY <3>2, <3>3, <3>4
  <2>4. CASE i \in Len(v) + 1 .. Len(v) + Len(t)
    <3>1. i - Len(v) \in 1 .. Len(t)
      BY ONLY <2>4, <1>3
    <3> QED BY ONLY <2>4, <3>1, <1>3
  <2>5. i \in 1 .. Len(v) + Len(t)
    BY <1>3
  <2> QED BY ONLY <2>1, <2>2, <2>3, <2>4, <2>5, <1>1, <1>2, <1>3
<1> QED BY <1>3, <1>4 DEF MadeOf

(* What do_close leaves in the queue: the rest, then the aborted reads,    *)
(* writes and wait.                                                        *)
LEMMA ClosedQueue ==
  ASSUME TypeOK, ready # << >>, DoClose
  PROVE  /\ ready' \in Seq(Completion)
         /\ \A i \in DOMAIN ready' :
              \/ i \in 1 .. Len(ready) - 1 /\ ready'[i] = ready[i + 1]
              \/ \E k \in 1 .. reads :
                   i = Len(ready) - 1 + k /\ ready'[i] = Done("read", "aborted")
              \/ ready'[i] \in {Done("write", "aborted"), Done("timer", "aborted")}
<1> DEFINE R == Times(reads, Done("read", "aborted"))
           W == Times(writes, Done("write", "aborted"))
           n == IF timer = "armed" THEN 1 ELSE 0
           T == Times(n, Done("timer", "aborted"))
           Q == Tail(ready)
<1>1. ready' = (Q \o (R \o W)) \o T
  BY DEF DoClose, Aborted
<1>2. /\ R \in Seq(Completion) /\ Len(R) = reads
      /\ \A i \in 1 .. reads : R[i] = Done("read", "aborted")
  BY TimesSeq, DoneIsCompletion DEF TypeOK
<1>3. /\ W \in Seq(Completion) /\ Len(W) = writes
      /\ \A i \in 1 .. writes : W[i] = Done("write", "aborted")
  BY TimesSeq, DoneIsCompletion DEF TypeOK
<1>4. /\ T \in Seq(Completion) /\ Len(T) = n
      /\ \A i \in 1 .. n : T[i] = Done("timer", "aborted")
  BY TimesSeq, DoneIsCompletion
<1>5. /\ Q \in Seq(Completion) /\ Len(Q) = Len(ready) - 1
      /\ \A i \in 1 .. Len(ready) - 1 : Q[i] = ready[i + 1]
  BY Taken DEF TypeOK
<1> HIDE DEF R, W, T, Q, n
<1>6. /\ ready' \in Seq(Completion)
      /\ \A i \in DOMAIN ready' :
           \/ i \in 1 .. Len(Q) /\ ready'[i] = Q[i]
           \/ \E k \in 1 .. Len(R) : i = Len(Q) + k /\ ready'[i] = R[k]
           \/ \E k \in 1 .. Len(W) : ready'[i] = W[k]
           \/ \E k \in 1 .. Len(T) : ready'[i] = T[k]
  <2>1. Q \in Seq(Completion)
    BY <1>5
  <2>2. R \in Seq(Completion)
    BY <1>2
  <2>3. W \in Seq(Completion)
    BY <1>3
  <2>4. T \in Seq(Completion)
    BY <1>4
  <2>5. ready' \in Seq(Completion) /\ MadeOf(ready', Q, R, W, T)
    BY ONLY <1>1, <2>1, <2>2, <2>3, <2>4, Joined
  <2> QED BY ONLY <2>5 DEF MadeOf
<1> QED BY ONLY <1>2, <1>3, <1>4, <1>5, <1>6

-----------------------------------------------------------------------------
(* The invariant, action by action.                                        *)

(* What a handler does with the completion at the head.                    *)
LEMMA HeadOfQueue ==
  ASSUME TypeOK, ready # << >>
  PROVE  /\ 1 \in DOMAIN ready /\ Head(ready) = ready[1] /\ ready[1] \in Completion
         /\ Tail(ready) \in Seq(Completion)
         /\ \A i \in DOMAIN Tail(ready) :
              i + 1 \in DOMAIN ready /\ i \in Nat /\ Tail(ready)[i] = ready[i + 1]
         /\ \A i \in DOMAIN ready : i = 1 \/ (i - 1 \in DOMAIN Tail(ready)
                                              /\ Tail(ready)[i - 1] = ready[i])
BY Taken DEF TypeOK

(* do_close leaves a client that waits for the reconnect.                  *)
LEMMA CloseStep ==
  ASSUME IInv, ready # << >>, DoClose
  PROVE  IInv'
<1> USE DEF IInv
<1>q. /\ ready' \in Seq(Completion)
      /\ \A i \in DOMAIN ready' :
           \/ i \in 1 .. Len(ready) - 1 /\ ready'[i] = ready[i + 1]
           \/ \E k \in 1 .. reads :
                i = Len(ready) - 1 + k /\ ready'[i] = Done("read", "aborted")
           \/ ready'[i] \in {Done("write", "aborted"), Done("timer", "aborted")}
  BY ClosedQueue
<1>d. Len(ready) \in Nat /\ DOMAIN ready = 1 .. Len(ready)
  BY Taken DEF TypeOK
<1>1. TypeOK'
  BY <1>q DEF DoClose, TypeOK
<1>2. AlwaysDriven' /\ Told'
  BY DEF DoClose, AlwaysDriven, Told
<1>3. ASSUME Prompt'
      PROVE  OutOfTheWay' /\ OneRead' /\ NoTeardown'
  <2>p. Prompt
    BY <1>3 DEF DoClose, Prompt
  <2>1. NoTeardown'
    BY DEF DoClose, NoTeardown
  <2>2. \A i \in DOMAIN ready' : ready'[i] # Done("timer", "none")
    <3> SUFFICES ASSUME NEW i \in DOMAIN ready', ready'[i] = Done("timer", "none") PROVE FALSE
      OBVIOUS
    <3>1. i \in 1 .. Len(ready) - 1 /\ ready'[i] = ready[i + 1]
      BY <1>q DEF Done
    <3>2. i + 1 \in DOMAIN ready /\ i + 1 # 1
      BY <3>1, <1>d
    <3> QED BY <2>p, <3>1, <3>2 DEF OutOfTheWay
  <2>3. OutOfTheWay'
    BY <2>2 DEF DoClose, OutOfTheWay
  <2>4. \A i, j \in DOMAIN ready' : ready'[i].op = "read" /\ ready'[j].op = "read" => i = j
    <3> SUFFICES ASSUME NEW i \in DOMAIN ready', NEW j \in DOMAIN ready',
                        ready'[i].op = "read", ready'[j].op = "read"
                 PROVE  i = j
      OBVIOUS
    <3>o. /\ Done("write", "aborted").op # "read" /\ Done("timer", "aborted").op # "read"
      BY DEF Done
    <3>r. reads \in Nat /\ reads <= 1
      BY <2>p DEF TypeOK, OneRead
    <3>i. \/ i \in 1 .. Len(ready) - 1 /\ ready[i + 1].op = "read"
          \/ reads = 1 /\ i = Len(ready)
      BY <1>q, <1>d, <3>o, <3>r
    <3>j. \/ j \in 1 .. Len(ready) - 1 /\ ready[j + 1].op = "read"
          \/ reads = 1 /\ j = Len(ready)
      BY <1>q, <1>d, <3>o, <3>r
    <3>1. CASE reads = 1
      <4>1. \A k \in DOMAIN ready : ready[k].op # "read"
        BY <2>p, <3>1 DEF OneRead, Queued
      <4> QED BY <4>1, <3>i, <3>j, <1>d
    <3>2. CASE reads # 1
      <4>1. i + 1 \in DOMAIN ready /\ j + 1 \in DOMAIN ready /\ i + 1 = j + 1
        BY <2>p, <3>2, <3>i, <3>j, <1>d DEF OneRead
      <4>2. i \in Int /\ j \in Int
        BY <3>2, <3>i, <3>j
      <4> QED BY <4>1, <4>2
    <3> QED BY <3>1, <3>2
  <2>5. OneRead'
    BY <2>4 DEF DoClose, OneRead
  <2> QED BY <2>1, <2>3, <2>5
<1> QED BY <1>1, <1>2, <1>3

(* A completion leaves the reactor for the queue.                          *)
LEMMA ReadDoneStep ==
  ASSUME IInv, ~crashed, ReadDone
  PROVE  IInv'
<1> USE DEF IInv
<1>1. PICK e \in {"none", "failed"} : ready' = Append(ready, Done("read", e))
  BY DEF ReadDone
<1>2. /\ ready' \in Seq(Completion)
      /\ Len(ready) \in Nat /\ DOMAIN ready = 1 .. Len(ready)
      /\ DOMAIN ready' = 1 .. Len(ready) + 1
      /\ \A i \in DOMAIN ready : ready'[i] = ready[i]
      /\ ready'[Len(ready) + 1] = Done("read", e)
  BY <1>1, Appended, DoneIsCompletion DEF TypeOK
<1>3. Done("read", e).op = "read" /\ Done("read", e) # Done("timer", "none")
  BY DEF Done
<1>4. TypeOK'
  BY <1>2 DEF ReadDone, TypeOK
<1>5. AlwaysDriven' /\ Told'
  BY <1>2, <1>3 DEF ReadDone, AlwaysDriven, Told, Queued
<1>6. ASSUME Prompt'
      PROVE  OutOfTheWay' /\ OneRead' /\ NoTeardown'
  <2>1. Prompt /\ port_ = "open" /\ reads = 1
    BY <1>6 DEF ReadDone, Prompt, OutOfTheWay, OneRead, TypeOK
  <2>2. NoTeardown'
    BY <1>2, <1>3, <2>1 DEF ReadDone, NoTeardown
  <2>3. OneRead'
    BY <1>2, <1>3, <2>1 DEF ReadDone, OneRead, Queued
  <2>4. OutOfTheWay'
    BY <1>2, <1>3, <2>1 DEF ReadDone, OutOfTheWay, NoTeardown
  <2> QED BY <2>2, <2>3, <2>4
<1> QED BY <1>4, <1>5, <1>6

(* A write that completes, or that is refused at once, disturbs nothing.   *)
LEMMA WriteQueued ==
  ASSUME IInv, NEW e \in {"none", "failed"}, ready' = Append(ready, Done("write", e)),
         writes' \in Nat, sender' \in {"starting", "idle", "writing", "dangling"},
         UNCHANGED <<port_, reads, timer, connection, crashed, slips>>
  PROVE  IInv'
<1> USE DEF IInv
<1>1. /\ ready' \in Seq(Completion)
      /\ Len(ready) \in Nat /\ DOMAIN ready = 1 .. Len(ready)
      /\ DOMAIN ready' = 1 .. Len(ready) + 1
      /\ \A i \in DOMAIN ready : ready'[i] = ready[i]
      /\ ready'[Len(ready) + 1] = Done("write", e)
  BY Appended, DoneIsCompletion DEF TypeOK
<1>2. Done("write", e).op = "write" /\ Done("write", e) # Done("timer", "none")
  BY DEF Done
<1>3. TypeOK'
  BY <1>1 DEF TypeOK
<1>4. AlwaysDriven' /\ Told'
  BY <1>1, <1>2 DEF AlwaysDriven, Told, Queued
<1>5. Prompt' => OutOfTheWay'
  BY <1>1, <1>2 DEF Prompt, OutOfTheWay, Queued
<1>6. Prompt' => OneRead'
  BY <1>1, <1>2 DEF Prompt, OneRead, Queued
<1>7. Prompt' => NoTeardown'
  BY <1>1, <1>2 DEF Prompt, NoTeardown
<1> QED BY <1>3, <1>4, <1>5, <1>6, <1>7

(* Neither do the pointer in send() and the end of the process.            *)
LEMMA QueueKept ==
  ASSUME IInv, UNCHANGED <<port_, reads, timer, ready, connection, slips>>,
         writes' \in Nat, sender' \in {"starting", "idle", "writing", "dangling"},
         crashed' \in BOOLEAN, crashed => crashed'
  PROVE  IInv'
<1>1. TypeOK'
  BY DEF IInv, TypeOK
<1>2. AlwaysDriven' /\ Told'
  BY DEF IInv, AlwaysDriven, Told, Queued
<1>3. Prompt' => OutOfTheWay' /\ OneRead' /\ NoTeardown'
  BY DEF IInv, Prompt, OutOfTheWay, OneRead, NoTeardown, Queued
<1> QED BY <1>1, <1>2, <1>3 DEF IInv

(* The wait ends.  If it found the queue empty it is now alone in it.      *)
LEMMA TimerStep ==
  ASSUME IInv, ~crashed, TimerExpires
  PROVE  IInv'
<1> USE DEF IInv
<1>1. /\ ready' \in Seq(Completion)
      /\ Len(ready) \in Nat /\ DOMAIN ready = 1 .. Len(ready)
      /\ DOMAIN ready' = 1 .. Len(ready) + 1
      /\ \A i \in DOMAIN ready : ready'[i] = ready[i]
      /\ ready'[Len(ready) + 1] = Done("timer", "none")
  BY Appended, DoneIsCompletion DEF TypeOK, TimerExpires
<1>2. Done("timer", "none").op = "timer"
  BY DEF Done
<1>3. TypeOK'
  BY <1>1 DEF TypeOK, TimerExpires
<1>4. AlwaysDriven'
  <2>1. Queued("read") => Queued("read")'
    BY <1>1 DEF Queued
  <2>2. Len(ready) + 1 \in DOMAIN ready'
    BY <1>1
  <2> QED BY <1>1, <2>1, <2>2 DEF TimerExpires, AlwaysDriven
<1>5. Told'
  BY DEF TimerExpires, Told
<1>6. ASSUME Prompt'
      PROVE  OutOfTheWay' /\ OneRead' /\ NoTeardown'
  <2>1. Prompt /\ ready = << >> /\ timer = "armed" /\ timer' = "idle"
    BY <1>6 DEF TimerExpires, Prompt, TypeOK
  <2>2. port_ = "none" /\ reads = 0
    BY <2>1 DEF NoTeardown, OutOfTheWay, TypeOK
  <2>3. DOMAIN ready' = {1} /\ ready'[1] = Done("timer", "none")
    <3>1. Len(ready) = 0
      BY <2>1
    <3> QED BY <3>1, <1>1
  <2>4. ~Queued("read")'
    BY <2>3, <1>2 DEF Queued
  <2> QED BY <2>1, <2>2, <2>3, <2>4 DEF TimerExpires, OutOfTheWay, OneRead, NoTeardown
<1> QED BY <1>3, <1>4, <1>5, <1>6

(* A handler that goes on: data is followed by the next read.              *)
LEMMA ProceedStep ==
  ASSUME IInv, ready # << >>, Head(ready) # Done("timer", "none"), Proceed,
         \/ Head(ready).op # "read" /\ UNCHANGED reads
         \/ Head(ready).op = "read" /\ reads' = reads + 1 /\ port_ = "open"
  PROVE  IInv'
<1> USE DEF IInv, Proceed
<1>1. /\ 1 \in DOMAIN ready /\ Head(ready) = ready[1]
      /\ ready' \in Seq(Completion)
      /\ \A i \in DOMAIN ready' :
           i + 1 \in DOMAIN ready /\ i \in Nat \ {0} /\ ready'[i] = ready[i + 1]
      /\ \A i \in DOMAIN ready : i = 1 \/ (i - 1 \in DOMAIN ready'
                                           /\ ready'[i - 1] = ready[i])
  BY HeadOfQueue
<1>2. TypeOK'
  BY <1>1 DEF TypeOK
<1>3. Told'
  BY DEF Told
<1>4. AlwaysDriven'
  <2>1. reads \in Nat
    BY DEF TypeOK
  <2>2. Queued("read") /\ Head(ready).op # "read" => Queued("read")'
    BY <1>1 DEF Queued
  <2>3. (\E i \in DOMAIN ready : ready[i] = Done("timer", "none"))
          => \E i \in DOMAIN ready' : ready'[i] = Done("timer", "none")
    BY <1>1
  <2> QED BY <2>1, <2>2, <2>3 DEF AlwaysDriven
<1>5. ASSUME Prompt'
      PROVE  OutOfTheWay' /\ OneRead' /\ NoTeardown'
  <2>1. Prompt /\ reads \in Nat
    BY <1>5 DEF Prompt, TypeOK
  <2>2. \A i \in DOMAIN ready' : ready'[i] # Done("timer", "none")
    BY <1>1, <2>1 DEF OutOfTheWay
  <2>3. NoTeardown'
    BY <2>1, <2>2 DEF NoTeardown
  <2>4. Queued("read")' => Queued("read")
    BY <1>1 DEF Queued
  <2>5. Head(ready).op = "read" => ~Queued("read")' /\ reads = 0
    BY <1>1, <2>1 DEF OneRead, Queued
  <2>6. OutOfTheWay'
    BY <2>1, <2>2, <2>4 DEF OutOfTheWay
  <2>7. \A i, j \in DOMAIN ready' : ready'[i].op = "read" /\ ready'[j].op = "read" => i = j
    BY <1>1, <2>1 DEF OneRead
  <2>8. OneRead'
    BY <2>1, <2>4, <2>5, <2>7 DEF OneRead
  <2> QED BY <2>3, <2>6, <2>8
<1> QED BY <1>2, <1>3, <1>4, <1>5

(* The reconnect: the queue behind it is clean.                            *)
LEMMA ReconnectStep ==
  ASSUME IInv, ~crashed, ready # << >>, Head(ready) = Done("timer", "none"),
         port_ = "none", port_' = "unopened", ready' = Tail(ready),
         UNCHANGED <<reads, writes, timer, sender, connection, crashed, slips>>
  PROVE  IInv'
<1> USE DEF IInv
<1>1. /\ 1 \in DOMAIN ready /\ Head(ready) = ready[1]
      /\ ready' \in Seq(Completion)
      /\ \A i \in DOMAIN ready' :
           i + 1 \in DOMAIN ready /\ i \in Nat \ {0} /\ ready'[i] = ready[i + 1]
  BY HeadOfQueue
<1>2. TypeOK'
  BY <1>1 DEF TypeOK
<1>3. Told' /\ AlwaysDriven'
  BY DEF Told, AlwaysDriven
<1>4. ASSUME Prompt'
      PROVE  OutOfTheWay' /\ OneRead' /\ NoTeardown'
  <2>1. Prompt
    BY <1>4 DEF Prompt
  <2>2. timer = "idle" /\ ~Queued("read") /\ reads = 0
    BY <1>1, <2>1 DEF OutOfTheWay
  <2>3. \A i \in DOMAIN ready' : ready'[i] # Done("timer", "none")
    BY <1>1, <2>1 DEF OutOfTheWay
  <2>4. ~Queued("read")'
    BY <1>1, <2>2 DEF Queued
  <2> QED BY <2>1, <2>2, <2>3, <2>4 DEF OutOfTheWay, OneRead, NoTeardown, Queued
<1> QED BY <1>2, <1>3, <1>4

(* connect() opens the port and starts the only read, or ends the process.*)
LEMMA ConnectStep ==
  ASSUME IInv, ~crashed, Connect
  PROVE  IInv'
<1> USE DEF IInv
<1>1. CASE Opened
  <2> USE <1>1 DEF Opened, Connect
  <2>1. TypeOK'
    BY DEF TypeOK
  <2>2. Told' /\ AlwaysDriven'
    BY DEF Told, AlwaysDriven, TypeOK
  <2>3. Prompt' => OutOfTheWay' /\ OneRead' /\ NoTeardown'
    BY DEF Prompt, OutOfTheWay, OneRead, NoTeardown, Queued
  <2> QED BY <2>1, <2>2, <2>3
<1>2. CASE OpenFailed
  <2> USE <1>2 DEF OpenFailed, Connect
  <2>1. TypeOK'
    BY DEF TypeOK
  <2>2. Told' /\ AlwaysDriven'
    BY DEF Told, AlwaysDriven
  <2>3. Prompt' => OutOfTheWay' /\ OneRead' /\ NoTeardown'
    BY DEF Prompt, OutOfTheWay, OneRead, NoTeardown, Queued
  <2> QED BY <2>1, <2>2, <2>3
<1> QED BY <1>1, <1>2 DEF Connect

-----------------------------------------------------------------------------
(* Every step keeps the invariant.                                         *)
LEMMA Step == IInv /\ [Next]_vars => IInv'
<1> SUFFICES ASSUME IInv, [Next]_vars PROVE IInv'
  OBVIOUS
<1>t. TypeOK
  BY DEF IInv
<1>c. ready # << >> => Head(ready) = Done(Head(ready).op, Head(ready).error)
  BY <1>t, HeadOfQueue DEF Done, Completion
<1>k. ~crashed /\ Crash => IInv'
  BY <1>t, QueueKept DEF Crash, TypeOK
<1>1. ASSUME ~crashed, OnReceive PROVE IInv'
  BY <1>1, <1>k, CloseStep, ProceedStep DEF OnReceive, Handling, Done
<1>2. ASSUME ~crashed, HandleWrite PROVE IInv'
  BY <1>2, CloseStep, ProceedStep DEF HandleWrite, Handling, Done
<1>3. ASSUME ~crashed, ReconnectTimeout PROVE IInv'
  <2>1. ready # << >> /\ Head(ready).op = "timer"
    BY <1>3 DEF ReconnectTimeout, Handling
  <2>2. CASE Head(ready).error = "aborted" /\ UNCHANGED reads /\ Proceed
    BY <2>1, <2>2, ProceedStep DEF Done
  <2>3. CASE Head(ready).error = "none" /\ DoClose
    BY <2>1, <2>3, CloseStep
  <2>4. CASE Head(ready).error = "none" /\ ~DoClose
    BY <1>3, <1>c, <2>1, <2>4, ReconnectStep DEF ReconnectTimeout, Done
  <2> QED BY <1>3, <2>2, <2>3, <2>4 DEF ReconnectTimeout
<1>4. ASSUME ~crashed, WriteDone PROVE IInv'
  BY <1>4, <1>t, WriteQueued DEF WriteDone, TypeOK
<1>5. ASSUME ~crashed, SendDeref PROVE IInv'
  BY <1>5, <1>t, <1>k, QueueKept DEF SendDeref, TypeOK
<1>6. ASSUME ~crashed, SendWrite PROVE IInv'
  <2>1. CASE Fails
    BY <1>6, <1>t, <1>k, <2>1, WriteQueued DEF SendWrite, Fails, TypeOK
  <2>2. CASE ~Fails
    BY <1>6, <1>t, <1>k, <2>2, QueueKept DEF SendWrite, TypeOK
  <2> QED BY <2>1, <2>2
<1>7. CASE UNCHANGED vars
  BY <1>7, <1>t, QueueKept DEF vars, TypeOK
<1> QED
  BY <1>1, <1>2, <1>3, <1>4, <1>5, <1>6, <1>7, ReadDoneStep, TimerStep, ConnectStep
  DEF Next, IoThread, Reactor, RosThread

(* The constructor, in connect(), with nothing pending.                    *)
LEMMA Start == Init => IInv
<1> SUFFICES ASSUME Init PROVE IInv
  OBVIOUS
<1>0. ready \in Seq(Completion)
  BY DEF Init
<1>1. TypeOK
  BY <1>0 DEF Init, TypeOK
<1>2. DOMAIN ready = {}
  BY DEF Init
<1> QED BY <1>1, <1>2 DEF Init, IInv, AlwaysDriven, Told, OutOfTheWay, OneRead, NoTeardown, Queued

(* The inductive invariant of the serial client, from which the other      *)
(* theorems follow.                                                        *)
THEOREM Inductive == Spec => []IInv
BY Start, Step, PTL DEF Spec

(* The variables keep their types, for every bound.                        *)
THEOREM TypeCorrect == Spec => []TypeOK
<1>1. IInv => TypeOK
  BY DEF IInv
<1> QED BY <1>1, Inductive, PTL

(* A process that lives always holds the work that its port needs.         *)
THEOREM Driven == Spec => []AlwaysDriven
<1>1. IInv => AlwaysDriven
  BY DEF IInv
<1> QED BY <1>1, Inductive, PTL

(* Two reads never share mem_, as long as no reconnect overtakes the       *)
(* handlers of the operations that the close aborted.                      *)
THEOREM OneReader == Spec => []SingleReader
<1>1. IInv => SingleReader
  <2> SUFFICES ASSUME IInv, Prompt
               PROVE  reads + Cardinality({i \in DOMAIN ready : ready[i].op = "read"}) <= 1
    BY DEF SingleReader
  <2> DEFINE R == {i \in DOMAIN ready : ready[i].op = "read"}
  <2>1. reads \in Nat /\ OneRead
    BY DEF IInv, TypeOK
  <2>2. CASE R = {}
    BY <2>1, <2>2, FS_EmptySet DEF OneRead
  <2>3. CASE R # {}
    <3>1. PICK i \in R : TRUE
      BY <2>3
    <3>2. R = {i}
      BY <2>1, <3>1 DEF OneRead
    <3>3. Cardinality(R) = 1
      BY <3>2, FS_Singleton
    <3>4. reads = 0
      BY <2>1, <3>1 DEF OneRead, Queued
    <3> QED BY <3>3, <3>4
  <2> QED BY <2>2, <2>3
<1> QED BY <1>1, Inductive, PTL

(* Nor does a wait outlive the reconnect to tear the new connection down.  *)
THEOREM Lasting == Spec => []NoTeardown
<1>1. IInv => NoTeardown
  BY DEF IInv, NoTeardown
<1> QED BY <1>1, Inductive, PTL

(* Subscribers of "connection" are told the truth, until the process ends. *)
THEOREM Refinement == Spec => ImplementsLink
<1>1. Init => L!Init
  BY DEF Init, L!Init
<1>2. IInv /\ [Next]_vars => [L!Next]_(L!vars)
  <2> SUFFICES ASSUME IInv, [Next]_vars PROVE [L!Next]_(L!vars)
    OBVIOUS
  <2> USE DEF L!Next, L!vars, L!Gained, L!Lost, L!Retry
  <2>1. CASE UNCHANGED <<port_, connection>>
    BY <2>1
  <2>2. CASE DoClose /\ port_ # "unopened"
    BY <2>2 DEF DoClose, IInv, TypeOK, Told
  <2>3. CASE Connect
    BY <2>3 DEF Connect, Opened, OpenFailed
  <2>4. CASE port_ = "none" /\ port_' = "unopened" /\ UNCHANGED connection
    BY <2>4
  <2> QED
    BY <2>1, <2>2, <2>3, <2>4
    DEF Next, IoThread, Reactor, RosThread, ReadDone, WriteDone, TimerExpires, OnReceive,
        HandleWrite, ReconnectTimeout, Handling, Proceed, Crash, SendDeref, SendWrite, vars
<1> QED BY <1>1, <1>2, Inductive, PTL DEF Spec, ImplementsLink, L!Spec
=============================================================================
