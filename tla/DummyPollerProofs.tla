-------------------------- MODULE DummyPollerProofs --------------------------
(* Proofs about DummyPoller, for every bound on the faults. *)
EXTENDS DummyPoller, TLAPS

(* What the threads do to their counters.                                  *)
LEMMA CountersType ==
  ASSUME TypeOK, NEW t \in Threads
  PROVE  /\ Enter(t) => at' \in [Threads -> [{"event", "wait"} -> Nat]]
         /\ at[t].event > 0 /\ Leave(t) => at' \in [Threads -> [{"event", "wait"} -> Nat]]
         /\ at[t].event > 0 /\ Publish(t) => at' \in [Threads -> [{"event", "wait"} -> Nat]]
BY DEF TypeOK, Enter, Leave, Publish

(* Whatever fault is met, the history of faults counts it.                 *)
LEMMA MeetType == TypeOK /\ (\E f \in Faults : Meet(f)) => met' \in [Faults -> Nat]
BY DEF TypeOK, Meet, Faults

(* A handler to a state keeps the types; an event in the place of a state  *)
(* would not.                                                              *)
LEMMA HandleType ==
  ASSUME TypeOK, NEW t \in Threads,
         NEW from, NEW to \in States, NEW r \in Requests, Handle(t, from, to, r)
  PROVE  TypeOK'
<1>1. at' \in [Threads -> [{"event", "wait"} -> Nat]]
  BY CountersType DEF Handle
<1>2. timers' \in [{"answer", "event"} -> Nat] /\ asked' \in [Requests -> Nat]
  BY DEF TypeOK, Handle
<1> QED
  BY <1>1, <1>2 DEF TypeOK, Handle, Events

(* The two things that a message with a status does to the client.         *)
LEMMA AcceptType ==
  ASSUME TypeOK, NEW t \in Topics, Accept(t)
  PROVE  /\ state' \in States /\ event' \in Events /\ waiting_answer' \in BOOLEAN
         /\ timers' \in [{"answer", "event"} -> Nat]
         /\ at' \in [Threads -> [{"event", "wait"} -> Nat]]
BY CountersType DEF TypeOK, Accept, Events, Threads

(* The other, which changes the flag alone.                                *)
LEMMA RefuseType ==
  ASSUME TypeOK, NEW t \in Topics, Refuse(t)
  PROVE  /\ state' \in States /\ event' \in Events /\ waiting_answer' \in BOOLEAN
         /\ timers' \in [{"answer", "event"} -> Nat]
         /\ at' \in [Threads -> [{"event", "wait"} -> Nat]]
BY DEF TypeOK, Refuse

(* Every step keeps the types, ...                                         *)
LEMMA TypeStep == TypeOK /\ [Next]_vars => TypeOK'
<1> SUFFICES ASSUME TypeOK, [Next]_vars PROVE TypeOK'
  OBVIOUS
<1>t. \A r \in Requests : TopicOf(r) \in Topics
  BY DEF TopicOf, Topics
<1>1. ASSUME NEW t \in Threads, HandleEvent(t) PROVE TypeOK'
  <2>1. CASE HandleIdle(t)
    BY <2>1, HandleType DEF HandleIdle, States, Requests
  <2>2. CASE HandleProtocol(t)
    BY <2>2, HandleType DEF HandleProtocol, States, Requests
  <2>3. CASE HandleSeqini(t)
    BY <2>3, HandleType DEF HandleSeqini, States, Requests
  <2>4. CASE HandleSeqrun(t)
    <3>1. at' \in [Threads -> [{"event", "wait"} -> Nat]]
      BY <2>4, CountersType DEF HandleSeqrun
    <3> QED BY <2>4, <3>1 DEF HandleSeqrun, TypeOK
  <2> QED BY <1>1, <2>1, <2>2, <2>3, <2>4 DEF HandleEvent
<1>2. ASSUME NEW t \in Threads, WaitAnswer(t) PROVE TypeOK'
  <2>1. at' \in [Threads -> [{"event", "wait"} -> Nat]]
    BY <1>2 DEF TypeOK, WaitAnswer
  <2>2. timers' \in [{"answer", "event"} -> Nat]
    BY <1>2 DEF TypeOK, WaitAnswer
  <2> QED BY <1>2, <2>1, <2>2 DEF TypeOK, WaitAnswer
<1>3. CASE EventTimer
  <2>1. at' \in [Threads -> [{"event", "wait"} -> Nat]]
    BY <1>3, CountersType DEF EventTimer, Threads
  <2> QED BY <1>3, <2>1 DEF TypeOK, EventTimer
<1>4. CASE AnswerTimeout
  <2>1. at' \in [Threads -> [{"event", "wait"} -> Nat]]
    BY <1>4, CountersType DEF AnswerTimeout, Threads, TypeOK
  <2>2. met' \in [Faults -> Nat]
    BY <1>4, MeetType DEF AnswerTimeout, Faults, TypeOK
  <2>3. timers' \in [{"answer", "event"} -> Nat] /\ event' \in Events
    BY <1>4 DEF AnswerTimeout, TypeOK, Events
  <2> QED BY <1>4, <2>1, <2>2, <2>3 DEF TypeOK, AnswerTimeout
<1>5. ASSUME NEW r \in Requests, AnswerOk(r) PROVE TypeOK'
  <2>1. asked' \in [Requests -> Nat] /\ accepted' \subseteq Requests
    BY <1>5 DEF AnswerOk, Answered, TypeOK
  <2> QED BY <1>5, <1>t, <2>1, AcceptType DEF AnswerOk, TypeOK
<1>6. ASSUME NEW r \in Requests, AnswerError(r) PROVE TypeOK'
  <2>1. asked' \in [Requests -> Nat] /\ met' \in [Faults -> Nat]
    BY <1>6, MeetType DEF AnswerError, Answered, TypeOK, Faults
  <2> QED BY <1>6, <1>t, <2>1, RefuseType DEF AnswerError, TypeOK
<1>7. ASSUME NEW r \in Requests, Lose(r) PROVE TypeOK'
  <2>1. asked' \in [Requests -> Nat] /\ met' \in [Faults -> Nat]
    BY <1>7, MeetType DEF Lose, Answered, TypeOK, Faults
  <2> QED BY <1>7, <2>1 DEF Lose, TypeOK
<1>8. ASSUME NEW t \in Topics, AnswerToOther(t) PROVE TypeOK'
  <2>1. met' \in [Faults -> Nat]
    BY <1>8, MeetType DEF AnswerToOther, Faults
  <2>2. CASE Accept(t)
    BY <1>8, <2>1, <2>2, AcceptType DEF AnswerToOther, TypeOK
  <2>3. CASE Refuse(t)
    BY <1>8, <2>1, <2>3, RefuseType DEF AnswerToOther, TypeOK
  <2> QED BY <1>8, <2>2, <2>3 DEF AnswerToOther
<1>9. CASE UNCHANGED vars
  BY <1>9 DEF TypeOK, vars
<1> QED
  BY <1>1, <1>2, <1>3, <1>4, <1>5, <1>6, <1>7, <1>8, <1>9
  DEF Next, Progress, ThreadStep, Answer

(* ... with which the client starts.                                       *)
LEMMA TypeInit == Init => TypeOK
<1> SUFFICES ASSUME Init PROVE TypeOK
  OBVIOUS
<1>1. timers \in [{"answer", "event"} -> Nat]
  BY DEF Init
<1>2. at \in [Threads -> [{"event", "wait"} -> Nat]]
  <2>1. [event |-> 0, wait |-> 0] \in [{"event", "wait"} -> Nat]
    OBVIOUS
  <2> QED BY <2>1 DEF Init
<1>3. asked \in [Requests -> Nat] /\ met \in [Faults -> Nat]
  BY DEF Init
<1> QED
  BY <1>1, <1>2, <1>3 DEF Init, TypeOK, States, Events

(* The variables keep their types: no counter of activations or timers     *)
(* goes below zero.                                                        *)
THEOREM TypeCorrect == Spec => []TypeOK
BY TypeInit, TypeStep, PTL DEF Spec

-----------------------------------------------------------------------------
(* A thread that has something to do is no rest.                           *)
LEMMA Busy ==
  ASSUME TypeOK, NEW t \in Threads, Enter(t) \/ (at[t].event > 0 /\ Publish(t))
  PROVE  ~Resting'
BY DEF TypeOK, Enter, Publish, Resting, Idle

(* A step of a thread that goes on is no rest; wait_answer starts a timer; *)
(* a timer that runs out while an answer is awaited has handle_event run;  *)
(* and only a refusal clears the flag without that.                        *)
LEMMA AwaitedStep == TypeOK /\ AnswerIsAwaited /\ [Next]_vars => AnswerIsAwaited'
<1> SUFFICES ASSUME TypeOK, AnswerIsAwaited, [Next]_vars PROVE AnswerIsAwaited'
  OBVIOUS
<1>f. ASSUME NEW f \in Faults, Meet(f), Refused PROVE Refused'
  BY <1>f DEF Meet, Refused, TypeOK, Faults
<1>r. ASSUME Meet("refusal") PROVE Refused'
  BY <1>r DEF Meet, Refused, TypeOK, Faults
<1>h. ASSUME NEW t \in Threads, NEW from, NEW to, NEW r, Handle(t, from, to, r)
      PROVE  ~Resting'
  BY <1>h, Busy DEF Handle, Resting, TypeOK
<1>1. ASSUME NEW t \in Threads, HandleEvent(t) PROVE AnswerIsAwaited'
  BY <1>1, <1>h
  DEF HandleEvent, HandleIdle, HandleProtocol, HandleSeqini, HandleSeqrun, AnswerIsAwaited
<1>2. ASSUME NEW t \in Threads, WaitAnswer(t) PROVE AnswerIsAwaited'
  BY <1>2 DEF WaitAnswer, AnswerIsAwaited, TypeOK
<1>3. CASE EventTimer
  BY <1>3, Busy DEF EventTimer, AnswerIsAwaited, Threads
<1>4. CASE AnswerTimeout
  <2>1. CASE waiting_answer
    BY <1>4, <2>1, Busy DEF AnswerTimeout, AnswerIsAwaited, Threads
  <2>2. CASE ~waiting_answer
    BY <1>4, <2>2 DEF AnswerTimeout, AnswerIsAwaited, Resting, Idle, Refused, TypeOK
  <2> QED BY <2>1, <2>2
<1>5. ASSUME NEW t \in Topics, Accept(t) PROVE AnswerIsAwaited'
  BY <1>5, Busy DEF Accept, AnswerIsAwaited, Threads
<1>6. CASE Answer
  BY <1>6, <1>5, <1>r
  DEF Answer, AnswerOk, AnswerError, AnswerIsAwaited, TopicOf, Topics
<1>7. ASSUME NEW r \in Requests, Lose(r) PROVE AnswerIsAwaited'
  BY <1>7, <1>f DEF Lose, AnswerIsAwaited, Resting, Idle, Faults
<1>8. ASSUME NEW t \in Topics, AnswerToOther(t) PROVE AnswerIsAwaited'
  BY <1>8, <1>5, <1>r DEF AnswerToOther, AnswerIsAwaited
<1>9. CASE UNCHANGED vars
  BY <1>9 DEF AnswerIsAwaited, Resting, Idle, Refused, vars
<1> QED
  BY <1>1, <1>2, <1>3, <1>4, <1>6, <1>7, <1>8, <1>9 DEF Next, Progress, ThreadStep

(* Whenever the client rests short of its goal and was not refused, it     *)
(* waits for an answer with a timer running.                               *)
THEOREM Awaited == Spec => []AnswerIsAwaited
<1>1. Init => AnswerIsAwaited
  BY DEF Init, AnswerIsAwaited, Resting
<1> QED
  BY <1>1, TypeInit, TypeStep, AwaitedStep, PTL DEF Spec

-----------------------------------------------------------------------------
(* Why the protocol comes first: before the modem has accepted it, there   *)
(* is no event ACCEPTED, no state but the first, and no other request.     *)
Unaccepted ==
  met["foreign"] = 0 /\ "set_protocol" \notin accepted =>
    /\ event # "ACCEPTED" /\ state = "IDLE"
    /\ asked["set_polling"] = 0 /\ asked["start_polling"] = 0

(* As the only request is set_protocol, the first answer with OK is its.   *)
LEMMA UnacceptedStep == TypeOK /\ Unaccepted /\ [Next]_vars => Unaccepted'
<1> SUFFICES ASSUME TypeOK, Unaccepted, [Next]_vars,
                    met'["foreign"] = 0, "set_protocol" \notin accepted'
             PROVE  /\ event' # "ACCEPTED" /\ state' = "IDLE"
                    /\ asked'["set_polling"] = 0 /\ asked'["start_polling"] = 0
  BY DEF Unaccepted
<1>f. ASSUME NEW f \in Faults, Meet(f) PROVE met["foreign"] = 0
  BY <1>f DEF Meet, TypeOK, Faults
<1>1. ASSUME NEW t \in Threads, HandleEvent(t)
      PROVE  /\ event' # "ACCEPTED" /\ state' = "IDLE"
             /\ asked'["set_polling"] = 0 /\ asked'["start_polling"] = 0
  <2>1. state = "IDLE" /\ event # "ACCEPTED"
    BY <1>1 DEF HandleEvent, HandleIdle, HandleProtocol, HandleSeqini, HandleSeqrun,
                Handle, Unaccepted
  <2> QED
    BY <1>1, <2>1 DEF HandleEvent, HandleIdle, HandleProtocol, HandleSeqini, HandleSeqrun,
                      Handle, Unaccepted, TypeOK, Requests
<1>2. ASSUME NEW t \in Threads, WaitAnswer(t)
      PROVE  /\ event' # "ACCEPTED" /\ state' = "IDLE"
             /\ asked'["set_polling"] = 0 /\ asked'["start_polling"] = 0
  BY <1>2 DEF WaitAnswer, Unaccepted
<1>3. CASE EventTimer
  BY <1>3 DEF EventTimer, Unaccepted
<1>4. CASE AnswerTimeout
  BY <1>4, <1>f DEF AnswerTimeout, Unaccepted, Faults
<1>5. ASSUME NEW r \in Requests, AnswerOk(r) PROVE FALSE
  <2>1. asked["set_polling"] = 0 /\ asked["start_polling"] = 0
    BY <1>5 DEF AnswerOk, Unaccepted
  <2>2. r = "set_protocol"
    BY <1>5, <2>1 DEF AnswerOk, Answered, Requests
  <2> QED BY <1>5, <2>2 DEF AnswerOk
<1>6. ASSUME NEW r \in Requests, AnswerError(r) \/ Lose(r)
      PROVE  /\ event' # "ACCEPTED" /\ state' = "IDLE"
             /\ asked'["set_polling"] = 0 /\ asked'["start_polling"] = 0
  BY <1>6, <1>f DEF AnswerError, Lose, Answered, Refuse, Unaccepted, TypeOK, Requests, Faults
<1>7. ASSUME NEW t \in Topics, AnswerToOther(t)
      PROVE  /\ event' # "ACCEPTED" /\ state' = "IDLE"
             /\ asked'["set_polling"] = 0 /\ asked'["start_polling"] = 0
  <2>1. ~Meet("foreign")
    BY DEF Meet, TypeOK, Faults
  <2> QED BY <1>7, <1>f, <2>1 DEF AnswerToOther, Refuse, Unaccepted, Faults
<1>8. CASE UNCHANGED vars
  BY <1>8 DEF vars, Unaccepted
<1> QED
  BY <1>1, <1>2, <1>3, <1>4, <1>5, <1>6, <1>7, <1>8
  DEF Next, Progress, ThreadStep, Answer

(* Without answers to other clients, the client asks about the polling     *)
(* only after the modem has accepted the protocol.                         *)
THEOREM First == Spec => []ProtocolFirst
<1>1. Init => Unaccepted
  BY DEF Init, Unaccepted, Requests
<1>2. TypeOK /\ Unaccepted => ProtocolFirst
  BY DEF TypeOK, Unaccepted, ProtocolFirst, Requests
<1> QED
  BY <1>1, <1>2, TypeInit, TypeStep, UnacceptedStep, PTL DEF Spec
=============================================================================
