----------------------------- MODULE DummyPoller -----------------------------
(***************************************************************************)
(* src/scripts/dummy_poller.py: a client that sets the protocol, sets the  *)
(* polling sequence and starts the polling, one step on the answer to the  *)
(* last.  Its state machine sm is global.                                  *)
(*                                                                         *)
(* rospy runs the callbacks of each topic in a thread of its own, and each *)
(* timer in another.  A thread may be interrupted before handle_event and  *)
(* between the publication of a request and wait_answer, where it writes   *)
(* to the log or to a socket; what lies between two such points is a step. *)
(***************************************************************************)
EXTENDS Integers

CONSTANT MaxFaults   \* bound: losses, timers that run out while an answer is
                     \* under way, refusals and answers to other clients

ASSUME MaxFaultsAssumption == MaxFaults \in Nat

VARIABLES
  state, event, waiting_answer,   \* of sm
  timers,    \* one-shot timers that run: for answer_timeout and handle_event
  at,        \* how many activations of each thread are before handle_event,
             \* and how many before wait_answer
  asked,     \* requests that are not answered
  accepted,  \* history: the requests that were answered with OK
  met        \* history: the faults so far, by kind

vars == <<state, event, waiting_answer, timers, at, asked, accepted, met>>

States   == {"IDLE", "PROTOCOL", "SEQINI", "SEQRUN"}
Events   == {"EPS", "RUN", "TIMEOUT", "ACCEPTED"}
Topics   == {"protocol", "polling"}
Threads  == Topics \cup {"timers"}
Requests == {"set_protocol", "set_polling", "start_polling"}
Faults   == {"loss", "early", "refusal", "foreign"}

TopicOf(request) == IF request = "set_protocol" THEN "protocol" ELSE "polling"

TypeOK ==
  /\ state \in States /\ event \in Events
  /\ waiting_answer \in BOOLEAN
  /\ timers \in [{"answer", "event"} -> Nat]
  /\ at \in [Threads -> [{"event", "wait"} -> Nat]]
  /\ asked \in [Requests -> Nat]
  /\ accepted \subseteq Requests
  /\ met \in [Faults -> Nat]

-----------------------------------------------------------------------------
Meet(fault) ==
  /\ met["loss"] + met["early"] + met["refusal"] + met["foreign"] < MaxFaults
  /\ met' = [met EXCEPT ![fault] = @ + 1]

Enter(thread)   == at' = [at EXCEPT ![thread].event = @ + 1]
Leave(thread)   == at' = [at EXCEPT ![thread].event = @ - 1]
Publish(thread) == at' = [at EXCEPT ![thread].event = @ - 1, ![thread].wait = @ + 1]

(* The handlers of the first three states: an event that is ACCEPTED is    *)
(* the answer to this state's request; any other repeats the request.      *)
Handle(thread, from, to, request) ==
  /\ at[thread].event > 0
  /\ state = from
  /\ \/ /\ event = "ACCEPTED"
        /\ event' = "RUN" /\ state' = to
        /\ timers' = [timers EXCEPT !.event = @ + 1]
        /\ Leave(thread)
        /\ UNCHANGED asked
     \/ /\ event # "ACCEPTED"
        /\ event' = "EPS"
        /\ asked' = [asked EXCEPT ![request] = @ + 1]
        /\ Publish(thread)
        /\ UNCHANGED <<state, timers>>
  /\ UNCHANGED <<waiting_answer, accepted, met>>

(* Mutation of HandleIdle: an event in the place of a state.               *)
HandleIdleEvent(thread) == Handle(thread, "IDLE", "RUN", "set_protocol")

(* Mutation of HandleIdle: the request of another step.                    *)
HandleIdleAhead(thread) == Handle(thread, "IDLE", "PROTOCOL", "set_polling")

HandleIdle(thread)     == Handle(thread, "IDLE", "PROTOCOL", "set_protocol")
HandleProtocol(thread) == Handle(thread, "PROTOCOL", "SEQINI", "set_polling")
HandleSeqini(thread)   == Handle(thread, "SEQINI", "SEQRUN", "start_polling")

(* "DONE" *)
HandleSeqrun(thread) ==
  /\ at[thread].event > 0
  /\ state = "SEQRUN"
  /\ Leave(thread)
  /\ UNCHANGED <<state, event, waiting_answer, timers, asked, accepted, met>>

HandleEvent(thread) ==
  HandleIdle(thread) \/ HandleProtocol(thread) \/ HandleSeqini(thread) \/ HandleSeqrun(thread)

(* Mutation of WaitAnswer: the timer is only started when none runs.       *)
WaitAnswerOnce(thread) ==
  /\ at[thread].wait > 0
  /\ at' = [at EXCEPT ![thread].wait = @ - 1]
  /\ waiting_answer' = TRUE
  /\ timers' = [answer |-> IF timers.answer = 0 /\ ~waiting_answer THEN 1 ELSE timers.answer,
                event |-> timers.event + (IF event # "EPS" THEN 1 ELSE 0)]
  /\ UNCHANGED <<state, event, asked, accepted, met>>

(* wait_answer, and the return of the event, which is read once more.  The *)
(* timer is stored where answer_recv does not look for it.                 *)
WaitAnswer(thread) ==
  /\ at[thread].wait > 0
  /\ at' = [at EXCEPT ![thread].wait = @ - 1]
  /\ waiting_answer' = TRUE
  /\ timers' = [answer |-> timers.answer + 1,
                event |-> timers.event + (IF event # "EPS" THEN 1 ELSE 0)]
  /\ UNCHANGED <<state, event, asked, accepted, met>>

(* The timer of 0.1 s between two steps, and the one that starts it all.   *)
EventTimer ==
  /\ timers.event > 0
  /\ timers' = [timers EXCEPT !.event = @ - 1]
  /\ Enter("timers")
  /\ UNCHANGED <<state, event, waiting_answer, asked, accepted, met>>

Idle(thread) == at[thread].event = 0 /\ at[thread].wait = 0

UnderWay == \/ \E r \in Requests : asked[r] > 0
            \/ \E t \in Topics : ~Idle(t)

(* Mutation of AnswerTimeout: it is only logged, as in the node.           *)
AnswerTimeoutLogged ==
  /\ timers.answer > 0
  /\ timers' = [timers EXCEPT !.answer = @ - 1]
  /\ UNCHANGED <<state, event, waiting_answer, at, asked, accepted, met>>

AnswerTimeout ==
  /\ timers.answer > 0
  /\ timers' = [timers EXCEPT !.answer = @ - 1]
  /\ IF waiting_answer
     THEN /\ event' = "TIMEOUT"
          /\ Enter("timers")
          /\ IF UnderWay THEN Meet("early") ELSE UNCHANGED met
     ELSE UNCHANGED <<event, at, met>>
  /\ UNCHANGED <<state, waiting_answer, asked, accepted>>

-----------------------------------------------------------------------------
(* A message with a status on a topic.  EVENT.EJECTED does not exist: the  *)
(* exception ends the callback, after answer_recv and before handle_event. *)
Accept(topic) ==
  /\ Idle(topic)
  /\ waiting_answer' = FALSE
  /\ event' = "ACCEPTED"
  /\ Enter(topic)
  /\ UNCHANGED <<state, timers>>

Refuse(topic) ==
  /\ Idle(topic)
  /\ waiting_answer' = FALSE
  /\ UNCHANGED <<state, event, timers, at>>

(* The node answers a request of this client, ...                          *)
Answered(r) == asked[r] > 0 /\ asked' = [asked EXCEPT ![r] = @ - 1]

AnswerOk(r) ==
  /\ Answered(r)
  /\ accepted' = accepted \cup {r}
  /\ Accept(TopicOf(r))
  /\ UNCHANGED met

AnswerError(r) ==
  /\ Answered(r)
  /\ Refuse(TopicOf(r))
  /\ Meet("refusal")
  /\ UNCHANGED accepted

(* ... or of another, on the topic that all of them share.                 *)
AnswerToOther(topic) ==
  /\ \/ Accept(topic) /\ Meet("foreign")
     \/ Refuse(topic) /\ Meet("refusal")
  /\ UNCHANGED <<asked, accepted>>

(* The request, or its answer, is lost with the connection to the modem or *)
(* for want of room in a queue of one message.                             *)
Lose(r) ==
  /\ Answered(r)
  /\ Meet("loss")
  /\ UNCHANGED <<state, event, waiting_answer, timers, at, accepted>>

-----------------------------------------------------------------------------
Init ==
  /\ state = "IDLE" /\ event = "EPS" /\ waiting_answer = FALSE
  /\ timers = [answer |-> 0, event |-> 1]
  /\ at = [t \in Threads |-> [event |-> 0, wait |-> 0]]
  /\ asked = [r \in Requests |-> 0]
  /\ accepted = {}
  /\ met = [f \in Faults |-> 0]

ThreadStep == \E t \in Threads : HandleEvent(t) \/ WaitAnswer(t)

Answer == \E r \in Requests : AnswerOk(r) \/ AnswerError(r)

Progress == ThreadStep \/ EventTimer \/ AnswerTimeout \/ Answer

Next ==
  \/ Progress
  \/ \E r \in Requests : Lose(r)
  \/ \E t \in Topics : AnswerToOther(t)

Spec == Init /\ [][Next]_vars

(* Threads run, timers run out, and the node answers what is not lost, in  *)
(* any order: no more is needed, as nothing is repeated for ever.          *)
FairSpec == Spec /\ WF_vars(Progress)

-----------------------------------------------------------------------------
(* Properties.                                                             *)

Refused == met["refusal"] > 0

Resting == timers.event = 0 /\ \A t \in Threads : Idle(t)

(* Although the flag and the event are shared by all threads, and timers   *)
(* are never stopped: whenever the client rests short of its goal it waits *)
(* for an answer with a timer running, so that a lost one is asked for     *)
(* again.  A refusal is the exception: it clears the flag and stops.       *)
AnswerIsAwaited ==
  Resting /\ state # "SEQRUN" /\ ~Refused => waiting_answer /\ timers.answer > 0

(* As long as no other client's answer is taken for its own, the client    *)
(* touches the polling only after the modem has taken the protocol.        *)
ProtocolFirst ==
  met["foreign"] = 0 /\ (asked["set_polling"] > 0 \/ asked["start_polling"] > 0) =>
    "set_protocol" \in accepted

(* Lost answers and early timers are survived: unless it is refused, the   *)
(* client reaches its goal and comes to rest.                              *)
EventuallyDone == <>(Refused \/ (state = "SEQRUN" /\ Resting))

(* When the client logs "DONE", the modem has accepted to start, unless    *)
(* another client was answered.                                            *)
DoneMeansStarted == met["foreign"] = 0 /\ state = "SEQRUN" => "start_polling" \in accepted
=============================================================================
