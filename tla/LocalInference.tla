--------------------------- MODULE LocalInference ---------------------------
(* Searches of the MCP process: its dispatch admits a bounded number of     *)
(* calls and runs each in a thread (interfaces/mcp.py), and the threads     *)
(* share one isolated model process (core/local_worker.py), to which they   *)
(* speak over a pipe, one request at a time. A call that timed out leaves   *)
(* its request with the worker; a later call collects the answer first.     *)
(*                                                                          *)
(* Time is nondeterministic: any wait may end, whichever time-out `warm`    *)
(* selects, and 60 seconds may have passed since the pending request was    *)
(* sent.                                                                    *)
EXTENDS Naturals, FiniteSets

CONSTANTS
    Thread,     \* threads of the process
    Text,       \* queries
    Nothing,
    Slots,      \* calls admitted at a time
    MaxWorkerFaults   \* bound on deaths and hangs of the worker

ASSUME InferenceAssumption ==
    /\ IsFiniteSet(Thread) /\ Nothing \notin Thread \cup Text
    /\ Slots \in Nat \ {0} /\ MaxWorkerFaults \in Nat

VARIABLES
    free,      \* capacity: slots left
    thread,    \* [Thread -> its call]
    lock,      \* the embedder's lock: a thread or Nothing
    worker,    \* the model process: "none", "alive", "hung" or "dead"
    asked,     \* the request in the pipe or at the worker, or Nothing
    answer,    \* the answer in the pipe, or Nothing
    pending,   \* the request the embedder believes to be outstanding
    expired,   \* it was sent more than 60 seconds ago
    workerFaults

workerVars == <<worker, asked, answer>>
embedderVars == <<pending, expired>>
inferenceVars == <<free, thread, lock, workerVars, embedderVars, workerFaults>>

Answer == [text : Text, ok : BOOLEAN]

(* A call: its text, whether its caller has gone, and its outcome.          *)
Idle == [pc |-> "idle", text |-> Nothing, gone |-> FALSE, got |-> Nothing]

Running == {"admitted", "locked", "collect", "send", "wait", "done"}

InferenceTypeOK ==
    /\ free \in 0..Slots
    /\ thread \in [Thread -> [pc : Running \cup {"idle"}, text : Text \cup {Nothing}, gone : BOOLEAN,
                              got : Answer \cup {Nothing}]]
    /\ lock \in Thread \cup {Nothing}
    /\ worker \in {"none", "alive", "hung", "dead"}
    /\ asked \in Text \cup {Nothing} /\ answer \in Answer \cup {Nothing}
    /\ pending \in Text \cup {Nothing} /\ expired \in BOOLEAN
    /\ workerFaults \in 0..MaxWorkerFaults

InferenceInit ==
    /\ free = Slots
    /\ thread = [t \in Thread |-> Idle]
    /\ lock = Nothing
    /\ worker = "none" /\ asked = Nothing /\ answer = Nothing
    /\ pending = Nothing /\ expired = FALSE
    /\ workerFaults = 0

-----------------------------------------------------------------------------
(* dispatch: a call without a slot is refused, which changes nothing.       *)
Admit(t, text) ==
    /\ thread[t].pc = "idle" /\ free > 0
    /\ free' = free - 1
    /\ thread' = [thread EXCEPT ![t] = [Idle EXCEPT !.pc = "admitted", !.text = text]]
    /\ UNCHANGED <<lock, workerVars, embedderVars, workerFaults>>

(* A caller that goes leaves its thread running, and the slot taken.        *)
Cancel(t) ==
    /\ thread[t].pc # "idle" /\ ~thread[t].gone
    /\ thread' = [thread EXCEPT ![t].gone = TRUE]
    /\ UNCHANGED <<free, lock, workerVars, embedderVars, workerFaults>>

Complete(t) ==
    /\ thread[t].pc = "done"
    /\ free' = free + 1
    /\ thread' = [thread EXCEPT ![t] = Idle]
    /\ UNCHANGED <<lock, workerVars, embedderVars, workerFaults>>

-----------------------------------------------------------------------------
(* embed, from the lock to its release. *)
Goto(t, pc) == thread' = [thread EXCEPT ![t].pc = pc] /\ lock' = lock

Return(t, outcome) ==
    /\ thread' = [thread EXCEPT ![t].pc = "done", ![t].got = outcome]
    /\ lock' = IF lock = t THEN Nothing ELSE lock

Fail(t) == Return(t, Nothing)

(* _stop: the process is terminated, at worst killed, and its pipe closed.  *)
Stop ==
    /\ worker' = "none" /\ asked' = Nothing /\ answer' = Nothing
    /\ pending' = Nothing /\ expired' = FALSE

Lock(t) ==
    /\ thread[t].pc = "admitted" /\ lock = Nothing
    /\ lock' = t
    /\ thread' = [thread EXCEPT ![t].pc = "locked"]
    /\ UNCHANGED <<free, workerVars, embedderVars, workerFaults>>

(* A process that is gone is reaped, and this call fails; without one, one  *)
(* is started on a new pipe.                                                *)
Check(t) ==
    /\ thread[t].pc = "locked"
    /\ \/ /\ worker = "dead" /\ Stop /\ Fail(t)
       \/ /\ worker = "none" /\ worker' = "alive"
          /\ Goto(t, "send")
          /\ UNCHANGED <<asked, answer, embedderVars>>
       \/ /\ worker \in {"alive", "hung"}
          /\ Goto(t, IF pending = Nothing THEN "send" ELSE "collect")
          /\ UNCHANGED <<workerVars, embedderVars>>
    /\ UNCHANGED <<free, workerFaults>>

(* The other end of an empty pipe is closed. *)
Ended == worker = "dead" /\ answer = Nothing

(* What the pipe holds for an earlier request is taken out; it is the       *)
(* result if it was the same request.                                       *)
Collect(t) ==
    /\ thread[t].pc = "collect"
    /\ \/ /\ answer # Nothing
          /\ answer' = Nothing /\ pending' = Nothing
          /\ IF pending = thread[t].text THEN Return(t, answer) ELSE Goto(t, "send")
          /\ UNCHANGED <<worker, asked, expired>>
       \/ Ended /\ Stop /\ Fail(t)
    /\ UNCHANGED <<free, workerFaults>>

Send(t) ==
    /\ thread[t].pc = "send"
    /\ \/ /\ worker # "dead"
          /\ asked' = thread[t].text /\ pending' = thread[t].text /\ expired' = FALSE
          /\ Goto(t, "wait")
          /\ UNCHANGED <<worker, answer>>
       \/ worker = "dead" /\ Stop /\ Fail(t)
    /\ UNCHANGED <<free, workerFaults>>

Receive(t) ==
    /\ thread[t].pc = "wait"
    /\ \/ /\ answer # Nothing
          /\ answer' = Nothing /\ pending' = Nothing
          /\ Return(t, answer)
          /\ UNCHANGED <<worker, asked, expired>>
       \/ Ended /\ Stop /\ Fail(t)
    /\ UNCHANGED <<free, workerFaults>>

(* The deadline passes while the lock is held by another call, while an     *)
(* earlier request is at the worker, or before anything is sent.            *)
TimeOutBusy(t) ==
    /\ \/ thread[t].pc = "admitted" /\ lock # Nothing
       \/ thread[t].pc = "collect" /\ answer = Nothing /\ ~Ended /\ ~expired
       \/ thread[t].pc = "send"
    /\ Fail(t)
    /\ UNCHANGED <<free, workerVars, embedderVars, workerFaults>>

(* Mutant: the limit is reported, and the worker kept. *)
TimeOutExecutionKept(t) ==
    /\ thread[t].pc = "collect" /\ answer = Nothing /\ ~Ended /\ expired
    /\ Fail(t)
    /\ UNCHANGED <<free, workerVars, embedderVars, workerFaults>>

(* An earlier request that took more than 60 seconds ends the worker. *)
TimeOutExecution(t) ==
    /\ thread[t].pc = "collect" /\ answer = Nothing /\ ~Ended /\ expired
    /\ Stop /\ Fail(t)
    /\ UNCHANGED <<free, workerFaults>>

(* Mutant: what was asked is forgotten. *)
TimeOutForgetting(t) ==
    /\ thread[t].pc = "wait" /\ answer = Nothing /\ ~Ended
    /\ Fail(t)
    /\ pending' = Nothing
    /\ UNCHANGED <<free, workerVars, expired, workerFaults>>

(* The deadline passes over the call's own request, which stays pending. *)
TimeOutQuery(t) ==
    /\ thread[t].pc = "wait" /\ answer = Nothing /\ ~Ended
    /\ Fail(t)
    /\ UNCHANGED <<free, workerVars, embedderVars, workerFaults>>

TimeOut(t) == TimeOutBusy(t) \/ TimeOutExecution(t) \/ TimeOutQuery(t)

Run(t) == Lock(t) \/ Check(t) \/ Collect(t) \/ Send(t) \/ Receive(t)

Expire ==
    /\ pending # Nothing /\ ~expired
    /\ expired' = TRUE
    /\ UNCHANGED <<free, thread, lock, workerVars, pending, workerFaults>>

-----------------------------------------------------------------------------
(* _serve, in the worker: one request after the other. *)
Serve(ok) ==
    /\ worker = "alive" /\ asked # Nothing
    /\ answer' = [text |-> asked, ok |-> ok]
    /\ asked' = Nothing
    /\ UNCHANGED <<free, thread, lock, worker, embedderVars, workerFaults>>

Breaks(state) ==
    /\ workerFaults < MaxWorkerFaults
    /\ worker \in {"alive", "hung"} /\ worker # state
    /\ worker' = state
    /\ asked' = IF state = "dead" THEN Nothing ELSE asked
    /\ workerFaults' = workerFaults + 1
    /\ UNCHANGED <<free, thread, lock, answer, embedderVars>>

WorkerFault == Breaks("dead") \/ Breaks("hung")

InferenceNext ==
    \/ \E t \in Thread :
         \/ \E text \in Text : Admit(t, text)
         \/ Cancel(t) \/ Complete(t) \/ Run(t) \/ TimeOut(t)
    \/ \E ok \in BOOLEAN : Serve(ok)
    \/ Expire \/ WorkerFault

InferenceSpec == InferenceInit /\ [][InferenceNext]_inferenceVars

(* Threads run, every wait is bounded, time passes, and a worker that is    *)
(* not hung answers.                                                        *)
FairInference ==
    /\ InferenceSpec
    /\ \A t \in Thread : WF_inferenceVars(Run(t)) /\ WF_inferenceVars(Complete(t))
    /\ \A t \in Thread : WF_inferenceVars(worker = "hung" /\ TimeOut(t))
    /\ WF_inferenceVars(Expire)
    /\ WF_inferenceVars(\E ok \in BOOLEAN : Serve(ok))

-----------------------------------------------------------------------------
(* Whatever timed out, died or was sent again: an answer that a call gets   *)
(* is the one to its own text.                                              *)
AnswersMatch == \A t \in Thread : thread[t].got # Nothing => thread[t].got.text = thread[t].text

(* What the embedder believes of the pipe is so. *)
PendingIsTrue ==
    /\ asked # Nothing => pending = asked /\ answer = Nothing
    /\ answer # Nothing => pending = answer.text

(* Threads never outnumber the slots, also those whose callers have gone.   *)
SlotsBound == Cardinality({t \in Thread : thread[t].pc # "idle"}) + free = Slots

InferenceInvariant == InferenceTypeOK /\ AnswersMatch /\ PendingIsTrue /\ SlotsBound

(* A time-out although the worker would answer, or before anything was      *)
(* waited for.                                                              *)
Hasty == \E t \in Thread : (worker # "hung" \/ thread[t].pc = "send") /\ TimeOut(t)

Fails == \E t \in Thread : thread[t].pc = "done" /\ (thread[t].got = Nothing \/ ~thread[t].got.ok)

NobodyCalls == \A t \in Thread : thread[t].pc = "idle"

(* Once the worker neither dies nor hangs anew, does not fail a text and    *)
(* is given the time it needs, every later call gets its vector: a hung     *)
(* worker is ended by the calls that find it, unless none is made.          *)
InferenceRecovers ==
    <>[][~WorkerFault /\ ~Hasty /\ ~Serve(FALSE)]_inferenceVars =>
       <>[]~Fails \/ <>[](worker = "hung" /\ NobodyCalls)
=============================================================================
