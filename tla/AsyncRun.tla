------------------------------ MODULE AsyncRun ------------------------------
(***************************************************************************)
(* One asynchronous activity ("run") of toas: the shared AsyncRun object,  *)
(* the thread that starts it, the in-process worker thread that executes   *)
(* one step and streams its events, and the request threads that cancel    *)
(* or watch it (runtime/async_activity_store_impl.py and                   *)
(* runtime/async_step_runtime_worker.py).                                  *)
(*                                                                         *)
(* Every section the code executes under run.lock is one action, so a      *)
(* thread can be overtaken exactly where the code has released the lock.   *)
(* run.process is always None: start_async_step only starts in-process     *)
(* workers.  Clocks are abstracted: a deadline that can pass may have      *)
(* passed or not at every look.                                            *)
(***************************************************************************)
EXTENDS Integers, Sequences

CONSTANTS
    Clients,    \* request threads that cancel or watch the run
    Attempts,   \* plan.attempts: model calls one generation may make
    MaxDeltas,  \* bound on the events the worker streams before it ends
    Thinking,   \* run.stream_thinking_enabled
    Faults      \* disk writes that may fail: "error_log", "run_record"

ASSUME AsyncRunAssumption ==
    /\ Attempts \in Nat \ {0}
    /\ MaxDeltas \in Nat
    /\ Thinking \in BOOLEAN
    /\ Faults \subseteq {"error_log", "run_record"}

VARIABLES
    status,           \* run.status
    cancelRequested,  \* run.cancel_requested
    cancelAt,         \* run.cancel_requested_at is not None
    intent,           \* run.meta["cancel_intent_at"] is set
    closer,           \* run.meta["cancel_closer"] is callable
    events,           \* run.events; an event's seq is its position
    emitted,          \* run.terminal_event_emitted
    recorded,         \* run.terminal_record_written
    allowReasoning,   \* run.meta["allow_reasoning_only_success"]
    records,          \* statuses of this run's durable run records, in order
    persisted,        \* the step's messages are in the journal
    worker,           \* the worker thread: where it is and what it carries
    starter,          \* the thread in start_async_step
    pc,               \* where each request thread is
    op                \* the request each thread is serving

runVars == <<status, cancelRequested, cancelAt, intent, closer, events,
             emitted, recorded, allowReasoning>>
vars == <<runVars, records, persisted, worker, starter, pc, op>>

-----------------------------------------------------------------------------
(* Statuses, events, threads.                                              *)

Terminal == {"succeeded", "failed", "cancelled"}
Active == {"running", "cancelling"}
Status == Terminal \cup Active

LlmActivity == {"llm_delta", "llm_reasoning", "prompt_progress"}
Deltas == LlmActivity \cup {"tool_progress", "projection_delta"}
EventKind == Deltas \cup {"error", "projection_done", "llm_done", "run_done"}

\* A payload's status matters only in the events that close the run.
Event == [type : EventKind, status : Status \cup {"none"}]
Ev(type, st) == [type |-> type, status |-> st]

WorkerAt == {"unborn", "step", "connect", "gen", "deliver", "answered",
             "completing", "persist", "project", "nodes", "projecting",
             "ret_ok", "ret_cancel", "ret_fail", "clear", "dead"}
NoEvent == "nothing"

Worker == [at : WorkerAt, back : WorkerAt,
           pending : Deltas \cup {NoEvent},
           attempt : 0..Attempts, deltas : 0..MaxDeltas,
           fallback : BOOLEAN,    \* meta["pending_reasoning_completion"]
           note : BOOLEAN]        \* meta["pending_completion_note"]

ClientAt == {"idle", "pol_supports", "pol_obs", "pol_due", "pol_close",
             "pol_req", "pol_force", "c_read", "c_escalate", "c_close",
             "c_force", "c_supports", "c_mark_intent", "c_mark_request"}

Has(evs, kinds) == \E i \in 1..Len(evs) : evs[i].type \in kinds

-----------------------------------------------------------------------------
(* emit_stream_event and the finalizers, as functions of the event list.   *)
(* The flags they keep in run.meta are facts about that list.              *)

llm_activity_seen(evs) == Has(evs, LlmActivity)
llm_answer_bytes(evs) == Has(evs, {"llm_delta"})
projection_open(evs) ==
    Has(evs, {"projection_delta"}) /\ ~Has(evs, {"projection_done"})

AppendIf(cond, evs, e) == IF cond THEN Append(evs, e) ELSE evs

\* A successful run that streamed model activity but no answer is a failure.
MissingAnswer(st, evs) ==
    /\ st = "succeeded" /\ llm_activity_seen(evs)
    /\ ~llm_answer_bytes(evs) /\ ~allowReasoning

ClosedStatus(st, evs) == IF MissingAnswer(st, evs) THEN "failed" ELSE st

ClosedEvents(st, evs) ==
    LET final == ClosedStatus(st, evs)
        e1 == AppendIf(MissingAnswer(st, evs), evs, Ev("error", "none"))
        e2 == AppendIf(projection_open(evs), e1, Ev("projection_done", final))
        e3 == AppendIf(llm_activity_seen(evs), e2, Ev("llm_done", final))
    IN  Append(e3, Ev("run_done", final))

\* Mutant of FinalizeEvent: not once only.
FinalizeEventAgain(st, evs) ==
    /\ status' = ClosedStatus(st, evs)
    /\ events' = ClosedEvents(st, evs)
    /\ emitted' = TRUE

\* _finalize_terminal_event_once after the caller chose status st and
\* appended what is now evs.
FinalizeEvent(st, evs) ==
    /\ status' = IF emitted THEN st ELSE ClosedStatus(st, evs)
    /\ events' = IF emitted THEN evs ELSE ClosedEvents(st, evs)
    /\ emitted' = TRUE

\* write_run_event swallows every exception of the journal.
WriteRunRecord(st) ==
    \/ records' = Append(records, st)
    \/ "run_record" \in Faults /\ UNCHANGED records

\* _finalize_terminal_record_once
FinalizeRecord ==
    /\ recorded' = TRUE
    /\ IF recorded THEN UNCHANGED records ELSE WriteRunRecord(status')

\* finalize_terminal_state
FinalizeState(st, evs) == FinalizeEvent(st, evs) /\ FinalizeRecord

-----------------------------------------------------------------------------
(* start_async_step: register the run, start the worker, then write the    *)
(* "started" record and answer.  A client learns the run id from the       *)
(* answer.                                                                 *)

StartWorker ==
    /\ starter = "new"
    /\ starter' = "spawned"
    /\ worker' = [worker EXCEPT !.at = "step"]
    /\ UNCHANGED <<runVars, records, persisted, pc, op>>

WriteStarted ==
    /\ starter = "spawned"
    /\ starter' = "replied"
    /\ WriteRunRecord("started")
    /\ UNCHANGED <<runVars, persisted, worker, pc, op>>

-----------------------------------------------------------------------------
(* The worker inside runtime_step_fn.                                      *)

WorkerUnchanged == UNCHANGED <<starter, pc, op>>

\* _emit_explicit_tool_stream_event: no look at the cancellation flag.
ToolEvent ==
    /\ worker.at = "step" /\ worker.attempt = 0
    /\ worker.deltas < MaxDeltas
    /\ worker' = [worker EXCEPT !.deltas = @ + 1]
    /\ events' = AppendIf(~emitted, events, Ev("tool_progress", "none"))
    /\ UNCHANGED <<status, cancelRequested, cancelAt, intent, closer, emitted,
                   recorded, allowReasoning, records, persisted>>
    /\ WorkerUnchanged

\* GenerationRunner.generate: the first attempt of execute_with_retry.
Generate ==
    /\ worker.at = "step" /\ worker.attempt = 0
    /\ worker' = [worker EXCEPT !.at = "connect", !.attempt = 1]
    /\ UNCHANGED <<runVars, records, persisted>>
    /\ WorkerUnchanged

\* The model stream opens and _on_llm_stream_open registers its closer.
OpenStream ==
    /\ worker.at = "connect"
    /\ closer' = TRUE
    /\ worker' = [worker EXCEPT !.at = "gen"]
    /\ UNCHANGED <<status, cancelRequested, cancelAt, intent, events, emitted,
                   recorded, allowReasoning, records, persisted>>
    /\ WorkerUnchanged

\* Mutant of AttemptFails: one attempt too many.
AttemptFailsOnceMore(permanentPossible) ==
    \/ /\ worker.attempt <= Attempts
       /\ worker' = [worker EXCEPT !.at = "connect", !.attempt = @ + 1]
    \/ /\ permanentPossible
       /\ worker' = [worker EXCEPT !.at = "ret_fail"]

\* execute_with_retry's handler: a transient error is tried again while
\* attempts remain; a permanent one, or the last, ends in SystemExit.  A
\* BrokenPipeError is classified as transient like any unknown exception.
AttemptFails(permanentPossible) ==
    \/ /\ worker.attempt < Attempts
       /\ worker' = [worker EXCEPT !.at = "connect", !.attempt = @ + 1]
    \/ /\ permanentPossible \/ worker.attempt = Attempts
       /\ worker' = [worker EXCEPT !.at = "ret_fail"]

\* The connection or the stream breaks, by itself or because a client
\* called the closer.
StreamError ==
    /\ worker.at \in {"connect", "gen"}
    /\ AttemptFails(TRUE)
    /\ UNCHANGED <<runVars, records, persisted>>
    /\ WorkerUnchanged

\* A stream callback starts: _raise_if_cancel_requested takes and releases
\* the lock.  Inside a model call the exception reaches execute_with_retry.
StreamCallback(kind) ==
    /\ worker.at = "gen" /\ kind \in LlmActivity
    /\ kind = "llm_reasoning" => Thinking
    /\ worker.deltas < MaxDeltas
    /\ IF cancelRequested
       THEN AttemptFails(FALSE)
       ELSE worker' = [worker EXCEPT !.at = "deliver", !.back = "gen",
                                     !.pending = kind, !.deltas = @ + 1]
    /\ UNCHANGED <<runVars, records, persisted>>
    /\ WorkerUnchanged

\* The second lock section of a callback: emit unless the run is closed.
Deliver ==
    /\ worker.at = "deliver"
    /\ events' = AppendIf(~emitted, events, Ev(worker.pending, "none"))
    /\ worker' = [worker EXCEPT !.at = worker.back, !.pending = NoEvent]
    /\ UNCHANGED <<status, cancelRequested, cancelAt, intent, closer, emitted,
                   recorded, allowReasoning, records, persisted>>
    /\ WorkerUnchanged

\* The stream is exhausted or broke after some content: the model call
\* returns, with an answer or (no answer, or only blanks, in this attempt)
\* with its reasoning in the answer's place.
StreamEnd(fallback) ==
    /\ worker.at = "gen"
    /\ worker' = [worker EXCEPT !.at = "answered", !.fallback = fallback]
    /\ UNCHANGED <<runVars, records, persisted>>
    /\ WorkerUnchanged

\* _on_llm_completion, first lock section.
CompletionCheck ==
    /\ worker.at = "answered"
    /\ worker' = [worker EXCEPT
                    !.at = IF cancelRequested THEN "ret_cancel" ELSE "completing",
                    !.fallback = @ /\ ~cancelRequested]
    /\ UNCHANGED <<runVars, records, persisted>>
    /\ WorkerUnchanged

\* _reconcile_typed_completion: emit the part of the answer that was not
\* streamed.  A reasoning fallback is left for the projection.
ReconcileCompletion(unstreamed) ==
    /\ worker.at = "completing"
    /\ ~llm_answer_bytes(events) => unstreamed
    /\ worker' = [worker EXCEPT !.at = "persist", !.fallback = @ /\ ~emitted]
    /\ events' = AppendIf(~emitted /\ ~worker.fallback /\ unstreamed,
                          events, Ev("llm_delta", "none"))
    /\ UNCHANGED <<status, cancelRequested, cancelAt, intent, closer, emitted,
                   recorded, allowReasoning, records, persisted>>
    /\ WorkerUnchanged

\* persist_step_outputs_runtime writes the step's messages; only then does
\* the step project them.  A step without generation persists too.
PersistOutputs ==
    /\ worker.at = "persist" \/ (worker.at = "step" /\ worker.attempt = 0)
    /\ persisted' = TRUE
    /\ worker' = [worker EXCEPT !.at = "nodes"]
    /\ UNCHANGED <<runVars, records>>
    /\ WorkerUnchanged

\* _on_projection_nodes, first lock section.
ProjectionCheck ==
    /\ worker.at = "nodes"
    /\ worker' = [worker EXCEPT
                    !.at = IF cancelRequested THEN "ret_cancel" ELSE "projecting"]
    /\ UNCHANGED <<runVars, records, persisted>>
    /\ WorkerUnchanged

ReasoningVisible == Thinking /\ Has(events, {"llm_reasoning"})

\* _reconcile_typed_projection_nodes: no look at terminal_event_emitted.
ReconcileProjection(blankText) ==
    /\ worker.at = "projecting"
    /\ worker' = [worker EXCEPT !.at = "project", !.fallback = FALSE,
                                !.note = worker.fallback]
    /\ LET silent == ReasoningVisible \/ blankText
       IN  /\ allowReasoning' = (allowReasoning \/ (worker.fallback /\ silent))
           /\ events' = AppendIf(worker.fallback /\ ~silent,
                                 events, Ev("llm_delta", "none"))
    /\ UNCHANGED <<status, cancelRequested, cancelAt, intent, closer, emitted,
                   recorded, records, persisted>>
    /\ WorkerUnchanged

\* _on_projection_delta: a suppressed assistant rendering is replaced by the
\* pending note, without a look at the cancellation flag.
ProjectionDelta(suppressed) ==
    /\ worker.at = "project" /\ worker.deltas < MaxDeltas
    /\ suppressed => worker.note
    /\ worker' =
         IF cancelRequested /\ ~suppressed
         THEN [worker EXCEPT !.at = "ret_cancel", !.note = FALSE]
         ELSE [worker EXCEPT !.at = "deliver", !.back = "project",
                             !.pending = "projection_delta",
                             !.deltas = @ + 1, !.note = FALSE]
    /\ UNCHANGED <<runVars, records, persisted>>
    /\ WorkerUnchanged

\* runtime_step_fn returns.
StepReturns ==
    /\ worker.at = "project"
    /\ worker' = [worker EXCEPT !.at = "ret_ok"]
    /\ UNCHANGED <<runVars, records, persisted>>
    /\ WorkerUnchanged

\* Mutant of StepRaises: an exception of the step is swallowed.
StepRaisesSwallowed ==
    /\ worker.at \in {"step", "completing", "persist", "projecting", "project"}
    /\ worker' = [worker EXCEPT !.at = "ret_ok"]
    /\ UNCHANGED <<runVars, records, persisted>>
    /\ WorkerUnchanged

\* runtime_step_fn raises something that is not the cancellation signal.
StepRaises ==
    /\ worker.at \in {"step", "completing", "persist", "projecting", "project"}
    /\ worker' = [worker EXCEPT !.at = "ret_fail"]
    /\ UNCHANGED <<runVars, records, persisted>>
    /\ WorkerUnchanged

-----------------------------------------------------------------------------
(* The worker after runtime_step_fn: one lock section per outcome.         *)

WorkerFinished(at) ==
    /\ worker' = [worker EXCEPT !.at = at]
    /\ UNCHANGED <<cancelRequested, cancelAt, intent, closer, allowReasoning,
                   persisted, starter, pc, op>>

\* Mutant of FinishOk: a returned step is a success, cancelled or not.
FinishOkAlways ==
    /\ worker.at = "ret_ok"
    /\ FinalizeState("succeeded", events)
    /\ WorkerFinished("clear")

FinishOk ==
    /\ worker.at = "ret_ok"
    /\ FinalizeState(IF cancelRequested THEN "cancelled" ELSE "succeeded", events)
    /\ WorkerFinished("clear")

\* Mutant of FinishCancelled: the status alone is set, as wait_for_process does
\* when waiting fails.
FinishCancelledSilently ==
    /\ worker.at = "ret_cancel"
    /\ status' = "cancelled"
    /\ UNCHANGED <<events, emitted, recorded, records>>
    /\ WorkerFinished("clear")

FinishCancelled ==
    /\ worker.at = "ret_cancel"
    /\ FinalizeState("cancelled", events)
    /\ WorkerFinished("clear")

\* The error event is emitted whether or not the run is already closed.
FinishFailed ==
    /\ worker.at = "ret_fail"
    /\ FinalizeState("failed", Append(events, Ev("error", "none")))
    /\ WorkerFinished("clear")

\* error_log raises before anything is emitted: the thread dies.
FinishUnlogged ==
    /\ worker.at = "ret_fail" /\ "error_log" \in Faults
    /\ status' = "failed"
    /\ UNCHANGED <<events, emitted, recorded, records>>
    /\ WorkerFinished("dead")

ClearCloser ==
    /\ worker.at = "clear"
    /\ closer' = FALSE
    /\ worker' = [worker EXCEPT !.at = "dead"]
    /\ UNCHANGED <<status, cancelRequested, cancelAt, intent, events, emitted,
                   recorded, allowReasoning, records, persisted>>
    /\ WorkerUnchanged

-----------------------------------------------------------------------------
(* Request threads.  Both cancel and watch first apply the cancellation    *)
(* terminality policy; a cancel goes on at "c_read".                       *)

ClientUnchanged == UNCHANGED <<records, persisted, worker, starter, op>>

GoTo(p, at) == pc' = [pc EXCEPT ![p] = at]
AfterPolicy(p) == IF op[p] = "cancel" THEN "c_read" ELSE "idle"

Request(p, kind) ==
    /\ pc[p] = "idle" /\ starter = "replied"
    /\ op' = [op EXCEPT ![p] = kind]
    /\ GoTo(p, "pol_supports")
    /\ UNCHANGED <<runVars, records, persisted, worker, starter>>

CancelRequest(p) == Request(p, "cancel")
WatchRequest(p) == Request(p, "watch")

\* _supports_cancel_observation_stage
PolicySupports(p) ==
    /\ pc[p] = "pol_supports"
    /\ GoTo(p, IF closer THEN "pol_obs" ELSE "pol_req")
    /\ UNCHANGED runVars
    /\ ClientUnchanged

PolicyObserve(p) ==
    /\ pc[p] = "pol_obs"
    /\ GoTo(p, IF status # "cancelling" \/ cancelRequested
               THEN AfterPolicy(p) ELSE "pol_due")
    /\ UNCHANGED runVars
    /\ ClientUnchanged

\* _cancel_observation_due
PolicyDue(p, due) ==
    /\ pc[p] = "pol_due"
    /\ due => intent
    /\ GoTo(p, IF due THEN "pol_close" ELSE AfterPolicy(p))
    /\ UNCHANGED runVars
    /\ ClientUnchanged

\* The last lock section of _close_cancel_observed_run (stamped) and of
\* _force_cancel_run, after the closer was called.
CloseRun(stamped) ==
    /\ IF status = "cancelled"
       THEN UNCHANGED <<status, cancelRequested, cancelAt, events, emitted>>
       ELSE /\ cancelRequested' = TRUE
            /\ cancelAt' = (cancelAt \/ stamped)
            /\ FinalizeEvent("cancelled", events)
    /\ UNCHANGED <<intent, closer, recorded, allowReasoning>>

PolicyClose(p) ==
    /\ pc[p] = "pol_close"
    /\ CloseRun(TRUE)
    /\ GoTo(p, AfterPolicy(p))
    /\ ClientUnchanged

PolicyRequested(p, expired) ==
    /\ pc[p] = "pol_req"
    /\ expired => (status = "cancelling" /\ cancelAt)
    /\ GoTo(p, IF expired THEN "pol_force" ELSE AfterPolicy(p))
    /\ UNCHANGED runVars
    /\ ClientUnchanged

PolicyForce(p) ==
    /\ pc[p] = "pol_force"
    /\ IF status = "cancelling"
       THEN FinalizeEvent("cancelled", events)
       ELSE UNCHANGED <<status, events, emitted>>
    /\ GoTo(p, AfterPolicy(p))
    /\ UNCHANGED <<cancelRequested, cancelAt, intent, closer, recorded,
                   allowReasoning>>
    /\ ClientUnchanged

\* cancel_async_step: read the status once, then act on it.
CancelRead(p) ==
    /\ pc[p] = "c_read"
    /\ GoTo(p, CASE status \in Terminal   -> "idle"
                 [] status = "cancelling" -> "c_escalate"
                 [] status = "running"    -> "c_supports")
    /\ UNCHANGED runVars
    /\ ClientUnchanged

CancelEscalate(p) ==
    /\ pc[p] = "c_escalate"
    /\ GoTo(p, IF closer /\ intent THEN "c_close" ELSE "c_force")
    /\ UNCHANGED runVars
    /\ ClientUnchanged

CancelClose(p) ==
    /\ pc[p] = "c_close"
    /\ CloseRun(TRUE)
    /\ GoTo(p, "idle")
    /\ ClientUnchanged

CancelForce(p) ==
    /\ pc[p] = "c_force"
    /\ CloseRun(FALSE)
    /\ GoTo(p, "idle")
    /\ ClientUnchanged

CancelSupports(p) ==
    /\ pc[p] = "c_supports"
    /\ GoTo(p, IF closer THEN "c_mark_intent" ELSE "c_mark_request")
    /\ UNCHANGED runVars
    /\ ClientUnchanged

\* The status read at "c_read" is not looked at again.
CancelMark(p) ==
    /\ pc[p] \in {"c_mark_intent", "c_mark_request"}
    /\ status' = "cancelling"
    /\ LET observed == pc[p] = "c_mark_intent"
       IN  /\ intent' = (intent \/ observed)
           /\ cancelRequested' = (cancelRequested \/ ~observed)
           /\ cancelAt' = (cancelAt \/ ~observed)
    /\ GoTo(p, "idle")
    /\ UNCHANGED <<closer, events, emitted, recorded, allowReasoning>>
    /\ ClientUnchanged

-----------------------------------------------------------------------------

Init ==
    /\ status = "running"
    /\ cancelRequested = FALSE /\ cancelAt = FALSE /\ intent = FALSE
    /\ closer = FALSE
    /\ events = <<>> /\ emitted = FALSE
    /\ recorded = FALSE /\ allowReasoning = FALSE
    /\ records = <<>> /\ persisted = FALSE
    /\ worker = [at |-> "unborn", back |-> "step", pending |-> NoEvent,
                 attempt |-> 0, deltas |-> 0, fallback |-> FALSE, note |-> FALSE]
    /\ starter = "new"
    /\ pc = [p \in Clients |-> "idle"]
    /\ op = [p \in Clients |-> "watch"]

StarterStep == StartWorker \/ WriteStarted

WorkerStep ==
    \/ ToolEvent \/ Generate \/ OpenStream \/ StreamError
    \/ \E kind \in LlmActivity : StreamCallback(kind)
    \/ Deliver
    \/ \E fallback \in BOOLEAN : StreamEnd(fallback)
    \/ CompletionCheck
    \/ \E unstreamed \in BOOLEAN : ReconcileCompletion(unstreamed)
    \/ PersistOutputs \/ ProjectionCheck
    \/ \E blank \in BOOLEAN : ReconcileProjection(blank)
    \/ \E suppressed \in BOOLEAN : ProjectionDelta(suppressed)
    \/ StepReturns \/ StepRaises
    \/ FinishOk \/ FinishCancelled \/ FinishFailed \/ FinishUnlogged
    \/ ClearCloser

\* What a request thread does once it has started.
PolicyStep(p) ==
    \/ PolicySupports(p) \/ PolicyObserve(p)
    \/ \E due \in BOOLEAN : PolicyDue(p, due)
    \/ PolicyClose(p)
    \/ \E expired \in BOOLEAN : PolicyRequested(p, expired)
    \/ PolicyForce(p)

CancelStep(p) ==
    \/ CancelRead(p) \/ CancelEscalate(p) \/ CancelClose(p) \/ CancelForce(p)
    \/ CancelSupports(p) \/ CancelMark(p)

ClientStep(p) == PolicyStep(p) \/ CancelStep(p)

Next ==
    \/ StarterStep
    \/ WorkerStep
    \/ \E p \in Clients : CancelRequest(p) \/ WatchRequest(p) \/ ClientStep(p)

Spec == Init /\ [][Next]_vars

-----------------------------------------------------------------------------
(* Properties.                                                             *)

\* Type correctness of the run object, the records and the threads.
TypeOK ==
    /\ status \in Status
    /\ cancelRequested \in BOOLEAN /\ cancelAt \in BOOLEAN
    /\ intent \in BOOLEAN /\ closer \in BOOLEAN
    /\ events \in Seq(Event) /\ emitted \in BOOLEAN
    /\ recorded \in BOOLEAN /\ allowReasoning \in BOOLEAN
    /\ records \in Seq({"started"} \cup Terminal)
    /\ persisted \in BOOLEAN
    /\ worker \in Worker
    /\ starter \in {"new", "spawned", "replied"}
    /\ pc \in [Clients -> ClientAt]
    /\ op \in [Clients -> {"cancel", "watch"}]

IsRunDone(i) == events[i].type = "run_done"

\* However many threads race to close a run, its stream gets exactly one
\* run_done, and terminal_event_emitted says whether it is there
\* (_finalize_terminal_event_once).
ClosesOnce ==
    /\ emitted <=> \E i \in 1..Len(events) : IsRunDone(i)
    /\ \A i, j \in 1..Len(events) : IsRunDone(i) /\ IsRunDone(j) => i = j

\* A stream that ends in success belongs to a step whose messages are in the
\* journal and whose model call, if any, produced an answer.
SuccessIsEarned ==
    \A i \in 1..Len(events) : IsRunDone(i) /\ events[i].status = "succeeded" =>
        /\ persisted
        /\ Has(SubSeq(events, 1, i), LlmActivity) =>
              Has(SubSeq(events, 1, i), {"llm_delta"}) \/ allowReasoning

\* The durable outcome repeats what the stream announced; the one exception
\* is a run announced as cancelled whose worker then ends in an error.
DurableAgrees ==
    \A r \in 1..Len(records), i \in 1..Len(events) :
        records[r] \in Terminal /\ IsRunDone(i) =>
            \/ records[r] = events[i].status
            \/ records[r] = "failed" /\ events[i].status = "cancelled"

\* Once the worker can see a cancellation request the run is never announced
\* as a success, in whichever order request and completion take the lock.
NoSuccessAfterCancel ==
    [][ cancelRequested /\ ~emitted /\ emitted' =>
          events'[Len(events')].status # "succeeded" ]_vars

\* Under the fairness of WatchStream: if its model calls end, every run is announced as finished and recorded,
\* whatever cancel and watch requests do meanwhile.
RunFinishes == <>[](emitted /\ recorded)

=============================================================================
