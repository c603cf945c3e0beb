--------------------------- MODULE AsyncRunProofs ---------------------------
(***************************************************************************)
(* Theorems about one asynchronous run, for any number of request threads, *)
(* attempts and streamed events.                                           *)
(***************************************************************************)
EXTENDS AsyncRun, TLAPS

NoDone(evs) == \A i \in 1..Len(evs) : evs[i].type # "run_done"

OneDone(evs) ==
    \E i \in 1..Len(evs) :
        /\ evs[i].type = "run_done"
        /\ \A j \in 1..Len(evs) : evs[j].type = "run_done" => j = i

-----------------------------------------------------------------------------
(* What emitting an event does to a stream.                                *)

\* The events the model emits are events.
LEMMA EvFacts ==
    ASSUME NEW type \in EventKind, NEW st \in Status \cup {"none"}
    PROVE  /\ Ev(type, st) \in Event
           /\ Ev(type, st).type = type
           /\ Ev(type, st).status = st
BY DEF Ev, Event

\* Appending an event that is not run_done, if at all (emit_stream_event).
LEMMA AppendOther ==
    ASSUME NEW evs \in Seq(Event), NEW c \in BOOLEAN, NEW e \in Event,
           e.type # "run_done"
    PROVE  /\ AppendIf(c, evs, e) \in Seq(Event)
           /\ NoDone(evs) => NoDone(AppendIf(c, evs, e))
           /\ OneDone(evs) => OneDone(AppendIf(c, evs, e))
<1>1. CASE ~c
  BY <1>1 DEF AppendIf
<1>2. CASE c
  <2> DEFINE new == Append(evs, e)
  <2>1. /\ new \in Seq(Event) /\ Len(new) = Len(evs) + 1
        /\ \A i \in 1..Len(evs) : new[i] = evs[i]
        /\ new[Len(evs) + 1] = e
    OBVIOUS
  <2>2. NoDone(evs) => NoDone(new)
    BY <2>1 DEF NoDone
  <2>3. OneDone(evs) => OneDone(new)
    BY <2>1 DEF OneDone
  <2>4. AppendIf(c, evs, e) = new
    BY <1>2 DEF AppendIf
  <2> QED
    BY <2>1, <2>2, <2>3, <2>4
<1> QED
  BY <1>1, <1>2

\* The run is closed by its first run_done.
LEMMA AppendDone ==
    ASSUME NEW evs \in Seq(Event), NEW e \in Event, e.type = "run_done",
           NoDone(evs)
    PROVE  /\ Append(evs, e) \in Seq(Event)
           /\ OneDone(Append(evs, e))
<1> DEFINE new == Append(evs, e)
<1>1. /\ new \in Seq(Event) /\ Len(new) = Len(evs) + 1
      /\ \A i \in 1..Len(evs) : new[i] = evs[i]
      /\ new[Len(evs) + 1] = e
  OBVIOUS
<1>2. OneDone(new)
  BY <1>1 DEF OneDone, NoDone
<1> QED
  BY <1>1, <1>2

\* _finalize_terminal_event_once turns an open stream into a closed one.
LEMMA ClosedFacts ==
    ASSUME NEW evs \in Seq(Event), NEW st \in Terminal
    PROVE  /\ ClosedStatus(st, evs) \in Terminal
           /\ ClosedEvents(st, evs) \in Seq(Event)
           /\ NoDone(evs) => OneDone(ClosedEvents(st, evs))
           /\ \E before \in Seq(Event) :
                 /\ NoDone(evs) => NoDone(before)
                 /\ ClosedEvents(st, evs) =
                      Append(before, Ev("run_done", ClosedStatus(st, evs)))
<1> DEFINE final == ClosedStatus(st, evs)
           e1 == AppendIf(MissingAnswer(st, evs), evs, Ev("error", "none"))
           e2 == AppendIf(projection_open(evs), e1, Ev("projection_done", final))
           e3 == AppendIf(llm_activity_seen(evs), e2, Ev("llm_done", final))
<1>1. final \in Terminal
  BY DEF ClosedStatus, Terminal
<1>2. /\ MissingAnswer(st, evs) \in BOOLEAN /\ projection_open(evs) \in BOOLEAN
      /\ llm_activity_seen(evs) \in BOOLEAN
  BY DEF MissingAnswer, projection_open, llm_activity_seen, Has
<1>3. /\ Ev("error", "none") \in Event /\ Ev("error", "none").type = "error"
      /\ Ev("projection_done", final) \in Event
      /\ Ev("projection_done", final).type = "projection_done"
      /\ Ev("llm_done", final) \in Event /\ Ev("llm_done", final).type = "llm_done"
      /\ Ev("run_done", final) \in Event /\ Ev("run_done", final).type = "run_done"
  BY <1>1 DEF Ev, Event, EventKind, Status
<1> HIDE DEF final
<1>4. e1 \in Seq(Event) /\ (NoDone(evs) => NoDone(e1))
  BY <1>2, <1>3, AppendOther
<1> HIDE DEF e1
<1>5. e2 \in Seq(Event) /\ (NoDone(e1) => NoDone(e2))
  BY <1>2, <1>3, <1>4, AppendOther
<1> HIDE DEF e2
<1>6. e3 \in Seq(Event) /\ (NoDone(e2) => NoDone(e3))
  BY <1>2, <1>3, <1>5, AppendOther
<1> HIDE DEF e3
<1>7. Append(e3, Ev("run_done", final)) \in Seq(Event)
  BY <1>3, <1>6
<1>8. NoDone(evs) => OneDone(Append(e3, Ev("run_done", final)))
  BY <1>3, <1>4, <1>5, <1>6, AppendDone
<1>9. ClosedEvents(st, evs) = Append(e3, Ev("run_done", final))
  BY DEF ClosedEvents, e3, e2, e1, final
<1> QED
  BY <1>1, <1>4, <1>5, <1>6, <1>7, <1>8, <1>9 DEF final

\* The finalizers keep the run's fields typed and choose a terminal status.
LEMMA FinalizeTyped ==
    ASSUME TypeOK, NEW evs \in Seq(Event), NEW st \in Terminal,
           FinalizeEvent(st, evs)
    PROVE  status' \in Terminal /\ events' \in Seq(Event) /\ emitted' = TRUE
BY ClosedFacts DEF FinalizeEvent, TypeOK

\* The record, if it is written, carries the status just chosen
\* (_finalize_terminal_record_once).
LEMMA RecordTyped ==
    ASSUME TypeOK, status' \in Terminal, FinalizeRecord
    PROVE  /\ records' \in Seq({"started"} \cup Terminal)
           /\ recorded' = TRUE
<1> DEFINE S == {"started"} \cup Terminal
<1>1. records \in Seq(S) /\ status' \in S
  BY DEF TypeOK
<1> HIDE DEF S
<1>2. Append(records, status') \in Seq(S)
  BY <1>1
<1>3. records' = records \/ records' = Append(records, status')
  BY DEF FinalizeRecord, WriteRunRecord
<1> QED
  BY <1>1, <1>2, <1>3 DEF FinalizeRecord, S

-----------------------------------------------------------------------------
(* Type correctness.  A worker in "deliver" must carry an event, or the    *)
(* stream would get a malformed one: the part TypeOK does not say.         *)

WorkerOK(w) ==
    /\ w \in Worker
    /\ w.back # "deliver"
    /\ w.at = "deliver" => w.pending # NoEvent

Typed == TypeOK /\ WorkerOK(worker)

\* start_async_step keeps the types.
LEMMA StarterTyped == ASSUME Typed, StarterStep PROVE Typed'
<1>1. CASE StartWorker
  <2>1. WorkerOK(worker')
    BY <1>1 DEF StartWorker, Typed, WorkerOK, Worker, WorkerAt
  <2> QED
    BY <1>1, <2>1 DEF StartWorker, runVars, Typed, TypeOK, WorkerOK
<1>2. CASE WriteStarted
  <2> DEFINE S == {"started"} \cup Terminal
  <2>1. records \in Seq(S) /\ "started" \in S
    BY DEF Typed, TypeOK
  <2> HIDE DEF S
  <2>2. Append(records, "started") \in Seq(S)
    BY <2>1
  <2>3. records' = records \/ records' = Append(records, "started")
    BY <1>2 DEF WriteStarted, WriteRunRecord
  <2>4. records' \in Seq(S)
    BY <2>1, <2>2, <2>3
  <2>5. /\ starter' = "replied"
        /\ UNCHANGED <<runVars, persisted, worker, pc, op>>
    BY <1>2 DEF WriteStarted
  <2> QED
    BY <2>4, <2>5 DEF runVars, Typed, TypeOK, WorkerOK, S
<1> QED
  BY <1>1, <1>2 DEF StarterStep

\* The steps of the worker that leave the run object alone.
LEMMA WorkerMovesTyped ==
    ASSUME Typed, WorkerOK(worker'), persisted' \in BOOLEAN,
           UNCHANGED <<runVars, records>>, WorkerUnchanged
    PROVE  Typed'
BY DEF Typed, TypeOK, WorkerOK, runVars, WorkerUnchanged

\* The steps of the worker that append to the stream.
LEMMA WorkerEmitsTyped ==
    ASSUME Typed, WorkerOK(worker'), NEW c \in BOOLEAN, NEW e \in Event,
           e.type # "run_done",
           events' = AppendIf(c, events, e), allowReasoning' \in BOOLEAN,
           UNCHANGED <<status, cancelRequested, cancelAt, intent, closer,
                       emitted, recorded, records, persisted>>,
           WorkerUnchanged
    PROVE  Typed'
<1>1. events' \in Seq(Event)
  BY AppendOther DEF Typed, TypeOK
<1> QED
  BY <1>1 DEF Typed, TypeOK, WorkerOK, WorkerUnchanged

\* The outcomes of the worker.
LEMMA WorkerEndsTyped ==
    ASSUME Typed, NEW st \in Terminal, NEW evs \in Seq(Event),
           FinalizeState(st, evs), WorkerFinished("clear")
    PROVE  Typed'
<1>1. status' \in Terminal /\ events' \in Seq(Event) /\ emitted' = TRUE
  BY FinalizeTyped DEF FinalizeState, Typed
<1>2. records' \in Seq({"started"} \cup Terminal) /\ recorded' = TRUE
  BY <1>1, RecordTyped DEF FinalizeState, Typed
<1>3. WorkerOK(worker')
  BY DEF WorkerFinished, Typed, WorkerOK, Worker, WorkerAt
<1> QED
  BY <1>1, <1>2, <1>3 DEF Typed, TypeOK, WorkerFinished, Status, WorkerOK

\* The worker keeps the types, one step per action.
LEMMA WorkerTyped == ASSUME Typed, WorkerStep PROVE Typed'
<1> USE DEF WorkerOK, Worker, WorkerAt
<1>0. /\ WorkerOK(worker) /\ cancelRequested \in BOOLEAN
      /\ 1 \in 0..Attempts
      /\ worker.attempt < Attempts => worker.attempt + 1 \in 0..Attempts
      /\ worker.deltas < MaxDeltas => worker.deltas + 1 \in 0..MaxDeltas
  <2>1. worker.attempt \in 0..Attempts /\ worker.deltas \in 0..MaxDeltas
    BY DEF Typed
  <2>2. Attempts \in Nat \ {0} /\ MaxDeltas \in Nat
    BY AsyncRunAssumption
  <2> QED
    BY <2>1, <2>2 DEF Typed, TypeOK
<1>1. CASE ToolEvent
  <2>1. WorkerOK(worker')
    BY <1>0, <1>1 DEF ToolEvent
  <2>2. /\ Ev("tool_progress", "none") \in Event
        /\ Ev("tool_progress", "none").type # "run_done"
    BY EvFacts DEF EventKind, Deltas
  <2> QED
    BY <1>1, <2>1, <2>2, WorkerEmitsTyped DEF ToolEvent, Typed, TypeOK
<1>2. CASE Generate
  <2>1. WorkerOK(worker')
    BY <1>0, <1>2 DEF Generate
  <2> QED
    BY <1>2, <2>1, WorkerMovesTyped DEF Generate, Typed, TypeOK, runVars
<1>3. CASE OpenStream
  <2>1. WorkerOK(worker')
    BY <1>0, <1>3 DEF OpenStream
  <2> QED
    BY <1>3, <2>1 DEF OpenStream, Typed, TypeOK, WorkerUnchanged
<1>4. ASSUME NEW permanent \in BOOLEAN, AttemptFails(permanent)
      PROVE  WorkerOK(worker')
  BY <1>0, <1>4 DEF AttemptFails
<1>5. CASE StreamError
  BY <1>4, <1>5, WorkerMovesTyped DEF StreamError, Typed, TypeOK, runVars
<1>6. ASSUME NEW kind \in LlmActivity, StreamCallback(kind)
      PROVE  Typed'
  <2>1. CASE cancelRequested
    BY <1>4, <1>6, <2>1, WorkerMovesTyped
       DEF StreamCallback, Typed, TypeOK, runVars
  <2>2. CASE ~cancelRequested
    <3>1. kind \in Deltas /\ kind # NoEvent
      BY DEF Deltas, LlmActivity, NoEvent
    <3>2. /\ worker.deltas + 1 \in 0..MaxDeltas
          /\ worker' = [worker EXCEPT !.at = "deliver", !.back = "gen",
                                      !.pending = kind, !.deltas = @ + 1]
      BY <1>0, <1>6, <2>2 DEF StreamCallback
    <3>3. WorkerOK(worker')
      BY <1>0, <3>1, <3>2
    <3> QED
      BY <1>6, <3>3, WorkerMovesTyped DEF StreamCallback, Typed, TypeOK, runVars
  <2> QED
    BY <2>1, <2>2
<1>7. CASE Deliver
  <2>1. WorkerOK(worker')
    BY <1>0, <1>7 DEF Deliver
  <2>2. /\ Ev(worker.pending, "none") \in Event
        /\ Ev(worker.pending, "none").type # "run_done"
    BY <1>0, <1>7, EvFacts DEF Deliver, EventKind, Deltas, LlmActivity
  <2> QED
    BY <1>7, <2>1, <2>2, WorkerEmitsTyped DEF Deliver, Typed, TypeOK
<1>8. ASSUME NEW fb \in BOOLEAN, StreamEnd(fb)
      PROVE  Typed'
  <2>1. WorkerOK(worker')
    BY <1>0, <1>8 DEF StreamEnd
  <2> QED
    BY <1>8, <2>1, WorkerMovesTyped DEF StreamEnd, Typed, TypeOK, runVars
<1>9. CASE CompletionCheck
  <2>1. WorkerOK(worker')
    BY <1>0, <1>9 DEF CompletionCheck
  <2> QED
    BY <1>9, <2>1, WorkerMovesTyped DEF CompletionCheck, Typed, TypeOK, runVars
<1>10. ASSUME NEW unstreamed \in BOOLEAN, ReconcileCompletion(unstreamed)
       PROVE  Typed'
  <2>1. WorkerOK(worker')
    BY <1>0, <1>10 DEF ReconcileCompletion, Typed, TypeOK
  <2>2. Ev("llm_delta", "none") \in Event /\ Ev("llm_delta", "none").type # "run_done"
    BY EvFacts DEF EventKind, Deltas, LlmActivity
  <2> DEFINE c == ~emitted /\ ~worker.fallback /\ unstreamed
  <2>3. c \in BOOLEAN
    OBVIOUS
  <2>4. events' = AppendIf(c, events, Ev("llm_delta", "none"))
    BY <1>10 DEF ReconcileCompletion
  <2> HIDE DEF c
  <2> QED
    BY <1>10, <2>1, <2>2, <2>3, <2>4, WorkerEmitsTyped
       DEF ReconcileCompletion, Typed, TypeOK
<1>11. CASE PersistOutputs
  <2>1. WorkerOK(worker')
    BY <1>0, <1>11 DEF PersistOutputs
  <2> QED
    BY <1>11, <2>1, WorkerMovesTyped DEF PersistOutputs, Typed, TypeOK, runVars
<1>12. CASE ProjectionCheck
  <2>1. WorkerOK(worker')
    BY <1>0, <1>12 DEF ProjectionCheck
  <2> QED
    BY <1>12, <2>1, WorkerMovesTyped DEF ProjectionCheck, Typed, TypeOK, runVars
<1>13. ASSUME NEW blank \in BOOLEAN, ReconcileProjection(blank)
       PROVE  Typed'
  <2>1. WorkerOK(worker')
    BY <1>0, <1>13 DEF ReconcileProjection
  <2>2. Ev("llm_delta", "none") \in Event /\ Ev("llm_delta", "none").type # "run_done"
    BY EvFacts DEF EventKind, Deltas, LlmActivity
  <2> DEFINE c == worker.fallback /\ ~(ReasoningVisible \/ blank)
  <2>3. c \in BOOLEAN /\ allowReasoning' \in BOOLEAN
    BY <1>13 DEF ReconcileProjection
  <2>4. events' = AppendIf(c, events, Ev("llm_delta", "none"))
    BY <1>13 DEF ReconcileProjection
  <2> HIDE DEF c
  <2> QED
    BY <1>13, <2>1, <2>2, <2>3, <2>4, WorkerEmitsTyped DEF ReconcileProjection
<1>14. ASSUME NEW suppressed \in BOOLEAN, ProjectionDelta(suppressed)
       PROVE  Typed'
  <2>1. "projection_delta" \in Deltas /\ "projection_delta" # NoEvent
    BY DEF Deltas, NoEvent
  <2>2. WorkerOK(worker')
    BY <1>0, <1>14, <2>1 DEF ProjectionDelta
  <2> QED
    BY <1>14, <2>2, WorkerMovesTyped DEF ProjectionDelta, Typed, TypeOK, runVars
<1>15. CASE StepReturns
  <2>1. WorkerOK(worker')
    BY <1>0, <1>15 DEF StepReturns
  <2> QED
    BY <1>15, <2>1, WorkerMovesTyped DEF StepReturns, Typed, TypeOK, runVars
<1>16. CASE StepRaises
  <2>1. WorkerOK(worker')
    BY <1>0, <1>16 DEF StepRaises
  <2> QED
    BY <1>16, <2>1, WorkerMovesTyped DEF StepRaises, Typed, TypeOK, runVars
<1>17. "succeeded" \in Terminal /\ "cancelled" \in Terminal /\ "failed" \in Terminal
  BY DEF Terminal
<1>18. CASE FinishOk
  BY <1>0, <1>17, <1>18, WorkerEndsTyped DEF FinishOk, Typed, TypeOK
<1>19. CASE FinishCancelled
  BY <1>17, <1>19, WorkerEndsTyped DEF FinishCancelled, Typed, TypeOK
<1>20. CASE FinishFailed
  <2>1. Ev("error", "none") \in Event
    BY EvFacts DEF EventKind
  <2>2. Append(events, Ev("error", "none")) \in Seq(Event)
    BY <2>1 DEF Typed, TypeOK
  <2> QED
    BY <1>17, <1>20, <2>2, WorkerEndsTyped DEF FinishFailed
<1>21. CASE FinishUnlogged
  <2>1. WorkerOK(worker')
    BY <1>0, <1>21 DEF FinishUnlogged, WorkerFinished
  <2> QED
    BY <1>17, <1>21, <2>1
       DEF FinishUnlogged, WorkerFinished, Typed, TypeOK, Status
<1>22. CASE ClearCloser
  <2>1. WorkerOK(worker')
    BY <1>0, <1>22 DEF ClearCloser
  <2> QED
    BY <1>22, <2>1 DEF ClearCloser, Typed, TypeOK, WorkerUnchanged
<1> QED
  BY <1>1, <1>2, <1>3, <1>5, <1>6, <1>7, <1>8, <1>9, <1>10, <1>11, <1>12, <1>13,
     <1>14, <1>15, <1>16, <1>18, <1>19, <1>20, <1>21, <1>22 DEF WorkerStep

\* The steps of a request thread that only move it.
LEMMA ClientMovesTyped ==
    ASSUME Typed, NEW p \in Clients, NEW at \in ClientAt, GoTo(p, at),
           UNCHANGED runVars, ClientUnchanged
    PROVE  Typed'
BY DEF Typed, TypeOK, WorkerOK, GoTo, runVars, ClientUnchanged

\* The steps of a request thread that may close the run.
LEMMA ClientClosesTyped ==
    ASSUME Typed, NEW p \in Clients, NEW at \in ClientAt, GoTo(p, at),
           \/ FinalizeEvent("cancelled", events)
           \/ UNCHANGED <<status, events, emitted>>,
           cancelRequested' \in BOOLEAN, cancelAt' \in BOOLEAN,
           UNCHANGED <<intent, closer, recorded, allowReasoning>>,
           ClientUnchanged
    PROVE  Typed'
<1>1. status' \in Status /\ events' \in Seq(Event) /\ emitted' \in BOOLEAN
  <2>1. CASE FinalizeEvent("cancelled", events)
    BY <2>1, FinalizeTyped DEF Typed, TypeOK, Terminal, Status
  <2>2. CASE UNCHANGED <<status, events, emitted>>
    BY <2>2 DEF Typed, TypeOK
  <2> QED
    BY <2>1, <2>2
<1> QED
  BY <1>1 DEF Typed, TypeOK, WorkerOK, GoTo, ClientUnchanged

\* Closing a run that is not yet cancelled keeps the types
\* (_close_cancel_observed_run, _force_cancel_run).
LEMMA CloseRunTyped ==
    ASSUME Typed, NEW p \in Clients, NEW at \in ClientAt, GoTo(p, at),
           NEW stamped \in BOOLEAN, CloseRun(stamped), ClientUnchanged
    PROVE  Typed'
<1>1. cancelRequested' \in BOOLEAN /\ cancelAt' \in BOOLEAN
  BY DEF CloseRun, Typed, TypeOK
<1> QED
  BY <1>1, ClientClosesTyped DEF CloseRun

\* A new request keeps the types.
LEMMA RequestTyped ==
    ASSUME Typed, NEW p \in Clients, NEW kind \in {"cancel", "watch"},
           Request(p, kind)
    PROVE  Typed'
BY DEF Typed, TypeOK, WorkerOK, Request, GoTo, runVars, ClientAt

\* Request threads keep the types, one step per action.
LEMMA ClientTyped == ASSUME Typed, NEW p \in Clients, ClientStep(p) PROVE Typed'
<1>0. /\ {"pol_obs", "pol_req", "pol_due", "pol_close", "pol_force", "idle",
          "c_escalate", "c_supports", "c_close", "c_force", "c_mark_intent",
          "c_mark_request", "c_read"} \subseteq ClientAt
      /\ AfterPolicy(p) \in ClientAt
  BY DEF ClientAt, AfterPolicy
<1>1. CASE PolicySupports(p)
  BY <1>0, <1>1, ClientMovesTyped DEF PolicySupports
<1>2. CASE PolicyObserve(p)
  BY <1>0, <1>2, ClientMovesTyped DEF PolicyObserve
<1>3. ASSUME NEW due \in BOOLEAN, PolicyDue(p, due)
      PROVE  Typed'
  BY <1>0, <1>3, ClientMovesTyped DEF PolicyDue
<1>4. CASE PolicyClose(p)
  BY <1>0, <1>4, CloseRunTyped DEF PolicyClose
<1>5. ASSUME NEW expired \in BOOLEAN, PolicyRequested(p, expired)
      PROVE  Typed'
  BY <1>0, <1>5, ClientMovesTyped DEF PolicyRequested
<1>6. CASE PolicyForce(p)
  <2>1. cancelRequested' \in BOOLEAN /\ cancelAt' \in BOOLEAN
    BY <1>6 DEF PolicyForce, Typed, TypeOK
  <2> QED
    BY <1>0, <1>6, <2>1, ClientClosesTyped DEF PolicyForce
<1>7. CASE CancelRead(p)
  <2>1. status \in Terminal \cup {"cancelling", "running"}
    BY DEF Typed, TypeOK, Status, Active
  <2> QED
    BY <1>0, <1>7, <2>1, ClientMovesTyped DEF CancelRead
<1>8. CASE CancelEscalate(p)
  BY <1>0, <1>8, ClientMovesTyped DEF CancelEscalate
<1>9. CASE CancelClose(p)
  BY <1>0, <1>9, CloseRunTyped DEF CancelClose
<1>10. CASE CancelForce(p)
  BY <1>0, <1>10, CloseRunTyped DEF CancelForce
<1>11. CASE CancelSupports(p)
  BY <1>0, <1>11, ClientMovesTyped DEF CancelSupports
<1>12. CASE CancelMark(p)
  <2>1. /\ status' \in Status /\ intent' \in BOOLEAN
        /\ cancelRequested' \in BOOLEAN /\ cancelAt' \in BOOLEAN
    BY <1>12 DEF CancelMark, Status, Active
  <2> QED
    BY <1>0, <1>12, <2>1
       DEF CancelMark, GoTo, ClientUnchanged, Typed, TypeOK, WorkerOK
<1> QED
  BY <1>1, <1>2, <1>3, <1>4, <1>5, <1>6, <1>7, <1>8, <1>9, <1>10, <1>11, <1>12
     DEF ClientStep, PolicyStep, CancelStep

\* A registered run is typed (create_and_register_run).
LEMMA InitTyped == Init => Typed
<1> SUFFICES ASSUME Init PROVE Typed
  OBVIOUS
<1>1. worker \in Worker /\ WorkerOK(worker)
  <2>1. 0 \in 0..Attempts /\ 0 \in 0..MaxDeltas
    BY AsyncRunAssumption
  <2> QED
    BY <2>1 DEF Init, Worker, WorkerAt, WorkerOK, NoEvent
<1>2. events \in Seq(Event) /\ records \in Seq({"started"} \cup Terminal)
  BY DEF Init
<1> QED
  BY <1>1, <1>2 DEF Init, Typed, TypeOK, Status, Active, ClientAt

\* Every step keeps the types.
LEMMA StepTyped == Typed /\ [Next]_vars => Typed'
<1> SUFFICES ASSUME Typed, [Next]_vars PROVE Typed'
  OBVIOUS
<1>1. CASE StarterStep
  BY <1>1, StarterTyped
<1>2. CASE WorkerStep
  BY <1>2, WorkerTyped
<1>3. ASSUME NEW p \in Clients, CancelRequest(p) \/ WatchRequest(p)
      PROVE  Typed'
  BY <1>3, RequestTyped DEF CancelRequest, WatchRequest
<1>4. ASSUME NEW p \in Clients, ClientStep(p)
      PROVE  Typed'
  BY <1>4, ClientTyped
<1>5. CASE UNCHANGED vars
  BY <1>5 DEF vars, runVars, Typed, TypeOK, WorkerOK
<1> QED
  BY <1>1, <1>2, <1>3, <1>4, <1>5 DEF Next

\* The inductive form of type correctness.
LEMMA AlwaysTyped == Spec => []Typed
BY InitTyped, StepTyped, PTL DEF Spec

\* Whatever the interleaving, the run object, the records and the threads keep
\* their types; in particular the worker never delivers an event it does not
\* have (the callbacks of async_step_runtime_worker.py).
THEOREM TypeCorrect == Spec => []TypeOK
<1>1. Typed => TypeOK
  BY DEF Typed
<1> QED
  BY <1>1, AlwaysTyped, PTL

-----------------------------------------------------------------------------
(* The stream closes once.  Whatever a step does, all it does to the       *)
(* stream is to emit an event that does not close the run, or to go        *)
(* through _finalize_terminal_event_once.                                  *)

Errored == Append(events, Ev("error", "none"))

Emits ==
    \E c \in BOOLEAN, e \in Event :
        /\ e.type # "run_done" /\ e.type \in Deltas
        /\ events' = AppendIf(c, events, e)
        /\ emitted' = emitted

Finalizes == \E st \in Terminal, evs \in {events, Errored} : FinalizeEvent(st, evs)

StreamEffect == UNCHANGED <<events, emitted>> \/ Emits \/ Finalizes

\* The events emitted outside the finalizer are events and not run_done.
LEMMA KnownEvents ==
    \A kind \in Deltas \cup {"error"} :
        Ev(kind, "none") \in Event /\ Ev(kind, "none").type # "run_done"
<1> SUFFICES ASSUME NEW kind \in Deltas \cup {"error"}
             PROVE  Ev(kind, "none") \in Event /\ Ev(kind, "none").type # "run_done"
  OBVIOUS
<1>1. kind \in EventKind /\ kind # "run_done"
  BY DEF EventKind, Deltas, LlmActivity
<1> QED
  BY <1>1, EvFacts

\* emit_stream_event, called by the worker with a delta.
LEMMA EmitsIf ==
    ASSUME NEW c \in BOOLEAN, NEW kind \in Deltas,
           events' = AppendIf(c, events, Ev(kind, "none")), UNCHANGED emitted
    PROVE  Emits
BY KnownEvents DEF Emits, Ev

WorkerFinish == FinishOk \/ FinishCancelled \/ FinishFailed

\* What the worker does to the stream.
LEMMA WorkerEmits ==
    ASSUME Typed, WorkerStep
    PROVE  UNCHANGED <<events, emitted>> \/ Emits \/ WorkerFinish
<1>1. {"tool_progress", "llm_delta"} \subseteq Deltas
  BY DEF Deltas, LlmActivity
<1>2. emitted \in BOOLEAN
  BY DEF Typed, TypeOK
<1>3. CASE ToolEvent
  BY <1>1, <1>2, <1>3, EmitsIf DEF ToolEvent
<1>4. CASE Deliver
  <2>1. worker.pending \in Deltas
    BY <1>4 DEF Deliver, Typed, WorkerOK, Worker
  <2> QED
    BY <1>2, <1>4, <2>1, EmitsIf DEF Deliver
<1>5. ASSUME NEW unstreamed \in BOOLEAN, ReconcileCompletion(unstreamed)
      PROVE  Emits
  <2> DEFINE c == ~emitted /\ ~worker.fallback /\ unstreamed
  <2>1. c \in BOOLEAN /\ events' = AppendIf(c, events, Ev("llm_delta", "none"))
    BY <1>5 DEF ReconcileCompletion
  <2> HIDE DEF c
  <2> QED
    BY <1>1, <1>5, <2>1, EmitsIf DEF ReconcileCompletion
<1>6. ASSUME NEW blank \in BOOLEAN, ReconcileProjection(blank)
      PROVE  Emits
  <2> DEFINE c == worker.fallback /\ ~(ReasoningVisible \/ blank)
  <2>1. c \in BOOLEAN /\ events' = AppendIf(c, events, Ev("llm_delta", "none"))
    BY <1>6 DEF ReconcileProjection
  <2> HIDE DEF c
  <2> QED
    BY <1>1, <1>6, <2>1, EmitsIf DEF ReconcileProjection
<1> QED
  BY <1>3, <1>4, <1>5, <1>6
     DEF WorkerStep, WorkerFinish, Generate, OpenStream, StreamError,
         StreamCallback, StreamEnd, CompletionCheck, PersistOutputs,
         ProjectionCheck, ProjectionDelta, StepReturns, StepRaises,
         FinishUnlogged, ClearCloser, runVars

\* The outcome handlers go through the finalizer.
LEMMA WorkerEffect == ASSUME Typed, WorkerStep PROVE StreamEffect
<1>1. {"succeeded", "cancelled", "failed"} \subseteq Terminal
  BY DEF Terminal
<1>2. CASE WorkerFinish
  BY <1>1, <1>2 DEF WorkerFinish, FinishOk, FinishCancelled, FinishFailed,
                    FinalizeState, StreamEffect, Finalizes, Errored
<1> QED
  BY <1>2, WorkerEmits DEF StreamEffect

\* What a request thread does to the stream.
LEMMA ClientEffect ==
    ASSUME NEW p \in Clients, ClientStep(p)
    PROVE  UNCHANGED <<events, emitted>> \/ FinalizeEvent("cancelled", events)
BY DEF ClientStep, PolicyStep, CancelStep, PolicySupports, PolicyObserve,
       PolicyDue, PolicyClose, PolicyRequested, PolicyForce, CancelRead,
       CancelEscalate, CancelClose, CancelForce, CancelSupports, CancelMark,
       CloseRun, runVars

\* What any step does to the stream.
LEMMA NextEffect == ASSUME Typed, [Next]_vars PROVE StreamEffect
<1>1. CASE WorkerStep
  BY <1>1, WorkerEffect
<1>2. ASSUME NEW p \in Clients, ClientStep(p) PROVE StreamEffect
  <2>1. "cancelled" \in Terminal
    BY DEF Terminal
  <2> QED
    BY <1>2, <2>1, ClientEffect DEF StreamEffect, Finalizes
<1>3. CASE UNCHANGED <<events, emitted>>
  BY <1>3 DEF StreamEffect
<1> QED
  BY <1>1, <1>2, <1>3
     DEF Next, StarterStep, StartWorker, WriteStarted, CancelRequest,
         WatchRequest, Request, vars, runVars

Closed == IF emitted THEN OneDone(events) ELSE NoDone(events)

\* An effect on the stream keeps it open or closed once.
LEMMA StepCloses == ASSUME Typed, Closed, StreamEffect PROVE Closed'
<1>1. events \in Seq(Event) /\ emitted \in BOOLEAN
  BY DEF Typed, TypeOK
<1>2. CASE UNCHANGED <<events, emitted>>
  BY <1>2 DEF Closed
<1>3. CASE Emits
  BY <1>1, <1>3, AppendOther DEF Closed, Emits
<1>4. ASSUME NEW st \in Terminal, NEW evs \in {events, Errored},
             FinalizeEvent(st, evs)
      PROVE  Closed'
  <2>1. /\ evs \in Seq(Event) /\ (OneDone(events) => OneDone(evs))
        /\ (NoDone(events) => NoDone(evs))
    <3>1. /\ Ev("error", "none") \in Event /\ Ev("error", "none").type # "run_done"
      BY KnownEvents
    <3>2. AppendIf(TRUE, events, Ev("error", "none")) = Errored
      BY DEF AppendIf, Errored
    <3> QED
      BY <1>1, <3>1, <3>2, AppendOther
  <2>2. CASE emitted
    BY <1>4, <2>1, <2>2 DEF FinalizeEvent, Closed
  <2>3. CASE ~emitted
    BY <1>4, <2>1, <2>3, ClosedFacts DEF FinalizeEvent, Closed
  <2> QED
    BY <2>2, <2>3
<1> QED
  BY <1>2, <1>3, <1>4 DEF StreamEffect, Finalizes

\* The inductive form of StreamClosesOnce.
LEMMA AlwaysClosed == Spec => []Closed
<1>1. Init => Closed
  BY DEF Init, Closed, NoDone
<1>2. Typed /\ Closed /\ [Next]_vars => Closed'
  BY NextEffect, StepCloses
<1> QED
  BY <1>1, <1>2, AlwaysTyped, PTL DEF Spec

\* For any number of threads racing to close it, a run's stream gets exactly one
\* run_done, and terminal_event_emitted tells whether it did.
THEOREM StreamClosesOnce == Spec => []ClosesOnce
<1>1. Typed /\ Closed => ClosesOnce
  BY DEF Typed, TypeOK, Closed, OneDone, NoDone, ClosesOnce, IsRunDone
<1> QED
  BY <1>1, AlwaysTyped, AlwaysClosed, PTL

-----------------------------------------------------------------------------
(* Cancellation flags: a forced close is always backed by a request the    *)
(* worker can see.                                                         *)

Flags ==
    /\ cancelAt => cancelRequested
    /\ \A p \in Clients : pc[p] = "pol_force" => cancelAt

FlagsKept == UNCHANGED <<cancelRequested, cancelAt>>

\* The starter and the worker leave the cancellation flags alone.
LEMMA WorkerFlags ==
    ASSUME StarterStep \/ WorkerStep PROVE FlagsKept /\ UNCHANGED pc
BY DEF StarterStep, StartWorker, WriteStarted, WorkerStep, ToolEvent, Generate,
       OpenStream, StreamError, StreamCallback, Deliver, StreamEnd,
       CompletionCheck, ReconcileCompletion, PersistOutputs, ProjectionCheck,
       ReconcileProjection, ProjectionDelta, StepReturns, StepRaises, FinishOk,
       FinishCancelled, FinishFailed, FinishUnlogged, ClearCloser,
       WorkerFinished, WorkerUnchanged, FlagsKept, runVars

\* Request threads only ever raise the flags.
LEMMA ClientFlags ==
    ASSUME Typed, Flags, NEW p \in Clients, ClientStep(p)
    PROVE  Flags' /\ (cancelRequested => cancelRequested')
<1>0. pc \in [Clients -> ClientAt] /\ AfterPolicy(p) # "pol_force"
  BY DEF Typed, TypeOK, AfterPolicy
<1>1. ASSUME NEW at, GoTo(p, at), at = "pol_force" => cancelAt', cancelAt => cancelAt',
             cancelAt' => cancelRequested', cancelRequested => cancelRequested'
      PROVE  Flags' /\ (cancelRequested => cancelRequested')
  BY <1>0, <1>1 DEF Flags, GoTo
<1>2. CASE PolicySupports(p)
  BY <1>1, <1>2 DEF PolicySupports, Flags, runVars
<1>3. CASE PolicyObserve(p)
  BY <1>0, <1>1, <1>3 DEF PolicyObserve, Flags, runVars
<1>4. ASSUME NEW due \in BOOLEAN, PolicyDue(p, due)
      PROVE  Flags' /\ (cancelRequested => cancelRequested')
  BY <1>0, <1>1, <1>4 DEF PolicyDue, Flags, runVars
<1>5. CASE PolicyClose(p) \/ CancelClose(p) \/ CancelForce(p)
  BY <1>0, <1>1, <1>5 DEF PolicyClose, CancelClose, CancelForce, CloseRun, Flags
<1>6. ASSUME NEW expired \in BOOLEAN, PolicyRequested(p, expired)
      PROVE  Flags' /\ (cancelRequested => cancelRequested')
  BY <1>0, <1>1, <1>6 DEF PolicyRequested, Flags, runVars
<1>7. CASE PolicyForce(p)
  BY <1>0, <1>1, <1>7 DEF PolicyForce, Flags
<1>8. CASE CancelRead(p)
  <2>1. status \in Terminal \cup {"cancelling", "running"}
    BY DEF Typed, TypeOK, Status, Active
  <2>2. \E at \in {"idle", "c_escalate", "c_supports"} : GoTo(p, at)
    BY <1>8, <2>1 DEF CancelRead
  <2> QED
    BY <1>1, <1>8, <2>2 DEF CancelRead, Flags, runVars
<1>9. CASE CancelEscalate(p) \/ CancelSupports(p)
  BY <1>1, <1>9 DEF CancelEscalate, CancelSupports, Flags, runVars
<1>10. CASE CancelMark(p)
  BY <1>1, <1>10 DEF CancelMark, Flags
<1> QED
  BY <1>2, <1>3, <1>4, <1>5, <1>6, <1>7, <1>8, <1>9, <1>10
     DEF ClientStep, PolicyStep, CancelStep

\* Every step keeps Flags, and cancel_requested is never withdrawn.
LEMMA StepFlags ==
    ASSUME Typed, Flags, [Next]_vars
    PROVE  Flags' /\ (cancelRequested => cancelRequested')
<1>1. CASE StarterStep \/ WorkerStep
  BY <1>1, WorkerFlags DEF Flags, FlagsKept
<1>2. ASSUME NEW p \in Clients, CancelRequest(p) \/ WatchRequest(p)
      PROVE  Flags' /\ (cancelRequested => cancelRequested')
  BY <1>2 DEF CancelRequest, WatchRequest, Request, GoTo, Typed, TypeOK, Flags,
              runVars
<1>3. ASSUME NEW p \in Clients, ClientStep(p)
      PROVE  Flags' /\ (cancelRequested => cancelRequested')
  BY <1>3, ClientFlags
<1>4. CASE UNCHANGED vars
  BY <1>4 DEF vars, runVars, Flags
<1> QED
  BY <1>1, <1>2, <1>3, <1>4 DEF Next

\* A deadline that can expire belongs to a visible request.
LEMMA AlwaysFlags == Spec => []Flags
<1>1. Init => Flags
  BY DEF Init, Flags
<1>2. Typed /\ Flags /\ [Next]_vars => Flags'
  BY StepFlags
<1> QED
  BY <1>1, <1>2, AlwaysTyped, PTL DEF Spec

-----------------------------------------------------------------------------
(* The durable record agrees with the stream.  The invariant says why:     *)
(* until the worker writes the record, only a visible cancellation can     *)
(* have closed the stream; afterwards nothing touches either.              *)

DoneIs(evs, S) ==
    \A i \in 1..Len(evs) : evs[i].type = "run_done" => evs[i].status \in S

\* The run_done events of new are run_done events of old.
SameDone(old, new) ==
    \A i \in 1..Len(new) :
        new[i].type = "run_done" => i \in 1..Len(old) /\ new[i] = old[i]

Fin == {"clear", "dead"}

Agree ==
    /\ emitted /\ ~recorded => cancelRequested /\ DoneIs(events, {"cancelled"})
    /\ recorded => emitted
    /\ worker.at \notin Fin => ~recorded
    /\ ~recorded => \A r \in 1..Len(records) : records[r] = "started"
    /\ DurableAgrees

\* Emitting another event leaves the run_done events as they are.
LEMMA EmitSameDone ==
    ASSUME NEW evs \in Seq(Event), NEW c \in BOOLEAN, NEW e \in Event,
           e.type # "run_done"
    PROVE  SameDone(evs, AppendIf(c, evs, e))
BY DEF SameDone, AppendIf

\* The finalizer announces the status it chose.
LEMMA ClosedDone ==
    ASSUME NEW evs \in Seq(Event), NEW st \in Terminal, NoDone(evs)
    PROVE  DoneIs(ClosedEvents(st, evs), {ClosedStatus(st, evs)})
<1>1. PICK before \in Seq(Event) :
        /\ NoDone(before)
        /\ ClosedEvents(st, evs) =
             Append(before, Ev("run_done", ClosedStatus(st, evs)))
  BY ClosedFacts
<1>2. Ev("run_done", ClosedStatus(st, evs)).status = ClosedStatus(st, evs)
  BY DEF Ev
<1> QED
  BY <1>1, <1>2 DEF DoneIs, NoDone

\* Steps that do not close the run and write no terminal record.
Quiet ==
    /\ SameDone(events, events') /\ emitted' = emitted
    /\ recorded' = recorded
    /\ records' = records \/ records' = Append(records, "started")
    /\ worker.at \in Fin => worker'.at \in Fin

\* A quiet step cannot disturb the agreement.
LEMMA QuietAgrees ==
    ASSUME Typed, Agree, Quiet, cancelRequested => cancelRequested',
           events' \in Seq(Event)
    PROVE  Agree'
<1>1. records \in Seq({"started"} \cup Terminal) /\ events \in Seq(Event)
  BY DEF Typed, TypeOK
<1>2. emitted' /\ ~recorded' => cancelRequested' /\ DoneIs(events', {"cancelled"})
  BY DEF Agree, Quiet, SameDone, DoneIs
<1>3. \A r \in 1..Len(records') :
        \/ records'[r] = "started"
        \/ r \in 1..Len(records) /\ records'[r] = records[r]
  <2>1. CASE records' = records
    BY <2>1
  <2>2. CASE records' = Append(records, "started")
    BY <1>1, <2>2
  <2> QED
    BY <2>1, <2>2 DEF Quiet
<1>4. ~recorded' => \A r \in 1..Len(records') : records'[r] = "started"
  BY <1>3 DEF Agree, Quiet
<1>5. DurableAgrees'
  <2> SUFFICES ASSUME NEW r \in 1..Len(records'), NEW i \in 1..Len(events'),
                      records'[r] \in Terminal, events'[i].type = "run_done"
               PROVE  \/ records'[r] = events'[i].status
                      \/ records'[r] = "failed" /\ events'[i].status = "cancelled"
    BY DEF DurableAgrees, IsRunDone
  <2>1. r \in 1..Len(records) /\ records'[r] = records[r]
    BY <1>3 DEF Terminal
  <2>2. i \in 1..Len(events) /\ events'[i] = events[i]
    BY DEF Quiet, SameDone
  <2> QED
    BY <2>1, <2>2 DEF Agree, DurableAgrees, IsRunDone
<1>6. worker'.at \notin Fin => ~recorded'
  BY DEF Agree, Quiet
<1> QED
  BY <1>2, <1>4, <1>5, <1>6 DEF Agree, Quiet

\* A request thread closes the run.
LEMMA CancelAgrees ==
    ASSUME Typed, Closed, Agree, FinalizeEvent("cancelled", events),
           cancelRequested', UNCHANGED <<recorded, records, worker>>
    PROVE  Agree'
<1>1. events \in Seq(Event) /\ emitted \in BOOLEAN /\ recorded \in BOOLEAN
  BY DEF Typed, TypeOK
<1>2. CASE emitted
  BY <1>2 DEF FinalizeEvent, Agree, DurableAgrees, IsRunDone
<1>3. CASE ~emitted
  <2>1. "cancelled" \in Terminal /\ ClosedStatus("cancelled", events) = "cancelled"
    BY DEF Terminal, ClosedStatus, MissingAnswer
  <2>2. DoneIs(events', {"cancelled"}) /\ emitted'
    BY <1>1, <1>3, <2>1, ClosedDone DEF FinalizeEvent, Closed
  <2>3. ~recorded /\ \A r \in 1..Len(records) : records[r] = "started"
    BY <1>3 DEF Agree
  <2>4. "started" \notin Terminal
    BY DEF Terminal
  <2> QED
    BY <2>2, <2>3, <2>4 DEF Agree, DurableAgrees
<1> QED
  BY <1>2, <1>3

\* The worker ends: st is a success only when no cancellation is visible.
LEMMA EndAgrees ==
    ASSUME Typed, Closed, Agree, worker.at \notin Fin,
           NEW st \in Terminal, NEW evs \in Seq(Event),
           SameDone(events, evs), NoDone(events) => NoDone(evs),
           cancelRequested => st # "succeeded",
           FinalizeState(st, evs), worker'.at \in Fin
    PROVE  Agree'
<1>1. events \in Seq(Event) /\ emitted \in BOOLEAN /\ ~recorded
      /\ records \in Seq({"started"} \cup Terminal)
  BY DEF Typed, TypeOK, Agree
<1>2. emitted' /\ recorded' = TRUE
  BY DEF FinalizeState, FinalizeEvent, FinalizeRecord
<1>3. DoneIs(events', {status'}) \/ (status' = "failed" /\ DoneIs(events', {"cancelled"}))
  <2>1. CASE emitted
    <3>1. cancelRequested /\ DoneIs(events, {"cancelled"})
      BY <1>1, <2>1 DEF Agree
    <3>2. DoneIs(evs, {"cancelled"})
      BY <3>1 DEF DoneIs, SameDone
    <3>3. events' = evs /\ status' = st /\ st \in {"failed", "cancelled"}
      BY <2>1, <3>1 DEF FinalizeState, FinalizeEvent, Terminal
    <3> QED
      BY <3>2, <3>3
  <2>2. CASE ~emitted
    BY <2>2, ClosedDone DEF FinalizeState, FinalizeEvent, Closed
  <2> QED
    BY <1>1, <2>1, <2>2
<1>4. \A r \in 1..Len(records') : records'[r] \in Terminal => records'[r] = status'
  <2>1. \A r \in 1..Len(records) : records[r] \notin Terminal
    BY <1>1 DEF Agree, Terminal
  <2>2. CASE records' = records
    BY <2>1, <2>2
  <2>3. CASE records' = Append(records, status')
    <3> DEFINE S == {"started"} \cup Terminal
               new == Append(records, status')
    <3>1. records \in Seq(S)
      BY <1>1
    <3> HIDE DEF S
    <3>2. /\ Len(new) = Len(records) + 1 /\ Len(records) \in Nat
          /\ \A r \in 1..Len(records) : new[r] = records[r]
          /\ new[Len(records) + 1] = status'
      BY <3>1
    <3> QED
      BY <2>1, <2>3, <3>2
  <2> QED
    BY <2>2, <2>3 DEF FinalizeState, FinalizeRecord, WriteRunRecord
<1>5. DurableAgrees'
  BY <1>3, <1>4 DEF DurableAgrees, DoneIs, IsRunDone
<1> QED
  BY <1>2, <1>5 DEF Agree

\* Apart from its outcome handlers the worker writes no record and never
\* comes back from its end.
LEMMA WorkerQuiet ==
    ASSUME Typed, WorkerStep, ~WorkerFinish
    PROVE  UNCHANGED <<recorded, records>> /\ (worker.at \in Fin => worker'.at \in Fin)
<1>1. CASE ClearCloser
  BY <1>1 DEF ClearCloser, Typed, WorkerOK, Worker, Fin
<1>2. CASE ~ClearCloser
  <2>1. worker.at \notin Fin
    BY <1>2 DEF WorkerStep, WorkerFinish, ToolEvent, Generate, OpenStream,
                StreamError, StreamCallback, Deliver, StreamEnd,
                CompletionCheck, ReconcileCompletion, PersistOutputs,
                ProjectionCheck, ReconcileProjection, ProjectionDelta,
                StepReturns, StepRaises, FinishUnlogged, Fin
  <2>2. UNCHANGED <<recorded, records>>
    BY <1>2 DEF WorkerStep, WorkerFinish, ToolEvent, Generate, OpenStream,
                StreamError, StreamCallback, Deliver, StreamEnd,
                CompletionCheck, ReconcileCompletion, PersistOutputs,
                ProjectionCheck, ReconcileProjection, ProjectionDelta,
                StepReturns, StepRaises, FinishUnlogged, runVars
  <2> QED
    BY <2>1, <2>2
<1> QED
  BY <1>1, <1>2

\* Request threads write no record and leave the worker alone.
LEMMA ClientQuiet ==
    ASSUME NEW p \in Clients, ClientStep(p)
    PROVE  UNCHANGED <<recorded, records, worker>>
BY DEF ClientStep, PolicyStep, CancelStep, PolicySupports, PolicyObserve,
       PolicyDue, PolicyClose, PolicyRequested, PolicyForce, CancelRead,
       CancelEscalate, CancelClose, CancelForce, CancelSupports, CancelMark,
       CloseRun, ClientUnchanged, runVars

\* A request thread that closes an open run does so on a visible request.
LEMMA CloseIsRequested ==
    ASSUME Flags, NEW p \in Clients, ClientStep(p), ~UNCHANGED <<events, emitted>>
    PROVE  cancelRequested'
<1>1. CASE PolicyForce(p)
  BY <1>1 DEF PolicyForce, Flags
<1>2. CASE PolicyClose(p) \/ CancelClose(p) \/ CancelForce(p)
  BY <1>2 DEF PolicyClose, CancelClose, CancelForce, CloseRun
<1> QED
  BY <1>1, <1>2
     DEF ClientStep, PolicyStep, CancelStep, PolicySupports, PolicyObserve,
         PolicyDue, PolicyRequested, CancelRead, CancelEscalate,
         CancelSupports, CancelMark, runVars

\* A stream left alone has the same run_done events.
LEMMA NoEmission == events' = events => SameDone(events, events')
BY DEF SameDone

\* The three outcomes of the worker keep the agreement.
LEMMA FinishAgrees ==
    ASSUME Typed, Closed, Agree, WorkerFinish PROVE Agree'
<1>1. /\ events \in Seq(Event) /\ SameDone(events, events)
      /\ cancelRequested \in BOOLEAN
  BY DEF Typed, TypeOK, SameDone
<1>2. worker.at \notin Fin /\ worker'.at \in Fin
  BY DEF WorkerFinish, FinishOk, FinishCancelled, FinishFailed, WorkerFinished,
         Fin, Typed, WorkerOK, Worker
<1>3. {"succeeded", "cancelled", "failed"} \subseteq Terminal
  BY DEF Terminal
<1>4. CASE FinishOk
  BY <1>1, <1>2, <1>3, <1>4, EndAgrees DEF FinishOk
<1>5. CASE FinishCancelled
  BY <1>1, <1>2, <1>3, <1>5, EndAgrees DEF FinishCancelled
<1>6. CASE FinishFailed
  <2>1. Ev("error", "none") \in Event /\ Ev("error", "none").type # "run_done"
    BY KnownEvents
  <2>2. Errored = AppendIf(TRUE, events, Ev("error", "none"))
    BY DEF Errored, AppendIf
  <2>3. /\ Errored \in Seq(Event) /\ SameDone(events, Errored)
        /\ NoDone(events) => NoDone(Errored)
    BY <1>1, <2>1, <2>2, AppendOther, EmitSameDone
  <2>4. FinalizeState("failed", Errored)
    BY <1>6 DEF FinishFailed, Errored
  <2> HIDE DEF Errored
  <2> QED
    BY <1>2, <1>3, <2>3, <2>4, EndAgrees
<1> QED
  BY <1>4, <1>5, <1>6 DEF WorkerFinish

\* The worker does nothing before it is started.
Born == starter = "new" => worker.at = "unborn"

\* A run that was not started has an unborn worker.
LEMMA AlwaysBorn == Spec => []Born
<1>1. Init => Born
  BY DEF Init, Born
<1>2. ASSUME Born, [Next]_vars PROVE Born'
  <2>1. CASE StarterStep
    BY <2>1 DEF StarterStep, StartWorker, WriteStarted, Born
  <2>2. CASE WorkerStep
    <3>1. worker.at # "unborn"
      BY <2>2 DEF WorkerStep, ToolEvent, Generate, OpenStream, StreamError,
                  StreamCallback, Deliver, StreamEnd, CompletionCheck,
                  ReconcileCompletion, PersistOutputs, ProjectionCheck,
                  ReconcileProjection, ProjectionDelta, StepReturns, StepRaises,
                  FinishOk, FinishCancelled, FinishFailed, FinishUnlogged,
                  ClearCloser
    <3>2. UNCHANGED starter
      BY <2>2 DEF WorkerStep, ToolEvent, Generate, OpenStream, StreamError,
                  StreamCallback, Deliver, StreamEnd, CompletionCheck,
                  ReconcileCompletion, PersistOutputs, ProjectionCheck,
                  ReconcileProjection, ProjectionDelta, StepReturns, StepRaises,
                  FinishOk, FinishCancelled, FinishFailed, FinishUnlogged,
                  ClearCloser, WorkerFinished, WorkerUnchanged
    <3> QED
      BY <1>2, <3>1, <3>2 DEF Born
  <2>3. ASSUME NEW p \in Clients, ClientStep(p) PROVE UNCHANGED <<starter, worker>>
    BY <2>3 DEF ClientStep, PolicyStep, CancelStep, PolicySupports,
                PolicyObserve, PolicyDue, PolicyClose, PolicyRequested,
                PolicyForce, CancelRead, CancelEscalate, CancelClose,
                CancelForce, CancelSupports, CancelMark, ClientUnchanged
  <2>4. CASE \/ \E p \in Clients : CancelRequest(p) \/ WatchRequest(p)
             \/ UNCHANGED vars
    BY <1>2, <2>4 DEF CancelRequest, WatchRequest, Request, Born, vars
  <2> QED
    BY <1>2, <2>1, <2>2, <2>3, <2>4 DEF Next, Born
<1> QED
  BY <1>1, <1>2, PTL DEF Spec

\* Every step keeps the agreement.
LEMMA StepAgrees ==
    ASSUME Typed, Closed, Flags, Born, Agree, [Next]_vars PROVE Agree'
<1>0. /\ events' \in Seq(Event) /\ events \in Seq(Event)
      /\ cancelRequested => cancelRequested'
  BY StepTyped, StepFlags DEF Typed, TypeOK
<1>1. CASE WorkerStep /\ ~WorkerFinish
  <2>1. SameDone(events, events') /\ emitted' = emitted
    BY <1>0, <1>1, WorkerEmits, EmitSameDone, NoEmission DEF Emits
  <2> QED
    BY <1>0, <1>1, <2>1, WorkerQuiet, QuietAgrees DEF Quiet
<1>2. CASE WorkerFinish
  BY <1>2, FinishAgrees
<1>3. ASSUME NEW p \in Clients, ClientStep(p) PROVE Agree'
  <2>1. CASE UNCHANGED <<events, emitted>>
    BY <1>0, <1>3, <2>1, ClientQuiet, NoEmission, QuietAgrees DEF Quiet
  <2>2. CASE ~UNCHANGED <<events, emitted>>
    BY <1>3, <2>2, ClientEffect, ClientQuiet, CloseIsRequested, CancelAgrees
  <2> QED
    BY <2>1, <2>2
<1>4. CASE StartWorker
  <2>1. worker.at \notin Fin
    BY <1>4 DEF StartWorker, Born, Fin
  <2> QED
    BY <1>0, <1>4, <2>1, NoEmission, QuietAgrees DEF StartWorker, Quiet, runVars
<1>5. CASE WriteStarted
  BY <1>0, <1>5, NoEmission, QuietAgrees
     DEF WriteStarted, WriteRunRecord, Quiet, runVars
<1>6. CASE \/ \E p \in Clients : CancelRequest(p) \/ WatchRequest(p)
           \/ UNCHANGED vars
  BY <1>0, <1>6, NoEmission, QuietAgrees
     DEF CancelRequest, WatchRequest, Request, Quiet, vars, runVars
<1> QED
  BY <1>1, <1>2, <1>3, <1>4, <1>5, <1>6 DEF Next, StarterStep

\* The outcome in the journal is the outcome the stream announced, except that
\* a run announced as cancelled may be recorded as failed; for any number of
\* cancelling and watching threads and any failure of the record's write
\* (finalize_terminal_state against cancel_async_step and the policy).
THEOREM DurableOutcomeAgrees == Spec => []DurableAgrees
<1>1. Init => Agree
  BY DEF Init, Agree, DurableAgrees, DoneIs
<1>2. Typed /\ Closed /\ Flags /\ Born /\ Agree /\ [Next]_vars => Agree'
  BY StepAgrees
<1>3. Agree => DurableAgrees
  BY DEF Agree
<1> QED
  BY <1>1, <1>2, <1>3, AlwaysTyped, AlwaysClosed, AlwaysFlags, AlwaysBorn, PTL
     DEF Spec

\* A run whose cancellation the worker can see is never announced as a success:
\* FinishOk looks at the flag in the lock section that closes the stream.
THEOREM NoSuccessOnceCancelled == Spec => NoSuccessAfterCancel
<1>1. ASSUME Typed, [Next]_vars, cancelRequested, ~emitted, emitted'
      PROVE  events'[Len(events')].status # "succeeded"
  <2>1. ASSUME NEW st \in {"failed", "cancelled"}, NEW evs \in Seq(Event),
               FinalizeEvent(st, evs)
        PROVE  events'[Len(events')].status # "succeeded"
    <3>1. st \in Terminal /\ ClosedStatus(st, evs) = st
      BY DEF Terminal, ClosedStatus, MissingAnswer
    <3>2. PICK before \in Seq(Event) : events' = Append(before, Ev("run_done", st))
      BY <1>1, <2>1, <3>1, ClosedFacts DEF FinalizeEvent
    <3>3. events'[Len(events')] = Ev("run_done", st)
      BY <3>2
    <3> QED
      BY <3>3 DEF Ev
  <2>2. events \in Seq(Event) /\ Append(events, Ev("error", "none")) \in Seq(Event)
    <3>1. Ev("error", "none") \in Event
      BY KnownEvents
    <3> QED
      BY <1>1, <3>1 DEF Typed, TypeOK
  <2>3. ~UNCHANGED <<events, emitted>> /\ ~Emits
    BY <1>1 DEF Emits
  <2>4. CASE WorkerStep
    <3>1. WorkerFinish
      BY <1>1, <2>3, <2>4, WorkerEmits
    <3> QED
      BY <1>1, <2>1, <2>2, <3>1
         DEF WorkerFinish, FinishOk, FinishCancelled, FinishFailed, FinalizeState
  <2>5. ASSUME NEW p \in Clients, ClientStep(p)
        PROVE  events'[Len(events')].status # "succeeded"
    BY <2>1, <2>2, <2>3, <2>5, ClientEffect
  <2> QED
    BY <1>1, <2>3, <2>4, <2>5
       DEF Next, StarterStep, StartWorker, WriteStarted, CancelRequest,
           WatchRequest, Request, vars, runVars
<1>2. Typed /\ [Next]_vars =>
        [cancelRequested /\ ~emitted /\ emitted' =>
           events'[Len(events')].status # "succeeded"]_vars
  BY <1>1
<1> QED
  BY <1>2, AlwaysTyped, PTL DEF Spec, NoSuccessAfterCancel

-----------------------------------------------------------------------------
(* A success is earned.  The worker reaches its successful return only     *)
(* over the write of the step's messages, and the stream is closed with a  *)
(* success only after a look at what it holds.                             *)

Streamed(evs, n, kinds) == \E i \in 1..n : evs[i].type \in kinds

\* Every success in evs is earned, with messages written and reasoning allowed
\* as given.
EarnedIn(evs, written, allowed) ==
    \A i \in 1..Len(evs) : evs[i].type = "run_done" /\ evs[i].status = "succeeded" =>
        /\ written
        /\ Streamed(evs, i, LlmActivity) => Streamed(evs, i, {"llm_delta"}) \/ allowed

HasWritten(w) ==
    \/ w.at \in {"nodes", "projecting", "project", "ret_ok"}
    \/ w.at = "deliver" /\ w.back = "project"

Earned ==
    /\ HasWritten(worker) => persisted
    /\ worker.at = "deliver" => worker.back \in {"gen", "project"}
    /\ EarnedIn(events, persisted, allowReasoning)

\* What new has beyond old is neither model activity nor the end of the run.
Grown(old, new) ==
    /\ Len(old) <= Len(new)
    /\ \A i \in 1..Len(old) : new[i] = old[i]
    /\ \A i \in 1..Len(new) : i > Len(old) => new[i].type \notin LlmActivity \cup {"run_done"}

\* The start of a stream has what was streamed by then.
LEMMA StreamedPrefix ==
    ASSUME NEW evs \in Seq(Event), NEW n \in 1..Len(evs), NEW kinds
    PROVE  Has(SubSeq(evs, 1, n), kinds) <=> Streamed(evs, n, kinds)
<1>1. Len(SubSeq(evs, 1, n)) = n /\ \A i \in 1..n : SubSeq(evs, 1, n)[i] = evs[i]
  OBVIOUS
<1> QED
  BY <1>1 DEF Has, Streamed

\* The earned successes of a stream stay earned when other events follow.
LEMMA EmittedEarned ==
    ASSUME NEW evs \in Seq(Event), NEW c \in BOOLEAN, NEW e \in Event, e.type # "run_done",
           NEW written, NEW allowed, EarnedIn(evs, written, allowed)
    PROVE  EarnedIn(AppendIf(c, evs, e), written, allowed)
<1> DEFINE new == AppendIf(c, evs, e)
<1>1. /\ Len(evs) \in Nat /\ Len(new) \in {Len(evs), Len(evs) + 1}
      /\ \A i \in 1..Len(evs) : new[i] = evs[i]
      /\ \A i \in 1..Len(new) : i \notin 1..Len(evs) => new[i].type # "run_done"
  BY DEF AppendIf
<1> HIDE DEF new
<1> SUFFICES ASSUME NEW i \in 1..Len(new), new[i].type = "run_done", new[i].status = "succeeded"
             PROVE  /\ written
                    /\ Streamed(new, i, LlmActivity) =>
                          Streamed(new, i, {"llm_delta"}) \/ allowed
  BY DEF EarnedIn, new
<1>2. i \in 1..Len(evs) /\ \A j \in 1..i : new[j] = evs[j]
  BY <1>1
<1>3. evs[i].type = "run_done" /\ evs[i].status = "succeeded"
  BY <1>1, <1>2
<1> QED
  BY <1>2, <1>3 DEF EarnedIn, Streamed

\* What a success needs is never taken back.
LEMMA EarnedStays ==
    ASSUME NEW evs, NEW written, NEW allowed, EarnedIn(evs, written, allowed),
           NEW written1, NEW allowed1, written => written1, allowed => allowed1
    PROVE  EarnedIn(evs, written1, allowed1)
BY DEF EarnedIn

\* One event of the finalizer.
LEMMA AppendGrown ==
    ASSUME NEW evs \in Seq(Event), NEW old \in Seq(Event), Grown(evs, old),
           NEW c \in BOOLEAN, NEW e \in Event, e.type \notin LlmActivity \cup {"run_done"}
    PROVE  AppendIf(c, old, e) \in Seq(Event) /\ Grown(evs, AppendIf(c, old, e))
<1> DEFINE new == AppendIf(c, old, e)
<1>1. /\ Len(evs) \in Nat /\ Len(old) \in Nat /\ new \in Seq(Event)
      /\ Len(new) \in {Len(old), Len(old) + 1}
      /\ \A i \in 1..Len(old) : new[i] = old[i]
      /\ \A i \in 1..Len(new) : i \notin 1..Len(old) => new[i] = e
  BY DEF AppendIf
<1> HIDE DEF new
<1>2. Len(evs) <= Len(new) /\ \A i \in 1..Len(evs) : new[i] = evs[i]
  BY <1>1 DEF Grown
<1>3. ASSUME NEW i \in 1..Len(new), i > Len(evs)
      PROVE  new[i].type \notin LlmActivity \cup {"run_done"}
  <2>1. CASE i \in 1..Len(old)
    BY <1>1, <1>3, <2>1 DEF Grown
  <2>2. CASE i \notin 1..Len(old)
    BY <1>1, <2>2
  <2> QED
    BY <2>1, <2>2
<1> QED
  BY <1>1, <1>2, <1>3 DEF Grown, new

\* _finalize_terminal_event_once adds no model activity to the stream it ends.
LEMMA ClosedGrown ==
    ASSUME NEW evs \in Seq(Event), NEW st \in Terminal
    PROVE  \E before \in Seq(Event) :
              /\ Grown(evs, before)
              /\ ClosedEvents(st, evs) = Append(before, Ev("run_done", ClosedStatus(st, evs)))
<1> DEFINE final == ClosedStatus(st, evs)
           e1 == AppendIf(MissingAnswer(st, evs), evs, Ev("error", "none"))
           e2 == AppendIf(projection_open(evs), e1, Ev("projection_done", final))
           e3 == AppendIf(llm_activity_seen(evs), e2, Ev("llm_done", final))
<1>1. final \in Terminal
  BY DEF ClosedStatus, Terminal
<1>2. /\ MissingAnswer(st, evs) \in BOOLEAN /\ projection_open(evs) \in BOOLEAN
      /\ llm_activity_seen(evs) \in BOOLEAN
  BY DEF MissingAnswer, projection_open, llm_activity_seen, Has
<1>3. /\ Ev("error", "none") \in Event /\ Ev("error", "none").type = "error"
      /\ Ev("projection_done", final) \in Event
      /\ Ev("projection_done", final).type = "projection_done"
      /\ Ev("llm_done", final) \in Event /\ Ev("llm_done", final).type = "llm_done"
  BY <1>1 DEF Ev, Event, EventKind, Status
<1>4. {"error", "projection_done", "llm_done"} \cap (LlmActivity \cup {"run_done"}) = {}
  BY DEF LlmActivity
<1> HIDE DEF final
<1>5. Grown(evs, evs)
  BY DEF Grown
<1>6. e1 \in Seq(Event) /\ Grown(evs, e1)
  BY <1>2, <1>3, <1>4, <1>5, AppendGrown
<1> HIDE DEF e1
<1>7. e2 \in Seq(Event) /\ Grown(evs, e2)
  BY <1>2, <1>3, <1>4, <1>6, AppendGrown
<1> HIDE DEF e2
<1>8. e3 \in Seq(Event) /\ Grown(evs, e3)
  BY <1>2, <1>3, <1>4, <1>7, AppendGrown
<1>9. ClosedEvents(st, evs) = Append(e3, Ev("run_done", final))
  BY DEF ClosedEvents, e3, e2, e1, final
<1> QED
  BY <1>8, <1>9 DEF final

\* An open stream is closed with a success only if that is earned.
LEMMA ClosedEarned ==
    ASSUME NEW evs \in Seq(Event), NEW st \in Terminal, NoDone(evs),
           NEW written, st = "succeeded" => written
    PROVE  EarnedIn(ClosedEvents(st, evs), written, allowReasoning)
<1> DEFINE new == ClosedEvents(st, evs)
           final == ClosedStatus(st, evs)
<1>1. PICK before \in Seq(Event) : Grown(evs, before) /\ new = Append(before, Ev("run_done", final))
  BY ClosedGrown
<1>2. Ev("run_done", final) \in Event /\ Ev("run_done", final).status = final
  BY ClosedFacts DEF Ev, Event, EventKind, Status
<1>3. final = "succeeded" => st = "succeeded" /\ ~MissingAnswer(st, evs)
  BY DEF ClosedStatus
<1> HIDE DEF final, new
<1>4. /\ Len(evs) \in Nat /\ Len(before) \in Nat /\ Len(evs) <= Len(before)
      /\ Len(new) = Len(before) + 1
      /\ new[Len(new)] = Ev("run_done", final)
      /\ \A i \in 1..Len(before) : new[i] = before[i]
  BY <1>1, <1>2 DEF Grown
<1>5. \A i \in 1..Len(before) : new[i].type # "run_done"
  <2> SUFFICES ASSUME NEW i \in 1..Len(before) PROVE before[i].type # "run_done"
    BY <1>4
  <2>1. CASE i <= Len(evs)
    BY <1>1, <1>4, <2>1 DEF Grown, NoDone
  <2>2. CASE i > Len(evs)
    BY <1>1, <2>2 DEF Grown
  <2> QED
    BY <1>4, <2>1, <2>2
<1>6. ASSUME NEW kinds \in SUBSET LlmActivity
      PROVE  Streamed(new, Len(new), kinds) <=> Has(evs, kinds)
  <2>1. \A i \in 1..Len(evs) : i \in 1..Len(new) /\ new[i] = evs[i]
    BY <1>1, <1>4 DEF Grown
  <2>2. ASSUME NEW i \in 1..Len(new), new[i].type \in kinds PROVE i \in 1..Len(evs)
    <3>1. new[i].type \in LlmActivity
      BY <1>6, <2>2
    <3>2. i # Len(new)
      BY <1>4, <3>1 DEF Ev, LlmActivity
    <3>3. i \in 1..Len(before) /\ before[i].type \in LlmActivity
      BY <1>4, <3>1, <3>2
    <3> QED
      BY <1>1, <1>4, <3>3 DEF Grown
  <2> QED
    BY <2>1, <2>2 DEF Streamed, Has
<1>7. ASSUME NEW i \in 1..Len(new), new[i].type = "run_done", new[i].status = "succeeded"
      PROVE  /\ written
             /\ Streamed(new, i, LlmActivity) =>
                   Streamed(new, i, {"llm_delta"}) \/ allowReasoning
  <2>1. i = Len(new)
    BY <1>4, <1>5, <1>7
  <2>2. final = "succeeded"
    BY <1>2, <1>4, <1>7, <2>1
  <2>3. {"llm_delta"} \in SUBSET LlmActivity /\ LlmActivity \in SUBSET LlmActivity
    BY DEF LlmActivity
  <2>4. Has(evs, LlmActivity) => Has(evs, {"llm_delta"}) \/ allowReasoning
    BY <1>3, <2>2 DEF MissingAnswer, llm_activity_seen, llm_answer_bytes
  <2> QED
    BY <1>3, <1>6, <2>1, <2>2, <2>3, <2>4
<1> QED
  BY <1>7 DEF EarnedIn, new

\* A way of ending the run keeps its successes earned.
LEMMA FinalizeEarned ==
    ASSUME Typed, Closed, EarnedIn(events, persisted, allowReasoning),
           NEW st \in Terminal, NEW evs \in {events, Errored},
           st = "succeeded" => persisted, FinalizeEvent(st, evs),
           UNCHANGED <<persisted, allowReasoning>>
    PROVE  EarnedIn(events', persisted', allowReasoning')
<1>1. events \in Seq(Event) /\ emitted \in BOOLEAN
  BY DEF Typed, TypeOK
<1>2. Ev("error", "none") \in Event /\ Ev("error", "none").type # "run_done"
  BY KnownEvents
<1>3. Errored = AppendIf(TRUE, events, Ev("error", "none"))
  BY DEF Errored, AppendIf
<1>4. EarnedIn(Errored, persisted, allowReasoning)
  <2> DEFINE e == Ev("error", "none")
  <2>1. e \in Event /\ e.type # "run_done"
    BY <1>2
  <2> HIDE DEF e
  <2>2. EarnedIn(AppendIf(TRUE, events, e), persisted, allowReasoning)
    BY <1>1, <2>1, EmittedEarned
  <2> QED
    BY <1>3, <2>2 DEF e
<1>8. Errored \in Seq(Event) /\ (NoDone(events) => NoDone(Errored))
  BY <1>1, <1>2, <1>3, AppendOther
<1>5. /\ EarnedIn(evs, persisted, allowReasoning)
      /\ evs \in Seq(Event) /\ (NoDone(events) => NoDone(evs))
  BY <1>1, <1>4, <1>8
<1>6. CASE emitted
  BY <1>5, <1>6 DEF FinalizeEvent
<1>7. CASE ~emitted
  <2>1. EarnedIn(ClosedEvents(st, evs), persisted, allowReasoning)
    BY <1>5, <1>7, ClosedEarned DEF Closed
  <2> QED
    BY <1>7, <2>1 DEF FinalizeEvent
<1> QED
  BY <1>1, <1>6, <1>7

\* The worker reaches its successful return only over the write of the
\* step's messages, and never takes back what a success needs.
LEMMA WorkerWrites ==
    ASSUME Typed, Earned, WorkerStep
    PROVE  /\ HasWritten(worker') => persisted'
           /\ worker'.at = "deliver" => worker'.back \in {"gen", "project"}
           /\ persisted => persisted'
           /\ allowReasoning => allowReasoning'
<1>1. /\ worker \in Worker
      /\ persisted \in BOOLEAN /\ allowReasoning \in BOOLEAN
  BY DEF Typed, TypeOK
<1>2. CASE \/ ToolEvent \/ Generate \/ OpenStream \/ StreamError
           \/ \E kind \in LlmActivity : StreamCallback(kind)
  BY <1>1, <1>2
     DEF ToolEvent, Generate, OpenStream, StreamError, StreamCallback,
         AttemptFails, Earned, HasWritten, Worker, runVars
<1>3. CASE Deliver
  <2>1. worker.at = "deliver" /\ worker.back \in {"gen", "project"}
    BY <1>3 DEF Deliver, Earned
  <2>2. worker'.at = worker.back /\ UNCHANGED <<persisted, allowReasoning>>
    BY <1>1, <1>3 DEF Deliver, Worker
  <2> QED
    BY <2>1, <2>2 DEF Earned, HasWritten
<1>4. CASE \/ \E fallback \in BOOLEAN : StreamEnd(fallback)
           \/ CompletionCheck
           \/ \E unstreamed \in BOOLEAN : ReconcileCompletion(unstreamed)
           \/ PersistOutputs \/ ProjectionCheck
  BY <1>1, <1>4
     DEF StreamEnd, CompletionCheck, ReconcileCompletion, PersistOutputs,
         ProjectionCheck, Earned, HasWritten, Worker, runVars
<1>5. CASE \/ \E blank \in BOOLEAN : ReconcileProjection(blank)
           \/ \E suppressed \in BOOLEAN : ProjectionDelta(suppressed)
           \/ StepReturns \/ StepRaises
  BY <1>1, <1>5
     DEF ReconcileProjection, ProjectionDelta, StepReturns, StepRaises,
         Earned, HasWritten, Worker, runVars
<1>6. CASE FinishOk \/ FinishCancelled \/ FinishFailed \/ FinishUnlogged \/ ClearCloser
  BY <1>1, <1>6
     DEF FinishOk, FinishCancelled, FinishFailed, FinishUnlogged, ClearCloser,
         WorkerFinished, Earned, HasWritten, Worker, runVars
<1> QED
  BY <1>2, <1>3, <1>4, <1>5, <1>6 DEF WorkerStep

\* Request threads and the starter touch none of what a success needs.
LEMMA OthersWrite ==
    ASSUME Typed, Earned, NEW p \in Clients,
           ClientStep(p) \/ CancelRequest(p) \/ WatchRequest(p)
    PROVE  UNCHANGED <<persisted, allowReasoning, worker>>
BY DEF ClientStep, PolicyStep, CancelStep, PolicySupports, PolicyObserve,
       PolicyDue, PolicyClose, PolicyRequested, PolicyForce, CancelRead,
       CancelEscalate, CancelClose, CancelForce, CancelSupports, CancelMark,
       CloseRun, ClientUnchanged, CancelRequest, WatchRequest, Request, runVars

\* Every step keeps the successes earned.
LEMMA StepEarned ==
    ASSUME Typed, Closed, Born, Earned, [Next]_vars PROVE Earned'
<1>1. /\ events \in Seq(Event) /\ worker \in Worker
      /\ {"succeeded", "cancelled", "failed"} \subseteq Terminal
      /\ EarnedIn(events, persisted, allowReasoning)
  BY DEF Typed, TypeOK, Terminal, Earned
<1>2. CASE UNCHANGED events /\ (persisted => persisted')
           /\ (allowReasoning => allowReasoning')
           /\ (HasWritten(worker') => persisted')
           /\ (worker'.at = "deliver" => worker'.back \in {"gen", "project"})
  BY <1>1, <1>2 DEF Earned, EarnedIn
<1>3. CASE WorkerStep
  <2>1. CASE Emits
    <3>1. PICK c \in BOOLEAN, e \in Event :
            e.type # "run_done" /\ events' = AppendIf(c, events, e)
      BY <2>1 DEF Emits
    <3>2. EarnedIn(AppendIf(c, events, e), persisted, allowReasoning)
      BY <1>1, <3>1, EmittedEarned
    <3>3. EarnedIn(AppendIf(c, events, e), persisted', allowReasoning')
      BY <1>3, <3>2, WorkerWrites, EarnedStays
    <3> QED
      BY <1>3, <3>1, <3>3, WorkerWrites DEF Earned
  <2>2. CASE WorkerFinish
    <3>1. /\ FinishOk => worker.at = "ret_ok" /\ persisted
          /\ UNCHANGED <<persisted, allowReasoning>>
      BY <2>2 DEF WorkerFinish, FinishOk, FinishCancelled, FinishFailed,
                  WorkerFinished, Earned, HasWritten
    <3>2. \E st \in Terminal, evs \in {events, Errored} :
            (st = "succeeded" => persisted) /\ FinalizeEvent(st, evs)
      BY <1>1, <2>2, <3>1 DEF WorkerFinish, FinishOk, FinishCancelled,
         FinishFailed, FinalizeState, Errored
    <3>3. EarnedIn(events', persisted', allowReasoning')
      BY <1>1, <3>1, <3>2, FinalizeEarned
    <3> QED
      BY <1>3, <3>3, WorkerWrites DEF Earned
  <2> QED
    BY <1>2, <1>3, <2>1, <2>2, WorkerEmits, WorkerWrites
<1>4. ASSUME NEW p \in Clients, ClientStep(p) PROVE Earned'
  <2>1. UNCHANGED <<persisted, allowReasoning, worker>>
    BY <1>4, OthersWrite
  <2>2. CASE FinalizeEvent("cancelled", events)
    <3>1. EarnedIn(events', persisted', allowReasoning')
      BY <1>1, <2>1, <2>2, FinalizeEarned
    <3> QED
      BY <2>1, <3>1 DEF Earned
  <2> QED
    BY <1>2, <1>4, <2>1, <2>2, ClientEffect DEF Earned
<1>5. CASE StartWorker
  BY <1>1, <1>2, <1>5 DEF StartWorker, Born, Earned, HasWritten, Worker, runVars
<1>6. CASE \/ WriteStarted \/ UNCHANGED vars
           \/ \E p \in Clients : CancelRequest(p) \/ WatchRequest(p)
  BY <1>1, <1>2, <1>6
     DEF WriteStarted, CancelRequest, WatchRequest, Request, Earned, vars, runVars
<1> QED
  BY <1>3, <1>4, <1>5, <1>6 DEF Next, StarterStep

\* A run is announced as a success only after its step's messages are in the
\* journal, and after its model call, if it streamed anything, gave an answer
\* or reasoning the step accepts in its place; whatever threads cancel or watch.
THEOREM SuccessIsAlwaysEarned == Spec => []SuccessIsEarned
<1>1. Init => Earned
  BY DEF Init, Earned, EarnedIn, HasWritten
<1>2. Typed /\ Closed /\ Born /\ Earned /\ [Next]_vars => Earned'
  BY StepEarned
<1>3. ASSUME Typed, Earned PROVE SuccessIsEarned
  <2>1. events \in Seq(Event)
    BY <1>3 DEF Typed, TypeOK
  <2> SUFFICES ASSUME NEW i \in 1..Len(events), IsRunDone(i), events[i].status = "succeeded"
               PROVE  /\ persisted
                      /\ Has(SubSeq(events, 1, i), LlmActivity) =>
                            Has(SubSeq(events, 1, i), {"llm_delta"}) \/ allowReasoning
    BY DEF SuccessIsEarned
  <2>2. /\ persisted
        /\ Streamed(events, i, LlmActivity) =>
              Streamed(events, i, {"llm_delta"}) \/ allowReasoning
    BY <1>3 DEF Earned, EarnedIn, IsRunDone
  <2> QED
    BY <2>1, <2>2, StreamedPrefix
<1> QED
  BY <1>1, <1>2, <1>3, AlwaysTyped, AlwaysClosed, AlwaysBorn, PTL DEF Spec

=============================================================================
