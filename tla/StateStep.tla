------------------------------ MODULE StateStep ------------------------------
(***************************************************************************)
(* The state step of toas (runtime/state_step.py): one call of step_state  *)
(* reads the journal, decides which of five things is due, and writes what *)
(* it does as a series of separate appends: it resumes a user turn it has  *)
(* already consolidated, reports a finished goal, runs the pending tool    *)
(* batch, consolidates a user turn, or asks the model for a patch.         *)
(*                                                                         *)
(* Nothing is locked from the read to the last append and a process may    *)
(* die between two appends or inside one, so the journal is all the next   *)
(* call has.  The operator may edit the transcript between two calls in    *)
(* any way: a call starts with any turn.  A call comes from the toas step  *)
(* command, from operator_api.step_state_once, or from a library caller    *)
(* that consolidates user turns under a digest.  One step runs at a time.  *)
(*                                                                         *)
(* Tool calls and digests are opaque.  Of the state object only what the   *)
(* decisions look at is kept: whether the turn still holds the state the   *)
(* last transition accepted.  The values, their patches and the lineage    *)
(* they belong to are the subject of other modules.                        *)
(***************************************************************************)
EXTENDS Integers, Sequences, FiniteSets

CONSTANTS
    Callers,         \* who calls step_state: "cli", "api", "user"
    Batches,         \* lists of tool calls a turn or a model may hold
    Labelled,        \* tool calls with a label: their output goes into the state
    Digests,         \* digests of user turns
    ToolStatuses,    \* what a tool call may end as
    MaxSteps,        \* bound: calls of step_state
    MaxSeeds,        \* bound: seed snapshots
    MaxCrashes       \* bound: how often the process dies

ToolCalls == UNION {{b[i] : i \in DOMAIN b} : b \in Batches}

ASSUME StateStepAssumption ==
    /\ Callers \subseteq {"cli", "api", "user"}
    /\ Batches \subseteq Seq(ToolCalls) /\ <<>> \notin Batches
    /\ Digests \subseteq Nat \ {0}
    /\ {"completed"} \subseteq ToolStatuses
    /\ ToolStatuses \subseteq {"completed", "failed", "cancelled", "indeterminate"}
    /\ MaxSteps \in Nat /\ MaxSeeds \in Nat /\ MaxCrashes \in Nat

VARIABLES
    log,      \* the state-step records of the journal
    at,       \* where the running step is; "idle" between steps
    step,     \* its arguments and locals
    steps,    \* how often step_state was called
    ran,      \* history: every tool call executed, as <<transition, index, call>>
    crashes   \* history: how often the process died

vars == <<log, at, step, steps, ran, crashes>>

-----------------------------------------------------------------------------
(* Records.  Transitions are numbered as they are written; 0 stands for    *)
(* the seed_<message> identifiers of seed snapshots.  Diff and request     *)
(* records, which no decision reads, go with the snapshot and the          *)
(* transition they follow.                                                 *)

SeedId == 0
NoDigest == 0

Transition(t, src, st, calls, extra) ==
    [k |-> "transition", t |-> t, src |-> src, st |-> st, calls |-> calls,
     coe |-> extra.coe, digest |-> extra.digest,
     complete |-> extra.complete]
Plain == [coe |-> FALSE, digest |-> NoDigest, complete |-> FALSE]

StatusOf(t, st) == [k |-> "status", t |-> t, st |-> st]
Snapshot(t) == [k |-> "snapshot", t |-> t]
Result(t, i, st) == [k |-> "result", t |-> t, index |-> i, st |-> st]
Observation(t) == [k |-> "observation", t |-> t]

\* The last record among those at the places S, and their n-th one.
Newest(l, S) == l[CHOOSE i \in S : \A j \in S : j <= i]
Place(S, n) == {p \in S : Cardinality({q \in S : q <= p}) = n}
Nth(l, S, n) == l[CHOOSE p \in Place(S, n) : TRUE]

FullAt(l) == {i \in 1..Len(l) : l[i].k = "transition"}
Fresh(l) == Cardinality(FullAt(l)) + 1

FullOf(l, t) == l[CHOOSE i \in FullAt(l) : l[i].t = t]

\* The state_transition records, full ones and those that only carry a status
Transitions(l) == {i \in 1..Len(l) : l[i].k \in {"transition", "status"}}
Latest(l) == Newest(l, Transitions(l))

\* The status of a transition: that of its last record.
Statuses(l, t) == {i \in 1..Len(l) : l[i].t = t /\ l[i].k \in {"transition", "status"}}
Verdict(l, t) == Newest(l, Statuses(l, t)).st

\* The results of a transition, in the order they were written.
Results(l, t) == {i \in 1..Len(l) : l[i].t = t /\ l[i].k = "result"}
Count(l, t) == Cardinality(Results(l, t))
Outcomes(l, t) == [n \in 1..Count(l, t) |-> Nth(l, Results(l, t), n).st]

Observed(l, t) == \E i \in 1..Len(l) : l[i].k = "observation" /\ l[i].t = t
HasSnapshot(l, t) == \E i \in 1..Len(l) : l[i].k = "snapshot" /\ l[i].t = t

AllCompleted(outs) == \A i \in 1..Len(outs) : outs[i] = "completed"

\* Mutant of BatchVerdict: the last outcome decides.
LastVerdict(outs, n) == IF outs = <<>> THEN "completed" ELSE outs[Len(outs)]

\* The status a batch ends with: completed, or its first outcome that is not.
BatchVerdict(outs, n) ==
    IF Len(outs) = n /\ AllCompleted(outs) THEN "completed"
    ELSE IF AllCompleted(outs) THEN "failed"
    ELSE outs[CHOOSE i \in 1..Len(outs) :
                /\ outs[i] # "completed"
                /\ \A j \in 1..(i - 1) : outs[j] = "completed"]

-----------------------------------------------------------------------------
(* The arguments of a call, and what a running step carries.               *)

Lists == Batches \cup {<<>>}

Arg == [same : BOOLEAN,     \* state is the last transition's state_after
        seeds : BOOLEAN,    \* the caller just wrote a seed snapshot of it
        shown : BOOLEAN,    \* pending_tool_calls is a list,
        calls : Lists,      \*   this one; or user_tool_calls
        session : BOOLEAN,  \* session_text is given,
        bare : BOOLEAN,     \*   its last turn a state without pending tools
        infer : BOOLEAN,    \* infer_from is given
        coe : BOOLEAN,      \* continue_on_error
        digest : Digests \cup {NoDigest}]

\* _run_state_step_impl: user turns after the state empty the list; a first
\* state turn without a snapshot seeds one.
CliArgs == {r \in Arg : /\ r.session /\ r.digest = NoDigest
                        /\ r.calls # <<>> => r.shown
                        /\ r.bare => ~r.shown /\ ~r.infer}

\* operator_api.step_state_once: the pending batch is the journal's.
ApiArgs == {r \in Arg : /\ ~r.seeds /\ ~r.shown /\ r.calls = <<>> /\ ~r.infer
                        /\ r.bare => r.session
                        /\ r.digest = NoDigest}

\* A caller that consolidates a user turn.
UserArgs == {r \in Arg : /\ ~r.seeds /\ ~r.shown /\ ~r.session /\ ~r.bare /\ ~r.infer
                         /\ r.digest # NoDigest}

Args == (IF "cli" \in Callers THEN CliArgs ELSE {})
        \cup (IF "api" \in Callers THEN ApiArgs ELSE {})
        \cup (IF "user" \in Callers THEN UserArgs ELSE {})

Step == [t : Nat, batch : Lists, coe : BOOLEAN,
         outs : Seq(ToolStatuses),
         changed : BOOLEAN,        \* an artifact was captured into the state
         returned : BOOLEAN]       \* a user turn was consolidated

NoStep == [t |-> 0, batch |-> <<>>, coe |-> FALSE,
           outs |-> <<>>, changed |-> FALSE, returned |-> FALSE]

Running(t, batch, coe) ==
    [NoStep EXCEPT !.t = t, !.batch = batch, !.coe = coe]
ReturnedUser(t) == [NoStep EXCEPT !.t = t, !.returned = TRUE]

Init ==
    /\ log = <<>>
    /\ at = "idle"
    /\ step = NoStep
    /\ steps = 0
    /\ ran = <<>>
    /\ crashes = 0

\* Records are appended one after the other, in one call or in several; the
\* process may die before or after any of them.
Writes(records, place, next) ==
    \/ /\ log' = log \o records
       /\ at' = place
       /\ step' = next
       /\ UNCHANGED crashes
    \/ /\ crashes < MaxCrashes
       /\ \E k \in 0..Len(records) : log' = log \o SubSeq(records, 1, k)
       /\ at' = "idle"
       /\ step' = NoStep
       /\ crashes' = crashes + 1

-----------------------------------------------------------------------------
(* What is due: the branches of _step_state_impl, in its order.            *)

\* The latest user transition with this digest.
Origins(d) == {i \in FullAt(log) : log[i].src = "user" /\ log[i].digest = d}
Origin(d) == log[CHOOSE i \in Origins(d) : \A j \in Origins(d) : j <= i].t
\* Mutant of Known: only the newest transition is looked at.
KnownLatest(args) == /\ args.digest # NoDigest /\ Origins(args.digest) # {}
                     /\ Latest(log).t = Origin(args.digest)

Known(args) == args.digest # NoDigest /\ Origins(args.digest) # {}

Terminal(args) ==
    /\ args.same
    /\ args.digest = NoDigest
    /\ Transitions(log) # {} /\ Latest(log).k = "transition"
    /\ Latest(log).complete /\ Latest(log).st = "completed"

\* Mutant of HasPending: a failed batch is pending again.
HasPendingFailed == Transitions(log) # {} /\ Latest(log).st \in {"pending", "running", "failed"}

\* _latest_pending
HasPending == Transitions(log) # {} /\ Latest(log).st \in {"pending", "running"}

\* A seed snapshot follows the pending transition.
Reseeded ==
    \E i \in FullAt(log) : /\ log[i].t = Latest(log).t
                      /\ \E j \in (i + 1)..Len(log) :
                            log[j].k = "snapshot" /\ log[j].t = SeedId

\* _is_stale_pending.  A record that only carries a status has no calls.
Stale(args) ==
    \/ args.infer
    \/ args.shown /\ args.calls = <<>>
    \/ Reseeded \/ args.seeds
    \/ /\ args.session
       /\ IF args.shown
          THEN ~(Latest(log).k = "transition" /\ Latest(log).calls = args.calls)
          ELSE args.bare

Seeds == Cardinality({i \in 1..Len(log) : log[i].t = SeedId})
Seed(args) == IF args.seeds THEN <<Snapshot(SeedId)>> ELSE <<>>

\* What the step writes before anything new: a stale batch is cancelled.
Prelude(args) ==
    Seed(args) \o
    (IF HasPending THEN <<StatusOf(Latest(log).t, "cancelled")>> ELSE <<>>)

\* A known user turn is never run again: a batch cut short gets one
\* indeterminate result, then its verdict and its observation are written.
ResumeUser(args) ==
    /\ Known(args)
    /\ LET t == Origin(args.digest)
           outs == Outcomes(log, t)
           open == Verdict(log, t) = "running"
           failed == outs # <<>> /\ outs[Len(outs)] # "completed"
           cut == open /\ ~failed /\ Len(outs) < Len(FullOf(log, t).calls)
           verdict == IF cut THEN "indeterminate"
                      ELSE IF failed THEN outs[Len(outs)]
                      ELSE BatchVerdict(outs, Len(outs))
       IN  Writes((IF cut THEN <<Result(t, Len(outs), "indeterminate")>> ELSE <<>>)
                  \o (IF open THEN <<StatusOf(t, verdict)>> ELSE <<>>)
                  \o (IF open \/ ~Observed(log, t) THEN <<Observation(t)>> ELSE <<>>),
                  "idle", ReturnedUser(t))

ReportTerminal(args) ==
    /\ args.seeds => Seeds < MaxSeeds
    /\ ~Known(args) /\ Terminal(args)
    /\ Writes(Seed(args), "idle", NoStep)

Due(args) == /\ args.seeds => Seeds < MaxSeeds
             /\ ~Known(args) /\ ~Terminal(args)
Kept(args) == HasPending /\ ~Stale(args)

\* Mutant of GiveUpRunning: an interrupted batch is started again.
RerunRunning(args) ==
    /\ Due(args) /\ Kept(args) /\ Latest(log).st = "running"
    /\ Writes(<<StatusOf(Latest(log).t, "running")>>, "exec",
              Running(Latest(log).t, FullOf(log, Latest(log).t).calls, FALSE))

\* The pending batch was running: what it did is unknown.
GiveUpRunning(args) ==
    /\ Due(args) /\ Kept(args) /\ Latest(log).st = "running"
    /\ Writes(<<StatusOf(Latest(log).t, "indeterminate")>>, "idle", NoStep)

RunPending(args) ==
    /\ Due(args) /\ Kept(args) /\ Latest(log).st = "pending"
    /\ Writes(<<StatusOf(Latest(log).t, "running")>>, "exec",
              Running(Latest(log).t, IF args.shown THEN args.calls ELSE Latest(log).calls,
                      args.coe \/ Latest(log).coe))

HasBatch(args) == args.shown /\ args.calls # <<>> /\ ~args.infer

\* The calls of the transcript become a transition of the operator.
RunOperatorBatch(args) ==
    /\ Due(args) /\ ~Kept(args) /\ HasBatch(args)
    /\ Writes(Prelude(args)
              \o <<Transition(Fresh(log), "operator", "pending", args.calls,
                              [Plain EXCEPT !.coe = args.coe]),
                   StatusOf(Fresh(log), "running")>>,
              "exec", Running(Fresh(log), args.calls, args.coe))

\* A user turn is recorded before its calls are run.
ConsolidateUser(args) ==
    /\ Due(args) /\ ~Kept(args) /\ ~HasBatch(args) /\ args.digest # NoDigest
    /\ LET none == args.calls = <<>>
           turn == Transition(Fresh(log), "user", IF none THEN "completed" ELSE "running",
                              args.calls, [Plain EXCEPT !.digest = args.digest])
       IN  Writes(Prelude(args)
                  \o <<turn, Snapshot(Fresh(log))>>
                  \o (IF none THEN <<Observation(Fresh(log))>> ELSE <<>>),
                  IF none THEN "idle" ELSE "exec",
                  IF none THEN ReturnedUser(Fresh(log))
                  ELSE Running(Fresh(log), args.calls, args.coe))

StartInference(args) ==
    /\ Due(args) /\ ~Kept(args) /\ ~HasBatch(args) /\ args.digest = NoDigest
    /\ Writes(Prelude(args), "infer", NoStep)

-----------------------------------------------------------------------------
(* The pending tool batch, and the tool calls of a user turn.              *)

Call == step.batch[Len(step.outs) + 1]

\* The call itself; its outcome is written by the next step.  A labelled
\* call's output is captured into the state.
ExecuteCall ==
    /\ at = "exec"
    /\ \E st \in ToolStatuses :
        step' = [step EXCEPT
                   !.outs = Append(step.outs, st),
                   !.changed = step.changed \/ (st = "completed" /\ Call \in Labelled)]
    /\ ran' = Append(ran, <<step.t, Len(step.outs), Call>>)
    /\ at' = "result"
    /\ UNCHANGED <<log, steps, crashes>>

LogResult ==
    /\ at = "result"
    /\ LET n == Len(step.outs)
           stop == step.outs[n] # "completed" /\ ~step.coe
       IN  Writes(<<Result(step.t, n - 1, step.outs[n])>>,
                  IF stop \/ n = Len(step.batch) THEN "verdict" ELSE "exec", step)
    /\ UNCHANGED <<steps, ran>>

FinishBatch ==
    /\ at = "verdict"
    /\ LET user == FullOf(log, step.t).src = "user"
       IN  Writes(<<StatusOf(step.t, BatchVerdict(step.outs, Len(step.batch)))>>
                  \o (IF step.changed
                      THEN <<Snapshot(step.t)>> ELSE <<>>)
                  \o (IF user THEN <<Observation(step.t)>> ELSE <<>>),
                  "idle", IF user THEN ReturnedUser(step.t) ELSE NoStep)
    /\ UNCHANGED <<steps, ran>>

-----------------------------------------------------------------------------
(* Inference.                                                              *)

\* The packet cannot be built, or the model call raises.
InferFails ==
    /\ at = "infer"
    /\ Writes(<<>>, "idle", NoStep)
    /\ UNCHANGED <<steps, ran>>

\* _record_invalid_response
InferInvalid ==
    /\ at = "infer"
    /\ Writes(<<Transition(Fresh(log), "none", "failed", <<>>, Plain)>>,
              "idle", NoStep)
    /\ UNCHANGED <<steps, ran>>

\* The accepted patch is recorded; its calls stay pending.
InferAccepted ==
    /\ at = "infer"
    /\ \E calls \in Lists, complete, coe \in BOOLEAN :
        /\ complete => calls = <<>>
        /\ coe => calls # <<>>
        /\ Writes(<<Transition(Fresh(log), "model",
                               IF calls = <<>> THEN "completed" ELSE "pending",
                               calls, [Plain EXCEPT !.coe = coe,
                                                       !.complete = complete]),
                    Snapshot(Fresh(log)), Observation(Fresh(log))>>,
                  "idle", NoStep)
    /\ UNCHANGED <<steps, ran>>

-----------------------------------------------------------------------------

\* One call of step_state.
StepState ==
    /\ at = "idle"
    /\ steps < MaxSteps
    /\ steps' = steps + 1
    /\ UNCHANGED ran
    /\ \E args \in Args :
        \/ ResumeUser(args)
        \/ ReportTerminal(args)
        \/ GiveUpRunning(args)
        \/ RunPending(args)
        \/ RunOperatorBatch(args)
        \/ ConsolidateUser(args)
        \/ StartInference(args)

Next ==
    \/ StepState
    \/ ExecuteCall \/ LogResult \/ FinishBatch
    \/ InferFails \/ InferInvalid \/ InferAccepted

Spec == Init /\ [][Next]_vars

-----------------------------------------------------------------------------
(* Properties.                                                             *)

Record ==
    [k : {"transition"}, t : Nat, src : {"model", "operator", "user", "none"},
     st : {"pending", "running", "completed", "failed"},
     calls : Batches \cup {<<>>}, coe : BOOLEAN,
     digest : Digests \cup {NoDigest}, complete : BOOLEAN]
    \cup [k : {"status"}, t : Nat, st : ToolStatuses \cup
            {"running", "completed", "failed", "cancelled", "indeterminate"}]
    \cup [k : {"snapshot", "observation"}, t : Nat]
    \cup [k : {"result"}, t : Nat, index : Nat,
          st : ToolStatuses \cup {"indeterminate"}]

\* Types: the journal holds state-step records (append_state_step_records).
TypeOK ==
    /\ log \in Seq(Record)
    /\ at \in {"idle", "exec", "result", "verdict", "infer"}
    /\ step \in Step
    /\ ran \in Seq(Nat \X Nat \X ToolCalls)
    /\ steps \in 0..MaxSteps
    /\ crashes \in 0..MaxCrashes

\* No tool call of a transition is ever executed twice, whoever steps and
\* however often the process dies in the batch (step_state).
RanOnce ==
    \A i, j \in 1..Len(ran) : ran[i][1] = ran[j][1] /\ ran[i][2] = ran[j][2] => i = j

\* A call that is executed is the call its transition recorded, even when the
\* list came from an edited transcript (_is_stale_pending, calls_to_execute).
RanAsRecorded ==
    \A i \in 1..Len(ran) : \E f \in FullAt(log) :
        /\ log[f].t = ran[i][1]
        /\ ran[i][2] + 1 \in DOMAIN log[f].calls
        /\ ran[i][3] = log[f].calls[ran[i][2] + 1]

\* The results of a transition are those of its calls from the first on, in
\* order, without a hole, whatever was lost in a crash (state_tool_result).
ResultsInOrder ==
    \A f \in FullAt(log) :
        LET mine == Results(log, log[f].t)
        IN  /\ \A i \in mine : log[i].index + 1 = Cardinality({j \in mine : j <= i})
            /\ Cardinality(mine) <= Len(log[f].calls)

\* A batch is only called completed when the journal holds a completed result
\* for each of its calls, also when a later step closes it (ResumeUser).
CompletedIsEarned ==
    \A f \in FullAt(log) : Verdict(log, log[f].t) = "completed" =>
        LET mine == Results(log, log[f].t)
        IN  /\ Cardinality(mine) = Len(log[f].calls)
            /\ \A i \in mine : log[i].st = "completed"

\* An open batch is the newest transition: every step closes what it finds
\* before it writes another one, so _latest_pending, which looks at the last
\* transition only, never overlooks one.
NoBatchForgotten ==
    \A f \in FullAt(log) :
        Verdict(log, log[f].t) \in {"pending", "running"} => Latest(log).t = log[f].t

\* A user turn is consolidated once, however often it is stepped.
ConsolidatedOnce ==
    \A i, j \in FullAt(log) :
        log[i].src = "user" /\ log[j].src = "user" /\ log[i].digest = log[j].digest
            => i = j

\* When the step of a user turn returns, its batch is closed and the journal
\* holds the observation the next inference reads, also when an earlier step
\* of the same turn died on the way.
ReturnedIsRecorded ==
    step.returned => /\ Verdict(log, step.t) \notin {"pending", "running"}
                         /\ Observed(log, step.t)

\* An accepted state without a snapshot, which later patches would silently
\* start from an older state, is only ever left by a crash, one by each.
MissingSnapshots ==
    {f \in FullAt(log) : log[f].src \in {"model", "user"} /\ ~HasSnapshot(log, log[f].t)}
GapsAreCrashes == Cardinality(MissingSnapshots) <= crashes

\* A closed transition keeps its verdict: no later step, resumed user turn or
\* stale-batch cancellation rewrites it.
VerdictsFinal ==
    [][\A f \in FullAt(log) : Verdict(log, log[f].t) \notin {"pending", "running"} =>
            Verdict(log', log[f].t) = Verdict(log, log[f].t)]_vars

\* Calls run once, and as they were recorded.
RanSound == RanOnce /\ RanAsRecorded

\* The journal accounts for every batch: its results, its verdict, its end.
BatchesAccounted == ResultsInOrder /\ CompletedIsEarned /\ NoBatchForgotten

\* The journal accounts for every accepted state and every stepped user turn.
StatesAccounted == ConsolidatedOnce /\ ReturnedIsRecorded /\ GapsAreCrashes

\* A tool call of a batch that was interrupted while it ran is not executed
\* again when the unedited transcript is stepped once more
\* (test_running_batch_is_marked_indeterminate_and_never_retried).
NeverRetried ==
    \A i, j \in 1..Len(ran) :
        /\ ran[j][1] = ran[i][1] + 1 /\ ran[j][2] = ran[i][2]
        /\ FullOf(log, ran[j][1]).src = "operator"
        /\ FullOf(log, ran[j][1]).calls = FullOf(log, ran[i][1]).calls
        => Count(log, ran[i][1]) > ran[i][2]

=============================================================================
