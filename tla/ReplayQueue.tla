---------------------------- MODULE ReplayQueue ----------------------------
(***************************************************************************)
(* /replay and /queue: a plan of the history is executed again, operation  *)
(* by operation, up to a boundary where the operator decides               *)
(* (runtime/operator_command_extract_replay.py, replay_queue_edges.py),    *)
(* and /extract --coalesce, which gathers adjacent plans of one message.   *)
(*                                                                         *)
(* A queue is known by its position among the queues recorded.  A command  *)
(* works on a copy of the queue's latest record and appends the new one    *)
(* when the step is persisted.                                             *)
(***************************************************************************)
EXTENDS Integers, Sequences, FiniteSets, SequencesExt

CONSTANTS Plans,         \* plans that can be replayed: sequences of ok, fails, barred
          MaxQueueSteps, \* bound: commands given
          MaxFences      \* bound: fenced plans in a message

ASSUME QueueAssumption ==
    /\ MaxQueueSteps \in Nat /\ MaxFences \in Nat
    /\ \A p \in Plans : p \in Seq({"ok", "fails", "barred"}) /\ Len(p) > 1

VARIABLES queues,     \* the latest record of each queue
          working,    \* the queue a command is working on, if any
          granted,    \* whether the operator granted what is barred
          executions, \* operations executed, with the command that did (history)
          approvals,  \* the operations the operator approved (history)
          crashed,    \* whether a command was cut short (history)
          queueSteps  \* commands given

queueVars == <<queues, working, granted, executions, approvals, crashed, queueSteps>>

NotWorking == [id |-> 0]
TerminalStatuses == {"completed", "cancelled", "failed"}
Entry(i, status) == [index |-> i, status |-> status]
NewQueue(plan) == [plan |-> plan, status |-> "running", next |-> 0, entries |-> <<>>]

\* How many operations each fence holds, 0 if it is no valid plan, and whether
\* there is text between it and the one before.
Fences == SeqOf([operations : 0 .. 2, apart : BOOLEAN], MaxFences)

QueueInit ==
    /\ queues = <<>> /\ working = NotWorking /\ granted = FALSE /\ executions = <<>>
    /\ approvals = {} /\ crashed = FALSE /\ queueSteps = 0

-----------------------------------------------------------------------------
Begin(id, queue, action) ==
    /\ working = NotWorking /\ queueSteps < MaxQueueSteps /\ queueSteps' = queueSteps + 1
    /\ working' = [id |-> id, queue |-> queue, at |-> "run",
                   approve |-> IF action = "approve" THEN queue.next ELSE Len(queue.plan)]
    /\ approvals' = IF action = "approve" THEN approvals \cup {<<id, queue.next>>} ELSE approvals
    /\ UNCHANGED <<queues, granted, executions, crashed>>

\* _execute_replay_choice: a plan of several operations becomes a queue.
Replay == \E plan \in Plans : Begin(Len(queues) + 1, NewQueue(plan), "resume")

\* _apply_queue_skip
Skipped(queue) ==
    [queue EXCEPT !.entries = Append(@, Entry(queue.next, "skipped")), !.next = @ + 1]

\* _cancel_queue_remaining
Cancelled(queue) ==
    [queue EXCEPT !.entries = @ \o [k \in 1 .. Len(queue.plan) - queue.next |->
                                      Entry(queue.next + k - 1, "cancelled")],
                  !.status = "cancelled", !.next = Len(queue.plan)]

\* A queue that is over is left alone; to skip there has to be an operation.
QueueCommand ==
    \E id \in DOMAIN queues :
      /\ queues[id].status \notin TerminalStatuses
      /\ \/ Begin(id, queues[id], "resume")
         \/ Begin(id, queues[id], "approve")
         \/ queues[id].next < Len(queues[id].plan) /\ Begin(id, Skipped(queues[id]), "skip")

CancelQueue ==
    \E id \in DOMAIN queues :
      /\ working = NotWorking /\ queueSteps < MaxQueueSteps /\ queueSteps' = queueSteps + 1
      /\ queues[id].status \notin TerminalStatuses
      /\ working' = [id |-> id, queue |-> Cancelled(queues[id]), at |-> "save", approve |-> 0]
      /\ UNCHANGED <<queues, granted, executions, approvals, crashed>>

\* Mutant: approval lasts for the rest of the queue.
ApprovedRest == working.queue.next >= working.approve

\* Only the operation that was next when the operator approved runs as the
\* operator's own.
Approved == working.queue.next = working.approve

\* _queue_step_outcome
Outcome(operation) ==
    IF operation = "barred" /\ ~granted /\ ~Approved THEN "blocked"
    ELSE IF operation = "fails" THEN "failed"
    ELSE IF Approved THEN "approved" ELSE "ran"

\* One turn of _run_queue_until_boundary: the operation is executed (a barred
\* one is refused instead), the copy of the queue moves on or stops.
ExecuteNext ==
    /\ working.id # 0 /\ working.at = "run" /\ working.queue.next < Len(working.queue.plan)
    /\ LET queue == working.queue
           outcome == Outcome(queue.plan[queue.next + 1])
           moved == [queue EXCEPT !.entries = Append(@, Entry(queue.next, outcome)),
                                  !.next = IF outcome = "blocked" THEN @ ELSE @ + 1]
           stops == outcome \in {"blocked", "failed"}
       IN  /\ working' = [working EXCEPT !.queue = IF stops THEN [moved EXCEPT !.status = outcome] ELSE moved,
                                         !.at = IF stops THEN "save" ELSE "run"]
           /\ executions' = IF outcome = "blocked" THEN executions
                            ELSE Append(executions, [id |-> working.id, index |-> queue.next,
                                   free |-> granted \/ queue.plan[queue.next + 1] # "barred"])
    /\ UNCHANGED <<queues, granted, approvals, crashed, queueSteps>>

QueueCompleted ==
    /\ working.id # 0 /\ working.at = "run" /\ working.queue.next = Len(working.queue.plan)
    /\ working' = [working EXCEPT !.queue.status = "completed", !.at = "save"]
    /\ UNCHANGED <<queues, granted, executions, approvals, crashed, queueSteps>>

\* _apply_queue_updates: the record is appended when the step is persisted.
SaveQueue ==
    /\ working.id # 0 /\ working.at = "save"
    /\ queues' = IF working.id \in DOMAIN queues THEN [queues EXCEPT ![working.id] = working.queue]
                 ELSE Append(queues, working.queue)
    /\ working' = NotWorking
    /\ UNCHANGED <<granted, executions, approvals, crashed, queueSteps>>

\* The step ends before it is persisted: what ran, ran, and no record says so.
QueueCrash ==
    /\ working.id # 0 /\ working' = NotWorking /\ crashed' = TRUE
    /\ UNCHANGED <<queues, granted, executions, approvals, queueSteps>>

\* The operator grants, or withdraws, what the policy bars.
GrantOrWithdraw ==
    /\ working = NotWorking /\ queueSteps < MaxQueueSteps /\ queueSteps' = queueSteps + 1
    /\ granted' = ~granted
    /\ UNCHANGED <<queues, working, executions, approvals, crashed>>

QueueNext ==
    Replay \/ QueueCommand \/ CancelQueue \/ ExecuteNext \/ QueueCompleted \/ SaveQueue
    \/ QueueCrash \/ GrantOrWithdraw

-----------------------------------------------------------------------------
\* _coalescible_yaml_sources: the fences of each run, in order.
Coalesce(fs) ==
    FoldLeft(LAMBDA acc, k :
               LET finished == IF Len(acc.active) > 1 THEN Append(acc.sources, acc.active) ELSE acc.sources
               IN  IF fs[k].operations # 1 THEN [sources |-> finished, active |-> <<>>]
                   ELSE IF acc.active # <<>> /\ ~fs[k].apart THEN [acc EXCEPT !.active = Append(@, k)]
                   ELSE [sources |-> finished, active |-> <<k>>],
             [sources |-> <<>>, active |-> <<>>], [k \in DOMAIN fs |-> k])
Coalesced(fs) ==
    LET last == Coalesce(fs) IN IF Len(last.active) > 1 THEN Append(last.sources, last.active) ELSE last.sources

-----------------------------------------------------------------------------
\* An approval covers the one operation it was given for: a barred operation
\* runs only when it was approved while it was next, or granted.
ApprovalCoversOne ==
    \A k \in DOMAIN executions :
      executions[k].free \/ <<executions[k].id, executions[k].index>> \in approvals

Settled(queue) == SelectSeq(queue.entries, LAMBDA e : e.status # "blocked")

\* A queue's record accounts for its plan: every operation before the next one
\* was settled once, in order, and the status is the one those entries give.
\* Unless a command was cut short, no operation ran twice.
QueueAccounts ==
    /\ \A id \in DOMAIN queues :
         LET queue == queues[id]  settled == Settled(queue)
         IN  /\ [k \in DOMAIN settled |-> settled[k].index] = [k \in 1 .. queue.next |-> k - 1]
             /\ queue.status = "completed" => /\ queue.next = Len(queue.plan)
                                              /\ \A k \in DOMAIN settled : settled[k].status # "failed"
             /\ queue.status = "failed" => settled[Len(settled)].status = "failed"
             /\ queue.status = "blocked" => Last(queue.entries) = Entry(queue.next, "blocked")
    /\ ~crashed => \A j, k \in DOMAIN executions :
         executions[j].id = executions[k].id /\ executions[j].index = executions[k].index => j = k

\* The runs that can be gathered are the longest runs of at least two adjacent
\* fences of one operation, each fence in at most one.
MaximalRuns ==
    queueSteps = 1 => \A fs \in Fences :
      LET run(a, b) == /\ \A k \in a .. b : fs[k].operations = 1
                       /\ \A k \in a + 1 .. b : ~fs[k].apart
          longest == {ab \in (1 .. Len(fs)) \X (1 .. Len(fs)) :
                        /\ ab[1] < ab[2] /\ run(ab[1], ab[2])
                        /\ ab[1] = 1 \/ ~run(ab[1] - 1, ab[2])
                        /\ ab[2] = Len(fs) \/ ~run(ab[1], ab[2] + 1)}
      IN  ToSet(Coalesced(fs)) = {[k \in 1 .. ab[2] - ab[1] + 1 |-> ab[1] + k - 1] : ab \in longest}

\* Barred operations run when they were approved, the record accounts for all
\* that ran, and fences are gathered in maximal runs.
QueueSound == ApprovalCoversOne /\ QueueAccounts /\ MaximalRuns
=============================================================================
