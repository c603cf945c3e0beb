------------------------------ MODULE Episode -------------------------------
(* The state-execution experiment (experiments/state_execution.py): a model  *)
(* organises two unrelated dirty changes of a fixture repository into two    *)
(* commits, by tool calls that it proposes one or a plan at a time; the      *)
(* episode ends when it proposes to finish, is blocked, runs out of budget   *)
(* or proposes nonsense too often, and is then judged by evaluate.           *)
(*                                                                         *)
(* A file's content is "none", "base", "want" or "other"; the board's is     *)
(* the set of the tasks it lists.                                          *)
EXTENDS Integers, Sequences, FiniteSets

CONSTANTS MaxEpisodeTurns,  \* max_turns
          MaxRetries,       \* max_retries
          MaxPlan           \* calls of a plan; the code allows 8

ASSUME EpisodeAssumption == MaxEpisodeTurns \in Nat /\ MaxRetries \in Nat /\ MaxPlan \in Nat \ {0}

VARIABLES tree,     \* the files of the working copy
          commits,  \* the history, oldest first: the files, the description, the changed paths
          turn,     \* turns used
          retry,    \* attempts of the turn
          plan,     \* calls the accepted proposal still has
          outcome   \* "running", then how the episode ended

episodeVars == <<tree, commits, turn, retry, plan, outcome>>

Docs == {"guide", "guideTask"}
Behavior == {"math", "test", "subTask"}
Files == Docs \cup Behavior
Families == {"docs", "feat"}

\* create_fixture: the baseline, what is dirty on top of it, what is expected.
Tree(f, board) == [file |-> f, board |-> board]
Baseline == Tree([f \in Files |-> IF f \in {"guideTask", "subTask"} THEN "none" ELSE "base"], {})
Dirty == Tree([f \in Files |-> "want"], {"docs"})
Expected == Tree([f \in Files |-> "want"], {"docs", "feat"})

EpisodeInit ==
    /\ tree = Dirty
    /\ commits = <<[tree |-> Baseline, family |-> "chore", changed |-> {}]>>
    /\ turn = 0 /\ retry = 0 /\ plan = 0 /\ outcome = "running"

Committed == commits[Len(commits)].tree

----------------------------------------------------------------------------
(* evaluate                                                                *)

Boundary(family) == IF family = "docs" THEN "guideTask" ELSE "subTask"

\* Mutant of TaskInItsCommit: what the commit changed is not looked at.
TaskAtItsCommit(family, sources) ==
    \E i \in 1..Len(commits) :
        /\ commits[i].family = family
        /\ commits[i].tree.file[Boundary(family)] = "want"
        /\ family \in commits[i].tree.board

\* A commit of the family that changed its sources and its task file, with
\* the task on the board and its file in the tree.
TaskInItsCommit(family, sources) ==
    \E i \in 1..Len(commits) :
        /\ commits[i].family = family
        /\ sources \cup {Boundary(family)} \subseteq commits[i].changed
        /\ commits[i].tree.file[Boundary(family)] = "want"
        /\ family \in commits[i].tree.board

Clean == tree = Committed

Evaluate ==
    /\ tree = Expected
    /\ \A f \in Files : Committed.file[f] # "none"
    /\ TaskInItsCommit("docs", {"guide"})
    /\ TaskInItsCommit("feat", {"math", "test"})
    /\ Clean

----------------------------------------------------------------------------
(* run_episode: the proposals.                                             *)

Asking == outcome = "running" /\ plan = 0 /\ turn < MaxEpisodeTurns

NextTurn == turn' = turn + 1 /\ retry' = 0

\* parse_proposal or apply_patch refuses the answer: one more attempt, or the end.
ProposeInvalid ==
    /\ Asking
    /\ IF retry < MaxRetries THEN retry' = retry + 1 /\ UNCHANGED outcome
                             ELSE outcome' = "failure" /\ UNCHANGED retry
    /\ UNCHANGED <<tree, commits, turn, plan>>

\* A single call is a plan of one.
ProposeCalls(n) ==
    /\ Asking
    /\ plan' = n /\ NextTurn
    /\ UNCHANGED <<tree, commits, outcome>>

ProposeContinue ==
    /\ Asking /\ NextTurn
    /\ UNCHANGED <<tree, commits, plan, outcome>>

\* finish counts only when the evaluator agrees.
ProposeFinish ==
    /\ Asking
    /\ outcome' = IF Evaluate THEN "finished" ELSE "failure"
    /\ NextTurn
    /\ UNCHANGED <<tree, commits, plan>>

ProposeBlocked ==
    /\ Asking
    /\ outcome' = "blocked" /\ NextTurn
    /\ UNCHANGED <<tree, commits, plan>>

\* The turns are used up, or the state or the observation grew too large.
BudgetExhausted ==
    /\ outcome = "running" /\ plan = 0
    /\ outcome' = "budget_exhausted"
    /\ UNCHANGED <<tree, commits, turn, retry, plan>>

----------------------------------------------------------------------------
(* act: the calls of a plan.                                               *)

Acting == outcome = "running" /\ plan > 0
Done == plan' = plan - 1 /\ UNCHANGED <<turn, retry, outcome>>

\* inspect and read
Look == Acting /\ Done /\ UNCHANGED <<tree, commits>>

\* write replaces an existing file.
Write(f, content) ==
    /\ Acting /\ tree.file[f] # "none"
    /\ tree' = [tree EXCEPT !.file[f] = content]
    /\ Done /\ UNCHANGED commits

WriteBoard(board) ==
    /\ Acting /\ tree' = [tree EXCEPT !.board = board]
    /\ Done /\ UNCHANGED commits

\* jj split: the selected paths go into a commit below the working copy.
CommitSelected(paths, board, family) ==
    /\ Acting
    /\ LET split == Tree([f \in Files |-> IF f \in paths THEN tree.file[f] ELSE Committed.file[f]],
                         IF board THEN tree.board ELSE Committed.board)
       IN commits' = Append(commits, [tree |-> split, family |-> family,
                                      changed |-> {f \in paths : tree.file[f] # Committed.file[f]}])
    /\ Done /\ UNCHANGED tree

\* An approved script may do to a file what write may not: remove it.
Script(f) ==
    /\ Acting
    /\ tree' = [tree EXCEPT !.file[f] = "none"]
    /\ Done /\ UNCHANGED commits

\* A call that fails, or a script nobody approved, ends the plan.
CallFails ==
    /\ Acting /\ plan' = 0
    /\ UNCHANGED <<tree, commits, turn, retry, outcome>>

EpisodeNext ==
    \/ ProposeInvalid
    \/ \E n \in 1..MaxPlan : ProposeCalls(n)
    \/ ProposeContinue
    \/ ProposeFinish
    \/ ProposeBlocked
    \/ BudgetExhausted
    \/ Look
    \/ \E content \in {"want", "other"} : Write("guide", content)
    \/ \E board \in {{"feat"}, Families} : WriteBoard(board)
    \/ \E paths \in {Docs, Behavior, Files}, board \in BOOLEAN, family \in Families :
          CommitSelected(paths, board, family)
    \/ Script("guideTask")
    \/ CallFails

EpisodeSpec == EpisodeInit /\ [][EpisodeNext]_episodeVars

----------------------------------------------------------------------------
(* Properties.                                                             *)

(* An episode counts as finished only when the history, not just the working *)
(* copy, holds the intended files and the full board, and each of the two    *)
(* changes came into it in a commit of its own family together with its task *)
(* file, whatever was rewritten, removed or committed in between (evaluate). *)
FinishedIsOrganized ==
    outcome = "finished" =>
        /\ Committed = Expected
        /\ \A family \in Families : \E i \in 2..Len(commits) :
              /\ commits[i].family = family
              /\ Boundary(family) \in commits[i].changed
              /\ commits[i - 1].tree.file[Boundary(family)] # "want"
=============================================================================
