--------------------------- MODULE EpisodeProofs ----------------------------
(* The state-execution experiment: a finished episode is an organised one,  *)
(* for any number of turns, retries and calls of a plan.                    *)
EXTENDS Episode, TLAPS

(* evaluate looks at the paths a commit names as changed and at the tree it *)
(* has; that the task file came with the commit rests on what jj split      *)
(* writes: a path it names as changed differs from the commit before.       *)

Trees == [file : [Files -> {"none", "base", "want", "other"}], board : SUBSET Families]

Commit == [tree : Trees, family : {"chore"} \cup Families, changed : SUBSET Files]

\* Commit i differs from the one before it in what it names as changed.
ChangedAt(i) ==
    \A f \in commits[i].changed : i > 1 /\ commits[i].tree.file[f] # commits[i - 1].tree.file[f]

EpisodeInv ==
    /\ tree \in Trees
    /\ commits \in Seq(Commit) /\ commits # <<>>
    /\ \A i \in 1 .. Len(commits) : ChangedAt(i)
    /\ FinishedIsOrganized

-----------------------------------------------------------------------------
LEMMA LastCommit ==
    ASSUME commits \in Seq(Commit), commits # <<>>
    PROVE  Len(commits) \in Nat \ {0} /\ Committed \in Trees
<1>1. Len(commits) \in Nat \ {0} /\ commits[Len(commits)] \in Commit
  OBVIOUS
<1> QED
  BY <1>1 DEF Committed, Commit

LEMMA TreesMade ==
    /\ Baseline \in Trees /\ Dirty \in Trees /\ Expected \in Trees
    /\ \A f \in [Files -> {"none", "base", "want", "other"}], board \in SUBSET Families :
         Tree(f, board) \in Trees
<1>1. \A f \in [Files -> {"none", "base", "want", "other"}], board \in SUBSET Families :
         Tree(f, board) \in Trees
  BY DEF Tree, Trees
<1>2. {} \in SUBSET Families /\ {"docs"} \in SUBSET Families /\ {"docs", "feat"} \in SUBSET Families
  BY DEF Families
<1> QED
  BY <1>1, <1>2 DEF Baseline, Dirty, Expected

LEMMA EpisodeStarts == EpisodeInit => EpisodeInv
<1> SUFFICES ASSUME EpisodeInit PROVE EpisodeInv
  OBVIOUS
<1> DEFINE first == [tree |-> Baseline, family |-> "chore", changed |-> {}]
<1>1. first \in Commit
  BY TreesMade DEF Commit
<1>2. first.changed = {}
  OBVIOUS
<1> HIDE DEF first
<1>3. commits = <<first>>
  BY DEF EpisodeInit, first
<1>4. commits \in Seq(Commit) /\ Len(commits) = 1 /\ commits[1] = first /\ commits # <<>>
  BY <1>1, <1>3
<1>5. \A i \in 1 .. Len(commits) : ChangedAt(i)
  BY <1>2, <1>4 DEF ChangedAt
<1> QED
  BY <1>4, <1>5, TreesMade DEF EpisodeInv, EpisodeInit, FinishedIsOrganized

\* A verdict that evaluate agrees with.
LEMMA EvaluateFinds ==
    ASSUME EpisodeInv, Evaluate
    PROVE  /\ Committed = Expected
           /\ \A family \in Families : \E i \in 2 .. Len(commits) :
                 /\ commits[i].family = family
                 /\ Boundary(family) \in commits[i].changed
                 /\ commits[i - 1].tree.file[Boundary(family)] # "want"
<1>1. Committed = Expected
  BY DEF Evaluate, Clean
<1>2. ASSUME NEW family \in Families
      PROVE  \E i \in 2 .. Len(commits) :
                 /\ commits[i].family = family
                 /\ Boundary(family) \in commits[i].changed
                 /\ commits[i - 1].tree.file[Boundary(family)] # "want"
  <2>1. \E sources : TaskInItsCommit(family, sources)
    BY DEF Evaluate, Families
  <2>2. PICK i \in 1 .. Len(commits) :
          /\ commits[i].family = family
          /\ Boundary(family) \in commits[i].changed
          /\ commits[i].tree.file[Boundary(family)] = "want"
    BY <2>1 DEF TaskInItsCommit
  <2>3. i > 1 /\ commits[i - 1].tree.file[Boundary(family)] # "want"
    BY <2>2 DEF EpisodeInv, ChangedAt
  <2>4. i \in 2 .. Len(commits)
    BY <2>2, <2>3, LastCommit DEF EpisodeInv
  <2> QED
    BY <2>2, <2>3, <2>4
<1> QED
  BY <1>1, <1>2

\* A step that leaves the history alone and does not finish.
LEMMA HistoryStays ==
    ASSUME EpisodeInv, UNCHANGED commits, tree' \in Trees,
           outcome' = "finished" => outcome = "finished"
    PROVE  EpisodeInv'
  BY DEF EpisodeInv, ChangedAt, FinishedIsOrganized, Committed

LEMMA CommitKeeps ==
    ASSUME EpisodeInv, NEW paths \in SUBSET Files, NEW board \in BOOLEAN, NEW family \in Families,
           CommitSelected(paths, board, family)
    PROVE  EpisodeInv'
<1> DEFINE split == Tree([f \in Files |-> IF f \in paths THEN tree.file[f] ELSE Committed.file[f]],
                         IF board THEN tree.board ELSE Committed.board)
           new == [tree |-> split, family |-> family,
                   changed |-> {f \in paths : tree.file[f] # Committed.file[f]}]
           n == Len(commits)
<1>1. n \in Nat \ {0} /\ Committed \in Trees /\ tree \in Trees /\ commits \in Seq(Commit)
  BY LastCommit DEF EpisodeInv
<1>2. /\ split \in Trees
      /\ \A f \in paths : split.file[f] = tree.file[f]
  <2>1. /\ tree.file \in [Files -> {"none", "base", "want", "other"}] /\ tree.board \in SUBSET Families
        /\ Committed.file \in [Files -> {"none", "base", "want", "other"}]
        /\ Committed.board \in SUBSET Families
    BY <1>1 DEF Trees
  <2>2. split \in Trees
    BY <2>1, TreesMade
  <2>3. \A f \in paths : split.file[f] = tree.file[f]
    BY DEF Tree
  <2> QED
    BY <2>2, <2>3
<1> HIDE DEF split
<1>3. new \in Commit
  BY <1>2 DEF Commit
<1>4. \A f \in new.changed : new.tree.file[f] # commits[n].tree.file[f]
  BY <1>2 DEF Committed
<1>5. commits' = Append(commits, new) /\ tree' = tree /\ outcome' = outcome /\ outcome = "running"
  BY DEF CommitSelected, split, Done, Acting
<1> HIDE DEF new
<1>6. /\ commits' \in Seq(Commit) /\ Len(commits') = n + 1 /\ commits' # <<>>
      /\ \A i \in 1 .. n : commits'[i] = commits[i]
      /\ commits'[n + 1] = new
  BY <1>1, <1>3, <1>5
<1>7. ASSUME NEW i \in 1 .. n + 1 PROVE ChangedAt(i)'
  <2>1. CASE i = n + 1
    BY <1>1, <1>4, <1>6, <2>1 DEF ChangedAt
  <2>2. CASE i # n + 1
    <3>1. i \in 1 .. n /\ (i > 1 => i - 1 \in 1 .. n)
      BY <1>1, <2>2
    <3>2. ChangedAt(i)
      BY <3>1 DEF EpisodeInv
    <3> QED
      BY <1>6, <3>1, <3>2 DEF ChangedAt
  <2> QED
    BY <2>1, <2>2
<1>8. FinishedIsOrganized'
  BY <1>5 DEF FinishedIsOrganized
<1> QED
  BY <1>1, <1>5, <1>6, <1>7, <1>8 DEF EpisodeInv

LEMMA EpisodeStep == EpisodeInv /\ [EpisodeNext]_episodeVars => EpisodeInv'
<1> SUFFICES ASSUME EpisodeInv, [EpisodeNext]_episodeVars PROVE EpisodeInv'
  OBVIOUS
<1>1. tree \in Trees
  BY DEF EpisodeInv
<1>2. CASE ProposeFinish
  <2>1. UNCHANGED <<tree, commits>> /\ (outcome' = "finished" => Evaluate)
    BY <1>2 DEF ProposeFinish
  <2>2. FinishedIsOrganized'
    BY <2>1, EvaluateFinds DEF FinishedIsOrganized, Committed
  <2> QED
    BY <2>1, <2>2 DEF EpisodeInv, ChangedAt
<1>3. CASE ProposeInvalid \/ (\E n \in 1..MaxPlan : ProposeCalls(n)) \/ ProposeContinue
             \/ ProposeBlocked \/ BudgetExhausted \/ Look \/ CallFails
  <2>1. UNCHANGED <<tree, commits>> /\ (outcome' = "finished" => outcome = "finished")
    BY <1>3 DEF ProposeInvalid, ProposeCalls, ProposeContinue, ProposeBlocked, BudgetExhausted,
                Look, CallFails, Done
  <2> QED
    BY <1>1, <2>1, HistoryStays
<1>4. CASE \/ \E content \in {"want", "other"} : Write("guide", content)
           \/ \E board \in {{"feat"}, Families} : WriteBoard(board)
           \/ Script("guideTask")
  <2>1. UNCHANGED <<commits, outcome>>
    BY <1>4 DEF Write, WriteBoard, Script, Done
  <2>2. \/ \E f \in Files, c \in {"none", "want", "other"} : tree' = [tree EXCEPT !.file[f] = c]
        \/ \E board \in SUBSET Families : tree' = [tree EXCEPT !.board = board]
    <3>1. "guide" \in Files /\ "guideTask" \in Files /\ {"feat"} \in SUBSET Families
      BY DEF Files, Docs, Families
    <3> QED
      BY <1>4, <3>1 DEF Write, WriteBoard, Script
  <2>3. tree' \in Trees
    BY <1>1, <2>2 DEF Trees
  <2> QED
    BY <2>1, <2>3, HistoryStays
<1>5. ASSUME NEW paths \in {Docs, Behavior, Files}, NEW board \in BOOLEAN, NEW family \in Families,
             CommitSelected(paths, board, family)
      PROVE  EpisodeInv'
  <2>1. paths \in SUBSET Files
    BY DEF Files
  <2> QED
    BY <1>5, <2>1, CommitKeeps
<1>6. CASE UNCHANGED episodeVars
  BY <1>1, <1>6, HistoryStays DEF episodeVars
<1> QED
  BY <1>2, <1>3, <1>4, <1>5, <1>6 DEF EpisodeNext

(* Whatever the model wrote, removed, committed or gave up in between, an   *)
(* episode is judged finished (run_episode, evaluate) only when the history *)
(* holds the expected files and board, and each change came into it in a    *)
(* commit of its own family that brought its task file.                     *)
THEOREM FinishedIsAlwaysOrganized == EpisodeSpec => []FinishedIsOrganized
<1>1. EpisodeInv => FinishedIsOrganized
  BY DEF EpisodeInv
<1> QED
  BY <1>1, EpisodeStarts, EpisodeStep, PTL DEF EpisodeSpec
=============================================================================
