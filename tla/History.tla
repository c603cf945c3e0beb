------------------------------ MODULE History ------------------------------
(***************************************************************************)
(* What the journal promises its readers, without files, indexes, threads  *)
(* or nested locks: a history in volumes, of which only the last one ever  *)
(* grows, and only by lines of the one turn that is open.  Turns are       *)
(* numbered in the order in which they are opened.                         *)
(***************************************************************************)
EXTENDS Integers, Sequences

VARIABLES
    volumes,   \* the volumes, each the sequence of its lines
    open,      \* the turn that is being written; 0 if there is none
    last       \* the turn opened last

historyVars == <<volumes, open, last>>

Current == Len(volumes)

\* Lines of the open turn, none or some, are added to the last volume.
Grows ==
    \E lines \in {SubSeq(volumes'[Current], Len(volumes[Current]) + 1,
                         Len(volumes'[Current]))} :
        /\ \A i \in 1..Len(lines) : lines[i].turn = open
        /\ volumes' = [volumes EXCEPT ![Current] = @ \o lines]

\* A step enters journal_write_lock.
Begin ==
    /\ open = 0
    /\ open' = last + 1 /\ last' = last + 1
    /\ UNCHANGED volumes

\* append_nodes, by whoever holds the lock
Write == open # 0 /\ Grows /\ UNCHANGED <<open, last>>

\* seal_hot_journal: the last volume is complete, an empty one follows.
Seal ==
    /\ open # 0
    /\ volumes' = Append(volumes, <<>>)
    /\ UNCHANGED <<open, last>>

\* The lock is left or lost; a writer that is killed got out what it could.
End ==
    /\ open # 0 /\ open' = 0
    /\ Grows
    /\ UNCHANGED last

HistoryInit == volumes = <<<<>>>> /\ open = 0 /\ last = 0

HistoryNext == Begin \/ Write \/ Seal \/ End

HistorySpec == HistoryInit /\ [][HistoryNext]_historyVars

=============================================================================
