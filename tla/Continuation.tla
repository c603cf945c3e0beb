---------------------------- MODULE Continuation ----------------------------
(***************************************************************************)
(* `toas session continue`: a compacted session is carried on in a new     *)
(* session file, the successor, on the same journal                        *)
(* (runtime/session_rotation.py).  The successor is put in place by one    *)
(* rename and bound to the journal by a session_successor record after it; *)
(* steps of both files go on meanwhile, and a crash or a failed write may  *)
(* come between the two.                                                   *)
(*                                                                         *)
(* The system starts with a session that has just been compacted.          *)
(***************************************************************************)
EXTENDS TranscriptStep

CONSTANT Restoration   \* the commands the handoff asks to run again

ASSUME RestorationAssumption == Restoration \in Seq({"shell"})

VARIABLE cont          \* the continuation under way, or NoContinuation

cvars == <<vars, cont>>

NoContinuation == [phase |-> "idle"]

SeedTurn == Turn("user", Say("bootstrap"))
RestorationTurn == Turn("user", IF Restoration = <<>> THEN Say("empty") ELSE Plan(Restoration, <<>>))

-----------------------------------------------------------------------------
(***************************************************************************)
(* What the successor holds.                                               *)
(***************************************************************************)
IsCompact(t) == t.role = "user" /\ t.text.cmds # <<>> /\ Last(t.text.cmds) = "compact"

\* The answers to a /compact turn; the last one is the handoff.
Handoffs(nodes) == {k \in 2 .. Len(nodes) : nodes[k].role = "assistant" /\ IsCompact(nodes[k - 1])}

\* The grants in force for the predecessor: what the journal records, then
\* what the transcript declares, its last turn included.
PredecessorGrants(nodes, recs) ==
    ResolveShellGrants(OperatorConfig(recs), recs \o BranchGrantEvents(Declarations(nodes)))

ConfiguredGrants(recs) == ResolveShellGrants(OperatorConfig(recs), <<>>)

\* The grant commands the successor needs: the difference to the configured
\* grants, less what the replayed turns declare themselves.
NeededGrants(nodes, recs, replay) ==
    LET effective  == PredecessorGrants(nodes, recs)
        configured == ConfiguredGrants(recs)
        existing   == ActivePolicyState(BranchGrantEvents(Declarations(replay)))["session"]
    IN  (IF Granted \in (effective \ configured) \ existing.added THEN <<"shell_add">> ELSE <<>>)
          \o (IF Granted \in (configured \ effective) \ existing.removed THEN <<"shell_remove">> ELSE <<>>)

\* The seed, the turns from the /compact on, the grants behind the handoff,
\* and the restoration behind those unless it is staged already.
Successor(nodes, recs, excludeTail) ==
    LET handoff == Max(Handoffs(nodes))
        tail    == IF excludeTail THEN <<>> ELSE SubSeq(nodes, handoff + 1, Len(nodes))
        replay  == SubSeq(nodes, handoff - 1, handoff) \o tail
        needed  == NeededGrants(nodes, recs, replay)
        grants  == IF needed = <<>> THEN <<>> ELSE <<Turn("control", Typed(needed))>>
        staged  == tail # <<>> /\ (Restoration = <<>> \/ Head(tail) = RestorationTurn)
        restore == IF excludeTail \/ staged THEN <<>> ELSE <<RestorationTurn>>
    IN  <<SeedTurn>> \o SubSeq(nodes, handoff - 1, handoff) \o grants \o restore \o tail

-----------------------------------------------------------------------------
(***************************************************************************)
(* The actions of a continuation.                                          *)
(***************************************************************************)
\* The last message of the lineage when the journal was read; 0 for none.
ContinuationParent == Len(msgs)

FreeFiles == {g \in Files : files[g] = NoFile}

\* The journal and the predecessor are read, a free name is found and the
\* successor is written to a temporary file.
ContinueRead(f) ==
    /\ cont = NoContinuation
    /\ files[f] # NoFile /\ Handoffs(files[f]) # {}
    /\ FreeFiles # {}
    /\ \E excludeTail \in BOOLEAN :
         cont' = [phase  |-> "replace",
                  pred   |-> files[f],
                  target |-> Min(FreeFiles),
                  nodes  |-> Successor(files[f], records, excludeTail),
                  parent |-> ContinuationParent,
                  read   |-> Len(records),
                  before |-> <<>>]
    /\ UNCHANGED vars

ContinueReplace ==
    /\ cont.phase = "replace"
    /\ Len(cont.nodes) <= MaxTurns
    /\ files' = [files EXCEPT ![cont.target] = cont.nodes]
    /\ cont' = [cont EXCEPT !.phase = "record", !.before = <<Len(msgs), Len(records)>>]
    /\ UNCHANGED <<msgs, records, output, step, ran, steps, edits>>

\* persist_step_outputs holds the journal's lock from its first write on.
LockHeld == step.phase = "records" \/ (step.phase = "messages" /\ step.control)

SuccessorRecord ==
    [kind |-> "session_successor", src |-> 0, path |-> cont.target, parent |-> cont.parent]

ContinueRecord ==
    /\ cont.phase = "record" /\ ~LockHeld
    /\ records' = Append(records, SuccessorRecord)
    /\ cont' = NoContinuation
    /\ UNCHANGED <<msgs, files, output, step, ran, steps, edits>>

\* The successor stays when the journal is not what it was before the write.
KeptSuccessor(journal) == journal # cont.before

\* The write fails, before the record has reached the journal or after.
ContinueFail ==
    /\ cont.phase = "record" /\ ~LockHeld
    /\ \E landed \in BOOLEAN :
         /\ records' = IF landed THEN Append(records, SuccessorRecord) ELSE records
         /\ files' = IF KeptSuccessor(<<Len(msgs), Len(records')>>) THEN files
                     ELSE [files EXCEPT ![cont.target] = NoFile]
    /\ cont' = NoContinuation
    /\ UNCHANGED <<msgs, output, step, ran, steps, edits>>

\* A kill leaves at most a successor without a record.
ContinueCrash ==
    /\ cont # NoContinuation
    /\ cont' = NoContinuation
    /\ UNCHANGED vars

-----------------------------------------------------------------------------
(***************************************************************************)
(* A compacted session: the seed, a turn that adds a grant, stepped on its *)
(* own or not, the /compact turn and the digest it led to.                 *)
(***************************************************************************)
CompactedTurns ==
    <<SeedTurn, Turn("user", Typed(<<"shell_add">>)), Turn("user", Typed(<<"compact">>)),
      Turn("assistant", Say("digest"))>>

CompactedRecords(stepped) ==
    (IF stepped THEN <<PolicyUpdate("shell_add", 2)>> ELSE <<>>)
      \o <<[kind |-> "compaction_projection", src |-> 3]>>

ContinuationInit ==
    /\ msgs = [i \in DOMAIN CompactedTurns |->
                 [parent |-> i - 1, role |-> CompactedTurns[i].role, text |-> CompactedTurns[i].text,
                  adopted |-> FALSE]]
    /\ \E stepped \in BOOLEAN : records = CompactedRecords(stepped)
    /\ files = [f \in Files |-> IF f = 1 THEN CompactedTurns ELSE NoFile]
    /\ output = <<>> /\ step = Idle /\ ran = <<>> /\ steps = 0 /\ edits = 0
    /\ cont = NoContinuation

ContinueNext ==
    \/ \E f \in Files : ContinueRead(f)
    \/ ContinueReplace \/ ContinueRecord \/ ContinueFail \/ ContinueCrash

\* A step or an edit of any file, or a step of a continuation.
ContinuationNext == (Next /\ UNCHANGED cont) \/ ContinueNext

ContinuationSpec == ContinuationInit /\ [][ContinuationNext]_cvars

-----------------------------------------------------------------------------
ContinuationTypeOK ==
    /\ TypeOK
    /\ cont.phase \in {"idle", "replace", "record"}
    /\ cont # NoContinuation => /\ cont.target \in Files \ {1}
                                /\ cont.parent \in 0 .. Len(msgs)
                                /\ cont.read <= Len(records)

\* The lineages a successor record lets the transcript of file f follow.
Continued(f) ==
    {Turns(Lineage(records[i].parent)) :
       i \in {j \in DOMAIN records : records[j].kind = "session_successor" /\ records[j].path = f}}

WholeTurns ==
    LET added == SelectSeq(step.out, IsMessage)
    IN  step.nodes \o [i \in DOMAIN added |-> Turn(added[i].role, added[i].text)]

Kept == Len(step.nodes) - Len(step.new)

\* Whichever of the files is stepped, in whatever order and with whatever was
\* cut off, crashed or recorded meanwhile: the path to each message a step
\* wrote is the transcript of its file up to it, alone or behind the lineage
\* its successor record names, and never mixed with another file's turns.
SessionRecorded ==
    step.phase = "records" /\ step.new # <<>> =>
      \A k \in DOMAIN step.ids : \E before \in {<<>>} \cup Continued(step.file) :
        Turns(Lineage(step.ids[k])) = before \o SubSeq(WholeTurns, 1, Kept + k)

\* The first step of a successor that finds its record, with no message written
\* since the predecessor was read, follows on the predecessor's lineage.
SuccessorContinues ==
    \A i \in DOMAIN records :
      /\ step.phase = "records" /\ step.new # <<>>
      /\ records[i].kind = "session_successor" /\ records[i].path = step.file /\ i <= step.base
      /\ step.ids[1] = records[i].parent + 1
      => \A k \in DOMAIN step.ids :
           Turns(Lineage(step.ids[k])) = Turns(Lineage(records[i].parent)) \o SubSeq(WholeTurns, 1, Kept + k)

\* The grants in force for a first step at the end of the successor are those
\* of its predecessor, whether its turns or the journal's records declare them.
GrantsInherited ==
    cont # NoContinuation =>
      LET recs     == SubSeq(records, 1, cont.read)
          declared == BranchGrantEvents(Declarations(cont.nodes))
      IN  ResolveShellGrants(OperatorConfig(recs), IF declared # <<>> THEN declared ELSE recs)
            = PredecessorGrants(cont.pred, recs)

\* The file a successor record names is never taken away.
RecordedSuccessorExists ==
    \A i \in DOMAIN records : records[i].kind = "session_successor" => files[records[i].path] # NoFile

\* A recorded successor is there, follows on its predecessor, and starts with
\* its predecessor's grants.
SuccessorSound == SuccessorContinues /\ GrantsInherited /\ RecordedSuccessorExists

(* A continuation leaves a successor that goes on where the predecessor     *)
(* stopped, and both files remain recorded as they read.                    *)
ContinuationSound == SessionRecorded /\ SuccessorSound
=============================================================================
