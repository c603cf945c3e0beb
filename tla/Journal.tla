------------------------------ MODULE Journal ------------------------------
(***************************************************************************)
(* The event journal of a toas workspace: the hot file, the sealed         *)
(* segments, their derived index files, and the lock that serializes       *)
(* appenders in threads and processes (graph.py, graph_rotation_edges.py,  *)
(* graph_index_edges.py, graph_journal_lock_edges.py), used by steps that  *)
(* read the log, call a model, and persist much later                      *)
(* (runtime/step_result_runtime.py).                                       *)
(*                                                                         *)
(* A file is the sequence of its lines.  A line is a message (numbered     *)
(* from 1; parent 0 is the virtual root n0) or another record.  Path 0 is  *)
(* the hot file, path k the k-th sealed segment.  The hot file keeps its   *)
(* inode when it is sealed: inode k is the file that is or becomes segment *)
(* k.  Message text, byte offsets and gzip are left out; a crash happens   *)
(* between writes of whole lines.                                          *)
(***************************************************************************)
EXTENDS Integers, Sequences

CONSTANTS
    Steps,       \* threads, in any process, that run steps
    Indexers,    \* threads that rebuild or refresh an index, without the lock
    Limit,       \* effective hot-journal limit in lines; 0 disables sealing
    MayCrash,    \* processes may be killed
    MaxTurns     \* bound: steps that get to persist

ASSUME JournalAssumption ==
    /\ Steps \cap Indexers = {}
    /\ Limit \in Nat /\ MaxTurns \in Nat
    /\ MayCrash \in BOOLEAN

VARIABLES
    lock,    \* owner and depth of journal_write_lock
    turns,   \* steps that took the lock so far
    hot,     \* the hot file: whether it exists, and its lines
    segs,    \* the sealed segments, by ordinal
    idx,     \* per path: its index file and the index's meta file
    proc     \* per thread: where it is and what it carries

vars == <<lock, turns, hot, segs, idx, proc>>

-----------------------------------------------------------------------------

Threads == Steps \cup Indexers
NoOne == "nobody"
ASSUME NoOneAssumption == NoOne \notin Threads

Line == [kind : {"msg", "rec"}, id : Nat, parent : Nat, turn : Nat]
RecordLine(turn) == [kind |-> "rec", id |-> 0, parent |-> 0, turn |-> turn]
Record == [ino : Nat, line : Nat, id : Nat]   \* ino: what the record is about
NoMeta == <<0, 0>>
Index == [there : BOOLEAN, recs : Seq(Record), meta : Nat \X Nat]
NoIndex == [there |-> FALSE, recs |-> <<>>, meta |-> NoMeta]

Paths == 0..MaxTurns
MaxBatch == 2     \* bound: messages a step writes at once
Default == -1     \* no explicit parent

At == {"idle", "model", "locked", "append", "index", "stamp", "record",
       "seal", "drop", "replace", "touch", "rb_read", "rb_delete",
       "rb_append", "rb_stamp", "unlock"}

Proc == [at : At,
         parent : Nat \cup {Default},      \* explicit parent of its first node
         count : 0..MaxBatch,                   \* messages the step produced
         turn : 0..MaxTurns,
         batch : Seq(Line), base : Nat,    \* materialized, lines before them
         path : Paths, snap : Seq(Record)] \* what a rebuild works on

Idle == [at |-> "idle", parent |-> Default, count |-> 0, turn |-> 0,
         batch |-> <<>>, base |-> 0, path |-> 0, snap |-> <<>>]

Exists(path) == IF path = 0 THEN hot.there ELSE path <= Len(segs)
Inode(path) == IF path = 0 THEN Len(segs) + 1 ELSE path
Lines(path) == IF path = 0 THEN hot.lines ELSE segs[path]

\* _events_stat_fingerprint
Fingerprint(path) == <<Inode(path), Len(Lines(path))>>

MsgAt(lines) == {i \in 1..Len(lines) : lines[i].kind = "msg"}
Ids(lines) == {lines[i].id : i \in MsgAt(lines)}

\* The id of the last message; 0 (n0) in a log without messages.
Tip(lines) ==
    IF MsgAt(lines) = {} THEN 0
    ELSE lines[CHOOSE i \in MsgAt(lines) : \A j \in MsgAt(lines) : j <= i].id

\* _next_message_id and _default_parent, for all nodes of a call
NewMessages(lines, n, parent, turn) ==
    [k \in 1..n |->
        [kind |-> "msg", id |-> Tip(lines) + k,
         parent |-> IF k = 1 /\ parent # Default THEN parent
                    ELSE Tip(lines) + k - 1,
         turn |-> turn]]

IndexRecords(ino, base, lines) ==
    LET all == [i \in 1..Len(lines) |->
                  [ino |-> ino, line |-> base + i,
                   id |-> IF lines[i].kind = "msg" THEN lines[i].id ELSE 0]]
        Indexed(r) == r.id # 0
    IN  SelectSeq(all, Indexed)

-----------------------------------------------------------------------------
(* journal_write_lock is reentrant: an inner use only counts.              *)

GoTo(p, at) == proc' = [proc EXCEPT ![p].at = at]
Return(p) == proc' = [proc EXCEPT ![p] = Idle]

Acquire(p) ==
    /\ lock.owner = NoOne \/ lock.owner = p
    /\ lock' = [owner |-> p, depth |-> lock.depth + 1]

Leave(p) == lock' = IF lock.depth = 1 THEN [owner |-> NoOne, depth |-> 0]
                    ELSE [lock EXCEPT !.depth = @ - 1]

-----------------------------------------------------------------------------
(* A step.                                                                 *)

\* run_step makes sure there is a hot file and reads it, without the lock.  The transcript decides how many
\* messages are new and where they branch off: at a message of the log, at
\* the virtual root, or (nothing to branch from, or only an answer is new)
\* at whatever is last when they are written.
ReadLog(p, parent, n) ==
    /\ proc[p].at = "idle" /\ turns < MaxTurns
    /\ parent = 0 => Ids(hot.lines) # {}
    /\ n = 0 => parent = Default
    /\ proc' = [proc EXCEPT ![p] = [@ EXCEPT !.at = "model", !.parent = parent,
                                            !.count = n]]
    /\ hot' = [hot EXCEPT !.there = TRUE]
    /\ UNCHANGED <<lock, turns, segs, idx>>

\* Mutant of Discard: the step leaves a lock that it has not taken.
DiscardUnlocks(p) ==
    /\ proc[p].at = "model"
    /\ lock' = [owner |-> NoOne, depth |-> 0]
    /\ Return(p)
    /\ UNCHANGED <<turns, hot, segs, idx>>

\* The model fails, or the step has nothing durable to say.
Discard(p) ==
    /\ proc[p].at = "model"
    /\ Return(p)
    /\ UNCHANGED <<lock, turns, hot, segs, idx>>

\* persist_step_outputs_runtime, once the model has answered.
Lock(p) ==
    /\ proc[p].at = "model" /\ turns < MaxTurns
    /\ lock.owner = NoOne
    /\ Acquire(p)
    /\ turns' = turns + 1
    /\ proc' = [proc EXCEPT ![p] = [@ EXCEPT !.at = "locked", !.turn = turns + 1]]
    /\ UNCHANGED <<hot, segs, idx>>

\* write_message_events, up to the materialized lines.
Materialize(p) ==
    /\ proc[p].at = "locked" /\ proc[p].count > 0
    /\ Acquire(p)
    /\ proc' = [proc EXCEPT ![p] =
                  [@ EXCEPT !.at = "append", !.base = Len(hot.lines),
                            !.batch = NewMessages(hot.lines, proc[p].count,
                                                  proc[p].parent, proc[p].turn)]]
    /\ UNCHANGED <<turns, hot, segs, idx>>

\* A step without messages: write_message_events returns at once.
NoMessages(p) ==
    /\ proc[p].at = "locked" /\ proc[p].count = 0
    /\ GoTo(p, "record")
    /\ UNCHANGED <<lock, turns, hot, segs, idx>>

WriteLines(lines) == hot' = [there |-> TRUE, lines |-> hot.lines \o lines]

AppendMessages(p) ==
    /\ proc[p].at = "append"
    /\ WriteLines(proc[p].batch)
    /\ GoTo(p, "index")
    /\ UNCHANGED <<lock, turns, segs, idx>>

\* Mutant of AppendIndex: lines are counted after the append.
AppendIndexLate(p) ==
    /\ proc[p].at = "index"
    /\ idx' = [idx EXCEPT ![0] =
                 [@ EXCEPT !.there = TRUE,
                           !.recs = @ \o IndexRecords(Inode(0), Len(hot.lines),
                                                      proc[p].batch)]]
    /\ GoTo(p, "stamp")
    /\ UNCHANGED <<lock, turns, hot, segs>>

\* append_index_records creates the file if there is none.
AppendIndex(p) ==
    /\ proc[p].at = "index"
    /\ idx' = [idx EXCEPT ![0] =
                 [@ EXCEPT !.there = TRUE,
                           !.recs = @ \o IndexRecords(Inode(0), proc[p].base,
                                                      proc[p].batch)]]
    /\ GoTo(p, "stamp")
    /\ UNCHANGED <<lock, turns, hot, segs>>

\* refresh_index_meta, the end of write_message_events.
StampIndex(p) ==
    /\ proc[p].at = "stamp"
    /\ idx' = IF idx[0].there THEN [idx EXCEPT ![0].meta = Fingerprint(0)] ELSE idx
    /\ Leave(p)
    /\ GoTo(p, "record")
    /\ UNCHANGED <<turns, hot, segs>>

\* The records of a step (llm_call, tool_request, results ...) go through
\* append_nodes, which knows nothing of the index.
AppendRecord(p) ==
    /\ proc[p].at = "record"
    /\ WriteLines(<<RecordLine(proc[p].turn)>>)
    /\ GoTo(p, "seal")
    /\ UNCHANGED <<lock, turns, segs, idx>>

NoRecord(p) ==
    /\ proc[p].at = "record"
    /\ GoTo(p, "seal")
    /\ UNCHANGED <<lock, turns, hot, segs, idx>>

-----------------------------------------------------------------------------
(* seal_hot_journal, at the end of a step.                                 *)

\* A recent large round trip raises the limit, so a full file may stay.
KeepHot(p) ==
    /\ proc[p].at = "seal"
    /\ GoTo(p, "unlock")
    /\ UNCHANGED <<lock, turns, hot, segs, idx>>

BeginSeal(p) ==
    /\ proc[p].at = "seal"
    /\ Limit > 0 /\ Len(hot.lines) > Limit
    /\ Acquire(p)
    /\ GoTo(p, "drop")
    /\ UNCHANGED <<turns, hot, segs, idx>>

DropIndex(p) ==
    /\ proc[p].at = "drop"
    /\ idx' = [idx EXCEPT ![0] = NoIndex]
    /\ GoTo(p, "replace")
    /\ UNCHANGED <<lock, turns, hot, segs>>

\* Mutant of Replace: the lines are copied while the last one is buffered.
ReplaceByCopy(p) ==
    /\ proc[p].at = "replace"
    /\ segs' = Append(segs, SubSeq(hot.lines, 1, Len(hot.lines) - 1))
    /\ hot' = [there |-> FALSE, lines |-> <<>>]
    /\ GoTo(p, "touch")
    /\ UNCHANGED <<lock, turns, idx>>

\* os.replace
Replace(p) ==
    /\ proc[p].at = "replace"
    /\ segs' = Append(segs, hot.lines)
    /\ hot' = [there |-> FALSE, lines |-> <<>>]
    /\ GoTo(p, "touch")
    /\ UNCHANGED <<lock, turns, idx>>

Touch(p) ==
    /\ proc[p].at = "touch"
    /\ hot' = [hot EXCEPT !.there = TRUE]
    /\ proc' = [proc EXCEPT ![p] = [@ EXCEPT !.at = "rb_read", !.path = Len(segs)]]
    /\ UNCHANGED <<lock, turns, segs, idx>>

Unlock(p) ==
    /\ proc[p].at = "unlock"
    /\ Leave(p)
    /\ Return(p)
    /\ UNCHANGED <<turns, hot, segs, idx>>

-----------------------------------------------------------------------------
(* rebuild_index takes no lock.  seal_hot_journal runs it on the new       *)
(* segment, an index reader on any path.                                   *)

StartIndexing(r, path) ==
    /\ r \in Indexers /\ proc[r].at = "idle"
    /\ Exists(path)
    /\ proc' = [proc EXCEPT ![r] = [@ EXCEPT !.at = "rb_read", !.path = path]]
    /\ UNCHANGED <<lock, turns, hot, segs, idx>>

\* Mutant of Rebuilt: the seal returns with its lock.
RebuiltLocked(p) ==
    IF p \in Steps THEN GoTo(p, "unlock") /\ UNCHANGED lock
    ELSE Return(p) /\ UNCHANGED lock

\* A rebuild ends; a sealing step also leaves the lock it took for the seal.
Rebuilt(p) ==
    IF p \in Steps THEN Leave(p) /\ GoTo(p, "unlock")
    ELSE Return(p) /\ UNCHANGED lock

RebuildRead(p) ==
    /\ proc[p].at = "rb_read"
    /\ LET path == proc[p].path
       IN  IF Exists(path)
           THEN /\ proc' = [proc EXCEPT ![p] =
                     [@ EXCEPT !.at = "rb_delete",
                               !.snap = IndexRecords(Inode(path), 0, Lines(path))]]
                /\ UNCHANGED <<lock, idx>>
           ELSE /\ idx' = [idx EXCEPT ![path] = NoIndex]
                /\ Rebuilt(p)
    /\ UNCHANGED <<turns, hot, segs>>

RebuildDelete(p) ==
    /\ proc[p].at = "rb_delete"
    /\ idx' = [idx EXCEPT ![proc[p].path] = NoIndex]
    /\ GoTo(p, "rb_append")
    /\ UNCHANGED <<lock, turns, hot, segs>>

RebuildAppend(p) ==
    /\ proc[p].at = "rb_append"
    /\ idx' = IF proc[p].snap = <<>> THEN idx
              ELSE [idx EXCEPT ![proc[p].path] =
                      [@ EXCEPT !.there = TRUE, !.recs = @ \o proc[p].snap]]
    /\ GoTo(p, "rb_stamp")
    /\ UNCHANGED <<lock, turns, hot, segs>>

\* _write_index_meta looks at the file as it is now; without a file it raises.
RebuildStamp(p) ==
    /\ proc[p].at = "rb_stamp"
    /\ idx' = IF Exists(proc[p].path)
              THEN [idx EXCEPT ![proc[p].path].meta = Fingerprint(proc[p].path)]
              ELSE idx
    /\ Rebuilt(p)
    /\ UNCHANGED <<turns, hot, segs>>

-----------------------------------------------------------------------------
(* A process is killed and the system closes its lock file, or a write     *)
(* raises and every block that holds the lock is left.                     *)

Killed(p) ==
    /\ MayCrash /\ proc[p].at # "idle"
    /\ lock' = IF lock.owner = p THEN [owner |-> NoOne, depth |-> 0] ELSE lock
    /\ Return(p)
    /\ UNCHANGED <<turns, segs, idx>>

Crash(p) == Killed(p) /\ UNCHANGED hot

\* Some of a batch's lines had reached the file.
CrashInAppend(p) ==
    /\ proc[p].at = "append"
    /\ Killed(p)
    /\ \E k \in 1..Len(proc[p].batch) : WriteLines(SubSeq(proc[p].batch, 1, k))

-----------------------------------------------------------------------------

Init ==
    /\ lock = [owner |-> NoOne, depth |-> 0]
    /\ turns = 0
    /\ hot = [there |-> FALSE, lines |-> <<>>]
    /\ segs = <<>>
    /\ idx = [path \in Paths |-> NoIndex]
    /\ proc = [p \in Threads |-> Idle]

Rebuild(p) == RebuildRead(p) \/ RebuildDelete(p) \/ RebuildAppend(p) \/ RebuildStamp(p)

Persist(p) ==
    \/ Materialize(p) \/ NoMessages(p) \/ AppendMessages(p) \/ AppendIndex(p)
    \/ StampIndex(p)
    \/ AppendRecord(p) \/ NoRecord(p)
    \/ KeepHot(p) \/ BeginSeal(p) \/ DropIndex(p) \/ Replace(p) \/ Touch(p)
    \/ Unlock(p)

Step(p) ==
    \/ \E parent \in Ids(hot.lines) \cup {0, Default}, n \in 0..MaxBatch : ReadLog(p, parent, n)
    \/ Lock(p) \/ Discard(p)
    \/ Persist(p)

Next ==
    \/ \E p \in Steps : Step(p)
    \/ \E r \in Indexers, path \in Paths : StartIndexing(r, path)
    \/ \E p \in Threads : Rebuild(p) \/ Crash(p) \/ CrashInAppend(p)

Spec == Init /\ [][Next]_vars

-----------------------------------------------------------------------------
(* Properties.                                                             *)

\* Type correctness of the files, the lock and the threads.
TypeOK ==
    /\ lock \in [owner : Threads \cup {NoOne}, depth : 0..2]
    /\ turns \in 0..MaxTurns
    /\ hot \in [there : BOOLEAN, lines : Seq(Line)]
    /\ segs \in Seq(Seq(Line))
    /\ idx \in [Paths -> Index]
    /\ proc \in [Threads -> Proc]

Sources == {p \in Paths : Exists(p)}

\* However steps overlap, crash and seal, no file has two messages with the
\* same id (what fsck_logical_history reports as duplicate_message_id).
IdsUnique ==
    \A path \in Sources : \A i, j \in MsgAt(Lines(path)) :
        Lines(path)[i].id = Lines(path)[j].id => i = j

\* Every message's parent is the virtual root or an earlier message of the same
\* file; a reader stops with "fatal durable-history corruption: missing_parent"
\* otherwise (projection_selection.py).
ParentsPresent ==
    \A path \in Sources : \A i \in MsgAt(Lines(path)) :
        \/ Lines(path)[i].parent = 0
        \/ \E j \in MsgAt(Lines(path)) : j < i /\ Lines(path)[j].id = Lines(path)[i].parent

\* What an index lists is there: until a file is sealed, every record of an
\* index that passes for current names the line of its message, however
\* lockless rebuilds, appends and crashes overlap.  (It may list too little or
\* list twice; and a rebuild that is overtaken by a sealing writes the index
\* of the old file beside the new one.)
IndexSound ==
    segs = <<>> =>
        (idx[0].there /\ idx[0].meta = Fingerprint(0) =>
            \A i \in 1..Len(idx[0].recs) :
                LET rec == idx[0].recs[i]
                IN  rec.line \in MsgAt(hot.lines) /\ hot.lines[rec.line].id = rec.id)

Working(p) == p \in Steps /\ proc[p].at \notin {"idle", "model"}

\* The lock is held by whoever works under it and by nobody else: through the
\* nested uses of appends and seals a step neither loses it before its last
\* write nor keeps it after its return.
LockHeldByWorker ==
    /\ \A p \in Threads : Working(p) <=> lock.owner = p
    /\ lock.owner = NoOne <=> lock.depth = 0

-----------------------------------------------------------------------------
(* What the steps of all threads amount to.                                *)

History == INSTANCE History WITH
    volumes <- Append(segs, hot.lines),
    open <- IF lock.owner = NoOne THEN 0 ELSE turns,
    last <- turns

\* The journal implements a history: whatever the threads do, and wherever
\* they are killed, a line that was written is never changed, moved within its
\* file or lost, a sealed segment never grows, and every line comes from the
\* turn of the step that holds journal_write_lock at that moment.
IsAHistory == History!HistorySpec

=============================================================================
