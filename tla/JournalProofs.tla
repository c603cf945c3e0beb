--------------------------- MODULE JournalProofs ---------------------------
(* The journal, for any number of steps, index readers, turns and crashes, *)
(* and any limit of the hot file: journal_write_lock excludes, no file has *)
(* two messages with one id, and the files are a history of turns.         *)
EXTENDS Journal, SequenceTheorems, FiniteSetTheorems, WellFoundedInduction,
        TLAPS

-----------------------------------------------------------------------------
(* Mutual exclusion.                                                       *)

(* The lock alone is not inductive: its depth has to be what the nested    *)
(* uses at the owner's position add up to, or a step would leave too early *)
(* or too late.                                                            *)

Free == [owner |-> NoOne, depth |-> 0]

\* Inside write_message_events and seal_hot_journal the lock is held twice.
Depth(at) == IF at \in {"locked", "record", "seal", "unlock"} THEN 1 ELSE 2

\* r has the fields of a thread.
IsProc(r) ==
    r = [at |-> r.at, parent |-> r.parent, count |-> r.count, turn |-> r.turn,
         batch |-> r.batch, base |-> r.base, path |-> r.path, snap |-> r.snap]

Inside(p, at) == p \in Steps /\ at \notin {"idle", "model"}

LockInv ==
    /\ proc = [p \in Threads |-> proc[p]]
    /\ \A p \in Threads : IsProc(proc[p])
    /\ lock = Free \/ \E p \in Threads : lock = [owner |-> p, depth |-> Depth(proc[p].at)]
    /\ \A p \in Threads : Inside(p, proc[p].at) <=> lock.owner = p

-----------------------------------------------------------------------------

\* Any step of p that moves it to r and settles the lock accordingly.
LEMMA MoveKeeps ==
    ASSUME LockInv, NEW p \in Threads, NEW r, IsProc(r),
           proc' = [proc EXCEPT ![p] = r],
           Inside(p, r.at) =>
               /\ lock.owner \in {p, NoOne}
               /\ lock' = [owner |-> p, depth |-> Depth(r.at)],
           ~Inside(p, r.at) =>
               lock' = IF lock.owner = p THEN Free ELSE lock
    PROVE  LockInv'
<1>1. /\ proc'[p] = r
      /\ \A q \in Threads : q # p => proc'[q] = proc[q]
      /\ proc' = [q \in Threads |-> proc'[q]]
  BY DEF LockInv
<1>2. \A q \in Threads : IsProc(proc'[q])
  BY <1>1 DEF LockInv
<1>3. NoOne # p
  BY NoOneAssumption
<1>4. CASE Inside(p, r.at)
  <2>1. lock' = [owner |-> p, depth |-> Depth(proc'[p].at)]
    BY <1>1, <1>4
  <2>2. lock'.owner = p
    BY <2>1
  <2>3. \A q \in Threads : q # p => ~Inside(q, proc'[q].at)
    BY <1>1, <1>4, NoOneAssumption DEF LockInv
  <2>4. \A q \in Threads : Inside(q, proc'[q].at) <=> lock'.owner = q
    BY <1>1, <1>4, <2>2, <2>3
  <2> QED
    BY <1>1, <1>2, <2>1, <2>4 DEF LockInv, IsProc, Inside
<1>5. CASE ~Inside(p, r.at) /\ lock.owner = p
  <2>1. lock' = Free /\ lock'.owner = NoOne
    BY <1>5 DEF Free
  <2>2. \A q \in Threads : ~Inside(q, proc'[q].at)
    BY <1>1, <1>5 DEF LockInv
  <2>3. \A q \in Threads : lock'.owner # q
    BY <2>1, NoOneAssumption
  <2> QED
    BY <1>1, <1>2, <2>1, <2>2, <2>3 DEF LockInv, IsProc, Inside
<1>6. CASE ~Inside(p, r.at) /\ lock.owner # p
  <2>1. lock' = lock
    BY <1>6
  <2>2. \A q \in Threads : Inside(q, proc'[q].at) <=> lock'.owner = q
    BY <1>1, <1>6, <2>1 DEF LockInv
  <2>3. lock' = Free \/ \E q \in Threads : lock' = [owner |-> q, depth |-> Depth(proc'[q].at)]
    <3>1. CASE lock = Free
      BY <2>1, <3>1 DEF Free
    <3>2. CASE \E q \in Threads : lock = [owner |-> q, depth |-> Depth(proc[q].at)]
      <4>1. PICK q \in Threads : lock = [owner |-> q, depth |-> Depth(proc[q].at)]
        BY <3>2
      <4>2. q # p
        BY <4>1, <1>6
      <4> QED
        BY <1>1, <2>1, <4>1, <4>2
    <3> QED
      BY <3>1, <3>2 DEF LockInv
  <2> QED
    BY <1>1, <1>2, <2>2, <2>3 DEF LockInv, IsProc, Inside
<1> QED
  BY <1>4, <1>5, <1>6

\* A move that leaves the lock alone stays at the same depth.
LEMMA StayKeeps ==
    ASSUME LockInv, NEW p \in Threads, NEW r, IsProc(r),
           proc' = [proc EXCEPT ![p] = r],
           Inside(p, r.at) <=> Inside(p, proc[p].at),
           Depth(r.at) = Depth(proc[p].at),
           lock' = lock
    PROVE  LockInv'
<1>1. CASE Inside(p, r.at)
  <2>1. lock.owner = p /\ lock = [owner |-> p, depth |-> Depth(proc[p].at)]
    BY <1>1, NoOneAssumption DEF LockInv, Free
  <2> QED
    BY <1>1, <2>1, MoveKeeps
<1>2. CASE ~Inside(p, r.at)
  <2>1. lock.owner # p
    BY <1>2 DEF LockInv
  <2> QED
    BY <1>2, <2>1, MoveKeeps
<1> QED
  BY <1>1, <1>2

\* Acquire: the first use finds the lock free, an inner one adds to it.
LEMMA AcquireKeeps ==
    ASSUME LockInv, NEW p \in Threads, NEW r, IsProc(r),
           proc' = [proc EXCEPT ![p] = r],
           Inside(p, r.at),
           Acquire(p),
           \/ ~Inside(p, proc[p].at) /\ Depth(r.at) = 1
           \/ /\ Inside(p, proc[p].at)
              /\ Depth(proc[p].at) = 1 /\ Depth(r.at) = 2
    PROVE  LockInv'
<1>1. CASE ~Inside(p, proc[p].at)
  <2>1. lock = Free
    BY <1>1, NoOneAssumption DEF LockInv, Acquire, Free
  <2>2. lock' = [owner |-> p, depth |-> Depth(r.at)]
    BY <1>1, <2>1 DEF Acquire, Free
  <2> QED
    BY <2>1, <2>2, MoveKeeps DEF Free
<1>2. CASE Inside(p, proc[p].at)
  <2>1. lock = [owner |-> p, depth |-> Depth(proc[p].at)]
    BY <1>2, NoOneAssumption DEF LockInv, Free
  <2>2. lock' = [owner |-> p, depth |-> Depth(r.at)]
    BY <1>2, <2>1 DEF Acquire
  <2> QED
    BY <2>1, <2>2, MoveKeeps
<1> QED
  BY <1>1, <1>2

\* Leave: the last exit frees the lock, an inner one keeps it.
LEMMA LeaveKeeps ==
    ASSUME LockInv, NEW p \in Threads, NEW r, IsProc(r),
           proc' = [proc EXCEPT ![p] = r],
           Inside(p, proc[p].at),
           Leave(p),
           \/ ~Inside(p, r.at) /\ Depth(proc[p].at) = 1
           \/ /\ Inside(p, r.at)
              /\ Depth(proc[p].at) = 2 /\ Depth(r.at) = 1
    PROVE  LockInv'
<1>1. lock = [owner |-> p, depth |-> Depth(proc[p].at)]
  BY NoOneAssumption DEF LockInv, Free
<1>2. CASE ~Inside(p, r.at)
  <2>1. lock' = Free
    BY <1>1, <1>2 DEF Leave, Free
  <2> QED
    BY <1>1, <1>2, <2>1, MoveKeeps
<1>3. CASE Inside(p, r.at)
  <2>1. lock' = [owner |-> p, depth |-> Depth(r.at)]
    BY <1>1, <1>3 DEF Leave
  <2> QED
    BY <1>1, <1>3, <2>1, MoveKeeps
<1> QED
  BY <1>2, <1>3

-----------------------------------------------------------------------------

\* Setting the position, or another field, of a thread's record.
LEMMA SetAt ==
    ASSUME NEW r, IsProc(r), NEW a
    PROVE  IsProc([r EXCEPT !.at = a]) /\ [r EXCEPT !.at = a].at = a
BY DEF IsProc

\* Any other field leaves the position alone.
LEMMA SetField ==
    ASSUME NEW r, IsProc(r), NEW v
    PROVE  /\ IsProc([r EXCEPT !.parent = v]) /\ [r EXCEPT !.parent = v].at = r.at
           /\ IsProc([r EXCEPT !.count = v]) /\ [r EXCEPT !.count = v].at = r.at
           /\ IsProc([r EXCEPT !.turn = v]) /\ [r EXCEPT !.turn = v].at = r.at
           /\ IsProc([r EXCEPT !.batch = v]) /\ [r EXCEPT !.batch = v].at = r.at
           /\ IsProc([r EXCEPT !.base = v]) /\ [r EXCEPT !.base = v].at = r.at
           /\ IsProc([r EXCEPT !.path = v]) /\ [r EXCEPT !.path = v].at = r.at
           /\ IsProc([r EXCEPT !.snap = v]) /\ [r EXCEPT !.snap = v].at = r.at
<1>1. IsProc([r EXCEPT !.parent = v]) /\ [r EXCEPT !.parent = v].at = r.at
  BY DEF IsProc
<1>2. IsProc([r EXCEPT !.count = v]) /\ [r EXCEPT !.count = v].at = r.at
  BY DEF IsProc
<1>3. IsProc([r EXCEPT !.turn = v]) /\ [r EXCEPT !.turn = v].at = r.at
  BY DEF IsProc
<1>4. IsProc([r EXCEPT !.batch = v]) /\ [r EXCEPT !.batch = v].at = r.at
  BY DEF IsProc
<1>5. IsProc([r EXCEPT !.base = v]) /\ [r EXCEPT !.base = v].at = r.at
  BY DEF IsProc
<1>6. IsProc([r EXCEPT !.path = v]) /\ [r EXCEPT !.path = v].at = r.at
  BY DEF IsProc
<1>7. IsProc([r EXCEPT !.snap = v]) /\ [r EXCEPT !.snap = v].at = r.at
  BY DEF IsProc
<1> QED
  BY <1>1, <1>2, <1>3, <1>4, <1>5, <1>6, <1>7

\* GoTo changes the position of one thread.
LEMMA GoToMoves ==
    ASSUME LockInv, NEW p \in Threads, NEW a, GoTo(p, a)
    PROVE  \E r : /\ IsProc(r) /\ r.at = a
                  /\ proc' = [proc EXCEPT ![p] = r]
<1> DEFINE r == [proc[p] EXCEPT !.at = a]
<1>1. IsProc(proc[p])
  BY DEF LockInv
<1>2. IsProc(r) /\ r.at = a
  BY <1>1 DEF IsProc
<1>3. proc' = [proc EXCEPT ![p] = r]
  BY DEF GoTo
<1> QED
  BY <1>2, <1>3

\* A thread that returns forgets what it carried.
LEMMA ReturnMoves ==
    ASSUME NEW p \in Threads, Return(p)
    PROVE  /\ IsProc(Idle) /\ Idle.at = "idle"
           /\ proc' = [proc EXCEPT ![p] = Idle]
BY DEF Return, IsProc, Idle

-----------------------------------------------------------------------------
(* One lemma per action: where it takes the thread and the lock.           *)

\* Reading the log takes no lock.
LEMMA ReadLogKeeps ==
    ASSUME LockInv, NEW p \in Steps, NEW parent, NEW n, ReadLog(p, parent, n)
    PROVE  LockInv'
<1> DEFINE r0 == [proc[p] EXCEPT !.at = "model"]
           r1 == [r0 EXCEPT !.parent = parent]
           r == [r1 EXCEPT !.count = n]
<1>1. p \in Threads /\ proc[p].at = "idle"
  BY DEF ReadLog, Threads
<1>2. IsProc(r) /\ r.at = "model"
  <2>1. IsProc(proc[p])
    BY <1>1 DEF LockInv
  <2>2. IsProc(r0) /\ r0.at = "model"
    BY <2>1, SetAt
  <2> HIDE DEF r0
  <2>3. IsProc(r1) /\ r1.at = "model"
    BY <2>2, SetField
  <2> HIDE DEF r1
  <2> QED
    BY <2>3, SetField
<1>3. proc' = [proc EXCEPT ![p] = r] /\ lock' = lock
  BY DEF ReadLog
<1> HIDE DEF r
<1> QED
  BY <1>1, <1>2, <1>3, StayKeeps DEF Inside, Depth

\* Nor does a step that ends without persisting.
LEMMA DiscardKeeps == ASSUME LockInv, NEW p \in Steps, Discard(p) PROVE LockInv'
<1>1. p \in Threads /\ proc[p].at = "model" /\ Return(p) /\ lock' = lock
  BY DEF Discard, Threads
<1> QED
  BY <1>1, ReturnMoves, StayKeeps DEF Inside, Depth

\* persist_step_outputs_runtime takes the free lock.
LEMMA LockKeeps == ASSUME LockInv, NEW p \in Steps, Lock(p) PROVE LockInv'
<1> DEFINE r0 == [proc[p] EXCEPT !.at = "locked"]
           r == [r0 EXCEPT !.turn = turns + 1]
<1>1. p \in Threads /\ proc[p].at = "model" /\ Acquire(p)
  BY DEF Lock, Threads
<1>2. IsProc(r) /\ r.at = "locked"
  <2>1. IsProc(proc[p])
    BY <1>1 DEF LockInv
  <2>2. IsProc(r0) /\ r0.at = "locked"
    BY <2>1, SetAt
  <2> HIDE DEF r0
  <2> QED
    BY <2>2, SetField
<1>3. proc' = [proc EXCEPT ![p] = r]
  BY DEF Lock
<1> HIDE DEF r
<1> QED
  BY <1>1, <1>2, <1>3, AcquireKeeps DEF Inside, Depth

\* write_message_events takes it a second time.
LEMMA MaterializeKeeps ==
    ASSUME LockInv, NEW p \in Steps, Materialize(p) PROVE LockInv'
<1> DEFINE r0 == [proc[p] EXCEPT !.at = "append"]
           r1 == [r0 EXCEPT !.base = Len(hot.lines)]
           r == [r1 EXCEPT
                   !.batch = NewMessages(hot.lines, proc[p].count, proc[p].parent, proc[p].turn)]
<1>1. p \in Threads /\ proc[p].at = "locked" /\ Acquire(p)
  BY DEF Materialize, Threads
<1>2. IsProc(r) /\ r.at = "append"
  <2>1. IsProc(proc[p])
    BY <1>1 DEF LockInv
  <2>2. IsProc(r0) /\ r0.at = "append"
    BY <2>1, SetAt
  <2> HIDE DEF r0
  <2>3. IsProc(r1) /\ r1.at = "append"
    BY <2>2, SetField
  <2> HIDE DEF r1
  <2> QED
    BY <2>3, SetField
<1>3. proc' = [proc EXCEPT ![p] = r]
  BY DEF Materialize
<1> HIDE DEF r
<1> QED
  BY <1>1, <1>2, <1>3, AcquireKeeps DEF Inside, Depth

\* Without messages it returns before taking the lock.
LEMMA NoMessagesKeeps == ASSUME LockInv, NEW p \in Steps, NoMessages(p) PROVE LockInv'
<1>1. p \in Threads /\ proc[p].at = "locked" /\ GoTo(p, "record")
  BY DEF NoMessages, Threads
<1>2. PICK r : IsProc(r) /\ r.at = "record" /\ proc' = [proc EXCEPT ![p] = r]
  BY <1>1, GoToMoves
<1> QED
  BY <1>1, <1>2, StayKeeps DEF NoMessages, Inside, Depth

\* The writes of write_message_events happen inside both uses.
LEMMA AppendMessagesKeeps == ASSUME LockInv, NEW p \in Steps, AppendMessages(p) PROVE LockInv'
<1>1. p \in Threads /\ proc[p].at = "append" /\ GoTo(p, "index")
  BY DEF AppendMessages, Threads
<1>2. PICK r : IsProc(r) /\ r.at = "index" /\ proc' = [proc EXCEPT ![p] = r]
  BY <1>1, GoToMoves
<1> QED
  BY <1>1, <1>2, StayKeeps DEF AppendMessages, Inside, Depth

\* The append to the index too.
LEMMA AppendIndexKeeps == ASSUME LockInv, NEW p \in Steps, AppendIndex(p) PROVE LockInv'
<1>1. p \in Threads /\ proc[p].at = "index" /\ GoTo(p, "stamp")
  BY DEF AppendIndex, Threads
<1>2. PICK r : IsProc(r) /\ r.at = "stamp" /\ proc' = [proc EXCEPT ![p] = r]
  BY <1>1, GoToMoves
<1> QED
  BY <1>1, <1>2, StayKeeps DEF AppendIndex, Inside, Depth

\* write_message_events ends with its own use only.
LEMMA StampIndexKeeps == ASSUME LockInv, NEW p \in Steps, StampIndex(p) PROVE LockInv'
<1>1. p \in Threads /\ proc[p].at = "stamp" /\ GoTo(p, "record")
  BY DEF StampIndex, Threads
<1>2. PICK r : IsProc(r) /\ r.at = "record" /\ proc' = [proc EXCEPT ![p] = r]
  BY <1>1, GoToMoves
<1> QED
  BY <1>1, <1>2, LeaveKeeps DEF StampIndex, Inside, Depth

\* append_nodes takes and leaves the lock in one action.
LEMMA AppendRecordKeeps == ASSUME LockInv, NEW p \in Steps, AppendRecord(p) PROVE LockInv'
<1>1. p \in Threads /\ proc[p].at = "record" /\ GoTo(p, "seal")
  BY DEF AppendRecord, Threads
<1>2. PICK r : IsProc(r) /\ r.at = "seal" /\ proc' = [proc EXCEPT ![p] = r]
  BY <1>1, GoToMoves
<1> QED
  BY <1>1, <1>2, StayKeeps DEF AppendRecord, Inside, Depth

\* A step may have no record.
LEMMA NoRecordKeeps == ASSUME LockInv, NEW p \in Steps, NoRecord(p) PROVE LockInv'
<1>1. p \in Threads /\ proc[p].at = "record" /\ GoTo(p, "seal")
  BY DEF NoRecord, Threads
<1>2. PICK r : IsProc(r) /\ r.at = "seal" /\ proc' = [proc EXCEPT ![p] = r]
  BY <1>1, GoToMoves
<1> QED
  BY <1>1, <1>2, StayKeeps DEF NoRecord, Inside, Depth

\* A file below the limit stays.
LEMMA KeepHotKeeps == ASSUME LockInv, NEW p \in Steps, KeepHot(p) PROVE LockInv'
<1>1. p \in Threads /\ proc[p].at = "seal" /\ GoTo(p, "unlock")
  BY DEF KeepHot, Threads
<1>2. PICK r : IsProc(r) /\ r.at = "unlock" /\ proc' = [proc EXCEPT ![p] = r]
  BY <1>1, GoToMoves
<1> QED
  BY <1>1, <1>2, StayKeeps DEF KeepHot, Inside, Depth

\* seal_hot_journal takes the lock a second time.
LEMMA BeginSealKeeps == ASSUME LockInv, NEW p \in Steps, BeginSeal(p) PROVE LockInv'
<1>1. p \in Threads /\ proc[p].at = "seal" /\ GoTo(p, "drop")
  BY DEF BeginSeal, Threads
<1>2. PICK r : IsProc(r) /\ r.at = "drop" /\ proc' = [proc EXCEPT ![p] = r]
  BY <1>1, GoToMoves
<1> QED
  BY <1>1, <1>2, AcquireKeeps DEF BeginSeal, Inside, Depth

\* The seal keeps both uses while it drops the index
LEMMA DropIndexKeeps == ASSUME LockInv, NEW p \in Steps, DropIndex(p) PROVE LockInv'
<1>1. p \in Threads /\ proc[p].at = "drop" /\ GoTo(p, "replace")
  BY DEF DropIndex, Threads
<1>2. PICK r : IsProc(r) /\ r.at = "replace" /\ proc' = [proc EXCEPT ![p] = r]
  BY <1>1, GoToMoves
<1> QED
  BY <1>1, <1>2, StayKeeps DEF DropIndex, Inside, Depth

\* and while it renames the file.
LEMMA ReplaceKeeps == ASSUME LockInv, NEW p \in Steps, Replace(p) PROVE LockInv'
<1>1. p \in Threads /\ proc[p].at = "replace" /\ GoTo(p, "touch")
  BY DEF Replace, Threads
<1>2. PICK r : IsProc(r) /\ r.at = "touch" /\ proc' = [proc EXCEPT ![p] = r]
  BY <1>1, GoToMoves
<1> QED
  BY <1>1, <1>2, StayKeeps DEF Replace, Inside, Depth

\* The new hot file is created under the lock, too.
LEMMA TouchKeeps == ASSUME LockInv, NEW p \in Steps, Touch(p) PROVE LockInv'
<1> DEFINE r0 == [proc[p] EXCEPT !.at = "rb_read"]
           r == [r0 EXCEPT !.path = Len(segs)]
<1>1. p \in Threads /\ proc[p].at = "touch" /\ lock' = lock
  BY DEF Touch, Threads
<1>2. IsProc(r) /\ r.at = "rb_read"
  <2>1. IsProc(proc[p])
    BY <1>1 DEF LockInv
  <2>2. IsProc(r0) /\ r0.at = "rb_read"
    BY <2>1, SetAt
  <2> HIDE DEF r0
  <2> QED
    BY <2>2, SetField
<1>3. proc' = [proc EXCEPT ![p] = r]
  BY DEF Touch
<1> HIDE DEF r
<1> QED
  BY <1>1, <1>2, <1>3, StayKeeps DEF Inside, Depth

\* The end of persist_step_outputs_runtime gives the lock back.
LEMMA UnlockKeeps == ASSUME LockInv, NEW p \in Steps, Unlock(p) PROVE LockInv'
<1>1. p \in Threads /\ proc[p].at = "unlock" /\ Return(p) /\ Leave(p)
  BY DEF Unlock, Threads
<1> QED
  BY <1>1, ReturnMoves, LeaveKeeps DEF Inside, Depth

-----------------------------------------------------------------------------
(* rebuild_index runs in a sealing step, under both uses of the lock, and  *)
(* in index readers, which take no part in it.                             *)

RebuildAt == {"rb_read", "rb_delete", "rb_append", "rb_stamp"}

\* The end of a rebuild: a step leaves the use of its seal.
LEMMA RebuiltKeeps ==
    ASSUME LockInv, NEW p \in Threads, proc[p].at \in RebuildAt, Rebuilt(p)
    PROVE  LockInv'
<1>1. CASE p \in Steps
  <2>1. Leave(p) /\ GoTo(p, "unlock")
    BY <1>1 DEF Rebuilt
  <2>2. PICK r : IsProc(r) /\ r.at = "unlock" /\ proc' = [proc EXCEPT ![p] = r]
    BY <2>1, GoToMoves
  <2> QED
    BY <1>1, <2>1, <2>2, LeaveKeeps DEF Inside, Depth, RebuildAt
<1>2. CASE p \notin Steps
  <2>1. Return(p) /\ lock' = lock
    BY <1>2 DEF Rebuilt
  <2> QED
    BY <1>2, <2>1, ReturnMoves, StayKeeps DEF Inside, Depth, RebuildAt
<1> QED
  BY <1>1, <1>2

\* Between the writes of a rebuild the lock stays as it is.
LEMMA RebuildMoveKeeps ==
    ASSUME LockInv, NEW p \in Threads, proc[p].at \in RebuildAt,
           NEW a \in RebuildAt, GoTo(p, a), lock' = lock
    PROVE  LockInv'
<1>1. PICK r : IsProc(r) /\ r.at = a /\ proc' = [proc EXCEPT ![p] = r]
  BY GoToMoves
<1> QED
  BY <1>1, StayKeeps DEF Inside, Depth, RebuildAt

\* All of rebuild_index.
LEMMA RebuildKeeps == ASSUME LockInv, NEW p \in Threads, Rebuild(p) PROVE LockInv'
<1>1. CASE RebuildRead(p)
  <2>1. proc[p].at = "rb_read"
    BY <1>1 DEF RebuildRead
  <2>2. CASE Exists(proc[p].path)
    <3> DEFINE r0 == [proc[p] EXCEPT !.at = "rb_delete"]
               r == [r0 EXCEPT !.snap = IndexRecords(Inode(proc[p].path), 0,
                                                     Lines(proc[p].path))]
    <3>1. IsProc(r) /\ r.at = "rb_delete"
      <4>1. IsProc(proc[p])
        BY DEF LockInv
      <4>2. IsProc(r0) /\ r0.at = "rb_delete"
        BY <4>1, SetAt
      <4> HIDE DEF r0
      <4> QED
        BY <4>2, SetField
    <3>2. proc' = [proc EXCEPT ![p] = r] /\ lock' = lock
      BY <1>1, <2>2 DEF RebuildRead
    <3> HIDE DEF r
    <3> QED
      BY <2>1, <3>1, <3>2, StayKeeps DEF Inside, Depth
  <2>3. CASE ~Exists(proc[p].path)
    <3>1. Rebuilt(p)
      BY <1>1, <2>3 DEF RebuildRead
    <3> QED
      BY <2>1, <3>1, RebuiltKeeps DEF RebuildAt
  <2> QED
    BY <2>2, <2>3
<1>2. CASE RebuildDelete(p)
  BY <1>2, RebuildMoveKeeps DEF RebuildDelete, RebuildAt
<1>3. CASE RebuildAppend(p)
  BY <1>3, RebuildMoveKeeps DEF RebuildAppend, RebuildAt
<1>4. CASE RebuildStamp(p)
  BY <1>4, RebuiltKeeps DEF RebuildStamp, RebuildAt
<1> QED
  BY <1>1, <1>2, <1>3, <1>4 DEF Rebuild

\* An index reader starts a rebuild.
LEMMA StartIndexingKeeps ==
    ASSUME LockInv, NEW p \in Indexers, NEW path, StartIndexing(p, path)
    PROVE  LockInv'
<1> DEFINE r0 == [proc[p] EXCEPT !.at = "rb_read"]
           r == [r0 EXCEPT !.path = path]
<1>1. p \in Threads /\ p \notin Steps /\ proc[p].at = "idle" /\ lock' = lock
  BY JournalAssumption DEF StartIndexing, Threads
<1>2. IsProc(r) /\ r.at = "rb_read"
  <2>1. IsProc(proc[p])
    BY <1>1 DEF LockInv
  <2>2. IsProc(r0) /\ r0.at = "rb_read"
    BY <2>1, SetAt
  <2> HIDE DEF r0
  <2> QED
    BY <2>2, SetField
<1>3. proc' = [proc EXCEPT ![p] = r]
  BY DEF StartIndexing
<1> HIDE DEF r
<1> QED
  BY <1>1, <1>2, <1>3, StayKeeps DEF Inside, Depth

\* A kill frees the lock of its thread and no other.
LEMMA KilledKeeps == ASSUME LockInv, NEW p \in Threads, Killed(p) PROVE LockInv'
<1>1. /\ Return(p)
      /\ lock' = IF lock.owner = p THEN Free ELSE lock
  BY DEF Killed, Free
<1> QED
  BY <1>1, ReturnMoves, MoveKeeps DEF Inside

-----------------------------------------------------------------------------

\* The initial state, where nobody holds the lock.
LEMMA LockInvInit == ASSUME Init PROVE LockInv
<1>1. /\ proc = [p \in Threads |-> Idle]
      /\ lock = Free
  BY DEF Init, Free
<1>2. \A p \in Threads : proc[p] = Idle
  BY <1>1
<1>3. IsProc(Idle) /\ Idle.at = "idle"
  BY DEF IsProc, Idle
<1>4. \A p \in Threads : ~Inside(p, proc[p].at) /\ lock.owner # p
  BY <1>1, <1>2, <1>3, NoOneAssumption DEF Inside, Free
<1> QED
  BY <1>1, <1>2, <1>3, <1>4 DEF LockInv

\* Every step of the system keeps the strengthened invariant.
LEMMA LockInvNext == ASSUME LockInv, [Next]_vars PROVE LockInv'
<1>1. CASE UNCHANGED vars
  BY <1>1 DEF LockInv, vars, Inside
<1>2. ASSUME NEW p \in Steps, Step(p) PROVE LockInv'
  <2>1. CASE \E parent \in Ids(hot.lines) \cup {0, Default}, n \in 0..MaxBatch :
               ReadLog(p, parent, n)
    BY <2>1, ReadLogKeeps
  <2>2. CASE Lock(p) \/ Discard(p)
    BY <2>2, LockKeeps, DiscardKeeps
  <2>3. CASE Materialize(p) \/ NoMessages(p) \/ AppendMessages(p)
    BY <2>3, MaterializeKeeps, NoMessagesKeeps, AppendMessagesKeeps
  <2>4. CASE AppendIndex(p) \/ StampIndex(p) \/ AppendRecord(p) \/ NoRecord(p)
    BY <2>4, AppendIndexKeeps, StampIndexKeeps, AppendRecordKeeps, NoRecordKeeps
  <2>5. CASE KeepHot(p) \/ BeginSeal(p) \/ DropIndex(p)
    BY <2>5, KeepHotKeeps, BeginSealKeeps, DropIndexKeeps
  <2>6. CASE Replace(p) \/ Touch(p) \/ Unlock(p)
    BY <2>6, ReplaceKeeps, TouchKeeps, UnlockKeeps
  <2> QED
    BY <1>2, <2>1, <2>2, <2>3, <2>4, <2>5, <2>6 DEF Step, Persist
<1>3. ASSUME NEW p \in Indexers, NEW path \in Paths, StartIndexing(p, path)
      PROVE  LockInv'
  BY <1>3, StartIndexingKeeps
<1>4. ASSUME NEW p \in Threads, Rebuild(p) \/ Crash(p) \/ CrashInAppend(p)
      PROVE  LockInv'
  BY <1>4, RebuildKeeps, KilledKeeps DEF Crash, CrashInAppend
<1> QED
  BY <1>1, <1>2, <1>3, <1>4 DEF Next

\* What the strengthened invariant says of the lock.
LEMMA LockInvImplies == ASSUME LockInv PROVE LockHeldByWorker
<1>1. \A p \in Threads : Working(p) <=> lock.owner = p
  BY DEF LockInv, Working, Inside
<1>2. lock.owner = NoOne <=> lock.depth = 0
  BY NoOneAssumption DEF LockInv, Free, Depth
<1> QED
  BY <1>1, <1>2 DEF LockHeldByWorker

\* Mutual exclusion of journal_write_lock: exactly the thread that works under
\* the lock owns it, through the nested uses of write_message_events and
\* seal_hot_journal, and a thread that returned or was killed does not.
THEOREM LockIsExclusive == Spec => []LockHeldByWorker
<1>1. Init => LockInv
  BY LockInvInit
<1>2. LockInv /\ [Next]_vars => LockInv'
  BY LockInvNext
<1>3. LockInv => LockHeldByWorker
  BY LockInvImplies
<1> QED
  BY <1>1, <1>2, <1>3, PTL DEF Spec

-----------------------------------------------------------------------------
(* Unique ids.                                                             *)

(* Unique ids are not inductive: a new message is numbered from the last   *)
(* one, so that one has to have the greatest id, and the lines a step has  *)
(* materialized have to be numbered from the file as it is when they are   *)
(* written, which is what the lock is for.                                 *)

\* A file: its messages are numbered upwards from 1, perhaps with gaps.
Ordered(lines) ==
    /\ \A i \in MsgAt(lines) : lines[i].id > 0
    /\ \A i, j \in MsgAt(lines) : i < j => lines[i].id < lines[j].id

Files == {lines \in Seq(Line) : Ordered(lines)}

\* What a step carries, over a hot file with these lines after turn n.
Carries(r, lines, n) ==
    /\ r.count \in Nat /\ r.parent \in Nat \cup {Default}
    /\ r.at \notin {"idle", "model"} => r.turn = n /\ n > 0
    /\ r.at = "append" => r.batch = NewMessages(lines, r.count, r.parent, n)

FilesInv ==
    /\ turns \in Nat
    /\ hot \in [there : BOOLEAN, lines : Files]
    /\ segs \in Seq(Files)
    /\ \A p \in Steps : Carries(proc[p], hot.lines, turns)
    /\ \A r \in Indexers : proc[r].at # "append"

-----------------------------------------------------------------------------
(* Files and what is added to them.                                        *)

\* Where a message is.
LEMMA MessageTyped ==
    ASSUME NEW lines \in Seq(Line), NEW j \in MsgAt(lines)
    PROVE  j \in 1 .. Len(lines) /\ lines[j] \in Line /\ lines[j].id \in Nat
<1>1. j \in 1 .. Len(lines)
  BY DEF MsgAt
<1>2. lines[j] \in Line
  BY <1>1
<1> QED
  BY <1>1, <1>2 DEF Line

\* A file with messages has a last one.
LEMMA LastMessage ==
    ASSUME NEW lines \in Seq(Line), MsgAt(lines) # {}
    PROVE  \E i \in MsgAt(lines) : \A j \in MsgAt(lines) : j <= i
<1> DEFINE N == Len(lines)
           After(i) == i + 1 .. N
           Afters == {After(i) : i \in MsgAt(lines)}
<1>1. N \in Nat /\ MsgAt(lines) \subseteq 1 .. N
  BY DEF MsgAt
<1>2. Afters \subseteq FiniteSubsetsOf(1 .. N) /\ Afters # {}
  <2>1. ASSUME NEW i \in MsgAt(lines) PROVE IsFiniteSet(After(i)) /\ After(i) \subseteq 1 .. N
    <3>1. i + 1 \in Int /\ N \in Int /\ i + 1 > 1
      BY <1>1
    <3>2. IsFiniteSet(After(i))
      BY <3>1, FS_Interval
    <3> QED
      BY <3>1, <3>2
  <2> QED
    BY <2>1 DEF FiniteSubsetsOf
<1>3. PICK least \in Afters : \A a \in Afters : ~(<<a, least>> \in StrictSubsetOrdering(1 .. N))
  BY <1>2, FS_StrictSubsetOrderingWellFounded, WFMin
<1>4. PICK i \in MsgAt(lines) : least = After(i)
  OBVIOUS
<1>5. ASSUME NEW j \in MsgAt(lines) PROVE j <= i
  <2>1. SUFFICES ASSUME j > i PROVE FALSE
    BY <1>1
  <2>2. After(j) \subseteq After(i) /\ j \in After(i) /\ j \notin After(j)
    BY <1>1, <2>1
  <2>3. <<After(j), After(i)>> \in StrictSubsetOrdering(1 .. N)
    BY <1>1, <2>2 DEF StrictSubsetOrdering
  <2> QED
    BY <1>3, <1>4, <2>3
<1> QED
  BY <1>5

\* In a file, no id is beyond that of the last message.
LEMMA TipIsGreatest ==
    ASSUME NEW lines \in Files
    PROVE  Tip(lines) \in Nat /\ \A j \in MsgAt(lines) : lines[j].id <= Tip(lines)
<1>1. lines \in Seq(Line) /\ Ordered(lines)
  BY DEF Files
<1>2. CASE MsgAt(lines) = {}
  BY <1>2 DEF Tip
<1>3. CASE MsgAt(lines) # {}
  <2> DEFINE i == CHOOSE i \in MsgAt(lines) : \A j \in MsgAt(lines) : j <= i
  <2>1. i \in MsgAt(lines) /\ \A j \in MsgAt(lines) : j <= i
    BY <1>1, <1>3, LastMessage
  <2>2. Tip(lines) = lines[i].id
    BY <1>3 DEF Tip
  <2> HIDE DEF i
  <2>3. \A j \in MsgAt(lines) : j \in 1 .. Len(lines) /\ lines[j] \in Line /\ lines[j].id \in Nat
    BY <1>1, MessageTyped
  <2>4. ASSUME NEW j \in MsgAt(lines) PROVE lines[j].id <= lines[i].id
    <3>1. j = i \/ j < i
      BY <2>1, <2>3
    <3> QED
      BY <1>1, <2>1, <2>3, <3>1 DEF Ordered
  <2> QED
    BY <2>1, <2>2, <2>3, <2>4
<1> QED
  BY <1>2, <1>3

\* Lines whose messages are numbered upwards, beyond those of the file.
LEMMA GrownIsFile ==
    ASSUME NEW lines \in Files, NEW new \in Seq(Line),
           \A i \in MsgAt(new) : /\ new[i].id > 0
                                 /\ \A j \in MsgAt(lines) : lines[j].id < new[i].id,
           \A i, j \in MsgAt(new) : i < j => new[i].id < new[j].id
    PROVE  lines \o new \in Files
<1> DEFINE all == lines \o new
           N == Len(lines)
<1>1. lines \in Seq(Line) /\ Ordered(lines) /\ N \in Nat
  BY DEF Files
<1>2. /\ all \in Seq(Line) /\ Len(all) = N + Len(new)
      /\ \A i \in 1 .. N : all[i] = lines[i]
      /\ \A i \in 1 .. Len(new) : all[N + i] = new[i]
  BY <1>1
<1>3. ASSUME NEW i \in MsgAt(all)
      PROVE  \/ i \in MsgAt(lines) /\ all[i] = lines[i] /\ i <= N
             \/ i - N \in MsgAt(new) /\ all[i] = new[i - N] /\ i > N
  <2>1. i \in 1 .. N + Len(new) /\ all[i].kind = "msg"
    BY <1>2 DEF MsgAt
  <2>2. CASE i <= N
    BY <1>1, <1>2, <2>1, <2>2 DEF MsgAt
  <2>3. CASE i > N
    <3>1. i - N \in 1 .. Len(new) /\ N + (i - N) = i
      BY <1>1, <2>1, <2>3
    <3>2. all[i] = new[i - N]
      BY <1>2, <3>1
    <3> QED
      BY <2>1, <2>3, <3>1, <3>2 DEF MsgAt
  <2> QED
    BY <1>1, <2>1, <2>2, <2>3
<1> HIDE DEF all, N
<1>4. \A i \in MsgAt(all) : all[i].id > 0
  BY <1>1, <1>3 DEF Ordered
<1>5. ASSUME NEW i \in MsgAt(all), NEW j \in MsgAt(all), i < j
      PROVE  all[i].id < all[j].id
  <2>1. i \in Nat /\ j \in Nat
    BY <1>2 DEF MsgAt
  <2>2. CASE j <= N
    BY <1>1, <1>3, <1>5, <2>1, <2>2 DEF Ordered
  <2>3. CASE i <= N /\ j > N
    BY <1>1, <1>3, <1>5, <2>1, <2>3
  <2>4. CASE i > N
    <3>1. i - N \in MsgAt(new) /\ j - N \in MsgAt(new) /\ i - N < j - N
      BY <1>1, <1>3, <1>5, <2>1, <2>4
    <3>2. i > N /\ j > N /\ ~(i <= N) /\ ~(j <= N)
      BY <1>1, <1>5, <2>1, <2>4
    <3>3. all[i] = new[i - N]
      BY <1>3, <3>2
    <3>4. all[j] = new[j - N]
      BY <1>3, <3>2
    <3> QED
      BY <3>1, <3>3, <3>4
  <2> QED
    BY <1>1, <1>5, <2>1, <2>2, <2>3, <2>4
<1>6. all \in Files
  BY <1>2, <1>4, <1>5 DEF Files, Ordered
<1> QED
  BY <1>6 DEF all

\* Adding a record
LEMMA RecordGrows ==
    ASSUME NEW lines \in Files, NEW n \in Nat
    PROVE  lines \o <<RecordLine(n)>> \in Files
<1> DEFINE new == <<RecordLine(n)>>
<1>1. new \in Seq(Line) /\ MsgAt(new) = {}
  BY DEF RecordLine, Line, MsgAt
<1> QED
  BY <1>1, GrownIsFile

\* A batch is numbered from the file.
LEMMA BatchTyped ==
    ASSUME NEW lines \in Files, NEW n \in Nat, NEW parent \in Nat \cup {Default},
           NEW turn \in Nat
    PROVE  /\ NewMessages(lines, n, parent, turn) \in Seq(Line)
           /\ Len(NewMessages(lines, n, parent, turn)) = n
           /\ \A i \in 1 .. n : /\ NewMessages(lines, n, parent, turn)[i].id = Tip(lines) + i
                                /\ NewMessages(lines, n, parent, turn)[i].turn = turn
<1> DEFINE all == NewMessages(lines, n, parent, turn)
<1>1. Tip(lines) \in Nat
  BY TipIsGreatest
<1>2. all \in Seq(Line) /\ Len(all) = n
  BY <1>1 DEF NewMessages, Line, Default
<1>3. \A i \in 1 .. n : all[i].id = Tip(lines) + i /\ all[i].turn = turn
  BY DEF NewMessages
<1> QED
  BY <1>2, <1>3

\* Adding its first messages
LEMMA BatchGrows ==
    ASSUME NEW lines \in Files, NEW turn \in Nat, NEW all \in Seq(Line),
           \A i \in 1 .. Len(all) : all[i].id = Tip(lines) + i /\ all[i].turn = turn,
           NEW k \in 0 .. Len(all)
    PROVE  /\ SubSeq(all, 1, k) \in Seq(Line)
           /\ \A i \in 1 .. Len(SubSeq(all, 1, k)) : SubSeq(all, 1, k)[i].turn = turn
           /\ lines \o SubSeq(all, 1, k) \in Files
<1> DEFINE new == SubSeq(all, 1, k)
<1>1. Tip(lines) \in Nat /\ \A j \in MsgAt(lines) : lines[j].id <= Tip(lines)
  BY TipIsGreatest
<1>4. new \in Seq(Line) /\ Len(new) = k /\ \A i \in 1 .. k : new[i] = all[i]
  OBVIOUS
<1>5. \A i \in 1 .. k : new[i].id = Tip(lines) + i /\ new[i].turn = turn
  BY <1>4
<1> HIDE DEF new
<1>6. \A i \in MsgAt(new) : i \in 1 .. k
  BY <1>4 DEF MsgAt
<1>7. \A j \in MsgAt(lines) : lines[j].id \in Nat
  BY MessageTyped DEF Files
<1>8. lines \o new \in Files
  <2>1. \A i \in MsgAt(new) : new[i].id > 0 /\ \A j \in MsgAt(lines) : lines[j].id < new[i].id
    BY <1>1, <1>5, <1>6, <1>7
  <2>2. \A i, j \in MsgAt(new) : i < j => new[i].id < new[j].id
    BY <1>1, <1>5, <1>6
  <2> QED
    BY <1>4, <2>1, <2>2, GrownIsFile
<1> QED
  BY <1>4, <1>5, <1>8 DEF new

-----------------------------------------------------------------------------
(* Threads that move.                                                      *)

\* r and s carry the same.
Same(r, s) ==
    s.count = r.count /\ s.parent = r.parent /\ s.turn = r.turn /\ s.batch = r.batch

\* Setting one field of a thread's record leaves what the others carry.
LEMMA SetOthers ==
    ASSUME NEW r, IsProc(r), NEW v
    PROVE  /\ Same(r, [r EXCEPT !.at = v])
           /\ Same(r, [r EXCEPT !.base = v])
           /\ Same(r, [r EXCEPT !.path = v])
           /\ Same(r, [r EXCEPT !.snap = v])
<1>1. Same(r, [r EXCEPT !.at = v])
  BY DEF IsProc, Same
<1>2. Same(r, [r EXCEPT !.base = v])
  BY DEF IsProc, Same
<1>3. Same(r, [r EXCEPT !.path = v])
  BY DEF IsProc, Same
<1>4. Same(r, [r EXCEPT !.snap = v])
  BY DEF IsProc, Same
<1> QED
  BY <1>1, <1>2, <1>3, <1>4

\* Setting what it carries.
LEMMA SetCarried ==
    ASSUME NEW r, IsProc(r), NEW v
    PROVE  /\ [r EXCEPT !.parent = v].parent = v /\ [r EXCEPT !.parent = v].count = r.count
           /\ [r EXCEPT !.count = v].count = v /\ [r EXCEPT !.count = v].parent = r.parent
           /\ LET s == [r EXCEPT !.turn = v]
              IN  s.turn = v /\ s.count = r.count /\ s.parent = r.parent
           /\ LET s == [r EXCEPT !.batch = v]
              IN  s.batch = v /\ s.turn = r.turn /\ s.count = r.count /\ s.parent = r.parent
<1>1. [r EXCEPT !.parent = v].parent = v /\ [r EXCEPT !.parent = v].count = r.count
  BY DEF IsProc
<1>2. [r EXCEPT !.count = v].count = v /\ [r EXCEPT !.count = v].parent = r.parent
  BY DEF IsProc
<1>3. LET s == [r EXCEPT !.turn = v]
      IN  s.turn = v /\ s.count = r.count /\ s.parent = r.parent
  BY DEF IsProc
<1>4. LET s == [r EXCEPT !.batch = v]
      IN  s.batch = v /\ s.turn = r.turn /\ s.count = r.count /\ s.parent = r.parent
  BY DEF IsProc
<1> QED
  BY <1>1, <1>2, <1>3, <1>4

\* Nobody else works while p does, nor anybody while the lock is free.
LEMMA WorksAlone ==
    ASSUME LockInv
    PROVE  /\ \A p, q \in Steps : Working(p) /\ Working(q) => p = q
           /\ lock.owner = NoOne => \A q \in Steps : ~Working(q)
<1>1. \A p \in Steps : p \in Threads /\ p # NoOne
  BY NoOneAssumption DEF Threads
<1>2. \A p \in Steps : Working(p) <=> lock.owner = p
  BY <1>1 DEF LockInv, Working, Inside
<1> QED
  BY <1>1, <1>2

\* Whatever one thread does to itself and to the files: they stay as they
\* should if nobody else works on them, or if they do not change.
LEMMA FilesKeep ==
    ASSUME LockInv, FilesInv, NEW p \in Threads, NEW r,
           proc' = [proc EXCEPT ![p] = r],
           turns' \in Nat, hot' \in [there : BOOLEAN, lines : Files], segs' \in Seq(Files),
           p \in Steps => Carries(r, hot'.lines, turns'),
           p \notin Steps => r.at # "append",
           \/ turns' = turns /\ hot'.lines = hot.lines
           \/ \A q \in Steps : q # p => ~Working(q)
    PROVE  FilesInv'
<1>1. proc'[p] = r /\ \A q \in Threads : q # p => proc'[q] = proc[q]
  BY DEF LockInv
<1>2. ASSUME NEW q \in Steps PROVE Carries(proc'[q], hot'.lines, turns')
  <2>1. q \in Threads /\ Carries(proc[q], hot.lines, turns)
    BY DEF Threads, FilesInv
  <2>2. CASE q = p
    BY <1>1, <2>2
  <2>3. CASE q # p /\ turns' = turns /\ hot'.lines = hot.lines
    BY <1>1, <2>1, <2>3
  <2>4. CASE q # p /\ ~Working(q)
    BY <1>1, <2>1, <2>4 DEF Working, Carries
  <2> QED
    BY <2>2, <2>3, <2>4
<1>3. ASSUME NEW q \in Indexers PROVE proc'[q].at # "append"
  <2>1. q \in Threads /\ q \notin Steps
    BY JournalAssumption DEF Threads
  <2> QED
    BY <1>1, <2>1 DEF FilesInv
<1> QED
  BY <1>2, <1>3 DEF FilesInv

\* A thread that moves on with what it carries, and leaves the files alone.
LEMMA StayFiles ==
    ASSUME LockInv, FilesInv, NEW p \in Threads, NEW r,
           proc' = [proc EXCEPT ![p] = r], Same(proc[p], r), r.at # "append",
           p \in Steps => (r.at \in {"idle", "model"} \/ Working(p)),
           UNCHANGED <<turns, hot, segs>>
    PROVE  FilesInv'
<1>1. turns' \in Nat /\ hot' \in [there : BOOLEAN, lines : Files] /\ segs' \in Seq(Files)
  BY DEF FilesInv
<1>2. ASSUME p \in Steps PROVE Carries(r, hot'.lines, turns')
  <2>1. Carries(proc[p], hot.lines, turns)
    BY <1>2 DEF FilesInv
  <2> QED
    BY <1>2, <2>1 DEF Carries, Same, Working
<1> QED
  BY <1>1, <1>2, FilesKeep

\* The same for an action that ends in GoTo,
LEMMA GoToFiles ==
    ASSUME LockInv, FilesInv, NEW p \in Threads, NEW a, GoTo(p, a),
           a # "append", p \in Steps => Working(p), UNCHANGED <<turns, hot, segs>>
    PROVE  FilesInv'
<1> DEFINE r == [proc[p] EXCEPT !.at = a]
<1>1. IsProc(proc[p])
  BY DEF LockInv
<1>2. Same(proc[p], r) /\ r.at = a
  BY <1>1, SetOthers, SetAt
<1>3. proc' = [proc EXCEPT ![p] = r]
  BY DEF GoTo
<1> HIDE DEF r
<1> QED
  BY <1>2, <1>3, StayFiles

\* and for one that ends in Return.
LEMMA ReturnFiles ==
    ASSUME LockInv, FilesInv, NEW p \in Threads, Return(p), turns' = turns,
           hot' \in [there : BOOLEAN, lines : Files], segs' \in Seq(Files),
           hot'.lines = hot.lines \/ Working(p)
    PROVE  FilesInv'
<1>1. proc' = [proc EXCEPT ![p] = Idle]
  BY DEF Return
<1>2. Carries(Idle, hot'.lines, turns')
  BY DEF Carries, Idle
<1>3. hot'.lines = hot.lines \/ \A q \in Steps : q # p => ~Working(q)
  BY WorksAlone DEF Working
<1>4. turns' \in Nat /\ Idle.at # "append"
  BY DEF FilesInv, Idle
<1> QED
  BY <1>1, <1>2, <1>3, <1>4, FilesKeep

-----------------------------------------------------------------------------
(* The actions of a step and the files.                                    *)

\* Reading the log makes sure that there is a hot file.
LEMMA ReadLogFiles ==
    ASSUME LockInv, FilesInv, NEW p \in Steps,
           NEW parent \in Ids(hot.lines) \cup {0, Default}, NEW n \in 0 .. MaxBatch,
           ReadLog(p, parent, n)
    PROVE  FilesInv'
<1> DEFINE r0 == [proc[p] EXCEPT !.at = "model"]
           r1 == [r0 EXCEPT !.parent = parent]
           r == [r1 EXCEPT !.count = n]
<1>1. p \in Threads /\ turns' = turns /\ segs' = segs
  BY DEF ReadLog, Threads
<1>2. hot' \in [there : BOOLEAN, lines : Files] /\ hot'.lines = hot.lines
  BY DEF ReadLog, FilesInv
<1>3. parent \in Nat \cup {Default}
  BY MessageTyped DEF FilesInv, Files, Ids
<1>4. n \in Nat
  BY DEF MaxBatch
<1>5. r.at = "model" /\ r.count = n /\ r.parent = parent
  <2>1. IsProc(proc[p])
    BY <1>1 DEF LockInv
  <2>2. IsProc(r0) /\ r0.at = "model"
    BY <2>1, SetAt
  <2> HIDE DEF r0
  <2>3. IsProc(r1) /\ r1.at = "model"
    BY <2>2, SetField
  <2>4. r1.parent = parent
    BY <2>2 DEF IsProc
  <2> HIDE DEF r1
  <2> QED
    BY <2>3, <2>4, SetField, SetCarried
<1>6. proc' = [proc EXCEPT ![p] = r]
  BY DEF ReadLog
<1> HIDE DEF r
<1>7. Carries(r, hot'.lines, turns')
  BY <1>3, <1>4, <1>5 DEF Carries
<1> QED
  BY <1>1, <1>2, <1>6, <1>7, FilesKeep DEF FilesInv

\* The step that takes the lock is the last turn.
LEMMA LockFiles == ASSUME LockInv, FilesInv, NEW p \in Steps, Lock(p) PROVE FilesInv'
<1> DEFINE r0 == [proc[p] EXCEPT !.at = "locked"]
           r == [r0 EXCEPT !.turn = turns + 1]
<1>1. p \in Threads /\ turns' = turns + 1 /\ lock.owner = NoOne /\ UNCHANGED <<hot, segs>>
  BY DEF Lock, Threads
<1>2. r.at = "locked" /\ r.turn = turns + 1 /\ r.count = proc[p].count
      /\ r.parent = proc[p].parent
  <2>1. IsProc(proc[p])
    BY <1>1 DEF LockInv
  <2>2. IsProc(r0) /\ r0.at = "locked" /\ Same(proc[p], r0)
    BY <2>1, SetAt, SetOthers
  <2> HIDE DEF r0
  <2> QED
    BY <2>2, SetField, SetCarried DEF Same
<1>3. proc' = [proc EXCEPT ![p] = r]
  BY DEF Lock
<1> HIDE DEF r
<1>4. Carries(r, hot'.lines, turns')
  BY <1>1, <1>2 DEF Carries, FilesInv
<1>5. \A q \in Steps : ~Working(q)
  BY <1>1, WorksAlone
<1>6. turns' \in Nat /\ hot' \in [there : BOOLEAN, lines : Files] /\ segs' \in Seq(Files)
  BY <1>1 DEF FilesInv
<1> QED
  BY <1>1, <1>3, <1>4, <1>5, <1>6, FilesKeep

\* It numbers its messages from the file as it is.
LEMMA MaterializeFiles ==
    ASSUME LockInv, FilesInv, NEW p \in Steps, Materialize(p) PROVE FilesInv'
<1> DEFINE b == NewMessages(hot.lines, proc[p].count, proc[p].parent, proc[p].turn)
           r0 == [proc[p] EXCEPT !.at = "append"]
           r1 == [r0 EXCEPT !.base = Len(hot.lines)]
           r == [r1 EXCEPT !.batch = b]
<1>1. p \in Threads /\ proc[p].at = "locked" /\ UNCHANGED <<turns, hot, segs>>
  BY DEF Materialize, Threads
<1>2. r.at = "append" /\ r.turn = proc[p].turn /\ r.count = proc[p].count
      /\ r.parent = proc[p].parent /\ r.batch = b
  <2> HIDE DEF b
  <2>1. IsProc(proc[p])
    BY <1>1 DEF LockInv
  <2>2. IsProc(r0) /\ r0.at = "append" /\ Same(proc[p], r0)
    BY <2>1, SetAt, SetOthers
  <2> HIDE DEF r0
  <2>3. IsProc(r1) /\ r1.at = "append" /\ Same(r0, r1)
    BY <2>2, SetField, SetOthers
  <2> HIDE DEF r1
  <2> QED
    BY <2>2, <2>3, SetField, SetCarried DEF Same
<1>3. proc' = [proc EXCEPT ![p] = r]
  BY DEF Materialize
<1> HIDE DEF r
<1>4. Carries(r, hot'.lines, turns')
  BY <1>1, <1>2 DEF Carries, FilesInv
<1> QED
  BY <1>1, <1>3, <1>4, FilesKeep DEF FilesInv

\* What the worker p appends, when it goes on to a position without a batch.
LEMMA WriteFiles ==
    ASSUME LockInv, FilesInv, NEW p \in Steps, Working(p), NEW new, NEW a,
           hot.lines \o new \in Files, WriteLines(new), GoTo(p, a), a # "append",
           UNCHANGED <<turns, segs>>
    PROVE  FilesInv'
<1> DEFINE r == [proc[p] EXCEPT !.at = a]
<1>1. p \in Threads
  BY DEF Threads
<1>2. hot' \in [there : BOOLEAN, lines : Files]
  BY DEF WriteLines
<1>3. Same(proc[p], r) /\ r.at = a
  BY <1>1, SetOthers, SetAt DEF LockInv
<1>4. proc' = [proc EXCEPT ![p] = r]
  BY DEF GoTo
<1> HIDE DEF r
<1>5. Carries(r, hot'.lines, turns')
  BY <1>3 DEF FilesInv, Carries, Same, Working
<1>6. \A q \in Steps : q # p => ~Working(q)
  BY WorksAlone
<1> QED
  BY <1>1, <1>2, <1>4, <1>5, <1>6, FilesKeep DEF FilesInv

\* What a step has materialized, or its first lines, makes a file of the hot one,
\* and its lines are of the step's turn.
LEMMA MaterializedGrows ==
    ASSUME FilesInv, NEW p \in Steps, proc[p].at = "append",
           NEW k \in 0 .. Len(proc[p].batch), NEW new, new = SubSeq(proc[p].batch, 1, k)
    PROVE  /\ new \in Seq(Line)
           /\ \A i \in 1 .. Len(new) : new[i].turn = turns
           /\ hot.lines \o new \in Files
<1>1. /\ proc[p].count \in Nat /\ proc[p].parent \in Nat \cup {Default}
      /\ proc[p].batch = NewMessages(hot.lines, proc[p].count, proc[p].parent, turns)
      /\ hot.lines \in Files /\ turns \in Nat
  BY DEF FilesInv, Carries
<1> DEFINE n == proc[p].count
           parent == proc[p].parent
           all == proc[p].batch
           lines == hot.lines
<1>2. n \in Nat /\ parent \in Nat \cup {Default} /\ lines \in Files /\ turns \in Nat
      /\ all = NewMessages(lines, n, parent, turns)
  BY <1>1
<1> HIDE DEF n, parent, all, lines
<1>3. /\ Len(all) = n /\ all \in Seq(Line)
      /\ \A i \in 1 .. Len(all) : all[i].id = Tip(lines) + i /\ all[i].turn = turns
  <2>1. all \in Seq(Line) /\ Len(all) = n
    BY ONLY <1>2, BatchTyped
  <2>2. \A i \in 1 .. n : all[i].id = Tip(lines) + i /\ all[i].turn = turns
    BY ONLY <1>2, BatchTyped
  <2> QED
    BY <2>1, <2>2
<1>4. /\ new \in Seq(Line)
      /\ \A i \in 1 .. Len(new) : new[i].turn = turns
      /\ lines \o new \in Files
  <2>1. k \in 0 .. Len(all) /\ new = SubSeq(all, 1, k)
    BY DEF all
  <2> QED
    BY ONLY <1>2, <1>3, <2>1, BatchGrows
<1> QED
  BY <1>4 DEF lines

\* All of it.
LEMMA AllMaterializedGrows ==
    ASSUME FilesInv, NEW p \in Steps, proc[p].at = "append"
    PROVE  /\ proc[p].batch \in Seq(Line)
           /\ \A i \in 1 .. Len(proc[p].batch) : proc[p].batch[i].turn = turns
           /\ hot.lines \o proc[p].batch \in Files
<1> DEFINE n == proc[p].count
           parent == proc[p].parent
           all == proc[p].batch
           lines == hot.lines
<1>1. n \in Nat /\ parent \in Nat \cup {Default} /\ lines \in Files /\ turns \in Nat
      /\ all = NewMessages(lines, n, parent, turns)
  BY DEF FilesInv, Carries
<1> HIDE DEF n, parent, all, lines
<1>2. all \in Seq(Line)
  BY ONLY <1>1, BatchTyped
<1>3. SubSeq(all, 1, Len(all)) = all /\ Len(all) \in 0 .. Len(all)
  BY <1>2, SubSeqFull
<1> QED
  BY <1>2, <1>3, MaterializedGrows DEF all

\* A step that persists stays within its turn, and only it touches the files.
LEMMA PersistFiles ==
    ASSUME LockInv, FilesInv, NEW p \in Steps, Persist(p) PROVE FilesInv'
<1> USE DEF Working
<1>1. p \in Threads
  BY DEF Threads
<1>2. CASE Materialize(p)
  BY <1>2, MaterializeFiles
<1>3. CASE NoMessages(p)
  BY <1>1, <1>3, GoToFiles DEF NoMessages
<1>4. CASE AppendMessages(p)
  <2>1. proc[p].at = "append" /\ WriteLines(proc[p].batch) /\ GoTo(p, "index")
        /\ UNCHANGED <<turns, segs>>
    BY <1>4 DEF AppendMessages
  <2>2. hot.lines \o proc[p].batch \in Files
    BY <2>1, AllMaterializedGrows
  <2> QED
    BY <2>1, <2>2, WriteFiles
<1>5. CASE AppendIndex(p) \/ StampIndex(p)
  BY <1>1, <1>5, GoToFiles DEF AppendIndex, StampIndex
<1>6. CASE AppendRecord(p)
  <2>1. proc[p].at = "record" /\ WriteLines(<<RecordLine(proc[p].turn)>>) /\ GoTo(p, "seal")
        /\ UNCHANGED <<turns, segs>>
    BY <1>6 DEF AppendRecord
  <2>2. hot.lines \o <<RecordLine(proc[p].turn)>> \in Files
    BY <2>1, RecordGrows DEF FilesInv, Carries
  <2> QED
    BY <2>1, <2>2, WriteFiles
<1>7. CASE NoRecord(p) \/ KeepHot(p) \/ BeginSeal(p) \/ DropIndex(p)
  BY <1>1, <1>7, GoToFiles DEF NoRecord, KeepHot, BeginSeal, DropIndex
<1>8. CASE Replace(p)
  <2> DEFINE r == [proc[p] EXCEPT !.at = "touch"]
  <2>1. /\ proc[p].at = "replace" /\ turns' = turns
        /\ segs' = Append(segs, hot.lines) /\ hot' = [there |-> FALSE, lines |-> <<>>]
        /\ proc' = [proc EXCEPT ![p] = r]
    BY <1>8 DEF Replace, GoTo
  <2>2. <<>> \in Files
    BY DEF Files, Ordered, MsgAt
  <2>3. turns' \in Nat /\ hot' \in [there : BOOLEAN, lines : Files] /\ segs' \in Seq(Files)
    BY <2>1, <2>2 DEF FilesInv
  <2>4. Same(proc[p], r) /\ r.at = "touch"
    BY <1>1, SetOthers, SetAt DEF LockInv
  <2> HIDE DEF r
  <2>5. Carries(r, hot'.lines, turns')
    BY <2>1, <2>4 DEF FilesInv, Carries, Same
  <2>6. \A q \in Steps : q # p => ~Working(q)
    BY <2>1, WorksAlone
  <2> QED
    BY <1>1, <2>1, <2>3, <2>5, <2>6, FilesKeep
<1>9. CASE Touch(p)
  <2> DEFINE r0 == [proc[p] EXCEPT !.at = "rb_read"]
             r == [r0 EXCEPT !.path = Len(segs)]
  <2>1. /\ proc[p].at = "touch" /\ UNCHANGED <<turns, segs>>
        /\ hot' = [hot EXCEPT !.there = TRUE] /\ proc' = [proc EXCEPT ![p] = r]
    BY <1>9 DEF Touch
  <2>2. /\ turns' \in Nat /\ hot' \in [there : BOOLEAN, lines : Files] /\ segs' \in Seq(Files)
        /\ hot'.lines = hot.lines
    BY <2>1 DEF FilesInv
  <2>3. Same(proc[p], r) /\ r.at = "rb_read"
    <3>1. IsProc(proc[p])
      BY <1>1 DEF LockInv
    <3>2. IsProc(r0) /\ r0.at = "rb_read" /\ Same(proc[p], r0)
      BY <3>1, SetAt, SetOthers
    <3> HIDE DEF r0
    <3>3. Same(r0, r) /\ r.at = "rb_read"
      BY <3>2, SetOthers, SetField
    <3> QED
      BY <3>2, <3>3 DEF Same
  <2> HIDE DEF r
  <2>4. Carries(r, hot'.lines, turns')
    BY <2>1, <2>2, <2>3 DEF FilesInv, Carries, Same
  <2> QED
    BY <1>1, <2>1, <2>2, <2>4, FilesKeep
<1>10. CASE Unlock(p)
  <2>1. Return(p) /\ UNCHANGED <<turns, hot, segs>>
    BY <1>10 DEF Unlock
  <2> QED
    BY <1>1, <2>1, ReturnFiles DEF FilesInv
<1> QED
  BY <1>2, <1>3, <1>4, <1>5, <1>6, <1>7, <1>8, <1>9, <1>10 DEF Persist

\* rebuild_index writes index files only.
LEMMA RebuildFiles ==
    ASSUME LockInv, FilesInv, NEW p \in Threads, Rebuild(p) PROVE FilesInv'
<1>1. /\ proc[p].at \in RebuildAt /\ UNCHANGED <<turns, hot, segs>>
      /\ p \in Steps => Working(p)
  BY DEF Rebuild, RebuildRead, RebuildDelete, RebuildAppend, RebuildStamp, RebuildAt, Working
<1>2. ASSUME Rebuilt(p) PROVE FilesInv'
  <2>1. CASE p \in Steps
    BY <1>1, <1>2, <2>1, GoToFiles DEF Rebuilt
  <2>2. CASE p \notin Steps
    BY <1>1, <1>2, <2>2, ReturnFiles DEF Rebuilt, FilesInv
  <2> QED
    BY <2>1, <2>2
<1>3. CASE RebuildRead(p)
  <2>1. CASE Exists(proc[p].path)
    <3> DEFINE r0 == [proc[p] EXCEPT !.at = "rb_delete"]
               r == [r0 EXCEPT !.snap = IndexRecords(Inode(proc[p].path), 0,
                                                     Lines(proc[p].path))]
    <3>1. Same(proc[p], r) /\ r.at = "rb_delete"
      <4>1. IsProc(proc[p])
        BY DEF LockInv
      <4>2. IsProc(r0) /\ r0.at = "rb_delete" /\ Same(proc[p], r0)
        BY <4>1, SetAt, SetOthers
      <4> HIDE DEF r0
      <4>3. Same(r0, r) /\ r.at = "rb_delete"
        BY <4>2, SetOthers, SetField
      <4> QED
        BY <4>2, <4>3 DEF Same
    <3>2. proc' = [proc EXCEPT ![p] = r]
      BY <1>3, <2>1 DEF RebuildRead
    <3> HIDE DEF r
    <3> QED
      BY <1>1, <3>1, <3>2, StayFiles
  <2>2. CASE ~Exists(proc[p].path)
    BY <1>2, <1>3, <2>2 DEF RebuildRead
  <2> QED
    BY <2>1, <2>2
<1>4. CASE RebuildDelete(p) \/ RebuildAppend(p)
  BY <1>1, <1>4, GoToFiles DEF RebuildDelete, RebuildAppend
<1>5. CASE RebuildStamp(p)
  BY <1>2, <1>5 DEF RebuildStamp
<1> QED
  BY <1>3, <1>4, <1>5 DEF Rebuild

\* An index reader touches no file either.
LEMMA StartIndexingFiles ==
    ASSUME LockInv, FilesInv, NEW p \in Indexers, NEW path, StartIndexing(p, path)
    PROVE  FilesInv'
<1> DEFINE r0 == [proc[p] EXCEPT !.at = "rb_read"]
           r == [r0 EXCEPT !.path = path]
<1>1. p \in Threads /\ p \notin Steps /\ UNCHANGED <<turns, hot, segs>>
  BY JournalAssumption DEF StartIndexing, Threads
<1>2. Same(proc[p], r) /\ r.at = "rb_read"
  <2>1. IsProc(proc[p])
    BY <1>1 DEF LockInv
  <2>2. IsProc(r0) /\ r0.at = "rb_read" /\ Same(proc[p], r0)
    BY <2>1, SetAt, SetOthers
  <2> HIDE DEF r0
  <2>3. Same(r0, r) /\ r.at = "rb_read"
    BY <2>2, SetOthers, SetField
  <2> QED
    BY <2>2, <2>3 DEF Same
<1>3. proc' = [proc EXCEPT ![p] = r]
  BY DEF StartIndexing
<1> HIDE DEF r
<1> QED
  BY <1>1, <1>2, <1>3, StayFiles

\* A kill in the middle of an append leaves the first lines of the batch.
LEMMA CrashFiles ==
    ASSUME LockInv, FilesInv, NEW p \in Threads, Crash(p) \/ CrashInAppend(p)
    PROVE  FilesInv'
<1>1. Return(p) /\ UNCHANGED <<turns, segs>>
  BY DEF Crash, CrashInAppend, Killed
<1>2. CASE Crash(p)
  BY <1>1, <1>2, ReturnFiles DEF Crash, FilesInv
<1>3. CASE CrashInAppend(p)
  <2>1. PICK k \in 1 .. Len(proc[p].batch) : WriteLines(SubSeq(proc[p].batch, 1, k))
    BY <1>3 DEF CrashInAppend
  <2>2. proc[p].at = "append" /\ p \in Steps
    BY <1>3 DEF CrashInAppend, FilesInv, Threads
  <2>3. k \in 0 .. Len(proc[p].batch)
    BY <2>1
  <2>4. hot.lines \o SubSeq(proc[p].batch, 1, k) \in Files
    BY <2>2, <2>3, MaterializedGrows
  <2>5. hot' \in [there : BOOLEAN, lines : Files]
    BY <2>1, <2>4 DEF WriteLines
  <2>6. Working(p) /\ segs' \in Seq(Files)
    BY <1>1, <2>2 DEF Working, FilesInv
  <2> QED
    BY <1>1, <2>5, <2>6, ReturnFiles
<1> QED
  BY <1>2, <1>3

-----------------------------------------------------------------------------

\* No file at first.
LEMMA FilesInvInit == ASSUME Init PROVE FilesInv
<1>1. turns = 0 /\ hot = [there |-> FALSE, lines |-> <<>>] /\ segs = <<>>
      /\ \A p \in Threads : proc[p] = Idle
  BY DEF Init
<1>2. <<>> \in Files
  BY DEF Files, Ordered, MsgAt
<1>3. Carries(Idle, <<>>, 0) /\ Idle.at = "idle"
  BY DEF Carries, Idle
<1> QED
  BY <1>1, <1>2, <1>3 DEF FilesInv, Threads

\* Every step keeps the files and what the steps carry.
LEMMA FilesInvNext == ASSUME LockInv, FilesInv, [Next]_vars PROVE FilesInv'
<1>1. CASE UNCHANGED vars
  BY <1>1 DEF FilesInv, vars, Carries
<1>2. ASSUME NEW p \in Steps, Step(p) PROVE FilesInv'
  <2>1. CASE \E parent \in Ids(hot.lines) \cup {0, Default}, n \in 0..MaxBatch :
               ReadLog(p, parent, n)
    BY <2>1, ReadLogFiles
  <2>2. CASE Discard(p)
    <3>1. p \in Threads /\ Return(p) /\ UNCHANGED <<turns, hot, segs>>
      BY <2>2 DEF Discard, Threads
    <3> QED
      BY <3>1, ReturnFiles DEF FilesInv
  <2> QED
    BY <1>2, <2>1, <2>2, LockFiles, PersistFiles DEF Step
<1>3. ASSUME NEW p \in Indexers, NEW path \in Paths, StartIndexing(p, path)
      PROVE  FilesInv'
  BY <1>3, StartIndexingFiles
<1>4. ASSUME NEW p \in Threads, Rebuild(p) \/ Crash(p) \/ CrashInAppend(p)
      PROVE  FilesInv'
  BY <1>4, RebuildFiles, CrashFiles
<1> QED
  BY <1>1, <1>2, <1>3, <1>4 DEF Next

\* Upward ids are unique.
LEMMA FilesInvImplies == ASSUME FilesInv PROVE IdsUnique
<1>1. ASSUME NEW path \in Sources PROVE Lines(path) \in Files
  BY <1>1 DEF Sources, Paths, Exists, Lines, FilesInv
<1>2. ASSUME NEW lines \in Files, NEW i \in MsgAt(lines), NEW j \in MsgAt(lines),
             lines[i].id = lines[j].id
      PROVE  i = j
  <2>1. lines \in Seq(Line) /\ Ordered(lines)
    BY DEF Files
  <2>2. i \in Nat /\ j \in Nat /\ lines[i].id \in Nat /\ lines[j].id \in Nat
    BY <2>1, MessageTyped
  <2>3. i < j \/ j < i \/ i = j
    BY <2>2
  <2> QED
    BY <1>2, <2>1, <2>2, <2>3 DEF Ordered
<1> QED
  BY <1>1, <1>2 DEF IdsUnique

\* No file of the journal ever has two messages with one id, however steps
\* overlap while they wait for the model, seal the hot file under each other's
\* feet, or are killed in the middle of an append: write_message_events numbers
\* its messages from the file as it is when it writes them.
THEOREM IdsAreUnique == Spec => []IdsUnique
<1>1. Init => LockInv /\ FilesInv
  BY LockInvInit, FilesInvInit
<1>2. LockInv /\ FilesInv /\ [Next]_vars => LockInv' /\ FilesInv'
  BY LockInvNext, FilesInvNext
<1>3. FilesInv => IdsUnique
  BY FilesInvImplies
<1> QED
  BY <1>1, <1>2, <1>3, PTL DEF Spec

-----------------------------------------------------------------------------
(* The journal as a history: its segments and the hot file are the         *)
(* volumes, the turn of the step that holds the lock is the open one.      *)

Volumes == Append(segs, hot.lines)
Open == IF lock.owner = NoOne THEN 0 ELSE turns

\* Replacing the last element of a sequence.
LEMMA ReplaceLast ==
    ASSUME NEW S, NEW s \in Seq(S), NEW a \in S, NEW b \in S
    PROVE  Append(s, b) = [Append(s, a) EXCEPT ![Len(s) + 1] = b]
<1> DEFINE n == Len(s) + 1
           t == [Append(s, a) EXCEPT ![n] = b]
<1>1. Len(s) \in Nat /\ n \in Nat /\ n \in 1 .. n
  OBVIOUS
<1>2. ASSUME NEW c \in S
      PROVE  /\ Append(s, c) \in [1 .. n -> S]
             /\ Append(s, c)[n] = c /\ \A i \in 1 .. Len(s) : Append(s, c)[i] = s[i]
  <2>1. Append(s, c) \in Seq(S) /\ Len(Append(s, c)) = n
    BY <1>1
  <2>2. Append(s, c) \in [1 .. n -> S]
    BY <2>1, LenProperties
  <2> QED
    BY <1>1, <2>2
<1>3. t \in [1 .. n -> S]
  BY <1>2
<1>4. ASSUME NEW i \in 1 .. n PROVE t[i] = Append(s, b)[i]
  <2>1. CASE i = n
    BY <1>1, <1>2, <2>1
  <2>2. CASE i # n
    <3>1. i \in 1 .. Len(s)
      BY <1>1, <2>2
    <3>2. t[i] = Append(s, a)[i]
      BY <1>2, <2>2
    <3> QED
      BY <1>2, <3>1, <3>2
  <2> QED
    BY <2>1, <2>2
<1> QED
  BY <1>2, <1>3, <1>4

\* What is added to the hot file is added to the last volume.
LEMMA HotGrows ==
    ASSUME FilesInv, NEW new \in Seq(Line), lock.owner # NoOne,
           \A i \in 1 .. Len(new) : new[i].turn = turns,
           hot'.lines = hot.lines \o new, segs' = segs
    PROVE  History!Grows
<1> DEFINE n == Len(segs) + 1
<1>1. segs \in Seq(Seq(Line)) /\ hot.lines \in Seq(Line)
  BY DEF FilesInv, Files
<1>2. /\ Len(Volumes) = n /\ n \in Nat /\ Volumes[n] = hot.lines
      /\ Volumes' = Append(segs, hot.lines \o new) /\ Volumes'[n] = hot.lines \o new
  BY <1>1 DEF Volumes
<1>3. Volumes' = [Volumes EXCEPT ![n] = @ \o new]
  <2>1. hot.lines \o new \in Seq(Line)
    BY <1>1
  <2>2. Append(segs, hot.lines \o new) = [Append(segs, hot.lines) EXCEPT ![n] = hot.lines \o new]
    <3> DEFINE S == Seq(Line)
               a == hot.lines
               b == hot.lines \o new
    <3>1. segs \in Seq(S) /\ a \in S /\ b \in S
      BY <1>1, <2>1
    <3> HIDE DEF S, a, b
    <3>2. Append(segs, b) = [Append(segs, a) EXCEPT ![Len(segs) + 1] = b]
      BY <3>1, ReplaceLast
    <3> QED
      BY <3>2 DEF a, b
  <2> QED
    BY <1>2, <2>2 DEF Volumes
<1>4. SubSeq(hot.lines \o new, Len(hot.lines) + 1, Len(hot.lines \o new)) = new
  <2>1. /\ Len(hot.lines) \in Nat /\ Len(new) \in Nat
        /\ Len(hot.lines \o new) = Len(hot.lines) + Len(new)
    BY <1>1
  <2>2. SubSeq(hot.lines \o new, Len(hot.lines) + 1, Len(hot.lines \o new))
          = SubSeq(new, 1, Len(new))
    BY <1>1, <2>1, SubSeqOfConcat2
  <2> QED
    BY <2>2, SubSeqFull
<1>5. Open = turns
  BY DEF Open
<1> DEFINE last == Len(Volumes)
<1>6. SUFFICES /\ new = SubSeq(Volumes'[last], Len(Volumes[last]) + 1, Len(Volumes'[last]))
               /\ \A i \in 1 .. Len(new) : new[i].turn = Open
               /\ Volumes' = [Volumes EXCEPT ![last] = @ \o new]
  BY DEF History!Grows, History!Current, Volumes, Open
<1> QED
  BY <1>2, <1>3, <1>4, <1>5

\* Nothing added is a way to grow.
LEMMA HotStays ==
    ASSUME FilesInv, lock.owner # NoOne, hot'.lines = hot.lines, segs' = segs
    PROVE  History!Grows
<1> DEFINE none == <<>>
<1>1. /\ none \in Seq(Line) /\ hot.lines \o none = hot.lines
      /\ \A i \in 1 .. Len(none) : none[i].turn = turns
  BY DEF FilesInv, Files
<1> HIDE DEF none
<1> QED
  BY <1>1, HotGrows

\* A step that leaves the files, the turns and the owner of the lock is a stutter.
LEMMA Stutters ==
    ASSUME hot'.lines = hot.lines, UNCHANGED <<segs, turns>>, lock'.owner = lock.owner
    PROVE  UNCHANGED History!historyVars
BY DEF History!historyVars

\* Within the lock, and when it is taken again or left half, the turn stays open.
LEMMA OwnerStays ==
    ASSUME LockInv, NEW p \in Threads, lock.owner = p,
           lock' = lock \/ Acquire(p) \/ (Leave(p) /\ lock.depth = 2)
    PROVE  lock'.owner = lock.owner
<1>1. lock = [owner |-> p, depth |-> Depth(proc[p].at)]
  BY NoOneAssumption DEF LockInv, Free
<1>2. CASE lock' = lock
  BY <1>2
<1>3. CASE Acquire(p)
  BY <1>1, <1>3 DEF Acquire
<1>4. CASE Leave(p) /\ lock.depth = 2
  BY <1>1, <1>4 DEF Leave
<1> QED
  BY <1>2, <1>3, <1>4

\* Whoever works owns the lock as often as its position says.
LEMMA WorkerOwns ==
    ASSUME LockInv, FilesInv, NEW p \in Steps, Working(p)
    PROVE  /\ p \in Threads /\ lock.owner = p /\ lock.owner # NoOne
           /\ lock.depth = Depth(proc[p].at) /\ turns > 0
<1>1. p \in Threads /\ lock.owner = p
  BY DEF LockInv, Inside, Working, Threads
<1> QED
  BY <1>1, NoOneAssumption DEF LockInv, Free, FilesInv, Carries, Working

\* What the actions of a working step are to the history.
LEMMA PersistIsHistory ==
    ASSUME LockInv, FilesInv, NEW p \in Steps, Persist(p)
    PROVE  [History!HistoryNext]_History!historyVars
<1>1. Working(p)
  BY DEF Persist, Materialize, NoMessages, AppendMessages, AppendIndex, StampIndex,
         AppendRecord, NoRecord, KeepHot, BeginSeal, DropIndex, Replace, Touch, Unlock, Working
<1>2. /\ p \in Threads /\ lock.owner = p /\ lock.owner # NoOne
      /\ lock.depth = Depth(proc[p].at) /\ turns > 0
  BY <1>1, WorkerOwns
<1>3. CASE Materialize(p) \/ NoMessages(p) \/ AppendIndex(p) \/ StampIndex(p) \/ NoRecord(p)
           \/ KeepHot(p) \/ BeginSeal(p) \/ DropIndex(p) \/ Touch(p)
  <2>1. UNCHANGED <<segs, turns>> /\ (lock' = lock \/ Acquire(p) \/ (Leave(p) /\ lock.depth = 2))
    BY <1>2, <1>3 DEF Materialize, NoMessages, AppendIndex, StampIndex, NoRecord, KeepHot,
                      BeginSeal, DropIndex, Touch, Depth
  <2>2. hot'.lines = hot.lines
    BY <1>3 DEF Materialize, NoMessages, AppendIndex, StampIndex, NoRecord, KeepHot,
                BeginSeal, DropIndex, Touch, FilesInv
  <2> QED
    BY <1>2, <2>1, <2>2, OwnerStays, Stutters
<1>4. ASSUME NEW new \in Seq(Line), \A i \in 1 .. Len(new) : new[i].turn = turns,
             WriteLines(new), UNCHANGED <<lock, turns, segs>>
      PROVE  History!HistoryNext
  <2>1. hot'.lines = hot.lines \o new
    BY <1>4 DEF WriteLines
  <2>2. History!Grows
    BY <1>2, <1>4, <2>1, HotGrows
  <2> QED
    BY <1>2, <1>4, <2>2 DEF History!HistoryNext, History!Write
<1>5. CASE AppendMessages(p)
  <2>1. proc[p].at = "append" /\ WriteLines(proc[p].batch) /\ UNCHANGED <<lock, turns, segs>>
    BY <1>5 DEF AppendMessages
  <2> QED
    BY <1>4, <2>1, AllMaterializedGrows
<1>6. CASE AppendRecord(p)
  <2> DEFINE new == <<RecordLine(proc[p].turn)>>
  <2>1. proc[p].turn = turns /\ turns \in Nat
    BY <1>1 DEF FilesInv, Carries, Working
  <2>2. new \in Seq(Line) /\ \A i \in 1 .. Len(new) : new[i].turn = turns
    BY <2>1 DEF RecordLine, Line
  <2>3. WriteLines(new) /\ UNCHANGED <<lock, turns, segs>>
    BY <1>6 DEF AppendRecord
  <2> QED
    BY <1>4, <2>2, <2>3
<1>7. CASE Replace(p)
  <2>1. segs' = Append(segs, hot.lines) /\ hot'.lines = <<>> /\ UNCHANGED <<lock, turns>>
    BY <1>7 DEF Replace
  <2> QED
    BY <1>2, <2>1 DEF History!HistoryNext, History!Seal
<1>8. CASE Unlock(p)
  <2>1. lock.depth = 1 /\ lock' = [owner |-> NoOne, depth |-> 0] /\ UNCHANGED <<turns, hot, segs>>
    BY <1>2, <1>8 DEF Unlock, Leave, Depth
  <2>2. History!Grows
    BY <1>2, <2>1, HotStays
  <2> QED
    BY <1>2, <2>1, <2>2 DEF History!HistoryNext, History!End
<1> QED
  BY <1>3, <1>5, <1>6, <1>7, <1>8 DEF Persist

\* A kill ends the turn of the thread that holds the lock.
LEMMA CrashIsHistory ==
    ASSUME LockInv, FilesInv, NEW p \in Threads, Crash(p) \/ CrashInAppend(p)
    PROVE  [History!HistoryNext]_History!historyVars
<1>1. /\ UNCHANGED <<turns, segs>>
      /\ lock' = IF lock.owner = p THEN [owner |-> NoOne, depth |-> 0] ELSE lock
  BY DEF Crash, CrashInAppend, Killed
<1>2. CASE lock.owner # p
  <2>1. p \notin Steps \/ proc[p].at # "append"
    BY <1>2, WorkerOwns DEF Working
  <2>2. Crash(p)
    BY <2>1 DEF CrashInAppend, FilesInv, Threads
  <2> QED
    BY <1>1, <1>2, <2>2, Stutters DEF Crash
<1>3. CASE lock.owner = p
  <2>1. p \in Steps /\ Working(p)
    BY <1>3 DEF LockInv, Inside, Working
  <2>2. lock.owner # NoOne /\ turns > 0 /\ lock'.owner = NoOne
    BY <1>1, <1>3, <2>1, WorkerOwns
  <2>3. CASE Crash(p)
    <3>1. History!Grows
      BY <1>1, <2>2, <2>3, HotStays DEF Crash
    <3> QED
      BY <1>1, <2>2, <3>1 DEF History!HistoryNext, History!End
  <2>4. CASE CrashInAppend(p)
    <3>1. PICK k \in 1 .. Len(proc[p].batch) : WriteLines(SubSeq(proc[p].batch, 1, k))
      BY <2>4 DEF CrashInAppend
    <3> DEFINE new == SubSeq(proc[p].batch, 1, k)
    <3>2. proc[p].at = "append" /\ k \in 0 .. Len(proc[p].batch)
      BY <2>4, <3>1 DEF CrashInAppend
    <3>3. new \in Seq(Line) /\ \A i \in 1 .. Len(new) : new[i].turn = turns
      BY <2>1, <3>2, MaterializedGrows
    <3>4. hot'.lines = hot.lines \o new
      BY <3>1 DEF WriteLines
    <3> HIDE DEF new
    <3>5. History!Grows
      BY <1>1, <2>2, <3>3, <3>4, HotGrows
    <3> QED
      BY <1>1, <2>2, <3>5 DEF History!HistoryNext, History!End
  <2> QED
    BY <2>3, <2>4
<1> QED
  BY <1>2, <1>3

\* An index rebuild is nothing to the history.
LEMMA RebuildIsHistory ==
    ASSUME LockInv, FilesInv, NEW p \in Threads, Rebuild(p)
    PROVE  UNCHANGED History!historyVars
<1>1. /\ proc[p].at \in RebuildAt /\ UNCHANGED <<turns, hot, segs>>
      /\ lock' = lock \/ Rebuilt(p)
  BY DEF Rebuild, RebuildRead, RebuildDelete, RebuildAppend, RebuildStamp, RebuildAt
<1>2. CASE lock' = lock
  BY <1>1, <1>2, Stutters
<1>3. CASE p \in Steps /\ Rebuilt(p)
  <2>1. Working(p) /\ Leave(p) /\ Depth(proc[p].at) = 2
    BY <1>1, <1>3 DEF Working, Rebuilt, RebuildAt, Depth
  <2> QED
    BY <1>1, <1>3, <2>1, WorkerOwns, OwnerStays, Stutters
<1> QED
  BY <1>1, <1>2, <1>3 DEF Rebuilt

\* What every step of the journal is to the history.
LEMMA NextIsHistory ==
    ASSUME LockInv, FilesInv, [Next]_vars
    PROVE  [History!HistoryNext]_History!historyVars
<1>1. CASE UNCHANGED vars
  BY <1>1, Stutters DEF vars
<1>2. ASSUME NEW p \in Steps, Step(p) PROVE [History!HistoryNext]_History!historyVars
  <2>1. CASE Lock(p)
    <3>1. lock.owner = NoOne /\ turns' = turns + 1 /\ UNCHANGED <<hot, segs>> /\ lock'.owner = p
      BY <2>1 DEF Lock, Acquire
    <3>2. p # NoOne
      BY NoOneAssumption DEF Threads
    <3> QED
      BY <3>1, <3>2 DEF History!HistoryNext, History!Begin
  <2>2. CASE Discard(p)
    BY <2>2, Stutters DEF Discard
  <2>3. CASE \E parent \in Ids(hot.lines) \cup {0, Default}, n \in 0..MaxBatch :
               ReadLog(p, parent, n)
    <3>1. UNCHANGED <<lock, turns, segs>> /\ hot'.lines = hot.lines
      BY <2>3 DEF ReadLog, FilesInv
    <3> QED
      BY <3>1, Stutters
  <2> QED
    BY <1>2, <2>1, <2>2, <2>3, PersistIsHistory DEF Step
<1>3. ASSUME NEW p \in Indexers, NEW path \in Paths, StartIndexing(p, path)
      PROVE  UNCHANGED History!historyVars
  BY <1>3, Stutters DEF StartIndexing
<1>4. ASSUME NEW p \in Threads, Rebuild(p) \/ Crash(p) \/ CrashInAppend(p)
      PROVE  [History!HistoryNext]_History!historyVars
  BY <1>4, RebuildIsHistory, CrashIsHistory
<1> QED
  BY <1>1, <1>2, <1>3, <1>4 DEF Next

\* The journal implements a history in volumes: whatever the threads do, and
\* wherever they are killed, a line that was written is never changed, moved or
\* lost, a sealed segment never grows, and every line comes from the turn of the
\* step that holds journal_write_lock when it is written.
THEOREM JournalIsAHistory == Spec => IsAHistory
<1>1. Init => LockInv /\ FilesInv
  BY LockInvInit, FilesInvInit
<1>2. LockInv /\ FilesInv /\ [Next]_vars => LockInv' /\ FilesInv'
  BY LockInvNext, FilesInvNext
<1>3. Init => History!HistoryInit
  BY NoOneAssumption DEF Init, History!HistoryInit
<1>4. LockInv /\ FilesInv /\ [Next]_vars => [History!HistoryNext]_History!historyVars
  BY NextIsHistory
<1> QED
  BY <1>1, <1>2, <1>3, <1>4, PTL DEF Spec, IsAHistory, History!HistorySpec

=============================================================================
