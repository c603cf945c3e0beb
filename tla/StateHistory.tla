---------------------------- MODULE StateHistory ----------------------------
(***************************************************************************)
(* The history of a state-oriented session: the working transcript the     *)
(* operator edits, the messages and snapshots of the journal, the          *)
(* projections that rewrite the transcript between full states and patches *)
(* (runtime/state_step.py), and the toas step command that materializes    *)
(* the turns it finds, decides which state they denote and appends the     *)
(* state the model infers (cli_session_commands.py).                       *)
(*                                                                         *)
(* A turn is a full state, or a patch, spelled STATE-DIFF/n or [[m->n]].   *)
(* Handles are numbers.  Pending tools, observations, reports and user     *)
(* turns are left out (StateStep models the tool batches).  A step runs    *)
(* alone; it may die after any record it writes, and its output is lost.   *)
(***************************************************************************)
EXTENDS StatePatch, Integers, Sequences, FiniteSets, SequencesExt

CONSTANTS
    First,       \* the state of the seed turn
    Answers,     \* patches the model may answer with
    Edits,       \* states the operator may write
    HandPatches, \* patches the operator may write
    Asked,       \* projections the operator may ask for
    Operations,  \* what happens besides steps: "edit", "diff", "key", "project"
    MaxCrashes,  \* bound: steps that die
    MaxTurns,    \* bound: turns in a transcript
    MaxRecords,  \* bound: records in the journal when a step starts
    MaxNotes     \* bound: designations and selections in the journal

\* A projection: which states are written in full, and which patches.
Specs == {"all", "key", "anchor"} \X {"none", "step", "cumulative"}

ASSUME HistoryAssumption ==
    /\ First \in States /\ Edits \subseteq States
    /\ Answers \subseteq Patches /\ HandPatches \subseteq Patches
    /\ Asked \subseteq Specs
    /\ Operations \subseteq {"edit", "diff", "key", "project"}
    /\ MaxCrashes \in Nat /\ MaxTurns \in Nat /\ MaxRecords \in Nat
    /\ MaxNotes \in Nat

VARIABLES
    transcript,  \* the turns of session.md
    log,         \* the journal: messages, snapshots, designations, selections
    fresh,       \* history: the last thing that happened was a step
    crashes      \* history: steps that died

vars == <<transcript, log, fresh, crashes>>

-----------------------------------------------------------------------------
(* Turns.                                                                  *)

\* src is the source of a vector [[src->h]], 0 in the other spellings; ref is
\* the handle in protocol: {ref: STATE/n} or {ref: m->n}, <<>> if there is none.
StateTurn(h, state, ref, key) ==
    [kind |-> "state", src |-> 0, h |-> h, val |-> state, ref |-> ref, key |-> key]
DiffTurn(src, h, patch) ==
    [kind |-> "diff", src |-> src, h |-> h, val |-> patch, ref |-> <<>>, key |-> FALSE]

\* parse_state_marker: a vector has no ordinal, and parse_state_turn says 1.
StateNumber(turn) == IF turn.src = 0 THEN turn.h ELSE 1

Handle(turn) == IF turn.src = 0 THEN <<turn.h>> ELSE <<turn.src, turn.h>>

\* _eq: role and content; the heading is not compared.
SameTurn(a, b) == a.kind = b.kind /\ a.val = b.val /\ a.ref = b.ref

-----------------------------------------------------------------------------
(* extract_state_history_points: the states a transcript denotes.          *)

Point(h, state, key, ref) == [h |-> h, state |-> state, key |-> key, ref |-> ref]

PointAt(points, h) == SelectInSeq(points, LAMBDA pt : pt.h = h)

\* A handle that is already there is overwritten in place.
PutPoint(points, pt) ==
    LET i == PointAt(points, pt.h)
    IN  IF i = 0 THEN Append(points, pt)
        ELSE [points EXCEPT ![i] = [pt EXCEPT
                !.key = pt.key \/ points[i].key,
                !.ref = IF pt.ref = <<>> THEN points[i].ref ELSE pt.ref]]

\* A recorded designation overrules the mark of the heading.
Designated(keys, turn) ==
    IF turn.src = 0 /\ turn.h \in DOMAIN keys THEN keys[turn.h] ELSE turn.key

\* The state a patch starts from: its source, or the last point.  A transcript
\* of this model starts with a full state, so there is one.
DiffBase(points, turn) ==
    IF turn.src # 0 /\ PointAt(points, turn.src) # 0
    THEN points[PointAt(points, turn.src)].state
    ELSE Last(points).state

ExtractPoints(turns, keys) ==
    LET Add(points, turn) ==
            PutPoint(points,
                     Point(turn.h,
                           IF turn.kind = "state" THEN turn.val
                           ELSE MergePatch(DiffBase(points, turn), turn.val),
                           Designated(keys, turn), turn.ref))
        upTo[i \in 0..Len(turns)] ==
            IF i = 0 THEN <<>> ELSE Add(upTo[i - 1], turns[i])
        points == upTo[Len(turns)]
    IN  IF points = <<>> THEN points ELSE [points EXCEPT ![1].key = TRUE]

-----------------------------------------------------------------------------
(* project_state_history_points: nine ways to write a history.             *)

SnapshotNode(pt) == <<StateTurn(pt.h, pt.state, pt.ref, pt.key)>>
DiffNode(a, b) == <<DiffTurn(a.h, b.h, StateDelta(a.state, b.state))>>

ProjectPoints(points, spec) ==
    LET n == Len(points)
        keyed == SelectSeq([i \in 1..n |-> i], LAMBDA i : points[i].key)
        m == Len(keyed)
        Steps(Shown(_)) ==
            FlattenSeq([i \in 1..n |->
                IF i = 1 THEN SnapshotNode(points[1])
                ELSE DiffNode(points[i - 1], points[i])
                     \o (IF Shown(i) THEN SnapshotNode(points[i]) ELSE <<>>)])
    IN  CASE spec[1] = "all" /\ spec[2] = "none" ->
                FlattenSeq([i \in 1..n |-> SnapshotNode(points[i])])
          [] spec[1] = "all" /\ spec[2] # "none" -> Steps(LAMBDA i : TRUE)
          [] spec = <<"anchor", "none">> -> SnapshotNode(points[1])
          [] spec = <<"anchor", "step">> -> Steps(LAMBDA i : FALSE)
          [] spec = <<"anchor", "cumulative">> ->
                SnapshotNode(points[1])
                \o (IF n > 1 THEN DiffNode(points[1], points[n]) ELSE <<>>)
          [] spec = <<"key", "none">> ->
                FlattenSeq([j \in 1..m |-> SnapshotNode(points[keyed[j]])])
          [] spec = <<"key", "step">> -> Steps(LAMBDA i : points[i].key)
          [] spec = <<"key", "cumulative">> ->
                FlattenSeq([j \in 1..m |->
                    (IF j = 1 THEN <<>>
                     ELSE DiffNode(points[keyed[j - 1]], points[keyed[j]]))
                    \o SnapshotNode(points[keyed[j]])])
                \o (IF n > keyed[m] THEN DiffNode(points[keyed[m]], points[n]) ELSE <<>>)

ProjectTurns(turns, keys, spec) == ProjectPoints(ExtractPoints(turns, keys), spec)

-----------------------------------------------------------------------------
(* The journal.  The n-th message has id n; parent 0 is the root.          *)

Message(parent, turn) == [k |-> "msg", parent |-> parent, turn |-> turn]
Snapshot(id, state) == [k |-> "snap", id |-> id, state |-> state]
Designation(keys) == [k |-> "keys", keys |-> keys]
Selection(spec) == [k |-> "sel", spec |-> spec]

Of(kind) == SelectSeq(log, LAMBDA r : r.k = kind)
Messages == Of("msg")
Snapshots == Of("snap")

\* read_state_key_designations: later records overrule earlier ones.
Keyed ==
    FoldLeft(LAMBDA keys, r : [h \in DOMAIN keys \cup DOMAIN r.keys |->
                IF h \in DOMAIN r.keys THEN r.keys[h] ELSE keys[h]],
             << >>, Of("keys"))

\* read_state_projection_selection
Selected == IF Of("sel") = <<>> THEN <<"all", "none">> ELSE Last(Of("sel")).spec

Lineage(messages, head) ==
    LET path[i \in 0..Len(messages)] ==
            IF i = 0 THEN <<>> ELSE Append(path[messages[i].parent], i)
    IN  path[head]

Heads(messages) ==
    {i \in 1..Len(messages) : \A j \in 1..Len(messages) : messages[j].parent # i}

\* Mutant of Common: turns that agree after a difference count.
CommonAnywhere(messages, path, turns) ==
    Cardinality({n \in 1..Len(path) :
        n <= Len(turns) /\ SameTurn(messages[path[n]].turn, turns[n])})

\* _lcp
Common(messages, path, turns) ==
    Cardinality({n \in 1..Len(path) :
        n <= Len(turns) /\ \A i \in 1..n : SameTurn(messages[path[i]].turn, turns[i])})

\* reconcile_state_lineage: the head that shares most with the transcript;
\* among equals the longest lineage, then the newest message, then the oldest
\* head.
BestHead(messages, turns) ==
    LET n == Len(messages)
        Lcp(h) == Common(messages, Lineage(messages, h), turns)
        Deep(h) == Len(Lineage(messages, h))
        Better(a, b) == \/ Lcp(a) > Lcp(b)
                        \/ Lcp(a) = Lcp(b) /\ Deep(a) > Deep(b)
                        \/ Lcp(a) = Lcp(b) /\ Deep(a) = Deep(b) /\ (a = n \/ (a < b /\ b # n))
    IN  IF n = 0 THEN 0
        ELSE CHOOSE a \in Heads(messages) :
                \A b \in Heads(messages) \ {a} : Better(a, b)

\* materialize_state_turns: only the first message has an explicit parent.
Materialized(messages, turns, lcp, parent) ==
    [i \in 1..(Len(turns) - lcp) |->
        Message(IF i = 1 THEN parent ELSE Len(messages) + i - 1, turns[lcp + i])]

\* find_lineage_state_snapshot: the last snapshot of the nearest message that
\* has one, else the last snapshot of all.
SnapshotOf(id) == SelectLastInSeq(Snapshots, LAMBDA s : s.id = id)
LineageSnapshot(path) ==
    LET have == SelectSeq(path, LAMBDA id : SnapshotOf(id) # 0)
    IN  IF have # <<>> THEN Snapshots[SnapshotOf(Last(have))].state
        ELSE Last(Snapshots).state

-----------------------------------------------------------------------------

Init ==
    /\ transcript = <<StateTurn(1, First, <<>>, FALSE)>>
    /\ log = <<>>
    /\ fresh = FALSE
    /\ crashes = 0

\* A step writes its records in order; it may die before or after any of them.
Writes(records, turns, next) ==
    \/ /\ log' = log \o records
       /\ transcript' = turns
       /\ fresh' = next
       /\ UNCHANGED crashes
    \/ /\ crashes < MaxCrashes
       /\ crashes' = crashes + 1
       /\ \E n \in 0..Len(records) : log' = log \o SubSeq(records, 1, n)
       /\ UNCHANGED transcript
       /\ fresh' = FALSE

\* What a step command does first: the transcript becomes messages, and a
\* first state without a snapshot gets one.  path is the lineage it compared
\* with, id the message of the last turn.
Prepared ==
    LET messages == Messages
        turn == Last(transcript)
        path == Lineage(messages, BestHead(messages, transcript))
        lcp == Common(messages, path, transcript)
        new == Materialized(messages, transcript, lcp, IF lcp = 0 THEN 0 ELSE path[lcp])
        id == IF new = <<>> THEN path[lcp] ELSE Len(messages) + Len(new)
        seeds == turn.kind = "state" /\ StateNumber(turn) = 1 /\ SnapshotOf(id) = 0
    IN  [path |-> path, id |-> id, next |-> Len(messages) + Len(new) + 1,
         new |-> new, seed |-> IF seeds THEN <<Snapshot(id, turn.val)>> ELSE <<>>]

\* A patch has nothing to apply to.
Groundless == Last(transcript).kind = "diff" /\ Snapshots = <<>>

\* The state the last turn denotes to a step.
CurrentState(path) ==
    LET turn == Last(transcript)
        before == SubSeq(path, 1, Min({Len(transcript) - 1, Len(path)}))
    IN  IF turn.kind = "state" THEN turn.val
        ELSE MergePatch(LineageSnapshot(before), turn.val)

\* _run_state_step_impl without user turns
StepOn(answer) ==
    LET p == Prepared
        added == MergePatch(CurrentState(p.path), answer)
        prior == Last(transcript)
        turn == StateTurn(StateNumber(prior) + 1, added, Handle(prior), FALSE)
    IN  IF Groundless THEN Writes(p.new, transcript, fresh)
        ELSE Writes(p.new \o p.seed \o <<Snapshot(p.next, added), Message(p.id, turn)>>,
                    Append(transcript, turn), TRUE)

Room == Len(log) <= MaxRecords
NoteRoom == Len(Of("keys")) + Len(Of("sel")) < MaxNotes
Step == Room /\ Len(transcript) < MaxTurns /\ \E answer \in Answers : StepOn(answer)

-----------------------------------------------------------------------------
(* The operator.                                                           *)

Stale == fresh' = FALSE

EditState ==
    /\ "edit" \in Operations
    /\ \E i \in 1..Len(transcript), s \in Edits :
        /\ transcript[i].kind = "state" /\ transcript[i].val # s
        /\ transcript' = [transcript EXCEPT ![i].val = s]
    /\ Stale /\ UNCHANGED <<log, crashes>>

\* A patch by hand, spelled STATE-DIFF/n.
WriteDiff ==
    /\ "diff" \in Operations
    /\ Len(transcript) < MaxTurns
    /\ \E p \in HandPatches :
        transcript' = Append(transcript, DiffTurn(0, StateNumber(Last(transcript)) + 1, p))
    /\ Stale /\ UNCHANGED <<log, crashes>>

ToggleKey ==
    /\ "key" \in Operations
    /\ \E i \in 1..Len(transcript) :
        /\ transcript[i].kind = "state"
        /\ transcript' = [transcript EXCEPT ![i].key = ~transcript[i].key]
    /\ UNCHANGED <<log, fresh, crashes>>

\* /sync: the designations of the headings are recorded, without inference.
Sync ==
    /\ "key" \in Operations /\ Room /\ NoteRoom
    /\ LET heads == {i \in 1..Len(transcript) : transcript[i].src = 0}
           keys == [h \in {transcript[i].h : i \in heads} |->
                      h = transcript[1].h \/
                      transcript[CHOOSE i \in heads : /\ transcript[i].h = h
                                 /\ \A j \in heads : transcript[j].h = h => j <= i].key]
       IN  log' = log \o Prepared.new \o Prepared.seed
                      \o (IF Groundless THEN <<>> ELSE <<Designation(keys)>>)
    /\ UNCHANGED <<transcript, fresh, crashes>>

\* toas transcript > session.md: a head of the journal, projected.  With
\* --record the choice becomes the default.
Project ==
    /\ "project" \in Operations
    /\ \E head \in Heads(Messages), spec \in Asked \cup {Selected}, record \in BOOLEAN :
        /\ record => NoteRoom
        /\ log' = IF record THEN Append(log, Selection(spec)) ELSE log
        /\ transcript' = ProjectTurns([i \in 1..Len(Lineage(Messages, head)) |->
                                         Messages[Lineage(Messages, head)[i]].turn],
                                      Keyed, spec)
    /\ Stale /\ UNCHANGED crashes

Next == Step \/ EditState \/ WriteDiff \/ ToggleKey \/ Sync \/ Project

Spec == Init /\ [][Next]_vars

-----------------------------------------------------------------------------
(* Properties.                                                             *)

Turn == [kind : {"state", "diff"}, src : Nat, h : Nat, val : States \cup Patches,
         ref : Seq(Nat), key : BOOLEAN]

\* Types: turns are well formed and parents exist.
TypeOK ==
    /\ transcript \in Seq(Turn)
    /\ \A i \in 1..Len(Messages) : Messages[i].parent \in 0..(i - 1)
    /\ \A i \in 1..Len(Snapshots) : Snapshots[i].state \in States
    /\ fresh \in BOOLEAN

\* The projections that leave states out keep the newest one: writing a history
\* as cumulative patches, and reading it again, denotes the same newest state,
\* whatever was edited, marked or branched before (extract_ and
\* project_state_history_points).
NewestState(turns) == Last(ExtractPoints(turns, Keyed)).state
ProjectionKeepsNewest ==
    \A kind \in {"key", "anchor"} :
        NewestState(ProjectTurns(transcript, Keyed, <<kind, "cumulative">>))
            = NewestState(transcript)

\* Projecting a projection in the same way changes nothing but the key marks,
\* so redirecting it into the transcript again loses nothing
\* (toas transcript > session.md).
Unmarked(turns) == [i \in 1..Len(turns) |-> [turns[i] EXCEPT !.key = FALSE]]
ProjectionIdempotent ==
    \A spec \in Specs :
        LET once == ProjectTurns(transcript, Keyed, spec)
        IN  Unmarked(ProjectTurns(once, Keyed, spec)) = Unmarked(once)

\* The patch stream and the alternating form lose no state: the snapshots come
\* back, handle by handle.
StatesOf(turns) ==
    LET points == ExtractPoints(turns, Keyed)
    IN  [i \in 1..Len(points) |-> <<points[i].h, points[i].state>>]
StepDiffsLossless ==
    \A kind \in {"all", "key", "anchor"} :
        StatesOf(ProjectTurns(transcript, Keyed, <<kind, "step">>)) = StatesOf(transcript)

\* When a step has added its turn, the transcript on the screen is, turn by
\* turn, the lineage of the newest message, also after edits, branches, and
\* steps that died half way (reconcile_state_lineage, materialize_state_turns).
TranscriptRecorded ==
    fresh =>
        LET path == Lineage(Messages, Len(Messages))
        IN  /\ Len(path) = Len(transcript)
            /\ \A i \in 1..Len(path) : SameTurn(Messages[path[i]].turn, transcript[i])

\* Turns that are already in the journal are found again: stepping never
\* records the same turn twice under the same parent, unless the model itself
\* gave the same answer twice.
NoDuplicateTurns ==
    \A i, j \in 1..Len(Messages) :
        /\ i < j /\ Messages[i].parent = Messages[j].parent
        /\ SameTurn(Messages[i].turn, Messages[j].turn)
        => SnapshotOf(j) # 0

\* Projections lose nothing they promise to keep.
ProjectionSound == ProjectionKeepsNewest /\ StepDiffsLossless /\ ProjectionIdempotent

\* The journal's lineage is the transcript, and holds each turn once.
LineageSound == TranscriptRecorded /\ NoDuplicateTurns
=============================================================================
