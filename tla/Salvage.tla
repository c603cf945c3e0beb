------------------------------ MODULE Salvage ------------------------------
(***************************************************************************)
(* The repair of a journal in which the first message was replaced again   *)
(* and again under the message it replaced (history_salvage.py), and the   *)
(* integrity check a journal has to pass (graph.py, fsck_logical_history). *)
(*                                                                         *)
(* Message i of the journal is the i-th message written; 0 is the virtual  *)
(* root n0.  Role and content are one opaque value.  A record about        *)
(* messages, of whatever kind, is the set of messages it refers to.        *)
(***************************************************************************)
EXTENDS Integers, Sequences, FiniteSets, FiniteSetsExt, SequencesExt

CONSTANTS Contents,       \* what a message may say
          MinDuplicates,  \* --min-duplicates
          MaxMessages,    \* bound: messages of the journal
          MaxRecords      \* bound: records about them

ASSUME SalvageAssumption ==
    /\ MinDuplicates \in Nat \ {0} /\ MaxMessages \in Nat /\ MaxRecords \in Nat

VARIABLES messages,  \* the messages of the damaged journal
          records,   \* what each of its other records refers to
          repaired   \* the repaired copy: its messages and its records, if any

salvageVars == <<messages, records, repaired>>

N0 == 0
NoRepair == [messages |-> <<>>, records |-> <<>>, from |-> <<>>]

SalvageInit ==
    /\ messages = <<>> /\ records = <<>> /\ repaired = NoRepair

-----------------------------------------------------------------------------
(***************************************************************************)
(* The damaged journal.  Any parent: reconciliation appends a new branch   *)
(* under any earlier message.                                              *)
(***************************************************************************)
WriteMessage ==
    /\ repaired = NoRepair /\ Len(messages) < MaxMessages
    /\ \E p \in 0 .. Len(messages), c \in Contents :
        messages' = Append(messages, [id |-> Len(messages) + 1, parent |-> p, content |-> c])
    /\ UNCHANGED <<records, repaired>>

WriteRecord ==
    /\ repaired = NoRepair /\ Len(records) < MaxRecords /\ Len(messages) = MaxMessages
    /\ \E refs \in SUBSET DOMAIN messages : /\ Cardinality(refs) <= 2
                                            /\ records' = Append(records, refs)
    /\ UNCHANGED <<messages, repaired>>

Content(i) == messages[i].content
Parent(i) == messages[i].parent
Children(p) == {i \in DOMAIN messages : Parent(i) = p}

\* The branch that ends with each message.
Paths ==
    LET path[i \in 0 .. Len(messages)] == IF i = N0 THEN <<>> ELSE Append(path[Parent(i)], i)
    IN  path
Descendants(s) == {i \in DOMAIN messages : s \in ToSet(Paths[i])}

SelectedStart(dups) == Max(dups)

\* _best_descendant_path: the longest branch, of equal ones the newest.
BestHead(start) ==
    CHOOSE h \in Descendants(start) : \A i \in Descendants(start) :
        Len(Paths[i]) < Len(Paths[h]) \/ (Len(Paths[i]) = Len(Paths[h]) /\ i <= h)

\* root_divergence_candidates
Candidates ==
    {[root |-> r, dups |-> {i \in Children(r) : Content(i) = c},
      start |-> SelectedStart({i \in Children(r) : Content(i) = c})] :
        <<r, c>> \in {rc \in Children(N0) \X Contents :
            /\ rc[2] # Content(rc[1])
            /\ Cardinality({i \in Children(rc[1]) : Content(i) = rc[2]}) >= MinDuplicates}}

Better(a, b) ==
    LET rank(c) == <<Cardinality(Descendants(c.start)), Cardinality(c.dups), BestHead(c.start)>>
    IN  \E k \in 1 .. 3 : rank(a)[k] > rank(b)[k] /\ \A j \in 1 .. k - 1 : rank(a)[j] = rank(b)[j]

\* salvage_root_divergence_events: the candidate that keeps most.
Candidate == CHOOSE a \in Candidates : \A b \in Candidates : ~Better(b, a)

-----------------------------------------------------------------------------
\* The kept child that says the same, if there is exactly one.
Matching(kept, canonical, c) ==
    LET same == {i \in Children(canonical) \cap kept : Content(i) = c}
    IN  IF Cardinality(same) = 1 THEN Min(same) ELSE 0

\* _build_equivalence_map: the kept message each message is equivalent to, or 0.
Canonical(candidate) ==
    LET kept == Descendants(candidate.start)
        canon[i \in 0 .. Len(messages)] ==
            IF i = N0 THEN 0
            ELSE IF i \in kept THEN i
            ELSE IF i \in candidate.dups THEN candidate.start
            ELSE IF canon[Parent(i)] # 0 THEN Matching(kept, canon[Parent(i)], Content(i))
            ELSE 0
    IN  canon

\* A message that diverged below a duplicate hangs on the message that is kept
\* for its parent; the selected start becomes a first message.
NewParent(candidate, canon, i) ==
    IF i = candidate.start THEN N0
    ELSE IF i \in Descendants(candidate.start) \cup {candidate.root} THEN Parent(i)
    ELSE IF canon[Parent(i)] # 0 THEN canon[Parent(i)]
    ELSE Parent(i)

\* Mutant: what diverged below a collapsed duplicate goes with the duplicate.
PreservedBelow(candidate, canon) ==
    LET kept == Descendants(candidate.start)
        is[i \in 0 .. Len(messages)] ==
            \/ i \in kept \cup {candidate.root, N0}
            \/ canon[i] = 0 /\ is[Parent(i)]
    IN  {i \in DOMAIN messages : is[i]}

\* _repaired_events_for_candidate: what is kept, in the order of the journal.
Preserved(candidate, canon) ==
    LET kept == Descendants(candidate.start)
        is[i \in 0 .. Len(messages)] ==
            \/ i \in kept \cup {candidate.root, N0}
            \/ canon[i] = 0 /\ (canon[Parent(i)] # 0 \/ is[Parent(i)])
    IN  {i \in DOMAIN messages : is[i]}

RepairedMessages(candidate, canon, preserved) ==
    LET order == SetToSortSeq(preserved, <)
    IN  [k \in DOMAIN order |-> [id |-> order[k], parent |-> NewParent(candidate, canon, order[k]),
                                 content |-> Content(order[k])]]

MappedRefs(canon, refs) == {IF canon[m] # 0 THEN canon[m] ELSE m : m \in refs}

\* _sidecar_event_for_repaired_journal: a record about no message of the copy
\* is left out.
RepairedRecords(canon, preserved) ==
    SelectSeq([k \in DOMAIN records |-> [of |-> records[k], refs |-> MappedRefs(canon, records[k])]],
              LAMBDA r : r.refs # r.of \/ r.of \cap preserved # {})

\* salvage_root_divergence.py: the copy is written, the journal left alone.
Repair ==
    /\ repaired = NoRepair /\ Candidates # {}
    /\ LET candidate == Candidate
           canon == Canonical(candidate)
           preserved == Preserved(candidate, canon)
       IN  repaired' = [messages |-> RepairedMessages(candidate, canon, preserved),
                        records |-> RepairedRecords(canon, preserved),
                        from |-> <<candidate>>]
    /\ UNCHANGED <<messages, records>>

SalvageNext == WriteMessage \/ WriteRecord \/ Repair

-----------------------------------------------------------------------------
(***************************************************************************)
(* fsck_logical_history on one source: no identifier twice, no parent      *)
(* missing.                                                                *)
(***************************************************************************)
Issues(ms) ==
    {<<"duplicate_message_id", j>> : j \in {k \in DOMAIN ms : \E i \in 1 .. k - 1 : ms[i].id = ms[k].id}}
    \cup {<<"missing_parent", j>> : j \in {k \in DOMAIN ms :
            ms[k].parent \notin {ms[i].id : i \in DOMAIN ms} \cup {N0}}}

\* What the branch that ends with message i says, in the copy.
RepairedBranch(i) ==
    LET ms == repaired.messages
        at(m) == CHOOSE k \in DOMAIN ms : ms[k].id = m
        up[n \in 0 .. Len(ms), m \in 0 .. Len(messages)] ==
            IF m = N0 \/ n = 0 THEN <<>> ELSE Append(up[n - 1, ms[at(m)].parent], ms[at(m)].content)
    IN  up[Len(ms), i]
Branch(i) == [k \in DOMAIN Paths[i] |-> Content(Paths[i][k])]

\* A repaired copy passes the integrity check: no record of the tree dangles
\* after duplicates were collapsed and branches moved.
RepairPassesFsck == Issues(repaired.messages) = {}

\* Repair loses no conversation: what every branch of the journal said is still
\* said by a branch of the copy, the replaced first message apart.
NothingLost ==
    repaired # NoRepair =>
      \A i \in DOMAIN messages : \E k \in DOMAIN repaired.messages :
        LET b == RepairedBranch(repaired.messages[k].id)
        IN  b = Branch(i) \/ (repaired.from[1].root \in ToSet(Paths[i]) /\ b = Tail(Branch(i)))

\* A record of the copy refers to messages of the copy, and to the ones that
\* end the same conversation as the ones it was written about.
RecordsFollow ==
    \A r \in ToSet(repaired.records) :
      /\ r.refs \subseteq {m.id : m \in ToSet(repaired.messages)}
      /\ \A m \in r.of : \E n \in r.refs :
            RepairedBranch(n) \in {Branch(m), Tail(Branch(m))}

\* What `toas history salvage` promises of the copy it writes, all at once.
RepairSound == RepairPassesFsck /\ NothingLost /\ RecordsFollow
=============================================================================
