--------------------------- MODULE StateStepProofs ---------------------------
(* The state step: calls run once and as recorded, the journal accounts for *)
(* every batch, every accepted state and every stepped user turn, and a     *)
(* verdict is final.  For any callers, batches, digests and outcomes, and   *)
(* any number of steps, seeds and crashes between any two records.          *)
EXTENDS StateStep, SequenceTheorems, FiniteSetTheorems, WellFoundedInduction, TLAPS

Journals == Seq(Record)
Open == {"pending", "running"}
Ends == {"completed", "failed", "cancelled", "indeterminate"}     \* of a tool call

-----------------------------------------------------------------------------
(* The last place of a set, and its n-th one, when a record is appended.   *)

LEMMA Greatest ==
    ASSUME NEW N \in Nat, NEW S \in SUBSET (1 .. N), S # {}
    PROVE  \E i \in S : \A j \in S : j <= i
<1> DEFINE After(i) == i + 1 .. N
           Afters == {After(i) : i \in S}
<1>1. Afters \subseteq FiniteSubsetsOf(1 .. N) /\ Afters # {}
  <2>1. ASSUME NEW i \in S PROVE IsFiniteSet(After(i)) /\ After(i) \subseteq 1 .. N
    <3>1. i + 1 \in Int /\ N \in Int /\ i + 1 > 1
      OBVIOUS
    <3>2. IsFiniteSet(After(i))
      BY <3>1, FS_Interval
    <3> QED
      BY <3>1, <3>2
  <2> QED
    BY <2>1 DEF FiniteSubsetsOf
<1>2. PICK least \in Afters : \A a \in Afters : ~(<<a, least>> \in StrictSubsetOrdering(1 .. N))
  BY <1>1, FS_StrictSubsetOrderingWellFounded, WFMin
<1>3. PICK i \in S : least = After(i)
  OBVIOUS
<1>4. ASSUME NEW j \in S PROVE j <= i
  <2>1. SUFFICES ASSUME j > i PROVE FALSE
    OBVIOUS
  <2>2. After(j) \subseteq After(i) /\ j \in After(i) /\ j \notin After(j)
    BY <2>1
  <2>3. <<After(j), After(i)>> \in StrictSubsetOrdering(1 .. N)
    BY <2>2 DEF StrictSubsetOrdering
  <2> QED
    BY <1>2, <1>3, <2>3
<1> QED
  BY <1>4

\* What is the newest stays so while only records elsewhere are added.
LEMMA NewestKept ==
    ASSUME NEW l \in Journals, NEW r \in Record, NEW S \in SUBSET (1 .. Len(l)), S # {}
    PROVE  Newest(Append(l, r), S) = Newest(l, S)
<1> DEFINE x == CHOOSE i \in S : \A j \in S : j <= i
<1>0. Len(l) \in Nat
  BY LenProperties DEF Journals
<1>1. \E i \in S : \A j \in S : j <= i
  BY <1>0, Greatest
<1>2. x \in S
  BY <1>1
<1> HIDE DEF x
<1>3. Append(l, r)[x] = l[x]
  BY <1>2, AppendProperties DEF Journals
<1> QED
  BY <1>3 DEF Newest, x

LEMMA NewestAdded ==
    ASSUME NEW l \in Journals, NEW r \in Record, NEW S \in SUBSET (1 .. Len(l))
    PROVE  Newest(Append(l, r), S \cup {Len(l) + 1}) = r
<1> DEFINE T == S \cup {Len(l) + 1}
           x == CHOOSE i \in T : \A j \in T : j <= i
<1>1. Len(l) \in Nat
  BY LenProperties DEF Journals
<1>2. \A i \in T : (\A j \in T : j <= i) <=> i = Len(l) + 1
  BY <1>1
<1>3. x = Len(l) + 1
  BY <1>2
<1> HIDE DEF x
<1>4. Append(l, r)[x] = r
  BY <1>3, AppendProperties DEF Journals
<1> QED
  BY <1>4 DEF Newest, x

\* The newest of a set is in it.
LEMMA NewestIn ==
    ASSUME NEW l \in Journals, NEW S \in SUBSET (1 .. Len(l)), S # {}
    PROVE  \E i \in S : Newest(l, S) = l[i] /\ \A j \in S : j <= i
<1>0. Len(l) \in Nat
  BY LenProperties DEF Journals
<1>1. \E i \in S : \A j \in S : j <= i
  BY <1>0, Greatest
<1> DEFINE x == CHOOSE i \in S : \A j \in S : j <= i
<1>2. x \in S /\ \A j \in S : j <= x
  BY <1>1
<1> QED
  BY <1>2 DEF Newest

-----------------------------------------------------------------------------
(* What the journal says after one more record.                            *)

Says(r) == r.k \in {"transition", "status"}     \* r gives a status

LEMMA Places ==
    ASSUME NEW l \in Journals
    PROVE  /\ Len(l) \in Nat
           /\ FullAt(l) \subseteq Transitions(l) /\ Transitions(l) \subseteq 1 .. Len(l)
           /\ \A t : Statuses(l, t) \subseteq Transitions(l) /\ Results(l, t) \subseteq 1 .. Len(l)
           /\ \A f \in FullAt(l) : f \in Statuses(l, l[f].t)
           /\ IsFiniteSet(FullAt(l)) /\ \A t : IsFiniteSet(Results(l, t))
<1>1. Len(l) \in Nat
  BY LenProperties DEF Journals
<1>2. /\ FullAt(l) \subseteq Transitions(l) /\ Transitions(l) \subseteq 1 .. Len(l)
      /\ \A t : Statuses(l, t) \subseteq Transitions(l) /\ Results(l, t) \subseteq 1 .. Len(l)
      /\ \A f \in FullAt(l) : f \in Statuses(l, l[f].t)
  BY DEF FullAt, Transitions, Statuses, Results
<1>3. IsFiniteSet(1 .. Len(l))
  BY <1>1, FS_Interval
<1>4. IsFiniteSet(FullAt(l)) /\ \A t : IsFiniteSet(Results(l, t))
  BY <1>2, <1>3, FS_Subset
<1> QED
  BY <1>1, <1>2, <1>4

LEMMA Appended ==
    ASSUME NEW l \in Journals, NEW r \in Record
    PROVE  /\ Append(l, r) \in Journals /\ Len(Append(l, r)) = Len(l) + 1
           /\ \A i \in 1 .. Len(l) : Append(l, r)[i] = l[i]
           /\ Append(l, r)[Len(l) + 1] = r
  BY AppendProperties DEF Journals

LEMMA AppendedPlaces ==
    ASSUME NEW l \in Journals, NEW r \in Record
    PROVE  /\ FullAt(Append(l, r)) =
                 IF r.k = "transition" THEN FullAt(l) \cup {Len(l) + 1} ELSE FullAt(l)
           /\ Transitions(Append(l, r)) =
                 IF Says(r) THEN Transitions(l) \cup {Len(l) + 1} ELSE Transitions(l)
           /\ \A t : Statuses(Append(l, r), t) =
                 IF Says(r) /\ r.t = t THEN Statuses(l, t) \cup {Len(l) + 1} ELSE Statuses(l, t)
           /\ \A t : Results(Append(l, r), t) =
                 IF r.k = "result" /\ r.t = t THEN Results(l, t) \cup {Len(l) + 1}
                 ELSE Results(l, t)
<1> DEFINE m == Append(l, r)
           n == Len(l) + 1
<1>1. /\ Len(l) \in Nat /\ Len(m) = n
      /\ \A i \in 1 .. Len(l) : m[i] = l[i]
      /\ m[n] = r
  BY Appended, Places
<1>2. 1 .. Len(m) = 1 .. Len(l) \cup {n} /\ n \notin 1 .. Len(l)
  BY <1>1
<1> HIDE DEF m, n
<1>3. FullAt(m) = IF r.k = "transition" THEN FullAt(l) \cup {n} ELSE FullAt(l)
  BY <1>1, <1>2 DEF FullAt
<1>4. Transitions(m) = IF Says(r) THEN Transitions(l) \cup {n} ELSE Transitions(l)
  BY <1>1, <1>2 DEF Transitions, Says
<1>5. \A t : Statuses(m, t) = IF Says(r) /\ r.t = t THEN Statuses(l, t) \cup {n} ELSE Statuses(l, t)
  BY <1>1, <1>2 DEF Statuses, Says
<1>6. \A t : Results(m, t) = IF r.k = "result" /\ r.t = t THEN Results(l, t) \cup {n}
                             ELSE Results(l, t)
  BY <1>1, <1>2 DEF Results
<1> QED
  BY <1>3, <1>4, <1>5, <1>6 DEF m, n

\* The verdicts and the newest status record.
LEMMA AppendedVerdicts ==
    ASSUME NEW l \in Journals, NEW r \in Record
    PROVE  /\ \A t : Statuses(l, t) # {} /\ ~(Says(r) /\ r.t = t) => 
                        Verdict(Append(l, r), t) = Verdict(l, t)
           /\ Says(r) => Verdict(Append(l, r), r.t) = r.st /\ Latest(Append(l, r)) = r
           /\ ~Says(r) /\ Transitions(l) # {} => Latest(Append(l, r)) = Latest(l)
<1> DEFINE m == Append(l, r)
<1>1. ASSUME NEW t, Statuses(l, t) # {}, ~(Says(r) /\ r.t = t)
      PROVE  Verdict(m, t) = Verdict(l, t)
  <2>1. Statuses(m, t) = Statuses(l, t) /\ Statuses(l, t) \in SUBSET (1 .. Len(l))
    BY <1>1, AppendedPlaces, Places
  <2>2. Newest(m, Statuses(l, t)) = Newest(l, Statuses(l, t))
    BY <1>1, <2>1, NewestKept
  <2> QED
    BY <2>1, <2>2 DEF Verdict
<1>2. ASSUME Says(r) PROVE Verdict(m, r.t) = r.st /\ Latest(m) = r
  <2>1. /\ Statuses(m, r.t) = Statuses(l, r.t) \cup {Len(l) + 1}
        /\ Transitions(m) = Transitions(l) \cup {Len(l) + 1}
        /\ Statuses(l, r.t) \in SUBSET (1 .. Len(l)) /\ Transitions(l) \in SUBSET (1 .. Len(l))
    BY <1>2, AppendedPlaces, Places
  <2>2. Newest(m, Statuses(m, r.t)) = r /\ Newest(m, Transitions(m)) = r
    BY <2>1, NewestAdded
  <2> QED
    BY <2>2 DEF Verdict, Latest
<1>3. ASSUME ~Says(r), Transitions(l) # {} PROVE Latest(m) = Latest(l)
  <2>1. Transitions(m) = Transitions(l) /\ Transitions(l) \in SUBSET (1 .. Len(l))
    BY <1>3, AppendedPlaces, Places
  <2> QED
    BY <1>3, <2>1, NewestKept DEF Latest
<1> QED
  BY <1>1, <1>2, <1>3

-----------------------------------------------------------------------------
(* The outcomes of a transition, in order.                                 *)

\* Every one of the places has its number.
Ranked(S) == \A n \in 1 .. Cardinality(S) : Place(S, n) # {}

LEMMA PlaceAdded ==
    ASSUME NEW N \in Nat, NEW S \in SUBSET (1 .. N)
    PROVE  /\ Cardinality(S) \in Nat
           /\ Cardinality(S \cup {N + 1}) = Cardinality(S) + 1
           /\ \A p \in S : {q \in S \cup {N + 1} : q <= p} = {q \in S : q <= p}
           /\ {q \in S \cup {N + 1} : q <= N + 1} = S \cup {N + 1}
           /\ \A n \in 1 .. Cardinality(S) : Place(S \cup {N + 1}, n) = Place(S, n)
           /\ Place(S \cup {N + 1}, Cardinality(S) + 1) = {N + 1}
<1> DEFINE x == N + 1
           T == S \cup {x}
           Upto(U, p) == {q \in U : q <= p}
           c == Cardinality(S)
<1>1. IsFiniteSet(S)
  <2>1. IsFiniteSet(1 .. N)
    BY FS_Interval
  <2> QED
    BY <2>1, FS_Subset
<1>2. x \notin S /\ c \in Nat /\ Cardinality(T) = c + 1
  <2>1. x \notin S
    OBVIOUS
  <2> QED
    BY <1>1, <2>1, FS_AddElement, FS_CardinalityType
<1>3. \A p \in S : Upto(T, p) = Upto(S, p)
  OBVIOUS
<1>4. Upto(T, x) = T
  <2>1. \A q \in T : q <= x
    OBVIOUS
  <2> HIDE DEF T, x
  <2> QED
    BY <2>1
<1>5. ASSUME NEW p \in S PROVE Cardinality(Upto(S, p)) <= c
  <2>1. Upto(S, p) \in SUBSET S
    OBVIOUS
  <2> QED
    BY <1>1, <2>1, FS_Subset
<1> HIDE DEF x, c
<1>6. ASSUME NEW n \in 1 .. c PROVE Place(T, n) = Place(S, n)
  <2>1. Cardinality(Upto(T, x)) # n
    BY <1>2, <1>4
  <2> QED
    BY <1>3, <2>1 DEF Place
<1>7. Place(T, c + 1) = {x}
  <2>1. ASSUME NEW p \in S PROVE Cardinality(Upto(T, p)) # c + 1
    <3>1. Upto(S, p) \in SUBSET S
      OBVIOUS
    <3>2. Cardinality(Upto(S, p)) \in Nat
      BY <1>1, <3>1, FS_Subset, FS_CardinalityType
    <3> QED
      BY <1>2, <1>3, <1>5, <3>2
  <2>2. Cardinality(Upto(T, x)) = c + 1
    BY <1>2, <1>4
  <2> QED
    BY <2>1, <2>2 DEF Place
<1> QED
  BY <1>2, <1>3, <1>4, <1>6, <1>7 DEF x, c

\* A record that is not a result of t leaves its outcomes as they are.
LEMMA OutcomesKept ==
    ASSUME NEW l \in Journals, NEW r \in Record, NEW t, Ranked(Results(l, t)),
           ~(r.k = "result" /\ r.t = t)
    PROVE  Outcomes(Append(l, r), t) = Outcomes(l, t)
<1> DEFINE m == Append(l, r)
           S == Results(l, t)
<1>1. Results(m, t) = S /\ S \subseteq 1 .. Len(l)
  BY AppendedPlaces, Places
<1>2. ASSUME NEW n \in 1 .. Cardinality(S) PROVE Nth(m, S, n) = Nth(l, S, n)
  <2> DEFINE p == CHOOSE p \in Place(S, n) : TRUE
  <2>1. p \in Place(S, n)
    BY DEF Ranked
  <2>2. p \in 1 .. Len(l)
    BY <1>1, <2>1 DEF Place
  <2> HIDE DEF p
  <2>3. m[p] = l[p]
    BY <2>2, Appended
  <2> QED
    BY <2>3 DEF Nth, p
<1> QED
  BY <1>1, <1>2 DEF Outcomes, Count

\* A result of t adds its own.
LEMMA OutcomesAdded ==
    ASSUME NEW l \in Journals, NEW r \in Record, NEW t, Ranked(Results(l, t)),
           Outcomes(l, t) \in Seq(Ends), r.st \in Ends,
           r.k = "result", r.t = t
    PROVE  /\ Outcomes(Append(l, r), t) = Append(Outcomes(l, t), r.st)
           /\ Ranked(Results(Append(l, r), t))
<1> DEFINE m == Append(l, r)
           S == Results(l, t)
           x == Len(l) + 1
           T == S \cup {x}
           c == Cardinality(S)
<1>1. Results(m, t) = T /\ S \in SUBSET (1 .. Len(l)) /\ Len(l) \in Nat
  BY AppendedPlaces, Places
<1>2. /\ c \in Nat /\ Cardinality(T) = c + 1
      /\ \A n \in 1 .. c : Place(T, n) = Place(S, n)
      /\ Place(T, c + 1) = {x}
  BY <1>1, PlaceAdded
<1> HIDE DEF c, T, x
<1>3. Ranked(T)
  <2>1. \A n \in 1 .. c : Place(S, n) # {}
    BY DEF Ranked, c
  <2>2. ASSUME NEW n \in 1 .. c + 1 PROVE Place(T, n) # {}
    <3>1. n = c + 1 \/ n \in 1 .. c
      BY <1>2
    <3>2. CASE n = c + 1
      BY <1>2, <3>2
    <3>3. CASE n \in 1 .. c
      BY <1>2, <2>1, <3>3
    <3> QED
      BY <3>1, <3>2, <3>3
  <2> QED
    BY <1>2, <2>2 DEF Ranked
<1>4. ASSUME NEW n \in 1 .. c PROVE Nth(m, T, n) = Nth(l, S, n)
  <2> DEFINE p == CHOOSE p \in Place(S, n) : TRUE
  <2>1. p \in Place(S, n)
    BY DEF Ranked, c
  <2>2. p \in 1 .. Len(l)
    BY <1>1, <2>1 DEF Place
  <2>3. Nth(m, T, n) = m[p]
    BY <1>2 DEF Nth
  <2> HIDE DEF p
  <2>4. m[p] = l[p]
    BY <2>2, Appended
  <2> QED
    BY <2>3, <2>4 DEF Nth, p
<1>5. Nth(m, T, c + 1) = r
  <2>1. Nth(m, T, c + 1) = m[x]
    BY <1>2 DEF Nth
  <2> QED
    BY <2>1, Appended DEF x
<1> DEFINE outs == Outcomes(l, t)
           more == Outcomes(m, t)
<1>6. /\ Len(outs) = c /\ \A n \in 1 .. c : outs[n] = Nth(l, S, n).st
      /\ DOMAIN more = 1 .. c + 1 /\ \A n \in 1 .. c + 1 : more[n] = Nth(m, T, n).st
  BY <1>1, <1>2 DEF Outcomes, Count, c
<1>7. more = [n \in 1 .. c + 1 |-> Nth(m, T, n).st]
  BY <1>1, <1>2 DEF Outcomes, Count
<1> HIDE DEF outs, more
<1>8. \A n \in 1 .. c + 1 : more[n] = Append(outs, r.st)[n]
  <2>1. more[c + 1] = r.st
    BY <1>2, <1>5, <1>6
  <2>2. \A n \in 1 .. c : more[n] = outs[n]
    BY <1>2, <1>4, <1>6
  <2>3. outs \in Seq(Ends)
    BY DEF outs
  <2> QED
    BY <1>2, <1>6, <2>1, <2>2, <2>3
<1>9. more = Append(outs, r.st)
  <2>1. outs \in Seq(Ends)
    BY DEF outs
  <2>2. Append(outs, r.st) = [n \in 1 .. c + 1 |-> Append(outs, r.st)[n]]
    BY <1>2, <1>6, <2>1
  <2> QED
    BY <1>6, <1>7, <1>8, <2>2
<1> QED
  BY <1>1, <1>3, <1>9 DEF outs, more

-----------------------------------------------------------------------------
(* The journal alone, wherever the process died.  What the runs check is    *)
(* here in the form every record has to keep: an open batch is the newest   *)
(* one, a pending one has no results yet, and the results of a batch are    *)
(* numbered as they were written.                                           *)

Named(l, t) == \E f \in FullAt(l) : l[f].t = t

Numbered(l) ==
    /\ \A f \in FullAt(l) : l[f].t \in 1 .. Cardinality(FullAt(l))
    /\ \A f, g \in FullAt(l) : l[f].t = l[g].t => f = g

Referring(l) ==
    \A i \in 1 .. Len(l) : Named(l, l[i].t) \/ (l[i].k = "snapshot" /\ l[i].t = SeedId)

OneOpen(l) ==
    \A f \in FullAt(l) : Verdict(l, l[f].t) \in Open => Latest(l).t = l[f].t

Earned(l, f) ==
    /\ Count(l, l[f].t) = Len(l[f].calls)
    /\ \A i \in Results(l, l[f].t) : l[i].st = "completed"

Batch(l, f) ==
    LET t == l[f].t
        mine == Results(l, t)
    IN  /\ Verdict(l, t) = "pending" => mine = {}
        /\ l[f].src = "user" => Verdict(l, t) # "pending"
        /\ Verdict(l, t) \in Open => l[f].calls # <<>>
        /\ Verdict(l, t) = "completed" => Earned(l, f)
        /\ \A i \in mine : l[i].index + 1 = Cardinality({j \in mine : j <= i})
        /\ Cardinality(mine) <= Len(l[f].calls)

Listed(l, t) ==
    /\ Ranked(Results(l, t))
    /\ Outcomes(l, t) \in Seq(Ends)
    /\ \A i \in Results(l, t) : \E n \in 1 .. Len(Outcomes(l, t)) : Outcomes(l, t)[n] = l[i].st

OncePerDigest(l) ==
    \A f, g \in FullAt(l) :
        l[f].src = "user" /\ l[g].src = "user" /\ l[f].digest = l[g].digest => f = g

Journal(l) ==
    /\ l \in Journals
    /\ Numbered(l) /\ Referring(l) /\ OneOpen(l) /\ OncePerDigest(l)
    /\ \A f \in FullAt(l) : Batch(l, f)
    /\ \A t : Listed(l, t)

\* What no record ever undoes.
Keeps(l, m) ==
    /\ FullAt(l) \subseteq FullAt(m)
    /\ \A f \in FullAt(l) : m[f] = l[f]
    /\ \A f \in FullAt(l) : Verdict(l, l[f].t) \notin Open => Verdict(m, l[f].t) = Verdict(l, l[f].t)
    /\ \A f \in FullAt(l) : Verdict(l, l[f].t) # "pending" => Verdict(m, l[f].t) # "pending"
    /\ \A t : HasSnapshot(l, t) => HasSnapshot(m, t)

\* When a record may be written.
MayNote(l, r) ==
    /\ r.k \in {"snapshot", "observation"}
    /\ Named(l, r.t) \/ (r.k = "snapshot" /\ r.t = SeedId)

MayResult(l, r) ==
    /\ r.k = "result"
    /\ Verdict(l, r.t) = "running"
    /\ r.index = Count(l, r.t)
    /\ \E f \in FullAt(l) : l[f].t = r.t /\ Count(l, r.t) < Len(l[f].calls)

MayStatus(l, r) ==
    /\ r.k = "status"
    /\ Verdict(l, r.t) \in Open
    /\ r.st = "running" => Verdict(l, r.t) = "pending"
    /\ \E f \in FullAt(l) : l[f].t = r.t /\ (r.st = "completed" => Earned(l, f))

MayTransition(l, r) ==
    /\ r.k = "transition"
    /\ r.t = Fresh(l)
    /\ \A f \in FullAt(l) : Verdict(l, l[f].t) \notin Open
    /\ r.st \in Open => r.calls # <<>>
    /\ r.st = "completed" => r.calls = <<>>
    /\ r.src = "user" => r.st # "pending"
    /\ r.src = "user" => \A f \in FullAt(l) : ~(l[f].src = "user" /\ l[f].digest = r.digest)

LEMMA RecordTyped ==
    ASSUME NEW r \in Record
    PROVE  /\ r.t \in Nat
           /\ r.k \in {"transition", "status", "snapshot", "observation", "result"}
           /\ r.k = "transition" =>
                /\ r.calls \in Lists /\ r.coe \in BOOLEAN /\ r.digest \in Digests \cup {NoDigest}
                /\ r.src \in {"model", "operator", "user", "none"} /\ r.complete \in BOOLEAN
                /\ r.st \in {"pending", "running", "completed", "failed"}
           /\ r.k = "status" => r.st \in Ends \cup {"running"}
           /\ r.k = "result" => r.st \in Ends /\ r.index \in Nat
  BY StateStepAssumption DEF Record, Ends, Lists

LEMMA CallsTyped == ASSUME NEW b \in Lists PROVE b \in Seq(ToolCalls)
<1>1. <<>> \in Seq(ToolCalls)
  BY EmptySeq
<1>2. Batches \subseteq Seq(ToolCalls)
  BY StateStepAssumption
<1> QED
  BY <1>1, <1>2 DEF Lists

\* The newest status record is one of a transition of the journal.
LEMMA LatestNamed ==
    ASSUME NEW l, Journal(l), Transitions(l) # {}
    PROVE  /\ Latest(l) \in Record /\ Says(Latest(l))
           /\ Verdict(l, Latest(l).t) = Latest(l).st
           /\ \E f \in FullAt(l) : l[f].t = Latest(l).t /\ (Latest(l).k = "transition" => l[f] = Latest(l))
<1>1. l \in Journals /\ Transitions(l) \in SUBSET (1 .. Len(l)) /\ Len(l) \in Nat
  BY Places DEF Journal
<1>2. PICK i \in Transitions(l) : Latest(l) = l[i] /\ \A j \in Transitions(l) : j <= i
  BY <1>1, NewestIn DEF Latest
<1>3. i \in 1 .. Len(l) /\ l[i] \in Record /\ Says(l[i])
  BY <1>1 DEF Journals, Transitions, Says
<1>4. i \in Statuses(l, l[i].t) /\ Statuses(l, l[i].t) \subseteq Transitions(l)
  BY <1>1, <1>3, Places DEF Statuses, Says
<1>5. PICK j \in Statuses(l, l[i].t) :
        Newest(l, Statuses(l, l[i].t)) = l[j] /\ \A h \in Statuses(l, l[i].t) : h <= j
  <2>1. Statuses(l, l[i].t) \in SUBSET (1 .. Len(l)) /\ Statuses(l, l[i].t) # {}
    BY <1>1, <1>4
  <2> QED
    BY <1>1, <2>1, NewestIn
<1>6. i = j
  BY <1>1, <1>2, <1>4, <1>5
<1>7. Named(l, l[i].t)
  BY <1>3 DEF Journal, Referring, Says
<1>8. l[i].k = "transition" => i \in FullAt(l)
  BY <1>3 DEF FullAt
<1> QED
  BY <1>2, <1>3, <1>5, <1>6, <1>7, <1>8 DEF Verdict, Named

-----------------------------------------------------------------------------
(* Each kind of record keeps the journal in order.                         *)

\* A record that is no transition leaves the transitions as they are.
LEMMA SameTransitions ==
    ASSUME NEW l, Journal(l), NEW r \in Record, r.k # "transition",
           Named(l, r.t) \/ (r.k = "snapshot" /\ r.t = SeedId)
    PROVE  /\ Append(l, r) \in Journals
           /\ FullAt(Append(l, r)) = FullAt(l)
           /\ \A f \in FullAt(l) : Append(l, r)[f] = l[f]
           /\ Numbered(Append(l, r)) /\ Referring(Append(l, r)) /\ OncePerDigest(Append(l, r))
<1> DEFINE m == Append(l, r)
<1>1. l \in Journals /\ FullAt(l) \subseteq 1 .. Len(l) /\ Len(l) \in Nat
  BY Places DEF Journal
<1>2. /\ m \in Journals /\ FullAt(m) = FullAt(l) /\ Len(m) = Len(l) + 1
      /\ \A i \in 1 .. Len(l) : m[i] = l[i]
      /\ m[Len(l) + 1] = r
  BY <1>1, Appended, AppendedPlaces
<1> HIDE DEF m
<1>3. \A f \in FullAt(l) : m[f] = l[f]
  BY <1>1, <1>2
<1>4. Numbered(m)
  BY <1>2, <1>3 DEF Journal, Numbered
<1>5. OncePerDigest(m)
  BY <1>2, <1>3 DEF Journal, OncePerDigest
<1>6. Referring(m)
  <2>1. \A t : Named(l, t) => Named(m, t)
    BY <1>2, <1>3 DEF Named
  <2>2. \A i \in 1 .. Len(l) : Named(m, m[i].t) \/ (m[i].k = "snapshot" /\ m[i].t = SeedId)
    BY <1>2, <2>1 DEF Journal, Referring
  <2> QED
    BY <1>1, <1>2, <2>1, <2>2 DEF Referring
<1> QED
  BY <1>2, <1>3, <1>4, <1>5, <1>6 DEF m

\* The results and outcomes of t without a new result of it.
LEMMA ResultsKept ==
    ASSUME NEW l, Journal(l), NEW r \in Record, NEW t, ~(r.k = "result" /\ r.t = t)
    PROVE  /\ Results(Append(l, r), t) = Results(l, t)
           /\ \A i \in Results(l, t) : Append(l, r)[i] = l[i]
           /\ Outcomes(Append(l, r), t) = Outcomes(l, t)
           /\ Listed(Append(l, r), t)
<1> DEFINE m == Append(l, r)
<1>1. l \in Journals /\ Results(l, t) \subseteq 1 .. Len(l) /\ Listed(l, t)
  BY Places DEF Journal
<1>2. Results(m, t) = Results(l, t) /\ \A i \in Results(l, t) : m[i] = l[i]
  BY <1>1, Appended, AppendedPlaces
<1>3. Outcomes(m, t) = Outcomes(l, t)
  BY <1>1, OutcomesKept DEF Listed
<1> HIDE DEF m
<1>4. Listed(m, t)
  BY <1>1, <1>2, <1>3 DEF Listed
<1> QED
  BY <1>2, <1>3, <1>4 DEF m

\* Nor does a record that is no result and no status change a batch.
LEMMA BatchKept ==
    ASSUME NEW l, Journal(l), NEW r \in Record, NEW f \in FullAt(l),
           ~(r.k = "result" /\ r.t = l[f].t),
           Verdict(Append(l, r), l[f].t) = Verdict(l, l[f].t),
           Append(l, r)[f] = l[f]
    PROVE  Batch(Append(l, r), f)
<1> DEFINE m == Append(l, r)
           t == l[f].t
<1>1. Results(m, t) = Results(l, t) /\ \A i \in Results(l, t) : m[i] = l[i]
  BY ResultsKept
<1>2. Batch(l, f)
  BY DEF Journal
<1>3. m[f] = l[f] /\ Verdict(m, t) = Verdict(l, t)
  OBVIOUS
<1> HIDE DEF m
<1>4. Earned(l, f) => Earned(m, f)
  BY <1>1, <1>3 DEF Earned, Count
<1> QED
  BY <1>1, <1>2, <1>3, <1>4 DEF Batch, m

LEMMA SnapshotsKept ==
    ASSUME NEW l \in Journals, NEW r \in Record
    PROVE  /\ \A t : HasSnapshot(l, t) => HasSnapshot(Append(l, r), t)
           /\ \A t : Observed(l, t) => Observed(Append(l, r), t)
           /\ r.k = "snapshot" => HasSnapshot(Append(l, r), r.t)
           /\ r.k = "observation" => Observed(Append(l, r), r.t)
<1> DEFINE m == Append(l, r)
<1>1. /\ Len(l) \in Nat /\ Len(m) = Len(l) + 1
      /\ \A i \in 1 .. Len(l) : m[i] = l[i]
      /\ m[Len(l) + 1] = r
  BY Appended, Places
<1> HIDE DEF m
<1>2. 1 .. Len(l) \subseteq 1 .. Len(m) /\ Len(l) + 1 \in 1 .. Len(m)
  BY <1>1
<1> QED
  BY <1>1, <1>2 DEF HasSnapshot, Observed, m

LEMMA NoteAdmitted ==
    ASSUME NEW l, Journal(l), NEW r \in Record, MayNote(l, r)
    PROVE  /\ Journal(Append(l, r)) /\ Keeps(l, Append(l, r))
           /\ FullAt(Append(l, r)) = FullAt(l)
           /\ \A f \in FullAt(l) : Verdict(Append(l, r), l[f].t) = Verdict(l, l[f].t)
           /\ \A t : Results(Append(l, r), t) = Results(l, t)
           /\ \A t : Outcomes(Append(l, r), t) = Outcomes(l, t)
<1> DEFINE m == Append(l, r)
<1>1. /\ m \in Journals /\ FullAt(m) = FullAt(l) /\ \A f \in FullAt(l) : m[f] = l[f]
      /\ Numbered(m) /\ Referring(m) /\ OncePerDigest(m)
  BY SameTransitions DEF MayNote
<1>2. l \in Journals /\ ~Says(r) /\ r.k # "result"
  BY DEF MayNote, Says, Journal
<1>3. ASSUME NEW f \in FullAt(l)
      PROVE  Verdict(m, l[f].t) = Verdict(l, l[f].t) /\ Latest(m) = Latest(l)
  BY <1>2, AppendedVerdicts, Places
<1>4. ASSUME NEW f \in FullAt(l) PROVE Batch(m, f)
  BY <1>1, <1>2, <1>3, BatchKept
<1>5. OneOpen(m)
  BY <1>1, <1>3 DEF OneOpen, Journal
<1>6. \A t : /\ Listed(m, t) /\ Results(m, t) = Results(l, t)
             /\ Outcomes(m, t) = Outcomes(l, t)
  BY <1>2, ResultsKept
<1>7. Journal(m)
  BY <1>1, <1>4, <1>5, <1>6 DEF Journal
<1>8. Keeps(l, m)
  BY <1>1, <1>2, <1>3, SnapshotsKept DEF Keeps
<1> QED
  BY <1>1, <1>3, <1>6, <1>7, <1>8

LEMMA ResultAdmitted ==
    ASSUME NEW l, Journal(l), NEW r \in Record, MayResult(l, r)
    PROVE  /\ Journal(Append(l, r)) /\ Keeps(l, Append(l, r))
           /\ FullAt(Append(l, r)) = FullAt(l)
           /\ \A f \in FullAt(l) : Verdict(Append(l, r), l[f].t) = Verdict(l, l[f].t)
           /\ Outcomes(Append(l, r), r.t) = Append(Outcomes(l, r.t), r.st)
<1> DEFINE m == Append(l, r)
           n == Len(l) + 1
           mine == Results(l, r.t)
<1>0. r.k = "result" /\ r.st \in Ends /\ ~Says(r)
  BY RecordTyped DEF MayResult, Says
<1>1. /\ m \in Journals /\ FullAt(m) = FullAt(l) /\ \A f \in FullAt(l) : m[f] = l[f]
      /\ Numbered(m) /\ Referring(m) /\ OncePerDigest(m)
  BY <1>0, SameTransitions DEF MayResult, Named
<1>2. l \in Journals /\ Len(l) \in Nat /\ mine \in SUBSET (1 .. Len(l))
      /\ Listed(l, r.t) /\ \A i \in 1 .. Len(l) : m[i] = l[i]
  BY Places, Appended DEF Journal
<1>3. ASSUME NEW f \in FullAt(l)
      PROVE  Verdict(m, l[f].t) = Verdict(l, l[f].t) /\ Latest(m) = Latest(l)
  BY <1>0, <1>2, AppendedVerdicts, Places
<1>4. Results(m, r.t) = mine \cup {n} /\ m[n] = r
  BY <1>0, <1>2, AppendedPlaces, Appended
<1>5. Outcomes(m, r.t) = Append(Outcomes(l, r.t), r.st) /\ Ranked(Results(m, r.t))
  BY <1>0, <1>2, OutcomesAdded DEF Listed
<1>6. Listed(m, r.t)
  <2> DEFINE outs == Outcomes(l, r.t)
             more == Outcomes(m, r.t)
  <2>1. outs \in Seq(Ends) /\ \A i \in mine : \E k \in 1 .. Len(outs) : outs[k] = l[i].st
    BY <1>2 DEF Listed
  <2>2. more = Append(outs, r.st)
    BY <1>5
  <2> HIDE DEF outs, more
  <2>3. /\ more \in Seq(Ends) /\ Len(more) = Len(outs) + 1 /\ Len(outs) \in Nat
        /\ \A k \in 1 .. Len(outs) : more[k] = outs[k]
        /\ more[Len(outs) + 1] = r.st
    BY <1>0, <2>1, <2>2, AppendProperties
  <2>4. ASSUME NEW i \in mine PROVE \E k \in 1 .. Len(more) : more[k] = m[i].st
    <3>1. m[i] = l[i]
      BY <1>2
    <3>2. PICK k \in 1 .. Len(outs) : outs[k] = l[i].st
      BY <2>1
    <3>3. k \in 1 .. Len(more) /\ more[k] = m[i].st
      BY <2>3, <3>1, <3>2
    <3> QED
      BY <3>3
  <2>5. \E k \in 1 .. Len(more) : more[k] = m[n].st
    <3>1. Len(outs) + 1 \in 1 .. Len(more)
      BY <2>3
    <3> QED
      BY <1>4, <2>3, <3>1
  <2> QED
    BY <1>4, <1>5, <2>3, <2>4, <2>5 DEF Listed, more
<1>7. ASSUME NEW t, t # r.t PROVE Listed(m, t)
  BY <1>7, ResultsKept
<1>8. ASSUME NEW f \in FullAt(l) PROVE Batch(m, f)
  <2>1. CASE l[f].t # r.t
    BY <1>1, <1>3, <2>1, BatchKept
  <2>2. CASE l[f].t = r.t
    <3>1. Verdict(m, m[f].t) = "running" /\ Batch(l, f) /\ m[f] = l[f]
      BY <1>1, <1>3, <2>2 DEF MayResult, Journal
    <3>2. r.index = Cardinality(mine) /\ Cardinality(mine) < Len(l[f].calls)
      BY <2>2 DEF MayResult, Count, Journal, Numbered
    <3>3. /\ Cardinality(mine) \in Nat /\ Cardinality(mine \cup {n}) = Cardinality(mine) + 1
          /\ \A p \in mine : {q \in mine \cup {n} : q <= p} = {q \in mine : q <= p}
          /\ {q \in mine \cup {n} : q <= n} = mine \cup {n}
      BY <1>2, PlaceAdded
    <3>4. \A i \in mine \cup {n} : m[i].index + 1 = Cardinality({j \in mine \cup {n} : j <= i})
      <4>1. ASSUME NEW i \in mine
            PROVE  m[i].index + 1 = Cardinality({j \in mine \cup {n} : j <= i})
        <5>1. l[i].index + 1 = Cardinality({j \in mine : j <= i}) /\ m[i] = l[i]
          BY <1>2, <2>2, <3>1 DEF Batch
        <5> QED
          BY <3>3, <5>1
      <4>2. m[n].index + 1 = Cardinality({j \in mine \cup {n} : j <= n})
        BY <1>4, <3>2, <3>3
      <4> QED
        BY <4>1, <4>2
    <3>5. l[f].calls # <<>> /\ Len(l[f].calls) \in Nat
      <4>1. f \in 1 .. Len(l) /\ l[f] \in Record /\ l[f].k = "transition"
        BY <1>2, Places DEF FullAt, Journals
      <4>2. l[f].calls \in Seq(ToolCalls)
        BY <4>1, RecordTyped, CallsTyped
      <4>3. l[f].calls # <<>>
        BY <2>2, <3>1, <1>3 DEF Batch, Open
      <4> QED
        BY <4>2, <4>3
    <3>6. Cardinality(mine \cup {n}) <= Len(l[f].calls)
      BY <3>2, <3>3, <3>5
    <3> QED
      BY <1>4, <2>2, <3>1, <3>4, <3>5, <3>6 DEF Batch
  <2> QED
    BY <2>1, <2>2
<1>9. OneOpen(m)
  BY <1>1, <1>3 DEF OneOpen, Journal
<1>10. Journal(m)
  BY <1>1, <1>6, <1>7, <1>8, <1>9 DEF Journal
<1>11. Keeps(l, m)
  BY <1>1, <1>2, <1>3, SnapshotsKept DEF Keeps
<1> QED
  BY <1>1, <1>3, <1>5, <1>10, <1>11

LEMMA StatusAdmitted ==
    ASSUME NEW l, Journal(l), NEW r \in Record, MayStatus(l, r)
    PROVE  /\ Journal(Append(l, r)) /\ Keeps(l, Append(l, r))
           /\ FullAt(Append(l, r)) = FullAt(l)
           /\ Verdict(Append(l, r), r.t) = r.st
           /\ \A f \in FullAt(l) : Verdict(Append(l, r), l[f].t) \in Open => l[f].t = r.t
           /\ \A t : Outcomes(Append(l, r), t) = Outcomes(l, t)
<1> DEFINE m == Append(l, r)
<1>0. r.k = "status" /\ r.st \in Ends \cup {"running"} /\ Says(r)
  BY RecordTyped DEF MayStatus, Says
<1>1. /\ m \in Journals /\ FullAt(m) = FullAt(l) /\ \A f \in FullAt(l) : m[f] = l[f]
      /\ Numbered(m) /\ Referring(m) /\ OncePerDigest(m)
  BY <1>0, SameTransitions DEF MayStatus, Named
<1>2. l \in Journals /\ Len(l) \in Nat /\ \A i \in 1 .. Len(l) : m[i] = l[i]
  BY Places, Appended DEF Journal
<1>3. Verdict(m, r.t) = r.st /\ Latest(m) = r
  BY <1>0, <1>2, AppendedVerdicts
<1>4. ASSUME NEW f \in FullAt(l), l[f].t # r.t
      PROVE  Verdict(m, l[f].t) = Verdict(l, l[f].t) /\ Verdict(l, l[f].t) \notin Open
  <2>1. Statuses(l, l[f].t) # {}
    BY <1>2, Places
  <2>2. Verdict(m, l[f].t) = Verdict(l, l[f].t)
    BY <1>2, <1>4, <2>1, AppendedVerdicts
  <2>3. PICK g \in FullAt(l) : l[g].t = r.t /\ Verdict(l, l[g].t) \in Open
    BY DEF MayStatus
  <2>4. OneOpen(l)
    BY DEF Journal
  <2> QED
    BY <1>4, <2>2, <2>3, <2>4 DEF OneOpen
<1>5. \A t : /\ Listed(m, t) /\ Results(m, t) = Results(l, t)
             /\ \A i \in Results(l, t) : m[i] = l[i]
             /\ Outcomes(m, t) = Outcomes(l, t)
  BY <1>0, ResultsKept
<1>6. ASSUME NEW f \in FullAt(l) PROVE Batch(m, f)
  <2>1. CASE l[f].t # r.t
    BY <1>0, <1>1, <1>4, <2>1, BatchKept
  <2>2. CASE l[f].t = r.t
    <3>1. m[f] = l[f] /\ Verdict(m, m[f].t) = r.st /\ Batch(l, f)
      BY <1>1, <1>3, <2>2 DEF Journal
    <3>2. Results(m, m[f].t) = Results(l, l[f].t) /\ \A i \in Results(l, l[f].t) : m[i] = l[i]
      BY <1>5, <3>1
    <3>3. r.st = "completed" => Earned(l, f)
      BY <2>2 DEF MayStatus, Journal, Numbered
    <3>4. Earned(l, f) => Earned(m, f)
      BY <3>1, <3>2 DEF Earned, Count
    <3>5. r.st # "pending" /\ l[f].calls # <<>>
      BY <1>0, <2>2, <3>1 DEF Ends, Batch, MayStatus
    <3> QED
      BY <3>1, <3>2, <3>3, <3>4, <3>5 DEF Batch
  <2> QED
    BY <2>1, <2>2
<1>7. OneOpen(m)
  BY <1>1, <1>3, <1>4 DEF OneOpen
<1>8. Journal(m)
  BY <1>1, <1>5, <1>6, <1>7 DEF Journal
<1>9. Keeps(l, m)
  <2>1. ASSUME NEW f \in FullAt(l), Verdict(l, l[f].t) \notin Open
        PROVE  Verdict(m, l[f].t) = Verdict(l, l[f].t)
    BY <1>4, <2>1 DEF MayStatus
  <2>2. ASSUME NEW f \in FullAt(l), Verdict(l, l[f].t) # "pending"
        PROVE  Verdict(m, l[f].t) # "pending"
    BY <1>0, <1>3, <1>4, <2>2 DEF Ends
  <2> QED
    BY <1>1, <1>2, <2>1, <2>2, SnapshotsKept DEF Keeps
<1>10. \A f \in FullAt(l) : Verdict(m, l[f].t) \in Open => l[f].t = r.t
  BY <1>4
<1> QED
  BY <1>1, <1>3, <1>5, <1>8, <1>9, <1>10

\* No record is about a transition that was not written yet.
LEMMA FreshIsFree ==
    ASSUME NEW l, Journal(l)
    PROVE  /\ Fresh(l) \in Nat \ {0}
           /\ \A i \in 1 .. Len(l) : l[i].t # Fresh(l)
           /\ \A f \in FullAt(l) : l[f].t \in 1 .. Fresh(l) - 1
           /\ Results(l, Fresh(l)) = {} /\ Outcomes(l, Fresh(l)) = <<>>
<1>1. l \in Journals /\ IsFiniteSet(FullAt(l))
  BY Places DEF Journal
<1>2. Cardinality(FullAt(l)) \in Nat
  BY <1>1, FS_CardinalityType
<1>3. \A f \in FullAt(l) : l[f].t \in 1 .. Cardinality(FullAt(l))
  BY DEF Journal, Numbered
<1>4. ASSUME NEW i \in 1 .. Len(l) PROVE l[i].t # Fresh(l)
  BY <1>2, <1>3 DEF Journal, Referring, Named, Fresh, SeedId
<1>5. Results(l, Fresh(l)) = {}
  BY <1>4 DEF Results
<1>6. Count(l, Fresh(l)) = 0
  BY <1>5, FS_EmptySet DEF Count
<1>7. Outcomes(l, Fresh(l)) = <<>>
  <2>1. Outcomes(l, Fresh(l)) \in Seq(Ends)
    BY DEF Journal, Listed
  <2>2. DOMAIN Outcomes(l, Fresh(l)) = 1 .. 0
    BY <1>6 DEF Outcomes
  <2> QED
    BY <2>1, <2>2
<1> QED
  BY <1>2, <1>3, <1>4, <1>5, <1>7 DEF Fresh

LEMMA TransitionAdmitted ==
    ASSUME NEW l, Journal(l), NEW r \in Record, MayTransition(l, r)
    PROVE  /\ Journal(Append(l, r)) /\ Keeps(l, Append(l, r))
           /\ FullAt(Append(l, r)) = FullAt(l) \cup {Len(l) + 1}
           /\ Len(l) + 1 \notin FullAt(l) /\ Append(l, r)[Len(l) + 1] = r
           /\ Verdict(Append(l, r), r.t) = r.st
           /\ \A f \in FullAt(l) : Verdict(Append(l, r), l[f].t) = Verdict(l, l[f].t)
           /\ Outcomes(Append(l, r), r.t) = <<>>
<1> DEFINE m == Append(l, r)
           n == Len(l) + 1
<1>0. /\ r.k = "transition" /\ r.t = Fresh(l) /\ Says(r) /\ r.calls \in Seq(ToolCalls)
      /\ r.st \in {"pending", "running", "completed", "failed"}
  BY RecordTyped, CallsTyped DEF MayTransition, Says
<1>1. /\ l \in Journals /\ Len(l) \in Nat /\ FullAt(l) \subseteq 1 .. Len(l)
      /\ IsFiniteSet(FullAt(l))
  BY Places DEF Journal
<1>2. /\ m \in Journals /\ Len(m) = n /\ FullAt(m) = FullAt(l) \cup {n}
      /\ \A i \in 1 .. Len(l) : m[i] = l[i]
      /\ m[n] = r /\ n \notin FullAt(l)
  BY <1>0, <1>1, Appended, AppendedPlaces
<1>3. \A f \in FullAt(l) : m[f] = l[f] /\ l[f].t # r.t /\ l[f].t \in 1 .. Fresh(l) - 1
  BY <1>0, <1>1, <1>2, FreshIsFree
<1>4. Verdict(m, r.t) = r.st /\ Latest(m) = r
  BY <1>0, <1>1, AppendedVerdicts
<1>5. ASSUME NEW f \in FullAt(l)
      PROVE  Verdict(m, l[f].t) = Verdict(l, l[f].t) /\ Verdict(l, l[f].t) \notin Open
  <2>1. Statuses(l, l[f].t) # {}
    BY <1>1, Places
  <2> QED
    BY <1>1, <1>3, <2>1, AppendedVerdicts DEF MayTransition
<1>6. \A t : /\ Listed(m, t) /\ Results(m, t) = Results(l, t)
             /\ Outcomes(m, t) = Outcomes(l, t)
  BY <1>0, ResultsKept
<1> HIDE DEF m, n
<1>7. Numbered(m)
  <2>1. Cardinality(FullAt(m)) = Fresh(l)
    BY <1>1, <1>2, FS_AddElement DEF Fresh
  <2>2. \A f \in FullAt(m) : m[f].t \in 1 .. Fresh(l)
    BY <1>0, <1>2, <1>3, FreshIsFree
  <2>3. ASSUME NEW f \in FullAt(m), NEW g \in FullAt(m), m[f].t = m[g].t PROVE f = g
    <3>1. CASE f \in FullAt(l) /\ g \in FullAt(l)
      BY <1>3, <2>3, <3>1 DEF Journal, Numbered
    <3>2. CASE f = n \/ g = n
      BY <1>2, <1>3, <2>3, <3>2
    <3> QED
      BY <1>2, <3>1, <3>2
  <2> QED
    BY <2>1, <2>2, <2>3 DEF Numbered
<1>8. Referring(m)
  <2>1. \A t : Named(l, t) => Named(m, t)
    BY <1>2, <1>3 DEF Named
  <2>2. Named(m, m[n].t)
    BY <1>2 DEF Named
  <2>3. \A i \in 1 .. Len(l) : Named(m, m[i].t) \/ (m[i].k = "snapshot" /\ m[i].t = SeedId)
    BY <1>2, <2>1 DEF Journal, Referring
  <2>4. 1 .. Len(m) = 1 .. Len(l) \cup {n}
    BY <1>1, <1>2 DEF n
  <2> QED
    BY <2>2, <2>3, <2>4 DEF Referring
<1>9. OncePerDigest(m)
  <2> SUFFICES ASSUME NEW f \in FullAt(m), NEW g \in FullAt(m),
                      m[f].src = "user", m[g].src = "user", m[f].digest = m[g].digest
               PROVE  f = g
    BY DEF OncePerDigest
  <2>1. CASE f \in FullAt(l) /\ g \in FullAt(l)
    BY <1>3, <2>1 DEF Journal, OncePerDigest
  <2>2. CASE f = n /\ g \in FullAt(l)
    BY <1>2, <1>3, <2>2 DEF MayTransition
  <2>3. CASE g = n /\ f \in FullAt(l)
    BY <1>2, <1>3, <2>3 DEF MayTransition
  <2> QED
    BY <1>2, <2>1, <2>2, <2>3
<1>10. OneOpen(m)
  BY <1>2, <1>3, <1>4, <1>5 DEF OneOpen
<1>11. ASSUME NEW f \in FullAt(m) PROVE Batch(m, f)
  <2>1. CASE f \in FullAt(l)
    BY <1>0, <1>3, <1>5, <2>1, BatchKept DEF m
  <2>2. CASE f = n
    <3>1. m[f].t = r.t /\ m[f].calls = r.calls /\ Results(m, r.t) = {} /\ Verdict(m, r.t) = r.st
      BY <1>0, <1>2, <1>4, <1>6, <2>2, FreshIsFree
    <3>2. Cardinality({}) = 0 /\ Len(r.calls) \in Nat
      BY <1>0, FS_EmptySet
    <3>3. r.calls = <<>> => Len(r.calls) = 0
      OBVIOUS
    <3>4. m[f].src = "user" => r.st # "pending"
      BY <1>2, <2>2 DEF MayTransition
    <3>5. (r.st \in Open => r.calls # <<>>) /\ (r.st = "completed" => r.calls = <<>>)
      BY DEF MayTransition
    <3>6. r.st = "completed" => Earned(m, f)
      BY <3>1, <3>2, <3>3, <3>5 DEF Earned, Count
    <3> QED
      BY <3>1, <3>2, <3>4, <3>5, <3>6 DEF Batch
  <2> QED
    BY <1>2, <2>1, <2>2
<1>12. Journal(m)
  BY <1>2, <1>6, <1>7, <1>8, <1>9, <1>10, <1>11 DEF Journal
<1>13. Keeps(l, m)
  BY <1>1, <1>2, <1>3, <1>5, SnapshotsKept DEF Keeps, m
<1>14. Outcomes(m, r.t) = <<>>
  BY <1>0, <1>6, FreshIsFree
<1> QED
  BY <1>2, <1>4, <1>5, <1>12, <1>13, <1>14 DEF m, n

-----------------------------------------------------------------------------
(* A list of records.  Good(l, rs, T): whichever of them are written before *)
(* the process dies, the journal stays in order, nothing is undone, and new *)
(* transitions are at places in T only.                                     *)

After(l, rs, k) == l \o SubSeq(rs, 1, k)

Good(l, rs, T) ==
    /\ rs \in Journals
    /\ \A k \in 0 .. Len(rs) :
         /\ Journal(After(l, rs, k))
         /\ Keeps(l, After(l, rs, k))
         /\ FullAt(After(l, rs, k)) \subseteq FullAt(l) \cup T

May(l, r) == MayNote(l, r) \/ MayResult(l, r) \/ MayStatus(l, r) \/ MayTransition(l, r)

LEMMA MayKeeps ==
    ASSUME NEW l, Journal(l), NEW r \in Record, May(l, r)
    PROVE  /\ Journal(Append(l, r)) /\ Keeps(l, Append(l, r))
           /\ FullAt(Append(l, r)) \subseteq FullAt(l) \cup
                 (IF r.k = "transition" THEN {Len(l) + 1} ELSE {})
<1>1. CASE MayNote(l, r)
  BY <1>1, NoteAdmitted
<1>2. CASE MayResult(l, r)
  BY <1>2, ResultAdmitted
<1>3. CASE MayStatus(l, r)
  BY <1>3, StatusAdmitted
<1>4. CASE MayTransition(l, r)
  BY <1>4, TransitionAdmitted DEF MayTransition
<1> QED
  BY <1>1, <1>2, <1>3, <1>4 DEF May

LEMMA KeepsOn ==
    ASSUME NEW l, NEW m, NEW n, Keeps(l, m), Keeps(m, n) PROVE Keeps(l, n)
  BY DEF Keeps

LEMMA KeepsAll == ASSUME NEW l PROVE Keeps(l, l)
  BY DEF Keeps

LEMMA AfterEnds ==
    ASSUME NEW l \in Journals, NEW rs \in Journals
    PROVE  After(l, rs, 0) = l /\ After(l, rs, Len(rs)) = l \o rs
<1>1. SubSeq(rs, 1, 0) = <<>> /\ l \o <<>> = l
  BY SubSeqEmpty, ConcatEmptySeq DEF Journals
<1>2. SubSeq(rs, 1, Len(rs)) = rs
  BY SubSeqFull DEF Journals
<1> QED
  BY <1>1, <1>2 DEF After

LEMMA GoodNone == ASSUME NEW l, Journal(l) PROVE Good(l, <<>>, {}) /\ l \o <<>> = l
<1>1. l \in Journals /\ <<>> \in Journals /\ Len(<<>>) = 0
  BY EmptySeq DEF Journal, Journals
<1>2. After(l, <<>>, 0) = l /\ l \o <<>> = l
  BY <1>1, AfterEnds
<1>3. \A k \in 0 .. Len(<<>>) : k = 0
  BY <1>1
<1> QED
  BY <1>1, <1>2, <1>3, KeepsAll DEF Good

LEMMA GoodEnd ==
    ASSUME NEW l, Journal(l), NEW rs, NEW T, Good(l, rs, T)
    PROVE  /\ rs \in Journals /\ l \o rs \in Journals
           /\ Journal(l \o rs) /\ Keeps(l, l \o rs)
           /\ FullAt(l \o rs) \subseteq FullAt(l) \cup T
<1>1. l \in Journals /\ rs \in Journals
  BY DEF Journal, Good
<1>2. Len(rs) \in 0 .. Len(rs) /\ After(l, rs, Len(rs)) = l \o rs
  BY <1>1, AfterEnds, LenProperties DEF Journals
<1> QED
  BY <1>1, <1>2 DEF Good, Journal

LEMMA GoodThen ==
    ASSUME NEW l, Journal(l), NEW rs, NEW T, Good(l, rs, T),
           NEW r \in Record, May(l \o rs, r)
    PROVE  /\ l \o Append(rs, r) = Append(l \o rs, r)
           /\ Good(l, Append(rs, r),
                   T \cup (IF r.k = "transition" THEN {Len(l \o rs) + 1} ELSE {}))
<1> DEFINE more == Append(rs, r)
           m == l \o rs
           U == T \cup (IF r.k = "transition" THEN {Len(m) + 1} ELSE {})
<1>1. /\ l \in Journals /\ rs \in Journals /\ m \in Journals
      /\ Journal(m) /\ Keeps(l, m) /\ FullAt(m) \subseteq FullAt(l) \cup T
  BY GoodEnd DEF Journal
<1>2. l \o more = Append(m, r)
  BY <1>1, AppendIsConcat, ConcatAssociative, <<r>> \in Seq(Record) DEF Journals
<1>3. more \in Journals /\ Len(more) = Len(rs) + 1 /\ Len(rs) \in Nat
  BY <1>1, AppendProperties, LenProperties DEF Journals
<1>4. ASSUME NEW k \in 0 .. Len(rs) PROVE SubSeq(more, 1, k) = SubSeq(rs, 1, k)
  BY <1>1, <1>3, AppendProperties DEF Journals
<1>5. After(l, more, Len(more)) = Append(m, r)
  BY <1>1, <1>2, <1>3, AfterEnds
<1> HIDE DEF more, m
<1>6. /\ Journal(Append(m, r)) /\ Keeps(l, Append(m, r))
      /\ FullAt(Append(m, r)) \subseteq FullAt(l) \cup U
  BY <1>1, MayKeeps, KeepsOn DEF m
<1>7. ASSUME NEW k \in 0 .. Len(more)
      PROVE  /\ Journal(After(l, more, k)) /\ Keeps(l, After(l, more, k))
             /\ FullAt(After(l, more, k)) \subseteq FullAt(l) \cup U
  <2>1. CASE k = Len(more)
    BY <1>5, <1>6, <2>1
  <2>2. CASE k \in 0 .. Len(rs)
    <3>1. After(l, more, k) = After(l, rs, k)
      BY <1>4, <2>2 DEF After
    <3> QED
      BY <2>2, <3>1 DEF Good
  <2> QED
    BY <1>3, <2>1, <2>2
<1> QED
  BY <1>2, <1>3, <1>7 DEF Good, more, m

\* The same when the record is no transition, and when it is one.
LEMMA GoodRecord ==
    ASSUME NEW l, Journal(l), NEW rs, NEW T, Good(l, rs, T),
           NEW r \in Record, r.k # "transition", May(l \o rs, r)
    PROVE  /\ l \o Append(rs, r) = Append(l \o rs, r)
           /\ Good(l, Append(rs, r), T)
<1>1. T \cup (IF r.k = "transition" THEN {Len(l \o rs) + 1} ELSE {}) = T
  OBVIOUS
<1>2. /\ l \o Append(rs, r) = Append(l \o rs, r)
      /\ Good(l, Append(rs, r), T \cup (IF r.k = "transition" THEN {Len(l \o rs) + 1} ELSE {}))
  BY GoodThen
<1> QED
  BY <1>1, <1>2

LEMMA GoodTransition ==
    ASSUME NEW l, Journal(l), NEW rs, NEW T, Good(l, rs, T),
           NEW r \in Record, MayTransition(l \o rs, r)
    PROVE  /\ l \o Append(rs, r) = Append(l \o rs, r)
           /\ Good(l, Append(rs, r), T \cup {Len(l \o rs) + 1})
<1>1. May(l \o rs, r) /\ r.k = "transition"
  BY DEF May, MayTransition
<1>2. T \cup (IF r.k = "transition" THEN {Len(l \o rs) + 1} ELSE {}) = T \cup {Len(l \o rs) + 1}
  BY <1>1
<1>3. /\ l \o Append(rs, r) = Append(l \o rs, r)
      /\ Good(l, Append(rs, r), T \cup (IF r.k = "transition" THEN {Len(l \o rs) + 1} ELSE {}))
  BY <1>1, GoodThen
<1> QED
  BY <1>2, <1>3

-----------------------------------------------------------------------------
(* The invariant: the journal, and what the running step, the calls it ran  *)
(* and the missing snapshots have to do with it.                           *)

Working == {"exec", "result", "verdict"}

\* The step s at this place of a batch has the recorded calls, and its
\* outcomes are the recorded ones, up to the one that is written next.
Fits(l, place, s) ==
    /\ place \in Working =>
         /\ \E f \in FullAt(l) : l[f].t = s.t /\ s.batch = l[f].calls
         /\ Verdict(l, s.t) = "running"
         /\ ~s.returned
         /\ IF place = "result"
            THEN \E st \in ToolStatuses : s.outs = Append(Outcomes(l, s.t), st)
            ELSE s.outs = Outcomes(l, s.t)
         /\ Len(s.outs) <= Len(s.batch)
         /\ place = "exec" => Len(s.outs) < Len(s.batch)
    /\ place = "infer" => ~s.returned /\ \A f \in FullAt(l) : Verdict(l, l[f].t) \notin Open
    /\ s.returned => Verdict(l, s.t) \notin Open /\ Observed(l, s.t)

RecordedRun(l, e) ==
    /\ \E f \in FullAt(l) : /\ l[f].t = e[1]
                            /\ e[2] + 1 \in DOMAIN l[f].calls
                            /\ e[3] = l[f].calls[e[2] + 1]
    /\ Verdict(l, e[1]) # "pending"

\* A call that ran was recorded, its batch is not pending any more, and the
\* step goes on after it.
RanFits(l, place, s, rn) ==
    /\ rn \in Seq(Nat \X Nat \X ToolCalls)
    /\ \A i \in 1 .. Len(rn) : RecordedRun(l, rn[i])
    /\ \A i, j \in 1 .. Len(rn) : rn[i][1] = rn[j][1] /\ rn[i][2] = rn[j][2] => i = j
    /\ place \in Working => \A i \in 1 .. Len(rn) : rn[i][1] = s.t => rn[i][2] < Len(s.outs)

Gaps(l) == {f \in FullAt(l) : l[f].src \in {"model", "user"} /\ ~HasSnapshot(l, l[f].t)}

At == {"idle", "exec", "result", "verdict", "infer"}

Inv ==
    /\ Journal(log)
    /\ at \in At /\ step \in Step
    /\ steps \in 0 .. MaxSteps /\ crashes \in 0 .. MaxCrashes
    /\ Fits(log, at, step)
    /\ RanFits(log, at, step, ran)
    /\ Cardinality(Gaps(log)) <= crashes

LEMMA RanKept ==
    ASSUME NEW l, NEW m, Journal(l), Keeps(l, m), NEW rn,
           NEW place, NEW s, RanFits(l, place, s, rn)
    PROVE  \A i \in 1 .. Len(rn) : RecordedRun(m, rn[i])
<1> SUFFICES ASSUME NEW i \in 1 .. Len(rn) PROVE RecordedRun(m, rn[i])
  OBVIOUS
<1>1. RecordedRun(l, rn[i])
  BY DEF RanFits
<1>2. PICK f \in FullAt(l) : /\ l[f].t = rn[i][1]
                             /\ rn[i][2] + 1 \in DOMAIN l[f].calls
                             /\ rn[i][3] = l[f].calls[rn[i][2] + 1]
  BY <1>1 DEF RecordedRun
<1>3. f \in FullAt(m) /\ m[f] = l[f] /\ Verdict(m, rn[i][1]) # "pending"
  BY <1>1, <1>2 DEF RecordedRun, Keeps
<1> QED
  BY <1>2, <1>3 DEF RecordedRun

\* Only new transitions can be new gaps.
LEMMA GapsGrow ==
    ASSUME NEW l, NEW m, Journal(l), Keeps(l, m), NEW x, FullAt(m) \subseteq FullAt(l) \cup {x}
    PROVE  /\ Cardinality(Gaps(l)) \in Nat /\ Cardinality(Gaps(m)) \in Nat
           /\ Cardinality(Gaps(m)) <= Cardinality(Gaps(l)) + 1
           /\ x \notin Gaps(m) => Cardinality(Gaps(m)) <= Cardinality(Gaps(l))
<1>1. IsFiniteSet(Gaps(l))
  <2>1. IsFiniteSet(FullAt(l)) /\ Gaps(l) \in SUBSET FullAt(l)
    BY Places DEF Journal, Gaps
  <2> QED
    BY <2>1, FS_Subset
<1>2. Gaps(m) \subseteq Gaps(l) \cup {x}
  BY DEF Gaps, Keeps
<1>3. /\ Cardinality(Gaps(l)) \in Nat /\ IsFiniteSet(Gaps(l) \cup {x})
      /\ Cardinality(Gaps(l) \cup {x}) <= Cardinality(Gaps(l)) + 1
  <2>1. Cardinality(Gaps(l)) \in Nat
    BY <1>1, FS_CardinalityType
  <2>2. /\ IsFiniteSet(Gaps(l) \cup {x})
        /\ Cardinality(Gaps(l) \cup {x}) =
              IF x \in Gaps(l) THEN Cardinality(Gaps(l)) ELSE Cardinality(Gaps(l)) + 1
    BY <1>1, FS_AddElement
  <2> QED
    BY <2>1, <2>2
<1>4. IsFiniteSet(Gaps(m)) /\ Cardinality(Gaps(m)) <= Cardinality(Gaps(l) \cup {x})
  BY <1>2, <1>3, FS_Subset
<1>5. ASSUME x \notin Gaps(m) PROVE Cardinality(Gaps(m)) <= Cardinality(Gaps(l))
  <2>1. Gaps(m) \in SUBSET Gaps(l)
    BY <1>2, <1>5
  <2> QED
    BY <1>1, <2>1, FS_Subset
<1>6. Cardinality(Gaps(m)) \in Nat /\ Cardinality(Gaps(l) \cup {x}) \in Nat
  BY <1>3, <1>4, FS_CardinalityType
<1> QED
  BY <1>3, <1>4, <1>5, <1>6

LEMMA NoStepTyped == NoStep \in Step /\ ~NoStep.returned
<1>1. <<>> \in Seq(ToolStatuses)
  BY EmptySeq
<1> QED
  BY <1>1 DEF NoStep, Step, Lists

\* A step that writes records, at whichever of them the process dies.
LEMMA WritesKeep ==
    ASSUME Inv, NEW rs, NEW T, Good(log, rs, T), NEW x, T \subseteq {x},
           NEW place \in At, NEW next \in Step, Writes(rs, place, next),
           ran' = ran, steps' \in 0 .. MaxSteps,
           Fits(log \o rs, place, next),
           place \in Working => \A i \in 1 .. Len(ran) :
                                   ran[i][1] = next.t => ran[i][2] < Len(next.outs),
           \A f \in FullAt(log \o rs) \ FullAt(log) : f \notin Gaps(log \o rs)
    PROVE  Inv' /\ Keeps(log, log')
<1> DEFINE m == log \o rs
<1>1. /\ Journal(log) /\ Journal(m) /\ Keeps(log, m) /\ FullAt(m) \subseteq FullAt(log) \cup {x}
      /\ RanFits(log, at, step, ran)
      /\ Cardinality(Gaps(log)) <= crashes /\ crashes \in 0 .. MaxCrashes
  BY GoodEnd DEF Inv
<1>2. CASE log' = m /\ at' = place /\ step' = next /\ crashes' = crashes
  <2>1. \A i \in 1 .. Len(ran) : RecordedRun(m, ran[i])
    BY <1>1, RanKept
  <2>2. RanFits(m, place, next, ran)
    BY <1>1, <2>1 DEF RanFits
  <2>3. /\ Cardinality(Gaps(m)) \in Nat /\ Cardinality(Gaps(log)) \in Nat
        /\ Cardinality(Gaps(m)) <= Cardinality(Gaps(log))
    <3>1. x \in Gaps(m) => x \in FullAt(log)
      BY DEF Gaps
    <3>2. CASE x \notin Gaps(m)
      BY <1>1, <3>2, GapsGrow
    <3>3. CASE x \in FullAt(log)
      <4>1. FullAt(m) \subseteq FullAt(log) \cup {-1}
        BY <1>1, <3>3
      <4>2. -1 \notin Gaps(m)
        BY <1>1, Places DEF Gaps, Journal
      <4> QED
        BY <1>1, <4>1, <4>2, GapsGrow
    <3> QED
      BY <3>1, <3>2, <3>3
  <2>4. Cardinality(Gaps(m)) <= crashes
    BY <1>1, <2>3
  <2> HIDE DEF m
  <2>5. Fits(m, place, next)
    BY DEF m
  <2> QED
    BY <1>1, <1>2, <2>2, <2>4, <2>5 DEF Inv
<1>3. ASSUME NEW k \in 0 .. Len(rs), log' = log \o SubSeq(rs, 1, k), at' = "idle",
             step' = NoStep, crashes < MaxCrashes, crashes' = crashes + 1
      PROVE  Inv' /\ Keeps(log, log')
  <2>1. Journal(log') /\ Keeps(log, log') /\ FullAt(log') \subseteq FullAt(log) \cup {x}
    BY <1>3 DEF Good, After
  <2>2. \A i \in 1 .. Len(ran) : RecordedRun(log', ran[i])
    BY <1>1, <2>1, RanKept
  <2>3. RanFits(log', "idle", NoStep, ran)
    BY <1>1, <2>2 DEF RanFits, Working
  <2>4. Cardinality(Gaps(log')) <= crashes + 1 /\ crashes + 1 \in 0 .. MaxCrashes
    <3>1. /\ Cardinality(Gaps(log)) \in Nat /\ Cardinality(Gaps(log')) \in Nat
          /\ Cardinality(Gaps(log')) <= Cardinality(Gaps(log)) + 1
      BY <1>1, <2>1, GapsGrow
    <3>2. MaxCrashes \in Nat
      BY StateStepAssumption
    <3> QED
      BY <1>1, <1>3, <3>1, <3>2
  <2>5. Fits(log', "idle", NoStep)
    BY NoStepTyped DEF Fits, Working
  <2> QED
    BY <1>3, <2>1, <2>3, <2>4, <2>5, NoStepTyped DEF Inv, At
<1> QED
  BY <1>2, <1>3 DEF Writes

-----------------------------------------------------------------------------
(* Lists of one, two and three records.                                    *)

LEMMA Lists3 ==
    ASSUME NEW rs \in Journals, NEW a \in Record, NEW b \in Record, NEW c \in Record
    PROVE  /\ rs \o <<a>> = Append(rs, a)
           /\ rs \o <<a, b>> = Append(Append(rs, a), b)
           /\ rs \o <<a, b, c>> = Append(Append(Append(rs, a), b), c)
<1>0. rs \in Seq(Record)
  BY DEF Journals
<1>1. rs \o <<a>> = Append(rs, a)
  BY <1>0, AppendIsConcat
<1>2. rs \o <<a, b>> = Append(Append(rs, a), b)
  BY <1>0
<1>3. rs \o <<a, b, c>> = Append(Append(Append(rs, a), b), c)
  BY <1>0
<1> QED
  BY <1>1, <1>2, <1>3

LEMMA GoodOne ==
    ASSUME NEW l, Journal(l), NEW r \in Record, r.k # "transition", May(l, r)
    PROVE  /\ Good(l, <<r>>, {}) /\ l \o <<r>> = Append(l, r)
           /\ Journal(Append(l, r)) /\ Keeps(l, Append(l, r))
           /\ FullAt(Append(l, r)) = FullAt(l)
<1> DEFINE none == <<>>
<1>1. Good(l, none, {}) /\ l \o none = l
  BY GoodNone
<1>2. <<r>> = Append(none, r)
  OBVIOUS
<1> HIDE DEF none
<1>3. May(l \o none, r)
  BY <1>1
<1>4. l \o Append(none, r) = Append(l \o none, r) /\ Good(l, Append(none, r), {})
  BY <1>1, <1>3, GoodRecord
<1>5. l \o <<r>> = Append(l, r) /\ Good(l, <<r>>, {})
  BY <1>1, <1>2, <1>4
<1>6. Journal(Append(l, r)) /\ Keeps(l, Append(l, r))
  BY <1>5, GoodEnd
<1>7. FullAt(Append(l, r)) = FullAt(l)
  BY AppendedPlaces DEF Journal
<1> QED
  BY <1>5, <1>6, <1>7

-----------------------------------------------------------------------------
(* What a step writes before anything new.                                 *)

LEMMA RecordsTyped ==
    /\ \A t \in Nat : Snapshot(t) \in Record /\ Observation(t) \in Record
    /\ \A t \in Nat, st \in Ends \cup {"running"} : StatusOf(t, st) \in Record
    /\ \A t \in Nat, i \in Nat, st \in ToolStatuses \cup {"indeterminate"} : Result(t, i, st) \in Record
  BY DEF Record, Snapshot, Observation, StatusOf, Result, Ends

LEMMA NamedIsNat == ASSUME NEW l, Journal(l), NEW f \in FullAt(l) PROVE l[f].t \in Nat
<1>1. l \in Journals /\ f \in 1 .. Len(l)
  BY Places DEF Journal
<1> QED
  BY <1>1, RecordTyped DEF Journals

\* An empty journal has nothing open; else what is open is the newest.
LEMMA OpenIsLatest ==
    ASSUME NEW l, Journal(l), NEW f \in FullAt(l), Verdict(l, l[f].t) \in Open
    PROVE  Transitions(l) # {} /\ Latest(l).st = Verdict(l, l[f].t) /\ Latest(l).t = l[f].t
<1>1. Transitions(l) # {}
  BY Places DEF Journal
<1>2. Latest(l).t = l[f].t
  BY DEF Journal, OneOpen
<1> QED
  BY <1>1, <1>2, LatestNamed

LEMMA SeedGood ==
    ASSUME Journal(log), NEW args
    PROVE  /\ Good(log, Seed(args), {})
           /\ FullAt(log \o Seed(args)) = FullAt(log)
           /\ \A f \in FullAt(log) : Verdict(log \o Seed(args), log[f].t) = Verdict(log, log[f].t)
           /\ \A t : Outcomes(log \o Seed(args), t) = Outcomes(log, t)
<1>0. Good(log, <<>>, {}) /\ log \o <<>> = log
  BY GoodNone
<1>1. CASE args.seeds
  <2> DEFINE r == Snapshot(SeedId)
  <2>1. r \in Record /\ r.k = "snapshot" /\ r.t = SeedId
    BY RecordsTyped DEF Snapshot, SeedId
  <2>2. MayNote(log, r) /\ May(log, r)
    BY <2>1 DEF MayNote, May
  <2>3. Seed(args) = <<r>>
    BY <1>1 DEF Seed
  <2> HIDE DEF r
  <2>4. r.k # "transition"
    BY <2>1
  <2>5. Good(log, <<r>>, {}) /\ log \o <<r>> = Append(log, r)
    BY <2>1, <2>2, <2>4, GoodOne
  <2>6. log \o Seed(args) = Append(log, r)
    BY <2>3, <2>5
  <2> QED
    BY <2>1, <2>2, <2>3, <2>5, <2>6, NoteAdmitted
<1>2. CASE ~args.seeds
  <2>1. Seed(args) = <<>>
    BY <1>2 DEF Seed
  <2> QED
    BY <1>0, <2>1
<1> QED
  BY <1>1, <1>2

\* After it nothing is open, and the transitions are the same.
LEMMA PreludeGood ==
    ASSUME Journal(log), NEW args
    PROVE  /\ Good(log, Prelude(args), {})
           /\ FullAt(log \o Prelude(args)) = FullAt(log)
           /\ \A f \in FullAt(log) : (log \o Prelude(args))[f] = log[f]
           /\ \A f \in FullAt(log) : Verdict(log \o Prelude(args), log[f].t) \notin Open
           /\ Fresh(log \o Prelude(args)) = Fresh(log)
<1> DEFINE seed == Seed(args)
           l == log \o seed
<1>0. /\ Good(log, seed, {}) /\ Journal(l) /\ Keeps(log, l) /\ seed \in Journals
      /\ FullAt(l) = FullAt(log)
      /\ \A f \in FullAt(log) : Verdict(l, log[f].t) = Verdict(log, log[f].t)
  BY SeedGood, GoodEnd
<1>1. CASE HasPending
  <2> DEFINE t == Latest(log).t
             r == StatusOf(t, "cancelled")
  <2>1. PICK f \in FullAt(log) : log[f].t = t /\ Verdict(log, t) \in Open
    BY <1>1, LatestNamed DEF HasPending, Open
  <2>2. r \in Record /\ r.k = "status" /\ r.t = t /\ r.st = "cancelled"
    BY <2>1, NamedIsNat, RecordsTyped DEF StatusOf, Ends
  <2>3. f \in FullAt(l) /\ l[f] = log[f] /\ Verdict(l, r.t) \in Open
    BY <1>0, <2>1, <2>2 DEF Keeps
  <2>4. MayStatus(l, r) /\ May(l, r)
    BY <2>1, <2>2, <2>3 DEF MayStatus, May
  <2>5. Prelude(args) = Append(seed, r)
    <3>1. Prelude(args) = seed \o <<r>>
      BY <1>1 DEF Prelude
    <3> QED
      BY <1>0, <2>2, <3>1, AppendIsConcat DEF Journals
  <2> HIDE DEF r, t, seed
  <2>6. Good(log, Append(seed, r), {}) /\ log \o Append(seed, r) = Append(l, r)
    BY <1>0, <2>2, <2>4, GoodRecord
  <2>7. /\ FullAt(Append(l, r)) = FullAt(l) /\ Keeps(l, Append(l, r))
        /\ Verdict(Append(l, r), r.t) = "cancelled"
        /\ \A g \in FullAt(l) : Verdict(Append(l, r), l[g].t) \in Open => l[g].t = r.t
    BY <1>0, <2>2, <2>4, StatusAdmitted
  <2>8. Keeps(log, Append(l, r))
    BY <1>0, <2>7, KeepsOn
  <2>9. \A g \in FullAt(log) : Verdict(Append(l, r), log[g].t) \notin Open
    BY <1>0, <2>7 DEF Keeps, Open
  <2> QED
    BY <1>0, <2>5, <2>6, <2>7, <2>8, <2>9 DEF Keeps, Fresh
<1>2. CASE ~HasPending
  <2>1. Prelude(args) = seed
    <3>1. Prelude(args) = seed \o <<>>
      BY <1>2 DEF Prelude
    <3> QED
      BY <1>0, <3>1, ConcatEmptySeq DEF Journals
  <2>2. ASSUME NEW f \in FullAt(log) PROVE Verdict(log, log[f].t) \notin Open
    BY <1>2, OpenIsLatest DEF HasPending, Open
  <2> QED
    BY <1>0, <2>1, <2>2 DEF Keeps, Fresh
<1> QED
  BY <1>1, <1>2

-----------------------------------------------------------------------------
(* The steps.                                                              *)

Outcome == Inv' /\ Keeps(log, log')

\* What every branch of step_state has in common.
Called == at = "idle" /\ ran' = ran /\ steps' \in 0 .. MaxSteps

\* A write without a new transition that ends the call.
LEMMA EndsCall ==
    ASSUME Inv, NEW rs, Good(log, rs, {}), NEW place \in {"idle", "infer"},
           Writes(rs, place, NoStep), ran' = ran, steps' \in 0 .. MaxSteps,
           FullAt(log \o rs) = FullAt(log),
           place = "infer" => \A f \in FullAt(log \o rs) : Verdict(log \o rs, (log \o rs)[f].t) \notin Open
    PROVE  Outcome
<1>1. place \in At /\ NoStep \in Step /\ ~NoStep.returned /\ place \notin Working
  BY NoStepTyped DEF At, Working
<1>2. Fits(log \o rs, place, NoStep)
  BY <1>1 DEF Fits, Working
<1>3. {} \subseteq {0}
  OBVIOUS
<1> QED
  BY <1>1, <1>2, <1>3, WritesKeep DEF Outcome

LEMMA ReportTerminalKeeps ==
    ASSUME Inv, Called, NEW args, ReportTerminal(args) PROVE Outcome
<1>1. Good(log, Seed(args), {}) /\ FullAt(log \o Seed(args)) = FullAt(log)
  BY SeedGood DEF Inv
<1> QED
  BY <1>1, EndsCall DEF ReportTerminal, Called

LEMMA GiveUpRunningKeeps ==
    ASSUME Inv, Called, NEW args, GiveUpRunning(args) PROVE Outcome
<1> DEFINE r == StatusOf(Latest(log).t, "indeterminate")
<1>1. Transitions(log) # {} /\ Latest(log).st = "running"
  BY DEF GiveUpRunning, Kept, HasPending
<1>2. PICK f \in FullAt(log) : log[f].t = Latest(log).t /\ Verdict(log, log[f].t) = "running"
  BY <1>1, LatestNamed DEF Inv
<1>3. /\ r \in Record /\ r.k = "status" /\ r.t = log[f].t /\ r.st = "indeterminate"
  BY <1>2, NamedIsNat, RecordsTyped DEF StatusOf, Ends, Inv
<1>4. Writes(<<r>>, "idle", NoStep)
  BY DEF GiveUpRunning
<1> HIDE DEF r
<1>5. May(log, r)
  BY <1>2, <1>3 DEF May, MayStatus, Open
<1>6. Good(log, <<r>>, {}) /\ log \o <<r>> = Append(log, r) /\ FullAt(Append(log, r)) = FullAt(log)
  BY <1>3, <1>5, GoodOne DEF Inv
<1> QED
  BY <1>4, <1>6, EndsCall DEF Called

LEMMA StartInferenceKeeps ==
    ASSUME Inv, Called, NEW args, StartInference(args) PROVE Outcome
<1>1. /\ Good(log, Prelude(args), {}) /\ FullAt(log \o Prelude(args)) = FullAt(log)
      /\ \A f \in FullAt(log) : (log \o Prelude(args))[f] = log[f]
      /\ \A f \in FullAt(log) : Verdict(log \o Prelude(args), log[f].t) \notin Open
  BY PreludeGood DEF Inv
<1> QED
  BY <1>1, EndsCall DEF StartInference, Called

LEMMA InferFailsKeeps == ASSUME Inv, InferFails PROVE Outcome
<1>1. Good(log, <<>>, {}) /\ log \o <<>> = log
  BY GoodNone DEF Inv
<1>2. steps' \in 0 .. MaxSteps /\ ran' = ran
  BY DEF Inv, InferFails
<1> QED
  BY <1>1, <1>2, EndsCall DEF InferFails

LEMMA ArgsTyped ==
    ASSUME NEW args \in Args
    PROVE  /\ args.shown => args.session
           /\ args.calls \in Lists /\ args.coe \in BOOLEAN /\ args.shown \in BOOLEAN
           /\ args.digest \in Digests \cup {NoDigest}
  BY DEF Args, CliArgs, ApiArgs, UserArgs, Arg

LEMMA RunningTyped ==
    ASSUME NEW t \in Nat, NEW batch \in Lists, NEW coe \in BOOLEAN
    PROVE  /\ Running(t, batch, coe) \in Step
           /\ Running(t, batch, coe).t = t /\ Running(t, batch, coe).batch = batch
           /\ Running(t, batch, coe).outs = <<>> /\ ~Running(t, batch, coe).returned
<1>1. <<>> \in Seq(ToolStatuses)
  BY EmptySeq
<1> QED
  BY <1>1 DEF Running, NoStep, Step

LEMMA NoOutcomes ==
    ASSUME NEW l, Journal(l), NEW t, Results(l, t) = {} PROVE Outcomes(l, t) = <<>>
<1>1. Count(l, t) = 0
  BY FS_EmptySet DEF Count
<1>2. Outcomes(l, t) \in Seq(Ends)
  BY DEF Journal, Listed
<1>3. DOMAIN Outcomes(l, t) = 1 .. 0
  BY <1>1 DEF Outcomes
<1> QED
  BY <1>2, <1>3

\* A batch that starts: its transition is recorded, nothing of it is.
LEMMA Starts ==
    ASSUME NEW l, Journal(l), NEW f \in FullAt(l), NEW coe \in BOOLEAN, NEW batch,
           batch = l[f].calls, batch # <<>>,
           Verdict(l, l[f].t) = "running", Outcomes(l, l[f].t) = <<>>
    PROVE  /\ Running(l[f].t, batch, coe) \in Step
           /\ Running(l[f].t, batch, coe).t = l[f].t
           /\ Fits(l, "exec", Running(l[f].t, batch, coe))
<1>1. l[f].t \in Nat /\ l[f] \in Record /\ l[f].k = "transition"
  BY NamedIsNat, Places DEF FullAt, Journal, Journals
<1>2. batch \in Lists /\ batch \in Seq(ToolCalls)
  BY <1>1, RecordTyped, CallsTyped
<1> DEFINE s == Running(l[f].t, batch, coe)
<1>3. s \in Step /\ s.t = l[f].t /\ s.batch = batch /\ s.outs = <<>> /\ ~s.returned
  BY <1>1, <1>2, RunningTyped
<1>4. Len(<<>>) = 0 /\ Len(batch) \in Nat /\ Len(batch) > 0
  BY <1>2
<1> HIDE DEF s
<1>5. Fits(l, "exec", s)
  BY <1>3, <1>4 DEF Fits, Working
<1> QED
  BY <1>3, <1>5 DEF s

LEMMA RunPendingKeeps ==
    ASSUME Inv, Called, NEW args \in Args, RunPending(args) PROVE Outcome
<1> DEFINE t == Latest(log).t
           r == StatusOf(t, "running")
           batch == IF args.shown THEN args.calls ELSE Latest(log).calls
           coe == args.coe \/ Latest(log).coe
<1>0. Journal(log) /\ RanFits(log, at, step, ran)
  BY DEF Inv
<1>1. Transitions(log) # {} /\ Latest(log).st = "pending" /\ ~Stale(args)
  BY DEF RunPending, Kept, HasPending
<1>2. Latest(log) \in Record /\ Says(Latest(log)) /\ Latest(log).k = "transition"
  <2>1. Latest(log) \in Record /\ Says(Latest(log))
    BY <1>0, <1>1, LatestNamed
  <2> QED
    BY <1>1, <2>1, RecordTyped DEF Says, Ends
<1>3. PICK f \in FullAt(log) : log[f] = Latest(log) /\ Verdict(log, t) = "pending"
  BY <1>0, <1>1, <1>2, LatestNamed
<1>4. batch = log[f].calls
  BY <1>1, <1>2, <1>3, ArgsTyped DEF Stale
<1>5. coe \in BOOLEAN
  BY <1>2, RecordTyped, ArgsTyped
<1>6. batch # <<>> /\ Results(log, t) = {}
  BY <1>0, <1>3, <1>4 DEF Journal, Batch, Open
<1>7. r \in Record /\ r.k = "status" /\ r.t = t /\ r.st = "running"
  BY <1>0, <1>3, NamedIsNat, RecordsTyped DEF StatusOf
<1>8. Writes(<<r>>, "exec", Running(t, batch, coe))
  BY DEF RunPending
<1> HIDE DEF r, batch, coe
<1>9. MayStatus(log, r) /\ May(log, r)
  BY <1>3, <1>7 DEF May, MayStatus, Open
<1> DEFINE m == Append(log, r)
<1>10. /\ Good(log, <<r>>, {}) /\ log \o <<r>> = m /\ FullAt(m) = FullAt(log)
       /\ Journal(m) /\ Keeps(log, m)
  BY <1>0, <1>7, <1>9, GoodOne
<1>11. Verdict(m, t) = "running" /\ Outcomes(m, t) = <<>>
  BY <1>0, <1>6, <1>7, <1>9, StatusAdmitted, NoOutcomes
<1> HIDE DEF m
<1>12. f \in FullAt(m) /\ m[f] = log[f] /\ m[f].t = t
  BY <1>3, <1>10 DEF Keeps
<1>13. /\ Running(t, batch, coe) \in Step /\ Running(t, batch, coe).t = t
       /\ Fits(m, "exec", Running(t, batch, coe))
  BY <1>4, <1>5, <1>6, <1>10, <1>11, <1>12, Starts
<1>14. ASSUME NEW i \in 1 .. Len(ran), ran[i][1] = t PROVE FALSE
  BY <1>0, <1>3, <1>14 DEF RanFits, RecordedRun
<1> DEFINE next == Running(t, batch, coe)
<1>15. /\ next \in Step /\ next.t = t /\ Fits(log \o <<r>>, "exec", next)
       /\ Writes(<<r>>, "exec", next)
  BY <1>8, <1>10, <1>13
<1>16. \A i \in 1 .. Len(ran) : ran[i][1] # next.t
  BY <1>14, <1>15
<1>17. \A g \in FullAt(log \o <<r>>) \ FullAt(log) : g \notin Gaps(log \o <<r>>)
  BY <1>10
<1>18. {} \subseteq {0} /\ "exec" \in At
  BY DEF At
<1> HIDE DEF t, next
<1> QED
  BY <1>10, <1>15, <1>16, <1>17, <1>18, WritesKeep DEF Outcome, Called

-----------------------------------------------------------------------------
(* The steps that write a transition.                                      *)

LEMMA TransitionTyped ==
    ASSUME NEW t \in Nat, NEW src \in {"model", "operator", "user", "none"},
           NEW st \in {"pending", "running", "completed", "failed"}, NEW calls \in Lists,
           NEW coe \in BOOLEAN, NEW digest \in Digests \cup {NoDigest}, NEW complete \in BOOLEAN
    PROVE  [k |-> "transition", t |-> t, src |-> src, st |-> st, calls |-> calls,
            coe |-> coe, digest |-> digest, complete |-> complete] \in Record
  BY DEF Record, Lists

\* A new transition at the end of what was written before.
LEMMA Opens ==
    ASSUME Journal(log), NEW rs, Good(log, rs, {}), FullAt(log \o rs) = FullAt(log),
           NEW r \in Record, MayTransition(log \o rs, r)
    PROVE  /\ Good(log, Append(rs, r), {Len(log \o rs) + 1})
           /\ log \o Append(rs, r) = Append(log \o rs, r)
           /\ Journal(Append(log \o rs, r)) /\ rs \in Journals
           /\ FullAt(Append(log \o rs, r)) = FullAt(log) \cup {Len(log \o rs) + 1}
           /\ Append(log \o rs, r)[Len(log \o rs) + 1] = r
           /\ Verdict(Append(log \o rs, r), r.t) = r.st
           /\ Outcomes(Append(log \o rs, r), r.t) = <<>>
<1> DEFINE l == log \o rs
<1>1. Journal(l) /\ rs \in Journals
  BY GoodEnd
<1>2. /\ log \o Append(rs, r) = Append(l, r)
      /\ Good(log, Append(rs, r), {} \cup {Len(l) + 1})
  BY GoodTransition
<1>3. {} \cup {Len(l) + 1} = {Len(l) + 1}
  OBVIOUS
<1>4. Good(log, Append(rs, r), {Len(l) + 1})
  BY <1>2, <1>3
<1> HIDE DEF l
<1>5. /\ Journal(Append(l, r)) /\ FullAt(Append(l, r)) = FullAt(l) \cup {Len(l) + 1}
      /\ Append(l, r)[Len(l) + 1] = r
      /\ Verdict(Append(l, r), r.t) = r.st /\ Outcomes(Append(l, r), r.t) = <<>>
  BY <1>1, TransitionAdmitted DEF l
<1> QED
  BY <1>1, <1>2, <1>4, <1>5 DEF l

\* No call that ran belongs to a transition that is still to be written.
LEMMA RanIsOld ==
    ASSUME Inv, NEW i \in 1 .. Len(ran) PROVE ran[i][1] # Fresh(log)
<1>1. RecordedRun(log, ran[i]) /\ Journal(log)
  BY DEF Inv, RanFits
<1>2. PICK f \in FullAt(log) : log[f].t = ran[i][1]
  BY <1>1 DEF RecordedRun
<1>3. log[f].t \in 1 .. Fresh(log) - 1 /\ Fresh(log) \in Nat
  BY <1>1, FreshIsFree
<1> QED
  BY <1>2, <1>3

LEMMA InferInvalidKeeps == ASSUME Inv, InferInvalid PROVE Outcome
<1> DEFINE r == Transition(Fresh(log), "none", "failed", <<>>, Plain)
           none == <<>>
<1>0. Journal(log) /\ Fits(log, "infer", step) /\ steps' \in 0 .. MaxSteps /\ ran' = ran
  BY DEF Inv, InferInvalid
<1>1. Fresh(log) \in Nat
  BY <1>0, FreshIsFree
<1>2. r \in Record
  BY <1>1, TransitionTyped DEF Transition, Plain, Lists
<1>3. r.k = "transition" /\ r.t = Fresh(log) /\ r.src = "none" /\ r.st = "failed" /\ r.calls = <<>>
  BY DEF Transition
<1>4. Writes(Append(none, r), "idle", NoStep)
  BY DEF InferInvalid
<1>5. Good(log, none, {}) /\ log \o none = log
  BY <1>0, GoodNone
<1> HIDE DEF r, none
<1>6. MayTransition(log, r)
  BY <1>0, <1>3 DEF MayTransition, Fits, Open
<1> DEFINE m == Append(log, r)
           x == Len(log) + 1
<1>7. /\ Good(log, Append(none, r), {x}) /\ log \o Append(none, r) = m
      /\ FullAt(m) = FullAt(log) \cup {x} /\ m[x] = r
  <2>1. MayTransition(log \o none, r) /\ FullAt(log \o none) = FullAt(log)
    BY <1>5, <1>6
  <2> QED
    BY <1>0, <1>2, <1>5, <2>1, Opens
<1> HIDE DEF m, x
<1>8. \A f \in FullAt(m) \ FullAt(log) : f \notin Gaps(m)
  BY <1>3, <1>7 DEF Gaps
<1>9. Fits(m, "idle", NoStep)
  BY NoStepTyped DEF Fits, Working
<1>10. "idle" \in At /\ "idle" \notin Working /\ NoStep \in Step /\ {x} \subseteq {x}
  BY NoStepTyped DEF At, Working
<1> QED
  BY <1>0, <1>4, <1>7, <1>8, <1>9, <1>10, WritesKeep DEF Outcome

\* A transition with its snapshot, and with its observation.
WithState(rs, r) == Append(Append(rs, r), Snapshot(r.t))
WithBoth(rs, r) == Append(WithState(rs, r), Observation(r.t))

Accounted(m, x, r) ==
    /\ Journal(m)
    /\ FullAt(m) = FullAt(log) \cup {x} /\ m[x] = r
    /\ Verdict(m, r.t) = r.st /\ Outcomes(m, r.t) = <<>> /\ HasSnapshot(m, r.t)

LEMMA NoteAccounted ==
    ASSUME NEW m, NEW x, NEW r, Accounted(m, x, r), NEW n \in Record,
           MayNote(m, n), n.t = r.t
    PROVE  Accounted(Append(m, n), x, r)
<1>1. Journal(m) /\ x \in FullAt(m) /\ m[x] = r
  BY DEF Accounted
<1>2. /\ Journal(Append(m, n)) /\ Keeps(m, Append(m, n)) /\ FullAt(Append(m, n)) = FullAt(m)
      /\ \A f \in FullAt(m) : Verdict(Append(m, n), m[f].t) = Verdict(m, m[f].t)
      /\ Outcomes(Append(m, n), r.t) = Outcomes(m, r.t)
  BY <1>1, NoteAdmitted
<1> QED
  BY <1>1, <1>2 DEF Accounted, Keeps

LEMMA OpensWithState ==
    ASSUME Journal(log), NEW rs, Good(log, rs, {}), FullAt(log \o rs) = FullAt(log),
           NEW r \in Record, MayTransition(log \o rs, r)
    PROVE  /\ Good(log, WithState(rs, r), {Len(log \o rs) + 1})
           /\ Accounted(log \o WithState(rs, r), Len(log \o rs) + 1, r)
<1> DEFINE x == Len(log \o rs) + 1
           one == Append(rs, r)
           l == log \o one
           n == Snapshot(r.t)
<1>1. /\ Good(log, one, {x}) /\ l = Append(log \o rs, r)
      /\ Journal(l) /\ FullAt(l) = FullAt(log) \cup {x} /\ l[x] = r
      /\ Verdict(l, r.t) = r.st /\ Outcomes(l, r.t) = <<>>
  BY Opens
<1>2. n \in Record /\ n.k = "snapshot" /\ n.t = r.t
  BY RecordTyped, RecordsTyped DEF Snapshot
<1> HIDE DEF x, one, n
<1>3. MayNote(l, n) /\ May(l, n)
  BY <1>1, <1>2 DEF May, MayNote, Named
<1>4. log \o Append(one, n) = Append(l, n) /\ Good(log, Append(one, n), {x})
  BY <1>1, <1>2, <1>3, GoodRecord
<1> HIDE DEF l
<1>5. /\ Journal(Append(l, n)) /\ FullAt(Append(l, n)) = FullAt(l) /\ Append(l, n)[x] = r
      /\ Verdict(Append(l, n), r.t) = r.st
      /\ Outcomes(Append(l, n), r.t) = <<>>
  <2>1. x \in FullAt(l) /\ l[x].t = r.t
    BY <1>1
  <2>2. /\ Journal(Append(l, n)) /\ FullAt(Append(l, n)) = FullAt(l) /\ Keeps(l, Append(l, n))
        /\ \A f \in FullAt(l) : Verdict(Append(l, n), l[f].t) = Verdict(l, l[f].t)
        /\ Outcomes(Append(l, n), r.t) = Outcomes(l, r.t)
    BY <1>1, <1>2, <1>3, NoteAdmitted
  <2> QED
    BY <1>1, <2>1, <2>2 DEF Keeps
<1>6. HasSnapshot(Append(l, n), r.t)
  BY <1>1, <1>2, SnapshotsKept DEF Journal
<1>7. Accounted(Append(l, n), x, r)
  BY <1>1, <1>5, <1>6 DEF Accounted
<1> QED
  BY <1>4, <1>7 DEF x, one, n, l, WithState

LEMMA OpensWithBoth ==
    ASSUME Journal(log), NEW rs, Good(log, rs, {}), FullAt(log \o rs) = FullAt(log),
           NEW r \in Record, MayTransition(log \o rs, r)
    PROVE  /\ Good(log, WithBoth(rs, r), {Len(log \o rs) + 1})
           /\ Accounted(log \o WithBoth(rs, r), Len(log \o rs) + 1, r)
           /\ Observed(log \o WithBoth(rs, r), r.t)
<1> DEFINE x == Len(log \o rs) + 1
           two == WithState(rs, r)
           l == log \o two
           n == Observation(r.t)
<1>1. Good(log, two, {x}) /\ Accounted(l, x, r)
  BY OpensWithState
<1>2. n \in Record /\ n.k = "observation" /\ n.t = r.t
  BY RecordTyped, RecordsTyped DEF Observation
<1> HIDE DEF x, two, n
<1>3. MayNote(l, n) /\ May(l, n) /\ l \in Journals
  BY <1>1, <1>2 DEF May, MayNote, Named, Accounted, Journal
<1>4. log \o Append(two, n) = Append(l, n) /\ Good(log, Append(two, n), {x})
  BY <1>1, <1>2, <1>3, GoodRecord
<1> HIDE DEF l
<1>5. Accounted(Append(l, n), x, r) /\ Observed(Append(l, n), r.t)
  BY <1>1, <1>2, <1>3, NoteAccounted, SnapshotsKept
<1> QED
  BY <1>4, <1>5 DEF x, two, n, l, WithBoth

LEMMA RecordsState ==
    ASSUME Inv, NEW rs, NEW x, NEW r, Good(log, rs, {x}), Accounted(log \o rs, x, r),
           NEW place \in At, NEW next \in Step, Writes(rs, place, next),
           ran' = ran, steps' \in 0 .. MaxSteps, Fits(log \o rs, place, next),
           place \in Working => next.t = Fresh(log)
    PROVE  Outcome
<1> DEFINE m == log \o rs
<1>1. FullAt(m) = FullAt(log) \cup {x} /\ m[x] = r /\ HasSnapshot(m, r.t)
  BY DEF Accounted
<1> HIDE DEF m
<1>2. \A f \in FullAt(m) \ FullAt(log) : f \notin Gaps(m)
  BY <1>1 DEF Gaps
<1>3. place \in Working => \A i \in 1 .. Len(ran) : ran[i][1] # next.t
  BY RanIsOld
<1>4. {x} \subseteq {x}
  OBVIOUS
<1> QED
  BY <1>2, <1>3, <1>4, WritesKeep DEF Outcome, m

LEMMA InferAcceptedKeeps == ASSUME Inv, InferAccepted PROVE Outcome
<1>0. /\ Journal(log) /\ Fits(log, "infer", step)
      /\ steps' \in 0 .. MaxSteps /\ ran' = ran
  BY DEF Inv, InferAccepted
<1>1. PICK calls \in Lists, complete \in BOOLEAN, coe \in BOOLEAN :
        Writes(<<Transition(Fresh(log), "model",
                            IF calls = <<>> THEN "completed" ELSE "pending",
                            calls, [Plain EXCEPT !.coe = coe, !.complete = complete]),
                 Snapshot(Fresh(log)), Observation(Fresh(log))>>, "idle", NoStep)
  BY DEF InferAccepted
<1> DEFINE st == IF calls = <<>> THEN "completed" ELSE "pending"
           r == Transition(Fresh(log), "model", st, calls,
                           [Plain EXCEPT !.coe = coe, !.complete = complete])
           none == <<>>
<1>2. Fresh(log) \in Nat /\ st \in {"completed", "pending"}
  BY <1>0, FreshIsFree
<1>3. r \in Record
  <2>1. r = [k |-> "transition", t |-> Fresh(log), src |-> "model", st |-> st, calls |-> calls,
             coe |-> coe, digest |-> NoDigest, complete |-> complete]
    BY DEF Transition, Plain
  <2> HIDE DEF r, st
  <2> QED
    BY <1>2, <2>1, TransitionTyped
<1>4. /\ r.k = "transition" /\ r.t = Fresh(log) /\ r.src = "model" /\ r.calls = calls
      /\ r.st = "completed" => r.calls = <<>>
      /\ r.st \in Open => r.calls # <<>>
  <2>1. /\ r.k = "transition" /\ r.t = Fresh(log) /\ r.src = "model" /\ r.calls = calls
        /\ r.st = st
    BY DEF Transition
  <2>2. (st = "completed" => calls = <<>>) /\ (st \in Open => calls # <<>>)
    BY DEF Open
  <2> HIDE DEF r, st
  <2> QED
    BY <2>1, <2>2
<1>5. none \in Journals /\ Good(log, none, {}) /\ log \o none = log
  BY <1>0, GoodNone, EmptySeq DEF Journals
<1>6. Writes(WithBoth(none, r), "idle", NoStep)
  <2> DEFINE a == Snapshot(r.t)
             b == Observation(r.t)
  <2>1. Writes(<<r, a, b>>, "idle", NoStep)
    BY <1>1, <1>4
  <2>2. WithBoth(none, r) = Append(Append(Append(none, r), a), b)
    BY DEF WithBoth, WithState
  <2>3. a \in Record /\ b \in Record
    BY <1>2, <1>4, RecordsTyped
  <2> HIDE DEF r, a, b
  <2>4. <<r, a, b>> \in Seq(Record) /\ none \o <<r, a, b>> = <<r, a, b>>
    <3>1. <<r, a, b>> \in Seq(Record)
      BY <1>3, <2>3
    <3> QED
      BY <3>1, ConcatEmptySeq
  <2>5. none \o <<r, a, b>> = Append(Append(Append(none, r), a), b)
    <3> HIDE DEF none
    <3> QED
      BY <1>3, <1>5, <2>3, Lists3
  <2> QED
    BY <2>1, <2>2, <2>4, <2>5
<1> HIDE DEF r, none
<1>7. MayTransition(log \o none, r) /\ FullAt(log \o none) = FullAt(log)
  BY <1>0, <1>4, <1>5 DEF MayTransition, Fits
<1>8. /\ Good(log, WithBoth(none, r), {Len(log \o none) + 1})
      /\ Accounted(log \o WithBoth(none, r), Len(log \o none) + 1, r)
  BY <1>0, <1>3, <1>5, <1>7, OpensWithBoth
<1>9. Fits(log \o WithBoth(none, r), "idle", NoStep)
  BY NoStepTyped DEF Fits, Working
<1>10. "idle" \in At /\ "idle" \notin Working /\ NoStep \in Step
  BY NoStepTyped DEF At, Working
<1> QED
  BY <1>0, <1>6, <1>8, <1>9, <1>10, RecordsState

\* Nothing is open after the prelude: the next transition may follow.
LEMMA PreludeThen ==
    ASSUME Journal(log), NEW args, NEW r \in Record,
           r.k = "transition", r.t = Fresh(log),
           r.st \in Open => r.calls # <<>>,
           r.st = "completed" => r.calls = <<>>,
           r.src = "user" => r.st # "pending",
           r.src = "user" => \A f \in FullAt(log) : ~(log[f].src = "user" /\ log[f].digest = r.digest)
    PROVE  /\ Good(log, Prelude(args), {}) /\ FullAt(log \o Prelude(args)) = FullAt(log)
           /\ MayTransition(log \o Prelude(args), r)
           /\ Prelude(args) \in Journals
<1> DEFINE rs == Prelude(args)
           l == log \o rs
<1>1. /\ Good(log, rs, {}) /\ FullAt(l) = FullAt(log)
      /\ \A f \in FullAt(log) : l[f] = log[f]
      /\ \A f \in FullAt(log) : Verdict(l, log[f].t) \notin Open
      /\ Fresh(l) = Fresh(log)
  BY PreludeGood
<1>2. rs \in Journals
  BY <1>1, GoodEnd
<1> HIDE DEF rs, l
<1>3. MayTransition(l, r)
  BY <1>1 DEF MayTransition
<1> QED
  BY <1>1, <1>2, <1>3 DEF rs, l

LEMMA RunOperatorBatchKeeps ==
    ASSUME Inv, Called, NEW args \in Args, RunOperatorBatch(args) PROVE Outcome
<1> DEFINE r == Transition(Fresh(log), "operator", "pending", args.calls,
                           [Plain EXCEPT !.coe = args.coe])
           s == StatusOf(Fresh(log), "running")
           rs == Prelude(args)
           next == Running(Fresh(log), args.calls, args.coe)
           x == Len(log \o rs) + 1
<1>0. Journal(log) /\ ran' = ran /\ steps' \in 0 .. MaxSteps
  BY DEF Inv, Called
<1>1. args.calls # <<>> /\ args.calls \in Lists /\ args.coe \in BOOLEAN /\ Fresh(log) \in Nat
  BY <1>0, ArgsTyped, FreshIsFree DEF RunOperatorBatch, HasBatch
<1>2. r \in Record
  <2>1. r = [k |-> "transition", t |-> Fresh(log), src |-> "operator", st |-> "pending",
             calls |-> args.calls, coe |-> args.coe, digest |-> NoDigest, complete |-> FALSE]
    BY DEF Transition, Plain
  <2> HIDE DEF r
  <2> QED
    BY <1>1, <2>1, TransitionTyped
<1>3. /\ r.k = "transition" /\ r.t = Fresh(log) /\ r.src = "operator" /\ r.st = "pending"
      /\ r.calls = args.calls
  BY DEF Transition
<1>4. s \in Record /\ s.k = "status" /\ s.t = Fresh(log) /\ s.st = "running"
  BY <1>1, RecordsTyped DEF StatusOf
<1>5. Writes(rs \o <<r, s>>, "exec", next)
  BY DEF RunOperatorBatch
<1> HIDE DEF r, s
<1>6. /\ Good(log, rs, {}) /\ FullAt(log \o rs) = FullAt(log) /\ rs \in Journals
      /\ MayTransition(log \o rs, r)
  BY <1>0, <1>1, <1>2, <1>3, PreludeThen DEF Open
<1>7. rs \o <<r, s>> = Append(Append(rs, r), s)
  BY <1>2, <1>4, <1>6, Lists3
<1> DEFINE one == Append(rs, r)
           l == log \o one
           m == Append(l, s)
<1>8. /\ Good(log, one, {x}) /\ Journal(l)
      /\ FullAt(l) = FullAt(log) \cup {x} /\ l[x] = r
      /\ Verdict(l, r.t) = "pending" /\ Outcomes(l, r.t) = <<>>
  <2> DEFINE n == Append(log \o rs, r)
  <2>1. /\ Good(log, one, {x}) /\ l = n
        /\ Journal(n) /\ FullAt(n) = FullAt(log) \cup {x} /\ n[x] = r
        /\ Verdict(n, r.t) = r.st /\ Outcomes(n, r.t) = <<>>
    BY <1>0, <1>2, <1>6, Opens
  <2> HIDE DEF n, l, one, x
  <2> QED
    BY <1>3, <2>1
<1> HIDE DEF one, l, rs, x
<1>9. MayStatus(l, s) /\ May(l, s)
  BY <1>3, <1>4, <1>8 DEF May, MayStatus, Open
<1>10. Good(log, Append(one, s), {x}) /\ log \o Append(one, s) = m
  <2>1. s.k # "transition" /\ May(log \o one, s)
    BY <1>4, <1>9 DEF l
  <2>2. log \o Append(one, s) = Append(log \o one, s) /\ Good(log, Append(one, s), {x})
    BY <1>0, <1>4, <1>8, <2>1, GoodRecord
  <2> QED
    BY <2>2 DEF l
<1>11. /\ Journal(m) /\ Keeps(l, m) /\ FullAt(m) = FullAt(l)
       /\ Verdict(m, s.t) = s.st /\ Outcomes(m, r.t) = Outcomes(l, r.t)
  BY <1>4, <1>8, <1>9, StatusAdmitted
<1> HIDE DEF m
<1>12. /\ x \in FullAt(m) /\ m[x] = r
       /\ Verdict(m, Fresh(log)) = "running" /\ Outcomes(m, Fresh(log)) = <<>>
  BY <1>3, <1>4, <1>8, <1>11 DEF Keeps
<1>13. next \in Step /\ next.t = Fresh(log) /\ Fits(m, "exec", next)
  <2>1. m[x].t = Fresh(log) /\ args.calls = m[x].calls
    BY <1>3, <1>12
  <2> QED
    BY <1>1, <1>11, <1>12, <2>1, Starts
<1>14. \A f \in FullAt(m) \ FullAt(log) : f \notin Gaps(m)
  BY <1>3, <1>8, <1>11, <1>12 DEF Gaps
<1>15. \A i \in 1 .. Len(ran) : ran[i][1] # next.t
  BY <1>13, RanIsOld
<1>16. Writes(Append(one, s), "exec", next)
  BY <1>5, <1>7 DEF one, rs
<1> HIDE DEF next
<1>17. "exec" \in At /\ {x} \subseteq {x}
  BY DEF At
<1> QED
  BY <1>0, <1>10, <1>13, <1>14, <1>15, <1>16, <1>17, WritesKeep DEF Outcome

\* The records of a new state, as one list.
LEMMA StateRecords ==
    ASSUME NEW rs \in Journals, NEW r \in Record
    PROVE  /\ rs \o <<r, Snapshot(r.t)>> \o <<>> = WithState(rs, r)
           /\ rs \o <<r, Snapshot(r.t)>> \o <<Observation(r.t)>> = WithBoth(rs, r)
<1> DEFINE a == Snapshot(r.t)
           b == Observation(r.t)
           two == WithState(rs, r)
<1>1. a \in Record /\ b \in Record
  BY RecordTyped, RecordsTyped
<1> HIDE DEF a, b
<1>2. rs \o <<r, a>> = two /\ two \in Journals
  <2>1. rs \o <<r, a>> = Append(Append(rs, r), a)
    BY <1>1, Lists3
  <2>2. Append(Append(rs, r), a) \in Journals
    BY <1>1, AppendProperties DEF Journals
  <2> QED
    BY <2>1, <2>2 DEF WithState, a
<1> HIDE DEF two
<1>3. two \o <<>> = two
  BY <1>2, ConcatEmptySeq DEF Journals
<1>4. two \o <<b>> = Append(two, b)
  BY <1>1, <1>2, Lists3
<1> QED
  BY <1>2, <1>3, <1>4 DEF WithBoth, a, b, two

LEMMA ReturnedTyped ==
    ASSUME NEW t \in Nat
    PROVE  ReturnedUser(t) \in Step /\ ReturnedUser(t).t = t /\ ReturnedUser(t).returned
<1>1. <<>> \in Seq(ToolStatuses)
  BY EmptySeq
<1> QED
  BY <1>1 DEF ReturnedUser, NoStep, Step, Lists

LEMMA ConsolidateUserKeeps ==
    ASSUME Inv, Called, NEW args \in Args, ConsolidateUser(args) PROVE Outcome
<1> DEFINE none == args.calls = <<>>
           st == IF none THEN "completed" ELSE "running"
           r == Transition(Fresh(log), "user", st, args.calls, [Plain EXCEPT !.digest = args.digest])
           rs == Prelude(args)
           x == Len(log \o rs) + 1
<1>0. Journal(log) /\ ran' = ran /\ steps' \in 0 .. MaxSteps
  BY DEF Inv, Called
<1>1. /\ args.calls \in Lists /\ args.coe \in BOOLEAN /\ args.digest \in Digests \cup {NoDigest}
      /\ Fresh(log) \in Nat
  BY <1>0, ArgsTyped, FreshIsFree
<1>2. \A f \in FullAt(log) : ~(log[f].src = "user" /\ log[f].digest = args.digest)
  BY DEF ConsolidateUser, Due, Known, Origins
<1>3. r = [k |-> "transition", t |-> Fresh(log), src |-> "user", st |-> st, calls |-> args.calls,
           coe |-> FALSE, digest |-> args.digest, complete |-> FALSE]
  BY DEF Transition, Plain
<1>4. Writes(rs \o <<r, Snapshot(Fresh(log))>> \o (IF none THEN <<Observation(Fresh(log))>> ELSE <<>>),
             IF none THEN "idle" ELSE "exec",
             IF none THEN ReturnedUser(Fresh(log))
             ELSE Running(Fresh(log), args.calls, args.coe))
  BY DEF ConsolidateUser
<1> HIDE DEF r
<1>5. r \in Record
  <2>1. st \in {"pending", "running", "completed", "failed"}
    OBVIOUS
  <2> HIDE DEF st
  <2> QED
    BY <1>1, <1>3, <2>1, TransitionTyped
<1>6. r.k = "transition" /\ r.t = Fresh(log) /\ r.src = "user" /\ r.st = st
      /\ r.calls = args.calls /\ r.digest = args.digest
  BY <1>3
<1>7. /\ Good(log, rs, {}) /\ FullAt(log \o rs) = FullAt(log)
      /\ MayTransition(log \o rs, r) /\ rs \in Journals
  BY <1>0, <1>2, <1>5, <1>6, PreludeThen DEF Open
<1> HIDE DEF rs
<1>8. CASE none
  <2> DEFINE m == log \o WithBoth(rs, r)
             next == ReturnedUser(Fresh(log))
  <2>1. /\ Good(log, WithBoth(rs, r), {x}) /\ Accounted(m, x, r) /\ Observed(m, r.t)
    BY <1>0, <1>5, <1>7, OpensWithBoth
  <2>2. Writes(WithBoth(rs, r), "idle", next)
    BY <1>4, <1>5, <1>6, <1>7, <1>8, StateRecords
  <2>3. next \in Step /\ next.t = Fresh(log) /\ next.returned
    BY <1>1, ReturnedTyped
  <2> HIDE DEF m, next, x
  <2>4. Fits(m, "idle", next)
    BY <1>6, <1>8, <2>1, <2>3 DEF Fits, Working, Accounted, Open
  <2>5. "idle" \in At /\ "idle" \notin Working
    BY DEF At, Working
  <2> QED
    BY <1>0, <2>1, <2>2, <2>3, <2>4, <2>5, RecordsState DEF m
<1>9. CASE ~none
  <2> DEFINE m == log \o WithState(rs, r)
             next == Running(Fresh(log), args.calls, args.coe)
  <2>1. /\ Good(log, WithState(rs, r), {x}) /\ Accounted(m, x, r)
    BY <1>0, <1>5, <1>7, OpensWithState
  <2>2. Writes(WithState(rs, r), "exec", next)
    BY <1>4, <1>5, <1>6, <1>7, <1>9, StateRecords
  <2> HIDE DEF m, x
  <2>3. next \in Step /\ next.t = Fresh(log) /\ Fits(m, "exec", next)
    <3>1. /\ Journal(m) /\ x \in FullAt(m) /\ m[x].t = Fresh(log) /\ args.calls = m[x].calls
          /\ Verdict(m, m[x].t) = "running" /\ Outcomes(m, m[x].t) = <<>>
      BY <1>6, <1>9, <2>1 DEF Accounted
    <3> QED
      BY <1>1, <1>9, <3>1, Starts
  <2> HIDE DEF next
  <2>4. "exec" \in At
    BY DEF At
  <2> QED
    BY <1>0, <2>1, <2>2, <2>3, <2>4, RecordsState DEF m
<1> QED
  BY <1>8, <1>9

-----------------------------------------------------------------------------
(* The verdict of a batch.                                                 *)

LEMMA OutcomesCount ==
    ASSUME NEW l, Journal(l), NEW t
    PROVE  /\ Outcomes(l, t) \in Seq(Ends) /\ Count(l, t) \in Nat
           /\ Len(Outcomes(l, t)) = Count(l, t)
<1>1. Outcomes(l, t) \in Seq(Ends)
  BY DEF Journal, Listed
<1>2. Count(l, t) \in Nat
  BY Places, FS_CardinalityType DEF Journal, Count
<1>3. DOMAIN Outcomes(l, t) = 1 .. Count(l, t)
  BY DEF Outcomes
<1> QED
  BY <1>1, <1>2, <1>3

\* The first outcome that is not completed.
LEMMA FirstNot ==
    ASSUME NEW outs \in Seq(Ends), ~AllCompleted(outs)
    PROVE  \E i \in 1 .. Len(outs) :
              outs[i] # "completed" /\ \A j \in 1 .. (i - 1) : outs[j] = "completed"
<1> DEFINE N == Len(outs)
           S == {i \in 1 .. N : outs[i] # "completed"}
           Upto(i) == 1 .. i
           Uptos == {Upto(i) : i \in S}
<1>0. N \in Nat /\ S # {}
  BY LenProperties DEF AllCompleted
<1>1. Uptos \subseteq FiniteSubsetsOf(1 .. N) /\ Uptos # {}
  <2>1. ASSUME NEW i \in S PROVE IsFiniteSet(Upto(i)) /\ Upto(i) \subseteq 1 .. N
    <3>1. i \in Int /\ N \in Int /\ i <= N
      BY <1>0
    <3>2. IsFiniteSet(Upto(i))
      BY <3>1, FS_Interval
    <3> QED
      BY <3>1, <3>2
  <2> QED
    BY <1>0, <2>1 DEF FiniteSubsetsOf
<1>2. PICK least \in Uptos : \A a \in Uptos : ~(<<a, least>> \in StrictSubsetOrdering(1 .. N))
  BY <1>1, FS_StrictSubsetOrderingWellFounded, WFMin
<1>3. PICK i \in S : least = Upto(i)
  OBVIOUS
<1>4. ASSUME NEW j \in 1 .. (i - 1) PROVE outs[j] = "completed"
  <2>1. SUFFICES ASSUME j \in S PROVE FALSE
    BY <1>0
  <2>2. Upto(j) \subseteq Upto(i) /\ i \in Upto(i) /\ i \notin Upto(j)
    BY <1>0
  <2>3. <<Upto(j), Upto(i)>> \in StrictSubsetOrdering(1 .. N)
    BY <1>0, <2>2 DEF StrictSubsetOrdering
  <2> QED
    BY <1>2, <1>3, <2>1, <2>3
<1> QED
  BY <1>4

LEMMA VerdictOfBatch ==
    ASSUME NEW outs \in Seq(Ends), NEW n
    PROVE  /\ BatchVerdict(outs, n) \in Ends
           /\ BatchVerdict(outs, n) = "completed" => Len(outs) = n /\ AllCompleted(outs)
<1>1. CASE AllCompleted(outs)
  BY <1>1 DEF BatchVerdict, Ends
<1>2. CASE ~AllCompleted(outs)
  <2> DEFINE first == CHOOSE i \in 1 .. Len(outs) :
                        outs[i] # "completed" /\ \A j \in 1 .. (i - 1) : outs[j] = "completed"
  <2>1. first \in 1 .. Len(outs) /\ outs[first] # "completed"
    BY <1>2, FirstNot
  <2>2. outs[first] \in Ends
    BY <2>1
  <2>3. BatchVerdict(outs, n) = outs[first]
    BY <1>2 DEF BatchVerdict
  <2> QED
    BY <2>1, <2>2, <2>3
<1> QED
  BY <1>1, <1>2

LEMMA EarnedBy ==
    ASSUME NEW l, Journal(l), NEW f \in FullAt(l), AllCompleted(Outcomes(l, l[f].t)),
           Len(Outcomes(l, l[f].t)) = Len(l[f].calls)
    PROVE  Earned(l, f)
<1>1. Count(l, l[f].t) = Len(l[f].calls)
  BY OutcomesCount
<1>2. ASSUME NEW i \in Results(l, l[f].t) PROVE l[i].st = "completed"
  BY DEF Journal, Listed, AllCompleted
<1> QED
  BY <1>1, <1>2 DEF Earned

\* A user turn is running or closed from its first record on.
LEMMA UserNotPending ==
    ASSUME NEW l, Journal(l), NEW f \in FullAt(l), l[f].src = "user"
    PROVE  Verdict(l, l[f].t) # "pending"
  BY DEF Journal, Batch

-----------------------------------------------------------------------------
(* A known user turn is resumed.                                           *)

\* Records that leave the transitions of the journal as they are.
Same(rs) == Good(log, rs, {}) /\ rs \in Journals /\ FullAt(log \o rs) = FullAt(log)

LEMMA SameThen ==
    ASSUME Journal(log), NEW rs, Same(rs), NEW r \in Record, r.k # "transition", May(log \o rs, r)
    PROVE  /\ Same(rs \o <<r>>)
           /\ log \o (rs \o <<r>>) = Append(log \o rs, r)
<1> DEFINE l == log \o rs
<1>1. Good(log, rs, {}) /\ rs \in Journals /\ FullAt(l) = FullAt(log) /\ Journal(l)
  BY GoodEnd DEF Same
<1>2. rs \o <<r>> = Append(rs, r) /\ Append(rs, r) \in Journals
  BY <1>1, AppendIsConcat, AppendProperties DEF Journals
<1>3. log \o Append(rs, r) = Append(l, r) /\ Good(log, Append(rs, r), {})
  BY <1>1, GoodRecord
<1> HIDE DEF l
<1>4. FullAt(Append(l, r)) = FullAt(l)
  BY <1>1, AppendedPlaces DEF Journal
<1> QED
  BY <1>1, <1>2, <1>3, <1>4 DEF Same, l

LEMMA SameNone == ASSUME Journal(log) PROVE Same(<<>>) /\ log \o <<>> = log
  BY GoodNone, EmptySeq DEF Same, Journals

LEMMA SameKeeps ==
    ASSUME Journal(log), NEW rs, Same(rs)
    PROVE  /\ Journal(log \o rs) /\ Keeps(log, log \o rs) /\ rs \o <<>> = rs
           /\ \A f \in FullAt(log) : (log \o rs)[f] = log[f]
  BY GoodEnd, ConcatEmptySeq DEF Same, Keeps, Journals

\* The call of a user turn ends with these records.
LEMMA UserEnds ==
    ASSUME Inv, NEW rs, Same(rs), NEW t \in Nat, Writes(rs, "idle", ReturnedUser(t)),
           ran' = ran, steps' \in 0 .. MaxSteps,
           Verdict(log \o rs, t) \notin Open, Observed(log \o rs, t)
    PROVE  Outcome
<1> DEFINE next == ReturnedUser(t)
<1>1. next \in Step /\ next.t = t /\ next.returned
  BY ReturnedTyped
<1> HIDE DEF next
<1>2. Fits(log \o rs, "idle", next)
  BY <1>1 DEF Fits, Working
<1>3. "idle" \in At /\ "idle" \notin Working /\ {} \subseteq {0}
  BY DEF At, Working
<1> QED
  BY <1>1, <1>2, <1>3, WritesKeep DEF Outcome, Same, next

\* The result an interrupted call is given.
LEMMA CutResult ==
    ASSUME Journal(log), NEW f \in FullAt(log), Verdict(log, log[f].t) = "running",
           Len(Outcomes(log, log[f].t)) < Len(log[f].calls)
    PROVE  LET r == Result(log[f].t, Len(Outcomes(log, log[f].t)), "indeterminate")
           IN  /\ Same(<<r>>) /\ Verdict(log \o <<r>>, log[f].t) = "running"
<1> DEFINE t == log[f].t
           r == Result(t, Len(Outcomes(log, t)), "indeterminate")
<1>1. t \in Nat /\ Len(Outcomes(log, t)) = Count(log, t) /\ Count(log, t) \in Nat
  BY NamedIsNat, OutcomesCount
<1>2. r \in Record /\ r.k = "result" /\ r.t = t /\ r.index = Count(log, t)
  BY <1>1, RecordsTyped DEF Result
<1> HIDE DEF r
<1>3. MayResult(log, r) /\ May(log, r)
  BY <1>1, <1>2 DEF May, MayResult
<1>4. /\ Good(log, <<r>>, {}) /\ log \o <<r>> = Append(log, r)
      /\ FullAt(Append(log, r)) = FullAt(log)
  BY <1>2, <1>3, GoodOne
<1>5. <<r>> \in Journals
  BY <1>4 DEF Good
<1>6. Verdict(Append(log, r), t) = "running"
  BY <1>2, <1>3, ResultAdmitted
<1> QED
  BY <1>4, <1>5, <1>6 DEF Same, r

\* The verdict and the observation of a turn that was left running.
LEMMA ClosesUser ==
    ASSUME Inv, NEW rs, Same(rs), NEW f \in FullAt(log), NEW t, t = log[f].t, NEW st \in Ends,
           Verdict(log \o rs, t) = "running",
           st = "completed" => Earned(log \o rs, f),
           Writes(rs \o <<StatusOf(t, st)>> \o <<Observation(t)>>, "idle", ReturnedUser(t)),
           ran' = ran, steps' \in 0 .. MaxSteps
    PROVE  Outcome
<1> DEFINE r == StatusOf(t, st)
           n == Observation(t)
           l == log \o rs
           two == rs \o <<r>>
           three == two \o <<n>>
<1>0. Journal(log) /\ Journal(l) /\ FullAt(l) = FullAt(log) /\ l[f] = log[f] /\ t \in Nat
  BY SameKeeps, NamedIsNat DEF Inv, Same
<1>1. r \in Record /\ r.k = "status" /\ r.t = t /\ r.st = st
  BY <1>0, RecordsTyped DEF StatusOf
<1>2. n \in Record /\ n.k = "observation" /\ n.t = t
  BY <1>0, RecordsTyped DEF Observation
<1> HIDE DEF r, n
<1>3. MayStatus(l, r) /\ May(l, r)
  BY <1>0, <1>1 DEF May, MayStatus, Open, Ends
<1>4. Same(two) /\ log \o two = Append(l, r)
  BY <1>0, <1>1, <1>3, SameThen
<1>5. Journal(Append(l, r)) /\ Keeps(l, Append(l, r)) /\ FullAt(Append(l, r)) = FullAt(l)
      /\ Verdict(Append(l, r), t) = st
  BY <1>0, <1>1, <1>3, StatusAdmitted
<1> DEFINE m == Append(l, r)
<1> HIDE DEF l, two, m
<1>6. /\ f \in FullAt(m) /\ m[f].t = t /\ Verdict(m, t) = st /\ Journal(m) /\ log \o two = m
      /\ m \in Journals
  BY <1>0, <1>4, <1>5 DEF Keeps, m, Journal
<1>7. MayNote(m, n) /\ May(m, n)
  BY <1>2, <1>6 DEF May, MayNote, Named
<1>8. Same(three) /\ log \o three = Append(m, n)
  <2>1. May(log \o two, n) /\ n.k # "transition"
    BY <1>2, <1>6, <1>7
  <2>2. Same(two \o <<n>>) /\ log \o (two \o <<n>>) = Append(log \o two, n)
    BY <1>0, <1>2, <1>4, <2>1, SameThen
  <2> QED
    BY <1>6, <2>2
<1>9. Verdict(Append(m, n), t) = st /\ Observed(Append(m, n), t)
  BY <1>2, <1>6, <1>7, NoteAdmitted, SnapshotsKept
<1>10. st \notin Open
  BY DEF Ends, Open
<1>11. Writes(three, "idle", ReturnedUser(t))
  BY DEF two, r, n
<1> HIDE DEF three
<1> QED
  BY <1>0, <1>8, <1>9, <1>10, <1>11, UserEnds

\* The latest transition of a digest is one of the journal's.
LEMMA OriginIs ==
    ASSUME Journal(log), NEW d, Origins(d) # {}
    PROVE  \E f \in FullAt(log) : log[f].t = Origin(d) /\ log[f].src = "user"
<1> DEFINE x == CHOOSE i \in Origins(d) : \A j \in Origins(d) : j <= i
<1>1. Len(log) \in Nat /\ Origins(d) \in SUBSET (1 .. Len(log))
  BY Places DEF Journal, Origins
<1>2. \E i \in Origins(d) : \A j \in Origins(d) : j <= i
  BY <1>1, Greatest
<1>3. x \in Origins(d)
  BY <1>2
<1>4. Origin(d) = log[x].t
  BY DEF Origin
<1> HIDE DEF x
<1> QED
  BY <1>3, <1>4 DEF Origins

LEMMA ResumeUserKeeps ==
    ASSUME Inv, Called, NEW args \in Args, ResumeUser(args) PROVE Outcome
<1> DEFINE t == Origin(args.digest)
           outs == Outcomes(log, t)
           open == Verdict(log, t) = "running"
           failed == outs # <<>> /\ outs[Len(outs)] # "completed"
           cut == open /\ ~failed /\ Len(outs) < Len(FullOf(log, t).calls)
           verdict == IF cut THEN "indeterminate"
                      ELSE IF failed THEN outs[Len(outs)]
                      ELSE BatchVerdict(outs, Len(outs))
           res == Result(t, Len(outs), "indeterminate")
           stat == StatusOf(t, verdict)
           obs == Observation(t)
           none == <<>>
<1>0. Journal(log) /\ ran' = ran /\ steps' \in 0 .. MaxSteps
  BY DEF Inv, Called
<1>1. Origins(args.digest) # {}
  BY DEF ResumeUser, Known
<1>2. PICK f \in FullAt(log) : log[f].t = t /\ log[f].src = "user"
  BY <1>0, <1>1, OriginIs
<1>3. FullOf(log, t) = log[f]
  BY <1>0, <1>2 DEF FullOf, Journal, Numbered
<1>4. /\ t \in Nat /\ outs \in Seq(Ends) /\ Len(outs) <= Len(log[f].calls) /\ Len(outs) \in Nat
      /\ Len(log[f].calls) \in Nat
  <2>1. t \in Nat
    BY <1>0, <1>2, NamedIsNat
  <2>2. outs \in Seq(Ends) /\ Len(outs) = Count(log, t) /\ Len(outs) \in Nat
    BY <1>0, OutcomesCount
  <2>3. Count(log, t) <= Len(log[f].calls)
    BY <1>0, <1>2 DEF Journal, Batch, Count
  <2>4. log[f] \in Record /\ log[f].k = "transition"
    BY <1>0, Places DEF FullAt, Journal, Journals
  <2>5. log[f].calls \in Seq(ToolCalls)
    BY <2>4, RecordTyped, CallsTyped
  <2> QED
    BY <2>1, <2>2, <2>3, <2>5
<1>5. Writes((IF cut THEN <<res>> ELSE none) \o (IF open THEN <<stat>> ELSE none)
             \o (IF open \/ ~Observed(log, t) THEN <<obs>> ELSE none),
             "idle", ReturnedUser(t))
  BY DEF ResumeUser
<1>6. /\ verdict \in Ends
      /\ verdict = "completed" => ~cut /\ ~failed /\ AllCompleted(outs)
  <2>1. CASE cut
    BY <2>1 DEF Ends
  <2>2. CASE ~cut /\ failed
    <3>1. Len(outs) \in 1 .. Len(outs)
      BY <1>4, <2>2
    <3> QED
      BY <1>4, <2>2, <3>1
  <2>3. CASE ~cut /\ ~failed
    BY <1>4, <2>3, VerdictOfBatch
  <2> QED
    BY <2>1, <2>2, <2>3
<1>7. cut <=> (open /\ ~failed /\ Len(outs) < Len(log[f].calls))
  BY <1>3
<1>8. cut => verdict = "indeterminate"
  OBVIOUS
<1>9. Same(none) /\ log \o none = log /\ none \o none = none /\ \A x \in Journals : none \o x = x
  BY <1>0, SameNone, ConcatEmptySeq DEF Journals
<1> HIDE DEF verdict, failed, cut, none, stat, res, obs, outs
<1>10. CASE open /\ cut
  <2>1. Same(<<res>>) /\ Verdict(log \o <<res>>, t) = "running"
    <3>1. Len(Outcomes(log, log[f].t)) < Len(log[f].calls) /\ Verdict(log, log[f].t) = "running"
      BY <1>2, <1>7, <1>10 DEF outs
    <3> QED
      BY <1>0, <1>2, <3>1, CutResult DEF res, outs
  <2>2. Writes(<<res>> \o <<stat>> \o <<obs>>, "idle", ReturnedUser(t))
    BY <1>5, <1>10
  <2>3. verdict # "completed"
    BY <1>8, <1>10
  <2> HIDE DEF t
  <2> QED
    BY <1>0, <1>2, <1>6, <2>1, <2>2, <2>3, ClosesUser DEF stat, obs
<1>11. CASE open /\ ~cut
  <2>1. Writes(none \o <<stat>> \o <<obs>>, "idle", ReturnedUser(t))
    BY <1>5, <1>11
  <2>2. verdict = "completed" => Earned(log \o none, f)
    <3>1. ASSUME verdict = "completed" PROVE Len(outs) = Len(log[f].calls) /\ AllCompleted(outs)
      BY <1>4, <1>6, <1>7, <1>11, <3>1
    <3> QED
      BY <1>0, <1>2, <1>9, <3>1, EarnedBy DEF outs
  <2>3. Verdict(log \o none, t) = "running"
    BY <1>9, <1>11
  <2> HIDE DEF t
  <2> QED
    BY <1>0, <1>2, <1>6, <1>9, <2>1, <2>2, <2>3, ClosesUser DEF stat, obs
<1>12. CASE ~open
  <2>1. ~cut /\ Verdict(log, t) \notin Open
    BY <1>0, <1>2, <1>7, <1>12, UserNotPending DEF Open
  <2>2. CASE Observed(log, t)
    <3>1. Writes(none, "idle", ReturnedUser(t))
      BY <1>5, <1>9, <1>12, <2>1, <2>2
    <3> HIDE DEF t
    <3> QED
      BY <1>0, <1>4, <1>9, <2>1, <2>2, <3>1, UserEnds
  <2>3. CASE ~Observed(log, t)
    <3>1. obs \in Record /\ obs.k = "observation" /\ obs.t = t
      BY <1>4, RecordsTyped DEF obs, Observation
    <3>2. <<obs>> \in Journals
      BY <3>1 DEF Journals
    <3>3. Writes(<<obs>>, "idle", ReturnedUser(t))
      BY <1>5, <1>9, <1>12, <2>1, <2>3, <3>2
    <3>4. MayNote(log, obs) /\ May(log, obs)
      BY <1>2, <3>1 DEF May, MayNote, Named
    <3>5. /\ Good(log, <<obs>>, {}) /\ log \o <<obs>> = Append(log, obs)
          /\ FullAt(Append(log, obs)) = FullAt(log)
      BY <1>0, <3>1, <3>4, GoodOne
    <3>6. Same(<<obs>>)
      BY <3>2, <3>5 DEF Same
    <3>7. Verdict(Append(log, obs), t) \notin Open /\ Observed(Append(log, obs), t)
      BY <1>0, <1>2, <2>1, <3>1, <3>4, NoteAdmitted, SnapshotsKept DEF Journal
    <3> HIDE DEF t
    <3> QED
      BY <1>0, <1>4, <3>3, <3>5, <3>6, <3>7, UserEnds
  <2> QED
    BY <2>2, <2>3
<1> QED
  BY <1>10, <1>11, <1>12

-----------------------------------------------------------------------------
(* The batch.                                                              *)

LEMMA ExecuteCallKeeps == ASSUME Inv, ExecuteCall PROVE Outcome
<1>0. /\ Journal(log) /\ at = "exec" /\ step \in Step /\ Fits(log, "exec", step)
      /\ RanFits(log, "exec", step, ran)
  BY DEF Inv, ExecuteCall
<1>1. PICK st \in ToolStatuses :
        step' = [step EXCEPT
                   !.outs = Append(step.outs, st),
                   !.changed = step.changed \/ (st = "completed" /\ Call \in Labelled)]
  BY DEF ExecuteCall
<1>2. /\ step.t \in Nat /\ step.batch \in Lists /\ step.outs \in Seq(ToolStatuses)
      /\ ~step.returned
      /\ Verdict(log, step.t) = "running" /\ step.outs = Outcomes(log, step.t)
      /\ Len(step.outs) < Len(step.batch)
  BY <1>0 DEF Fits, Step, Working
<1>3. PICK f \in FullAt(log) : log[f].t = step.t /\ step.batch = log[f].calls
  BY <1>0 DEF Fits, Working
<1>4. /\ step.batch \in Seq(ToolCalls) /\ Len(step.outs) \in Nat /\ Len(step.batch) \in Nat
      /\ Len(step.outs) + 1 \in DOMAIN step.batch /\ Call \in ToolCalls
  BY <1>2, CallsTyped DEF Call
<1>5. /\ step' \in Step /\ step'.t = step.t /\ step'.batch = step.batch /\ ~step'.returned
      /\ step'.outs = Append(step.outs, st) /\ Len(step'.outs) = Len(step.outs) + 1
  <2> DEFINE more == Append(step.outs, st)
             ch == step.changed \/ (st = "completed" /\ Call \in Labelled)
  <2>1. more \in Seq(ToolStatuses) /\ Len(more) = Len(step.outs) + 1
    BY <1>2, AppendProperties
  <2>2. ch \in BOOLEAN
    OBVIOUS
  <2>3. step' = [step EXCEPT !.outs = more, !.changed = ch]
    BY <1>1
  <2> HIDE DEF more, ch
  <2>4. /\ step'.t = step.t /\ step'.batch = step.batch /\ step'.returned = step.returned
        /\ step'.outs = more
    BY <1>0, <2>3 DEF Step
  <2>5. step' \in Step
    BY <1>0, <2>1, <2>2, <2>3 DEF Step
  <2> QED
    BY <1>2, <2>1, <2>4, <2>5 DEF more
<1>6. Fits(log, "result", step')
  BY <1>2, <1>3, <1>4, <1>5 DEF Fits, Working
<1> DEFINE e == <<step.t, Len(step.outs), Call>>
           n == Len(ran) + 1
<1>7. /\ e \in Nat \X Nat \X ToolCalls /\ e[1] = step.t /\ e[2] = Len(step.outs) /\ e[3] = Call
  BY <1>2, <1>4
<1>8. ran' = Append(ran, e)
  BY DEF ExecuteCall
<1> HIDE DEF e
<1>9. /\ ran \in Seq(Nat \X Nat \X ToolCalls) /\ Len(ran) \in Nat
      /\ ran' \in Seq(Nat \X Nat \X ToolCalls) /\ Len(ran') = n
      /\ \A i \in 1 .. Len(ran) : ran'[i] = ran[i]
      /\ ran'[n] = e
  BY <1>0, <1>7, <1>8, AppendProperties DEF RanFits
<1>10. RecordedRun(log, e)
  BY <1>2, <1>3, <1>4, <1>7 DEF RecordedRun, Call
<1>11. 1 .. Len(ran') = 1 .. Len(ran) \cup {n}
  BY <1>9
<1>12. \A i \in 1 .. Len(ran) : ran[i][1] = step.t => ran[i][2] < Len(step.outs)
  BY <1>0 DEF RanFits, Working
<1>13. \A i \in 1 .. Len(ran) : ran[i][2] \in Nat
  <2>1. \A i \in 1 .. Len(ran) : ran[i] \in Nat \X Nat \X ToolCalls
    BY <1>9, ElementOfSeq
  <2> QED
    BY <2>1
<1> HIDE DEF n
<1>14. RanFits(log, "result", step', ran')
  <2>1. \A i \in 1 .. Len(ran') : RecordedRun(log, ran'[i])
    BY <1>0, <1>9, <1>10, <1>11 DEF RanFits
  <2>2. \A i, j \in 1 .. Len(ran') : ran'[i][1] = ran'[j][1] /\ ran'[i][2] = ran'[j][2] => i = j
    <3>1. ASSUME NEW i \in 1 .. Len(ran), ran'[i][1] = ran'[n][1], ran'[i][2] = ran'[n][2]
          PROVE  FALSE
      <4>1. ran[i][1] = step.t /\ ran[i][2] = Len(step.outs)
        BY <1>7, <1>9, <3>1
      <4>2. ran[i][2] < Len(step.outs)
        BY <1>12, <4>1
      <4> QED
        BY <1>4, <4>1, <4>2
    <3>2. \A i, j \in 1 .. Len(ran) : ran'[i][1] = ran'[j][1] /\ ran'[i][2] = ran'[j][2] => i = j
      BY <1>0, <1>9 DEF RanFits
    <3> QED
      BY <1>11, <3>1, <3>2
  <2>3. \A i \in 1 .. Len(ran') : ran'[i][1] = step'.t => ran'[i][2] < Len(step'.outs)
    <3>1. ASSUME NEW i \in 1 .. Len(ran), ran'[i][1] = step'.t
          PROVE  ran'[i][2] < Len(step'.outs)
      <4>1. ran'[i] = ran[i] /\ ran[i][1] = step.t
        BY <1>5, <1>9, <3>1
      <4>2. ran[i][2] < Len(step.outs) /\ ran[i][2] \in Nat
        BY <1>12, <1>13, <4>1
      <4> QED
        BY <1>4, <1>5, <4>1, <4>2
    <3>2. ran'[n][2] < Len(step'.outs)
      BY <1>4, <1>5, <1>7, <1>9
    <3> QED
      BY <1>11, <3>1, <3>2
  <2> QED
    BY <1>9, <2>1, <2>2, <2>3 DEF RanFits
<1>15. at' = "result" /\ log' = log /\ steps' = steps /\ crashes' = crashes
  BY DEF ExecuteCall
<1> QED
  BY <1>5, <1>6, <1>14, <1>15, KeepsAll DEF Inv, At, Outcome

LEMMA LogResultKeeps == ASSUME Inv, LogResult PROVE Outcome
<1> DEFINE n == Len(step.outs)
           stop == step.outs[n] # "completed" /\ ~step.coe
           place == IF stop \/ n = Len(step.batch) THEN "verdict" ELSE "exec"
           r == Result(step.t, n - 1, step.outs[n])
           m == Append(log, r)
<1>0. /\ Journal(log) /\ step \in Step /\ Fits(log, "result", step)
      /\ RanFits(log, "result", step, ran) /\ ran' = ran /\ steps' \in 0 .. MaxSteps
  BY DEF Inv, LogResult
<1>1. /\ Verdict(log, step.t) = "running" /\ ~step.returned
      /\ n <= Len(step.batch) /\ step.t \in Nat /\ step.batch \in Lists
  BY <1>0 DEF Fits, Step, Working
<1>2. PICK f \in FullAt(log) : log[f].t = step.t /\ step.batch = log[f].calls
  BY <1>0 DEF Fits, Working
<1>3. PICK st \in ToolStatuses : step.outs = Append(Outcomes(log, step.t), st)
  BY <1>0 DEF Fits, Working
<1>4. /\ Count(log, step.t) \in Nat /\ n = Count(log, step.t) + 1 /\ step.outs[n] = st
      /\ Len(step.batch) \in Nat
  <2>1. /\ Outcomes(log, step.t) \in Seq(Ends) /\ Count(log, step.t) \in Nat
        /\ Len(Outcomes(log, step.t)) = Count(log, step.t)
    BY <1>0, OutcomesCount
  <2>2. st \in Ends
    BY StateStepAssumption DEF Ends
  <2>3. step.batch \in Seq(ToolCalls)
    BY <1>1, CallsTyped
  <2> QED
    BY <1>3, <2>1, <2>2, <2>3, AppendProperties
<1>5. r \in Record /\ r.k = "result" /\ r.t = step.t /\ r.index = Count(log, step.t) /\ r.st = st
  BY <1>1, <1>4, RecordsTyped DEF Result
<1>6. Writes(<<r>>, place, step)
  BY DEF LogResult
<1>7. place \in {"verdict", "exec"} /\ (place = "exec" => n # Len(step.batch))
  OBVIOUS
<1> HIDE DEF r, place
<1>8. MayResult(log, r) /\ May(log, r)
  BY <1>1, <1>2, <1>4, <1>5 DEF May, MayResult
<1>9. /\ Good(log, <<r>>, {}) /\ log \o <<r>> = m /\ FullAt(m) = FullAt(log)
      /\ Journal(m) /\ Keeps(log, m)
  BY <1>0, <1>5, <1>8, GoodOne
<1>10. Verdict(m, step.t) = "running" /\ Outcomes(m, step.t) = step.outs
  <2>1. /\ \A g \in FullAt(log) : Verdict(m, log[g].t) = Verdict(log, log[g].t)
        /\ Outcomes(m, r.t) = Append(Outcomes(log, r.t), r.st)
    BY <1>0, <1>5, <1>8, ResultAdmitted
  <2> QED
    BY <1>1, <1>2, <1>3, <1>5, <2>1
<1> HIDE DEF m
<1>11. f \in FullAt(m) /\ m[f].t = step.t /\ step.batch = m[f].calls
  BY <1>2, <1>9 DEF Keeps
<1>12. Fits(m, place, step)
  <2>1. n \in Nat /\ (place = "exec" => n < Len(step.batch))
    BY <1>1, <1>4, <1>7
  <2> QED
    BY <1>1, <1>7, <1>10, <1>11, <2>1 DEF Fits, Working
<1>13. \A i \in 1 .. Len(ran) : ran[i][1] = step.t => ran[i][2] < Len(step.outs)
  BY <1>0 DEF RanFits, Working
<1>14. \A g \in FullAt(log \o <<r>>) \ FullAt(log) : g \notin Gaps(log \o <<r>>)
  BY <1>9
<1>15. place \in At /\ {} \subseteq {0}
  BY <1>7 DEF At
<1> QED
  BY <1>0, <1>6, <1>9, <1>12, <1>13, <1>14, <1>15, WritesKeep DEF Outcome

\* A snapshot or an observation of the transition at f, after other records.
LEMMA NoteMore ==
    ASSUME Journal(log), NEW rs, Same(rs), NEW f \in FullAt(log), NEW n \in Record,
           n.k \in {"snapshot", "observation"}, n.t = log[f].t
    PROVE  /\ Same(rs \o <<n>>)
           /\ Verdict(log \o (rs \o <<n>>), log[f].t) = Verdict(log \o rs, log[f].t)
           /\ n.k = "observation" => Observed(log \o (rs \o <<n>>), log[f].t)
<1> DEFINE l == log \o rs
           t == log[f].t
<1>1. Journal(l) /\ FullAt(l) = FullAt(log) /\ l[f].t = t /\ l \in Journals
  BY SameKeeps DEF Same, Journal
<1> HIDE DEF l
<1>2. MayNote(l, n) /\ May(l, n) /\ n.k # "transition"
  BY <1>1 DEF May, MayNote, Named
<1>3. Same(rs \o <<n>>) /\ log \o (rs \o <<n>>) = Append(l, n)
  <2>1. May(log \o rs, n)
    BY <1>2 DEF l
  <2> QED
    BY <1>2, <2>1, SameThen DEF l
<1>4. Verdict(Append(l, n), t) = Verdict(l, t)
  BY <1>1, <1>2, NoteAdmitted
<1>5. n.k = "observation" => Observed(Append(l, n), t)
  BY <1>1, SnapshotsKept
<1> QED
  BY <1>3, <1>4, <1>5 DEF l

LEMMA FinishBatchKeeps == ASSUME Inv, FinishBatch PROVE Outcome
<1> DEFINE t == step.t
           user == FullOf(log, t).src = "user"
           verdict == BatchVerdict(step.outs, Len(step.batch))
           stat == StatusOf(t, verdict)
           snap == Snapshot(t)
           obs == Observation(t)
           none == <<>>
           two == <<stat>> \o (IF step.changed THEN <<snap>> ELSE none)
           three == two \o (IF user THEN <<obs>> ELSE none)
<1>0. /\ Journal(log) /\ step \in Step /\ Fits(log, "verdict", step)
      /\ ran' = ran /\ steps' \in 0 .. MaxSteps
  BY DEF Inv, FinishBatch
<1>1. Verdict(log, t) = "running" /\ step.outs = Outcomes(log, t) /\ t \in Nat
  BY <1>0 DEF Fits, Step, Working
<1>2. PICK f \in FullAt(log) : log[f].t = t /\ step.batch = log[f].calls
  BY <1>0 DEF Fits, Working
<1>3. Writes(three, "idle", IF user THEN ReturnedUser(t) ELSE NoStep)
  BY DEF FinishBatch
<1>4. verdict \in Ends /\ (verdict = "completed" => Earned(log, f))
  <2>1. step.outs \in Seq(Ends)
    BY <1>0, <1>1, OutcomesCount
  <2>2. verdict \in Ends /\ (verdict = "completed" =>
                               Len(step.outs) = Len(step.batch) /\ AllCompleted(step.outs))
    BY <2>1, VerdictOfBatch
  <2> HIDE DEF verdict
  <2>3. ASSUME verdict = "completed" PROVE Earned(log, f)
    BY <1>0, <1>1, <1>2, <2>2, <2>3, EarnedBy
  <2> QED
    BY <2>2, <2>3
<1> HIDE DEF verdict
<1>5. /\ stat \in Record /\ stat.k = "status" /\ stat.t = t /\ stat.st = verdict
      /\ snap \in Record /\ snap.k = "snapshot" /\ snap.t = t
      /\ obs \in Record /\ obs.k = "observation" /\ obs.t = t
  BY <1>1, <1>4, RecordsTyped DEF StatusOf, Snapshot, Observation
<1> HIDE DEF stat, snap, obs, none, user
<1>6. MayStatus(log, stat) /\ May(log, stat)
  BY <1>1, <1>2, <1>4, <1>5 DEF May, MayStatus, Open, Ends
<1>7. Same(<<stat>>) /\ Verdict(log \o <<stat>>, t) = verdict
  <2>1. /\ Good(log, <<stat>>, {}) /\ log \o <<stat>> = Append(log, stat)
        /\ FullAt(Append(log, stat)) = FullAt(log)
    BY <1>0, <1>5, <1>6, GoodOne
  <2>2. <<stat>> \in Journals
    BY <2>1 DEF Good
  <2>3. Verdict(Append(log, stat), stat.t) = stat.st
    BY <1>0, <1>5, <1>6, StatusAdmitted
  <2> QED
    BY <1>5, <2>1, <2>2, <2>3 DEF Same
<1>8. Same(two) /\ Verdict(log \o two, t) = verdict
  <2>1. CASE step.changed
    <3>1. two = <<stat>> \o <<snap>>
      BY <2>1
    <3>2. /\ Same(<<stat>> \o <<snap>>)
          /\ Verdict(log \o (<<stat>> \o <<snap>>), log[f].t) = Verdict(log \o <<stat>>, log[f].t)
      BY <1>0, <1>5, <1>7, <1>2, NoteMore
    <3> QED
      BY <1>2, <1>7, <3>1, <3>2
  <2>2. CASE ~step.changed
    <3>1. two = <<stat>>
      BY <1>0, <1>7, <2>2, SameKeeps DEF none
    <3> QED
      BY <1>7, <3>1
  <2> QED
    BY <2>1, <2>2
<1>9. verdict \notin Open
  BY <1>4 DEF Ends, Open
<1> HIDE DEF two
<1>10. CASE user
  <2>1. three = two \o <<obs>>
    BY <1>10
  <2>2. /\ Same(two \o <<obs>>)
        /\ Verdict(log \o (two \o <<obs>>), log[f].t) = Verdict(log \o two, log[f].t)
        /\ Observed(log \o (two \o <<obs>>), log[f].t)
    BY <1>0, <1>2, <1>5, <1>8, NoteMore
  <2>3. Writes(three, "idle", ReturnedUser(t))
    BY <1>3, <1>10
  <2>4. Same(three) /\ Verdict(log \o three, t) \notin Open /\ Observed(log \o three, t)
    BY <1>2, <1>8, <1>9, <2>1, <2>2
  <2> HIDE DEF three, t
  <2> QED
    BY <1>0, <1>1, <2>3, <2>4, UserEnds
<1>11. CASE ~user
  <2>1. three = two
    BY <1>0, <1>8, <1>11, SameKeeps DEF none
  <2>2. Writes(two, "idle", NoStep)
    BY <1>3, <1>11, <2>1
  <2>3. Good(log, two, {}) /\ FullAt(log \o two) = FullAt(log)
    BY <1>8 DEF Same
  <2> QED
    BY <1>0, <2>2, <2>3, EndsCall
<1> QED
  BY <1>10, <1>11

-----------------------------------------------------------------------------
(* The invariant holds, and what it says.                                  *)

LEMMA InitInv == Init => Inv
<1> SUFFICES ASSUME Init PROVE Inv
  OBVIOUS
<1> DEFINE none == <<>>
<1>1. log = none /\ at = "idle" /\ step = NoStep /\ steps = 0 /\ ran = none /\ crashes = 0
  BY DEF Init
<1>2. none \in Journals /\ none \in Seq(Nat \X Nat \X ToolCalls) /\ 1 .. Len(none) = {}
  BY EmptySeq DEF Journals
<1> HIDE DEF none
<1>3. FullAt(none) = {} /\ \A t : Results(none, t) = {}
  BY <1>2 DEF FullAt, Results
<1>4. ASSUME NEW t PROVE Listed(none, t)
  <2>1. Count(none, t) = 0 /\ Cardinality({}) = 0
    BY <1>3, FS_EmptySet DEF Count
  <2>2. Outcomes(none, t) = <<>>
    <3>1. Outcomes(none, t) = [n \in {} |-> Nth(none, Results(none, t), n).st]
      BY <2>1 DEF Outcomes
    <3>2. <<>> = [n \in {} |-> Nth(none, Results(none, t), n).st]
      OBVIOUS
    <3> QED
      BY <3>1, <3>2
  <2>3. Outcomes(none, t) \in Seq(Ends)
    BY <2>2, EmptySeq
  <2>4. 1 .. Cardinality({}) = {}
    BY <2>1
  <2> QED
    BY <1>3, <2>3, <2>4 DEF Listed, Ranked
<1>5. Journal(none)
  BY <1>2, <1>3, <1>4 DEF Journal, Numbered, Referring, OneOpen, OncePerDigest
<1>6. Fits(none, "idle", NoStep)
  BY NoStepTyped DEF Fits, Working
<1>7. RanFits(none, "idle", NoStep, none)
  BY <1>2 DEF RanFits, Working
<1>8. Gaps(none) = {} /\ Cardinality({}) = 0
  BY <1>3, FS_EmptySet DEF Gaps
<1>9. 0 \in 0 .. MaxSteps /\ 0 \in 0 .. MaxCrashes
  BY StateStepAssumption
<1> QED
  BY <1>1, <1>5, <1>6, <1>7, <1>8, <1>9, NoStepTyped DEF Inv, At

LEMMA StepStateKeeps == ASSUME Inv, StepState PROVE Outcome
<1>1. Called
  <2>1. steps \in 0 .. MaxSteps /\ steps < MaxSteps /\ steps' = steps + 1 /\ MaxSteps \in Nat
    BY StateStepAssumption DEF Inv, StepState
  <2> QED
    BY <2>1 DEF Called, StepState
<1>2. PICK args \in Args : \/ ResumeUser(args) \/ ReportTerminal(args) \/ GiveUpRunning(args)
                           \/ RunPending(args) \/ RunOperatorBatch(args)
                           \/ ConsolidateUser(args) \/ StartInference(args)
  BY DEF StepState
<1>3. CASE ResumeUser(args)
  BY <1>1, <1>3, ResumeUserKeeps
<1>4. CASE ReportTerminal(args)
  BY <1>1, <1>4, ReportTerminalKeeps
<1>5. CASE GiveUpRunning(args)
  BY <1>1, <1>5, GiveUpRunningKeeps
<1>6. CASE RunPending(args)
  BY <1>1, <1>6, RunPendingKeeps
<1>7. CASE RunOperatorBatch(args)
  BY <1>1, <1>7, RunOperatorBatchKeeps
<1>8. CASE ConsolidateUser(args)
  BY <1>1, <1>8, ConsolidateUserKeeps
<1>9. CASE StartInference(args)
  BY <1>1, <1>9, StartInferenceKeeps
<1> QED
  BY <1>2, <1>3, <1>4, <1>5, <1>6, <1>7, <1>8, <1>9

LEMMA NextKeeps == Inv /\ [Next]_vars => Inv' /\ Keeps(log, log')
<1> SUFFICES ASSUME Inv, [Next]_vars PROVE Outcome
  BY DEF Outcome
<1>1. CASE StepState
  BY <1>1, StepStateKeeps
<1>2. CASE ExecuteCall
  BY <1>2, ExecuteCallKeeps
<1>3. CASE LogResult
  BY <1>3, LogResultKeeps
<1>4. CASE FinishBatch
  BY <1>4, FinishBatchKeeps
<1>5. CASE InferFails
  BY <1>5, InferFailsKeeps
<1>6. CASE InferInvalid
  BY <1>6, InferInvalidKeeps
<1>7. CASE InferAccepted
  BY <1>7, InferAcceptedKeeps
<1>8. CASE UNCHANGED vars
  BY <1>8, KeepsAll DEF vars, Inv, Outcome
<1> QED
  BY <1>1, <1>2, <1>3, <1>4, <1>5, <1>6, <1>7, <1>8 DEF Next

LEMMA InvSound == Inv => RanSound /\ BatchesAccounted /\ StatesAccounted /\ TypeOK
<1> SUFFICES ASSUME Inv PROVE RanSound /\ BatchesAccounted /\ StatesAccounted /\ TypeOK
  OBVIOUS
<1>0. Journal(log) /\ RanFits(log, at, step, ran) /\ Fits(log, at, step)
  BY DEF Inv
<1>1. RanSound
  BY <1>0 DEF RanSound, RanOnce, RanAsRecorded, RanFits, RecordedRun
<1>2. ResultsInOrder
  BY <1>0 DEF ResultsInOrder, Journal, Batch
<1>3. CompletedIsEarned
  BY <1>0 DEF CompletedIsEarned, Journal, Batch, Earned, Count
<1>4. NoBatchForgotten
  BY <1>0 DEF NoBatchForgotten, Journal, OneOpen, Open
<1>5. ConsolidatedOnce
  BY <1>0 DEF ConsolidatedOnce, Journal, OncePerDigest
<1>6. ReturnedIsRecorded
  BY <1>0 DEF ReturnedIsRecorded, Fits, Open
<1>7. GapsAreCrashes
  BY DEF GapsAreCrashes, MissingSnapshots, Inv, Gaps
<1>8. TypeOK
  BY <1>0 DEF TypeOK, Inv, Journal, Journals, RanFits, At
<1> QED
  BY <1>1, <1>2, <1>3, <1>4, <1>5, <1>6, <1>7, <1>8 DEF BatchesAccounted, StatesAccounted

\* The journal is in order after every record, the running step fits it, every
\* call that ran is recorded, and only crashes leave a state without snapshot.
THEOREM StateStepInvariant == Spec => []Inv
<1>1. Inv /\ [Next]_vars => Inv'
  BY NextKeeps
<1> QED
  BY InitInv, <1>1, PTL DEF Spec

\* The journal of a state step holds well-formed records only, and the step
\* carries what its place needs (append_state_step_records).
THEOREM StateStepTyped == Spec => []TypeOK
<1>1. Inv => TypeOK
  BY InvSound
<1> QED
  BY StateStepInvariant, <1>1, PTL

\* However the transcript is edited between two calls of step_state, and
\* wherever they die: a tool call of a transition is executed at most once,
\* and it is the call the transition recorded (calls_to_execute).
THEOREM CallsRunSound == Spec => []RanSound
<1>1. Inv => RanSound
  BY InvSound
<1> QED
  BY StateStepInvariant, <1>1, PTL

\* The results of a batch are those of its calls from the first on; completed
\* means a completed result for each; what is open is the newest transition,
\* so _latest_pending never overlooks a batch.
THEOREM EveryBatchAccounted == Spec => []BatchesAccounted
<1>1. Inv => BatchesAccounted
  BY InvSound
<1> QED
  BY StateStepInvariant, <1>1, PTL

\* A user turn is consolidated once, a turn whose step returned is closed and
\* observed, and no more states are without a snapshot than processes died.
THEOREM EveryStateAccounted == Spec => []StatesAccounted
<1>1. Inv => StatesAccounted
  BY InvSound
<1> QED
  BY StateStepInvariant, <1>1, PTL

\* No step rewrites the verdict of a closed transition: not the cancellation
\* of a stale batch, not a resumed user turn, not a second verdict.
THEOREM VerdictsAreFinal == Spec => VerdictsFinal
<1>1. Inv /\ [Next]_vars =>
        [\A f \in FullAt(log) : Verdict(log, log[f].t) \notin {"pending", "running"} =>
            Verdict(log', log[f].t) = Verdict(log, log[f].t)]_vars
  BY NextKeeps DEF Keeps, Open
<1> QED
  BY StateStepInvariant, <1>1, PTL DEF Spec, VerdictsFinal

=============================================================================
