---------------------------- MODULE StatePacket ----------------------------
(***************************************************************************)
(* What a state step sends to the model (runtime/state_step.py): the       *)
(* protocol a state turn refers to, the inert blocks its text refers to,   *)
(* and the tool outcomes the transcript shows.  Each is a computation on   *)
(* what the operator may have written; a behaviour chooses one input and   *)
(* computes the answer.                                                    *)
(***************************************************************************)
EXTENDS Integers, Sequences, FiniteSets, SequencesExt

CONSTANTS MaxTurns,    \* bound: state turns of the transcript
          Blocks,      \* identifiers of inert blocks
          MaxRefs,     \* bound: references in one text
          MaxDepth,    \* expand_inert_blocks(max_depth)
          Results,     \* what a RESULT block of the transcript may say
          MaxOutcomes  \* bound: outcomes, and RESULT blocks

ASSUME PacketAssumption ==
    {MaxTurns, MaxRefs, MaxDepth, MaxOutcomes} \subseteq Nat

VARIABLES packetInput,   \* what there is to resolve, expand or reconcile
          packetAnswer   \* what came of it

packetVars == <<packetInput, packetAnswer>>

NotAnswered == [answered |-> FALSE]

-----------------------------------------------------------------------------
(***************************************************************************)
(* Protocols.  A state turn may name a protocol (a reference to another    *)
(* state turn, or an overlay on one, or on the default one) and may carry  *)
(* instructions of its own.  A value is known by the turn it comes from.   *)
(***************************************************************************)
\* The schema and any other entry are overlaid as the tools are.
Fields == {"instructions", "tools"}
DefaultProtocol == [f \in Fields |-> <<"default", 0>>]

\* find_state_turn_index_by_label: the state turns a label may name; 0 stands
\* for the default protocol, which has no label.
Labels(n) == 0 .. n

\* parse_state_turn: an overlay sets what it sets, the others set nothing.
StateTurns(n) ==
    [protocol : {"none"}, ref : {0}, sets : {{}}, own : BOOLEAN]
      \cup [protocol : {"label"}, ref : Labels(n), sets : {{}}, own : BOOLEAN]
      \cup [protocol : {"overlay"}, ref : Labels(n), sets : SUBSET Fields, own : BOOLEAN]

Circular == [f \in Fields |-> <<"circular", 0>>]

\* _normalize_resolved_tools and the merging of schemas: what the overlay says
\* replaces what the base says.
Overlaid(base, turn, i) == [f \in Fields |-> IF f \in turn.sets THEN <<"protocol", i>> ELSE base[f]]

\* Mutant: the turn's own instructions always win.
WithOwnAlways(protocol, turn, i) ==
    IF turn.own THEN [protocol EXCEPT !["instructions"] = <<"own", i>>] ELSE protocol

\* The turn's own instructions count unless its protocol overlays them.
WithOwn(protocol, turn, i) ==
    IF turn.own /\ "instructions" \notin turn.sets
    THEN [protocol EXCEPT !["instructions"] = <<"own", i>>] ELSE protocol

\* resolve_state_turn_protocol, for the turn i; seen is the labels on the way.
ResolveProtocol(turns, start) ==
    LET resolve[i \in DOMAIN turns, seen \in SUBSET DOMAIN turns] ==
          LET turn == turns[i]
              base == IF turn.ref = 0 THEN DefaultProtocol
                      ELSE IF turn.ref \in seen THEN Circular
                      ELSE resolve[turn.ref, seen \cup {turn.ref}]
          IN  IF base = Circular THEN Circular ELSE WithOwn(Overlaid(base, turn, i), turn, i)
    IN  resolve[start, {}]

-----------------------------------------------------------------------------
(***************************************************************************)
(* Inert blocks.  A text is a sequence of references to blocks; the body   *)
(* of a block is a word of its own followed by a text.                     *)
(***************************************************************************)
Word(b) == <<"word", b>>
Ref(b) == <<"ref", b>>
BlockTexts == SeqOf({Ref(b) : b \in Blocks}, MaxRefs)
Body(bodies, b) == <<Word(b)>> \o bodies[b]

\* A reference whose block is known and not yet expanded (repl_fenced).
Expandable(seen, bodies, token) ==
    token[1] = "ref" /\ token[2] \in DOMAIN bodies /\ token[2] \notin seen

\* One pass: from left to right, what is put in is not looked at again.
ExpandPass(before, bodies) ==
    FoldLeft(LAMBDA acc, token :
               IF Expandable(acc.seen, bodies, token)
               THEN [text |-> acc.text \o Body(bodies, token[2]), seen |-> acc.seen \cup {token[2]}]
               ELSE [acc EXCEPT !.text = Append(@, token)],
             [text |-> <<>>, seen |-> before.seen], before.text)

\* expand_inert_blocks: passes until nothing matches, at most MaxDepth.
ExpandBlocks(text, bodies) ==
    LET pass[k \in 0 .. MaxDepth] ==
            IF k = 0 THEN [text |-> text, seen |-> {}] ELSE ExpandPass(pass[k - 1], bodies)
    IN  pass[MaxDepth].text

-----------------------------------------------------------------------------
(***************************************************************************)
(* Outcomes.  The transcript's RESULT blocks are the truth about what the  *)
(* tools said; the recorded outcomes say which call each belongs to.       *)
(***************************************************************************)
OutcomesOf(nodes, status) == [nodes : nodes, status : status]
Prior == SeqOf(OutcomesOf(0 .. 2, {"completed", "failed"}), MaxOutcomes)

\* How many results an outcome takes: one per node, one if it has none.
Takes(outcome) == IF outcome.nodes = 0 THEN 1 ELSE outcome.nodes

\* _reconcile_tool_outcomes
Reconcile(prior, results) ==
    LET taken == FoldLeft(LAMBDA acc, outcome :
                   LET from == Len(FlattenSeq([k \in DOMAIN acc |-> acc[k].contents]))
                       upTo == IF from + Takes(outcome) <= Len(results) THEN from + Takes(outcome) ELSE Len(results)
                   IN  IF from >= Len(results) THEN acc
                       ELSE Append(acc, [index |-> Len(acc), status |-> outcome.status, by |-> "tool",
                                         contents |-> SubSeq(results, from + 1, upTo)]),
                 <<>>, prior)
        used == Len(FlattenSeq([k \in DOMAIN taken |-> taken[k].contents]))
    IN  taken \o [k \in 1 .. Len(results) - used |->
                    [index |-> Len(taken) + k - 1, status |-> "completed", by |-> "user",
                     contents |-> <<results[used + k]>>]]

-----------------------------------------------------------------------------
PacketInit == packetInput = [of |-> "nothing"] /\ packetAnswer = NotAnswered

\* What the operator's transcript and the journal hold.
ReadTranscript ==
    /\ packetInput.of = "nothing"
    /\ UNCHANGED packetAnswer
    /\ \/ \E n \in 1 .. MaxTurns : \E ts \in [1 .. n -> StateTurns(n)] :
            packetInput' = [of |-> "protocol", turns |-> ts]
       \/ \E t \in BlockTexts, known \in SUBSET Blocks : \E b \in [known -> BlockTexts] :
            packetInput' = [of |-> "blocks", text |-> t, bodies |-> b]
       \/ \E p \in Prior, r \in SeqOf(Results, MaxOutcomes) :
            packetInput' = [of |-> "outcomes", prior |-> p, results |-> r]

Answer(value) == packetAnswer' = [answered |-> TRUE, value |-> value] /\ UNCHANGED packetInput

\* _build_state_step_packet_impl: the protocol of the latest state turn.
BuildProtocol ==
    /\ packetAnswer = NotAnswered /\ packetInput.of = "protocol"
    /\ Answer(ResolveProtocol(packetInput.turns, Len(packetInput.turns)))

BuildText ==
    /\ packetAnswer = NotAnswered /\ packetInput.of = "blocks"
    /\ Answer(ExpandBlocks(packetInput.text, packetInput.bodies))

BuildObservation ==
    /\ packetAnswer = NotAnswered /\ packetInput.of = "outcomes"
    /\ Answer(Reconcile(packetInput.prior, packetInput.results))

PacketNext == ReadTranscript \/ BuildProtocol \/ BuildText \/ BuildObservation

-----------------------------------------------------------------------------
\* The turns a reference leads through, each once, and whether it comes back.
Chain(turns, start) ==
    LET step[k \in 1 .. Len(turns) + 1] ==
            IF k = 1 THEN start ELSE IF step[k - 1] = 0 THEN 0 ELSE turns[step[k - 1]].ref
    IN  step
Says(turns, i, f) ==
    IF f \in turns[i].sets THEN <<"protocol", i>>
    ELSE IF f = "instructions" /\ turns[i].own THEN <<"own", i>> ELSE <<>>

\* A state turn's protocol is the nearest word on each field along its
\* references; a chain of references that comes back to a turn is refused, and
\* no other.
NearestWins ==
    packetInput.of = "protocol" /\ packetAnswer.answered =>
      LET turns == packetInput.turns
          chain == Chain(turns, Len(turns))
          speakers(f) == {k \in DOMAIN chain : chain[k] # 0 /\ Says(turns, chain[k], f) # <<>>}
      IN  IF chain[Len(turns) + 1] # 0 THEN packetAnswer.value = Circular
          ELSE \A f \in Fields : packetAnswer.value[f] =
                 IF speakers(f) = {} THEN <<"default", 0>>
                 ELSE Says(turns, chain[CHOOSE k \in speakers(f) : \A j \in speakers(f) : k <= j], f)

\* The blocks a text reaches in at most n steps.
Within(text, bodies, n) ==
    LET refs(t) == {t[k][2] : k \in {j \in DOMAIN t : t[j][1] = "ref"}} \cap DOMAIN bodies
        reach[k \in 1 .. n] ==
            IF k = 1 THEN refs(text)
            ELSE reach[k - 1] \cup UNION {refs(bodies[b]) : b \in reach[k - 1]}
    IN  reach[n]

\* Expansion ends, also when blocks refer to each other in a circle; it puts in
\* each block within reach once, the others not at all.
ExpandedOnce ==
    packetInput.of = "blocks" /\ packetAnswer.answered =>
      \A b \in Blocks :
        Cardinality({k \in DOMAIN packetAnswer.value : packetAnswer.value[k] = Word(b)}) =
          IF b \in Within(packetInput.text, packetInput.bodies, MaxDepth) THEN 1 ELSE 0

\* The model is shown what the transcript shows: every RESULT block once and in
\* order, also after the operator removed or added some; and a recorded outcome
\* keeps its verdict.
ShownIsTranscript ==
    packetInput.of = "outcomes" /\ packetAnswer.answered =>
      LET shown == packetAnswer.value
      IN  /\ FlattenSeq([k \in DOMAIN shown |-> shown[k].contents]) = packetInput.results
          /\ \A k \in DOMAIN shown : /\ shown[k].index = k - 1 /\ shown[k].contents # <<>>
                                     /\ shown[k].by = "tool" => shown[k].status = packetInput.prior[k].status

\* The packet says what the transcript says, in all three respects.
PacketFaithful == NearestWins /\ ExpandedOnce /\ ShownIsTranscript
=============================================================================
