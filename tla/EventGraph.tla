----------------------------- MODULE EventGraph -----------------------------
(***************************************************************************)
(* The drawing of the message graph, roots on top                          *)
(* (tools_cluster/event_graph.py).  Every message gets a row, every path   *)
(* to a deepest descendant a lane of its own; a lane is drawn from the row *)
(* where it branches off to the row of its last message.  The journal      *)
(* grows by one message at a time, each below an earlier one or a root.    *)
(***************************************************************************)
EXTENDS Integers, Sequences, FiniteSets, FiniteSetsExt, SequencesExt, TLC

CONSTANT MaxGraph   \* bound: messages of the journal

VARIABLE parents    \* the parent of each message; 0 for a root

graphVars == <<parents>>

GraphInit == parents = <<>>

(* graph_from_message_events: the forest, and the order of the journal.    *)
AddMessage(p) == /\ Len(parents) < MaxGraph
                 /\ parents' = Append(parents, p)
GraphNext == \E p \in 0..Len(parents) : AddMessage(p)
GraphSpec == GraphInit /\ [][GraphNext]_graphVars

-----------------------------------------------------------------------------
Messages == DOMAIN parents
Roots == {m \in Messages : parents[m] = 0}
Kids(m) == SetToSortSeq({c \in Messages : parents[c] = m}, <)

(* _compute_depths: how far below a message its descendants reach. *)
Depths ==
    LET depth[m \in Messages] ==
            IF Kids(m) = <<>> THEN 0
            ELSE 1 + Max({depth[c] : c \in Range(Kids(m))})
    IN  depth

(* _heir: the first child of the greatest depth goes on in the lane. *)
Heir(kids) == kids[Min({i \in DOMAIN kids :
                  \A j \in DOMAIN kids : Depths[kids[j]] <= Depths[kids[i]]})]

(* _descendants, _temporal_order: the rows are in the order of the journal. *)
Below(root) ==
    LET below[m \in Messages] == m = root \/ (parents[m] # 0 /\ below[parents[m]])
    IN  {m \in Messages : below[m]}
TemporalRows(root) == LET order == SetToSortSeq(Below(root), <)
                      IN  [m \in Below(root) |-> CHOOSE i \in DOMAIN order : order[i] = m]

(* _consequence_order: the shallow branches first, each whole. *)
ByDepth(kids) == SortSeq(kids, LAMBDA a, b :
    Depths[a] < Depths[b] \/ (Depths[a] = Depths[b] /\ a < b))
ConsequenceRows(root) ==
    LET walk[k \in 0..Len(parents)] ==
            IF k = 0 THEN [order |-> <<>>, stack |-> <<root>>]
            ELSE LET w == walk[k - 1]
                 IN  IF w.stack = <<>> THEN w
                     ELSE [order |-> Append(w.order, Head(w.stack)),
                           stack |-> ByDepth(Kids(Head(w.stack))) \o Tail(w.stack)]
        order == walk[Len(parents)].order
    IN  [m \in Range(order) |-> CHOOSE i \in DOMAIN order : order[i] = m]

(* _assign_corridors: breadth first, a new lane for every other child. *)
Corridors(root) ==
    LET Visit(s) ==
            LET m == Head(s.queue)
                others == SelectSeq(Kids(m), LAMBDA c : c # Heir(Kids(m)))
                fresh == [c \in Range(others) |->
                            s.next + (CHOOSE i \in DOMAIN others : others[i] = c) - 1]
                heir == IF Kids(m) = <<>> THEN <<>> ELSE Heir(Kids(m)) :> s.lane[m]
            IN  [queue |-> Tail(s.queue) \o Kids(m), lane |-> s.lane @@ heir @@ fresh,
                 next |-> s.next + Len(others)]
        walk[k \in 0..Len(parents)] ==
            IF k = 0 THEN [queue |-> <<root>>, lane |-> root :> 0, next |-> 1]
            ELSE IF walk[k - 1].queue = <<>> THEN walk[k - 1] ELSE Visit(walk[k - 1])
    IN  walk[Len(parents)].lane

(* _assign_consequence_lanes: every branch is drawn in lane 1. *)
ConsequenceLanes(root) ==
    LET lane[m \in Below(root)] ==
            IF m = root THEN 0
            ELSE IF m = Heir(ByDepth(Kids(parents[m]))) THEN lane[parents[m]] ELSE 1
    IN  lane

\* Mutant: a lane lasts as long as any of its branches.
LastRowsAll(rows, lane) ==
    LET last[m \in DOMAIN rows] == Max({rows[m]} \cup {last[c] : c \in Range(Kids(m))})
    IN  last

(* _compute_last_rows: the last row below a message in its own lane. *)
LastRows(rows, lane) ==
    LET last[m \in DOMAIN rows] ==
            LET same == {c \in Range(Kids(m)) : lane[c] = lane[m]}
            IN  Max({rows[m]} \cup {last[c] : c \in
                        IF same = {} THEN Range(Kids(m)) ELSE same})
    IN  last

(* _compute_start_rows: a branch leaves its parent's lane before that lane *)
(* goes on.                                                                *)
StartRows(rows, lane) ==
    [m \in DOMAIN rows |->
        LET p == parents[m]
            next == {rows[x] : x \in {y \in DOMAIN rows :
                        p # 0 /\ lane[y] = lane[p] /\ rows[y] > rows[p]}}
        IN  IF p = 0 THEN rows[m]
            ELSE IF lane[p] # lane[m] THEN Min({rows[m]} \cup next)
            ELSE rows[m]]

(* _active_lanes_by_row: the lanes drawn in a row. *)
Active(rows, lane, r) ==
    {lane[m] : m \in {x \in DOMAIN rows :
        StartRows(rows, lane)[x] <= r /\ r <= LastRows(rows, lane)[x]}}

-----------------------------------------------------------------------------
Connected(rows, lane) ==
    \A m \in DOMAIN rows : parents[m] # 0 =>
        LET p == parents[m]
            start == StartRows(rows, lane)[m]
        IN  /\ rows[p] < start
            /\ \A r \in start..rows[m] : lane[m] \in Active(rows, lane, r)
            /\ \A r \in rows[p]..start : lane[p] \in Active(rows, lane, r)

NothingDangles(rows, lane) ==
    \A r \in 1..Cardinality(DOMAIN rows) : \A l \in Active(rows, lane, r) :
        \E m \in DOMAIN rows : lane[m] = l /\ rows[m] >= r

(* In both views every message has a row of its own below its parent's,    *)
(* its lane is drawn without a gap from where it leaves the parent's lane, *)
(* which is still drawn there, and no lane is drawn past its last message. *)
DrawnAsLinked ==
    \A root \in Roots : \A view \in {"temporal", "consequence"} :
        LET rows == IF view = "temporal" THEN TemporalRows(root) ELSE ConsequenceRows(root)
            lane == IF view = "temporal" THEN Corridors(root) ELSE ConsequenceLanes(root)
        IN  /\ DOMAIN rows = Below(root)
            /\ Range(rows) = 1..Cardinality(Below(root))
            /\ Connected(rows, lane)
            /\ NothingDangles(rows, lane)
=============================================================================
