--------------------------- MODULE MCStateHistory ---------------------------
(* Instances of StateHistory for TLC: two keys, two values.                 *)
EXTENDS StateHistory

CONSTANTS goal, note, null

Seeded == [k \in {goal} |-> 1]
Edited == {[k \in {goal} |-> 2]}
OneAnswer == {[k \in {goal, note} |-> IF k = goal THEN null ELSE 1]}
OneWay == {<<"anchor", "step">>}
ByHand == {[k \in {goal} |-> 2]}

=============================================================================
