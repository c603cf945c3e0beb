----------------------------- MODULE MCStateStep -----------------------------
(* Instances of StateStep for TLC.                                          *)
EXTENDS StateStep

CONSTANTS a, b

Short == {<<a>>, <<a, b>>}
Single == {<<a>>}

=============================================================================
