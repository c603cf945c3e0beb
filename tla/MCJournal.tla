----------------------------- MODULE MCJournal -----------------------------
(* Small instances of Journal for TLC.                                     *)
EXTENDS Journal, TLC

\* Steps are interchangeable.
StepSymmetry == Permutations(Steps)

=============================================================================
