----------------------------- MODULE MCAsyncRun -----------------------------
(* Small instances of AsyncRun for TLC.                                    *)
EXTENDS AsyncRun, TLC

\* Request threads are interchangeable.
ClientSymmetry == Permutations(Clients)

=============================================================================
