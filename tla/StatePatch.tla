----------------------------- MODULE StatePatch -----------------------------
(***************************************************************************)
(* Merge patches over the state object (runtime/state_step.py).  A state   *)
(* is a mapping from some of the keys to values; a patch maps some keys to *)
(* a new value, or to None, which removes the key.  Mappings nested in a   *)
(* value are patched by the same rules one level down and are left out.    *)
(***************************************************************************)

CONSTANTS Keys,   \* keys of a state object
          Vals,   \* what a key may hold
          None    \* null: in a patch, the key is removed

ASSUME NoneAssumption == None \notin Vals

States == UNION {[D -> Vals] : D \in SUBSET Keys}
Patches == UNION {[D -> Vals \cup {None}] : D \in SUBSET Keys}

\* _merge_patch
MergePatch(state, patch) ==
    [k \in {j \in DOMAIN state \cup DOMAIN patch :
                j \in DOMAIN patch => patch[j] # None} |->
        IF k \in DOMAIN patch THEN patch[k] ELSE state[k]]

\* Mutant of StateDelta: removed keys are not mentioned.
StateDeltaKeeps(before, after) ==
    [k \in {j \in DOMAIN after : j \in DOMAIN before => before[j] # after[j]} |->
        after[k]]

\* state_delta
StateDelta(before, after) ==
    [k \in {j \in DOMAIN before \cup DOMAIN after :
                (j \in DOMAIN before /\ j \in DOMAIN after) => before[j] # after[j]} |->
        IF k \in DOMAIN after THEN after[k] ELSE None]

=============================================================================
