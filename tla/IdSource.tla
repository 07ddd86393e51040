------------------------------ MODULE IdSource ------------------------------
(***************************************************************************)
(* What EFRuntimeBranding::new promises (src/branding.rs): every branding  *)
(* it returns carries an id that no branding returned before carries.      *)
(***************************************************************************)
EXTENDS Naturals, Sequences

CONSTANTS Procs,   \* threads that create brandings
          Ids      \* ids a branding can carry

VARIABLE brands    \* brands[p]: the ids of the brandings p received, in order

(* Some thread received a branding with id i. *)
InUse(i) == \E p \in Procs : \E k \in DOMAIN brands[p] : brands[p][k] = i

Init == brands = [p \in Procs |-> <<>>]

New(p) == \E i \in Ids :
            /\ ~ InUse(i)
            /\ brands' = [brands EXCEPT ![p] = Append(@, i)]

Next == \E p \in Procs : New(p)

Spec == Init /\ [][Next]_brands
=============================================================================
