--------------------------- MODULE BrandingProofs ---------------------------
(***************************************************************************)
(* Theorems about EFRuntimeBranding for every set of threads and every     *)
(* width of the counter.                                                   *)
(***************************************************************************)
EXTENDS Branding, SequenceTheorems, TLAPS

(* Every id handed out is below the counter, and below what its holder has *)
(* seen of it: the part of the invariant that makes new ids fresh.         *)
IdsBelow == \A p \in Procs : \A i \in DOMAIN brands[p] :
                /\ brands[p][i] < prev[p]
                /\ brands[p][i] < ctr

IInv == TypeOK /\ IdsBelow /\ UniqueBrands /\ IdsGrow /\ NoIdLost

-----------------------------------------------------------------------------

(* The variables keep their types: no step takes the counter past MaxId. *)
LEMMA TypeStep == TypeOK /\ [Next]_vars => TypeOK'
<1> SUFFICES ASSUME TypeOK, [Next]_vars PROVE TypeOK'
  OBVIOUS
<1> USE MaxIdAssumption DEF TypeOK
<1>1. ASSUME NEW p \in Procs, Load(p) PROVE TypeOK'
  BY <1>1 DEF Load
<1>2. ASSUME NEW p \in Procs, CasSucceeds(p) PROVE TypeOK'
  <2>1. /\ prev[p] \in 0 .. MaxId
        /\ ctr' = prev[p] + 1
        /\ ctr' \in 0 .. MaxId
    BY <1>2 DEF CasSucceeds, HasNext
  <2>2. prev' \in [Procs -> 0 .. ctr']
    BY <1>2, <2>1 DEF CasSucceeds
  <2>3. Append(brands[p], prev[p]) \in Seq(0 .. MaxId)
    BY <2>1, AppendProperties
  <2>4. brands' \in [Procs -> Seq(0 .. MaxId)]
    BY <1>2, <2>3 DEF CasSucceeds
  <2>5. pc' \in [Procs -> {"idle", "cas", "panicked"}]
    BY <1>2 DEF CasSucceeds
  <2>6. QED
    BY <2>1, <2>2, <2>4, <2>5
<1>3. ASSUME NEW p \in Procs, CasFails(p) PROVE TypeOK'
  BY <1>3 DEF CasFails
<1>4. ASSUME NEW p \in Procs, Overflow(p) PROVE TypeOK'
  BY <1>4 DEF Overflow
<1>5. CASE UNCHANGED vars
  BY <1>5 DEF vars
<1>6. QED
  BY <1>1, <1>2, <1>3, <1>4, <1>5 DEF Next

(* The types of the variables hold in every run. *)
THEOREM TypeCorrect == Spec => []TypeOK
<1>1. Init => TypeOK
  BY MaxIdAssumption, EmptySeq DEF Init, TypeOK
<1>2. QED
  BY <1>1, TypeStep, PTL DEF Spec

(* What a successful compare-and-exchange does to the ids: the winner gets *)
(* the old value of the counter, nobody else gets anything.                *)
LEMMA SuccessfulCas ==
  ASSUME TypeOK, NEW p \in Procs, CasSucceeds(p)
  PROVE  /\ ctr \in Nat /\ ctr' = ctr + 1 /\ prev[p] = ctr
         /\ prev'[p] = ctr + 1
         /\ brands'[p] = Append(brands[p], ctr)
         /\ Len(brands[p]) \in Nat
         /\ DOMAIN brands[p] = 1 .. Len(brands[p])
         /\ DOMAIN brands'[p] = 1 .. Len(brands[p]) + 1
         /\ brands'[p][Len(brands[p]) + 1] = ctr
         /\ \A i \in DOMAIN brands[p] : brands'[p][i] = brands[p][i]
         /\ \A q \in Procs \ {p} : brands'[q] = brands[q] /\ prev'[q] = prev[q]
<1>1. /\ ctr \in Nat /\ ctr' = ctr + 1 /\ prev[p] = ctr
      /\ prev'[p] = ctr + 1
      /\ brands'[p] = Append(brands[p], ctr)
      /\ \A q \in Procs \ {p} : brands'[q] = brands[q] /\ prev'[q] = prev[q]
  BY MaxIdAssumption DEF CasSucceeds, TypeOK
<1>2. brands[p] \in Seq(0 .. MaxId) /\ ctr \in 0 .. MaxId
  BY DEF TypeOK
<1>3. /\ Len(brands[p]) \in Nat
      /\ DOMAIN brands[p] = 1 .. Len(brands[p])
  BY <1>2, LenProperties
<1>4. /\ Len(brands'[p]) = Len(brands[p]) + 1
      /\ brands'[p] \in Seq(0 .. MaxId)
      /\ brands'[p][Len(brands[p]) + 1] = ctr
      /\ \A i \in 1 .. Len(brands[p]) : brands'[p][i] = brands[p][i]
  BY <1>1, <1>2, AppendProperties
<1>5. DOMAIN brands'[p] = 1 .. Len(brands[p]) + 1
  BY <1>4, LenProperties
<1>6. QED
  BY <1>1, <1>3, <1>4, <1>5

(* A successful compare-and-exchange keeps all ids distinct and accounted  *)
(* for.                                                                    *)
LEMMA CasKeepsIds ==
  ASSUME IInv, TypeOK', NEW p \in Procs, CasSucceeds(p)
  PROVE  IdsBelow' /\ UniqueBrands' /\ IdsGrow' /\ NoIdLost'
<1>1. /\ ctr \in Nat /\ ctr' = ctr + 1 /\ prev[p] = ctr
      /\ prev'[p] = ctr + 1
      /\ Len(brands[p]) \in Nat
      /\ DOMAIN brands[p] = 1 .. Len(brands[p])
      /\ DOMAIN brands'[p] = 1 .. Len(brands[p]) + 1
      /\ brands'[p][Len(brands[p]) + 1] = ctr
      /\ \A i \in DOMAIN brands[p] : brands'[p][i] = brands[p][i]
      /\ \A q \in Procs \ {p} : brands'[q] = brands[q] /\ prev'[q] = prev[q]
  BY SuccessfulCas DEF IInv
<1>2. \A q \in Procs : \A i \in DOMAIN brands[q] : brands[q][i] \in Nat
  <2> TAKE q \in Procs
  <2>1. brands[q] \in Seq(0 .. MaxId)
    BY DEF IInv, TypeOK
  <2>2. QED
    BY <2>1, MaxIdAssumption, LenProperties, ElementOfSeq
<1>3. \A q \in Procs : \A i \in DOMAIN brands'[q] :
          \/ i \in DOMAIN brands[q] /\ brands'[q][i] = brands[q][i] /\ brands[q][i] < ctr
          \/ q = p /\ i = Len(brands[p]) + 1 /\ brands'[q][i] = ctr
  BY <1>1 DEF IInv, IdsBelow
<1>4. IdsBelow'
  <2>1. \A q \in Procs : prev[q] \in Nat
    BY MaxIdAssumption DEF IInv, TypeOK
  <2>2. QED
    BY <1>1, <1>2, <1>3, <2>1 DEF IInv, IdsBelow
<1>5. UniqueBrands'
  BY <1>1, <1>2, <1>3 DEF IInv, UniqueBrands, Compare
<1>6. IdsGrow'
  BY <1>1, <1>2, <1>3 DEF IInv, IdsGrow
<1>7. NoIdLost'
  <2> SUFFICES ASSUME NEW id \in 0 .. ctr' - 1
               PROVE  \E q \in Procs : \E i \in DOMAIN brands'[q] : brands'[q][i] = id
    BY DEF NoIdLost
  <2>1. CASE id = ctr
    BY <1>1, <2>1
  <2>2. CASE id # ctr
    <3>1. id \in 0 .. ctr - 1
      BY <1>1, <2>2
    <3>2. PICK q \in Procs : \E i \in DOMAIN brands[q] : brands[q][i] = id
      BY <3>1 DEF IInv, NoIdLost
    <3>3. \A i \in DOMAIN brands[q] : i \in DOMAIN brands'[q] /\ brands'[q][i] = brands[q][i]
      BY <1>1
    <3>4. QED
      BY <3>2, <3>3
  <2>3. QED
    BY <2>1, <2>2
<1>8. QED
  BY <1>4, <1>5, <1>6, <1>7

(* The invariant is inductive. *)
LEMMA InvStep == IInv /\ [Next]_vars => IInv'
<1> SUFFICES ASSUME IInv, [Next]_vars PROVE IInv'
  OBVIOUS
<1>1. TypeOK'
  BY TypeStep DEF IInv
<1>2. ASSUME NEW p \in Procs, CasSucceeds(p) PROVE IInv'
  BY <1>1, <1>2, CasKeepsIds DEF IInv
<1>3. ASSUME UNCHANGED <<ctr, brands>>, \A q \in Procs : prev'[q] \in Nat /\ prev'[q] >= prev[q]
      PROVE  IInv'
  <2>1. IdsBelow'
    <3> SUFFICES ASSUME NEW q \in Procs, NEW i \in DOMAIN brands[q]
                 PROVE  brands[q][i] < prev'[q] /\ brands[q][i] < ctr
      BY <1>3 DEF IdsBelow
    <3>1. brands[q][i] \in Nat /\ prev[q] \in Nat
      BY MaxIdAssumption, LenProperties, ElementOfSeq DEF IInv, TypeOK
    <3>2. QED
      BY <1>3, <3>1 DEF IInv, IdsBelow
  <2>2. UniqueBrands' /\ IdsGrow' /\ NoIdLost'
    BY <1>3 DEF IInv, UniqueBrands, IdsGrow, NoIdLost, Compare
  <2>3. QED
    BY <1>1, <2>1, <2>2 DEF IInv
<1>4. \A q \in Procs : prev[q] \in Nat /\ prev'[q] \in Nat
  BY <1>1, MaxIdAssumption DEF IInv, TypeOK
<1>5. ASSUME NEW p \in Procs, Load(p) \/ CasFails(p) PROVE IInv'
  <2>1. UNCHANGED <<ctr, brands>>
    BY <1>5 DEF Load, CasFails
  <2>2. PICK v \in prev[p] .. ctr : prev' = [prev EXCEPT ![p] = v]
    BY <1>5 DEF Load, CasFails
  <2>3. v >= prev[p]
    BY <1>4
  <2>4. prev \in [Procs -> 0 .. ctr]
    BY DEF IInv, TypeOK
  <2>5. \A q \in Procs : prev'[q] = IF q = p THEN v ELSE prev[q]
    BY <2>2, <2>4
  <2>6. \A q \in Procs : prev'[q] >= prev[q]
    BY <1>4, <2>3, <2>5
  <2>7. QED
    BY <1>3, <1>4, <2>1, <2>6
<1>6. ASSUME NEW p \in Procs, Overflow(p) PROVE IInv'
  BY <1>3, <1>4, <1>6 DEF Overflow
<1>7. CASE UNCHANGED vars
  BY <1>3, <1>4, <1>7 DEF vars
<1>8. QED
  BY <1>2, <1>5, <1>6, <1>7 DEF Next

(* The invariant holds in every run. *)
LEMMA Invariance == Spec => []IInv
<1>1. Init => IInv
  BY MaxIdAssumption, EmptySeq
     DEF Init, IInv, TypeOK, IdsBelow, UniqueBrands, IdsGrow, NoIdLost
<1>2. QED
  BY <1>1, InvStep, PTL DEF Spec

-----------------------------------------------------------------------------

(* No two brandings ever compare equal, whatever the threads and the width *)
(* of the counter: the id checks of the runtimes cannot be fooled by two   *)
(* runtimes with the same id.                                              *)
THEOREM BrandsAreUnique == Spec => []UniqueBrands
<1>1. IInv => UniqueBrands
  BY DEF IInv
<1>2. QED
  BY <1>1, Invariance, PTL

(* Each thread receives ids in increasing order. *)
THEOREM BrandsGrow == Spec => []IdsGrow
<1>1. IInv => IdsGrow
  BY DEF IInv
<1>2. QED
  BY <1>1, Invariance, PTL

(* Lost races and spurious failures waste no id. *)
THEOREM AllIdsIssued == Spec => []NoIdLost
<1>1. IInv => NoIdLost
  BY DEF IInv
<1>2. QED
  BY <1>1, Invariance, PTL

(* The counter never goes back, so no id can be issued a second time. *)
THEOREM NeverWraps == Spec => CounterNeverWraps
<1>1. TypeOK /\ [Next]_vars => [ctr' >= ctr]_vars
  BY MaxIdAssumption
     DEF TypeOK, Next, Load, CasSucceeds, CasFails, Overflow, vars
<1>2. QED
  BY <1>1, TypeCorrect, PTL DEF Spec, CounterNeverWraps

(* Branding implements IdSource: a successful compare-and-exchange issues  *)
(* a fresh id below MaxId, every other step issues nothing.                *)
THEOREM Refinement == Spec => ImplementsIdSource
<1>1. Init => Source!Init
  BY DEF Init, Source!Init
<1>2. IInv /\ [Next]_vars => [Source!Next]_brands
  <2> SUFFICES ASSUME IInv, [Next]_vars PROVE [Source!Next]_brands
    OBVIOUS
  <2>1. ASSUME NEW p \in Procs, CasSucceeds(p) PROVE Source!Next
    <3>1. /\ ctr \in 0 .. MaxId - 1
          /\ brands' = [brands EXCEPT ![p] = Append(@, ctr)]
      BY <2>1, MaxIdAssumption DEF IInv, TypeOK, CasSucceeds, HasNext
    <3>2. ~ Source!InUse(ctr)
      BY <3>1 DEF Source!InUse, IInv, IdsBelow
    <3>3. QED
      BY <3>1, <3>2 DEF Source!New, Source!Next
  <2>2. ASSUME NEW p \in Procs, Load(p) \/ CasFails(p) \/ Overflow(p)
        PROVE  UNCHANGED brands
    BY <2>2 DEF Load, CasFails, Overflow
  <2>3. QED
    BY <2>1, <2>2 DEF Next, vars
<1>3. QED
  BY <1>1, <1>2, Invariance, PTL DEF Spec, ImplementsIdSource, Source!Spec
=============================================================================
