------------------------------ MODULE Upgrade ------------------------------
(***************************************************************************)
(* Pointers into foreign memory and how EFPtr turns them into references:  *)
(* the upgrade methods of src/types.rs and the address arithmetic of the   *)
(* allocation tracker of the mock runtime.  A pointer is its address.  An  *)
(* Option of a reference is the set that holds it, or the empty set.       *)
(***************************************************************************)
EXTENDS Integers

CONSTANTS
    MaxUsize,               \* usize::MAX
    Brands,                 \* runtimes; each has its own scopes
    Allocs,                 \* tracked allocations of the alloc scopes in use
    AllUpgradesValid,       \* brands whose chain ends in Base(true)
    Elems,                  \* scalar types
    Size, Align,            \* size_of and align_of of each scalar type
    OverflowChecks,         \* whether usize arithmetic panics instead of wrapping
    DISABLE_UPGRADE_CHECKS

USize == 0 .. MaxUsize

(* MockRtAllocation, with the brand of the chain it is in *)
Allocation == [brand : Brands, ptr : USize \ {0}, len : USize, mutable : BOOLEAN]

(* The address i elements of type e after p; addresses wrap around. *)
Offset(p, e, i) == (p + i * Size[e]) % (MaxUsize + 1)

(* The bytes of n elements of type e from p on, and those of an allocation. *)
Span(p, e, n) == p .. p + n * Size[e] - 1
BytesOf(a) == a.ptr .. a.ptr + a.len - 1

(* Only immutable allocations overlap: Rust values that are tracked more   *)
(* than once, or in part, without being copied.                            *)
ASSUME UpgradeAssumption ==
    /\ MaxUsize \in Nat
    /\ Allocs \subseteq Allocation
    /\ \A a \in Allocs : a.ptr + a.len =< MaxUsize
    /\ \A a, b \in Allocs : a # b /\ a.mutable => BytesOf(a) \cap BytesOf(b) = {}
    /\ AllUpgradesValid \subseteq Brands
    /\ Size \in [Elems -> Nat]
    /\ Align \in [Elems -> Nat \ {0}]
    /\ \A e \in Elems : \E k \in 0 .. Size[e] : Size[e] = k * Align[e]
    /\ OverflowChecks \in BOOLEAN
    /\ DISABLE_UPGRADE_CHECKS \in BOOLEAN

(***************************************************************************)
(* EFRef and EFMutRef ("one" for a scalar, "array" for [T; N]), EFSlice    *)
(* and EFMutSlice ("slice"): len elements of type elem at ptr.  The field  *)
(* checked is a history variable, which the code does not have and no      *)
(* guard reads: whether an upgrade has found all of that memory to be      *)
(* allocated ("read") and mutable ("write").  It is "none" if checks are   *)
(* disabled or the runtime declares all pointers valid, if the length      *)
(* wrapped around, and for what EFVal::as_array yields beyond element 0.   *)
(***************************************************************************)
Forms == {"one", "array", "slice"}
Checks == {"none", "read", "write"}

Ref == [form : Forms, mut : BOOLEAN, brand : Brands, ptr : USize, elem : Elems, len : Nat,
        checked : Checks]

NewRef(form, mut, q, p, e, n, checked) ==
    [form |-> form, mut |-> mut, brand |-> q, ptr |-> p, elem |-> e, len |-> n,
     checked |-> checked]

-----------------------------------------------------------------------------
(* AllocTracker *)

(* Mutant of Matches: the end of the range wraps around. *)
MatchesWrapping(a, ptr, len, mutable) ==
    /\ ptr >= a.ptr
    /\ (ptr + len) % (MaxUsize + 1) =< a.ptr + a.len
    /\ mutable => a.mutable

(* Mutant of Matches: mutability is not compared. *)
MatchesAnyMutability(a, ptr, len, mutable) ==
    /\ ptr >= a.ptr
    /\ ptr + len =< MaxUsize
    /\ ptr + len =< a.ptr + a.len

(* checked_add yields no end, and no match, when the range overflows *)
Matches(a, ptr, len, mutable) ==
    /\ ptr >= a.ptr
    /\ ptr + len =< MaxUsize
    /\ ptr + len =< a.ptr + a.len
    /\ mutable => a.mutable

IsValid(q, ptr, len, mutable) ==
    \/ \E a \in Allocs : a.brand = q /\ Matches(a, ptr, len, mutable)
    \/ q \in AllUpgradesValid

-----------------------------------------------------------------------------
(* EFPtr *)

(* Addresses that EFPtr::from, null and cast can produce, for every type. *)
Ptr == USize

(* Pointers that are aligned for type e. *)
IsAligned(p, e) == \E k \in 0 .. p : p = k * Align[e]

(* What an upgrade of n elements of type e that succeeds has checked. *)
Checked(q, e, n, access) ==
    IF DISABLE_UPGRADE_CHECKS \/ q \in AllUpgradesValid \/ n * Size[e] > MaxUsize
      THEN "none"
      ELSE access

(* upgrade: T is e, or [e; n] *)
Upgrade(form, q, p, e, n) ==
    IF DISABLE_UPGRADE_CHECKS \/ (IsAligned(p, e) /\ IsValid(q, p, n * Size[e], FALSE))
      THEN {NewRef(form, FALSE, q, p, e, n, Checked(q, e, n, "read"))}
      ELSE {}

UpgradeMut(form, q, p, e, n) ==
    IF DISABLE_UPGRADE_CHECKS \/ (IsAligned(p, e) /\ IsValid(q, p, n * Size[e], TRUE))
      THEN {NewRef(form, TRUE, q, p, e, n, Checked(q, e, n, "write"))}
      ELSE {}

(* length * size_of::<T>() : the products it can have; none if it panics. *)
ByteLength(e, n) == IF n * Size[e] =< MaxUsize THEN {n * Size[e]}
                    ELSE IF OverflowChecks THEN {}
                    ELSE {(n * Size[e]) % (MaxUsize + 1)}

UpgradeSlice(q, p, e, n) ==
    IF \/ DISABLE_UPGRADE_CHECKS
       \/ IsAligned(p, e) /\ \E bytes \in ByteLength(e, n) : IsValid(q, p, bytes, FALSE)
      THEN {NewRef("slice", FALSE, q, p, e, n, Checked(q, e, n, "read"))}
      ELSE {}

UpgradeSliceMut(q, p, e, n) ==
    IF \/ DISABLE_UPGRADE_CHECKS
       \/ IsAligned(p, e) /\ \E bytes \in ByteLength(e, n) : IsValid(q, p, bytes, TRUE)
      THEN {NewRef("slice", TRUE, q, p, e, n, Checked(q, e, n, "write"))}
      ELSE {}

-----------------------------------------------------------------------------

(* What a reference promises: it is aligned, and all its bytes are bytes   *)
(* of one allocation of its brand, ...                                     *)
Within(r, a) == /\ a.brand = r.brand
                /\ r.ptr \in a.ptr .. a.ptr + a.len
                /\ Span(r.ptr, r.elem, r.len) \subseteq BytesOf(a)

InBounds(r) == IsAligned(r.ptr, r.elem) /\ \E a \in Allocs : Within(r, a)

(* ... and of a mutable one. *)
MutablyInBounds(r) == \E a \in Allocs : Within(r, a) /\ a.mutable
=============================================================================
