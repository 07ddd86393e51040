------------------------------- MODULE Access -------------------------------
(***************************************************************************)
(* Access to foreign memory through the types of src/types.rs.  References *)
(* (EFRef, EFMutRef, EFSlice, EFMutSlice) live as long as the alloc scope  *)
(* and say only that memory is there.  Validated values (EFVal,            *)
(* EFSliceVal) are ordinary Rust references to it: they borrow the access  *)
(* scope, which is meant to keep foreign code and writes from changing     *)
(* what they point to.  Copies (EFCopy) are owned bytes of unknown         *)
(* validity.                                                               *)
(*                                                                         *)
(* The compiler's borrow rules are the guards Reads and Writes; a panic on *)
(* an id mismatch changes nothing and is a stuttering step, and so is a    *)
(* method that returns None or Err.  An access outside of the allocations, *)
(* which only a reference that was not checked can lead to, is undefined;  *)
(* the model takes it to end the process (Mapped).                         *)
(***************************************************************************)
EXTENDS Upgrade, FiniteSets, Sequences

CONSTANTS
    Byte,            \* values of a byte of foreign memory
    ValidBytes,      \* ValidBytes[e]: byte strings that are values of type e
    U8, Utf8,        \* the type u8; the byte strings that are valid UTF-8
    Lengths,         \* lengths given to upgrade_slice, and array types [T; N]
    StackWords,      \* bound: what follows an EFVal on the stack, as an address
    MaxRefs, MaxVals, MaxCopies, \* bounds: references and iterators, values, and
                     \* copies that the program holds at a time
    DISABLE_VALIDATION_CHECKS

String(n) == [0 .. n - 1 -> Byte]

ASSUME AccessAssumption ==
    /\ 0 \in Byte
    /\ \A e \in Elems : ValidBytes[e] \subseteq String(Size[e])
    /\ U8 \in Elems => Size[U8] = 1
    /\ Lengths \subseteq Nat
    /\ StackWords \subseteq USize
    /\ \A bound \in {MaxRefs, MaxVals, MaxCopies} : bound \in Nat
    /\ DISABLE_VALIDATION_CHECKS \in BOOLEAN

VARIABLES
    mem,      \* mem[a]: the byte at address a of foreign memory
    refs,     \* references the program holds
    vals,     \* validated values the program holds
    copies,   \* copies the program owns
    iters     \* iterators over arrays and slices

vars == <<mem, refs, vals, copies, iters>>

Memory == UNION {BytesOf(a) : a \in Allocs}

(***************************************************************************)
(* EFVal, EFSliceVal, and EFVal<str>; excl: it borrows the AccessScope of  *)
(* brand scope mutably.  It does not say whether its memory is mutable.    *)
(* The field lost is a history of what happened while the program held the *)
(* value, which the compiler lets it use all the same: "bytes", the memory *)
(* was written as a slice, which borrows the scope only shared, or through *)
(* a reference not checked for writing; "scope", a callback was given an   *)
(* AccessScope of the same brand.                                          *)
(***************************************************************************)
Val == [ref : Ref, scope : Brands, excl : BOOLEAN, str : BOOLEAN,
        lost : {"nothing", "bytes", "scope"}]

(* EFCopy<T>; a validated reference to it is "lent" out, an "owned" one    *)
(* has become a T.                                                         *)
Copy == [elem : Elems, len : Nat, bytes : Seq(Byte), state : {"raw", "lent", "owned"}]

(* EFMutRefIter, EFRefIter and EFSliceIter *)
Iter == [of : Ref, idx : Nat]

Init == /\ mem \in [Memory -> Byte]
        /\ refs = {}
        /\ vals = {}
        /\ copies = {}
        /\ iters = {}

-----------------------------------------------------------------------------
(* The access scope *)

(* Mutant of SameBrand: ids are not compared. *)
AnyBrand(r, q) == TRUE

(* r.id_imprint != access_scope.id_imprint() panics *)
SameBrand(r, q) == r.brand = q

(* A value's borrow of the AccessScope of brand q forbids to borrow it.  A *)
(* callback with an AccessScope of its own does not see the borrow; when   *)
(* the callback returns is left out, which adds behaviours.                *)
Borrows(v, q) == v.scope = q /\ v.lost # "scope"

(* The program can lend &AccessScope of brand q, and &mut AccessScope. *)
Reads(q) == \A v \in vals : Borrows(v, q) => ~ v.excl
Writes(q) == \A v \in vals : ~ Borrows(v, q)

(* Memory that can be accessed: n elements from r on are allocated. *)
Mapped(r, n) == Span(r.ptr, r.elem, n) \subseteq Memory

(***************************************************************************)
(* The program gets references, iterators, values and copies, and may drop *)
(* others in the same step.  References and iterators borrow nothing that  *)
(* matters here and are dropped only to make room for new ones.            *)
(***************************************************************************)
HoldRefs(new, others) ==
    /\ \E kept \in SUBSET refs : refs' = kept \union new
    /\ iters' \in SUBSET others
    /\ Cardinality(refs') + Cardinality(iters') =< MaxRefs

AddRef(r) == HoldRefs({r}, iters) /\ UNCHANGED <<mem, vals, copies>>

HoldVals(old, new) ==
    /\ \E kept \in SUBSET old : vals' = kept \union new
    /\ Cardinality(vals') =< MaxVals
    /\ UNCHANGED <<refs, copies, iters>>

AddVal(v) == HoldVals(vals, {v})

AddCopy(c) == /\ \E kept \in SUBSET copies : copies' = kept \union {c}
              /\ Cardinality(copies') =< MaxCopies
              /\ UNCHANGED <<mem, refs, vals, iters>>

ReplaceCopy(c, d) == /\ copies' = (copies \ {c}) \union {d}
                     /\ UNCHANGED <<mem, refs, vals, iters>>

(* The values in S are no longer what they were, for the reason why. *)
Lose(S, why) ==
    {IF v \in S /\ v.lost # "scope" THEN [v EXCEPT !.lost = why] ELSE v : v \in vals}

(* Values that share bytes with the first n elements of r. *)
Overlapping(r, n) ==
    {v \in vals : Span(v.ref.ptr, v.ref.elem, v.ref.len) \cap Span(r.ptr, r.elem, n) # {}}

(* The values after a write to r under &mut AccessScope. *)
Overwritten(r) == IF r.checked = "write" THEN vals ELSE Lose(Overlapping(r, r.len), "bytes")

-----------------------------------------------------------------------------
(* Validity *)

(* What EFType::validate accepts for bool, and for the other primitives;   *)
(* ValidBytes is made of these.                                            *)
ValidBool == {s \in String(1) : s[0] < 2}
UnconditionallyValid(size) == String(size)

(* Element i of the array at p in the bytes m. *)
Element(m, p, e, i) == [j \in 0 .. Size[e] - 1 |-> m[p + i * Size[e] + j]]

(* EFType::validate for n elements of type e *)
ElementsValid(m, p, e, n) == \A i \in 0 .. n - 1 : Element(m, p, e, i) \in ValidBytes[e]

TextValid(m, p, n) == [i \in 0 .. n - 1 |-> m[p + i]] \in Utf8

ValValid(m, v) == IF v.str THEN TextValid(m, v.ref.ptr, v.ref.len)
                           ELSE ElementsValid(m, v.ref.ptr, v.ref.elem, v.ref.len)

(* The EFVal or EFSliceVal that assume_valid makes of r. *)
AssumeValid(r, q, excl) ==
    [ref |-> [r EXCEPT !.mut = FALSE], scope |-> q, excl |-> excl, str |-> FALSE,
     lost |-> "nothing"]

Validate(r, q) ==
    /\ SameBrand(r, q)
    /\ Reads(q)
    /\ \/ DISABLE_VALIDATION_CHECKS
       \/ Mapped(r, r.len) /\ ElementsValid(mem, r.ptr, r.elem, r.len)
    /\ AddVal(AssumeValid(r, q, FALSE))
    /\ UNCHANGED mem

ValidateMutRef(r, q)   == r.mut /\ r.form # "slice" /\ Validate(r, q)
ValidateMutSlice(r, q) == r.mut /\ r.form = "slice" /\ Validate(r, q)
ValidateRef(r, q)      == ~ r.mut /\ r.form # "slice" /\ Validate(r, q)
ValidateSlice(r, q)    == ~ r.mut /\ r.form = "slice" /\ Validate(r, q)

ValidateAsStr(r, q) ==
    /\ ~ r.mut /\ r.form = "slice" /\ r.elem = U8
    /\ SameBrand(r, q)
    /\ Reads(q)
    /\ DISABLE_VALIDATION_CHECKS \/ (Mapped(r, r.len) /\ TextValid(mem, r.ptr, r.len))
    /\ AddVal([AssumeValid(r, q, FALSE) EXCEPT !.str = TRUE])
    /\ UNCHANGED mem

(* The borrow of a value ends. *)
DropVal(v) == vals' = vals \ {v} /\ UNCHANGED <<mem, refs, copies, iters>>

-----------------------------------------------------------------------------
(* References *)

AsImmut(r)      == r.mut /\ r.form # "slice" /\ AddRef([r EXCEPT !.mut = FALSE])
SliceAsImmut(r) == r.mut /\ r.form = "slice" /\ AddRef([r EXCEPT !.mut = FALSE])

(* sub_ref_unchecked, and efmutref_get_field!: unsafe; the caller promises *)
(* that a U (e, or [e; n]) lies at that offset of the T.                   *)
SubRefUnchecked(r, offset, form, e, n) ==
    /\ r.form # "slice"
    /\ offset + n * Size[e] =< r.len * Size[r.elem]
    /\ \E p \in {(r.ptr + offset) % (MaxUsize + 1)} :
          IsAligned(p, e) /\ AddRef(NewRef(form, r.mut, r.brand, p, e, n, r.checked))

(* get of an array or slice reference *)
Get(r, i) ==
    IF i < r.len
      THEN {NewRef("one", r.mut, r.brand, Offset(r.ptr, r.elem, i), r.elem, 1, r.checked)}
      ELSE {}

(* EFMutSlice has no get, and no iter. *)
GetElement(r, i) == \E e \in Get(r, i) : AddRef(e)
MutRefGet(r, i)  == r.mut /\ r.form = "array" /\ GetElement(r, i)
RefGet(r, i)     == ~ r.mut /\ r.form = "array" /\ GetElement(r, i)
SliceGet(r, i)   == ~ r.mut /\ r.form = "slice" /\ GetElement(r, i)

AsSlice(r) == ~ r.mut /\ r.form = "array" /\ AddRef([r EXCEPT !.form = "slice"])

MakeIter(r) == /\ r.form = "array" \/ (r.form = "slice" /\ ~ r.mut)
               /\ HoldRefs({}, iters \union {[of |-> r, idx |-> 0]})
               /\ UNCHANGED <<mem, vals, copies>>

(* What next does; the program may ignore the element. *)
Advance(it, idx) ==
    /\ \E new \in SUBSET Get(it.of, it.idx) :
          HoldRefs(new, (iters \ {it}) \union {[it EXCEPT !.idx = idx]})
    /\ UNCHANGED <<mem, vals, copies>>

(* Mutant of IterNext: the index is advanced, and wraps, whatever it is. *)
IterNextWraps(it) == Advance(it, (it.idx + 1) % (MaxUsize + 1))

(* next: past the end, the index stays and nothing is returned. *)
IterNext(it) == Get(it.of, it.idx) # {} /\ Advance(it, it.idx + 1)
MutRefIterNext(it) == it.of.mut /\ IterNext(it)
RefIterNext(it)    == ~ it.of.mut /\ it.of.form = "array" /\ IterNext(it)
SliceIterNext(it)  == ~ it.of.mut /\ it.of.form = "slice" /\ IterNext(it)

-----------------------------------------------------------------------------
(* Validated values *)

(* EFVal::as_ref and as_mut; EFSliceVal and EFVal<str> have neither. *)
Sized(v) == ~ v.str /\ v.ref.form # "slice"

AsRef(v) == Sized(v) /\ AddRef(v.ref)

(* as_mut takes any EFVal, also that of a reference to immutable memory. *)
AsMut(v) == Sized(v) /\ AddRef([v.ref EXCEPT !.mut = TRUE])

(* EFVal::as_array reinterprets the EFVal itself, which holds one pointer  *)
(* and one id, as an array of EFVals: element 0 has both of them, the      *)
(* others have what happens to follow on the stack.                        *)
Elements(r, i) ==
    IF i = 0 THEN {[r EXCEPT !.form = "one", !.len = 1]}
             ELSE {NewRef("one", r.mut, q, p, r.elem, 1, "none") : q \in Brands, p \in StackWords}

AsArray(v, i) ==
    /\ Sized(v) /\ v.ref.form = "array"
    /\ i < v.ref.len
    /\ \E e \in Elements(v.ref, i) : AddVal([v EXCEPT !.ref = e])
    /\ UNCHANGED mem

-----------------------------------------------------------------------------
(* Writes *)

(* Memory after n valid elements have been written to r. *)
Stores(r, n) ==
    {m \in [Memory -> Byte] :
        /\ \A a \in Memory \ Span(r.ptr, r.elem, n) : m[a] = mem[a]
        /\ ElementsValid(m, r.ptr, r.elem, n)}

(* What is written to r, and the EFVal that is returned (and that the      *)
(* program may drop at once); it keeps &mut AccessScope.                   *)
WriteElements(r, q) ==
    /\ r.mut /\ r.form # "slice"
    /\ SameBrand(r, q)
    /\ Mapped(r, r.len)
    /\ mem' \in Stores(r, r.len)
    /\ \E new \in SUBSET {AssumeValid(r, q, TRUE)} : HoldVals(Overwritten(r), new)

(* Mutant of Write: &AccessScope is enough. *)
WriteShared(r, q) == Reads(q) /\ WriteElements(r, q)

(* EFMutRef::write takes &mut AccessScope. *)
Write(r, q) == Writes(q) /\ WriteElements(r, q)

(* EFMutRef::write_ref *)
WriteRef(r, q) == Write(r, q)

(* EFMutRef<[T; N]>::copy_from_slice, with a source of length N *)
ArrayCopyFromSlice(r, q) ==
    /\ r.mut /\ r.form = "array"
    /\ SameBrand(r, q)
    /\ Writes(q)
    /\ Mapped(r, r.len)
    /\ mem' \in Stores(r, r.len)
    /\ vals' = Overwritten(r)
    /\ UNCHANGED <<refs, copies, iters>>

(* The first n elements of a slice are written under a shared AccessScope, *)
(* and a value is returned if it has enough; the program may drop it.  One *)
(* that it holds already could not be told from the new one.               *)
WriteSlice(r, q, n, enough) ==
    /\ r.mut /\ r.form = "slice"
    /\ SameBrand(r, q)
    /\ Reads(q)
    /\ n =< r.len
    /\ Mapped(r, n)
    /\ mem' \in Stores(r, n)
    /\ \E new \in SUBSET ({AssumeValid(r, q, FALSE)} \ vals) :
          (enough \/ new = {}) /\ HoldVals(Lose(Overlapping(r, n), "bytes"), new)

(* Mutant of WriteFromIter: the number of elements is not asserted. *)
WriteFromShortIter(r, q, n) == WriteSlice(r, q, n, TRUE)

(* EFMutSlice::write_from_iter, with an iterator that yields n elements or *)
(* more than fit.  A short one leaves what it wrote behind and panics.     *)
WriteFromIter(r, q, n) == WriteSlice(r, q, n, n = r.len)

(* EFMutSlice::copy_from_slice *)
CopyFromSlice(r, q, n) == WriteFromIter(r, q, n)

(***************************************************************************)
(* EncapfnRt::execute: foreign code does what it likes to the mutable      *)
(* memory of its runtime.  It may call back; the callback gets a new       *)
(* AccessScope, of the brand h of the innermost setup_callback, which need *)
(* not be q, and does what the program does between two calls.  Of the     *)
(* values that are held in the meantime it knows nothing.                  *)
(***************************************************************************)
Execute(q, h) ==
    /\ Writes(q)
    /\ mem' \in {m \in [Memory -> Byte] :
                    \A a \in Allocs : ~ (a.brand = q /\ a.mutable) =>
                        \A b \in BytesOf(a) : m[b] = mem[b]}
    /\ vals' = Lose({v \in vals : v.scope = h}, "scope")
    /\ UNCHANGED <<refs, copies, iters>>

-----------------------------------------------------------------------------
(* Copies *)

MakeCopy(e, n, bytes) == [elem |-> e, len |-> n, bytes |-> bytes, state |-> "raw"]

(* as_bytes of the memory behind r *)
AsBytes(r) == [j \in 1 .. r.len * Size[r.elem] |-> mem[r.ptr + j - 1]]

(* EFCopy::new, with a value, and EFCopy::zeroed *)
CopyNew(e, n) ==
    \E bytes \in [1 .. n * Size[e] -> Byte] :
        ElementsValid(bytes, 1, e, n) /\ AddCopy(MakeCopy(e, n, bytes))
CopyZeroed(e, n) == AddCopy(MakeCopy(e, n, [j \in 1 .. n * Size[e] |-> 0]))

(* From<MaybeUninit<T>>: a copy of bytes that may not be initialized. *)
CopyFromUninit(e, n) == \E bytes \in [1 .. n * Size[e] -> Byte] : AddCopy(MakeCopy(e, n, bytes))

CopyClone(c) == c.state # "owned" /\ AddCopy([c EXCEPT !.state = "raw"])

(* EFRef::copy and EFMutRef::copy *)
CopyFrom(r, q) == /\ r.form # "slice"
                  /\ SameBrand(r, q)
                  /\ Reads(q)
                  /\ Mapped(r, r.len)
                  /\ AddCopy(MakeCopy(r.elem, r.len, AsBytes(r)))
CopyRef(r, q)    == ~ r.mut /\ CopyFrom(r, q)
CopyMutRef(r, q) == r.mut /\ CopyFrom(r, q)

(* EFCopy::update_from_ref and update_from_mut_ref *)
UpdateFrom(c, r, q) ==
    /\ c.state = "raw" /\ r.form # "slice"
    /\ c.elem = r.elem /\ c.len = r.len
    /\ SameBrand(r, q)
    /\ Reads(q)
    /\ Mapped(r, r.len)
    /\ ReplaceCopy(c, [c EXCEPT !.bytes = AsBytes(r)])
UpdateFromRef(c, r, q)    == ~ r.mut /\ UpdateFrom(c, r, q)
UpdateFromMutRef(c, r, q) == r.mut /\ UpdateFrom(c, r, q)

(* Mutant of CopyIsValid: only the first element is validated. *)
FirstElementIsValid(c) ==
    DISABLE_VALIDATION_CHECKS \/ ElementsValid(c.bytes, 1, c.elem, IF c.len = 0 THEN 0 ELSE 1)

CopyIsValid(c) == DISABLE_VALIDATION_CHECKS \/ ElementsValid(c.bytes, 1, c.elem, c.len)

(* validate consumes the copy, validate_ref borrows it, and validate_copy  *)
(* makes a T from a clone of it.                                           *)
CopyValidate(c)     == /\ c.state = "raw"
                       /\ CopyIsValid(c)
                       /\ ReplaceCopy(c, [c EXCEPT !.state = "owned"])
CopyValidateRef(c)  == /\ c.state = "raw"
                       /\ CopyIsValid(c)
                       /\ ReplaceCopy(c, [c EXCEPT !.state = "lent"])
CopyValidateCopy(c) == /\ c.state # "owned"
                       /\ CopyIsValid(c)
                       /\ AddCopy([c EXCEPT !.state = "owned"])

(* The borrow of a validated reference ends; a copy or a T is dropped. *)
EndLend(c) == c.state = "lent" /\ ReplaceCopy(c, [c EXCEPT !.state = "raw"])
DropCopy(c) == copies' = copies \ {c} /\ UNCHANGED <<mem, refs, vals, iters>>

(* EFMutRef::write_copy: the bytes need not be valid. *)
WriteCopy(r, c, q) ==
    /\ r.mut /\ r.form # "slice" /\ c.state # "owned"
    /\ c.elem = r.elem /\ c.len = r.len
    /\ SameBrand(r, q)
    /\ Writes(q)
    /\ Mapped(r, r.len)
    /\ mem' = [a \in Memory |-> IF a \in Span(r.ptr, r.elem, r.len)
                                THEN c.bytes[a - r.ptr + 1] ELSE mem[a]]
    /\ vals' = Overwritten(r)
    /\ UNCHANGED <<refs, copies, iters>>

-----------------------------------------------------------------------------

MakeRef ==
    \E q \in Brands, p \in Ptr, e \in Elems :
        \/ \E r \in Upgrade("one", q, p, e, 1) \union UpgradeMut("one", q, p, e, 1) : AddRef(r)
        \/ \E n \in Lengths :
              \E r \in UNION {Upgrade("array", q, p, e, n), UpgradeMut("array", q, p, e, n),
                              UpgradeSlice(q, p, e, n), UpgradeSliceMut(q, p, e, n)} : AddRef(r)

FromRef(r) ==
    \/ AsImmut(r) \/ SliceAsImmut(r) \/ AsSlice(r) \/ MakeIter(r)
    \/ \E i \in 0 .. r.len : MutRefGet(r, i) \/ RefGet(r, i) \/ SliceGet(r, i)
    \/ \E offset \in 0 .. r.len * Size[r.elem], e \in Elems :
          \/ SubRefUnchecked(r, offset, "one", e, 1)
          \/ \E n \in Lengths : SubRefUnchecked(r, offset, "array", e, n)

UseRef(r, q) ==
    \/ ValidateMutRef(r, q) \/ ValidateMutSlice(r, q)
    \/ ValidateRef(r, q) \/ ValidateSlice(r, q) \/ ValidateAsStr(r, q)
    \/ Write(r, q) \/ WriteRef(r, q) \/ ArrayCopyFromSlice(r, q)
    \/ \E n \in 0 .. r.len : WriteFromIter(r, q, n) \/ CopyFromSlice(r, q, n)
    \/ CopyRef(r, q) \/ CopyMutRef(r, q)
    \/ \E c \in copies : \/ UpdateFromRef(c, r, q)
                         \/ UpdateFromMutRef(c, r, q)
                         \/ WriteCopy(r, c, q)

FromVal(v) ==
    \/ AsRef(v) \/ AsMut(v) \/ DropVal(v)
    \/ \E i \in 0 .. v.ref.len : AsArray(v, i)

FromCopy(c) ==
    \/ CopyClone(c) \/ CopyValidate(c) \/ CopyValidateRef(c) \/ CopyValidateCopy(c)
    \/ EndLend(c) \/ DropCopy(c)

Next ==
    \/ MakeRef
    \/ \E r \in refs : FromRef(r)
    \/ \E r \in refs, q \in Brands : UseRef(r, q)
    \/ \E v \in vals : FromVal(v)
    \/ /\ MaxCopies > 0
       /\ \E e \in Elems, n \in Lengths \union {1} :
             CopyNew(e, n) \/ CopyZeroed(e, n) \/ CopyFromUninit(e, n)
    \/ \E c \in copies : FromCopy(c)
    \/ \E it \in iters : MutRefIterNext(it) \/ RefIterNext(it) \/ SliceIterNext(it)
    \/ \E q, h \in Brands : Execute(q, h)

Spec == Init /\ [][Next]_vars

-----------------------------------------------------------------------------
(* Properties *)

(* Every part of the state has its type: addresses and bytes are in their  *)
(* ranges, and an iterator's index is at most the length it iterates over. *)
TypeOK ==
    /\ mem \in [Memory -> Byte]
    /\ refs \subseteq Ref
    /\ vals \subseteq Val
    /\ copies \subseteq Copy
    /\ \A c \in copies : Len(c.bytes) = c.len * Size[c.elem]
    /\ iters \subseteq Iter
    /\ \A it \in iters : it.idx =< it.of.len

(* References, values and iterators that an upgrade has checked stay       *)
(* within one tracked allocation of their brand and are aligned, however   *)
(* they were derived from one another: EFRef is "validated to be           *)
(* well-aligned and contained in (im)mutably-accessible memory".           *)
RefsInBounds ==
    /\ \A r \in refs : r.checked # "none" => InBounds(r)
    /\ \A v \in vals : v.ref.checked # "none" => InBounds(v.ref)
    /\ \A it \in iters : it.of.checked # "none" => InBounds(it.of)

(* The same of all references, as the comment says: it does not hold.      *)
AllRefsInBounds == \A r \in refs : InBounds(r)

(* References that were upgraded as mutable ones lead to mutable           *)
(* allocations, however they were derived from one another: EFMutRef is    *)
(* "validated to be well-aligned and contained in mutably-accessible       *)
(* memory".  The others are those EFVal::as_mut makes of immutable ones.   *)
MutRefsMutable ==
    /\ \A r \in refs : r.checked = "write" => MutablyInBounds(r)
    /\ \A v \in vals : v.ref.checked = "write" => MutablyInBounds(v.ref)
    /\ \A it \in iters : it.of.checked = "write" => MutablyInBounds(it.of)

(* A value that is still protected by its borrow of the AccessScope. *)
Protected(v) == v.lost = "nothing" /\ v.ref.checked # "none"

(* A validated value is valid for as long as the program can use it: of    *)
(* whatever runs, only a slice that is written under a shared scope, a     *)
(* callback with another scope of the same brand, and writes through       *)
(* references not checked for writing can change that.                     *)
ValidatedIsValid == \A v \in vals : Protected(v) => ValValid(mem, v)

(* The memory of a validated value does not change while the program can   *)
(* use it, with the same exceptions: it is a shared Rust reference.        *)
ValidatedUnchanged ==
    [][\A v \in vals \cap vals' : Protected(v) =>
          \A a \in Span(v.ref.ptr, v.ref.elem, v.ref.len) : mem'[a] = mem[a]]_vars

(* The same without exceptions, while write_from_iter or copy_from_slice   *)
(* writes a slice of the value's brand.  The code does not keep this.      *)
ValidatedNeverChanges ==
    [][\A v \in vals : \A w \in vals' :
          [v EXCEPT !.lost = w.lost] = w =>
              \A a \in Span(v.ref.ptr, v.ref.elem, v.ref.len) : mem'[a] = mem[a]]_vars

(* Immutable allocations, such as borrowed Rust values that the runtime    *)
(* tracks without copying, are written by nobody, neither by foreign code  *)
(* nor through any reference that was upgraded as a mutable one.           *)
ImmutableUnchanged ==
    [][\A a \in Allocs : ~ a.mutable => \A b \in BytesOf(a) :
          \/ mem'[b] = mem[b]
          \/ \E r \in refs : /\ r.mut /\ r.checked # "write"
                             /\ b \in Span(r.ptr, r.elem, r.len)]_vars

(* What was validated in a copy stays valid: a T made from it, and the     *)
(* bytes behind a reference, whatever happens to the memory copied from.   *)
CopiesValid ==
    \A c \in copies : c.state # "raw" => ElementsValid(c.bytes, 1, c.elem, c.len)
=============================================================================
