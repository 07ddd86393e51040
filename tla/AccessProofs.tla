---------------------------- MODULE AccessProofs ----------------------------
(***************************************************************************)
(* What holds of every access to foreign memory, whatever the allocations, *)
(* types, bytes and bounds, whether or not arithmetic wraps around and     *)
(* checks are disabled.  The proof is in three layers: arithmetic of       *)
(* pointer ranges, the shape of every step (which references, values and   *)
(* copies it adds, and which memory it changes), and the invariants.       *)
(***************************************************************************)
EXTENDS Access, TLAPS

(* A reference that, if it was checked, is aligned and within one          *)
(* allocation, a mutable one if it was checked for writing.                *)
Good(r) == /\ r \in Ref
           /\ r.checked # "none" =>
                 /\ IsAligned(r.ptr, r.elem)
                 /\ \E a \in Allocs : Within(r, a) /\ (r.checked = "write" => a.mutable)

GoodVal(v) == /\ v \in Val
              /\ Good(v.ref)
              /\ v.ref.checked # "none" => v.scope = v.ref.brand
              /\ v.str => v.ref.elem = U8

GoodCopy(c) == c \in Copy /\ Len(c.bytes) = c.len * Size[c.elem]

GoodIter(it) == it \in Iter /\ Good(it.of) /\ it.idx =< it.of.len

BoundsInv == /\ mem \in [Memory -> Byte]
             /\ \A r \in refs : Good(r)
             /\ \A v \in vals : GoodVal(v)
             /\ \A c \in copies : GoodCopy(c)
             /\ \A it \in iters : GoodIter(it)

-----------------------------------------------------------------------------
(* Arithmetic *)

(* Multiplication is monotonic. *)
LEMMA MulMono == \A a, b, c \in Nat : a =< b => a * c =< b * c /\ a * c \in Nat /\ b * c \in Nat
PROOF
  <1> SUFFICES ASSUME NEW a \in Nat, NEW b \in Nat, NEW c \in Nat, a =< b
               PROVE  a * c =< b * c /\ a * c \in Nat /\ b * c \in Nat
      OBVIOUS
  <1>1. PICK d \in Nat : b = a + d
    <2>1. b - a \in Nat /\ b = a + (b - a)
      OBVIOUS
    <2> QED BY <2>1
  <1>2. b * c = a * c + d * c /\ d * c \in Nat /\ a * c \in Nat /\ b * c \in Nat
    BY <1>1
  <1> QED BY <1>2

(* Byte j of element i is one of the bytes of n elements. *)
LEMMA IndexInRange ==
    \A n, s \in Nat : \A i \in 0 .. n - 1, j \in 0 .. s - 1 :
        i * s + j \in Nat /\ i * s + j < n * s
PROOF
  <1> SUFFICES ASSUME NEW n \in Nat, NEW s \in Nat, NEW i \in 0 .. n - 1, NEW j \in 0 .. s - 1
               PROVE  i * s + j \in Nat /\ i * s + j < n * s
      OBVIOUS
  <1>1. (i + 1) * s =< n * s /\ n * s \in Nat /\ i * s \in Nat
    BY MulMono, i \in Nat, i + 1 \in Nat, i + 1 =< n, i =< n
  <1>2. (i + 1) * s = i * s + s
    BY i \in Nat
  <1> QED BY <1>1, <1>2

(* A reference lies within an allocation exactly when its first byte and   *)
(* the end of its last one do.                                             *)
LEMMA WithinRange ==
    ASSUME NEW r \in Ref, NEW a \in Allocs
    PROVE  Within(r, a) <=> /\ a.brand = r.brand
                            /\ a.ptr =< r.ptr
                            /\ r.ptr + r.len * Size[r.elem] =< a.ptr + a.len
PROOF
  <1> DEFINE n == r.len * Size[r.elem]
  <1>1. r.ptr \in Nat /\ a.ptr \in Nat /\ a.len \in Nat /\ n \in Nat
    <2>1. r.len \in Nat /\ Size[r.elem] \in Nat
      BY UpgradeAssumption DEF Ref
    <2>2. n \in Nat
      BY <2>1, MulMono
    <2> QED BY <2>2, UpgradeAssumption DEF Ref, Allocation, USize
  <1> HIDE DEF n
  <1>2. Span(r.ptr, r.elem, r.len) = r.ptr .. r.ptr + n - 1
    BY DEF Span, n
  <1>3. ASSUME Within(r, a) PROVE a.ptr =< r.ptr /\ r.ptr + n =< a.ptr + a.len
    <2>1. a.ptr =< r.ptr /\ r.ptr =< a.ptr + a.len
      BY <1>1, <1>3 DEF Within
    <2>2. CASE n = 0
      BY <1>1, <2>1, <2>2
    <2>3. CASE n > 0
      <3>1. r.ptr + n - 1 \in Span(r.ptr, r.elem, r.len)
        BY <1>1, <1>2, <2>3
      <3>2. r.ptr + n - 1 \in a.ptr .. a.ptr + a.len - 1
        BY <3>1, <1>3 DEF Within, BytesOf
      <3> QED BY <1>1, <2>1, <3>2
    <2> QED BY <1>1, <2>2, <2>3
  <1>4. ASSUME a.brand = r.brand, a.ptr =< r.ptr, r.ptr + n =< a.ptr + a.len
        PROVE  Within(r, a)
    BY <1>1, <1>2, <1>4 DEF Within, BytesOf
  <1> QED BY <1>3, <1>4 DEF Within, n

(* Elements of a type follow one another without breaking its alignment.   *)
LEMMA ElementAligned ==
    ASSUME NEW e \in Elems, NEW p \in Nat, NEW i \in Nat, IsAligned(p, e)
    PROVE  IsAligned(p + i * Size[e], e)
PROOF
  <1> DEFINE A == Align[e]
             S == Size[e]
  <1>1. PICK k \in 0 .. p : p = k * A
    BY DEF IsAligned
  <1>2. PICK m \in 0 .. S : S = m * A
    BY UpgradeAssumption
  <1>3. A \in Nat /\ A >= 1 /\ S \in Nat /\ k \in Nat /\ m \in Nat
    BY UpgradeAssumption
  <1> HIDE DEF A, S
  <1>4. p + i * S = (k + i * m) * A
    <2>1. i * S = (i * m) * A
      BY <1>2, <1>3
    <2>2. i * m \in Nat
      BY <1>3, MulMono
    <2> QED BY <1>1, <1>3, <2>1, <2>2
  <1>5. k + i * m \in 0 .. p + i * S
    <2>1. i * m =< i * S /\ i * m \in Nat /\ i * S \in Nat
      <3>1. m * i =< S * i /\ m * i \in Nat /\ S * i \in Nat
        BY <1>3, <1>2, MulMono
      <3>2. m * i = i * m /\ S * i = i * S
        BY <1>3
      <3> QED BY <3>1, <3>2
    <2>2. k =< p
      BY <1>1
    <2> QED BY <2>1, <2>2, <1>3
  <1> QED BY <1>4, <1>5 DEF IsAligned, A, S

(* An address is one, wrapped around or not, and most do not wrap around.  *)
LEMMA Wrapped ==
    \A x \in Nat : /\ x % (MaxUsize + 1) \in USize
                   /\ x =< MaxUsize => x % (MaxUsize + 1) = x
PROOF
  <1>1. MaxUsize \in Nat
    BY UpgradeAssumption
  <1> QED BY <1>1 DEF USize

-----------------------------------------------------------------------------
(* References derived from one another *)

(* A part of a good reference is good if it is aligned for its type, in    *)
(* case the reference was checked.                                         *)
LEMMA PartGood ==
    ASSUME NEW r, Good(r), NEW s \in Ref,
           s.checked = r.checked, s.brand = r.brand,
           r.checked # "none" =>
              /\ IsAligned(s.ptr, s.elem)
              /\ r.ptr =< s.ptr
              /\ s.ptr + s.len * Size[s.elem] =< r.ptr + r.len * Size[r.elem]
    PROVE  Good(s)
PROOF
  <1> SUFFICES ASSUME s.checked # "none"
               PROVE  \E a \in Allocs : Within(s, a) /\ (s.checked = "write" => a.mutable)
      BY DEF Good
  <1>1. r \in Ref
    BY DEF Good
  <1>2. PICK a \in Allocs : Within(r, a) /\ (r.checked = "write" => a.mutable)
    BY DEF Good
  <1>3. /\ a.brand = r.brand
        /\ a.ptr =< r.ptr
        /\ r.ptr + r.len * Size[r.elem] =< a.ptr + a.len
    BY <1>1, <1>2, WithinRange
  <1>4. /\ r.ptr \in Nat /\ s.ptr \in Nat /\ a.ptr \in Nat /\ a.len \in Nat
        /\ r.len * Size[r.elem] \in Nat /\ s.len * Size[s.elem] \in Nat
    <2>1. /\ r.len \in Nat /\ Size[r.elem] \in Nat
          /\ s.len \in Nat /\ Size[s.elem] \in Nat
      BY <1>1, UpgradeAssumption DEF Ref
    <2> QED BY <1>1, <2>1, MulMono, UpgradeAssumption DEF Ref, USize, Allocation
  <1>5. Within(s, a)
    <2>1. a.ptr =< s.ptr /\ s.ptr + s.len * Size[s.elem] =< a.ptr + a.len
      BY <1>3, <1>4
    <2> QED BY <2>1, <1>3, WithinRange
  <1> QED BY <1>2, <1>5

(* All addresses of a checked reference, its end included, are addresses.  *)
LEMMA EndIsAddress ==
    ASSUME NEW r, Good(r), r.checked # "none"
    PROVE  r.ptr + r.len * Size[r.elem] \in USize
PROOF
  <1>1. r \in Ref
    BY DEF Good
  <1>2. PICK a \in Allocs : r.ptr + r.len * Size[r.elem] =< a.ptr + a.len
    BY <1>1, WithinRange DEF Good
  <1>3. r.len * Size[r.elem] \in Nat
    BY <1>1, MulMono, UpgradeAssumption DEF Ref
  <1>4. a.ptr + a.len \in Nat /\ a.ptr + a.len =< MaxUsize
    BY UpgradeAssumption DEF Allocation, USize
  <1> QED BY <1>1, <1>2, <1>3, <1>4, UpgradeAssumption DEF Ref, USize

(* An element of a good array or slice is good.                            *)
LEMMA GetGood ==
    ASSUME NEW r, Good(r), NEW i \in Nat, NEW s \in Get(r, i)
    PROVE  Good(s) /\ i < r.len
PROOF
  <1> DEFINE S == Size[r.elem]
             p == Offset(r.ptr, r.elem, i)
  <1>1. /\ r \in Ref /\ r.len \in Nat /\ r.ptr \in Nat /\ S \in Nat /\ r.elem \in Elems
        /\ MaxUsize \in Nat
    BY UpgradeAssumption DEF Good, Ref, USize
  <1>2. i < r.len /\ s = NewRef("one", r.mut, r.brand, p, r.elem, 1, r.checked)
    BY DEF Get
  <1>3. i * S \in Nat /\ r.len * S \in Nat /\ i * S + S =< r.len * S
    <2>1. (i + 1) * S =< r.len * S /\ r.len * S \in Nat /\ i * S \in Nat
      BY <1>1, <1>2, MulMono, i + 1 \in Nat, i + 1 =< r.len, i =< r.len
    <2>2. (i + 1) * S = i * S + S
      BY <1>1
    <2> QED BY <2>1, <2>2
  <1>4. p \in USize
    BY <1>1, <1>3, Wrapped DEF Offset
  <1>5. s \in Ref /\ s.checked = r.checked /\ s.brand = r.brand
        /\ s.ptr = p /\ s.elem = r.elem /\ s.len = 1
    BY <1>1, <1>2, <1>4 DEF Ref, NewRef, Forms
  <1>6. ASSUME r.checked # "none"
        PROVE  /\ IsAligned(s.ptr, s.elem)
               /\ r.ptr =< s.ptr
               /\ s.ptr + s.len * Size[s.elem] =< r.ptr + r.len * Size[r.elem]
    <2>1. r.ptr + r.len * S \in 0 .. MaxUsize
      BY <1>6, EndIsAddress DEF USize
    <2>2. r.ptr + i * S =< MaxUsize /\ r.ptr + i * S \in Nat
      BY <2>1, <1>1, <1>3
    <2>3. p = r.ptr + i * S
      BY <2>2, Wrapped DEF Offset
    <2>4. IsAligned(p, r.elem)
      BY <1>1, <1>6, <2>3, ElementAligned DEF Good
    <2>5. 1 * S = S
      BY <1>1
    <2> HIDE DEF S, p
    <2>6. p + S =< r.ptr + r.len * S /\ r.ptr =< p
      BY <1>1, <1>3, <2>3
    <2> QED BY <1>5, <2>4, <2>5, <2>6 DEF S
  <1> QED BY <1>2, <1>5, <1>6, PartGood

(* A reference of another form, or that may be written or not, to the same *)
(* memory.                                                                 *)
LEMMA ReshapedGood ==
    ASSUME NEW r, Good(r), NEW form \in Forms, NEW mut \in BOOLEAN
    PROVE  Good([r EXCEPT !.form = form, !.mut = mut])
PROOF
  <1> DEFINE s == [r EXCEPT !.form = form, !.mut = mut]
  <1>1. r \in Ref
    BY DEF Good
  <1>2. /\ s \in Ref /\ s.checked = r.checked /\ s.brand = r.brand
        /\ s.ptr = r.ptr /\ s.elem = r.elem /\ s.len = r.len
    BY <1>1 DEF Ref
  <1> HIDE DEF s
  <1>3. Good(s)
    BY <1>2 DEF Good, Within
  <1> QED BY <1>3 DEF s

(* What an upgrade of n elements returns is good if, unless checks are     *)
(* disabled or n elements are too many bytes, it is aligned and its brand  *)
(* finds all of its bytes to be valid.                                     *)
LEMMA MatchGood ==
    ASSUME NEW form \in Forms, NEW mut \in BOOLEAN, NEW q \in Brands, NEW p \in Ptr,
           NEW e \in Elems, NEW n \in Nat,
           ~ DISABLE_UPGRADE_CHECKS /\ n * Size[e] =< MaxUsize =>
              IsAligned(p, e) /\ IsValid(q, p, n * Size[e], mut)
    PROVE  Good(NewRef(form, mut, q, p, e, n, Checked(q, e, n, IF mut THEN "write" ELSE "read")))
PROOF
  <1> DEFINE c == Checked(q, e, n, IF mut THEN "write" ELSE "read")
             r == NewRef(form, mut, q, p, e, n, c)
  <1>1. /\ c \in Checks
        /\ c = "write" => mut
        /\ c # "none" => /\ ~ DISABLE_UPGRADE_CHECKS /\ q \notin AllUpgradesValid
                         /\ ~ n * Size[e] > MaxUsize
    BY DEF Checked, Checks
  <1>2. n * Size[e] \in Nat /\ MaxUsize \in Nat
    BY MulMono, UpgradeAssumption
  <1> HIDE DEF c
  <1>3. /\ r \in Ref /\ r.checked = c /\ r.brand = q /\ r.ptr = p /\ r.elem = e /\ r.len = n
    BY <1>1 DEF NewRef, Ref, Ptr
  <1> HIDE DEF r
  <1>4. ASSUME c # "none" PROVE Good(r)
    <2>1. IsAligned(p, e) /\ IsValid(q, p, n * Size[e], mut) /\ q \notin AllUpgradesValid
      BY <1>1, <1>2, <1>4
    <2>2. PICK a \in Allocs : a.brand = q /\ Matches(a, p, n * Size[e], mut)
      BY <2>1 DEF IsValid
    <2>3. Within(r, a)
      BY <1>3, <2>2, WithinRange DEF Matches
    <2> QED BY <1>1, <1>3, <2>1, <2>2, <2>3 DEF Good, Matches
  <1>5. Good(r)
    BY <1>3, <1>4 DEF Good
  <1> QED BY <1>5 DEF r, c

(* What an upgrade returns, whatever pointer and length it is given, and   *)
(* whether or not multiplication wraps around: unless the checks are       *)
(* disabled, the brand declares all pointers valid, or the elements are    *)
(* more bytes than usize can say, it is aligned and all its bytes are      *)
(* those of one tracked allocation of the brand, of a mutable one if it is *)
(* a mutable reference.                                                    *)
THEOREM UpgradesGood ==
    ASSUME NEW q \in Brands, NEW p \in Ptr, NEW e \in Elems, NEW n \in Nat,
           NEW form \in Forms,
           NEW r \in UNION {Upgrade(form, q, p, e, n), UpgradeMut(form, q, p, e, n),
                            UpgradeSlice(q, p, e, n), UpgradeSliceMut(q, p, e, n)}
    PROVE  /\ Good(r)
           /\ (/\ ~ DISABLE_UPGRADE_CHECKS
               /\ q \notin AllUpgradesValid
               /\ n * Size[e] =< MaxUsize) =>
                  InBounds(r) /\ (r.mut => MutablyInBounds(r))
PROOF
  <1> DEFINE c == Checked(q, e, n, IF r.mut THEN "write" ELSE "read")
  <1>1. /\ n * Size[e] \in Nat /\ MaxUsize \in Nat
        /\ "slice" \in Forms
        /\ \A bytes \in ByteLength(e, n) : n * Size[e] =< MaxUsize => bytes = n * Size[e]
    BY MulMono, UpgradeAssumption DEF Forms, ByteLength
  <1>2. /\ Good(r) /\ r.checked = c /\ r.mut \in BOOLEAN
    <2>1. ASSUME NEW f \in Forms, NEW mut \in BOOLEAN,
                 r = NewRef(f, mut, q, p, e, n, Checked(q, e, n, IF mut THEN "write" ELSE "read")),
                 ~ DISABLE_UPGRADE_CHECKS /\ n * Size[e] =< MaxUsize =>
                    IsAligned(p, e) /\ IsValid(q, p, n * Size[e], mut)
          PROVE  Good(r) /\ r.checked = c /\ r.mut \in BOOLEAN
      <3>1. r.mut = mut /\ r.checked = Checked(q, e, n, IF mut THEN "write" ELSE "read")
        BY <2>1 DEF NewRef
      <3>2. Good(r)
        BY <2>1, MatchGood
      <3> QED BY <3>1, <3>2
    <2>2. CASE r \in Upgrade(form, q, p, e, n)
      BY <2>1, <2>2 DEF Upgrade
    <2>3. CASE r \in UpgradeMut(form, q, p, e, n)
      BY <2>1, <2>3 DEF UpgradeMut
    <2>4. CASE r \in UpgradeSlice(q, p, e, n)
      BY <1>1, <2>1, <2>4 DEF UpgradeSlice
    <2>5. CASE r \in UpgradeSliceMut(q, p, e, n)
      BY <1>1, <2>1, <2>5 DEF UpgradeSliceMut
    <2> QED BY <2>2, <2>3, <2>4, <2>5
  <1>3. ASSUME ~ DISABLE_UPGRADE_CHECKS, q \notin AllUpgradesValid, n * Size[e] =< MaxUsize
        PROVE  r.checked # "none" /\ (r.mut => r.checked = "write")
    <2>1. ~ n * Size[e] > MaxUsize
      BY <1>1, <1>3
    <2> QED BY <1>2, <1>3, <2>1 DEF Checked
  <1> QED BY <1>2, <1>3 DEF Good, InBounds, MutablyInBounds
-----------------------------------------------------------------------------
(* The bytes that validation reads *)

(* Memories that agree on the bytes of n elements have the same elements.  *)
LEMMA SameElements ==
    ASSUME NEW m, NEW mm, NEW p \in Nat, NEW e \in Elems, NEW n \in Nat,
           \A b \in Span(p, e, n) : mm[b] = m[b]
    PROVE  /\ ElementsValid(m, p, e, n) => ElementsValid(mm, p, e, n)
           /\ (Size[e] = 1 /\ TextValid(m, p, n)) => TextValid(mm, p, n)
PROOF
  <1> DEFINE S == Size[e]
  <1>1. S \in Nat /\ n * S \in Nat
    BY UpgradeAssumption, MulMono
  <1>2. ASSUME NEW i \in 0 .. n - 1
        PROVE  Element(mm, p, e, i) = Element(m, p, e, i)
    <2>1. ASSUME NEW j \in 0 .. S - 1 PROVE mm[p + i * S + j] = m[p + i * S + j]
      <3>1. i * S + j \in Nat /\ i * S + j < n * S
        BY <1>1, IndexInRange
      <3>2. i * S \in Nat
        BY <1>1, MulMono, i \in Nat
      <3>3. p + i * S + j \in p .. p + n * S - 1
        BY <1>1, <3>1, <3>2
      <3> QED BY <3>3 DEF Span, S
    <2> QED BY <2>1 DEF Element, S
  <1>3. ASSUME Size[e] = 1
        PROVE  [i \in 0 .. n - 1 |-> mm[p + i]] = [i \in 0 .. n - 1 |-> m[p + i]]
    <2>1. ASSUME NEW i \in 0 .. n - 1 PROVE mm[p + i] = m[p + i]
      BY <1>3 DEF Span
    <2> QED BY <2>1
  <1> QED BY <1>2, <1>3 DEF ElementsValid, TextValid

(* A value is valid in every memory that has its bytes. *)
LEMMA SameValue ==
    ASSUME NEW v, GoodVal(v), NEW m, NEW mm, ValValid(m, v),
           \A b \in Span(v.ref.ptr, v.ref.elem, v.ref.len) : mm[b] = m[b]
    PROVE  ValValid(mm, v)
PROOF
  <1>1. v.ref.ptr \in Nat /\ v.ref.elem \in Elems /\ v.ref.len \in Nat
    BY UpgradeAssumption DEF GoodVal, Good, Ref, USize
  <1>2. v.str => Size[v.ref.elem] = 1
    BY <1>1, AccessAssumption DEF GoodVal
  <1> QED BY <1>1, <1>2, SameElements DEF ValValid
-----------------------------------------------------------------------------
(* The shape of a step *)

(* Only mutable allocations of brand q change. *)
Frame(q) == \A a \in Allocs : ~ (a.brand = q /\ a.mutable) =>
                \A b \in BytesOf(a) : mem'[b] = mem[b]

(* Only the first n elements of r change. *)
WroteTo(r, n) == \A b \in Memory \ Span(r.ptr, r.elem, n) : mem'[b] = mem[b]

(* The action of ImmutableUnchanged *)
ImmutableKept ==
    \A a \in Allocs : ~ a.mutable => \A b \in BytesOf(a) :
        \/ mem'[b] = mem[b]
        \/ \E r \in refs : r.mut /\ r.checked # "write" /\ b \in Span(r.ptr, r.elem, r.len)

(* What a step adds is good, and it changes mutable memory only. *)
BoundsStep == BoundsInv' /\ ImmutableKept

(* The program gets a good reference. *)
LEMMA AddRefStep ==
    ASSUME BoundsInv, NEW r, Good(r), AddRef(r)
    PROVE  BoundsStep
PROOF
  BY DEF BoundsInv, BoundsStep, AddRef, HoldRefs, ImmutableKept

(* The program gets good values, and memory may have been written. *)
LEMMA HoldValsStep ==
    ASSUME BoundsInv, NEW old, NEW new, HoldVals(old, new),
           \A v \in old \union new : GoodVal(v), mem' \in [Memory -> Byte], ImmutableKept
    PROVE  BoundsStep
PROOF
  BY DEF BoundsInv, BoundsStep, HoldVals

(* The program gets a good value. *)
LEMMA AddValStep ==
    ASSUME BoundsInv, NEW v, GoodVal(v), AddVal(v), UNCHANGED mem
    PROVE  BoundsStep
PROOF
  <1>1. ImmutableKept /\ mem' \in [Memory -> Byte] /\ \A w \in vals \union {v} : GoodVal(w)
    BY DEF ImmutableKept, BoundsInv
  <1> QED BY <1>1, HoldValsStep DEF AddVal

(* The program gets a copy. *)
LEMMA AddCopyStep ==
    ASSUME BoundsInv, NEW c, GoodCopy(c), AddCopy(c)
    PROVE  BoundsStep
PROOF
  BY DEF BoundsInv, BoundsStep, AddCopy, ImmutableKept

(* A copy is changed. *)
LEMMA ReplaceCopyStep ==
    ASSUME BoundsInv, NEW c, NEW d, GoodCopy(d), ReplaceCopy(c, d)
    PROVE  BoundsStep
PROOF
  BY DEF BoundsInv, BoundsStep, ReplaceCopy, ImmutableKept

(* Values that are lost are the same in all other respects. *)
LEMMA LoseKeeps ==
    ASSUME BoundsInv, NEW S, NEW why \in {"bytes", "scope"}, NEW v \in Lose(S, why)
    PROVE  /\ GoodVal(v)
           /\ \/ v \in vals /\ (v \notin S \/ v.lost = "scope")
              \/ v.lost = why
PROOF
  <1>1. PICK w \in vals : v = IF w \in S /\ w.lost # "scope" THEN [w EXCEPT !.lost = why] ELSE w
    BY DEF Lose
  <1>2. GoodVal(w) /\ w \in Val
    BY DEF BoundsInv, GoodVal
  <1> DEFINE u == [w EXCEPT !.lost = why]
             unchanged == w \notin S \/ w.lost = "scope"
  <1>3. v = IF unchanged THEN w ELSE u
    BY <1>1, Zenon
  <1>4. u \in Val /\ u.ref = w.ref /\ u.scope = w.scope /\ u.str = w.str /\ u.lost = why
    BY <1>2 DEF Val
  <1> HIDE DEF u
  <1>5. GoodVal(u)
    BY <1>2, <1>4 DEF GoodVal
  <1> QED BY <1>2, <1>3, <1>4, <1>5

(* Values stay good when memory is overwritten. *)
LEMMA OverwrittenGood ==
    ASSUME BoundsInv, NEW r, NEW v \in Overwritten(r)
    PROVE  GoodVal(v)
PROOF
  <1>1. v \in vals \/ v \in Lose(Overlapping(r, r.len), "bytes")
    BY DEF Overwritten
  <1> QED BY <1>1, LoseKeeps DEF BoundsInv

(* Fewer elements of a reference are fewer bytes.                          *)
LEMMA FewerBytes ==
    ASSUME NEW r \in Ref, NEW n \in 0 .. r.len
    PROVE  Span(r.ptr, r.elem, n) \subseteq Span(r.ptr, r.elem, r.len)
PROOF
  <1>1. r.len \in Nat /\ Size[r.elem] \in Nat /\ r.ptr \in Nat /\ n \in Nat /\ n =< r.len
    BY UpgradeAssumption DEF Ref, USize
  <1>2. n * Size[r.elem] =< r.len * Size[r.elem]
        /\ n * Size[r.elem] \in Nat /\ r.len * Size[r.elem] \in Nat
    BY <1>1, MulMono
  <1> QED BY <1>1, <1>2 DEF Span

(* A write to a reference that was checked for writing changes no          *)
(* allocation but a mutable one of its brand: no others overlap with it.   *)
LEMMA CheckedWrite ==
    ASSUME NEW r, Good(r), r.checked = "write", WroteTo(r, r.len)
    PROVE  Frame(r.brand)
PROOF
  <1>1. PICK w \in Allocs : Within(r, w) /\ w.mutable
    BY DEF Good
  <1>2. ASSUME NEW a \in Allocs, ~ (a.brand = r.brand /\ a.mutable), NEW b \in BytesOf(a)
        PROVE  mem'[b] = mem[b]
    <2>1. BytesOf(w) \cap BytesOf(a) = {}
      <3>1. a # w
        BY <1>1, <1>2 DEF Within
      <3> QED BY <1>1, <3>1, UpgradeAssumption
    <2>2. b \in Memory
      BY DEF Memory
    <2>3. b \notin Span(r.ptr, r.elem, r.len)
      BY <1>1, <2>1 DEF Within
    <2> QED BY <2>2, <2>3 DEF WroteTo
  <1> QED BY <1>2 DEF Frame

(* What changes mutable allocations only keeps the immutable ones. *)
LEMMA FrameImmutable == \A q : Frame(q) => ImmutableKept
PROOF
  BY DEF Frame, ImmutableKept

(* A write keeps immutable allocations, unless it is one to a reference    *)
(* that was not checked for it.                                            *)
LEMMA WriteImmutable ==
    ASSUME BoundsInv, NEW r \in refs, r.mut, WroteTo(r, r.len)
    PROVE  ImmutableKept
PROOF
  <1>1. CASE r.checked = "write"
    BY <1>1, CheckedWrite, FrameImmutable DEF BoundsInv
  <1>2. CASE r.checked # "write"
    BY <1>2 DEF WroteTo, ImmutableKept, Memory
  <1> QED BY <1>1, <1>2

(* Storing elements writes no byte beyond the reference.                   *)
LEMMA StoresWrite ==
    ASSUME NEW r \in Ref, NEW n \in 0 .. r.len, mem' \in Stores(r, n)
    PROVE  mem' \in [Memory -> Byte] /\ WroteTo(r, n) /\ WroteTo(r, r.len)
PROOF
  BY FewerBytes DEF Stores, WroteTo

-----------------------------------------------------------------------------
(* Every step keeps to the bounds *)

(* Upgrades keep to the bounds. *)
LEMMA MakeRefBounds ==
    ASSUME BoundsInv, MakeRef
    PROVE  BoundsStep
PROOF
  <1>1. PICK q \in Brands, p \in Ptr, e \in Elems :
          \/ \E r \in Upgrade("one", q, p, e, 1) \union UpgradeMut("one", q, p, e, 1) : AddRef(r)
          \/ \E n \in Lengths :
                \E r \in UNION {Upgrade("array", q, p, e, n), UpgradeMut("array", q, p, e, n),
                                UpgradeSlice(q, p, e, n), UpgradeSliceMut(q, p, e, n)} : AddRef(r)
    BY DEF MakeRef
  <1>2. ASSUME NEW form \in Forms, NEW n \in Nat,
               NEW r \in UNION {Upgrade(form, q, p, e, n), UpgradeMut(form, q, p, e, n),
                                UpgradeSlice(q, p, e, n), UpgradeSliceMut(q, p, e, n)},
               AddRef(r)
        PROVE  BoundsStep
    <2>1. Good(r)
      BY UpgradesGood
    <2> QED BY <1>2, <2>1, AddRefStep
  <1>3. "one" \in Forms /\ "array" \in Forms /\ 1 \in Nat /\ Lengths \subseteq Nat
    BY AccessAssumption DEF Forms
  <1>4. CASE \E r \in Upgrade("one", q, p, e, 1) \union UpgradeMut("one", q, p, e, 1) : AddRef(r)
    BY <1>2, <1>3, <1>4
  <1>5. CASE \E n \in Lengths :
               \E r \in UNION {Upgrade("array", q, p, e, n), UpgradeMut("array", q, p, e, n),
                               UpgradeSlice(q, p, e, n), UpgradeSliceMut(q, p, e, n)} : AddRef(r)
    BY <1>2, <1>3, <1>5
  <1> QED BY <1>1, <1>4, <1>5

(* A part of a reference's value is a good reference. *)
LEMMA SubRefGood ==
    ASSUME NEW r, Good(r), NEW offset \in Nat, NEW form \in Forms, NEW e \in Elems, NEW n \in Nat,
           SubRefUnchecked(r, offset, form, e, n)
    PROVE  \E s : Good(s) /\ AddRef(s)
PROOF
  <1> DEFINE p == (r.ptr + offset) % (MaxUsize + 1)
             s == NewRef(form, r.mut, r.brand, p, e, n, r.checked)
             bytes == r.len * Size[r.elem]
  <1>1. /\ r \in Ref /\ r.ptr \in Nat /\ bytes \in Nat /\ n * Size[e] \in Nat
        /\ MaxUsize \in Nat
    <2>1. r.len \in Nat /\ Size[r.elem] \in Nat /\ Size[e] \in Nat
      BY UpgradeAssumption DEF Good, Ref
    <2> QED BY <2>1, MulMono, UpgradeAssumption DEF Good, Ref, USize
  <1>2. offset + n * Size[e] =< bytes /\ IsAligned(p, e) /\ AddRef(s)
    BY DEF SubRefUnchecked
  <1>3. p \in USize
    BY <1>1, Wrapped
  <1>4. /\ s \in Ref /\ s.checked = r.checked /\ s.brand = r.brand
        /\ s.ptr = p /\ s.elem = e /\ s.len = n
    BY <1>1, <1>3 DEF NewRef, Ref
  <1>5. ASSUME r.checked # "none"
        PROVE  r.ptr =< p /\ p + n * Size[e] =< r.ptr + bytes
    <2>1. r.ptr + bytes \in 0 .. MaxUsize
      BY <1>5, EndIsAddress DEF USize
    <2> HIDE DEF bytes
    <2>2. r.ptr + offset =< MaxUsize /\ r.ptr + offset \in Nat
      BY <2>1, <1>1, <1>2
    <2>3. p = r.ptr + offset
      BY <2>2, Wrapped
    <2> HIDE DEF p
    <2> QED BY <1>1, <1>2, <2>3
  <1> HIDE DEF s, p
  <1>6. Good(s)
    BY <1>2, <1>4, <1>5, PartGood DEF bytes
  <1> QED BY <1>2, <1>6

(* What the program derives from a reference keeps to the bounds. *)
LEMMA FromRefBounds ==
    ASSUME BoundsInv, NEW r \in refs, FromRef(r)
    PROVE  BoundsStep
PROOF
  <1>0. Good(r) /\ r \in Ref /\ "slice" \in Forms /\ r.len \in Nat /\ Size[r.elem] \in Nat
    BY UpgradeAssumption DEF BoundsInv, Good, Forms, Ref
  <1>1. CASE AsImmut(r) \/ SliceAsImmut(r)
    <2>1. [r EXCEPT !.mut = FALSE] = [r EXCEPT !.form = r.form, !.mut = FALSE]
      BY <1>0 DEF Ref
    <2>2. Good([r EXCEPT !.mut = FALSE])
      BY <1>0, <2>1, ReshapedGood DEF Ref
    <2> QED BY <1>1, <2>2, AddRefStep DEF AsImmut, SliceAsImmut
  <1>2. CASE AsSlice(r)
    <2>1. [r EXCEPT !.form = "slice"] = [r EXCEPT !.form = "slice", !.mut = r.mut]
      BY <1>0 DEF Ref
    <2>2. Good([r EXCEPT !.form = "slice"])
      BY <1>0, <2>1, ReshapedGood DEF Ref
    <2> QED BY <1>2, <2>2, AddRefStep DEF AsSlice
  <1>3. CASE MakeIter(r)
    <2>1. GoodIter([of |-> r, idx |-> 0])
      BY <1>0 DEF GoodIter, Iter
    <2> QED BY <1>3, <2>1 DEF MakeIter, HoldRefs, BoundsInv, BoundsStep, ImmutableKept
  <1>4. ASSUME NEW i \in 0 .. r.len, GetElement(r, i) PROVE BoundsStep
    BY <1>0, <1>4, GetGood, AddRefStep, i \in Nat DEF GetElement
  <1>5. ASSUME NEW offset \in 0 .. r.len * Size[r.elem], NEW e \in Elems,
               NEW form \in Forms, NEW n \in Nat, SubRefUnchecked(r, offset, form, e, n)
        PROVE  BoundsStep
    <2>1. offset \in Nat
      BY <1>0, MulMono
    <2> QED BY <1>0, <1>5, <2>1, SubRefGood, AddRefStep
  <1>6. \A i \in 0 .. r.len : MutRefGet(r, i) \/ RefGet(r, i) \/ SliceGet(r, i) => GetElement(r, i)
    BY DEF MutRefGet, RefGet, SliceGet
  <1>7. "one" \in Forms /\ "array" \in Forms /\ 1 \in Nat /\ Lengths \subseteq Nat
    BY AccessAssumption DEF Forms
  <1> QED BY <1>1, <1>2, <1>3, <1>4, <1>5, <1>6, <1>7 DEF FromRef

(* What assume_valid makes of a good reference is good. *)
LEMMA AssumeValidGood ==
    ASSUME NEW r, Good(r), NEW q \in Brands, r.brand = q, NEW excl \in BOOLEAN
    PROVE  /\ GoodVal(AssumeValid(r, q, excl))
           /\ r.elem = U8 => GoodVal([AssumeValid(r, q, excl) EXCEPT !.str = TRUE])
PROOF
  <1> DEFINE s == [r EXCEPT !.mut = FALSE]
             v == AssumeValid(r, q, excl)
             w == [v EXCEPT !.str = TRUE]
  <1>1. r \in Ref
    BY DEF Good
  <1>2. s = [r EXCEPT !.form = r.form, !.mut = FALSE] /\ s.brand = q /\ s.elem = r.elem /\ s \in Ref
    BY <1>1 DEF Ref
  <1>3. Good(s)
    BY <1>1, <1>2, ReshapedGood DEF Ref
  <1>4. v \in Val /\ v.ref = s /\ v.scope = q /\ v.str = FALSE
    BY <1>2 DEF AssumeValid, Val
  <1> HIDE DEF s, v
  <1>5. GoodVal(v)
    BY <1>2, <1>3, <1>4 DEF GoodVal
  <1>6. w \in Val /\ w.ref = s /\ w.scope = q
    BY <1>4 DEF Val
  <1>7. r.elem = U8 => GoodVal(w)
    BY <1>2, <1>3, <1>6 DEF GoodVal
  <1> QED BY <1>5, <1>7 DEF v

(* The bytes of a reference make a copy of its type. *)
LEMMA CopiedBytes ==
    ASSUME NEW r \in Ref, Mapped(r, r.len), mem \in [Memory -> Byte]
    PROVE  AsBytes(r) \in Seq(Byte) /\ Len(AsBytes(r)) = r.len * Size[r.elem]
PROOF
  <1> DEFINE k == r.len * Size[r.elem]
  <1>1. k \in Nat /\ r.ptr \in Nat
    <2>1. r.len \in Nat /\ Size[r.elem] \in Nat
      BY UpgradeAssumption DEF Ref
    <2> QED BY <2>1, MulMono, UpgradeAssumption DEF Ref, USize
  <1>2. ASSUME NEW j \in 1 .. k PROVE mem[r.ptr + j - 1] \in Byte
    <2>1. r.ptr + j - 1 \in Span(r.ptr, r.elem, r.len)
      BY <1>1 DEF Span, k
    <2> QED BY <2>1 DEF Mapped
  <1>3. AsBytes(r) = [j \in 1 .. k |-> mem[r.ptr + j - 1]]
    BY DEF AsBytes, k
  <1> HIDE DEF k
  <1>4. AsBytes(r) \in [1 .. k -> Byte]
    BY <1>2, <1>3
  <1>5. AsBytes(r) \in Seq(Byte) /\ Len(AsBytes(r)) = k
    BY <1>1, <1>4
  <1> QED BY <1>5 DEF k

(* A copy has as many bytes as its type. *)
LEMMA MakeCopyGood ==
    ASSUME NEW e \in Elems, NEW n \in Nat, NEW bytes \in Seq(Byte), Len(bytes) = n * Size[e]
    PROVE  GoodCopy(MakeCopy(e, n, bytes))
PROOF
  BY DEF GoodCopy, MakeCopy, Copy

(* Writing values and elements keeps to the bounds. *)
LEMMA WritesBounds ==
    ASSUME BoundsInv, NEW r \in refs, NEW q \in Brands, NEW n \in 0 .. r.len,
           Write(r, q) \/ ArrayCopyFromSlice(r, q) \/ WriteFromIter(r, q, n)
    PROVE  BoundsStep
PROOF
  <1>1. Good(r) /\ r \in Ref /\ r.len \in 0 .. r.len
    BY DEF BoundsInv, Good, Ref
  <1>2. r.mut /\ r.brand = q /\ (mem' \in Stores(r, r.len) \/ mem' \in Stores(r, n))
    BY DEF Write, WriteElements, ArrayCopyFromSlice, WriteFromIter, WriteSlice, SameBrand
  <1>3. mem' \in [Memory -> Byte] /\ ImmutableKept
    BY <1>1, <1>2, StoresWrite, WriteImmutable
  <1>4. GoodVal(AssumeValid(r, q, TRUE)) /\ GoodVal(AssumeValid(r, q, FALSE))
    BY <1>1, <1>2, AssumeValidGood
  <1>5. \A v \in Overwritten(r) \union Lose(Overlapping(r, n), "bytes") : GoodVal(v)
    BY OverwrittenGood, LoseKeeps
  <1>6. CASE ArrayCopyFromSlice(r, q)
    BY <1>3, <1>5, <1>6 DEF ArrayCopyFromSlice, BoundsInv, BoundsStep
  <1>7. CASE Write(r, q)
    <2>1. PICK new \in SUBSET {AssumeValid(r, q, TRUE)} : HoldVals(Overwritten(r), new)
      BY <1>7 DEF Write, WriteElements
    <2> QED BY <1>3, <1>4, <1>5, <2>1, HoldValsStep
  <1>8. CASE WriteFromIter(r, q, n)
    <2>1. PICK new \in SUBSET {AssumeValid(r, q, FALSE)} :
             HoldVals(Lose(Overlapping(r, n), "bytes"), new)
      BY <1>8 DEF WriteFromIter, WriteSlice
    <2> QED BY <1>3, <1>4, <1>5, <2>1, HoldValsStep
  <1> QED BY <1>6, <1>7, <1>8

(* Writing a copy back keeps to the bounds, and to the reference's bytes.  *)
LEMMA WriteCopyBounds ==
    ASSUME BoundsInv, NEW r \in refs, NEW q \in Brands, NEW c \in copies, WriteCopy(r, c, q)
    PROVE  BoundsStep /\ WroteTo(r, r.len)
PROOF
  <1> DEFINE k == r.len * Size[r.elem]
  <1>1. r \in Ref /\ GoodCopy(c) /\ r.mut /\ c.elem = r.elem /\ c.len = r.len
    BY DEF BoundsInv, Good, WriteCopy
  <1>2. k \in Nat /\ r.ptr \in Nat
    <2>1. r.len \in Nat /\ Size[r.elem] \in Nat
      BY <1>1, UpgradeAssumption DEF Ref
    <2> QED BY <1>1, <2>1, MulMono, UpgradeAssumption DEF Ref, USize
  <1>3. c.bytes \in Seq(Byte) /\ Len(c.bytes) = k
    BY <1>1 DEF GoodCopy, Copy
  <1>4. Span(r.ptr, r.elem, r.len) = r.ptr .. r.ptr + k - 1
    BY DEF Span
  <1>5. mem' = [a \in Memory |-> IF a \in Span(r.ptr, r.elem, r.len)
                                 THEN c.bytes[a - r.ptr + 1] ELSE mem[a]]
    BY DEF WriteCopy
  <1> HIDE DEF k
  <1>6. WroteTo(r, r.len)
    BY <1>5 DEF WroteTo
  <1>7. mem' \in [Memory -> Byte]
    <2>1. ASSUME NEW a \in Span(r.ptr, r.elem, r.len) PROVE c.bytes[a - r.ptr + 1] \in Byte
      <3>1. a - r.ptr + 1 \in 1 .. k
        BY <1>2, <1>4
      <3> QED BY <1>3, <3>1
    <2> QED BY <1>5, <2>1 DEF BoundsInv
  <1>8. ImmutableKept /\ \A v \in Overwritten(r) : GoodVal(v)
    BY <1>1, <1>6, WriteImmutable, OverwrittenGood
  <1> QED BY <1>6, <1>7, <1>8 DEF WriteCopy, BoundsInv, BoundsStep

(* What the program does with a reference keeps to the bounds. *)
LEMMA UseRefBounds ==
    ASSUME BoundsInv, NEW r \in refs, NEW q \in Brands, UseRef(r, q)
    PROVE  BoundsStep
PROOF
  <1>1. /\ Good(r) /\ r \in Ref /\ mem \in [Memory -> Byte]
        /\ r.elem \in Elems /\ r.len \in Nat /\ r.len \in 0 .. r.len
    BY DEF BoundsInv, Good, Ref
  <1>2. CASE Validate(r, q)
    <2>1. GoodVal(AssumeValid(r, q, FALSE))
      BY <1>1, <1>2, AssumeValidGood DEF Validate, SameBrand
    <2> QED BY <1>1, <1>2, <2>1, AddValStep DEF Validate
  <1>3. CASE ValidateAsStr(r, q)
    <2>1. GoodVal([AssumeValid(r, q, FALSE) EXCEPT !.str = TRUE])
      BY <1>1, <1>3, AssumeValidGood DEF ValidateAsStr, SameBrand
    <2> QED BY <1>1, <1>3, <2>1, AddValStep DEF ValidateAsStr
  <1>4. CASE CopyFrom(r, q)
    <2>1. GoodCopy(MakeCopy(r.elem, r.len, AsBytes(r)))
      BY <1>1, <1>4, CopiedBytes, MakeCopyGood DEF CopyFrom
    <2> QED BY <1>4, <2>1, AddCopyStep DEF CopyFrom
  <1>5. ASSUME NEW c \in copies, UpdateFrom(c, r, q) PROVE BoundsStep
    <2>1. GoodCopy(c) /\ c.len = r.len /\ c.elem = r.elem /\ Mapped(r, r.len)
      BY <1>5 DEF BoundsInv, UpdateFrom
    <2>2. AsBytes(r) \in Seq(Byte) /\ Len(AsBytes(r)) = r.len * Size[r.elem]
      BY <1>1, <2>1, CopiedBytes
    <2>3. GoodCopy([c EXCEPT !.bytes = AsBytes(r)])
      BY <2>1, <2>2 DEF GoodCopy, Copy
    <2> QED BY <1>5, <2>3, ReplaceCopyStep DEF UpdateFrom
  <1>6. CASE \/ ValidateMutRef(r, q) \/ ValidateMutSlice(r, q)
             \/ ValidateRef(r, q) \/ ValidateSlice(r, q)
    BY <1>2, <1>6 DEF ValidateMutRef, ValidateMutSlice, ValidateRef, ValidateSlice
  <1>7. CASE CopyRef(r, q) \/ CopyMutRef(r, q)
    BY <1>4, <1>7 DEF CopyRef, CopyMutRef
  <1>8. CASE \/ Write(r, q) \/ WriteRef(r, q) \/ ArrayCopyFromSlice(r, q)
             \/ \E n \in 0 .. r.len : WriteFromIter(r, q, n) \/ CopyFromSlice(r, q, n)
    BY <1>1, <1>8, WritesBounds DEF WriteRef, CopyFromSlice
  <1>9. CASE \E c \in copies : \/ UpdateFromRef(c, r, q)
                              \/ UpdateFromMutRef(c, r, q)
                              \/ WriteCopy(r, c, q)
    BY <1>5, <1>9, WriteCopyBounds DEF UpdateFromRef, UpdateFromMutRef
  <1> QED BY <1>3, <1>6, <1>7, <1>8, <1>9 DEF UseRef

(* An element of an array value is good, whatever follows it on the stack. *)
LEMMA ElementsGood ==
    ASSUME NEW r, Good(r), NEW i \in Nat, i < r.len, NEW s \in Elements(r, i)
    PROVE  /\ Good(s) /\ s.elem = r.elem
           /\ s.checked # "none" => /\ r.checked # "none" /\ s.brand = r.brand
                                   /\ s.ptr = r.ptr /\ s.len = 1 /\ 1 =< r.len
PROOF
  <1>1. r \in Ref /\ r.len \in Nat /\ "one" \in Forms /\ "none" \in Checks
    BY DEF Good, Ref, Forms, Checks
  <1>2. CASE i = 0
    <2>1. s = [r EXCEPT !.form = "one", !.len = 1] /\ r.elem \in Elems
      BY <1>1, <1>2 DEF Elements, Ref
    <2>2. /\ s \in Ref /\ s.checked = r.checked /\ s.brand = r.brand
          /\ s.ptr = r.ptr /\ s.elem = r.elem /\ s.len = 1
      BY <1>1, <2>1 DEF Ref
    <2>3. Size[r.elem] \in Nat /\ r.ptr \in Nat /\ 1 \in Nat /\ 1 =< r.len
      BY <1>1, <1>2, UpgradeAssumption DEF Ref, USize
    <2>4. /\ 1 * Size[r.elem] =< r.len * Size[r.elem]
          /\ 1 * Size[r.elem] \in Nat /\ r.len * Size[r.elem] \in Nat
      BY <1>1, <2>3, MulMono
    <2>5. Good(s)
      BY <2>2, <2>3, <2>4, PartGood DEF Good
    <2> QED BY <2>2, <2>3, <2>5
  <1>3. CASE i # 0
    <2>1. PICK q \in Brands, p \in StackWords : s = NewRef("one", r.mut, q, p, r.elem, 1, "none")
      BY <1>3 DEF Elements
    <2>2. s \in Ref /\ s.checked = "none" /\ s.elem = r.elem
      BY <1>1, <2>1, AccessAssumption DEF NewRef, Ref
    <2> QED BY <2>2 DEF Good
  <1> QED BY <1>2, <1>3

(* What the program derives from a value keeps to the bounds. *)
LEMMA FromValBounds ==
    ASSUME BoundsInv, NEW v \in vals, FromVal(v)
    PROVE  BoundsStep
PROOF
  <1> DEFINE r == v.ref
  <1>1. GoodVal(v) /\ Good(r) /\ r \in Ref /\ v \in Val /\ r.len \in Nat
    BY DEF BoundsInv, GoodVal, Good, Ref
  <1>2. CASE AsRef(v)
    BY <1>1, <1>2, AddRefStep DEF AsRef
  <1>3. CASE AsMut(v)
    <2>1. [r EXCEPT !.mut = TRUE] = [r EXCEPT !.form = r.form, !.mut = TRUE]
      BY <1>1 DEF Ref
    <2>2. Good([r EXCEPT !.mut = TRUE])
      BY <1>1, <2>1, ReshapedGood DEF Ref
    <2> QED BY <1>3, <2>2, AddRefStep DEF AsMut
  <1>4. CASE DropVal(v)
    BY <1>4 DEF DropVal, BoundsInv, BoundsStep, ImmutableKept
  <1>5. ASSUME NEW i \in 0 .. r.len, AsArray(v, i) PROVE BoundsStep
    <2>1. PICK s \in Elements(r, i) : AddVal([v EXCEPT !.ref = s])
      BY <1>5 DEF AsArray
    <2>2. i \in Nat /\ i < r.len /\ ~ v.str /\ UNCHANGED mem
      BY <1>1, <1>5 DEF AsArray, Sized
    <2>3. /\ Good(s) /\ s \in Ref /\ s.elem = r.elem
          /\ s.checked # "none" => r.checked # "none" /\ s.brand = r.brand
      BY <1>1, <2>2, ElementsGood DEF Good
    <2>4. s.checked # "none" => s.brand = v.scope
      BY <1>1, <2>3 DEF GoodVal
    <2> DEFINE w == [v EXCEPT !.ref = s]
    <2>5. w \in Val /\ w.ref = s /\ w.scope = v.scope /\ ~ w.str
      BY <1>1, <2>2, <2>3 DEF Val
    <2> HIDE DEF w
    <2>6. GoodVal(w)
      BY <2>3, <2>4, <2>5 DEF GoodVal
    <2> QED BY <2>1, <2>2, <2>6, AddValStep DEF w
  <1> QED BY <1>2, <1>3, <1>4, <1>5 DEF FromVal

(* New copies have the bytes of their type. *)
LEMMA NewCopyBounds ==
    ASSUME BoundsInv, NEW e \in Elems, NEW n \in Nat,
           CopyNew(e, n) \/ CopyZeroed(e, n) \/ CopyFromUninit(e, n)
    PROVE  BoundsStep
PROOF
  <1> DEFINE k == n * Size[e]
  <1>1. k \in Nat
    BY MulMono, UpgradeAssumption
  <1>2. PICK bytes \in [1 .. k -> Byte] : AddCopy(MakeCopy(e, n, bytes))
    <2>1. CASE CopyZeroed(e, n)
      <3>1. [j \in 1 .. k |-> 0] \in [1 .. k -> Byte]
        BY AccessAssumption
      <3> QED BY <2>1, <3>1 DEF CopyZeroed
    <2>2. CASE CopyNew(e, n) \/ CopyFromUninit(e, n)
      BY <2>2 DEF CopyNew, CopyFromUninit
    <2> QED BY <2>1, <2>2
  <1> HIDE DEF k
  <1>3. bytes \in Seq(Byte) /\ Len(bytes) = k
    BY <1>1
  <1>4. GoodCopy(MakeCopy(e, n, bytes))
    BY <1>3, MakeCopyGood DEF k
  <1> QED BY <1>2, <1>4, AddCopyStep

(* What the program does with a copy keeps to the bounds. *)
LEMMA FromCopyBounds ==
    ASSUME BoundsInv, NEW c \in copies, FromCopy(c)
    PROVE  BoundsStep
PROOF
  <1>1. GoodCopy(c) /\ c \in Copy
    BY DEF BoundsInv, GoodCopy
  <1>2. ASSUME NEW state \in {"raw", "lent", "owned"}
        PROVE  GoodCopy([c EXCEPT !.state = state])
    <2> DEFINE d == [c EXCEPT !.state = state]
    <2>1. d \in Copy /\ d.bytes = c.bytes /\ d.len = c.len /\ d.elem = c.elem
      BY <1>1 DEF Copy
    <2> HIDE DEF d
    <2>2. GoodCopy(d)
      BY <1>1, <2>1 DEF GoodCopy
    <2> QED BY <2>2 DEF d
  <1>3. CASE CopyClone(c) \/ CopyValidateCopy(c)
    BY <1>2, <1>3, AddCopyStep DEF CopyClone, CopyValidateCopy
  <1>4. CASE CopyValidate(c) \/ CopyValidateRef(c) \/ EndLend(c)
    BY <1>2, <1>4, ReplaceCopyStep DEF CopyValidate, CopyValidateRef, EndLend
  <1>5. CASE DropCopy(c)
    BY <1>5 DEF DropCopy, BoundsInv, BoundsStep, ImmutableKept
  <1> QED BY <1>3, <1>4, <1>5 DEF FromCopy

(* An iterator yields good references and keeps to its length. *)
LEMMA IterNextBounds ==
    ASSUME BoundsInv, NEW it \in iters, IterNext(it)
    PROVE  BoundsStep
PROOF
  <1> DEFINE next == [it EXCEPT !.idx = it.idx + 1]
  <1>1. GoodIter(it) /\ it \in Iter /\ it.idx \in Nat /\ Good(it.of)
    BY DEF BoundsInv, GoodIter, Iter
  <1>2. \A r \in Get(it.of, it.idx) : Good(r) /\ it.idx < it.of.len
    BY <1>1, GetGood
  <1>3. it.idx < it.of.len /\ it.of.len \in Nat
    BY <1>1, <1>2 DEF IterNext, Iter, Ref
  <1>4. next \in Iter /\ next.of = it.of /\ next.idx = it.idx + 1
    BY <1>1 DEF Iter
  <1>5. /\ \E new \in SUBSET Get(it.of, it.idx) : HoldRefs(new, (iters \ {it}) \union {next})
        /\ UNCHANGED <<mem, vals, copies>>
    BY DEF IterNext, Advance
  <1> HIDE DEF next
  <1>6. GoodIter(next)
    BY <1>1, <1>3, <1>4 DEF GoodIter
  <1> QED BY <1>2, <1>5, <1>6 DEF BoundsInv, BoundsStep, HoldRefs, ImmutableKept

(* Foreign code changes mutable allocations of its brand only. *)
LEMMA ExecuteBounds ==
    ASSUME BoundsInv, NEW q \in Brands, NEW h \in Brands, Execute(q, h)
    PROVE  BoundsStep /\ Frame(q) /\ Writes(q)
PROOF
  <1>1. mem' \in [Memory -> Byte] /\ Frame(q) /\ Writes(q)
    BY DEF Execute, Frame
  <1>2. ImmutableKept
    BY <1>1, FrameImmutable
  <1>3. \A v \in vals' : GoodVal(v)
    BY LoseKeeps DEF Execute
  <1> QED BY <1>1, <1>2, <1>3 DEF Execute, BoundsInv, BoundsStep

(* Every step keeps to the bounds. *)
LEMMA NextBounds ==
    ASSUME BoundsInv, Next
    PROVE  BoundsStep
PROOF
  <1>1. CASE MakeRef
    BY <1>1, MakeRefBounds
  <1>2. CASE \E r \in refs : FromRef(r)
    BY <1>2, FromRefBounds
  <1>3. CASE \E r \in refs, q \in Brands : UseRef(r, q)
    BY <1>3, UseRefBounds
  <1>4. CASE \E v \in vals : FromVal(v)
    BY <1>4, FromValBounds
  <1>5. CASE \E e \in Elems, n \in Lengths \union {1} :
                CopyNew(e, n) \/ CopyZeroed(e, n) \/ CopyFromUninit(e, n)
    <2>1. Lengths \union {1} \subseteq Nat
      BY AccessAssumption
    <2> QED BY <1>5, <2>1, NewCopyBounds
  <1>6. CASE \E c \in copies : FromCopy(c)
    BY <1>6, FromCopyBounds
  <1>7. CASE \E it \in iters : MutRefIterNext(it) \/ RefIterNext(it) \/ SliceIterNext(it)
    BY <1>7, IterNextBounds DEF MutRefIterNext, RefIterNext, SliceIterNext
  <1>8. CASE \E q, h \in Brands : Execute(q, h)
    BY <1>8, ExecuteBounds
  <1> QED BY <1>1, <1>2, <1>3, <1>4, <1>5, <1>6, <1>7, <1>8 DEF Next

(* A step that changes nothing keeps to the bounds. *)
LEMMA StutterBounds ==
    ASSUME BoundsInv, UNCHANGED vars
    PROVE  BoundsStep
PROOF
  BY DEF vars, BoundsInv, BoundsStep, ImmutableKept

(* The bounds hold at first. *)
LEMMA InitBounds == Init => BoundsInv
PROOF
  BY DEF Init, BoundsInv

-----------------------------------------------------------------------------
(* Theorems about bounds *)

(* BoundsInv is inductive. *)
LEMMA BoundsAlways == Spec => []BoundsInv
PROOF
  <1>1. BoundsInv /\ [Next]_vars => BoundsInv'
    BY NextBounds, StutterBounds DEF BoundsStep
  <1> QED BY <1>1, InitBounds, PTL DEF Spec

(* Every part of the state keeps its type: addresses stay addresses and    *)
(* iterators within their lengths, whether or not references are checked.  *)
THEOREM TypeCorrect == Spec => []TypeOK
PROOF
  <1>1. BoundsInv => TypeOK
    BY DEF BoundsInv, TypeOK, Good, GoodVal, GoodCopy, GoodIter
  <1> QED BY <1>1, BoundsAlways, PTL

(* References, values and iterators that derive from checked references,   *)
(* however they do, stay within one tracked allocation of their brand and  *)
(* are aligned: the checks of the first upgrade suffice.                   *)
THEOREM ReferencesInBounds == Spec => []RefsInBounds
PROOF
  <1>1. BoundsInv => RefsInBounds
    BY DEF BoundsInv, RefsInBounds, Good, GoodVal, GoodIter, InBounds
  <1> QED BY <1>1, BoundsAlways, PTL

(* Those that derive from references checked for writing lead to mutable   *)
(* allocations.                                                            *)
THEOREM MutableReferencesMutable == Spec => []MutRefsMutable
PROOF
  <1>1. BoundsInv => MutRefsMutable
    BY DEF BoundsInv, MutRefsMutable, Good, GoodVal, GoodIter, MutablyInBounds
  <1> QED BY <1>1, BoundsAlways, PTL

(* Foreign code and references checked for writing write no immutable      *)
(* allocation: only a mutable reference that was not checked for it, as    *)
(* EFVal::as_mut makes them, can.                                           *)
THEOREM ImmutableNeverWritten == Spec => ImmutableUnchanged
PROOF
  <1>1. BoundsInv /\ [Next]_vars => [ImmutableKept]_vars
    BY NextBounds DEF BoundsStep
  <1>2. ImmutableKept <=>
           \A a \in Allocs : ~ a.mutable => \A b \in BytesOf(a) :
              \/ mem'[b] = mem[b]
              \/ \E r \in refs : /\ r.mut /\ r.checked # "write"
                                 /\ b \in Span(r.ptr, r.elem, r.len)
    BY DEF ImmutableKept
  <1> QED BY <1>1, <1>2, BoundsAlways, PTL DEF Spec, ImmutableUnchanged

-----------------------------------------------------------------------------
(* Validity *)

(* The bytes of a value stay as they are. *)
Kept(v) == \A b \in Span(v.ref.ptr, v.ref.elem, v.ref.len) : mem'[b] = mem[b]

(* A protected value that the program keeps stays as it is. *)
ValuesStep == \A v \in vals \cap vals' : Protected(v) => Kept(v)

(* What was checked is in memory. *)
LEMMA ProtectedInMemory ==
    ASSUME BoundsInv, NEW v \in vals, Protected(v)
    PROVE  /\ v.scope = v.ref.brand /\ v.lost = "nothing"
           /\ \E a \in Allocs : Within(v.ref, a)
           /\ Span(v.ref.ptr, v.ref.elem, v.ref.len) \subseteq Memory
PROOF
  BY DEF BoundsInv, GoodVal, Good, Protected, Within, Memory

(* Mutable memory of one brand holds no value of another one.              *)
LEMMA FrameKeeps ==
    ASSUME BoundsInv, NEW v \in vals, Protected(v), NEW q, Frame(q), v.scope # q
    PROVE  Kept(v)
PROOF
  <1>1. PICK a \in Allocs : Within(v.ref, a)
    BY ProtectedInMemory
  <1>2. a.brand # q
    BY <1>1, ProtectedInMemory DEF Within
  <1> QED BY <1>1, <1>2 DEF Within, Frame, Kept

(* A value that shares no bytes with what is written stays as it is.       *)
LEMMA OthersKept ==
    ASSUME BoundsInv, NEW v \in vals, Protected(v), NEW r, NEW n,
           WroteTo(r, n), v \notin Overlapping(r, n)
    PROVE  Kept(v)
PROOF
  BY ProtectedInMemory DEF WroteTo, Overlapping, Kept

(* Writes under &mut AccessScope reach no protected value. *)
LEMMA ExclusiveKeeps ==
    ASSUME BoundsInv, NEW r \in refs, NEW q \in Brands, Writes(q), r.brand = q,
           WroteTo(r, r.len),
           \A v \in vals' : v \in Overwritten(r) \/ (v.scope = q /\ v.lost = "nothing")
    PROVE  ValuesStep
PROOF
  <1> SUFFICES ASSUME NEW v \in vals, v \in vals', Protected(v)
               PROVE  Kept(v)
      BY DEF ValuesStep
  <1>1. v.lost = "nothing" /\ v.scope # q
    BY DEF Writes, Borrows, Protected
  <1>2. v \in Overwritten(r)
    BY <1>1
  <1>3. CASE r.checked = "write"
    <2>1. Frame(q)
      BY <1>3, CheckedWrite DEF BoundsInv
    <2> QED BY <1>1, <2>1, FrameKeeps
  <1>4. CASE r.checked # "write"
    <2>1. v \in Lose(Overlapping(r, r.len), "bytes")
      BY <1>2, <1>4 DEF Overwritten
    <2>2. v \notin Overlapping(r, r.len)
      BY <1>1, <2>1, LoseKeeps
    <2> QED BY <2>2, OthersKept
  <1> QED BY <1>3, <1>4

(* A slice that is written under &AccessScope marks the values it reaches. *)
LEMMA SharedKeeps ==
    ASSUME BoundsInv, NEW r \in refs, NEW q \in Brands, NEW n \in 0 .. r.len, WriteFromIter(r, q, n)
    PROVE  ValuesStep
PROOF
  <1>1. r \in Ref
    BY DEF BoundsInv, Good
  <1>2. WroteTo(r, n)
    BY <1>1, StoresWrite DEF WriteFromIter, WriteSlice
  <1>3. vals' \subseteq Lose(Overlapping(r, n), "bytes") \union ({AssumeValid(r, q, FALSE)} \ vals)
    BY DEF WriteFromIter, WriteSlice, HoldVals
  <1>4. ASSUME NEW v \in vals, v \in vals', Protected(v) PROVE Kept(v)
    <2>1. v \in Lose(Overlapping(r, n), "bytes") /\ v.lost = "nothing"
      BY <1>3, <1>4 DEF Protected
    <2>2. v \notin Overlapping(r, n)
      BY <2>1, LoseKeeps
    <2> QED BY <1>2, <1>4, <2>2, OthersKept
  <1> QED BY <1>4 DEF ValuesStep

(* What the program does with a reference keeps protected values. *)
LEMMA UseRefKeeps ==
    ASSUME BoundsInv, NEW r \in refs, NEW q \in Brands, UseRef(r, q)
    PROVE  ValuesStep
PROOF
  <1>1. r \in Ref /\ r.len \in 0 .. r.len
    BY DEF BoundsInv, Good, Ref
  <1>2. CASE Write(r, q)
    <2>1. PICK new \in SUBSET {AssumeValid(r, q, TRUE)} : HoldVals(Overwritten(r), new)
      BY <1>2 DEF Write, WriteElements
    <2>2. \A v \in vals' : v \in Overwritten(r) \/ (v.scope = q /\ v.lost = "nothing")
      BY <2>1 DEF HoldVals, AssumeValid
    <2>3. r.brand = q /\ Writes(q) /\ WroteTo(r, r.len)
      BY <1>1, <1>2, StoresWrite DEF Write, WriteElements, SameBrand
    <2> QED BY <2>2, <2>3, ExclusiveKeeps
  <1>3. CASE ArrayCopyFromSlice(r, q)
    <2>1. r.brand = q /\ Writes(q) /\ WroteTo(r, r.len) /\ vals' = Overwritten(r)
      BY <1>1, <1>3, StoresWrite DEF ArrayCopyFromSlice, SameBrand
    <2> QED BY <2>1, ExclusiveKeeps
  <1>4. ASSUME NEW c \in copies, WriteCopy(r, c, q) PROVE ValuesStep
    <2>1. r.brand = q /\ Writes(q) /\ WroteTo(r, r.len) /\ vals' = Overwritten(r)
      BY <1>4, WriteCopyBounds DEF WriteCopy, SameBrand
    <2> QED BY <2>1, ExclusiveKeeps
  <1>5. ASSUME mem' = mem PROVE ValuesStep
    BY <1>5 DEF ValuesStep, Kept
  <1>6. \/ Write(r, q) \/ ArrayCopyFromSlice(r, q) \/ mem' = mem
        \/ \E n \in 0 .. r.len : WriteFromIter(r, q, n)
        \/ \E c \in copies : WriteCopy(r, c, q)
    BY DEF UseRef, ValidateMutRef, ValidateMutSlice, ValidateRef, ValidateSlice, Validate,
           ValidateAsStr, WriteRef, CopyFromSlice, CopyRef, CopyMutRef, CopyFrom,
           UpdateFromRef, UpdateFromMutRef, UpdateFrom, AddCopy, ReplaceCopy
  <1> QED BY <1>2, <1>3, <1>4, <1>5, <1>6, SharedKeeps

(* Every step keeps protected values. *)
LEMMA NextKeeps ==
    ASSUME BoundsInv, Next
    PROVE  ValuesStep
PROOF
  <1>1. ASSUME NEW r \in refs, FromRef(r) PROVE mem' = mem
    BY <1>1 DEF FromRef, AsImmut, SliceAsImmut, AsSlice, MakeIter, MutRefGet, RefGet,
                SliceGet, GetElement, SubRefUnchecked, AddRef
  <1>2. ASSUME NEW v \in vals, FromVal(v) PROVE mem' = mem
    BY <1>2 DEF FromVal, AsRef, AsMut, AsArray, DropVal, AddRef
  <1>3. ASSUME NEW c \in copies, FromCopy(c) PROVE mem' = mem
    BY <1>3 DEF FromCopy, CopyClone, CopyValidate, CopyValidateRef, CopyValidateCopy,
                EndLend, DropCopy, AddCopy, ReplaceCopy
  <1>4. MakeRef => mem' = mem
    BY DEF MakeRef, AddRef
  <1>5. ASSUME NEW e, NEW n, CopyNew(e, n) \/ CopyZeroed(e, n) \/ CopyFromUninit(e, n)
        PROVE  mem' = mem
    BY <1>5 DEF CopyNew, CopyZeroed, CopyFromUninit, AddCopy
  <1>6. ASSUME NEW it \in iters, IterNext(it) PROVE mem' = mem
    BY <1>6 DEF IterNext, Advance
  <1>7. ASSUME NEW q \in Brands, NEW h \in Brands, Execute(q, h) PROVE ValuesStep
    <2>1. Frame(q) /\ Writes(q)
      BY <1>7, ExecuteBounds
    <2>2. ASSUME NEW v \in vals, Protected(v) PROVE Kept(v)
      <3>1. v.scope # q
        BY <2>1, <2>2 DEF Writes, Borrows, Protected
      <3> QED BY <2>1, <2>2, <3>1, FrameKeeps
    <2> QED BY <2>2 DEF ValuesStep
  <1>8. mem' = mem => ValuesStep
    BY DEF ValuesStep, Kept
  <1> QED BY <1>1, <1>2, <1>3, <1>4, <1>5, <1>6, <1>7, <1>8, UseRefKeeps
          DEF Next, MutRefIterNext, RefIterNext, SliceIterNext

(* The memory that a held value points to does not change as long as the   *)
(* value is protected, whatever runtimes and references there are.         *)
THEOREM ValuesUnchanged == Spec => ValidatedUnchanged
PROOF
  <1>1. BoundsInv /\ [Next]_vars => [ValuesStep]_vars
    BY NextKeeps
  <1>2. ValuesStep <=> \A v \in vals \cap vals' : Protected(v) =>
           \A a \in Span(v.ref.ptr, v.ref.elem, v.ref.len) : mem'[a] = mem[a]
    BY DEF ValuesStep, Kept
  <1> QED BY <1>1, <1>2, BoundsAlways, PTL DEF Spec, ValidatedUnchanged

(* The value that is made of a reference is valid if its elements are. *)
LEMMA AssumeValidValid ==
    ASSUME NEW r \in Ref, NEW q, NEW excl, NEW m
    PROVE  /\ ElementsValid(m, r.ptr, r.elem, r.len) => ValValid(m, AssumeValid(r, q, excl))
           /\ TextValid(m, r.ptr, r.len) =>
                 ValValid(m, [AssumeValid(r, q, excl) EXCEPT !.str = TRUE])
PROOF
  <1> DEFINE s == [r EXCEPT !.mut = FALSE]
             v == AssumeValid(r, q, excl)
             w == [v EXCEPT !.str = TRUE]
  <1>1. s.ptr = r.ptr /\ s.elem = r.elem /\ s.len = r.len
    BY DEF Ref
  <1>2. v.ref = s /\ v.str = FALSE /\ w.ref = s /\ w.str = TRUE
    BY DEF AssumeValid
  <1> HIDE DEF s, v, w
  <1>3. ElementsValid(m, r.ptr, r.elem, r.len) => ValValid(m, v)
    BY <1>1, <1>2 DEF ValValid
  <1>4. TextValid(m, r.ptr, r.len) => ValValid(m, w)
    BY <1>1, <1>2 DEF ValValid
  <1> QED BY <1>3, <1>4 DEF v, w

(* What is kept of the values in a step is in vals, or is lost. *)
LEMMA KeptValues ==
    ASSUME BoundsInv, NEW v, Protected(v),
           NEW r, NEW n, v \in Overwritten(r) \union Lose(Overlapping(r, n), "bytes")
    PROVE  v \in vals
PROOF
  BY LoseKeeps DEF Overwritten, Protected

(* A value is valid when the program gets it. *)
LEMMA NewValuesValid ==
    ASSUME BoundsInv, ValidatedIsValid, ~ DISABLE_VALIDATION_CHECKS, Next,
           NEW v \in vals', v \notin vals, Protected(v)
    PROVE  ValValid(mem', v)
PROOF
  <1>1. ASSUME NEW r \in refs, NEW q \in Brands, UseRef(r, q) PROVE ValValid(mem', v)
    <2>1. r \in Ref /\ mem \in [Memory -> Byte]
      BY DEF BoundsInv, Good
    <2>2. CASE Validate(r, q)
      <3>1. v = AssumeValid(r, q, FALSE) /\ ElementsValid(mem, r.ptr, r.elem, r.len) /\ mem' = mem
        BY <2>2 DEF Validate, AddVal, HoldVals
      <3> QED BY <2>1, <3>1, AssumeValidValid
    <2>3. CASE ValidateAsStr(r, q)
      <3>1. v = [AssumeValid(r, q, FALSE) EXCEPT !.str = TRUE] /\ TextValid(mem, r.ptr, r.len)
            /\ mem' = mem
        BY <2>3 DEF ValidateAsStr, AddVal, HoldVals
      <3> QED BY <2>1, <3>1, AssumeValidValid
    <2>4. CASE Write(r, q)
      <3>1. v \in Overwritten(r) \union {AssumeValid(r, q, TRUE)}
            /\ ElementsValid(mem', r.ptr, r.elem, r.len)
        BY <2>4 DEF Write, WriteElements, HoldVals, Stores
      <3>2. v = AssumeValid(r, q, TRUE)
        BY <3>1, KeptValues
      <3> QED BY <2>1, <3>1, <3>2, AssumeValidValid
    <2>5. ASSUME NEW n \in 0 .. r.len, WriteFromIter(r, q, n) PROVE ValValid(mem', v)
      <3>1. PICK new \in SUBSET {AssumeValid(r, q, FALSE)} :
               /\ n = r.len \/ new = {}
               /\ v \in Lose(Overlapping(r, n), "bytes") \union new
        BY <2>5 DEF WriteFromIter, WriteSlice, HoldVals
      <3>2. n = r.len /\ v = AssumeValid(r, q, FALSE)
        BY <3>1, KeptValues
      <3>3. ElementsValid(mem', r.ptr, r.elem, r.len)
        BY <2>5, <3>2 DEF WriteFromIter, WriteSlice, Stores
      <3> QED BY <2>1, <3>2, <3>3, AssumeValidValid
    <2>6. CASE vals' \subseteq Overwritten(r)
      BY <2>6, KeptValues
    <2>7. \/ Validate(r, q) \/ ValidateAsStr(r, q) \/ Write(r, q)
          \/ \E n \in 0 .. r.len : WriteFromIter(r, q, n)
          \/ vals' = Overwritten(r) \/ vals' = vals
      BY <1>1 DEF UseRef, ValidateMutRef, ValidateMutSlice, ValidateRef, ValidateSlice, WriteRef,
                  ArrayCopyFromSlice, CopyFromSlice, CopyRef, CopyMutRef, CopyFrom,
                  UpdateFromRef, UpdateFromMutRef, UpdateFrom, WriteCopy, AddCopy, ReplaceCopy
    <2> QED BY <2>2, <2>3, <2>4, <2>5, <2>6, <2>7
  <1>2. ASSUME NEW w \in vals, FromVal(w) PROVE ValValid(mem', v)
    <2>1. PICK i \in 0 .. w.ref.len : AsArray(w, i)
      BY <1>2 DEF FromVal, AsRef, AsMut, DropVal, AddRef
    <2>2. PICK s \in Elements(w.ref, i) : v = [w EXCEPT !.ref = s]
      BY <2>1 DEF AsArray, AddVal, HoldVals
    <2>3. w \in Val /\ Good(w.ref) /\ i \in Nat /\ i < w.ref.len /\ ~ w.str /\ mem' = mem
      BY <2>1 DEF BoundsInv, GoodVal, AsArray, Sized
    <2>4. v.ref = s /\ v.str = w.str /\ v.lost = w.lost
      BY <2>2, <2>3 DEF Val
    <2>5. s.checked # "none" /\ w.lost = "nothing"
      BY <2>4 DEF Protected
    <2>6. w.ref.checked # "none" /\ s.elem = w.ref.elem /\ s.ptr = w.ref.ptr /\ s.len = 1 /\ 1 =< w.ref.len
      BY <2>3, <2>5, ElementsGood
    <2>7. ElementsValid(mem, w.ref.ptr, w.ref.elem, w.ref.len) /\ w.ref.len \in Nat
      BY <2>3, <2>5, <2>6 DEF ValidatedIsValid, ValValid, Protected, Good, Ref
    <2>8. ElementsValid(mem, w.ref.ptr, w.ref.elem, 1)
      BY <2>6, <2>7 DEF ElementsValid
    <2> QED BY <2>3, <2>4, <2>6, <2>8 DEF ValValid
  <1>3. ASSUME NEW r \in refs, FromRef(r) PROVE vals' = vals
    BY <1>3 DEF FromRef, AsImmut, SliceAsImmut, AsSlice, MakeIter, MutRefGet, RefGet,
                SliceGet, GetElement, SubRefUnchecked, AddRef
  <1>4. ASSUME NEW c \in copies, FromCopy(c) PROVE vals' = vals
    BY <1>4 DEF FromCopy, CopyClone, CopyValidate, CopyValidateRef, CopyValidateCopy,
                EndLend, DropCopy, AddCopy, ReplaceCopy
  <1>5. CASE MakeRef
    BY <1>5 DEF MakeRef, AddRef
  <1>6. ASSUME NEW e, NEW n, CopyNew(e, n) \/ CopyZeroed(e, n) \/ CopyFromUninit(e, n)
        PROVE  vals' = vals
    BY <1>6 DEF CopyNew, CopyZeroed, CopyFromUninit, AddCopy
  <1>7. ASSUME NEW it \in iters, IterNext(it) PROVE vals' = vals
    BY <1>7 DEF IterNext, Advance
  <1>8. ASSUME NEW q \in Brands, NEW h \in Brands, Execute(q, h) PROVE FALSE
    <2>1. v \in Lose({w \in vals : w.scope = h}, "scope")
      BY <1>8 DEF Execute
    <2> QED BY <2>1, LoseKeeps DEF Protected
  <1> QED BY <1>1, <1>2, <1>3, <1>4, <1>5, <1>6, <1>7, <1>8
          DEF Next, MutRefIterNext, RefIterNext, SliceIterNext

(* A validated value is valid as long as it is protected.                  *)
THEOREM ValuesStayValid ==
    ASSUME ~ DISABLE_VALIDATION_CHECKS
    PROVE  Spec => []ValidatedIsValid
PROOF
  <1>1. Init => ValidatedIsValid
    BY DEF Init, ValidatedIsValid
  <1>2. ASSUME BoundsInv, ValidatedIsValid, Next PROVE ValidatedIsValid'
    <2>1. ASSUME NEW v \in vals', v \in vals, Protected(v) PROVE ValValid(mem', v)
      <3>1. GoodVal(v) /\ ValValid(mem, v)
        BY <1>2, <2>1 DEF BoundsInv, ValidatedIsValid
      <3>2. \A b \in Span(v.ref.ptr, v.ref.elem, v.ref.len) : mem'[b] = mem[b]
        BY <1>2, <2>1, NextKeeps DEF ValuesStep, Kept
      <3> QED BY <3>1, <3>2, SameValue
    <2>2. \A v \in vals' : Protected(v) => ValValid(mem', v)
      BY <1>2, <2>1, NewValuesValid
    <2> QED BY <2>2 DEF ValidatedIsValid, Protected, ValValid, ElementsValid, Element, TextValid
  <1>3. ASSUME ValidatedIsValid, UNCHANGED vars PROVE ValidatedIsValid'
    BY <1>3 DEF vars, ValidatedIsValid, Protected, ValValid, ElementsValid, Element, TextValid
  <1>4. BoundsInv /\ ValidatedIsValid /\ [Next]_vars => ValidatedIsValid'
    BY <1>2, <1>3
  <1> QED BY <1>1, <1>4, BoundsAlways, PTL DEF Spec

-----------------------------------------------------------------------------
(* Copies *)

(* A step leaves a copy as it is, makes one of unknown validity, or one    *)
(* whose bytes were found to be valid.                                     *)
CopyStep == \A c \in copies' : \/ c \in copies
                               \/ c.state = "raw"
                               \/ ElementsValid(c.bytes, 1, c.elem, c.len)

(* What the program does with a copy adds only validated ones. *)
LEMMA FromCopyStep ==
    ASSUME BoundsInv, ~ DISABLE_VALIDATION_CHECKS, NEW c \in copies, FromCopy(c)
    PROVE  CopyStep
PROOF
  <1>1. c \in Copy
    BY DEF BoundsInv, GoodCopy
  <1>2. \A state \in {"raw", "lent", "owned"} :
           /\ [c EXCEPT !.state = state].state = state
           /\ [c EXCEPT !.state = state].bytes = c.bytes
           /\ [c EXCEPT !.state = state].elem = c.elem
           /\ [c EXCEPT !.state = state].len = c.len
    BY <1>1 DEF Copy
  <1>3. CASE CopyClone(c)
    BY <1>2, <1>3 DEF CopyClone, AddCopy, CopyStep
  <1>4. CASE CopyValidateCopy(c)
    BY <1>2, <1>4 DEF CopyValidateCopy, CopyIsValid, AddCopy, CopyStep
  <1>5. CASE CopyValidate(c) \/ CopyValidateRef(c)
    <2>1. ElementsValid(c.bytes, 1, c.elem, c.len)
      BY <1>5 DEF CopyValidate, CopyValidateRef, CopyIsValid
    <2>2. PICK state \in {"lent", "owned"} :
             copies' = (copies \ {c}) \union {[c EXCEPT !.state = state]}
      BY <1>5 DEF CopyValidate, CopyValidateRef, ReplaceCopy
    <2> QED BY <1>2, <2>1, <2>2 DEF CopyStep
  <1>6. CASE EndLend(c)
    BY <1>2, <1>6 DEF EndLend, ReplaceCopy, CopyStep
  <1>7. CASE DropCopy(c)
    BY <1>7 DEF DropCopy, CopyStep
  <1> QED BY <1>3, <1>4, <1>5, <1>6, <1>7 DEF FromCopy

(* Every step adds only raw and validated copies. *)
LEMMA NextCopies ==
    ASSUME BoundsInv, ~ DISABLE_VALIDATION_CHECKS, Next
    PROVE  CopyStep
PROOF
  <1>1. \A e, n, bytes : MakeCopy(e, n, bytes).state = "raw"
    BY DEF MakeCopy
  <1>2. ASSUME NEW r \in refs, NEW q \in Brands, UseRef(r, q) PROVE CopyStep
    <2>1. CASE CopyFrom(r, q)
      BY <1>1, <2>1 DEF CopyFrom, AddCopy, CopyStep
    <2>2. ASSUME NEW c \in copies, UpdateFrom(c, r, q) PROVE CopyStep
      <3> DEFINE d == [c EXCEPT !.bytes = AsBytes(r)]
      <3>1. c.state = "raw" /\ copies' = (copies \ {c}) \union {d}
        BY <2>2 DEF UpdateFrom, ReplaceCopy
      <3>2. c \in Copy
        BY DEF BoundsInv, GoodCopy
      <3>3. d.state = c.state
        BY <3>2 DEF Copy
      <3> HIDE DEF d
      <3> QED BY <3>1, <3>3 DEF CopyStep
    <2>3. CASE UNCHANGED copies
      BY <2>3 DEF CopyStep
    <2>4. \/ CopyFrom(r, q) \/ UNCHANGED copies
          \/ \E c \in copies : UpdateFrom(c, r, q)
      BY <1>2 DEF UseRef, ValidateMutRef, ValidateMutSlice, ValidateRef, ValidateSlice, Validate,
                  ValidateAsStr, Write, WriteRef, WriteElements, ArrayCopyFromSlice,
                  WriteFromIter, WriteSlice, CopyFromSlice, CopyRef, CopyMutRef, UpdateFromRef, UpdateFromMutRef,
                  WriteCopy, AddVal, HoldVals
    <2> QED BY <2>1, <2>2, <2>3, <2>4
  <1>3. ASSUME NEW e, NEW n, CopyNew(e, n) \/ CopyZeroed(e, n) \/ CopyFromUninit(e, n)
        PROVE  CopyStep
    BY <1>1, <1>3 DEF CopyNew, CopyZeroed, CopyFromUninit, AddCopy, CopyStep
  <1>4. ASSUME NEW r \in refs, FromRef(r) PROVE copies' = copies
    BY <1>4 DEF FromRef, AsImmut, SliceAsImmut, AsSlice, MakeIter, MutRefGet, RefGet,
                SliceGet, GetElement, SubRefUnchecked, AddRef
  <1>5. ASSUME NEW v \in vals, FromVal(v) PROVE copies' = copies
    BY <1>5 DEF FromVal, AsRef, AsMut, AsArray, DropVal, AddRef, AddVal, HoldVals
  <1>6. CASE MakeRef
    BY <1>6 DEF MakeRef, AddRef, CopyStep
  <1>7. ASSUME NEW it \in iters, IterNext(it) PROVE copies' = copies
    BY <1>7 DEF IterNext, Advance
  <1>8. ASSUME NEW q \in Brands, NEW h \in Brands, Execute(q, h) PROVE copies' = copies
    BY <1>8 DEF Execute
  <1>9. CASE copies' = copies
    BY <1>9 DEF CopyStep
  <1> QED BY <1>2, <1>3, <1>4, <1>5, <1>6, <1>7, <1>8, <1>9, FromCopyStep
          DEF Next, MutRefIterNext, RefIterNext, SliceIterNext

(* What was validated in a copy stays valid, whatever becomes of the       *)
(* memory it was copied from, and whoever writes to that memory.           *)
THEOREM CopiesStayValid ==
    ASSUME ~ DISABLE_VALIDATION_CHECKS
    PROVE  Spec => []CopiesValid
PROOF
  <1>1. Init => CopiesValid
    BY DEF Init, CopiesValid
  <1>2. ASSUME CopiesValid, CopyStep PROVE CopiesValid'
    <2>1. \A c \in copies' : c.state # "raw" => ElementsValid(c.bytes, 1, c.elem, c.len)
      BY <1>2 DEF CopiesValid, CopyStep
    <2> QED BY <2>1 DEF CopiesValid, ElementsValid, Element
  <1>3. UNCHANGED vars => CopyStep
    BY DEF vars, CopyStep
  <1>4. BoundsInv /\ CopiesValid /\ [Next]_vars => CopiesValid'
    BY <1>2, <1>3, NextCopies
  <1> QED BY <1>1, <1>4, BoundsAlways, PTL DEF Spec
=============================================================================
