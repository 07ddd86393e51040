------------------------ MODULE StackAllocatorProofs ------------------------
(***************************************************************************)
(* Theorems about the stack allocator for every size and alignment, every  *)
(* width of an address and every depth of calls.                           *)
(***************************************************************************)
EXTENDS StackAllocator, SequenceTheorems, TLAPS

(* What frame i leaves to the frame above it. *)
Edge(i) == IF i = 0 THEN StackTop ELSE frames[i].ptr

(* What the register holds when the frames above i have returned. *)
RegisterAt(i) == IF i = Len(frames) THEN reg ELSE frames[i + 1].saved

(***************************************************************************)
(* Each frame starts where the one below it ends, its allocation is below  *)
(* its locals, and the register leads every stack_alloc back.              *)
(***************************************************************************)
Stacked(i) ==
    /\ frames[i].low + frames[i].size = Edge(i - 1)
    /\ StackLimit =< frames[i].ptr
    /\ frames[i].ptr + frames[i].bytes =< frames[i].low
    /\ frames[i].kind = "code" => frames[i].ptr = frames[i].low
    /\ frames[i].kind = "alloc" => /\ RegisterAt(i) = frames[i].low
                                   /\ IsMultiple(frames[i].ptr, frames[i].align)
                                   /\ IsMultiple(frames[i].ptr, MinAlign)

(* Further in is further down. *)
Ordered ==
    \A i, j \in 1 .. Len(frames) : i < j => frames[j].low + frames[j].size =< frames[i].ptr

StackInv ==
    /\ TypeOK
    /\ sp = Edge(Len(frames))
    /\ \A i \in 1 .. Len(frames) : Stacked(i) /\ sp =< frames[i].ptr
    /\ Ordered

-----------------------------------------------------------------------------
(* Arithmetic *)

LEMMA Products ==
  ASSUME NEW x \in Nat, NEW a \in Nat, NEW b \in Nat
  PROVE  /\ x * a \in Nat
         /\ x * (a * b) = (x * a) * b
         /\ a >= 1 => x =< x * a
  OBVIOUS

(* Masking the low bits of an address rounds it down to a multiple. *)
LEMMA AlignDownRounds ==
  ASSUME NEW x \in Nat, NEW a \in Nat \ {0}
  PROVE  /\ AlignDown(x, a) \in Nat
         /\ AlignDown(x, a) =< x
         /\ x < AlignDown(x, a) + a
         /\ IsMultiple(AlignDown(x, a), a)
<1> DEFINE k == x \div a
<1>1. k \in Nat
  OBVIOUS
<1>2. x = a * k + (x % a) /\ x % a \in 0 .. a - 1
  OBVIOUS
<1> HIDE DEF k
<1>3. k * a = a * k /\ k * a \in Nat /\ k =< k * a
  BY <1>1, Products
<1>4. AlignDown(x, a) = k * a
  BY DEF AlignDown, k
<1>5. k \in 0 .. k * a
  BY <1>1, <1>3
<1>6. QED
  BY <1>2, <1>3, <1>4, <1>5 DEF IsMultiple

LEMMA MultipleTransitive ==
  ASSUME NEW x \in Nat, NEW a \in Nat, NEW b \in Nat \ {0}, IsMultiple(x, a), IsMultiple(a, b)
  PROVE  IsMultiple(x, b)
<1>1. PICK j \in 0 .. x : x = j * a
  BY DEF IsMultiple
<1>2. PICK k \in 0 .. a : a = k * b
  BY DEF IsMultiple
<1>3. j \in Nat /\ k \in Nat
  BY <1>1, <1>2
<1>4. x = (j * k) * b /\ j * k \in Nat
  BY <1>1, <1>2, <1>3, Products
<1>5. j * k =< x
  BY <1>3, <1>4, Products
<1>6. QED
  BY <1>4, <1>5 DEF IsMultiple

LEMMA MultipleOfItself ==
  ASSUME NEW x \in Nat PROVE IsMultiple(x, x)
<1>1. CASE x = 0
  BY <1>1 DEF IsMultiple
<1>2. CASE x # 0
  BY <1>2, x = 1 * x, 1 \in 0 .. x DEF IsMultiple
<1>3. QED
  BY <1>1, <1>2

(* The alignment that is used is a multiple of the one asked for and of    *)
(* that of the calling convention.                                         *)
LEMMA AlignOfBoth ==
  ASSUME NEW l \in Layouts
  PROVE  /\ AlignOf(l) \in Nat \ {0}
         /\ IsMultiple(AlignOf(l), l.align)
         /\ IsMultiple(AlignOf(l), MinAlign)
         /\ l.size \in Nat /\ l.size + AlignOf(l) =< MaxUsize
<1>1. /\ l.size \in Nat /\ l.align \in Nat \ {0} /\ MinAlign \in Nat \ {0}
      /\ l.size + l.align + MinAlign =< MaxUsize /\ MaxUsize \in Nat
  BY StackAssumption
<1>2. AlignOf(l) \in {l.align, MinAlign} /\ l.align =< AlignOf(l) /\ MinAlign =< AlignOf(l)
  BY <1>1 DEF AlignOf
<1>3. ASSUME NEW a \in Nat \ {0}, NEW b \in Nat, b =< a, IsMultiple(b, a), b # 0
      PROVE  b = a
  <2>1. PICK k \in 0 .. b : b = k * a
    BY <1>3 DEF IsMultiple
  <2>2. k # 0
    BY <1>3, <2>1
  <2>3. a * k = k * a /\ a =< a * k
    BY <2>1, <2>2, Products
  <2>4. QED
    BY <1>3, <2>1, <2>3
<1>4. IsMultiple(l.align, MinAlign) \/ IsMultiple(MinAlign, l.align)
  BY StackAssumption
<1>5. /\ IsMultiple(AlignOf(l), l.align)
      /\ IsMultiple(AlignOf(l), MinAlign)
  <2>1. CASE AlignOf(l) = l.align
    BY <1>1, <1>2, <1>3, <1>4, <2>1, MultipleOfItself
  <2>2. CASE AlignOf(l) = MinAlign
    BY <1>1, <1>2, <1>3, <1>4, <2>2, MultipleOfItself
  <2>3. QED
    BY <1>2, <2>1, <2>2
<1>6. QED
  BY <1>1, <1>2, <1>5

(* If the pointer is on the stack, the subtraction has not wrapped around, *)
(* and all bytes lie below the locals of the function.                     *)
LEMMA AllocatedFits ==
  ASSUME NEW low \in USize, NEW l \in Layouts, OnStack(low, Allocated(low, l))
  PROVE  /\ Allocated(low, l) \in USize
         /\ StackLimit =< Allocated(low, l)
         /\ Allocated(low, l) + l.size =< low
         /\ IsMultiple(Allocated(low, l), l.align)
         /\ IsMultiple(Allocated(low, l), MinAlign)
<1> DEFINE x == (low - l.size) % (MaxUsize + 1)
           a == AlignOf(l)
           p == Allocated(low, l)
<1>1. /\ MaxUsize \in Nat /\ low \in 0 .. MaxUsize /\ l.size \in Nat /\ a \in Nat \ {0}
      /\ l.size + a =< MaxUsize
  BY AlignOfBoth, StackAssumption DEF USize
<1>2. /\ x \in Nat
      /\ l.size =< low => x = low - l.size
      /\ low < l.size => x = low - l.size + MaxUsize + 1
  <2>1. CASE l.size =< low
    BY <1>1, <2>1
  <2>2. CASE low < l.size
    BY <1>1, <2>2
  <2>3. QED
    BY <1>1, <2>1, <2>2
<1>3. p = AlignDown(x, a)
  BY DEF Allocated
<1> HIDE DEF x, a, p
<1>4. p \in Nat /\ p =< x /\ x < p + a /\ IsMultiple(p, a)
  BY <1>1, <1>2, <1>3, AlignDownRounds
<1>5. StackLimit =< p /\ p =< low
  BY DEF OnStack, p
<1>6. l.size =< low
  BY <1>1, <1>2, <1>4, <1>5
<1>7. p + l.size =< low /\ p \in USize
  BY <1>1, <1>2, <1>4, <1>6 DEF USize
<1>8. IsMultiple(p, l.align) /\ IsMultiple(p, MinAlign)
  <2>1. IsMultiple(a, l.align) /\ IsMultiple(a, MinAlign)
    BY AlignOfBoth DEF a
  <2>2. l.align \in Nat \ {0} /\ MinAlign \in Nat \ {0}
    BY StackAssumption
  <2>3. QED
    BY <1>1, <1>4, <2>1, <2>2, MultipleTransitive
<1>9. QED
  BY <1>5, <1>7, <1>8 DEF p

-----------------------------------------------------------------------------
(* Frames that are pushed and popped *)

LEMMA FrameTypes ==
  ASSUME NEW f \in Frame
  PROVE  /\ f.low \in Nat /\ f.size \in Nat \ {0} /\ f.ptr \in Nat /\ f.bytes \in Nat
         /\ f.low + f.size \in Nat /\ f.saved \in USize
<1>1. f.low \in USize /\ f.size \in FrameSizes /\ f.ptr \in USize /\ f.bytes \in Nat
      /\ f.saved \in USize
  BY DEF Frame
<1>2. FrameSizes \subseteq Nat \ {0} /\ USize \subseteq Nat
  BY StackAssumption DEF USize
<1>3. f.low \in Nat /\ f.size \in Nat \ {0} /\ f.ptr \in Nat
  BY <1>1, <1>2
<1>4. f.low + f.size \in Nat
  BY <1>3
<1>5. QED
  BY <1>1, <1>3, <1>4

LEMMA StackShape ==
  ASSUME StackInv
  PROVE  /\ Len(frames) \in Nat /\ DOMAIN frames = 1 .. Len(frames)
         /\ \A i \in 1 .. Len(frames) :
               /\ frames[i] \in Frame
               /\ frames[i].low \in Nat /\ frames[i].size \in Nat \ {0}
               /\ frames[i].ptr \in Nat /\ frames[i].bytes \in Nat
               /\ frames[i].low + frames[i].size \in Nat /\ frames[i].saved \in USize
         /\ sp \in Nat /\ StackTop \in Nat /\ StackLimit \in Nat
<1>1. frames \in Seq(Frame)
  BY DEF StackInv, TypeOK
<1>2. Len(frames) \in Nat /\ DOMAIN frames = 1 .. Len(frames)
  BY <1>1
<1>3. \A i \in 1 .. Len(frames) : frames[i] \in Frame
  BY <1>1
<1>4. sp \in Nat /\ StackTop \in Nat /\ StackLimit \in Nat
  BY StackAssumption DEF StackInv, TypeOK
<1>5. QED
  BY <1>2, <1>3, <1>4, FrameTypes

LEMMA LastIs ==
  ASSUME StackInv, frames # <<>>
  PROVE  /\ Len(frames) \in 1 .. Len(frames)
         /\ Last(frames) = frames[Len(frames)]
<1>1. frames \in Seq(Frame)
  BY DEF StackInv, TypeOK
<1>2. Len(frames) \in Nat \ {0}
  BY <1>1, EmptySeq
<1>3. QED
  BY <1>2 DEF Last

LEMMA SumIsBelow ==
  ASSUME NEW a \in Nat, NEW b \in Nat, NEW c \in Nat, NEW d \in Nat, a + b =< c
  PROVE  a =< c + d
  OBVIOUS

(* All frames are on the stack. *)
LEMMA FrameOnStack ==
  ASSUME StackInv, NEW i \in 1 .. Len(frames)
  PROVE  /\ frames[i].ptr =< frames[i].low + frames[i].size
         /\ frames[i].low + frames[i].size =< StackTop
<1>1. ASSUME NEW k \in 1 .. Len(frames)
      PROVE  /\ frames[k].ptr =< frames[k].low + frames[k].size
             /\ frames[k].ptr \in Nat /\ frames[k].low + frames[k].size \in Nat
  <2>1. /\ frames[k].ptr \in Nat /\ frames[k].bytes \in Nat
        /\ frames[k].low \in Nat /\ frames[k].size \in Nat
        /\ frames[k].ptr + frames[k].bytes =< frames[k].low
    BY StackShape DEF StackInv, Stacked
  <2>2. QED
    BY <2>1, SumIsBelow, StackShape
<1>2. 1 \in 1 .. Len(frames) /\ StackTop \in Nat
  BY StackShape
<1>3. Stacked(1) /\ Edge(1 - 1) = StackTop
  BY <1>2 DEF StackInv, Edge
<1>4. frames[1].low + frames[1].size = StackTop
  BY <1>3 DEF Stacked
<1>5. i = 1 \/ frames[i].low + frames[i].size =< frames[1].ptr
  BY <1>2 DEF StackInv, Ordered
<1>6. QED
  BY <1>1, <1>2, <1>4, <1>5

(* A frame below the stack pointer that saves the register. *)
LEMMA PushKeeps ==
  ASSUME StackInv, NEW f \in Frame, NEW v \in USize,
         f.low + f.size = sp, f.saved = reg,
         StackLimit =< f.ptr, f.ptr + f.bytes =< f.low,
         f.kind = "code" => f.ptr = f.low,
         f.kind = "alloc" => /\ v = f.low
                             /\ IsMultiple(f.ptr, f.align) /\ IsMultiple(f.ptr, MinAlign),
         sp' = f.ptr, reg' = v, frames' = Append(frames, f), status' = status
  PROVE  StackInv'
<1>0. PICK n \in Nat : n = Len(frames)
  BY StackShape
<1>1. frames \in Seq(Frame) /\ sp \in StackLimit .. StackTop
  BY DEF StackInv, TypeOK
<1>2. /\ n \in Nat /\ Len(frames') = n + 1 /\ frames' \in Seq(Frame)
      /\ \A i \in 1 .. n : frames'[i] = frames[i]
      /\ frames'[n + 1] = f
  BY <1>0, <1>1
<1>3. /\ f.low \in Nat /\ f.size \in Nat \ {0} /\ f.ptr \in Nat /\ f.bytes \in Nat
      /\ sp \in Nat /\ StackTop \in Nat /\ StackLimit \in Nat
  BY StackShape, FrameTypes
<1>4. f.ptr =< sp
  BY <1>3
<1>5. TypeOK'
  BY <1>1, <1>2, <1>3, <1>4 DEF StackInv, TypeOK
<1>6. sp' = Edge(n + 1)'
  BY <1>2, n + 1 # 0 DEF Edge
<1>7. ASSUME NEW i \in 1 .. n PROVE Stacked(i)' /\ sp' =< frames'[i].ptr
  <2>1. Stacked(i) /\ sp =< frames[i].ptr /\ frames[i].ptr \in Nat
    BY <1>0, StackShape DEF StackInv
  <2>2. Edge(i - 1)' = Edge(i - 1)
    BY <1>2 DEF Edge
  <2>3. RegisterAt(i)' = RegisterAt(i)
    <3>1. CASE i = n
      BY <1>0, <1>2, <3>1 DEF RegisterAt
    <3>2. CASE i # n
      BY <1>0, <1>2, <3>2, i + 1 \in 1 .. n DEF RegisterAt
    <3>3. QED
      BY <3>1, <3>2
  <2>4. Stacked(i)'
    BY <1>2, <2>1, <2>2, <2>3 DEF Stacked
  <2>5. QED
    BY <1>2, <1>3, <1>4, <2>1, <2>4
<1>8. Stacked(n + 1)' /\ sp' =< frames'[n + 1].ptr
  <2>1. Edge(n + 1 - 1)' = sp
    <3>1. n + 1 - 1 = n /\ sp = Edge(n)
      BY <1>0, <1>2 DEF StackInv
    <3>2. n = 0 \/ n \in 1 .. n
      BY <1>2
    <3>3. QED
      BY <1>2, <3>1, <3>2 DEF Edge
  <2>2. RegisterAt(n + 1)' = v
    BY <1>2 DEF RegisterAt
  <2>3. f.ptr =< f.ptr
    BY <1>3
  <2>4. Stacked(n + 1)'
    BY <1>2, <2>1, <2>2 DEF Stacked
  <2>5. QED
    BY <1>2, <2>3, <2>4
<1>9. Ordered'
  <2> SUFFICES ASSUME NEW i \in 1 .. n + 1, NEW j \in 1 .. n + 1, i < j
               PROVE  frames'[j].low + frames'[j].size =< frames'[i].ptr
    BY <1>2 DEF Ordered
  <2>1. i \in 1 .. n
    BY <1>2
  <2>2. CASE j = n + 1
    BY <1>0, <1>2, <2>1, <2>2 DEF StackInv
  <2>3. CASE j # n + 1
    BY <1>0, <1>2, <2>1, <2>3, j \in 1 .. n DEF StackInv, Ordered
  <2>4. QED
    BY <2>2, <2>3
<1>10. \A i \in 1 .. n + 1 : Stacked(i)' /\ sp' =< frames'[i].ptr
  <2>1. \A i \in 1 .. n + 1 : i \in 1 .. n \/ i = n + 1
    BY <1>2
  <2>2. QED
    BY <1>7, <1>8, <2>1
<1>11. QED
  BY <1>2, <1>5, <1>6, <1>9, <1>10 DEF StackInv

(* The last frame goes, and its caller has its stack pointer and its       *)
(* register again.                                                         *)
LEMMA PopKeeps ==
  ASSUME StackInv, frames # <<>>, frames' = Front(frames),
         sp' = Last(frames).low + Last(frames).size,
         reg' = Last(frames).saved, status' = status
  PROVE  StackInv'
<1>0. PICK n \in Nat : n = Len(frames)
  BY StackShape
<1>1. /\ n \in Nat \ {0} /\ Last(frames) = frames[n] /\ frames \in Seq(Frame)
      /\ n \in 1 .. n
  BY <1>0, LastIs, StackShape DEF StackInv, TypeOK
<1>2. /\ Len(frames') = n - 1 /\ frames' \in Seq(Frame)
      /\ \A i \in 1 .. n - 1 : frames'[i] = frames[i]
  <2>1. frames' = SubSeq(frames, 1, n - 1)
    BY <1>0 DEF Front
  <2>2. n - 1 \in Nat /\ n - 1 =< Len(frames) /\ 1 .. n - 1 \subseteq 1 .. Len(frames)
    BY <1>0, <1>1
  <2>3. QED
    BY <1>1, <2>1, <2>2, SubSeqProperties
<1>3. Stacked(n) /\ sp' = Edge(n - 1) /\ frames[n].saved \in USize
  BY <1>0, <1>1, StackShape DEF StackInv, Stacked
<1>4. Edge(n - 1)' = Edge(n - 1)
  BY <1>1, <1>2, n - 1 = 0 \/ n - 1 \in 1 .. n - 1 DEF Edge
<1>5. sp' \in StackLimit .. StackTop
  <2>1. /\ sp \in StackLimit .. StackTop /\ sp =< frames[n].ptr
        /\ StackTop \in Nat /\ StackLimit \in Nat /\ sp \in Nat
    BY <1>0, <1>1, StackShape DEF StackInv, TypeOK
  <2>2. /\ frames[n].ptr =< sp' /\ sp' =< StackTop
        /\ frames[n].ptr \in Nat /\ sp' \in Nat
    BY <1>0, <1>1, FrameOnStack, StackShape
  <2>3. QED
    BY <2>1, <2>2
<1>6. TypeOK'
  BY <1>1, <1>2, <1>3, <1>5 DEF StackInv, TypeOK
<1>7. ASSUME NEW i \in 1 .. n - 1 PROVE Stacked(i)' /\ sp' =< frames'[i].ptr
  <2>1. Stacked(i) /\ i \in 1 .. n
    BY <1>0, <1>1 DEF StackInv
  <2>2. Edge(i - 1)' = Edge(i - 1)
    BY <1>2 DEF Edge
  <2>3. RegisterAt(i)' = RegisterAt(i)
    BY <1>0, <1>1, <1>2 DEF RegisterAt
  <2>4. Stacked(i)'
    BY <1>2, <2>1, <2>2, <2>3 DEF Stacked
  <2>5. sp' =< frames[i].ptr
    BY <1>0, <1>1 DEF StackInv, Ordered
  <2>6. QED
    BY <1>2, <2>4, <2>5
<1>8. Ordered'
  BY <1>0, <1>1, <1>2 DEF StackInv, Ordered
<1>9. sp' = Edge(Len(frames))'
  BY <1>2, <1>3, <1>4
<1>10. QED
  BY <1>2, <1>6, <1>7, <1>8, <1>9 DEF StackInv

-----------------------------------------------------------------------------
(* The invariant *)

LEMMA StackInit == Init => StackInv
<1> SUFFICES ASSUME Init PROVE StackInv
  OBVIOUS
<1>1. frames = <<>> /\ Len(frames) = 0 /\ sp = StackTop /\ reg \in Scratch /\ status = "run"
  BY DEF Init
<1>2. TypeOK
  BY <1>1, StackAssumption DEF TypeOK
<1>3. QED
  BY <1>1, <1>2 DEF StackInv, Edge, Ordered

LEMMA StackStep == StackInv /\ [Next]_vars => StackInv'
<1> SUFFICES ASSUME StackInv, [Next]_vars PROVE StackInv'
  OBVIOUS
<1>1. /\ sp \in StackLimit .. StackTop /\ reg \in USize
      /\ StackLimit \in Nat /\ StackTop \in Nat /\ MaxUsize \in Nat /\ StackTop =< MaxUsize
  BY StackAssumption DEF StackInv, TypeOK
<1>2. ASSUME NEW n \in FrameSizes, NEW v \in Scratch \union {reg}, Call(n, v) PROVE StackInv'
  <2> DEFINE f == [kind |-> "code", low |-> sp - n, size |-> n, saved |-> reg,
                   ptr |-> sp - n, bytes |-> 0, align |-> 1]
  <2>1. n \in Nat \ {0} /\ v \in USize
    BY <1>1, StackAssumption
  <2>2. sp - n \in USize /\ (sp - n) + n = sp /\ StackLimit =< sp - n /\ (sp - n) + 0 =< sp - n
    BY <1>1, <1>2, <2>1 DEF Call, USize
  <2>3. f \in Frame
    BY <1>1, <2>1, <2>2 DEF Frame
  <2>4. sp' = f.ptr /\ reg' = v /\ frames' = Append(frames, f) /\ status' = status
    BY <1>2 DEF Call
  <2>5. QED
    BY <2>1, <2>2, <2>3, <2>4, PushKeeps
<1>3. ASSUME NEW n \in FrameSizes, NEW l \in Layouts, StackAlloc(n, l) PROVE StackInv'
  <2> DEFINE low == sp - n
             ptr == Allocated(low, l)
             f == [kind |-> "alloc", low |-> low, size |-> n, saved |-> reg,
                   ptr |-> ptr, bytes |-> l.size, align |-> l.align]
  <2>1. n \in Nat \ {0} /\ l.size \in Nat /\ l.align \in Nat \ {0}
    BY StackAssumption
  <2>2. low \in USize /\ low + n = sp
    BY <1>1, <1>3, <2>1 DEF StackAlloc, USize
  <2>3. /\ ptr \in USize /\ StackLimit =< ptr /\ ptr + l.size =< low
        /\ IsMultiple(ptr, l.align) /\ IsMultiple(ptr, MinAlign)
    BY <1>3, <2>2, AllocatedFits DEF StackAlloc
  <2>4. /\ sp' = ptr /\ reg' = low /\ frames' = Append(frames, f) /\ status' = status
    BY <1>3 DEF StackAlloc
  <2> HIDE DEF low, ptr
  <2>5. f \in Frame
    BY <1>1, <2>1, <2>2, <2>3 DEF Frame
  <2>6. QED
    BY <2>2, <2>3, <2>4, <2>5, PushKeeps
<1>4. CASE Return
  <2>1. frames # <<>> /\ Last(frames).kind = "code"
    BY <1>4 DEF Return
  <2>2. sp = Last(frames).low
    BY <2>1, LastIs, StackShape DEF StackInv, Stacked, Edge
  <2>3. QED
    BY <1>4, <2>1, <2>2, PopKeeps DEF Return
<1>5. CASE StackAllocReturn
  <2>1. frames # <<>> /\ Last(frames).kind = "alloc"
    BY <1>5 DEF StackAllocReturn
  <2>2. reg = Last(frames).low
    BY <2>1, LastIs, StackShape DEF StackInv, Stacked, RegisterAt
  <2>3. QED
    BY <1>5, <2>1, <2>2, PopKeeps DEF StackAllocReturn
<1>6. ASSUME UNCHANGED <<sp, reg, frames>>, status' \in {status, "overflow", "abort"}
      PROVE  StackInv'
  BY <1>6 DEF StackInv, TypeOK, Edge, Ordered, Stacked, RegisterAt
<1>7. QED
  BY <1>2, <1>3, <1>4, <1>5, <1>6
     DEF Next, vars, CallOverflows, StackAllocOverflows, Abort, Stopped

LEMMA StackInvariance == Spec => []StackInv
  BY StackInit, StackStep, PTL DEF Spec

-----------------------------------------------------------------------------
(* Theorems *)

(* The state keeps its types; in particular the stack pointer stays on the *)
(* stack until an allocation or a call does not fit.                       *)
THEOREM TypeCorrect == Spec => []TypeOK
<1>1. StackInv => TypeOK
  BY DEF StackInv
<1>2. QED
  BY <1>1, StackInvariance, PTL

(* Every function runs with the stack pointer at its own frame, and every  *)
(* stack_alloc finds its old one again, however calls and allocations nest *)
(* and whatever functions do with the register.                            *)
THEOREM StackPointerKept == Spec => []StackPointerCorrect
<1>1. StackInv => StackPointerCorrect
  <2> SUFFICES ASSUME StackInv PROVE StackPointerCorrect
    OBVIOUS
  <2>1. CASE frames = <<>>
    BY <2>1 DEF StackPointerCorrect, StackInv, Edge
  <2>2. CASE frames # <<>>
    BY <2>2, LastIs, StackShape DEF StackPointerCorrect, StackInv, Stacked, Edge, RegisterAt
  <2>3. QED
    BY <2>1, <2>2
<1>2. QED
  BY <1>1, StackInvariance, PTL

(* Memory from the stack has the alignment of its layout, smaller or       *)
(* larger than that of the stack, and callbacks are called with the        *)
(* alignment of the calling convention.                                    *)
THEOREM AlwaysAligned == Spec => []AllocationsAligned
<1>1. StackInv => AllocationsAligned
  BY StackShape DEF StackInv, Stacked, AllocationsAligned
<1>2. QED
  BY <1>1, StackInvariance, PTL

(* Ranges a .. b - 1 and c .. d - 1 of which one ends where or before the  *)
(* other begins.                                                           *)
LEMMA RangesApart ==
  ASSUME NEW a \in Nat, NEW b \in Nat, NEW c \in Nat, NEW d \in Nat, b =< c
  PROVE  (a .. b - 1) \cap (c .. d - 1) = {}
  OBVIOUS

LEMMA RangeWithin ==
  ASSUME NEW a \in Nat, NEW b \in Nat, NEW c \in Nat, NEW d \in Nat, c =< a, b =< d
  PROVE  a .. b - 1 \subseteq c .. d - 1
  OBVIOUS

(* All that frame i owns lies between its pointer and the one below. *)
LEMMA Owned ==
  ASSUME StackInv, NEW i \in 1 .. Len(frames), NEW e \in Nat, e = frames[i].low + frames[i].size
  PROVE  /\ Locals(frames[i]) \union Memory(frames[i]) \subseteq frames[i].ptr .. e - 1
         /\ Locals(frames[i]) \cap Memory(frames[i]) = {}
<1>1. /\ frames[i].low \in Nat /\ frames[i].size \in Nat /\ frames[i].ptr \in Nat
      /\ frames[i].bytes \in Nat /\ frames[i].ptr + frames[i].bytes =< frames[i].low
  BY StackShape DEF StackInv, Stacked
<1>2. QED
  <2>1. ASSUME NEW x \in Int, x \in Locals(frames[i]) \/ x \in Memory(frames[i])
        PROVE  frames[i].ptr =< x /\ x =< e - 1
    <3>1. frames[i].ptr =< frames[i].low
      BY <1>1
    <3>2. CASE x \in Locals(frames[i])
      <4>1. frames[i].low =< x /\ x =< e - 1
        BY <1>1, <3>2 DEF Locals
      <4>2. QED
        BY <1>1, <3>1, <4>1
    <3>3. CASE x \in Memory(frames[i])
      <4>1. frames[i].ptr =< x /\ x =< frames[i].ptr + frames[i].bytes - 1
        BY <1>1, <3>3 DEF Memory
      <4>2. frames[i].low =< e
        BY <1>1
      <4>3. QED
        BY <1>1, <4>1, <4>2
    <3>4. QED
      BY <2>1, <3>2, <3>3
  <2>2. Locals(frames[i]) \subseteq Int /\ Memory(frames[i]) \subseteq Int
    BY DEF Locals, Memory
  <2>3. Locals(frames[i]) \cap Memory(frames[i]) = {}
    BY <1>1 DEF Locals, Memory
  <2>4. QED
    BY <1>1, <2>1, <2>2, <2>3

(* No allocation overlaps another one, the locals of a running function or *)
(* what lies below the stack pointer, for all sizes and alignments.        *)
THEOREM NeverOverlapping == Spec => []MemoryDisjoint
<1>1. StackInv => MemoryDisjoint
  <2> SUFFICES ASSUME StackInv, NEW i \in 1 .. Len(frames)
               PROVE  /\ Locals(frames[i]) \union Memory(frames[i]) \subseteq sp .. StackTop - 1
                      /\ Locals(frames[i]) \cap Memory(frames[i]) = {}
                      /\ \A j \in 1 .. Len(frames) \ {i} :
                            (Locals(frames[i]) \union Memory(frames[i]))
                              \cap (Locals(frames[j]) \union Memory(frames[j])) = {}
    BY StackShape DEF MemoryDisjoint
  <2> DEFINE All(k) == Locals(frames[k]) \union Memory(frames[k])
  <2>1. ASSUME NEW k \in 1 .. Len(frames), NEW e \in Nat, e = frames[k].low + frames[k].size
        PROVE  /\ All(k) \subseteq frames[k].ptr .. e - 1
               /\ Locals(frames[k]) \cap Memory(frames[k]) = {}
    BY <2>1, Owned
  <2> HIDE DEF All
  <2>2. ASSUME NEW k \in 1 .. Len(frames), NEW j \in 1 .. Len(frames), k < j
        PROVE  All(k) \cap All(j) = {}
    <3>1. frames[j].low + frames[j].size =< frames[k].ptr
      BY <2>2 DEF StackInv, Ordered
    <3>2. /\ frames[k].ptr \in Nat /\ frames[j].ptr \in Nat
          /\ frames[j].low + frames[j].size \in Nat /\ frames[k].low + frames[k].size \in Nat
      BY StackShape
    <3>3. QED
      <4>1. PICK e \in Nat : e = frames[j].low + frames[j].size
        BY <3>2
      <4>2. PICK d \in Nat : d = frames[k].low + frames[k].size
        BY <3>2
      <4>3. (frames[j].ptr .. e - 1) \cap (frames[k].ptr .. d - 1) = {}
        BY <3>1, <3>2, <4>1, RangesApart
      <4>4. QED
        BY <2>1, <4>1, <4>2, <4>3
  <2>3. All(i) \subseteq sp .. StackTop - 1
    <3>1. sp =< frames[i].ptr /\ sp \in Nat /\ StackTop \in Nat /\ frames[i].ptr \in Nat
      BY StackShape DEF StackInv
    <3>2. frames[i].low + frames[i].size =< StackTop /\ frames[i].low + frames[i].size \in Nat
      BY FrameOnStack, StackShape
    <3>3. QED
      <4>1. PICK e \in Nat : e = frames[i].low + frames[i].size
        BY <3>2
      <4>2. frames[i].ptr .. e - 1 \subseteq sp .. StackTop - 1
        BY <3>1, <3>2, <4>1, RangeWithin
      <4>3. QED
        BY <2>1, <4>1, <4>2
  <2>4. ASSUME NEW j \in 1 .. Len(frames) \ {i} PROVE All(i) \cap All(j) = {}
    <3>1. i < j \/ j < i
      BY StackShape
    <3>2. QED
      BY <2>2, <3>1
  <2>5. QED
    <3>1. frames[i].low + frames[i].size \in Nat
      BY StackShape
    <3>2. Locals(frames[i]) \cap Memory(frames[i]) = {}
      BY <2>1, <3>1
    <3>3. QED
      BY <2>3, <2>4, <3>2 DEF All
<1>2. QED
  BY <1>1, StackInvariance, PTL
=============================================================================
