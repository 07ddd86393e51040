------------------------- MODULE MockRtScopeProofs -------------------------
(***************************************************************************)
(* Theorems about what the scopes of the mock runtime lead to: which       *)
(* memory they upgrade, and which callback ids they give out.              *)
(***************************************************************************)
EXTENDS MockRtProofs, FiniteSetTheorems

-----------------------------------------------------------------------------
(***************************************************************************)
(* Brands.  A scope of runtime r is a node of r, and a chain does not      *)
(* change its brand on the way to Base, although the chains of all         *)
(* runtimes start at one head.                                             *)
(***************************************************************************)

BrandedFrame(f, mem) ==
    /\ \A r \in Runtimes : \A n \in {f.ctx[r], f.captured[r]} \cap Addr : mem[n].brand = r
    /\ \A k \in DOMAIN f.chain : mem[f.chain[k]].brand = f.brand
    /\ f.kind = "alloc" => f.rt = f.brand /\ (f.region = "borrowed" => ~ f.mutable)

Branded == \A a \in Live : BrandedFrame(frame[a], frame)

BrandInv == NestInv /\ Branded

LEMMA NotAddr == None \notin Addr /\ NoScope \notin Addr /\ None # NoScope
  BY DEF None, NoScope, Addr

(* What the frames of a stack point to is live. *)
PointersInLive ==
    \A a \in Live :
        /\ \A r \in Runtimes : {frame[a].ctx[r], frame[a].captured[r]} \cap Addr \subseteq Live
        /\ \A k \in DOMAIN frame[a].chain : frame[a].chain[k] \in Live

LEMMA PointersLive == NestInv => PointersInLive
<1> SUFFICES ASSUME NestInv, NEW a \in Live
             PROVE  /\ \A r \in Runtimes :
                          {frame[a].ctx[r], frame[a].captured[r]} \cap Addr \subseteq Live
                    /\ \A k \in DOMAIN frame[a].chain : frame[a].chain[k] \in Live
  BY DEF PointersInLive
<1>1. PICK t \in Threads : \E i \in 1 .. Len(stack[t]) : stack[t][i] = a
  BY DEF NestInv, TypeInv, StackInv
<1>2. PICK i \in 1 .. Len(stack[t]) : stack[t][i] = a
  BY <1>1
<1>3. Len(stack[t]) \in Nat
  BY StackShape DEF NestInv, TypeInv
<1>4. Below(t, i) \subseteq Live
  BY <1>3 DEF Below, NestInv, TypeInv, StackInv
<1>5. Within(frame[a], Below(t, i))
  BY <1>2 DEF NestInv, Nested
<1>6. QED
  BY <1>4, <1>5, NotAddr DEF Within

(* The scope of r that running code holds is a node of r. *)
LEMMA CtxBranded ==
  ASSUME BrandInv, NEW t \in Threads, NEW r \in Runtimes, Ctx(t)[r] \in Addr
  PROVE  /\ Ctx(t)[r] \in Live
         /\ frame[Ctx(t)[r]].brand = r
<1>1. CASE stack[t] = <<>>
  BY <1>1, NotAddr DEF Ctx
<1>2. CASE stack[t] # <<>>
  <2>1. Top(t) \in Live /\ Ctx(t) = frame[Top(t)].ctx
    BY <1>2, TopLive DEF BrandInv, NestInv, Ctx
  <2>2. QED
    BY <2>1, PointersLive DEF PointersInLive, BrandInv, Branded, BrandedFrame
<1>3. QED
  BY <1>1, <1>2

(* All nodes of the chain of a live node have its brand. *)
LEMMA ChainBranded ==
  ASSUME BrandInv, NEW n \in Live, NEW k \in DOMAIN Chain(n)
  PROVE  Chain(n)[k] \in Live /\ frame[Chain(n)[k]].brand = frame[n].brand
  BY PointersLive DEF PointersInLive, BrandInv, Branded, BrandedFrame, Chain

(* A longer chain keeps its brand. *)
LEMMA LongerChainBranded ==
  ASSUME BrandInv, NEW n, NEW b \in Runtimes, Fresh # {}, NEW mem,
         \/ n \notin Live
         \/ n \in Live /\ frame[n].brand = b,
         mem[NewAddr].brand = b, \A a \in Live : mem[a] = frame[a],
         NEW k \in DOMAIN (<<NewAddr>> \o Chain(n))
  PROVE  mem[(<<NewAddr>> \o Chain(n))[k]].brand = b
<1> DEFINE x == (<<NewAddr>> \o Chain(n))[k]
<1>1. x = NewAddr \/ \E j \in DOMAIN Chain(n) : x = Chain(n)[j]
  BY LongerChain DEF BrandInv, NestInv
<1>2. CASE x = NewAddr
  BY <1>2
<1>3. CASE \E j \in DOMAIN Chain(n) : x = Chain(n)[j]
  <2>1. PICK j \in DOMAIN Chain(n) : x = Chain(n)[j]
    BY <1>3
  <2>2. n \in Live
    BY <2>1 DEF Chain
  <2>3. x \in Live /\ frame[x].brand = frame[n].brand
    BY <2>1, <2>2, ChainBranded
  <2>4. QED
    BY <2>2, <2>3
<1>4. QED
  BY <1>1, <1>2, <1>3

(* A new frame is branded. *)
LEMMA PushedBranded ==
  ASSUME BrandInv, NEW t \in Threads, NEW f, PushedFrame(t, f), Fresh # {}, NEW mem,
         mem[NewAddr] = f, \A a \in Live : mem[a] = frame[a]
  PROVE  BrandedFrame(f, mem)
<1>1. \A r \in Runtimes : Ctx(t)[r] \in Addr => mem[Ctx(t)[r]].brand = r
  BY CtxBranded
<1>2. Ctx(t) \in [Runtimes -> Scope]
  BY CtxType DEF BrandInv, NestInv
<1>3. \A s \in Runtimes : \/ Ctx(t)[s] \notin Live
                          \/ Ctx(t)[s] \in Live /\ frame[Ctx(t)[s]].brand = s
  BY CtxBranded DEF BrandInv, NestInv, TypeInv, TypeOK
<1>4. ASSUME NEW r \in Runtimes, NEW s \in Runtimes, NEW cap, f = SetupFrame(t, r, s, cap)
      PROVE  BrandedFrame(f, mem)
  <2>1. /\ f.chain = <<NewAddr>> \o Chain(Ctx(t)[s]) /\ f.kind = "setup" /\ f.brand = s
        /\ \A c \in Runtimes : f.ctx[c] = IF c = s THEN NewAddr
                                          ELSE IF c \in cap THEN NoScope ELSE Ctx(t)[c]
        /\ \A c \in Runtimes : f.captured[c] = IF c \in cap THEN Ctx(t)[c] ELSE NoScope
    BY <1>4 DEF SetupFrame, PlainFrame
  <2>2. \A k \in DOMAIN f.chain : mem[f.chain[k]].brand = f.brand
    <3>1. mem[NewAddr].brand = s
      BY <2>1
    <3>2. \A k \in DOMAIN (<<NewAddr>> \o Chain(Ctx(t)[s])) :
             mem[(<<NewAddr>> \o Chain(Ctx(t)[s]))[k]].brand = s
      BY <1>3, <3>1, LongerChainBranded
    <3>3. QED
      BY <2>1, <3>2
  <2>3. QED
    BY <1>1, <2>1, <2>2, NotAddr DEF BrandedFrame
<1>5. ASSUME NEW r \in Runtimes, NEW s \in Runtimes, f = ExecuteFrame(t, r, s)
      PROVE  BrandedFrame(f, mem)
  <2>1. /\ f.chain = <<>> /\ f.kind = "exec" /\ f.captured = Nothing
        /\ \A c \in Runtimes : f.ctx[c] = IF c = s THEN NoScope ELSE Ctx(t)[c]
    BY <1>2, <1>5 DEF ExecuteFrame, PlainFrame
  <2>2. QED
    BY <1>1, <2>1, NotAddr DEF BrandedFrame, Nothing
<1>6. ASSUME NEW r \in Runtimes, NEW id \in Nat, Callee(id) \in Addr, f = CallbackFrame(r, id)
      PROVE  BrandedFrame(f, mem)
  <2> DEFINE b == frame[head].brand
  <2>1. head \in Live /\ Callee(id) \in Live
    BY <1>6, CalleeFound DEF BrandInv, NestInv, Setups
  <2>2. b \in Runtimes /\ frame[Callee(id)].captured \in [Runtimes -> Scope]
    BY <2>1, FrameFields DEF BrandInv, NestInv, TypeInv, TypeOK
  <2>3. /\ f.chain = <<NewAddr>> \o Chain(head) /\ f.kind = "callback" /\ f.brand = b
        /\ f.captured = Nothing
        /\ \A c \in Runtimes : f.ctx[c] = IF c = b THEN NewAddr
                                          ELSE frame[Callee(id)].captured[c]
    BY <1>6, <2>2 DEF CallbackFrame, PlainFrame
  <2>4. \A c \in Runtimes : frame[Callee(id)].captured[c] \in Addr =>
                               mem[frame[Callee(id)].captured[c]].brand = c
    BY <2>1, PointersLive DEF PointersInLive, BrandInv, Branded, BrandedFrame
  <2>5. \A k \in DOMAIN f.chain : mem[f.chain[k]].brand = f.brand
    <3>1. mem[NewAddr].brand = b
      BY <2>3
    <3>2. \A k \in DOMAIN (<<NewAddr>> \o Chain(head)) :
             mem[(<<NewAddr>> \o Chain(head))[k]].brand = b
      BY <2>1, <2>2, <3>1, LongerChainBranded
    <3>3. QED
      BY <2>3, <3>2
  <2>6. \A c \in Runtimes : /\ f.ctx[c] \in Addr => mem[f.ctx[c]].brand = c
                            /\ f.captured[c] \notin Addr
    BY <2>3, <2>4, NotAddr DEF Nothing
  <2>7. QED
    BY <2>3, <2>5, <2>6 DEF BrandedFrame
<1>7. ASSUME NEW r \in Runtimes, NEW s \in Runtimes, NEW region, NEW mutable \in BOOLEAN,
             SameBrand(r, s), region = "borrowed" => ~ mutable,
             f = AllocFrame(t, r, s, region, mutable)
      PROVE  BrandedFrame(f, mem)
  <2>1. /\ f.chain = <<NewAddr>> \o Chain(Ctx(t)[s]) /\ f.rt = r /\ f.brand = s
        /\ f.region = region /\ f.mutable = mutable /\ f.captured = Nothing
        /\ \A c \in Runtimes : f.ctx[c] = IF c = s THEN NewAddr ELSE Ctx(t)[c]
    BY <1>2, <1>7 DEF AllocFrame, PlainFrame
  <2>2. \A k \in DOMAIN f.chain : mem[f.chain[k]].brand = f.brand
    BY <1>3, <2>1, LongerChainBranded
  <2>3. QED
    BY <1>1, <1>7, <2>1, <2>2, NotAddr DEF BrandedFrame, Nothing, SameBrand
<1>8. ASSUME NEW r \in Runtimes, NEW region, f = RawFrame(t, r, region)
      PROVE  BrandedFrame(f, mem)
  <2>1. f.chain = <<>> /\ f.kind = "raw" /\ f.captured = Nothing /\ f.ctx = Ctx(t)
    BY <1>8 DEF RawFrame, PlainFrame
  <2>2. QED
    BY <1>1, <2>1, NotAddr DEF BrandedFrame, Nothing
<1>9. QED
  BY <1>4, <1>5, <1>6, <1>7, <1>8 DEF PushedFrame

(* A frame that stays, and whose pointers stay, stays branded. *)
LEMMA BrandedKept ==
  ASSUME BrandInv, NEW a \in Live, NEW mem, NEW L \in SUBSET Live, \A b \in L : mem[b] = frame[b],
         \A r \in Runtimes : {frame[a].ctx[r], frame[a].captured[r]} \cap Addr \subseteq L,
         \A k \in DOMAIN frame[a].chain : frame[a].chain[k] \in L
  PROVE  BrandedFrame(frame[a], mem)
  BY DEF BrandInv, Branded, BrandedFrame

LEMMA BrandStep ==
  ASSUME NEW h
  PROVE  BrandInv /\ CallbacksOn(h) /\ CallbacksOn(h)' /\ [Next]_vars => BrandInv'
<1> SUFFICES ASSUME BrandInv, CallbacksOn(h), CallbacksOn(h)', [Next]_vars PROVE BrandInv'
  OBVIOUS
<1>1. NestInv' /\ NestInv /\ TypeInv /\ PointersInLive'
  <2>1. NestInv /\ NestInv'
    BY NestStep DEF BrandInv
  <2>2. PointersInLive'
    BY <2>1, PointersLive, PTL
  <2>3. QED
    BY <2>1, <2>2 DEF NestInv
<1>2. StepShape
  BY <1>1, NextShape
<1>3. CASE UNCHANGED <<stack, frame>>
  BY <1>1, <1>3 DEF BrandInv, Branded, Live
<1>4. ASSUME NEW t \in Threads, PushStep(t) PROVE Branded'
  <2>1. PICK f : PushedFrame(t, f) /\ Push(t, f)
    BY <1>4 DEF PushStep
  <2>2. /\ NewAddr \in Addr \ Live
        /\ Live' = Live \union {NewAddr}
        /\ frame'[NewAddr] = f
        /\ \A a \in Live : frame'[a] = frame[a]
    BY <1>1, <2>1, PushEffect DEF TypeInv
  <2>3. BrandedFrame(f, frame')
    BY <2>1, <2>2, PushedBranded DEF Push
  <2>4. \A a \in Live : BrandedFrame(frame[a], frame')
    <3> SUFFICES ASSUME NEW a \in Live PROVE BrandedFrame(frame[a], frame')
      OBVIOUS
    <3>1. /\ \A r \in Runtimes : {frame[a].ctx[r], frame[a].captured[r]} \cap Addr \subseteq Live
          /\ \A k \in DOMAIN frame[a].chain : frame[a].chain[k] \in Live
      BY <1>1, PointersLive DEF PointersInLive
    <3>2. QED
      BY <2>2, <3>1, BrandedKept
  <2>5. QED
    BY <2>2, <2>3, <2>4 DEF Branded
<1>5. ASSUME NEW t \in Threads, PopStep(t) PROVE Branded'
  <2>1. \A a \in Live' : a \in Live /\ frame'[a] = frame[a]
    BY <1>1, <1>5, PopEffect DEF PopStep
  <2>2. ASSUME NEW a \in Live'
        PROVE  BrandedFrame(frame'[a], frame')
    <3>1. /\ \A r \in Runtimes : {frame'[a].ctx[r], frame'[a].captured[r]} \cap Addr \subseteq Live'
          /\ \A k \in DOMAIN frame'[a].chain : frame'[a].chain[k] \in Live'
      BY <1>1 DEF PointersInLive
    <3>2. QED
      BY <2>1, <3>1, BrandedKept
  <2>3. QED
    BY <2>2 DEF Branded
<1>6. QED
  BY <1>1, <1>2, <1>3, <1>4, <1>5, ReturnOrUnwindPops DEF StepShape, BrandInv

LEMMA BrandInvariance == ASSUME NEW h PROVE Spec /\ []CallbacksOn(h) => []BrandInv
<1>1. Init => BrandInv
  BY NestInit DEF Init, BrandInv, Branded, Live
<1>2. QED
  BY <1>1, BrandStep, PTL DEF Spec

(* If callbacks stay on one thread, whatever code of any thread can upgrade *)
(* with a scope of runtime r is memory of r on its own stack, and what it   *)
(* can upgrade mutably is not a borrowed Rust value, with any number of     *)
(* runtimes and also after panics that unwind.                              *)
THEOREM UpgradesWithinRuntime ==
  ASSUME NEW h PROVE Spec /\ []CallbacksOn(h) => []UpgradeWithinRuntime
<1>1. BrandInv => UpgradeWithinRuntime
  <2> SUFFICES ASSUME BrandInv, NEW t \in Threads, NEW r \in Runtimes, NEW a \in Addr,
                      NEW mutable \in BOOLEAN, IsValid(Ctx(t)[r], a, mutable)
               PROVE  /\ a \in Range(stack[t])
                      /\ frame[a].rt = r
                      /\ mutable => frame[a].region # "borrowed"
    BY DEF UpgradeWithinRuntime
  <2>1. PICK k \in DOMAIN Chain(Ctx(t)[r]) : /\ Chain(Ctx(t)[r])[k] = a
                                             /\ frame[a].kind = "alloc"
                                             /\ mutable => frame[a].mutable
    BY DEF IsValid
  <2>2. Ctx(t)[r] \in Live /\ Ctx(t)[r] \in Addr
    BY <2>1, EmptySeq DEF Chain, BrandInv, NestInv, TypeInv, TypeOK
  <2>3. a \in Live /\ frame[a].brand = r
    BY <2>1, <2>2, CtxBranded, ChainBranded
  <2>4. a \in Range(stack[t])
    <3>1. a \in Below(t, Len(stack[t]))
      BY <2>1, CtxBelow, ChainBelow DEF BrandInv
    <3>2. QED
      BY <3>1, StackShape DEF Below, Range, BrandInv, NestInv, TypeInv
  <2>5. QED
    BY <2>1, <2>3, <2>4 DEF BrandInv, Branded, BrandedFrame
<1>2. QED
  BY <1>1, BrandInvariance, PTL
=============================================================================
