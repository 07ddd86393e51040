---------------------------- MODULE MockRtProofs ----------------------------
(***************************************************************************)
(* Theorems about the mock runtime for every value of its constants.       *)
(* Every step pushes a frame, pops frames or leaves the stacks alone; the  *)
(* lemmas about Push and Pop carry the invariants through all of them.     *)
(***************************************************************************)
EXTENDS MockRt, SequenceTheorems, WellFoundedInduction, TLAPS

(* A frame is on exactly one stack, at one position, as long as it lives. *)
StackInv ==
    /\ \A t \in Threads : \A i \in 1 .. Len(stack[t]) : stack[t][i] \in Live
    /\ \A t, u \in Threads : \A i \in 1 .. Len(stack[t]), j \in 1 .. Len(stack[u]) :
          stack[t][i] = stack[u][j] => t = u /\ i = j
    /\ \A a \in Live : \E t \in Threads : \E i \in 1 .. Len(stack[t]) : stack[t][i] = a

TypeInv == TypeOK /\ StackInv

-----------------------------------------------------------------------------
(* Operators *)

(* A non-empty set of naturals has its minimum. *)
LEMMA MinIn ==
  ASSUME NEW S, S \subseteq Nat, S # {}
  PROVE  Min(S) \in S /\ \A y \in S : Min(S) =< y
<1> DEFINE R == OpToRel(<, Nat)
<1>1. \A x, y \in Nat : <<x, y>> \in R <=> x < y
  BY DEF OpToRel
<1>2. IsWellFoundedOn(R, Nat)
  BY NatLessThanWellFounded
<1> HIDE DEF R
<1>3. PICK x \in S : \A y \in S : ~ (<<y, x>> \in R)
  BY <1>2, WFMin
<1>4. \A y \in S : ~ (y < x)
  BY <1>1, <1>3
<1>5. \E z \in S : \A y \in S : z =< y
  BY <1>4
<1>6. QED
  BY <1>5 DEF Min

(* FirstIn finds an element of S, and 0 means that there is none. *)
LEMMA FirstInFinds ==
  ASSUME NEW chain \in Seq(Addr), NEW S
  PROVE  /\ FirstIn(chain, S) \in Nat
         /\ FirstIn(chain, S) # 0 => /\ FirstIn(chain, S) \in DOMAIN chain
                                     /\ chain[FirstIn(chain, S)] \in S
         /\ FirstIn(chain, S) = 0 => \A i \in DOMAIN chain : chain[i] \notin S
<1> DEFINE hits == {i \in DOMAIN chain : chain[i] \in S}
<1>1. DOMAIN chain = 1 .. Len(chain) /\ Len(chain) \in Nat
  BY LenProperties
<1>2. hits \subseteq Nat /\ 0 \notin hits
  BY <1>1
<1>3. FirstIn(chain, S) = IF hits = {} THEN 0 ELSE Min(hits)
  BY DEF FirstIn
<1>4. CASE hits = {}
  BY <1>3, <1>4
<1>5. CASE hits # {}
  <2>1. Min(hits) \in hits
    BY <1>2, <1>5, MinIn
  <2>2. QED
    BY <1>2, <1>3, <1>5, <2>1
<1>6. QED
  BY <1>4, <1>5

LEMMA NothingType == Nothing \in [Runtimes -> Scope]
  BY DEF Nothing, Scope

(* PlainFrame makes frames. *)
LEMMA PlainFrameType ==
  ASSUME NEW kind \in Kinds, NEW r \in Runtimes, NEW s \in Runtimes,
         NEW chain \in Seq(Addr), NEW ctx \in [Runtimes -> Scope]
  PROVE  PlainFrame(kind, r, s, chain, ctx) \in Frame
  BY NothingType DEF PlainFrame, Frame, Regions

-----------------------------------------------------------------------------
(* Push and Pop *)

LEMMA NewAddrFresh ==
  ASSUME Fresh # {}
  PROVE  /\ NewAddr \in Addr \ Live
         /\ NewAddr \notin heap
         /\ NewAddr # head
         /\ \A a \in Live : frame[a].ref # NewAddr
  BY DEF Fresh, NewAddr

(* The stacks have at least this shape. *)
LEMMA StackShape ==
  ASSUME TypeOK, NEW t \in Threads
  PROVE  /\ stack[t] \in Seq(Addr)
         /\ Len(stack[t]) \in Nat
         /\ DOMAIN stack[t] = 1 .. Len(stack[t])
         /\ stack[t] # <<>> => Len(stack[t]) \in 1 .. Len(stack[t])
<1>1. stack[t] \in Seq(Addr)
  BY DEF TypeOK
<1>2. QED
  BY <1>1, LenProperties, EmptySeq

(* Push adds one frame, at a new address, on top of stack t. *)
LEMMA PushEffect ==
  ASSUME TypeOK, NEW t \in Threads, NEW f, Push(t, f)
  PROVE  /\ NewAddr \in Addr \ Live
         /\ Len(stack'[t]) = Len(stack[t]) + 1
         /\ stack'[t][Len(stack[t]) + 1] = NewAddr
         /\ \A i \in 1 .. Len(stack[t]) : stack'[t][i] = stack[t][i]
         /\ \A u \in Threads \ {t} : stack'[u] = stack[u]
         /\ stack' \in [Threads -> Seq(Addr)]
         /\ Live' = Live \union {NewAddr}
         /\ frame'[NewAddr] = f
         /\ \A a \in Live : frame'[a] = frame[a]
<1>1. NewAddr \in Addr \ Live
  BY NewAddrFresh DEF Push
<1>2. stack[t] \in Seq(Addr) /\ stack'[t] = Append(stack[t], NewAddr)
  BY DEF Push, TypeOK
<1>3. /\ stack'[t] \in Seq(Addr)
      /\ Len(stack'[t]) = Len(stack[t]) + 1
      /\ stack'[t][Len(stack[t]) + 1] = NewAddr
      /\ \A i \in 1 .. Len(stack[t]) : stack'[t][i] = stack[t][i]
  BY <1>1, <1>2, AppendProperties
<1>4. /\ \A u \in Threads \ {t} : stack'[u] = stack[u]
      /\ stack' \in [Threads -> Seq(Addr)]
  BY <1>3 DEF Push, TypeOK
<1>5. /\ Live' = Live \union {NewAddr}
      /\ frame'[NewAddr] = f
      /\ \A a \in Live : frame'[a] = frame[a]
  BY <1>1 DEF Push, Live
<1>6. QED
  BY <1>1, <1>3, <1>4, <1>5

(* Pop leaves the outermost n frames of stack t and all other stacks. *)
LEMMA PopEffect ==
  ASSUME TypeInv, NEW t \in Threads, NEW n \in 0 .. Len(stack[t]), Pop(t, n)
  PROVE  /\ Len(stack'[t]) = n
         /\ \A i \in 1 .. n : stack'[t][i] = stack[t][i]
         /\ \A u \in Threads \ {t} : stack'[u] = stack[u]
         /\ stack' \in [Threads -> Seq(Addr)]
         /\ Live' = Live \ {stack[t][i] : i \in n + 1 .. Len(stack[t])}
         /\ \A a \in Live' : a \in Live /\ frame'[a] = frame[a]
<1>1. /\ stack[t] \in Seq(Addr) /\ Len(stack[t]) \in Nat /\ n \in Nat
      /\ \A i \in 1 .. n : stack[t][i] \in Addr
  BY StackShape, ElementOfSeq DEF TypeInv
<1>2. stack'[t] = SubSeq(stack[t], 1, n)
  BY DEF Pop, TypeInv, TypeOK
<1>3. /\ SubSeq(stack[t], 1, n) \in Seq(Addr)
      /\ Len(SubSeq(stack[t], 1, n)) = n
      /\ \A i \in 1 .. n : SubSeq(stack[t], 1, n)[i] = stack[t][i]
  BY <1>1, SubSeqProperties
<1>4. /\ \A u \in Threads \ {t} : stack'[u] = stack[u]
      /\ stack' \in [Threads -> Seq(Addr)]
  BY <1>2, <1>3 DEF Pop, TypeInv, TypeOK
<1>5. /\ Live' = Live \ {stack[t][i] : i \in n + 1 .. Len(stack[t])}
      /\ \A a \in Live' : a \in Live /\ frame'[a] = frame[a]
  BY DEF Pop, Live, Restrict
<1>6. QED
  BY <1>2, <1>3, <1>4, <1>5

(* Push keeps the stacks well formed. *)
LEMMA PushStack ==
  ASSUME TypeInv, NEW t \in Threads, NEW f \in Frame, Push(t, f)
  PROVE  /\ stack' \in [Threads -> Seq(Addr)]
         /\ Live' \subseteq Addr
         /\ frame' \in [Live' -> Frame]
         /\ StackInv'
<1>1. /\ NewAddr \in Addr \ Live
      /\ Len(stack'[t]) = Len(stack[t]) + 1
      /\ stack'[t][Len(stack[t]) + 1] = NewAddr
      /\ \A i \in 1 .. Len(stack[t]) : stack'[t][i] = stack[t][i]
      /\ \A u \in Threads \ {t} : stack'[u] = stack[u]
      /\ stack' \in [Threads -> Seq(Addr)]
      /\ Live' = Live \union {NewAddr}
      /\ frame'[NewAddr] = f
      /\ \A a \in Live : frame'[a] = frame[a]
  BY PushEffect DEF TypeInv
<1>2. frame' \in [Live' -> Frame] /\ Live' \subseteq Addr
  BY <1>1 DEF Push, TypeInv, TypeOK, Live
<1>3. \A u \in Threads : Len(stack[u]) \in Nat
  BY StackShape DEF TypeInv
<1>4. \A u \in Threads : \A i \in 1 .. Len(stack'[u]) :
          \/ i \in 1 .. Len(stack[u]) /\ stack'[u][i] = stack[u][i] /\ stack[u][i] \in Live
          \/ u = t /\ i = Len(stack[t]) + 1 /\ stack'[u][i] = NewAddr
  BY <1>1, <1>3 DEF TypeInv, StackInv
<1>5. \A u \in Threads : \A i \in 1 .. Len(stack[u]) :
          i \in 1 .. Len(stack'[u]) /\ stack'[u][i] = stack[u][i]
  BY <1>1, <1>3
<1>6. \A u \in Threads : \A i \in 1 .. Len(stack'[u]) : stack'[u][i] \in Live'
  BY <1>1, <1>4
<1>7. \A u, v \in Threads : \A i \in 1 .. Len(stack'[u]), j \in 1 .. Len(stack'[v]) :
          stack'[u][i] = stack'[v][j] => u = v /\ i = j
  <2> SUFFICES ASSUME NEW u \in Threads, NEW v \in Threads,
                      NEW i \in 1 .. Len(stack'[u]), NEW j \in 1 .. Len(stack'[v]),
                      stack'[u][i] = stack'[v][j]
               PROVE  u = v /\ i = j
    OBVIOUS
  <2>1. CASE stack'[u][i] = NewAddr
    BY <1>1, <1>4, <2>1
  <2>2. CASE stack'[u][i] # NewAddr
    <3>1. /\ i \in 1 .. Len(stack[u]) /\ j \in 1 .. Len(stack[v])
          /\ stack[u][i] = stack[v][j]
      BY <1>4, <2>2
    <3>2. QED
      BY <3>1 DEF TypeInv, StackInv
  <2>3. QED
    BY <2>1, <2>2
<1>8. \A a \in Live' : \E u \in Threads : \E i \in 1 .. Len(stack'[u]) : stack'[u][i] = a
  <2> TAKE a \in Live'
  <2>1. CASE a = NewAddr
    BY <1>1, <1>3, <2>1
  <2>2. CASE a \in Live
    <3>1. PICK u \in Threads : \E i \in 1 .. Len(stack[u]) : stack[u][i] = a
      BY <2>2 DEF TypeInv, StackInv
    <3>2. PICK i \in 1 .. Len(stack[u]) : stack[u][i] = a
      BY <3>1
    <3>3. i \in 1 .. Len(stack'[u]) /\ stack'[u][i] = a
      BY <1>5, <3>2
    <3>4. QED
      BY <3>3
  <2>3. QED
    BY <1>1, <2>1, <2>2
<1>9. QED
  BY <1>1, <1>2, <1>6, <1>7, <1>8 DEF StackInv

(* Pop keeps the stacks well formed. *)
LEMMA PopStack ==
  ASSUME TypeInv, NEW t \in Threads, NEW n \in 0 .. Len(stack[t]), Pop(t, n)
  PROVE  /\ stack' \in [Threads -> Seq(Addr)]
         /\ Live' \subseteq Addr
         /\ frame' \in [Live' -> Frame]
         /\ StackInv'
<1>1. /\ Len(stack'[t]) = n
      /\ \A i \in 1 .. n : stack'[t][i] = stack[t][i]
      /\ \A u \in Threads \ {t} : stack'[u] = stack[u]
      /\ stack' \in [Threads -> Seq(Addr)]
      /\ Live' = Live \ {stack[t][i] : i \in n + 1 .. Len(stack[t])}
      /\ \A a \in Live' : a \in Live /\ frame'[a] = frame[a]
  BY PopEffect
<1>2. frame' \in [Live' -> Frame] /\ Live' \subseteq Addr
  BY <1>1 DEF Pop, Restrict, TypeInv, TypeOK, Live
<1>3. \A u \in Threads : Len(stack[u]) \in Nat
  BY StackShape DEF TypeInv
<1>4. \A u \in Threads : \A i \in 1 .. Len(stack'[u]) :
          i \in 1 .. Len(stack[u]) /\ stack'[u][i] = stack[u][i] /\ (u = t => i =< n)
  BY <1>1, <1>3
<1>5. \A u \in Threads : \A i \in 1 .. Len(stack'[u]) : stack'[u][i] \in Live'
  BY <1>1, <1>3, <1>4 DEF TypeInv, StackInv
<1>6. \A u, v \in Threads : \A i \in 1 .. Len(stack'[u]), j \in 1 .. Len(stack'[v]) :
          stack'[u][i] = stack'[v][j] => u = v /\ i = j
  BY <1>4 DEF TypeInv, StackInv
<1>7. \A a \in Live' : \E u \in Threads : \E i \in 1 .. Len(stack'[u]) : stack'[u][i] = a
  <2> TAKE a \in Live'
  <2>1. PICK u \in Threads : \E i \in 1 .. Len(stack[u]) : stack[u][i] = a
    BY <1>1 DEF TypeInv, StackInv
  <2>2. PICK i \in 1 .. Len(stack[u]) : stack[u][i] = a
    BY <2>1
  <2>3. u = t => i =< n
    BY <1>1, <1>3, <2>2
  <2>4. i \in 1 .. Len(stack'[u]) /\ stack'[u][i] = a
    BY <1>1, <1>3, <2>2, <2>3
  <2>5. QED
    BY <2>4
<1>8. QED
  BY <1>1, <1>2, <1>5, <1>6, <1>7 DEF StackInv

-----------------------------------------------------------------------------
(* Types *)

LEMMA FrameFields ==
  ASSUME NEW f \in Frame
  PROVE  /\ f.kind \in Kinds /\ f.rt \in Runtimes /\ f.brand \in Runtimes
         /\ f.chain \in Seq(Addr) /\ f.id \in Nat /\ f.ref \in Addr \union {None}
         /\ f.ctx \in [Runtimes -> Scope] /\ f.captured \in [Runtimes -> Scope]
         /\ f.region \in Regions /\ f.mutable \in BOOLEAN
  BY DEF Frame

LEMMA TopLive ==
  ASSUME TypeInv, NEW t \in Threads, stack[t] # <<>>
  PROVE  Top(t) \in Live /\ frame[Top(t)] \in Frame
<1>1. Len(stack[t]) \in 1 .. Len(stack[t])
  BY StackShape DEF TypeInv
<1>2. Top(t) \in Live
  BY <1>1 DEF Top, TypeInv, StackInv
<1>3. QED
  BY <1>2 DEF TypeInv, TypeOK

LEMMA CtxType ==
  ASSUME TypeInv, NEW t \in Threads
  PROVE  Ctx(t) \in [Runtimes -> Scope]
<1>1. CASE stack[t] = <<>>
  BY <1>1 DEF Ctx, Scope
<1>2. CASE stack[t] # <<>>
  BY <1>2, TopLive, FrameFields DEF Ctx
<1>3. QED
  BY <1>1, <1>2

LEMMA ChainType ==
  ASSUME TypeInv, NEW n
  PROVE  Chain(n) \in Seq(Addr)
<1>1. CASE n \in Live
  BY <1>1, FrameFields DEF Chain, TypeInv, TypeOK
<1>2. CASE n \notin Live
  BY <1>2, EmptySeq DEF Chain
<1>3. QED
  BY <1>1, <1>2

LEMMA CallbackIdType ==
  ASSUME TypeInv, NEW n
  PROVE  NextCallbackId(n) \in Nat
<1> DEFINE i == FirstIn(Chain(n), Setups)
<1>1. NextCallbackId(n) = IF i = 0 THEN 0 ELSE frame[Chain(n)[i]].id + 1
  BY DEF NextCallbackId
<1>2. i # 0 => Chain(n)[i] \in Live
  BY ChainType, FirstInFinds DEF Setups
<1>3. i # 0 => frame[Chain(n)[i]].id \in Nat
  BY <1>2, FrameFields DEF TypeInv, TypeOK
<1>4. QED
  BY <1>1, <1>3

(* A trampoline call that finds something finds a registration with its id *)
(* on the chain of a live head.                                            *)
LEMMA CalleeFound ==
  ASSUME TypeInv, NEW id, Callee(id) \in Addr
  PROVE  /\ head \in Live
         /\ Callee(id) \in Setups
         /\ frame[Callee(id)].id = id
         /\ \E i \in DOMAIN Chain(head) : Chain(head)[i] = Callee(id)
<1> DEFINE dead  == Addr \ Live
           found == {a \in Setups : frame[a].id = id}
           i     == FirstIn(Chain(head), dead \union found)
<1>1. /\ head # None /\ head \notin dead /\ i # 0
      /\ Chain(head)[i] \notin dead
      /\ Callee(id) = Chain(head)[i]
  BY DEF Callee, Addr, None, NoScope
<1>2. head \in Live
  BY <1>1 DEF TypeInv, TypeOK
<1>3. i \in DOMAIN Chain(head) /\ Chain(head)[i] \in dead \union found
  BY <1>1, ChainType, FirstInFinds
<1>4. QED
  BY <1>1, <1>2, <1>3

-----------------------------------------------------------------------------
(* The frames that the actions push *)

LEMMA LongerChain ==
  ASSUME TypeInv, NEW n, Fresh # {}
  PROVE  /\ <<NewAddr>> \o Chain(n) \in Seq(Addr)
         /\ \A k \in DOMAIN (<<NewAddr>> \o Chain(n)) :
               \/ (<<NewAddr>> \o Chain(n))[k] = NewAddr
               \/ \E j \in DOMAIN Chain(n) : (<<NewAddr>> \o Chain(n))[k] = Chain(n)[j]
<1> DEFINE c == <<NewAddr>> \o Chain(n)
<1>1. Chain(n) \in Seq(Addr) /\ <<NewAddr>> \in Seq(Addr) /\ Len(<<NewAddr>>) = 1
      /\ <<NewAddr>>[1] = NewAddr
  BY NewAddrFresh, ChainType
<1>2. /\ c \in Seq(Addr)
      /\ Len(c) = 1 + Len(Chain(n))
      /\ \A k \in 1 .. 1 + Len(Chain(n)) : c[k] = IF k =< 1 THEN <<NewAddr>>[k]
                                                  ELSE Chain(n)[k - 1]
  BY <1>1, ConcatProperties
<1>3. /\ DOMAIN c = 1 .. 1 + Len(Chain(n))
      /\ DOMAIN Chain(n) = 1 .. Len(Chain(n)) /\ Len(Chain(n)) \in Nat
  BY <1>1, <1>2, LenProperties
<1>4. QED
  BY <1>1, <1>2, <1>3

LEMMA SetupFrameType ==
  ASSUME TypeInv, NEW t \in Threads, NEW r \in Runtimes, NEW s \in Runtimes, NEW cap,
         Fresh # {}
  PROVE  SetupFrame(t, r, s, cap) \in Frame
<1>1. <<NewAddr>> \o Chain(Ctx(t)[s]) \in Seq(Addr)
  BY LongerChain
<1>2. NewAddr \in Scope /\ NoScope \in Scope
  BY NewAddrFresh DEF Scope
<1>3. [c \in Runtimes |-> IF c = s THEN NewAddr
                          ELSE IF c \in cap THEN NoScope ELSE Ctx(t)[c]] \in [Runtimes -> Scope]
  BY <1>2, CtxType
<1>4. [c \in Runtimes |-> IF c \in cap THEN Ctx(t)[c] ELSE NoScope] \in [Runtimes -> Scope]
  BY <1>2, CtxType
<1>5. NextCallbackId(Ctx(t)[s]) \in Nat
  BY CallbackIdType
<1>6. head \in Addr \union {None}
  BY DEF TypeInv, TypeOK
<1>7. QED
  BY <1>1, <1>3, <1>4, <1>5, <1>6 DEF SetupFrame, PlainFrame, Frame, Kinds, Regions

LEMMA ExecuteFrameType ==
  ASSUME TypeInv, NEW t \in Threads, NEW r \in Runtimes, NEW s \in Runtimes
  PROVE  ExecuteFrame(t, r, s) \in Frame
<1>1. [Ctx(t) EXCEPT ![s] = NoScope] \in [Runtimes -> Scope]
  BY CtxType DEF Scope
<1>2. QED
  BY <1>1, EmptySeq, PlainFrameType DEF ExecuteFrame, Kinds

LEMMA CallbackFrameType ==
  ASSUME TypeInv, NEW r \in Runtimes, NEW id \in Nat, Callee(id) \in Addr, Fresh # {}
  PROVE  CallbackFrame(r, id) \in Frame
<1>1. head \in Live /\ Callee(id) \in Live
  BY CalleeFound DEF Setups
<1>2. /\ frame[head].brand \in Runtimes
      /\ frame[Callee(id)].captured \in [Runtimes -> Scope]
  BY <1>1, FrameFields DEF TypeInv, TypeOK
<1>3. NewAddr \in Scope
  BY NewAddrFresh DEF Scope
<1>4. [frame[Callee(id)].captured EXCEPT ![frame[head].brand] = NewAddr] \in [Runtimes -> Scope]
  BY <1>2, <1>3
<1>5. <<NewAddr>> \o Chain(head) \in Seq(Addr)
  BY LongerChain
<1>6. QED
  BY <1>2, <1>4, <1>5, NothingType DEF CallbackFrame, PlainFrame, Frame, Kinds, Regions

LEMMA AllocFrameType ==
  ASSUME TypeInv, NEW t \in Threads, NEW r \in Runtimes, NEW s \in Runtimes,
         NEW region \in Regions, NEW mutable \in BOOLEAN, Fresh # {}
  PROVE  AllocFrame(t, r, s, region, mutable) \in Frame
<1>1. <<NewAddr>> \o Chain(Ctx(t)[s]) \in Seq(Addr)
  BY LongerChain
<1>2. NewAddr \in Scope
  BY NewAddrFresh DEF Scope
<1>3. [Ctx(t) EXCEPT ![s] = NewAddr] \in [Runtimes -> Scope]
  BY <1>2, CtxType
<1>4. QED
  BY <1>1, <1>3, NothingType DEF AllocFrame, PlainFrame, Frame, Kinds, Regions

LEMMA RawFrameType ==
  ASSUME TypeInv, NEW t \in Threads, NEW r \in Runtimes, NEW region \in Regions
  PROVE  RawFrame(t, r, region) \in Frame
  BY CtxType, EmptySeq, NothingType DEF RawFrame, PlainFrame, Frame, Kinds, Regions

-----------------------------------------------------------------------------
(* The shape of a step *)

(* Some runtime's allocator may hand out a null pointer: one that uses the *)
(* heap, where alloc may fail.                                             *)
AllocatorsMayFail == HeapMayFail /\ \E r \in Runtimes : r \notin StackAlloc

(* f is a frame that some action pushes on stack t. *)
PushedFrame(t, f) ==
    \/ \E r, s \in Runtimes : \E cap \in SUBSET Runtimes :
          Ctx(t)[s] # NoScope /\ f = SetupFrame(t, r, s, cap)
    \/ \E r, s \in Runtimes : f = ExecuteFrame(t, r, s)
    \/ \E r \in Runtimes : \E id \in Nat : Callee(id) \in Addr /\ f = CallbackFrame(r, id)
    \/ \E r, s \in Runtimes : \E region \in Regions, mutable \in BOOLEAN :
          /\ SameBrand(r, s)
          /\ Ctx(t)[s] # NoScope
          /\ region = "borrowed" => ~ mutable
          /\ region = "null" => AllocatorsMayFail
          /\ f = AllocFrame(t, r, s, region, mutable)
    \/ \E r \in Runtimes : \E region \in Regions :
          (region = "null" => AllocatorsMayFail) /\ f = RawFrame(t, r, region)

(* A call pushes a frame; a setup saves the head and becomes it. *)
PushStep(t) == \E f : /\ PushedFrame(t, f)
                      /\ Push(t, f)
                      /\ f.kind = "setup" => f.ref = head
                      /\ head' = IF f.kind = "setup" THEN NewAddr ELSE head
                      /\ heap' = heap \union (IF f.region = "heap" THEN {NewAddr} ELSE {})

(* A return pops the top frame; a setup restores the head. *)
ReturnStep(t) ==
    /\ stack[t] # <<>>
    /\ Pop(t, Len(stack[t]) - 1)
    /\ head' = IF frame[Top(t)].kind = "setup" THEN frame[Top(t)].ref ELSE head
    /\ heap' = IF frame[Top(t)].kind \in {"alloc", "raw"} THEN heap \ {Top(t)} ELSE heap

(* A panic that unwinds; the head of a registration that did not complete  *)
(* stays behind.                                                           *)
UnwindStep(t) == /\ Unwinds
                 /\ \E n \in 0 .. Len(stack[t]) : Pop(t, n)
                 /\ head' = head \/ head' \notin Live
                 /\ heap \subseteq heap'

StepShape == \/ UNCHANGED <<stack, frame, head, heap>>
             \/ \E t \in Threads : PushStep(t) \/ ReturnStep(t) \/ UnwindStep(t)

PopStep(t) == \E n \in 0 .. Len(stack[t]) : Pop(t, n)

LEMMA ReturnOrUnwindPops ==
  ASSUME TypeInv, NEW t \in Threads, ReturnStep(t) \/ UnwindStep(t)
  PROVE  PopStep(t)
<1>1. stack[t] # <<>> => Len(stack[t]) - 1 \in 0 .. Len(stack[t])
  BY StackShape DEF TypeInv
<1>2. QED
  BY <1>1 DEF ReturnStep, UnwindStep, PopStep

(* What the steps do to the other variables. *)
OthersTyped ==
    /\ head' \in Addr \union {None}
    /\ heap' \subseteq Addr
    /\ issued' \subseteq Runtimes \X (0 .. PoolSize - 1)
    /\ \/ status' \in {status, "abort"}
       \/ /\ status' = "ub"
          /\ Threads # {}
          /\ \/ AllocatorsMayFail
             \/ \E id \in Nat : Callee(id) = NoScope
             \/ \E a \in Live : frame[a].region = "null"

LEMMA PushedFrameType ==
  ASSUME TypeInv, NEW t \in Threads, NEW f, PushedFrame(t, f), Fresh # {}
  PROVE  f \in Frame
  BY SetupFrameType, ExecuteFrameType, CallbackFrameType, AllocFrameType, RawFrameType
     DEF PushedFrame

LEMMA AllocatorRegionsType ==
  \A r \in Runtimes : /\ AllocatorRegions(r) \subseteq Regions \ {"borrowed"}
                      /\ "null" \in AllocatorRegions(r) => AllocatorsMayFail
  BY DEF AllocatorRegions, AllocatorsMayFail, Regions

(* A panic pops frames or ends the process. *)
LEMMA PanicShape ==
  ASSUME TypeInv, NEW t \in Threads, NEW h, h = head \/ h \in Addr \ Live, NEW region,
         region = "heap" => Fresh # {}, Panic(t, h, region)
  PROVE  StepShape /\ OthersTyped
<1>1. CASE UNCHANGED <<stack, frame, head, heap, issued>> /\ status' = "abort"
  BY <1>1 DEF StepShape, OthersTyped, TypeInv, TypeOK
<1>2. CASE /\ Unwinds
           /\ \E n \in 0 .. Len(stack[t]) : Pop(t, n)
           /\ head' = h
           /\ heap' = heap \union (IF region = "heap" THEN {NewAddr} ELSE {})
           /\ UNCHANGED <<issued, status>>
  <2>1. heap' \subseteq Addr /\ heap \subseteq heap'
    BY <1>2, NewAddrFresh DEF TypeInv, TypeOK
  <2>2. QED
    BY <1>2, <2>1 DEF StepShape, UnwindStep, OthersTyped, TypeInv, TypeOK
<1>3. QED
  BY <1>1, <1>2 DEF Panic

LEMMA SetupCallbackShape ==
  ASSUME TypeInv, NEW t \in Threads, NEW r \in Runtimes, NEW s \in Runtimes,
         NEW cap \in SUBSET Runtimes, SetupCallback(t, r, s, cap)
  PROVE  StepShape /\ OthersTyped
<1> DEFINE id == NextCallbackId(Ctx(t)[s])
<1>1. NewAddr \in Addr /\ NewAddr \in Addr \ Live /\ id \in Nat
  BY NewAddrFresh, CallbackIdType DEF SetupCallback
<1>2. CASE id < PoolSize
  <2>1. /\ Push(t, SetupFrame(t, r, s, cap))
        /\ head' = NewAddr
        /\ issued' = issued \union {<<r, id>>}
        /\ UNCHANGED <<heap, status>>
    BY <1>2 DEF SetupCallback
  <2> Ctx(t)[s] # NoScope
    BY DEF SetupCallback
  <2>2. StepShape
    <3> DEFINE f == SetupFrame(t, r, s, cap)
    <3>1. f.kind = "setup" /\ f.ref = head /\ f.region = "none"
      BY DEF SetupFrame, PlainFrame
    <3>2. PushedFrame(t, f)
      BY DEF PushedFrame
    <3>3. PushStep(t)
      BY <2>1, <3>1, <3>2 DEF PushStep
    <3>4. QED
      BY <3>3 DEF StepShape
  <2>3. id \in 0 .. PoolSize - 1
    BY <1>1, <1>2, MockRtAssumption
  <2>4. issued' \subseteq Runtimes \X (0 .. PoolSize - 1)
    BY <2>1, <2>3 DEF TypeInv, TypeOK
  <2>5. QED
    BY <1>1, <2>1, <2>2, <2>4 DEF OthersTyped, TypeInv, TypeOK
<1>3. CASE ~ (id < PoolSize)
  BY <1>1, <1>3, PanicShape DEF SetupCallback
<1>4. QED
  BY <1>2, <1>3

LEMMA CallsShape ==
  ASSUME TypeInv, NEW t \in Threads, NEW r \in Runtimes,
         \/ \E s, q \in Runtimes : Execute(t, r, s, q)
         \/ \E id \in Nat : Call(t, r, id)
  PROVE  StepShape /\ OthersTyped
<1>1. ASSUME NEW s \in Runtimes, NEW q \in Runtimes, Execute(t, r, s, q)
      PROVE  StepShape /\ OthersTyped
  <2>1. CASE Push(t, ExecuteFrame(t, r, s)) /\ UNCHANGED <<head, heap, issued, status>>
    <3> DEFINE f == ExecuteFrame(t, r, s)
    <3>1. f.kind = "exec" /\ f.region = "none"
      BY DEF ExecuteFrame, PlainFrame
    <3>2. PushedFrame(t, f)
      BY DEF PushedFrame
    <3>3. PushStep(t)
      BY <2>1, <3>1, <3>2 DEF PushStep
    <3>4. QED
      BY <2>1, <3>3 DEF StepShape, OthersTyped, TypeInv, TypeOK
  <2>2. CASE Panic(t, head, "none")
    BY <2>2, PanicShape DEF TypeInv, TypeOK
  <2>3. QED
    BY <1>1, <2>1, <2>2 DEF Execute
<1>2. ASSUME NEW id \in Nat, ForeignCall(t, r, id) PROVE StepShape /\ OthersTyped
  <2> DEFINE f == CallbackFrame(r, id)
  <2>1. f.kind = "callback" /\ f.region = "none"
    BY DEF CallbackFrame, PlainFrame
  <2>2. PushedFrame(t, f)
    BY <1>2 DEF PushedFrame, ForeignCall
  <2>3. PushStep(t)
    BY <1>2, <2>1, <2>2 DEF PushStep, ForeignCall
  <2>4. QED
    BY <1>2, <2>3 DEF ForeignCall, StepShape, OthersTyped, TypeInv, TypeOK
<1>3. ASSUME NEW id \in Nat, ForeignCallFindsNothing(t, id) \/ ForeignCallDangles(t, id)
      PROVE  StepShape /\ OthersTyped
  BY <1>3 DEF ForeignCallFindsNothing, ForeignCallDangles, StepShape, OthersTyped, TypeInv, TypeOK
<1>4. QED
  BY <1>1, <1>2, <1>3 DEF Call

LEMMA ReturnShape ==
  ASSUME TypeInv, NEW t \in Threads, Return(t)
  PROVE  StepShape /\ OthersTyped
<1>1. CASE SetupReturn(t)
  <2>1. Top(t) \in Live /\ frame[Top(t)] \in Frame
    BY <1>1, TopLive DEF SetupReturn, TopIs
  <2>2. frame[Top(t)].ref \in Addr \union {None}
    BY <2>1, FrameFields
  <2>3. ReturnStep(t)
    BY <1>1 DEF SetupReturn, TopIs, ReturnStep
  <2>4. QED
    BY <1>1, <2>2, <2>3 DEF SetupReturn, StepShape, OthersTyped, TypeInv, TypeOK
<1>2. CASE ExecuteReturn(t)
  <2>1. ReturnStep(t)
    BY <1>2 DEF ExecuteReturn, TopIs, ReturnStep
  <2>2. QED
    BY <1>2, <2>1 DEF ExecuteReturn, StepShape, OthersTyped, TypeInv, TypeOK
<1>3. CASE CallbackReturn(t)
  <2>1. ReturnStep(t)
    BY <1>3 DEF CallbackReturn, TopIs, ReturnStep
  <2>2. QED
    BY <1>3, <2>1 DEF CallbackReturn, StepShape, OthersTyped, TypeInv, TypeOK
<1>4. CASE AllocReturn(t)
  <2>1. ReturnStep(t)
    BY <1>4 DEF AllocReturn, TopIs, ReturnStep
  <2>2. QED
    BY <1>4, <2>1 DEF AllocReturn, StepShape, OthersTyped, TypeInv, TypeOK
<1>5. CASE AllocReturnFreesNull(t)
  <2>1. Top(t) \in Live
    BY <1>5, TopLive DEF AllocReturnFreesNull, TopIs
  <2>2. QED
    BY <1>5, <2>1 DEF AllocReturnFreesNull, StepShape, OthersTyped, TypeInv, TypeOK
<1>6. QED
  BY <1>1, <1>2, <1>3, <1>4, <1>5 DEF Return

LEMMA TrackShape ==
  ASSUME TypeInv, NEW t \in Threads, NEW r \in Runtimes, NEW s \in Runtimes,
         NEW region \in Regions, NEW mutable \in BOOLEAN,
         SameBrand(r, s), Ctx(t)[s] # NoScope,
         region = "borrowed" => ~ mutable, region = "null" => AllocatorsMayFail,
         Track(t, r, s, region, mutable)
  PROVE  StepShape /\ OthersTyped
<1>1. Fresh # {}
  BY DEF Track, Push
<1>2. heap' \subseteq Addr
  BY <1>1, NewAddrFresh DEF Track, HeapAfterAlloc, TypeInv, TypeOK
<1>3. PushStep(t)
  <2> DEFINE f == AllocFrame(t, r, s, region, mutable)
  <2>1. f.kind = "alloc" /\ f.region = region
    BY DEF AllocFrame, PlainFrame
  <2>2. PushedFrame(t, f)
    BY DEF PushedFrame
  <2>3. QED
    BY <2>1, <2>2 DEF Track, HeapAfterAlloc, PushStep
<1>4. QED
  BY <1>2, <1>3 DEF Track, StepShape, OthersTyped, TypeInv, TypeOK

LEMMA WritesShape ==
  ASSUME TypeInv, NEW t \in Threads, NEW r \in Runtimes, NEW s \in Runtimes, NEW q \in Runtimes,
         \/ WriteStackedTMut(t, r, s, q)
         \/ \E short \in BOOLEAN : WriteStackedSliceMut(t, r, s, q, short)
  PROVE  StepShape /\ OthersTyped
<1>1. head \in Addr \union {None}
  BY DEF TypeInv, TypeOK
<1>2. CASE WriteStackedTMut(t, r, s, q)
  <2>1. CASE Track(t, r, s, "local", TRUE)
    BY <1>2, <2>1, TrackShape DEF WriteStackedTMut, Regions
  <2>2. CASE Panic(t, head, "none")
    BY <1>1, <2>2, PanicShape
  <2>3. QED
    BY <1>2, <2>1, <2>2 DEF WriteStackedTMut
<1>3. ASSUME NEW short \in BOOLEAN, WriteStackedSliceMut(t, r, s, q, short)
      PROVE  StepShape /\ OthersTyped
  <2>1. Fresh # {}
    BY <1>3 DEF WriteStackedSliceMut
  <2>2. PICK region \in AllocatorRegions(r) :
            \/ Panic(t, head, region)
            \/ /\ region = "null"
               /\ status' = "ub"
               /\ UNCHANGED <<stack, frame, head, heap, issued>>
            \/ Track(t, r, s, region, TRUE)
    BY <1>3 DEF WriteStackedSliceMut
  <2>3. CASE Panic(t, head, region)
    BY <1>1, <2>1, <2>3, PanicShape
  <2>4. CASE /\ region = "null"
             /\ status' = "ub"
             /\ UNCHANGED <<stack, frame, head, heap, issued>>
    <3>1. AllocatorsMayFail
      BY <2>4, AllocatorRegionsType
    <3>2. QED
      BY <2>4, <3>1 DEF StepShape, OthersTyped, TypeInv, TypeOK
  <2>5. CASE Track(t, r, s, region, TRUE)
    BY <1>3, <2>5, TrackShape, AllocatorRegionsType DEF WriteStackedSliceMut
  <2>6. QED
    BY <2>2, <2>3, <2>4, <2>5
<1>4. QED
  BY <1>2, <1>3

LEMMA AllocateShape ==
  ASSUME TypeInv, NEW t \in Threads, NEW r \in Runtimes, NEW s \in Runtimes, NEW q \in Runtimes,
         Allocate(t, r, s, q) \/ AllocateStackedUntrackedMut(t, r)
  PROVE  StepShape /\ OthersTyped
<1>1. CASE AllocateStackedMut(t, r, s)
  BY <1>1, TrackShape, AllocatorRegionsType DEF AllocateStackedMut
<1>2. CASE AllocateStackedTMut(t, r, s)
  BY <1>2, TrackShape DEF AllocateStackedTMut, Regions
<1>3. CASE \/ WriteStackedTMut(t, r, s, q)
           \/ \E short \in BOOLEAN : WriteStackedSliceMut(t, r, s, q, short)
  BY <1>3, WritesShape
<1>4. CASE WriteStackedT(t, r, s, q) \/ WriteStackedSlice(t, r, s, q)
  <2>1. CASE Ctx(t)[s] # NoScope /\ Track(t, r, s, "borrowed", FALSE)
    BY <1>4, <2>1, TrackShape DEF WriteStackedT, WriteStackedSlice, Regions
  <2>2. QED
    BY <1>4, <2>1, WritesShape DEF WriteStackedT, WriteStackedSlice
<1>5. CASE AllocateStackedUntrackedMut(t, r)
  <2>1. PICK region \in AllocatorRegions(r) :
            Push(t, RawFrame(t, r, region)) /\ HeapAfterAlloc(region)
    BY <1>5 DEF AllocateStackedUntrackedMut
  <2>2. region \in Regions /\ (region = "null" => AllocatorsMayFail)
    BY AllocatorRegionsType
  <2>3. heap' \subseteq Addr
    BY <2>1, NewAddrFresh DEF HeapAfterAlloc, Push, TypeInv, TypeOK
  <2>4. StepShape
    <3> DEFINE f == RawFrame(t, r, region)
    <3>1. f.kind = "raw" /\ f.region = region
      BY DEF RawFrame, PlainFrame
    <3>2. PushedFrame(t, f)
      BY <2>2 DEF PushedFrame
    <3>3. PushStep(t)
      BY <1>5, <2>1, <3>1, <3>2 DEF HeapAfterAlloc, PushStep, AllocateStackedUntrackedMut
    <3>4. QED
      BY <3>3 DEF StepShape
  <2>5. QED
    BY <1>5, <2>3, <2>4 DEF AllocateStackedUntrackedMut, OthersTyped, TypeInv, TypeOK
<1>6. QED
  BY <1>1, <1>2, <1>3, <1>4, <1>5 DEF Allocate

(* Every step of the specification has one of the shapes. *)
LEMMA NextShape ==
  ASSUME TypeInv, [Next]_vars
  PROVE  StepShape /\ OthersTyped
<1>1. ASSUME NEW t \in Threads, NEW r \in Runtimes, NEW s \in Runtimes,
             NEW cap \in SUBSET Runtimes, SetupCallback(t, r, s, cap)
      PROVE  StepShape /\ OthersTyped
  BY <1>1, SetupCallbackShape
<1>2. ASSUME NEW t \in Threads, NEW r \in Runtimes, NEW s \in Runtimes, NEW q \in Runtimes,
             Execute(t, r, s, q)
      PROVE  StepShape /\ OthersTyped
  BY <1>2, CallsShape
<1>3. ASSUME NEW t \in Threads, NEW call \in issued, Call(t, call[1], call[2])
      PROVE  StepShape /\ OthersTyped
  <2>1. call[1] \in Runtimes /\ call[2] \in Nat
    BY MockRtAssumption DEF TypeInv, TypeOK
  <2>2. QED
    BY <1>3, <2>1, CallsShape
<1>4. ASSUME NEW t \in Threads, NEW r \in Runtimes, NEW s \in Runtimes, NEW q \in Runtimes,
             Allocate(t, r, s, q) \/ AllocateStackedUntrackedMut(t, r)
      PROVE  StepShape /\ OthersTyped
  BY <1>4, AllocateShape
<1>5. ASSUME NEW t \in Threads, Return(t) PROVE StepShape /\ OthersTyped
  BY <1>5, ReturnShape
<1>6. ASSUME NEW t \in Threads, ClosurePanics(t) PROVE StepShape /\ OthersTyped
  BY <1>6, PanicShape DEF ClosurePanics, TypeInv, TypeOK
<1>7. CASE UNCHANGED vars
  BY <1>7 DEF vars, StepShape, OthersTyped, TypeInv, TypeOK
<1>8. QED
  BY <1>1, <1>2, <1>3, <1>4, <1>5, <1>6, <1>7 DEF Next, Stopped

(* The types and the shape of the stacks are invariant. *)
LEMMA TypeStep == TypeInv /\ [Next]_vars => TypeInv'
<1> SUFFICES ASSUME TypeInv, [Next]_vars PROVE TypeInv'
  OBVIOUS
<1>1. StepShape /\ OthersTyped
  BY NextShape
<1>2. /\ stack' \in [Threads -> Seq(Addr)]
      /\ Live' \subseteq Addr
      /\ frame' \in [Live' -> Frame]
      /\ StackInv'
  <2>1. CASE UNCHANGED <<stack, frame>>
    BY <2>1 DEF TypeInv, TypeOK, StackInv, Live
  <2>2. ASSUME NEW t \in Threads, PushStep(t)
        PROVE  /\ stack' \in [Threads -> Seq(Addr)]
               /\ Live' \subseteq Addr
               /\ frame' \in [Live' -> Frame]
               /\ StackInv'
    <3>1. PICK f : PushedFrame(t, f) /\ Push(t, f)
      BY <2>2 DEF PushStep
    <3>2. f \in Frame
      BY <3>1, PushedFrameType DEF Push
    <3>3. QED
      BY <3>1, <3>2, PushStack
  <2>3. ASSUME NEW t \in Threads, PopStep(t)
        PROVE  /\ stack' \in [Threads -> Seq(Addr)]
               /\ Live' \subseteq Addr
               /\ frame' \in [Live' -> Frame]
               /\ StackInv'
    BY <2>3, PopStack DEF PopStep
  <2>4. QED
    BY <1>1, <2>1, <2>2, <2>3, ReturnOrUnwindPops DEF StepShape
<1>3. QED
  BY <1>1, <1>2 DEF TypeInv, TypeOK, OthersTyped

LEMMA TypeInit == Init => TypeInv
<1> SUFFICES ASSUME Init PROVE TypeInv
  OBVIOUS
<1>1. Live = {} /\ frame \in [Live -> Frame]
  BY DEF Init, Live
<1>2. stack \in [Threads -> Seq(Addr)] /\ \A t \in Threads : Len(stack[t]) = 0
  BY EmptySeq DEF Init
<1>3. QED
  BY <1>1, <1>2 DEF Init, TypeInv, TypeOK, StackInv

LEMMA TypeInvariance == Spec => []TypeInv
  BY TypeInit, TypeStep, PTL DEF Spec

(* The variables keep their types, with any number of threads and runtimes *)
(* and whether or not panics unwind.                                       *)
THEOREM TypeCorrect == Spec => []TypeOK
<1>1. TypeInv => TypeOK
  BY DEF TypeInv
<1>2. QED
  BY <1>1, TypeInvariance, PTL

-----------------------------------------------------------------------------
(***************************************************************************)
(* Scopes stay live.  All pointers in the frames of a stack lead outwards, *)
(* to the frames below; popping from the top never cuts one.  The only     *)
(* pointer that is not passed down the stack is the head.  It leads to a   *)
(* registration, if it leads to a frame at all, so that it stays on one    *)
(* stack if all registrations and callbacks do.                            *)
(***************************************************************************)

(* Other threads may allocate and execute foreign code, but no callback is *)
(* registered or run on them.                                              *)
CallbacksOn(h) ==
    \A t \in Threads \ {h} : \A i \in 1 .. Len(stack[t]) :
        frame[stack[t][i]].kind \notin {"setup", "callback"}

SingleThread == \A t, u \in Threads : t = u

(* A program with one thread has no other thread. *)
LEMMA SingleCalls ==
  ASSUME SingleThread, NEW h \in Threads
  PROVE  CallbacksOn(h)
  BY DEF SingleThread, CallbacksOn

Below(t, n) == {stack[t][i] : i \in 1 .. n}

(* All scopes and chain nodes of frame f are in B. *)
Within(f, B) ==
    /\ \A r \in Runtimes : /\ f.ctx[r] \in B \union {None, NoScope}
                           /\ f.captured[r] \in B \union {None, NoScope}
    /\ \A k \in DOMAIN f.chain : f.chain[k] \in B

Nested ==
    \A t \in Threads : \A i \in 1 .. Len(stack[t]) :
        /\ Within(frame[stack[t][i]], Below(t, i))
        /\ frame[stack[t][i]].kind = "callback" =>
              \E j \in 1 .. i - 1 : /\ stack[t][j] = frame[stack[t][i]].ref
                                    /\ frame[stack[t][j]].kind = "setup"

(* What the head and the saved heads point to is a registration, if it is  *)
(* still a frame.                                                          *)
SetupHeads ==
    /\ head \in Live => head \in Setups
    /\ \A a \in Setups : frame[a].ref \in Live => frame[a].ref \in Setups

NestInv == TypeInv /\ Nested /\ SetupHeads

(* The code of the top frame holds scopes within its own stack. *)
LEMMA CtxBelow ==
  ASSUME NestInv, NEW t \in Threads, NEW r \in Runtimes
  PROVE  Ctx(t)[r] \in Below(t, Len(stack[t])) \union {None, NoScope}
<1>1. CASE stack[t] = <<>>
  BY <1>1 DEF Ctx
<1>2. CASE stack[t] # <<>>
  <2>1. Len(stack[t]) \in 1 .. Len(stack[t])
    BY <1>2, StackShape DEF NestInv, TypeInv
  <2>2. QED
    BY <1>2, <2>1 DEF Ctx, Top, NestInv, Nested, Within
<1>3. QED
  BY <1>1, <1>2

(* Chains of scopes within a stack stay within it. *)
LEMMA ChainBelow ==
  ASSUME NestInv, NEW t \in Threads,
         NEW n \in Below(t, Len(stack[t])) \union {None, NoScope},
         NEW k \in DOMAIN Chain(n)
  PROVE  Chain(n)[k] \in Below(t, Len(stack[t]))
<1>1. CASE n \in {None, NoScope}
  <2>1. n \notin Live
    BY <1>1 DEF NestInv, TypeInv, TypeOK, Addr, None, NoScope
  <2>2. QED
    BY <2>1 DEF Chain
<1>2. CASE n \in Below(t, Len(stack[t]))
  <2>1. PICK i \in 1 .. Len(stack[t]) : n = stack[t][i]
    BY <1>2 DEF Below
  <2>2. n \in Live
    BY <2>1 DEF NestInv, TypeInv, StackInv
  <2>3. Chain(n)[k] \in Below(t, i)
    BY <2>1, <2>2 DEF Chain, NestInv, Nested, Within
  <2>4. QED
    BY <2>1, <2>3, StackShape DEF Below, NestInv, TypeInv
<1>3. QED
  BY <1>1, <1>2

(* Registrations are on the stack that callbacks are run on. *)
LEMMA SetupsBelow ==
  ASSUME NestInv, NEW h, CallbacksOn(h), NEW a \in Setups
  PROVE  a \in Below(h, Len(stack[h]))
<1>1. PICK t \in Threads : \E i \in 1 .. Len(stack[t]) : stack[t][i] = a
  BY DEF NestInv, TypeInv, StackInv, Setups
<1>2. t = h
  BY <1>1 DEF CallbacksOn, Setups
<1>3. QED
  BY <1>1, <1>2 DEF Below

(* A new frame's pointers lead to the frames below it, or to itself. *)
LEMMA PushedWithin ==
  ASSUME NestInv, NEW h, CallbacksOn(h),
         NEW t \in Threads, NEW f, PushedFrame(t, f), f.kind = "callback" => t = h, Fresh # {}
  PROVE  /\ Within(f, Below(t, Len(stack[t])) \union {NewAddr})
         /\ f.kind = "callback" => f.ref \in Setups
<1> DEFINE B == Below(t, Len(stack[t])) \union {NewAddr}
<1>1. ASSUME NEW n \in Below(t, Len(stack[t])) \union {None, NoScope},
             NEW k \in DOMAIN (<<NewAddr>> \o Chain(n))
      PROVE  (<<NewAddr>> \o Chain(n))[k] \in B
  BY <1>1, ChainBelow, LongerChain DEF NestInv
<1>2. \A r \in Runtimes : Ctx(t)[r] \in B \union {None, NoScope}
  BY CtxBelow
<1>3. \A s \in Runtimes : [Ctx(t) EXCEPT ![s] = NoScope] \in [Runtimes -> B \union {None, NoScope}]
      /\ [Ctx(t) EXCEPT ![s] = NewAddr] \in [Runtimes -> B \union {None, NoScope}]
  BY <1>2, CtxType DEF NestInv
<1>4. ASSUME NEW r \in Runtimes, NEW s \in Runtimes, NEW cap, f = SetupFrame(t, r, s, cap)
      PROVE  Within(f, B) /\ f.kind # "callback"
  <2>1. f.chain = <<NewAddr>> \o Chain(Ctx(t)[s]) /\ f.kind = "setup"
    BY <1>4 DEF SetupFrame, PlainFrame
  <2>2. \A c \in Runtimes : f.ctx[c] = IF c = s THEN NewAddr
                                       ELSE IF c \in cap THEN NoScope ELSE Ctx(t)[c]
    BY <1>4 DEF SetupFrame, PlainFrame
  <2>3. \A c \in Runtimes : f.captured[c] = IF c \in cap THEN Ctx(t)[c] ELSE NoScope
    BY <1>4 DEF SetupFrame, PlainFrame
  <2>4. QED
    BY <1>1, <1>2, <2>1, <2>2, <2>3, CtxBelow DEF Within
<1>5. ASSUME NEW r \in Runtimes, NEW s \in Runtimes, f = ExecuteFrame(t, r, s)
      PROVE  Within(f, B) /\ f.kind # "callback"
  <2>1. /\ f.chain = <<>> /\ f.kind = "exec" /\ f.captured = Nothing
        /\ f.ctx = [Ctx(t) EXCEPT ![s] = NoScope]
    BY <1>5 DEF ExecuteFrame, PlainFrame
  <2>2. QED
    BY <1>3, <2>1 DEF Within, Nothing
<1>6. ASSUME NEW r \in Runtimes, NEW id \in Nat, Callee(id) \in Addr, f = CallbackFrame(r, id)
      PROVE  Within(f, B) /\ f.ref \in Setups
  <2>1. head \in Setups /\ Callee(id) \in Setups /\ Callee(id) \in Live
    BY <1>6, CalleeFound DEF NestInv, SetupHeads, Setups
  <2>2. f.kind = "callback"
    BY <1>6 DEF CallbackFrame, PlainFrame
  <2>3. head \in Below(t, Len(stack[t])) /\ Callee(id) \in Below(t, Len(stack[t]))
    BY <2>1, <2>2, SetupsBelow
  <2>4. /\ f.chain = <<NewAddr>> \o Chain(head) /\ f.captured = Nothing /\ f.ref = Callee(id)
        /\ f.ctx = [frame[Callee(id)].captured EXCEPT ![frame[head].brand] = NewAddr]
    BY <1>6 DEF CallbackFrame, PlainFrame
  <2>5. frame[Callee(id)].captured \in [Runtimes -> Scope]
    BY <2>1, FrameFields DEF NestInv, TypeInv, TypeOK
  <2>6. \A c \in Runtimes : frame[Callee(id)].captured[c] \in B \union {None, NoScope}
    <3>1. PICK i \in 1 .. Len(stack[t]) : Callee(id) = stack[t][i]
      BY <2>3 DEF Below
    <3>2. \A c \in Runtimes : frame[Callee(id)].captured[c] \in Below(t, i) \union {None, NoScope}
      BY <3>1 DEF NestInv, Nested, Within
    <3>3. Below(t, i) \subseteq Below(t, Len(stack[t]))
      BY <3>1, StackShape DEF Below, NestInv, TypeInv
    <3>4. QED
      BY <3>2, <3>3
  <2>7. f.ctx \in [Runtimes -> B \union {None, NoScope}]
    BY <2>4, <2>5, <2>6
  <2>8. QED
    BY <1>1, <2>1, <2>3, <2>4, <2>7 DEF Within, Nothing
<1>7. ASSUME NEW r \in Runtimes, NEW s \in Runtimes, NEW region, NEW mutable,
             f = AllocFrame(t, r, s, region, mutable)
      PROVE  Within(f, B) /\ f.kind # "callback"
  <2>1. /\ f.chain = <<NewAddr>> \o Chain(Ctx(t)[s]) /\ f.kind = "alloc" /\ f.captured = Nothing
        /\ f.ctx = [Ctx(t) EXCEPT ![s] = NewAddr]
    BY <1>7 DEF AllocFrame, PlainFrame
  <2>2. QED
    BY <1>1, <1>3, <2>1, CtxBelow DEF Within, Nothing
<1>8. ASSUME NEW r \in Runtimes, NEW region, f = RawFrame(t, r, region)
      PROVE  Within(f, B) /\ f.kind # "callback"
  <2>1. f.chain = <<>> /\ f.kind = "raw" /\ f.captured = Nothing /\ f.ctx = Ctx(t)
    BY <1>8 DEF RawFrame, PlainFrame
  <2>2. QED
    BY <1>2, <2>1 DEF Within, Nothing
<1>9. QED
  BY <1>4, <1>5, <1>6, <1>7, <1>8 DEF PushedFrame

(* A frame that stays where it is keeps its pointers and what they lead to. *)
LEMMA NestedKept ==
  ASSUME NestInv, NEW t \in Threads, NEW i \in 1 .. Len(stack[t]),
         \A j \in 1 .. i : /\ stack'[t][j] = stack[t][j]
                           /\ frame'[stack[t][j]] = frame[stack[t][j]]
  PROVE  /\ Within(frame'[stack'[t][i]], Below(t, i)')
         /\ frame'[stack'[t][i]].kind = "callback" =>
              \E j \in 1 .. i - 1 : /\ stack'[t][j] = frame'[stack'[t][i]].ref
                                    /\ frame'[stack'[t][j]].kind = "setup"
<1>1. Len(stack[t]) \in Nat
  BY StackShape DEF NestInv, TypeInv
<1>2. stack'[t][i] = stack[t][i] /\ frame'[stack'[t][i]] = frame[stack[t][i]]
  BY <1>1
<1>3. Below(t, i)' = Below(t, i)
  BY DEF Below
<1>4. Within(frame'[stack'[t][i]], Below(t, i)')
  BY <1>2, <1>3 DEF NestInv, Nested
<1>5. ASSUME frame'[stack'[t][i]].kind = "callback"
      PROVE  \E j \in 1 .. i - 1 : /\ stack'[t][j] = frame'[stack'[t][i]].ref
                                   /\ frame'[stack'[t][j]].kind = "setup"
  <2>1. PICK j \in 1 .. i - 1 : /\ stack[t][j] = frame[stack[t][i]].ref
                                /\ frame[stack[t][j]].kind = "setup"
    BY <1>2, <1>5 DEF NestInv, Nested
  <2>2. j \in 1 .. i
    BY <1>1
  <2>3. QED
    BY <1>2, <2>1, <2>2
<1>6. QED
  BY <1>4, <1>5

LEMMA NestedPush ==
  ASSUME NestInv, NEW h, CallbacksOn(h), CallbacksOn(h)', NEW t \in Threads, PushStep(t)
  PROVE  Nested'
<1>1. PICK f : PushedFrame(t, f) /\ Push(t, f)
  BY DEF PushStep
<1>2. Fresh # {}
  BY <1>1 DEF Push
<1>3. /\ NewAddr \in Addr \ Live
      /\ Len(stack'[t]) = Len(stack[t]) + 1
      /\ stack'[t][Len(stack[t]) + 1] = NewAddr
      /\ \A i \in 1 .. Len(stack[t]) : stack'[t][i] = stack[t][i]
      /\ \A u \in Threads \ {t} : stack'[u] = stack[u]
      /\ frame'[NewAddr] = f
      /\ \A a \in Live : frame'[a] = frame[a]
  BY <1>1, PushEffect DEF NestInv, TypeInv
<1>4. Len(stack[t]) \in Nat /\ \A i \in 1 .. Len(stack[t]) : stack[t][i] \in Live
  BY StackShape DEF NestInv, TypeInv, StackInv
<1>5. f.kind = "callback" => t = h
  <2>1. Len(stack'[t]) \in 1 .. Len(stack'[t])
    BY <1>3, <1>4
  <2>2. QED
    BY <1>3, <2>1 DEF CallbacksOn
<1>6. ASSUME NEW i \in 1 .. Len(stack[t])
      PROVE  /\ Within(frame'[stack'[t][i]], Below(t, i)')
             /\ frame'[stack'[t][i]].kind = "callback" =>
                  \E j \in 1 .. i - 1 : /\ stack'[t][j] = frame'[stack'[t][i]].ref
                                        /\ frame'[stack'[t][j]].kind = "setup"
  <2>1. \A j \in 1 .. i : /\ stack'[t][j] = stack[t][j]
                          /\ frame'[stack[t][j]] = frame[stack[t][j]]
    BY <1>3, <1>4
  <2>2. QED
    BY <2>1, NestedKept
<1>7. /\ Within(f, Below(t, Len(stack[t])) \union {NewAddr})
      /\ f.kind = "callback" => f.ref \in Setups
  BY <1>1, <1>2, <1>5, PushedWithin
<1>8. Below(t, Len(stack[t]))' = Below(t, Len(stack[t])) \union {NewAddr}
  <2>1. \A i \in 1 .. Len(stack[t]) + 1 : i \in 1 .. Len(stack[t]) \/ i = Len(stack[t]) + 1
    BY <1>4
  <2>2. Len(stack[t]) + 1 \in 1 .. Len(stack[t]) + 1
        /\ \A i \in 1 .. Len(stack[t]) : i \in 1 .. Len(stack[t]) + 1
    BY <1>4
  <2>3. \A x \in Below(t, Len(stack[t]))' : x \in Below(t, Len(stack[t])) \union {NewAddr}
    BY <1>3, <2>1 DEF Below
  <2>4. \A x \in Below(t, Len(stack[t])) \union {NewAddr} : x \in Below(t, Len(stack[t]))'
    BY <1>3, <2>2 DEF Below
  <2>5. QED
    BY <2>3, <2>4
<1>9. f.kind = "callback" =>
        \E j \in 1 .. Len(stack[t]) : stack'[t][j] = f.ref /\ frame'[stack'[t][j]].kind = "setup"
  <2> HAVE f.kind = "callback"
  <2>1. f.ref \in Live /\ frame[f.ref].kind = "setup"
    BY <1>7 DEF Setups
  <2>2. PICK j \in 1 .. Len(stack[t]) : stack[t][j] = f.ref
    BY <1>7, <1>5, SetupsBelow DEF Below
  <2>3. QED
    BY <1>3, <1>4, <2>1, <2>2
<1>10. \A i \in 1 .. Len(stack'[t]) : i \in 1 .. Len(stack[t]) \/ i = Len(stack[t]) + 1
  BY <1>3, <1>4
<1>11. ASSUME NEW u \in Threads \ {t}, NEW i \in 1 .. Len(stack'[u])
       PROVE  /\ Within(frame'[stack'[u][i]], Below(u, i)')
              /\ frame'[stack'[u][i]].kind = "callback" =>
                   \E j \in 1 .. i - 1 : /\ stack'[u][j] = frame'[stack'[u][i]].ref
                                         /\ frame'[stack'[u][j]].kind = "setup"
  <2>1. i \in 1 .. Len(stack[u]) /\ Len(stack[u]) \in Nat
    BY <1>3, StackShape DEF NestInv, TypeInv
  <2>2. \A j \in 1 .. i : j \in 1 .. Len(stack[u])
    BY <2>1
  <2>3. \A j \in 1 .. i : /\ stack'[u][j] = stack[u][j]
                          /\ frame'[stack[u][j]] = frame[stack[u][j]]
    BY <1>3, <2>2 DEF NestInv, TypeInv, StackInv
  <2>4. QED
    BY <2>1, <2>3, NestedKept
<1>12. ASSUME NEW i \in 1 .. Len(stack'[t])
       PROVE  /\ Within(frame'[stack'[t][i]], Below(t, i)')
              /\ frame'[stack'[t][i]].kind = "callback" =>
                   \E j \in 1 .. i - 1 : /\ stack'[t][j] = frame'[stack'[t][i]].ref
                                         /\ frame'[stack'[t][j]].kind = "setup"
  <2>1. CASE i \in 1 .. Len(stack[t])
    BY <1>6, <2>1
  <2>2. CASE i = Len(stack'[t])
    <3>1. frame'[stack'[t][i]] = f /\ i - 1 = Len(stack[t])
      BY <1>3, <1>4, <2>2
    <3>2. Below(t, i)' = Below(t, Len(stack[t]))'
      BY <2>2 DEF Below
    <3>3. QED
      BY <1>7, <1>8, <1>9, <3>1, <3>2
  <2>3. QED
    BY <1>3, <1>10, <2>1, <2>2
<1>13. QED
  BY <1>11, <1>12 DEF Nested

LEMMA NestedPop ==
  ASSUME NestInv, NEW t \in Threads, PopStep(t)
  PROVE  Nested'
<1>1. PICK n \in 0 .. Len(stack[t]) : Pop(t, n)
  BY DEF PopStep
<1>2. /\ Len(stack'[t]) = n
      /\ \A i \in 1 .. n : stack'[t][i] = stack[t][i]
      /\ \A u \in Threads \ {t} : stack'[u] = stack[u]
      /\ \A a \in Live' : frame'[a] = frame[a]
      /\ StackInv'
  BY <1>1, PopEffect, PopStack DEF NestInv
<1>3. SUFFICES ASSUME NEW u \in Threads, NEW i \in 1 .. Len(stack'[u])
               PROVE  /\ Within(frame'[stack'[u][i]], Below(u, i)')
                      /\ frame'[stack'[u][i]].kind = "callback" =>
                           \E j \in 1 .. i - 1 : /\ stack'[u][j] = frame'[stack'[u][i]].ref
                                                 /\ frame'[stack'[u][j]].kind = "setup"
  BY DEF Nested
<1>4. Len(stack[u]) \in Nat /\ Len(stack[t]) \in Nat
  BY StackShape DEF NestInv, TypeInv
<1>5. Len(stack'[u]) \in 0 .. Len(stack[u]) /\ i \in 1 .. Len(stack[u])
  BY <1>2, <1>4
<1>6. \A j \in 1 .. Len(stack'[u]) : stack'[u][j] = stack[u][j] /\ stack'[u][j] \in Live'
  BY <1>2 DEF StackInv
<1>7. \A j \in 1 .. i : /\ stack'[u][j] = stack[u][j]
                        /\ frame'[stack[u][j]] = frame[stack[u][j]]
  <2>1. \A j \in 1 .. i : j \in 1 .. Len(stack'[u])
    BY <1>4, <1>5
  <2>2. QED
    BY <1>2, <1>6, <2>1
<1>8. QED
  BY <1>5, <1>7, NestedKept

(* A step leaves the heads on registrations. *)
LEMMA SetupHeadsStep ==
  ASSUME NestInv, StepShape
  PROVE  SetupHeads'
<1>1. TypeInv
  BY DEF NestInv
<1>2. CASE UNCHANGED <<stack, frame, head>>
  BY <1>2 DEF NestInv, SetupHeads, Setups, Live
<1>3. ASSUME NEW t \in Threads, PushStep(t) PROVE SetupHeads'
  <2>1. PICK f : /\ Push(t, f)
                 /\ f.kind = "setup" => f.ref = head
                 /\ head' = IF f.kind = "setup" THEN NewAddr ELSE head
    BY <1>3 DEF PushStep
  <2>2. /\ Live' = Live \union {NewAddr}
        /\ frame'[NewAddr] = f
        /\ \A a \in Live : frame'[a] = frame[a]
    BY <1>1, <2>1, PushEffect DEF TypeInv
  <2>3. NewAddr # head /\ \A a \in Live : frame[a].ref # NewAddr
    BY <2>1, NewAddrFresh DEF Push
  <2>4. Setups \subseteq Setups' /\ \A a \in Setups' : a \in Setups \/ a = NewAddr
    BY <2>2 DEF Setups
  <2>5. head \in Live' => head \in Setups'
    BY <2>2, <2>3, <2>4 DEF NestInv, SetupHeads
  <2>6. f.kind = "setup" => NewAddr \in Setups'
    BY <2>2 DEF Setups
  <2>7. NewAddr \in Setups' => f.kind = "setup"
    BY <2>2 DEF Setups
  <2>8. \A a \in Setups : frame'[a].ref \in Live' => frame'[a].ref \in Setups'
    BY <2>2, <2>3, <2>4 DEF NestInv, SetupHeads, Setups
  <2>9. QED
    BY <2>1, <2>2, <2>4, <2>5, <2>6, <2>7, <2>8 DEF SetupHeads
<1>4. ASSUME NEW t \in Threads, ReturnStep(t) \/ UnwindStep(t) PROVE SetupHeads'
  <2>1. \A a \in Live' : a \in Live /\ frame'[a] = frame[a]
    BY <1>1, <1>4, ReturnOrUnwindPops, PopEffect DEF PopStep
  <2>2. \A a \in Live' : a \in Setups' <=> a \in Setups
    BY <2>1 DEF Setups
  <2>3. \A a \in Setups' : a \in Setups /\ frame'[a] = frame[a]
    BY <2>1 DEF Setups
  <2>4. \/ head' = head \/ head' \notin Live
        \/ \E a \in Setups : head' = frame[a].ref
    <3>1. CASE ReturnStep(t)
      <4>1. Top(t) \in Live
        BY <1>1, <3>1, TopLive DEF ReturnStep
      <4>2. QED
        BY <3>1, <4>1 DEF ReturnStep, Setups
    <3>2. CASE UnwindStep(t)
      BY <3>2 DEF UnwindStep
    <3>3. QED
      BY <1>4, <3>1, <3>2
  <2>5. head' \in Live' => head' \in Setups
    BY <2>1, <2>4 DEF NestInv, SetupHeads
  <2>6. QED
    BY <2>1, <2>2, <2>3, <2>5 DEF NestInv, SetupHeads
<1>5. QED
  BY <1>2, <1>3, <1>4 DEF StepShape

LEMMA NestStep ==
  ASSUME NEW h
  PROVE  NestInv /\ CallbacksOn(h) /\ CallbacksOn(h)' /\ [Next]_vars => NestInv'
<1> SUFFICES ASSUME NestInv, CallbacksOn(h), CallbacksOn(h)', [Next]_vars PROVE NestInv'
  OBVIOUS
<1>1. TypeInv'
  BY TypeStep DEF NestInv
<1>2. StepShape
  BY NextShape DEF NestInv
<1>3. SetupHeads'
  BY <1>2, SetupHeadsStep
<1>4. CASE UNCHANGED <<stack, frame>>
  <2>1. \A t, n : Below(t, n)' = Below(t, n)
    BY <1>4 DEF Below
  <2>2. Nested'
    BY <1>4, <2>1 DEF NestInv, Nested
  <2>3. QED
    BY <1>1, <1>3, <2>2 DEF NestInv
<1>5. QED
  BY <1>1, <1>2, <1>4, <1>3, NestedPush, NestedPop, ReturnOrUnwindPops DEF StepShape, NestInv

LEMMA NestInit == Init => NestInv
<1> SUFFICES ASSUME Init PROVE NestInv
  OBVIOUS
<1>1. TypeInv /\ Live = {}
  BY TypeInit DEF Init, Live
<1>2. QED
  BY <1>1 DEF Init, NestInv, Nested, SetupHeads, Setups

LEMMA NestInvariance == ASSUME NEW h PROVE Spec /\ []CallbacksOn(h) => []NestInv
<1>1. Init => NestInv
  BY NestInit
<1>2. QED
  BY <1>1, NestStep, PTL DEF Spec

(* If callbacks stay on one thread, every scope that code of any thread or *)
(* a registered callback holds walks only over live nodes, also after      *)
(* panics that unwind and with any number of runtimes.                     *)
THEOREM ScopesStayLive == ASSUME NEW h PROVE Spec /\ []CallbacksOn(h) => []ScopesLive
<1>1. NestInv => ScopesLive
  <2> SUFFICES ASSUME NestInv, NEW a \in Live, NEW r \in Runtimes,
                      NEW n \in {frame[a].ctx[r], frame[a].captured[r]} \cap Addr
               PROVE  /\ n \in Live
                      /\ \A i \in DOMAIN frame[n].chain : frame[n].chain[i] \in Live
    BY DEF ScopesLive
  <2>1. PICK t \in Threads : \E i \in 1 .. Len(stack[t]) : stack[t][i] = a
    BY DEF NestInv, TypeInv, StackInv
  <2>2. PICK i \in 1 .. Len(stack[t]) : stack[t][i] = a
    BY <2>1
  <2>3. n \in Below(t, i)
    BY <2>2 DEF NestInv, Nested, Within, Addr, None, NoScope
  <2>4. PICK j \in 1 .. i : stack[t][j] = n
    BY <2>3 DEF Below
  <2>5. j \in 1 .. Len(stack[t]) /\ Len(stack[t]) \in Nat
    BY StackShape DEF NestInv, TypeInv
  <2>6. \A k \in 1 .. Len(stack[t]) : stack[t][k] \in Live
    BY DEF NestInv, TypeInv, StackInv
  <2>7. \A k \in DOMAIN frame[n].chain : frame[n].chain[k] \in Below(t, j)
    BY <2>4, <2>5 DEF NestInv, Nested, Within
  <2>8. QED
    BY <2>4, <2>5, <2>6, <2>7 DEF Below
<1>2. QED
  BY <1>1, NestInvariance, PTL

-----------------------------------------------------------------------------
(***************************************************************************)
(* The head of the allocation chain.  A setup_callback saves the head it   *)
(* finds and puts it back, so the saved heads of the running ones must be  *)
(* the setups below them for the head to be right after a return.          *)
(***************************************************************************)

(* IsInnermostSetup for a given stack and memory. *)
Innermost(seq, mem, n, h) ==
    \/ h = None /\ \A i \in 1 .. n : mem[seq[i]].kind # "setup"
    \/ \E i \in 1 .. n : /\ h = seq[i]
                         /\ mem[h].kind = "setup"
                         /\ \A j \in i + 1 .. n : mem[seq[j]].kind # "setup"

(* The head and the saved heads of the thread that callbacks are run on. *)
Heads(t) ==
    /\ Innermost(stack[t], frame, Len(stack[t]), head)
    /\ \A i \in 1 .. Len(stack[t]) :
          frame[stack[t][i]].kind = "setup" =>
              Innermost(stack[t], frame, i - 1, frame[stack[t][i]].ref)

HeadInv(t) == NestInv /\ Heads(t)

(* Two stacks have the same n outermost frames. *)
Agree(seq, mem, seq2, mem2, n) ==
    \A j \in 1 .. n : seq2[j] = seq[j] /\ mem2[seq[j]] = mem[seq[j]]

(* Only the n outermost frames matter. *)
LEMMA InnermostSame ==
  ASSUME NEW seq, NEW mem, NEW seq2, NEW mem2, NEW n, NEW h,
         n \in Nat, Agree(seq, mem, seq2, mem2, n), Innermost(seq, mem, n, h)
  PROVE  Innermost(seq2, mem2, n, h)
<1> USE DEF Agree
<1>1. CASE h = None /\ \A i \in 1 .. n : mem[seq[i]].kind # "setup"
  BY <1>1 DEF Innermost
<1>2. CASE \E i \in 1 .. n : /\ h = seq[i]
                             /\ mem[h].kind = "setup"
                             /\ \A j \in i + 1 .. n : mem[seq[j]].kind # "setup"
  <2>1. PICK i \in 1 .. n : /\ h = seq[i]
                            /\ mem[h].kind = "setup"
                            /\ \A j \in i + 1 .. n : mem[seq[j]].kind # "setup"
    BY <1>2
  <2>2. \A j \in i + 1 .. n : j \in 1 .. n
    OBVIOUS
  <2>3. h = seq2[i] /\ mem2[h].kind = "setup"
    BY <2>1
  <2>4. \A j \in i + 1 .. n : mem2[seq2[j]].kind # "setup"
    BY <2>1, <2>2
  <2>5. QED
    BY <2>3, <2>4 DEF Innermost
<1>3. QED
  BY <1>1, <1>2 DEF Innermost

(* A frame that is no setup does not change which setup is innermost. *)
LEMMA InnermostNext ==
  ASSUME NEW seq, NEW mem, NEW n \in Nat, NEW h, mem[seq[n + 1]].kind # "setup"
  PROVE  Innermost(seq, mem, n, h) <=> Innermost(seq, mem, n + 1, h)
<1>1. ASSUME Innermost(seq, mem, n, h) PROVE Innermost(seq, mem, n + 1, h)
  <2>1. \A j \in 1 .. n + 1 : j \in 1 .. n \/ j = n + 1
    OBVIOUS
  <2>2. \A i \in 1 .. n : i \in 1 .. n + 1
                          /\ \A j \in i + 1 .. n + 1 : j \in i + 1 .. n \/ j = n + 1
    OBVIOUS
  <2>3. QED
    BY <1>1, <2>1, <2>2 DEF Innermost
<1>2. ASSUME Innermost(seq, mem, n + 1, h) PROVE Innermost(seq, mem, n, h)
  <2>1. \A j \in 1 .. n : j \in 1 .. n + 1
    OBVIOUS
  <2>2. \A i \in 1 .. n + 1 : (i \in 1 .. n \/ i = n + 1)
                              /\ \A j \in i + 1 .. n : j \in i + 1 .. n + 1
    OBVIOUS
  <2>3. QED
    BY <1>2, <2>1, <2>2 DEF Innermost
<1>3. QED
  BY <1>1, <1>2

(* A setup on top is innermost. *)
LEMMA InnermostSelf ==
  ASSUME NEW seq, NEW mem, NEW n \in Nat, mem[seq[n + 1]].kind = "setup"
  PROVE  Innermost(seq, mem, n + 1, seq[n + 1])
<1>1. n + 1 \in 1 .. n + 1 /\ \A j \in (n + 1) + 1 .. n + 1 : FALSE
  OBVIOUS
<1>2. QED
  BY <1>1 DEF Innermost

LEMMA HeadsPush ==
  ASSUME NEW t \in Threads, TypeInv, Heads(t), PushStep(t)
  PROVE  Heads(t)'
<1> DEFINE len == Len(stack[t])
<1>1. PICK f : /\ Push(t, f)
               /\ f.kind = "setup" => f.ref = head
               /\ head' = IF f.kind = "setup" THEN NewAddr ELSE head
  BY DEF PushStep
<1>2. /\ Len(stack'[t]) = len + 1
      /\ stack'[t][len + 1] = NewAddr
      /\ \A i \in 1 .. len : stack'[t][i] = stack[t][i]
      /\ frame'[NewAddr] = f
      /\ \A a \in Live : frame'[a] = frame[a]
  BY <1>1, PushEffect DEF TypeInv
<1>3. len \in Nat /\ \A i \in 1 .. len : stack[t][i] \in Live
  BY StackShape DEF TypeInv, StackInv
<1>4. \A j \in 1 .. len : stack'[t][j] = stack[t][j] /\ frame'[stack[t][j]] = frame[stack[t][j]]
  BY <1>2, <1>3
<1>5. Innermost(stack'[t], frame', len, head)
  <2>1. Innermost(stack[t], frame, len, head)
    BY DEF Heads
  <2>2. len \in Nat /\ Agree(stack[t], frame, stack'[t], frame', len)
    BY <1>3, <1>4 DEF Agree
  <2>3. QED
    BY <2>1, <2>2, InnermostSame
<1>6. Innermost(stack'[t], frame', len + 1, head')
  <2>1. CASE f.kind = "setup"
    BY <1>1, <1>2, <1>3, <2>1, InnermostSelf
  <2>2. CASE f.kind # "setup"
    BY <1>1, <1>2, <1>3, <1>5, <2>2, InnermostNext
  <2>3. QED
    BY <2>1, <2>2
<1>7. ASSUME NEW i \in 1 .. len, frame'[stack'[t][i]].kind = "setup"
      PROVE  Innermost(stack'[t], frame', i - 1, frame'[stack'[t][i]].ref)
  <2> DEFINE k     == i - 1
             saved == frame[stack[t][i]].ref
  <2>1. k \in Nat /\ Agree(stack[t], frame, stack'[t], frame', k)
    BY <1>3, <1>4 DEF Agree
  <2>2. Innermost(stack[t], frame, k, saved)
    BY <1>4, <1>7 DEF Heads
  <2>3. Innermost(stack'[t], frame', k, saved)
    <3> HIDE DEF k, saved
    <3>1. QED
      BY <2>1, <2>2, InnermostSame
  <2>4. QED
    BY <1>4, <2>3
<1>8. ASSUME frame'[stack'[t][len + 1]].kind = "setup"
      PROVE  Innermost(stack'[t], frame', (len + 1) - 1, frame'[stack'[t][len + 1]].ref)
  <2>1. (len + 1) - 1 = len /\ frame'[stack'[t][len + 1]].ref = head
    BY <1>1, <1>2, <1>3, <1>8
  <2>2. QED
    BY <1>5, <2>1
<1>9. \A i \in 1 .. Len(stack'[t]) : i \in 1 .. len \/ i = len + 1
  BY <1>2, <1>3
<1>10. QED
  BY <1>2, <1>6, <1>7, <1>8, <1>9 DEF Heads

LEMMA HeadsReturn ==
  ASSUME NEW t \in Threads, TypeInv, Heads(t), ReturnStep(t)
  PROVE  Heads(t)'
<1> DEFINE len == Len(stack[t])
           n   == len - 1
<1>1. /\ len \in Nat /\ n \in Nat /\ n + 1 = len /\ len \in 1 .. len
      /\ n \in 0 .. len /\ \A j \in 1 .. n : j \in 1 .. len
  BY StackShape DEF TypeInv, ReturnStep
<1>2. /\ Len(stack'[t]) = n
      /\ \A i \in 1 .. n : stack'[t][i] = stack[t][i]
      /\ \A a \in Live' : frame'[a] = frame[a]
      /\ StackInv'
  BY <1>1, PopEffect, PopStack DEF ReturnStep
<1>3. \A j \in 1 .. n : stack'[t][j] = stack[t][j] /\ frame'[stack[t][j]] = frame[stack[t][j]]
  BY <1>2 DEF StackInv
<1>4. Innermost(stack[t], frame, n, head')
  <2>1. Top(t) = stack[t][len]
    BY DEF Top
  <2>2. CASE frame[Top(t)].kind = "setup"
    BY <1>1, <2>1, <2>2 DEF Heads, ReturnStep
  <2>3. CASE frame[Top(t)].kind # "setup"
    <3>1. Innermost(stack[t], frame, n + 1, head)
      BY <1>1 DEF Heads
    <3>2. frame[stack[t][n + 1]].kind # "setup"
      BY <1>1, <2>1, <2>3
    <3>3. QED
      BY <1>1, <2>3, <3>1, <3>2, InnermostNext DEF ReturnStep
  <2>4. QED
    BY <2>2, <2>3
<1>5. Innermost(stack'[t], frame', n, head')
  <2>1. n \in Nat /\ Agree(stack[t], frame, stack'[t], frame', n)
    BY <1>1, <1>3 DEF Agree
  <2>2. QED
    BY <1>4, <2>1, InnermostSame
<1>6. ASSUME NEW i \in 1 .. n, frame'[stack'[t][i]].kind = "setup"
      PROVE  Innermost(stack'[t], frame', i - 1, frame'[stack'[t][i]].ref)
  <2>1. i - 1 \in Nat /\ Agree(stack[t], frame, stack'[t], frame', i - 1)
    BY <1>1, <1>3 DEF Agree
  <2>2. i \in 1 .. len /\ frame[stack[t][i]].kind = "setup"
    BY <1>1, <1>3, <1>6
  <2>3. Innermost(stack[t], frame, i - 1, frame[stack[t][i]].ref)
    BY <2>2 DEF Heads
  <2>4. Innermost(stack'[t], frame', i - 1, frame[stack[t][i]].ref)
    BY <2>1, <2>3, InnermostSame
  <2>5. QED
    BY <1>3, <2>4
<1>7. QED
  BY <1>2, <1>5, <1>6 DEF Heads

(* What a thread without registrations does leaves the head alone. *)
LEMMA HeadsElsewhere ==
  ASSUME NEW t \in Threads, NEW u \in Threads \ {t}, TypeInv, Heads(t),
         CallbacksOn(t), CallbacksOn(t)', PushStep(u) \/ ReturnStep(u)
  PROVE  Heads(t)'
<1>1. /\ stack'[t] = stack[t]
      /\ head' = head
      /\ \A i \in 1 .. Len(stack[t]) : frame'[stack[t][i]] = frame[stack[t][i]]
  <2>1. CASE PushStep(u)
    <3>1. PICK f : Push(u, f) /\ head' = IF f.kind = "setup" THEN NewAddr ELSE head
      BY <2>1 DEF PushStep
    <3>2. /\ Len(stack'[u]) = Len(stack[u]) + 1
          /\ stack'[u][Len(stack[u]) + 1] = NewAddr
          /\ stack'[t] = stack[t]
          /\ frame'[NewAddr] = f
          /\ \A a \in Live : frame'[a] = frame[a]
      BY <3>1, PushEffect DEF TypeInv
    <3>3. Len(stack'[u]) \in 1 .. Len(stack'[u])
      BY <3>2, StackShape DEF TypeInv
    <3>4. f.kind # "setup"
      BY <3>2, <3>3 DEF CallbacksOn
    <3>5. QED
      BY <3>1, <3>2, <3>4 DEF TypeInv, StackInv
  <2>2. CASE ReturnStep(u)
    <3>1. Len(stack[u]) \in 1 .. Len(stack[u]) /\ Len(stack[u]) - 1 \in 0 .. Len(stack[u])
      BY <2>2, StackShape DEF ReturnStep, TypeInv
    <3>2. stack'[t] = stack[t] /\ (\A a \in Live' : frame'[a] = frame[a]) /\ StackInv'
      BY <2>2, <3>1, PopEffect, PopStack DEF ReturnStep
    <3>3. frame[Top(u)].kind # "setup"
      BY <3>1 DEF CallbacksOn, Top
    <3>4. QED
      BY <2>2, <3>2, <3>3 DEF ReturnStep, StackInv
  <2>3. QED
    BY <2>1, <2>2
<1>2. Len(stack[t]) \in Nat /\ \A i \in 1 .. Len(stack[t]) : i - 1 \in Nat
  BY StackShape DEF TypeInv
<1>3. \A n \in Nat : n =< Len(stack[t]) => Agree(stack[t], frame, stack'[t], frame', n)
  BY <1>1, <1>2 DEF Agree
<1>4. Innermost(stack'[t], frame', Len(stack'[t]), head')
  BY <1>1, <1>2, <1>3, InnermostSame DEF Heads
<1>5. ASSUME NEW i \in 1 .. Len(stack'[t]), frame'[stack'[t][i]].kind = "setup"
      PROVE  Innermost(stack'[t], frame', i - 1, frame'[stack'[t][i]].ref)
  <2>1. /\ i \in 1 .. Len(stack[t])
        /\ frame'[stack'[t][i]] = frame[stack[t][i]]
        /\ i - 1 \in Nat
        /\ i - 1 =< Len(stack[t])
    BY <1>1, <1>2
  <2>2. Innermost(stack[t], frame, i - 1, frame[stack[t][i]].ref)
    BY <1>5, <2>1 DEF Heads
  <2>3. Innermost(stack'[t], frame', i - 1, frame[stack[t][i]].ref)
    BY <1>3, <2>1, <2>2, InnermostSame
  <2>4. QED
    BY <2>1, <2>3
<1>6. QED
  BY <1>4, <1>5 DEF Heads

LEMMA HeadStep ==
  ASSUME NEW t \in Threads, ~ Unwinds
  PROVE  HeadInv(t) /\ CallbacksOn(t) /\ CallbacksOn(t)' /\ [Next]_vars => HeadInv(t)'
<1> SUFFICES ASSUME HeadInv(t), CallbacksOn(t), CallbacksOn(t)', [Next]_vars
             PROVE  HeadInv(t)'
  OBVIOUS
<1>1. NestInv'
  BY NestStep DEF HeadInv
<1>2. StepShape /\ TypeInv
  BY NextShape DEF HeadInv, NestInv
<1>3. CASE UNCHANGED <<stack, frame, head>>
  BY <1>1, <1>3 DEF HeadInv, Heads
<1>4. ASSUME NEW u \in Threads, PushStep(u) \/ ReturnStep(u) PROVE Heads(t)'
  BY <1>2, <1>4, HeadsPush, HeadsReturn, HeadsElsewhere DEF HeadInv
<1>5. QED
  BY <1>1, <1>2, <1>3, <1>4 DEF StepShape, UnwindStep, HeadInv

LEMMA HeadInvariance ==
  ASSUME NEW t \in Threads, ~ Unwinds
  PROVE  Spec /\ []CallbacksOn(t) => []HeadInv(t)
<1>1. Init => HeadInv(t)
  BY NestInit DEF Init, HeadInv, Heads, Innermost
<1>2. QED
  BY <1>1, HeadStep, PTL DEF Spec

(* The setup_callback that returns is the innermost one: the head it       *)
(* replaces is its own.                                                    *)
LEMMA TopIsHead ==
  ASSUME NEW t \in Threads, HeadInv(t), CallbacksOn(t)
  PROVE  ReplacedHeadIsOwn
<1>1. SUFFICES ASSUME NEW u \in Threads, TopIs(u, "setup") PROVE head = Top(u)
  BY DEF ReplacedHeadIsOwn
<1>2. Len(stack[u]) \in 1 .. Len(stack[u]) /\ frame[stack[u][Len(stack[u])]].kind = "setup"
  BY <1>1, StackShape DEF HeadInv, NestInv, TypeInv, TopIs, Top
<1>3. u = t
  BY <1>2 DEF CallbacksOn
<1>4. \A i \in 1 .. Len(stack[t]) : i # Len(stack[t]) => Len(stack[t]) \in i + 1 .. Len(stack[t])
  BY <1>2, <1>3
<1>5. QED
  BY <1>2, <1>3, <1>4 DEF HeadInv, Heads, Innermost, Top

(* If callbacks stay on one thread and panics abort, a setup_callback that *)
(* puts the saved head back always replaces its own, whatever other        *)
(* threads allocate and execute.                                           *)
THEOREM OwnHeadReplaced ==
  ASSUME NEW t \in Threads, ~ Unwinds
  PROVE  Spec /\ []CallbacksOn(t) => []ReplacedHeadIsOwn
<1>1. HeadInv(t) /\ CallbacksOn(t) => ReplacedHeadIsOwn
  BY TopIsHead
<1>2. QED
  BY <1>1, HeadInvariance, PTL

(* In a single-threaded program whose panics abort, the head is always the *)
(* innermost running setup_callback, however calls, callbacks and          *)
(* allocations of any number of runtimes nest.                             *)
THEOREM HeadCorrect == ASSUME SingleThread, ~ Unwinds PROVE Spec => []HeadIsInnermostSetup
<1>1. CASE Threads = {}
  <2>1. HeadIsInnermostSetup
    BY <1>1 DEF HeadIsInnermostSetup
  <2>2. QED
    BY <2>1, PTL
<1>2. ASSUME NEW t \in Threads PROVE Spec => []HeadIsInnermostSetup
  <2>1. CallbacksOn(t)
    BY SingleCalls
  <2>2. HeadInv(t) => HeadIsInnermostSetup
    BY DEF SingleThread, HeadInv, Heads, Innermost, HeadIsInnermostSetup, IsInnermostSetup
  <2>3. QED
    BY <2>1, <2>2, HeadInvariance, PTL
<1>3. QED
  BY <1>1, <1>2

(* The walk of a trampoline call meets no dangling pointer. *)
LEMMA CalleeSafe ==
  ASSUME NEW t \in Threads, HeadInv(t), NEW id
  PROVE  Callee(id) # NoScope
<1> DEFINE dead  == Addr \ Live
           found == {a \in Setups : frame[a].id = id}
           i     == FirstIn(Chain(head), dead \union found)
<1>1. TypeInv /\ NestInv
  BY DEF HeadInv, NestInv
<1>2. head \in Below(t, Len(stack[t])) \union {None}
  BY DEF HeadInv, Heads, Innermost, Below
<1>3. \A a \in Below(t, Len(stack[t])) : a \in Live /\ a \in Addr
  BY <1>1 DEF Below, TypeInv, StackInv, TypeOK
<1>4. \A k \in DOMAIN Chain(head) : Chain(head)[k] \in Below(t, Len(stack[t]))
  BY <1>1, <1>2, ChainBelow
<1>5. i # 0 => i \in DOMAIN Chain(head)
  BY <1>1, ChainType, FirstInFinds
<1>6. i # 0 => Chain(head)[i] \in Addr /\ Chain(head)[i] \notin dead
  BY <1>3, <1>4, <1>5
<1>7. head \notin dead \/ head = None
  BY <1>2, <1>3
<1>8. None # NoScope /\ NoScope \notin Addr
  BY DEF None, NoScope, Addr
<1>9. Callee(id) = IF head = None THEN None
                   ELSE IF head \in dead THEN NoScope
                   ELSE IF i = 0 THEN None
                   ELSE IF Chain(head)[i] \in dead THEN NoScope
                   ELSE Chain(head)[i]
  BY DEF Callee
<1> HIDE DEF i, dead
<1>10. QED
  BY <1>6, <1>7, <1>8, <1>9

(* No frame has a null pointer for memory. *)
MemoryProvided == \A a \in Live : frame[a].region # "null"

(* Allocators that provide the memory asked for provide it to every frame. *)
LEMMA AllMemoryProvided ==
  ASSUME ~ AllocatorsMayFail PROVE Spec => []MemoryProvided
<1>1. ASSUME NEW t, NEW f, PushedFrame(t, f) PROVE f.region # "null"
  <2>1. ASSUME NEW r, NEW s, NEW region, NEW mutable, region # "null"
        PROVE  /\ AllocFrame(t, r, s, region, mutable).region # "null"
               /\ RawFrame(t, r, region).region # "null"
    BY <2>1 DEF AllocFrame, RawFrame, PlainFrame
  <2>2. \A r, s, cap : SetupFrame(t, r, s, cap).region = "none"
    BY DEF SetupFrame, PlainFrame
  <2>3. \A r, s : ExecuteFrame(t, r, s).region = "none"
    BY DEF ExecuteFrame, PlainFrame
  <2>4. \A r, id : CallbackFrame(r, id).region = "none"
    BY DEF CallbackFrame, PlainFrame
  <2>5. QED
    BY <1>1, <2>1, <2>2, <2>3, <2>4 DEF PushedFrame
<1>2. TypeInv /\ MemoryProvided /\ [Next]_vars => MemoryProvided'
  <2> SUFFICES ASSUME TypeInv, MemoryProvided, [Next]_vars
               PROVE  MemoryProvided'
    OBVIOUS
  <2>1. StepShape
    BY NextShape
  <2>2. CASE UNCHANGED <<stack, frame, head, heap>>
    BY <2>2 DEF MemoryProvided, Live
  <2>3. ASSUME NEW t \in Threads, PushStep(t) PROVE MemoryProvided'
    <3>1. PICK f : PushedFrame(t, f) /\ Push(t, f)
      BY <2>3 DEF PushStep
    <3>2. /\ Live' = Live \union {NewAddr}
          /\ frame'[NewAddr] = f
          /\ \A a \in Live : frame'[a] = frame[a]
      BY <3>1, PushEffect DEF TypeInv
    <3>3. QED
      BY <1>1, <3>1, <3>2 DEF MemoryProvided
  <2>4. ASSUME NEW t \in Threads, ReturnStep(t) \/ UnwindStep(t)
        PROVE  MemoryProvided'
    <3>1. \A a \in Live' : a \in Live /\ frame'[a] = frame[a]
      BY <2>4, ReturnOrUnwindPops, PopEffect DEF PopStep
    <3>2. QED
      BY <3>1 DEF MemoryProvided
  <2>5. QED
    BY <2>1, <2>2, <2>3, <2>4 DEF StepShape
<1>3. Init => MemoryProvided
  BY DEF Init, MemoryProvided, Live
<1>4. QED
  BY <1>2, <1>3, TypeInvariance, PTL DEF Spec

(* If callbacks stay on one thread and panics abort, no trampoline call    *)
(* follows a dangling pointer; and nothing is written to or freed at a     *)
(* null pointer if the allocators provide the memory asked for: runtimes   *)
(* with a StackAllocator always do.                                        *)
THEOREM CallsDoNotDangle ==
  ASSUME NEW t \in Threads, ~ Unwinds, ~ AllocatorsMayFail
  PROVE  Spec /\ []CallbacksOn(t) => []NoDanglingCall
<1>1. HeadInv(t) /\ MemoryProvided /\ NoDanglingCall /\ [Next]_vars => NoDanglingCall'
  <2> SUFFICES ASSUME HeadInv(t), MemoryProvided, NoDanglingCall, [Next]_vars
               PROVE  NoDanglingCall'
    OBVIOUS
  <2>1. OthersTyped
    BY NextShape DEF HeadInv, NestInv
  <2>2. \A id \in Nat : Callee(id) # NoScope
    BY CalleeSafe
  <2>3. QED
    BY <2>1, <2>2 DEF OthersTyped, MemoryProvided, NoDanglingCall
<1>2. Init => NoDanglingCall
  BY DEF Init, NoDanglingCall
<1>3. QED
  BY <1>1, <1>2, HeadInvariance, AllMemoryProvided, PTL DEF Spec

-----------------------------------------------------------------------------
(***************************************************************************)
(* Heap blocks.  The frame of an allocation owns its block.                *)
(***************************************************************************)

HeapInv == /\ HeapOwnedWhileLive
           /\ \A a \in HeapFrames : frame[a].kind \in {"alloc", "raw"}

LEMMA PushedHeap ==
  ASSUME NEW t, NEW f, PushedFrame(t, f), f.region = "heap"
  PROVE  f.kind \in {"alloc", "raw"}
<1>1. ASSUME NEW r \in Runtimes, NEW s \in Runtimes, NEW cap, f = SetupFrame(t, r, s, cap)
      PROVE  f.region = "none"
  BY <1>1 DEF SetupFrame, PlainFrame
<1>2. ASSUME NEW r \in Runtimes, NEW s \in Runtimes, f = ExecuteFrame(t, r, s)
      PROVE  f.region = "none"
  BY <1>2 DEF ExecuteFrame, PlainFrame
<1>3. ASSUME NEW r \in Runtimes, NEW id \in Nat, f = CallbackFrame(r, id)
      PROVE  f.region = "none"
  BY <1>3 DEF CallbackFrame, PlainFrame
<1>4. ASSUME NEW r \in Runtimes, NEW s \in Runtimes, NEW region, NEW mutable,
             f = AllocFrame(t, r, s, region, mutable)
      PROVE  f.kind = "alloc"
  BY <1>4 DEF AllocFrame, PlainFrame
<1>5. ASSUME NEW r \in Runtimes, NEW region, f = RawFrame(t, r, region)
      PROVE  f.kind = "raw"
  BY <1>5 DEF RawFrame, PlainFrame
<1>6. QED
  BY <1>1, <1>2, <1>3, <1>4, <1>5 DEF PushedFrame

LEMMA HeapPush ==
  ASSUME TypeInv, HeapInv, NEW t \in Threads, PushStep(t)
  PROVE  HeapInv' /\ (heap \subseteq HeapFrames => heap' \subseteq HeapFrames')
<1>1. PICK f : /\ PushedFrame(t, f)
               /\ Push(t, f)
               /\ heap' = heap \union (IF f.region = "heap" THEN {NewAddr} ELSE {})
  BY DEF PushStep
<1>2. /\ Live' = Live \union {NewAddr}
      /\ NewAddr \notin Live
      /\ frame'[NewAddr] = f
      /\ \A a \in Live : frame'[a] = frame[a]
  BY <1>1, PushEffect DEF TypeInv
<1>3. HeapFrames' = HeapFrames \union (IF f.region = "heap" THEN {NewAddr} ELSE {})
  <2>1. \A a \in HeapFrames' : a \in HeapFrames \/ (a = NewAddr /\ f.region = "heap")
    BY <1>2 DEF HeapFrames
  <2>2. \A a \in HeapFrames : a \in HeapFrames'
    BY <1>2 DEF HeapFrames
  <2>3. f.region = "heap" => NewAddr \in HeapFrames'
    BY <1>2 DEF HeapFrames
  <2>4. QED
    BY <2>1, <2>2, <2>3
<1>4. \A a \in HeapFrames' : frame'[a].kind \in {"alloc", "raw"}
  <2>1. \A a \in HeapFrames : frame'[a].kind \in {"alloc", "raw"}
    BY <1>2 DEF HeapInv, HeapFrames
  <2>2. f.region = "heap" => frame'[NewAddr].kind \in {"alloc", "raw"}
    BY <1>1, <1>2, PushedHeap
  <2>3. QED
    BY <1>3, <2>1, <2>2
<1>5. QED
  BY <1>1, <1>3, <1>4 DEF HeapInv, HeapOwnedWhileLive

LEMMA HeapPop ==
  ASSUME TypeInv, HeapInv, NEW t \in Threads, ReturnStep(t) \/ UnwindStep(t)
  PROVE  HeapInv'
<1>1. PICK n \in 0 .. Len(stack[t]) : Pop(t, n)
  BY ReturnOrUnwindPops DEF PopStep
<1>2. \A a \in Live' : a \in Live /\ frame'[a] = frame[a]
  BY <1>1, PopEffect
<1>3. \A a \in HeapFrames' : a \in HeapFrames /\ a \in Live' /\ frame'[a] = frame[a]
  BY <1>2 DEF HeapFrames
<1>4. \A a \in Live' : a \in heap => a \in heap'
  <2>1. CASE ReturnStep(t)
    <3>1. heap \ {Top(t)} \subseteq heap'
      BY <2>1 DEF ReturnStep
    <3>2. Top(t) \notin Live'
      <4>1. Len(stack[t]) \in 1 .. Len(stack[t]) /\ Len(stack[t]) - 1 \in 0 .. Len(stack[t])
        BY <2>1, StackShape DEF ReturnStep, TypeInv
      <4>2. Live' = Live \ {stack[t][i] : i \in (Len(stack[t]) - 1) + 1 .. Len(stack[t])}
        BY <2>1, <4>1, PopEffect DEF ReturnStep
      <4>3. QED
        BY <4>1, <4>2 DEF Top
    <3>3. QED
      BY <3>1, <3>2
  <2>2. CASE UnwindStep(t)
    BY <2>2 DEF UnwindStep
  <2>3. QED
    BY <2>1, <2>2
<1>5. QED
  BY <1>3, <1>4 DEF HeapInv, HeapOwnedWhileLive

LEMMA HeapStep == TypeInv /\ HeapInv /\ [Next]_vars => HeapInv'
<1> SUFFICES ASSUME TypeInv, HeapInv, [Next]_vars PROVE HeapInv'
  OBVIOUS
<1>1. StepShape
  BY NextShape
<1>2. CASE UNCHANGED <<stack, frame, head, heap>>
  BY <1>2 DEF HeapInv, HeapOwnedWhileLive, HeapFrames, Live
<1>3. QED
  BY <1>1, <1>2, HeapPush, HeapPop DEF StepShape

LEMMA HeapInvariance == Spec => []HeapInv
<1>1. Init => HeapInv
  BY DEF Init, HeapInv, HeapOwnedWhileLive, HeapFrames, Live
<1>2. QED
  BY <1>1, HeapStep, TypeInvariance, PTL DEF Spec

(* No heap block is freed while the allocation it serves is running,       *)
(* whatever panics, and with any number of threads and runtimes.           *)
THEOREM HeapOwned == Spec => []HeapOwnedWhileLive
<1>1. HeapInv => HeapOwnedWhileLive
  BY DEF HeapInv
<1>2. QED
  BY <1>1, HeapInvariance, PTL

(* If panics abort, every heap block is freed with the frame of its        *)
(* allocation.                                                             *)
THEOREM HeapFreed == ASSUME ~ Unwinds PROVE Spec => []HeapFreedWithFrame
<1>1. TypeInv /\ HeapInv /\ HeapFreedWithFrame /\ [Next]_vars => HeapFreedWithFrame'
  <2> SUFFICES ASSUME TypeInv, HeapInv, HeapFreedWithFrame, [Next]_vars
               PROVE  HeapFreedWithFrame'
    OBVIOUS
  <2>1. StepShape
    BY NextShape
  <2>2. CASE UNCHANGED <<stack, frame, head, heap>>
    BY <2>2 DEF HeapFreedWithFrame, HeapFrames, Live
  <2>3. ASSUME NEW t \in Threads, PushStep(t) PROVE HeapFreedWithFrame'
    BY <2>3, HeapPush DEF HeapFreedWithFrame
  <2>4. ASSUME NEW t \in Threads, ReturnStep(t) PROVE HeapFreedWithFrame'
    <3>1. Len(stack[t]) \in 1 .. Len(stack[t]) /\ Len(stack[t]) - 1 \in 0 .. Len(stack[t])
      BY <2>4, StackShape DEF ReturnStep, TypeInv
    <3>2. /\ Live' = Live \ {stack[t][i] : i \in (Len(stack[t]) - 1) + 1 .. Len(stack[t])}
          /\ \A a \in Live' : a \in Live /\ frame'[a] = frame[a]
      BY <2>4, <3>1, PopEffect DEF ReturnStep
    <3>3. \A i \in (Len(stack[t]) - 1) + 1 .. Len(stack[t]) : stack[t][i] = Top(t)
      BY <3>1 DEF Top
    <3>4. \A a \in Live \ {Top(t)} : a \in Live'
      BY <3>2, <3>3
    <3>5. \A a \in heap' : a \in heap /\ a # Top(t)
      BY <2>4 DEF ReturnStep, HeapInv, HeapFreedWithFrame
    <3>6. QED
      BY <3>2, <3>4, <3>5 DEF HeapFreedWithFrame, HeapFrames
  <2>5. QED
    BY <2>1, <2>2, <2>3, <2>4 DEF StepShape, UnwindStep
<1>2. Init => HeapFreedWithFrame
  BY DEF Init, HeapFreedWithFrame
<1>3. QED
  BY <1>1, <1>2, HeapInvariance, TypeInvariance, PTL DEF Spec

=============================================================================
