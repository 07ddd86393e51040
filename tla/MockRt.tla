------------------------------- MODULE MockRt -------------------------------
(***************************************************************************)
(* The mock runtime (src/rt/mock): callbacks, stacked allocations and      *)
(* foreign calls nest as closures on the stacks of the program's threads.  *)
(* Each closure-taking method of the runtime is a pair of actions: one     *)
(* enters the closure and pushes a stack frame, one returns from it and    *)
(* pops the frame.  A frame that holds a MockRtAllocChain node is that     *)
(* node; the address of a frame stands for the address of the node and of  *)
(* the memory the frame allocates.                                         *)
(*                                                                         *)
(* A call that returns Err(IDMismatch) or Err(AllocInvalidLayout) changes  *)
(* nothing and is a stuttering step.                                       *)
(***************************************************************************)
EXTENDS Integers, FiniteSets, SequencesExt

CONSTANTS
    Threads,      \* threads of the program
    Runtimes,     \* MockRt instances; an instance is also its brand
    Home,         \* Home[r]: the thread on which MockRt::new created r's scopes
    MaxFrames,    \* bound: number of frames that exist at any time
    PoolSize,     \* trampolines in MockRtCallbackTrampolinePool (32 in the code)
    ZeroCopy,     \* runtimes with zero_copy_immutable
    StackAlloc,   \* runtimes with a StackAllocator; the others have a HeapAllocator
    Unwinds,      \* whether a panic unwinds the stack (else it aborts the process)
    HeapMayFail   \* whether std::alloc::alloc may return null

ASSUME MockRtAssumption ==
    /\ Home \in [Runtimes -> Threads]
    /\ MaxFrames \in Nat
    /\ PoolSize \in Nat
    /\ Unwinds \in BOOLEAN
    /\ HeapMayFail \in BOOLEAN

VARIABLES
    stack,    \* stack[t]: addresses of the frames of thread t, innermost last
    frame,    \* frame[a]: the frame at address a, for every live address a
    head,     \* ACTIVE_ALLOC_CHAIN_HEAD_REF
    heap,     \* addresses whose heap block is allocated
    issued,   \* <<r, id>>: runtime r has handed out trampoline id
    status    \* "run", "abort" (process aborted) or "ub" (used a dangling or null pointer)

vars == <<stack, frame, head, heap, issued, status>>

Addr == 1 .. MaxFrames
None == 0        \* no pointer; as the position of a scope, its Base node
NoScope == -1    \* a runtime whose scopes the running code cannot use
Scope == Addr \union {None, NoScope}

Kinds == {"setup",      \* setup_callback runs fun; a Callback node
          "alloc",      \* a tracking allocation method runs fun; an Allocation node
          "raw",        \* allocate_stacked_untracked_mut runs fun; no node
          "exec",       \* execute runs f, which calls foreign code
          "callback"}   \* a trampoline runs a callback; the Cons node of its scope

Regions == {"none", "heap", "stack", "local", "borrowed", "null"}

(***************************************************************************)
(* A frame.  The scopes of runtime r the frame's code can use are its      *)
(* AllocScope at node ctx[r], together with its AccessScope.               *)
(***************************************************************************)
Frame == [kind     : Kinds,
          rt       : Runtimes,               \* the runtime whose method or trampoline pushed it
          brand    : Runtimes,               \* id_imprint of its node's scope
          chain    : Seq(Addr),              \* from its node to Base, Base left out
          ctx      : [Runtimes -> Scope],
          captured : [Runtimes -> Scope],    \* setup: scopes the callback captured
          id       : Nat,                    \* setup: callback id; callback: id called
          ref      : Addr \union {None},     \* setup: saved head; callback: its setup
          region   : Regions,                \* alloc, raw: where the memory is
          mutable  : BOOLEAN]                \* alloc: MockRtAllocation.mutable

Nothing == [r \in Runtimes |-> NoScope]

PlainFrame(kind, r, s, chain, ctx) ==
    [kind |-> kind, rt |-> r, brand |-> s, chain |-> chain, ctx |-> ctx,
     captured |-> Nothing, id |-> 0, ref |-> None, region |-> "none", mutable |-> FALSE]

Live == DOMAIN frame

Init == /\ stack = [t \in Threads |-> <<>>]
        /\ frame = [a \in {} |-> {}]
        /\ head = None
        /\ heap = {}
        /\ issued = {}
        /\ status = "run"

-----------------------------------------------------------------------------
(* The stacks *)

Top(t) == stack[t][Len(stack[t])]

TopIs(t, kind) == stack[t] # <<>> /\ frame[Top(t)].kind = kind

(* The scopes the code running on thread t can use. *)
Ctx(t) == IF stack[t] = <<>>
            THEN [r \in Runtimes |-> IF Home[r] = t THEN None ELSE NoScope]
            ELSE frame[Top(t)].ctx

(* Addresses for the next frame: neither in use nor leaked, and not the    *)
(* target of a dangling pointer, so that such a pointer stays recognizable.*)
Fresh == (Addr \ (Live \union heap)) \ ({head} \union {frame[a].ref : a \in Live})
NewAddr == CHOOSE a \in Fresh : TRUE

(* Mutant of Push: the caller's scopes are updated in place. *)
PushInPlace(t, f) ==
    LET caller == {stack[t][i] : i \in {Len(stack[t])} \ {0}}
    IN  /\ Fresh # {}
        /\ stack' = [stack EXCEPT ![t] = Append(@, NewAddr)]
        /\ frame' = [a \in Live \union {NewAddr} |->
                        IF a = NewAddr THEN f
                        ELSE IF a \in caller THEN [frame[a] EXCEPT !.ctx = f.ctx] ELSE frame[a]]

Push(t, f) == /\ Fresh # {}
              /\ stack' = [stack EXCEPT ![t] = Append(@, NewAddr)]
              /\ frame' = [a \in Live \union {NewAddr} |-> IF a = NewAddr THEN f ELSE frame[a]]

Pop(t, n) == /\ stack' = [stack EXCEPT ![t] = SubSeq(@, 1, n)]
             /\ frame' = Restrict(frame, Live \ {stack[t][i] : i \in n + 1 .. Len(stack[t])})

Running(t) == status = "run" /\ t \in Threads

(***************************************************************************)
(* A panic on thread t while the code holds a block in region, with h as   *)
(* the head: unwinding drops frames n+1 and up without freeing heap blocks *)
(* or restoring the head, and code of frame n catches it (or the code      *)
(* below all frames).  It cannot cross the extern "C" functions that run a *)
(* callback or the closure of a StackAllocator.                            *)
(***************************************************************************)
Uncrossable(a) == frame[a].kind = "callback" \/ frame[a].region = "stack"

Panic(t, h, region) ==
    \E n \in 0 .. Len(stack[t]) :
        IF /\ Unwinds
           /\ region # "stack"
           /\ \A i \in n + 1 .. Len(stack[t]) : ~ Uncrossable(stack[t][i])
          THEN /\ Pop(t, n)
               /\ head' = h
               /\ heap' = heap \union (IF region = "heap" THEN {NewAddr} ELSE {})
               /\ UNCHANGED <<issued, status>>
          ELSE /\ status' = "abort"
               /\ UNCHANGED <<stack, frame, head, heap, issued>>

(* Mutant of SameBrand: ids are not compared. *)
AnyBrand(r, s) == TRUE

(* self.id_imprint != alloc_scope.id_imprint(), and the like. *)
SameBrand(r, s) == r = s

-----------------------------------------------------------------------------
(* The allocation chain *)

(* The nodes from n to Base; no scope points to a dead node (ScopesLive). *)
Chain(n) == IF n \in Live THEN frame[n].chain ELSE <<>>

(* Position of the first node of the chain that is in S, 0 if there is none. *)
FirstIn(chain, S) == LET hits == {i \in DOMAIN chain : chain[i] \in S}
                     IN  IF hits = {} THEN 0 ELSE Min(hits)

Setups == {a \in Live : frame[a].kind = "setup"}

(* AllocTracker::is_valid and is_valid_mut, for the memory of frame a, of  *)
(* runtimes that MockRt::new was given all_upgrades_valid = false for: the *)
(* Base node of the others finds everything to be valid.                   *)
IsValid(n, a, mutable) ==
    \E i \in DOMAIN Chain(n) :
        /\ Chain(n)[i] = a
        /\ frame[a].kind = "alloc"
        /\ mutable => frame[a].mutable

(* Mutant of NextCallbackId: the innermost id is used again. *)
SameCallbackId(n) == LET i == FirstIn(Chain(n), Setups)
                     IN  IF i = 0 THEN 0 ELSE frame[Chain(n)[i]].id

NextCallbackId(n) == LET i == FirstIn(Chain(n), Setups)
                     IN  IF i = 0 THEN 0 ELSE frame[Chain(n)[i]].id + 1

(* Mutant of Callee: the innermost registration, whatever its id. *)
InnermostCallee(id) ==
    LET i == FirstIn(Chain(head), (Addr \ Live) \union Setups)
    IN  IF head = None THEN None
        ELSE IF head \notin Live THEN NoScope
        ELSE IF i = 0 THEN None
        ELSE IF Chain(head)[i] \notin Live THEN NoScope
        ELSE Chain(head)[i]

(* find_callback_descriptor(id) on the chain of the head: the setup frame  *)
(* found, None, or NoScope if a dangling pointer is followed on the way.   *)
Callee(id) ==
    LET dead  == Addr \ Live
        found == {a \in Setups : frame[a].id = id}
        i     == FirstIn(Chain(head), dead \union found)
    IN  IF head = None THEN None
        ELSE IF head \in dead THEN NoScope
        ELSE IF i = 0 THEN None
        ELSE IF Chain(head)[i] \in dead THEN NoScope
        ELSE Chain(head)[i]

-----------------------------------------------------------------------------
(* Callbacks *)

(* The inner scope and the callback descriptor of setup_callback_int. *)
SetupFrame(t, r, s, cap) ==
    [PlainFrame("setup", r, s, <<NewAddr>> \o Chain(Ctx(t)[s]),
                [c \in Runtimes |-> IF c = s THEN NewAddr
                                    ELSE IF c \in cap THEN NoScope ELSE Ctx(t)[c]])
       EXCEPT !.captured = [c \in Runtimes |-> IF c \in cap THEN Ctx(t)[c] ELSE NoScope],
              !.id = NextCallbackId(Ctx(t)[s]),
              !.ref = head]

(* Mutant of SetupCallback: one id too many. *)
SetupCallbackOffByOne(t, r, s, cap) ==
    /\ Running(t)
    /\ Ctx(t)[s] # NoScope
    /\ \A c \in cap : c # s /\ Ctx(t)[c] # NoScope
    /\ SameBrand(r, s)
    /\ NextCallbackId(Ctx(t)[s]) =< PoolSize
    /\ Push(t, SetupFrame(t, r, s, cap))
    /\ head' = NewAddr
    /\ issued' = issued \union {<<r, NextCallbackId(Ctx(t)[s])>>}
    /\ UNCHANGED <<heap, status>>

(* setup_callback: runtime r registers a callback in the scope of brand s. *)
(* The callback captured the scopes of the runtimes in cap, so that fun    *)
(* cannot use them.  The head is replaced before the trampoline is taken   *)
(* from the pool, which panics when the pool is too small.                 *)
SetupCallback(t, r, s, cap) ==
    /\ Running(t)
    /\ Ctx(t)[s] # NoScope
    /\ \A c \in cap : c # s /\ Ctx(t)[c] # NoScope
    /\ SameBrand(r, s)
    /\ Fresh # {}
    /\ LET id == NextCallbackId(Ctx(t)[s])
       IN  IF id < PoolSize
             THEN /\ Push(t, SetupFrame(t, r, s, cap))
                  /\ head' = NewAddr
                  /\ issued' = issued \union {<<r, id>>}
                  /\ UNCHANGED <<heap, status>>
             ELSE Panic(t, NewAddr, "none")

(* Mutant of SetupReturn: the saved head is not put back. *)
SetupReturnKeepsHead(t) ==
    /\ Running(t)
    /\ TopIs(t, "setup")
    /\ Pop(t, Len(stack[t]) - 1)
    /\ UNCHANGED <<head, heap, issued, status>>

(* fun returns to setup_callback_int, which puts the saved head back. *)
SetupReturn(t) ==
    /\ Running(t)
    /\ TopIs(t, "setup")
    /\ Pop(t, Len(stack[t]) - 1)
    /\ head' = frame[Top(t)].ref
    /\ UNCHANGED <<heap, issued, status>>

ExecuteFrame(t, r, s) == PlainFrame("exec", r, s, <<>>, [Ctx(t) EXCEPT ![s] = NoScope])

(* execute: with the scopes of its runtime, f runs and calls foreign code. *)
Execute(t, r, s, q) ==
    /\ Running(t)
    /\ Ctx(t)[s] # NoScope
    /\ Ctx(t)[q] # NoScope
    /\ IF SameBrand(r, s) /\ SameBrand(r, q)
         THEN /\ Push(t, ExecuteFrame(t, r, s))
              /\ UNCHANGED <<head, heap, issued, status>>
         ELSE Panic(t, head, "none")

ExecuteReturn(t) ==
    /\ Running(t)
    /\ TopIs(t, "exec")
    /\ Pop(t, Len(stack[t]) - 1)
    /\ UNCHANGED <<head, heap, issued, status>>

(* Mutant of CallbackFrame: the Cons node is put in front of the callback. *)
CallbackFrameAtCallee(r, id) ==
    [PlainFrame("callback", r, frame[head].brand, <<NewAddr>> \o Chain(Callee(id)),
                [frame[Callee(id)].captured EXCEPT ![frame[head].brand] = NewAddr])
       EXCEPT !.ref = Callee(id), !.id = id]

(* A Cons node in front of the head, and what the callback can use: its    *)
(* captured scopes, and new ones of the head's brand.                      *)
CallbackFrame(r, id) ==
    [PlainFrame("callback", r, frame[head].brand, <<NewAddr>> \o Chain(head),
                [frame[Callee(id)].captured EXCEPT ![frame[head].brand] = NewAddr])
       EXCEPT !.ref = Callee(id), !.id = id]

(* Foreign code calls trampoline id, which r handed out;                   *)
(* mock_rt_callback_dispatch looks the callback up from the head, and runs *)
(* it with a new AllocScope and a new AccessScope.                         *)
ForeignCall(t, r, id) ==
    /\ Running(t)
    /\ TopIs(t, "exec")
    /\ Callee(id) \in Addr
    /\ Push(t, CallbackFrame(r, id))
    /\ UNCHANGED <<head, heap, issued, status>>

(* No head, or expect("Callback not found!") fails: the panic cannot leave *)
(* the extern "C" trampoline.                                              *)
ForeignCallFindsNothing(t, id) ==
    /\ Running(t)
    /\ TopIs(t, "exec")
    /\ Callee(id) = None
    /\ status' = "abort"
    /\ UNCHANGED <<stack, frame, head, heap, issued>>

(* The head, or a node on the way to the callback, is gone. *)
ForeignCallDangles(t, id) ==
    /\ Running(t)
    /\ TopIs(t, "exec")
    /\ Callee(id) = NoScope
    /\ status' = "ub"
    /\ UNCHANGED <<stack, frame, head, heap, issued>>

CallbackReturn(t) ==
    /\ Running(t)
    /\ TopIs(t, "callback")
    /\ Pop(t, Len(stack[t]) - 1)
    /\ UNCHANGED <<head, heap, issued, status>>

-----------------------------------------------------------------------------
(* Stacked allocations *)

(* What MockRtAllocator::with_alloc hands to its closure; HeapAllocator    *)
(* passes on whatever alloc returned.                                      *)
AllocatorRegions(r) == IF r \in StackAlloc THEN {"stack"}
                       ELSE {"heap"} \union (IF HeapMayFail THEN {"null"} ELSE {})

(* Mutant of HeapAfterAlloc: the block is freed before fun runs. *)
HeapFreedBeforeFun(region) == UNCHANGED heap

HeapAfterAlloc(region) == heap' = heap \union (IF region = "heap" THEN {NewAddr} ELSE {})

AllocFrame(t, r, s, region, mutable) ==
    [PlainFrame("alloc", r, s, <<NewAddr>> \o Chain(Ctx(t)[s]), [Ctx(t) EXCEPT ![s] = NewAddr])
       EXCEPT !.region = region, !.mutable = mutable]

RawFrame(t, r, region) == [PlainFrame("raw", r, r, <<>>, Ctx(t)) EXCEPT !.region = region]

(* fun runs with an inner scope that tracks the new memory. *)
Track(t, r, s, region, mutable) ==
    /\ Push(t, AllocFrame(t, r, s, region, mutable))
    /\ HeapAfterAlloc(region)
    /\ UNCHANGED <<head, issued, status>>

(* allocate_stacked_untracked_mut *)
AllocateStackedUntrackedMut(t, r) ==
    /\ Running(t)
    /\ \E region \in AllocatorRegions(r) :
          /\ Push(t, RawFrame(t, r, region))
          /\ HeapAfterAlloc(region)
    /\ UNCHANGED <<head, issued, status>>

(* allocate_stacked_mut and allocate_stacked_slice_mut *)
AllocateStackedMut(t, r, s) ==
    /\ Running(t)
    /\ Ctx(t)[s] # NoScope
    /\ SameBrand(r, s)
    /\ \E region \in AllocatorRegions(r) : Track(t, r, s, region, TRUE)

(* allocate_stacked_t_mut, which MockRt overrides with a local variable *)
AllocateStackedTMut(t, r, s) ==
    /\ Running(t)
    /\ Ctx(t)[s] # NoScope
    /\ SameBrand(r, s)
    /\ Track(t, r, s, "local", TRUE)

(* write_stacked_t_mut and write_stacked_ref_t_mut: EFMutRef::write panics *)
(* on an access scope of another brand, after the allocation.              *)
WriteStackedTMut(t, r, s, q) ==
    /\ Running(t)
    /\ Ctx(t)[s] # NoScope
    /\ Ctx(t)[q] # NoScope
    /\ SameBrand(r, s)
    /\ IF SameBrand(s, q) THEN Track(t, r, s, "local", TRUE)
                          ELSE Panic(t, head, "none")

(* write_stacked_slice_from_iter_mut and its callers: write_from_iter      *)
(* panics on a foreign access scope and on an iterator that is too short,  *)
(* and faults on memory the heap failed to provide.                        *)
WriteStackedSliceMut(t, r, s, q, short) ==
    /\ Running(t)
    /\ Ctx(t)[s] # NoScope
    /\ Ctx(t)[q] # NoScope
    /\ SameBrand(r, s)
    /\ Fresh # {}
    /\ \E region \in AllocatorRegions(r) :
          IF ~ SameBrand(s, q) THEN Panic(t, head, region)
          ELSE IF region = "null"
            THEN /\ status' = "ub"
                 /\ UNCHANGED <<stack, frame, head, heap, issued>>
          ELSE IF short THEN Panic(t, head, region)
          ELSE Track(t, r, s, region, TRUE)

(* Mutant of WriteStackedT: the borrowed value is tracked as mutable. *)
WriteStackedTAsMutable(t, r, s, q) ==
    /\ SameBrand(r, s)
    /\ SameBrand(r, q)
    /\ IF r \in ZeroCopy
         THEN /\ Running(t)
              /\ Ctx(t)[s] # NoScope
              /\ Track(t, r, s, "borrowed", TRUE)
         ELSE WriteStackedTMut(t, r, s, q)

(* write_stacked_t and write_stacked_ref_t: all ids are checked first, and *)
(* with zero_copy_immutable the value itself is the (immutable) memory.    *)
WriteStackedT(t, r, s, q) ==
    /\ SameBrand(r, s)
    /\ SameBrand(r, q)
    /\ IF r \in ZeroCopy
         THEN /\ Running(t)
              /\ Ctx(t)[s] # NoScope
              /\ Track(t, r, s, "borrowed", FALSE)
         ELSE WriteStackedTMut(t, r, s, q)

(* write_stacked_slice; its source is a slice and never too short *)
WriteStackedSlice(t, r, s, q) ==
    /\ SameBrand(r, s)
    /\ SameBrand(r, q)
    /\ IF r \in ZeroCopy
         THEN /\ Running(t)
              /\ Ctx(t)[s] # NoScope
              /\ Track(t, r, s, "borrowed", FALSE)
         ELSE WriteStackedSliceMut(t, r, s, q, FALSE)

(* Mutant of AllocReturn: the block is not freed. *)
AllocReturnLeaks(t) ==
    /\ Running(t)
    /\ TopIs(t, "alloc") \/ TopIs(t, "raw")
    /\ Pop(t, Len(stack[t]) - 1)
    /\ UNCHANGED <<head, heap, issued, status>>

(* fun returns and its frame goes; HeapAllocator frees the block. *)
AllocReturn(t) ==
    /\ Running(t)
    /\ TopIs(t, "alloc") \/ TopIs(t, "raw")
    /\ frame[Top(t)].region # "null"
    /\ Pop(t, Len(stack[t]) - 1)
    /\ heap' = heap \ {Top(t)}
    /\ UNCHANGED <<head, issued, status>>

(* HeapAllocator frees what it was given, also a null pointer, which       *)
(* dealloc does not allow.                                                 *)
AllocReturnFreesNull(t) ==
    /\ Running(t)
    /\ TopIs(t, "alloc") \/ TopIs(t, "raw")
    /\ frame[Top(t)].region = "null"
    /\ status' = "ub"
    /\ UNCHANGED <<stack, frame, head, heap, issued>>

-----------------------------------------------------------------------------

(* Code given to the runtime panics: a fun, a callback or the code of f. *)
ClosurePanics(t) ==
    /\ Running(t)
    /\ stack[t] # <<>>
    /\ Panic(t, head, "none")

(* The process has ended, or anything may happen next. *)
Stopped == status # "run" /\ UNCHANGED vars

Allocate(t, r, s, q) ==
    \/ AllocateStackedMut(t, r, s)
    \/ AllocateStackedTMut(t, r, s)
    \/ WriteStackedTMut(t, r, s, q)
    \/ \E short \in BOOLEAN : WriteStackedSliceMut(t, r, s, q, short)
    \/ WriteStackedT(t, r, s, q)
    \/ WriteStackedSlice(t, r, s, q)

Call(t, r, id) ==
    \/ ForeignCall(t, r, id)
    \/ ForeignCallFindsNothing(t, id)
    \/ ForeignCallDangles(t, id)

Return(t) ==
    \/ SetupReturn(t)
    \/ ExecuteReturn(t)
    \/ CallbackReturn(t)
    \/ AllocReturn(t)
    \/ AllocReturnFreesNull(t)

Next ==
    \/ \E t \in Threads :
          \/ \E r, s \in Runtimes : \E cap \in SUBSET Runtimes : SetupCallback(t, r, s, cap)
          \/ \E r, s, q \in Runtimes : Execute(t, r, s, q)
          \/ \E r, s, q \in Runtimes : Allocate(t, r, s, q)
          \/ \E r \in Runtimes : AllocateStackedUntrackedMut(t, r)
          \/ \E call \in issued : Call(t, call[1], call[2])
          \/ Return(t)
          \/ ClosurePanics(t)
    \/ Stopped

Spec == Init /\ [][Next]_vars

-----------------------------------------------------------------------------
(* Properties *)

TypeOK ==
    /\ stack \in [Threads -> Seq(Addr)]
    /\ Live \subseteq Addr
    /\ frame \in [Live -> Frame]
    /\ head \in Addr \union {None}
    /\ heap \subseteq Addr
    /\ issued \subseteq Runtimes \X (0 .. PoolSize - 1)
    /\ status \in {"run", "abort", "ub"}

(* h is the address of the innermost setup frame among the n outermost     *)
(* frames of thread t, or None.                                            *)
IsInnermostSetup(t, n, h) ==
    \/ /\ h = None
       /\ \A i \in 1 .. n : frame[stack[t][i]].kind # "setup"
    \/ \E i \in 1 .. n :
          /\ h = stack[t][i]
          /\ frame[h].kind = "setup"
          /\ \A j \in i + 1 .. n : frame[stack[t][j]].kind # "setup"

(* The head is the innermost running setup_callback of every thread: the   *)
(* comment in setup_callback_int calls it a stack of heads whose previous  *)
(* value is put back after the closure has run.                            *)
HeadIsInnermostSetup == \A t \in Threads : IsInnermostSetup(t, Len(stack[t]), head)

(* When setup_callback_int puts the saved head back, the head it replaces  *)
(* is its own: "all the references ... are local to our stack".            *)
ReplacedHeadIsOwn == \A t \in Threads : TopIs(t, "setup") => head = Top(t)

(* Every AllocScope that running or suspended code, or a registered        *)
(* callback, holds walks only over nodes that are still on a stack.        *)
ScopesLive ==
    \A a \in Live : \A r \in Runtimes :
        \A n \in {frame[a].ctx[r], frame[a].captured[r]} \cap Addr :
            /\ n \in Live
            /\ \A i \in DOMAIN frame[n].chain : frame[n].chain[i] \in Live

(* No trampoline call follows a dangling head or chain, and nothing is     *)
(* written to, and nothing freed at, a null pointer.                       *)
NoDanglingCall == status # "ub"

(* What an AllocScope of runtime r lets the running code upgrade is live   *)
(* memory on its own stack, allocated by r, and mutable only if it is not  *)
(* the caller's borrowed value; all_upgrades_valid = false.                *)
UpgradeWithinRuntime ==
    \A t \in Threads, r \in Runtimes, a \in Addr, mutable \in BOOLEAN :
        IsValid(Ctx(t)[r], a, mutable) =>
            /\ a \in Range(stack[t])
            /\ frame[a].rt = r
            /\ mutable => frame[a].region # "borrowed"

(* The ids of the running setup_callbacks of a thread are 0, 1, 2, ... from *)
(* the outside in, across foreign calls and callbacks: no two of them share *)
(* a trampoline.                                                            *)
RegistrationIdsDense ==
    \A t \in Threads : \A i \in DOMAIN stack[t] :
        frame[stack[t][i]].kind = "setup" =>
            frame[stack[t][i]].id =
                Cardinality({j \in 1 .. i - 1 : frame[stack[t][j]].kind = "setup"})

(* With its scope, code can upgrade exactly the tracked allocations that   *)
(* were in scope when the registration innermost at each enclosing foreign *)
(* call was made: those made between that registration and the call are    *)
(* hidden from the callback although they are still allocated.  This       *)
(* speaks of all_upgrades_valid = false, too.                              *)
UpgradeWindow ==
    \A t \in Threads, r \in Runtimes :
        Ctx(t)[r] # NoScope =>
            \A i \in DOMAIN stack[t] :
                frame[stack[t][i]].kind = "alloc" =>
                    (IsValid(Ctx(t)[r], stack[t][i], FALSE) <=>
                        \A j \in i + 1 .. Len(stack[t]) :
                            frame[stack[t][j]].kind = "callback" =>
                                \E k \in i + 1 .. j - 1 : frame[stack[t][k]].kind = "setup")

HeapFrames == {a \in Live : frame[a].region = "heap"}

(* A heap block is never freed while its frame is on the stack. *)
HeapOwnedWhileLive == HeapFrames \subseteq heap

(* Heap blocks are freed once their stack frame is popped, as the comment  *)
(* in HeapAllocator::with_alloc promises.                                  *)
HeapFreedWithFrame == heap \subseteq HeapFrames

(* A callback's AccessScope is new.  The code that makes it calls this     *)
(* safe because foreign code runs only while the runtime's other           *)
(* AccessScope is borrowed by execute: so when foreign code that r         *)
(* executes calls a trampoline of r, the new AccessScope must be r's.      *)
AccessScopeBorrowed ==
    \A t \in Threads : \A i \in DOMAIN stack[t] :
        frame[stack[t][i]].kind = "callback" =>
            LET callback == frame[stack[t][i]]
                execute  == frame[stack[t][i - 1]]
            IN  callback.rt = execute.rt => callback.brand = execute.brand
=============================================================================
