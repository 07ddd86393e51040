# Encapsulated functions, in TLA+

`encapfn` lets Rust programs call foreign code without trusting it with their
memory. A *runtime* hands memory to foreign code, runs it, and lets it call
back; *scopes* (`AllocScope`, `AccessScope`) passed from closure to closure
keep track of which foreign memory exists and who may access it, and a *brand*
ties scopes, references and runtimes together. The only runtime in the
repository is the mock runtime, which runs foreign code without isolation.

This directory specifies that code, model-checks it with TLC and proves
theorems about it with TLAPS. Paths below are relative to the repository.

## 1. The system

| component | source | state | operations |
|---|---|---|---|
| runtime branding | `src/branding.rs` | `EF_RUNTIME_BRANDING_CTR`, one atomic counter per process | `EFRuntimeBranding::new`, `EFID::compare` |
| lifetime branding | `src/branding.rs` | none (types only) | `EFLifetimeBranding::new` |
| mock runtime | `src/rt/mock/mod.rs` | `ACTIVE_ALLOC_CHAIN_HEAD_REF`, one `static mut` per process; the closures on the stacks | `setup_callback`, the trampolines and their dispatch, `execute`, `allocate_stacked_*`, `write_stacked_*` |
| allocation chain | `src/rt/mock/mod.rs` | linked nodes in stack frames: `Base`, `Allocation`, `Callback`, `Cons` | `is_valid`, `is_valid_mut`, `next_callback_id`, `find_callback_descriptor` |
| heap allocator | `src/rt/mock/heap_alloc.rs` | the blocks it has allocated | `with_alloc` |
| stack allocator | `src/rt/mock/stack_alloc.rs` | the stack pointer | `with_alloc`, `stack_alloc` in assembly |
| runtime trait | `src/rt/mod.rs` | none | provided methods that combine the ones above |
| foreign memory types | `src/types.rs` | borrows of the two scopes; the foreign bytes | `EFPtr::upgrade*`, `validate`, `write*`, `copy*` |
| ABI definitions and traits | `src/abi`, `src/rt/{rv32i_c,sysv_amd64}.rs` | none | none |

How they interact. All methods of the runtime that take a closure `fun` run it
before they return: what they set up (memory, a chain node, a new chain head)
lives in their stack frame. `execute` runs code that calls foreign code;
foreign code calls a trampoline; the trampoline reads the head, walks the
chain to a `Callback` node and runs the Rust closure registered there, which
gets new scopes and may do all of this again. So the state of the runtime *is*
the stack of the thread, plus one global pointer into it and the heap blocks.

What is hard:

* arbitrary nesting of registrations, allocations, foreign calls and
  callbacks, with a global that must be saved and restored on the way;
* raw pointers from the head to stack frames, which the borrow checker does
  not see, and trampolines that outlive their registration;
* several runtimes (brands) on one head; several threads on one head;
* closures that panic: unwinding skips the code after the closure;
* the counter: relaxed, weak compare-and-exchange by any number of threads,
  and its overflow;
* a full trampoline pool, an exhausted heap;
* assembly that moves the stack pointer by any size, rounds it for any
  alignment, and relies on a register that nested calls use as well;
* pointers and lengths that foreign code chooses, checked by arithmetic that
  may overflow;
* typed references and validated values of different types that overlap, while
  the program and foreign code write to the same bytes: only the borrows of
  the `AccessScope` keep them apart.

Properties that make the components correct:

* branding: ids are never issued twice, whoever draws them (everything else
  compares ids); a call of `new` ends;
* callbacks: the head is the innermost running registration; a trampoline
  call never follows a pointer to a frame that is gone; registrations in force
  have distinct ids, and trampoline *n* runs registration *n*;
* allocations: a scope upgrades memory only while it exists, only of its own
  runtime, and mutably only if the runtime may write to it; heap blocks live
  exactly as long as the frame of the call that allocated them;
* stack allocator: memory is aligned and overlaps nothing that is in use, and
  the stack pointer is back where it was when the closure has returned;
* foreign memory types: references stay aligned and within one allocation of
  their brand, mutable ones within a mutable one, however they are derived
  from one another; a validated value is valid and does not change while it
  can be used; what was validated in a copy stays valid. The code keeps the
  first two only with exceptions, which sections 2 and 3 name.

`PROJECT.json` lists the hazards behind these properties, line by line.

## 2. Modules

```
IdSource <--implements-- Branding <-- BrandingProofs
                            ^
                        MCBranding

CallbackRegistry <--implements-- MockRtRegistry --> MockRt <-- MockRtProofs
                                    ^      ^                         ^
                              MCMockRt     |                MockRtScopeProofs
                                           |                         ^
                                           |                  MockRtIdProofs
                                           |                         ^
                                           +------------ MockRtRegistryProofs

StackAllocator <-- StackAllocatorProofs
      ^
MCStackAllocator

Upgrade <--extends-- Access <-- AccessProofs
                       ^
                    MCAccess
```

Definitions called "Mutant of ..." are variants of a definition with a
plausible mistake; each of them breaks a property that holds of the original,
which shows that the property and the bounds of its run are able to notice.

### Branding, IdSource

`Branding` is `EFRuntimeBranding::new` step by step. `fetch_update` is
modelled as the standard library documents and implements it (external code):
a relaxed load, then a loop of `compare_exchange_weak` that may fail for no
reason and hands back the value it saw. A relaxed load of a single atomic may
return any value in its modification order not older than what the thread has
seen, so `Load` and `CasFails` choose a value between `prev[p]` and `ctr`; a
successful read-modify-write acts on the newest value. `Overflow` is the
`expect` on `checked_add`; a thread that panicked may call `new` again.
`IdSource` is the abstract promise: each call gets an id that is not in use.

Fairness (`FairSpec`). A thread inside `new` keeps running; a failing
compare-and-exchange eventually sees the newest value (stores become visible
in finite time), and does not fail spuriously for ever. These are weak
fairness conditions on `CasSucceeds`, `CasCatchesUp` and `Overflow`. Nothing
obliges a thread to call `new`. Weak fairness is enough because the counter is
bounded: a thread can lose the race only finitely often.

### MockRt

One module for callbacks, allocations and `execute`, since all of them live on
the same stack. `stack[t]` is the stack of thread `t`: addresses of frames,
innermost last. `frame[a]` describes the frame at address `a` for as long as
it exists:

| kind | pushed by | popped by | the code it runs |
|---|---|---|---|
| `setup` | `SetupCallback` | `SetupReturn` | `fun` of `setup_callback`; a `Callback` node |
| `alloc` | `AllocateStackedMut`, `AllocateStackedTMut`, `WriteStacked...` | `AllocReturn` | `fun` with an inner scope; an `Allocation` node |
| `raw` | `AllocateStackedUntrackedMut` | `AllocReturn` | `fun` with a bare pointer |
| `exec` | `Execute` | `ExecuteReturn` | `f`, which calls foreign code |
| `callback` | `ForeignCall` | `CallbackReturn` | a registered callback; a `Cons` node |

The address of a frame also stands for the addresses of its chain node and of
its memory. `chain` is the list of nodes from its own to `Base`. `ctx[r]` is
the node of the `AllocScope` of runtime `r` that the frame's code can use, or
`None` for the `Base` node, or `NoScope` if the code has no usable scope of
`r`. This is the part of Rust's borrow rules the model needs: a method that
takes `&mut AllocScope` hides it from `fun`, which gets an inner scope or none
(`execute`); a callback gets the scopes it captured and new ones, and what it
captured is hidden from the `fun` of its `setup_callback`. An access scope
travels with its alloc scope. `captured`, `id` and `ref` describe a
registration: what its closure captured, its callback id, the saved head; in a
callback frame `ref` is the registration it runs.

`head`, `heap` and `issued` are the global head, the allocated heap blocks and
the trampolines foreign code may know, which it can call at any time from then
on, also after their registration has ended. `status` ends the run: `abort`
(a panic that cannot unwind), `ub` (a dangling or null pointer was followed, or
a null pointer was freed).

What the actions keep of the code: the order of checks (ids before anything
else; the brand of the access scope only after the allocation), the head
replaced before the pool is indexed, callback ids and callees found by walking
the chain, the two kinds of allocator, zero-copy tracking of borrowed values
as immutable memory, and panics from id mismatches, short iterators, a full
pool, an unknown callback and the program's own closures. A panic either
aborts (constant `Unwinds`, and always when it would cross an `extern "C"`
function) or unwinds to some frame in one step, which runs no code of the
runtime, for the runtime has no destructors. `AllocatorRegions` says what an
allocator hands out: heap memory, or null if `HeapMayFail`, or stack memory.

Left out here: the bytes of the memory and address ranges inside allocations
(a pointer is "into allocation *a*"), which `Upgrade` and `Access` add; the
`Base` node of a runtime that declares all pointers valid (`MockRt::new` with
`all_upgrades_valid`, also in `Upgrade`), so that `UpgradeWindow` and
`UpgradeWithinRuntime` speak of runtimes that do not; the argument registers; calls that return
`Err(IDMismatch)` or `Err(AllocInvalidLayout)`, which change nothing and are
stuttering steps. `allocate_stacked_slice_mut` is `AllocateStackedMut` with
another layout, `write_stacked_ref_t_mut` is `WriteStackedTMut` with another
source, and so on. With several threads, `SetupCallback` and `SetupReturn`
read and write the head in one step; a finer grain would only add behaviours,
and that run looks for a violation.

### CallbackRegistry, MockRtRegistry

`CallbackRegistry` is what users of one runtime may rely on: registrations and
calls nest; the registrations in force are numbered from 0; calling trampoline
`n` runs registration `n`; anything else ends the process. `MockRtRegistry`
maps the stack of the thread that uses callbacks (`CallbackThread`) to it: the
`k`-th entry of the registry is the `k`-th registration or callback on that
stack (`Nth(Shown, k)`), and allocations and `execute` are dropped. An entry for
a callback shows both the trampoline that was called and the registration that
runs, which the registry requires to agree.

### StackAllocator

`StackAllocator::with_alloc` below the level of Rust: the stack pointer `sp`,
the callee-saved register `reg` in which the assembly keeps the old stack
pointer (`r12` on AMD64, `s2` on RISC-V) and the
functions that run, each with the address and size of its locals. Among the
locals is the value `reg` had when the function was called, for `out("r12")`
makes the compiler save it. `StackAlloc` is the assembly up to `call`,
`StackAllocReturn` what comes after it and the epilogue; one frame stands for
`with_alloc` and `stack_alloc`. The two architectures execute the same steps.
They differ in what they declare: RISC-V has an `out("a0")` for the register of
the first argument, so that the compiler puts neither the callback's address nor
the mask there, AMD64 has nothing of the kind for `rdi`. Which registers the
compiler picks is not modelled: the model takes both values to arrive unharmed. `Call` and `Return` are all other functions,
closures, callbacks and foreign ones, which follow the calling convention: they
may use the register and put it back (external). `AND NOT (a - 1)` is rounding
down to a multiple of the power of two `a`. The subtraction is done modulo the
address space, and nothing checks that the result is on the stack: if it is not,
or if it is not below the caller, the run ends in `StackAllocOverflows`, so the
properties are about allocations that fit.
A panic that is caught below the next allocation leaves functions as `Return`
does; one that reaches the `extern "C"` function `invoke` aborts. The checks of
`with_alloc` after the assembly (`closure.is_none()`, `Ret::Returned`) cannot
fail when `invoke` has returned and are left out. `MockRt` takes from this
module that memory from the stack lives as long as its frame.

### Upgrade

The pure part of `src/types.rs`: `EFPtr` and its four checked upgrades, and
`MockRtAllocation::matches` with `checked_add`. A pointer is its address
`0 .. MaxUsize`; types are a set `Elems` with a size and an alignment (the size
a multiple of the alignment, as in Rust); a reference is a record with its form
(`one`, `array` for `[T; N]`, `slice`), mutability, brand, address, element
type and length. An `Option` is a set of at most one element. `ByteLength` is
the unchecked product of `upgrade_slice`: with `OverflowChecks` it panics
instead of wrapping; no cargo profile of the repository asks for that in release
builds, and no run does. `Allocs` are the allocations that the scopes in use
track, `AllUpgradesValid` the brands whose `Base` node has the flag `true`, and
`DISABLE_UPGRADE_CHECKS` the cargo feature. Allocations do not wrap around the
address space, and one overlaps another only if both are immutable, as Rust
values do that are tracked more than once without being copied. (A runtime that
tracks, without copying, a value that lies in the mutable foreign memory of
another runtime is thereby left out.)

### Access

What a program can do with foreign memory through one or more runtimes while a
chain stays as it is (how chains come and go is the subject of `MockRt`).

| state | code |
|---|---|
| `mem` | the bytes of the allocations |
| `refs` | `EFRef`, `EFMutRef`, `EFSlice`, `EFMutSlice` |
| `vals` | `EFVal`, `EFSliceVal`, `EFVal<str>`, each with the access scope it borrows, and whether it borrows it mutably |
| `copies` | `EFCopy<T>`; `lent` while a reference from `validate_ref` is out, `owned` once it is a `T` |
| `iters` | `EFMutRefIter`, `EFRefIter`, `EFSliceIter` |

There is one action per method. The borrow checker is modelled by two guards:
`Reads(q)`, the program can lend `&AccessScope` of brand `q` (no held value
borrows it mutably), and `Writes(q)`, it can lend `&mut AccessScope` (no held
value borrows it at all). Each method has the guard of its signature:
`write_from_iter` and `copy_from_slice` of `EFMutSlice` have `Reads`, all other
writes `Writes`. `DropVal` ends the borrow of a value at any time; references
and iterators borrow nothing that matters, and are dropped in the step that makes
new ones. A value written by Rust code is some valid value (`Stores`);
`write_from_iter` with a short iterator writes some elements and panics. A panic
on an id mismatch, a `None` and an `Err` change nothing and are stuttering
steps. Uninitialized bytes (`EFCopy::from`) are arbitrary bytes.
`SubRefUnchecked` keeps the promise its caller has to make (the offset of a
field); the unsafe `assume_valid` methods are not called but through the safe
ones.

`Execute(q, h)` is foreign code of runtime `q`: it needs `&mut AccessScope` of
`q` and may change all mutable memory of `q` to anything. It may also call back,
and the callback gets a new `AccessScope`, of the brand `h` of whichever
`setup_callback` is innermost (see `foreign_brand` below). With it the callback
can do all that the program does. So from then on the borrows of the values of
brand `h` that are held meanwhile (`lost = "scope"`) stop nobody. When the
callback returns is left out, which adds behaviours.

Not everything these types promise holds, and the model does not pretend it
does. Two fields that the code does not have, histories, say to which references
and values the promises apply:

* `checked`, of a reference: whether the upgrade it derives from has found all of
  its memory to be allocated (`"read"`) and mutable (`"write"`). It is `"none"` if
  upgrades are not checked, if the number of bytes wrapped around, and for the
  elements of `EFVal::as_array` beyond the first: `as_array` reinterprets one
  pointer and id as `N` of them, and the others are what follows on the stack
  (`StackWords`, with any brand). `as_mut` of an immutable reference gives a
  mutable one whose `checked` is `"read"`.
* `lost`, of a value: what has happened to it that the compiler did not prevent:
  its bytes were written as a slice under a shared scope or through a reference
  not checked for writing (`"bytes"`), or a callback got a scope of its brand
  (`"scope"`). No guard reads these fields but `Borrows`, which takes `"scope"`
  to mean that the borrow no longer stops anybody.

`ValidatedIsValid` and `ValidatedUnchanged` speak of values that are `Protected`:
checked, and nothing lost. An access through an unchecked reference to memory
that is not allocated is undefined behaviour; the model takes it to end the
process (`Mapped`), as an access to unmapped memory does.

## 3. Model checking

| run | instance | result |
|---|---|---|
| `branding` | 3 threads, ids up to 3 | all properties hold, with liveness |
| `mock_one` | 1 thread, 1 runtime (zero-copy, heap), 6 frames, pool of 3 | all hold, with the refinement of `CallbackRegistry` |
| `mock_two` | 1 thread, 2 runtimes (zero-copy with heap; stack allocator), 5 frames, pool of 1 | all hold |
| `mock_unwind` | as `mock_two` with unwinding and failing heap, 4 frames | scopes and heap ownership still hold |
| `unwind_head` | 1 runtime, unwinding | `HeadIsInnermostSetup` violated |
| `stack_alloc` | 64 addresses, stack of 40, alignments 1, 2 and 8 with a `MinAlign` of 4, 5 frames | all properties hold |
| `threads` | 2 threads with a runtime each | `ReplacedHeadIsOwn` violated |
| `foreign_brand` | 1 thread, 2 runtimes | `AccessScopeBorrowed` violated |
| `access_values` | 2 runtimes, 3 allocations in 8 addresses, `bool` and `u16`, lengths 0, 2 and 5; one reference or iterator and one value at a time | bounds, mutability and validity hold of what was checked and is protected |
| `access_copies` | 1 runtime, `bool` and `u8`, one reference, value and copy at a time, strings | `CopiesValid` and `ValidatedIsValid` hold |
| `access_shared` | 1 runtime, 2 allocations | `ValidatedNeverChanges` violated |
| `access_wrap` | 1 runtime, 2 allocations, length 5 | `AllRefsInBounds` violated |

Bounds. `MaxId` 3 lets three threads race for every id and all of them meet
the overflow. `MaxFrames` bounds the frames that exist at once, `PoolSize` the
trampolines (32 in the code). Six frames hold the shortest interesting cases
with room to spare: a registration, an allocation, a second registration,
`execute`, a callback and one more call inside it; or a callback that executes
foreign code again. A pool of 3 is filled by three of six frames. With two
runtimes five frames are enough for a registration of each, `execute`, a
callback and a call inside it. Addresses are chosen deterministically (any
unused address is as good as another) but never the target of a dangling
pointer, so that such a pointer does not come to look valid again.

The stack allocator runs near the start of the address space, so that the
largest size wraps around and lands above the stack. Sizes and frames that are
no multiple of any alignment make rounding matter, and five frames are enough
for two allocations with functions between, around and inside them that all use
the register.

The foreign memory has two mutable bytes and next to them an immutable one, the
last byte but one of the address space, so that a range can run from one
allocation into the next, past both, and past `usize::MAX`. The second runtime
tracks the immutable byte as well, as it would a Rust value given to both, and
its scopes must be refused for all else. Length 5 of a two-byte type is the
shortest product that wraps around at 8 addresses to a length that an allocation
has. Length 0 gives references that lie anywhere in or at the end of an
allocation. A byte is 0 or 2, valid and invalid as a `bool`; `u16` overlaps two
`bool`s.

One reference, one value and one copy at a time are enough for these properties:
no action uses two of a kind, every property is about one reference, one value or
one copy, and what is not part of it only restricts what can be done (other
values, by their borrows) or nothing at all. A reference can be used and replaced
by another in one step, so that a value lives on while the program upgrades,
validates and writes through others. As a check of that argument, two values at
a time, with the two allocations of one runtime and lengths 2 and 5, pass as
well (225,606 states).

No liveness is stated for the runtime: closures and foreign code need not
return, and a call of the runtime ends when they do. No run disables the
deadlock check; a stopped process stutters in `Stopped`.

What the violations show (details under "findings" in `PROJECT.json`):

* `unwind_head`: after a panic unwinds through `setup_callback`, the head
  points to a frame that is gone, in spite of "We'll put it back".
* `threads`: with two threads the head that a returning `setup_callback` takes
  out is not always "local to our stack".
* `foreign_brand`: the access scope that a callback gets need not be the one
  "borrowed by the trampoline", if another runtime registered last.
* `access_shared`: `write_from_iter` takes `&AccessScope` where its safety
  comment relies on `&mut` (`src/src/types.rs:734-737`), so that the memory of a
  value that the program holds changes when a slice is written over it.
* `access_wrap`: the byte length that `upgrade_slice` checks is not "exactly" the
  size of the slice (`src/src/types.rs:214-219`) when the product wraps around,
  and the slice is longer than its allocation.

Four more counterexamples can be seen by changing a configuration:

* In `MCMockRt_two.cfg`, `HeapMayFail = TRUE`: `NoDanglingCall` fails, for
  `HeapAllocator::with_alloc` hands on the null pointer that `alloc` returns when
  memory is exhausted (`src/src/rt/mock/heap_alloc.rs:16`). It is tracked as an
  allocation, written to, and given to `dealloc`.
* In `MCMockRt_unwind_head.cfg`, `HeapFreedWithFrame` in place of
  `HeadIsInnermostSetup`: a panic that unwinds through the heap allocator leaks
  its block, where the comment at `src/src/rt/mock/heap_alloc.rs:13-15` promises
  "similar semantics by freeing allocations once we pop the current stack frame".
* In `MCAccess_wrap.cfg`, `OverflowChecks = TRUE` and `StackWords <- TwoFive`:
  `AllRefsInBounds` fails all the same, for `as_array` reads N pointers where
  there is one (`src/src/types.rs:1147-1156`).
* In `MCAccess_values.cfg`, `OverflowChecks = TRUE`, and in `MutRefsMutable` the
  antecedent `r.mut` in place of `r.checked = "write"`: `EFVal::as_mut` makes an
  `EFMutRef` of the value of an immutable reference (`src/src/types.rs:1123`),
  which need not be "contained in mutably-accessible memory" (lines 411-412).

## 4. Proofs

TLAPS checks these for every value of the constants.

`BrandingProofs`: for any set of threads and any `MaxId`, type correctness,
`UniqueBrands`, `IdsGrow`, `NoIdLost`, `CounterNeverWraps` and that `Branding`
implements `IdSource`. The inductive invariant adds `IdsBelow`: every id handed
out is below the counter and below what its owner has seen of it. That makes
the id that the next successful exchange hands out new, and larger than
everything its thread holds.

The theorems about callbacks are stated for programs in which callbacks stay on
one thread: `CallbacksOn(h)` says that no other thread than `h` has registered
one that is in force or is running one. All threads may allocate, write and
execute foreign code, and no other restriction is placed on the number of
threads. A program with one thread satisfies it (`SingleCalls`), and the run
`threads` shows that it cannot be dropped. It is a hypothesis on the behaviour
(`Spec /\ []CallbacksOn(h) => ...`), for nothing in the code enforces it.

`MockRtProofs`: the steps are first reduced to three shapes (`NextShape`):
a push of one of five frames, a return, or unwinding. The invariants then only
meet `Push` and `Pop`.

* `StackInv`: every live frame is at exactly one place of one stack. With the
  types it is inductive by itself; `TypeCorrect` has no assumption.
* `Nested`: all pointers in a frame (scopes, captured scopes, chain nodes, a
  callback's registration) lead to itself or to frames below it on its stack.
  It gives `ScopesStayLive`. The one pointer not
  passed down the stack is the head, from which a callback's chain starts. A
  live head is a registration, and so is every saved head that is live
  (`SetupHeads`), hence it is on the stack of the thread that has them all.
  Panics may unwind: a trampoline call through a stale head is the end of the
  run, not of the invariant.
* `Heads(t)`: the head is the innermost registration of thread `t`, and the
  head saved by each registration is the innermost one below it. The second
  part is what makes the first survive a return. It gives `HeadCorrect` for one
  thread, and `OwnHeadReplaced` for any number of threads, if panics abort
  (`~ Unwinds`); the runs `threads` and `unwind_head` show that neither
  assumption can be dropped. With `Nested` it gives `CallsDoNotDangle`, which
  also assumes that no allocator may fail: `AllocatorsMayFail` says that the
  heap may and that some runtime uses it. Then no frame's memory is null
  (`MemoryProvided`), so that nothing is written to or freed at a null pointer.
* `HeapInv`: the frame of every heap allocation is an allocating call, and its
  block is allocated. It gives `HeapOwned` with no assumption, and `HeapFreed`
  if panics abort (a panic that unwinds leaks the block, see section 3).

`MockRtScopeProofs`:

* `Branded`: a scope of runtime `r` is a node of `r`, all nodes of a chain have
  the same brand, and what is borrowed is tracked as immutable. With `Nested` it
  gives `UpgradesWithinRuntime`, for any number of runtimes, also if panics
  unwind. A callback's scope takes its brand from the head, hence a chain never
  changes its brand although all runtimes share one head.

`MockRtIdProofs`:

* `Numbered`: the chain of every scope in use leads first to the innermost
  registration of its stack and to exactly the allocations that are `Open`, and
  a registration's id is the number of registrations below it. It needs both
  halves: the next id is one more than that of the first registration on the
  chain, which is a count only if that registration is the innermost. With
  `Heads`, for a callback's chain begins at the head, it gives `IdsDense` and
  `UpgradesInWindow`, if panics abort and there is one runtime: ids are counted
  along the chains of each runtime, and the registrations of two runtimes are
  not numbered in common. They are not even dense for each runtime by itself: a
  callback that gets its scope from another runtime's registration counts from
  that one.

`MockRtRegistryProofs`: the mapping is defined by counting positions, so that no
induction over the stack is needed.

* `Ranked`: every number up to the size of a set of positions is the rank of
  one of them, so that `Nth` is well defined. `Counted`: this holds of the
  positions the mapping shows, and the registrations it shows are as many as
  there are on the stack. Both are carried along `Push` and `Pop` in `RegInv`,
  for pushing adds the largest position or none.
* With `IdsDense`, the number of registrations is the id the next one gets; with
  `Nested`, a callback finds the registration with the id called on its own
  stack.
  So every push maps to `Register`, `CallBack` or a stutter, every return to
  `Leave` or a stutter, and the end of the process to `Abort` (`RegistryStep`);
  `StatusShape` says that a step that ends the process leaves the stacks alone.
  This gives `RefinesRegistry` and, for one thread, `SingleThreadRefines`. They
  assume one runtime and that panics abort, for the registry promises dense ids
  and innermost first, and both fail otherwise.

`StackAllocatorProofs`, for any width of an address, stack, layouts, frame sizes
and depth:

* `AllocatedFits`: if the pointer is on the stack and below the caller, the
  subtraction has not wrapped around, for a wrapped pointer lies above the
  caller. This needs that size and alignment together are less than the address
  space, which `Layout` guarantees; and one of the alignment asked for and
  `MinAlign` divides the other, as powers of two do.
* `StackInv`: each frame begins where the one below it ends, and `RegisterAt(i)`,
  the value that the register will have when the frames above `i` have returned,
  is the old stack pointer of `i` if `i` is an allocation. The values saved in
  the frames are what makes it inductive. It gives `TypeCorrect`,
  `StackPointerKept`, `AlwaysAligned` and `NeverOverlapping`, all about
  allocations that fit.

`AccessProofs`, for any allocations, types, sizes, alignments, bytes and bounds,
with and without overflow checks, and with every method of the safe API:

* Arithmetic: a reference lies within an allocation exactly when its address
  and its end do (`WithinRange`); elements keep the alignment
  (`ElementAligned`) and the range (`GetGood`). The theorem `UpgradesGood` says
  what an upgrade returns, whatever pointer and length it is given: it is in
  bounds, and mutable only if its allocation is, unless upgrade checks are
  disabled, the brand declares all pointers valid, or the elements are more bytes
  than `usize` can say.
* `BoundsInv`: types, and every reference, held value and iterator is *good*: if
  it is checked, it is aligned and within one allocation, which is mutable if it
  was checked for writing. One allocation for both is what makes the invariant
  inductive, for an empty slice can lie within two neighbours. It gives
  `TypeCorrect`, `ReferencesInBounds`, `MutableReferencesMutable` and
  `ImmutableNeverWritten`, none of which has a hypothesis: what the code does not
  promise is in the field `checked`, not in an assumption about the program.
* `NextKeeps`: a step changes the memory of a value only if the value has been
  dropped, or is not protected after the step. Under `&mut AccessScope` of brand
  `q` no protected value borrows `q`, and memory that was checked for writing
  under `q` meets no checked value of another brand, for mutable allocations
  overlap no other; all other writes mark the values they overlap. So
  `ValuesUnchanged`, with no hypothesis, and `ValuesStayValid`, if validation is
  not disabled.
* `CopiesStayValid` needs validation not to be disabled, and nothing of the
  writes.

Only model-checked: liveness of `new`, for liveness under fairness is beyond the
prover.

## 5. Plan

In order of importance; all steps are done.

1. `IdSource`, `Branding`, `BrandingProofs`.
2. `MockRt` with its registry refinement and `MockRtProofs`.
3. `Upgrade`, with the lemmas about its arithmetic in `AccessProofs`.
4. `Access` and `AccessProofs`.
5. `MockRtScopeProofs` and `MockRtIdProofs`.
6. `StackAllocator`: the stack pointer arithmetic of the assembly in
   `src/rt/mock/stack_alloc.rs`, alignment and non-overlap, proved for every
   size and alignment.
7. The theorems about callbacks for programs in which only one thread uses them
   while others allocate and execute; `MockRtRegistryProofs`.

Not planned: lifetime branding (no state; decided by the borrow checker), the
symbol table of the mock runtime (constant functions), the ABI definitions
(constants for macros) and the ABI runtime traits (no bodies in the
repository).
