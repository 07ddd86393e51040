--------------------------- MODULE StackAllocator ---------------------------
(***************************************************************************)
(* The stack of a thread that uses StackAllocator::with_alloc: the         *)
(* assembly of stack_alloc moves the stack pointer down to make room, and  *)
(* finds the old one in a register when its callback has returned.  The    *)
(* versions for AMD64 (rsp, r12) and RISC-V (sp, s2) do the same.          *)
(*                                                                         *)
(* Functions run by the callback, foreign ones included, follow the        *)
(* calling convention: one that uses the register saves it and puts it     *)
(* back.                                                                   *)
(***************************************************************************)
EXTENDS Integers, Sequences, SequencesExt

CONSTANTS
    MaxUsize,        \* usize::MAX
    StackTop,        \* the stack pointer before the first call
    StackLimit,      \* the lowest address of the stack
    MinAlign,        \* 16 in the code
    Layouts,         \* core::alloc::Layout of what is allocated
    FrameSizes,      \* bytes of a function's return address and locals
    Scratch,         \* what functions compute in the register
    MaxFrames        \* bound of the model: functions running at a time

USize == 0 .. MaxUsize

IsMultiple(x, a) == \E k \in 0 .. x : x = k * a

(* core::cmp::max(16, align) *)
AlignOf(l) == IF l.align > MinAlign THEN l.align ELSE MinAlign

(* Alignments are powers of two, so that one divides the other; a Layout   *)
(* is smaller than half of the address space, alignment included.          *)
ASSUME StackAssumption ==
    /\ MaxUsize \in Nat
    /\ StackLimit \in Nat
    /\ StackTop \in StackLimit .. MaxUsize
    /\ MinAlign \in Nat \ {0}
    /\ Layouts \subseteq [size : Nat, align : Nat \ {0}]
    /\ \A l \in Layouts : IsMultiple(l.align, MinAlign) \/ IsMultiple(MinAlign, l.align)
    /\ \A l \in Layouts : l.size + l.align + MinAlign =< MaxUsize
    /\ FrameSizes \subseteq Nat \ {0}
    /\ Scratch \subseteq USize
    /\ MaxFrames \in Nat

(***************************************************************************)
(* A running function has its locals in size bytes at low, among them the  *)
(* value that the register had when it was called.  The code kind stands   *)
(* for any function, the alloc kind for with_alloc and its stack_alloc,    *)
(* which also own the bytes at ptr, where the stack pointer is meanwhile.  *)
(***************************************************************************)
Frame == [kind : {"code", "alloc"}, low : USize, size : FrameSizes, saved : USize,
          ptr : USize, bytes : Nat, align : Nat \ {0}]

VARIABLES
    sp,              \* the stack pointer
    reg,             \* the callee-saved register r12 or s2
    frames,          \* functions running, innermost last
    status           \* "run", or why the thread has stopped

vars == <<sp, reg, frames, status>>

Init ==
    /\ sp = StackTop
    /\ reg \in Scratch
    /\ frames = <<>>
    /\ status = "run"

Running == status = "run"

Calling == Running /\ Len(frames) < MaxFrames

-----------------------------------------------------------------------------
(* Functions *)

(* A function is called; it may use the register. *)
Call(n, v) ==
    /\ Calling
    /\ sp - n >= StackLimit
    /\ sp' = sp - n
    /\ reg' = v
    /\ frames' = Append(frames, [kind |-> "code", low |-> sp - n, size |-> n, saved |-> reg,
                                 ptr |-> sp - n, bytes |-> 0, align |-> 1])
    /\ UNCHANGED status

(* A function returns, or is left by a panic that is caught further out. *)
Return ==
    /\ Running
    /\ frames # <<>>
    /\ Last(frames).kind = "code"
    /\ sp' = sp + Last(frames).size
    /\ reg' = Last(frames).saved
    /\ frames' = Front(frames)
    /\ UNCHANGED status

(* The guard page stops a function that has no room for its locals. *)
CallOverflows(n) ==
    /\ Calling
    /\ sp - n < StackLimit
    /\ status' = "overflow"
    /\ UNCHANGED <<sp, reg, frames>>

-----------------------------------------------------------------------------
(* with_alloc and stack_alloc *)

(* sp AND NOT (a - 1), for a power of two a *)
AlignDown(x, a) == (x \div a) * a

(* Mutant of Allocated: without the max. *)
AllocatedBadly(low, l) == AlignDown((low - l.size) % (MaxUsize + 1), l.align)

(* Mutant of Allocated: aligned upward. *)
AllocatedUpward(low, l) ==
    AlignDown((low - l.size + AlignOf(l) - 1) % (MaxUsize + 1), AlignOf(l))

(* sub rsp, size; and rsp, align_bitmask *)
Allocated(low, l) == AlignDown((low - l.size) % (MaxUsize + 1), AlignOf(l))

(* Nothing checks that the pointer is still on the stack and below the     *)
(* function that asks for the memory.                                      *)
OnStack(low, ptr) == StackLimit =< ptr /\ ptr =< low

(* mov r12, rsp; ...; call callback *)
StackAlloc(n, l) ==
    LET low == sp - n
        ptr == Allocated(low, l)
    IN  /\ Calling
        /\ low >= StackLimit
        /\ OnStack(low, ptr)
        /\ sp' = ptr
        /\ reg' = low
        /\ frames' = Append(frames, [kind |-> "alloc", low |-> low, size |-> n, saved |-> reg,
                                     ptr |-> ptr, bytes |-> l.size, align |-> l.align])
        /\ UNCHANGED status

(* The callback is called with a stack pointer off the stack: from here on *)
(* anything may happen.                                                    *)
StackAllocOverflows(n, l) ==
    /\ Calling
    /\ sp - n >= StackLimit
    /\ ~ OnStack(sp - n, Allocated(sp - n, l))
    /\ status' = "overflow"
    /\ UNCHANGED <<sp, reg, frames>>

(* Mutant of StackAllocReturn: the compiler is not told that the register  *)
(* is clobbered and does not save it.                                      *)
ReturnClobbers ==
    /\ Running
    /\ frames # <<>>
    /\ Last(frames).kind = "alloc"
    /\ sp' = reg + Last(frames).size
    /\ reg' = reg
    /\ frames' = Front(frames)
    /\ UNCHANGED status

(* Mutant of StackAllocReturn: the old stack pointer is moved as well. *)
ReturnMovesTwice ==
    /\ Running
    /\ frames # <<>>
    /\ Last(frames).kind = "alloc"
    /\ sp' = reg + Last(frames).bytes + Last(frames).size
    /\ reg' = Last(frames).saved
    /\ frames' = Front(frames)
    /\ UNCHANGED status

(* mov rsp, r12, and the function puts r12 back as it returns. *)
StackAllocReturn ==
    /\ Running
    /\ frames # <<>>
    /\ Last(frames).kind = "alloc"
    /\ sp' = reg + Last(frames).size
    /\ reg' = Last(frames).saved
    /\ frames' = Front(frames)
    /\ UNCHANGED status

(* A panic reaches the callback of stack_alloc, an extern "C" function. *)
Abort ==
    /\ Running
    /\ \E i \in 1 .. Len(frames) : frames[i].kind = "alloc"
    /\ status' = "abort"
    /\ UNCHANGED <<sp, reg, frames>>

-----------------------------------------------------------------------------
Stopped == ~ Running /\ UNCHANGED vars

Next ==
    \/ \E n \in FrameSizes :
          \/ \E v \in Scratch \union {reg} : Call(n, v)
          \/ CallOverflows(n)
          \/ \E l \in Layouts : StackAlloc(n, l) \/ StackAllocOverflows(n, l)
    \/ Return
    \/ StackAllocReturn
    \/ Abort
    \/ Stopped

Spec == Init /\ [][Next]_vars

-----------------------------------------------------------------------------
(* Properties *)

TypeOK ==
    /\ sp \in StackLimit .. StackTop
    /\ reg \in USize
    /\ frames \in Seq(Frame)
    /\ status \in {"run", "overflow", "abort"}

(* Whichever function runs last has the stack pointer at its own frame,    *)
(* and a stack_alloc whose callback has returned finds its old stack       *)
(* pointer in the register, whatever functions used it in between: their   *)
(* own stack_allocs, too, nested to any depth.                             *)
StackPointerCorrect ==
    IF frames = <<>>
      THEN sp = StackTop
      ELSE /\ sp = Last(frames).ptr
           /\ Last(frames).kind = "alloc" => reg = Last(frames).low

(* Allocations have the alignment asked for, and the stack pointer of the  *)
(* callback that of the calling convention.                                *)
AllocationsAligned ==
    \A i \in DOMAIN frames : frames[i].kind = "alloc" =>
        /\ IsMultiple(frames[i].ptr, frames[i].align)
        /\ IsMultiple(frames[i].ptr, MinAlign)

Locals(f) == f.low .. f.low + f.size - 1
Memory(f) == f.ptr .. f.ptr + f.bytes - 1

(* No allocation overlaps another one that is in use or the locals of a    *)
(* running function, and none is below the stack pointer, where the next   *)
(* call would overwrite it, although sizes and alignments are any.         *)
MemoryDisjoint ==
    \A i \in DOMAIN frames :
        /\ Locals(frames[i]) \union Memory(frames[i]) \subseteq sp .. StackTop - 1
        /\ Locals(frames[i]) \cap Memory(frames[i]) = {}
        /\ \A j \in DOMAIN frames \ {i} :
              (Locals(frames[i]) \union Memory(frames[i]))
                \cap (Locals(frames[j]) \union Memory(frames[j])) = {}
=============================================================================
