-------------------------- MODULE MCStackAllocator --------------------------
(* Instances of the stack allocator for TLC. *)
EXTENDS StackAllocator

(* Smaller and larger alignments than MinAlign, sizes that are multiples of *)
(* them and not, none, and one that passes the start of the address space.  *)
SomeLayouts == {[size |-> 0, align |-> 1], [size |-> 3, align |-> 2],
                [size |-> 5, align |-> 8], [size |-> 31, align |-> 8]}
SomeSizes == {2, 3}
=============================================================================
