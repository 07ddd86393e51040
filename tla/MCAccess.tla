------------------------------ MODULE MCAccess ------------------------------
(* Instances of foreign memory for TLC: eight addresses. *)
EXTENDS Access

CONSTANTS a, b, bool, u16, u8

MCBrands == {a, b}
OneBrand == {a}

(* Runtime a: two mutable bytes, next to them an immutable one, the last     *)
(* byte but one of the address space.                                        *)
MCAllocs == {[brand |-> a, ptr |-> 4, len |-> 2, mutable |-> TRUE],
             [brand |-> a, ptr |-> 6, len |-> 1, mutable |-> FALSE]}

(* Runtime b tracks the same Rust value as immutable memory. *)
SharedAllocs == MCAllocs \union {[brand |-> b, ptr |-> 6, len |-> 1, mutable |-> FALSE]}

BoolU16 == {bool, u16}
BoolU8 == {bool, u8}
MCSize == [e \in Elems |-> IF e = u16 THEN 2 ELSE 1]
MCValidBytes == [e \in Elems |-> IF e = bool THEN ValidBool ELSE UnconditionallyValid(Size[e])]

(* A valid bool, and a byte that is neither a bool nor UTF-8 by itself. *)
MCByte == {0, 2}
MCUtf8 == UNION {[0 .. n - 1 -> {0}] : n \in 0 .. 2}

NoBrand == {}
Two == {2}
TwoFive == {2, 5}
ZeroTwoFive == {0, 2, 5}
NoWord == {}
Five == {5}
=============================================================================
