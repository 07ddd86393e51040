--------------------------- MODULE MockRtRegistry ---------------------------
(***************************************************************************)
(* The mock runtime, when one thread uses the callbacks of one runtime,    *)
(* implements the callback registry.                                       *)
(***************************************************************************)
EXTENDS MockRt

(* The thread that registers callbacks and runs them. *)
CallbackThread == CHOOSE t \in Threads : TRUE

(* Positions on the stack of the registrations and the callbacks. *)
Shown == {i \in DOMAIN stack[CallbackThread] :
             frame[stack[CallbackThread][i]].kind \in {"setup", "callback"}}

(* How many numbers of S are at most i, and the k-th smallest of them. *)
Rank(S, i) == Cardinality({j \in S : j =< i})
Nth(S, k) == CHOOSE i \in S : Rank(S, i) = k

(* A callback runs the registration that its context pointer belongs to,   *)
(* which need not be the one whose trampoline was called.                  *)
Entry(f) == IF f.kind = "setup"
              THEN [kind |-> "registration", id |-> f.id]
              ELSE [kind |-> "call", trampoline |-> f.id, runs |-> frame[f.ref].id]

Nest == [k \in 1 .. Cardinality(Shown) |-> Entry(frame[stack[CallbackThread][Nth(Shown, k)]])]

Registry == INSTANCE CallbackRegistry WITH nest <- Nest, aborted <- status = "abort"

(* Registering, calling and returning work as on the abstract registry,    *)
(* whatever allocations, foreign calls and callbacks lie in between.       *)
ImplementsCallbackRegistry == Registry!Spec
=============================================================================
