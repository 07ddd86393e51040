-------------------------- MODULE CallbackRegistry --------------------------
(***************************************************************************)
(* What setup_callback and its trampolines promise to code that uses one   *)
(* runtime: registrations and calls nest like the stack they run on, the   *)
(* registrations that are in force have the ids 0, 1, 2, ... in the order  *)
(* they were made, and calling trampoline id runs registration id, also    *)
(* from within callbacks; an id nobody has registered ends the process.    *)
(***************************************************************************)
EXTENDS Naturals, FiniteSets, SequencesExt

VARIABLES nest,      \* registrations in force and calls running, innermost last
          aborted    \* the process has ended

Registration(id) == [kind |-> "registration", id |-> id]
Call(id) == [kind |-> "call", trampoline |-> id, runs |-> id]

(* Number of registrations in force. *)
InForce == Cardinality({i \in DOMAIN nest : nest[i].kind = "registration"})

Init == nest = <<>> /\ aborted = FALSE

Register == nest' = Append(nest, Registration(InForce)) /\ UNCHANGED aborted

CallBack == \E id \in 0 .. InForce - 1 : nest' = Append(nest, Call(id)) /\ UNCHANGED aborted

(* Innermost first: a registration or call ends before those around it. *)
Leave == nest # <<>> /\ nest' = Front(nest) /\ UNCHANGED aborted

(* A call of an id not in force, or a panic. *)
Abort == aborted' = TRUE /\ UNCHANGED nest

Next == ~ aborted /\ (Register \/ CallBack \/ Leave \/ Abort)

Spec == Init /\ [][Next]_<<nest, aborted>>
=============================================================================
