------------------------------ MODULE Branding ------------------------------
(***************************************************************************)
(* EFRuntimeBranding (src/branding.rs): runtime ids drawn by any number of *)
(* threads from one atomic counter, with fetch_update under relaxed        *)
(* ordering.  fetch_update is a load followed by a loop of weak            *)
(* compare-and-exchange; a relaxed load may return any value of the        *)
(* counter at least as new as the last one the thread has seen.            *)
(***************************************************************************)
EXTENDS Naturals, Sequences

CONSTANTS Procs,   \* threads that call EFRuntimeBranding::new
          MaxId    \* largest value of the counter (u64::MAX in the code)

ASSUME MaxIdAssumption == MaxId \in Nat

VARIABLES ctr,     \* EF_RUNTIME_BRANDING_CTR
          pc,      \* pc[p]: "idle", in the "cas" loop, or "panicked"
          prev,    \* prev[p]: newest counter value p has seen (prev_id in the loop)
          brands   \* brands[p]: ids of the brandings p has received, in order

vars == <<ctr, pc, prev, brands>>

Init == /\ ctr = 0
        /\ pc = [p \in Procs |-> "idle"]
        /\ prev = [p \in Procs |-> 0]
        /\ brands = [p \in Procs |-> <<>>]

(* Mutant of HasNext: the counter is not checked. *)
HasNextUnchecked(id) == TRUE

(* |prev_id| prev_id.checked_add(1) is Some. *)
HasNext(id) == id < MaxId

(* self.load(Relaxed), at the start of fetch_update. *)
Load(p) == /\ pc[p] # "cas"
           /\ \E v \in prev[p] .. ctr : prev' = [prev EXCEPT ![p] = v]
           /\ pc' = [pc EXCEPT ![p] = "cas"]
           /\ UNCHANGED <<ctr, brands>>

(* Mutant of CasSucceeds: a store instead of the compare-and-exchange. *)
StoreSucceeds(p) == /\ pc[p] = "cas"
                    /\ HasNext(prev[p])
                    /\ ctr' = prev[p] + 1
                    /\ prev' = [prev EXCEPT ![p] = prev[p] + 1]
                    /\ brands' = [brands EXCEPT ![p] = Append(@, prev[p])]
                    /\ pc' = [pc EXCEPT ![p] = "idle"]

(* Mutant of CasSucceeds: the addition wraps, as fetch_add does. *)
WrappingCasSucceeds(p) == /\ pc[p] = "cas"
                          /\ ctr = prev[p]
                          /\ ctr' = (prev[p] + 1) % (MaxId + 1)
                          /\ prev' = [prev EXCEPT ![p] = ctr']
                          /\ brands' = [brands EXCEPT ![p] = Append(@, prev[p])]
                          /\ pc' = [pc EXCEPT ![p] = "idle"]

(* Mutant of CasSucceeds: new() returns the new value of the counter. *)
CasReturnsNext(p) == /\ pc[p] = "cas"
                     /\ HasNext(prev[p])
                     /\ ctr = prev[p]
                     /\ ctr' = prev[p] + 1
                     /\ prev' = [prev EXCEPT ![p] = prev[p] + 1]
                     /\ brands' = [brands EXCEPT ![p] = Append(@, prev[p] + 1)]
                     /\ pc' = [pc EXCEPT ![p] = "idle"]

(* compare_exchange_weak succeeds and new() returns the previous value. *)
CasSucceeds(p) == /\ pc[p] = "cas"
                  /\ HasNext(prev[p])
                  /\ ctr = prev[p]
                  /\ ctr' = prev[p] + 1
                  /\ prev' = [prev EXCEPT ![p] = prev[p] + 1]
                  /\ brands' = [brands EXCEPT ![p] = Append(@, prev[p])]
                  /\ pc' = [pc EXCEPT ![p] = "idle"]

(* Mutant of CasFails: the loop does not take over the value it gets. *)
CasFailsKeepsPrev(p) == /\ pc[p] = "cas"
                        /\ HasNext(prev[p])
                        /\ UNCHANGED vars

(* compare_exchange_weak fails, spuriously or because another thread was   *)
(* faster, and hands back a value of the counter.                          *)
CasFails(p) == /\ pc[p] = "cas"
               /\ HasNext(prev[p])
               /\ \E v \in prev[p] .. ctr : prev' = [prev EXCEPT ![p] = v]
               /\ UNCHANGED <<ctr, pc, brands>>

(* checked_add overflows: fetch_update returns Err and expect panics. *)
Overflow(p) == /\ pc[p] = "cas"
               /\ ~ HasNext(prev[p])
               /\ pc' = [pc EXCEPT ![p] = "panicked"]
               /\ UNCHANGED <<ctr, prev, brands>>

Next == \E p \in Procs : \/ Load(p)
                         \/ CasSucceeds(p)
                         \/ CasFails(p)
                         \/ Overflow(p)

Spec == Init /\ [][Next]_vars

(***************************************************************************)
(* Once a thread is inside new() it keeps taking steps; a failing          *)
(* compare-and-exchange does not keep returning stale values for ever      *)
(* (stores become visible in finite time), and it does not fail            *)
(* spuriously for ever on an up-to-date value.  Nobody has to call new().  *)
(* Weak fairness is enough since the counter is bounded: a thread can lose *)
(* the race only finitely often.                                           *)
(***************************************************************************)
CasCatchesUp(p) == CasFails(p) /\ prev'[p] = ctr

Fairness == \A p \in Procs : /\ WF_vars(CasSucceeds(p))
                             /\ WF_vars(CasCatchesUp(p))
                             /\ WF_vars(Overflow(p))

FairSpec == Spec /\ Fairness

-----------------------------------------------------------------------------

(* EFID::compare, on the imprints of two runtime brandings. *)
Compare(a, b) == a = b

(* Types of the variables; a thread has never seen more than the counter. *)
TypeOK == /\ ctr \in 0 .. MaxId
          /\ pc \in [Procs -> {"idle", "cas", "panicked"}]
          /\ prev \in [Procs -> 0 .. ctr]
          /\ brands \in [Procs -> Seq(0 .. MaxId)]

(* Two brandings compare equal only if they are the same branding, however *)
(* many threads create them at once: every id check of the runtimes        *)
(* (self.id_imprint != alloc_scope.id_imprint()) rests on this.            *)
UniqueBrands ==
    \A p, q \in Procs :
        \A i \in DOMAIN brands[p], j \in DOMAIN brands[q] :
            Compare(brands[p][i], brands[q][j]) => p = q /\ i = j

(* A thread's own ids keep growing: stale relaxed loads never make new()   *)
(* hand a thread an id older than one it already holds.                    *)
IdsGrow == \A p \in Procs : \A i, j \in DOMAIN brands[p] :
               i < j => brands[p][i] < brands[p][j]

(* Every counter value below the current one was handed out to somebody:   *)
(* lost races and spurious failures waste no id.                           *)
NoIdLost == \A id \in 0 .. ctr - 1 :
               \E p \in Procs : \E i \in DOMAIN brands[p] : brands[p][i] = id

(* The counter never goes back, so no id is issued again after overflow.   *)
CounterNeverWraps == [][ctr' >= ctr]_vars

(* A call of new() returns a branding or panics. *)
NewReturns == \A p \in Procs : pc[p] = "cas" ~> pc[p] # "cas"

(* Branding implements the abstract source of fresh ids; u64::MAX itself   *)
(* is never issued.                                                        *)
Source == INSTANCE IdSource WITH Ids <- 0 .. MaxId - 1
ImplementsIdSource == Source!Spec
=============================================================================
