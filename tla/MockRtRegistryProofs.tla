------------------------ MODULE MockRtRegistryProofs ------------------------
(***************************************************************************)
(* The mock runtime implements the callback registry: every step of the    *)
(* runtime registers, calls, returns, aborts or shows nothing.             *)
(***************************************************************************)
EXTENDS MockRtRegistry, MockRtIdProofs

-----------------------------------------------------------------------------
(* Ranks *)

(* Every place from the first to the last is taken. *)
Ranked(S) == \A k \in 1 .. Cardinality(S) : \E i \in S : Rank(S, i) = k

LEMMA RankType ==
  ASSUME NEW n \in Nat, NEW S \in SUBSET (1 .. n)
  PROVE  /\ IsFiniteSet(S) /\ Cardinality(S) \in Nat
         /\ \A i \in S : Rank(S, i) \in 1 .. Cardinality(S)
<1>1. IsFiniteSet(1 .. n)
  BY FS_Interval
<1>2. IsFiniteSet(S) /\ Cardinality(S) \in Nat
  BY <1>1, FS_Subset, FS_CardinalityType
<1>3. ASSUME NEW i \in S PROVE Rank(S, i) \in 1 .. Cardinality(S)
  <2> DEFINE U == {j \in S : j =< i}
  <2>1. U \in SUBSET S /\ i \in U
    OBVIOUS
  <2>2. IsFiniteSet(U) /\ Cardinality(U) =< Cardinality(S) /\ Cardinality(U) \in Nat
    BY <1>2, <2>1, FS_Subset, FS_CardinalityType
  <2>3. Cardinality(U) # 0
    BY <2>1, <2>2, FS_EmptySet
  <2>4. QED
    BY <1>2, <2>2, <2>3 DEF Rank
<1>4. QED
  BY <1>2, <1>3

(* No two numbers have the same rank. *)
LEMMA RankInjective ==
  ASSUME NEW n \in Nat, NEW S \in SUBSET (1 .. n), NEW i \in S, NEW j \in S, i < j
  PROVE  Rank(S, i) # Rank(S, j)
<1> DEFINE U == {x \in S : x =< i}
           V == {x \in S : x =< j}
<1>1. IsFiniteSet(S)
  BY RankType
<1>2. U \in SUBSET V /\ V \in SUBSET S /\ j \in V /\ j \notin U
  <2>1. \A x \in S : x \in Int
    OBVIOUS
  <2>2. \A x \in S : x =< i => x =< j
    BY <2>1
  <2>3. j =< j /\ ~ (j =< i)
    BY <2>1
  <2>4. QED
    BY <2>2, <2>3
<1> HIDE DEF U, V
<1>3. IsFiniteSet(V)
  BY <1>2, <1>1, FS_Subset
<1>4. U # V
  BY <1>2
<1>5. Cardinality(U) # Cardinality(V)
  BY <1>2, <1>3, <1>4, FS_Subset
<1>6. QED
  BY <1>5 DEF Rank, U, V

LEMMA NthOfRank ==
  ASSUME NEW n \in Nat, NEW S \in SUBSET (1 .. n), NEW i \in S
  PROVE  Nth(S, Rank(S, i)) = i
<1>1. \A j \in S : Rank(S, j) = Rank(S, i) => j = i
  BY RankInjective
<1>2. QED
  BY <1>1 DEF Nth

(* A larger number in a set comes last and leaves the ranks of the others. *)
LEMMA RankAbove ==
  ASSUME NEW n \in Nat, NEW S \in SUBSET (1 .. n)
  PROVE  LET T == S \union {n + 1}
         IN  /\ T \in SUBSET (1 .. n + 1)
             /\ Cardinality(T) = Cardinality(S) + 1
             /\ \A i \in S : Rank(T, i) = Rank(S, i)
             /\ Rank(T, n + 1) = Cardinality(T)
<1> DEFINE T == S \union {n + 1}
<1>1. n + 1 \notin S /\ \A i \in S : i =< n + 1 /\ ~ (n + 1 =< i) /\ i \in 1 .. n + 1
  OBVIOUS
<1>2. Cardinality(T) = Cardinality(S) + 1
  BY <1>1, RankType, FS_AddElement
<1>3. ASSUME NEW i \in S PROVE Rank(T, i) = Rank(S, i)
  <2>1. {j \in T : j =< i} = {j \in S : j =< i}
    BY <1>1
  <2>2. QED
    BY <2>1 DEF Rank
<1>4. Rank(T, n + 1) = Cardinality(T)
  <2>1. n + 1 =< n + 1 /\ \A j \in S : j =< n + 1
    BY <1>1
  <2>2. \A j \in T : j =< n + 1
    BY <2>1
  <2>3. {j \in T : j =< n + 1} = T
    BY <2>2
  <2>4. QED
    BY <2>3 DEF Rank
<1>5. T \in SUBSET (1 .. n + 1)
  BY <1>1
<1>6. QED
  BY <1>2, <1>3, <1>4, <1>5

LEMMA RankedAbove ==
  ASSUME NEW n \in Nat, NEW S \in SUBSET (1 .. n)
  PROVE  Ranked(S \union {n + 1}) <=> Ranked(S)
<1> DEFINE T == S \union {n + 1}
           c == Cardinality(S)
<1>1. /\ Cardinality(T) = c + 1
      /\ \A i \in S : Rank(T, i) = Rank(S, i)
      /\ Rank(T, n + 1) = c + 1
  BY RankAbove
<1>2. c \in Nat
  BY RankType
<1>3. ASSUME Ranked(T), NEW k \in 1 .. c PROVE \E i \in S : Rank(S, i) = k
  <2>1. k \in 1 .. Cardinality(T)
    BY <1>1, <1>2
  <2>2. PICK i \in T : Rank(T, i) = k
    BY <1>3, <2>1 DEF Ranked
  <2>3. i \in S
    BY <1>1, <1>2, <2>2
  <2>4. QED
    BY <1>1, <2>2, <2>3
<1>4. ASSUME Ranked(S), NEW k \in 1 .. Cardinality(T) PROVE \E i \in T : Rank(T, i) = k
  <2>1. k \in 1 .. c \/ k = c + 1
    BY <1>1, <1>2
  <2>2. CASE k \in 1 .. c
    BY <1>1, <1>4, <2>2 DEF Ranked
  <2>3. CASE k = c + 1
    BY <1>1, <2>3
  <2>4. QED
    BY <2>1, <2>2, <2>3
<1>5. QED
  BY <1>3, <1>4 DEF Ranked

LEMMA NthAbove ==
  ASSUME NEW n \in Nat, NEW S \in SUBSET (1 .. n), Ranked(S)
  PROVE  LET T == S \union {n + 1}
         IN  /\ \A k \in 1 .. Cardinality(S) : Nth(S, k) \in S /\ Nth(T, k) = Nth(S, k)
             /\ Nth(T, Cardinality(T)) = n + 1
<1> DEFINE T == S \union {n + 1}
<1>1. /\ T \in SUBSET (1 .. n + 1) /\ n + 1 \in Nat /\ n + 1 \in T
      /\ \A i \in S : Rank(T, i) = Rank(S, i) /\ i \in T
      /\ Rank(T, n + 1) = Cardinality(T)
  BY RankAbove
<1>2. ASSUME NEW k \in 1 .. Cardinality(S) PROVE Nth(S, k) \in S /\ Nth(T, k) = Nth(S, k)
  <2>1. PICK i \in S : Rank(S, i) = k
    BY DEF Ranked
  <2>2. Nth(S, k) = i
    BY <2>1, NthOfRank
  <2>3. Nth(T, Rank(T, i)) = i
    <3> HIDE DEF T
    <3>1. QED
      BY <1>1, NthOfRank
  <2>4. QED
    BY <1>1, <2>1, <2>2, <2>3
<1>3. Nth(T, Rank(T, n + 1)) = n + 1
  <2> DEFINE i == n + 1
  <2> HIDE DEF T, i
  <2>1. i \in Nat /\ T \in SUBSET (1 .. i) /\ i \in T
    BY <1>1 DEF i
  <2>2. Nth(T, Rank(T, i)) = i
    BY <2>1, NthOfRank
  <2>3. QED
    BY <2>2 DEF i
<1>4. QED
  BY <1>1, <1>2, <1>3

-----------------------------------------------------------------------------
(* Registrations and calls *)

ShownIn(seq, mem, m) == {i \in 1 .. m : mem[seq[i]].kind \in {"setup", "callback"}}

EntryIn(mem, f) == IF f.kind = "setup"
                     THEN [kind |-> "registration", id |-> f.id]
                     ELSE [kind |-> "call", trampoline |-> f.id, runs |-> mem[f.ref].id]

NestIn(seq, mem, m) ==
    [k \in 1 .. Cardinality(ShownIn(seq, mem, m)) |->
        EntryIn(mem, mem[seq[Nth(ShownIn(seq, mem, m), k)]])]

Registrations(nest) == {k \in DOMAIN nest : nest[k].kind = "registration"}

(* s is a function on 1 .. n. *)
OnFirst(s, n) == s = [k \in 1 .. n |-> s[k]]

(* A function on 1 .. n + 1 is a function on 1 .. n with one more element. *)
LEMMA AppendIs ==
  ASSUME NEW n \in Nat, NEW s, NEW u, NEW e,
         OnFirst(s, n), OnFirst(u, n + 1),
         \A k \in 1 .. n : u[k] = s[k], u[n + 1] = e
  PROVE  u = Append(s, e) /\ s = Front(u) /\ u # <<>>
<1> USE DEF OnFirst
<1> DEFINE S == {u[k] : k \in 1 .. n + 1}
<1>1. s \in [1 .. n -> S] /\ u \in [1 .. n + 1 -> S] /\ e \in S
  <2>1. \A k \in 1 .. n : k \in 1 .. n + 1
    OBVIOUS
  <2>2. \A k \in 1 .. n : s[k] \in S
    BY <2>1
  <2>3. n + 1 \in 1 .. n + 1
    OBVIOUS
  <2>4. QED
    BY <2>2, <2>3
<1> HIDE DEF S
<1>2. s \in Seq(S) /\ u \in Seq(S) /\ Len(s) = n /\ Len(u) = n + 1
  BY <1>1
<1>3. u = Append(s, e)
  <2>1. /\ Append(s, e) \in Seq(S)
        /\ Len(Append(s, e)) = n + 1
        /\ \A k \in 1 .. n : Append(s, e)[k] = s[k]
        /\ Append(s, e)[n + 1] = e
    BY <1>1, <1>2, AppendProperties
  <2>2. \A k \in 1 .. n + 1 : k \in 1 .. n \/ k = n + 1
    OBVIOUS
  <2>3. \A k \in 1 .. n + 1 : u[k] = Append(s, e)[k]
    BY <2>1, <2>2
  <2>4. QED
    BY <1>2, <2>1, <2>3, SeqEqual
<1>4. s = Front(u)
  <2>1. \A k \in 1 .. n : u[k] \in S
    BY <1>1
  <2>2. /\ SubSeq(u, 1, n) \in Seq(S)
        /\ Len(SubSeq(u, 1, n)) = n
        /\ \A k \in 1 .. n : SubSeq(u, 1, n)[k] = u[k]
    BY <1>2, <2>1, SubSeqProperties
  <2>3. Len(SubSeq(u, 1, n)) = n /\ \A k \in 1 .. n : SubSeq(u, 1, n)[k] = s[k]
    BY <2>2
  <2>4. s = SubSeq(u, 1, n)
    BY <1>2, <2>2, <2>3, SeqEqual
  <2>5. Len(u) - 1 = n
    BY <1>2
  <2>6. QED
    BY <2>4, <2>5 DEF Front
<1>5. u # <<>>
  BY <1>2, EmptySeq
<1>6. QED
  BY <1>3, <1>4, <1>5

(* The registrations in a sequence with one more entry *)
LEMMA OneMoreRegistration ==
  ASSUME NEW n \in Nat, NEW s, NEW u, NEW e,
         OnFirst(s, n), OnFirst(u, n + 1),
         \A k \in 1 .. n : u[k] = s[k], u[n + 1] = e
  PROVE  /\ Cardinality(Registrations(s)) \in Nat
         /\ Cardinality(Registrations(u)) =
               IF e.kind = "registration" THEN Cardinality(Registrations(s)) + 1
                                          ELSE Cardinality(Registrations(s))
<1>1. DOMAIN s = 1 .. n /\ DOMAIN u = 1 .. n + 1
  BY DEF OnFirst
<1>2. Registrations(s) \in SUBSET (1 .. n)
  BY <1>1 DEF Registrations
<1>3. IsFiniteSet(Registrations(s)) /\ Cardinality(Registrations(s)) \in Nat
  <2> DEFINE R == Registrations(s)
  <2> HIDE DEF R
  <2>1. R \in SUBSET (1 .. n)
    BY <1>2 DEF R
  <2>2. IsFiniteSet(R) /\ Cardinality(R) \in Nat
    BY <2>1, RankType
  <2>3. QED
    BY <2>2 DEF R
<1>4. n + 1 \notin Registrations(s) /\ \A k \in 1 .. n + 1 : k \in 1 .. n \/ k = n + 1
  BY <1>2
<1>5. Registrations(u) = IF e.kind = "registration" THEN Registrations(s) \union {n + 1}
                                                    ELSE Registrations(s)
  <2>1. \A k \in 1 .. n : k \in 1 .. n + 1
    OBVIOUS
  <2>2. \A k \in 1 .. n : k \in 1 .. n + 1 /\ u[k] = s[k]
    BY <2>1
  <2>3. n + 1 \in 1 .. n + 1 /\ u[n + 1] = e
    OBVIOUS
  <2>4. \A k : k \in Registrations(s) <=> k \in 1 .. n /\ u[k].kind = "registration"
    BY <1>1, <2>2 DEF Registrations
  <2>5. \A k : k \in Registrations(u) <=>
                  (k \in 1 .. n \/ k = n + 1) /\ u[k].kind = "registration"
    BY <1>1, <1>4, <2>2, <2>3 DEF Registrations
  <2>6. QED
    BY <2>3, <2>4, <2>5
<1>6. QED
  BY <1>3, <1>4, <1>5, FS_AddElement

(* A frame that is neither a registration nor a callback is not shown. *)
LEMMA NestSkip ==
  ASSUME NEW seq, NEW mem, NEW n \in Nat, mem[seq[n + 1]].kind \notin {"setup", "callback"}
  PROVE  /\ ShownIn(seq, mem, n + 1) = ShownIn(seq, mem, n)
         /\ NestIn(seq, mem, n + 1) = NestIn(seq, mem, n)
<1>1. /\ \A i \in 1 .. n + 1 : i \in 1 .. n \/ i = n + 1
      /\ \A i \in 1 .. n : i \in 1 .. n + 1
  OBVIOUS
<1>2. ShownIn(seq, mem, n + 1) = ShownIn(seq, mem, n)
  BY <1>1 DEF ShownIn
<1>3. QED
  BY <1>2 DEF NestIn

(* A registration or callback on top is the last entry. *)
LEMMA NestNext ==
  ASSUME NEW seq, NEW mem, NEW n \in Nat, mem[seq[n + 1]].kind \in {"setup", "callback"},
         Ranked(ShownIn(seq, mem, n))
  PROVE  LET e == EntryIn(mem, mem[seq[n + 1]])
             s == NestIn(seq, mem, n)
             u == NestIn(seq, mem, n + 1)
         IN  /\ u = Append(s, e) /\ s = Front(u) /\ u # <<>>
             /\ Cardinality(Registrations(s)) \in Nat
             /\ Cardinality(Registrations(u)) =
                   IF e.kind = "registration" THEN Cardinality(Registrations(s)) + 1
                                              ELSE Cardinality(Registrations(s))
<1> DEFINE S == ShownIn(seq, mem, n)
           T == ShownIn(seq, mem, n + 1)
           c == Cardinality(S)
           e == EntryIn(mem, mem[seq[n + 1]])
           s == NestIn(seq, mem, n)
           u == NestIn(seq, mem, n + 1)
<1>1. S \in SUBSET (1 .. n)
  BY DEF ShownIn
<1>2. T = S \union {n + 1}
  <2>1. /\ \A i \in 1 .. n + 1 : i \in 1 .. n \/ i = n + 1
        /\ \A i \in 1 .. n : i \in 1 .. n + 1
        /\ n + 1 \in 1 .. n + 1
    OBVIOUS
  <2>2. QED
    BY <2>1 DEF ShownIn
<1>3. /\ c \in Nat /\ Cardinality(T) = c + 1
      /\ \A k \in 1 .. c : Nth(T, k) = Nth(S, k)
      /\ Nth(T, c + 1) = n + 1
  <2> HIDE DEF S, T
  <2>1. c \in Nat
    BY <1>1, RankType
  <2>2. Cardinality(S \union {n + 1}) = c + 1
    BY <1>1, RankAbove
  <2>3. /\ \A k \in 1 .. c : Nth(S \union {n + 1}, k) = Nth(S, k)
        /\ Nth(S \union {n + 1}, Cardinality(S \union {n + 1})) = n + 1
    <3>1. Ranked(S)
      BY DEF S
    <3>2. QED
      BY <1>1, <3>1, NthAbove
  <2>4. QED
    BY <1>2, <2>1, <2>2, <2>3
<1>4. /\ s = [k \in 1 .. c |-> EntryIn(mem, mem[seq[Nth(S, k)]])]
      /\ u = [k \in 1 .. c + 1 |-> EntryIn(mem, mem[seq[Nth(T, k)]])]
  BY <1>3 DEF NestIn
<1> HIDE DEF s, u, S, T, c, e
<1>5. /\ OnFirst(s, c) /\ OnFirst(u, c + 1)
      /\ \A k \in 1 .. c : s[k] = EntryIn(mem, mem[seq[Nth(S, k)]])
      /\ \A k \in 1 .. c + 1 : u[k] = EntryIn(mem, mem[seq[Nth(T, k)]])
  BY <1>4 DEF OnFirst
<1>6. (\A k \in 1 .. c : k \in 1 .. c + 1) /\ c + 1 \in 1 .. c + 1
  BY <1>3
<1>7. (\A k \in 1 .. c : u[k] = s[k]) /\ u[c + 1] = e
  BY <1>3, <1>5, <1>6 DEF e
<1>8. u = Append(s, e) /\ s = Front(u) /\ u # <<>>
  BY <1>3, <1>5, <1>7, AppendIs
<1>9. /\ Cardinality(Registrations(s)) \in Nat
      /\ Cardinality(Registrations(u)) =
            IF e.kind = "registration" THEN Cardinality(Registrations(s)) + 1
                                       ELSE Cardinality(Registrations(s))
  BY <1>3, <1>5, <1>7, OneMoreRegistration
<1>10. QED
  BY <1>8, <1>9 DEF s, u, e

(* The entries name every frame shown, and the registrations among them    *)
(* are as many as the setups on the stack.                                 *)
Counted(seq, mem, n) ==
    /\ Ranked(ShownIn(seq, mem, n))
    /\ Cardinality(Registrations(NestIn(seq, mem, n))) = Cardinality(SetupsIn(seq, mem, n))

LEMMA SetupsNext ==
  ASSUME NEW seq, NEW mem, NEW n \in Nat
  PROVE  /\ Cardinality(SetupsIn(seq, mem, n)) \in Nat
         /\ Cardinality(SetupsIn(seq, mem, n + 1)) =
               IF mem[seq[n + 1]].kind = "setup" THEN Cardinality(SetupsIn(seq, mem, n)) + 1
                                                 ELSE Cardinality(SetupsIn(seq, mem, n))
<1>1. /\ \A i \in 1 .. n + 1 : i \in 1 .. n \/ i = n + 1
      /\ \A i \in 1 .. n : i \in 1 .. n + 1 /\ i # n + 1
      /\ n + 1 \in 1 .. n + 1
  OBVIOUS
<1>2. /\ SetupsIn(seq, mem, n + 1) = IF mem[seq[n + 1]].kind = "setup"
                                       THEN SetupsIn(seq, mem, n) \union {n + 1}
                                       ELSE SetupsIn(seq, mem, n)
      /\ n + 1 \notin SetupsIn(seq, mem, n)
  BY <1>1 DEF SetupsIn
<1>3. IsFiniteSet(SetupsIn(seq, mem, n)) /\ Cardinality(SetupsIn(seq, mem, n)) \in Nat
  BY SetupsInFinite, FS_CardinalityType
<1>4. Cardinality(SetupsIn(seq, mem, n) \union {n + 1}) = Cardinality(SetupsIn(seq, mem, n)) + 1
  BY <1>2, <1>3, FS_AddElement
<1>5. QED
  BY <1>2, <1>3, <1>4

LEMMA CountedNext ==
  ASSUME NEW seq, NEW mem, NEW n \in Nat
  PROVE  Counted(seq, mem, n + 1) <=> Counted(seq, mem, n)
<1> DEFINE f == mem[seq[n + 1]]
           S == ShownIn(seq, mem, n)
           s == Cardinality(Registrations(NestIn(seq, mem, n)))
           u == Cardinality(Registrations(NestIn(seq, mem, n + 1)))
           d == Cardinality(SetupsIn(seq, mem, n))
           e == Cardinality(SetupsIn(seq, mem, n + 1))
<1>1. d \in Nat /\ e = IF f.kind = "setup" THEN d + 1 ELSE d
  BY SetupsNext
<1>2. CASE f.kind \notin {"setup", "callback"}
  <2>1. ShownIn(seq, mem, n + 1) = S /\ u = s /\ e = d
    BY <1>1, <1>2, NestSkip
  <2>2. QED
    BY <2>1 DEF Counted
<1>3. CASE f.kind \in {"setup", "callback"}
  <2>1. S \in SUBSET (1 .. n)
    BY DEF ShownIn
  <2>2. ShownIn(seq, mem, n + 1) = S \union {n + 1}
    <3>1. /\ \A i \in 1 .. n + 1 : i \in 1 .. n \/ i = n + 1
          /\ \A i \in 1 .. n : i \in 1 .. n + 1
          /\ n + 1 \in 1 .. n + 1
      OBVIOUS
    <3>2. QED
      BY <1>3, <3>1 DEF ShownIn
  <2>3. Ranked(ShownIn(seq, mem, n + 1)) <=> Ranked(S)
    <3> HIDE DEF S
    <3>1. QED
      BY <2>1, <2>2, RankedAbove
  <2>4. ASSUME Ranked(S) PROVE s \in Nat /\ u = IF f.kind = "setup" THEN s + 1 ELSE s
    <3>1. EntryIn(mem, f).kind = "registration" <=> f.kind = "setup"
      BY <1>3 DEF EntryIn
    <3>2. /\ s \in Nat
          /\ u = IF EntryIn(mem, f).kind = "registration" THEN s + 1 ELSE s
      BY <1>3, <2>4, NestNext
    <3>3. QED
      BY <3>1, <3>2
  <2> HIDE DEF s, u, d, e, f
  <2>5. Ranked(S) => (u = e <=> s = d)
    BY <1>1, <2>4
  <2>6. QED
    BY <2>3, <2>5 DEF Counted, s, u, d, e
<1>4. QED
  BY <1>2, <1>3

(* Callbacks run registrations among the n outermost frames. *)
CalleesIn(seq, mem, n) ==
    \A j \in 1 .. n : mem[seq[j]].kind = "callback" => \E i \in 1 .. n : seq[i] = mem[seq[j]].ref

(* Only the n outermost frames matter. *)
LEMMA NestSame ==
  ASSUME NEW seq, NEW mem, NEW seq2, NEW mem2, NEW n \in Nat, Agree(seq, mem, seq2, mem2, n),
         CalleesIn(seq, mem, n), Ranked(ShownIn(seq, mem, n))
  PROVE  /\ NestIn(seq2, mem2, n) = NestIn(seq, mem, n)
         /\ Counted(seq2, mem2, n) <=> Counted(seq, mem, n)
<1> DEFINE S == ShownIn(seq, mem, n)
<1>1. \A j \in 1 .. n : /\ seq2[j] = seq[j] /\ mem2[seq[j]] = mem[seq[j]]
                        /\ mem2[seq2[j]] = mem[seq[j]]
  BY DEF Agree
<1>2. ShownIn(seq2, mem2, n) = S
  BY <1>1 DEF ShownIn
<1>3. SetupsIn(seq2, mem2, n) = SetupsIn(seq, mem, n)
  BY <1>1 DEF SetupsIn
<1>4. ASSUME NEW k \in 1 .. Cardinality(S)
      PROVE  EntryIn(mem2, mem2[seq2[Nth(S, k)]]) = EntryIn(mem, mem[seq[Nth(S, k)]])
  <2> DEFINE j == Nth(S, k)
  <2>1. j \in S
    <3>1. S \in SUBSET (1 .. n)
      BY DEF ShownIn
    <3> HIDE DEF S
    <3>2. Ranked(S)
      BY DEF S
    <3>3. QED
      BY <3>1, <3>2, NthAbove
  <2> HIDE DEF j
  <2>2. j \in 1 .. n /\ mem[seq[j]].kind \in {"setup", "callback"}
    BY <2>1 DEF ShownIn
  <2>3. mem[seq[j]].kind # "setup" => mem2[mem[seq[j]].ref].id = mem[mem[seq[j]].ref].id
    BY <1>1, <2>2 DEF CalleesIn
  <2>4. EntryIn(mem2, mem2[seq2[j]]) = EntryIn(mem, mem[seq[j]])
    BY <1>1, <2>2, <2>3 DEF EntryIn
  <2>5. QED
    BY <2>4 DEF j
<1>5. NestIn(seq2, mem2, n) = NestIn(seq, mem, n)
  BY <1>2, <1>4 DEF NestIn
<1>6. QED
  BY <1>2, <1>3, <1>5 DEF Counted

(* A setup counts among the setups of the frames that include it. *)
LEMMA SetupCounted ==
  ASSUME NEW seq, NEW mem, NEW n \in Nat, NEW j \in 1 .. n, mem[seq[j]].kind = "setup"
  PROVE  Cardinality(SetupsIn(seq, mem, j - 1)) \in 0 .. Cardinality(SetupsIn(seq, mem, n)) - 1
<1> DEFINE S == SetupsIn(seq, mem, j - 1)
           T == SetupsIn(seq, mem, n)
<1>1. j - 1 \in Nat /\ j \notin 1 .. j - 1 /\ \A i \in 1 .. j - 1 : i \in 1 .. n
  OBVIOUS
<1>2. IsFiniteSet(S) /\ IsFiniteSet(T)
  BY <1>1, SetupsInFinite
<1>3. j \notin S /\ S \union {j} \in SUBSET T
  BY <1>1 DEF SetupsIn
<1> HIDE DEF S, T
<1>4. /\ Cardinality(S) \in Nat /\ Cardinality(T) \in Nat
      /\ Cardinality(S \union {j}) = Cardinality(S) + 1
  BY <1>2, <1>3, FS_AddElement, FS_CardinalityType
<1>5. Cardinality(S \union {j}) =< Cardinality(T)
  BY <1>2, <1>3, FS_Subset
<1>6. QED
  BY <1>4, <1>5 DEF S, T

-----------------------------------------------------------------------------
(***************************************************************************)
(* The invariant.  IdInv gives the ids; that the abstract registry counts  *)
(* the same registrations as NextCallbackId does is Counted.               *)
(***************************************************************************)

Depth == Len(stack[CallbackThread])

RegInv == IdInv(CallbackThread) /\ Counted(stack[CallbackThread], frame, Depth)

(* The refinement mapping is the nest of the whole stack. *)
LEMMA NestIs ==
  ASSUME TypeInv, NEW t \in Threads, t = CallbackThread
  PROVE  /\ Nest = NestIn(stack[t], frame, Len(stack[t]))
         /\ Registry!InForce = Cardinality(Registrations(Nest))
<1>1. t = CallbackThread /\ DOMAIN stack[t] = 1 .. Len(stack[t])
  BY StackShape DEF TypeInv
<1>2. Shown = ShownIn(stack[t], frame, Len(stack[t]))
  BY <1>1 DEF Shown, ShownIn
<1>3. \A f : Entry(f) = EntryIn(frame, f)
  BY DEF Entry, EntryIn
<1>4. Nest = NestIn(stack[t], frame, Len(stack[t]))
  BY <1>1, <1>2, <1>3 DEF Nest, NestIn
<1>5. \A S : Registry!Cardinality(S) = Cardinality(S)
  BY DEF Registry!Cardinality, Cardinality
<1>6. QED
  BY <1>4, <1>5 DEF Registry!InForce, Registrations

LEMMA NestIsNext ==
  ASSUME TypeInv', NEW t \in Threads, t = CallbackThread
  PROVE  Nest' = NestIn(stack'[t], frame', Len(stack'[t]))
<1>1. DOMAIN stack'[t] = 1 .. Len(stack'[t])
  <2>1. stack'[t] \in Seq(Addr)
    BY DEF TypeInv, TypeOK
  <2>2. QED
    BY <2>1, LenProperties
<1>2. Shown' = ShownIn(stack'[t], frame', Len(stack'[t]))
  BY <1>1 DEF Shown, ShownIn
<1>3. QED
  BY <1>2 DEF Nest, NestIn, Entry, EntryIn

(* The frames that callbacks run are below them. *)
LEMMA CalleesBelow ==
  ASSUME NestInv, NEW t \in Threads, NEW n \in 0 .. Len(stack[t])
  PROVE  CalleesIn(stack[t], frame, n)
<1> SUFFICES ASSUME NEW j \in 1 .. n, frame[stack[t][j]].kind = "callback"
             PROVE  \E i \in 1 .. n : stack[t][i] = frame[stack[t][j]].ref
  BY DEF CalleesIn
<1>1. Len(stack[t]) \in Nat
  BY StackShape DEF NestInv, TypeInv
<1>2. j \in 1 .. Len(stack[t]) /\ \A i \in 1 .. j - 1 : i \in 1 .. n
  BY <1>1
<1>3. QED
  BY <1>2 DEF NestInv, Nested

-----------------------------------------------------------------------------
(* Steps *)

(* A frame that is pushed registers, calls, or is not shown. *)
LEMMA PushedEntry ==
  ASSUME RegInv, CallbacksOn(CallbackThread), NEW t \in Threads, t = CallbackThread,
         NEW f, PushedFrame(t, f), NEW mem,
         \A a \in Live : mem[a] = frame[a]
  PROVE  LET c == Cardinality(Registrations(Nest))
         IN  \/ f.kind \notin {"setup", "callback"}
             \/ /\ f.kind = "setup"
                /\ EntryIn(mem, f) = [kind |-> "registration", id |-> c]
             \/ /\ f.kind = "callback"
                /\ \E id \in 0 .. c - 1 :
                      EntryIn(mem, f) = [kind |-> "call", trampoline |-> id, runs |-> id]
<1> DEFINE c == Cardinality(Registrations(Nest))
           m == Len(stack[t])
<1>1. IdInv(t) /\ NestInv /\ TypeInv /\ m \in Nat
  BY StackShape DEF RegInv, IdInv, HeadInv, NestInv, TypeInv
<1>2. c = Cardinality(SetupsIn(stack[t], frame, m))
  <2>1. Counted(stack[t], frame, m)
    BY DEF RegInv, Depth
  <2>2. Nest = NestIn(stack[t], frame, m)
    BY <1>1, NestIs
  <2>3. QED
    BY <2>1, <2>2 DEF Counted
<1>3. ASSUME NEW r \in Runtimes, NEW s \in Runtimes, NEW cap, Ctx(t)[s] # NoScope,
             f = SetupFrame(t, r, s, cap)
      PROVE  /\ f.kind = "setup"
             /\ EntryIn(mem, f) = [kind |-> "registration", id |-> c]
  <2>1. f.kind = "setup" /\ f.id = NextCallbackId(Ctx(t)[s])
    BY <1>3 DEF SetupFrame, PlainFrame
  <2>2. f.id = c
    BY <1>1, <1>2, <1>3, <2>1, NextIdCounts
  <2>3. QED
    BY <2>1, <2>2 DEF EntryIn
<1>4. ASSUME NEW r \in Runtimes, NEW id \in Nat, Callee(id) \in Addr, f = CallbackFrame(r, id)
      PROVE  /\ f.kind = "callback"
             /\ \E d \in 0 .. c - 1 :
                   EntryIn(mem, f) = [kind |-> "call", trampoline |-> d, runs |-> d]
  <2>1. f.kind = "callback" /\ f.id = id /\ f.ref = Callee(id)
    BY <1>4 DEF CallbackFrame, PlainFrame
  <2>2. /\ Callee(id) \in Setups /\ Callee(id) \in Live
        /\ frame[Callee(id)].kind = "setup" /\ frame[Callee(id)].id = id
    <3>1. Callee(id) \in Setups /\ frame[Callee(id)].id = id
      BY <1>1, <1>4, CalleeFound
    <3>2. QED
      BY <3>1 DEF Setups
  <2>3. EntryIn(mem, f) = [kind |-> "call", trampoline |-> id, runs |-> id]
    BY <2>1, <2>2 DEF EntryIn
  <2>4. PICK j \in 1 .. m : stack[t][j] = Callee(id)
    <3>1. CallbacksOn(t)
      OBVIOUS
    <3>2. Callee(id) \in Below(t, m)
      BY <1>1, <2>2, <3>1, SetupsBelow
    <3>3. QED
      BY <3>2 DEF Below
  <2>5. id = Cardinality(SetupsIn(stack[t], frame, j - 1))
    BY <1>1, <2>2, <2>4 DEF IdInv, Numbered, Registered
  <2>6. id \in 0 .. c - 1
    BY <1>1, <1>2, <2>2, <2>4, <2>5, SetupCounted
  <2>7. QED
    BY <2>1, <2>3, <2>6
<1>5. ASSUME NEW r \in Runtimes, NEW s \in Runtimes, f = ExecuteFrame(t, r, s)
      PROVE  f.kind = "exec"
  BY <1>5 DEF ExecuteFrame, PlainFrame
<1>6. ASSUME NEW r \in Runtimes, NEW s \in Runtimes, NEW region, NEW mutable,
             f = AllocFrame(t, r, s, region, mutable)
      PROVE  f.kind = "alloc"
  BY <1>6 DEF AllocFrame, PlainFrame
<1>7. ASSUME NEW r \in Runtimes, NEW region, f = RawFrame(t, r, region)
      PROVE  f.kind = "raw"
  BY <1>7 DEF RawFrame, PlainFrame
<1> HIDE DEF c
<1>8. \/ f.kind \notin {"setup", "callback"}
      \/ /\ f.kind = "setup"
         /\ EntryIn(mem, f) = [kind |-> "registration", id |-> c]
      \/ /\ f.kind = "callback"
         /\ \E id \in 0 .. c - 1 :
               EntryIn(mem, f) = [kind |-> "call", trampoline |-> id, runs |-> id]
  BY <1>3, <1>4, <1>5, <1>6, <1>7 DEF PushedFrame
<1>9. QED
  BY <1>8 DEF c

(* A push registers or calls on the abstract registry, or shows nothing. *)
LEMMA PushNest ==
  ASSUME RegInv, CallbacksOn(CallbackThread), TypeInv', NEW t \in Threads, t = CallbackThread,
         PushStep(t)
  PROVE  /\ Counted(stack'[t], frame', Len(stack'[t]))
         /\ \/ Nest' = Nest
            \/ Nest' = Append(Nest, Registry!Registration(Registry!InForce))
            \/ \E id \in 0 .. Registry!InForce - 1 : Nest' = Append(Nest, Registry!Call(id))
<1> DEFINE m == Len(stack[t])
           c == Cardinality(Registrations(Nest))
<1>1. NestInv /\ TypeInv /\ TypeOK /\ StackInv /\ m \in Nat /\ m \in 0 .. m
  BY StackShape DEF RegInv, IdInv, HeadInv, NestInv, TypeInv
<1>2. PICK f : PushedFrame(t, f) /\ Push(t, f)
  BY DEF PushStep
<1>3. /\ Len(stack'[t]) = m + 1
      /\ stack'[t][m + 1] = NewAddr
      /\ \A j \in 1 .. m : stack'[t][j] = stack[t][j]
      /\ frame'[NewAddr] = f
      /\ \A a \in Live : frame'[a] = frame[a]
  BY <1>1, <1>2, PushEffect
<1>4. Agree(stack[t], frame, stack'[t], frame', m)
  BY <1>1, <1>3 DEF Agree, StackInv
<1>5. Counted(stack[t], frame, m)
  BY DEF RegInv, Depth
<1>6. /\ NestIn(stack'[t], frame', m) = NestIn(stack[t], frame, m)
      /\ Counted(stack'[t], frame', m)
  <2>1. CalleesIn(stack[t], frame, m)
    BY <1>1, CalleesBelow
  <2>2. QED
    BY <1>1, <1>4, <1>5, <2>1, NestSame DEF Counted
<1>7. Counted(stack'[t], frame', m + 1)
  BY <1>1, <1>6, CountedNext
<1>8. /\ Nest = NestIn(stack[t], frame, m) /\ Registry!InForce = c
      /\ Nest' = NestIn(stack'[t], frame', m + 1)
  BY <1>1, <1>3, NestIs, NestIsNext
<1>9. \/ f.kind \notin {"setup", "callback"}
      \/ /\ f.kind = "setup"
         /\ EntryIn(frame', f) = [kind |-> "registration", id |-> c]
      \/ /\ f.kind = "callback"
         /\ \E id \in 0 .. c - 1 :
               EntryIn(frame', f) = [kind |-> "call", trampoline |-> id, runs |-> id]
  BY <1>2, <1>3, PushedEntry
<1>10. CASE f.kind \notin {"setup", "callback"}
  <2>1. Nest' = Nest
    BY <1>1, <1>3, <1>6, <1>8, <1>10, NestSkip
  <2>2. QED
    BY <1>3, <1>7, <2>1
<1>11. CASE f.kind \in {"setup", "callback"}
  <2>1. Ranked(ShownIn(stack'[t], frame', m))
    BY <1>6 DEF Counted
  <2>2. Nest' = Append(Nest, EntryIn(frame', f))
    BY <1>1, <1>3, <1>6, <1>8, <1>11, <2>1, NestNext
  <2>3. \/ Nest' = Append(Nest, Registry!Registration(Registry!InForce))
        \/ \E id \in 0 .. Registry!InForce - 1 : Nest' = Append(Nest, Registry!Call(id))
    BY <1>8, <1>9, <1>11, <2>2 DEF Registry!Registration, Registry!Call
  <2>4. QED
    BY <1>3, <1>7, <2>3
<1>12. QED
  BY <1>10, <1>11

(* A return leaves the innermost entry, or shows nothing. *)
LEMMA ReturnNest ==
  ASSUME RegInv, TypeInv', NEW t \in Threads, t = CallbackThread, ReturnStep(t)
  PROVE  /\ Counted(stack'[t], frame', Len(stack'[t]))
         /\ Nest' = Nest \/ (Nest # <<>> /\ Nest' = Front(Nest))
<1> DEFINE n == Len(stack[t]) - 1
<1>1. NestInv /\ TypeInv
  BY DEF RegInv, IdInv, HeadInv, NestInv
<1>2. n \in Nat /\ n \in 0 .. Len(stack[t]) /\ n + 1 = Len(stack[t])
  BY <1>1, StackShape DEF TypeInv, ReturnStep
<1>3. /\ Len(stack'[t]) = n
      /\ \A i \in 1 .. n : stack'[t][i] = stack[t][i]
      /\ \A a \in Live' : frame'[a] = frame[a]
      /\ StackInv'
  BY <1>1, <1>2, PopEffect, PopStack DEF ReturnStep
<1>4. Agree(stack[t], frame, stack'[t], frame', n)
  BY <1>3 DEF Agree, StackInv
<1>5. Counted(stack[t], frame, n)
  <2>1. Counted(stack[t], frame, n + 1)
    BY <1>2 DEF RegInv, Depth
  <2>2. QED
    BY <1>2, <2>1, CountedNext
<1>6. /\ NestIn(stack'[t], frame', n) = NestIn(stack[t], frame, n)
      /\ Counted(stack'[t], frame', n)
  <2>1. CalleesIn(stack[t], frame, n)
    BY <1>1, <1>2, CalleesBelow
  <2>2. QED
    BY <1>2, <1>4, <1>5, <2>1, NestSame DEF Counted
<1>7. /\ Nest = NestIn(stack[t], frame, n + 1)
      /\ Nest' = NestIn(stack[t], frame, n)
  BY <1>1, <1>2, <1>3, <1>6, NestIs, NestIsNext
<1>8. CASE frame[stack[t][n + 1]].kind \notin {"setup", "callback"}
  BY <1>2, <1>3, <1>6, <1>7, <1>8, NestSkip
<1>9. CASE frame[stack[t][n + 1]].kind \in {"setup", "callback"}
  <2>1. Ranked(ShownIn(stack[t], frame, n))
    BY <1>5 DEF Counted
  <2>2. Nest # <<>> /\ Nest' = Front(Nest)
    BY <1>2, <1>7, <1>9, <2>1, NestNext
  <2>3. QED
    BY <1>3, <1>6, <2>2
<1>10. QED
  BY <1>8, <1>9

(* What other threads do is not shown. *)
LEMMA NestElsewhere ==
  ASSUME RegInv, TypeInv', NEW t \in Threads, t = CallbackThread,
         NEW u \in Threads \ {t}, PushStep(u) \/ ReturnStep(u)
  PROVE  /\ Counted(stack'[t], frame', Len(stack'[t]))
         /\ Nest' = Nest
<1> DEFINE m == Len(stack[t])
<1>1. NestInv /\ TypeInv /\ m \in Nat /\ m \in 0 .. m
  BY StackShape DEF RegInv, IdInv, HeadInv, NestInv, TypeInv
<1>2. stack'[t] = stack[t] /\ \A j \in 1 .. m : frame'[stack[t][j]] = frame[stack[t][j]]
  <2>1. CASE PushStep(u)
    <3>1. PICK f : Push(u, f)
      BY <2>1 DEF PushStep
    <3>2. stack'[t] = stack[t] /\ \A a \in Live : frame'[a] = frame[a]
      BY <1>1, <3>1, PushEffect DEF TypeInv
    <3>3. QED
      BY <1>1, <3>2 DEF TypeInv, StackInv
  <2>2. CASE ReturnStep(u)
    <3>1. Len(stack[u]) - 1 \in 0 .. Len(stack[u])
      BY <1>1, <2>2, StackShape DEF ReturnStep, TypeInv
    <3>2. stack'[t] = stack[t] /\ (\A a \in Live' : frame'[a] = frame[a]) /\ StackInv'
      BY <1>1, <2>2, <3>1, PopEffect, PopStack DEF ReturnStep
    <3>3. QED
      BY <3>2 DEF StackInv
  <2>3. QED
    BY <2>1, <2>2
<1>3. Agree(stack[t], frame, stack'[t], frame', m)
  BY <1>2 DEF Agree
<1>4. Counted(stack[t], frame, m)
  BY DEF RegInv, Depth
<1>5. CalleesIn(stack[t], frame, m)
  BY <1>1, CalleesBelow
<1>6. /\ NestIn(stack'[t], frame', m) = NestIn(stack[t], frame, m)
      /\ Counted(stack'[t], frame', m)
  BY <1>1, <1>3, <1>4, <1>5, NestSame DEF Counted
<1>7. QED
  BY <1>1, <1>2, <1>6, NestIs, NestIsNext

(* Only a running process does anything; without unwinding, a step that    *)
(* ends it leaves the stacks alone.                                        *)
StatusShape == \/ UNCHANGED vars
               \/ status = "run" /\ UNCHANGED <<stack, frame>>
               \/ status = "run" /\ status' = "run"

LEMMA PanicStatus ==
  ASSUME ~ Unwinds, status = "run", NEW t, NEW h, NEW region, Panic(t, h, region)
  PROVE  StatusShape
  BY DEF Panic, StatusShape

LEMMA AllocateStatus ==
  ASSUME ~ Unwinds, NEW t \in Threads, NEW r \in Runtimes, NEW s \in Runtimes, NEW q \in Runtimes,
         Allocate(t, r, s, q)
  PROVE  StatusShape
<1>1. ASSUME NEW region, NEW mutable, Running(t), Track(t, r, s, region, mutable)
      PROVE  StatusShape
  BY <1>1 DEF Track, Running, StatusShape
<1>2. CASE AllocateStackedMut(t, r, s)
  BY <1>1, <1>2 DEF AllocateStackedMut
<1>3. CASE AllocateStackedTMut(t, r, s)
  BY <1>1, <1>3 DEF AllocateStackedTMut
<1>4. ASSUME WriteStackedTMut(t, r, s, q) PROVE StatusShape
  BY <1>1, <1>4, PanicStatus DEF WriteStackedTMut, Running
<1>5. ASSUME NEW short \in BOOLEAN, WriteStackedSliceMut(t, r, s, q, short) PROVE StatusShape
  <2>1. Running(t) /\ status = "run"
    BY <1>5 DEF WriteStackedSliceMut, Running
  <2>2. PICK region \in AllocatorRegions(r) :
            \/ Panic(t, head, region)
            \/ UNCHANGED <<stack, frame, head, heap, issued>>
            \/ Track(t, r, s, region, TRUE)
    BY <1>5 DEF WriteStackedSliceMut
  <2>3. CASE UNCHANGED <<stack, frame, head, heap, issued>>
    BY <2>1, <2>3 DEF StatusShape
  <2>4. QED
    BY <1>1, <2>1, <2>2, <2>3, PanicStatus
<1>6. CASE WriteStackedT(t, r, s, q)
  BY <1>1, <1>4, <1>6 DEF WriteStackedT
<1>7. CASE WriteStackedSlice(t, r, s, q)
  BY <1>1, <1>5, <1>7 DEF WriteStackedSlice
<1>8. QED
  BY <1>2, <1>3, <1>4, <1>5, <1>6, <1>7 DEF Allocate

LEMMA NextStatus ==
  ASSUME ~ Unwinds, [Next]_vars
  PROVE  StatusShape
<1>1. ASSUME NEW t \in Threads, NEW r \in Runtimes, NEW s \in Runtimes, NEW cap,
             SetupCallback(t, r, s, cap)
      PROVE  StatusShape
  <2>1. status = "run"
    BY <1>1 DEF SetupCallback, Running
  <2>2. UNCHANGED <<heap, status>> \/ Panic(t, NewAddr, "none")
    BY <1>1 DEF SetupCallback
  <2>3. QED
    BY <2>1, <2>2, PanicStatus DEF StatusShape
<1>2. ASSUME NEW t \in Threads, NEW r \in Runtimes, NEW s \in Runtimes, NEW q \in Runtimes,
             Execute(t, r, s, q)
      PROVE  StatusShape
  <2>1. status = "run"
    BY <1>2 DEF Execute, Running
  <2>2. UNCHANGED status \/ Panic(t, head, "none")
    BY <1>2 DEF Execute
  <2>3. QED
    BY <2>1, <2>2, PanicStatus DEF StatusShape
<1>3. ASSUME NEW t \in Threads, NEW r, NEW id, Call(t, r, id) PROVE StatusShape
  BY <1>3 DEF Call, ForeignCall, ForeignCallFindsNothing, ForeignCallDangles, Running, StatusShape
<1>4. ASSUME NEW t \in Threads, NEW r \in Runtimes, AllocateStackedUntrackedMut(t, r)
      PROVE  StatusShape
  BY <1>4 DEF AllocateStackedUntrackedMut, Running, StatusShape
<1>5. ASSUME NEW t \in Threads, Return(t) PROVE StatusShape
  BY <1>5 DEF Return, SetupReturn, ExecuteReturn, CallbackReturn, AllocReturn, AllocReturnFreesNull,
              Running, StatusShape
<1>6. ASSUME NEW t \in Threads, ClosurePanics(t) PROVE StatusShape
  BY <1>6, PanicStatus DEF ClosurePanics, Running
<1>7. CASE UNCHANGED vars
  BY <1>7 DEF StatusShape
<1>8. QED
  BY <1>1, <1>2, <1>3, <1>4, <1>5, <1>6, <1>7, AllocateStatus DEF Next, Stopped

-----------------------------------------------------------------------------
(* The refinement *)

LEMMA RegStep ==
  ASSUME Threads # {}, OneRuntime, ~ Unwinds
  PROVE  RegInv /\ CallbacksOn(CallbackThread) /\ CallbacksOn(CallbackThread)' /\ [Next]_vars
            => RegInv'
<1> SUFFICES ASSUME RegInv, CallbacksOn(CallbackThread), CallbacksOn(CallbackThread)', [Next]_vars
             PROVE  RegInv'
  OBVIOUS
<1>1. CallbackThread \in Threads
  BY DEF CallbackThread
<1>2. IdInv(CallbackThread)'
  BY <1>1, IdStep DEF RegInv
<1>3. TypeInv' /\ TypeInv
  BY <1>2 DEF RegInv, IdInv, HeadInv, NestInv
<1>4. StepShape
  BY <1>3, NextShape
<1>5. CASE UNCHANGED <<stack, frame, head>>
  BY <1>2, <1>5 DEF RegInv, Depth
<1>6. ASSUME NEW t \in Threads, PushStep(t) \/ ReturnStep(t) PROVE RegInv'
  <2>1. CASE t = CallbackThread
    <3>1. Counted(stack'[t], frame', Len(stack'[t]))
      BY <1>3, <1>6, <2>1, PushNest, ReturnNest
    <3>2. QED
      BY <1>2, <2>1, <3>1 DEF RegInv, Depth
  <2>2. CASE t # CallbackThread
    BY <1>1, <1>2, <1>3, <1>6, <2>2, NestElsewhere DEF RegInv, Depth
  <2>3. QED
    BY <2>1, <2>2
<1>7. QED
  BY <1>4, <1>5, <1>6 DEF StepShape, UnwindStep

(* Every step is a step of the registry, or changes nothing it shows. *)
LEMMA RegistryStep ==
  ASSUME Threads # {}, OneRuntime, ~ Unwinds
  PROVE  RegInv /\ CallbacksOn(CallbackThread) /\ CallbacksOn(CallbackThread)' /\ [Next]_vars
            => [Registry!Next]_<<Nest, status = "abort">>
<1> SUFFICES ASSUME RegInv, CallbacksOn(CallbackThread), CallbacksOn(CallbackThread)', [Next]_vars
             PROVE  [Registry!Next]_<<Nest, status = "abort">>
  OBVIOUS
<1>1. TypeInv /\ TypeInv' /\ StatusShape /\ CallbackThread \in Threads
  <2>1. RegInv'
    BY RegStep
  <2>2. CallbackThread \in Threads
    BY DEF CallbackThread
  <2>3. QED
    BY <2>1, <2>2, NextStatus DEF RegInv, IdInv, HeadInv, NestInv
<1>2. StepShape
  BY <1>1, NextShape
<1>3. UNCHANGED <<stack, frame>> => Nest' = Nest
  BY DEF Nest, Shown, Entry
<1>4. CASE UNCHANGED vars
  BY <1>3, <1>4 DEF vars
<1>5. CASE status = "run" /\ UNCHANGED <<stack, frame>>
  <2>1. CASE status' = "abort"
    BY <1>3, <1>5, <2>1 DEF Registry!Next, Registry!Abort
  <2>2. CASE status' # "abort"
    BY <1>3, <1>5, <2>2
  <2>3. QED
    BY <2>1, <2>2
<1>6. CASE status = "run" /\ status' = "run"
  <2>1. CASE UNCHANGED <<stack, frame, head>>
    BY <1>3, <1>6, <2>1
  <2>2. CASE PushStep(CallbackThread)
    BY <1>1, <1>6, <2>2, PushNest DEF Registry!Next, Registry!Register, Registry!CallBack
  <2>3. CASE ReturnStep(CallbackThread)
    BY <1>1, <1>6, <2>3, ReturnNest DEF Registry!Next, Registry!Leave, Registry!Front, Front
  <2>4. ASSUME NEW t \in Threads \ {CallbackThread}, PushStep(t) \/ ReturnStep(t)
        PROVE  Nest' = Nest
    BY <1>1, <2>4, NestElsewhere
  <2>5. QED
    BY <1>2, <1>6, <2>1, <2>2, <2>3, <2>4 DEF StepShape, UnwindStep
<1>7. QED
  BY <1>1, <1>4, <1>5, <1>6 DEF StatusShape

LEMMA RegInit ==
  ASSUME Threads # {}
  PROVE  Init => RegInv /\ Registry!Init
<1> SUFFICES ASSUME Init PROVE RegInv /\ Registry!Init
  OBVIOUS
<1>1. CallbackThread \in Threads
  BY DEF CallbackThread
<1>2. TypeInv /\ stack[CallbackThread] = <<>> /\ Len(stack[CallbackThread]) = 0
  BY <1>1, TypeInit DEF Init
<1>3. IdInv(CallbackThread)
  BY <1>1, NestInit DEF Init, IdInv, HeadInv, Heads, Innermost, Numbered
<1>4. /\ ShownIn(stack[CallbackThread], frame, 0) = {}
      /\ SetupsIn(stack[CallbackThread], frame, 0) = {}
      /\ Cardinality({}) = 0
  BY FS_EmptySet DEF ShownIn, SetupsIn
<1>5. Ranked({})
  BY <1>4 DEF Ranked
<1>6. NestIn(stack[CallbackThread], frame, 0) = <<>>
  <2>1. \A e : [k \in 1 .. 0 |-> EntryIn(frame, frame[stack[CallbackThread][Nth(e, k)]])] = <<>>
    OBVIOUS
  <2>2. QED
    BY <1>4, <2>1 DEF NestIn
<1>7. Registrations(<<>>) = {}
  BY DEF Registrations
<1>8. Counted(stack[CallbackThread], frame, 0)
  BY <1>4, <1>5, <1>6, <1>7 DEF Counted
<1>9. Nest = <<>>
  BY <1>1, <1>2, <1>6, NestIs
<1>10. QED
  BY <1>2, <1>3, <1>8, <1>9 DEF RegInv, Depth, Init, Registry!Init

(* If there is one runtime, its callbacks stay on one thread and panics     *)
(* abort, the program registers, calls and leaves callbacks as on the       *)
(* abstract registry: trampoline id runs registration id, also from within  *)
(* callbacks, and ids are dense, whatever other threads allocate, execute   *)
(* or abort.                                                                *)
THEOREM RefinesRegistry ==
  ASSUME Threads # {}, OneRuntime, ~ Unwinds
  PROVE  Spec /\ []CallbacksOn(CallbackThread) => ImplementsCallbackRegistry
<1>1. Init => RegInv /\ Registry!Init
  BY RegInit
<1>2. RegInv /\ CallbacksOn(CallbackThread) /\ CallbacksOn(CallbackThread)' /\ [Next]_vars
        => RegInv' /\ [Registry!Next]_<<Nest, status = "abort">>
  BY RegStep, RegistryStep
<1>3. QED
  BY <1>1, <1>2, PTL DEF Spec, ImplementsCallbackRegistry, Registry!Spec

(* In particular a single-threaded program does. *)
COROLLARY SingleThreadRefines ==
  ASSUME Threads # {}, SingleThread, OneRuntime, ~ Unwinds
  PROVE  Spec => ImplementsCallbackRegistry
<1>1. CallbacksOn(CallbackThread)
  BY SingleCalls DEF CallbackThread
<1>2. QED
  BY <1>1, RefinesRegistry, PTL
=============================================================================
