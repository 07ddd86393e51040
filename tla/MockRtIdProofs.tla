--------------------------- MODULE MockRtIdProofs ---------------------------
(***************************************************************************)
(* Theorems about what chains lead to: the ids that registrations get and  *)
(* the allocations that callbacks see.  Both depend on where on the stack  *)
(* the nodes of a chain are.                                               *)
(***************************************************************************)
EXTENDS MockRtScopeProofs

(* Ids are counted per runtime, and dense only if there is one. *)
OneRuntime == \A r, s \in Runtimes : r = s

InChain(c, a) == \E k \in DOMAIN c : c[k] = a

(* h is the first setup of the chain c, or None. *)
FirstSetup(c, mem, h) ==
    \/ h = None /\ \A i \in DOMAIN c : mem[c[i]].kind # "setup"
    \/ \E i \in DOMAIN c : /\ h = c[i]
                           /\ mem[h].kind = "setup"
                           /\ \A j \in 1 .. i - 1 : mem[c[j]].kind # "setup"

(* The setups among the n outermost frames. *)
SetupsIn(seq, mem, n) == {j \in 1 .. n : mem[seq[j]].kind = "setup"}

(* No callback above p up to m hides p: before it, a setup was made. *)
Open(seq, mem, p, m) ==
    \A j \in p + 1 .. m : mem[seq[j]].kind = "callback" =>
        \E k \in p + 1 .. j - 1 : mem[seq[k]].kind = "setup"

(* The chain c of a scope that frame m can use: its first setup is the     *)
(* innermost one, and it has the allocations that are open.                *)
Leads(c, seq, mem, m) ==
    /\ \E h : Innermost(seq, mem, m, h) /\ FirstSetup(c, mem, h)
    /\ \A p \in 1 .. m : mem[seq[p]].kind = "alloc" => (InChain(c, seq[p]) <=> Open(seq, mem, p, m))

(* A stack with n frames: injective, and chains lead outwards. *)
Outwards(c, seq, m) == \A k \in DOMAIN c : \E j \in 1 .. m : c[k] = seq[j]
Distinct(seq, m) == \A i, j \in 1 .. m : seq[i] = seq[j] => i = j

-----------------------------------------------------------------------------
(* Chains *)

LEMMA InFront ==
  ASSUME NEW c \in Seq(Addr), NEW x \in Addr
  PROVE  /\ DOMAIN c = 1 .. Len(c) /\ Len(c) \in Nat
         /\ DOMAIN (<<x>> \o c) = 1 .. Len(c) + 1
         /\ (<<x>> \o c)[1] = x
         /\ \A k \in 1 .. Len(c) : (<<x>> \o c)[k + 1] = c[k]
<1> DEFINE d == <<x>> \o c
<1>1. <<x>> \in Seq(Addr) /\ Len(<<x>>) = 1 /\ <<x>>[1] = x
  OBVIOUS
<1>2. DOMAIN c = 1 .. Len(c) /\ Len(c) \in Nat
  BY LenProperties
<1>3. /\ d \in Seq(Addr)
      /\ Len(d) = 1 + Len(c)
      /\ \A k \in 1 .. 1 + Len(c) : d[k] = IF k =< 1 THEN <<x>>[k] ELSE c[k - 1]
  BY <1>1, ConcatProperties
<1>4. DOMAIN d = 1 .. Len(c) + 1
  BY <1>2, <1>3, LenProperties
<1> HIDE DEF d
<1>5. \A k \in 1 .. Len(c) : d[k + 1] = c[k]
  <2> TAKE k \in 1 .. Len(c)
  <2>1. k + 1 \in 1 .. 1 + Len(c) /\ ~ (k + 1 =< 1) /\ (k + 1) - 1 = k
    BY <1>2
  <2>2. QED
    BY <1>3, <2>1
<1>6. d[1] = x
  BY <1>1, <1>2, <1>3
<1>7. QED
  BY <1>2, <1>4, <1>5, <1>6 DEF d

LEMMA InLongerChain ==
  ASSUME NEW c \in Seq(Addr), NEW x \in Addr, NEW a
  PROVE  InChain(<<x>> \o c, a) <=> a = x \/ InChain(c, a)
<1> DEFINE d == <<x>> \o c
<1>1. /\ DOMAIN c = 1 .. Len(c) /\ Len(c) \in Nat
      /\ DOMAIN d = 1 .. Len(c) + 1
      /\ d[1] = x
      /\ \A k \in 1 .. Len(c) : d[k + 1] = c[k]
  BY InFront
<1> HIDE DEF d
<1>2. ASSUME InChain(d, a) PROVE a = x \/ InChain(c, a)
  <2>1. PICK k \in 1 .. Len(c) + 1 : d[k] = a
    BY <1>1, <1>2 DEF InChain
  <2>2. CASE k = 1
    BY <1>1, <2>1, <2>2
  <2>3. CASE k # 1
    <3>1. k - 1 \in 1 .. Len(c) /\ (k - 1) + 1 = k
      BY <1>1, <2>3
    <3>2. c[k - 1] = a
      BY <1>1, <2>1, <3>1
    <3>3. QED
      BY <1>1, <3>1, <3>2 DEF InChain
  <2>4. QED
    BY <2>2, <2>3
<1>3. ASSUME a = x PROVE InChain(d, a)
  <2>1. 1 \in DOMAIN d
    BY <1>1
  <2>2. QED
    BY <1>1, <1>3, <2>1 DEF InChain
<1>4. ASSUME InChain(c, a) PROVE InChain(d, a)
  <2>1. PICK k \in 1 .. Len(c) : c[k] = a
    BY <1>1, <1>4 DEF InChain
  <2>2. k + 1 \in DOMAIN d
    BY <1>1
  <2>3. QED
    BY <1>1, <2>1, <2>2 DEF InChain
<1>5. QED
  BY <1>2, <1>3, <1>4 DEF d

(* A node in front that is no setup does not change which one is first. *)
LEMMA FirstSetupNext ==
  ASSUME NEW c \in Seq(Addr), NEW x \in Addr, NEW mem, NEW h,
         mem[x].kind # "setup", FirstSetup(c, mem, h)
  PROVE  FirstSetup(<<x>> \o c, mem, h)
<1> DEFINE d == <<x>> \o c
<1>1. /\ DOMAIN c = 1 .. Len(c) /\ Len(c) \in Nat
      /\ DOMAIN d = 1 .. Len(c) + 1
      /\ d[1] = x
      /\ \A k \in 1 .. Len(c) : d[k + 1] = c[k]
  BY InFront
<1> HIDE DEF d
<1>2. ASSUME NEW n \in 0 .. Len(c), \A j \in 1 .. n : mem[c[j]].kind # "setup",
             NEW j \in 1 .. n + 1
      PROVE  mem[d[j]].kind # "setup"
  <2>1. CASE j = 1
    BY <1>1, <2>1
  <2>2. CASE j # 1
    <3>1. j - 1 \in 1 .. n /\ j - 1 \in 1 .. Len(c) /\ (j - 1) + 1 = j
      BY <1>1, <2>2
    <3>2. QED
      BY <1>1, <1>2, <3>1
  <2>3. QED
    BY <2>1, <2>2
<1>3. CASE h = None /\ \A i \in DOMAIN c : mem[c[i]].kind # "setup"
  <2>1. Len(c) \in 0 .. Len(c)
    BY <1>1
  <2>2. \A j \in 1 .. Len(c) + 1 : mem[d[j]].kind # "setup"
    BY <1>1, <1>2, <1>3, <2>1
  <2>3. QED
    BY <1>1, <1>3, <2>2 DEF FirstSetup, d
<1>4. CASE \E i \in DOMAIN c : /\ h = c[i]
                               /\ mem[h].kind = "setup"
                               /\ \A j \in 1 .. i - 1 : mem[c[j]].kind # "setup"
  <2>1. PICK i \in 1 .. Len(c) : /\ h = c[i]
                                 /\ mem[h].kind = "setup"
                                 /\ \A j \in 1 .. i - 1 : mem[c[j]].kind # "setup"
    BY <1>1, <1>4
  <2>2. i - 1 \in 0 .. Len(c) /\ i + 1 \in DOMAIN d /\ (i - 1) + 1 = i /\ (i + 1) - 1 = i
    BY <1>1
  <2>3. \A j \in 1 .. (i - 1) + 1 : mem[d[j]].kind # "setup"
    BY <1>2, <2>1, <2>2
  <2>4. d[i + 1] = h
    BY <1>1, <2>1
  <2>5. QED
    BY <2>1, <2>2, <2>3, <2>4 DEF FirstSetup, d
<1>5. QED
  BY <1>3, <1>4 DEF FirstSetup

(* A chain that begins with a setup. *)
LEMMA FirstSetupSelf ==
  ASSUME NEW c, NEW mem, 1 \in DOMAIN c, mem[c[1]].kind = "setup"
  PROVE  FirstSetup(c, mem, c[1])
<1>1. \A j \in 1 .. 1 - 1 : FALSE
  OBVIOUS
<1>2. QED
  BY <1>1 DEF FirstSetup

(* A chain has one first setup. *)
LEMMA FirstSetupUnique ==
  ASSUME NEW c \in Seq(Addr), NEW mem, NEW h, NEW g, FirstSetup(c, mem, h), FirstSetup(c, mem, g)
  PROVE  h = g
<1>1. DOMAIN c = 1 .. Len(c) /\ Len(c) \in Nat
  BY LenProperties
<1>2. CASE \A i \in DOMAIN c : mem[c[i]].kind # "setup"
  BY <1>2 DEF FirstSetup
<1>3. CASE \E i \in DOMAIN c : mem[c[i]].kind = "setup"
  <2>1. PICK i \in 1 .. Len(c) : /\ h = c[i]
                                 /\ mem[h].kind = "setup"
                                 /\ \A j \in 1 .. i - 1 : mem[c[j]].kind # "setup"
    BY <1>1, <1>3 DEF FirstSetup
  <2>2. PICK k \in 1 .. Len(c) : /\ g = c[k]
                                 /\ mem[g].kind = "setup"
                                 /\ \A j \in 1 .. k - 1 : mem[c[j]].kind # "setup"
    BY <1>1, <1>3 DEF FirstSetup
  <2>3. ~ (i < k) /\ ~ (k < i)
    BY <1>1, <2>1, <2>2
  <2>4. QED
    BY <1>1, <2>1, <2>2, <2>3
<1>4. QED
  BY <1>2, <1>3

(* FirstIn finds the first setup. *)
LEMMA FirstInIsFirst ==
  ASSUME TypeInv, NEW c \in Seq(Addr), \A k \in DOMAIN c : c[k] \in Live
  PROVE  LET i == FirstIn(c, Setups)
         IN  FirstSetup(c, frame, IF i = 0 THEN None ELSE c[i])
<1> DEFINE hits == {k \in DOMAIN c : c[k] \in Setups}
           i    == FirstIn(c, Setups)
<1>1. DOMAIN c = 1 .. Len(c) /\ Len(c) \in Nat
  BY LenProperties
<1>2. /\ i # 0 => i \in DOMAIN c /\ c[i] \in Setups
      /\ i = 0 => \A k \in DOMAIN c : c[k] \notin Setups
  BY FirstInFinds
<1>3. \A k \in DOMAIN c : c[k] \in Setups <=> frame[c[k]].kind = "setup"
  BY DEF Setups
<1>4. CASE i = 0
  BY <1>2, <1>3, <1>4 DEF FirstSetup
<1>5. CASE i # 0
  <2>1. i = Min(hits) /\ hits # {} /\ hits \subseteq Nat
    BY <1>1, <1>2, <1>5 DEF FirstIn
  <2>2. \A k \in hits : i =< k
    BY <2>1, MinIn
  <2>3. \A k \in 1 .. i - 1 : k \in DOMAIN c /\ ~ (i =< k)
    BY <1>1, <1>2, <1>5
  <2>4. \A k \in 1 .. i - 1 : frame[c[k]].kind # "setup"
    BY <1>3, <2>2, <2>3
  <2>5. frame[c[i]].kind = "setup" /\ i \in DOMAIN c
    BY <1>2, <1>3, <1>5
  <2> HIDE DEF i, hits
  <2>6. FirstSetup(c, frame, c[i])
    BY <2>4, <2>5 DEF FirstSetup
  <2>7. QED
    BY <1>5, <2>6 DEF i
<1>6. QED
  BY <1>4, <1>5

-----------------------------------------------------------------------------
(* Counting *)

LEMMA SetupsInFinite ==
  ASSUME NEW seq, NEW mem, NEW n \in Nat
  PROVE  IsFiniteSet(SetupsIn(seq, mem, n))
<1>1. IsFiniteSet(1 .. n)
  BY FS_Interval
<1>2. SetupsIn(seq, mem, n) \in SUBSET (1 .. n)
  BY DEF SetupsIn
<1>3. QED
  BY <1>1, <1>2, FS_Subset

(* If the setups below the innermost one are counted by its id, all are    *)
(* counted by the next id.                                                 *)
LEMMA CountInnermost ==
  ASSUME NEW seq, NEW mem, NEW n \in Nat, NEW h, Innermost(seq, mem, n, h),
         \A j \in 1 .. n : seq[j] # None,
         \A j \in 1 .. n : mem[seq[j]].kind = "setup" =>
                              mem[seq[j]].id = Cardinality(SetupsIn(seq, mem, j - 1))
  PROVE  Cardinality(SetupsIn(seq, mem, n)) = IF h = None THEN 0 ELSE mem[h].id + 1
<1>1. CASE h = None /\ \A i \in 1 .. n : mem[seq[i]].kind # "setup"
  <2>1. SetupsIn(seq, mem, n) = {}
    BY <1>1 DEF SetupsIn
  <2>2. QED
    BY <1>1, <2>1, FS_EmptySet
<1>2. CASE \E i \in 1 .. n : /\ h = seq[i]
                             /\ mem[h].kind = "setup"
                             /\ \A j \in i + 1 .. n : mem[seq[j]].kind # "setup"
  <2>1. PICK i \in 1 .. n : /\ h = seq[i]
                            /\ mem[h].kind = "setup"
                            /\ \A j \in i + 1 .. n : mem[seq[j]].kind # "setup"
    BY <1>2
  <2> DEFINE S == SetupsIn(seq, mem, i - 1)
  <2>2. i - 1 \in Nat /\ IsFiniteSet(S)
    BY SetupsInFinite
  <2>3. i \notin S
    BY DEF SetupsIn
  <2>4. SetupsIn(seq, mem, n) = S \union {i}
    <3>1. ASSUME NEW j \in SetupsIn(seq, mem, n) PROVE j \in S \union {i}
      <4>1. j \in 1 .. n /\ ~ (j \in i + 1 .. n)
        BY <2>1, <3>1 DEF SetupsIn
      <4>2. j = i \/ j \in 1 .. i - 1
        BY <4>1
      <4>3. QED
        BY <3>1, <4>2 DEF SetupsIn
    <3>2. \A j \in 1 .. i - 1 : j \in 1 .. n
      OBVIOUS
    <3>3. S \union {i} \subseteq SetupsIn(seq, mem, n)
      BY <2>1, <3>2 DEF SetupsIn
    <3>4. QED
      BY <3>1, <3>3
  <2>5. Cardinality(S \union {i}) = Cardinality(S) + 1
    BY <2>2, <2>3, FS_AddElement
  <2>6. mem[h].id = Cardinality(S) /\ h # None
    BY <2>1
  <2>7. QED
    BY <2>4, <2>5, <2>6
<1>3. QED
  BY <1>1, <1>2 DEF Innermost

-----------------------------------------------------------------------------
(* Where chains lead *)

(* Only the m outermost frames matter. *)
LEMMA LeadsSame ==
  ASSUME NEW c \in Seq(Addr), NEW seq, NEW mem, NEW seq2, NEW mem2, NEW m \in Nat,
         Agree(seq, mem, seq2, mem2, m), Outwards(c, seq, m), Leads(c, seq, mem, m)
  PROVE  Leads(c, seq2, mem2, m)
<1>1. DOMAIN c = 1 .. Len(c) /\ Len(c) \in Nat
  BY LenProperties
<1>2. \A j \in 1 .. m : /\ seq2[j] = seq[j]
                        /\ mem2[seq[j]] = mem[seq[j]] /\ mem2[seq2[j]] = mem[seq[j]]
  BY DEF Agree
<1>3. \A k \in DOMAIN c : mem2[c[k]] = mem[c[k]]
  BY <1>2 DEF Outwards
<1>4. \E h : Innermost(seq2, mem2, m, h) /\ FirstSetup(c, mem2, h)
  <2>1. PICK h : Innermost(seq, mem, m, h) /\ FirstSetup(c, mem, h)
    BY DEF Leads
  <2>2. Innermost(seq2, mem2, m, h)
    BY <2>1, InnermostSame
  <2>3. FirstSetup(c, mem2, h)
    <3>1. CASE h = None /\ \A i \in DOMAIN c : mem[c[i]].kind # "setup"
      BY <1>3, <3>1 DEF FirstSetup
    <3>2. CASE \E i \in DOMAIN c : /\ h = c[i]
                                   /\ mem[h].kind = "setup"
                                   /\ \A j \in 1 .. i - 1 : mem[c[j]].kind # "setup"
      <4>1. PICK i \in DOMAIN c : /\ h = c[i]
                                  /\ mem[h].kind = "setup"
                                  /\ \A j \in 1 .. i - 1 : mem[c[j]].kind # "setup"
        BY <3>2
      <4>2. \A j \in 1 .. i - 1 : j \in DOMAIN c
        BY <1>1
      <4>3. mem2[h].kind = "setup" /\ \A j \in 1 .. i - 1 : mem2[c[j]].kind # "setup"
        BY <1>3, <4>1, <4>2
      <4>4. QED
        BY <4>1, <4>3 DEF FirstSetup
    <3>3. QED
      BY <2>1, <3>1, <3>2 DEF FirstSetup
  <2>4. QED
    BY <2>2, <2>3
<1>5. ASSUME NEW p \in 1 .. m PROVE Open(seq2, mem2, p, m) <=> Open(seq, mem, p, m)
  <2>1. \A j \in p + 1 .. m : j \in 1 .. m /\ \A k \in p + 1 .. j - 1 : k \in 1 .. m
    OBVIOUS
  <2>2. QED
    BY <1>2, <2>1 DEF Open
<1>6. \A p \in 1 .. m : mem2[seq2[p]].kind = "alloc" =>
                           (InChain(c, seq2[p]) <=> Open(seq2, mem2, p, m))
  BY <1>2, <1>5 DEF Leads
<1>7. QED
  BY <1>4, <1>6 DEF Leads

(* A new frame that is no callback opens and hides nothing. *)
LEMMA OpenNext ==
  ASSUME NEW seq, NEW mem, NEW m \in Nat, mem[seq[m + 1]].kind # "callback"
  PROVE  /\ \A p \in 1 .. m : Open(seq, mem, p, m + 1) <=> Open(seq, mem, p, m)
         /\ Open(seq, mem, m + 1, m + 1)
<1>1. ASSUME NEW p \in 1 .. m PROVE Open(seq, mem, p, m + 1) <=> Open(seq, mem, p, m)
  <2>1. \A j \in p + 1 .. m + 1 : j \in p + 1 .. m \/ j = m + 1
    OBVIOUS
  <2>2. \A j \in p + 1 .. m : j \in p + 1 .. m + 1
    OBVIOUS
  <2>3. QED
    BY <2>1, <2>2 DEF Open
<1>2. \A j \in (m + 1) + 1 .. m + 1 : FALSE
  OBVIOUS
<1>3. QED
  BY <1>1, <1>2 DEF Open

(* Above an execute or an untracked allocation a scope leads where it did. *)
LEMMA LeadsPlain ==
  ASSUME NEW c, NEW seq, NEW mem, NEW m \in Nat, Leads(c, seq, mem, m),
         mem[seq[m + 1]].kind \notin {"setup", "alloc", "callback"}
  PROVE  Leads(c, seq, mem, m + 1)
<1>1. \E h : Innermost(seq, mem, m + 1, h) /\ FirstSetup(c, mem, h)
  BY InnermostNext DEF Leads
<1>2. \A p \in 1 .. m + 1 : p \in 1 .. m \/ p = m + 1
  OBVIOUS
<1>3. QED
  BY <1>1, <1>2, OpenNext DEF Leads

(* The inner scope of an allocation *)
LEMMA LeadsAlloc ==
  ASSUME NEW c \in Seq(Addr), NEW seq, NEW mem, NEW m \in Nat, Leads(c, seq, mem, m),
         Distinct(seq, m + 1), seq[m + 1] \in Addr, mem[seq[m + 1]].kind = "alloc"
  PROVE  Leads(<<seq[m + 1]>> \o c, seq, mem, m + 1)
<1> DEFINE d == <<seq[m + 1]>> \o c
<1>1. \E h : Innermost(seq, mem, m + 1, h) /\ FirstSetup(d, mem, h)
  <2>1. PICK h : Innermost(seq, mem, m, h) /\ FirstSetup(c, mem, h)
    BY DEF Leads
  <2>2. Innermost(seq, mem, m + 1, h)
    BY <2>1, InnermostNext
  <2>3. FirstSetup(d, mem, h)
    BY <2>1, FirstSetupNext
  <2>4. QED
    BY <2>2, <2>3
<1>2. \A p \in 1 .. m + 1 : p \in 1 .. m \/ p = m + 1
  OBVIOUS
<1>3. \A a : InChain(d, a) <=> a = seq[m + 1] \/ InChain(c, a)
  BY InLongerChain
<1>4. \A p \in 1 .. m : seq[p] # seq[m + 1]
  <2>1. \A p \in 1 .. m : p \in 1 .. m + 1 /\ m + 1 \in 1 .. m + 1 /\ p # m + 1
    OBVIOUS
  <2>2. QED
    BY <2>1 DEF Distinct
<1> HIDE DEF d
<1>5. \A p \in 1 .. m + 1 : mem[seq[p]].kind = "alloc" =>
                               (InChain(d, seq[p]) <=> Open(seq, mem, p, m + 1))
  BY <1>2, <1>3, <1>4, OpenNext DEF Leads
<1>6. QED
  BY <1>1, <1>5 DEF Leads, d

(* The inner scope of a setup *)
LEMMA LeadsSetup ==
  ASSUME NEW c \in Seq(Addr), NEW seq, NEW mem, NEW m \in Nat, Leads(c, seq, mem, m),
         Distinct(seq, m + 1), seq[m + 1] \in Addr, mem[seq[m + 1]].kind = "setup"
  PROVE  Leads(<<seq[m + 1]>> \o c, seq, mem, m + 1)
<1> DEFINE d == <<seq[m + 1]>> \o c
<1>1. Innermost(seq, mem, m + 1, seq[m + 1])
  BY InnermostSelf
<1>2. 1 \in DOMAIN d /\ d[1] = seq[m + 1]
  <2>1. /\ DOMAIN d = 1 .. Len(c) + 1 /\ Len(c) \in Nat
        /\ d[1] = seq[m + 1]
    BY InFront
  <2>2. QED
    BY <2>1
<1>3. \A p \in 1 .. m + 1 : p \in 1 .. m \/ p = m + 1
  OBVIOUS
<1>4. \A a : InChain(d, a) <=> a = seq[m + 1] \/ InChain(c, a)
  BY InLongerChain
<1>5. \A p \in 1 .. m : seq[p] # seq[m + 1]
  <2>1. \A p \in 1 .. m : p \in 1 .. m + 1 /\ m + 1 \in 1 .. m + 1 /\ p # m + 1
    OBVIOUS
  <2>2. QED
    BY <2>1 DEF Distinct
<1> HIDE DEF d
<1>6. FirstSetup(d, mem, seq[m + 1])
  BY <1>2, FirstSetupSelf
<1>7. \A p \in 1 .. m + 1 : mem[seq[p]].kind = "alloc" =>
                               (InChain(d, seq[p]) <=> Open(seq, mem, p, m + 1))
  BY <1>3, <1>4, <1>5, OpenNext DEF Leads
<1>8. QED
  BY <1>1, <1>6, <1>7 DEF Leads, d

(* The scope of a callback: the chain of the innermost setup, at position  *)
(* q, has what was open when the setup was made.                           *)
LEMMA LeadsCallback ==
  ASSUME NEW c \in Seq(Addr), NEW seq, NEW mem, NEW m \in Nat, NEW q \in 1 .. m,
         Leads(c, seq, mem, q), Outwards(c, seq, q), 1 \in DOMAIN c, c[1] = seq[q],
         mem[seq[q]].kind = "setup", \A j \in q + 1 .. m : mem[seq[j]].kind # "setup",
         Distinct(seq, m + 1), seq[m + 1] \in Addr, mem[seq[m + 1]].kind = "callback"
  PROVE  Leads(<<seq[m + 1]>> \o c, seq, mem, m + 1)
<1> DEFINE d == <<seq[m + 1]>> \o c
<1>1. Innermost(seq, mem, m + 1, seq[q])
  <2>1. Innermost(seq, mem, m, seq[q])
    BY DEF Innermost
  <2>2. QED
    BY <2>1, InnermostNext
<1>2. FirstSetup(d, mem, seq[q])
  BY FirstSetupSelf, FirstSetupNext
<1>3. \A a : InChain(d, a) <=> a = seq[m + 1] \/ InChain(c, a)
  BY InLongerChain
<1>4. \A i, j \in 1 .. m + 1 : seq[i] = seq[j] => i = j
  BY DEF Distinct
<1> HIDE DEF d
<1>5. ASSUME NEW p \in 1 .. m + 1, mem[seq[p]].kind = "alloc"
      PROVE  InChain(d, seq[p]) <=> Open(seq, mem, p, m + 1)
  <2>1. p # m + 1 /\ p # q
    BY <1>5
  <2>2. InChain(d, seq[p]) <=> InChain(c, seq[p])
    BY <1>3, <1>4, <2>1
  <2>3. CASE p < q
    <3>1. p \in 1 .. q
      BY <2>3
    <3>2. InChain(c, seq[p]) <=> Open(seq, mem, p, q)
      BY <1>5, <3>1 DEF Leads
    <3>3. ASSUME Open(seq, mem, p, q) PROVE Open(seq, mem, p, m + 1)
      <4> SUFFICES ASSUME NEW j \in p + 1 .. m + 1, mem[seq[j]].kind = "callback"
                   PROVE  \E k \in p + 1 .. j - 1 : mem[seq[k]].kind = "setup"
        BY DEF Open
      <4>1. CASE j \in p + 1 .. q
        BY <3>3, <4>1 DEF Open
      <4>2. CASE j > q
        <5>1. q \in p + 1 .. j - 1
          BY <2>3, <4>2
        <5>2. QED
          BY <5>1
      <4>3. QED
        BY <4>1, <4>2
    <3>4. ASSUME Open(seq, mem, p, m + 1) PROVE Open(seq, mem, p, q)
      <4>1. \A j \in p + 1 .. q : j \in p + 1 .. m + 1
        OBVIOUS
      <4>2. QED
        BY <3>4, <4>1 DEF Open
    <3>5. QED
      BY <2>2, <3>2, <3>3, <3>4
  <2>4. CASE p > q
    <3>1. ~ InChain(c, seq[p])
      <4>1. \A j \in 1 .. q : j \in 1 .. m + 1 /\ j # p
        BY <2>4
      <4>2. \A j \in 1 .. q : seq[j] # seq[p]
        BY <1>4, <4>1
      <4>3. QED
        BY <4>2 DEF InChain, Outwards
    <3>2. \A k \in p + 1 .. (m + 1) - 1 : k \in q + 1 .. m
      BY <2>4
    <3>3. m + 1 \in p + 1 .. m + 1
      BY <2>1
    <3>4. ~ Open(seq, mem, p, m + 1)
      BY <3>2, <3>3 DEF Open
    <3>5. QED
      BY <2>2, <3>1, <3>4
  <2>5. QED
    BY <2>1, <2>3, <2>4
<1>6. QED
  BY <1>1, <1>2, <1>5 DEF Leads, d

-----------------------------------------------------------------------------
(***************************************************************************)
(* The invariant.  Every scope leads where Leads says, and the id of a     *)
(* registration counts the registrations below it.  A callback's scope     *)
(* begins at the head, hence HeadInv, for the thread that callbacks are    *)
(* run on.                                                                 *)
(***************************************************************************)

ScopeChain(n, mem) == IF n = None THEN <<>> ELSE mem[n].chain

Registered(seq, mem, i) ==
    LET f == mem[seq[i]]
    IN  /\ f.kind = "setup" => /\ f.id = Cardinality(SetupsIn(seq, mem, i - 1))
                               /\ 1 \in DOMAIN f.chain /\ f.chain[1] = seq[i]
                               /\ \A r \in Runtimes : f.ctx[r] = seq[i]
        /\ \A r \in Runtimes :
              f.ctx[r] # NoScope => Leads(ScopeChain(f.ctx[r], mem), seq, mem, i)

Numbered == \A t \in Threads : \A i \in 1 .. Len(stack[t]) : Registered(stack[t], frame, i)

IdInv(main) == HeadInv(main) /\ Numbered

(* The chain of a scope within the stack is a chain within the stack. *)
LEMMA ScopeChainOutwards ==
  ASSUME NestInv, NEW t \in Threads, NEW m \in 0 .. Len(stack[t]),
         NEW n \in Below(t, m) \union {None}
  PROVE  /\ ScopeChain(n, frame) = Chain(n)
         /\ Chain(n) \in Seq(Addr)
         /\ Outwards(Chain(n), stack[t], m)
         /\ n # None => n \in Live
<1>1. Len(stack[t]) \in Nat /\ Chain(n) \in Seq(Addr)
  BY StackShape, ChainType DEF NestInv, TypeInv
<1>2. CASE n = None
  <2>1. None \notin Live
    BY NotAddr DEF NestInv, TypeInv, TypeOK
  <2>2. Chain(n) = <<>> /\ DOMAIN <<>> = {}
    BY <1>2, <2>1 DEF Chain
  <2>3. QED
    BY <1>1, <1>2, <2>2 DEF ScopeChain, Outwards
<1>3. CASE n \in Below(t, m)
  <2>1. PICK j \in 1 .. m : n = stack[t][j]
    BY <1>3 DEF Below
  <2>2. j \in 1 .. Len(stack[t]) /\ 1 .. j \subseteq 1 .. m
    BY <1>1
  <2>3. n \in Live /\ n # None
    BY <2>1, <2>2, NotAddr DEF NestInv, TypeInv, StackInv, TypeOK
  <2>4. Within(frame[n], Below(t, j))
    BY <2>1, <2>2 DEF NestInv, Nested
  <2>5. Chain(n) = frame[n].chain /\ ScopeChain(n, frame) = frame[n].chain
    BY <2>3 DEF Chain, ScopeChain
  <2>6. Outwards(Chain(n), stack[t], m)
    BY <2>2, <2>4, <2>5 DEF Within, Outwards, Below
  <2>7. QED
    BY <1>1, <2>3, <2>5, <2>6
<1>4. QED
  BY <1>2, <1>3

(* A frame that stays where it is, on a stack that is the same below it. *)
LEMMA RegisteredSame ==
  ASSUME NEW main, IdInv(main), NEW t \in Threads, NEW i \in 1 .. Len(stack[t]), NEW seq2, NEW mem2,
         Agree(stack[t], frame, seq2, mem2, i)
  PROVE  Registered(seq2, mem2, i)
<1> DEFINE f == frame[stack[t][i]]
<1>1. NestInv /\ TypeInv /\ Len(stack[t]) \in Nat /\ i \in Nat /\ i \in 0 .. Len(stack[t])
      /\ i \in 1 .. i
  BY StackShape DEF IdInv, HeadInv, NestInv, TypeInv
<1>2. \A j \in 1 .. i : seq2[j] = stack[t][j] /\ mem2[stack[t][j]] = frame[stack[t][j]]
  BY DEF Agree
<1>3. mem2[seq2[i]] = f /\ seq2[i] = stack[t][i]
  BY <1>1, <1>2
<1>4. SetupsIn(seq2, mem2, i - 1) = SetupsIn(stack[t], frame, i - 1)
  <2>1. \A j \in 1 .. i - 1 : j \in 1 .. i
    BY <1>1
  <2>2. QED
    BY <1>2, <2>1 DEF SetupsIn
<1>5. Registered(stack[t], frame, i)
  BY DEF IdInv, Numbered
<1>6. ASSUME NEW r \in Runtimes, f.ctx[r] # NoScope
      PROVE  Leads(ScopeChain(f.ctx[r], mem2), seq2, mem2, i)
  <2> DEFINE n == f.ctx[r]
  <2>1. n \in Below(t, i) \union {None}
    BY <1>1, <1>6 DEF NestInv, Nested, Within
  <2>2. /\ ScopeChain(n, frame) = Chain(n) /\ Chain(n) \in Seq(Addr)
        /\ Outwards(Chain(n), stack[t], i)
    BY <1>1, <2>1, ScopeChainOutwards
  <2>3. Leads(Chain(n), stack[t], frame, i)
    BY <1>5, <1>6, <2>2 DEF Registered
  <2>4. Leads(Chain(n), seq2, mem2, i)
    BY <1>1, <2>2, <2>3, LeadsSame
  <2>5. ScopeChain(n, mem2) = Chain(n)
    <3>1. n # None => mem2[n] = frame[n]
      BY <1>2, <2>1 DEF Below
    <3>2. QED
      BY <2>2, <3>1 DEF ScopeChain
  <2>6. QED
    BY <2>4, <2>5
<1>7. f.kind = "setup" => /\ f.id = Cardinality(SetupsIn(seq2, mem2, i - 1))
                          /\ 1 \in DOMAIN f.chain /\ f.chain[1] = seq2[i]
                          /\ \A r \in Runtimes : f.ctx[r] = seq2[i]
  BY <1>3, <1>4, <1>5 DEF Registered
<1>8. QED
  BY <1>3, <1>6, <1>7 DEF Registered

(* The scope of the running code. *)
LEMMA CtxLeads ==
  ASSUME NEW main, IdInv(main), NEW t \in Threads, NEW r \in Runtimes, Ctx(t)[r] # NoScope
  PROVE  /\ Ctx(t)[r] \in Below(t, Len(stack[t])) \union {None}
         /\ Chain(Ctx(t)[r]) \in Seq(Addr)
         /\ Outwards(Chain(Ctx(t)[r]), stack[t], Len(stack[t]))
         /\ Leads(Chain(Ctx(t)[r]), stack[t], frame, Len(stack[t]))
<1> DEFINE n == Ctx(t)[r]
           m == Len(stack[t])
<1>1. NestInv /\ TypeInv /\ m \in Nat /\ m \in 0 .. m
  BY StackShape DEF IdInv, HeadInv, NestInv, TypeInv
<1>2. n \in Below(t, m) \union {None}
  BY <1>1, CtxBelow
<1>3. /\ ScopeChain(n, frame) = Chain(n) /\ Chain(n) \in Seq(Addr)
      /\ Outwards(Chain(n), stack[t], m)
      /\ n # None => n \in Live
  BY <1>1, <1>2, ScopeChainOutwards
<1>4. CASE stack[t] = <<>>
  <2>1. m = 0 /\ n = None
    BY <1>4 DEF Ctx
  <2>2. Chain(n) = <<>> /\ DOMAIN <<>> = {} /\ 1 .. m = {}
    BY <1>3, <2>1 DEF ScopeChain
  <2>3. Innermost(stack[t], frame, m, None) /\ FirstSetup(Chain(n), frame, None)
    BY <2>2 DEF Innermost, FirstSetup
  <2>4. QED
    BY <1>2, <1>3, <2>2, <2>3 DEF Leads
<1>5. CASE stack[t] # <<>>
  <2>1. m \in 1 .. m /\ n = frame[stack[t][m]].ctx[r]
    BY <1>1, <1>5, StackShape DEF Ctx, Top, TypeInv
  <2>2. Registered(stack[t], frame, m)
    BY <2>1 DEF IdInv, Numbered
  <2>3. Leads(Chain(n), stack[t], frame, m)
    BY <1>3, <2>1, <2>2 DEF Registered
  <2>4. QED
    BY <1>2, <1>3, <2>3
<1>6. QED
  BY <1>4, <1>5

(* The next id counts the registrations on the stack. *)
LEMMA NextIdCounts ==
  ASSUME NEW main, IdInv(main), NEW t \in Threads, NEW r \in Runtimes, Ctx(t)[r] # NoScope
  PROVE  NextCallbackId(Ctx(t)[r]) = Cardinality(SetupsIn(stack[t], frame, Len(stack[t])))
<1> DEFINE c == Chain(Ctx(t)[r])
           m == Len(stack[t])
           i == FirstIn(c, Setups)
           g == IF i = 0 THEN None ELSE c[i]
<1>1. TypeInv /\ m \in Nat /\ \A j \in 1 .. m : stack[t][j] \in Live /\ stack[t][j] # None
  <2>1. TypeInv /\ TypeOK /\ StackInv
    BY DEF IdInv, HeadInv, NestInv, TypeInv
  <2>2. m \in Nat
    BY <2>1, StackShape
  <2>3. None \notin Live
    BY <2>1, NotAddr DEF TypeOK
  <2>4. \A j \in 1 .. m : stack[t][j] \in Live
    BY <2>1 DEF StackInv
  <2>5. QED
    BY <2>1, <2>2, <2>3, <2>4
<1>2. c \in Seq(Addr) /\ Outwards(c, stack[t], m) /\ Leads(c, stack[t], frame, m)
  BY CtxLeads
<1>3. \A k \in DOMAIN c : c[k] \in Live /\ c[k] # None
  BY <1>1, <1>2 DEF Outwards
<1>4. PICK h : Innermost(stack[t], frame, m, h) /\ FirstSetup(c, frame, h)
  BY <1>2 DEF Leads
<1>5. FirstSetup(c, frame, g)
  BY <1>1, <1>2, <1>3, FirstInIsFirst
<1>6. h = g
  <2> HIDE DEF c, g
  <2>1. QED
    BY <1>2, <1>4, <1>5, FirstSetupUnique
<1>7. NextCallbackId(Ctx(t)[r]) = IF i = 0 THEN 0 ELSE frame[c[i]].id + 1
  BY DEF NextCallbackId
<1>8. i # 0 => c[i] # None
  BY <1>2, <1>3, FirstInFinds
<1>9. Cardinality(SetupsIn(stack[t], frame, m)) = IF h = None THEN 0 ELSE frame[h].id + 1
  <2>1. \A j \in 1 .. m : frame[stack[t][j]].kind = "setup" =>
           frame[stack[t][j]].id = Cardinality(SetupsIn(stack[t], frame, j - 1))
    BY DEF IdInv, Numbered, Registered
  <2>2. QED
    BY <1>1, <1>4, <2>1, CountInnermost
<1> HIDE DEF i, c
<1>10. QED
  BY <1>6, <1>7, <1>8, <1>9

-----------------------------------------------------------------------------
(* Steps *)

(* A new frame is registered on top of the stack. *)
LEMMA PushedRegistered ==
  ASSUME OneRuntime, NEW main, IdInv(main), NEW t \in Threads,
         NEW f, PushedFrame(t, f), f.kind = "callback" => t = main, Fresh # {},
         NEW seq, NEW mem, Agree(stack[t], frame, seq, mem, Len(stack[t])),
         seq[Len(stack[t]) + 1] = NewAddr, mem[NewAddr] = f
  PROVE  Registered(seq, mem, Len(stack[t]) + 1)
<1> DEFINE m == Len(stack[t])
<1>1. /\ NestInv /\ TypeInv /\ TypeOK /\ StackInv
      /\ m \in Nat /\ (m + 1) - 1 = m /\ m \in 0 .. m
      /\ NewAddr \in Addr /\ NewAddr \notin Live /\ NewAddr # None /\ NewAddr # NoScope
  BY StackShape, NewAddrFresh, NotAddr DEF IdInv, HeadInv, NestInv, TypeInv
<1>2. mem[seq[m + 1]] = f /\ seq[m + 1] \in Addr
  BY <1>1
<1>3. Distinct(seq, m + 1)
  <2>1. \A j \in 1 .. m + 1 : j \in 1 .. m \/ j = m + 1
    BY <1>1
  <2>2. \A j \in 1 .. m : seq[j] = stack[t][j] /\ stack[t][j] \in Live
    BY <1>1 DEF Agree, StackInv
  <2>3. \A i, j \in 1 .. m : stack[t][i] = stack[t][j] => i = j
    BY <1>1 DEF StackInv
  <2>4. QED
    BY <1>1, <2>1, <2>2, <2>3 DEF Distinct
<1>4. ASSUME NEW r \in Runtimes, Ctx(t)[r] # NoScope
      PROVE  /\ Chain(Ctx(t)[r]) \in Seq(Addr)
             /\ Leads(Chain(Ctx(t)[r]), seq, mem, m)
  BY <1>1, <1>4, CtxLeads, LeadsSame
<1>5. SetupsIn(seq, mem, m) = SetupsIn(stack[t], frame, m)
  BY DEF SetupsIn, Agree
<1>6. ScopeChain(NewAddr, mem) = f.chain
  BY <1>1 DEF ScopeChain
<1>7. Ctx(t) \in [Runtimes -> Scope]
  BY <1>1, CtxType
<1>8. \A r, s \in Runtimes : r = s
  BY DEF OneRuntime
<1>9. ASSUME NEW r \in Runtimes, NEW s \in Runtimes, NEW cap, Ctx(t)[s] # NoScope,
             f = SetupFrame(t, r, s, cap)
      PROVE  Registered(seq, mem, m + 1)
  <2> DEFINE c == Chain(Ctx(t)[s])
  <2>1. /\ f.kind = "setup" /\ f.chain = <<NewAddr>> \o c
        /\ f.id = NextCallbackId(Ctx(t)[s])
        /\ \A q \in Runtimes : f.ctx[q] = NewAddr
    BY <1>8, <1>9 DEF SetupFrame, PlainFrame
  <2>2. c \in Seq(Addr) /\ Leads(c, seq, mem, m)
    BY <1>4, <1>9
  <2>3. Leads(<<seq[m + 1]>> \o c, seq, mem, m + 1)
    <3> HIDE DEF c, m
    <3>1. QED
      BY <1>1, <1>2, <1>3, <2>1, <2>2, LeadsSetup
  <2>4. f.id = Cardinality(SetupsIn(seq, mem, (m + 1) - 1))
    BY <1>1, <1>5, <1>9, <2>1, NextIdCounts
  <2>5. 1 \in DOMAIN f.chain /\ f.chain[1] = NewAddr
    <3>1. /\ DOMAIN (<<NewAddr>> \o c) = 1 .. Len(c) + 1 /\ Len(c) \in Nat
          /\ (<<NewAddr>> \o c)[1] = NewAddr
      BY <1>1, <2>2, InFront
    <3>2. QED
      BY <2>1, <3>1
  <2>6. QED
    BY <1>2, <1>6, <2>1, <2>3, <2>4, <2>5 DEF Registered
<1>10. ASSUME NEW r \in Runtimes, NEW s \in Runtimes, f = ExecuteFrame(t, r, s)
       PROVE  Registered(seq, mem, m + 1)
  <2>1. f.kind = "exec" /\ \A q \in Runtimes : f.ctx[q] = NoScope
    BY <1>7, <1>8, <1>10 DEF ExecuteFrame, PlainFrame
  <2>2. QED
    BY <1>2, <2>1 DEF Registered
<1>11. ASSUME NEW r \in Runtimes, NEW id \in Nat, Callee(id) \in Addr, f = CallbackFrame(r, id)
       PROVE  Registered(seq, mem, m + 1)
  <2> DEFINE c == Chain(head)
  <2>1. head \in Live /\ Callee(id) \in Live /\ frame[head].brand \in Runtimes
        /\ frame[Callee(id)].captured \in [Runtimes -> Scope]
    BY <1>1, <1>11, CalleeFound, FrameFields DEF Setups, TypeOK
  <2>2. /\ f.kind = "callback" /\ f.chain = <<NewAddr>> \o c
        /\ \A q \in Runtimes : f.ctx[q] = NewAddr
    BY <1>8, <1>11, <2>1 DEF CallbackFrame, PlainFrame
  <2>3. PICK q \in 1 .. m : /\ head = stack[t][q]
                            /\ frame[head].kind = "setup"
                            /\ \A j \in q + 1 .. m : frame[stack[t][j]].kind # "setup"
    <3>1. Innermost(stack[t], frame, m, head)
      BY <2>2 DEF IdInv, HeadInv, Heads
    <3>2. head # None
      BY <1>1, <2>1, NotAddr DEF TypeOK
    <3>3. QED
      BY <3>1, <3>2 DEF Innermost
  <2>4. /\ 1 \in DOMAIN c /\ c[1] = head
        /\ frame[head].ctx[r] = head
        /\ Leads(ScopeChain(head, frame), stack[t], frame, q)
    <3>1. Registered(stack[t], frame, q)
      BY <2>3 DEF IdInv, Numbered
    <3>2. frame[head].ctx[r] = head /\ 1 \in DOMAIN frame[head].chain /\ frame[head].chain[1] = head
      BY <2>3, <3>1 DEF Registered
    <3>3. head # NoScope
      BY <1>1, <2>1, NotAddr DEF TypeOK
    <3>4. Leads(ScopeChain(head, frame), stack[t], frame, q)
      BY <2>3, <3>1, <3>2, <3>3 DEF Registered
    <3>5. QED
      BY <2>1, <3>2, <3>4 DEF Chain
  <2>5. ScopeChain(head, frame) = c /\ c \in Seq(Addr) /\ Outwards(c, stack[t], q)
        /\ q \in Nat /\ q \in 0 .. m
    <3>1. q \in Nat /\ q \in 0 .. m /\ q \in 1 .. q
      BY <1>1
    <3>2. head \in Below(t, q)
      BY <2>3, <3>1 DEF Below
    <3>3. QED
      BY <1>1, <3>1, <3>2, ScopeChainOutwards
  <2>6. \A j \in 1 .. m : seq[j] = stack[t][j] /\ mem[stack[t][j]] = frame[stack[t][j]]
    BY DEF Agree
  <2>7. Agree(stack[t], frame, seq, mem, q)
    <3>1. \A j \in 1 .. q : j \in 1 .. m
      BY <1>1
    <3>2. QED
      BY <2>6, <3>1 DEF Agree
  <2>8. Leads(c, seq, mem, q) /\ Outwards(c, seq, q)
    <3> HIDE DEF c
    <3>1. Leads(c, seq, mem, q)
      BY <2>4, <2>5, <2>7, LeadsSame
    <3>2. Outwards(c, seq, q)
      BY <2>5, <2>7 DEF Outwards, Agree
    <3>3. QED
      BY <3>1, <3>2
  <2>9. /\ c[1] = seq[q] /\ mem[seq[q]].kind = "setup"
        /\ \A j \in q + 1 .. m : mem[seq[j]].kind # "setup"
    <3>1. \A j \in q + 1 .. m : j \in 1 .. m
      BY <1>1
    <3>2. QED
      BY <2>3, <2>4, <2>6, <3>1
  <2>10. Leads(<<seq[m + 1]>> \o c, seq, mem, m + 1)
    <3> HIDE DEF c, m
    <3>1. QED
      BY <1>1, <1>2, <1>3, <2>2, <2>4, <2>5, <2>8, <2>9, LeadsCallback
  <2>11. QED
    BY <1>2, <1>6, <2>2, <2>10 DEF Registered
<1>12. ASSUME NEW r \in Runtimes, NEW s \in Runtimes, NEW region, NEW mutable,
              Ctx(t)[s] # NoScope, f = AllocFrame(t, r, s, region, mutable)
       PROVE  Registered(seq, mem, m + 1)
  <2> DEFINE c == Chain(Ctx(t)[s])
  <2>1. /\ f.kind = "alloc" /\ f.chain = <<NewAddr>> \o c
        /\ \A q \in Runtimes : f.ctx[q] = NewAddr
    BY <1>7, <1>8, <1>12 DEF AllocFrame, PlainFrame
  <2>2. c \in Seq(Addr) /\ Leads(c, seq, mem, m)
    BY <1>4, <1>12
  <2>3. Leads(<<seq[m + 1]>> \o c, seq, mem, m + 1)
    <3> HIDE DEF c, m
    <3>1. QED
      BY <1>1, <1>2, <1>3, <2>1, <2>2, LeadsAlloc
  <2>4. QED
    BY <1>2, <1>6, <2>1, <2>3 DEF Registered
<1>13. ASSUME NEW r \in Runtimes, NEW region, f = RawFrame(t, r, region)
       PROVE  Registered(seq, mem, m + 1)
  <2>1. f.kind = "raw" /\ f.ctx = Ctx(t)
    BY <1>13 DEF RawFrame, PlainFrame
  <2>2. ASSUME NEW q \in Runtimes, f.ctx[q] # NoScope
        PROVE  Leads(ScopeChain(f.ctx[q], mem), seq, mem, m + 1)
    <3> DEFINE n == Ctx(t)[q]
    <3>1. Leads(Chain(n), seq, mem, m)
      BY <1>4, <2>1, <2>2
    <3>2. Leads(Chain(n), seq, mem, m + 1)
      <4> HIDE DEF n, m
      <4>1. QED
        BY <1>1, <1>2, <2>1, <3>1, LeadsPlain
    <3>3. n \in Below(t, m) \union {None}
      BY <1>1, <2>1, <2>2, CtxBelow
    <3>4. ScopeChain(n, frame) = Chain(n)
      BY <1>1, <3>3, ScopeChainOutwards
    <3>5. n # None => mem[n] = frame[n]
      BY <3>3 DEF Below, Agree
    <3>6. QED
      BY <2>1, <3>2, <3>4, <3>5 DEF ScopeChain
  <2>3. QED
    BY <1>2, <2>1, <2>2 DEF Registered
<1>14. QED
  BY <1>9, <1>10, <1>11, <1>12, <1>13 DEF PushedFrame

(* The frames of a stack that a step does not change. *)
LEMMA RegisteredElsewhere ==
  ASSUME NEW main, IdInv(main), NEW u \in Threads, NEW i \in 1 .. Len(stack'[u]),
         stack'[u] = stack[u],
         \A j \in 1 .. Len(stack[u]) : frame'[stack[u][j]] = frame[stack[u][j]]
  PROVE  Registered(stack'[u], frame', i)
<1>1. Len(stack[u]) \in Nat
  BY StackShape DEF IdInv, HeadInv, NestInv, TypeInv
<1>2. Agree(stack[u], frame, stack'[u], frame', i) /\ i \in 1 .. Len(stack[u])
  BY <1>1 DEF Agree
<1>3. QED
  BY <1>2, RegisteredSame

LEMMA NumberedPush ==
  ASSUME OneRuntime, NEW main, IdInv(main), CallbacksOn(main)', NEW t \in Threads, PushStep(t)
  PROVE  Numbered'
<1> DEFINE m == Len(stack[t])
<1>1. TypeOK /\ StackInv /\ m \in Nat
  BY StackShape DEF IdInv, HeadInv, NestInv, TypeInv
<1>2. PICK f : PushedFrame(t, f) /\ Push(t, f)
  BY DEF PushStep
<1>3. /\ Len(stack'[t]) = m + 1
      /\ stack'[t][m + 1] = NewAddr
      /\ \A j \in 1 .. m : stack'[t][j] = stack[t][j]
      /\ frame'[NewAddr] = f
      /\ \A a \in Live : frame'[a] = frame[a]
  BY <1>1, <1>2, PushEffect
<1>4. \A j \in 1 .. m : stack'[t][j] = stack[t][j] /\ frame'[stack[t][j]] = frame[stack[t][j]]
  BY <1>1, <1>3 DEF StackInv
<1>5. Fresh # {}
  BY <1>2 DEF Push
<1>6. f.kind = "callback" => t = main
  <2>1. Len(stack'[t]) \in 1 .. Len(stack'[t])
    BY <1>1, <1>3
  <2>2. QED
    BY <1>1, <1>3, <2>1 DEF CallbacksOn
<1>7. Registered(stack'[t], frame', m + 1)
  <2>1. Agree(stack[t], frame, stack'[t], frame', m)
    BY <1>4 DEF Agree
  <2>2. QED
    BY <1>2, <1>3, <1>5, <1>6, <2>1, PushedRegistered
<1>8. ASSUME NEW i \in 1 .. m PROVE Registered(stack'[t], frame', i)
  <2>1. Agree(stack[t], frame, stack'[t], frame', i)
    BY <1>1, <1>4 DEF Agree
  <2>2. QED
    BY <2>1, RegisteredSame
<1>9. \A i \in 1 .. Len(stack'[t]) : i \in 1 .. m \/ i = m + 1
  BY <1>1, <1>3
<1>10. ASSUME NEW u \in Threads \ {t}, NEW i \in 1 .. Len(stack'[u])
       PROVE  Registered(stack'[u], frame', i)
  <2>1. stack'[u] = stack[u] /\ \A a \in Live : frame'[a] = frame[a]
    BY <1>1, <1>2, PushEffect
  <2>2. \A j \in 1 .. Len(stack[u]) : frame'[stack[u][j]] = frame[stack[u][j]]
    BY <1>1, <2>1 DEF StackInv
  <2>3. QED
    BY <2>1, <2>2, RegisteredElsewhere
<1>11. QED
  BY <1>3, <1>7, <1>8, <1>9, <1>10 DEF Numbered

LEMMA NumberedReturn ==
  ASSUME NEW main, IdInv(main), NEW t \in Threads, ReturnStep(t)
  PROVE  Numbered'
<1> DEFINE n == Len(stack[t]) - 1
<1>1. TypeInv
  BY DEF IdInv, HeadInv, NestInv
<1>2. n \in Nat /\ n \in 0 .. Len(stack[t]) /\ \A j \in 1 .. n : j \in 1 .. Len(stack[t])
  BY <1>1, StackShape DEF TypeInv, ReturnStep
<1>3. /\ Len(stack'[t]) = n
      /\ \A i \in 1 .. n : stack'[t][i] = stack[t][i]
      /\ \A a \in Live' : frame'[a] = frame[a]
      /\ StackInv'
  BY <1>1, <1>2, PopEffect, PopStack DEF ReturnStep
<1>4. \A j \in 1 .. n : stack'[t][j] = stack[t][j] /\ frame'[stack[t][j]] = frame[stack[t][j]]
  BY <1>3 DEF StackInv
<1>5. ASSUME NEW i \in 1 .. n PROVE Registered(stack'[t], frame', i)
  <2>1. Agree(stack[t], frame, stack'[t], frame', i) /\ i \in 1 .. Len(stack[t])
    BY <1>2, <1>4 DEF Agree
  <2>2. QED
    BY <2>1, RegisteredSame
<1>6. ASSUME NEW u \in Threads \ {t}, NEW i \in 1 .. Len(stack'[u])
      PROVE  Registered(stack'[u], frame', i)
  <2>1. stack'[u] = stack[u]
    BY <1>1, <1>2, PopEffect DEF ReturnStep
  <2>2. \A j \in 1 .. Len(stack[u]) : frame'[stack[u][j]] = frame[stack[u][j]]
    BY <1>3, <2>1 DEF StackInv
  <2>3. QED
    BY <2>1, <2>2, RegisteredElsewhere
<1>7. QED
  BY <1>3, <1>5, <1>6 DEF Numbered

LEMMA IdStep ==
  ASSUME NEW main \in Threads, OneRuntime, ~ Unwinds
  PROVE  IdInv(main) /\ CallbacksOn(main) /\ CallbacksOn(main)' /\ [Next]_vars => IdInv(main)'
<1> SUFFICES ASSUME IdInv(main), CallbacksOn(main), CallbacksOn(main)', [Next]_vars
             PROVE  IdInv(main)'
  OBVIOUS
<1>1. HeadInv(main)'
  BY HeadStep DEF IdInv
<1>2. StepShape
  BY NextShape DEF IdInv, HeadInv, NestInv
<1>3. CASE UNCHANGED <<stack, frame, head>>
  BY <1>1, <1>3 DEF IdInv, Numbered
<1>4. ASSUME NEW t \in Threads, PushStep(t) \/ ReturnStep(t) PROVE Numbered'
  BY <1>4, NumberedPush, NumberedReturn
<1>5. QED
  BY <1>1, <1>2, <1>3, <1>4 DEF StepShape, UnwindStep, IdInv

LEMMA IdInvariance ==
  ASSUME NEW main \in Threads, OneRuntime, ~ Unwinds
  PROVE  Spec /\ []CallbacksOn(main) => []IdInv(main)
<1>1. Init => IdInv(main)
  BY NestInit DEF Init, IdInv, HeadInv, Heads, Innermost, Numbered
<1>2. QED
  BY <1>1, IdStep, PTL DEF Spec

(* If there is one runtime, callbacks stay on one thread and panics abort,  *)
(* the registrations on every stack have the ids 0, 1, 2, ..., so that no   *)
(* two share a trampoline, however deep calls and callbacks nest.           *)
THEOREM IdsDense ==
  ASSUME NEW main \in Threads, OneRuntime, ~ Unwinds
  PROVE  Spec /\ []CallbacksOn(main) => []RegistrationIdsDense
<1>1. IdInv(main) => RegistrationIdsDense
  <2> SUFFICES ASSUME IdInv(main), NEW t \in Threads, NEW i \in DOMAIN stack[t],
                      frame[stack[t][i]].kind = "setup"
               PROVE  frame[stack[t][i]].id =
                          Cardinality({j \in 1 .. i - 1 : frame[stack[t][j]].kind = "setup"})
    BY DEF RegistrationIdsDense
  <2>1. i \in 1 .. Len(stack[t])
    BY StackShape DEF IdInv, HeadInv, NestInv, TypeInv
  <2>2. Registered(stack[t], frame, i)
    BY <2>1 DEF IdInv, Numbered
  <2>3. QED
    BY <2>2 DEF Registered, SetupsIn
<1>2. QED
  BY <1>1, IdInvariance, PTL

(* In such a program code of any thread can upgrade exactly the            *)
(* allocations between which and every callback running above them a       *)
(* setup_callback was made.                                                *)
THEOREM UpgradesInWindow ==
  ASSUME NEW main \in Threads, OneRuntime, ~ Unwinds
  PROVE  Spec /\ []CallbacksOn(main) => []UpgradeWindow
<1>1. IdInv(main) => UpgradeWindow
  <2> SUFFICES ASSUME IdInv(main), NEW t \in Threads, NEW r \in Runtimes, Ctx(t)[r] # NoScope,
                      NEW i \in DOMAIN stack[t], frame[stack[t][i]].kind = "alloc"
               PROVE  IsValid(Ctx(t)[r], stack[t][i], FALSE) <=>
                          \A j \in i + 1 .. Len(stack[t]) :
                              frame[stack[t][j]].kind = "callback" =>
                                  \E k \in i + 1 .. j - 1 : frame[stack[t][k]].kind = "setup"
    BY DEF UpgradeWindow
  <2>1. i \in 1 .. Len(stack[t])
    BY StackShape DEF IdInv, HeadInv, NestInv, TypeInv
  <2>2. Leads(Chain(Ctx(t)[r]), stack[t], frame, Len(stack[t]))
    BY CtxLeads
  <2>3. InChain(Chain(Ctx(t)[r]), stack[t][i]) <=> Open(stack[t], frame, i, Len(stack[t]))
    BY <2>1, <2>2 DEF Leads
  <2>4. IsValid(Ctx(t)[r], stack[t][i], FALSE) <=> InChain(Chain(Ctx(t)[r]), stack[t][i])
    BY DEF IsValid, InChain
  <2>5. QED
    BY <2>3, <2>4 DEF Open
<1>2. QED
  BY <1>1, IdInvariance, PTL
=============================================================================
