------------------------ MODULE DecisionLedgerProofs ------------------------
(***************************************************************************)
(* What holds of the decision ledger for every set of proposals, people,   *)
(* agents and processes, and for every bound.                              *)
(***************************************************************************)
EXTENDS DecisionLedger, FiniteSetTheorems, SequenceTheorems,
  WellFoundedInduction, TLAPS

\* A file without its last entry is one entry shorter.
LEMMA FrontLength ==
  ASSUME NEW S, NEW s \in Seq(S), s # <<>>
  PROVE  Len(SubSeq(s, 1, Len(s) - 1)) = Len(s) - 1
<1> DEFINE n == Len(s) - 1
<1>1. n \in Nat /\ \A i \in 1 .. n : s[i] \in S
  OBVIOUS
<1> HIDE DEF n
<1>2. Len(SubSeq(s, 1, n)) = IF 1 <= n THEN (n - 1) + 1 ELSE 0
  <2>1. 1 \in Int /\ n \in Int
    BY <1>1
  <2>2. \A T, t : \A k \in Int, m \in Int :
          (\A i \in k .. m : t[i] \in T)
            => Len(SubSeq(t, k, m)) = IF k <= m THEN m - k + 1 ELSE 0
    BY SubSeqProperties
  <2> QED
    BY <1>1, <2>1, <2>2
<1>3. Len(SubSeq(s, 1, n)) = n
  BY <1>1, <1>2
<1> QED
  BY <1>3 DEF n

(* Whatever reaches the file, and whatever it is glued to, the entries     *)
(* that can be read are entries.                                           *)
LEMMA WriteKeepsTypes ==
  ASSUME ledger \in Seq(Entry), tail \in Written, garbled \in BOOLEAN,
         tail = "entry" => ledger # <<>>,
         NEW e \in Entry, NEW upto \in Written, Write(e, upto)
  PROVE  /\ ledger' \in Seq(Entry) /\ tail' \in Written /\ garbled' \in BOOLEAN
         /\ tail' = "entry" => ledger' # <<>>
<1>1. CASE tail = "line"
  BY <1>1 DEF Write, Written
<1>2. CASE tail = "entry"
  <2>1. Len(ledger) \in Nat /\ Len(ledger) # 0
    BY <1>2
  <2>2. SubSeq(ledger, 1, Len(ledger) - 1) \in Seq(Entry)
    BY <2>1
  <2> QED
    BY <1>2, <2>2 DEF Write, Written
<1>3. CASE tail = "part"
  BY <1>3 DEF Write, Written
<1> QED
  BY <1>1, <1>2, <1>3 DEF Written

(* No step of an agent, and none of recordDecision, leaves a state that is  *)
(* not well typed.                                                         *)
LEMMA StepKeepsTypes ==
  ASSUME TypeOK, [Next]_vars
  PROVE  TypeOK'
<1> USE BoundsAssumption, NamesAssumption DEF TypeOK
<1>1. ASSUME NEW p \in Proposal, NEW v \in Version, Propose(p, v)
      PROVE  TypeOK'
  <2>1. v \in 0 .. MaxVersion
    BY DEF Version
  <2> QED
    BY <1>1, <2>1 DEF Propose
<1>2. ASSUME NEW p \in Proposal, RaiseRequest(p)
      PROVE  TypeOK'
  BY <1>2 DEF RaiseRequest
<1>3. CASE LoseRecords
  BY <1>3 DEF LoseRecords
<1>4. ASSUME NEW w \in Writer, NEW p \in Proposal, NEW outcome \in Outcome,
             NEW who \in Name, CheckRecords(w, p, outcome, who)
      PROVE  TypeOK'
  <2> DEFINE e == [proposal |-> p, version |-> store[p], outcome |-> outcome,
                   by |-> who, after |-> 0]
  <2>1. e \in Entry
    BY <1>4 DEF CheckRecords, MayDecide, Entry, Version
  <2>2. draft' = [draft EXCEPT ![w] = e] /\ pc' = [pc EXCEPT ![w] = "checked"]
    BY <1>4 DEF CheckRecords
  <2> QED
    BY <1>4, <2>1, <2>2 DEF CheckRecords
<1>5. ASSUME NEW w \in Writer, ReadLedger(w)
      PROVE  TypeOK'
  <2> DEFINE n == Len(ledger)
  <2>0. draft[w] \in Entry /\ n \in Nat
    BY <1>5 DEF ReadLedger
  <2> HIDE DEF n
  <2>1. [draft[w] EXCEPT !.after = n] \in Entry
    BY <2>0 DEF Entry
  <2>2. draft' = [draft EXCEPT ![w] = [draft[w] EXCEPT !.after = n]]
    BY <1>5 DEF ReadLedger, n
  <2> QED
    BY <1>5, <2>1, <2>2 DEF ReadLedger
<1>6. ASSUME NEW w \in Writer, RefuseLedger(w)
      PROVE  TypeOK'
  BY <1>6 DEF RefuseLedger, Abandon
<1>7. ASSUME NEW w \in Writer, AppendEntry(w)
      PROVE  TypeOK'
  <2>1. draft[w] \in Entry /\ Write(draft[w], "line")
    BY <1>7 DEF AppendEntry
  <2>2. /\ ledger' \in Seq(Entry) /\ tail' \in Written /\ garbled' \in BOOLEAN
        /\ tail' = "entry" => ledger' # <<>>
    BY <2>1, WriteKeepsTypes DEF Written
  <2> QED
    BY <1>7, <2>2 DEF AppendEntry, Abandon
<1>8. ASSUME NEW w \in Writer, Die(w)
      PROVE  TypeOK'
  <2>1. CASE UNCHANGED <<ledger, tail, garbled>>
    BY <1>8, <2>1 DEF Die, Abandon
  <2>2. ASSUME NEW upto \in {"part", "entry"}, Write(draft[w], upto),
               pc[w] = "verified"
        PROVE  TypeOK'
    <3>1. draft[w] \in Entry
      BY <2>2
    <3>2. /\ ledger' \in Seq(Entry) /\ tail' \in Written /\ garbled' \in BOOLEAN
          /\ tail' = "entry" => ledger' # <<>>
      BY <2>2, <3>1, WriteKeepsTypes DEF Written
    <3> QED
      BY <1>8, <3>2 DEF Die, Abandon
  <2> QED
    BY <1>8, <2>1, <2>2 DEF Die
<1>9. CASE UNCHANGED vars
  BY <1>9 DEF vars
<1> QED
  BY <1>1, <1>2, <1>3, <1>4, <1>5, <1>6, <1>7, <1>8, <1>9
  DEF Next, Agents, Deciding

(* An empty ledger and idle processes are well typed.                      *)
LEMMA StartIsTyped == Init => TypeOK
<1> SUFFICES ASSUME Init PROVE TypeOK
  OBVIOUS
<1>1. ledger \in Seq(Entry) /\ tail = "line"
  BY DEF Init
<1>2. /\ store \in [Proposal -> 0 .. MaxVersion]
      /\ latest \in [Proposal -> 0 .. MaxVersion]
      /\ requests \in [Proposal -> 0 .. MaxRequests]
  BY BoundsAssumption DEF Init
<1>3. /\ tail \in Written /\ garbled \in BOOLEAN
      /\ pc \in [Writer -> {"idle", "checked", "verified"}]
      /\ draft \in [Writer -> Entry \cup {NoDraft}]
      /\ \A w \in Writer : pc[w] = "idle"
      /\ recorded \in Nat
  BY DEF Init, Written
<1> QED
  BY <1>1, <1>2, <1>3 DEF TypeOK

(* Every state of the ledger and of the processes that record decisions is *)
(* well typed; in particular a process between its checks and its append   *)
(* (recordDecision, ledger.mjs:277-357) always holds an entry to append.   *)
THEOREM TypeCorrect == Spec => []TypeOK
<1>1. Init => TypeOK
  BY StartIsTyped
<1>2. TypeOK /\ [Next]_vars => TypeOK'
  BY StepKeepsTypes
<1> QED
  BY <1>1, <1>2, PTL DEF Spec

-----------------------------------------------------------------------------
(***************************************************************************)
(* The hash chain under any number of processes                            *)
(***************************************************************************)

\* The processes that have verified the ledger and are about to append.
Verified == {w \in Writer : pc[w] = "verified"}

\* Once an entry is off the chain nobody verifies any more, so the entries
\* off it and those that may still come are never more than the processes.
ForkBudget ==
  Unlinked = {} \/ Cardinality(Unlinked) + Cardinality(Verified) <= Cardinality(Writer)

(* Appending an entry puts at most that entry off the chain.               *)
LEMMA AppendUnlinksOne ==
  ASSUME ledger \in Seq(Entry), NEW e \in Entry, ledger' = Append(ledger, e)
  PROVE  /\ Unlinked \subseteq Unlinked'
         /\ Unlinked' \subseteq Unlinked \cup {Len(ledger) + 1}
         /\ e.after = Len(ledger) => Unlinked' = Unlinked
<1>1. /\ DOMAIN ledger = 1 .. Len(ledger)
      /\ DOMAIN ledger' = 1 .. (Len(ledger) + 1)
      /\ Len(ledger) \in Nat
      /\ \A i \in 1 .. Len(ledger) : ledger'[i] = ledger[i]
      /\ ledger'[Len(ledger) + 1] = e
  OBVIOUS
<1> DEFINE n == Len(ledger)
<1>3. (ledger'[n + 1].after = (n + 1) - 1) <=> e.after = n
  <2>1. (n + 1) - 1 = n
    BY <1>1
  <2> QED
    BY <1>1, <2>1
<1>4. Unlinked = {i \in 1 .. n : ~Linked(i)}
  BY <1>1 DEF Unlinked
<1>5. Unlinked' = {i \in 1 .. (n + 1) : ledger'[i].after # i - 1}
  BY <1>1 DEF Unlinked, Linked
<1>6. \A i \in 1 .. n : ~Linked(i) <=> ledger'[i].after # i - 1
  BY <1>1 DEF Linked
<1>7. 1 .. (n + 1) = (1 .. n) \cup {n + 1} /\ n + 1 \notin 1 .. n
  BY <1>1
<1> HIDE DEF n
<1>8. Unlinked' = Unlinked \cup {i \in {n + 1} : ledger'[i].after # i - 1}
  BY <1>4, <1>5, <1>6, <1>7
<1> QED
  BY <1>3, <1>8 DEF n

(* So does whatever reaches the file of it.                                *)
LEMMA WriteUnlinksOne ==
  ASSUME TypeOK, NEW e \in Entry, NEW upto \in Written, Write(e, upto)
  PROVE  /\ Unlinked' \subseteq Unlinked \cup {Len(ledger) + 1}
         /\ e.after = Len(ledger) => Unlinked' \subseteq Unlinked
<1>1. CASE ledger' = ledger
  BY <1>1 DEF Unlinked, Linked
<1>2. CASE ledger' = Append(ledger, e)
  BY <1>2, AppendUnlinksOne DEF TypeOK
<1>3. CASE tail = "entry" /\ ledger' = SubSeq(ledger, 1, Len(ledger) - 1)
  <2>1. Len(ledger) \in Nat /\ Len(ledger) # 0
    BY <1>3 DEF TypeOK
  <2>2. /\ DOMAIN ledger' = 1 .. (Len(ledger) - 1)
        /\ \A i \in 1 .. (Len(ledger) - 1) : ledger'[i] = ledger[i]
    BY <1>3, <2>1 DEF TypeOK
  <2>3. 1 .. (Len(ledger) - 1) \subseteq DOMAIN ledger
    BY <2>1 DEF TypeOK
  <2> QED
    BY <2>2, <2>3 DEF Unlinked, Linked
<1> QED
  BY <1>1, <1>2, <1>3 DEF Write

\* Entries off the chain are lines of the ledger, so there are finitely many.
LEMMA UnlinkedIsFinite ==
  ASSUME ledger \in Seq(Entry)
  PROVE  IsFiniteSet(Unlinked)
<1>1. Unlinked \subseteq 1 .. Len(ledger) /\ Len(ledger) \in Nat
  BY DEF Unlinked
<1> QED
  <2>1. IsFiniteSet(1 .. Len(ledger))
    BY <1>1, FS_Interval
  <2> QED
    BY <1>1, <2>1, FS_Subset

\* Of the writers about to append there are no more than there are writers.
LEMMA VerifiedIsFinite ==
  /\ IsFiniteSet(Verified)
  /\ Cardinality(Verified) \in Nat
  /\ Cardinality(Verified) <= Cardinality(Writer)
  /\ Cardinality(Writer) \in Nat
BY WriterAssumption, FS_Subset, FS_CardinalityType DEF Verified

(* A fork of the chain never spreads (ForkBounded), however many processes *)
(* record decisions and wherever they die.                                 *)
THEOREM ForkStaysBounded == Spec => []ForkBounded
<1>1. Init => ForkBudget
  BY DEF Init, ForkBudget, Unlinked
<1>2. TypeOK /\ ForkBudget /\ [Next]_vars => ForkBudget'
  <2> SUFFICES ASSUME TypeOK, ForkBudget, [Next]_vars PROVE ForkBudget'
    OBVIOUS
  <2>0. ASSUME ledger' = ledger, Verified' \subseteq Verified
        PROVE  ForkBudget'
    <3>1. Unlinked' = Unlinked
      BY <2>0 DEF Unlinked, Linked
    <3>2. Cardinality(Verified') \in Nat /\ Cardinality(Verified') <= Cardinality(Verified)
      BY <2>0, VerifiedIsFinite, FS_Subset, FS_CardinalityType
    <3>3. Cardinality(Unlinked) \in Nat
      BY UnlinkedIsFinite, FS_CardinalityType DEF TypeOK
    <3> QED
      BY <3>1, <3>2, <3>3, VerifiedIsFinite DEF ForkBudget
  <2>1. CASE Agents
    <3>1. ledger' = ledger /\ pc' = pc
      BY <2>1 DEF Agents, Propose, RaiseRequest, LoseRecords
    <3> QED
      BY <2>0, <3>1 DEF Verified
  <2>2. ASSUME NEW w \in Writer, NEW p \in Proposal, NEW outcome \in Outcome,
               NEW who \in Name, CheckRecords(w, p, outcome, who)
        PROVE  ForkBudget'
    <3>1. ledger' = ledger /\ Verified' \subseteq Verified
      BY <2>2 DEF CheckRecords, Verified, TypeOK
    <3> QED
      BY <2>0, <3>1
  <2>3. ASSUME NEW w \in Writer, ReadLedger(w)
        PROVE  ForkBudget'
    <3>1. Unlinked = {} /\ ledger' = ledger
      BY <2>3 DEF ReadLedger, Verifies
    <3> QED
      BY <3>1 DEF ForkBudget, Unlinked, Linked
  <2>4. ASSUME NEW w \in Writer,
               \/ RefuseLedger(w)
               \/ Die(w) /\ UNCHANGED <<ledger, tail, garbled>>
        PROVE  ForkBudget'
    <3>1. ledger' = ledger /\ Verified' \subseteq Verified
      BY <2>4 DEF RefuseLedger, Die, Abandon, Verified, TypeOK
    <3> QED
      BY <2>0, <3>1
  <2>5. ASSUME NEW w \in Writer, pc[w] = "verified", Abandon(w),
               NEW upto \in Written, Write(draft[w], upto)
        PROVE  ForkBudget'
    <3>1. w \in Verified /\ Verified' = Verified \ {w}
      BY <2>5 DEF Abandon, Verified, TypeOK
    <3>2. Unlinked' \subseteq Unlinked \cup {Len(ledger) + 1}
      <4>1. draft[w] \in Entry
        BY <2>5 DEF TypeOK
      <4> QED
        BY <2>5, <4>1, WriteUnlinksOne
    <3>3. /\ IsFiniteSet(Unlinked)
          /\ Cardinality(Unlinked) \in Nat
          /\ Unlinked = {} => Cardinality(Unlinked) = 0
      BY UnlinkedIsFinite, FS_CardinalityType, FS_EmptySet DEF TypeOK
    <3>4. IsFiniteSet(Unlinked \cup {Len(ledger) + 1})
          /\ Cardinality(Unlinked \cup {Len(ledger) + 1}) <= Cardinality(Unlinked) + 1
      <4>1. /\ IsFiniteSet(Unlinked \cup {Len(ledger) + 1})
            /\ \/ Cardinality(Unlinked \cup {Len(ledger) + 1}) = Cardinality(Unlinked)
               \/ Cardinality(Unlinked \cup {Len(ledger) + 1}) = Cardinality(Unlinked) + 1
        BY <3>3, FS_AddElement, Zenon
      <4> QED
        BY <3>3, <4>1
    <3>5. Cardinality(Unlinked') \in Nat /\ Cardinality(Unlinked') <= Cardinality(Unlinked) + 1
      BY <3>2, <3>3, <3>4, FS_Subset, FS_CardinalityType
    <3>6. Cardinality(Verified') = Cardinality(Verified) - 1
      BY <3>1, VerifiedIsFinite, FS_RemoveElement
    <3> QED
      BY <3>3, <3>5, <3>6, VerifiedIsFinite DEF ForkBudget
  <2>6. CASE UNCHANGED vars
    BY <2>0, <2>6 DEF vars, Verified
  <2> QED
    BY <2>1, <2>2, <2>3, <2>4, <2>5, <2>6
    DEF Next, Deciding, AppendEntry, Die, Written
<1>3. TypeOK /\ ForkBudget => ForkBounded
  <2> SUFFICES ASSUME TypeOK, ForkBudget PROVE ForkBounded
    OBVIOUS
  <2>1. Cardinality(Unlinked) \in Nat /\ (Unlinked = {} => Cardinality(Unlinked) = 0)
    BY UnlinkedIsFinite, FS_CardinalityType, FS_EmptySet DEF TypeOK
  <2> QED
    BY <2>1, VerifiedIsFinite DEF ForkBudget, ForkBounded
<1> QED
  BY <1>1, <1>2, <1>3, TypeCorrect, PTL DEF Spec

-----------------------------------------------------------------------------
(***************************************************************************)
(* What crashes take with them                                             *)
(***************************************************************************)

\* As long as every line parses nothing is lost, though an entry without its
\* newline is not one that was reported.  Once one does not, nobody verifies
\* any more, and losing a decision takes a process that dies and another that
\* appends after it: of the r reported and the l readable, with v processes
\* about to append, a line glued to an entry without a newline loses two.
Within(r, l, v, t, g) ==
  /\ ~g => r = l - (IF t = "entry" THEN 1 ELSE 0)
  /\ g => 2 * (r - l) + v + (IF t = "line" THEN 0 ELSE IF t = "part" THEN 1 ELSE 3)
          <= Cardinality(Writer) + 1

LossBudget ==
  Within(recorded, Len(ledger), Cardinality(Verified), tail, garbled)

(* A write keeps to the budget, whatever of it reaches what file.          *)
LEMMA WriteKeepsWithin ==
  ASSUME NEW r \in Nat, NEW l \in Nat, NEW v \in Nat, v <= Cardinality(Writer),
         Cardinality(Writer) \in Nat, NEW g \in BOOLEAN,
         NEW upto \in {"line", "entry", "part"}, NEW r2 \in Nat,
         r2 = IF upto = "line" THEN r + 1 ELSE r
  PROVE  /\ Within(r, l, v, "line", g)
              => Within(r2, IF upto = "part" THEN l ELSE l + 1, v - 1, upto, g)
         /\ Within(r, l, v, "entry", g)
              => Within(r2, l - 1, v - 1, IF upto = "line" THEN "line" ELSE "part",
                        g \/ upto = "line")
         /\ Within(r, l, v, "part", g)
              => Within(r2, l, v - 1, IF upto = "line" THEN "line" ELSE "part",
                        g \/ upto = "line")
<1>1. CASE g
  <2>1. CASE upto = "line"
    BY <1>1, <2>1 DEF Within
  <2>2. CASE upto = "entry"
    BY <1>1, <2>2 DEF Within
  <2>3. CASE upto = "part"
    BY <1>1, <2>3 DEF Within
  <2> QED
    BY <2>1, <2>2, <2>3
<1>2. CASE ~g
  <2>1. CASE upto = "line"
    BY <1>2, <2>1 DEF Within
  <2>2. CASE upto = "entry"
    BY <1>2, <2>2 DEF Within
  <2>3. CASE upto = "part"
    BY <1>2, <2>3 DEF Within
  <2> QED
    BY <2>1, <2>2, <2>3
<1> QED
  BY <1>1, <1>2

(* What is reported as recorded is readable, but for what the crashes of   *)
(* at most half the processes take with them (LossBounded).                *)
THEOREM LossStaysBounded == Spec => []LossBounded
<1>1. Init => LossBudget
  BY DEF Init, LossBudget, Within
<1>2. TypeOK /\ LossBudget /\ [Next]_vars => LossBudget'
  <2> SUFFICES ASSUME TypeOK, LossBudget, [Next]_vars PROVE LossBudget'
    OBVIOUS
  <2>a. /\ Len(ledger) \in Nat /\ recorded \in Nat
        /\ Cardinality(Verified) \in Nat /\ Cardinality(Writer) \in Nat
        /\ Cardinality(Verified) <= Cardinality(Writer)
        /\ garbled \in BOOLEAN
    BY VerifiedIsFinite DEF TypeOK
  <2>0. ASSUME UNCHANGED <<ledger, tail, garbled, recorded>>,
               garbled => Verified' \subseteq Verified
        PROVE  LossBudget'
    <3>2. CASE garbled
      <4>1. Cardinality(Verified') \in Nat /\ Cardinality(Verified') <= Cardinality(Verified)
        BY <2>0, <3>2, VerifiedIsFinite, FS_Subset, FS_CardinalityType
      <4> QED
        BY <2>0, <2>a, <3>2, <4>1 DEF LossBudget, Within, TypeOK, Written
    <3> QED
      BY <2>0, <3>2 DEF LossBudget, Within
  <2>1. CASE Agents \/ UNCHANGED vars
    <3>1. UNCHANGED <<ledger, tail, garbled, pc, recorded>>
      BY <2>1 DEF Agents, Propose, RaiseRequest, LoseRecords, vars
    <3> QED
      BY <2>0, <3>1 DEF Verified
  <2>2. ASSUME NEW w \in Writer, NEW p \in Proposal, NEW outcome \in Outcome,
               NEW who \in Name, CheckRecords(w, p, outcome, who)
        PROVE  LossBudget'
    <3>1. UNCHANGED <<ledger, tail, garbled, recorded>> /\ Verified' \subseteq Verified
      BY <2>2 DEF CheckRecords, Verified, TypeOK
    <3> QED
      BY <2>0, <3>1
  <2>3. ASSUME NEW w \in Writer, ReadLedger(w)
        PROVE  LossBudget'
    <3>1. UNCHANGED <<ledger, tail, garbled, recorded>> /\ ~garbled
      BY <2>3 DEF ReadLedger, Verifies
    <3> QED
      BY <2>0, <3>1
  <2>4. ASSUME NEW w \in Writer,
               \/ RefuseLedger(w)
               \/ Die(w) /\ UNCHANGED <<ledger, tail, garbled>>
        PROVE  LossBudget'
    <3>1. UNCHANGED <<ledger, tail, garbled, recorded>> /\ Verified' \subseteq Verified
      BY <2>4 DEF RefuseLedger, Die, Abandon, Verified, TypeOK
    <3> QED
      BY <2>0, <3>1
  <2>5. ASSUME NEW w \in Writer, pc[w] = "verified", Abandon(w),
               NEW upto \in Written, Write(draft[w], upto),
               recorded' = IF upto = "line" THEN recorded + 1 ELSE recorded
        PROVE  LossBudget'
    <3>1. w \in Verified /\ Verified' = Verified \ {w}
      BY <2>5 DEF Abandon, Verified, TypeOK
    <3>2. Cardinality(Verified') = Cardinality(Verified) - 1
      BY <3>1, VerifiedIsFinite, FS_RemoveElement
    <3>3. draft[w] \in Entry
      BY <2>5 DEF TypeOK
    <3>4. LET r == recorded  l == Len(ledger)  v == Cardinality(Verified)
              g == garbled
          IN  /\ Within(r, l, v, "line", g)
                   => Within(recorded', IF upto = "part" THEN l ELSE l + 1, v - 1, upto, g)
              /\ Within(r, l, v, "entry", g)
                   => Within(recorded', l - 1, v - 1,
                             IF upto = "line" THEN "line" ELSE "part", g \/ upto = "line")
              /\ Within(r, l, v, "part", g)
                   => Within(recorded', l, v - 1,
                             IF upto = "line" THEN "line" ELSE "part", g \/ upto = "line")
      <4>1. recorded' \in Nat
        BY <2>5, <2>a
      <4> QED
        BY <2>5, <2>a, <4>1, WriteKeepsWithin DEF Written
    <3>5. CASE tail = "line"
      <4>1. Len(ledger') = IF upto = "part" THEN Len(ledger) ELSE Len(ledger) + 1
        BY <2>5, <3>3, <3>5 DEF Write, TypeOK
      <4>2. tail' = upto /\ garbled' = garbled
        BY <2>5, <3>5 DEF Write
      <4> QED
        BY <3>2, <3>5, <3>4, <4>1, <4>2 DEF LossBudget
    <3>6. CASE tail = "entry"
      <4>1. ledger # <<>> /\ ledger' = SubSeq(ledger, 1, Len(ledger) - 1)
        BY <2>5, <3>6 DEF Write, TypeOK
      <4>2. Len(ledger') = Len(ledger) - 1
        <5>1. ledger \in Seq(Entry)
          BY DEF TypeOK
        <5> QED
          BY <4>1, <5>1, FrontLength
      <4>3. /\ tail' = IF upto = "line" THEN "line" ELSE "part"
            /\ garbled' = (garbled \/ upto = "line")
        BY <2>5, <3>6 DEF Write
      <4> QED
        BY <3>2, <3>6, <3>4, <4>2, <4>3 DEF LossBudget
    <3>7. CASE tail = "part"
      <4>1. /\ ledger' = ledger
            /\ tail' = IF upto = "line" THEN "line" ELSE "part"
            /\ garbled' = (garbled \/ upto = "line")
        BY <2>5, <3>7 DEF Write
      <4> QED
        BY <3>2, <3>7, <3>4, <4>1 DEF LossBudget
    <3> QED
      BY <3>5, <3>6, <3>7 DEF TypeOK, Written
  <2>6. ASSUME NEW w \in Writer, AppendEntry(w)
        PROVE  LossBudget'
    BY <2>5, <2>6 DEF AppendEntry, Written
  <2>7. ASSUME NEW w \in Writer, Die(w)
        PROVE  LossBudget'
    BY <2>4, <2>5, <2>7 DEF Die, Written
  <2> QED
    BY <2>1, <2>2, <2>3, <2>4, <2>6, <2>7 DEF Next, Deciding
<1>3. TypeOK /\ LossBudget => LossBounded
  <2> SUFFICES ASSUME TypeOK, LossBudget PROVE LossBounded
    OBVIOUS
  <2>1. /\ Len(ledger) \in Nat /\ recorded \in Nat
        /\ Cardinality(Verified) \in Nat /\ Cardinality(Writer) \in Nat
    BY VerifiedIsFinite DEF TypeOK
  <2> QED
    BY <2>1 DEF LossBudget, LossBounded, Within, TypeOK, Written
<1> QED
  BY <1>1, <1>2, <1>3, TypeCorrect, PTL DEF Spec

-----------------------------------------------------------------------------
(***************************************************************************)
(* The hash chain under one process                                        *)
(***************************************************************************)

OneWriterNeverForks == Cardinality(Writer) = 1 => Unlinked = {}

\* What the only process verified is still true when it appends: nothing
\* else touches the file.
SoleWriter ==
  Cardinality(Writer) = 1 =>
    Unlinked = {} /\ \A w \in Verified : draft[w].after = Len(ledger)

\* Where there is one writer, any two are the same.
LEMMA SoleWriterIsOne ==
  ASSUME Cardinality(Writer) = 1, NEW v \in Writer, NEW w \in Writer
  PROVE  v = w
<1>1. PICK x : Writer = {x}
  BY WriterAssumption, FS_Singleton
<1> QED
  BY <1>1

(* One process never forks the chain, wherever it dies.                    *)
THEOREM OneWriterIsSafe == Spec => []OneWriterNeverForks
<1>1. Init => SoleWriter
  BY DEF Init, SoleWriter, Unlinked, Verified
<1>2. TypeOK /\ SoleWriter /\ [Next]_vars => SoleWriter'
  <2> SUFFICES ASSUME TypeOK, SoleWriter, [Next]_vars, Cardinality(Writer) = 1
               PROVE  Unlinked' = {} /\ \A w \in Verified' : draft'[w].after = Len(ledger')
    BY DEF SoleWriter
  <2> DEFINE Safe == Unlinked' = {} /\ \A w \in Verified' : draft'[w].after = Len(ledger')
  <2>0. ASSUME ledger' = ledger, \A w \in Verified' : draft'[w].after = Len(ledger)
        PROVE  Safe
    BY <2>0 DEF SoleWriter, Unlinked, Linked
  <2>1. CASE Agents \/ UNCHANGED vars
    <3>1. UNCHANGED <<ledger, pc, draft>>
      BY <2>1 DEF Agents, Propose, RaiseRequest, LoseRecords, vars
    <3> QED
      BY <2>0, <3>1 DEF SoleWriter, Verified
  <2>2. ASSUME NEW w \in Writer, NEW p \in Proposal, NEW outcome \in Outcome,
               NEW who \in Name, CheckRecords(w, p, outcome, who)
        PROVE  Safe
    <3>1. \A v \in Writer : v = w
      BY <2>2, SoleWriterIsOne
    <3>2. ledger' = ledger /\ Verified' = {}
      BY <2>2, <3>1 DEF CheckRecords, Verified, TypeOK
    <3> QED
      BY <2>0, <3>2
  <2>3. ASSUME NEW w \in Writer, ReadLedger(w)
        PROVE  Safe
    <3>1. \A v \in Writer : v = w
      BY SoleWriterIsOne
    <3>2. draft[w] \in Entry
      BY <2>3 DEF ReadLedger, TypeOK
    <3>3. draft'[w].after = Len(ledger) /\ ledger' = ledger
      BY <2>3, <3>2 DEF ReadLedger, TypeOK, Entry
    <3> QED
      BY <2>0, <3>1, <3>3 DEF Verified
  <2>4. ASSUME NEW w \in Writer,
               \/ RefuseLedger(w)
               \/ Die(w) /\ UNCHANGED <<ledger, tail, garbled>>
        PROVE  Safe
    <3>1. \A v \in Writer : v = w
      BY SoleWriterIsOne
    <3>2. ledger' = ledger /\ Verified' = {}
      BY <2>4, <3>1 DEF RefuseLedger, Die, Abandon, Verified, TypeOK
    <3> QED
      BY <2>0, <3>2
  <2>5. ASSUME NEW w \in Writer, pc[w] = "verified", Abandon(w),
               NEW upto \in Written, Write(draft[w], upto)
        PROVE  Safe
    <3>1. \A v \in Writer : v = w
      BY SoleWriterIsOne
    <3>2. w \in Verified /\ Verified' = {}
      BY <2>5, <3>1 DEF Abandon, Verified, TypeOK
    <3>3. draft[w] \in Entry /\ draft[w].after = Len(ledger) /\ Unlinked = {}
      BY <2>5, <3>2 DEF SoleWriter, TypeOK
    <3>4. Unlinked' = {}
      BY <2>5, <3>3, WriteUnlinksOne
    <3> QED
      BY <3>2, <3>4
  <2>6. ASSUME NEW w \in Writer, AppendEntry(w) \/ Die(w)
        PROVE  Safe
    BY <2>4, <2>5, <2>6 DEF AppendEntry, Die, Written
  <2> QED
    BY <2>1, <2>2, <2>3, <2>4, <2>6 DEF Next, Deciding
<1>3. SoleWriter => OneWriterNeverForks
  BY DEF SoleWriter, OneWriterNeverForks
<1> QED
  BY <1>1, <1>2, <1>3, TypeCorrect, PTL DEF Spec

-----------------------------------------------------------------------------
(***************************************************************************)
(* What an approval rests on                                               *)
(***************************************************************************)

(* A set of positions of the file that is not empty has a last one.        *)
LEMMA IntervalSubsetHasMax ==
  ASSUME NEW n \in Nat, NEW S \in SUBSET (1 .. n), S # {}
  PROVE  \E i \in S : \A j \in S : j <= i
<1> DEFINE R == OpToRel(<, Nat)
           T == {n - i : i \in S}
<1>1. IsWellFoundedOn(R, Nat)
  BY NatLessThanWellFounded
<1>2. \A a, b \in Nat : <<a, b>> \in R <=> a < b
  BY DEF OpToRel
<1>3. T \subseteq Nat /\ T # {}
  <2>1. \A i \in S : n - i \in Nat
    OBVIOUS
  <2> QED
    BY <2>1
<1> HIDE DEF R
<1>4. \E x \in T : \A y \in T : <<y, x>> \notin R
  <2> HIDE DEF T
  <2> QED
    BY <1>1, <1>3, WFMin
<1>5. PICK i \in S : \A y \in T : <<y, n - i>> \notin R
  BY <1>4
<1>6. ASSUME NEW j \in S PROVE j <= i
  <2>1. n - j \in Nat /\ n - i \in Nat /\ ~ (n - j < n - i)
    BY <1>2, <1>3, <1>5
  <2> QED
    BY <2>1
<1> QED
  BY <1>6

(* Only a line of the ledger decides: with the ledger unchanged, the last  *)
(* decision on a proposal is unchanged.                                    *)
LEMMA SameLedgerSameDecisions ==
  ASSUME ledger' = ledger, NEW p \in Proposal
  PROVE  DecisionsOn(p)' = DecisionsOn(p) /\ LastDecision(p)' = LastDecision(p)
BY DEF DecisionsOn, LastDecision

(* An entry appended is the last decision on its proposal and leaves every *)
(* other proposal's decisions as they were.                                *)
LEMMA AppendDecidesOne ==
  ASSUME ledger \in Seq(Entry), NEW e \in Entry, ledger' = Append(ledger, e),
         NEW p \in Proposal
  PROVE  /\ e.proposal = p => DecisionsOn(p)' # {} /\ LastDecision(p)' = e
         /\ e.proposal # p => /\ DecisionsOn(p)' = DecisionsOn(p)
                              /\ DecisionsOn(p) # {} => LastDecision(p)' = LastDecision(p)
<1> DEFINE n == Len(ledger)
<1>1. /\ n \in Nat
      /\ DOMAIN ledger = 1 .. n
      /\ DOMAIN ledger' = 1 .. (n + 1)
      /\ \A i \in 1 .. n : ledger'[i] = ledger[i]
      /\ ledger'[n + 1] = e
  OBVIOUS
<1> HIDE DEF n
<1>2. 1 .. (n + 1) = (1 .. n) \cup {n + 1} /\ n + 1 \notin 1 .. n
  BY <1>1
<1>3. /\ DecisionsOn(p) = {i \in 1 .. n : ledger[i].proposal = p}
      /\ DecisionsOn(p)' = {i \in 1 .. (n + 1) : ledger'[i].proposal = p}
  BY <1>1 DEF DecisionsOn
<1>4. CASE e.proposal = p
  <2>1. n + 1 \in DecisionsOn(p)' /\ DecisionsOn(p)' \subseteq 1 .. (n + 1)
    BY <1>1, <1>2, <1>3, <1>4
  <2>2. \A i \in DecisionsOn(p)' :
          (\A j \in DecisionsOn(p)' : j <= i) => i = n + 1
    BY <1>1, <2>1
  <2>3. \A j \in DecisionsOn(p)' : j <= n + 1
    BY <1>1, <2>1
  <2> QED
    BY <1>1, <1>4, <2>1, <2>2, <2>3 DEF LastDecision
<1>5. CASE e.proposal # p
  <2>1. DecisionsOn(p)' = DecisionsOn(p)
    BY <1>1, <1>2, <1>3, <1>5
  <2>2. ASSUME DecisionsOn(p) # {} PROVE LastDecision(p)' = LastDecision(p)
    <3>1. \E i \in DecisionsOn(p) : \A j \in DecisionsOn(p) : j <= i
      BY <1>1, <1>3, <2>2, IntervalSubsetHasMax
    <3> DEFINE k == CHOOSE i \in DecisionsOn(p) : \A j \in DecisionsOn(p) : j <= i
    <3>2. k \in DecisionsOn(p)
      BY <3>1
    <3>3. LastDecision(p) = ledger[k] /\ LastDecision(p)' = ledger'[k]
      BY <2>1 DEF LastDecision
    <3> HIDE DEF k
    <3> QED
      BY <1>1, <1>3, <3>2, <3>3
  <2> QED
    BY <1>5, <2>1, <2>2
<1> QED
  BY <1>4, <1>5

\* The last decision on a proposal, where there is one, is an entry.
LEMMA LastIsAnEntry ==
  ASSUME ledger \in Seq(Entry), NEW p \in Proposal, DecisionsOn(p) # {}
  PROVE  LastDecision(p) \in Entry
<1>1. DecisionsOn(p) \subseteq 1 .. Len(ledger) /\ Len(ledger) \in Nat
  BY DEF DecisionsOn
<1>2. \E i \in DecisionsOn(p) : \A j \in DecisionsOn(p) : j <= i
  BY <1>1, IntervalSubsetHasMax
<1>3. \E i \in DecisionsOn(p) : LastDecision(p) = ledger[i]
  BY <1>2 DEF LastDecision
<1> QED
  BY <1>1, <1>3

(* The file changes only by one process writing of its entry what it gets  *)
(* to write, and the records stay as they are meanwhile.                   *)
LEMMA StepsOnTheFile ==
  ASSUME TypeOK, [Next]_vars
  PROVE  \/ UNCHANGED <<ledger, tail, garbled>>
         \/ \E w \in Writer, upto \in Written :
              /\ pc[w] = "verified" /\ draft[w] \in Entry
              /\ Write(draft[w], upto) /\ store' = store
<1>1. CASE Agents \/ UNCHANGED vars
  BY <1>1 DEF Agents, Propose, RaiseRequest, LoseRecords, vars
<1>2. ASSUME NEW w \in Writer,
             \/ \E p \in Proposal, outcome \in Outcome, who \in Name :
                  CheckRecords(w, p, outcome, who)
             \/ ReadLedger(w) \/ RefuseLedger(w)
      PROVE  UNCHANGED <<ledger, tail, garbled>>
  BY <1>2 DEF CheckRecords, ReadLedger, RefuseLedger
<1>3. ASSUME NEW w \in Writer, AppendEntry(w) \/ Die(w),
             ~UNCHANGED <<ledger, tail, garbled>>
      PROVE  \E upto \in Written :
               /\ pc[w] = "verified" /\ draft[w] \in Entry
               /\ Write(draft[w], upto) /\ store' = store
  <2>1. pc[w] = "verified" /\ store' = store
        /\ \E upto \in Written : Write(draft[w], upto)
    BY <1>3 DEF AppendEntry, Die, Written
  <2> QED
    BY <2>1 DEF TypeOK
<1> QED
  BY <1>1, <1>2, <1>3 DEF Next, Deciding

(* A ledger that does not verify never verifies again: what is glued to a  *)
(* line without an end leaves a part or a line that cannot be parsed, and  *)
(* what is appended to a forked chain does not mend it.                    *)
LEMMA UnreadableStays ==
  ASSUME TypeOK, [Next]_vars, ~Verifies
  PROVE  ~Verifies'
<1>1. CASE UNCHANGED <<ledger, tail, garbled>>
  BY <1>1 DEF Verifies, Unlinked, Linked
<1>2. ASSUME NEW e \in Entry, NEW upto \in Written, Write(e, upto)
      PROVE  ~Verifies'
  <2>1. CASE tail # "line"
    BY <1>2, <2>1 DEF Write, Verifies
  <2>2. CASE tail = "line" /\ garbled
    BY <1>2, <2>2 DEF Write, Verifies
  <2>3. CASE tail = "line" /\ ~garbled
    <3>1. Unlinked # {}
      BY <2>3 DEF Verifies
    <3>2. CASE ledger' = ledger
      BY <3>1, <3>2 DEF Verifies, Unlinked, Linked
    <3>3. CASE ledger' = Append(ledger, e)
      BY <3>1, <3>3, AppendUnlinksOne DEF Verifies, TypeOK
    <3> QED
      BY <1>2, <2>3, <3>2, <3>3 DEF Write
  <2> QED
    BY <2>1, <2>2, <2>3 DEF TypeOK
<1> QED
  BY <1>1, <1>2, StepsOnTheFile

(* Between two states in which the ledger verifies, the file is as it was  *)
(* or one entry longer: whatever is torn or glued shows.                   *)
LEMMA ReadableSteps ==
  ASSUME TypeOK, [Next]_vars, Verifies'
  PROVE  \/ ledger' = ledger
         \/ \E w \in Writer :
              /\ pc[w] = "verified" /\ draft[w] \in Entry
              /\ ledger' = Append(ledger, draft[w]) /\ store' = store
<1>1. Verifies
  BY UnreadableStays
<1>2. ASSUME NEW w \in Writer, NEW upto \in Written,
             pc[w] = "verified", draft[w] \in Entry,
             Write(draft[w], upto), store' = store
      PROVE  ledger' = Append(ledger, draft[w])
  <2>1. CASE tail = "line"
    BY <1>2, <2>1 DEF Write, Verifies
  <2>2. CASE tail # "line"
    BY <1>2, <2>2 DEF Write, Verifies
  <2> QED
    BY <2>1, <2>2
<1> QED
  BY <1>2, StepsOnTheFile

(* A denial stands until a grant is recorded, for whoever verifies the     *)
(* ledger first: what is torn or glued may take the denial with it, but    *)
(* then the ledger does not verify, and never does again.                  *)
THEOREM DenialStands == Spec => OnlyADecisionLiftsADenial
<1>1. ASSUME TypeOK, [Next]_vars, NEW p \in Proposal,
             Standing(p) = "denied", Standing(p)' \notin {"denied", "unreadable"}
      PROVE  Recorded(p, "granted")
  <2>1. /\ Verifies' /\ DeriveApproval(p) = "denied" /\ DeriveApproval(p)' # "denied"
    BY <1>1 DEF Standing
  <2>2. DecisionsOn(p) # {} /\ LastDecision(p).outcome = "denied"
    BY <2>1 DEF DeriveApproval
  <2>3. ~ (DecisionsOn(p)' # {} /\ LastDecision(p)'.outcome = "denied")
    BY <2>1 DEF DeriveApproval
  <2>4. ledger' # ledger
    BY <2>2, <2>3, SameLedgerSameDecisions
  <2>5. PICK w \in Writer : /\ pc[w] = "verified" /\ draft[w] \in Entry
                            /\ ledger' = Append(ledger, draft[w])
    BY <1>1, <2>1, <2>4, ReadableSteps
  <2>6. /\ draft[w].proposal = p => DecisionsOn(p)' # {} /\ LastDecision(p)' = draft[w]
        /\ draft[w].proposal # p => /\ DecisionsOn(p)' = DecisionsOn(p)
                                   /\ LastDecision(p)' = LastDecision(p)
    <3>1. ledger \in Seq(Entry)
      BY <1>1 DEF TypeOK
    <3> QED
      BY <2>2, <2>5, <3>1, AppendDecidesOne
  <2>7. draft[w].proposal = p /\ draft[w].outcome # "denied"
    BY <2>2, <2>3, <2>6
  <2> QED
    BY <2>5, <2>7 DEF Recorded, Entry, Outcome
<1>2. TypeOK /\ [Next]_vars =>
        [/\ ~Verifies => ~Verifies'
         /\ \A p \in Proposal :
              Standing(p) = "denied" /\ Standing(p)' \notin {"denied", "unreadable"}
                => Recorded(p, "granted")]_vars
  BY <1>1, UnreadableStays
<1> QED
  BY <1>2, TypeCorrect, PTL DEF Spec, OnlyADecisionLiftsADenial

(* For whoever verifies the ledger first, a proposal becomes granted by    *)
(* its present content being granted, or, with nothing recorded, by its    *)
(* content returning to what the last decision granted (the                *)
(* void_scope_changed branch of deriveApproval, and the copy it falls back *)
(* to).                                                                    *)
THEOREM GrantIsOfTheContent == Spec => GrantFollowsNoEdit
<1>1. ASSUME TypeOK, [Next]_vars, NEW p \in Proposal,
             Standing(p) # "granted", Standing(p)' = "granted"
      PROVE  \/ Recorded(p, "granted") /\ LastDecision(p)'.version = CurrentVersion(p)'
             \/ /\ ledger' = ledger /\ store'[p] # store[p]
                /\ LastDecision(p).outcome = "granted"
                /\ store'[p] \in {0, LastDecision(p).version}
  <2>1. Verifies' /\ DeriveApproval(p)' = "granted"
    BY <1>1 DEF Standing
  <2>2. DeriveApproval(p) # "granted"
    BY <1>1, <2>1, UnreadableStays DEF Standing
  <2>3. /\ DecisionsOn(p)' # {}
        /\ LastDecision(p)'.outcome # "denied"
        /\ LastDecision(p)'.by # Producer[p]
        /\ LastDecision(p)'.version = CurrentVersion(p)'
    BY <2>1 DEF DeriveApproval
  <2>4. CASE ledger' = ledger
    <3>1. DecisionsOn(p)' = DecisionsOn(p) /\ LastDecision(p)' = LastDecision(p)
      BY <2>4, SameLedgerSameDecisions
    <3>2. LastDecision(p).version # CurrentVersion(p)
      BY <2>2, <2>3, <3>1 DEF DeriveApproval
    <3>3. store'[p] # store[p] /\ store'[p] \in {0, LastDecision(p).version}
      BY <2>3, <3>1, <3>2 DEF CurrentVersion
    <3>4. LastDecision(p).outcome = "granted"
      BY <1>1, <2>3, <3>1, LastIsAnEntry DEF TypeOK, Entry, Outcome
    <3> QED
      BY <2>4, <3>3, <3>4
  <2>5. CASE ledger' # ledger
    <3>1. PICK w \in Writer : /\ pc[w] = "verified" /\ draft[w] \in Entry
                              /\ ledger' = Append(ledger, draft[w]) /\ store' = store
      BY <1>1, <2>1, <2>5, ReadableSteps
    <3>2. /\ draft[w].proposal = p => LastDecision(p)' = draft[w]
          /\ draft[w].proposal # p =>
               /\ DecisionsOn(p)' = DecisionsOn(p)
               /\ DecisionsOn(p) # {} => LastDecision(p)' = LastDecision(p)
      <4>1. ledger \in Seq(Entry)
        BY <1>1 DEF TypeOK
      <4> QED
        BY <3>1, <4>1, AppendDecidesOne
    <3>3. draft[w].proposal = p
      <4>1. ASSUME draft[w].proposal # p PROVE FALSE
        <5>1. DecisionsOn(p)' = DecisionsOn(p) /\ LastDecision(p)' = LastDecision(p)
          BY <2>3, <3>2, <4>1
        <5>2. CurrentVersion(p)' = CurrentVersion(p)
          BY <3>1, <5>1 DEF CurrentVersion
        <5> QED
          BY <2>2, <2>3, <5>1, <5>2 DEF DeriveApproval
      <4> QED
        BY <4>1
    <3>4. draft[w].outcome = "granted"
      BY <2>3, <3>1, <3>2, <3>3 DEF Entry, Outcome
    <3> QED
      BY <2>3, <3>1, <3>3, <3>4 DEF Recorded
  <2> QED
    BY <2>4, <2>5
<1>2. TypeOK /\ [Next]_vars =>
        [\A p \in Proposal :
           Standing(p) # "granted" /\ Standing(p)' = "granted"
             => \/ Recorded(p, "granted") /\ LastDecision(p)'.version = CurrentVersion(p)'
                \/ /\ ledger' = ledger /\ store'[p] # store[p]
                   /\ LastDecision(p).outcome = "granted"
                   /\ store'[p] \in {0, LastDecision(p).version}]_vars
  BY <1>1
<1> QED
  BY <1>2, TypeCorrect, PTL DEF Spec, GrantFollowsNoEdit
=============================================================================
