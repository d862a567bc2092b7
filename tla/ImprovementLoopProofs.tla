------------------------ MODULE ImprovementLoopProofs ------------------------
(***************************************************************************)
(* What holds of the improvement loop for any number of processes and      *)
(* cycles, whatever is missing in the corpus and wrong in the pages.       *)
(***************************************************************************)
EXTENDS ImprovementLoop, FiniteSetTheorems, WellFoundedInduction, TLAPS

Active == {p \in Process : pc[p] # "idle"}

\* Every line, torn or glued, was begun by a cycle of its own.
CountInv ==
  /\ IsFiniteSet(Active)
  /\ Len(ledger) + Cardinality(Active) <= clock
  /\ ~ended => ledger # <<>>

\* The parts of the type invariant: the shapes, the lines that can be read, and
\* the passes.
Shapes ==
  /\ defects \subseteq Gap \cup Flaw
  /\ boxes \in [Box -> BoxState]
  /\ changes \in 0..MaxChanges
  /\ clock \in Instant
  /\ ended \in BOOLEAN
  /\ pc \in [Process -> {"idle", "observing", "compared"}]
  /\ wanted \in [Process -> SUBSET Observer]
  /\ corpus \in [Process -> SUBSET Gap]
  /\ held \in [Process -> [Box -> BoxState] \cup {<<>>}]
  /\ ledger \in Seq(Entry) /\ Len(ledger) <= clock
  /\ pass \in [Process -> Entry]

LineOK(i) == i \in Readable => EntryOK(ledger[i])
PassOK(p) == IF pc[p] = "idle" THEN pass[p] = Malformed ELSE EntryOK(pass[p])

LoopInv ==
  /\ Shapes
  /\ \A i \in DOMAIN ledger : LineOK(i)
  /\ \A p \in Process : PassOK(p)
  /\ CountInv

-----------------------------------------------------------------------------
(* What the steps do to a pass and to the ledger                           *)

LEMMA MalformedHasNothing ==
  /\ Malformed \in Entry
  /\ Malformed.recorded_at = 0 /\ Malformed.ran = {} /\ Malformed.found = {}
  /\ Malformed.report = NoReport
  BY BoundsAssumption DEF Malformed, PassOf, NoReport, Entry, Report, Instant

\* The fields a report gives an entry.
LEMMA ReportFields ==
  ASSUME NEW e \in Entry, NEW r \in Report
  PROVE  /\ [e EXCEPT !.report = r] \in Entry
         /\ [e EXCEPT !.report = r].report = r
         /\ [e EXCEPT !.report = r].recorded_at = e.recorded_at
         /\ [e EXCEPT !.report = r].ran = e.ran
         /\ [e EXCEPT !.report = r].found = e.found
         /\ [e EXCEPT !.report = r].at_times = e.at_times
         /\ [e EXCEPT !.report = r].not_always = e.not_always
         /\ [e EXCEPT !.report = r].mixed = e.mixed
  BY DEF Entry

\* An observer that comes to its end adds itself and its findings.
LEMMA RanPass ==
  ASSUME LoopInv, NEW p \in Process, NEW o \in Observer,
         NEW what \in SUBSET Defect, Ran(p, o, what)
  PROVE  /\ pass' \in [Process -> Entry]
         /\ \A q \in Process : q # p => pass'[q] = pass[q]
         /\ pass'[p].recorded_at = pass[p].recorded_at
         /\ pass'[p].at_times = pass[p].at_times
         /\ pass'[p].not_always = pass[p].not_always
         /\ pass'[p].report = pass[p].report
         /\ pass'[p].ran = pass[p].ran \cup {o}
         /\ pass'[p].found = pass[p].found \cup [observer : {o}, about : what]
<1> DEFINE ran == pass[p].ran \cup {o}
           found == pass[p].found \cup [observer : {o}, about : what]
           mixed == IF o = "editorial" THEN pass[p].mixed \cup Mixed(p)
                    ELSE pass[p].mixed
           made == [pass[p] EXCEPT !.ran = ran, !.found = found, !.mixed = mixed]
<1>1. pass[p] \in Entry /\ pass \in [Process -> Entry]
  BY DEF LoopInv, Shapes
<1>2. [observer : {o}, about : what] \subseteq Finding
  BY DEF Finding
<1>3. ran \in SUBSET Observer /\ found \in SUBSET Finding /\ mixed \in SUBSET Box
  BY <1>1, <1>2 DEF Entry, Mixed
<1>4. pass' = [pass EXCEPT ![p] = made]
  BY <1>1 DEF Ran
<1> HIDE DEF ran, found, mixed
<1>5. /\ made \in Entry
      /\ made.recorded_at = pass[p].recorded_at
      /\ made.at_times = pass[p].at_times
      /\ made.not_always = pass[p].not_always
      /\ made.report = pass[p].report
      /\ made.ran = ran /\ made.found = found
  BY <1>1, <1>3 DEF Entry
<1> HIDE DEF made
<1> QED
  BY <1>1, <1>4, <1>5 DEF ran, found

\* "editorial" notes the boxes it mixed up.
LEMMA RanMixed ==
  ASSUME LoopInv, NEW p \in Process, NEW o \in Observer, NEW what, Ran(p, o, what)
  PROVE  pass'[p].mixed = IF o = "editorial" THEN pass[p].mixed \cup Mixed(p)
                          ELSE pass[p].mixed
  BY DEF Ran, LoopInv, Shapes, Entry

\* A change of the tree is noted in every pass under way, and nothing is lost.
LEMMA ChangedPass ==
  ASSUME LoopInv, TheTreeChanges, Wrong' \subseteq Defect
  PROVE  /\ pass' \in [Process -> Entry]
         /\ \A q \in Process :
              /\ pass'[q].recorded_at = pass[q].recorded_at
              /\ pass'[q].ran = pass[q].ran
              /\ pass'[q].found = pass[q].found
              /\ pass'[q].mixed = pass[q].mixed
              /\ pass'[q].report = pass[q].report
              /\ pass[q].at_times \subseteq pass'[q].at_times
              /\ pass[q].not_always \subseteq pass'[q].not_always
              /\ pc[q] # "observing" => pass'[q] = pass[q]
              /\ pc[q] = "observing" => /\ Wrong' \subseteq pass'[q].at_times
                                        /\ Defect \ Wrong' \subseteq pass'[q].not_always
<1> DEFINE at(q) == pass[q].at_times \cup Wrong'
           off(q) == pass[q].not_always \cup (Defect \ Wrong')
           seen(q) == [pass[q] EXCEPT !.at_times = at(q), !.not_always = off(q)]
<1>1. ASSUME NEW q \in Process
      PROVE  pass'[q] = IF pc[q] # "observing" THEN pass[q] ELSE seen(q)
  BY DEF TheTreeChanges
<1>2. ASSUME NEW q \in Process
      PROVE  /\ pass[q] \in Entry
             /\ at(q) \in SUBSET Defect /\ off(q) \in SUBSET Defect
  BY DEF LoopInv, Shapes, Entry
<1>3. ASSUME NEW q \in Process
      PROVE  /\ Wrong' \subseteq at(q) /\ pass[q].at_times \subseteq at(q)
             /\ Defect \ Wrong' \subseteq off(q) /\ pass[q].not_always \subseteq off(q)
  OBVIOUS
<1> HIDE DEF at, off
<1>4. ASSUME NEW q \in Process
      PROVE  /\ seen(q) \in Entry
             /\ seen(q).recorded_at = pass[q].recorded_at
             /\ seen(q).ran = pass[q].ran
             /\ seen(q).found = pass[q].found
             /\ seen(q).mixed = pass[q].mixed
             /\ seen(q).report = pass[q].report
             /\ seen(q).at_times = at(q)
             /\ seen(q).not_always = off(q)
  BY <1>2 DEF Entry
<1> HIDE DEF seen
<1>5. pass' \in [Process -> Entry]
  <2>1. pass' = [q \in Process |-> pass'[q]]
    BY DEF TheTreeChanges
  <2>2. \A q \in Process : pass'[q] \in Entry
    BY <1>1, <1>2, <1>4
  <2> QED
    BY <2>1, <2>2
<1> QED
  BY <1>1, <1>3, <1>4, <1>5

\* What people do to the tree leaves it a tree.
LEMMA TreeChanges ==
  ASSUME LoopInv,
         \/ \E d \in Gap \cup Flaw : Change(d)
         \/ \E b \in Box, state \in BoxState : Reword(b, state)
  PROVE  /\ TheTreeChanges
         /\ defects' \subseteq Gap \cup Flaw /\ boxes' \in [Box -> BoxState]
         /\ changes' \in 0..MaxChanges
         /\ Wrong' \subseteq Defect
<1>1. TheTreeChanges
  BY DEF Change, Reword
<1>2. changes' \in 0..MaxChanges
  <2>1. changes < MaxChanges /\ changes' = changes + 1
    BY <1>1 DEF TheTreeChanges
  <2> QED
    BY <2>1, BoundsAssumption DEF LoopInv, Shapes
<1>3. defects' \subseteq Gap \cup Flaw /\ boxes' \in [Box -> BoxState]
  BY DEF Change, Reword, LoopInv, Shapes
<1> QED
  BY <1>1, <1>2, <1>3 DEF Wrong, Defect

\* A cycle compared has a report: on the entry before it, if there is one.
LEMMA ComparedPass ==
  ASSUME LoopInv, NEW p \in Process, Compare(p)
  PROVE  \E r \in Report :
           /\ pass' = [pass EXCEPT ![p] = [pass[p] EXCEPT !.report = r]]
           /\ r.lines = Len(ledger)
           /\ \/ /\ Previous(pass[p].recorded_at) = {}
                 /\ r.previous = 0 /\ r.new = {} /\ r.resolved = {}
              \/ \E prev \in Previous(pass[p].recorded_at) :
                   r = ReportOn(pass[p], prev)
<1>1. pass[p] \in Entry /\ pass \in [Process -> Entry]
  BY DEF LoopInv, Shapes
<1>2. Len(ledger) \in 0..MaxCycles
  BY BoundsAssumption DEF LoopInv, Shapes, Instant
<1>3. ASSUME NEW prev \in Previous(pass[p].recorded_at)
      PROVE  ReportOn(pass[p], prev) \in Report
  <2>1. prev \in Entry
    BY DEF Previous, Readable, LoopInv, Shapes
  <2>2. /\ Appeared(pass[p], prev) \subseteq Finding
        /\ Disappeared(pass[p], prev) \subseteq Finding
    BY <1>1, <2>1 DEF Appeared, Disappeared, Entry
  <2>3. /\ Moved(pass[p], prev) \subseteq Finding
        /\ MovedMixed(pass[p], prev) \subseteq Finding
    BY <2>2 DEF Moved, MovedMixed
  <2>4. prev.recorded_at \in Instant
    BY <2>1 DEF Entry
  <2> QED
    BY <1>2, <2>2, <2>3, <2>4 DEF ReportOn, Report
<1>4. CASE /\ Previous(pass[p].recorded_at) = {}
           /\ pass' = [pass EXCEPT ![p].report =
                         [NoReport EXCEPT !.lines = Len(ledger)]]
  <2> DEFINE r == [NoReport EXCEPT !.lines = Len(ledger)]
  <2>1. /\ r \in Report /\ r.lines = Len(ledger)
        /\ r.previous = 0 /\ r.new = {} /\ r.resolved = {}
    BY <1>2, BoundsAssumption DEF NoReport, Report, Instant
  <2>2. pass' = [pass EXCEPT ![p] = [pass[p] EXCEPT !.report = r]]
    BY <1>1, <1>4
  <2> QED
    BY <1>4, <2>1, <2>2
<1>5. CASE \E prev \in Previous(pass[p].recorded_at) :
             pass' = [pass EXCEPT ![p].report = ReportOn(pass[p], prev)]
  <2>1. PICK prev \in Previous(pass[p].recorded_at) :
          pass' = [pass EXCEPT ![p].report = ReportOn(pass[p], prev)]
    BY <1>5
  <2>2. pass' = [pass EXCEPT ![p] = [pass[p] EXCEPT !.report = ReportOn(pass[p], prev)]]
    BY <1>1, <2>1
  <2>3. ReportOn(pass[p], prev).lines = Len(ledger)
    BY DEF ReportOn
  <2> QED
    BY <1>3, <2>2, <2>3
<1> QED
  BY <1>4, <1>5 DEF Compare

\* What is appended is a line after the others, or spoils the last of them.
LEMMA AppendedLines ==
  ASSUME LoopInv, NEW line \in Entry, NEW newline \in BOOLEAN,
         AppendLine(line, newline)
  PROVE  /\ ledger' \in Seq(Entry) /\ ended' \in BOOLEAN
         /\ ledger' # <<>>
         /\ Len(ledger') >= Len(ledger) /\ Len(ledger') <= Len(ledger) + 1
         /\ \A i \in DOMAIN ledger' :
              \/ i \in DOMAIN ledger /\ ledger'[i] = ledger[i]
              \/ ledger'[i] = Malformed
              \/ i = Len(ledger) + 1 /\ ledger'[i] = line
<1>1. ledger \in Seq(Entry) /\ (~ended => ledger # <<>>)
  BY DEF LoopInv, Shapes, CountInv
<1>2. CASE ended
  <2>1. ledger' = Append(ledger, line)
    BY <1>2 DEF AppendLine
  <2> QED
    BY <1>1, <2>1 DEF AppendLine
<1>3. CASE ~ended
  <2>1. ledger' = [ledger EXCEPT ![Len(ledger)] = Malformed]
    BY <1>3 DEF AppendLine
  <2>2. Len(ledger) \in DOMAIN ledger
    BY <1>1, <1>3
  <2> QED
    BY <1>1, <2>1, <2>2, MalformedHasNothing DEF AppendLine
<1> QED
  BY <1>2, <1>3

-----------------------------------------------------------------------------
(* Type correctness, with what bounds the ledger                           *)

\* The processes that are in a cycle, where one begins or leaves.
LEMMA ActiveCounts ==
  ASSUME LoopInv, NEW p \in Process
  PROVE  /\ Cardinality(Active) \in Nat /\ Len(ledger) \in Nat /\ clock \in Nat
         /\ IsFiniteSet(Active \cup {p}) /\ IsFiniteSet(Active \ {p})
         /\ p \notin Active => Cardinality(Active \cup {p}) = Cardinality(Active) + 1
         /\ p \in Active => Cardinality(Active \ {p}) = Cardinality(Active) - 1
<1>1. IsFiniteSet(Active) /\ Len(ledger) \in Nat /\ clock \in Nat
  BY BoundsAssumption DEF LoopInv, CountInv, Shapes, Instant
<1> QED
  BY <1>1, FS_CardinalityType, FS_AddElement, FS_RemoveElement

\* An entry that is in order stays so as the clock goes on.
LEMMA StaysInOrder ==
  ASSUME LoopInv, clock' \in Instant, clock' >= clock,
         NEW e \in Entry, EntryOK(e)
  PROVE  EntryOK(e)'
  BY BoundsAssumption DEF EntryOK, LoopInv, Shapes, Instant

\* A step that only writes in the passes of those that observe.
LEMMA PassesKeep ==
  ASSUME LoopInv, UNCHANGED <<clock, ledger, ended>>,
         defects' \subseteq Gap \cup Flaw, boxes' \in [Box -> BoxState],
         changes' \in 0..MaxChanges,
         pass' \in [Process -> Entry],
         wanted' \in [Process -> SUBSET Observer],
         corpus' \in [Process -> SUBSET Gap],
         held' \in [Process -> [Box -> BoxState] \cup {<<>>}],
         pc' \in [Process -> {"idle", "observing", "compared"}],
         \A q \in Process :
           /\ pc'[q] = "idle" <=> pc[q] = "idle"
           /\ pc[q] = "idle" => pass'[q] = pass[q]
           /\ pass'[q].recorded_at = pass[q].recorded_at
           /\ \A f \in pass'[q].found \ pass[q].found : f.observer \in pass'[q].ran
           /\ pass[q].ran \subseteq pass'[q].ran
  PROVE  LoopInv'
<1>1. Active' = Active
  BY DEF Active
<1>2. ASSUME NEW q \in Process PROVE PassOK(q)'
  <2>1. PassOK(q)
    BY DEF LoopInv
  <2> QED
    BY <2>1 DEF PassOK, EntryOK
<1>3. ASSUME NEW i \in DOMAIN ledger' PROVE LineOK(i)'
  <2>1. LineOK(i)
    BY DEF LoopInv
  <2> QED
    BY <2>1 DEF LineOK, EntryOK, Readable
<1>4. Shapes'
  BY DEF LoopInv, Shapes
<1>5. CountInv'
  BY <1>1 DEF LoopInv, CountInv
<1> QED
  BY <1>2, <1>3, <1>4, <1>5 DEF LoopInv

LEMMA ChangeKeeps ==
  ASSUME LoopInv,
         \/ \E d \in Gap \cup Flaw : Change(d)
         \/ \E b \in Box, state \in BoxState : Reword(b, state)
  PROVE  LoopInv'
<1>1. /\ UNCHANGED <<clock, ledger, ended, pc, wanted, corpus, held>>
      /\ defects' \subseteq Gap \cup Flaw /\ boxes' \in [Box -> BoxState]
      /\ changes' \in 0..MaxChanges
  BY TreeChanges DEF TheTreeChanges
<1>2. /\ pass' \in [Process -> Entry]
      /\ \A q \in Process :
           /\ pc[q] = "idle" => pass'[q] = pass[q]
           /\ pass'[q].recorded_at = pass[q].recorded_at
           /\ pass'[q].found = pass[q].found
           /\ pass'[q].ran = pass[q].ran
  BY TreeChanges, ChangedPass
<1> QED
  BY <1>1, <1>2, PassesKeep DEF LoopInv, Shapes

\* What an observer's turn takes from what is wanted, and from the corpus.
LEMMA TurnTypes ==
  ASSUME LoopInv, NEW p \in Process, NEW o \in Observer, Turn(p, o)
  PROVE  /\ UNCHANGED <<defects, boxes, changes, clock, ledger, ended, pc>>
         /\ pc[p] = "observing"
         /\ wanted' \in [Process -> SUBSET Observer]
         /\ corpus' \in [Process -> SUBSET Gap]
         /\ held' \in [Process -> [Box -> BoxState] \cup {<<>>}]
  BY DEF Turn, tree, LoopInv, Shapes

LEMMA RanKeeps ==
  ASSUME LoopInv, NEW p \in Process, NEW o \in Observer, Turn(p, o),
         \/ pass' = pass
         \/ \E what \in SUBSET Defect : Ran(p, o, what)
  PROVE  LoopInv'
<1>1. /\ UNCHANGED <<defects, boxes, changes, clock, ledger, ended, pc>>
      /\ pc[p] = "observing"
      /\ wanted' \in [Process -> SUBSET Observer]
      /\ corpus' \in [Process -> SUBSET Gap]
      /\ held' \in [Process -> [Box -> BoxState] \cup {<<>>}]
  BY TurnTypes
<1>2. pass' \in [Process -> Entry]
  BY RanPass DEF LoopInv, Shapes
<1>3. ASSUME NEW q \in Process
      PROVE  /\ pc[q] = "idle" => pass'[q] = pass[q]
             /\ pass'[q].recorded_at = pass[q].recorded_at
             /\ \A f \in pass'[q].found \ pass[q].found : f.observer \in pass'[q].ran
             /\ pass[q].ran \subseteq pass'[q].ran
  <2>1. CASE pass' = pass
    BY <2>1
  <2>2. CASE q # p
    BY <2>1, <2>2, RanPass DEF LoopInv
  <2>3. ASSUME q = p, NEW what \in SUBSET Defect, Ran(p, o, what)
        PROVE  /\ pass'[q].recorded_at = pass[q].recorded_at
               /\ \A f \in pass'[q].found \ pass[q].found : f.observer \in pass'[q].ran
               /\ pass[q].ran \subseteq pass'[q].ran
    <3>1. /\ pass'[p].recorded_at = pass[p].recorded_at
          /\ pass'[p].ran = pass[p].ran \cup {o}
          /\ pass'[p].found = pass[p].found \cup [observer : {o}, about : what]
      BY <2>3, RanPass DEF LoopInv
    <3> QED
      BY <2>3, <3>1
  <2> QED
    BY <1>1, <2>1, <2>2, <2>3
<1> QED
  BY <1>1, <1>2, <1>3, PassesKeep DEF LoopInv, Shapes

\* What the observers find are defects.
LEMMA GapsAreDefects ==
  ASSUME LoopInv, NEW p \in Process
  PROVE  /\ corpus[p] \in SUBSET Defect
         /\ Gaps(p) \cap Proposable \in SUBSET Defect
         /\ Disagreeing(p) \in SUBSET Defect
         /\ defects \cap Flaw \in SUBSET Defect
  BY GapsAssumption DEF LoopInv, Shapes, Defect, Disagreeing

LEMMA TurnKeeps ==
  ASSUME LoopInv, NEW p \in Process,
         \/ Depth(p) \/ DataProposals(p) \/ Editorial(p) \/ UX(p)
         \/ \E o \in Observer : DoesNotRun(p, o)
  PROVE  LoopInv'
<1>1. CASE Depth(p)
  BY <1>1, GapsAreDefects, RanKeeps DEF Depth, Observer
<1>2. CASE DataProposals(p)
  <2>1. /\ Turn(p, "data-proposals")
        /\ \/ pass' = pass
           \/ Ran(p, "data-proposals", Gaps(p) \cap Proposable)
    BY <1>2 DEF DataProposals
  <2> QED
    BY <2>1, GapsAreDefects, RanKeeps DEF Observer
<1>3. CASE UX(p)
  BY <1>3, GapsAreDefects, RanKeeps DEF UX, Observer
<1>4. CASE Editorial(p)
  BY <1>4, GapsAreDefects, RanKeeps DEF Editorial, Observer
<1>5. CASE \E o \in Observer : DoesNotRun(p, o)
  BY <1>5, RanKeeps DEF DoesNotRun
<1> QED
  BY <1>1, <1>2, <1>3, <1>4, <1>5

LEMMA CompareKeeps ==
  ASSUME LoopInv, NEW p \in Process, Compare(p)
  PROVE  LoopInv'
<1>1. PICK r \in Report : pass' = [pass EXCEPT ![p] = [pass[p] EXCEPT !.report = r]]
  BY ComparedPass
<1>2. /\ pc[p] = "observing" /\ pc' = [pc EXCEPT ![p] = "compared"]
      /\ UNCHANGED <<defects, boxes, changes, clock, ledger, ended, wanted, corpus, held>>
  BY DEF Compare, tree
<1> DEFINE made == [pass[p] EXCEPT !.report = r]
<1>3. /\ made \in Entry /\ made.recorded_at = pass[p].recorded_at
      /\ made.ran = pass[p].ran /\ made.found = pass[p].found
  BY ReportFields DEF LoopInv, Shapes
<1>4. pass' = [pass EXCEPT ![p] = made]
  BY <1>1
<1> HIDE DEF made
<1>5. pass' \in [Process -> Entry]
  BY <1>3, <1>4 DEF LoopInv, Shapes
<1>6. pc' \in [Process -> {"idle", "observing", "compared"}]
  BY <1>2 DEF LoopInv, Shapes
<1>7. \A q \in Process :
        /\ pc'[q] = "idle" <=> pc[q] = "idle"
        /\ pc[q] = "idle" => pass'[q] = pass[q]
        /\ pass'[q].recorded_at = pass[q].recorded_at
        /\ pass'[q].found = pass[q].found
        /\ pass'[q].ran = pass[q].ran
  BY <1>2, <1>3, <1>4 DEF LoopInv, Shapes
<1> QED
  BY <1>2, <1>5, <1>6, <1>7, PassesKeep DEF LoopInv, Shapes

LEMMA BeginKeeps ==
  ASSUME LoopInv, NEW p \in Process, Begin(p)
  PROVE  LoopInv'
<1> DEFINE new == PassOf(clock + 1, Wrong)
<1>1. /\ pc[p] = "idle" /\ clock' = clock + 1 /\ clock' \in Instant
      /\ clock \in Nat /\ clock' >= clock
      /\ pc' = [pc EXCEPT ![p] = "observing"]
      /\ pass' = [pass EXCEPT ![p] = new]
      /\ UNCHANGED <<defects, boxes, changes, ledger, ended>>
  BY BoundsAssumption DEF Begin, tree, LoopInv, Shapes, Instant
<1>2. /\ wanted' \in [Process -> SUBSET Observer]
      /\ corpus' \in [Process -> SUBSET Gap]
      /\ held' \in [Process -> [Box -> BoxState] \cup {<<>>}]
  BY DEF Begin, LoopInv, Shapes
<1>3. new \in Entry /\ new.recorded_at = clock' /\ new.found = {}
  <2>1. NoReport \in Report
    BY BoundsAssumption DEF NoReport, Report, Instant
  <2>2. Wrong \subseteq Defect
    BY DEF Wrong, Defect, LoopInv, Shapes
  <2> QED
    BY <1>1, <2>1, <2>2 DEF PassOf, Entry
<1> HIDE DEF new
<1>4. ASSUME NEW e \in Entry, EntryOK(e) PROVE EntryOK(e)'
  BY <1>1, <1>4, StaysInOrder
<1>5. ASSUME NEW q \in Process PROVE PassOK(q)'
  <2>1. CASE q = p
    <3>1. pass'[q] = new /\ pc'[q] = "observing"
      BY <1>1, <2>1 DEF LoopInv, Shapes
    <3> QED
      BY <1>1, <1>3, <3>1 DEF PassOK, EntryOK
  <2>2. CASE q # p
    <3>1. pass'[q] = pass[q] /\ pc'[q] = pc[q] /\ pass[q] \in Entry /\ PassOK(q)
      BY <1>1, <2>2 DEF LoopInv, Shapes
    <3> QED
      BY <1>1, <3>1, <1>4 DEF PassOK, EntryOK
  <2> QED
    BY <2>1, <2>2
<1>6. ASSUME NEW i \in DOMAIN ledger' PROVE LineOK(i)'
  <2>1. ledger[i] \in Entry /\ LineOK(i) /\ ledger' = ledger
    BY <1>1 DEF LoopInv, Shapes
  <2> QED
    BY <1>4, <2>1 DEF LineOK, EntryOK, Readable
<1>7. Active' = Active \cup {p} /\ p \notin Active
  BY <1>1 DEF Active, LoopInv, Shapes
<1>8. CountInv'
  <2>1. /\ IsFiniteSet(Active')
        /\ Cardinality(Active') = Cardinality(Active) + 1
        /\ Cardinality(Active) \in Nat /\ Len(ledger) \in Nat
    BY <1>7, ActiveCounts
  <2> QED
    BY <1>1, <2>1 DEF LoopInv, CountInv
<1>9. /\ pass' \in [Process -> Entry]
      /\ pc' \in [Process -> {"idle", "observing", "compared"}]
  BY <1>1, <1>3 DEF LoopInv, Shapes
<1>10. Shapes'
  BY <1>1, <1>2, <1>9 DEF LoopInv, Shapes, Instant
<1> QED
  BY <1>5, <1>6, <1>8, <1>10 DEF LoopInv

\* A process leaves its cycle, with a line appended or without.
LEMMA LeaveKeeps ==
  ASSUME LoopInv, NEW p \in Process, WriteCycle(p) \/ StopWriting(p) \/ NotRecorded(p)
  PROVE  LoopInv'
<1>1. /\ pc[p] # "idle" /\ pc' = [pc EXCEPT ![p] = "idle"]
      /\ wanted' = [wanted EXCEPT ![p] = {}]
      /\ corpus' = [corpus EXCEPT ![p] = {}]
      /\ held' = [held EXCEPT ![p] = <<>>]
      /\ pass' = [pass EXCEPT ![p] = Malformed]
      /\ UNCHANGED <<defects, boxes, changes, clock>>
  BY DEF WriteCycle, StopWriting, NotRecorded, Leave, tree
<1>2. pass[p] \in Entry /\ EntryOK(pass[p])
  BY <1>1 DEF LoopInv, Shapes, PassOK
<1>3. \/ UNCHANGED <<ledger, ended>>
      \/ \E line \in {pass[p], Malformed}, newline \in BOOLEAN :
           AppendLine(line, newline)
  BY DEF WriteCycle, StopWriting, NotRecorded
<1>4. /\ ledger' \in Seq(Entry) /\ ended' \in BOOLEAN
      /\ ~ended' => ledger' # <<>>
      /\ Len(ledger') <= Len(ledger) + 1
      /\ \A i \in DOMAIN ledger' :
           \/ i \in DOMAIN ledger /\ ledger'[i] = ledger[i]
           \/ ledger'[i] \in {pass[p], Malformed}
  <2>1. CASE UNCHANGED <<ledger, ended>>
    BY <2>1 DEF LoopInv, Shapes, CountInv
  <2>2. CASE \E line \in {pass[p], Malformed}, newline \in BOOLEAN :
               AppendLine(line, newline)
    BY <1>2, <2>2, AppendedLines, MalformedHasNothing
  <2> QED
    BY <1>3, <2>1, <2>2
<1>5. ASSUME NEW i \in DOMAIN ledger' PROVE LineOK(i)'
  <2>1. CASE i \in DOMAIN ledger /\ ledger'[i] = ledger[i]
    <3>1. LineOK(i)
      BY <2>1 DEF LoopInv
    <3> QED
      BY <1>1, <2>1, <3>1 DEF LineOK, EntryOK, Readable
  <2>2. CASE ledger'[i] \in {pass[p], Malformed}
    BY <1>1, <1>2, <2>2 DEF LineOK, EntryOK, Readable
  <2> QED
    BY <1>4, <2>1, <2>2
<1>6. ASSUME NEW q \in Process PROVE PassOK(q)'
  <2>1. PassOK(q)
    BY DEF LoopInv
  <2> QED
    BY <1>1, <2>1 DEF PassOK, EntryOK, LoopInv, Shapes
<1>7. Active' = Active \ {p} /\ p \in Active
  BY <1>1 DEF Active, LoopInv, Shapes
<1>8. /\ IsFiniteSet(Active') /\ Cardinality(Active') \in Nat
      /\ Len(ledger') + Cardinality(Active') <= clock'
  <2>1. /\ IsFiniteSet(Active')
        /\ Cardinality(Active') = Cardinality(Active) - 1
        /\ Cardinality(Active) \in Nat
    BY <1>7, ActiveCounts
  <2>2. Cardinality(Active') \in Nat
    BY <2>1, FS_CardinalityType
  <2>3. /\ Len(ledger) \in Nat /\ Len(ledger') \in Nat /\ clock \in Nat
        /\ Len(ledger) + Cardinality(Active) <= clock
    <3>1. Len(ledger') \in Nat
      BY <1>4
    <3> QED
      BY <3>1, ActiveCounts DEF LoopInv, CountInv
  <2> QED
    BY <1>1, <1>4, <2>1, <2>2, <2>3
<1>9. Len(ledger') <= clock'
  <2>1. Len(ledger') \in Nat
    BY <1>4
  <2>2. clock' \in Nat
    BY <1>1, ActiveCounts
  <2> QED
    BY <1>8, <2>1, <2>2
<1>10. /\ pass' \in [Process -> Entry]
       /\ wanted' \in [Process -> SUBSET Observer]
       /\ corpus' \in [Process -> SUBSET Gap]
       /\ held' \in [Process -> [Box -> BoxState] \cup {<<>>}]
       /\ pc' \in [Process -> {"idle", "observing", "compared"}]
  BY <1>1, MalformedHasNothing DEF LoopInv, Shapes
<1>11. Shapes'
  BY <1>1, <1>4, <1>9, <1>10 DEF LoopInv, Shapes
<1> QED
  BY <1>4, <1>5, <1>6, <1>8, <1>11 DEF LoopInv, CountInv

LEMMA StepKeepsLoop ==
  ASSUME LoopInv, [Next]_vars
  PROVE  LoopInv'
<1>1. CASE UNCHANGED vars
  BY <1>1 DEF vars, tree, LoopInv, Shapes, LineOK, PassOK, CountInv, Active, EntryOK,
              Readable
<1> QED
  BY <1>1, ChangeKeeps, BeginKeeps, TurnKeeps, CompareKeeps, LeaveKeeps DEF Next

LEMMA StartsInOrder == Init => LoopInv
<1> SUFFICES ASSUME Init PROVE LoopInv
  OBVIOUS
<1>1. Active = {}
  BY DEF Init, Active
<1>2. CountInv
  BY <1>1, FS_EmptySet DEF Init, CountInv
<1>3. Shapes
  BY MalformedHasNothing, AtFirstAssumption, BoundsAssumption
     DEF Init, Shapes, Instant
<1> QED
  BY <1>2, <1>3 DEF LoopInv, Init, PassOK

(* Through any number of overlapping cycles, torn lines and lines glued to *)
(* them: what can be read of the ledger are entries of cycles that began,  *)
(* each with findings of observers that ran, and there are no more lines   *)
(* than cycles.                                                            *)
THEOREM LoopTypeCorrect == Spec => []LoopTypeOK
<1>1. LoopInv => LoopTypeOK
  BY DEF LoopInv, Shapes, LineOK, PassOK, Readable, LoopTypeOK
<1> QED
  BY <1>1, StartsInOrder, StepKeepsLoop, PTL DEF Spec

-----------------------------------------------------------------------------
(* What moved, moved                                                       *)

\* What an observer can find, if it is there.
CanFind(o) ==
  IF o = "depth" THEN Gap
  ELSE IF o = "data-proposals" THEN Proposable
  ELSE IF o = "editorial" THEN Box ELSE Flaw

\* What "editorial" says of a box it mixed up tells nothing of the tree.
MixedUp(e, f) == f.observer = "editorial" /\ f.about \in e.mixed

\* What an entry found was there at some time of its pass, and what an observer
\* that ran could have found and did not was at some time not.
Real(e) ==
  /\ \A f \in e.found : /\ f.about \in CanFind(f.observer)
                        /\ ~MixedUp(e, f) => f.about \in e.at_times
  /\ \A f \in Finding : /\ f.observer \in e.ran
                        /\ f.about \in CanFind(f.observer)
                        /\ f \notin e.found
                        /\ ~MixedUp(e, f)
       => f.about \in e.not_always

ReportReal(e) ==
  e.report.new \cup e.report.resolved \subseteq e.report.real \cup e.report.mixed

\* What box b was when p loaded the corpus has been in the tree.
WasHeld(p, b) == IF held[p][b].label \in held[p][b].claims
                 THEN b \in pass[p].not_always ELSE b \in pass[p].at_times

\* A pass under way has what is in the tree now, what "depth" is to read, and
\* what "editorial" is to hold the pages against.
Watches(p) ==
  /\ Wrong \subseteq pass[p].at_times
  /\ Defect \ Wrong \subseteq pass[p].not_always
  /\ "depth" \in wanted[p] =>
       /\ corpus[p] \subseteq pass[p].at_times
       /\ Gap \ corpus[p] \subseteq pass[p].not_always
  /\ "editorial" \in wanted[p] => \A b \in Box : WasHeld(p, b)

SeenInv ==
  /\ \A i \in DOMAIN ledger : Real(ledger[i]) /\ ReportReal(ledger[i])
  /\ \A p \in Process :
       /\ Real(pass[p]) /\ ReportReal(pass[p])
       /\ pc[p] = "observing" => Watches(p)

\* More that was there, and more that was not, takes nothing back.
LEMMA RealGrows ==
  ASSUME NEW d, NEW e, Real(d), e.found = d.found, e.ran = d.ran,
         e.mixed = d.mixed, d.at_times \subseteq e.at_times, d.not_always \subseteq e.not_always
  PROVE  Real(e)
  BY DEF Real, MixedUp

\* Two real entries tell of movements that took place, but for boxes that one of
\* them mixed up.
MovesKnown(e, prev) == Moved(e, prev) \cup MovedMixed(e, prev)

LEMMA MovedIsAll ==
  ASSUME NEW e \in Entry, NEW prev \in Entry, Real(e), Real(prev)
  PROVE  Appeared(e, prev) \cup Disappeared(e, prev) \subseteq MovesKnown(e, prev)
<1>1. ASSUME NEW f \in Appeared(e, prev)
      PROVE  f \in MovesKnown(e, prev)
  <2>1. /\ f \in Finding /\ f \in e.found /\ f \notin prev.found
        /\ f.observer \in prev.ran
    BY <1>1 DEF Appeared, Comparable, Entry
  <2>2. CASE MixedUp(e, f) \/ MixedUp(prev, f)
    BY <1>1, <2>2 DEF MixedUp, MovesKnown, MovedMixed
  <2>3. CASE ~MixedUp(e, f) /\ ~MixedUp(prev, f)
    <3>1. f.about \in e.at_times /\ f.about \in prev.not_always
      BY <2>1, <2>3 DEF Real
    <3> QED
      BY <1>1, <3>1 DEF Moved, MovesKnown
  <2> QED
    BY <2>2, <2>3
<1>2. ASSUME NEW f \in Disappeared(e, prev)
      PROVE  f \in MovesKnown(e, prev)
  <2>1. /\ f \in Finding /\ f \in prev.found /\ f \notin e.found
        /\ f.observer \in e.ran
    BY <1>2 DEF Disappeared, Comparable, Entry
  <2>2. CASE MixedUp(e, f) \/ MixedUp(prev, f)
    BY <1>2, <2>2 DEF MixedUp, MovesKnown, MovedMixed
  <2>3. CASE ~MixedUp(e, f) /\ ~MixedUp(prev, f)
    <3>1. f.about \in prev.at_times /\ f.about \in e.not_always
      BY <2>1, <2>3 DEF Real
    <3> QED
      BY <1>2, <3>1 DEF Moved, MovesKnown
  <2> QED
    BY <2>2, <2>3
<1> QED
  BY <1>1, <1>2

\* An observer that finds, of what it can find and has not mixed up, what is
\* there.
LEMMA RealRan ==
  ASSUME LoopInv, NEW p \in Process, NEW o \in Observer,
         NEW what \in SUBSET Defect, Ran(p, o, what), Real(pass[p]),
         what \subseteq CanFind(o),
         \A d \in CanFind(o) : \/ o = "editorial" /\ d \in Mixed(p)
                               \/ IF d \in what THEN d \in pass[p].at_times
                                                ELSE d \in pass[p].not_always
  PROVE  Real(pass'[p])
<1>1. /\ pass'[p].at_times = pass[p].at_times
      /\ pass'[p].not_always = pass[p].not_always
      /\ pass'[p].ran = pass[p].ran \cup {o}
      /\ pass'[p].found = pass[p].found \cup [observer : {o}, about : what]
  BY RanPass
<1>2. pass'[p].mixed = IF o = "editorial" THEN pass[p].mixed \cup Mixed(p)
                       ELSE pass[p].mixed
  BY RanMixed
<1>3. ASSUME NEW f, ~MixedUp(pass'[p], f)
      PROVE  /\ ~MixedUp(pass[p], f)
             /\ f.observer = o => ~ (o = "editorial" /\ f.about \in Mixed(p))
  BY <1>2, <1>3 DEF MixedUp
<1>4. ASSUME NEW f \in pass'[p].found
      PROVE  /\ f.about \in CanFind(f.observer)
             /\ ~MixedUp(pass'[p], f) => f.about \in pass'[p].at_times
  <2>1. CASE f \in pass[p].found
    BY <1>1, <1>3, <2>1 DEF Real
  <2>2. CASE f \in [observer : {o}, about : what]
    <3>1. f.observer = o /\ f.about \in what
      BY <2>2
    <3> QED
      BY <1>1, <1>3, <3>1
  <2> QED
    BY <1>1, <2>1, <2>2
<1>5. ASSUME NEW f \in Finding, f.observer \in pass'[p].ran,
             f.about \in CanFind(f.observer), f \notin pass'[p].found,
             ~MixedUp(pass'[p], f)
      PROVE  f.about \in pass'[p].not_always
  <2>1. CASE f.observer = o
    <3>1. f.about \notin what
      BY <1>1, <1>5, <2>1 DEF Finding
    <3> QED
      BY <1>1, <1>3, <1>5, <2>1, <3>1
  <2>2. CASE f.observer # o
    BY <1>1, <1>3, <1>5, <2>2 DEF Real
  <2> QED
    BY <2>1, <2>2
<1> QED
  BY <1>4, <1>5 DEF Real

\* The four observers do.
LEMMA ObserversAreReal ==
  ASSUME LoopInv, SeenInv, NEW p \in Process,
         Depth(p) \/ DataProposals(p) \/ Editorial(p) \/ UX(p)
  PROVE  Real(pass'[p])
<1>1. pc[p] = "observing" /\ Real(pass[p]) /\ Watches(p) /\ pass[p] \in Entry
  BY DEF Depth, DataProposals, Editorial, UX, Turn, SeenInv, LoopInv, Shapes
<1>2. CASE Depth(p)
  <2>1. "depth" \in wanted[p] /\ corpus[p] \subseteq Gap
    BY <1>2 DEF Depth, Turn, LoopInv, Shapes
  <2>2. /\ corpus[p] \subseteq CanFind("depth")
        /\ \A d \in CanFind("depth") : IF d \in corpus[p] THEN d \in pass[p].at_times
                                        ELSE d \in pass[p].not_always
    BY <1>1, <2>1 DEF Watches, CanFind
  <2> QED
    BY <1>1, <1>2, <2>2, GapsAreDefects, RealRan DEF Depth, Observer
<1>3. CASE DataProposals(p) /\ HasInput(p)
  <2> DEFINE what == Gaps(p) \cap Proposable
  <2>1. PICK g \in pass[p].found : g.observer = "depth"
    BY <1>3 DEF HasInput, Gaps
  <2>2. "depth" \in pass[p].ran
    BY <1>1, <2>1 DEF LoopInv, PassOK, EntryOK
  <2>3. what \subseteq CanFind("data-proposals") /\ what \subseteq pass[p].at_times
    BY <1>1 DEF Gaps, CanFind, Real, MixedUp
  <2>4. ASSUME NEW d \in Proposable, d \notin what
        PROVE  d \in pass[p].not_always
    <3> DEFINE f == [observer |-> "depth", about |-> d]
    <3>1. /\ f \in Finding /\ f.observer = "depth" /\ f.about = d
          /\ d \in CanFind("depth")
      BY <2>4, GapsAssumption DEF Finding, Observer, Defect, CanFind
    <3>2. f \notin pass[p].found
      BY <2>4, <3>1 DEF Gaps
    <3> HIDE DEF f
    <3> QED
      BY <1>1, <2>2, <3>1, <3>2 DEF Real, MixedUp
  <2>5. \A d \in CanFind("data-proposals") :
          IF d \in what THEN d \in pass[p].at_times ELSE d \in pass[p].not_always
    BY <2>3, <2>4 DEF CanFind
  <2>6. what \in SUBSET Defect /\ "data-proposals" \in Observer
        /\ Ran(p, "data-proposals", what)
    BY <1>3, GapsAreDefects DEF DataProposals, Observer
  <2> HIDE DEF what
  <2> QED
    BY <1>1, <2>3, <2>5, <2>6, RealRan
<1>4. CASE DataProposals(p) /\ ~HasInput(p)
  BY <1>1, <1>4 DEF DataProposals
<1>5. CASE UX(p)
  <2>1. /\ defects \cap Flaw \subseteq CanFind("ux")
        /\ \A d \in CanFind("ux") : IF d \in defects \cap Flaw
                                     THEN d \in pass[p].at_times
                                     ELSE d \in pass[p].not_always
    BY <1>1, GapsAssumption DEF Watches, CanFind, Defect, Wrong
  <2> QED
    BY <1>1, <1>5, <2>1, GapsAreDefects, RealRan DEF UX, Observer
<1>6. CASE Editorial(p)
  <2>1. Disagreeing(p) \subseteq CanFind("editorial")
    BY DEF Disagreeing, CanFind
  <2>2. ASSUME NEW b \in Box, b \notin Mixed(p)
        PROVE  IF b \in Disagreeing(p) THEN b \in pass[p].at_times
               ELSE b \in pass[p].not_always
    <3>1. b \in Disagreeing(p) <=> boxes[b].label \notin held[p][b].claims
      BY DEF Disagreeing
    <3>2. CASE held[p][b].label = boxes[b].label
      <4>1. WasHeld(p, b)
        BY <1>1, <1>6 DEF Watches, Editorial, Turn
      <4> QED
        BY <3>1, <3>2, <4>1 DEF WasHeld
    <3>3. CASE held[p][b].claims = boxes[b].claims
      <4>1. b \in Wrong <=> boxes[b].label \notin boxes[b].claims
        BY GapsAssumption DEF Wrong, LoopInv, Shapes
      <4>2. IF b \in Wrong THEN b \in pass[p].at_times ELSE b \in pass[p].not_always
        BY <1>1 DEF Watches, Defect
      <4> QED
        BY <3>1, <3>3, <4>1, <4>2
    <3> QED
      BY <2>2, <3>2, <3>3 DEF Mixed
  <2>3. \A d \in CanFind("editorial") :
          \/ d \in Mixed(p)
          \/ IF d \in Disagreeing(p) THEN d \in pass[p].at_times
                                      ELSE d \in pass[p].not_always
    BY <2>2 DEF CanFind
  <2> QED
    BY <1>1, <1>6, <2>1, <2>3, GapsAreDefects, RealRan DEF Editorial, Observer
<1> QED
  BY <1>2, <1>3, <1>4, <1>5, <1>6

LEMMA SeenTurn ==
  ASSUME LoopInv, SeenInv, NEW p \in Process,
         \/ Depth(p) \/ DataProposals(p) \/ Editorial(p) \/ UX(p)
         \/ \E o \in Observer : DoesNotRun(p, o)
  PROVE  SeenInv'
<1>1. PICK o \in Observer :
        /\ Turn(p, o)
        /\ \/ pass' = pass
           \/ \E what \in SUBSET Defect : Ran(p, o, what)
  <2>1. {"depth", "data-proposals", "editorial", "ux"} = Observer
    BY DEF Observer
  <2>2. CASE Depth(p)
    BY <2>1, <2>2, GapsAreDefects DEF Depth
  <2>3. CASE DataProposals(p)
    BY <2>1, <2>3, GapsAreDefects DEF DataProposals
  <2>4. CASE UX(p)
    BY <2>1, <2>4, GapsAreDefects DEF UX
  <2>5. CASE Editorial(p)
    BY <2>1, <2>5, GapsAreDefects DEF Editorial
  <2>6. CASE \E o \in Observer : DoesNotRun(p, o)
    BY <2>6 DEF DoesNotRun
  <2> QED
    BY <2>2, <2>3, <2>4, <2>5, <2>6
<1>2. /\ UNCHANGED <<defects, boxes, ledger, pc>>
      /\ pc[p] = "observing"
      /\ wanted' = [wanted EXCEPT ![p] = wanted[p] \ {o}]
      /\ corpus' = [corpus EXCEPT ![p] = IF o = "depth" THEN {} ELSE corpus[p]]
      /\ held' = [held EXCEPT ![p] = IF o = "editorial" THEN <<>> ELSE held[p]]
  BY <1>1 DEF Turn, tree
<1>3. \A q \in Process :
        /\ q # p => pass'[q] = pass[q]
        /\ pass'[q].at_times = pass[q].at_times
        /\ pass'[q].not_always = pass[q].not_always
        /\ pass'[q].report = pass[q].report
  BY <1>1, RanPass
<1>4. Real(pass'[p])
  BY ObserversAreReal DEF DoesNotRun, SeenInv
<1>5. ASSUME NEW q \in Process
      PROVE  /\ Real(pass'[q]) /\ ReportReal(pass'[q])
             /\ pc'[q] = "observing" => Watches(q)'
  <2>1. /\ Real(pass[q]) /\ ReportReal(pass[q])
        /\ pc[q] = "observing" => Watches(q)
    BY DEF SeenInv
  <2>2. Real(pass'[q]) /\ ReportReal(pass'[q])
    BY <1>3, <1>4, <2>1 DEF ReportReal
  <2>3. "depth" \in wanted'[q] => "depth" \in wanted[q] /\ corpus'[q] = corpus[q]
    BY <1>2 DEF LoopInv, Shapes
  <2>4. "editorial" \in wanted'[q] =>
          "editorial" \in wanted[q] /\ held'[q] = held[q]
    BY <1>2 DEF LoopInv, Shapes
  <2>5. Wrong' = Wrong
    BY <1>2 DEF Wrong
  <2> QED
    BY <1>2, <1>3, <2>1, <2>2, <2>3, <2>4, <2>5 DEF Watches, WasHeld
<1> QED
  BY <1>2, <1>5 DEF SeenInv

LEMMA SeenChange ==
  ASSUME LoopInv, SeenInv,
         \/ \E d \in Gap \cup Flaw : Change(d)
         \/ \E b \in Box, state \in BoxState : Reword(b, state)
  PROVE  SeenInv'
<1>1. UNCHANGED <<ledger, pc, wanted, corpus, held>>
  BY TreeChanges DEF TheTreeChanges
<1>2. ASSUME NEW q \in Process
      PROVE  /\ Real(pass'[q]) /\ ReportReal(pass'[q])
             /\ pc'[q] = "observing" => Watches(q)'
  <2>1. /\ Real(pass[q]) /\ ReportReal(pass[q])
        /\ pc[q] = "observing" => Watches(q)
    BY DEF SeenInv
  <2>2. /\ pass'[q].found = pass[q].found /\ pass'[q].ran = pass[q].ran
        /\ pass'[q].mixed = pass[q].mixed /\ pass'[q].report = pass[q].report
        /\ pass[q].at_times \subseteq pass'[q].at_times
        /\ pass[q].not_always \subseteq pass'[q].not_always
        /\ pc[q] = "observing" => /\ Wrong' \subseteq pass'[q].at_times
                                  /\ Defect \ Wrong' \subseteq pass'[q].not_always
    BY TreeChanges, ChangedPass
  <2>3. Real(pass'[q]) /\ ReportReal(pass'[q])
    BY <2>1, <2>2, RealGrows DEF ReportReal
  <2>4. ASSUME pc[q] = "observing" PROVE Watches(q)'
    BY <1>1, <2>1, <2>2, <2>4 DEF Watches, WasHeld
  <2> QED
    BY <1>1, <2>3, <2>4
<1> QED
  BY <1>1, <1>2 DEF SeenInv

LEMMA SeenBegin ==
  ASSUME LoopInv, SeenInv, NEW p \in Process, Begin(p)
  PROVE  SeenInv'
<1> DEFINE new == PassOf(clock + 1, Wrong)
<1>1. /\ pc' = [pc EXCEPT ![p] = "observing"]
      /\ wanted' = [wanted EXCEPT ![p] = Observer]
      /\ corpus' = [corpus EXCEPT ![p] = defects \cap Gap]
      /\ held' = [held EXCEPT ![p] = boxes]
      /\ pass' = [pass EXCEPT ![p] = new]
      /\ UNCHANGED <<defects, boxes, ledger>>
  BY DEF Begin, tree
<1>2. /\ new.found = {} /\ new.ran = {} /\ new.at_times = Wrong
      /\ new.not_always = Defect \ Wrong
      /\ new.report.new = {} /\ new.report.resolved = {}
  BY DEF PassOf, NoReport
<1> HIDE DEF new
<1>3. Real(new) /\ ReportReal(new)
  BY <1>2 DEF Real, ReportReal
<1>4. Wrong' = Wrong
  BY <1>1 DEF Wrong
<1>5. ASSUME NEW q \in Process
      PROVE  /\ Real(pass'[q]) /\ ReportReal(pass'[q])
             /\ pc'[q] = "observing" => Watches(q)'
  <2>1. CASE q = p
    <3>1. pass'[p] = new /\ corpus'[p] = defects \cap Gap /\ held'[p] = boxes
      BY <1>1 DEF LoopInv, Shapes
    <3>2. defects \cap Gap \subseteq Wrong /\ Gap \ defects \subseteq Defect \ Wrong
      BY GapsAssumption DEF Wrong, Defect
    <3>3. \A b \in Box : IF boxes[b].label \in boxes[b].claims
                         THEN b \in Defect \ Wrong ELSE b \in Wrong
      BY GapsAssumption DEF Wrong, Defect, LoopInv, Shapes
    <3>4. Watches(p)'
      BY <1>2, <1>4, <3>1, <3>2, <3>3 DEF Watches, WasHeld
    <3> QED
      BY <1>3, <2>1, <3>1, <3>4
  <2>2. CASE q # p
    <3>1. pass'[q] = pass[q] /\ corpus'[q] = corpus[q] /\ wanted'[q] = wanted[q]
          /\ held'[q] = held[q] /\ pc'[q] = pc[q]
      BY <1>1, <2>2 DEF LoopInv, Shapes
    <3> QED
      BY <1>4, <3>1 DEF SeenInv, Watches, WasHeld
  <2> QED
    BY <2>1, <2>2
<1> QED
  BY <1>1, <1>5 DEF SeenInv

LEMMA SeenCompare ==
  ASSUME LoopInv, SeenInv, NEW p \in Process, Compare(p)
  PROVE  SeenInv'
<1>1. PICK r \in Report :
        /\ pass' = [pass EXCEPT ![p] = [pass[p] EXCEPT !.report = r]]
        /\ \/ r.new = {} /\ r.resolved = {}
           \/ \E prev \in Previous(pass[p].recorded_at) :
                r = ReportOn(pass[p], prev)
  BY ComparedPass
<1>2. /\ pc' = [pc EXCEPT ![p] = "compared"]
      /\ UNCHANGED <<defects, boxes, ledger, wanted, corpus, held>>
  BY DEF Compare, tree
<1> DEFINE made == [pass[p] EXCEPT !.report = r]
<1>3. /\ made.report = r
      /\ made.ran = pass[p].ran /\ made.found = pass[p].found
      /\ made.at_times = pass[p].at_times
      /\ made.not_always = pass[p].not_always /\ made.mixed = pass[p].mixed
  BY ReportFields DEF LoopInv, Shapes
<1>4. pass'[p] = made /\ \A q \in Process : q # p => pass'[q] = pass[q]
  BY <1>1 DEF LoopInv, Shapes
<1> HIDE DEF made
<1>5. Real(made)
  BY <1>3 DEF SeenInv, Real, MixedUp
<1>6. r.new \cup r.resolved \subseteq r.real \cup r.mixed
  <2>1. CASE r.new = {} /\ r.resolved = {}
    BY <2>1
  <2>2. ASSUME NEW prev \in Previous(pass[p].recorded_at),
               r = ReportOn(pass[p], prev)
        PROVE  r.new \cup r.resolved \subseteq r.real \cup r.mixed
    <3>1. PICK j \in DOMAIN ledger : prev = ledger[j]
      BY DEF Previous, Readable
    <3>2. prev \in Entry /\ Real(prev) /\ pass[p] \in Entry /\ Real(pass[p])
      BY <3>1 DEF LoopInv, Shapes, SeenInv
    <3>3. /\ r.new = Appeared(pass[p], prev)
          /\ r.resolved = Disappeared(pass[p], prev)
          /\ r.real = Moved(pass[p], prev) /\ r.mixed = MovedMixed(pass[p], prev)
      BY <2>2 DEF ReportOn
    <3> QED
      BY <3>2, <3>3, MovedIsAll DEF MovesKnown
  <2> QED
    BY <1>1, <2>1, <2>2
<1>7. ASSUME NEW q \in Process
      PROVE  /\ Real(pass'[q]) /\ ReportReal(pass'[q])
             /\ pc'[q] = "observing" => Watches(q)'
  <2>1. CASE q = p
    BY <1>2, <1>3, <1>4, <1>5, <1>6, <2>1 DEF ReportReal, LoopInv, Shapes
  <2>2. CASE q # p
    <3>1. pass'[q] = pass[q] /\ pc'[q] = pc[q]
      BY <1>2, <1>4, <2>2 DEF LoopInv, Shapes
    <3> QED
      BY <1>2, <3>1 DEF SeenInv, Watches, WasHeld, Wrong
  <2> QED
    BY <2>1, <2>2
<1> QED
  BY <1>2, <1>7 DEF SeenInv

\* A process leaves, and what it leaves in the ledger is its pass, or nothing
\* that can be read.
LEMMA LeavingOnly ==
  ASSUME LoopInv, NEW p \in Process, WriteCycle(p) \/ StopWriting(p) \/ NotRecorded(p)
  PROVE  /\ pc[p] # "idle" /\ pc'[p] = "idle" /\ pass'[p] = Malformed
         /\ UNCHANGED <<defects, boxes, clock>>
         /\ \A q \in Process : q # p =>
              /\ pc'[q] = pc[q] /\ pass'[q] = pass[q]
              /\ wanted'[q] = wanted[q] /\ corpus'[q] = corpus[q]
              /\ held'[q] = held[q]
         /\ Len(ledger') >= Len(ledger)
         /\ \A i \in DOMAIN ledger' :
              \/ i \in DOMAIN ledger /\ ledger'[i] = ledger[i]
              \/ ledger'[i] = Malformed
              \/ i = Len(ledger) + 1 /\ ledger'[i] = pass[p] /\ pc[p] = "compared"
<1>1. /\ pc[p] # "idle" /\ Leave(p)
  BY DEF WriteCycle, StopWriting, NotRecorded
<1>2. /\ pc'[p] = "idle" /\ pass'[p] = Malformed
      /\ UNCHANGED <<defects, boxes, clock>>
      /\ \A q \in Process : q # p =>
           /\ pc'[q] = pc[q] /\ pass'[q] = pass[q]
           /\ wanted'[q] = wanted[q] /\ corpus'[q] = corpus[q]
           /\ held'[q] = held[q]
  BY <1>1 DEF Leave, tree, LoopInv, Shapes
<1>3. \/ UNCHANGED ledger
      \/ /\ pc[p] = "compared"
         /\ \E line \in {pass[p], Malformed}, newline \in BOOLEAN :
              AppendLine(line, newline)
  BY DEF WriteCycle, StopWriting, NotRecorded
<1>4. CASE UNCHANGED ledger
  <2>1. Len(ledger) \in Nat
    BY DEF LoopInv, Shapes
  <2> QED
    BY <1>1, <1>2, <1>4, <2>1
<1>5. CASE /\ pc[p] = "compared"
           /\ \E line \in {pass[p], Malformed}, newline \in BOOLEAN :
                AppendLine(line, newline)
  <2>1. pass[p] \in Entry
    BY DEF LoopInv, Shapes
  <2>2. /\ Len(ledger') >= Len(ledger)
        /\ \A i \in DOMAIN ledger' :
             \/ i \in DOMAIN ledger /\ ledger'[i] = ledger[i]
             \/ ledger'[i] = Malformed
             \/ i = Len(ledger) + 1 /\ ledger'[i] = pass[p]
    BY <1>5, <2>1, AppendedLines, MalformedHasNothing
  <2> QED
    BY <1>1, <1>2, <1>5, <2>2
<1> QED
  BY <1>3, <1>4, <1>5

LEMMA SeenLeave ==
  ASSUME LoopInv, SeenInv, NEW p \in Process,
         WriteCycle(p) \/ StopWriting(p) \/ NotRecorded(p)
  PROVE  SeenInv'
<1>1. Real(Malformed) /\ ReportReal(Malformed)
  BY MalformedHasNothing DEF Real, ReportReal, NoReport
<1>2. ASSUME NEW i \in DOMAIN ledger'
      PROVE  Real(ledger'[i]) /\ ReportReal(ledger'[i])
  BY <1>1, LeavingOnly DEF SeenInv
<1>3. ASSUME NEW q \in Process
      PROVE  /\ Real(pass'[q]) /\ ReportReal(pass'[q])
             /\ pc'[q] = "observing" => Watches(q)'
  <2>1. CASE q = p
    BY <1>1, <2>1, LeavingOnly
  <2>2. CASE q # p
    BY <2>2, LeavingOnly DEF SeenInv, Watches, WasHeld, Wrong
  <2> QED
    BY <2>1, <2>2
<1> QED
  BY <1>2, <1>3 DEF SeenInv

LEMMA SeenStep ==
  ASSUME LoopInv, SeenInv, [Next]_vars
  PROVE  SeenInv'
<1>1. CASE UNCHANGED vars
  BY <1>1 DEF vars, tree, SeenInv, Watches, WasHeld, Wrong
<1> QED
  BY <1>1, SeenChange, SeenBegin, SeenTurn, SeenCompare, SeenLeave DEF Next

(* Whatever failed, was left out or had no input in either of two cycles,  *)
(* and whatever people mended or broke while they ran: a finding called    *)
(* resolved was in the tree in the first and not always in the second, and *)
(* one called new the other way round; but for boxes of which "editorial"  *)
(* came to hold, in one of the two, a new label against claims that are    *)
(* others now.                                                             *)
THEOREM MovementsAreReal == Spec => []MovementIsReal
<1>1. Init => SeenInv
  BY MalformedHasNothing DEF Init, SeenInv, Real, ReportReal, NoReport
<1>2. SeenInv => MovementIsReal
  BY DEF SeenInv, ReportReal, MovementIsReal
<1> QED
  BY <1>1, <1>2, StartsInOrder, StepKeepsLoop, SeenStep, PTL DEF Spec

-----------------------------------------------------------------------------
(* What `history` tells, and what the cycles told                          *)

\* No two cycles began in one instant.
OneInstant ==
  /\ \A i, j \in Readable : ledger[i].recorded_at = ledger[j].recorded_at => i = j
  /\ \A p, q \in Active : pass[p].recorded_at = pass[q].recorded_at => p = q
  /\ \A i \in Readable : \A p \in Active :
       ledger[i].recorded_at # pass[p].recorded_at

\* What a report of an entry has said stays true of the lines it saw, as far as
\* they can be read: the one it was told against is one of them and no other
\* that began before is later.  No cycle is under way that could record the
\* instant it names once more.
Tells(e) ==
  LET r == e.report IN
  /\ r.previous < e.recorded_at
  /\ \A q \in Active : pass[q].recorded_at # r.previous
  /\ r.lines <= Len(ledger)
  /\ \A j \in Readable :
       /\ ledger[j].recorded_at = r.previous =>
            /\ j <= r.lines
            /\ r.new = Appeared(e, ledger[j])
            /\ r.resolved = Disappeared(e, ledger[j])
       /\ j <= r.lines /\ ledger[j].recorded_at < e.recorded_at =>
            ledger[j].recorded_at <= r.previous

TellInv ==
  /\ OneInstant
  /\ \A p \in Process : pc[p] = "compared" => Tells(pass[p])
  /\ \A i \in Readable : Tells(ledger[i])

\* Of some positions up to n one is the last.
LEMMA LastLine ==
  ASSUME NEW n \in Nat, NEW S \in SUBSET (1 .. n), S # {}
  PROVE  \E i \in S : \A j \in S : j <= i
<1> DEFINE R == OpToRel(<, Nat)
           T == {n - i : i \in S}
<1>1. IsWellFoundedOn(R, Nat)
  BY NatLessThanWellFounded
<1>2. \A a, b \in Nat : <<a, b>> \in R <=> a < b
  BY DEF OpToRel
<1>3. T \subseteq Nat /\ T # {}
  <2>1. \A i \in S : n - i \in Nat
    OBVIOUS
  <2> QED
    BY <2>1
<1> HIDE DEF R
<1>4. \E x \in T : \A y \in T : <<y, x>> \notin R
  <2> HIDE DEF T
  <2> QED
    BY <1>1, <1>3, WFMin
<1>5. PICK i \in S : \A j \in S : <<n - j, n - i>> \notin R
  BY <1>4
<1>6. ASSUME NEW j \in S PROVE j <= i
  <2>1. n - j \in Nat /\ n - i \in Nat
    OBVIOUS
  <2>2. <<n - j, n - i>> \notin R
    BY <1>5
  <2>3. ~ (n - j < n - i)
    BY <1>2, <2>1, <2>2
  <2> QED
    BY <2>3
<1> QED
  BY <1>6

\* The entries there are, and their instants.
LEMMA Instants ==
  ASSUME LoopInv
  PROVE  /\ clock \in Nat
         /\ Len(ledger) \in Nat /\ DOMAIN ledger = 1 .. Len(ledger)
         /\ \A i \in Readable : /\ i \in DOMAIN ledger /\ ledger[i] \in Entry
                                /\ ledger[i].recorded_at \in 1..clock
         /\ \A p \in Active : /\ p \in Process /\ pass[p] \in Entry
                              /\ pass[p].recorded_at \in 1..clock
<1>1. clock \in Nat /\ ledger \in Seq(Entry)
  BY BoundsAssumption DEF LoopInv, Shapes, Instant
<1>2. ASSUME NEW i \in Readable
      PROVE  /\ i \in DOMAIN ledger /\ ledger[i] \in Entry
             /\ ledger[i].recorded_at \in 1..clock
  <2>1. i \in DOMAIN ledger /\ LineOK(i)
    BY DEF Readable, LoopInv
  <2> QED
    BY <1>1, <2>1 DEF LineOK, EntryOK
<1>3. ASSUME NEW p \in Active
      PROVE  /\ p \in Process /\ pass[p] \in Entry
             /\ pass[p].recorded_at \in 1..clock
  BY DEF Active, LoopInv, PassOK, EntryOK, Shapes
<1> QED
  BY <1>1, <1>2, <1>3

\* An entry of the ledger or of a pass names instants that were.
LEMMA NamedInstants ==
  ASSUME LoopInv, NEW e \in Entry
  PROVE  /\ e.recorded_at \in Nat /\ e.report.previous \in Nat
         /\ e.report.lines \in Nat
  BY BoundsAssumption DEF Entry, Report, Instant

\* A step in which nobody begins, leaves or compares leaves all of it as it was.
LEMMA TellsStay ==
  ASSUME LoopInv, TellInv, UNCHANGED <<ledger, pc>>,
         \A q \in Process :
           /\ pass'[q].recorded_at = pass[q].recorded_at
           /\ pass'[q].report = pass[q].report
           /\ pc[q] = "compared" => /\ pass'[q].found = pass[q].found
                                    /\ pass'[q].ran = pass[q].ran
  PROVE  TellInv'
<1>1. Readable' = Readable /\ Active' = Active /\ Active \subseteq Process
  BY DEF Readable, Active
<1>2. OneInstant'
  BY <1>1 DEF TellInv, OneInstant
<1>3. ASSUME NEW e, Tells(e)
      PROVE  Tells(e)'
  BY <1>1, <1>3 DEF Tells, Appeared, Disappeared, Comparable
<1>4. ASSUME NEW p \in Process, pc[p] = "compared"
      PROVE  Tells(pass[p])'
  <2>1. Tells(pass[p])
    BY <1>4 DEF TellInv
  <2>2. /\ pass'[p].recorded_at = pass[p].recorded_at
        /\ pass'[p].report = pass[p].report
        /\ pass'[p].found = pass[p].found /\ pass'[p].ran = pass[p].ran
    BY <1>4
  <2>3. ASSUME NEW d
        PROVE  /\ Appeared(pass'[p], d) = Appeared(pass[p], d)
               /\ Disappeared(pass'[p], d) = Disappeared(pass[p], d)
    BY <2>2 DEF Appeared, Disappeared, Comparable
  <2> QED
    BY <1>1, <2>1, <2>2, <2>3 DEF Tells
<1>5. ASSUME NEW i \in Readable PROVE Tells(ledger[i])'
  BY <1>3 DEF TellInv, Tells
<1> QED
  BY <1>1, <1>2, <1>4, <1>5 DEF TellInv

\* A cycle that begins does so after all that are under way or recorded.
LEMMA TellsBegin ==
  ASSUME LoopInv, TellInv, NEW p \in Process, Begin(p)
  PROVE  TellInv'
<1> DEFINE now == clock + 1
<1>1. /\ pc[p] = "idle"
      /\ pc' = [pc EXCEPT ![p] = "observing"]
      /\ UNCHANGED ledger
      /\ pass'[p].recorded_at = now
      /\ \A q \in Process : q # p => pass'[q] = pass[q]
  BY DEF Begin, PassOf, LoopInv, Shapes
<1>2. /\ Readable' = Readable /\ p \notin Active
      /\ Active' = Active \cup {p}
      /\ \A q \in Active : q # p /\ pass'[q] = pass[q]
  BY <1>1 DEF Readable, Active, LoopInv, Shapes
<1>3. /\ now \in Nat
      /\ \A i \in Readable : ledger[i].recorded_at < now
      /\ \A q \in Active : pass[q].recorded_at < now
  BY Instants
<1> HIDE DEF now
<1>4. OneInstant'
  <2>1. ASSUME NEW i \in Readable, NEW q \in Active'
        PROVE  ledger[i].recorded_at # pass'[q].recorded_at
    BY <1>1, <1>2, <1>3, Instants DEF TellInv, OneInstant
  <2>2. ASSUME NEW r \in Active', NEW q \in Active',
               pass'[r].recorded_at = pass'[q].recorded_at
        PROVE  r = q
    BY <1>1, <1>2, <1>3, <2>2, Instants DEF TellInv, OneInstant
  <2> QED
    BY <1>1, <1>2, <2>1, <2>2 DEF TellInv, OneInstant
<1>5. ASSUME NEW e \in Entry, Tells(e), e.recorded_at < now
      PROVE  Tells(e)'
  <2>1. \A q \in Active' : pass'[q].recorded_at # e.report.previous
    BY <1>1, <1>2, <1>3, <1>5, NamedInstants DEF Tells
  <2> QED
    BY <1>1, <1>2, <1>5, <2>1 DEF Tells
<1>6. ASSUME NEW q \in Process, pc'[q] = "compared" PROVE Tells(pass[q])'
  <2>1. /\ q # p /\ pc[q] = "compared" /\ pass'[q] = pass[q]
        /\ pass[q] \in Entry /\ q \in Active
    BY <1>1, <1>6 DEF Active, LoopInv, Shapes
  <2>2. Tells(pass[q]) /\ pass[q].recorded_at < now
    BY <1>3, <2>1 DEF TellInv
  <2>3. \A e : e = pass[q] => Tells(e)'
    BY <1>5, <2>1, <2>2
  <2> QED
    BY <2>1, <2>3 DEF Tells
<1>7. ASSUME NEW i \in Readable PROVE Tells(ledger[i])'
  <2>1. ledger[i] \in Entry /\ Tells(ledger[i]) /\ ledger[i].recorded_at < now
    BY <1>3, Instants DEF TellInv
  <2>2. \A e : e = ledger[i] => Tells(e)'
    BY <1>5, <2>1
  <2> QED
    BY <1>1, <2>2 DEF Tells
<1> QED
  BY <1>2, <1>4, <1>6, <1>7 DEF TellInv

\* A cycle that compares itself tells of the latest of the lines there are.
LEMMA TellsCompare ==
  ASSUME LoopInv, TellInv, NEW p \in Process, Compare(p)
  PROVE  TellInv'
<1>1. PICK r \in Report :
        /\ pass' = [pass EXCEPT ![p] = [pass[p] EXCEPT !.report = r]]
        /\ r.lines = Len(ledger)
        /\ \/ /\ Previous(pass[p].recorded_at) = {}
              /\ r.previous = 0 /\ r.new = {} /\ r.resolved = {}
           \/ \E prev \in Previous(pass[p].recorded_at) :
                r = ReportOn(pass[p], prev)
  BY ComparedPass
<1> DEFINE made == [pass[p] EXCEPT !.report = r]
           now == pass[p].recorded_at
<1>2. /\ pc[p] = "observing" /\ pc' = [pc EXCEPT ![p] = "compared"]
      /\ UNCHANGED ledger
  BY DEF Compare
<1>3. /\ made \in Entry /\ made.report = r /\ made.recorded_at = now
      /\ made.ran = pass[p].ran /\ made.found = pass[p].found
  BY ReportFields DEF LoopInv, Shapes
<1>4. pass'[p] = made /\ \A q \in Process : q # p => pass'[q] = pass[q]
  BY <1>1 DEF LoopInv, Shapes
<1> HIDE DEF made
<1>5. /\ Readable' = Readable /\ Active' = Active /\ p \in Active
      /\ Active \subseteq Process
      /\ \A q \in Active : pass'[q].recorded_at = pass[q].recorded_at
  BY <1>2, <1>3, <1>4 DEF Readable, Active, LoopInv, Shapes
<1>6. OneInstant'
  BY <1>2, <1>5 DEF TellInv, OneInstant
<1>7. ASSUME NEW e, Tells(e) PROVE Tells(e)'
  BY <1>2, <1>5, <1>7 DEF Tells
<1>8. Tells(made)
  <2>1. now \in 1..clock /\ clock \in Nat
    BY <1>5, Instants
  <2>2. ASSUME NEW d
        PROVE  /\ Appeared(made, d) = Appeared(pass[p], d)
               /\ Disappeared(made, d) = Disappeared(pass[p], d)
    BY <1>3 DEF Appeared, Disappeared, Comparable
  <2>3. Len(ledger) \in Nat /\ \A j \in Readable : j <= Len(ledger)
    BY Instants
  <2>4. CASE Previous(now) = {} /\ r.previous = 0
    <3>1. ASSUME NEW j \in Readable, ledger[j].recorded_at < now PROVE FALSE
      <4> DEFINE S == {ledger[i].recorded_at :
                         i \in {k \in Readable : ledger[k].recorded_at < now}}
      <4>1. S \subseteq 1..clock /\ S # {}
        BY <3>1, Instants
      <4>2. \E x \in S : \A y \in S : y <= x
        <5> HIDE DEF S
        <5> QED
          BY <2>1, <4>1, LastLine
      <4>3. PICK k \in Readable :
              /\ ledger[k].recorded_at < now
              /\ \A i \in Readable : ledger[i].recorded_at < now
                   => ledger[i].recorded_at <= ledger[k].recorded_at
        BY <4>2
      <4>4. ledger[k] \in Previous(now)
        BY <4>3 DEF Previous
      <4> QED
        BY <2>4, <4>4
    <3>2. \A q \in Active : pass[q].recorded_at # 0
      BY Instants
    <3>3. \A j \in Readable : ledger[j].recorded_at # 0
      BY Instants
    <3> QED
      BY <1>1, <1>3, <2>1, <2>3, <2>4, <3>1, <3>2, <3>3 DEF Tells
  <2>5. ASSUME NEW prev \in Previous(now), r = ReportOn(pass[p], prev)
        PROVE  Tells(made)
    <3>1. PICK k \in Readable : prev = ledger[k] /\ ledger[k].recorded_at < now
      BY DEF Previous
    <3>2. \A j \in Readable : ledger[j].recorded_at < now =>
            ledger[j].recorded_at <= prev.recorded_at
      BY DEF Previous
    <3>3. /\ r.previous = prev.recorded_at /\ r.new = Appeared(pass[p], prev)
          /\ r.resolved = Disappeared(pass[p], prev)
      BY <2>5 DEF ReportOn
    <3>4. \A q \in Active : pass[q].recorded_at # r.previous
      BY <3>1, <3>3 DEF TellInv, OneInstant
    <3>5. \A j \in Readable : ledger[j].recorded_at = r.previous => ledger[j] = prev
      BY <3>1, <3>3 DEF TellInv, OneInstant
    <3>6. ASSUME NEW j \in Readable
          PROVE  /\ ledger[j].recorded_at = r.previous =>
                      /\ j <= r.lines
                      /\ r.new = Appeared(made, ledger[j])
                      /\ r.resolved = Disappeared(made, ledger[j])
                 /\ j <= r.lines /\ ledger[j].recorded_at < now =>
                      ledger[j].recorded_at <= r.previous
      BY <1>1, <2>2, <2>3, <3>2, <3>3, <3>5
    <3>7. r.previous < now /\ r.lines <= Len(ledger)
      BY <1>1, <2>3, <3>1, <3>3
    <3> QED
      BY <1>3, <3>4, <3>6, <3>7 DEF Tells
  <2> QED
    BY <1>1, <2>4, <2>5
<1>9. ASSUME NEW q \in Process, pc'[q] = "compared" PROVE Tells(pass[q])'
  <2>1. \A e : e = made => Tells(e)'
    BY <1>7, <1>8
  <2>2. CASE q = p
    BY <1>4, <2>1, <2>2 DEF Tells
  <2>3. CASE q # p
    <3>1. pass'[q] = pass[q] /\ Tells(pass[q])
      BY <1>2, <1>4, <1>9, <2>3 DEF TellInv, LoopInv, Shapes
    <3>2. \A e : e = pass[q] => Tells(e)'
      BY <1>7, <3>1
    <3> QED
      BY <3>1, <3>2 DEF Tells
  <2> QED
    BY <2>2, <2>3
<1>10. ASSUME NEW i \in Readable PROVE Tells(ledger[i])'
  <2>1. \A e : e = ledger[i] => Tells(e)'
    BY <1>7 DEF TellInv
  <2> QED
    BY <1>2, <2>1 DEF Tells
<1> QED
  BY <1>5, <1>6, <1>9, <1>10 DEF TellInv

\* A cycle that is left adds a line that can be read, or one that cannot, and
\* may take from the lines that could.
LEMMA TellsLeave ==
  ASSUME LoopInv, TellInv, NEW p \in Process,
         WriteCycle(p) \/ StopWriting(p) \/ NotRecorded(p)
  PROVE  TellInv'
<1> DEFINE n == Len(ledger) + 1
<1>1. /\ p \in Active /\ Active' = Active \ {p} /\ Active' \subseteq Process
      /\ \A q \in Active' : q # p /\ pass'[q] = pass[q] /\ q \in Active
  BY LeavingOnly DEF Active
<1>2. /\ Len(ledger) \in Nat /\ n \in Nat /\ Len(ledger') >= Len(ledger)
      /\ \A i \in Readable : i <= Len(ledger)
  BY Instants, LeavingOnly
<1>3. ASSUME NEW i \in Readable'
      PROVE  \/ i \in Readable /\ ledger'[i] = ledger[i]
             \/ i = n /\ ledger'[i] = pass[p] /\ pc[p] = "compared"
  BY LeavingOnly DEF Readable
<1> HIDE DEF n
<1>4. \A i \in Readable : /\ ledger[i].recorded_at # pass[p].recorded_at
                          /\ i # n
  BY <1>1, <1>2 DEF TellInv, OneInstant, n
<1>5. OneInstant'
  <2>1. \A i, j \in Readable' : ledger'[i].recorded_at = ledger'[j].recorded_at => i = j
    BY <1>3, <1>4 DEF TellInv, OneInstant
  <2>2. \A i \in Readable' : \A q \in Active' :
          ledger'[i].recorded_at # pass'[q].recorded_at
    BY <1>1, <1>3 DEF TellInv, OneInstant
  <2>3. \A q, r \in Active' : pass'[q].recorded_at = pass'[r].recorded_at => q = r
    BY <1>1 DEF TellInv, OneInstant
  <2> QED
    BY <2>1, <2>2, <2>3 DEF OneInstant
<1>6. ASSUME NEW e \in Entry, Tells(e) PROVE Tells(e)'
  <2>1. e.report.lines \in Nat /\ e.report.lines <= Len(ledger)
    BY <1>6, NamedInstants DEF Tells
  <2>2. ~ (n <= e.report.lines) /\ e.report.lines <= Len(ledger')
    <3>1. Len(ledger') \in Nat
      BY StepKeepsLoop, Instants DEF LoopInv, Shapes, Next
    <3> QED
      BY <1>2, <2>1, <3>1 DEF n
  <2>3. \A q \in Active' : pass'[q].recorded_at # e.report.previous
    BY <1>1, <1>6 DEF Tells
  <2>4. ASSUME NEW j \in Readable'
        PROVE  /\ ledger'[j].recorded_at = e.report.previous =>
                    /\ j <= e.report.lines
                    /\ e.report.new = Appeared(e, ledger'[j])
                    /\ e.report.resolved = Disappeared(e, ledger'[j])
               /\ j <= e.report.lines /\ ledger'[j].recorded_at < e.recorded_at =>
                    ledger'[j].recorded_at <= e.report.previous
    <3>1. CASE j \in Readable /\ ledger'[j] = ledger[j]
      BY <1>6, <3>1 DEF Tells
    <3>2. CASE j = n /\ ledger'[j] = pass[p]
      BY <1>1, <1>6, <2>2, <3>2 DEF Tells
    <3> QED
      BY <1>3, <3>1, <3>2
  <2> QED
    BY <1>6, <2>2, <2>3, <2>4 DEF Tells
<1>7. ASSUME NEW q \in Process, pc'[q] = "compared" PROVE Tells(pass[q])'
  <2>1. /\ pass'[q] = pass[q] /\ pc[q] = "compared" /\ pass[q] \in Entry
    BY <1>7, LeavingOnly DEF LoopInv, Shapes
  <2>2. \A e : e = pass[q] => Tells(e)'
    BY <1>6, <2>1 DEF TellInv
  <2> QED
    BY <2>1, <2>2 DEF Tells
<1>8. ASSUME NEW i \in Readable' PROVE Tells(ledger[i])'
  <2>1. CASE i \in Readable /\ ledger'[i] = ledger[i]
    <3>1. \A e : e = ledger[i] => Tells(e)'
      BY <1>6, <2>1, Instants DEF TellInv
    <3> QED
      BY <2>1, <3>1 DEF Tells
  <2>2. CASE ledger'[i] = pass[p] /\ pc[p] = "compared"
    <3>1. \A e : e = pass[p] => Tells(e)'
      BY <1>1, <1>6, <2>2, Instants DEF TellInv
    <3> QED
      BY <2>2, <3>1 DEF Tells
  <2> QED
    BY <1>3, <2>1, <2>2
<1> QED
  BY <1>5, <1>7, <1>8 DEF TellInv

\* An observer's turn leaves what was told as it was.
LEMMA TellsTurn ==
  ASSUME LoopInv, TellInv, NEW p \in Process,
         \/ Depth(p) \/ DataProposals(p) \/ Editorial(p) \/ UX(p)
         \/ \E o \in Observer : DoesNotRun(p, o)
  PROVE  TellInv'
<1>1. PICK o \in Observer :
        /\ Turn(p, o)
        /\ \/ pass' = pass
           \/ \E what \in SUBSET Defect : Ran(p, o, what)
  <2>1. {"depth", "data-proposals", "editorial", "ux"} = Observer
    BY DEF Observer
  <2>2. CASE Depth(p)
    BY <2>1, <2>2, GapsAreDefects DEF Depth
  <2>3. CASE DataProposals(p)
    BY <2>1, <2>3, GapsAreDefects DEF DataProposals
  <2>4. CASE UX(p)
    BY <2>1, <2>4, GapsAreDefects DEF UX
  <2>5. CASE Editorial(p)
    BY <2>1, <2>5, GapsAreDefects DEF Editorial
  <2>6. CASE \E o \in Observer : DoesNotRun(p, o)
    BY <2>6 DEF DoesNotRun
  <2> QED
    BY <2>2, <2>3, <2>4, <2>5, <2>6
<1>2. UNCHANGED <<ledger, pc>> /\ pc[p] = "observing"
  BY <1>1 DEF Turn
<1>3. \A q \in Process :
        /\ q # p => pass'[q] = pass[q]
        /\ pass'[q].recorded_at = pass[q].recorded_at
        /\ pass'[q].report = pass[q].report
  BY <1>1, RanPass
<1> QED
  BY <1>2, <1>3, TellsStay

LEMMA TellsStep ==
  ASSUME LoopInv, TellInv, [Next]_vars
  PROVE  TellInv'
<1>1. CASE UNCHANGED vars
  BY <1>1, TellsStay DEF vars
<1>2. ASSUME \/ \E d \in Gap \cup Flaw : Change(d)
             \/ \E b \in Box, state \in BoxState : Reword(b, state)
      PROVE  TellInv'
  <2>1. TheTreeChanges /\ Wrong' \subseteq Defect
    BY <1>2, TreeChanges
  <2> QED
    BY <2>1, ChangedPass, TellsStay DEF TheTreeChanges
<1> QED
  BY <1>1, <1>2, TellsBegin, TellsTurn, TellsCompare, TellsLeave DEF Next

\* Where cycles did not overlap, what is above a line and what its cycle was
\* told against are one.
LEMMA AboveIsPrevious ==
  ASSUME LoopInv, TellInv, NEW i \in Readable, ~Overlapped(i)
  PROVE  /\ ledger[i].report.previous # 0 => Above(i) # {}
         /\ \A j \in Above(i) :
              /\ ledger[i].report.previous = ledger[j].recorded_at
              /\ ledger[i].report.new = Appeared(ledger[i], ledger[j])
              /\ ledger[i].report.resolved = Disappeared(ledger[i], ledger[j])
<1> DEFINE e == ledger[i]
           r == e.report
<1>1. /\ Tells(e) /\ r.lines = i - 1
      /\ r.previous # 0 => \E k \in Readable : ledger[k].recorded_at = r.previous
      /\ \A j, k \in Readable : j < k /\ k <= i =>
           ~ (ledger[j].recorded_at > ledger[k].recorded_at)
  BY DEF TellInv, Overlapped
<1>2. /\ \A k \in Readable : k \in Nat /\ k \in 1 .. Len(ledger)
                             /\ ledger[k].recorded_at \in Nat
                             /\ ledger[k].recorded_at # 0
      /\ e \in Entry /\ r.previous \in Nat /\ Len(ledger) \in Nat
  BY Instants, NamedInstants
<1>3. ASSUME NEW k \in Readable, ledger[k].recorded_at = r.previous
      PROVE  /\ k < i
             /\ r.new = Appeared(e, ledger[k])
             /\ r.resolved = Disappeared(e, ledger[k])
  BY <1>1, <1>2, <1>3 DEF Tells
<1>4. ASSUME r.previous # 0 PROVE Above(i) # {}
  <2> DEFINE S == {j \in Readable : j < i}
  <2>1. S # {} /\ S \subseteq 1 .. Len(ledger)
    BY <1>1, <1>2, <1>3, <1>4
  <2>2. \E j \in S : \A k \in S : k <= j
    <3> HIDE DEF S
    <3> QED
      BY <1>2, <2>1, LastLine
  <2> QED
    BY <2>2 DEF Above
<1>5. ASSUME NEW j \in Above(i)
      PROVE  ledger[j].recorded_at = r.previous
  <2>1. /\ j \in Readable /\ j < i
        /\ \A k \in Readable : k < i => k <= j
    BY DEF Above
  <2>2. ledger[j].recorded_at < e.recorded_at
    <3>1. ledger[j].recorded_at # ledger[i].recorded_at
      BY <1>2, <2>1 DEF TellInv, OneInstant
    <3> QED
      BY <1>1, <1>2, <2>1, <3>1
  <2>3. ledger[j].recorded_at <= r.previous
    BY <1>1, <1>2, <2>1, <2>2 DEF Tells
  <2>4. r.previous # 0
    BY <1>2, <2>1, <2>3
  <2>5. PICK k \in Readable : ledger[k].recorded_at = r.previous
    BY <1>1, <2>4
  <2>6. k <= j
    BY <1>3, <2>1, <2>5
  <2>7. ~ (ledger[k].recorded_at > ledger[j].recorded_at)
    BY <1>1, <1>2, <2>1, <2>6
  <2> QED
    BY <1>2, <2>1, <2>3, <2>5, <2>7
<1>6. \A j \in Above(i) : j \in Readable
  BY DEF Above
<1> QED
  BY <1>3, <1>4, <1>5, <1>6

(* `history`, which goes by lines, and the cycles, which went by instants, *)
(* tell the same movement of every recorded cycle no other overlapped, for *)
(* any number of processes, through crashes that cut lines short and lines *)
(* that were glued to them.                                                *)
THEOREM HistoryIsTheReports == Spec => []HistoryTellsTheReports
<1>1. Init => TellInv
  BY DEF Init, TellInv, OneInstant, Readable, Active
<1>2. LoopInv /\ TellInv => HistoryTellsTheReports
  <2> SUFFICES ASSUME LoopInv, TellInv, NEW i \in Readable, ~Overlapped(i)
               PROVE  LET r == ledger[i].report
                          above == {ledger[j] : j \in Above(i)}
                      IN  IF above = {} THEN r.previous = 0
                          ELSE \A prev \in above :
                                 /\ r.previous = prev.recorded_at
                                 /\ r.new = Appeared(ledger[i], prev)
                                 /\ r.resolved = Disappeared(ledger[i], prev)
    BY Zenon DEF HistoryTellsTheReports
  <2> QED
    BY AboveIsPrevious
<1> QED
  BY <1>1, <1>2, StartsInOrder, StepKeepsLoop, TellsStep, PTL DEF Spec
=============================================================================
