---------------------------- MODULE ReleaseProofs ----------------------------
(***************************************************************************)
(* What holds of dispatches and of the gate for every set of proposals and *)
(* files, every history of the clone and every bound.                      *)
(***************************************************************************)
EXTENDS Release, WellFoundedInduction, TLAPS

-----------------------------------------------------------------------------
(* Sequences of entries                                                    *)

\* A prefix agrees with what it begins, position for position.
LEMMA PrefixMeans ==
  ASSUME NEW s \in Seq(Entry), NEW t \in Seq(Entry)
  PROVE  IsPrefixOf(s, t) <=>
           /\ Len(s) <= Len(t)
           /\ \A k \in 1..Len(s) : t[k] = s[k]
<1> USE DEF IsPrefixOf
<1>1. ASSUME Len(s) <= Len(t)
      PROVE  /\ SubSeq(t, 1, Len(s)) \in Seq(Entry)
             /\ Len(SubSeq(t, 1, Len(s))) = Len(s)
             /\ \A k \in 1..Len(s) : SubSeq(t, 1, Len(s))[k] = t[k]
  BY <1>1
<1>2. ASSUME Len(s) <= Len(t), \A k \in 1..Len(s) : t[k] = s[k]
      PROVE  SubSeq(t, 1, Len(s)) = s
  BY <1>1, <1>2
<1> QED
  BY <1>1, <1>2

\* Every sequence of entries begins itself.
LEMMA PrefixOfItself ==
  ASSUME NEW s \in Seq(Entry)
  PROVE  IsPrefixOf(s, s)
BY PrefixMeans

\* What begins a beginning begins the whole.
LEMMA PrefixOfPrefix ==
  ASSUME NEW s \in Seq(Entry), NEW t \in Seq(Entry), NEW u \in Seq(Entry),
         IsPrefixOf(s, t), IsPrefixOf(t, u)
  PROVE  IsPrefixOf(s, u)
<1>1. Len(s) \in Nat /\ Len(t) \in Nat /\ Len(u) \in Nat
  OBVIOUS
<1> QED
  BY <1>1, PrefixMeans

\* Two sequences that begin each other are the same.
LEMMA PrefixOfEachOther ==
  ASSUME NEW s \in Seq(Entry), NEW t \in Seq(Entry),
         IsPrefixOf(s, t), IsPrefixOf(t, s)
  PROVE  s = t
<1>1. Len(s) = Len(t) /\ \A k \in 1..Len(s) : t[k] = s[k]
  BY PrefixMeans
<1> QED
  BY <1>1

\* Appending an entry continues a sequence.
LEMMA PrefixOfAppended ==
  ASSUME NEW s \in Seq(Entry), NEW e \in Entry
  PROVE  /\ Append(s, e) \in Seq(Entry)
         /\ IsPrefixOf(s, Append(s, e))
<1> DEFINE t == Append(s, e)
<1>1. t \in Seq(Entry) /\ Len(s) <= Len(t) /\ \A k \in 1..Len(s) : t[k] = s[k]
  OBVIOUS
<1> HIDE DEF t
<1>2. IsPrefixOf(s, t)
  BY <1>1, PrefixMeans
<1> QED
  BY <1>1, <1>2 DEF t

\* The lines of a beginning are lines of the whole, where they were.
LEMMA LinesOfPrefix ==
  ASSUME NEW s \in Seq(Entry), NEW t \in Seq(Entry), IsPrefixOf(s, t)
  PROVE  /\ Lines(s) \subseteq Lines(t)
         /\ \A k \in DOMAIN s : k \in DOMAIN t /\ t[k] = s[k]
<1>1. \A k \in DOMAIN s : k \in DOMAIN t /\ t[k] = s[k]
  BY PrefixMeans
<1>2. ASSUME NEW k \in DOMAIN s PROVE <<k, s[k]>> \in Lines(t)
  <2>1. k \in DOMAIN t /\ <<k, s[k]>> = <<k, t[k]>>
    BY <1>1
  <2> QED
    BY <2>1, Zenon DEF Lines
<1>3. Lines(s) \subseteq Lines(t)
  BY <1>2, Zenon DEF Lines
<1> QED
  BY <1>1, <1>3, Zenon

(* A set of positions of a sequence that is not empty has a last one.      *)
LEMMA LastPosition ==
  ASSUME NEW n \in Nat, NEW S \in SUBSET (1..n), S # {}
  PROVE  \E i \in S : \A j \in S : j <= i
<1> DEFINE R == OpToRel(<, Nat)
           T == {n - i : i \in S}
<1>1. IsWellFoundedOn(R, Nat)
  BY NatLessThanWellFounded
<1>2. \A a, b \in Nat : <<a, b>> \in R <=> a < b
  BY DEF OpToRel
<1>3. T \subseteq Nat /\ T # {}
  <2>1. \A i \in S : n - i \in Nat
    OBVIOUS
  <2> QED
    BY <2>1
<1> HIDE DEF R
<1>4. \E x \in T : \A y \in T : <<y, x>> \notin R
  <2> HIDE DEF T
  <2> QED
    BY <1>1, <1>3, WFMin
<1>5. PICK i \in S : \A y \in T : <<y, n - i>> \notin R
  BY <1>4
<1>6. ASSUME NEW j \in S PROVE j <= i
  <2>1. n - j \in Nat /\ n - i \in Nat /\ ~ (n - j < n - i)
    BY <1>2, <1>3, <1>5
  <2> QED
    BY <2>1
<1> QED
  BY <1>6

(* The last decision on a proposal is one of the decisions on it.          *)
LEMMA LastOnIsADecision ==
  ASSUME NEW lines \in Seq(Entry), NEW p, DecisionsOn(lines, p) # {}
  PROVE  /\ LastOn(lines, p) \in DOMAIN lines
         /\ lines[LastOn(lines, p)] \in Entry
         /\ lines[LastOn(lines, p)].proposal = p
<1>1. DecisionsOn(lines, p) \in SUBSET (1..Len(lines)) /\ Len(lines) \in Nat
  BY DEF DecisionsOn
<1>2. \E i \in DecisionsOn(lines, p) : \A j \in DecisionsOn(lines, p) : j <= i
  BY <1>1, LastPosition
<1>3. LastOn(lines, p) \in DecisionsOn(lines, p)
  BY <1>2 DEF LastOn
<1> QED
  BY <1>3 DEF DecisionsOn

(* What a commit cites is one of the grants it may cite, and the last.     *)
LEMMA CitedIsTheLast ==
  ASSUME NEW i, commits[i].before \in Seq(Entry), Precedes(i) # {}
  PROVE  /\ Cited(i) \in Precedes(i)
         /\ \A other \in Precedes(i) : other[1] <= Cited(i)[1]
<1> DEFINE before == commits[i].before
           S == {line[1] : line \in Precedes(i)}
<1>1. S \in SUBSET (1..Len(before)) /\ Len(before) \in Nat /\ S # {}
  BY DEF Precedes, Granting, Lines
<1>2. PICK k \in S : \A l \in S : l <= k
  <2> HIDE DEF S
  <2> QED
    BY <1>1, LastPosition
<1>3. PICK line \in Precedes(i) : line[1] = k
  OBVIOUS
<1>4. \A other \in Precedes(i) : other[1] <= line[1]
  BY <1>2, <1>3
<1> QED
  BY <1>3, <1>4 DEF Cited

-----------------------------------------------------------------------------
(* Types                                                                   *)

\* What the place of the dispatch says of what it holds: from the approval on
\* a grant of the content it read, and from the isolation on a branch of its
\* own, neither of the two that are always there nor the one it came from.
WithAGrant == {"isolate", "write", "check", "scope"}
OnItsBranch == {"write", "check", "scope"}

StageTells ==
  /\ pc \in {"approval"} \cup WithAGrant =>
       job.proposal \in Proposal /\ job.content \in Version
  /\ pc \in WithAGrant =>
       job.decision \in Entry /\ Grants(job.decision, job.proposal, job.content)
  /\ pc \in OnItsBranch =>
       /\ head = Own
       /\ Own \notin {Main, Feature}
       /\ job.origin \in Branch \ {Own}

\* The scope of a proposal holds files, so never the ledger.
LEMMA ScopeIsOfFiles ==
  ASSUME job.proposal \in Proposal, job.content \in Version
  PROVE  Permitted \subseteq File
BY ScopeAssumption DEF Permitted

\* Commit c is added on the branch checked out.
Adds(c) ==
  LET n == Len(commits) + 1 IN
  /\ n \notin DOMAIN commits
  /\ DOMAIN commits' = DOMAIN commits \cup {n}
  /\ \A i \in DOMAIN commits : commits'[i] = commits[i]
  /\ commits'[n] = c
  /\ DOMAIN tip' = DOMAIN tip
  /\ tip'[head] = [past |-> Past(head) \cup {n}, ledger |-> c.ledger]
  /\ \A b \in DOMAIN tip \ {head} : tip'[b] = tip[b]

\* git commit adds one commit, of the right type, on the branch checked out.
LEMMA CommitAdds ==
  ASSUME CloneTypeOK, NEW files \in SUBSET Path, NEW lines \in Seq(Entry),
         NEW trailers \in Trailers \cup {None}, NEW content \in 0..MaxVersion,
         NEW grant \in Nat, CommitOn(files, lines, trailers, content, grant)
  PROVE  /\ Adds([files |-> files, before |-> Committed, ledger |-> lines,
                  trailers |-> trailers, at |-> now, content |-> content,
                  grant |-> grant])
         /\ commits' \in Seq(CommitType)
         /\ DOMAIN tip' = DOMAIN tip
         /\ \A b \in DOMAIN tip' :
              tip'[b] \in [past : SUBSET DOMAIN commits', ledger : Seq(Entry)]
<1> DEFINE n == Len(commits) + 1
           new == [files |-> files, before |-> Committed, ledger |-> lines,
                   trailers |-> trailers, at |-> now, content |-> content,
                   grant |-> grant]
<1>1. Committed \in Seq(Entry) /\ head \in DOMAIN tip /\ Past(head) \subseteq DOMAIN commits
  BY DEF CloneTypeOK, Committed, Past
<1>2. new \in CommitType /\ new.ledger = lines
  BY <1>1 DEF CommitType, CloneTypeOK
<1>3. commits' = Append(commits, new)
  BY DEF CommitOn
<1> HIDE DEF new
<1>4. /\ commits' \in Seq(CommitType)
      /\ n \notin DOMAIN commits
      /\ DOMAIN commits' = DOMAIN commits \cup {n}
      /\ \A i \in DOMAIN commits : commits'[i] = commits[i]
      /\ commits'[n] = new
  BY <1>2, <1>3 DEF CloneTypeOK
<1>5. /\ DOMAIN tip' = DOMAIN tip
      /\ tip'[head] = [past |-> Past(head) \cup {n}, ledger |-> new.ledger]
      /\ \A b \in DOMAIN tip \ {head} : tip'[b] = tip[b]
  BY <1>1, <1>2 DEF CommitOn, Past
<1>6. Adds(new)
  BY <1>4, <1>5 DEF Adds
<1> HIDE DEF n
<1>7. tip'[head] \in [past : SUBSET DOMAIN commits', ledger : Seq(Entry)]
  BY <1>1, <1>2, <1>4, <1>5
<1>8. \A b \in DOMAIN tip \ {head} :
        tip'[b] \in [past : SUBSET DOMAIN commits', ledger : Seq(Entry)]
  BY <1>4, <1>5 DEF CloneTypeOK
<1> QED
  BY <1>4, <1>5, <1>6, <1>7, <1>8 DEF new

\* Leaving the dispatch's own branch, or staying where git refuses that,
\* keeps the branches that are always there.
LEMMA BackKeepsTypes ==
  ASSUME TypeOK, StageTells, pc \in OnItsBranch,
         NEW d \in SUBSET File, NEW s \in SUBSET d, NEW lines \in Seq(Entry),
         Back(d, s, lines), now' = now
  PROVE  CloneTypeOK'
<1>1. head = Own /\ Own \notin {Main, Feature, job.origin}
  BY DEF StageTells
<1>2. commits' = commits /\ dirty' = d /\ staged' = s
  BY DEF Back
<1>3. CASE /\ job.origin \in DOMAIN tip
           /\ head' = job.origin
           /\ tip' = [b \in DOMAIN tip \ {Own} |-> tip[b]]
           /\ ledger' = IF lines = Committed THEN tip[job.origin].ledger ELSE lines
  <2>1. ledger' \in Seq(Entry)
    BY <1>3 DEF TypeOK, CloneTypeOK
  <2>2. DOMAIN tip' = DOMAIN tip \ {Own} /\ \A b \in DOMAIN tip' : tip'[b] = tip[b]
    BY <1>3
  <2> QED
    BY <1>1, <1>2, <1>3, <2>1, <2>2 DEF TypeOK, CloneTypeOK
<1>4. CASE ledger' = lines /\ UNCHANGED <<head, tip>>
  BY <1>2, <1>4 DEF TypeOK, CloneTypeOK
<1> QED
  BY <1>3, <1>4 DEF Back

\* What people and agents do meanwhile keeps every type.
LEMMA MeanwhileKeepsTypes ==
  ASSUME TypeOK, Meanwhile, now' = now
  PROVE  CloneTypeOK' /\ (pc # "idle" => head' = head)
<1> USE DEF TypeOK
<1>1. ASSUME NEW f \in File, Edit(f) \/ Stage(f) \/ Discard(f)
      PROVE  CloneTypeOK' /\ head' = head
  BY <1>1 DEF Edit, Stage, Discard, CloneTypeOK
<1>2. ASSUME NEW p \in Proposal, NEW outcome \in {"granted", "denied"},
             Decide(p, store[p], outcome)
      PROVE  CloneTypeOK' /\ head' = head
  <2> DEFINE e == [proposal |-> p, version |-> store[p], outcome |-> outcome,
                 at |-> now]
  <2>1. e \in Entry /\ ledger' = Append(ledger, e)
    BY <1>2 DEF Decide, Entry, CloneTypeOK
  <2>2. ledger' \in Seq(Entry)
    BY <2>1, PrefixOfAppended DEF CloneTypeOK
  <2> QED
    BY <1>2, <2>2 DEF Decide, CloneTypeOK
<1>3. CASE CommitLedger
  <2>1. CommitOn({Ledger}, ledger, None, 0, 0)
    BY <1>3 DEF CommitLedger
  <2>2. {Ledger} \in SUBSET Path /\ ledger \in Seq(Entry) /\ 0 \in 0..MaxVersion
    BY BoundsAssumption DEF Path, CloneTypeOK
  <2>3. /\ commits' \in Seq(CommitType)
        /\ DOMAIN tip' = DOMAIN tip
        /\ \A b \in DOMAIN tip' :
             tip'[b] \in [past : SUBSET DOMAIN commits', ledger : Seq(Entry)]
    BY <2>1, <2>2, CommitAdds
  <2> QED
    BY <1>3, <2>3 DEF CommitLedger, CloneTypeOK
<1>4. ASSUME NEW b \in DOMAIN tip, Merge(b)
      PROVE  CloneTypeOK' /\ head' = head
  <2>1. PICK main \in {Main, b} :
          tip' = [tip EXCEPT ![Main] = [past |-> Past(Main) \cup Past(b),
                                       ledger |-> tip[main].ledger]]
    BY <1>4 DEF Merge
  <2>2. [past |-> Past(Main) \cup Past(b), ledger |-> tip[main].ledger]
          \in [past : SUBSET DOMAIN commits, ledger : Seq(Entry)]
    BY DEF CloneTypeOK, Past
  <2> QED
    BY <1>4, <2>1, <2>2 DEF Merge, CloneTypeOK
<1>5. ASSUME NEW b \in DOMAIN tip, DeleteMerged(b)
      PROVE  CloneTypeOK' /\ head' = head
  BY <1>5 DEF DeleteMerged, CloneTypeOK
<1>6. ASSUME NEW b \in DOMAIN tip, Switch(b)
      PROVE  CloneTypeOK'
  BY <1>6 DEF Switch, CloneTypeOK, LedgerOn
<1> QED
  BY <1>1, <1>2, <1>3, <1>4, <1>5, <1>6 DEF Meanwhile, CommitLedger

\* Whatever happens keeps every type and what the stage tells.
LEMMA HappeningKeepsTypes ==
  ASSUME TypeOK, StageTells, now' = now,
         Happens \/ UNCHANGED <<clone, store, pc, job>>
  PROVE  TypeOK' /\ StageTells'
<1> USE DEF WithAGrant, OnItsBranch
<1>0. /\ CloneTypeOK
      /\ NoJob \in Job
      /\ pc # "idle" => pc \in {"approval", "isolate", "write", "check", "scope", "return"}
  BY BoundsAssumption DEF NoJob, Job, TypeOK
<1>a. ASSUME CloneTypeOK', Finish PROVE TypeOK' /\ StageTells'
  BY <1>0, <1>a DEF Finish, TypeOK, StageTells
<1>b. ASSUME UNCHANGED clone PROVE CloneTypeOK'
  BY <1>0, <1>b DEF clone, CloneTypeOK
<1>1. ASSUME NEW p \in Proposal, Start(p) PROVE TypeOK' /\ StageTells'
  <2>1. store[p] \in Version /\ store[p] \in 0..MaxVersion
    BY BoundsAssumption DEF TypeOK, Version
  <2>2. job' \in Job /\ job'.proposal = p /\ job'.content = store[p]
    BY <1>0, <1>1, <2>1 DEF Start, NoJob, Job
  <2> QED
    BY <1>1, <1>b, <2>1, <2>2 DEF Start, Goes, TypeOK, StageTells
<1>2. CASE Approve
  <2> DEFINE l == LastOn(ledger, job.proposal)
  <2>1. /\ l \in Nat
        /\ ledger[l] \in Entry
        /\ ledger[l].proposal = job.proposal
        /\ ledger[l].version = job.content
        /\ ledger[l].outcome = "granted"
    BY <1>0, <1>2, LastOnIsADecision DEF Approve, Granted, Grants, CloneTypeOK
  <2>2. Grants(ledger[l], job.proposal, job.content)
    BY <2>1 DEF Grants
  <2> HIDE DEF l
  <2>3. /\ job' \in Job
        /\ job'.proposal = job.proposal
        /\ job'.content = job.content
        /\ job'.decision = ledger[l]
    BY <1>2, <2>1 DEF Approve, TypeOK, Job, l
  <2>4. Grants(job'.decision, job'.proposal, job'.content) /\ job'.decision \in Entry
    BY <2>1, <2>2, <2>3
  <2>5. CloneTypeOK'
    BY <1>2, <1>b DEF Approve
  <2> QED
    BY <1>2, <2>3, <2>4, <2>5 DEF Approve, Goes, TypeOK, StageTells
<1>3. CASE RefuseApproval \/ RefuseIsolate \/ Die
  <2>1. UNCHANGED clone /\ Finish
    BY <1>3 DEF RefuseApproval, RefuseIsolate, Die
  <2>2. CloneTypeOK'
    BY <1>b, <2>1
  <2>3. Finish
    BY <2>1
  <2> QED
    BY <1>a, <2>2, <2>3
<1>4. CASE Isolate
  <2>0. Own \in Key
    <3>1. job.decision.proposal \in Proposal /\ job.decision.version \in Version
      BY <1>4 DEF Isolate, StageTells, Entry
    <3> QED
      BY <3>1 DEF Own, DispatchKey, Key
  <2>1. /\ Own \in Key
        /\ Own \notin {Main, Feature}
        /\ head \in Branch /\ head # Own
    BY <1>0, <1>4, <2>0 DEF Isolate, CloneTypeOK
  <2>2. ChangedPaths \subseteq Path
    BY <1>0 DEF ChangedPaths, CloneTypeOK, Path
  <2>3. job' = [job EXCEPT !.origin = head, !.before = ChangedPaths]
    BY <1>4 DEF Isolate
  <2>4. /\ job' \in Job
        /\ job'.proposal = job.proposal
        /\ job'.content = job.content
        /\ job'.decision = job.decision
        /\ job'.origin = head
    BY <2>1, <2>2, <2>3 DEF TypeOK, Job
  <2>5. CloneTypeOK'
    <3> DEFINE from(b) == IF b = Own THEN head ELSE b
    <3>1. DOMAIN tip' = DOMAIN tip \cup {Own}
          /\ \A b \in DOMAIN tip' : tip'[b] = tip[from(b)]
      BY <1>4 DEF Isolate
    <3>2. \A b \in DOMAIN tip' : from(b) \in DOMAIN tip
      BY <1>0, <3>1 DEF CloneTypeOK
    <3>3. \A b \in DOMAIN tip' :
            tip'[b] \in [past : SUBSET DOMAIN commits, ledger : Seq(Entry)]
      <4> HIDE DEF from
      <4> QED
        BY <1>0, <3>1, <3>2 DEF CloneTypeOK
    <3> QED
      BY <1>0, <1>4, <2>1, <3>1, <3>3 DEF Isolate, CloneTypeOK, Branch
  <2>6. Own' = Own
    BY <2>4 DEF Own
  <2> QED
    BY <1>4, <2>1, <2>4, <2>5, <2>6 DEF Isolate, Goes, TypeOK, StageTells
<1>5. CASE Write
  <2>1. Permitted \subseteq File
    BY <1>5, ScopeIsOfFiles DEF Write, StageTells
  <2>2. ChangedPaths \subseteq Path
    BY <1>0 DEF ChangedPaths, CloneTypeOK, Path
  <2>3. /\ job' \in Job
        /\ \A field \in {"proposal", "content", "decision", "origin"} :
             job'[field] = job[field]
    BY <1>5, <2>1, <2>2 DEF Write, TypeOK, Job
  <2>4. CloneTypeOK'
    BY <1>0, <1>5, <2>1 DEF Write, CloneTypeOK
  <2>5. Own' = Own
    BY <2>3 DEF Own
  <2> QED
    BY <1>5, <2>3, <2>4, <2>5 DEF Write, Goes, TypeOK, StageTells
<1>6. CASE RefuseWrite \/ WriteBreaks \/ CheckBreaks \/ Revert \/ Undo \/ CommitRefused
  <2>1. pc \in OnItsBranch /\ Permitted \subseteq File
    BY <1>6, ScopeIsOfFiles
    DEF RefuseWrite, WriteBreaks, CheckBreaks, Revert, Undo, CommitRefused,
        InScope, StageTells
  <2>2. \E d \in SUBSET File : \E s \in SUBSET d : \E lines \in Seq(Entry) :
          Back(d, s, lines)
    <3>1. /\ ledger \in Seq(Entry) /\ Committed \in Seq(Entry)
          /\ dirty \subseteq File /\ staged \subseteq dirty
      BY <1>0 DEF CloneTypeOK, Committed
    <3>2. CASE RefuseWrite \/ CheckBreaks
      BY <3>1, <3>2 DEF RefuseWrite, CheckBreaks
    <3>3. CASE WriteBreaks
      <4>1. PICK files \in SUBSET Permitted : Back(dirty \cup files, staged, ledger)
        BY <3>3 DEF WriteBreaks
      <4>2. dirty \cup files \in SUBSET File /\ staged \in SUBSET (dirty \cup files)
        BY <2>1, <3>1
      <4> QED
        BY <3>1, <4>1, <4>2
    <3>4. CASE Revert
      <4>1. dirty \ Permitted \in SUBSET File
            /\ staged \ Permitted \in SUBSET (dirty \ Permitted)
        BY <3>1
      <4> QED
        BY <3>1, <3>4, <4>1 DEF Revert
    <3>5. CASE Undo
      <4> DEFINE lines == IF Ledger \in Touched THEN Committed ELSE ledger
      <4>1. (dirty \ Touched) \cup staged \in SUBSET File
            /\ staged \in SUBSET ((dirty \ Touched) \cup staged)
            /\ lines \in Seq(Entry)
        BY <3>1
      <4> QED
        BY <3>5, <4>1 DEF Undo
    <3>6. CASE CommitRefused
      <4>1. Touched \subseteq dirty
        BY <2>1, <3>6, NamesAssumption
        DEF CommitRefused, InScope, Touched, ChangedPaths
      <4>2. staged \cup Touched \in SUBSET dirty
        BY <3>1, <4>1
      <4> QED
        BY <3>1, <3>6, <4>2 DEF CommitRefused
    <3> QED
      BY <1>6, <3>2, <3>3, <3>4, <3>5, <3>6
  <2>3. CloneTypeOK'
    BY <2>1, <2>2, BackKeepsTypes
  <2>4. Finish
    BY <1>6 DEF RefuseWrite, WriteBreaks, CheckBreaks, Revert, Undo, CommitRefused
  <2> QED
    BY <1>a, <2>3, <2>4
<1>7. CASE PassChecks
  <2>1. /\ job' \in Job
        /\ \A field \in {"proposal", "content", "decision", "origin"} :
             job'[field] = job[field]
    BY <1>7 DEF PassChecks, TypeOK, Job
  <2>2. Own' = Own
    BY <2>1 DEF Own
  <2> QED
    BY <1>7, <1>b, <2>1, <2>2 DEF PassChecks, Goes, clone, TypeOK, StageTells
<1>8. CASE Commit
  <2>1. /\ Permitted \subseteq File
        /\ job.decision.version \in Version
        /\ Own \in Key
    BY <1>8, ScopeIsOfFiles
    DEF Commit, InScope, StageTells, WithAGrant, Entry, Own, DispatchKey, Key
  <2>2. /\ Touched \cup staged \in SUBSET Path
        /\ Committed \in Seq(Entry)
        /\ TrailersOf \in Trailers \cup {None}
        /\ job.applied \in 0..MaxVersion
        /\ job.grant \in Nat
    BY <1>0, <1>8, <2>1
    DEF Commit, InScope, StageTells, TrailersOf, Trailers, CloneTypeOK, Committed,
        Path, TypeOK, Job
  <2>3. CommitOn(Touched \cup staged, Committed, TrailersOf, job.applied, job.grant)
    BY <1>8 DEF Commit
  <2>4. /\ commits' \in Seq(CommitType)
        /\ DOMAIN tip' = DOMAIN tip
        /\ \A b \in DOMAIN tip' :
             tip'[b] \in [past : SUBSET DOMAIN commits', ledger : Seq(Entry)]
    BY <1>0, <2>2, <2>3, CommitAdds
  <2>5. CloneTypeOK'
    BY <1>0, <1>8, <2>4 DEF Commit, CloneTypeOK
  <2>6. job' \in Job
    BY <1>0, <1>8 DEF Commit, TypeOK, Job, NoJob
  <2> QED
    BY <1>8, <2>5, <2>6 DEF Commit, Goes, TypeOK, StageTells
<1>9. CASE Return
  <2>1. CloneTypeOK'
    BY <1>0, <1>9 DEF Return, CanSwitch, LedgerOn, CloneTypeOK
  <2> QED
    BY <1>9, <1>a, <2>1 DEF Return
<1>10. ASSUME NEW p \in Proposal, NEW v \in Version, Propose(p, v)
       PROVE  TypeOK' /\ StageTells'
  BY <1>10, <1>b DEF Propose, clone, TypeOK, StageTells, Own
<1>11. CASE Meanwhile
  <2>1. CloneTypeOK' /\ (pc # "idle" => head' = head)
    BY <1>11, MeanwhileKeepsTypes
  <2>2. UNCHANGED <<store, pc, job>>
    BY <1>11 DEF Meanwhile
  <2> QED
    BY <2>1, <2>2 DEF TypeOK, StageTells, Own
<1>12. CASE UNCHANGED <<clone, store, pc, job>>
  BY <1>12, <1>b DEF clone, TypeOK, StageTells, Own
<1> QED
  BY <1>1, <1>2, <1>3, <1>4, <1>5, <1>6, <1>7, <1>8, <1>9, <1>10, <1>11, <1>12
  DEF Happens, Dispatch

(* Every variable keeps its type, and the stage a dispatch is in says what *)
(* it holds: the grant it found and the branch it cut (dispatch.mjs,       *)
(* dispatch() from intake to commit).                                      *)
THEOREM TypeAndStage == Spec => [](TypeOK /\ StageTells)
<1>1. Init => TypeOK /\ StageTells
  <2> SUFFICES ASSUME Init PROVE TypeOK /\ StageTells
    OBVIOUS
  <2>1. CloneTypeOK
    BY DEF Init, CloneInit, CloneTypeOK, Branch
  <2>2. job \in Job
    BY BoundsAssumption DEF Init, NoJob, Job
  <2>3. store \in [Proposal -> Version]
    BY BoundsAssumption DEF Init, Version
  <2> QED
    BY <2>1, <2>2, <2>3 DEF Init, TypeOK, StageTells, WithAGrant, OnItsBranch
<1>2. TypeOK /\ StageTells /\ [Next]_vars => TypeOK' /\ StageTells'
  <2>1. ASSUME TypeOK, StageTells, Tick, UNCHANGED <<store, pc, job>>
        PROVE  TypeOK' /\ StageTells'
    BY <2>1 DEF Tick, clone, TypeOK, CloneTypeOK, StageTells, Own
  <2> QED
    BY <2>1, HappeningKeepsTypes DEF Next, vars
<1> QED
  BY <1>1, <1>2, PTL DEF Spec

(* Every variable keeps its type, in every history of dispatches and of    *)
(* the clone they run in; in particular the branch checked out is always   *)
(* one that exists, though dispatches delete branches (dispatch.mjs,       *)
(* back()).                                                                *)
THEOREM TypeCorrect == Spec => []TypeOK
BY TypeAndStage, PTL

-----------------------------------------------------------------------------
(* What is so of the commits, the branches and the dispatch                *)

LedgerCommits(b) == {i \in Past(b) : Ledger \in commits[i].files}

\* A branch's ledger is that of one of its commits and continues that of each;
\* the working tree's continues the one checked out.
LedgersTell ==
  /\ \A i \in DOMAIN commits : IsPrefixOf(commits[i].before, commits[i].ledger)
  /\ \A b \in DOMAIN tip :
       /\ \A i \in Past(b) : IsPrefixOf(commits[i].ledger, tip[b].ledger)
       /\ \/ LedgerCommits(b) = {} /\ tip[b].ledger = <<>>
          \/ \E i \in LedgerCommits(b) : commits[i].ledger = tip[b].ledger
  /\ IsPrefixOf(Committed, ledger)

\* A commit of a dispatch names the content that was applied and, where the
\* ledger of its parent is long enough to hold it, the grant.
CommitTells(c) ==
  c.trailers # None =>
    LET t == c.trailers IN
    /\ t.key = <<t.proposal, t.version>>
    /\ c.content = t.version
    /\ c.grant \in DOMAIN c.before =>
         Grants(c.before[c.grant], t.proposal, t.version)
    /\ c.grant # 0

\* A dispatch under way has not been done, keeps the grant it found, and wrote
\* the files of the content granted, which were clean.
DispatchTells ==
  /\ pc \in WithAGrant => job.grant \in DOMAIN ledger /\ ledger[job.grant] = job.decision
  /\ pc \in OnItsBranch => FindDispatches(Own) = {} /\ job.before \cap Permitted = {}
  /\ pc \in {"check", "scope"} => job.wrote = Permitted /\ job.applied = job.content

HistoryTells ==
  /\ \A i \in DOMAIN commits : CommitTells(commits[i])
  /\ OncePerKey
  /\ DispatchTells

\* Every step keeps the commits there are, and leaves the branches as they
\* were, copied or deleted, merges one, or adds a commit.
Keeps ==
  /\ commits' = commits
  /\ \A b \in DOMAIN tip' :
       \E c \in DOMAIN tip : tip'[b] = tip[c] /\ (b = Main => c = Main)

\* Leaving the dispatch's branch is a step that keeps.
LEMMA BackKeeps ==
  ASSUME NEW d, NEW s, NEW lines, Back(d, s, lines)
  PROVE  Keeps
<1>1. commits' = commits /\ (tip' = tip \/ tip' = [b \in DOMAIN tip \ {Own} |-> tip[b]])
  BY DEF Back
<1>2. \A b \in DOMAIN tip' : b \in DOMAIN tip /\ tip'[b] = tip[b]
  BY <1>1
<1> QED
  BY <1>1, <1>2 DEF Keeps

\* Of all steps only a merge and the two kinds of commit do more than keep.
LEMMA KindsOfSteps ==
  ASSUME TypeOK, StageTells, [Next]_vars
  PROVE  Keeps \/ (\E b \in DOMAIN tip : Merge(b)) \/ CommitLedger \/ Commit
<1>1. ASSUME UNCHANGED <<commits, tip>> PROVE Keeps
  BY <1>1 DEF Keeps
<1>2. CASE \/ \E p \in Proposal : Start(p)
           \/ \E p \in Proposal, v \in Version : Propose(p, v)
           \/ Approve \/ RefuseApproval \/ RefuseIsolate \/ Write \/ PassChecks
           \/ Return \/ Die \/ UNCHANGED <<clone, store, pc, job>>
  <2>1. UNCHANGED <<commits, tip>>
    BY <1>2 DEF Start, Propose, Approve, RefuseApproval, RefuseIsolate, Write,
                PassChecks, Return, Die, clone
  <2> QED
    BY <1>1, <2>1
<1>3. CASE Isolate
  <2>1. /\ head \in DOMAIN tip /\ Main \in DOMAIN tip /\ Own # Main
        /\ DOMAIN tip' = DOMAIN tip \cup {Own}
        /\ tip'[Own] = tip[head]
        /\ \A b \in DOMAIN tip : tip'[b] = tip[b]
    BY <1>3 DEF Isolate, TypeOK, CloneTypeOK
  <2> QED
    BY <1>3, <2>1 DEF Isolate, Keeps
<1>4. CASE RefuseWrite \/ WriteBreaks \/ CheckBreaks \/ Revert \/ Undo \/ CommitRefused
  BY <1>4, BackKeeps DEF RefuseWrite, WriteBreaks, CheckBreaks, Revert, Undo, CommitRefused
<1>5. CASE Meanwhile
  <2>1. ASSUME NEW f \in File, Edit(f) \/ Stage(f) \/ Discard(f) PROVE Keeps
    BY <1>1, <2>1 DEF Edit, Stage, Discard
  <2>2. ASSUME NEW p \in Proposal, NEW outcome, Decide(p, store[p], outcome)
        PROVE  Keeps
    BY <1>1, <2>2 DEF Decide
  <2>3. ASSUME NEW b \in DOMAIN tip, Switch(b) PROVE Keeps
    BY <1>1, <2>3 DEF Switch
  <2>4. ASSUME NEW b \in DOMAIN tip, DeleteMerged(b) PROVE Keeps
    BY <2>4 DEF DeleteMerged, Keeps
  <2> QED
    BY <1>5, <2>1, <2>2, <2>3, <2>4 DEF Meanwhile
<1> QED
  BY <1>2, <1>3, <1>4, <1>5 DEF Next, Happens, Tick, Dispatch, vars

\* Both kinds of commit are on a branch other than main; one is of the ledger
\* alone and the other leaves it as it is.
LEMMA WhatIsCommitted ==
  ASSUME TypeOK, StageTells, CommitLedger \/ Commit
  PROVE  \E c \in CommitType :
           /\ Adds(c)
           /\ head \in DOMAIN tip \ {Main}
           /\ c.before = Committed /\ c.at = now
           /\ \/ Ledger \in c.files /\ c.ledger = ledger
              \/ Ledger \notin c.files /\ c.ledger = Committed
           /\ \/ c.trailers = None
              \/ /\ Commit
                 /\ c.trailers = TrailersOf
                 /\ c.content = job.applied
                 /\ c.grant = job.grant
<1>1. /\ CloneTypeOK /\ head \in DOMAIN tip
      /\ Committed \in Seq(Entry) /\ ledger \in Seq(Entry)
  BY DEF TypeOK, CloneTypeOK, Committed
<1>2. CASE CommitLedger
  <2> DEFINE new == [files |-> {Ledger}, before |-> Committed, ledger |-> ledger,
                   trailers |-> None, at |-> now, content |-> 0, grant |-> 0]
  <2>1. CommitOn({Ledger}, ledger, None, 0, 0) /\ head # Main
    BY <1>2 DEF CommitLedger
  <2>2. {Ledger} \in SUBSET Path /\ 0 \in 0..MaxVersion
    BY BoundsAssumption DEF Path
  <2>3. new \in CommitType
    BY <1>1, <2>2 DEF CommitType, CloneTypeOK
  <2>4. Adds(new)
    BY <1>1, <2>1, <2>2, CommitAdds
  <2>5. new.before = Committed /\ new.ledger = ledger /\ Ledger \in new.files /\ new.trailers = None
        /\ new.at = now
    OBVIOUS
  <2> HIDE DEF new
  <2> QED
    BY <1>1, <2>1, <2>3, <2>4, <2>5
<1>3. CASE Commit
  <2> DEFINE files == Touched \cup staged
             new == [files |-> files, before |-> Committed, ledger |-> Committed,
                   trailers |-> TrailersOf, at |-> now, content |-> job.applied,
                   grant |-> job.grant]
  <2>1. CommitOn(files, Committed, TrailersOf, job.applied, job.grant)
    BY <1>3 DEF Commit
  <2>2. /\ job.decision.version \in Version
        /\ job.proposal \in Proposal
        /\ job.decision.proposal = job.proposal
        /\ head = Own /\ Own # Main
        /\ files \subseteq File
    BY <1>1, <1>3, ScopeIsOfFiles
    DEF Commit, InScope, StageTells, WithAGrant, OnItsBranch, CloneTypeOK,
        Entry, Grants
  <2>3. TrailersOf \in Trailers \cup {None}
    BY <2>2 DEF TrailersOf, Trailers, Own, DispatchKey, Key
  <2>4. files \in SUBSET Path /\ Ledger \notin files
    BY <2>2, NamesAssumption DEF Path
  <2>5. job.applied \in 0..MaxVersion /\ job.grant \in Nat
    BY DEF TypeOK, Job
  <2> HIDE DEF files
  <2>6. new \in CommitType
    BY <1>1, <2>3, <2>4, <2>5 DEF CommitType, CloneTypeOK
  <2>7. Adds(new)
    BY <1>1, <2>1, <2>3, <2>4, <2>5, CommitAdds
  <2>8. /\ new.before = Committed /\ new.ledger = Committed /\ Ledger \notin new.files
        /\ new.trailers = TrailersOf /\ new.content = job.applied /\ new.grant = job.grant
        /\ new.at = now
    BY <2>4
  <2> HIDE DEF new
  <2> QED
    BY <1>1, <1>3, <2>2, <2>6, <2>7, <2>8
<1> QED
  BY <1>2, <1>3

\* Branches that differ in no commit of the ledger have the same ledger.
LEMMA SameLedger ==
  ASSUME TypeOK, LedgersTell, NEW a \in DOMAIN tip, NEW b \in DOMAIN tip,
         Ledger \notin Differ(a, b)
  PROVE  tip[a].ledger = tip[b].ledger
<1>1. /\ tip[a].ledger \in Seq(Entry) /\ tip[b].ledger \in Seq(Entry)
      /\ Past(a) \subseteq DOMAIN commits /\ Past(b) \subseteq DOMAIN commits
  BY DEF TypeOK, CloneTypeOK, Past
<1>2. \A i \in (Past(a) \ Past(b)) \cup (Past(b) \ Past(a)) : Ledger \notin commits[i].files
  BY DEF Differ
<1>3. LedgerCommits(a) = LedgerCommits(b)
  BY <1>2 DEF LedgerCommits
<1>4. CASE LedgerCommits(a) = {}
  BY <1>3, <1>4 DEF LedgersTell
<1>5. CASE LedgerCommits(a) # {}
  <2>1. PICK i \in LedgerCommits(a) : commits[i].ledger = tip[a].ledger
    BY <1>5 DEF LedgersTell
  <2>2. PICK j \in LedgerCommits(b) : commits[j].ledger = tip[b].ledger
    BY <1>3, <1>5 DEF LedgersTell
  <2>3. IsPrefixOf(tip[a].ledger, tip[b].ledger) /\ IsPrefixOf(tip[b].ledger, tip[a].ledger)
    BY <1>3, <2>1, <2>2 DEF LedgersTell, LedgerCommits
  <2> QED
    BY <1>1, <2>3, PrefixOfEachOther
<1> QED
  BY <1>4, <1>5

\* What a checkout leaves in the working tree continues the branch's ledger.
LEMMA CheckedOutLedger ==
  ASSUME TypeOK, LedgersTell, NEW b \in DOMAIN tip, NEW lines \in Seq(Entry),
         IsPrefixOf(Committed, lines),
         lines # Committed => Ledger \notin Differ(head, b)
  PROVE  IsPrefixOf(tip[b].ledger, IF lines = Committed THEN tip[b].ledger ELSE lines)
<1>1. tip[b].ledger \in Seq(Entry) /\ head \in DOMAIN tip
  BY DEF TypeOK, CloneTypeOK
<1>2. CASE lines = Committed
  BY <1>1, <1>2, PrefixOfItself
<1>3. CASE lines # Committed
  BY <1>1, <1>3, SameLedger DEF Committed
<1> QED
  BY <1>2, <1>3

\* The branches and commits keep LedgersTell, whatever the step.
LEMMA BranchesKeepLedgers ==
  ASSUME TypeOK, StageTells, LedgersTell, [Next]_vars
  PROVE  /\ \A i \in DOMAIN commits' : IsPrefixOf(commits'[i].before, commits'[i].ledger)
         /\ \A b \in DOMAIN tip' :
              /\ \A i \in Past(b)' : IsPrefixOf(commits'[i].ledger, tip'[b].ledger)
              /\ \/ LedgerCommits(b)' = {} /\ tip'[b].ledger = <<>>
                 \/ \E i \in LedgerCommits(b)' : commits'[i].ledger = tip'[b].ledger
<1> DEFINE Good(b) ==
      /\ \A i \in Past(b)' : IsPrefixOf(commits'[i].ledger, tip'[b].ledger)
      /\ \/ LedgerCommits(b)' = {} /\ tip'[b].ledger = <<>>
         \/ \E i \in LedgerCommits(b)' : commits'[i].ledger = tip'[b].ledger
<1>1. /\ \A b \in DOMAIN tip : tip[b].ledger \in Seq(Entry) /\ Past(b) \subseteq DOMAIN commits
      /\ \A i \in DOMAIN commits :
           commits[i].before \in Seq(Entry) /\ commits[i].ledger \in Seq(Entry)
      /\ Main \in DOMAIN tip /\ head \in DOMAIN tip
      /\ ledger \in Seq(Entry) /\ Committed \in Seq(Entry)
  <2>1. \A i \in DOMAIN commits : commits[i] \in CommitType
    BY DEF TypeOK, CloneTypeOK
  <2> QED
    BY <2>1 DEF TypeOK, CloneTypeOK, CommitType, Past, Committed
<1>2. CASE Keeps
  <2>1. commits' = commits
    BY <1>2 DEF Keeps
  <2>2. ASSUME NEW b \in DOMAIN tip' PROVE Good(b)
    <3>1. PICK c \in DOMAIN tip : tip'[b] = tip[c]
      BY <1>2 DEF Keeps
    <3>2. Past(b)' = Past(c) /\ LedgerCommits(b)' = LedgerCommits(c)
      BY <2>1, <3>1 DEF Past, LedgerCommits
    <3> QED
      BY <2>1, <3>1, <3>2 DEF LedgersTell
  <2> QED
    BY <2>1, <2>2 DEF LedgersTell
<1>3. ASSUME NEW b \in DOMAIN tip, Merge(b)
      PROVE  /\ \A i \in DOMAIN commits' : IsPrefixOf(commits'[i].before, commits'[i].ledger)
             /\ \A c \in DOMAIN tip' : Good(c)
  <2>1. PICK main \in {Main, b}, other \in {Main, b} :
          /\ main # other
          /\ IsPrefixOf(tip[other].ledger, tip[main].ledger)
          /\ tip' = [tip EXCEPT ![Main] = [past |-> Past(Main) \cup Past(b),
                                          ledger |-> tip[main].ledger]]
    BY <1>3 DEF Merge
  <2>2. commits' = commits /\ DOMAIN tip' = DOMAIN tip
    BY <1>3, <2>1 DEF Merge
  <2>3. ASSUME NEW c \in DOMAIN tip \ {Main} PROVE Good(c)
    <3>1. tip'[c] = tip[c]
      BY <2>1
    <3>2. Past(c)' = Past(c) /\ LedgerCommits(c)' = LedgerCommits(c)
      BY <2>2, <3>1 DEF Past, LedgerCommits
    <3> QED
      BY <2>2, <3>1, <3>2 DEF LedgersTell
  <2>4. Good(Main)
    <3>1. /\ Past(Main)' = Past(main) \cup Past(other)
          /\ tip'[Main].ledger = tip[main].ledger
          /\ main \in DOMAIN tip /\ other \in DOMAIN tip
      BY <1>1, <2>1 DEF Past
    <3>2. LedgerCommits(Main)' = LedgerCommits(main) \cup LedgerCommits(other)
      BY <2>2, <3>1 DEF LedgerCommits
    <3>3. ASSUME NEW i \in Past(other) PROVE IsPrefixOf(commits[i].ledger, tip[main].ledger)
      <4>1. IsPrefixOf(commits[i].ledger, tip[other].ledger)
        BY <3>1 DEF LedgersTell
      <4> QED
        BY <1>1, <2>1, <3>1, <4>1, PrefixOfPrefix
    <3>4. \A i \in Past(Main)' : IsPrefixOf(commits'[i].ledger, tip'[Main].ledger)
      BY <2>2, <3>1, <3>3 DEF LedgersTell
    <3>5. CASE \E i \in LedgerCommits(main) : commits[i].ledger = tip[main].ledger
      BY <2>2, <3>1, <3>2, <3>4, <3>5
    <3>6. CASE LedgerCommits(main) = {} /\ tip[main].ledger = <<>>
      <4>1. tip[other].ledger = <<>>
        <5>1. tip[other].ledger \in Seq(Entry) /\ <<>> \in Seq(Entry) /\ Len(<<>>) = 0
          BY <1>1, <3>1
        <5>2. Len(tip[other].ledger) <= 0
          BY <2>1, <3>6, <5>1, PrefixMeans
        <5> QED
          BY <5>1, <5>2
      <4>2. CASE LedgerCommits(other) = {}
        BY <3>1, <3>2, <3>4, <3>6, <4>2
      <4>3. CASE \E i \in LedgerCommits(other) : commits[i].ledger = tip[other].ledger
        BY <2>2, <3>1, <3>2, <3>4, <3>6, <4>1, <4>3
      <4> QED
        BY <3>1, <4>2, <4>3 DEF LedgersTell
    <3> QED
      BY <3>1, <3>5, <3>6 DEF LedgersTell
  <2> QED
    BY <2>2, <2>3, <2>4 DEF LedgersTell
<1>4. CASE CommitLedger \/ Commit
  <2> DEFINE n == Len(commits) + 1
  <2>1. PICK new \in CommitType :
          /\ Adds(new)
          /\ new.before = Committed
          /\ \/ Ledger \in new.files /\ new.ledger = ledger
             \/ Ledger \notin new.files /\ new.ledger = Committed
    BY <1>4, WhatIsCommitted
  <2>a. PICK h \in DOMAIN tip : h = head
    BY <1>1
  <2>2. /\ n \notin DOMAIN commits
        /\ DOMAIN commits' = DOMAIN commits \cup {n}
        /\ \A i \in DOMAIN commits : commits'[i] = commits[i]
        /\ commits'[n] = new
        /\ DOMAIN tip' = DOMAIN tip
        /\ tip'[h] = [past |-> Past(h) \cup {n}, ledger |-> new.ledger]
        /\ \A b \in DOMAIN tip \ {h} : tip'[b] = tip[b]
    BY <2>1, <2>a DEF Adds
  <2> HIDE DEF n
  <2>3. /\ IsPrefixOf(Committed, new.ledger) /\ new.ledger \in Seq(Entry)
        /\ Committed = tip[h].ledger
    BY <1>1, <2>1, <2>a, PrefixOfItself DEF LedgersTell, Committed
  <2>4. \A i \in DOMAIN commits' : IsPrefixOf(commits'[i].before, commits'[i].ledger)
    BY <2>1, <2>2, <2>3 DEF LedgersTell
  <2>5. ASSUME NEW b \in DOMAIN tip \ {h} PROVE Good(b)
    <3>1. Past(b)' = Past(b) /\ tip'[b].ledger = tip[b].ledger
      BY <2>2 DEF Past
    <3>2. \A i \in Past(b) : commits'[i] = commits[i]
      BY <1>1, <2>2
    <3>3. LedgerCommits(b)' = LedgerCommits(b)
      BY <3>1, <3>2 DEF LedgerCommits
    <3> QED
      BY <3>1, <3>2, <3>3 DEF LedgersTell, LedgerCommits
  <2>6. Good(h)
    <3>1. Past(h)' = Past(h) \cup {n} /\ tip'[h].ledger = new.ledger
      BY <2>2 DEF Past
    <3>2. \A i \in Past(h) : commits'[i] = commits[i]
      BY <1>1, <2>2
    <3>3. ASSUME NEW i \in Past(h) PROVE IsPrefixOf(commits[i].ledger, new.ledger)
      <4>1. IsPrefixOf(commits[i].ledger, Committed)
        BY <2>3 DEF LedgersTell
      <4>2. commits[i].ledger \in Seq(Entry)
        BY <1>1
      <4> QED
        BY <1>1, <2>3, <4>1, <4>2, PrefixOfPrefix
    <3>4. \A i \in Past(h)' : IsPrefixOf(commits'[i].ledger, tip'[h].ledger)
      BY <2>2, <2>3, <3>1, <3>2, <3>3, PrefixOfItself
    <3>5. CASE Ledger \in new.files
      <4>1. n \in LedgerCommits(h)' /\ commits'[n].ledger = tip'[h].ledger
        BY <2>2, <3>1, <3>5 DEF LedgerCommits
      <4> QED
        BY <3>4, <4>1
    <3>6. CASE Ledger \notin new.files
      <4>1. LedgerCommits(h)' = LedgerCommits(h) /\ tip'[h].ledger = tip[h].ledger
        BY <2>1, <2>2, <2>3, <3>1, <3>2, <3>6 DEF LedgerCommits
      <4> QED
        BY <3>2, <3>4, <4>1 DEF LedgersTell, LedgerCommits
    <3> QED
      BY <3>5, <3>6
  <2> QED
    BY <2>2, <2>4, <2>5, <2>6
<1> QED
  BY <1>2, <1>3, <1>4, KindsOfSteps

\* The ledger in the working tree goes on continuing the branch's.
LEMMA BackKeepsLedger ==
  ASSUME TypeOK, StageTells, LedgersTell, pc \in OnItsBranch,
         NEW d, NEW s, NEW lines \in Seq(Entry), IsPrefixOf(Committed, lines),
         Back(d, s, lines)
  PROVE  IsPrefixOf(Committed', ledger')
<1>1. head = Own /\ job.origin # Own
  BY DEF StageTells
<1>2. CASE /\ job.origin \in DOMAIN tip
           /\ lines # Committed => Ledger \notin Differ(head, job.origin)
           /\ head' = job.origin
           /\ tip' = [b \in DOMAIN tip \ {Own} |-> tip[b]]
           /\ ledger' = IF lines = Committed THEN tip[job.origin].ledger ELSE lines
  <2>1. Committed' = tip[job.origin].ledger
    BY <1>1, <1>2 DEF Committed
  <2> QED
    BY <1>2, <2>1, CheckedOutLedger
<1>3. CASE ledger' = lines /\ UNCHANGED <<head, tip>>
  BY <1>3 DEF Committed
<1> QED
  BY <1>2, <1>3 DEF Back

\* So it does in every step.
LEMMA WorkingTreeKeepsLedger ==
  ASSUME TypeOK, StageTells, LedgersTell, [Next]_vars
  PROVE  IsPrefixOf(Committed', ledger')
<1> USE DEF OnItsBranch
<1>1. /\ ledger \in Seq(Entry) /\ Committed \in Seq(Entry)
      /\ IsPrefixOf(Committed, ledger)
      /\ head \in DOMAIN tip
  BY DEF TypeOK, CloneTypeOK, Committed, LedgersTell
<1>2. ASSUME UNCHANGED <<tip, head, ledger>> PROVE IsPrefixOf(Committed', ledger')
  BY <1>1, <1>2 DEF Committed
<1>3. CASE \/ \E p \in Proposal : Start(p)
           \/ \E p \in Proposal, v \in Version : Propose(p, v)
           \/ Approve \/ RefuseApproval \/ RefuseIsolate \/ Write \/ PassChecks
           \/ Die \/ UNCHANGED <<clone, store, pc, job>>
  <2>1. UNCHANGED <<tip, head, ledger>>
    BY <1>3 DEF Start, Propose, Approve, RefuseApproval, RefuseIsolate, Write,
                PassChecks, Die, clone
  <2> QED
    BY <1>2, <2>1
<1>4. CASE Isolate
  <2>1. head' = Own /\ tip'[Own].ledger = tip[head].ledger /\ ledger' = ledger
    BY <1>4 DEF Isolate
  <2> QED
    BY <1>1, <2>1 DEF Committed
<1>5. CASE RefuseWrite \/ WriteBreaks \/ CheckBreaks \/ Revert \/ Undo \/ CommitRefused
  <2>1. pc \in OnItsBranch
    BY <1>5 DEF RefuseWrite, WriteBreaks, CheckBreaks, Revert, Undo, CommitRefused, InScope
  <2>2. \E d, s : Back(d, s, ledger) \/ Back(d, s, Committed)
    BY <1>5 DEF RefuseWrite, WriteBreaks, CheckBreaks, Revert, Undo, CommitRefused
  <2> QED
    BY <1>1, <2>1, <2>2, BackKeepsLedger, PrefixOfItself
<1>6. CASE Return
  <2>1. CASE UNCHANGED <<head, ledger>>
    BY <1>2, <1>6, <2>1 DEF Return
  <2>2. CASE CanSwitch(job.origin) /\ head' = job.origin /\ ledger' = LedgerOn(job.origin)
    <3>1. tip' = tip /\ job.origin \in DOMAIN tip
      BY <1>6, <2>2 DEF Return, CanSwitch
    <3>2. ledger # Committed => Ledger \notin Differ(head, job.origin)
      BY <2>2 DEF CanSwitch, ChangedPaths
    <3> QED
      BY <1>1, <2>2, <3>1, <3>2, CheckedOutLedger DEF LedgerOn, Committed
  <2> QED
    BY <1>6, <2>1, <2>2 DEF Return
<1>7. CASE CommitLedger \/ Commit
  <2>1. PICK new \in CommitType :
          /\ Adds(new)
          /\ new.ledger = ledger \/ new.ledger = Committed
    BY <1>7, WhatIsCommitted
  <2>2. head' = head /\ ledger' = ledger
    BY <1>7 DEF CommitLedger, Commit
  <2>3. Committed' = new.ledger
    BY <2>1, <2>2 DEF Adds, Committed
  <2> QED
    BY <1>1, <2>1, <2>2, <2>3, PrefixOfItself
<1>8. CASE Meanwhile
  <2>1. ASSUME NEW f \in File, Edit(f) \/ Stage(f) \/ Discard(f)
        PROVE  IsPrefixOf(Committed', ledger')
    BY <1>2, <2>1 DEF Edit, Stage, Discard
  <2>2. ASSUME NEW p \in Proposal, NEW outcome \in {"granted", "denied"},
               Decide(p, store[p], outcome)
        PROVE  IsPrefixOf(Committed', ledger')
    <3> DEFINE e == [proposal |-> p, version |-> store[p], outcome |-> outcome,
                 at |-> now]
    <3>0. store[p] \in Version /\ now \in Nat
      BY DEF TypeOK, CloneTypeOK
    <3>1. e \in Entry /\ ledger' = Append(ledger, e) /\ Committed' = Committed
      BY <2>2, <3>0 DEF Decide, Entry, Committed
    <3>2. ledger' \in Seq(Entry) /\ IsPrefixOf(ledger, ledger')
      BY <1>1, <3>1, PrefixOfAppended
    <3> QED
      BY <1>1, <3>1, <3>2, PrefixOfPrefix
  <2>3. ASSUME NEW b \in DOMAIN tip, Switch(b)
        PROVE  IsPrefixOf(Committed', ledger')
    <3>1. tip' = tip /\ head' = b /\ ledger' = LedgerOn(b)
      BY <2>3 DEF Switch
    <3>2. ledger # Committed => Ledger \notin Differ(head, b)
      BY <2>3 DEF Switch, CanSwitch, ChangedPaths
    <3> QED
      BY <1>1, <3>1, <3>2, CheckedOutLedger DEF LedgerOn, Committed
  <2>4. ASSUME NEW b \in DOMAIN tip, Merge(b)
        PROVE  IsPrefixOf(Committed', ledger')
    <3>1. tip'[head] = tip[head] /\ head' = head /\ ledger' = ledger
      BY <1>1, <2>4 DEF Merge
    <3> QED
      BY <1>1, <3>1 DEF Committed
  <2>5. ASSUME NEW b \in DOMAIN tip, DeleteMerged(b)
        PROVE  IsPrefixOf(Committed', ledger')
    <3>1. tip'[head] = tip[head] /\ head' = head /\ ledger' = ledger
      BY <1>1, <2>5 DEF DeleteMerged
    <3> QED
      BY <1>1, <3>1 DEF Committed
  <2> QED
    BY <1>7, <1>8, <2>1, <2>2, <2>3, <2>4, <2>5 DEF Meanwhile
<1> QED
  BY <1>3, <1>4, <1>5, <1>6, <1>7, <1>8 DEF Next, Happens, Tick, Dispatch, vars

(* The ledger is one history: a branch's continues the ledger of each of   *)
(* its commits, and the working tree's continues the branch's, through     *)
(* checkouts, merges and dispatches that put it back (dispatch.mjs, undo   *)
(* and back()).  What a commit's parent had, every branch with the commit  *)
(* has too.                                                                *)
THEOREM Ledgers == Spec => []LedgersTell
<1>1. Init => LedgersTell
  <2> SUFFICES ASSUME Init PROVE LedgersTell
    OBVIOUS
  <2>1. /\ commits = <<>> /\ ledger = <<>>
        /\ DOMAIN tip = {Main, Feature} /\ head \in DOMAIN tip
        /\ \A b \in DOMAIN tip : Past(b) = {} /\ tip[b].ledger = <<>>
    BY DEF Init, CloneInit, Past
  <2>a. <<>> \in Seq(Entry)
    OBVIOUS
  <2>2. IsPrefixOf(<<>>, <<>>)
    BY <2>a, PrefixOfItself
  <2>3. DOMAIN commits = {} /\ Committed = <<>>
    BY <2>1 DEF Committed
  <2>4. \A b \in DOMAIN tip : LedgerCommits(b) = {}
    BY <2>1 DEF LedgerCommits
  <2> QED
    BY <2>1, <2>2, <2>3, <2>4, Zenon DEF LedgersTell
<1>2. TypeOK /\ StageTells /\ LedgersTell /\ [Next]_vars => LedgersTell'
  BY BranchesKeepLedgers, WorkingTreeKeepsLedger DEF LedgersTell
<1> QED
  BY <1>1, <1>2, TypeAndStage, PTL DEF Spec

\* The decisions of a ledger are in the order of their times, and none is
\* later than t.
InOrder(lines, t) ==
  \A k, l \in DOMAIN lines :
    (k <= l => lines[k].at <= lines[l].at) /\ lines[l].at <= t

\* So they are wherever the ledger is kept; what a commit's parent had was
\* decided by the time of the commit.
TimesTell ==
  /\ InOrder(ledger, now)
  /\ \A b \in DOMAIN tip : InOrder(tip[b].ledger, now)
  /\ \A i \in DOMAIN commits : InOrder(commits[i].before, commits[i].at)

\* What is in order stays so as time passes, and as it is appended to.
LEMMA OrderGoesOn ==
  ASSUME NEW lines \in Seq(Entry), NEW t \in Nat, InOrder(lines, t)
  PROVE  /\ InOrder(lines, t + 1)
         /\ \A e \in Entry : e.at = t => InOrder(Append(lines, e), t)
<1>1. \A k \in DOMAIN lines : lines[k].at \in Nat
  <2>1. \A k \in DOMAIN lines : lines[k] \in Entry
    OBVIOUS
  <2> QED
    BY <2>1 DEF Entry
<1>2. InOrder(lines, t + 1)
  BY <1>1 DEF InOrder
<1>3. ASSUME NEW e \in Entry, e.at = t PROVE InOrder(Append(lines, e), t)
  <2> DEFINE more == Append(lines, e)
             n == Len(lines) + 1
  <2>1. /\ DOMAIN more = DOMAIN lines \cup {n}
        /\ DOMAIN lines = 1..Len(lines) /\ Len(lines) \in Nat
        /\ \A k \in DOMAIN lines : more[k] = lines[k]
        /\ more[n] = e
    OBVIOUS
  <2> HIDE DEF more
  <2>2. \A k \in DOMAIN more : more[k].at \in Nat /\ more[k].at <= t
    BY <1>1, <1>3, <2>1 DEF InOrder
  <2>3. ASSUME NEW k \in DOMAIN more, NEW l \in DOMAIN more, k <= l
        PROVE  more[k].at <= more[l].at
    <3>1. CASE l = n
      BY <1>3, <2>1, <2>2, <3>1
    <3>2. CASE l # n
      BY <2>1, <2>3, <3>2 DEF InOrder
    <3> QED
      BY <3>1, <3>2
  <2> QED
    BY <2>2, <2>3 DEF InOrder, more
<1> QED
  BY <1>2, <1>3

\* The ledger in the working tree stays as it is, is that of a branch, or is
\* appended to at the present time.
LEMMA WorkingTreeLedger ==
  ASSUME TypeOK, StageTells, [Next]_vars
  PROVE  \/ ledger' = ledger
         \/ \E b \in DOMAIN tip : ledger' = tip[b].ledger
         \/ \E e \in Entry : ledger' = Append(ledger, e) /\ e.at = now /\ UNCHANGED <<tip, commits, now>>
<1>1. /\ head \in DOMAIN tip /\ Committed = tip[head].ledger
      /\ now \in Nat /\ store \in [Proposal -> Version]
  BY DEF TypeOK, CloneTypeOK, Committed
<1>2. CASE \/ \E p \in Proposal : Start(p)
           \/ \E p \in Proposal, v \in Version : Propose(p, v)
           \/ Approve \/ RefuseApproval \/ RefuseIsolate \/ Isolate \/ Write
           \/ PassChecks \/ Commit \/ Die \/ UNCHANGED <<clone, store, pc, job>>
  BY <1>2 DEF Start, Propose, Approve, RefuseApproval, RefuseIsolate, Isolate,
              Write, PassChecks, Commit, Die, clone
<1>3. CASE RefuseWrite \/ WriteBreaks \/ CheckBreaks \/ Revert \/ Undo \/ CommitRefused
  <2>1. \E d, s : Back(d, s, ledger) \/ Back(d, s, Committed)
    BY <1>3 DEF RefuseWrite, WriteBreaks, CheckBreaks, Revert, Undo, CommitRefused
  <2> QED
    BY <1>1, <2>1 DEF Back
<1>4. CASE Return
  BY <1>4 DEF Return, CanSwitch, LedgerOn
<1>5. CASE Meanwhile /\ now' = now
  <2>1. ASSUME NEW p \in Proposal, NEW outcome \in {"granted", "denied"},
               Decide(p, store[p], outcome)
        PROVE  \E e \in Entry : ledger' = Append(ledger, e) /\ e.at = now
                                 /\ UNCHANGED <<tip, commits, now>>
    <3> DEFINE e == [proposal |-> p, version |-> store[p], outcome |-> outcome,
                     at |-> now]
    <3>1. e \in Entry /\ e.at = now /\ ledger' = Append(ledger, e)
      BY <1>1, <2>1 DEF Decide, Entry
    <3> HIDE DEF e
    <3> QED
      BY <1>5, <2>1, <3>1 DEF Decide
  <2>2. ASSUME ~ \E p \in Proposal, outcome \in {"granted", "denied"} :
                    Decide(p, store[p], outcome)
        PROVE  ledger' = ledger \/ \E b \in DOMAIN tip : ledger' = tip[b].ledger
    BY <1>5, <2>2 DEF Meanwhile, Edit, Stage, Discard, CommitLedger, Merge, DeleteMerged,
                      Switch, LedgerOn
  <2> QED
    BY <2>1, <2>2
<1> QED
  BY <1>2, <1>3, <1>4, <1>5 DEF Next, Happens, Tick, Dispatch, vars

(* The times of the decisions go up along every ledger, the working        *)
(* tree's, each branch's and the one each commit was made on: decisions    *)
(* are stamped when they are appended (recordDecision, ledger.mjs:328),    *)
(* and a checkout or a merge takes over a ledger as a whole.               *)
THEOREM Times == Spec => []TimesTell
<1>1. Init => TimesTell
  <2> SUFFICES ASSUME Init PROVE TimesTell
    OBVIOUS
  <2>1. /\ DOMAIN commits = {} /\ DOMAIN ledger = {}
        /\ \A b \in DOMAIN tip : DOMAIN (tip[b].ledger) = {}
    BY DEF Init, CloneInit
  <2> QED
    BY <2>1 DEF TimesTell, InOrder
<1>2. TypeOK /\ StageTells /\ TimesTell /\ [Next]_vars => TimesTell'
  <2> SUFFICES ASSUME TypeOK, StageTells, TimesTell, [Next]_vars PROVE TimesTell'
    OBVIOUS
  <2>0. /\ now \in Nat /\ head \in DOMAIN tip /\ ledger \in Seq(Entry)
        /\ Committed = tip[head].ledger
        /\ \A b \in DOMAIN tip : tip[b].ledger \in Seq(Entry)
    BY DEF TypeOK, CloneTypeOK, Committed
  <2>1. now' = now \/ (now' = now + 1 /\ UNCHANGED clone)
    BY DEF Next, Tick, vars
  <2>2. CASE now' = now + 1 /\ UNCHANGED clone
    BY <2>0, <2>2, OrderGoesOn DEF TimesTell, clone
  <2>3. CASE now' = now
    <3>1. InOrder(ledger', now)
      BY <2>0, WorkingTreeLedger, OrderGoesOn DEF TimesTell
    <3>2. CASE Keeps
      BY <2>3, <3>1, <3>2 DEF Keeps, TimesTell
    <3>3. ASSUME NEW b \in DOMAIN tip, Merge(b) PROVE TimesTell'
      <4>1. PICK main \in {Main, b} :
              tip' = [tip EXCEPT ![Main] = [past |-> Past(Main) \cup Past(b),
                                           ledger |-> tip[main].ledger]]
        BY <3>3 DEF Merge
      <4>2. commits' = commits /\ Main \in DOMAIN tip
        BY <3>3 DEF Merge, TypeOK, CloneTypeOK
      <4>3. \A c \in DOMAIN tip' :
              \E a \in DOMAIN tip : tip'[c].ledger = tip[a].ledger
        BY <4>1, <4>2
      <4> QED
        BY <2>3, <3>1, <4>2, <4>3 DEF TimesTell
    <3>4. CASE CommitLedger \/ Commit
      <4>1. PICK new \in CommitType :
              /\ Adds(new)
              /\ new.before = Committed /\ new.at = now
              /\ new.ledger = ledger \/ new.ledger = Committed
        BY <3>4, WhatIsCommitted
      <4>2. InOrder(new.ledger, now) /\ InOrder(new.before, new.at)
        BY <2>0, <4>1 DEF TimesTell
      <4>3. \A b \in DOMAIN tip' : InOrder(tip'[b].ledger, now)
        BY <4>1, <4>2 DEF Adds, TimesTell
      <4>4. \A i \in DOMAIN commits' : InOrder(commits'[i].before, commits'[i].at)
        BY <4>1, <4>2 DEF Adds, TimesTell
      <4> QED
        BY <2>3, <3>1, <4>3, <4>4 DEF TimesTell
    <3> QED
      BY <3>2, <3>3, <3>4, KindsOfSteps
  <2> QED
    BY <2>1, <2>2, <2>3
<1> QED
  BY <1>1, <1>2, TypeAndStage, PTL DEF Spec

\* A step keeps the commits there are.  One it adds is the commit of a
\* dispatch, or carries no trailers.
LEMMA CommitsStay ==
  ASSUME TypeOK, StageTells, [Next]_vars
  PROVE  /\ Reachable \subseteq DOMAIN commits
         /\ \A i \in DOMAIN commits : i \in DOMAIN commits' /\ commits'[i] = commits[i]
         /\ Reachable' \ Reachable \subseteq DOMAIN commits' \ DOMAIN commits
         /\ \A i \in DOMAIN commits' \ DOMAIN commits :
              \/ commits'[i].trailers = None
              \/ /\ Commit
                 /\ i = Len(commits) + 1
                 /\ commits'[i].before = Committed
                 /\ commits'[i].trailers = TrailersOf
                 /\ commits'[i].content = job.applied
                 /\ commits'[i].grant = job.grant
<1>1. /\ Reachable \subseteq DOMAIN commits
      /\ Len(commits) + 1 \notin DOMAIN commits
      /\ head \in DOMAIN tip /\ Main \in DOMAIN tip
  <2>1. \A b \in DOMAIN tip : Past(b) \subseteq DOMAIN commits
    BY DEF TypeOK, CloneTypeOK, Past
  <2>2. Len(commits) + 1 \notin DOMAIN commits
    BY DEF TypeOK, CloneTypeOK
  <2> QED
    BY <2>1, <2>2 DEF Reachable, TypeOK, CloneTypeOK
<1>2. CASE Keeps
  <2>1. commits' = commits
    BY <1>2 DEF Keeps
  <2>2. \A b \in DOMAIN tip' : \E c \in DOMAIN tip : Past(b)' = Past(c)
    BY <1>2 DEF Keeps, Past
  <2>3. Reachable' \subseteq Reachable
    BY <2>2 DEF Reachable
  <2> QED
    BY <1>1, <2>1, <2>3
<1>3. ASSUME NEW b \in DOMAIN tip, Merge(b)
      PROVE  commits' = commits /\ Reachable' \subseteq Reachable
  <2>1. /\ commits' = commits
        /\ DOMAIN tip' = DOMAIN tip
        /\ Past(Main)' = Past(Main) \cup Past(b)
        /\ \A c \in DOMAIN tip \ {Main} : Past(c)' = Past(c)
    BY <1>1, <1>3 DEF Merge, Past
  <2> QED
    BY <1>1, <2>1 DEF Reachable
<1>4. CASE CommitLedger \/ Commit
  <2> DEFINE n == Len(commits) + 1
  <2>1. PICK new \in CommitType :
          /\ Adds(new)
          /\ new.before = Committed
          /\ \/ new.trailers = None
             \/ /\ Commit
                /\ new.trailers = TrailersOf
                /\ new.content = job.applied
                /\ new.grant = job.grant
    BY <1>4, WhatIsCommitted
  <2>2. PICK h \in DOMAIN tip : h = head
    BY <1>1
  <2>3. /\ DOMAIN commits' = DOMAIN commits \cup {n}
        /\ \A i \in DOMAIN commits : commits'[i] = commits[i]
        /\ commits'[n] = new
        /\ DOMAIN tip' = DOMAIN tip
        /\ Past(h)' = Past(h) \cup {n}
        /\ \A b \in DOMAIN tip \ {h} : Past(b)' = Past(b)
    BY <2>1, <2>2 DEF Adds, Past
  <2> HIDE DEF n
  <2>4. Reachable' \ Reachable \subseteq {n}
    BY <2>3 DEF Reachable
  <2> QED
    BY <1>1, <2>1, <2>3, <2>4 DEF n
<1> QED
  BY <1>1, <1>2, <1>3, <1>4, KindsOfSteps

\* A dispatch under way goes on telling what it did.
LEMMA DispatchKeepsTelling ==
  ASSUME TypeOK, StageTells, DispatchTells, [Next]_vars
  PROVE  DispatchTells'
<1> USE DEF WithAGrant, OnItsBranch
<1>1. ASSUME pc' \notin WithAGrant PROVE DispatchTells'
  BY <1>1 DEF DispatchTells
<1>2. ASSUME ~Commit, Own' = Own, FindDispatches(Own) = {}
      PROVE  FindDispatches(Own)' = {}
  <2>1. ASSUME NEW i \in Reachable', commits'[i].trailers # None,
               commits'[i].trailers.key = Own
        PROVE  FALSE
    <3>1. CASE i \in Reachable
      BY <1>2, <2>1, <3>1, CommitsStay DEF FindDispatches
    <3>2. CASE i \notin Reachable
      BY <1>2, <2>1, <3>2, CommitsStay
    <3> QED
      BY <3>1, <3>2
  <2> QED
    BY <1>2, <2>1 DEF FindDispatches
<1>3. ASSUME UNCHANGED <<pc, job>>,
             pc \in WithAGrant => \A k \in DOMAIN ledger : k \in DOMAIN ledger' /\ ledger'[k] = ledger[k]
      PROVE  DispatchTells'
  <2>1. Own' = Own /\ Permitted' = Permitted /\ ~Commit
    BY <1>3 DEF Own, Permitted, Commit, InScope, Goes
  <2> QED
    BY <1>2, <1>3, <2>1 DEF DispatchTells
<1>4. CASE \/ \E p \in Proposal : Start(p)
           \/ RefuseApproval \/ RefuseIsolate \/ RefuseWrite \/ WriteBreaks
           \/ CheckBreaks \/ Revert \/ Undo \/ Commit \/ CommitRefused
           \/ Return \/ Die
  BY <1>1, <1>4 DEF Start, RefuseApproval, RefuseIsolate, RefuseWrite, WriteBreaks,
       CheckBreaks, Revert, Undo, Commit, CommitRefused, Return, Die, Finish, Goes
<1>5. CASE Approve
  <2>1. ledger \in Seq(Entry)
    BY DEF TypeOK, CloneTypeOK
  <2>2. LastOn(ledger, job.proposal) \in DOMAIN ledger
    BY <1>5, <2>1, LastOnIsADecision DEF Approve, Granted
  <2>3. /\ job'.grant = LastOn(ledger, job.proposal)
        /\ job'.decision = ledger[LastOn(ledger, job.proposal)]
        /\ ledger' = ledger /\ pc' = "isolate"
    BY <1>5 DEF Approve, Goes, clone, TypeOK, Job
  <2> QED
    BY <2>2, <2>3 DEF DispatchTells
<1>6. CASE Isolate
  <2>1. /\ Own' = Own /\ Permitted' = Permitted
        /\ job'.grant = job.grant /\ job'.decision = job.decision
        /\ job'.before = ChangedPaths
        /\ pc = "isolate" /\ pc' = "write" /\ ledger' = ledger /\ ~Commit
    BY <1>6 DEF Isolate, Goes, Own, Permitted, TypeOK, Job, Commit, InScope
  <2>2. FindDispatches(Own)' = {}
    BY <1>2, <1>6, <2>1 DEF Isolate
  <2>3. ChangedPaths \cap Permitted = {}
    BY <1>6, <2>1, ScopeIsOfFiles, NamesAssumption
    DEF Isolate, ChangedPaths, StageTells
  <2> QED
    BY <2>1, <2>2, <2>3 DEF DispatchTells
<1>7. CASE Write
  <2>1. /\ Own' = Own /\ Permitted' = Permitted
        /\ job'.grant = job.grant /\ job'.decision = job.decision
        /\ job'.before = job.before
        /\ job'.wrote = Permitted /\ job'.applied = job'.content
        /\ pc = "write" /\ pc' = "check" /\ ledger' = ledger /\ ~Commit
    BY <1>7 DEF Write, Goes, Own, Permitted, TypeOK, Job, Commit, InScope
  <2>2. FindDispatches(Own)' = {}
    BY <1>2, <2>1 DEF DispatchTells
  <2> QED
    BY <2>1, <2>2 DEF DispatchTells
<1>8. CASE PassChecks
  <2>1. /\ Own' = Own /\ Permitted' = Permitted
        /\ job'.grant = job.grant /\ job'.decision = job.decision
        /\ job'.before = job.before
        /\ job'.wrote = job.wrote
        /\ job'.applied = job.applied /\ job'.content = job.content
        /\ pc = "check" /\ pc' = "scope" /\ ledger' = ledger /\ ~Commit
    BY <1>8 DEF PassChecks, Goes, clone, Own, Permitted, TypeOK, Job, Commit, InScope
  <2>2. FindDispatches(Own)' = {}
    BY <1>2, <2>1 DEF DispatchTells
  <2> QED
    BY <2>1, <2>2 DEF DispatchTells
<1>9. CASE \/ \E p \in Proposal, v \in Version : Propose(p, v)
           \/ UNCHANGED <<clone, store, pc, job>>
  <2>1. UNCHANGED <<clone, pc, job>>
    BY <1>9 DEF Propose
  <2>2. ledger' = ledger /\ UNCHANGED <<pc, job>>
    BY <2>1 DEF clone
  <2> QED
    BY <1>3, <2>2
<1>10. CASE Meanwhile
  <2>1. UNCHANGED <<pc, job>>
    BY <1>10 DEF Meanwhile
  <2>2. ASSUME pc \in WithAGrant
        PROVE  \A k \in DOMAIN ledger : k \in DOMAIN ledger' /\ ledger'[k] = ledger[k]
    <3>1. ASSUME NEW p \in Proposal, NEW outcome \in {"granted", "denied"},
                 Decide(p, store[p], outcome)
          PROVE  \A k \in DOMAIN ledger : k \in DOMAIN ledger' /\ ledger'[k] = ledger[k]
      <4> DEFINE e == [proposal |-> p, version |-> store[p], outcome |-> outcome,
                 at |-> now]
      <4>1. e \in Entry /\ ledger' = Append(ledger, e) /\ ledger \in Seq(Entry)
        BY <3>1 DEF Decide, Entry, TypeOK, CloneTypeOK
      <4> HIDE DEF e
      <4> QED
        BY <4>1
    <3>2. CASE ledger' = ledger
      BY <3>2
    <3>3. \/ ledger' = ledger
          \/ \E p \in Proposal, outcome \in {"granted", "denied"} :
               Decide(p, store[p], outcome)
      BY <1>10, <2>2
      DEF Meanwhile, Edit, Stage, Discard, CommitLedger, Merge, DeleteMerged
    <3> QED
      BY <3>1, <3>2, <3>3
  <2> QED
    BY <1>3, <2>1, <2>2
<1> QED
  BY <1>4, <1>5, <1>6, <1>7, <1>8, <1>9, <1>10 DEF Next, Happens, Tick, Dispatch, vars

(* Each commit of a dispatch says the truth in its trailers, no key is     *)
(* committed twice, and a dispatch under way still has the grant it found  *)
(* and nothing committed under its key (dispatch.mjs, from                 *)
(* findDispatches to buildCommitMessage).                                  *)
THEOREM History == Spec => []HistoryTells
<1> USE DEF WithAGrant, OnItsBranch
<1>1. Init => HistoryTells
  <2> SUFFICES ASSUME Init PROVE HistoryTells
    OBVIOUS
  <2>1. DOMAIN commits = {} /\ Reachable = {} /\ pc = "idle"
    BY DEF Init, CloneInit, Reachable, Past
  <2> QED
    BY <2>1 DEF HistoryTells, OncePerKey, DispatchTells
<1>2. TypeOK /\ StageTells /\ LedgersTell /\ HistoryTells /\ [Next]_vars
        => HistoryTells'
  <2> SUFFICES ASSUME TypeOK, StageTells, LedgersTell, HistoryTells, [Next]_vars
               PROVE  HistoryTells'
    OBVIOUS
  <2>1. DispatchTells'
    BY DispatchKeepsTelling DEF HistoryTells
  <2>2. ASSUME NEW i \in DOMAIN commits' PROVE CommitTells(commits'[i])
    <3>1. CASE i \in DOMAIN commits
      BY <3>1, CommitsStay DEF HistoryTells
    <3>2. CASE i \notin DOMAIN commits /\ commits'[i].trailers = None
      BY <3>2 DEF CommitTells
    <3>3. CASE i \notin DOMAIN commits /\ commits'[i].trailers # None
      <4> DEFINE c == commits'[i]
      <4>1. /\ Commit
            /\ c.before = Committed /\ c.trailers = TrailersOf
            /\ c.content = job.applied /\ c.grant = job.grant
        BY <2>2, <3>3, CommitsStay
      <4>2. /\ Grants(job.decision, job.proposal, job.content)
            /\ job.applied = job.content
            /\ job.grant \in DOMAIN ledger /\ ledger[job.grant] = job.decision
        BY <4>1 DEF Commit, InScope, StageTells, HistoryTells, DispatchTells
      <4>3. /\ c.trailers.proposal = job.proposal
            /\ c.trailers.version = job.content
            /\ c.trailers.key = <<job.proposal, job.content>>
        BY <4>1, <4>2 DEF TrailersOf, Own, DispatchKey, Grants
      <4>4. /\ ledger \in Seq(Entry) /\ Committed \in Seq(Entry)
            /\ IsPrefixOf(Committed, ledger)
        BY DEF TypeOK, CloneTypeOK, Committed, LedgersTell
      <4>5. job.grant # 0
        BY <4>2, <4>4
      <4>6. job.grant \in DOMAIN Committed => Committed[job.grant] = job.decision
        BY <4>2, <4>4, LinesOfPrefix
      <4> QED
        BY <4>1, <4>2, <4>3, <4>5, <4>6 DEF CommitTells
    <3> QED
      BY <3>1, <3>2, <3>3
  <2>3. OncePerKey'
    <3>1. SUFFICES ASSUME NEW i \in Reachable', NEW j \in Reachable',
                          commits'[i].trailers # None, commits'[j].trailers # None,
                          commits'[i].trailers.key = commits'[j].trailers.key
                   PROVE  i = j
      BY DEF OncePerKey
    <3>2. ASSUME NEW k \in Reachable' \ Reachable, commits'[k].trailers # None
          PROVE  /\ k = Len(commits) + 1 /\ commits'[k].trailers.key = Own
                 /\ FindDispatches(Own) = {}
      <4>1. Commit /\ k = Len(commits) + 1 /\ commits'[k].trailers = TrailersOf
        BY <3>2, CommitsStay
      <4> QED
        BY <4>1 DEF Commit, InScope, HistoryTells, DispatchTells, TrailersOf
    <3>3. \A k \in Reachable : commits'[k] = commits[k]
      BY CommitsStay
    <3>4. CASE i \in Reachable /\ j \in Reachable
      BY <3>1, <3>3, <3>4 DEF HistoryTells, OncePerKey
    <3>5. CASE i \notin Reachable /\ j \notin Reachable
      BY <3>1, <3>2, <3>5
    <3>6. CASE i \in Reachable /\ j \notin Reachable
      BY <3>1, <3>2, <3>3, <3>6 DEF FindDispatches
    <3>7. CASE i \notin Reachable /\ j \in Reachable
      BY <3>1, <3>2, <3>3, <3>7 DEF FindDispatches
    <3> QED
      BY <3>4, <3>5, <3>6, <3>7
  <2> QED
    BY <2>1, <2>2, <2>3 DEF HistoryTells
<1> QED
  BY <1>1, <1>2, TypeAndStage, Ledgers, PTL DEF Spec

-----------------------------------------------------------------------------
(* The properties of the dispatcher and of the gate                        *)

(* No two commits that can be reached carry the same Dispatch-Key,         *)
(* whatever dispatches die, fail or are repeated and whichever branches    *)
(* are merged and deleted (dispatch.mjs, findDispatches before the branch  *)
(* is cut): while a dispatch is under way nobody else commits its key, and *)
(* a branch that is deleted takes its commits out of reach for good.       *)
THEOREM NothingTwice == Spec => []OncePerKey
BY History, PTL DEF HistoryTells

\* What a commit on main tells the gate.
LEMMA OnMain ==
  ASSUME TypeOK, LedgersTell, HistoryTells, NEW i \in ByAgents
  PROVE  LET c == commits[i] IN
         /\ c \in CommitType
         /\ c.trailers \in Trailers
         /\ MainLedger \in Seq(Entry)
         /\ Lines(c.before) \subseteq Lines(MainLedger)
         /\ CommitTells(c)
         /\ c.trailers # None
<1> DEFINE c == commits[i]
<1>1. /\ Main \in DOMAIN tip /\ i \in Past(Main) /\ i \in DOMAIN commits
      /\ MainLedger \in Seq(Entry)
  BY DEF ByAgents, TypeOK, CloneTypeOK, Past, MainLedger
<1>2. c \in CommitType
  BY <1>1 DEF TypeOK, CloneTypeOK
<1>3. c.before \in Seq(Entry) /\ c.ledger \in Seq(Entry)
  BY <1>2 DEF CommitType
<1>4. IsPrefixOf(c.before, c.ledger) /\ IsPrefixOf(c.ledger, MainLedger)
  BY <1>1 DEF LedgersTell, MainLedger
<1>5. Lines(c.before) \subseteq Lines(MainLedger)
  BY <1>1, <1>3, <1>4, PrefixOfPrefix, LinesOfPrefix
<1> QED
  BY <1>1, <1>2, <1>5 DEF ByAgents, CommitType, HistoryTells

\* What the gate cites is a grant, and a line of main's ledger.
LEMMA CitedIsOnMain ==
  ASSUME TypeOK, LedgersTell, HistoryTells, NEW i \in ByAgents, Precedes(i) # {}
  PROVE  LET c == commits[i] IN
         \E k \in DOMAIN c.before :
           /\ Cited(i) = <<k, c.before[k]>>
           /\ c.before[k] \in Entry
           /\ Grants(c.before[k], c.trailers.proposal, c.trailers.version)
           /\ \A other \in Precedes(i) : other[1] <= k
           /\ Cited(i) \in Lines(MainLedger)
           /\ k \in DOMAIN MainLedger /\ MainLedger[k] = c.before[k]
<1> DEFINE c == commits[i]
<1>1. c.before \in Seq(Entry) /\ Lines(c.before) \subseteq Lines(MainLedger)
  BY OnMain DEF CommitType
<1>2. Cited(i) \in Precedes(i) /\ \A other \in Precedes(i) : other[1] <= Cited(i)[1]
  BY <1>1, CitedIsTheLast
<1>3. PICK k \in DOMAIN c.before :
        /\ Cited(i) = <<k, c.before[k]>>
        /\ Grants(c.before[k], c.trailers.proposal, c.trailers.version)
  BY <1>2 DEF Precedes, Granting, Lines
<1>4. Cited(i) \in Lines(MainLedger)
  BY <1>1, <1>2 DEF Precedes, Granting
<1>5. k \in DOMAIN MainLedger /\ MainLedger[k] = c.before[k]
  BY <1>3, <1>4 DEF Lines
<1>6. c.before[k] \in Entry
  BY <1>1, <1>3
<1> QED
  BY <1>2, <1>3, <1>4, <1>5, <1>6

(* What the gate lets through is what a person granted: each commit of a   *)
(* dispatch on main applied the content granted before it, and no longer   *)
(* before it than an approval lasts, in that content's files and no        *)
(* others, and nobody denied the proposal since (gate.mjs,                 *)
(* judgeAgentChanges, over what dispatch.mjs has committed).               *)
THEOREM PassedIsGranted == Spec => []WhatPassesWasGranted
<1>1. TypeOK /\ LedgersTell /\ HistoryTells => WhatPassesWasGranted
  <2> SUFFICES ASSUME TypeOK, LedgersTell, HistoryTells, GatePasses,
                      NEW i \in ByAgents
               PROVE  LET c == commits[i]
                          p == c.trailers.proposal
                      IN /\ c.files \subseteq Scope[p][c.content]
                         /\ \E k \in DOMAIN MainLedger :
                              /\ Grants(MainLedger[k], p, c.content)
                              /\ k <= Len(c.before)
                              /\ c.at - MainLedger[k].at \in 0..MaxAge
                              /\ \A l \in DOMAIN MainLedger :
                                   l > k /\ MainLedger[l].proposal = p
                                     => MainLedger[l].outcome = "granted"
    BY DEF WhatPassesWasGranted
  <2> DEFINE c == commits[i]
             p == c.trailers.proposal
  <2>1. ~Refused(i, MainLedger)
    BY DEF GatePasses
  <2>2. /\ Precedes(i) # {}
        /\ ~Withdrawn(i, MainLedger)
        /\ c.files \subseteq Scope[p][c.trailers.version]
        /\ InTime(i)
    BY <2>1 DEF Refused
  <2>3. PICK k \in DOMAIN c.before :
          /\ Cited(i) = <<k, c.before[k]>>
          /\ c.before[k] \in Entry
          /\ Grants(c.before[k], p, c.trailers.version)
          /\ k \in DOMAIN MainLedger /\ MainLedger[k] = c.before[k]
    BY <2>2, CitedIsOnMain
  <2>4. /\ c.content = c.trailers.version /\ c.at \in Nat
        /\ c.before \in Seq(Entry) /\ MainLedger \in Seq(Entry)
    BY OnMain DEF CommitTells, CommitType
  <2>5. k <= Len(c.before)
    BY <2>4
  <2>6. \A l \in DOMAIN MainLedger :
          l > k /\ MainLedger[l].proposal = p => MainLedger[l].outcome # "denied"
    BY <2>2, <2>3 DEF Withdrawn, DecisionsOn
  <2>7. \A l \in DOMAIN MainLedger : MainLedger[l].outcome \in {"granted", "denied"}
    <3>1. \A l \in DOMAIN MainLedger : MainLedger[l] \in Entry
      BY <2>4
    <3> QED
      BY <3>1 DEF Entry
  <2>8. c.at - MainLedger[k].at \in 0..MaxAge
    <3>1. MainLedger[k].at \in Nat /\ Cited(i)[2] = MainLedger[k]
      BY <2>3 DEF Entry
    <3> QED
      BY <2>2, <2>4, <3>1, AgeAssumption DEF InTime
  <2> QED
    BY <2>2, <2>3, <2>4, <2>5, <2>6, <2>7, <2>8
<1> QED
  BY <1>1, TypeAndStage, Ledgers, History, PTL

(* The gate accepts what was dispatched as it should be: where the         *)
(* decision acted on was committed before the change and no older by then  *)
(* than an approval lasts, and the index held nothing else, only a later   *)
(* denial makes it refuse (dispatch.mjs writes the trailers, gate.mjs      *)
(* judgeAgentChanges reads them).  What the gate cites is the decision     *)
(* acted on or a later one, and so a younger.                              *)
THEOREM DispatchedIsAccepted == Spec => []GateAcceptsTheDispatched
<1>1. TypeOK /\ LedgersTell /\ HistoryTells /\ TimesTell => GateAcceptsTheDispatched
  <2> SUFFICES ASSUME TypeOK, LedgersTell, HistoryTells, TimesTell, NEW i \in ByAgents,
                      commits[i].grant <= Len(commits[i].before),
                      commits[i].at - commits[i].before[commits[i].grant].at <= MaxAge,
                      commits[i].files
                        \subseteq Scope[commits[i].trailers.proposal][commits[i].content],
                      \A k \in DecisionsOn(MainLedger, commits[i].trailers.proposal) :
                        k > commits[i].grant => MainLedger[k].outcome = "granted"
               PROVE  ~Refused(i, MainLedger)
    BY DEF GateAcceptsTheDispatched
  <2> DEFINE c == commits[i]
             t == c.trailers
  <2>1. /\ c.before \in Seq(Entry) /\ MainLedger \in Seq(Entry) /\ c.grant \in Nat
        /\ c.content = t.version /\ c.at \in Nat
        /\ t.key = <<t.proposal, t.version>>
        /\ c.grant # 0
        /\ c.grant \in DOMAIN c.before => Grants(c.before[c.grant], t.proposal, t.version)
    BY OnMain DEF CommitTells, CommitType
  <2>2. c.grant \in DOMAIN c.before
    BY <2>1
  <2>3. <<c.grant, c.before[c.grant]>> \in Precedes(i)
    BY <2>1, <2>2 DEF Precedes, Granting, Lines
  <2>4. PICK k \in DOMAIN c.before :
          /\ Cited(i) = <<k, c.before[k]>>
          /\ c.before[k] \in Entry
          /\ Grants(c.before[k], t.proposal, t.version)
          /\ \A other \in Precedes(i) : other[1] <= k
          /\ Cited(i) \in Lines(MainLedger)
    BY <2>3, CitedIsOnMain
  <2>5. c.grant <= k /\ k \in Nat
    BY <2>1, <2>3, <2>4
  <2>6. ~Withdrawn(i, MainLedger)
    <3> SUFFICES ASSUME NEW l \in DecisionsOn(MainLedger, t.proposal), l > k,
                        MainLedger[l].outcome = "denied"
                 PROVE  FALSE
      BY <2>4 DEF Withdrawn
    <3>1. l \in Nat
      BY <2>1 DEF DecisionsOn
    <3> QED
      BY <2>1, <2>5, <3>1
  <2>7. t.key = DispatchKey(Cited(i)[2])
    BY <2>1, <2>4 DEF DispatchKey, Grants
  <2>8. InTime(i)
    <3>1. InOrder(c.before, c.at)
      <4>1. i \in DOMAIN commits
        BY DEF ByAgents, TypeOK, CloneTypeOK, Past
      <4> QED
        BY <4>1 DEF TimesTell
    <3>2. c.at - c.before[c.grant].at <= MaxAge
      OBVIOUS
    <3>3. c.before[c.grant] \in Entry /\ Cited(i)[2] = c.before[k]
      BY <2>1, <2>2, <2>4
    <3>4. c.at \in Nat /\ c.before[c.grant].at \in Nat /\ c.before[k].at \in Nat
      BY <2>1, <2>4, <3>3 DEF Entry
    <3>5. c.before[c.grant].at <= c.before[k].at /\ c.before[k].at <= c.at
      BY <2>2, <2>4, <2>5, <3>1 DEF InOrder
    <3> HIDE DEF c
    <3>6. c.before[k].at <= c.at /\ c.at - c.before[k].at <= MaxAge
      BY <3>2, <3>4, <3>5, AgeAssumption
    <3> QED
      BY <3>3, <3>6 DEF InTime, c
  <2> QED
    BY <2>1, <2>3, <2>4, <2>6, <2>7, <2>8 DEF Refused
<1> QED
  BY <1>1, TypeAndStage, Ledgers, History, Times, PTL

\* Main's ledger is only ever continued.
LEMMA MainContinues ==
  ASSUME TypeOK, TypeOK', StageTells, [Next]_vars
  PROVE  IsPrefixOf(MainLedger, MainLedger')
<1>1. /\ Main \in DOMAIN tip /\ Main \in DOMAIN tip'
      /\ \A b \in DOMAIN tip : tip[b].ledger \in Seq(Entry)
  BY DEF TypeOK, CloneTypeOK
<1>2. CASE MainLedger' = MainLedger
  BY <1>1, <1>2, PrefixOfItself DEF MainLedger
<1>3. CASE Keeps
  <2>1. MainLedger' = MainLedger
    BY <1>1, <1>3 DEF Keeps, MainLedger
  <2> QED
    BY <1>2, <2>1
<1>4. ASSUME NEW b \in DOMAIN tip, Merge(b)
      PROVE  IsPrefixOf(MainLedger, MainLedger')
  <2>1. PICK main \in {Main, b}, other \in {Main, b} :
          /\ main # other
          /\ IsPrefixOf(tip[other].ledger, tip[main].ledger)
          /\ tip' = [tip EXCEPT ![Main] = [past |-> Past(Main) \cup Past(b),
                                          ledger |-> tip[main].ledger]]
    BY <1>4 DEF Merge
  <2>2. MainLedger' = tip[main].ledger
    BY <1>1, <2>1 DEF MainLedger
  <2>3. CASE main = Main
    BY <1>2, <2>2, <2>3, <1>1, PrefixOfItself DEF MainLedger
  <2>4. CASE other = Main
    BY <2>1, <2>2, <2>4 DEF MainLedger
  <2> QED
    BY <2>1, <2>3, <2>4
<1>5. CASE CommitLedger \/ Commit
  <2>1. PICK new \in CommitType : Adds(new) /\ head # Main
    BY <1>5, WhatIsCommitted
  <2>2. MainLedger' = MainLedger
    BY <1>1, <2>1 DEF Adds, MainLedger
  <2> QED
    BY <1>2, <2>2
<1> QED
  BY <1>2, <1>3, <1>4, <1>5, KindsOfSteps

(* A refusal of the gate is for good: what it refuses a commit for stays   *)
(* so whatever is decided, committed or merged, and however main's ledger  *)
(* goes on (gate.mjs, judgeAgentChanges, a later denial and a commit whose *)
(* parent's ledger does not hold the grant).                               *)
THEOREM RefusalIsForGood == Spec => RefusedForGood
<1>1. TypeOK /\ TypeOK' /\ StageTells /\ LedgersTell /\ HistoryTells /\ [Next]_vars
        => [\A i \in ByAgents : Refused(i, MainLedger) => Refused(i, MainLedger)']_vars
  <2> SUFFICES ASSUME TypeOK, TypeOK', StageTells, LedgersTell, HistoryTells, [Next]_vars,
                      NEW i \in ByAgents, Refused(i, MainLedger)
               PROVE  Refused(i, MainLedger)'
    OBVIOUS
  <2>1. /\ MainLedger \in Seq(Entry) /\ MainLedger' \in Seq(Entry)
        /\ i \in DOMAIN commits
    BY DEF TypeOK, CloneTypeOK, MainLedger, ByAgents, Past
  <2>2. commits'[i] = commits[i]
    BY <2>1, CommitsStay
  <2>3. /\ Lines(MainLedger) \subseteq Lines(MainLedger')
        /\ \A k \in DOMAIN MainLedger : k \in DOMAIN MainLedger' /\ MainLedger'[k] = MainLedger[k]
    BY <2>1, MainContinues, LinesOfPrefix
  <2>4. Precedes(i)' = Precedes(i) /\ Cited(i)' = Cited(i)
    <3>1. Precedes(i)' = Precedes(i)
      BY <2>2 DEF Precedes, Granting
    <3> QED
      BY <3>1 DEF Cited
  <2>5. CASE Precedes(i) = {}
    BY <2>4, <2>5 DEF Refused
  <2>6. CASE Precedes(i) # {}
    <3>1. Cited(i) \in Lines(MainLedger)
      BY <2>6, CitedIsOnMain
    <3>2. Withdrawn(i, MainLedger) => Withdrawn(i, MainLedger)'
      BY <2>2, <2>3, <2>4 DEF Withdrawn, DecisionsOn
    <3>3. InTime(i)' <=> InTime(i)
      BY <2>2, <2>4 DEF InTime
    <3> QED
      BY <2>2, <2>4, <2>6, <3>1, <3>2, <3>3 DEF Refused
  <2> QED
    BY <2>5, <2>6
<1> QED
  BY <1>1, TypeAndStage, Ledgers, History, PTL DEF Spec, RefusedForGood

(* A dispatch that ends because its checks regressed, or because it        *)
(* touched what it may not, leaves nothing it wrote in the working tree    *)
(* except what a person had staged (implementer.mjs, rollback, and         *)
(* dispatch.mjs, undo).                                                    *)
THEOREM NothingIsLeft == Spec => FailureLeavesNothing
<1>1. TypeOK /\ StageTells /\ HistoryTells
        => [Revert \/ Undo => job.wrote \cap dirty' \subseteq staged']_vars
  <2> SUFFICES ASSUME TypeOK, StageTells, HistoryTells, Revert \/ Undo
               PROVE  job.wrote \cap dirty' \subseteq staged'
    OBVIOUS
  <2> USE DEF OnItsBranch, HistoryTells, DispatchTells
  <2>1. CASE Revert
    <3>1. dirty' = dirty \ Permitted /\ job.wrote = Permitted
      BY <2>1 DEF Revert, Back
    <3> QED
      BY <3>1
  <2>2. CASE Undo
    <3>1. /\ dirty' = (dirty \ Touched) \cup staged /\ staged' = staged
          /\ job.wrote = Permitted /\ job.before \cap Permitted = {}
      BY <2>2 DEF Undo, Back
    <3>2. dirty \cap Permitted \subseteq Touched
      BY <3>1 DEF Touched, ChangedPaths
    <3> QED
      BY <3>1, <3>2
  <2> QED
    BY <2>1, <2>2
<1> QED
  BY <1>1, TypeAndStage, History, PTL DEF Spec, FailureLeavesNothing

(* What reads as published is on main, with the content the record store   *)
(* has now (lifecycle.mjs, lifecycleOf).  The key of a commit names the    *)
(* content that was applied, so the commit found under the key of a grant  *)
(* of the store's content applied just that.                               *)
THEOREM PublishedIsPublished == Spec => []PublishedIsOnMain
<1>1. TypeOK /\ HistoryTells => PublishedIsOnMain
  <2> SUFFICES ASSUME TypeOK, HistoryTells,
                      NEW p \in Proposal, Lifecycle(p) = "published"
               PROVE  \E i \in ByAgents :
                        commits[i].trailers.proposal = p /\ commits[i].content = store[p]
    BY DEF PublishedIsOnMain
  <2> DEFINE d == ledger[LastOn(ledger, p)]
  <2>1. DecisionsOn(ledger, p) # {}
    BY DEF Lifecycle
  <2>2. d \in Entry /\ d.proposal = p
    BY <2>1, LastOnIsADecision DEF TypeOK, CloneTypeOK
  <2>3. d.version = store[p] /\ PublishedUnder(DispatchKey(d))
    <3>1. CASE d.outcome = "denied"
      BY <2>1, <3>1 DEF Lifecycle
    <3>2. CASE d.outcome = "granted" /\ d.version # store[p]
      BY <2>1, <3>2 DEF Lifecycle
    <3>3. CASE d.outcome = "granted" /\ d.version = store[p]
      BY <2>1, <3>3 DEF Lifecycle
    <3> QED
      BY <2>2, <3>1, <3>2, <3>3 DEF Entry
  <2>4. PICK i \in FindDispatches(DispatchKey(d)) : i \in Past(Main)
    BY <2>3 DEF PublishedUnder
  <2>5. commits[i].trailers # None /\ commits[i].trailers.key = <<p, store[p]>>
    <3>1. DispatchKey(d) = <<p, store[p]>>
      BY <2>2, <2>3 DEF DispatchKey
    <3> QED
      BY <2>4, <3>1 DEF FindDispatches
  <2>6. i \in DOMAIN commits /\ i \in ByAgents
    BY <2>4, <2>5 DEF ByAgents, TypeOK, CloneTypeOK, Past
  <2>7. /\ commits[i].trailers.proposal = p
        /\ commits[i].content = store[p]
    <3> DEFINE t == commits[i].trailers
    <3>1. t # None /\ t.key = <<p, store[p]>>
      BY <2>5
    <3>2. CommitTells(commits[i])
      BY <2>6 DEF HistoryTells
    <3>3. t.key = <<t.proposal, t.version>> /\ commits[i].content = t.version
      BY <3>1, <3>2 DEF CommitTells
    <3>4. t.proposal = p /\ t.version = store[p]
      <4> HIDE DEF t
      <4> QED
        BY <3>1, <3>3
    <3> QED
      BY <3>3, <3>4
  <2> QED
    BY <2>6, <2>7
<1> QED
  BY <1>1, TypeAndStage, History, PTL DEF Spec
=============================================================================
