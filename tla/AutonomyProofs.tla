--------------------------- MODULE AutonomyProofs ---------------------------
(***************************************************************************)
(* What holds of changes nobody decides on, for every set of proposals,    *)
(* lines somebody may write to the grant ledger, paths and people, and any *)
(* number of attempts, commits and instants.                               *)
(***************************************************************************)
EXTENDS Autonomy, SequenceTheorems, TLAPS

-----------------------------------------------------------------------------
(* Lines, commits and attempts                                             *)

\* What somebody asks to be written is a line.
LEMMA AskedLine == \A n \in Nat : \A g \in Asked(n) : g \in Line
  BY BodyAssumption DEF Asked, Dated, Line, BodyType

\* A line is added after the others, which stay as they are.
LEMMA LineAdded ==
  ASSUME TypeOK, NEW g \in Line, AddLine(g)
  PROVE  /\ grants' \in Seq(Line)
         /\ Len(grants') = Len(grants) + 1
         /\ Len(grants') <= MaxGrants
         /\ \A i \in 1..Len(grants) : grants'[i] = grants[i]
<1>1. grants \in Seq(Line) /\ grants' = Append(grants, g)
  BY DEF TypeOK, AddLine
<1>2. Len(grants) \in Nat /\ Len(grants) + 1 <= MaxGrants
  BY <1>1, BoundsAssumption DEF AddLine
<1> QED
  BY <1>1, <1>2, AppendProperties

\* A commit is added after the others and to the branch that is checked out.
LEMMA CommitAdded ==
  ASSUME TypeOK, NEW files \in SUBSET Path, NEW author \in 0..MaxAttempts,
         CommitFiles(files, author)
  PROVE  /\ commits' \in Seq(Commit)
         /\ Len(commits') = Len(commits) + 1
         /\ Len(commits') <= MaxCommits
         /\ DOMAIN commits = 1..Len(commits)
         /\ DOMAIN commits' = 1..Len(commits) + 1
         /\ \A c \in DOMAIN commits : commits'[c] = commits[c]
         /\ commits'[Len(commits) + 1] = [files |-> files, by |-> author, on |-> head]
         /\ DOMAIN past' = DOMAIN past
         /\ past' \in [DOMAIN past -> SUBSET DOMAIN commits']
         /\ \A b \in DOMAIN past :
              past'[b] = past[b] \cup (IF b = head THEN {Len(commits) + 1} ELSE {})
<1> DEFINE c == [files |-> files, by |-> author, on |-> head]
<1>1. commits \in Seq(Commit) /\ commits' = Append(commits, c)
  BY DEF TypeOK, CommitFiles
<1>2. head \in DOMAIN past /\ DOMAIN past \subseteq Branch
      /\ past \in [DOMAIN past -> SUBSET DOMAIN commits]
  BY DEF TypeOK
<1>3. c \in Commit
  BY <1>2 DEF Commit
<1>4. Len(commits) \in Nat /\ Len(commits) + 1 <= MaxCommits
      /\ DOMAIN commits = 1..Len(commits)
  BY <1>1, BoundsAssumption DEF CommitFiles
<1> HIDE DEF c
<1>5. /\ commits' \in Seq(Commit) /\ Len(commits') = Len(commits) + 1
      /\ \A i \in 1..Len(commits) : commits'[i] = commits[i]
      /\ commits'[Len(commits) + 1] = c
  BY <1>1, <1>3, AppendProperties
<1>6. DOMAIN commits' = 1..Len(commits) + 1
  BY <1>4, <1>5
<1>7. past' = [past EXCEPT ![head] = @ \cup {Len(commits) + 1}]
  BY DEF CommitFiles
<1>8. past' \in [DOMAIN past -> SUBSET DOMAIN commits']
  BY <1>2, <1>4, <1>6, <1>7
<1>9. \A b \in DOMAIN past :
        past'[b] = past[b] \cup (IF b = head THEN {Len(commits) + 1} ELSE {})
  BY <1>2, <1>7
<1> QED
  BY <1>4, <1>5, <1>6, <1>7, <1>8, <1>9 DEF c

\* The attempt a runner is at.
LEMMA ThisAttempt ==
  ASSUME TypeOK, pc # "idle"
  PROVE  /\ This \in Attempt /\ This \in DOMAIN tried
         /\ This \notin {Main, Work}
         /\ Current \in Tried /\ P \in Proposal /\ Origin \in Branch
<1>1. tried \in Seq(Tried) /\ Len(tried) <= MaxAttempts /\ tried # <<>>
  BY DEF TypeOK
<1>2. Len(tried) \in 1..MaxAttempts /\ Len(tried) \in DOMAIN tried
  BY <1>1, BoundsAssumption
<1>3. This \in Attempt /\ This \in DOMAIN tried
  BY <1>2 DEF This, Attempt
<1>4. Current \in Tried
  BY <1>1, <1>3 DEF Current
<1> QED
  BY <1>3, <1>4, BranchAssumption DEF P, Origin, Tried

\* What a proposal may touch, and what it edits.
LEMMA ProposalPaths ==
  \A p \in Proposal : /\ Files(p) \subseteq Permitted(p) /\ Permitted(p) \subseteq Path
                      /\ \A op \in Content[p].ops : op.file \in Files(p)
  BY RecordsAssumption DEF Files, Permitted, RecordType

-----------------------------------------------------------------------------
(* Type correctness                                                        *)

LEMMA TypeInit == Init => TypeOK
<1> SUFFICES ASSUME Init PROVE TypeOK
  OBVIOUS
<1>1. grants \in Seq(Line) /\ Len(grants) <= MaxGrants
  <2>1. CASE grants = <<>>
    BY <2>1, BoundsAssumption
  <2>2. ASSUME NEW g \in Asked(0), grants = <<g>> PROVE grants \in Seq(Line) /\ Len(grants) = 1
    BY <2>2, AskedLine
  <2>3. MaxGrants \in Nat /\ 1 <= MaxGrants
    BY BoundsAssumption
  <2> QED
    BY <2>1, <2>2, <2>3 DEF Init
<1>2. {} \in SUBSET DOMAIN commits /\ commits \in Seq(Commit) /\ Len(commits) <= MaxCommits
  BY BoundsAssumption DEF Init
<1>3. DOMAIN past = {Main, Work} /\ past \in [DOMAIN past -> SUBSET DOMAIN commits]
      /\ head \in DOMAIN past
  BY <1>2 DEF Init
<1>4. tried \in Seq(Tried) /\ Len(tried) <= MaxAttempts
  BY BoundsAssumption DEF Init
<1> QED
  BY <1>1, <1>2, <1>3, <1>4, BoundsAssumption DEF Init, TypeOK, ProducedBy, Branch

\* An attempt's branch is its own, and none that it began on goes.
Branches ==
  /\ DOMAIN past \subseteq {Main, Work} \cup 1..Len(tried)
  /\ \A n \in DOMAIN tried :
       tried[n].origin \in DOMAIN past \cap ({Main, Work} \cup 1..(n - 1))
  /\ pc = "gated" => This \notin DOMAIN past
  /\ pc \in {"gated", "back", "joined"} => head = Origin
  /\ pc \in {"cut", "applied", "passed", "committed", "back", "joined"} =>
       This \in DOMAIN past

LEMMA OriginStays ==
  ASSUME TypeOK, Branches, pc # "idle"
  PROVE  Origin \in DOMAIN past /\ Origin # This
<1>1. Origin \in DOMAIN past /\ Origin \in {Main, Work} \cup 1..(This - 1)
  BY ThisAttempt DEF Branches, Origin, Current
<1> QED
  BY <1>1, ThisAttempt DEF Attempt

\* No attempt began on the branch of the one that runs.
LEMMA NoneBeganHere ==
  ASSUME TypeOK, Branches, pc # "idle", NEW n \in DOMAIN tried
  PROVE  tried[n].origin # This
<1>1. This \in Nat /\ n \in Nat /\ n <= This
  BY DEF TypeOK, This
<1>2. This \notin {Main, Work}
  BY ThisAttempt
<1>3. This \notin 1..(n - 1)
  BY <1>1
<1>4. tried[n].origin \in {Main, Work} \cup 1..(n - 1)
  BY DEF Branches
<1> QED
  BY <1>2, <1>3, <1>4

\* The branch an attempt cuts is the one it began on, under a name of its own.
LEMMA CutIs ==
  ASSUME TypeOK, pc # "idle", head = Origin
  PROVE  /\ DOMAIN Cut = DOMAIN past \cup {This} /\ This \in DOMAIN Cut
         /\ DOMAIN Cut \subseteq Branch
         /\ Cut \in [DOMAIN Cut -> SUBSET DOMAIN commits]
         /\ {Main, Work, Origin} \subseteq DOMAIN Cut
         /\ Cut[This] = past[Origin]
         /\ \A b \in DOMAIN past \ {This} : Cut[b] = past[b]
<1>1. This \in Branch /\ head \in DOMAIN past /\ DOMAIN past \subseteq Branch
      /\ {Main, Work} \subseteq DOMAIN past
      /\ past \in [DOMAIN past -> SUBSET DOMAIN commits]
  BY ThisAttempt DEF TypeOK, Branch
<1> QED
  BY <1>1 DEF Cut

\* Going back from the branch an attempt cut, and what git may make of it.
LEMMA AbandonKeeps ==
  ASSUME TypeOK, Branches, pc # "idle", NEW left, Abandon(left)
  PROVE  /\ DOMAIN past \ {This} \subseteq DOMAIN past' /\ DOMAIN past' \subseteq DOMAIN past
         /\ {Main, Work, Origin} \subseteq DOMAIN past'
         /\ past' \in [DOMAIN past' -> SUBSET DOMAIN commits]
         /\ \A b \in DOMAIN past' : past'[b] = past[b]
         /\ head' \in DOMAIN past'
         /\ balked \subseteq balked' /\ balked' \subseteq balked \cup {This}
         /\ \/ head' = Origin /\ This \notin DOMAIN past'
            \/ This \in balked'
            \/ Differ(head, Origin) # {}
<1>1. past \in [DOMAIN past -> SUBSET DOMAIN commits] /\ head \in DOMAIN past
      /\ {Main, Work} \subseteq DOMAIN past
  BY DEF TypeOK
<1>2. Origin \in DOMAIN past /\ Origin # This /\ This \notin {Main, Work}
  BY OriginStays, ThisAttempt
<1>3. PICK back \in BOOLEAN, gone \in BOOLEAN :
        /\ gone => back
        /\ head' = IF back THEN Origin ELSE head
        /\ past' = IF gone THEN Without(This) ELSE past
        /\ balked' = IF gone \/ Differ(head, Origin) \cap left # {}
                     THEN balked ELSE balked \cup {This}
  BY DEF Abandon
<1>4. CASE gone
  BY <1>1, <1>2, <1>3, <1>4 DEF Without
<1>5. CASE ~gone
  BY <1>1, <1>2, <1>3, <1>5
<1> QED
  BY <1>4, <1>5

\* Every step keeps the types.
LEMMA TypeStep ==
  ASSUME TypeOK, Branches, [Next]_vars
  PROVE  TypeOK'
<1> USE DEF policyVars, gitVars, runVars
<1>1. ASSUME NEW f \in Path, Edit(f) \/ Stage(f) \/ Discard(f) PROVE TypeOK'
  BY <1>1 DEF TypeOK, Edit, Stage, Discard
<1>2. CASE CommitByHand
  <2>1. staged \in SUBSET Path /\ 0 \in 0..MaxAttempts
    BY BoundsAssumption DEF TypeOK
  <2>2. CommitFiles(staged, 0)
    BY <1>2 DEF CommitByHand
  <2>3. /\ commits' \in Seq(Commit) /\ Len(commits') <= MaxCommits
        /\ DOMAIN past' = DOMAIN past
        /\ past' \in [DOMAIN past -> SUBSET DOMAIN commits']
    BY <2>1, <2>2, CommitAdded
  <2> QED
    BY <1>2, <2>2, <2>3 DEF TypeOK, CommitByHand, CommitFiles
<1>3. ASSUME NEW b \in DOMAIN past, Switch(b) PROVE TypeOK'
  BY <1>3 DEF TypeOK, Switch
<1>4. ASSUME NEW g \in Line, AddLine(g) PROVE TypeOK'
  <2>1. grants' \in Seq(Line) /\ Len(grants') <= MaxGrants
    BY <1>4, LineAdded
  <2> QED
    BY <1>4, <2>1, PathsAssumption DEF TypeOK, AddLine
<1>5. CASE Tick \/ LoseRecords \/ \E a \in AgentName : Produce(a)
  BY <1>5, BoundsAssumption DEF TypeOK, Tick, LoseRecords, Produce, ProducedBy
<1>6. ASSUME NEW p \in Proposal, Start(p) PROVE TypeOK'
  <2> DEFINE t == [proposal |-> p, origin |-> head, asked |-> clock,
       held |-> Len(grants), base |-> Len(commits), counted |-> Active, outcome |-> "none"]
  <2>1. Active \subseteq 1..MaxGrants /\ Len(grants) \in 0..MaxGrants
        /\ Len(commits) \in 0..MaxCommits
    BY BoundsAssumption DEF TypeOK, Active
  <2>2. t \in Tried
    BY <2>1 DEF TypeOK, Tried
  <2>3. tried' = Append(tried, t) /\ tried \in Seq(Tried)
    BY <1>6 DEF Start, TypeOK
  <2>4. Len(tried) + 1 <= MaxAttempts
    BY <1>6, <2>3, BoundsAssumption DEF Start, This
  <2> HIDE DEF t
  <2>5. tried' \in Seq(Tried) /\ Len(tried') <= MaxAttempts /\ tried' # <<>>
    BY <2>2, <2>3, <2>4, AppendProperties
  <2> QED
    BY <1>6, <2>5 DEF TypeOK, Start, Outcome, Unmerged
<1>7. CASE Isolate
  BY <1>7, CutIs DEF Branches, TypeOK, Isolate, Goto
<1>8. CASE NotIsolated
  <2>1. pc # "idle" /\ head = Origin /\ This \in Attempt
    BY <1>8, ThisAttempt DEF NotIsolated, Branches
  <2>2. CASE UNCHANGED <<past, head, balked>>
    BY <1>8, <2>2 DEF TypeOK, NotIsolated, Goto, Outcome, Unmerged
  <2>3. CASE past' = Cut /\ head' \in {Origin, This} /\ balked' = balked \cup {This}
    BY <1>8, <2>1, <2>3, CutIs DEF TypeOK, NotIsolated, Goto, Outcome, Unmerged
  <2> QED
    BY <1>8, <2>2, <2>3 DEF NotIsolated
<1>9. CASE Apply
  <2>1. P \in Proposal /\ Files(P) \subseteq Path
    BY <1>9, ThisAttempt, ProposalPaths DEF Apply
  <2> QED
    BY <1>9, <2>1 DEF TypeOK, Apply, Goto
<1>10. CASE RefuseToApply \/ NoChange
  <2>1. pc # "idle" /\ Abandon(dirty) /\ commits' = commits /\ This \in Attempt
    BY <1>10, ThisAttempt DEF RefuseToApply, NoChange
  <2> QED
    BY <1>10, <2>1, AbandonKeeps DEF TypeOK, RefuseToApply, NoChange, Goto, Outcome, Unmerged
<1>11. CASE ApplyFails
  <2>1. pc # "idle" /\ Abandon(dirty') /\ commits' = commits /\ This \in Attempt
    BY <1>11, ThisAttempt DEF ApplyFails
  <2>2. dirty' \subseteq Path /\ dirty \subseteq dirty'
    BY <1>11, ThisAttempt, ProposalPaths DEF ApplyFails, TypeOK
  <2> QED
    BY <1>11, <2>1, <2>2, AbandonKeeps DEF TypeOK, ApplyFails, Stop
<1>12. CASE MayNotMerge
  <2>1. pc # "idle" /\ Undo /\ commits' = commits
    BY <1>12 DEF MayNotMerge
  <2>2. PICK left : Abandon(left)
    BY <2>1 DEF Undo
  <2>3. dirty' \subseteq Path /\ staged' \subseteq dirty' /\ wrote' \subseteq dirty'
    <3>1. Permitted(P) \subseteq Path /\ dirty \subseteq Path /\ staged \subseteq dirty
          /\ wrote \subseteq dirty
      BY <2>1, ThisAttempt, ProposalPaths DEF TypeOK
    <3> QED
      BY <2>1, <3>1 DEF Undo
  <2>4. balked' \subseteq Attempt
    BY <2>1, <2>2, AbandonKeeps, ThisAttempt DEF TypeOK
  <2>5. pc' = "reverted" /\ UNCHANGED <<policyVars, tried, before>>
    BY <1>12 DEF MayNotMerge, Goto
  <2> QED
    BY <2>1, <2>2, <2>3, <2>4, <2>5, AbandonKeeps DEF TypeOK, Outcome, Unmerged
<1>13. CASE CommitChange
  <2>1. Index \in SUBSET Path /\ This \in 0..MaxAttempts
    BY <1>13, ThisAttempt, ProposalPaths DEF CommitChange, Index, TypeOK, Attempt
  <2>2. CommitFiles(Index, This)
    BY <1>13 DEF CommitChange
  <2>3. /\ commits' \in Seq(Commit) /\ Len(commits') <= MaxCommits
        /\ DOMAIN past' = DOMAIN past
        /\ past' \in [DOMAIN past -> SUBSET DOMAIN commits']
    BY <2>1, <2>2, CommitAdded
  <2> QED
    BY <1>13, <2>2, <2>3 DEF TypeOK, CommitChange, CommitFiles, Goto
<1>14. CASE GoBack
  <2>1. Origin \in DOMAIN past
    BY <1>14, OriginStays DEF GoBack
  <2> QED
    BY <1>14, <2>1 DEF TypeOK, GoBack, Goto
<1>15. CASE Merge
  <2>1. past \in [DOMAIN past -> SUBSET DOMAIN commits] /\ This \in DOMAIN past
    BY <1>15 DEF TypeOK, Merge, Branches
  <2>2. past' = [past EXCEPT ![head] = @ \cup past[This]] /\ UNCHANGED head
    BY <1>15 DEF Merge
  <2>3. DOMAIN past' = DOMAIN past /\ past' \in [DOMAIN past -> SUBSET DOMAIN commits]
    BY <2>1, <2>2
  <2> QED
    BY <1>15, <2>2, <2>3 DEF TypeOK, Merge, Goto
<1>20. CASE DeleteMerged
  <2>1. pc # "idle" /\ head = Origin /\ past' = Without(This) /\ UNCHANGED head
    BY <1>20 DEF DeleteMerged, Branches
  <2>2. Origin \in DOMAIN past /\ Origin # This /\ This \notin {Main, Work}
    BY <2>1, OriginStays, ThisAttempt
  <2> QED
    BY <1>20, <2>1, <2>2 DEF TypeOK, DeleteMerged, Without, Goto, Outcome, Unmerged
<1>21. CASE MayMerge
  BY <1>21 DEF TypeOK, MayMerge, Goto
<1>16. CASE Record
  <2>1. This \in DOMAIN tried /\ Current \in Tried /\ pc \in Outcome
    BY <1>16, ThisAttempt DEF Record, Outcome, Unmerged
  <2>2. [Current EXCEPT !.outcome = pc] \in Tried
    BY <2>1 DEF Tried
  <2>3. tried' = [tried EXCEPT ![This] = [Current EXCEPT !.outcome = pc]]
    BY <1>16 DEF Record, Current
  <2>4. tried' \in Seq(Tried) /\ Len(tried') = Len(tried)
    BY <2>1, <2>2, <2>3, ExceptSeq DEF TypeOK
  <2> QED
    BY <1>16, <2>4 DEF TypeOK, Record, Stop
<1>17. CASE Die
  BY <1>17 DEF TypeOK, Die, Stop
<1>18. CASE UNCHANGED vars
  BY <1>18 DEF TypeOK, vars
<1>19. ASSUME NEW g \in Asked(Len(grants)), RecordGrant(g) \/ WriteAround(g)
       PROVE  g \in Line /\ AddLine(g)
  <2>1. Len(grants) \in Nat
    BY DEF TypeOK
  <2> QED
    BY <1>19, <2>1, AskedLine DEF RecordGrant, WriteAround
<1> QED
  BY <1>1, <1>2, <1>3, <1>4, <1>5, <1>6, <1>7, <1>8, <1>9, <1>10, <1>11, <1>12,
     <1>13, <1>14, <1>15, <1>16, <1>17, <1>18, <1>19, <1>20, <1>21
     DEF Next, People, Runner

-----------------------------------------------------------------------------
(* The branches there are                                                  *)

\* The attempt a start adds, and the ones before it.
LEMMA StartAdds ==
  ASSUME TypeOK, NEW p \in Proposal, Start(p)
  PROVE  /\ Len(tried') = Len(tried) + 1 /\ Len(tried) \in Nat
         /\ DOMAIN tried = 1..Len(tried) /\ DOMAIN tried' = 1..Len(tried) + 1
         /\ \A n \in DOMAIN tried : tried'[n] = tried[n]
         /\ LET t == tried'[Len(tried) + 1]
            IN  /\ t.proposal = p /\ t.origin = head /\ t.asked = clock
                /\ t.held = Len(grants) /\ t.base = Len(commits)
                /\ t.counted = Active /\ t.outcome = "none"
         /\ pc = "idle"
         /\ pc' \in {"gated", "refused"}
         /\ UNCHANGED <<policyVars, gitVars, before, wrote, balked>>
<1> DEFINE t == [proposal |-> p, origin |-> head, asked |-> clock,
       held |-> Len(grants), base |-> Len(commits), counted |-> Active, outcome |-> "none"]
<1>1. tried \in Seq(Tried) /\ tried' = Append(tried, t)
  BY DEF TypeOK, Start
<1> HIDE DEF t
<1>2. tried' = Append(tried, t) /\ Len(tried) \in Nat /\ DOMAIN tried = 1..Len(tried)
      /\ Len(tried') = Len(tried) + 1 /\ DOMAIN tried' = 1..Len(tried) + 1
      /\ \A n \in 1..Len(tried) : tried'[n] = tried[n]
      /\ tried'[Len(tried) + 1] = t
  BY <1>1
<1> QED
  BY <1>2 DEF Start, t

\* The line a run ends with says no more of it than its outcome.
LEMMA RecordSays ==
  ASSUME TypeOK, Record
  PROVE  /\ Len(tried') = Len(tried) /\ DOMAIN tried' = DOMAIN tried
         /\ This \in DOMAIN tried
         /\ \A n \in DOMAIN tried :
              /\ tried'[n] = [tried[n] EXCEPT !.outcome = IF n = This THEN pc ELSE @]
              /\ tried'[n].origin = tried[n].origin
              /\ tried'[n].outcome = IF n = This THEN pc ELSE tried[n].outcome
         /\ pc \in Outcome /\ pc' = "idle" /\ wrote' = {}
         /\ UNCHANGED <<policyVars, gitVars, balked>>
<1>1. pc # "idle" /\ pc \in Outcome
  BY DEF Record, Outcome, Unmerged
<1>2. tried \in Seq(Tried) /\ This \in DOMAIN tried
  BY <1>1, ThisAttempt DEF TypeOK
<1>3. tried' = [tried EXCEPT ![This].outcome = pc]
  BY DEF Record
<1>4. DOMAIN tried' = DOMAIN tried /\ Len(tried') = Len(tried)
  BY <1>2, <1>3
<1>5. \A n \in DOMAIN tried : tried[n] \in Tried
  BY <1>2
<1>6. \A n \in DOMAIN tried :
        tried'[n] = [tried[n] EXCEPT !.outcome = IF n = This THEN pc ELSE @]
  BY <1>2, <1>3, <1>5 DEF Tried
<1>7. \A n \in DOMAIN tried :
        /\ tried'[n].origin = tried[n].origin
        /\ tried'[n].outcome = IF n = This THEN pc ELSE tried[n].outcome
  BY <1>5, <1>6 DEF Tried
<1> QED
  BY <1>1, <1>2, <1>4, <1>6, <1>7 DEF Record, Stop

LEMMA BranchesStep ==
  ASSUME TypeOK, Branches, [Next]_vars
  PROVE  Branches'
<1> USE DEF policyVars, gitVars, runVars
<1>1. CASE /\ UNCHANGED <<tried, pc>> /\ DOMAIN past' = DOMAIN past
           /\ pc # "idle" => head' = head
  BY <1>1 DEF Branches, This, Origin, Current
<1>2. CASE CommitByHand
  <2>1. staged \in SUBSET Path /\ 0 \in 0..MaxAttempts /\ CommitFiles(staged, 0)
    BY <1>2, BoundsAssumption DEF TypeOK, CommitByHand
  <2> QED
    BY <1>1, <1>2, <2>1, CommitAdded DEF CommitByHand, CommitFiles
<1>3. ASSUME NEW p \in Proposal, Start(p) PROVE Branches'
  <2>1. head \in DOMAIN past /\ DOMAIN past \subseteq {Main, Work} \cup 1..Len(tried)
    BY DEF TypeOK, Branches
  <2>2. This = Len(tried) /\ This' = Len(tried')
    BY DEF This
  <2>3. /\ Len(tried') = Len(tried) + 1 /\ Len(tried) \in Nat
        /\ DOMAIN tried = 1..Len(tried) /\ DOMAIN tried' = 1..Len(tried) + 1
        /\ \A n \in DOMAIN tried : tried'[n] = tried[n]
        /\ tried'[Len(tried) + 1].origin = head
        /\ pc' \in {"gated", "refused"} /\ UNCHANGED <<past, head>>
    BY <1>3, StartAdds
  <2>4. \A n \in DOMAIN tried' :
          tried'[n].origin \in DOMAIN past \cap ({Main, Work} \cup 1..(n - 1))
    <3>1. \A n \in DOMAIN tried :
            tried'[n].origin \in DOMAIN past \cap ({Main, Work} \cup 1..(n - 1))
      BY <2>3 DEF Branches
    <3>2. head \in DOMAIN past \cap ({Main, Work} \cup 1..(Len(tried) + 1 - 1))
      BY <2>1, <2>3
    <3>3. \A n \in DOMAIN tried' : n \in DOMAIN tried \/ n = Len(tried) + 1
      BY <2>3
    <3>4. tried'[Len(tried) + 1].origin
            \in DOMAIN past \cap ({Main, Work} \cup 1..(Len(tried) + 1 - 1))
      BY <2>3, <3>2
    <3> QED
      BY <3>1, <3>3, <3>4
  <2>5. This' \notin DOMAIN past /\ Origin' = head
    <3>1. Len(tried) + 1 \in Attempt
      BY <1>3, <2>3, BoundsAssumption DEF Start, This, Attempt
    <3> QED
      BY <2>1, <2>2, <2>3, <3>1, BranchAssumption DEF Origin, Current
  <2>6. DOMAIN past \subseteq {Main, Work} \cup 1..Len(tried')
    BY <2>1, <2>3
  <2> QED
    BY <2>3, <2>4, <2>5, <2>6 DEF Branches
<1>4. CASE Isolate
  <2>1. DOMAIN past' = DOMAIN past \cup {This} /\ UNCHANGED tried /\ pc' = "cut"
    BY <1>4, CutIs DEF Isolate, Goto, Branches
  <2>2. This \in 1..Len(tried)
    BY <1>4, ThisAttempt DEF Isolate, This, TypeOK
  <2> QED
    BY <2>1, <2>2 DEF Branches, This
<1>5. CASE Apply \/ MayMerge \/ GoBack \/ Die
  BY <1>5 DEF Branches, Apply, MayMerge, GoBack, Die, Goto, Stop, This, Origin, Current
<1>15. CASE NotIsolated
  <2>1. DOMAIN past \subseteq DOMAIN past' /\ DOMAIN past' \subseteq DOMAIN past \cup {This}
    <3>1. CASE UNCHANGED past
      BY <3>1
    <3>2. CASE past' = Cut
      BY <1>15, <3>2, CutIs DEF NotIsolated, Branches
    <3> QED
      BY <1>15, <3>1, <3>2 DEF NotIsolated
  <2>2. This \in 1..Len(tried) /\ tried' = tried /\ pc' = "refused"
    BY <1>15, ThisAttempt DEF NotIsolated, Goto, This, TypeOK
  <2> QED
    BY <2>1, <2>2 DEF Branches
<1>6. CASE RefuseToApply \/ NoChange \/ ApplyFails \/ MayNotMerge
  <2>1. PICK left : Abandon(left) /\ pc # "idle" /\ tried' = tried
                    /\ pc' \in Unmerged \cup {"idle"}
    BY <1>6 DEF RefuseToApply, NoChange, ApplyFails, MayNotMerge, Undo, Goto, Stop, Unmerged
  <2>2. DOMAIN past' \subseteq DOMAIN past /\ DOMAIN past \ {This} \subseteq DOMAIN past'
    BY <2>1, AbandonKeeps
  <2>3. \A n \in DOMAIN tried : tried[n].origin # This
    BY <2>1, NoneBeganHere
  <2> QED
    BY <2>1, <2>2, <2>3 DEF Branches, Unmerged
<1>7. CASE CommitChange
  <2>1. Index \in SUBSET Path /\ This \in 0..MaxAttempts /\ CommitFiles(Index, This)
    BY <1>7, ThisAttempt, ProposalPaths DEF CommitChange, Index, TypeOK, Attempt
  <2>2. DOMAIN past' = DOMAIN past
    BY <2>1, CommitAdded
  <2> QED
    BY <1>7, <2>2 DEF Branches, CommitChange, Goto, This
<1>16. CASE Merge
  BY <1>16 DEF Branches, Merge, Goto, This, Origin, Current
<1>8. CASE DeleteMerged
  <2>1. DOMAIN past' = DOMAIN past \ {This} /\ tried' = tried /\ pc' = "merged"
    BY <1>8 DEF DeleteMerged, Without, Goto
  <2>2. \A n \in DOMAIN tried : tried[n].origin # This
    BY <1>8, NoneBeganHere DEF DeleteMerged
  <2> QED
    BY <2>1, <2>2 DEF Branches
<1>9. CASE Record
  BY <1>9, RecordSays DEF Branches
<1>10. ASSUME NEW f \in Path, Edit(f) \/ Stage(f) \/ Discard(f) PROVE Branches'
  BY <1>1, <1>10 DEF Edit, Stage, Discard
<1>11. ASSUME NEW g, AddLine(g) PROVE Branches'
  BY <1>1, <1>11 DEF AddLine
<1>12. CASE Tick \/ LoseRecords \/ \E a \in AgentName : Produce(a)
  BY <1>1, <1>12 DEF Tick, LoseRecords, Produce
<1>13. ASSUME NEW b \in DOMAIN past, Switch(b) PROVE Branches'
  BY <1>1, <1>13 DEF Switch
<1>14. CASE UNCHANGED vars
  BY <1>1, <1>14 DEF vars
<1> QED
  BY <1>2, <1>3, <1>4, <1>5, <1>6, <1>7, <1>8, <1>9, <1>10, <1>11, <1>12, <1>13, <1>14,
     <1>15, <1>16 DEF Next, People, Runner, RecordGrant, WriteAround

-----------------------------------------------------------------------------
(* What was granted                                                        *)

InProgress ==
  {"gated", "cut", "applied", "passed", "committed", "back", "joined", "merged"}

\* The operations on the register name a field a grant may name.
Confined(p) ==
  /\ Permitted(p) \subseteq Eligible
  /\ \A op \in Content[p].ops : op.file = Sources => op.field \in GrantableField

\* An attempt looked at lines and commits there were.
Held ==
  \A n \in DOMAIN tried :
    tried[n].held <= Len(grants) /\ tried[n].base <= Len(commits)

Gated ==
  /\ MergedWasGranted
  /\ pc \in InProgress => Covered(Current) /\ Confined(P)

\* Lines are only added.
LEMMA LinesAreKept ==
  ASSUME TypeOK, [Next]_vars
  PROVE  /\ Len(grants) \in Nat /\ Len(grants') \in Nat /\ Len(grants) <= Len(grants')
         /\ \A i \in 1..Len(grants) : grants'[i] = grants[i]
<1> USE DEF policyVars, gitVars, runVars
<1>1. Len(grants) \in Nat
  BY DEF TypeOK
<1>2. CASE UNCHANGED grants
  BY <1>1, <1>2
<1>3. ASSUME NEW g \in Asked(Len(grants)), AddLine(g)
      PROVE  /\ Len(grants') = Len(grants) + 1
             /\ \A i \in 1..Len(grants) : grants'[i] = grants[i]
  BY <1>1, <1>3, AskedLine, LineAdded
<1>4. UNCHANGED grants \/ \E g \in Asked(Len(grants)) : AddLine(g)
  BY DEF Next, People, Runner, vars, Edit, Stage, Discard, CommitByHand, Switch,
     RecordGrant, WriteAround, Tick, LoseRecords, Produce, Start, Isolate,
     NotIsolated, Apply, RefuseToApply, ApplyFails, MayMerge, MayNotMerge,
     CommitChange, NoChange, GoBack, Merge, DeleteMerged, Record, Die, Goto
<1> QED
  BY <1>1, <1>2, <1>3, <1>4

\* So are commits.
LEMMA CommitsAreKept ==
  ASSUME TypeOK, [Next]_vars
  PROVE  /\ Len(commits) \in Nat /\ Len(commits') \in Nat /\ Len(commits) <= Len(commits')
         /\ DOMAIN commits = 1..Len(commits) /\ DOMAIN commits' = 1..Len(commits')
         /\ \A c \in DOMAIN commits : commits'[c] = commits[c]
<1> USE DEF policyVars, gitVars, runVars
<1>1. Len(commits) \in Nat /\ DOMAIN commits = 1..Len(commits)
  BY DEF TypeOK
<1>2. CASE UNCHANGED commits
  BY <1>1, <1>2
<1>3. CASE CommitByHand
  <2>1. staged \in SUBSET Path /\ 0 \in 0..MaxAttempts /\ CommitFiles(staged, 0)
    BY <1>3, BoundsAssumption DEF TypeOK, CommitByHand
  <2>2. /\ Len(commits') = Len(commits) + 1 /\ DOMAIN commits' = 1..Len(commits) + 1
        /\ \A c \in DOMAIN commits : commits'[c] = commits[c]
    BY <2>1, CommitAdded
  <2> QED
    BY <1>1, <2>2
<1>4. CASE CommitChange
  <2>1. Index \in SUBSET Path /\ This \in 0..MaxAttempts /\ CommitFiles(Index, This)
    BY <1>4, ThisAttempt, ProposalPaths DEF CommitChange, Index, TypeOK, Attempt
  <2>2. /\ Len(commits') = Len(commits) + 1 /\ DOMAIN commits' = 1..Len(commits) + 1
        /\ \A c \in DOMAIN commits : commits'[c] = commits[c]
    BY <2>1, CommitAdded
  <2> QED
    BY <1>1, <2>2
<1>5. UNCHANGED commits \/ CommitByHand \/ CommitChange
  BY DEF Next, People, Runner, vars, Edit, Stage, Discard, Switch, AddLine,
     RecordGrant, WriteAround, Tick, LoseRecords, Produce, Start, Isolate,
     NotIsolated, Apply, RefuseToApply, ApplyFails, MayMerge, MayNotMerge,
     NoChange, GoBack, Merge, DeleteMerged, Record, Die, Goto
<1> QED
  BY <1>2, <1>3, <1>4, <1>5

\* Past the gates, a proposal is covered, and confined to what may be granted.
LEMMA PastTheGates ==
  ASSUME TypeOK, NEW p \in Proposal, AutonomyGates(p, InForce), NEW t,
         t.proposal = p, t.asked = clock, t.held = Len(grants), t.counted = Active
  PROVE  Covered(t) /\ Confined(p)
<1>1. /\ p \in store /\ Permitted(p) \subseteq InForce.paths
      /\ Categorise(p) \in InForce.categories /\ FieldsPermitted(p, InForce)
  BY DEF AutonomyGates
<1>2. \A i \in Active : /\ grants[i].action = "enable" /\ Valid(grants[i], KnownAgents)
                        /\ i \in 1..Len(grants) /\ i \notin Revoked
  BY DEF Active, TypeOK
<1>3. \A i \in Active : /\ clock < grants[i].until
                        /\ grants[i].paths \subseteq Eligible
                        /\ grants[i].categories \subseteq Automatable
                        /\ grants[i].fields \subseteq GrantableField
                        /\ grants[i].by # Producer[p]
  BY <1>1, <1>2 DEF Valid, KnownAgents
<1>4. \A i \in Active : \A j \in 1..Len(grants) :
        grants[j].action = "revoke" => grants[j].revokes # i
  BY <1>2 DEF Revoked, TypeOK
<1>5. \A i \in Active : i <= t.held /\ Standing(t, i)
  BY <1>2, <1>3, <1>4 DEF Standing
<1>6. Covered(t)
  <2>1. PICK i \in Active : Categorise(p) \in grants[i].categories
    BY <1>1 DEF InForce
  <2>2. \A f \in Permitted(p) : \E j \in Active : f \in grants[j].paths
    BY <1>1 DEF InForce
  <2> QED
    BY <1>5, <2>1, <2>2 DEF Covered
<1>7. Permitted(p) \subseteq Eligible
  BY <1>1, <1>3 DEF InForce
<1>8. \A op \in Content[p].ops : op.file = Sources => op.field \in GrantableField
  BY <1>1, <1>3 DEF FieldsPermitted, InForce
<1> QED
  BY <1>6, <1>7, <1>8 DEF Confined

LEMMA HeldStep ==
  ASSUME TypeOK, Held, [Next]_vars
  PROVE  Held'
<1> USE DEF policyVars, gitVars, runVars
<1>1. Len(grants) <= Len(grants') /\ Len(commits) <= Len(commits')
      /\ {Len(grants), Len(grants'), Len(commits), Len(commits')} \subseteq Nat
  BY LinesAreKept, CommitsAreKept
<1>2. \A n \in DOMAIN tried : tried[n] \in Tried
  BY DEF TypeOK
<1>3. CASE UNCHANGED tried
  BY <1>1, <1>2, <1>3, BoundsAssumption DEF Held, Tried
<1>4. ASSUME NEW p \in Proposal, Start(p) PROVE Held'
  <2>1. \A n \in DOMAIN tried' : n \in DOMAIN tried \/ n = Len(tried) + 1
    BY <1>4, StartAdds
  <2>2. tried'[Len(tried) + 1].held = Len(grants)
        /\ tried'[Len(tried) + 1].base = Len(commits)
    BY <1>4, StartAdds
  <2>3. UNCHANGED <<grants, commits>> /\ \A n \in DOMAIN tried : tried'[n] = tried[n]
    BY <1>4, StartAdds
  <2> QED
    BY <1>1, <2>1, <2>2, <2>3 DEF Held
<1>5. CASE Record
  BY <1>1, <1>2, <1>5, RecordSays DEF Held, Tried
<1>6. UNCHANGED tried \/ Record \/ \E p \in Proposal : Start(p)
  BY DEF Next, People, Runner, vars, Edit, Stage, Discard, CommitByHand, Switch, AddLine,
     RecordGrant, WriteAround, Tick, LoseRecords, Produce, Isolate,
     NotIsolated, Apply, RefuseToApply, ApplyFails, MayMerge, MayNotMerge,
     CommitChange, NoChange, GoBack, Merge, DeleteMerged, Die, Goto
<1> QED
  BY <1>3, <1>4, <1>5, <1>6

\* Covered, by the ledger it is asked of.
CoveredUnder(lines, t) ==
  LET standing(i) ==
        /\ i <= t.held
        /\ lines[i].action = "enable"
        /\ t.asked < lines[i].until
        /\ \A j \in 1..t.held : lines[j].action = "revoke" => lines[j].revokes # i
        /\ lines[i].paths \subseteq Eligible
        /\ lines[i].categories \subseteq Automatable
        /\ lines[i].by # Producer[t.proposal]
  IN  /\ \E i \in t.counted : standing(i) /\ Categorise(t.proposal) \in lines[i].categories
      /\ \A f \in Permitted(t.proposal) :
           \E i \in t.counted : standing(i) /\ f \in lines[i].paths

LEMMA CoveredIs == ASSUME NEW t PROVE Covered(t) <=> CoveredUnder(grants, t)
  BY DEF Covered, CoveredUnder, Standing

\* No line written later takes from an attempt what covers it.
LEMMA CoveredStays ==
  ASSUME TypeOK, [Next]_vars, NEW t \in Tried, t.held <= Len(grants), Covered(t)
  PROVE  CoveredUnder(grants', t)
<1>1. \A i \in 1..Len(grants) : grants'[i] = grants[i]
  BY LinesAreKept
<1>2. /\ t.held \in Nat /\ Len(grants) \in Nat
      /\ \A i \in t.counted : i \in Nat /\ 1 <= i
  <2>1. MaxGrants \in Nat
    BY BoundsAssumption
  <2>2. t.held \in 0..MaxGrants /\ t.counted \subseteq 1..MaxGrants
    BY DEF Tried
  <2>3. Len(grants) \in Nat
    BY DEF TypeOK
  <2> QED
    BY <2>1, <2>2, <2>3
<1>3. \A i \in t.counted : i <= t.held => grants'[i] = grants[i]
  <2> SUFFICES ASSUME NEW i \in t.counted, i <= t.held PROVE grants'[i] = grants[i]
    OBVIOUS
  <2>1. i \in 1..Len(grants)
    BY <1>2
  <2> QED
    BY <1>1, <2>1
<1>4. \A j \in 1..t.held : grants'[j] = grants[j]
  BY <1>1, <1>2
<1> QED
  BY <1>3, <1>4, CoveredIs DEF CoveredUnder

LEMMA GatedStep ==
  ASSUME TypeOK, Branches, Held, Gated, [Next]_vars
  PROVE  Gated'
<1> USE DEF policyVars, gitVars, runVars
<1>1. \A n \in DOMAIN tried : tried[n] \in Tried /\ tried[n].held <= Len(grants)
  BY DEF TypeOK, Held
<1>2. \A n \in DOMAIN tried :
        tried[n].outcome = "merged" => CoveredUnder(grants', tried[n])
  BY <1>1, CoveredStays DEF Gated, MergedWasGranted
<1>3. pc \in InProgress => /\ This \in DOMAIN tried /\ CoveredUnder(grants', Current)
                          /\ Confined(P)
  <2>1. pc \in InProgress => /\ This \in DOMAIN tried /\ Current \in Tried
                            /\ Current.held <= Len(grants)
    BY <1>1, ThisAttempt DEF InProgress, Current
  <2> QED
    BY <2>1, CoveredStays DEF Gated
<1>4. MergedWasGranted' <=> \A n \in DOMAIN tried' :
        tried'[n].outcome = "merged" => CoveredUnder(grants', tried'[n])
  BY CoveredIs DEF MergedWasGranted, Covered, Standing, CoveredUnder
<1>5. (Covered(Current) /\ Confined(P))'
         <=> CoveredUnder(grants', Current') /\ Confined(P')
  BY DEF Covered, Standing, CoveredUnder, Confined
<1>6. CASE UNCHANGED tried /\ (pc' \in InProgress => pc \in InProgress)
  <2>1. MergedWasGranted'
    BY <1>2, <1>4, <1>6
  <2>2. pc' \in InProgress => CoveredUnder(grants', Current') /\ Confined(P')
    BY <1>3, <1>6 DEF P, Current, This
  <2> QED
    BY <1>5, <2>1, <2>2 DEF Gated
<1>7. ASSUME NEW p \in Proposal, Start(p) PROVE Gated'
  <2>1. /\ \A n \in DOMAIN tried' : n \in DOMAIN tried \/ n = Len(tried) + 1
        /\ tried'[Len(tried) + 1].outcome = "none"
        /\ \A n \in DOMAIN tried : tried'[n] = tried[n]
    BY <1>7, StartAdds
  <2>2. MergedWasGranted'
    BY <1>2, <1>4, <2>1
  <2>3. ASSUME pc' \in InProgress
        PROVE  CoveredUnder(grants', Current') /\ Confined(P')
    <3>1. AutonomyGates(p, InForce)
      BY <1>7, <2>3 DEF Start, InProgress
    <3>2. /\ Current'.proposal = p /\ Current'.asked = clock
          /\ Current'.held = Len(grants) /\ Current'.counted = Active
          /\ grants' = grants
      BY <1>7, StartAdds DEF Current, This
    <3> QED
      BY <3>1, <3>2, PastTheGates, CoveredIs DEF P
  <2> QED
    BY <1>5, <2>2, <2>3 DEF Gated
<1>8. CASE Record
  <2>1. \A n \in DOMAIN tried :
          LET t == tried[n] u == tried'[n]
          IN  /\ u.proposal = t.proposal /\ u.asked = t.asked /\ u.held = t.held
              /\ u.counted = t.counted
              /\ u.outcome = IF n = This THEN pc ELSE t.outcome
    BY <1>1, <1>8, RecordSays DEF Tried
  <2>2. \A n \in DOMAIN tried :
          CoveredUnder(grants', tried[n]) => CoveredUnder(grants', tried'[n])
    BY <2>1 DEF CoveredUnder
  <2>3. pc = "merged" => CoveredUnder(grants', tried[This])
    BY <1>3 DEF InProgress, Current
  <2>4. MergedWasGranted'
    BY <1>2, <1>4, <1>8, <2>1, <2>2, <2>3, RecordSays
  <2> QED
    BY <1>8, <2>4, RecordSays DEF Gated, InProgress
<1> QED
  BY <1>6, <1>7, <1>8 DEF Next, People, Runner, vars, Edit, Stage, Discard,
     CommitByHand, Switch, AddLine, RecordGrant, WriteAround, Tick, LoseRecords, Produce,
     Isolate, NotIsolated, Apply, RefuseToApply, ApplyFails, MayMerge, MayNotMerge,
     CommitChange, NoChange, GoBack, Merge, DeleteMerged, Die, Goto, Stop, InProgress

-----------------------------------------------------------------------------
(* What is in the tree                                                     *)

\* What the runner wrote is in documents, is gone where it says it changed
\* nothing, but for new files that are staged, and is none of what a person had
\* been working on.
Written ==
  /\ LegalRecordUntouched
  /\ pc \in {"idle", "gated", "cut"} => wrote = {}
  /\ pc \in Unmerged => wrote \subseteq Created \cap staged
  /\ pc \in {"applied", "passed"} => wrote \subseteq Files(P)
  /\ pc \in {"cut", "applied", "passed"} => before \cap Permitted(P) = {}

\* Where there was no file is decided by the branch the attempt began on.
LEMMA CreatedStays ==
  ASSUME UNCHANGED <<commits, tried>>, past'[Origin] = past[Origin]
  PROVE  Created' = Created
  BY DEF Created, Origin, Current, This

LEMMA WrittenStep ==
  ASSUME TypeOK, Branches, Gated, Written, [Next]_vars
  PROVE  Written'
<1> USE DEF policyVars, gitVars, runVars
<1>0. ASSUME UNCHANGED <<commits, past, tried>> PROVE Created' = Created
  BY <1>0 DEF Created, Origin, Current, This
<1>1. ASSUME NEW f \in Path, Edit(f) \/ Stage(f) \/ Discard(f) PROVE Written'
  BY <1>0, <1>1 DEF Written, LegalRecordUntouched, Edit, Stage, Discard, P, Current, This
<1>2. CASE CommitByHand
  BY <1>2 DEF Written, LegalRecordUntouched, CommitByHand, P, Current, This
<1>3. CASE UNCHANGED <<commits, past, staged, pc, before, wrote, tried>>
  BY <1>0, <1>3 DEF Written, LegalRecordUntouched, P, Current, This
<1>4. ASSUME NEW p \in Proposal, Start(p) PROVE Written'
  <2>1. pc = "idle" /\ pc' \in {"gated", "refused"} /\ UNCHANGED wrote
    BY <1>4, StartAdds
  <2> QED
    BY <2>1 DEF Written, LegalRecordUntouched
<1>5. CASE Isolate
  BY <1>5 DEF Written, LegalRecordUntouched, Isolate, Goto, P, Current, This, Unmerged
<1>6. CASE NotIsolated \/ RefuseToApply
  BY <1>6 DEF Written, LegalRecordUntouched, NotIsolated, RefuseToApply, Goto, Unmerged
<1>7. CASE Apply
  <2>1. P \in Proposal /\ Confined(P) /\ FieldsOf(P) \subseteq {NoField}
    BY <1>7, ThisAttempt DEF Apply, Gated, InProgress, Applicable
  <2>2. \A op \in Content[P].ops : op.file \in Eligible /\ op.file # Sources
    BY <2>1, ProposalPaths, PathsAssumption DEF Confined, FieldsOf, Field
  <2>3. Files(P) \subseteq Docs
    BY <2>2 DEF Files, Eligible
  <2>4. wrote' \subseteq Files(P) /\ pc' = "applied" /\ UNCHANGED <<before, tried>>
    BY <1>7 DEF Apply, Goto
  <2> QED
    BY <1>7, <2>3, <2>4 DEF Written, LegalRecordUntouched, Apply, P, Current, This, Unmerged
<1>8. CASE MayMerge
  BY <1>8 DEF Written, LegalRecordUntouched, MayMerge, Goto, P, Current, This, Unmerged
<1>9. CASE MayNotMerge
  <2>1. wrote \subseteq Permitted(P)
    BY <1>9, ThisAttempt, ProposalPaths DEF MayNotMerge, Written
  <2>2. PICK left : Abandon(left) /\ pc # "idle"
    BY <1>9 DEF MayNotMerge, Undo
  <2>3. past'[Origin] = past[Origin]
    BY <2>2, AbandonKeeps
  <2>4. Created' = Created
    BY <1>9, <2>3, CreatedStays DEF MayNotMerge, Goto
  <2>5. wrote' \subseteq wrote \cap Created \cap staged'
    BY <1>9, <2>1 DEF MayNotMerge, Undo
  <2>6. pc' = "reverted"
    BY <1>9 DEF MayNotMerge, Goto
  <2> QED
    BY <2>4, <2>5, <2>6 DEF Written, LegalRecordUntouched
<1>10. CASE CommitChange
  BY <1>10 DEF Written, LegalRecordUntouched, CommitChange, Goto, Unmerged
<1>11. CASE NoChange
  <2>1. wrote \subseteq Files(P) \cap dirty
    BY <1>11 DEF NoChange, Written, TypeOK
  <2> QED
    BY <1>11, <2>1 DEF Written, LegalRecordUntouched, NoChange, Index, Goto, Unmerged
<1>12. CASE GoBack \/ Merge \/ DeleteMerged
  BY <1>12 DEF Written, LegalRecordUntouched, GoBack, Merge, DeleteMerged, Goto, Unmerged
<1>13. CASE Record \/ ApplyFails \/ Die
  BY <1>13 DEF Written, LegalRecordUntouched, Record, ApplyFails, Die, Stop
<1> QED
  BY <1>1, <1>2, <1>3, <1>4, <1>5, <1>6, <1>7, <1>8, <1>9, <1>10, <1>11, <1>12, <1>13
     DEF Next, People, Runner, vars, Switch, AddLine, RecordGrant, WriteAround, Tick,
     LoseRecords, Produce

\* A line of the ledger written during a run shows, or was committed since.
LedgerShows ==
  pc \in {"gated", "cut", "applied"} =>
    \/ Len(grants) = Current.held
    \/ GrantLedger \in dirty
    \/ GrantLedger \in before /\ pc # "gated"
    \/ \E c \in DOMAIN commits : /\ c > Current.base
                                 /\ commits[c].by = 0
                                 /\ GrantLedger \in commits[c].files

LEMMA LedgerShowsStep ==
  ASSUME TypeOK, Held, LedgerShows, [Next]_vars
  PROVE  LedgerShows'
<1> USE DEF policyVars, gitVars, runVars
<1>1. \A c \in DOMAIN commits : c \in DOMAIN commits' /\ commits'[c] = commits[c]
  BY CommitsAreKept
<1>2. CASE /\ UNCHANGED <<grants, tried>> /\ dirty \cap {GrantLedger} \subseteq dirty'
           /\ before \subseteq before'
           /\ pc' \in {"gated", "cut", "applied"} =>
                pc \in {"gated", "cut", "applied"} /\ (pc' = "gated" => pc = "gated")
  BY <1>1, <1>2 DEF LedgerShows, Current, This
<1>3. ASSUME NEW g, AddLine(g) PROVE LedgerShows'
  BY <1>3 DEF AddLine, LedgerShows
<1>4. CASE CommitByHand
  <2>1. staged \in SUBSET Path /\ 0 \in 0..MaxAttempts /\ CommitFiles(staged, 0)
    BY <1>4, BoundsAssumption DEF TypeOK, CommitByHand
  <2>2. /\ Len(commits) + 1 \in DOMAIN commits'
        /\ commits'[Len(commits) + 1].files = staged
        /\ commits'[Len(commits) + 1].by = 0
    <3>1. /\ DOMAIN commits' = 1..Len(commits) + 1
          /\ commits'[Len(commits) + 1] = [files |-> staged, by |-> 0, on |-> head]
      BY <2>1, CommitAdded
    <3>2. Len(commits) \in Nat
      BY DEF TypeOK
    <3> QED
      BY <3>1, <3>2
  <2>3. pc # "idle" => Current.base \in Nat /\ Current.base < Len(commits) + 1
    <3>1. SUFFICES ASSUME pc # "idle"
                   PROVE  Current.base \in Nat /\ Current.base < Len(commits) + 1
      OBVIOUS
    <3>2. This \in DOMAIN tried /\ Current \in Tried
      BY <3>1, ThisAttempt
    <3>3. Current.base \in Nat
      BY <3>2, BoundsAssumption DEF Tried
    <3>4. Current.base <= Len(commits)
      BY <3>2 DEF Held, Current
    <3>5. Len(commits) \in Nat
      BY DEF TypeOK
    <3> QED
      BY <3>3, <3>4, <3>5
  <2>4. CASE GrantLedger \in staged
    BY <1>4, <2>2, <2>3, <2>4 DEF LedgerShows, CommitByHand, Current, This
  <2>5. CASE GrantLedger \notin staged
    BY <1>2, <1>4, <2>1, <2>5 DEF CommitByHand, CommitFiles
  <2> QED
    BY <2>4, <2>5
<1>5. ASSUME NEW p \in Proposal, Start(p) PROVE LedgerShows'
  <2>1. Current'.held = Len(grants) /\ grants' = grants
    BY <1>5, StartAdds DEF Current, This
  <2> QED
    BY <2>1 DEF LedgerShows
<1>6. CASE Isolate
  BY <1>1, <1>6 DEF LedgerShows, Isolate, Goto, Current, This
<1>7. ASSUME NEW f \in Path, Edit(f) \/ Stage(f) \/ Discard(f) PROVE LedgerShows'
  BY <1>2, <1>7 DEF Edit, Stage, Discard
<1>8. CASE Apply
  BY <1>2, <1>8 DEF Apply, Goto
<1>9. pc' \notin {"gated", "cut", "applied"} => LedgerShows'
  BY DEF LedgerShows
<1>10. CASE \/ NotIsolated \/ RefuseToApply \/ ApplyFails \/ MayMerge \/ MayNotMerge
           \/ CommitChange \/ NoChange \/ GoBack \/ Merge \/ DeleteMerged \/ Record
           \/ Die
  BY <1>9, <1>10 DEF NotIsolated, RefuseToApply, ApplyFails, MayMerge, MayNotMerge,
     CommitChange, NoChange, GoBack, Merge, DeleteMerged, Record, Die, Stop, Goto
<1>11. CASE UNCHANGED <<grants, gitVars, runVars>>
  BY <1>2, <1>11
<1>12. ASSUME NEW b \in DOMAIN past, Switch(b) PROVE LedgerShows'
  BY <1>2, <1>12 DEF Switch
<1> QED
  BY <1>3, <1>4, <1>5, <1>6, <1>7, <1>8, <1>10, <1>11, <1>12 DEF Next, People, Runner, vars,
     RecordGrant, WriteAround, Tick, LoseRecords, Produce

-----------------------------------------------------------------------------
(* What is in the branches                                                 *)

\* Branches only grow, and git's refusals are not forgotten.
LEMMA BranchesGrow ==
  ASSUME TypeOK, Branches, [Next]_vars
  PROVE  /\ \A b \in DOMAIN past \cap DOMAIN past' : past[b] \subseteq past'[b]
         /\ balked \subseteq balked'
<1> USE DEF policyVars, gitVars, runVars
<1>1. CASE UNCHANGED <<past, balked>>
  BY <1>1
<1>2. CASE CommitByHand
  <2>1. staged \in SUBSET Path /\ 0 \in 0..MaxAttempts /\ CommitFiles(staged, 0)
    BY <1>2, BoundsAssumption DEF TypeOK, CommitByHand
  <2> QED
    BY <1>2, <2>1, CommitAdded DEF CommitByHand
<1>3. CASE CommitChange
  <2>1. Index \in SUBSET Path /\ This \in 0..MaxAttempts /\ CommitFiles(Index, This)
    BY <1>3, ThisAttempt, ProposalPaths DEF CommitChange, Index, TypeOK, Attempt
  <2> QED
    BY <1>3, <2>1, CommitAdded DEF CommitChange
<1>4. CASE Isolate \/ NotIsolated
  <2>1. head = Origin /\ pc # "idle" /\ This \notin DOMAIN past
    BY <1>4 DEF Isolate, NotIsolated, Branches
  <2>2. past' = Cut => \A b \in DOMAIN past \cap DOMAIN past' : past[b] \subseteq past'[b]
    BY <2>1, CutIs
  <2> QED
    BY <1>4, <2>2 DEF Isolate, NotIsolated
<1>5. CASE Merge \/ DeleteMerged
  BY <1>5 DEF Merge, DeleteMerged, Without
<1>6. ASSUME NEW left, Abandon(left), pc # "idle"
      PROVE  /\ \A b \in DOMAIN past \cap DOMAIN past' : past[b] \subseteq past'[b]
             /\ balked \subseteq balked'
  BY <1>6, AbandonKeeps
<1> QED
  BY <1>1, <1>2, <1>3, <1>4, <1>5, <1>6 DEF Next, People, Runner, vars, Edit, Stage, Discard,
     Switch, AddLine, RecordGrant, WriteAround, Tick, LoseRecords, Produce, Start,
     Apply, RefuseToApply, ApplyFails, MayMerge, MayNotMerge, Undo, NoChange, GoBack,
     Record, Die, Goto

\* Until the runner commits, its branch has what it was cut from and what a
\* person committed there; afterwards its commit is on the way to be merged.
Isolated ==
  /\ pc \in {"cut", "applied", "passed"} =>
       /\ head = This
       /\ past[Origin] \subseteq past[This]
       /\ \A c \in past[This] \ past[Origin] : commits[c].by = 0 /\ commits[c].on = This
  /\ pc = "committed" => head = This
  /\ pc \in {"committed", "back"} => \E c \in past[This] : commits[c].by = This
  /\ pc \in {"joined", "merged"} => \E c \in past[Origin] : commits[c].by = This
  /\ pc = "merged" => This \notin DOMAIN past
  /\ pc \in Unmerged =>
       \/ ByHandOn(This)
       \/ This \in balked
       \/ This \notin DOMAIN past /\ head = Origin

\* A person's commit on a branch stays one.
LEMMA ByHandStays ==
  ASSUME TypeOK, [Next]_vars, NEW n \in Nat, ByHandOn(n)
  PROVE  \E c \in DOMAIN commits' : commits'[c].by = 0 /\ commits'[c].on = n
<1>1. PICK c \in DOMAIN commits : commits[c].by = 0 /\ commits[c].on = n
  BY DEF ByHandOn
<1>2. c \in DOMAIN commits' /\ commits'[c] = commits[c]
  BY CommitsAreKept
<1> QED
  BY <1>1, <1>2

\* A branch that could not be left has a commit of a person, or git refused.
LEMMA LeftBehind ==
  ASSUME TypeOK, Branches, Isolated, pc \in {"cut", "applied", "passed"},
         NEW left, Abandon(left), UNCHANGED commits
  PROVE  \/ ByHandOn(This)
         \/ This \in balked'
         \/ This \notin DOMAIN past' /\ head' = Origin
<1>1. CASE This \in balked' \/ (head' = Origin /\ This \notin DOMAIN past')
  BY <1>1
<1>2. CASE Differ(head, Origin) # {}
  <2>1. head = This /\ past[Origin] \subseteq past[This]
    BY DEF Isolated
  <2>2. PICK c \in past[This] \ past[Origin] : TRUE
    BY <1>2, <2>1 DEF Differ
  <2>3. c \in DOMAIN commits
    <3>1. This \in DOMAIN past
      BY DEF Branches
    <3> QED
      BY <2>2, <3>1 DEF TypeOK
  <2> QED
    BY <2>2, <2>3 DEF Isolated, ByHandOn
<1> QED
  BY <1>1, <1>2, AbandonKeeps

LEMMA IsolatedStep ==
  ASSUME TypeOK, Branches, Isolated, [Next]_vars
  PROVE  Isolated'
<1> USE DEF policyVars, gitVars, runVars
<1>0. \A c \in DOMAIN commits : c \in DOMAIN commits' /\ commits'[c] = commits[c]
  BY CommitsAreKept
<1>1. ByHandOn(This)' <=> \E c \in DOMAIN commits' : commits'[c].by = 0 /\ commits'[c].on = This'
  BY DEF ByHandOn
<1>2. CASE UNCHANGED <<commits, past, pc, balked, tried>> /\ (pc # "idle" => head' = head)
  BY <1>1, <1>2 DEF Isolated, Origin, Current, This, ByHandOn, Unmerged
<1>3. CASE CommitByHand /\ pc # "idle"
  <2>1. staged \in SUBSET Path /\ 0 \in 0..MaxAttempts /\ CommitFiles(staged, 0)
    BY <1>3, BoundsAssumption DEF TypeOK, CommitByHand
  <2>2. /\ Len(commits) + 1 \in DOMAIN commits' /\ commits'[Len(commits) + 1].by = 0
        /\ commits'[Len(commits) + 1].on = head
        /\ DOMAIN past' = DOMAIN past
        /\ \A b \in DOMAIN past :
             past'[b] = past[b] \cup (IF b = head THEN {Len(commits) + 1} ELSE {})
    <3>1. /\ DOMAIN commits' = 1..Len(commits) + 1
          /\ commits'[Len(commits) + 1] = [files |-> staged, by |-> 0, on |-> head]
          /\ DOMAIN past' = DOMAIN past
          /\ \A b \in DOMAIN past :
               past'[b] = past[b] \cup (IF b = head THEN {Len(commits) + 1} ELSE {})
      BY <2>1, CommitAdded
    <3>2. Len(commits) \in Nat
      BY DEF TypeOK
    <3> QED
      BY <3>1, <3>2
  <2>3. UNCHANGED <<pc, tried, head, balked>>
    BY <1>3, <2>1 DEF CommitByHand, CommitFiles
  <2>4. /\ Origin \in DOMAIN past /\ Origin # This
        /\ \A b \in DOMAIN past : past[b] \subseteq DOMAIN commits
        /\ pc \in {"cut", "applied", "passed", "committed", "back"} => This \in DOMAIN past
    BY <1>3, OriginStays DEF TypeOK, Branches
  <2>5. This' = This /\ Origin' = Origin
    BY <2>3 DEF This, Origin, Current
  <2>6. CASE pc \in {"cut", "applied", "passed"}
    <3>1. head = This /\ This \in DOMAIN past
      BY <2>4, <2>6 DEF Isolated
    <3>2. past'[Origin] = past[Origin] /\ past'[This] = past[This] \cup {Len(commits) + 1}
      BY <2>2, <2>4, <3>1
    <3>3. \A c \in past'[This] \ past'[Origin] : commits'[c].by = 0 /\ commits'[c].on = This
      BY <1>0, <2>2, <2>4, <2>6, <3>1, <3>2 DEF Isolated
    <3> QED
      BY <2>3, <2>5, <2>6, <3>1, <3>2, <3>3 DEF Isolated, Unmerged
  <2>7. CASE pc \in {"committed", "back"}
    BY <1>0, <2>2, <2>3, <2>4, <2>5, <2>7 DEF Isolated, Unmerged
  <2>8. CASE pc \in {"joined", "merged"}
    BY <1>0, <2>2, <2>3, <2>4, <2>5, <2>8 DEF Isolated, Unmerged
  <2>9. CASE pc \in Unmerged
    BY <1>0, <2>2, <2>3, <2>5, <2>9 DEF Isolated, Unmerged, ByHandOn
  <2>10. pc' \in {"gated"} => Isolated'
    BY DEF Isolated, Unmerged
  <2> QED
    BY <1>3, <2>3, <2>6, <2>7, <2>8, <2>9, <2>10 DEF TypeOK, Outcome
<1>4. pc' \in {"idle", "gated"} => Isolated'
  BY DEF Isolated, Unmerged
<1>5. ASSUME NEW p \in Proposal, Start(p) PROVE Isolated'
  <2>1. This' \notin DOMAIN past /\ UNCHANGED <<past, head>> /\ pc' \in {"gated", "refused"}
        /\ Origin' = head
    <3>1. Len(tried) + 1 \in Attempt /\ This' = Len(tried) + 1
      BY <1>5, StartAdds, BoundsAssumption DEF Start, This, Attempt
    <3>2. DOMAIN past \subseteq {Main, Work} \cup 1..Len(tried) /\ Len(tried) \in Nat
      BY DEF Branches, TypeOK
    <3>3. Len(tried) + 1 \notin DOMAIN past
      BY <3>1, <3>2, BranchAssumption
    <3> QED
      BY <1>5, <3>1, <3>3, StartAdds DEF Origin, Current
  <2> QED
    BY <2>1 DEF Isolated, Unmerged
<1>6. CASE Isolate
  <2>1. head = Origin /\ This \notin DOMAIN past /\ Origin # This /\ Origin \in DOMAIN past
    BY <1>6, OriginStays DEF Isolate, Branches
  <2>2. past'[This] = past[Origin] /\ past'[Origin] = past[Origin]
    BY <1>6, <2>1, CutIs DEF Isolate
  <2>3. head' = This /\ pc' = "cut" /\ UNCHANGED <<tried, commits>>
    BY <1>6 DEF Isolate, Goto
  <2>4. This' = This /\ Origin' = Origin
    BY <2>3 DEF This, Origin, Current
  <2> QED
    BY <2>2, <2>3, <2>4 DEF Isolated, Unmerged
<1>7. CASE NotIsolated
  <2>1. head = Origin /\ This \notin DOMAIN past /\ pc' = "refused" /\ UNCHANGED tried
    BY <1>7 DEF NotIsolated, Branches, Goto
  <2>2. This' = This /\ Origin' = Origin
    BY <2>1 DEF This, Origin, Current
  <2> QED
    BY <1>7, <2>1, <2>2 DEF NotIsolated, Isolated, Unmerged
<1>8. CASE Apply \/ MayMerge
  BY <1>8 DEF Apply, MayMerge, Goto, Isolated, Origin, Current, This, Unmerged
<1>9. CASE RefuseToApply \/ MayNotMerge \/ NoChange
  <2>1. PICK left : Abandon(left) /\ UNCHANGED <<tried, commits>> /\ pc' \in Unmerged
                    /\ pc \in {"cut", "applied", "passed"}
    BY <1>9 DEF RefuseToApply, MayNotMerge, Undo, NoChange, Goto, Unmerged
  <2>2. \/ ByHandOn(This)
        \/ This \in balked'
        \/ This \notin DOMAIN past' /\ head' = Origin
    BY <2>1, LeftBehind
  <2>3. This' = This /\ Origin' = Origin /\ (ByHandOn(This)' <=> ByHandOn(This))
    BY <2>1 DEF This, Origin, Current, ByHandOn
  <2> QED
    BY <2>1, <2>2, <2>3 DEF Isolated, Unmerged
<1>10. CASE CommitChange
  <2>1. Index \in SUBSET Path /\ This \in 0..MaxAttempts /\ CommitFiles(Index, This)
    BY <1>10, ThisAttempt, ProposalPaths DEF CommitChange, Index, TypeOK, Attempt
  <2>2. commits'[Len(commits) + 1].by = This /\ head \in DOMAIN past
        /\ past'[head] = past[head] \cup {Len(commits) + 1}
    <3>1. /\ commits'[Len(commits) + 1] = [files |-> Index, by |-> This, on |-> head]
          /\ \A b \in DOMAIN past :
               past'[b] = past[b] \cup (IF b = head THEN {Len(commits) + 1} ELSE {})
      BY <2>1, CommitAdded
    <3> QED
      BY <3>1 DEF TypeOK
  <2>3. head = This /\ head' = head /\ pc' = "committed" /\ UNCHANGED tried
    BY <1>10, <2>1 DEF CommitChange, CommitFiles, Goto, Isolated
  <2>4. This' = This
    BY <2>3 DEF This
  <2> QED
    BY <2>2, <2>3, <2>4 DEF Isolated, Unmerged
<1>11. CASE GoBack
  BY <1>11 DEF GoBack, Goto, Isolated, This, Unmerged
<1>12. CASE Merge
  <2>1. head = Origin /\ Origin \in DOMAIN past
    BY <1>12, OriginStays DEF Merge, Branches
  <2>2. past'[Origin] = past[Origin] \cup past[This]
    BY <1>12, <2>1 DEF Merge
  <2>3. pc' = "joined" /\ UNCHANGED <<commits, tried>>
    BY <1>12 DEF Merge, Goto
  <2>4. This' = This /\ Origin' = Origin
    BY <2>3 DEF This, Origin, Current
  <2> QED
    BY <1>12, <2>2, <2>3, <2>4 DEF Isolated, Merge, Unmerged
<1>19. CASE DeleteMerged
  <2>1. Origin \in DOMAIN past /\ Origin # This
    BY <1>19, OriginStays DEF DeleteMerged
  <2>2. This \notin DOMAIN past' /\ past'[Origin] = past[Origin]
    BY <1>19, <2>1 DEF DeleteMerged, Without
  <2>3. pc' = "merged" /\ UNCHANGED <<commits, tried>>
    BY <1>19 DEF DeleteMerged, Goto
  <2>4. This' = This /\ Origin' = Origin
    BY <2>3 DEF This, Origin, Current
  <2> QED
    BY <1>19, <2>2, <2>3, <2>4 DEF Isolated, DeleteMerged, Unmerged
<1>13. CASE Record \/ ApplyFails \/ Die
  BY <1>4, <1>13 DEF Record, ApplyFails, Die, Stop
<1>14. CASE CommitByHand /\ pc = "idle"
  BY <1>4, <1>14 DEF CommitByHand
<1>15. ASSUME NEW b \in DOMAIN past, Switch(b) PROVE Isolated'
  BY <1>4, <1>15 DEF Switch
<1>16. ASSUME NEW f \in Path, Edit(f) \/ Stage(f) \/ Discard(f) PROVE Isolated'
  BY <1>2, <1>16 DEF Edit, Stage, Discard
<1>17. ASSUME NEW g, AddLine(g) PROVE Isolated'
  BY <1>2, <1>17 DEF AddLine
<1>18. CASE UNCHANGED <<gitVars, runVars>>
  BY <1>2, <1>18
<1> QED
  BY <1>3, <1>5, <1>6, <1>7, <1>8, <1>9, <1>10, <1>11, <1>12, <1>13, <1>14, <1>15, <1>16,
     <1>17, <1>18, <1>19 DEF Next, People, Runner, vars, RecordGrant, WriteAround, Tick,
     LoseRecords, Produce

-----------------------------------------------------------------------------
(* What the action ledger says                                             *)

\* A commit of the runner is of an attempt that is past the commit, or whose
\* line says merged, or that ended without a line.
Attributed ==
  /\ pc # "idle" => Current.outcome = "none"
  /\ \A c \in DOMAIN commits : commits[c].by # 0 =>
       /\ commits[c].by \in DOMAIN tried
       /\ tried[commits[c].by].outcome \in {"none", "merged"}
       /\ commits[c].by = This /\ pc # "idle" =>
            pc \in {"committed", "back", "joined", "merged"}

\* The commit a step adds, if any, is a person's, or the runner's own.
LEMMA NewCommit ==
  ASSUME TypeOK, [Next]_vars, NEW c \in DOMAIN commits', c \notin DOMAIN commits
  PROVE  \/ commits'[c].by = 0 /\ UNCHANGED <<pc, tried>>
         \/ CommitChange /\ commits'[c].by = This /\ UNCHANGED tried
<1> USE DEF policyVars, gitVars, runVars
<1>1. CASE UNCHANGED commits
  BY <1>1
<1>2. CASE CommitByHand
  <2>1. staged \in SUBSET Path /\ 0 \in 0..MaxAttempts /\ CommitFiles(staged, 0)
    BY <1>2, BoundsAssumption DEF TypeOK, CommitByHand
  <2>2. /\ DOMAIN commits' = 1..Len(commits) + 1 /\ DOMAIN commits = 1..Len(commits)
        /\ commits'[Len(commits) + 1] = [files |-> staged, by |-> 0, on |-> head]
    BY <2>1, CommitAdded
  <2>3. c = Len(commits) + 1
    BY <2>2 DEF TypeOK
  <2> QED
    BY <1>2, <2>2, <2>3 DEF CommitByHand
<1>3. CASE CommitChange
  <2>1. Index \in SUBSET Path /\ This \in 0..MaxAttempts /\ CommitFiles(Index, This)
    BY <1>3, ThisAttempt, ProposalPaths DEF CommitChange, Index, TypeOK, Attempt
  <2>2. /\ DOMAIN commits' = 1..Len(commits) + 1 /\ DOMAIN commits = 1..Len(commits)
        /\ commits'[Len(commits) + 1] = [files |-> Index, by |-> This, on |-> head]
    BY <2>1, CommitAdded
  <2>3. c = Len(commits) + 1
    BY <2>2 DEF TypeOK
  <2> QED
    BY <1>3, <2>2, <2>3 DEF CommitChange, Goto
<1> QED
  BY <1>1, <1>2, <1>3 DEF Next, People, Runner, vars, Edit, Stage, Discard, Switch, AddLine,
     RecordGrant, WriteAround, Tick, LoseRecords, Produce, Start, Isolate,
     NotIsolated, Apply, RefuseToApply, ApplyFails, MayMerge, MayNotMerge,
     NoChange, GoBack, Merge, DeleteMerged, Record, Die, Goto

LEMMA AttributedStep ==
  ASSUME TypeOK, Branches, Attributed, [Next]_vars
  PROVE  Attributed'
<1> USE DEF policyVars, gitVars, runVars
<1>1. \A c \in DOMAIN commits : commits'[c] = commits[c]
  BY CommitsAreKept
<1>2. ASSUME NEW c \in DOMAIN commits', c \notin DOMAIN commits, commits'[c].by # 0
      PROVE  /\ commits'[c].by = This' /\ This' \in DOMAIN tried' /\ pc' = "committed"
             /\ tried'[This'].outcome = "none"
  <2>1. CommitChange /\ commits'[c].by = This /\ UNCHANGED tried
    BY <1>2, NewCommit
  <2> QED
    BY <2>1, ThisAttempt DEF CommitChange, Goto, Attributed, This, Current
<1>3. CASE UNCHANGED tried /\ (pc' # "idle" => pc # "idle")
           /\ (pc \in {"committed", "back", "joined", "merged"} =>
                 pc' \in {"idle", "committed", "back", "joined", "merged"})
  BY <1>1, <1>2, <1>3 DEF Attributed, This, Current
<1>4. ASSUME NEW p \in Proposal, Start(p) PROVE Attributed'
  <2>1. /\ \A n \in DOMAIN tried : n \in DOMAIN tried' /\ tried'[n] = tried[n]
        /\ tried'[This'].outcome = "none" /\ This' \notin DOMAIN tried
        /\ UNCHANGED commits
    BY <1>4, StartAdds DEF This
  <2> QED
    BY <2>1 DEF Attributed, Current
<1>5. CASE Record
  <2>1. \A n \in DOMAIN tried :
          n # This => tried'[n].outcome = tried[n].outcome
    BY <1>5, RecordSays
  <2>2. tried'[This].outcome = pc
    BY <1>5, RecordSays
  <2>3. DOMAIN tried' = DOMAIN tried /\ UNCHANGED commits /\ pc' = "idle" /\ pc \in Outcome
    BY <1>5, RecordSays
  <2> QED
    BY <2>1, <2>2, <2>3 DEF Attributed, Outcome, Unmerged
<1> QED
  BY <1>3, <1>4, <1>5 DEF Next, People, Runner, vars, Edit, Stage, Discard, CommitByHand,
     Switch, AddLine, RecordGrant, WriteAround, Tick, LoseRecords, Produce, Isolate,
     NotIsolated, Apply, RefuseToApply, ApplyFails, MayMerge, MayNotMerge,
     CommitChange, NoChange, GoBack, Merge, DeleteMerged, Die, Goto, Stop

LEMMA LinesStep ==
  ASSUME TypeOK, Branches, Isolated, Attributed, LineTellsTheBranch, [Next]_vars, Branches'
  PROVE  LineTellsTheBranch'
<1> USE DEF policyVars, gitVars, runVars
<1>1. \A c \in DOMAIN commits : c \in DOMAIN commits' /\ commits'[c] = commits[c]
  BY CommitsAreKept
<1>2. /\ \A b \in DOMAIN past \cap DOMAIN past' : past[b] \subseteq past'[b]
      /\ balked \subseteq balked'
  BY BranchesGrow
<1>3. \A n \in DOMAIN tried : tried[n].origin \in DOMAIN past
  BY DEF Branches
<1>4. \A b \in DOMAIN past : past[b] \subseteq DOMAIN commits
  BY DEF TypeOK
<1>5. \A n \in DOMAIN tried : n \in Nat /\ (ByHandOn(n) =>
        \E c \in DOMAIN commits' : commits'[c].by = 0 /\ commits'[c].on = n)
  BY ByHandStays DEF TypeOK
<1> DEFINE Tells(t, n) ==
      /\ t.outcome = "merged" =>
           t.origin \in DOMAIN past' /\ \E c \in past'[t.origin] : commits'[c].by = n
      /\ t.outcome \in Unmerged => \A c \in DOMAIN commits' : commits'[c].by # n
      /\ n \in DOMAIN past' =>
           \/ t.outcome = "none"
           \/ \E c \in DOMAIN commits' : commits'[c].by = 0 /\ commits'[c].on = n
           \/ n \in balked'
<1>6. LineTellsTheBranch' <=> \A n \in DOMAIN tried' : Tells(tried'[n], n)
  BY DEF LineTellsTheBranch, ByHandOn
<1>7. ASSUME NEW n \in DOMAIN tried, tried[n].outcome # "none",
             tried[n].origin \in DOMAIN past', n \in DOMAIN past' => n \in DOMAIN past
      PROVE  Tells(tried[n], n)
  <2>1. tried[n].outcome = "merged" => \E c \in past'[tried[n].origin] : commits'[c].by = n
    BY <1>1, <1>2, <1>3, <1>4, <1>7 DEF LineTellsTheBranch
  <2>2. ASSUME tried[n].outcome \in Unmerged, NEW c \in DOMAIN commits' PROVE commits'[c].by # n
    <3>1. CASE c \in DOMAIN commits
      BY <1>1, <2>2, <3>1 DEF LineTellsTheBranch
    <3>2. CASE c \notin DOMAIN commits
      <4>1. commits'[c].by = 0 \/ (CommitChange /\ commits'[c].by = This)
        BY <3>2, NewCommit
      <4>2. pc # "idle" => n # This
        BY <1>7 DEF Attributed, Current
      <4> QED
        BY <1>5, <4>1, <4>2 DEF CommitChange, TypeOK
    <3> QED
      BY <3>1, <3>2
  <2>3. n \in DOMAIN past' =>
          \/ \E c \in DOMAIN commits' : commits'[c].by = 0 /\ commits'[c].on = n
          \/ n \in balked'
    BY <1>2, <1>5, <1>7 DEF LineTellsTheBranch
  <2> QED
    BY <1>7, <2>1, <2>2, <2>3
<1>8. CASE UNCHANGED tried
  <2>1. \A n \in DOMAIN tried : tried[n].origin \in DOMAIN past'
    BY <1>8 DEF Branches
  <2>2. ASSUME NEW n \in DOMAIN tried, tried[n].outcome # "none", n \in DOMAIN past'
        PROVE  n \in DOMAIN past
    <3>1. CASE DOMAIN past' \subseteq DOMAIN past
      BY <2>2, <3>1
    <3>2. CASE Isolate \/ NotIsolated
      <4>1. pc # "idle" /\ head = Origin
        BY <3>2 DEF Isolate, NotIsolated, Branches
      <4>2. n # This
        BY <2>2, <4>1 DEF Attributed, Current
      <4> QED
        BY <2>2, <3>2, <4>1, <4>2, CutIs DEF Isolate, NotIsolated
    <3> QED
      <4>1. ASSUME NEW left, Abandon(left), pc # "idle" PROVE DOMAIN past' \subseteq DOMAIN past
        BY <4>1, AbandonKeeps
      <4>2. ASSUME NEW files, NEW author, CommitFiles(files, author)
            PROVE  DOMAIN past' \subseteq DOMAIN past
        BY <4>2 DEF CommitFiles
      <4> QED
        BY <3>1, <3>2, <4>1, <4>2 DEF Next, People, Runner, vars, Edit, Stage, Discard,
           CommitByHand, Switch, AddLine, RecordGrant, WriteAround, Tick, LoseRecords,
           Produce, Start, Apply, RefuseToApply, ApplyFails, MayMerge, MayNotMerge, Undo,
           CommitChange, NoChange, GoBack, Merge, DeleteMerged, Without, Record, Die, Goto
  <2>3. \A n \in DOMAIN tried : tried[n].outcome = "none" => Tells(tried[n], n)
    BY DEF Unmerged
  <2> QED
    BY <1>6, <1>7, <1>8, <2>1, <2>2, <2>3
<1>9. ASSUME NEW p \in Proposal, Start(p) PROVE LineTellsTheBranch'
  <2>1. /\ \A n \in DOMAIN tried : tried'[n] = tried[n]
        /\ tried'[Len(tried) + 1].outcome = "none"
        /\ \A n \in DOMAIN tried' : n \in DOMAIN tried \/ n = Len(tried) + 1
        /\ UNCHANGED <<commits, past, balked>>
    BY <1>9, StartAdds
  <2> QED
    BY <1>6, <2>1 DEF LineTellsTheBranch, ByHandOn, Unmerged
<1>10. CASE Record
  <2>1. /\ DOMAIN tried' = DOMAIN tried /\ This \in DOMAIN tried /\ pc \in Outcome
        /\ UNCHANGED <<commits, past, balked>>
    BY <1>10, RecordSays
  <2>2. \A n \in DOMAIN tried :
          /\ tried'[n].origin = tried[n].origin
          /\ tried'[n].outcome = IF n = This THEN pc ELSE tried[n].outcome
    BY <1>10, RecordSays
  <2>3. ASSUME NEW n \in DOMAIN tried, n # This PROVE Tells(tried'[n], n)
    BY <2>1, <2>2, <2>3 DEF LineTellsTheBranch, ByHandOn
  <2>4. Tells(tried'[This], This)
    <3>1. CASE pc = "merged"
      BY <1>3, <2>1, <2>2, <3>1 DEF Isolated, Origin, Current, Unmerged
    <3>2. CASE pc \in Unmerged
      <4>1. \A c \in DOMAIN commits : commits[c].by # This
        <5>1. This \in Attempt /\ pc \notin {"idle", "committed", "back", "joined", "merged"}
          BY <1>10, <3>2, ThisAttempt DEF Unmerged, Record
        <5> QED
          BY <5>1 DEF Attributed, Attempt
      <4>2. ByHandOn(This) \/ This \in balked \/ This \notin DOMAIN past
        BY <3>2 DEF Isolated
      <4> QED
        BY <2>1, <2>2, <3>2, <4>1, <4>2 DEF ByHandOn, Unmerged
    <3> QED
      BY <2>1, <3>1, <3>2 DEF Outcome
  <2> QED
    BY <1>6, <2>1, <2>3, <2>4
<1> QED
  BY <1>8, <1>9, <1>10 DEF Next, People, Runner, vars, Edit, Stage, Discard, CommitByHand,
     Switch, AddLine, RecordGrant, WriteAround, Tick, LoseRecords, Produce, Isolate,
     NotIsolated, Apply, RefuseToApply, ApplyFails, MayMerge, MayNotMerge,
     CommitChange, NoChange, GoBack, Merge, DeleteMerged, Die, Goto

-----------------------------------------------------------------------------
(* The theorems                                                            *)

\* What every state of the system satisfies.
Inv ==
  /\ TypeOK /\ Branches /\ Held
  /\ Gated /\ Written /\ LedgerShows
  /\ Isolated /\ Attributed /\ LineTellsTheBranch

LEMMA Initially == Init => Inv
<1> SUFFICES ASSUME Init PROVE Inv
  OBVIOUS
<1>1. TypeOK
  BY TypeInit
<1>2. tried = <<>> /\ commits = <<>> /\ pc = "idle" /\ wrote = {} /\ DOMAIN past = {Main, Work}
  BY DEF Init
<1>3. Branches /\ Held
  BY <1>2 DEF Branches, Held
<1>4. Gated /\ Written /\ LedgerShows
  BY <1>2 DEF Gated, MergedWasGranted, InProgress, Written, LegalRecordUntouched, LedgerShows
<1>5. Isolated /\ Attributed /\ LineTellsTheBranch
  BY <1>2 DEF Isolated, Attributed, LineTellsTheBranch, Unmerged
<1> QED
  BY <1>1, <1>3, <1>4, <1>5 DEF Inv

LEMMA Inductive == Inv /\ [Next]_vars => Inv'
<1> SUFFICES ASSUME Inv, [Next]_vars PROVE Inv'
  OBVIOUS
<1>1. TypeOK' /\ Branches'
  BY TypeStep, BranchesStep DEF Inv
<1>2. Held' /\ Gated' /\ Written' /\ LedgerShows'
  BY HeldStep, GatedStep, WrittenStep, LedgerShowsStep DEF Inv
<1>3. Isolated' /\ Attributed' /\ LineTellsTheBranch'
  BY <1>1, IsolatedStep, AttributedStep, LinesStep DEF Inv
<1> QED
  BY <1>1, <1>2, <1>3 DEF Inv

\* The state of limited autonomy keeps its types, and what a runner wrote that
\* nobody removed shows in git status.
THEOREM TypeCorrect == Spec => []TypeOK
<1>1. Inv => TypeOK
  BY DEF Inv
<1> QED
  BY <1>1, Initially, Inductive, PTL DEF Spec

\* Whatever is written to the grant ledger and whoever writes it, what was
\* merged without a decision was covered by grants that stood.
THEOREM MergesAreGranted == Spec => []MergedWasGranted
<1>1. Inv => MergedWasGranted
  BY DEF Inv, Gated
<1> QED
  BY <1>1, Initially, Inductive, PTL DEF Spec

\* No attempt has anything of the legal record in the tree.
THEOREM LegalRecordIsSafe == Spec => []LegalRecordUntouched
<1>1. Inv => LegalRecordUntouched
  BY DEF Inv, Written
<1> QED
  BY <1>1, Initially, Inductive, PTL DEF Spec

\* The action ledger agrees with the commits in the branches, wherever a run
\* stops, and a branch it does not account for is one a person committed on, or
\* one git would not go back from or delete.
THEOREM LinesTell == Spec => []LineTellsTheBranch
<1>1. Inv => LineTellsTheBranch
  BY DEF Inv
<1> QED
  BY <1>1, Initially, Inductive, PTL DEF Spec

\* A run that says it merged nothing left nothing it wrote in the tree but new
\* files somebody staged, and is back where it began, unless a person committed
\* on its branch or git would not go back.
THEOREM NothingStays == Spec => []NoneOfThemStays
<1>1. Inv => NoneOfThemStays
  BY DEF Inv, Written, Isolated, NoneOfThemStays
<1> QED
  BY <1>1, Initially, Inductive, PTL DEF Spec

\* A line recorded between an attempt's start and its scope check stops it, but
\* for the two ways the property names; of a later one nothing is said.
THEOREM EarlyRevocation == Spec => EarlyRevocationStops
<1>1. Inv /\ [Next]_vars => [pc = "applied" /\ pc' = "passed" => NoLineToSee]_vars
  <2> SUFFICES ASSUME Inv, [Next]_vars, pc = "applied", pc' = "passed" PROVE NoLineToSee
    OBVIOUS
  <2>1. MayMerge
    BY DEF Next, People, Runner, vars, policyVars, gitVars, runVars, Edit, Stage, Discard,
       CommitByHand, Switch, AddLine, RecordGrant, WriteAround, Tick, LoseRecords, Produce,
       Start, Isolate, NotIsolated, Apply, RefuseToApply, ApplyFails, MayMerge, MayNotMerge,
       CommitChange, NoChange, GoBack, Merge, DeleteMerged, Record, Die, Goto, Stop
  <2>2. GrantLedger \notin Permitted(P)
    BY PathsAssumption DEF Inv, Gated, InProgress, Confined
  <2>3. GrantLedger \in dirty => GrantLedger \in before
    BY <2>1, <2>2 DEF MayMerge, Outside
  <2> QED
    BY <2>3 DEF Inv, LedgerShows, NoLineToSee
<1> QED
  BY <1>1, Initially, Inductive, PTL DEF Spec, EarlyRevocationStops

\* What a person was working on when a branch was cut is still there, or went
\* into the commit because they had staged it.
THEOREM WorkIsKept == Spec => WorkInProgressIsKept
<1>1. Inv /\ [Next]_vars => [pc' # pc => LeavesTheirWork]_vars
  <2> SUFFICES ASSUME Inv, [Next]_vars, pc' # pc PROVE LeavesTheirWork
    OBVIOUS
  <2>1. CASE MayNotMerge
    BY <2>1 DEF MayNotMerge, Undo, Goto, Inv, Written, LeavesTheirWork
  <2>2. CASE CommitChange
    <3>1. before \cap Files(P) = {}
      BY <2>2, ThisAttempt, ProposalPaths DEF CommitChange, Inv, Written
    <3> QED
      BY <2>2, <3>1 DEF CommitChange, CommitFiles, Index, Goto, LeavesTheirWork
  <2> QED
    BY <2>1, <2>2 DEF Next, People, Runner, vars, policyVars, gitVars, runVars, Edit, Stage,
       Discard, CommitByHand, Switch, AddLine, RecordGrant, WriteAround, Tick, LoseRecords,
       Produce, Start, Isolate, NotIsolated, Apply, RefuseToApply, ApplyFails, MayMerge,
       NoChange, GoBack, Merge, DeleteMerged, Record, Die, Goto, LeavesTheirWork
<1> QED
  BY <1>1, Initially, Inductive, PTL DEF Spec, WorkInProgressIsKept
=============================================================================
