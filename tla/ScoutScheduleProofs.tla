------------------------- MODULE ScoutScheduleProofs -------------------------
(***************************************************************************)
(* What holds of the scheduled Source Scout for any documents, any titles  *)
(* they share, and any number of runs.                                     *)
(***************************************************************************)
EXTENDS ScoutSchedule, TLAPS

RunRecord ==
  [option : Option, tip : SUBSET Run, sources : SUBSET Document,
   fetched : BOOLEAN, collected : SUBSET Run, written : BOOLEAN,
   found : SUBSET Document, new_sources : SUBSET Document,
   new_prior : SUBSET Document, outcome : Outcome]

\* The second job is at work.
Proposing == at \in {"propose", "create"}

\* What a run holds: nothing where it was not triggered, no digest before the
\* first job wrote one, and where it waits it has neither begun nor ended; the
\* digests of the commit it was cut from were all offered.
Holds(r) ==
  /\ r > triggered => run[r] = NoRun
  /\ r = waiting => run[r].outcome = "none" /\ ~run[r].written
  /\ ~run[r].written => run[r].found = {}
  /\ run[r].tip \subseteq offered
  /\ run[r].new_sources \cup run[r].new_prior \subseteq run[r].found
  /\ r \in branches \cup offered => run[r].written

Repository ==
  /\ main \subseteq Run /\ branches \subseteq Run /\ offered \subseteq Run
  /\ pulls \subseteq branches \cap offered
  /\ main \subseteq offered
  /\ sources \subseteq Document

Queue ==
  /\ triggered \in 0..MaxRuns
  /\ waiting \in 0..triggered /\ current \in 0..triggered
  /\ waiting # 0 => waiting # current
  /\ at \in {"idle", "collect", "scout", "propose", "create"}
  /\ current = 0 <=> at = "idle"
  /\ current # 0 => (run[current].written <=> Proposing)

ScheduleInv ==
  /\ run \in [Run -> RunRecord]
  /\ \A r \in Run : Holds(r)
  /\ Repository
  /\ Queue

-----------------------------------------------------------------------------
(* What the steps do to the runs                                           *)

LEMMA RunsAreNumbered ==
  ASSUME ScheduleInv
  PROVE  /\ MaxRuns \in Nat
         /\ triggered \in Nat /\ triggered <= MaxRuns
         /\ current \in Nat /\ waiting \in Nat
         /\ current # 0 => current \in Run /\ current <= triggered
         /\ waiting # 0 => waiting \in Run /\ waiting <= triggered
         /\ \A r \in Run : r \in Nat /\ r # 0
  BY RunsAssumption DEF ScheduleInv, Queue, Run

\* A run triggered is new and holds nothing but the commit it will check out;
\* one that waited is cancelled, and what it holds is as it was.
LEMMA TriggeredRuns ==
  ASSUME ScheduleInv, NEW o \in Option, Trigger(o)
  PROVE  /\ triggered + 1 \in Run
         /\ run' \in [Run -> RunRecord]
         /\ run'[triggered + 1] = [NoRun EXCEPT !.option = o, !.tip = main,
                                                !.sources = sources]
         /\ \A q \in Run \ {triggered + 1} :
              /\ q # waiting => run'[q] = run[q]
              /\ run'[q].tip = run[q].tip
              /\ run'[q].fetched = run[q].fetched
              /\ run'[q].collected = run[q].collected
              /\ run'[q].written = run[q].written
              /\ run'[q].found = run[q].found
              /\ run'[q].new_sources = run[q].new_sources
              /\ run'[q].new_prior = run[q].new_prior
<1> DEFINE r == triggered + 1
           fresh == [NoRun EXCEPT !.option = o, !.tip = main, !.sources = sources]
           Made(q) == CASE q = r -> fresh
                        [] q = waiting -> [run[q] EXCEPT !.outcome = "cancelled"]
                        [] OTHER -> run[q]
<1>1. r \in Run
  BY RunsAreNumbered DEF Trigger, Run
<1>2. run' = [q \in Run |-> Made(q)]
  BY DEF Trigger
<1>3. waiting # r
  BY RunsAreNumbered DEF ScheduleInv, Queue
<1>4. fresh \in RunRecord
  BY DEF NoRun, RunRecord, Outcome, ScheduleInv, Repository
<1>5. \A q \in Run : [run[q] EXCEPT !.outcome = "cancelled"] \in RunRecord
  BY DEF RunRecord, Outcome, ScheduleInv
<1>6. \A q \in Run : Made(q) \in RunRecord
  <2> HIDE DEF fresh, r
  <2> QED
    BY <1>4, <1>5 DEF ScheduleInv
<1>7. ASSUME NEW q \in Run \ {r}
      PROVE  \/ Made(q) = run[q] /\ q # waiting
             \/ Made(q) = [run[q] EXCEPT !.outcome = "cancelled"] /\ q = waiting
  BY <1>7
<1>8. ASSUME NEW q \in Run \ {r}
      PROVE  /\ q # waiting => Made(q) = run[q]
             /\ Made(q).tip = run[q].tip
             /\ Made(q).fetched = run[q].fetched
             /\ Made(q).collected = run[q].collected
             /\ Made(q).written = run[q].written
             /\ Made(q).found = run[q].found
             /\ Made(q).new_sources = run[q].new_sources
             /\ Made(q).new_prior = run[q].new_prior
  <2> HIDE DEF Made
  <2>1. run[q] \in RunRecord
    BY DEF ScheduleInv
  <2> QED
    BY <1>7, <2>1 DEF RunRecord
<1>9. Made(r) = fresh
  <2> HIDE DEF fresh
  <2> QED
    BY <1>3
<1>10. \A q \in Run : run'[q] = Made(q)
  BY <1>2
<1> HIDE DEF Made, fresh
<1>11. run' \in [Run -> RunRecord]
  BY <1>2, <1>6
<1>12. run'[r] = fresh
  BY <1>1, <1>9, <1>10
<1> QED
  BY <1>1, <1>8, <1>10, <1>11, <1>12 DEF fresh

\* A step that sets nothing but one run's outcome.
LEMMA OutcomeOnly ==
  ASSUME ScheduleInv, NEW c \in Run, NEW o \in Outcome,
         run' = [run EXCEPT ![c].outcome = o]
  PROVE  /\ run' \in [Run -> RunRecord]
         /\ run'[c].outcome = o
         /\ \A q \in Run : /\ q # c => run'[q] = run[q]
                           /\ run'[q].tip = run[q].tip
                           /\ run'[q].fetched = run[q].fetched
                           /\ run'[q].collected = run[q].collected
                           /\ run'[q].written = run[q].written
                           /\ run'[q].found = run[q].found
                           /\ run'[q].new_sources = run[q].new_sources
                           /\ run'[q].new_prior = run[q].new_prior
<1> DEFINE ended == [run[c] EXCEPT !.outcome = o]
<1>1. run[c] \in RunRecord
  BY DEF ScheduleInv
<1>2. /\ ended \in RunRecord /\ ended.outcome = o
      /\ ended.tip = run[c].tip /\ ended.fetched = run[c].fetched
      /\ ended.collected = run[c].collected /\ ended.written = run[c].written
      /\ ended.found = run[c].found /\ ended.new_sources = run[c].new_sources
      /\ ended.new_prior = run[c].new_prior
  BY <1>1 DEF RunRecord
<1>3. run' = [run EXCEPT ![c] = ended]
  OBVIOUS
<1> HIDE DEF ended
<1> QED
  BY <1>2, <1>3 DEF ScheduleInv

\* What a run collects is what it will not propose again.
LEMMA CollectedRuns ==
  ASSUME ScheduleInv, Collect
  PROVE  /\ current \in Run
         /\ run' \in [Run -> RunRecord]
         /\ \A q \in Run : /\ q # current => run'[q] = run[q]
                           /\ run'[q].tip = run[q].tip
                           /\ run'[q].written = run[q].written
                           /\ run'[q].found = run[q].found
                           /\ run'[q].new_sources = run[q].new_sources
                           /\ run'[q].new_prior = run[q].new_prior
                           /\ run'[q].outcome = run[q].outcome
         /\ run'[current].collected \subseteq OnBranches
         /\ run'[current].fetched => run'[current].collected = OnBranches
<1>1. current \in Run
  BY RunsAreNumbered DEF Collect, ScheduleInv, Queue
<1>2. PICK ok \in BOOLEAN :
        run' = [run EXCEPT ![current].fetched = ok,
                           ![current].collected = IF ok THEN Collected ELSE {}]
  BY DEF Collect
<1> DEFINE read == IF ok THEN Collected ELSE {}
           made == [run[current] EXCEPT !.fetched = ok, !.collected = read]
<1>3. OnBranches \subseteq Run
  BY DEF OnBranches, Tree, ScheduleInv, Repository, RunRecord
<1>4. read \subseteq OnBranches /\ (ok => read = OnBranches)
  BY DEF Collected
<1>5. run' = [run EXCEPT ![current] = made]
  <2>1. run' = [run EXCEPT ![current].fetched = ok, ![current].collected = read]
    BY <1>2
  <2> HIDE DEF read
  <2> QED
    BY <1>1, <2>1 DEF ScheduleInv
<1>6. run[current] \in RunRecord
  BY <1>1 DEF ScheduleInv
<1> HIDE DEF read
<1>7. /\ made \in RunRecord /\ made.tip = run[current].tip
      /\ made.written = run[current].written /\ made.found = run[current].found
      /\ made.new_sources = run[current].new_sources
      /\ made.new_prior = run[current].new_prior
      /\ made.outcome = run[current].outcome
      /\ made.fetched = ok /\ made.collected = read
  BY <1>3, <1>4, <1>6 DEF RunRecord
<1> HIDE DEF made
<1> QED
  BY <1>1, <1>4, <1>5, <1>7 DEF ScheduleInv

\* The first job writes a digest, of which what is new is a part.
LEMMA ScoutedRuns ==
  ASSUME ScheduleInv, NEW found \in SUBSET Document, Scout(found)
  PROVE  /\ current \in Run
         /\ run' \in [Run -> RunRecord]
         /\ \A q \in Run : /\ q # current => run'[q] = run[q]
                           /\ run'[q].tip = run[q].tip
                           /\ run'[q].fetched = run[q].fetched
                           /\ run'[q].collected = run[q].collected
         /\ run'[current].written
         /\ run'[current].found = found
         /\ run'[current].new_prior = Unmatched(found, Prior(current))
         /\ run'[current].new_sources \subseteq found
         /\ \/ current' = current /\ at' = "propose"
            \/ current' = 0 /\ at' = "idle"
<1> DEFINE new_sources == Unmatched(found, run[current].sources)
           new_prior == Unmatched(found, Prior(current))
           proposes == Proposes(run[current].option, new_sources, new_prior)
           outcome == IF proposes THEN "none" ELSE "done"
           made == [run[current] EXCEPT !.written = TRUE, !.found = found,
                      !.new_sources = new_sources, !.new_prior = new_prior,
                      !.outcome = outcome]
<1>1. current \in Run
  BY RunsAreNumbered DEF Scout, ScheduleInv, Queue
<1>2. /\ run' = [run EXCEPT ![current] = made]
      /\ current' = IF proposes THEN current ELSE 0
      /\ at' = IF proposes THEN "propose" ELSE "idle"
  BY DEF Scout
<1>3. new_sources \subseteq found /\ new_prior \subseteq found
  BY DEF Unmatched
<1>4. outcome \in Outcome
  BY DEF Outcome
<1>5. run[current] \in RunRecord
  BY <1>1 DEF ScheduleInv
<1>6. \/ current' = current /\ at' = "propose"
      \/ current' = 0 /\ at' = "idle"
  BY <1>2
<1> HIDE DEF new_sources, new_prior, outcome, proposes
<1>7. /\ made \in RunRecord /\ made.tip = run[current].tip
      /\ made.fetched = run[current].fetched
      /\ made.collected = run[current].collected
      /\ made.written /\ made.found = found
      /\ made.new_sources = new_sources /\ made.new_prior = new_prior
  BY <1>3, <1>4, <1>5 DEF RunRecord
<1> HIDE DEF made
<1>8. /\ run' \in [Run -> RunRecord] /\ run'[current] = made
      /\ \A q \in Run : q # current => run'[q] = run[q]
  BY <1>1, <1>2, <1>7 DEF ScheduleInv
<1> QED
  BY <1>1, <1>3, <1>6, <1>7, <1>8 DEF new_prior, new_sources

-----------------------------------------------------------------------------
(* Type correctness, with what the runs hold                               *)

LEMMA NothingHeld ==
  /\ NoRun.outcome = "none" /\ ~NoRun.written /\ NoRun.found = {}
  /\ NoRun.tip = {} /\ NoRun.new_sources = {} /\ NoRun.new_prior = {}
  BY DEF NoRun

LEMMA TriggerKeeps ==
  ASSUME ScheduleInv, NEW o \in Option, Trigger(o)
  PROVE  ScheduleInv'
<1> DEFINE n == triggered + 1
<1>1. /\ n \in Run /\ run' \in [Run -> RunRecord]
      /\ run'[n].outcome = "none" /\ ~run'[n].written /\ run'[n].found = {}
      /\ run'[n].tip = main /\ run'[n].new_sources = {} /\ run'[n].new_prior = {}
  BY TriggeredRuns DEF NoRun
<1>2. /\ triggered' = n /\ waiting' = n
      /\ UNCHANGED <<main, sources, branches, pulls, offered, current, at>>
  BY DEF Trigger
<1>3. triggered \in Nat /\ n \in 1..MaxRuns /\ current <= triggered /\ current \in Nat
  BY <1>1, RunsAreNumbered DEF ScheduleInv, Queue, Run
<1>4. ASSUME NEW q \in Run, q # n
      PROVE  /\ run'[q].written = run[q].written /\ run'[q].found = run[q].found
             /\ run'[q].tip = run[q].tip
             /\ run'[q].new_sources = run[q].new_sources
             /\ run'[q].new_prior = run[q].new_prior
             /\ q # waiting => run'[q] = run[q]
  BY <1>4, TriggeredRuns
<1>5. ~run[n].written
  BY <1>1, <1>3, NothingHeld DEF ScheduleInv, Holds
<1>6. ASSUME NEW q \in Run PROVE Holds(q)'
  <2>1. Holds(q) /\ (q = n => q \notin branches \cup offered)
    BY <1>1, <1>5 DEF ScheduleInv, Holds
  <2>2. q \in Nat /\ (q > n => q > triggered /\ q # waiting /\ q # n)
    BY <1>3, RunsAreNumbered DEF ScheduleInv, Queue
  <2>3. CASE q = n
    <3>1. ~ (n > n) /\ main \subseteq offered
      BY <1>3 DEF ScheduleInv, Repository
    <3>2. n \notin branches \cup offered
      BY <2>1, <2>3
    <3> HIDE DEF n
    <3> QED
      BY <1>1, <1>2, <2>3, <3>1, <3>2 DEF Holds
  <2>4. CASE q # n
    BY <1>2, <1>4, <2>1, <2>2, <2>4 DEF Holds
  <2> QED
    BY <2>3, <2>4
<1>7. Queue'
  <2>1. current # 0 => current \in Run /\ current # n
    BY <1>3, RunsAreNumbered
  <2>2. Proposing' = Proposing
    BY <1>2 DEF Proposing
  <2> QED
    BY <1>2, <1>3, <1>4, <2>1, <2>2 DEF ScheduleInv, Queue
<1> QED
  BY <1>1, <1>2, <1>6, <1>7 DEF ScheduleInv, Repository

LEMMA StartKeeps ==
  ASSUME ScheduleInv, Start
  PROVE  ScheduleInv'
<1>1. waiting \in Run /\ waiting \in 0..triggered
  BY RunsAreNumbered DEF Start, ScheduleInv, Queue
<1>2. /\ current' = waiting /\ waiting' = 0 /\ at' = "collect"
      /\ UNCHANGED <<main, sources, branches, pulls, offered, triggered, run>>
  BY DEF Start
<1>3. ~run[waiting].written /\ waiting # 0
  BY <1>1 DEF Start, ScheduleInv, Holds
<1>4. Queue'
  BY <1>1, <1>2, <1>3, RunsAreNumbered DEF ScheduleInv, Queue, Proposing
<1>5. \A q \in Run : Holds(q)'
  BY <1>2, RunsAreNumbered DEF ScheduleInv, Holds
<1> QED
  BY <1>2, <1>4, <1>5 DEF ScheduleInv, Repository

LEMMA CollectKeeps ==
  ASSUME ScheduleInv, Collect
  PROVE  ScheduleInv'
<1>1. /\ at = "collect" /\ at' = "scout"
      /\ UNCHANGED <<main, sources, branches, pulls, offered,
                     triggered, waiting, current>>
  BY DEF Collect
<1>2. current \in Run /\ run' \in [Run -> RunRecord]
  BY CollectedRuns
<1>3. ASSUME NEW q \in Run PROVE Holds(q)'
  <2>1. /\ Holds(q)
        /\ q # current => run'[q] = run[q]
        /\ run'[q].tip = run[q].tip /\ run'[q].written = run[q].written
        /\ run'[q].found = run[q].found /\ run'[q].outcome = run[q].outcome
        /\ run'[q].new_sources = run[q].new_sources
        /\ run'[q].new_prior = run[q].new_prior
    BY CollectedRuns DEF ScheduleInv
  <2>2. q > triggered => q # current
    BY RunsAreNumbered
  <2> QED
    BY <1>1, <2>1, <2>2 DEF Holds
<1>4. Queue'
  BY <1>1, <1>2, CollectedRuns DEF ScheduleInv, Queue, Proposing
<1> QED
  BY <1>1, <1>2, <1>3, <1>4 DEF ScheduleInv, Repository

LEMMA ScoutKeeps ==
  ASSUME ScheduleInv, NEW found \in SUBSET Document, Scout(found)
  PROVE  ScheduleInv'
<1>1. /\ at = "scout"
      /\ UNCHANGED <<main, sources, branches, pulls, offered, triggered, waiting>>
  BY DEF Scout
<1>2. /\ current \in Run /\ run' \in [Run -> RunRecord]
      /\ run'[current].written /\ run'[current].found = found
      /\ run'[current].new_sources \cup run'[current].new_prior \subseteq found
  BY ScoutedRuns DEF Unmatched
<1>3. ~run[current].written /\ current # 0 /\ current <= triggered
  BY <1>1, RunsAreNumbered DEF ScheduleInv, Queue, Proposing
<1>4. ASSUME NEW q \in Run PROVE Holds(q)'
  <2>1. Holds(q) /\ run'[q].tip = run[q].tip
    BY ScoutedRuns DEF ScheduleInv
  <2>2. CASE q = current
    <3>1. ~ (q > triggered) /\ q \notin branches \cup offered
      BY <1>3, <2>1, <2>2, RunsAreNumbered DEF Holds
    <3>2. q # waiting
      BY <1>3, <2>2 DEF ScheduleInv, Queue
    <3> QED
      BY <1>1, <1>2, <2>1, <2>2, <3>1, <3>2 DEF Holds
  <2>3. CASE q # current
    BY <1>1, <2>1, <2>3, ScoutedRuns DEF Holds
  <2> QED
    BY <2>2, <2>3
<1>5. Queue'
  BY <1>1, <1>2, <1>3, ScoutedRuns DEF ScheduleInv, Queue, Proposing
<1> QED
  BY <1>1, <1>2, <1>4, <1>5 DEF ScheduleInv, Repository

\* The run in progress ends, or a run that failed goes on with its second job:
\* of the runs, an outcome changes.
LEMMA OutcomeKeeps ==
  ASSUME ScheduleInv, NEW c \in Run, c # waiting, c <= triggered,
         NEW o \in Outcome, run' = [run EXCEPT ![c].outcome = o],
         UNCHANGED <<branches, triggered, waiting>>,
         offered \subseteq offered',
         \A r \in Run : r \in offered' => r \in offered \/ run[r].written
  PROVE  run' \in [Run -> RunRecord] /\ \A r \in Run : Holds(r)'
<1>1. ASSUME NEW q \in Run PROVE Holds(q)'
  <2>1. Holds(q) /\ q \in Nat
    BY RunsAreNumbered DEF ScheduleInv
  <2>2. /\ q # c => run'[q] = run[q]
        /\ run'[q].tip = run[q].tip /\ run'[q].written = run[q].written
        /\ run'[q].found = run[q].found
        /\ run'[q].new_sources = run[q].new_sources
        /\ run'[q].new_prior = run[q].new_prior
    BY OutcomeOnly
  <2>3. q > triggered => q # c
    BY RunsAreNumbered
  <2> QED
    BY <2>1, <2>2, <2>3 DEF Holds
<1> QED
  BY <1>1, OutcomeOnly

LEMMA EndKeeps ==
  ASSUME ScheduleInv, Create \/ Fail
  PROVE  ScheduleInv'
<1>1. current \in Run /\ current # waiting /\ current <= triggered
  BY RunsAreNumbered DEF Create, Fail, ScheduleInv, Queue
<1>2. /\ \E o \in Outcome : run' = [run EXCEPT ![current].outcome = o]
      /\ current' = 0 /\ at' = "idle"
      /\ UNCHANGED <<main, sources, branches, triggered, waiting>>
  BY DEF Create, Fail, End, Outcome
<1>3. \/ UNCHANGED <<pulls, offered>>
      \/ /\ pulls' = pulls \cup {current} /\ offered' = offered \cup {current}
         /\ current \in branches /\ run[current].written
  BY <1>1 DEF Create, Fail, ScheduleInv, Holds
<1>4. run' \in [Run -> RunRecord] /\ \A r \in Run : Holds(r)'
  BY <1>1, <1>2, <1>3, OutcomeKeeps
<1>5. Queue'
  BY <1>2 DEF ScheduleInv, Queue
<1>6. Repository'
  BY <1>1, <1>2, <1>3 DEF ScheduleInv, Repository
<1> QED
  BY <1>4, <1>5, <1>6 DEF ScheduleInv

LEMMA RerunKeeps ==
  ASSUME ScheduleInv, NEW r \in Run, Rerun(r)
  PROVE  ScheduleInv'
<1>1. /\ waiting = 0 /\ run[r].outcome = "failed" /\ run[r].written
      /\ current' = r /\ at' = "propose"
      /\ run' = [run EXCEPT ![r].outcome = "none"]
      /\ UNCHANGED <<main, sources, branches, pulls, offered, triggered, waiting>>
  BY DEF Rerun
<1>2. r \in Nat /\ r # 0 /\ r <= triggered
  BY <1>1, NothingHeld, RunsAreNumbered DEF ScheduleInv, Holds
<1>3. "none" \in Outcome
  BY DEF Outcome
<1>4. run' \in [Run -> RunRecord] /\ \A q \in Run : Holds(q)'
  BY <1>1, <1>2, <1>3, OutcomeKeeps
<1>5. run'[r].written
  BY <1>1, <1>3, OutcomeOnly
<1>6. Queue'
  BY <1>1, <1>2, <1>5, RunsAreNumbered DEF ScheduleInv, Queue, Proposing
<1> QED
  BY <1>1, <1>4, <1>6 DEF ScheduleInv, Repository

LEMMA PushKeeps ==
  ASSUME ScheduleInv, Push
  PROVE  ScheduleInv'
<1>1. /\ at = "propose" /\ at' = "create" /\ branches' = branches \cup {current}
      /\ UNCHANGED <<main, sources, pulls, offered, triggered, waiting, current, run>>
  BY DEF Push
<1>2. current # 0 /\ run[current].written
  BY <1>1 DEF ScheduleInv, Queue, Proposing
<1>3. current \in Run
  BY <1>2, RunsAreNumbered
<1>4. \A q \in Run : Holds(q)'
  BY <1>1, <1>2 DEF ScheduleInv, Holds
<1>5. Queue'
  BY <1>1, <1>2 DEF ScheduleInv, Queue, Proposing
<1> QED
  BY <1>1, <1>3, <1>4, <1>5 DEF ScheduleInv, Repository

\* What people do to the repository.
People == \/ \E r \in Run : Merge(r) \/ Close(r) \/ DeleteBranch(r)
          \/ \E d \in Document : Promote(d)

LEMMA PeopleOnly ==
  ASSUME ScheduleInv, People
  PROVE  /\ UNCHANGED <<offered, triggered, waiting, current, at, run>>
         /\ branches' \subseteq branches
         /\ Repository'
<1>1. CASE \E r \in Run : Merge(r)
  <2>1. PICK r \in Run : Merge(r)
    BY <1>1
  <2>2. r \in offered /\ Tree(r) \subseteq offered
    BY <2>1 DEF Merge, Tree, ScheduleInv, Holds, Repository
  <2> QED
    BY <2>1, <2>2 DEF Merge, ScheduleInv, Repository
<1>2. CASE \E r \in Run : Close(r) \/ DeleteBranch(r)
  BY <1>2 DEF Close, DeleteBranch, ScheduleInv, Repository
<1>3. CASE \E d \in Document : Promote(d)
  BY <1>3 DEF Promote, ScheduleInv, Repository
<1> QED
  BY <1>1, <1>2, <1>3 DEF People

LEMMA PeopleKeep ==
  ASSUME ScheduleInv, People
  PROVE  ScheduleInv'
<1>1. \A q \in Run : Holds(q)'
  BY PeopleOnly DEF ScheduleInv, Holds
<1>2. Queue'
  BY PeopleOnly DEF ScheduleInv, Queue, Proposing
<1> QED
  BY <1>1, <1>2, PeopleOnly DEF ScheduleInv

LEMMA StepKeepsSchedule ==
  ASSUME ScheduleInv, [Next]_vars
  PROVE  ScheduleInv'
<1>1. CASE UNCHANGED vars
  BY <1>1 DEF vars, ScheduleInv, Holds, Repository, Queue, Proposing
<1>2. CASE Next
  BY <1>2, TriggerKeeps, StartKeeps, CollectKeeps, ScoutKeeps, PushKeeps,
     EndKeeps, RerunKeeps, PeopleKeep DEF Next, People
<1> QED
  BY <1>1, <1>2

LEMMA StartIsScheduled == Init => ScheduleInv
<1> SUFFICES ASSUME Init PROVE ScheduleInv
  OBVIOUS
<1>1. NoRun \in RunRecord
  BY DEF NoRun, RunRecord, Option, Outcome
<1>2. Queue
  BY RunsAssumption DEF Init, Queue
<1>3. \A r \in Run : Holds(r)
  BY NothingHeld DEF Init, Holds, Run
<1> QED
  BY <1>1, <1>2, <1>3 DEF Init, ScheduleInv, Repository

(* Whatever runs wait, fail, are run again or are cancelled, and whatever  *)
(* people merge, close and delete meanwhile: what is open or merged was    *)
(* offered and has a digest, and a digest calls new only what it found.    *)
THEOREM ScheduleTypeCorrect == Spec => []ScheduleTypeOK
<1>1. ScheduleInv /\ [Next]_vars => ScheduleInv'
  BY StepKeepsSchedule
<1>2. ScheduleInv => ScheduleTypeOK
  <2> SUFFICES ASSUME ScheduleInv PROVE ScheduleTypeOK
    OBVIOUS
  <2>1. \A r \in Run :
          /\ run[r].outcome \in Outcome
          /\ run[r].new_sources \cup run[r].new_prior \subseteq run[r].found
          /\ r \in branches \cup offered => run[r].written
    BY DEF ScheduleInv, Holds, RunRecord
  <2> QED
    BY <2>1 DEF ScheduleInv, Repository, Queue, ScheduleTypeOK
<1> QED
  BY <1>1, <1>2, StartIsScheduled, PTL DEF Spec

-----------------------------------------------------------------------------
(* What a run sets aside                                                   *)

\* A digest that people saw, or whose run failed after its first job or is
\* at its second.
Seen(q) ==
  \/ q \in offered
  \/ run[q].outcome = "failed"
  \/ q = current /\ Proposing

\* What is on a branch was seen, and so was what the run about to look has
\* collected, which leaves out nothing that is on a branch, if it could read
\* them.
MemoryInv ==
  /\ \A b \in branches : Seen(b)
  /\ at = "scout" =>
       /\ \A q \in run[current].collected : run[q].written /\ Seen(q)
       /\ run[current].fetched => OnBranches \subseteq run[current].collected

\* What a run set aside is like something another run had found, and that run
\* was seen.
AsideInv ==
  \A r \in Run : \A d \in run[r].found \ run[r].new_prior :
    \E q \in Run : /\ q # r
                   /\ run[q].written
                   /\ Alike(d) \cap run[q].found # {}
                   /\ Seen(q)

\* A digest that was written stays as it is, and seen where it was.
LEMMA DigestStays ==
  ASSUME ScheduleInv, [Next]_vars, NEW q \in Run, run[q].written
  PROVE  /\ run'[q].written /\ run'[q].found = run[q].found
         /\ run'[q].tip = run[q].tip /\ run'[q].new_prior = run[q].new_prior
         /\ Seen(q) => Seen(q)'
<1>1. CASE UNCHANGED vars
  BY <1>1 DEF vars, Seen, Proposing
<1>2. ASSUME NEW o \in Option, Trigger(o)
      PROVE  run'[q] = run[q] /\ UNCHANGED <<offered, current, at>>
  <2>1. q # triggered + 1
    <3>1. triggered + 1 > triggered
      BY RunsAreNumbered
    <3> QED
      BY <3>1, NothingHeld DEF ScheduleInv, Holds
  <2>2. q # waiting
    BY DEF ScheduleInv, Holds
  <2> QED
    BY <1>2, <2>1, <2>2, TriggeredRuns DEF Trigger
<1>3. CASE Start
  BY <1>3 DEF Start, Seen, ScheduleInv, Queue, Proposing
<1>4. CASE Collect
  BY <1>4, CollectedRuns DEF Collect, Seen, Proposing
<1>5. ASSUME NEW found \in SUBSET Document, Scout(found)
      PROVE  run'[q] = run[q] /\ offered' = offered /\ ~Proposing
  <2>1. ~Proposing /\ current # 0 /\ offered' = offered
    BY <1>5 DEF Scout, Proposing, ScheduleInv, Queue
  <2>2. q # current
    BY <2>1 DEF ScheduleInv, Queue
  <2> QED
    BY <1>5, <2>1, <2>2, ScoutedRuns
<1>6. CASE Push
  BY <1>6 DEF Push, Seen, Proposing
<1>7. CASE Create \/ Fail
  <2>1. PICK o \in Outcome :
          /\ run' = [run EXCEPT ![current].outcome = o]
          /\ o = "failed" \/ current \in offered'
    BY <1>7 DEF Create, Fail, End, Outcome
  <2>2. current \in Run
    BY <1>7, RunsAreNumbered DEF Create, Fail, ScheduleInv, Queue
  <2>3. run'[current].outcome = o /\ (q # current => run'[q] = run[q])
        /\ run'[q].written /\ run'[q].found = run[q].found
        /\ run'[q].tip = run[q].tip /\ run'[q].new_prior = run[q].new_prior
    <3>1. /\ run'[current].outcome = o
          /\ \A c \in Run : /\ c # current => run'[c] = run[c]
                            /\ run'[c].tip = run[c].tip
                            /\ run'[c].written = run[c].written
                            /\ run'[c].found = run[c].found
                            /\ run'[c].new_prior = run[c].new_prior
      BY <2>1, <2>2, OutcomeOnly
    <3> QED
      BY <3>1
  <2>4. offered \subseteq offered'
    BY <1>7 DEF Create, Fail
  <2> QED
    BY <2>1, <2>3, <2>4 DEF Seen
<1>8. ASSUME NEW r \in Run, Rerun(r)
      PROVE  /\ run'[q].written /\ run'[q].found = run[q].found
             /\ run'[q].tip = run[q].tip /\ run'[q].new_prior = run[q].new_prior
             /\ Seen(q) => Seen(q)'
  <2>1. run' = [run EXCEPT ![r].outcome = "none"] /\ "none" \in Outcome
        /\ offered' = offered /\ current = 0 /\ current' = r /\ at' = "propose"
    BY <1>8 DEF Rerun, Outcome
  <2>2. (q # r => run'[q] = run[q])
        /\ run'[q].written /\ run'[q].found = run[q].found
        /\ run'[q].tip = run[q].tip /\ run'[q].new_prior = run[q].new_prior
    BY <2>1, OutcomeOnly
  <2>3. q # current
    BY <2>1, RunsAreNumbered
  <2> QED
    BY <2>1, <2>2, <2>3 DEF Seen, Proposing
<1>9. CASE People
  BY <1>9, PeopleOnly DEF Seen, Proposing
<1>10. CASE \E o \in Option : Trigger(o)
  BY <1>2, <1>10 DEF Seen, Proposing
<1>11. CASE \E found \in SUBSET Document : Scout(found)
  BY <1>5, <1>11 DEF Seen
<1> QED
  BY <1>1, <1>3, <1>4, <1>6, <1>7, <1>8, <1>9, <1>10, <1>11 DEF Next, People

\* While a run looks, no branch is pushed and it keeps what it has collected.
LEMMA LookingGoesOn ==
  ASSUME ScheduleInv, [Next]_vars, at' = "scout"
  PROVE  \/ Collect
         \/ /\ at = "scout" /\ current' = current
            /\ run'[current].collected = run[current].collected
            /\ run'[current].fetched = run[current].fetched
            /\ branches' \subseteq branches
<1>1. CASE UNCHANGED vars
  BY <1>1 DEF vars
<1>2. ASSUME NEW o \in Option, Trigger(o)
      PROVE  /\ at = "scout" /\ current' = current
             /\ run'[current].collected = run[current].collected
             /\ run'[current].fetched = run[current].fetched
             /\ branches' = branches
  <2>1. at = "scout" /\ current' = current /\ branches' = branches
    BY <1>2 DEF Trigger
  <2>2. current \in Run /\ current # triggered + 1
    BY <2>1, RunsAreNumbered DEF ScheduleInv, Queue
  <2> QED
    BY <1>2, <2>1, <2>2, TriggeredRuns
<1>3. CASE People
  BY <1>3, PeopleOnly
<1>4. ~Start /\ ~Push /\ ~Create /\ ~Fail
  BY DEF Start, Push, Create, Fail, End
<1>5. \A found \in SUBSET Document : ~Scout(found)
  BY ScoutedRuns
<1>6. \A r \in Run : ~Rerun(r)
  BY DEF Rerun
<1> QED
  BY <1>1, <1>2, <1>3, <1>4, <1>5, <1>6 DEF Next, People

\* The digests on the branches were written, and seen if the branches were.
LEMMA BranchesAreSeen ==
  ASSUME ScheduleInv, MemoryInv, NEW q \in OnBranches
  PROVE  q \in Run /\ run[q].written /\ Seen(q)
<1>1. PICK b \in branches : q = b \/ q \in run[b].tip
  BY DEF OnBranches, Tree
<1>2. b \in Run /\ run[b].tip \subseteq offered /\ Seen(b)
  BY DEF ScheduleInv, Repository, Holds, MemoryInv
<1>3. q \in branches \cup offered /\ q \in Run /\ Seen(q)
  BY <1>1, <1>2 DEF Seen, ScheduleInv, Repository
<1> QED
  BY <1>3 DEF ScheduleInv, Holds

\* What a branch holds stays, so that fewer branches hold no more.
LEMMA FewerBranches ==
  ASSUME branches' \subseteq branches,
         \A b \in branches : run'[b].tip = run[b].tip
  PROVE  OnBranches' \subseteq OnBranches
<1> SUFFICES ASSUME NEW q \in OnBranches' PROVE q \in OnBranches
  OBVIOUS
<1>1. PICK b \in branches' : q \in Tree(b)'
  BY DEF OnBranches
<1>2. q \in Tree(b)
  BY <1>1 DEF Tree
<1> QED
  BY <1>1, <1>2 DEF OnBranches

LEMMA MemoryStep ==
  ASSUME ScheduleInv, MemoryInv, [Next]_vars
  PROVE  MemoryInv'
<1>1. ASSUME NEW b \in branches' PROVE Seen(b)'
  <2>1. CASE b \in branches
    <3>1. b \in Run /\ run[b].written /\ Seen(b)
      BY <2>1 DEF ScheduleInv, Repository, Holds, MemoryInv
    <3> QED
      BY <3>1, DigestStays
  <2>2. CASE b \notin branches
    <3>1. Push
      BY <2>2, PeopleOnly DEF Next, vars, Trigger, Start, Collect, Scout, Create,
         Fail, Rerun, People
    <3> QED
      BY <2>2, <3>1 DEF Push, Seen, Proposing
  <2> QED
    BY <2>1, <2>2
<1>2. ASSUME at' = "scout"
      PROVE  /\ \A q \in run'[current'].collected : run'[q].written /\ Seen(q)'
             /\ run'[current'].fetched => OnBranches' \subseteq run'[current'].collected
  <2>1. CASE Collect
    <3>1. /\ current' = current
          /\ branches' = branches
          /\ run'[current].collected \subseteq OnBranches
          /\ run'[current].fetched => run'[current].collected = OnBranches
      BY <2>1, CollectedRuns DEF Collect
    <3>2. OnBranches' \subseteq OnBranches
      <4>1. \A b \in branches : run'[b].tip = run[b].tip
        BY <2>1, CollectedRuns DEF ScheduleInv, Repository
      <4> QED
        BY <3>1, <4>1, FewerBranches
    <3>3. \A q \in OnBranches : run'[q].written /\ Seen(q)'
      BY BranchesAreSeen, DigestStays
    <3>4. /\ run'[current'].collected \subseteq OnBranches
          /\ run'[current'].fetched => run'[current'].collected = OnBranches
      BY <3>1
    <3>5. \A q \in run'[current'].collected : run'[q].written /\ Seen(q)'
      BY <3>3, <3>4, Zenon
    <3> QED
      BY <3>2, <3>4, <3>5, Zenon
  <2>2. CASE /\ at = "scout" /\ current' = current
             /\ run'[current].collected = run[current].collected
             /\ run'[current].fetched = run[current].fetched
             /\ branches' \subseteq branches
    <3>1. \A q \in run[current].collected : q \in Run /\ run[q].written /\ Seen(q)
      <4>1. current \in Run
        BY <2>2, RunsAreNumbered DEF ScheduleInv, Queue
      <4>2. run[current].collected \subseteq Run
        BY <4>1 DEF ScheduleInv, RunRecord
      <4> QED
        BY <2>2, <4>2 DEF MemoryInv
    <3>2. OnBranches' \subseteq OnBranches
      <4>1. \A b \in branches : run'[b].tip = run[b].tip
        BY DigestStays DEF ScheduleInv, Repository, Holds
      <4> QED
        BY <2>2, <4>1, FewerBranches
    <3>3. \A q \in run[current].collected : run'[q].written /\ Seen(q)'
      BY <3>1, DigestStays
    <3> QED
      BY <2>2, <3>2, <3>3 DEF MemoryInv
  <2> QED
    BY <1>2, <2>1, <2>2, LookingGoesOn
<1> QED
  BY <1>1, <1>2 DEF MemoryInv

\* What a run sets aside is like something in a digest it could read.
LEMMA AsideAtOnce ==
  ASSUME ScheduleInv, MemoryInv, NEW found \in SUBSET Document, Scout(found),
         NEW d \in found \ run'[current].new_prior
  PROVE  \E q \in Run : /\ q # current
                        /\ run[q].written
                        /\ Alike(d) \cap run[q].found # {}
                        /\ Seen(q)
<1>1. current \in Run /\ run'[current].new_prior = Unmatched(found, Prior(current))
  BY ScoutedRuns
<1>2. Alike(d) \cap Prior(current) # {}
  BY <1>1 DEF Unmatched
<1>3. PICK q \in run[current].tip \cup run[current].collected :
        Alike(d) \cap run[q].found # {}
  BY <1>2 DEF Prior
<1>4. at = "scout" /\ current # 0
  BY DEF Scout, ScheduleInv, Queue
<1>5. run[current].tip \subseteq offered /\ run[current].collected \subseteq Run
      /\ offered \subseteq Run
  BY <1>1 DEF ScheduleInv, Holds, Repository, RunRecord
<1>6. q \in Run /\ run[q].written /\ Seen(q)
  <2>1. CASE q \in run[current].tip
    BY <1>5, <2>1 DEF ScheduleInv, Holds, Seen
  <2>2. CASE q \in run[current].collected
    BY <1>4, <1>5, <2>2 DEF MemoryInv
  <2> QED
    BY <2>1, <2>2
<1>7. q # current
  BY <1>4, <1>6 DEF ScheduleInv, Queue, Proposing
<1> QED
  BY <1>3, <1>6, <1>7

\* Nothing but the first job changes what a run found, or finds more of it new.
LEMMA OnlyTheScoutFinds ==
  ASSUME ScheduleInv, [Next]_vars, NEW r \in Run,
         \/ run'[r].found # run[r].found /\ run[r].found = {}
         \/ run'[r].new_prior \ run[r].new_prior # {}
  PROVE  r = current /\ \E found \in SUBSET Document : Scout(found)
<1>1. run'[r].found # run[r].found \/ run'[r].new_prior # run[r].new_prior
  OBVIOUS
<1>2. ASSUME NEW o \in Option, Trigger(o) PROVE FALSE
  <2>1. CASE r = triggered + 1
    BY <1>2, <2>1, TriggeredRuns DEF NoRun
  <2>2. CASE r # triggered + 1
    BY <1>1, <1>2, <2>2, TriggeredRuns
  <2> QED
    BY <2>1, <2>2
<1>3. ~Collect
  BY <1>1, CollectedRuns
<1>4. ASSUME NEW c \in Run, NEW o \in Outcome,
             run' = [run EXCEPT ![c].outcome = o]
      PROVE  FALSE
  BY <1>1, <1>4, OutcomeOnly
<1>5. ~Create /\ ~Fail
  <2>1. Create \/ Fail => current \in Run
    BY RunsAreNumbered DEF Create, Fail, ScheduleInv, Queue
  <2> QED
    BY <1>4, <2>1 DEF Create, Fail, End, Outcome
<1>6. \A c \in Run : ~Rerun(c)
  BY <1>4 DEF Rerun, Outcome
<1>7. ~Start /\ ~Push /\ ~People /\ ~UNCHANGED vars
  BY <1>1, PeopleOnly DEF Start, Push, vars
<1>8. \E found \in SUBSET Document : Scout(found)
  BY <1>2, <1>3, <1>5, <1>6, <1>7 DEF Next, People
<1> QED
  BY <1>1, <1>8, ScoutedRuns

LEMMA AsideStep ==
  ASSUME ScheduleInv, MemoryInv, AsideInv, [Next]_vars
  PROVE  AsideInv'
<1> SUFFICES ASSUME NEW r \in Run, NEW d \in run'[r].found \ run'[r].new_prior
             PROVE  \E q \in Run : /\ q # r
                                   /\ run[q].written
                                   /\ Alike(d) \cap run[q].found # {}
                                   /\ Seen(q)
  <2>1. \A q \in Run : run[q].written =>
          /\ run'[q].written /\ run'[q].found = run[q].found
          /\ Seen(q) => Seen(q)'
    BY DigestStays
  <2> QED
    BY <2>1 DEF AsideInv, Alike
<1>1. CASE run[r].written
  BY <1>1, DigestStays DEF AsideInv
<1>2. CASE ~run[r].written
  <2>1. run[r].found = {}
    BY <1>2 DEF ScheduleInv, Holds
  <2>2. PICK found \in SUBSET Document : Scout(found) /\ r = current
    BY <2>1, OnlyTheScoutFinds
  <2>3. run'[r].found = found
    BY <2>2, ScoutedRuns
  <2> QED
    BY <2>2, <2>3, AsideAtOnce
<1> QED
  BY <1>1, <1>2

LEMMA ScheduleHolds == Spec => [](ScheduleInv /\ MemoryInv /\ AsideInv)
<1>1. Init => MemoryInv /\ AsideInv
  BY NothingHeld DEF Init, MemoryInv, AsideInv
<1> QED
  BY <1>1, StartIsScheduled, StepKeepsSchedule, MemoryStep, AsideStep, PTL DEF Spec

(* A document a run set aside as proposed before was before people, itself *)
(* or one with its title, unless the run that found it failed to open its  *)
(* pull request or is about to: for any documents and any number of runs,  *)
(* whatever is merged, closed, deleted, cancelled or run again meanwhile.  *)
THEOREM AsideWasOffered == Spec => []SetAsideWasOffered
<1>1. AsideInv => SetAsideWasOffered
  BY DEF AsideInv, Seen, SetAsideWasOffered
<1> QED
  BY <1>1, ScheduleHolds, PTL

(* A document called new against the earlier digests is like none in any   *)
(* digest the repository holds as the report is written, on main or on a   *)
(* branch, unless that digest came to main by a merge after the run was    *)
(* triggered and its branch is gone.                                       *)
THEOREM NewIsNew == Spec => NewToTheMemory
<1>1. ScheduleInv /\ MemoryInv /\ [Next]_vars =>
        [current # 0 /\ run[current].fetched =>
           \A d \in run'[current].new_prior \ run[current].new_prior :
             \A q \in main \cup OnBranches :
               Alike(d) \cap run[q].found # {} =>
                 q \in main \ (OnBranches \cup run[current].tip)]_vars
  <2> SUFFICES ASSUME ScheduleInv, MemoryInv, [Next]_vars,
                      current # 0, run[current].fetched,
                      NEW d \in run'[current].new_prior \ run[current].new_prior,
                      NEW q \in main \cup OnBranches,
                      Alike(d) \cap run[q].found # {}
               PROVE  q \in main \ (OnBranches \cup run[current].tip)
    OBVIOUS
  <2>1. current \in Run
    BY RunsAreNumbered
  <2>2. PICK found \in SUBSET Document : Scout(found)
    BY <2>1, OnlyTheScoutFinds
  <2>3. at = "scout" /\ d \in Unmatched(found, Prior(current))
    <3>1. at = "scout"
      BY <2>2 DEF Scout
    <3>2. run'[current].new_prior = Unmatched(found, Prior(current))
      BY <2>2, ScoutedRuns
    <3> QED
      BY <3>1, <3>2
  <2>4. Alike(d) \cap Prior(current) = {}
    BY <2>3 DEF Unmatched
  <2>5. q \notin run[current].tip \cup run[current].collected
    BY <2>4 DEF Prior
  <2>6. OnBranches \subseteq run[current].collected
    BY <2>3 DEF MemoryInv
  <2> QED
    BY <2>5, <2>6
<1> QED
  BY <1>1, ScheduleHolds, PTL DEF Spec, NewToTheMemory
=============================================================================
