--------------------------- MODULE ImprovementLoop ---------------------------
(***************************************************************************)
(* The continuous improvement loop (agent/improve): a cycle runs its       *)
(* observers one after another over a tree people change meanwhile,        *)
(* compares what they found with the cycle recorded before it, and may     *)
(* append itself to the cycle ledger.  Several processes may be in a       *)
(* cycle at once, and each may stop anywhere, in the middle of a line too. *)
(*                                                                         *)
(* An entry is known by the instant its cycle began, recorded_at; no two   *)
(* cycles begin in one.  A finding is its observer and what it is about:   *)
(* its id is made of nothing else.                                         *)
(*                                                                         *)
(* Four observers stand for the eight.  "depth" reads the corpus as it was *)
(* when the pass began, "data-proposals" what "depth" found, "ux" the tree *)
(* when its turn comes, as "architect" does.  "editorial" is of two        *)
(* moments: it holds the labels in the pages, when its turn comes, against *)
(* the claims of the corpus as it was; what it finds in pages alone is as  *)
(* with "ux".  Those that read signals find nothing.                       *)
(*                                                                         *)
(* Not here: triage, the signals, storing the records, and lines that git  *)
(* merges into the ledger from another clone.                              *)
(***************************************************************************)
EXTENDS Integers, Sequences, FiniteSets

CONSTANTS
  Process,
  Gap,         \* what may be missing in the corpus
  Proposable,  \* the gaps the router can propose something for
  Flaw,        \* what may be wrong in the pages
  Box,         \* the boxes of the pages
  Label,       \* what a page can say of a box: its label and whose claims it has
  Borne,       \* the sets of these that claims can bear out
  AtFirst,     \* what is missing and wrong when the loop is first run
  MaxCycles,   \* bound: cycles
  MaxChanges   \* bound: times somebody mends the tree or breaks it

ASSUME GapsAssumption ==
  Proposable \subseteq Gap /\ Gap \cap Flaw = {} /\ Box \cap (Gap \cup Flaw) = {}
ASSUME AtFirstAssumption == AtFirst \subseteq Gap \cup Flaw
ASSUME BorneAssumption == Borne \subseteq SUBSET Label
ASSUME BoundsAssumption == {MaxCycles, MaxChanges} \subseteq Nat

Defect == Gap \cup Flaw \cup Box
Observer == {"depth", "data-proposals", "editorial", "ux"}
BoxState == [label : Label, claims : Borne]
Finding == [observer : Observer, about : Defect]
Instant == 0..MaxCycles

\* What a cycle says moved against the entry `previous` (0: there is none).
\* History: `lines`, how many there were in the ledger when it looked, `real`,
\* the findings that did move as it says, and `mixed`, those about a box that
\* one of the two passes mixed up.
Report == [previous : Instant, new : SUBSET Finding, resolved : SUBSET Finding,
           lines : 0..MaxCycles, real : SUBSET Finding, mixed : SUBSET Finding]

\* `ran`, `found`: coverage and findings.  History: `at_times` and
\* `not_always`, what was in the tree at some time of the pass, and what was
\* not; the boxes that had another label and other claims when "editorial"
\* had its turn than when the pass began; and what the cycle reported.
Entry == [recorded_at : Instant, ran : SUBSET Observer,
          found : SUBSET Finding, at_times : SUBSET Defect,
          not_always : SUBSET Defect, mixed : SUBSET Box,
          report : Report]

VARIABLES
  defects,  \* what is missing in the corpus and wrong in the pages
  boxes,    \* boxes[b]: the label of box b, and the labels its claims bear out
  changes,  \* how often people changed the tree
  clock,
  ledger,   \* the lines of cycles.jsonl: entries, and what is not JSON
  ended,    \* the ledger is empty, or its last line ends with a newline
  pc,
  wanted,   \* wanted[p]: the observers p has still to run
  corpus,   \* corpus[p]: the gaps of the corpus p loaded, for as long as it
            \* reads them
  held,     \* held[p]: the boxes as they were then; p has loaded the claims, the
            \* labels are history
  pass      \* pass[p]: the entry p has so far

tree == <<defects, boxes, changes>>
vars == <<tree, clock, ledger, ended, pc, wanted, corpus, held, pass>>

\* What is wrong with the tree; a box is where its label and claims disagree
\* (stateOfBlock).
Wrong == defects \cup {b \in Box : boxes[b].label \notin boxes[b].claims}

NoReport ==
  [previous |-> 0, new |-> {}, resolved |-> {}, lines |-> 0, real |-> {},
   mixed |-> {}]

PassOf(at, wrong) ==
  [recorded_at |-> at, ran |-> {}, found |-> {}, at_times |-> wrong,
   not_always |-> Defect \ wrong, mixed |-> {}, report |-> NoReport]

\* A line that is not JSON, and the pass of a process that is in none.
Malformed == PassOf(0, {})

-----------------------------------------------------------------------------
(* The ledger and what is read from it                                     *)

\* readCycles: the positions of the lines that parse.
Readable == {i \in DOMAIN ledger : ledger[i] # Malformed}

\* Mutant: the previous cycle is the previous one in which everything ran.
PreviousComplete(now) ==
  LET earlier == {ledger[i] : i \in {j \in Readable :
                    ledger[j].recorded_at < now /\ ledger[j].ran = Observer}}
  IN  {e \in earlier : \A o \in earlier : o.recorded_at <= e.recorded_at}

\* previousCycle, by recorded_at and not by line: none or one.
Previous(now) ==
  LET earlier == {ledger[i] : i \in {j \in Readable :
                                       ledger[j].recorded_at < now}}
  IN  {e \in earlier : \A o \in earlier : o.recorded_at <= e.recorded_at}

\* appendFileSync: what follows a line without its newline becomes part of it.
AppendLine(line, newline) ==
  /\ ledger' = IF ended THEN Append(ledger, line)
                        ELSE [ledger EXCEPT ![Len(ledger)] = Malformed]
  /\ ended' = newline

\* Mutant: an observer that did not run is one that found nothing.
ComparableIfItRanBefore(e, prev) == prev.ran

\* The observers a movement can be told of: those that ran in both.
Comparable(e, prev) == e.ran \cap prev.ran

\* movement: what is there and was not, and what was there and is not.
Appeared(e, prev) ==
  {f \in e.found \ prev.found : f.observer \in Comparable(e, prev)}
Disappeared(e, prev) ==
  {f \in prev.found \ e.found : f.observer \in Comparable(e, prev)}

\* The moves that took place: what was in the tree at some time of one pass,
\* and at some time of the other was not.
Moved(e, prev) ==
  {f \in Appeared(e, prev) : f.about \in prev.not_always \cap e.at_times}
    \cup {f \in Disappeared(e, prev) :
            f.about \in prev.at_times \cap e.not_always}

\* The moves that may not have taken place.
MovedMixed(e, prev) ==
  {f \in Appeared(e, prev) \cup Disappeared(e, prev) :
     f.observer = "editorial" /\ f.about \in e.mixed \cup prev.mixed}

ReportOn(e, prev) ==
  [previous |-> prev.recorded_at, new |-> Appeared(e, prev),
   resolved |-> Disappeared(e, prev), lines |-> Len(ledger),
   real |-> Moved(e, prev), mixed |-> MovedMixed(e, prev)]

-----------------------------------------------------------------------------
(* A cycle                                                                 *)

\* People change the tree, and a pass under way comes to see it.
TheTreeChanges ==
  /\ changes < MaxChanges
  /\ changes' = changes + 1
  /\ pass' = [p \in Process |->
                IF pc[p] # "observing" THEN pass[p]
                ELSE [pass[p] EXCEPT !.at_times = @ \cup Wrong',
                                     !.not_always = @ \cup (Defect \ Wrong')]]
  /\ UNCHANGED <<clock, ledger, ended, pc, wanted, corpus, held>>

\* They mend it and break it.
Change(d) ==
  /\ defects' = IF d \in defects THEN defects \ {d} ELSE defects \cup {d}
  /\ UNCHANGED boxes
  /\ TheTreeChanges

\* They change what a page calls a box, the claims of it, or both at once.
Reword(b, state) ==
  /\ boxes[b] # state
  /\ boxes' = [boxes EXCEPT ![b] = state]
  /\ UNCHANGED defects
  /\ TheTreeChanges

\* runImprovementCycle takes the time, observe loads the corpus.
Begin(p) ==
  /\ pc[p] = "idle"
  /\ clock < MaxCycles
  /\ clock' = clock + 1
  /\ pc' = [pc EXCEPT ![p] = "observing"]
  /\ wanted' = [wanted EXCEPT ![p] = Observer]
  /\ corpus' = [corpus EXCEPT ![p] = defects \cap Gap]
  /\ held' = [held EXCEPT ![p] = boxes]
  /\ pass' = [pass EXCEPT ![p] = PassOf(clock + 1, Wrong)]
  /\ UNCHANGED <<tree, ledger, ended>>

\* It is o's turn: the observers run in the order they are listed.
Turn(p, o) ==
  /\ pc[p] = "observing"
  /\ o \in wanted[p]
  /\ o # "depth" => "depth" \notin wanted[p]
  /\ o \in {"editorial", "ux"} => "data-proposals" \notin wanted[p]
  /\ o = "ux" => "editorial" \notin wanted[p]
  /\ wanted' = [wanted EXCEPT ![p] = @ \ {o}]
  /\ corpus' = [corpus EXCEPT ![p] = IF o = "depth" THEN {} ELSE @]
  /\ held' = [held EXCEPT ![p] = IF o = "editorial" THEN <<>> ELSE @]
  /\ UNCHANGED <<tree, clock, ledger, ended, pc>>

\* History: the boxes of which the label and the claims are both other ones.
Mixed(p) == {b \in Box : /\ held[p][b].label # boxes[b].label
                         /\ held[p][b].claims # boxes[b].claims}

\* harvest, of an observer that comes to its end.
Ran(p, o, what) ==
  pass' = [pass EXCEPT ![p].ran = @ \cup {o},
                       ![p].found = @ \cup [observer : {o}, about : what],
                       ![p].mixed = IF o = "editorial" THEN @ \cup Mixed(p) ELSE @]

\* Mutant: an observer that throws leaves what it had found.
FoundUntilItThrew(p, o) ==
  /\ Turn(p, o)
  /\ pass' = [pass EXCEPT ![p].found = @ \cup [observer : {o}, about : corpus[p]]]

\* --only leaves the observer out, or it throws: nothing of what it had found
\* is kept.
DoesNotRun(p, o) == Turn(p, o) /\ UNCHANGED pass

Depth(p) == Turn(p, "depth") /\ Ran(p, "depth", corpus[p])

\* What "depth" found in this pass.
Gaps(p) == {f.about : f \in {g \in pass[p].found : g.observer = "depth"}}

\* Without a gap to route the router is not run.
HasInput(p) == Gaps(p) # {}

DataProposals(p) ==
  /\ Turn(p, "data-proposals")
  /\ IF HasInput(p) THEN Ran(p, "data-proposals", Gaps(p) \cap Proposable)
                    ELSE UNCHANGED pass

\* registerOf: the pages are read now, the claims were read at the start.
Disagreeing(p) == {b \in Box : boxes[b].label \notin held[p][b].claims}

Editorial(p) == Turn(p, "editorial") /\ Ran(p, "editorial", Disagreeing(p))

UX(p) == Turn(p, "ux") /\ Ran(p, "ux", defects \cap Flaw)

\* The previous cycle is looked up and the movement told; against none,
\* nothing is new.
Compare(p) ==
  /\ pc[p] = "observing"
  /\ wanted[p] = {}
  /\ pc' = [pc EXCEPT ![p] = "compared"]
  /\ \/ /\ Previous(pass[p].recorded_at) = {}
        /\ pass' = [pass EXCEPT ![p].report =
                      [NoReport EXCEPT !.lines = Len(ledger)]]
     \/ \E prev \in Previous(pass[p].recorded_at) :
          pass' = [pass EXCEPT ![p].report = ReportOn(pass[p], prev)]
  /\ UNCHANGED <<tree, clock, ledger, ended, wanted, corpus, held>>

Leave(p) ==
  /\ pc' = [pc EXCEPT ![p] = "idle"]
  /\ wanted' = [wanted EXCEPT ![p] = {}]
  /\ corpus' = [corpus EXCEPT ![p] = {}]
  /\ held' = [held EXCEPT ![p] = <<>>]
  /\ pass' = [pass EXCEPT ![p] = Malformed]
  /\ UNCHANGED <<tree, clock>>

\* writeCycle, of a cycle asked to record itself.
WriteCycle(p) ==
  /\ pc[p] = "compared"
  /\ AppendLine(pass[p], TRUE)
  /\ Leave(p)

\* The process stops while it appends: some of the line is there, or all of
\* it but the newline.
StopWriting(p) ==
  /\ pc[p] = "compared"
  /\ \E line \in {pass[p], Malformed} : AppendLine(line, FALSE)
  /\ Leave(p)

\* It is not asked to record itself, what it would write is refused, or it
\* stops: the ledger stays as it is.
NotRecorded(p) ==
  /\ pc[p] # "idle"
  /\ Leave(p)
  /\ UNCHANGED <<ledger, ended>>

-----------------------------------------------------------------------------

Init ==
  /\ defects = AtFirst
  /\ boxes \in [Box -> BoxState]
  /\ changes = 0
  /\ clock = 0
  /\ ledger = <<>> /\ ended = TRUE
  /\ pc = [p \in Process |-> "idle"]
  /\ wanted = [p \in Process |-> {}]
  /\ corpus = [p \in Process |-> {}]
  /\ held = [p \in Process |-> <<>>]
  /\ pass = [p \in Process |-> Malformed]

Next ==
  \/ \E d \in Gap \cup Flaw : Change(d)
  \/ \E b \in Box, state \in BoxState : Reword(b, state)
  \/ \E p \in Process :
       \/ Begin(p)
       \/ Depth(p) \/ DataProposals(p) \/ Editorial(p) \/ UX(p)
       \/ \E o \in Observer : DoesNotRun(p, o)
       \/ Compare(p)
       \/ WriteCycle(p) \/ StopWriting(p) \/ NotRecorded(p)

Spec == Init /\ [][Next]_vars

-----------------------------------------------------------------------------
(* Properties                                                              *)

\* Type invariant: an entry's findings are of observers that ran.
EntryOK(e) == /\ e.recorded_at \in 1..clock
              /\ \A f \in e.found : f.observer \in e.ran

LoopTypeOK ==
  /\ defects \subseteq Gap \cup Flaw
  /\ boxes \in [Box -> BoxState]
  /\ changes \in 0..MaxChanges
  /\ clock \in Instant
  /\ ended \in BOOLEAN
  /\ pc \in [Process -> {"idle", "observing", "compared"}]
  /\ wanted \in [Process -> SUBSET Observer]
  /\ corpus \in [Process -> SUBSET Gap]
  /\ held \in [Process -> [Box -> BoxState] \cup {<<>>}]
  /\ ledger \in Seq(Entry) /\ Len(ledger) <= clock
  /\ \A i \in Readable : EntryOK(ledger[i])
  /\ pass \in [Process -> Entry]
  /\ \A p \in Process : IF pc[p] = "idle" THEN pass[p] = Malformed
                                          ELSE EntryOK(pass[p])

\* "A finding present last cycle and absent this cycle" is called resolved
\* only if it is so (movement.mjs): it was in the tree while the cycle it is
\* compared with looked, and was not at some time while this one did,
\* whatever failed, was left out or had no input in either.  And the other
\* way round for a finding called new.  Not so for a box whose label and claims
\* are both other ones when "editorial" has its turn than they were when the
\* pass began: it holds the new label against the old claims, and the two may
\* have been right at every moment (observe.mjs:289, editorial.mjs:514-515).
MovementIsReal ==
  \A e \in {pass[p] : p \in Process} \cup {ledger[i] : i \in DOMAIN ledger} :
    e.report.new \cup e.report.resolved \subseteq e.report.real \cup e.report.mixed

\* What `history` compares the entry on line i with, going down the file.
Above(i) == {j \in Readable : j < i /\ \A k \in Readable : k < i => k <= j}

\* Another process wrote to the ledger between the comparison of the cycle on
\* line i and its line, or the lines down to it are not in the order in which
\* their cycles began.
Overlapped(i) ==
  LET r == ledger[i].report IN
  \/ r.lines # i - 1
  \/ r.previous # 0 /\ \A j \in Readable : ledger[j].recorded_at # r.previous
  \/ \E j, k \in Readable : /\ j < k /\ k <= i
                            /\ ledger[j].recorded_at > ledger[k].recorded_at

\* `history` goes by lines and a cycle by instants: they tell the same
\* movement of every recorded cycle, through crashes that cut lines short and
\* lines glued to them, unless cycles overlapped (cli.mjs, previousCycle).
HistoryTellsTheReports ==
  \A i \in Readable : ~Overlapped(i) =>
    LET r == ledger[i].report
        above == {ledger[j] : j \in Above(i)}
    IN  IF above = {} THEN r.previous = 0
        ELSE \A prev \in above : /\ r.previous = prev.recorded_at
                                 /\ r.new = Appeared(ledger[i], prev)
                                 /\ r.resolved = Disappeared(ledger[i], prev)
=============================================================================
