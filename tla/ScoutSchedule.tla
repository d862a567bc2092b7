---------------------------- MODULE ScoutSchedule ----------------------------
(***************************************************************************)
(* The scheduled Source Scout (agent/scout/schedule and its workflow): a   *)
(* run looks for documents, writes a digest that says which of them are    *)
(* new, and a second job commits the digest on a branch of its own and     *)
(* opens a pull request.  The Scout has no memory between runs: the digests *)
(* on main and on those branches are all there is, and people merge, close *)
(* and delete them while runs wait and run.                                *)
(*                                                                         *)
(* A digest is known by its run.  Two documents are matched by their       *)
(* address or, weakly, by their title: TitleOf gives each its title.       *)
(*                                                                         *)
(* GitHub's side is external: a run sees the commit that was at the tip of *)
(* main when it was triggered, one run is in progress at a time and one    *)
(* waits, and the one that waits gives way to the next that is triggered.  *)
(*                                                                         *)
(* Not here: how documents are found, mock runs, and re-running the first  *)
(* job.  "never" stands for a dry run too: neither proposes anything.      *)
(***************************************************************************)
EXTENDS Naturals

CONSTANTS
  Document,
  TitleOf,     \* TitleOf[d]: a document's title
  MaxRuns      \* bound: runs triggered

ASSUME DocumentsAssumption == DOMAIN TitleOf = Document
ASSUME RunsAssumption == MaxRuns \in Nat

Run == 1..MaxRuns
Option == {"auto", "always", "never"}
Outcome == {"none", "cancelled", "failed", "done"}

VARIABLES
  main,      \* the runs whose digest is on main
  sources,   \* the documents in data/sources.json on main
  branches,  \* the runs whose scout/digest branch exists
  pulls,     \* the runs whose pull request is open
  offered,   \* history: the runs whose pull request was ever open
  triggered, \* how many runs there were
  waiting,   \* the run that waits, or 0
  current,   \* the run in progress, or 0
  at,        \* where that run is
  run        \* run[r]: what r was given, and what it made of it

vars == <<main, sources, branches, pulls, offered,
          triggered, waiting, current, at, run>>

\* `tip`, `sources`: what is in the commit it checks out.  `collected`: the
\* digests it read from branches, if it could (`fetched`).
NoRun ==
  [option |-> "never", tip |-> {}, sources |-> {},
   fetched |-> FALSE, collected |-> {}, written |-> FALSE, found |-> {},
   new_sources |-> {}, new_prior |-> {}, outcome |-> "none"]

-----------------------------------------------------------------------------

\* What is taken for d: the same address, or the same title.
Alike(d) == {e \in Document : TitleOf[e] = TitleOf[d]}

\* Mutant: what is known and was not found, for what was found and not known.
UnmatchedKnown(found, known) == {d \in known : Alike(d) \cap found = {}}

\* crossCheck: the documents found that nothing among `known` is like.
Unmatched(found, known) == {d \in found : Alike(d) \cap known = {}}

\* The digests on a branch: those of the commit it was cut from, and its own.
Tree(r) == run[r].tip \cup {r}

OnBranches == UNION {Tree(b) : b \in branches}

\* Mutant: the digests that nobody has merged are not read.
CollectedNone == {}

\* What a run copies from the branches before it starts.
Collected == OnBranches

\* buildPriorIndex: every candidate of every digest it can read.
Prior(r) == UNION {run[q].found : q \in run[r].tip \cup run[r].collected}

\* The second job's condition.
Proposes(o, new_sources, new_prior) ==
  \/ o = "always"
  \/ o = "auto" /\ (new_sources # {} \/ new_prior # {})

-----------------------------------------------------------------------------
(* A run                                                                   *)

\* By the clock or by hand; it takes the place of the one that waits.
Trigger(o) ==
  /\ triggered < MaxRuns
  /\ LET r == triggered + 1 IN
     /\ triggered' = r
     /\ waiting' = r
     /\ run' = [q \in Run |->
          CASE q = r -> [NoRun EXCEPT !.option = o, !.tip = main,
                                      !.sources = sources]
            [] q = waiting -> [run[q] EXCEPT !.outcome = "cancelled"]
            [] OTHER -> run[q]]
  /\ UNCHANGED <<main, sources, branches, pulls, offered, current, at>>

Start ==
  /\ current = 0
  /\ waiting # 0
  /\ current' = waiting
  /\ waiting' = 0
  /\ at' = "collect"
  /\ UNCHANGED <<main, sources, branches, pulls, offered, triggered, run>>

\* The branches may not be fetched: a warning, and it goes on without.
Collect ==
  /\ at = "collect"
  /\ at' = "scout"
  /\ \E ok \in BOOLEAN :
       run' = [run EXCEPT ![current].fetched = ok,
                          ![current].collected = IF ok THEN Collected ELSE {}]
  /\ UNCHANGED <<main, sources, branches, pulls, offered,
                 triggered, waiting, current>>

End(outcome) ==
  /\ run' = [run EXCEPT ![current].outcome = outcome]
  /\ current' = 0
  /\ at' = "idle"

\* run.mjs: the Scout's run and the digest.  The job may still end red, for a
\* retrieval that failed or for its write boundary: the second job looks at
\* the digest and not at that.
Scout(found) ==
  /\ at = "scout"
  /\ LET new_sources == Unmatched(found, run[current].sources)
         new_prior == Unmatched(found, Prior(current))
         proposes == Proposes(run[current].option, new_sources, new_prior)
     IN  /\ run' = [run EXCEPT ![current] =
              [@ EXCEPT !.written = TRUE, !.found = found,
                        !.new_sources = new_sources, !.new_prior = new_prior,
                        !.outcome = IF proposes THEN "none" ELSE "done"]]
         /\ current' = IF proposes THEN current ELSE 0
         /\ at' = IF proposes THEN "propose" ELSE "idle"
  /\ UNCHANGED <<main, sources, branches, pulls, offered, triggered, waiting>>

\* The second job cuts a branch from the commit the run was triggered at; a
\* push to a branch that is there already is refused.
Push ==
  /\ at = "propose"
  /\ current \notin branches
  /\ branches' = branches \cup {current}
  /\ at' = "create"
  /\ UNCHANGED <<main, sources, pulls, offered, triggered, waiting, current, run>>

\* Mutant: no pull request for what the bibliography has already.
CreateForNewSources ==
  /\ at = "create"
  /\ current \in branches
  /\ IF run[current].new_sources = {} THEN UNCHANGED <<pulls, offered>>
     ELSE pulls' = pulls \cup {current} /\ offered' = offered \cup {current}
  /\ End("done")
  /\ UNCHANGED <<main, sources, branches, triggered, waiting>>

Create ==
  /\ at = "create"
  /\ current \in branches
  /\ pulls' = pulls \cup {current}
  /\ offered' = offered \cup {current}
  /\ End("done")
  /\ UNCHANGED <<main, sources, branches, triggered, waiting>>

\* A test fails, the Scout throws, the push or the pull request is refused,
\* the job times out or somebody cancels it: the run ends where it is.
Fail ==
  /\ current # 0
  /\ End("failed")
  /\ UNCHANGED <<main, sources, branches, pulls, offered, triggered, waiting>>

\* Somebody runs the second job once more.
Rerun(r) ==
  /\ current = 0 /\ waiting = 0
  /\ run[r].outcome = "failed"
  /\ run[r].written
  /\ current' = r
  /\ at' = "propose"
  /\ run' = [run EXCEPT ![r].outcome = "none"]
  /\ UNCHANGED <<main, sources, branches, pulls, offered, triggered, waiting>>

-----------------------------------------------------------------------------
(* The people who read the pull requests                                   *)

Merge(r) ==
  /\ r \in pulls
  /\ main' = main \cup Tree(r)
  /\ pulls' = pulls \ {r}
  /\ UNCHANGED <<sources, branches, offered, triggered, waiting, current, at, run>>

Close(r) ==
  /\ r \in pulls
  /\ pulls' = pulls \ {r}
  /\ UNCHANGED <<main, sources, branches, offered,
                 triggered, waiting, current, at, run>>

\* Deleting a branch closes its pull request.
DeleteBranch(r) ==
  /\ r \in branches
  /\ branches' = branches \ {r}
  /\ pulls' = pulls \ {r}
  /\ UNCHANGED <<main, sources, offered, triggered, waiting, current, at, run>>

\* Somebody read a document and made it a source.
Promote(d) ==
  /\ d \notin sources
  /\ sources' = sources \cup {d}
  /\ UNCHANGED <<main, branches, pulls, offered,
                 triggered, waiting, current, at, run>>

-----------------------------------------------------------------------------

Init ==
  /\ main = {} /\ branches = {} /\ pulls = {} /\ offered = {}
  /\ sources \in SUBSET Document
  /\ triggered = 0 /\ waiting = 0 /\ current = 0
  /\ at = "idle"
  /\ run = [r \in Run |-> NoRun]

Next ==
  \/ \E o \in Option : Trigger(o)
  \/ Start \/ Collect \/ Push \/ Create \/ Fail
  \/ \E found \in SUBSET Document : Scout(found)
  \/ \E r \in Run : Rerun(r) \/ Merge(r) \/ Close(r) \/ DeleteBranch(r)
  \/ \E d \in Document : Promote(d)

Spec == Init /\ [][Next]_vars

-----------------------------------------------------------------------------
(* Properties                                                              *)

\* Type invariant: what is open, merged or offered has a digest.
ScheduleTypeOK ==
  /\ main \subseteq Run /\ branches \subseteq Run /\ offered \subseteq Run
  /\ pulls \subseteq branches \cap offered
  /\ main \subseteq offered
  /\ sources \subseteq Document
  /\ triggered \in 0..MaxRuns
  /\ waiting \in 0..triggered /\ current \in 0..triggered
  /\ at \in {"idle", "collect", "scout", "propose", "create"}
  /\ current = 0 <=> at = "idle"
  /\ \A r \in Run :
       /\ run[r].outcome \in Outcome
       /\ run[r].new_sources \cup run[r].new_prior \subseteq run[r].found
       /\ r \in branches \cup offered => run[r].written

\* "was this exact candidate already proposed in a previous run?"
\* (digest.mjs): a document called new against the earlier digests is like
\* none in a digest the repository holds when the report is written, merged
\* or not, unless the branches could not be fetched, or that digest was
\* merged and its branch deleted after the run was triggered.
NewToTheMemory ==
  [][current # 0 /\ run[current].fetched =>
       \A d \in run'[current].new_prior \ run[current].new_prior :
         \A q \in main \cup OnBranches :
           Alike(d) \cap run[q].found # {} =>
             q \in main \ (OnBranches \cup run[current].tip)]_vars

\* A document set aside as proposed before, or one with its title, was before
\* people in a pull request, unless the run that pushed its digest has not
\* opened one or failed to: its branch then stays, and cannot be pushed again.
SetAsideWasOffered ==
  \A r \in Run : \A d \in run[r].found \ run[r].new_prior :
    \E q \in Run :
      /\ Alike(d) \cap run[q].found # {}
      /\ q \in offered \/ run[q].outcome = "failed" \/ (q = current /\ q # r)
=============================================================================
