---------------------------- MODULE WorkingClone ----------------------------
(***************************************************************************)
(* The clone a dispatch runs in: git as agent/release and agent/implement  *)
(* use it, and the decision ledger, which is one of its tracked files.     *)
(*                                                                         *)
(* Contents of files are left out.  A commit has the paths it changes, a   *)
(* working tree the paths that differ from HEAD, and paths are all that    *)
(* the dispatcher and the gate compare.  The ledger alone has a content,   *)
(* the sequence of its entries, because its lines are what is decided by.  *)
(***************************************************************************)
EXTENDS Integers, Sequences, FiniteSets

CONSTANTS
  Proposal,     \* proposal ids
  File,         \* paths, the ledger's not among them
  Ledger,       \* the path of decisions.jsonl
  Main,         \* the branch that is published
  Feature,      \* the branch the work is done on
  None,
  MaxVersion,   \* bound: contents a proposal may take
  MaxEntries,   \* bound: no decision is recorded once the ledger is this long
  MaxCommits,   \* bound: commits, merges included
  MaxTime       \* bound: how far time goes

ASSUME BoundsAssumption ==
  /\ MaxVersion \in Nat \ {0}
  /\ MaxEntries \in Nat
  /\ MaxCommits \in Nat
  /\ MaxTime \in Nat

ASSUME NamesAssumption == Ledger \notin File /\ Main # Feature

Path == File \cup {Ledger}
Version == 1..MaxVersion

\* The ApprovalRequest an entry answers is not told apart: a further request
\* gives, as a further content does, a further dispatch key.
Entry == [proposal : Proposal, version : Version,
          outcome : {"granted", "denied"}, at : Nat]

\* dispatchKey: a hash of an approval and the content it approved.
DispatchKey(e) == <<e.proposal, e.version>>
Key == Proposal \X Version
Branch == {Main, Feature} \cup Key

VARIABLES
  commits,  \* every commit that changes files, in order
  tip,      \* the branches there are: the commits each has, and its ledger
  head,     \* the branch checked out
  dirty,    \* files whose working copy or index differs from HEAD
  staged,   \* files whose index differs from HEAD
  ledger,   \* the ledger in the working tree
  now       \* the time, of which every decision and every commit has a stamp

clone == <<commits, tip, head, dirty, staged, ledger>>

\* The lines a commit message carries for the gate.
Trailers == [proposal : Proposal, version : Version, key : Key]

ASSUME TrailersAssumption == None \notin Trailers

\* `before` is the ledger as the commit's parent has it.  `content` and
\* `grant` are history: the content of the proposal that was applied, and
\* the line of the ledger it was applied under.
CommitType == [files : SUBSET Path, before : Seq(Entry), ledger : Seq(Entry),
               trailers : Trailers \cup {None}, at : Nat,
               content : 0..MaxVersion, grant : Nat]

CloneTypeOK ==
  /\ commits \in Seq(CommitType)
  /\ {Main, Feature, head} \subseteq DOMAIN tip
  /\ DOMAIN tip \subseteq Branch
  /\ \A b \in DOMAIN tip :
       tip[b] \in [past : SUBSET DOMAIN commits, ledger : Seq(Entry)]
  /\ staged \subseteq dirty
  /\ dirty \subseteq File
  /\ ledger \in Seq(Entry)
  /\ now \in Nat

-----------------------------------------------------------------------------
(* Reading                                                                 *)

Committed == tip[head].ledger

\* changedPaths: what git status lists, staged or not.
ChangedPaths == dirty \cup (IF ledger = Committed THEN {} ELSE {Ledger})

Past(b) == tip[b].past
Reachable == UNION {Past(b) : b \in DOMAIN tip}

\* The paths in which two branches differ.
Differ(a, b) ==
  UNION {commits[i].files : i \in (Past(a) \ Past(b)) \cup (Past(b) \ Past(a))}

\* git checkout refuses to overwrite what is not committed.
CanSwitch(b) == b \in DOMAIN tip /\ Differ(head, b) \cap ChangedPaths = {}

\* The working tree's ledger once b is checked out.
LedgerOn(b) == IF ledger = Committed THEN tip[b].ledger ELSE ledger

IsPrefixOf(s, t) == Len(s) <= Len(t) /\ SubSeq(t, 1, Len(s)) = s

DecisionsOn(lines, p) == {i \in DOMAIN lines : lines[i].proposal = p}
LastOn(lines, p) ==
  CHOOSE i \in DecisionsOn(lines, p) : \A j \in DecisionsOn(lines, p) : j <= i

-----------------------------------------------------------------------------
(* Writing                                                                 *)

CloneInit ==
  /\ commits = <<>>
  /\ tip = [b \in {Main, Feature} |-> [past |-> {}, ledger |-> <<>>]]
  /\ head \in {Main, Feature}
  /\ dirty = {}
  /\ staged = {}
  /\ ledger = <<>>
  /\ now = 0

\* git commit on the branch checked out.
CommitOn(files, lines, trailers, content, grant) ==
  /\ commits' = Append(commits,
       [files |-> files, before |-> Committed, ledger |-> lines,
        trailers |-> trailers, at |-> now, content |-> content, grant |-> grant])
  /\ tip' = [tip EXCEPT ![head] = [past |-> @.past \cup {Len(commits) + 1},
                                  ledger |-> lines]]

Edit(f) ==
  /\ dirty' = dirty \cup {f}
  /\ UNCHANGED <<commits, tip, head, staged, ledger>>

Stage(f) ==
  /\ f \in dirty
  /\ staged' = staged \cup {f}
  /\ UNCHANGED <<commits, tip, head, dirty, ledger>>

\* A person puts a file back, in the index and the working tree.
Discard(f) ==
  /\ f \in dirty
  /\ dirty' = dirty \ {f}
  /\ staged' = staged \ {f}
  /\ UNCHANGED <<commits, tip, head, ledger>>

\* recordDecision: a person decides on what the record store holds.
Decide(p, version, outcome) ==
  /\ Len(ledger) < MaxEntries
  /\ ledger' = Append(ledger, [proposal |-> p, version |-> version,
                               outcome |-> outcome, at |-> now])
  /\ UNCHANGED <<commits, tip, head, dirty, staged>>

\* The ledger, in a commit of its own.
CommitLedger ==
  /\ head # Main
  /\ ledger # Committed
  /\ Len(commits) < MaxCommits
  /\ CommitOn({Ledger}, ledger, None, 0, 0)
  /\ UNCHANGED <<head, dirty, staged, ledger>>

Switch(b) ==
  /\ b \in DOMAIN tip \ {head}
  /\ CanSwitch(b)
  /\ head' = b
  /\ ledger' = LedgerOn(b)
  /\ UNCHANGED <<commits, tip, dirty, staged>>

\* A pull request is merged; one whose ledger conflicts is not.  It happens
\* on the server; a clone that is on main has not pulled it, and stays.
Merge(b) ==
  /\ b \in DOMAIN tip \ {Main}
  /\ head # Main
  /\ ~(Past(b) \subseteq Past(Main))
  /\ \E main \in {Main, b}, other \in {Main, b} :
       /\ main # other
       /\ IsPrefixOf(tip[other].ledger, tip[main].ledger)
       /\ tip' = [tip EXCEPT ![Main] = [past |-> Past(Main) \cup Past(b),
                                       ledger |-> tip[main].ledger]]
  /\ UNCHANGED <<commits, head, dirty, staged, ledger>>

\* Time passes.
Tick ==
  /\ now < MaxTime
  /\ now' = now + 1
  /\ UNCHANGED clone

\* git branch -d, which refuses a branch that is not merged.
DeleteMerged(b) ==
  /\ b \in DOMAIN tip \ {Main, Feature, head}
  /\ Past(b) \subseteq Past(Main)
  /\ tip' = [x \in DOMAIN tip \ {b} |-> tip[x]]
  /\ UNCHANGED <<commits, head, dirty, staged, ledger>>
=============================================================================
