----------------------------- MODULE MCRelease -----------------------------
(* Values and bounds for Release: a proposal whose second content names one *)
(* file more than its first.                                                *)
EXTENDS Release, TLC

CONSTANTS p1, f1, f2

MCScope == (p1 :> <<{f1}, {f1, f2}>>)

\* Bound: a proposal does not go back to a content it had.
MCForward == \A p \in Proposal : store'[p] >= store[p]

\* Bound: nothing is merged while a dispatch runs.  A merge changes main
\* alone, which no step of a dispatch reads or writes.
MCMergeBetween == tip'[Main] # tip[Main] => pc = "idle"

\* Bound: time passes only in a clean clone, with the first decision just
\* committed.
MCTickBetween ==
  now' # now =>
    /\ pc = "idle" /\ dirty = {}
    /\ ledger # <<>> /\ ledger = Committed /\ Len(commits) = 1

\* Bound: the first decision on record is a grant.
MCFirstGranted == Len(ledger) > 0 => ledger[1].outcome = "granted"
=============================================================================
