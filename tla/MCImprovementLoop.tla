-------------------------- MODULE MCImprovementLoop --------------------------
(* An instance of ImprovementLoop: a gap with a proposal, a flaw of the    *)
(* pages, and a box with a label that is or is not what its claims bear    *)
(* out.                                                                    *)
EXTENDS ImprovementLoop, TLC

CONSTANTS gap, flaw, box, argument, statement

MCGap == {gap}
MCFlaw == {flaw}
MCLabel == {argument, statement}
MCBorne == {{argument}, {statement}}

\* A torn line counts as one observer that is absent, one without input as none.
Absent(e, o) ==
  IF e.recorded_at = 0 THEN o = "depth"
  ELSE /\ o \notin e.ran
       /\ o = "data-proposals" => \E f \in e.found : f.observer = "depth"

\* Bound: changes of the tree, torn lines and absent observers are two in all.
MCTwo ==
  changes + Cardinality({c \in (DOMAIN ledger) \X Observer : Absent(ledger[c[1]], c[2])})
    + Cardinality({c \in Process \X Observer :
                     /\ pc[c[1]] # "idle" /\ c[2] \notin wanted[c[1]]
                     /\ Absent(pass[c[1]], c[2])}) <= 2

\* When the last cycle is over, nothing looks at the tree any more.
MCMore == clock < MaxCycles \/ \E p \in Process : pc[p] # "idle"

MCSymmetry == {f @@ g : f \in Permutations(Process), g \in Permutations(Label)}
=============================================================================
