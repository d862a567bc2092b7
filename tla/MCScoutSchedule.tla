--------------------------- MODULE MCScoutSchedule ---------------------------
(* An instance of ScoutSchedule: two documents under one title and a third *)
(* that is like no other.                                                  *)
EXTENDS ScoutSchedule, TLC

CONSTANTS page, share, other, title, other_title

MCDocument == {page, share, other}
MCTitleOf == [d \in MCDocument |-> IF d = other THEN other_title ELSE title]
MCSymmetry == Permutations({page, share})
=============================================================================
