----------------------------- MODULE MCAutonomy -----------------------------
(* Instances of Autonomy for TLC. *)
EXTENDS Autonomy, TLC

CONSTANTS d, s, ada, clerk, page, fresh, sources, ledger

\* d rewrites a page under docs/ and adds one; s sets the url_status of a
\* source.
MCContent ==
  (d :> [ops |-> [file : {page, fresh}, field : {NoField}], also |-> {},
         data |-> FALSE, reserved |-> FALSE, read |-> FALSE, minor |-> TRUE,
         risk |-> Low, sound |-> TRUE])
  @@
  (s :> [ops |-> {[file |-> sources, field |-> "url_status"]}, also |-> {},
         data |-> TRUE, reserved |-> FALSE, read |-> TRUE, minor |-> TRUE,
         risk |-> Low, sound |-> TRUE])

MCProducer == [p \in Proposal |-> clerk]

Grant(categories, paths, fields, by) ==
  [action |-> "enable", revokes |-> 0, categories |-> categories,
   paths |-> paths, fields |-> fields, risk |-> Low, by |-> by]

\* A person's grants for the documents and for the source register, one the
\* clerk writes itself and that reaches a path no grant may name, and a
\* revocation of the first line.
MCBody ==
  {Grant({"machine_derived_field"}, {page, fresh}, {}, ada),
   Grant({"source_url_correction"}, {sources}, {"url_status"}, ada),
   Grant({"machine_derived_field"}, {page, fresh, ledger}, {}, clerk),
   [action |-> "revoke", revokes |-> 1, categories |-> {}, paths |-> {},
    fields |-> {}, risk |-> Low, by |-> ada]}

\* Bounds: of lines, attempts and commits of a person, three between them, and
\* nothing goes on after the attempt that is the third; and a person works on
\* the page and on the ledger.
MCHorizon ==
  LET n == Len(grants) + Len(tried) + Cardinality({c \in DOMAIN commits :
                                                    commits[c].by = 0})
  IN  n <= 3 /\ (pc = "idle" => n < 3)
MCHands == sources \notin dirty

\* Bound: people stage, discard and commit the new file, and write none themselves.
MCOnlyTheRunners == fresh \in dirty' \ dirty => pc' # pc

\* A line the clerk writes for itself carries the last date.
MCDates == \A i \in DOMAIN grants : grants[i].by = clerk => grants[i].until = 2

\* No step of a running attempt reads the clock.
MCClock == pc # "idle" => clock = Current.asked
=============================================================================
