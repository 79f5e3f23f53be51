-------------------------------- MODULE MCBilling --------------------------------
(* Two requests at a time and three events: the histories let the types meet that *)
(* write the same columns.                                                        *)
EXTENDS Billing

History(a, b, c) == [e \in Events |-> CASE e = "e1" -> a [] e = "e2" -> b [] e = "e3" -> c]

MCHistories ==
  { History("failed", "failed", "paid"), History("checkout", "failed", "deleted"),
    History("updated", "deleted", "paid") }

\* The schema of the statements, two of the gaps, and that of the migrations.
MCSchemas == {{}, {"dedup", "failed"}, Refusable}
===============================================================================
