------------------------------ MODULE MCEmailSync ------------------------------
(* One past message; then an opening message, a reply to it and others.  The  *)
(* past message and the reply have the same subject.                          *)
EXTENDS EmailSync, TLC

MCCites == [m \in Uids |-> IF m = 3 THEN {2} ELSE {}]
MCSubject == [m \in Uids |-> IF m \in {1, 3} THEN "a" ELSE "none"]
MCSymmetry == Permutations(Syncs)
===============================================================================
