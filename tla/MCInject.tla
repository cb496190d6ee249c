------------------------------- MODULE MCInject --------------------------------
(* Two runs with different trackers to inject.                               *)
EXTENDS Inject

CONSTANTS run1, run2, old, new

MCList == [r \in {run1, run2} |-> IF r = run1 THEN {old} ELSE {new}]
===============================================================================
