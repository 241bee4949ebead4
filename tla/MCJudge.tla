------------------------------ MODULE MCJudge ------------------------------
(* Instances of Judge: the universe of MCDirect and small caps on del.     *)
EXTENDS Judge, MCDirect
=============================================================================
