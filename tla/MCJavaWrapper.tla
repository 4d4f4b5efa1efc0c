---------------------------- MODULE MCJavaWrapper ----------------------------
(* Nine calls of the main thread and three made in upcalls.                  *)
EXTENDS JavaWrapper

MCBudgets == {[main |-> 9, worker |-> 3]}
=============================================================================
