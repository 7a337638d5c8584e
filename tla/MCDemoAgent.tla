---------------------------- MODULE MCDemoAgent ----------------------------
(* Instances of the demo agent small enough for TLC. *)
EXTENDS DemoAgent, TLC

FirstSources == <<"ibm">>

\* The scripts are alike.
Scripts == Permutations(Script)

=============================================================================
