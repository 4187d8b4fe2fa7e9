---------------------------- MODULE MCBuilderPage ----------------------------
(* Instances of BuilderPage for TLC. *)
EXTENDS BuilderPage

CONSTANTS e1, e2

OneEach == [e \in Editors |-> 1]
=============================================================================
