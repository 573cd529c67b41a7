-------------------------- MODULE MCToolGovernance --------------------------
(* Small instances of ToolGovernance for TLC.                              *)
EXTENDS ToolGovernance, TLC

CONSTANTS r1, r2, r3, a1, a2

MCAgentOf == (r1 :> a1) @@ (r2 :> a1) @@ (r3 :> a2)

Symmetry == Permutations(Workers) \cup Permutations({r1, r2})
=============================================================================
