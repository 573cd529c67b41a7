---------------------------- MODULE MCRenderJobs ----------------------------
(* Finite instances of RenderJobs. *)
EXTENDS RenderJobs, TLC

Symmetry == Permutations(Workers) \cup Permutations(Previews)
            \cup Permutations(Deliveries) \cup Permutations(Profiles)
=============================================================================
