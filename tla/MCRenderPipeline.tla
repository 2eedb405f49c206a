-------------------------- MODULE MCRenderPipeline --------------------------
(***************************************************************************)
(* RenderPipeline for TLC: two keys of which one is never cached (page     *)
(* metadata), two process identities and two start instants.               *)
(***************************************************************************)
EXTENDS RenderPipeline, TLC

CONSTANTS info, tile, p1, p2, t1, t2

\* Processes and instants are interchangeable.
Symmetry == Permutations({p1, p2}) \cup Permutations({t1, t2})
=============================================================================
