-------------------------- MODULE MCMemoryExecutor --------------------------
(***************************************************************************)
(* Small instances of MemoryExecutor for TLC.                              *)
(***************************************************************************)
EXTENDS MemoryExecutor

CONSTANTS g, m1, m2, m3, r1, r2, r3, r4

MCGpus == {g}

\* RAM and VRAM: two small buffers or one large one fit in each.
HostAndGpu == (HostRam :> 6) @@ (g :> 6)

\* All three tiers, VRAM and what is left of the SSD with room for one buffer.
TightTiers == (HostRam :> 2) @@ (g :> 1) @@ (SsdCache :> 2)

MCSymmetry == Permutations(MatrixIds) \cup Permutations(RawIds)

=============================================================================
