-------------------------------- MODULE MCVme --------------------------------
(***************************************************************************)
(* Vme for TLC, with a pgalloc that returns the lowest of the free pages:  *)
(* no property depends on which page is returned.                          *)
(***************************************************************************)
EXTENDS Vme

Below(S, T) == \A p \in S, q \in T : p < q

\* The kernel, the first to allocate, has the lowest pages.
KernelFirst == kpt = 1 /\ Below(KernelPages, Pages \ KernelPages)

LowestFirst == Below(free \ free', free \cap free')

=============================================================================
