----------------------------- MODULE MCDualBoot -----------------------------
(* Instances of DualBoot for TLC: which actors take part, and symmetry.    *)
EXTENDS DualBoot, TLC

AppJobPage == {"app", "restart", "job", "page"}
TileJobPages == {"tile", "job", "page", "toggle"}

Symmetry ==
    Permutations(Androids) \cup Permutations(Linuxes) \cup Permutations(Torns)
=============================================================================
