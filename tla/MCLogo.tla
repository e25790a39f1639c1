-------------------------------- MODULE MCLogo --------------------------------
(* Instances of Logo for TLC.                                              *)
EXTENDS Logo, TLC

Symmetry ==
    Permutations(Clients) \cup Permutations(Seeders)
        \cup Permutations(Files \ {SeedFile})
=============================================================================
