------------------------------ MODULE MCAuthority ------------------------------
(* Two addresses and one name, which stands for users and groups alike: they    *)
(* are recorded, tested for being there and never compared.                     *)
EXTENDS Authority, TLC

CONSTANTS s1, s2, n1

MCSource == {s1, s2}
MCName   == {n1}
MCSymmetry == Permutations(MCSource)
=============================================================================
