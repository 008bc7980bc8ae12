---------------------- MODULE MCWSConnectionManager ----------------------
(* WSConnectionManager with small sets of calls, clients and guardians.    *)
EXTENDS WSConnectionManager, TLC

CONSTANTS s1, s2, s3, c1, c2, c3, c4, c5, c6, c7, g1, g2, g3

Symmetry == Permutations(Senders)

==========================================================================
