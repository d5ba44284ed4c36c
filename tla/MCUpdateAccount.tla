--------------------------- MODULE MCUpdateAccount ---------------------------
(* Values for the constants of UpdateAccount: an inbox, a folder in it and *)
(* a folder beside it; messages in the inbox and in the folder in it.      *)
EXTENDS UpdateAccount, TLC

CONSTANTS root, inbox, sub, other, m1, m2, m3

MCParent == inbox :> root @@ sub :> inbox @@ other :> root
MCHome   == [m \in Msgs |-> IF m = m2 THEN sub ELSE inbox]

UpdateSymmetry == Permutations(Updates)
=============================================================================
