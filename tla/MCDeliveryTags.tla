--------------------------- MODULE MCDeliveryTags ---------------------------
(***************************************************************************)
(* Instances of DeliveryTags for TLC.                                      *)
(***************************************************************************)
EXTENDS DeliveryTags, TLC

\* The goroutines that acknowledge are alike.
AckerSymmetry == Permutations(Ackers)
=============================================================================
