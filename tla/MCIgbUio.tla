------------------------------- MODULE MCIgbUio -------------------------------
(* Instances of IgbUio for TLC.                                            *)
EXTENDS IgbUio, TLC

FileSymmetry == Permutations(Files)
===============================================================================
