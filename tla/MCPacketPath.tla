----------------------------- MODULE MCPacketPath -----------------------------
(* Instances of PacketPath for TLC.                                        *)
EXTENDS PacketPath, TLC

SignalSymmetry == Permutations(Signals)
===============================================================================
