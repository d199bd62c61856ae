------------------------- MODULE MCHypervisorSample -------------------------
(* An instance of HypervisorSample, with its invariant, for TLC.           *)
EXTENDS HypervisorSampleInv

SomeComms == BoundedSeq({"open", "close", "space", "a"}, 2)
SomePaths == BoundedSeq({"..", ".", "", "a", "a:b", "..b"}, 3)
=============================================================================
