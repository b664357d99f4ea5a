------------------------- MODULE MCEmulatorActivity -------------------------
(* Instances of EmulatorActivity for TLC.  The activity tells its threads   *)
(* apart only by identity, so that they may be permuted in safety runs.     *)
EXTENDS EmulatorActivity

ThreadSymmetry == Permutations(Threads)
=============================================================================
