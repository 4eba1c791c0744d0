---------------------------- MODULE MCDispatcher ----------------------------
(* Instances of the dispatcher for TLC.  The values are in the .cfg files.   *)
EXTENDS Dispatcher

\* Pipe ids are only compared for equality.
PipeSymmetry == Permutations(Pipes)
=============================================================================
