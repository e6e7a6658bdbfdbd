------------------------------- MODULE MCDisk -------------------------------
(* TLC instance of Disk: readers are interchangeable in the safety runs.   *)
EXTENDS Disk, TLC

Symmetry == Permutations(Readers) \cup Permutations(Writers)
============================================================================
