----------------------- MODULE MCScheduledMessages -----------------------
(* A small instance of ScheduledMessages.                                  *)
EXTENDS ScheduledMessages, TLC

Symmetry == Permutations(Jobs) \cup Permutations(Procs)
=============================================================================
