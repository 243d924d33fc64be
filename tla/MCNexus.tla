------------------------------ MODULE MCNexus ------------------------------
(* An instance of TQNexusEnv for TLC. *)
EXTENDS TQNexusEnv, TLC

Symmetry == Permutations(InitialMembers) \cup Permutations(Task)

=============================================================================
