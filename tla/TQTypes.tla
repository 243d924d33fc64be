------------------------------ MODULE TQTypes ------------------------------
(***************************************************************************)
(* The vocabulary shared by the trust quorum nodes (trust-quorum/protocol) *)
(* and by Nexus: epochs, configurations, and the two numbers derived from  *)
(* a membership, the share threshold K and the crash tolerance Z.          *)
(*                                                                         *)
(* One rack is modelled, so rack ids and their checks are left out.  A     *)
(* share is determined by (epoch, owner), because a configuration is       *)
(* generated once per epoch; a share is therefore represented by its epoch *)
(* alone, and a share digest by nothing at all.                            *)
(***************************************************************************)
EXTENDS Integers, FiniteSets

CONSTANTS Node,          \* the sleds, by BaseboardId
          MaxEpoch       \* bound on the epochs explored

ASSUME NodeAssumption == IsFiniteSet(Node)

ASSUME MaxEpochAssumption == MaxEpoch \in Nat \ {0}

Epoch == 1..MaxEpoch

(* Epoch 0 stands for Option<Epoch>::None. *)
NoEpoch == 0

(* Configuration.  `secrets` is the set of epochs whose rack secrets are in *)
(* encrypted_rack_secrets; {} is None (an empty set is never encrypted).    *)
Config == [epoch : Epoch, members : SUBSET Node, coordinator : Node,
           secrets : SUBSET Epoch]

(* Number of shares that reconstruct a rack secret: K = N/2 + 1. *)
Threshold(members) == Cardinality(members) \div 2 + 1

(* Number Z of additional prepared nodes needed before Nexus commits. *)
CommitCrashTolerance(members) ==
  LET n == Cardinality(members) IN
    CASE n <= 4              -> 0
      [] n >= 5  /\ n <= 8   -> 1
      [] n >= 9  /\ n <= 15  -> 2
      [] n >= 16 /\ n <= 23  -> 3
      [] OTHER               -> 4

(* The size constraints that both Nexus and the coordinator impose. *)
ValidSize(members) ==
  /\ Cardinality(members) >= 3
  /\ Cardinality(members) <= 32
  /\ Cardinality(members) > Threshold(members)

=============================================================================
