-------------------------- MODULE RackTrustQuorum --------------------------
(***************************************************************************)
(* What the whole trust quorum system promises: one history of memberships *)
(* (RackMembership), and sleds that commit nothing but what has been       *)
(* decided on and has them as members.  A sled may skip a membership, or   *)
(* catch up on one after it has committed a later one.                     *)
(***************************************************************************)
EXTENDS RackMembership

VARIABLE committed   \* [Node -> SUBSET Epoch], what each sled has committed

(* Rack setup has committed its membership at some of the members. *)
InitCommitted ==
  \E S \in SUBSET InitialMembers :
    committed = [n \in Node |-> IF n \in S THEN {1} ELSE {}]

Commit(n) ==
  \E d \in decided :
    /\ n \in d.members
    /\ committed' = [committed EXCEPT ![n] = @ \cup {d.epoch}]
    /\ UNCHANGED <<decided, pending, used>>

RackNext ==
  \/ Next /\ UNCHANGED committed
  \/ \E n \in Node : Commit(n)

RackSpec ==
  Init /\ InitCommitted /\ [][RackNext]_<<decided, pending, used, committed>>
=============================================================================
