---------------------------- MODULE TQNexusEnv ----------------------------
(***************************************************************************)
(* Nexus on its own, against sleds that may answer anything: a coordinator *)
(* reports any status of any configuration that was proposed to it, and    *)
(* any member acknowledges any commit at any time.  What holds here holds  *)
(* whatever the trust quorum nodes do.                                     *)
(***************************************************************************)
EXTENDS TQNexus

(* Every acknowledgement may arrive at any time: TqUpdateCommitStatus takes *)
(* any of them.                                                             *)
Init ==
  /\ \E k \in InitialMembers : rows = {RssRow(InitialMembers, k)}
  /\ task = [t \in Task |-> {}]
  /\ requests = {}
  /\ commitAcks = Node \X Epoch

(* Some status of a configuration that has been proposed: its coordinator   *)
(* is collecting shares, or preparing with any acknowledgements but its own *)
(* missing.                                                                 *)
AnyStatus ==
  UNION {{[config |-> [ToConfiguration(r) EXCEPT !.secrets = {}], acks |-> {}]} \cup
         {[config |-> [ToConfiguration(r) EXCEPT !.secrets = {r.last}],
           acks |-> acks \cup {r.coordinator}] : acks \in SUBSET r.members} :
         r \in {s \in rows : s.epoch > 1}}

AnyPoll(t) == \E st \in AnyStatus : TaskPoll(t, st)

Next ==
  \/ TqPropose
  \/ TqAbort
  \/ TaskCommit
  \/ TqUpdateCommitStatus
  \/ \E t \in Task :
       TaskLoad(t) \/ AnyPoll(t) \/ TaskUpdatePrepareStatus(t) \/ TaskFail(t)

Spec == Init /\ [][Next]_nexusVars

(* Whatever the sleds answer, and however proposals, aborts and late        *)
(* answers interleave, the decided configurations form one history in which *)
(* each membership is a change of the one decided before it: no change is   *)
(* made to a superseded membership, dropped after it was decided, or        *)
(* decided after it was dropped (the transactions of trust_quorum.rs).      *)
OneHistory == Membership!Spec

=============================================================================
