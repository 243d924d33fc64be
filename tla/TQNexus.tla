------------------------------ MODULE TQNexus ------------------------------
(***************************************************************************)
(* Trust quorum in Nexus: the configurations in the database               *)
(* (nexus/db-queries/.../datastore/trust_quorum.rs), the API handlers that *)
(* propose and abort them (nexus/src/app/trust_quorum.rs) and the          *)
(* background task that drives them                                        *)
(* (nexus/src/app/background/tasks/trust_quorum.rs).                       *)
(*                                                                         *)
(* A datastore call is one serializable transaction, hence one step.       *)
(* Several Nexus instances run the background task: each element of Task   *)
(* is one of them, and its activations interleave with everything else     *)
(* between its awaits: the load of the configuration, the answer of the    *)
(* coordinator, and the transaction that records the answer.               *)
(***************************************************************************)
EXTENDS TQTypes

CONSTANTS InitialMembers,  \* the trust_quorum_peers given to rack setup
          Task,            \* the background tasks, one per Nexus instance
          Overtaking       \* may an operator abort or propose a configuration
                           \* while an activation awaits the coordinator?

ASSUME InitialMembersAssumption ==
  InitialMembers \subseteq Node /\ ValidSize(InitialMembers)

ASSUME OvertakingAssumption == Overtaking \in BOOLEAN

VARIABLES
  rows,        \* SUBSET Row                   table trust_quorum_configuration
  task,        \* [Task -> SUBSET Activation]  activation in progress, if any
  requests,    \* requests Nexus has sent to sled-agents
  commitAcks   \* successful answers <<node, epoch>> to commit requests

nexusVars == <<rows, task, requests, commitAcks>>

ConfigState == {"Preparing", "Committing", "Committed",
                "CommittedPartially", "Aborted"}

MemberState == {"Unacked", "Prepared", "Committed"}

(* TrustQuorumConfig.  `digests` says whether the members' share digests    *)
(* are known; they are learned together.                                    *)
Row == [epoch : Epoch, last : Epoch \cup {NoEpoch}, state : ConfigState,
        members : SUBSET Node, coordinator : Node,
        mstate : [Node -> MemberState], digests : BOOLEAN,
        secrets : SUBSET Epoch]

(* CoordinatorStatus *)
Status == [config : Config, acks : SUBSET Node]

(* An activation: the configuration it loaded and, once the coordinator has *)
(* answered, its status.                                                    *)
Activation == [row : Row, status : SUBSET Status]

Request ==
       [type : {"Reconfigure"}, to : Node, epoch : Epoch,
        last : Epoch \cup {NoEpoch}, members : SUBSET Node]
  \cup [type : {"Commit"}, to : Node, epoch : Epoch]
  \cup [type : {"PrepareAndCommit"}, to : Node, config : Config]

NexusTypeOK ==
  /\ rows \in SUBSET Row
  /\ task \in [Task -> SUBSET Activation]
  /\ requests \in SUBSET Request
  /\ commitAcks \in SUBSET (Node \X Epoch)

-----------------------------------------------------------------------------
IsCommitted(r) == r.state \in {"Committed", "CommittedPartially"}

IsActive(r) == r.state \in {"Preparing", "Committing"}

InState(r, s) == {n \in r.members : r.mstate[n] = s}

(* Mutant: one too few. *)
MutEnough(r, S) ==
  Cardinality(S) + 1 >= Threshold(r.members) + CommitCrashTolerance(r.members)

(* Enough members for the configuration to survive Z crashes: K + Z. *)
Enough(r, S) ==
  Cardinality(S) >= Threshold(r.members) + CommitCrashTolerance(r.members)

IsLatest(r) == \A s \in rows : s.epoch <= r.epoch

(* Configuration::try_from(&TrustQuorumConfig); only when digests are known *)
ToConfiguration(r) ==
  [epoch |-> r.epoch, members |-> r.members, coordinator |-> r.coordinator,
   secrets |-> r.secrets]

(* TrustQuorumConfig::new *)
NewRow(e, last, members, coordinator) ==
  [epoch |-> e, last |-> last, state |-> "Preparing", members |-> members,
   coordinator |-> coordinator, mstate |-> [n \in Node |-> "Unacked"],
   digests |-> FALSE, secrets |-> {}]

(* TrustQuorumConfig::new_rss_committed_config *)
RssRow(members, coordinator) ==
  [epoch |-> 1, last |-> NoEpoch, state |-> "Committed", members |-> members,
   coordinator |-> coordinator,
   mstate |-> [n \in Node |-> IF n \in members THEN "Committed"
                                               ELSE "Unacked"],
   digests |-> FALSE, secrets |-> {}]

(* No activation is waiting for the answer of a coordinator. *)
NoneAwaiting ==
  \A t \in Task : \A a \in task[t] : a.status # {}

-----------------------------------------------------------------------------
(* The operator's requests.                                                 *)

(* tq_load_latest_possible_committed_config, accepted by                    *)
(* validate_new_config_conn: lc is the configuration that a proposal made   *)
(* on top of `latest` builds on.  If lc is still committing it needs K + Z  *)
(* acknowledged commits.                                                    *)
LastCommitted(latest, lc) ==
  /\ latest.state # "Preparing"
  /\ lc.epoch = IF latest.state = "Aborted" THEN latest.last ELSE latest.epoch
  /\ \/ IsCommitted(lc)
     \/ lc.state = "Committing" /\ Enough(lc, InState(lc, "Committed"))

(* add_sleds_proposed_config and remove_sled_proposed_config *)
ProposedMembers(lc) ==
       {lc.members \cup S : S \in SUBSET (Node \ lc.members)}
  \cup {lc.members \ {n} : n \in lc.members}

(* Mutant: the epoch after the last committed one, also after an abort. *)
MutNewEpoch(latest, lc) == lc.epoch + 1

NewEpoch(latest, lc) == latest.epoch + 1

(* Mutant: the last committed configuration stays Committing. *)
MutCommitPartially(lc) == lc

(* updated_tq_state_committed_partially_conn, if lc is still committing *)
CommitPartially(lc) ==
  [lc EXCEPT !.state = IF @ = "Committing" THEN "CommittedPartially" ELSE @]

(* tq_insert_latest_config: insert the proposal, marking a last committed   *)
(* configuration that is still committing CommittedPartially; then the      *)
(* coordinator is sent the one ReconfigureMsg of this epoch.                *)
Propose(latest, lc, members, coordinator) ==
  LET new == NewRow(NewEpoch(latest, lc), lc.epoch, members, coordinator) IN
    /\ Overtaking \/ NoneAwaiting
    /\ IsLatest(latest)
    /\ new.epoch <= MaxEpoch
    /\ LastCommitted(latest, lc)
    /\ ValidSize(members)
    /\ rows' = (rows \ {lc}) \cup {CommitPartially(lc), new}
    /\ requests' = requests \cup
         {[type |-> "Reconfigure", to |-> coordinator, epoch |-> new.epoch,
           last |-> new.last, members |-> members]}
    /\ UNCHANGED <<task, commitAcks>>

(* tq_add_sleds and tq_remove_sled, the coordinator being a committed       *)
(* member chosen at random.  Everything the first read contributes is       *)
(* validated again by the inserting transaction, so read and insert are one *)
(* step.                                                                    *)
TqPropose ==
  \E latest, lc \in rows :
    /\ IsLatest(latest)
    /\ LastCommitted(latest, lc)
    /\ \E members \in ProposedMembers(lc) :
         \E coordinator \in members \cap InState(lc, "Committed") :
           Propose(latest, lc, members, coordinator)

(* tq_abort_config on the latest configuration, for the operator or because *)
(* the coordinator is no longer commissioned (get_coordinator_client).      *)
TqAbort ==
  \E r \in rows :
    /\ Overtaking \/ NoneAwaiting
    /\ IsLatest(r)
    /\ r.state \notin {"Aborted", "Committing", "Committed"}
    /\ rows' = (rows \ {r}) \cup {[r EXCEPT !.state = "Aborted"]}
    /\ UNCHANGED <<task, requests, commitAcks>>

-----------------------------------------------------------------------------
(* The background task.                                                     *)

(* activate_impl: of several active configurations                          *)
(* tq_get_all_active_rack_id_and_latest_epoch keeps the one with the lowest *)
(* epoch, the last one inserted into its map.                               *)
ActiveConfig(r) ==
  IsActive(r) /\ \A s \in rows : IsActive(s) => r.epoch <= s.epoch

(* drive_reconfiguration loads a configuration that is being prepared. *)
TaskLoad(t) ==
  \E r \in rows :
    /\ task[t] = {}
    /\ ActiveConfig(r)
    /\ r.state = "Preparing"
    /\ task' = [task EXCEPT ![t] = {[row |-> r, status |-> {}]}]
    /\ UNCHANGED <<rows, requests, commitAcks>>

(* prepare: the coordinator answered with status st. *)
TaskPoll(t, st) ==
  \E a \in task[t] :
    /\ a.status = {}
    /\ task' = [task EXCEPT ![t] = {[a EXCEPT !.status = {st}]}]
    /\ UNCHANGED <<rows, requests, commitAcks>>

(* commit and run_commit_ops: what is sent for a configuration as loaded.   *)
CommitOps(r) ==
  IF r.digests
  THEN    {[type |-> "PrepareAndCommit", to |-> n,
            config |-> ToConfiguration(r)] : n \in InState(r, "Unacked")}
     \cup {[type |-> "Commit", to |-> n, epoch |-> r.epoch] :
                                             n \in InState(r, "Prepared")}
  ELSE {}

(* Mutant: the status replaces what is known of the members. *)
MutAckPrepares(r, acks) ==
  [n \in Node |-> IF n \in r.members \cap acks THEN "Prepared" ELSE "Unacked"]

(* update_tq_member_state_prepared_conn *)
AckPrepares(r, acks) ==
  [n \in Node |-> IF n \in r.members \cap acks /\ r.mstate[n] = "Unacked"
                  THEN "Prepared" ELSE r.mstate[n]]

(* tq_update_prepare_status: the row after recording the status. *)
UpdatePrepareStatus(r, st) ==
  LET mstate == AckPrepares(r, st.acks)
      acked == {n \in r.members : mstate[n] = "Prepared"}
  IN [r EXCEPT !.digests = TRUE,
               !.mstate = mstate,
               !.secrets = IF @ = {} THEN st.config.secrets ELSE @,
               !.state = IF Enough(r, acked) THEN "Committing" ELSE @]

(* Mutant: whatever the state of the configuration. *)
MutStatusAlwaysApplies(r, st) ==
  /\ r.epoch = st.config.epoch
  /\ r.digests \/ r.members \subseteq st.config.members

(* Mutant: only the first status is accepted. *)
MutStatusAppliesOnce(r, st) ==
  /\ r.epoch = st.config.epoch
  /\ IsLatest(r)
  /\ r.state = "Preparing"
  /\ ~ r.digests /\ r.members \subseteq st.config.members

(* tq_update_prepare_status applies to the latest configuration, while it   *)
(* is being prepared.                                                       *)
PrepareStatusApplies(r, st) ==
  /\ r.epoch = st.config.epoch
  /\ IsLatest(r)
  /\ r.state = "Preparing"
  /\ r.digests \/ r.members \subseteq st.config.members

(* Mutant: the state that the transaction returns is ignored. *)
MutGoesOnToCommit(r) == TRUE

GoesOnToCommit(r) == r.state = "Committing"

(* prepare, after the answer: record the status of the configuration the    *)
(* answer is about and, if that one is now committing, commit the           *)
(* configuration the activation loaded.                                     *)
TaskUpdatePrepareStatus(t) ==
  \E a \in task[t] :
    \E st \in a.status, r \in rows :
      LET r2 == UpdatePrepareStatus(r, st) IN
        /\ PrepareStatusApplies(r, st)
        /\ rows' = (rows \ {r}) \cup {r2}
        /\ requests' = requests \cup
             (IF GoesOnToCommit(r2) THEN CommitOps(a.row) ELSE {})
        /\ task' = [task EXCEPT ![t] = {}]
        /\ UNCHANGED commitAcks

(* drive_reconfiguration loads a configuration that is committing: commit   *)
(* sends to the members that were not committed when it was loaded.  Since  *)
(* a request may be delivered arbitrarily late, load and send are one step. *)
TaskCommit ==
  \E r \in rows :
    /\ ActiveConfig(r)
    /\ r.state = "Committing"
    /\ requests' = requests \cup CommitOps(r)
    /\ UNCHANGED <<rows, task, commitAcks>>

(* The activation ends early: a request fails, the coordinator is not       *)
(* coordinating, the update is refused, or Nexus restarts.                  *)
TaskFail(t) ==
  /\ task[t] # {}
  /\ task' = [task EXCEPT ![t] = {}]
  /\ UNCHANGED <<rows, requests, commitAcks>>

(* update_tq_members_state_commit_conn, then Committed once all members are *)
UpdateCommitStatus(r, acked) ==
  LET mstate == [n \in Node |-> IF n \in r.members \cap acked
                                THEN "Committed" ELSE r.mstate[n]]
  IN [r EXCEPT !.mstate = mstate,
               !.state = IF \A n \in r.members : mstate[n] = "Committed"
                         THEN "Committed" ELSE @]

(* tq_update_commit_status with some of the acknowledgements received.  The *)
(* transaction depends on the activation only through the epoch, so it is   *)
(* an action of its own.                                                    *)
TqUpdateCommitStatus ==
  \E r \in rows :
    \E acked \in SUBSET {n \in Node : <<n, r.epoch>> \in commitAcks} :
      /\ acked # {}
      /\ IsLatest(r)
      /\ r.state = "Committing"
      /\ rows' = (rows \ {r}) \cup {UpdateCommitStatus(r, acked)}
      /\ UNCHANGED <<task, requests, commitAcks>>

-----------------------------------------------------------------------------
(* Properties of Nexus alone, whatever the sleds answer.                    *)

(* Nexus has decided to commit the configuration; this is irrevocable. *)
Decided(r) == r.state \in {"Committing", "Committed", "CommittedPartially"}

(* At most one configuration is active and it is the latest, so that        *)
(* tq_get_all_active_rack_id_and_latest_epoch finds the latest although it  *)
(* would keep the lowest of several.                                        *)
ActiveIsLatest ==
  \A r, s \in rows : IsActive(r) => s.epoch <= r.epoch /\ (s.epoch = r.epoch => s = r)

(* Configurations build on one another: each one's last_committed_epoch is  *)
(* the decided configuration right below it, across any aborted ones.       *)
ChainOfCommits ==
  \A r \in rows :
    r.epoch > 1 =>
      /\ \E s \in rows : s.epoch = r.last /\ r.last < r.epoch /\ Decided(s)
      /\ \A s \in rows : r.last < s.epoch /\ s.epoch < r.epoch => ~ Decided(s)

(* What may become of a row: what was proposed is kept, its member's states *)
(* never go back, share digests and encrypted secrets once known are kept,  *)
(* and it stays decided or aborted.                                         *)
Advances(r, s) ==
  /\ s.epoch = r.epoch /\ s.last = r.last
  /\ s.members = r.members /\ s.coordinator = r.coordinator
  /\ Decided(r) => Decided(s)
  /\ r.state = "Aborted" => s.state = "Aborted"
  /\ r.digests => s.digests
  /\ r.secrets # {} => s.secrets = r.secrets
  /\ \A n \in Node : /\ r.mstate[n] # "Unacked" => s.mstate[n] # "Unacked"
                     /\ r.mstate[n] = "Committed" => s.mstate[n] = "Committed"

(* Several Nexus instances race to record what they have learned, with      *)
(* answers that may be stale: no transaction takes anything back.           *)
RowsOnlyAdvance ==
  [][\A r \in rows : \E s \in rows' : Advances(r, s)]_rows

-----------------------------------------------------------------------------
(* The rows as one history of memberships: those decided on, the one that   *)
(* is pending, and the epochs used.                                         *)

EntryOf(r) == [epoch |-> r.epoch, members |-> r.members]

DecidedEntries == {EntryOf(r) : r \in {s \in rows : Decided(s)}}
PendingEntries == {EntryOf(r) : r \in {s \in rows : s.state = "Preparing"}}
UsedEpochs     == {r.epoch : r \in rows}

Membership == INSTANCE RackMembership
  WITH decided <- DecidedEntries, pending <- PendingEntries, used <- UsedEpochs

=============================================================================
