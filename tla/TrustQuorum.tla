---------------------------- MODULE TrustQuorum ----------------------------
(***************************************************************************)
(* The trust quorum system: the nodes (TQNode) driven by Nexus (TQNexus),  *)
(* and first of all by the rack setup service, which creates epoch 1 and   *)
(* hands it off to Nexus.                                                  *)
(***************************************************************************)
EXTENDS TQNode, TQNexus

CONSTANTS Loaders,          \* nodes whose clients ask for rack secrets
          Restarters        \* nodes whose process may restart

ASSUME LoadersAssumption ==
  /\ Loaders \subseteq Node
  /\ Restarters \subseteq Node

VARIABLE rss    \* how far init_trust_quorum has come

vars == <<configs, shares, commits, expunged, coord, ksc, collector, loaded,
          alarms, msgs, rows, task, requests, commitAcks, rss>>

RssStep == {"Start", "Preparing", "Committing", "Done"}

TypeOK == NodeTypeOK /\ NexusTypeOK /\ rss \in RssStep

-----------------------------------------------------------------------------
(* Rack setup.                                                              *)

(* Every sled is uninitialized and the database is empty. *)
Init ==
  /\ configs   = [n \in Node |-> {}]
  /\ shares    = [n \in Node |-> {}]
  /\ commits   = [n \in Node |-> {}]
  /\ expunged  = [n \in Node |-> {}]
  /\ coord     = [n \in Node |-> {}]
  /\ ksc       = [n \in Node |-> {}]
  /\ collector = [n \in Node |-> {}]
  /\ loaded    = [n \in Node |-> {}]
  /\ alarms    = [n \in Node |-> {}]
  /\ msgs      = {}
  /\ rows      = {}
  /\ task      = [t \in Task |-> {}]
  /\ requests  = {}
  /\ commitAcks = {}
  /\ rss = "Start"

RssReconfigureMsg ==
  [epoch |-> 1, last |-> NoEpoch, members |-> InitialMembers]

(* init_trust_quorum runs on one of the peers and makes it the coordinator. *)
RssReconfigure(n) ==
  /\ rss = "Start"
  /\ CoordinateReconfiguration(n, RssReconfigureMsg)
  /\ rss' = "Preparing"
  /\ UNCHANGED nexusVars

(* Its loop ends when every member has acknowledged its prepare; it then    *)
(* commits at its own node first.                                           *)
RssCommitSelf(n) ==
  /\ rss = "Preparing"
  /\ \E cs \in coord[n] : cs.op = "Prepare" /\ cs.replies = InitialMembers
  /\ CommitConfiguration(n, 1)
  /\ rss' = "Committing"
  /\ UNCHANGED nexusVars

(* Then it proxies a commit to the other members. *)
RssProxyCommit(n) ==
  /\ rss = "Committing"
  /\ n \in InitialMembers
  /\ CommitConfiguration(n, 1)
  /\ UNCHANGED <<nexusVars, rss>>

(* Mutant: one commit is enough. *)
MutAllCommitted == \E m \in InitialMembers : 1 \in commits[m]

AllCommitted == \A m \in InitialMembers : 1 \in commits[m]

(* All commits succeeded: handoff inserts the first row into the database   *)
(* (tq_insert_rss_config_after_handoff).                                    *)
RssHandoff ==
  \E n \in InitialMembers :
    /\ rss = "Committing"
    /\ AllCommitted
    /\ \E c \in configs[n] : c.epoch = 1 /\ c.coordinator = n
    /\ rows' = {RssRow(InitialMembers, n)}
    /\ rss' = "Done"
    /\ UNCHANGED <<nodeVars, task, requests, commitAcks>>

-----------------------------------------------------------------------------
(* Nexus and the nodes.                                                     *)

(* The coordinator receives its ReconfigureMsg, which is sent once. *)
NodeReconfigure(n) ==
  \E q \in requests :
    /\ q.type = "Reconfigure"
    /\ q.to = n
    /\ CoordinateReconfiguration(n, q)
    /\ requests' = requests \ {q}
    /\ UNCHANGED <<rows, task, commitAcks, rss>>

(* NodeTask::commit.  Nexus takes any Ok for an acknowledgement, also the   *)
(* one for a stale or duplicate request.                                    *)
NodeCommit(n) ==
  \E q \in requests :
    /\ q.type = "Commit"
    /\ q.to = n
    /\ InService(n)
    /\ \/ CommitConfiguration(n, q.epoch)
       \/ CommittedAtLeast(n, q.epoch) /\ UNCHANGED nodeVars
    /\ commitAcks' = commitAcks \cup {<<n, q.epoch>>}
    /\ UNCHANGED <<rows, task, requests, rss>>

(* Mutant: Pending is taken for an acknowledgement. *)
MutAckIfCommitted(n, e) == {<<n, e>>}

AckIfCommitted(n, e) == {<<n, f>> : f \in commits'[n] \cap {e}}

(* NodeTask::prepare_and_commit, acknowledged with Committed only when the  *)
(* epoch itself is committed.                                               *)
NodePrepareAndCommit(n) ==
  \E q \in requests :
    /\ q.type = "PrepareAndCommit"
    /\ q.to = n
    /\ InService(n)
    /\ \/ PrepareAndCommit(n, q.config)
       \/ CommittedAtLeast(n, q.config.epoch) /\ UNCHANGED nodeVars
    /\ commitAcks' = commitAcks \cup AckIfCommitted(n, q.config.epoch)
    /\ UNCHANGED <<rows, task, requests, rss>>

(* The coordinator answers a poll with its status, in whichever phase of    *)
(* its coordination it is; prepare_acks is empty unless it is preparing.    *)
CoordinatorStatus(cs) ==
  [config |-> cs.config,
   acks |-> IF cs.op = "Prepare" THEN cs.replies ELSE {}]

NexusPoll(t) ==
  \E a \in task[t] :
    \E cs \in coord[a.row.coordinator] :
      TaskPoll(t, CoordinatorStatus(cs)) /\ UNCHANGED <<nodeVars, rss>>

LoadSecrets(n) ==
  \E e \in Epoch : LoadRackSecret(n, e) /\ UNCHANGED <<nexusVars, rss>>

NodeStep(n) ==
  \/ HandlePeerMsg(n) /\ UNCHANGED <<nexusVars, rss>>
  \/ n \in Restarters /\ Restart(n) /\ UNCHANGED <<nexusVars, rss>>
  \/ n \in Loaders /\ LoadSecrets(n)
  \/ ClearSecrets(n) /\ UNCHANGED <<nexusVars, rss>>
  \/ NodeReconfigure(n)
  \/ NodeCommit(n)
  \/ NodePrepareAndCommit(n)

NexusStep ==
  \/ TqPropose /\ UNCHANGED <<nodeVars, rss>>
  \/ TqAbort /\ UNCHANGED <<nodeVars, rss>>
  \/ TqUpdateCommitStatus /\ UNCHANGED <<nodeVars, rss>>
  \/ TaskCommit /\ UNCHANGED <<nodeVars, rss>>
  \/ \E t \in Task :
       \/ TaskLoad(t) /\ UNCHANGED <<nodeVars, rss>>
       \/ NexusPoll(t)
       \/ TaskUpdatePrepareStatus(t) /\ UNCHANGED <<nodeVars, rss>>
       \/ TaskFail(t) /\ UNCHANGED <<nodeVars, rss>>

RssStepAction ==
  \/ \E n \in Node : RssReconfigure(n) \/ RssCommitSelf(n) \/ RssProxyCommit(n)
  \/ RssHandoff

Next == (\E n \in Node : NodeStep(n)) \/ NexusStep \/ RssStepAction

Spec == Init /\ [][Next]_vars

(* What a node does in the end, if it can: handle a message that its sender *)
(* sends again whenever the two reconnect, or a commit request of Nexus.    *)
NodeProgress(n) ==
  \/ /\ \E m \in msgs : IsResent(n, m) /\ Handle(n, m)
     /\ UNCHANGED <<nexusVars, rss>>
  \/ NodeCommit(n)
  \/ NodePrepareAndCommit(n)

(* What the code keeps doing: connections are re-established and the        *)
(* outstanding messages sent again, background tasks are activated          *)
(* periodically and their polls and transactions do not fail for ever,      *)
(* commit requests are repeated until they are acknowledged, and clients    *)
(* retry to load a rack secret.  Nothing is assumed of the operator, of the *)
(* ReconfigureMsg (it is sent once), or of messages nobody sends again.     *)
Fairness ==
  /\ WF_vars(\E n \in Node : NodeProgress(n))
  /\ \A n \in Loaders : WF_vars(LoadSecrets(n))
  /\ WF_vars((TaskCommit \/ TqUpdateCommitStatus) /\ UNCHANGED <<nodeVars, rss>>)
  /\ \A t \in Task :
       /\ WF_vars(TaskLoad(t) /\ UNCHANGED <<nodeVars, rss>>)
       /\ SF_vars(NexusPoll(t))
       /\ SF_vars(TaskUpdatePrepareStatus(t) /\ UNCHANGED <<nodeVars, rss>>)

(* Processes stop restarting at some point. *)
FinitelyManyRestarts == <>[][\A n \in Node : ~ Restart(n)]_vars

FairSpec == Spec /\ Fairness

(* The state right after the handoff, the old connections being closed. *)
InitAfterHandoff ==
  \E k \in InitialMembers :
    LET c == [epoch |-> 1, members |-> InitialMembers, coordinator |-> k,
              secrets |-> {}]
        one(n, v) == IF n \in InitialMembers THEN {v} ELSE {}
    IN
    /\ configs   = [n \in Node |-> one(n, c)]
    /\ shares    = [n \in Node |-> one(n, 1)]
    /\ commits   = [n \in Node |-> one(n, 1)]
    /\ expunged  = [n \in Node |-> {}]
    /\ coord     = [n \in Node |-> {}]
    /\ ksc       = [n \in Node |-> {}]
    /\ collector = [n \in Node |-> {}]
    /\ loaded    = [n \in Node |-> {}]
    /\ alarms    = [n \in Node |-> {}]
    /\ msgs      = {}
    /\ rows      = {RssRow(InitialMembers, k)}
    /\ task      = [t \in Task |-> {}]
    /\ requests  = {}
    /\ commitAcks = {}
    /\ rss = "Done"

SpecAfterHandoff == InitAfterHandoff /\ [][Next]_vars

-----------------------------------------------------------------------------
(* Safety.                                                                  *)

(* The configuration of epoch e and the node's own share of it are saved. *)
OnDisk(n, e) == HasConfig(n, e) /\ e \in shares[n]

(* A committed epoch has a configuration and a share on disk, so that the   *)
(* expects of latest_committed_configuration, latest_committed_config_and_  *)
(* share and ShareCollector::new cannot fail, whichever of commit,          *)
(* PrepareAndCommit, CommitAdvance or key share computation committed it.   *)
CommittedIsPrepared ==
  \A n \in Node : \A e \in commits[n] : OnDisk(n, e)

(* While a coordinator collects old shares it still has the old             *)
(* configuration, has stored none for the epoch it coordinates, and has not *)
(* filled in the secrets: the assertion and the two expects that            *)
(* transition_to_preparing and handle_share rest on, in spite of the        *)
(* Prepare, CommitAdvance and PrepareAndCommit messages arriving meanwhile. *)
CollectingCanPrepare ==
  \A n \in Node : \A cs \in coord[n] :
    cs.op = "CollectShares" =>
      /\ OnDisk(n, cs.old)
      /\ ~ HasConfig(n, cs.config.epoch)
      /\ cs.config.secrets = {}

(* A node never coordinates while it computes a key share: handle_share     *)
(* gives a share to the coordinator state or else to the key share          *)
(* computer, so the computer would starve.                                  *)
NotCoordinatingAndComputing ==
  \A n \in Node : coord[n] = {} \/ ksc[n] = {}

(* coordinate_reconfiguration cancels a key share computation, of which it  *)
(* says "I don't think it's actually possible to hit this condition": no    *)
(* deliverable ReconfigureMsg that would be accepted finds one.             *)
AcceptedWhileNotComputing ==
  \A q \in requests :
    q.type = "Reconfigure" /\ ValidReconfigureMsg(q.to, q) => ksc[q.to] = {}

(* Whoever is recorded as having acknowledged a prepare, by its coordinator *)
(* or by Nexus, has the configuration and its share on disk.                *)
AckedIsPrepared ==
  /\ \A n \in Node : \A cs \in coord[n] :
       cs.op = "Prepare" =>
         \A m \in cs.replies : OnDisk(m, cs.config.epoch)
  /\ \A r \in rows : \A n \in InState(r, "Prepared") : OnDisk(n, r.epoch)

(* A member that Nexus records as committed has committed that very epoch,  *)
(* although run_commit_ops takes any Ok to a Commit for an acknowledgement. *)
RecordedIsCommitted ==
  \A r \in rows : \A n \in InState(r, "Committed") : r.epoch \in commits[n]

(* Once Nexus has decided on a configuration, K + Z members hold its        *)
(* shares, so that the rack secret survives the loss of any Z of them.      *)
DecidedIsRecoverable ==
  \A r \in rows :
    Decided(r) =>
      Cardinality({n \in r.members : OnDisk(n, r.epoch)})
        >= Threshold(r.members) + CommitCrashTolerance(r.members)

(* A node commits an epoch only if Nexus decided on it: in particular no    *)
(* node ever commits a configuration that was aborted.                      *)
CommittedIsDecided ==
  \A n \in Node : \A e \in commits[n] :
    \/ e = 1
    \/ \E r \in rows : r.epoch = e /\ Decided(r)

(* No node commits a configuration that Nexus has aborted. *)
AbortedIsNotCommitted ==
  \A r \in rows : \A n \in Node :
    r.state = "Aborted" => r.epoch \notin commits[n]

(* Every node that has a configuration for an epoch has the membership and  *)
(* the coordinator that Nexus recorded for it.                              *)
SameMembership ==
  \A n \in Node : \A c \in configs[n] : \A r \in rows :
    c.epoch = r.epoch =>
      c.members = r.members /\ c.coordinator = r.coordinator

(* Two nodes that have a configuration for an epoch have the same one,      *)
(* encrypted rack secrets included.                                         *)
SameConfiguration ==
  \A m, n \in Node : \A c \in configs[m] : \A d \in configs[n] :
    c.epoch = d.epoch => c = d

(* A node that was told it is expunged is indeed not a member of a          *)
(* configuration that Nexus decided on.                                     *)
ExpungedIsRemoved ==
  \A n \in Node : \A e \in expunged[n] :
    \E r \in rows : r.epoch = e /\ Decided(r) /\ n \notin r.members

(* The rack secret loader collects for an epoch that is still committed,    *)
(* so the alarm CommittedConfigurationLost is never raised.                 *)
CommitNeverLost ==
  \A n \in Node : /\ "CommittedConfigurationLost" \notin alarms[n]
                  /\ \A k \in collector[n] : k.config.epoch \in commits[n]

(* Before the handoff the history consists of what rack setup was given. *)
DecidedHistory ==
  IF rows = {} THEN {[epoch |-> 1, members |-> InitialMembers]}
               ELSE DecidedEntries
UsedHistory == IF rows = {} THEN {1} ELSE UsedEpochs

Rack == INSTANCE RackTrustQuorum
  WITH decided <- DecidedHistory, pending <- PendingEntries,
       used <- UsedHistory, committed <- commits

(* Rack setup, Nexus and the nodes together implement one history of        *)
(* memberships, of which the sleds commit some, one at a time: a sled       *)
(* commits what Nexus has decided on by then, and is a member of it,        *)
(* whichever of commit, PrepareAndCommit, CommitAdvance or key share        *)
(* computation commits it.                                                  *)
OneRack == Rack!RackSpec

-----------------------------------------------------------------------------
(* Liveness, under Fairness.                                                *)

(* A reconfiguration whose coordinator is at work on it does not stay       *)
(* Preparing: Nexus decides on it, unless the operator aborts it.  Once     *)
(* Nexus has decided every member commits, also one that missed the Prepare *)
(* and has to compute its share from others (drive_reconfiguration,         *)
(* run_commit_ops).                                                         *)
ReconfigurationEnds ==
  \A e \in Epoch \ {1} :
    (\E r \in rows : /\ r.epoch = e
                     /\ \/ /\ r.state = "Preparing"
                           /\ \E cs \in coord[r.coordinator] : cs.config.epoch = e
                        \/ r.state = "Committing") ~>
    (\E r \in rows : r.epoch = e /\ (IsCommitted(r) \/ r.state = "Aborted"))

(* Loading a rack secret ends: enough shares arrive, for the epoch asked    *)
(* for or for a later one that the node learns of, or the node learns that  *)
(* it is expunged, or its client gives up.                                  *)
LoadEnds ==
  \A n \in Loaders :
    collector[n] # {} ~> collector[n] = {} \/ expunged[n] # {}

=============================================================================
