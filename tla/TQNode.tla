------------------------------- MODULE TQNode -------------------------------
(***************************************************************************)
(* The trust quorum node: the sans-io state machine of                     *)
(* trust-quorum/protocol/src (node.rs, coordinator_state.rs,               *)
(* compute_key_share.rs, rack_secret_loader.rs) as run by NodeTask.        *)
(*                                                                         *)
(* NodeTask handles one event at a time, saves the persistent state, and   *)
(* only then sends the envelopes the handler produced, so a handler, its   *)
(* save and its sends are one atomic step.                                 *)
(*                                                                         *)
(* `msgs` holds every peer message ever sent and never forgets one:        *)
(* delivery is therefore unordered, and may be repeated, arbitrarily late  *)
(* or never.  That covers broken connections, the messages that            *)
(* Node::on_connect sends again, and peers that are not connected when a   *)
(* handler sends.  A message addressed to several nodes is one record.     *)
(*                                                                         *)
(* An Option is a set with at most one element.                            *)
(***************************************************************************)
EXTENDS TQTypes

VARIABLES
  configs,     \* [Node -> SUBSET Config]       PersistentState::configs
  shares,      \* [Node -> SUBSET Epoch]        PersistentState::shares
  commits,     \* [Node -> SUBSET Epoch]        PersistentState::commits
  expunged,    \* [Node -> SUBSET Epoch]        PersistentState::expunged
  coord,       \* [Node -> SUBSET CoordState]   Node::coordinator_state
  ksc,         \* [Node -> SUBSET Collector]    Node::key_share_computer
  collector,   \* [Node -> SUBSET Collector]    RackSecretLoader::collector
  loaded,      \* [Node -> SUBSET Epoch]        RackSecretLoader::loaded
  alarms,      \* [Node -> SUBSET Alarm]        alarms raised
  msgs         \* peer messages sent so far

persistentVars == <<configs, shares, commits, expunged>>
loaderVars     == <<collector, loaded>>
nodeVars == <<configs, shares, commits, expunged, coord, ksc, collector,
              loaded, alarms, msgs>>

Alarm == {"MismatchedConfigurations", "CommittedConfigurationLost"}

(* CoordinatorState: `old` is the epoch whose shares are collected (None    *)
(* for a brand new quorum), `replies` the owners of old_collected_shares    *)
(* while collecting and prepare_acks while preparing.  The nodes still in   *)
(* `prepares` are the members that are not in prepare_acks.                 *)
CoordState == [config : Config, old : Epoch \cup {NoEpoch},
               op : {"CollectShares", "Prepare"}, replies : SUBSET Node]

(* KeyShareComputer and ShareCollector: whose shares have been collected.   *)
Collector == [config : Config, replies : SUBSET Node]

PeerMsg ==
       [type : {"Prepare"}, from : Node, to : SUBSET Node, config : Config]
  \cup [type : {"PrepareAck"}, from : Node, to : SUBSET Node, epoch : Epoch]
  \cup [type : {"GetShare"}, from : Node, to : SUBSET Node, epoch : Epoch]
  \cup [type : {"Share"}, from : Node, to : SUBSET Node, epoch : Epoch]
  \cup [type : {"CommitAdvance"}, to : SUBSET Node, config : Config]
  \cup [type : {"Expunged"}, to : SUBSET Node, epoch : Epoch]

NodeTypeOK ==
  /\ configs   \in [Node -> SUBSET Config]
  /\ shares    \in [Node -> SUBSET Epoch]
  /\ commits   \in [Node -> SUBSET Epoch]
  /\ expunged  \in [Node -> SUBSET Epoch]
  /\ coord     \in [Node -> SUBSET CoordState]
  /\ ksc       \in [Node -> SUBSET Collector]
  /\ collector \in [Node -> SUBSET Collector]
  /\ loaded    \in [Node -> SUBSET Epoch]
  /\ alarms    \in [Node -> SUBSET Alarm]
  /\ msgs      \in SUBSET PeerMsg

-----------------------------------------------------------------------------
(* Reading the persistent state.                                            *)

HasConfig(n, e) == \E c \in configs[n] : c.epoch = e

(* Mutant: having the configuration is taken for being prepared. *)
MutHasPrepared(n, e) == HasConfig(n, e)

HasPrepared(n, e) == HasConfig(n, e) /\ e \in shares[n]

(* e is latest_committed_epoch(); NoEpoch when nothing is committed. *)
IsLatestCommitted(n, e) ==
  \/ e = NoEpoch /\ commits[n] = {}
  \/ e \in commits[n] /\ \A f \in commits[n] : f <= e

(* Mutant: the latest configuration, committed or not. *)
MutIsLatestConfig(n, c) == \A d \in configs[n] : d.epoch <= c.epoch

(* c is latest_committed_configuration() *)
IsLatestCommittedConfig(n, c) ==
  c \in configs[n] /\ c.epoch \in commits[n] /\ IsLatestCommitted(n, c.epoch)

(* latest_committed_epoch() >= e *)
CommittedAtLeast(n, e) == \E f \in commits[n] : f >= e

(* insert_unique: a configuration already stored for the epoch is kept. *)
InsertUnique(n, c) ==
  IF HasConfig(n, c.epoch) THEN configs[n] ELSE configs[n] \cup {c}

InService(n) == expunged[n] = {}

Send(ms) == msgs' = msgs \cup ms

GetShareMsg(n, c) ==
  [type |-> "GetShare", from |-> n, to |-> c.members \ {n},
   epoch |-> c.epoch]

PrepareMsg(n, c) ==
  [type |-> "Prepare", from |-> n, to |-> c.members \ {n}, config |-> c]

-----------------------------------------------------------------------------
(* Coordinating a reconfiguration.                                          *)

(* ValidatedReconfigureMsg::new accepts the message as a new request: it is *)
(* well formed, the node is in service, it has committed exactly what Nexus *)
(* believes, has seen no configuration as recent as this one and is not     *)
(* coordinating one as recent.                                              *)
ValidReconfigureMsg(n, m) ==
  /\ n \in m.members
  /\ ValidSize(m.members)
  /\ InService(n)
  /\ IsLatestCommitted(n, m.last)
  /\ \A c \in configs[n] : c.epoch < m.epoch
  /\ \A cs \in coord[n] : cs.config.epoch < m.epoch

(* Mutant: the epoch after the requested one. *)
MutNewConfiguration(n, m) ==
  [epoch |-> m.epoch + 1, members |-> m.members, coordinator |-> n,
   secrets |-> {}]

NewConfiguration(n, m) ==
  [epoch |-> m.epoch, members |-> m.members, coordinator |-> n,
   secrets |-> {}]

(* CoordinatorState::new_uninitialized: the node saves its own share and    *)
(* configuration and starts preparing at once.                              *)
CoordinateUninitialized(n, m) ==
  LET c == NewConfiguration(n, m) IN
    /\ commits[n] = {}
    /\ coord' = [coord EXCEPT ![n] = {[config |-> c, old |-> NoEpoch,
                                       op |-> "Prepare", replies |-> {n}]}]
    /\ shares' = [shares EXCEPT ![n] = @ \cup {c.epoch}]
    /\ configs' = [configs EXCEPT ![n] = @ \cup {c}]
    /\ Send({PrepareMsg(n, c)})

(* CoordinatorState::new_reconfiguration: first collect the shares of the   *)
(* last committed configuration.                                            *)
CoordinateFromCommitted(n, m) ==
  \E old \in configs[n] :
    /\ commits[n] # {}
    /\ old.epoch = m.last
    /\ coord' = [coord EXCEPT ![n] =
                   {[config |-> NewConfiguration(n, m), old |-> m.last,
                     op |-> "CollectShares", replies |-> {n}]}]
    /\ Send({GetShareMsg(n, old)})
    /\ UNCHANGED <<shares, configs>>

(* Node::coordinate_reconfiguration *)
CoordinateReconfiguration(n, m) ==
  /\ ValidReconfigureMsg(n, m)
  /\ ksc' = [ksc EXCEPT ![n] = {}]
  /\ CoordinateUninitialized(n, m) \/ CoordinateFromCommitted(n, m)
  /\ UNCHANGED <<commits, expunged, alarms, loaderVars>>

(* Mutant: the coordinator state is left collecting. *)
MutPreparing(n, cs, c) == [cs EXCEPT !.config = c, !.replies = {n}]

Preparing(n, cs, c) ==
  [cs EXCEPT !.config = c, !.op = "Prepare", !.replies = {n}]

(* CoordinatorState::transition_to_preparing: the old rack secrets go into  *)
(* the new configuration, which is saved and sent.                          *)
TransitionToPreparing(n, cs, old) ==
  LET c == [cs.config EXCEPT !.secrets = old.secrets \cup {old.epoch}] IN
    /\ shares' = [shares EXCEPT ![n] = @ \cup {c.epoch}]
    /\ configs' = [configs EXCEPT ![n] = @ \cup {c}]
    /\ coord' = [coord EXCEPT ![n] = {Preparing(n, cs, c)}]
    /\ Send({PrepareMsg(n, c)})

(* validate_share, and the share is new. *)
NewShare(m, c, replies) ==
  m.epoch = c.epoch /\ m.from \in c.members /\ m.from \notin replies

(* CoordinatorState::handle_share *)
CoordinatorHandleShare(n, m) ==
  \E cs \in coord[n] :
    /\ \/ /\ cs.op = "CollectShares"
          /\ \E old \in configs[n] :
               /\ old.epoch = cs.old
               /\ NewShare(m, old, cs.replies)
               /\ LET got == cs.replies \cup {m.from} IN
                    IF Cardinality(got) < Threshold(old.members)
                    THEN /\ coord' = [coord EXCEPT ![n] =
                                        {[cs EXCEPT !.replies = got]}]
                         /\ UNCHANGED <<shares, configs, msgs>>
                    ELSE TransitionToPreparing(n, cs, old)
       \/ /\ ~ \E old \in configs[n] : /\ cs.op = "CollectShares"
                                       /\ old.epoch = cs.old
                                       /\ NewShare(m, old, cs.replies)
          /\ UNCHANGED <<coord, shares, configs, msgs>>
    /\ UNCHANGED <<commits, ksc>>

(* Mutant: the computed share is not saved. *)
MutSaveComputedShare(n, e) ==
  /\ UNCHANGED shares
  /\ commits' = [commits EXCEPT ![n] = @ \cup {e}]

SaveComputedShare(n, e) ==
  /\ shares' = [shares EXCEPT ![n] = @ \cup {e}]
  /\ commits' = [commits EXCEPT ![n] = @ \cup {e}]

(* KeyShareComputer::handle_share: with K shares the node computes its own  *)
(* share, and commits.                                                      *)
KscHandleShare(n, m) ==
  \E k \in ksc[n] :
    /\ coord[n] = {}
    /\ LET got == k.replies \cup {m.from} IN
         \/ /\ ~ NewShare(m, k.config, k.replies)
            /\ UNCHANGED <<ksc, shares, commits>>
         \/ /\ NewShare(m, k.config, k.replies)
            /\ Cardinality(got) < Threshold(k.config.members)
            /\ ksc' = [ksc EXCEPT ![n] = {[k EXCEPT !.replies = got]}]
            /\ UNCHANGED <<shares, commits>>
         \/ /\ NewShare(m, k.config, k.replies)
            /\ Cardinality(got) >= Threshold(k.config.members)
            /\ ksc' = [ksc EXCEPT ![n] = {}]
            /\ SaveComputedShare(n, m.epoch)
    /\ UNCHANGED <<coord, configs, msgs>>

(* RackSecretLoader::handle_share: with K shares the secret of the epoch    *)
(* and every secret encrypted in its configuration replace what is loaded.  *)
LoaderHandleShare(n, m) ==
  LET new == {k \in collector[n] : /\ m.epoch \notin loaded[n]
                                   /\ NewShare(m, k.config, k.replies)}
      got(k) == k.replies \cup {m.from}
      done == {k \in new : Cardinality(got(k)) >= Threshold(k.config.members)}
  IN /\ collector' = [collector EXCEPT ![n] =
          IF new = {} THEN @
          ELSE {[k EXCEPT !.replies = got(k)] : k \in new \ done}]
     /\ loaded' = [loaded EXCEPT ![n] =
          IF done = {} THEN @
          ELSE UNION {k.config.secrets \cup {k.config.epoch} : k \in done}]

(* Node::handle_share *)
HandleShare(n, m) ==
  /\ InService(n)
  /\ \/ CoordinatorHandleShare(n, m)
     \/ KscHandleShare(n, m)
     \/ /\ coord[n] = {} /\ ksc[n] = {}
        /\ UNCHANGED <<coord, ksc, configs, shares, commits, msgs>>
  /\ LoaderHandleShare(n, m)
  /\ UNCHANGED <<expunged, alarms>>

-----------------------------------------------------------------------------
(* Messages between nodes.                                                  *)

(* Mutant: a known configuration is taken for a duplicate Prepare. *)
MutSavePrepare(n, c) ==
  IF HasConfig(n, c.epoch)
  THEN UNCHANGED <<shares, configs>>
  ELSE /\ shares' = [shares EXCEPT ![n] = @ \cup {c.epoch}]
       /\ configs' = [configs EXCEPT ![n] = InsertUnique(n, c)]

SavePrepare(n, c) ==
  /\ shares' = [shares EXCEPT ![n] = @ \cup {c.epoch}]
  /\ configs' = [configs EXCEPT ![n] = InsertUnique(n, c)]

(* Node::handle_prepare: the share and configuration are saved unless a     *)
(* later epoch is committed, an older coordination is cancelled, and the    *)
(* prepare is acknowledged even when it is a duplicate.                     *)
HandlePrepare(n, m) ==
  LET c == m.config IN
    /\ InService(n)
    /\ ~ CommittedAtLeast(n, c.epoch + 1)
    /\ n \in c.members
    /\ SavePrepare(n, c)
    /\ coord' = [coord EXCEPT ![n] =
                   {cs \in @ : c.epoch <= cs.config.epoch}]
    /\ Send({[type |-> "PrepareAck", from |-> n, to |-> {m.from},
              epoch |-> c.epoch]})
    /\ UNCHANGED <<commits, expunged, ksc, alarms, loaderVars>>

(* Node::handle_prepare_ack and CoordinatorState::ack_prepare *)
HandlePrepareAck(n, m) ==
  \E cs \in coord[n] :
    /\ InService(n)
    /\ cs.config.epoch = m.epoch
    /\ cs.op = "Prepare"
    /\ m.from \in cs.config.members
    /\ coord' = [coord EXCEPT ![n] = {[cs EXCEPT !.replies = @ \cup {m.from}]}]
    /\ UNCHANGED <<persistentVars, ksc, alarms, msgs, loaderVars>>

(* Mutant: the membership test is inverted. *)
MutIsExpungedFrom(n, c) == n \in c.members

(* Mutant: the membership is not looked at. *)
MutNeverExpunged(n, c) == FALSE

IsExpungedFrom(n, c) == n \notin c.members

(* What a GetShare for epoch e from `from` is answered with: the latest     *)
(* committed configuration when the requester is behind, Expunged when it   *)
(* is no longer a member, the share when this node has it, or nothing.      *)
GetShareReplies(n, from, e) ==
  LET later == {c \in configs[n] : c.epoch > e /\ IsLatestCommittedConfig(n, c)}
      known == {c \in configs[n] : c.epoch = e}
      isExpunged == {c \in IF later # {} THEN later ELSE known :
                                                    IsExpungedFrom(from, c)}
  IN CASE isExpunged # {} ->
            {[type |-> "Expunged", to |-> {from}, epoch |-> c.epoch] :
                                                           c \in isExpunged}
       [] isExpunged = {} /\ later # {} ->
            {[type |-> "CommitAdvance", to |-> {from}, config |-> c] :
                                                           c \in later}
       [] isExpunged = {} /\ later = {} ->
            {[type |-> "Share", from |-> n, to |-> {from}, epoch |-> s] :
                                                 s \in shares[n] \cap {e}}

(* Node::handle_get_share *)
HandleGetShare(n, m) ==
  /\ InService(n)
  /\ Send(GetShareReplies(n, m.from, m.epoch))
  /\ UNCHANGED <<persistentVars, coord, ksc, alarms, loaderVars>>

(* Node::handle_expunged: ignored by a node that has a later configuration  *)
(* or none at all.                                                          *)
HandleExpunged(n, m) ==
  /\ InService(n)
  /\ configs[n] # {}
  /\ \A c \in configs[n] : c.epoch <= m.epoch
  /\ expunged' = [expunged EXCEPT ![n] = {m.epoch}]
  /\ coord' = [coord EXCEPT ![n] = {}]
  /\ ksc' = [ksc EXCEPT ![n] = {}]
  /\ UNCHANGED <<configs, shares, commits, alarms, msgs, loaderVars>>

(* Mutant: a coordination goes on. *)
MutStillCoordinating(n, c) == coord[n]

(* A coordination of the same epoch or an older one is cancelled. *)
StillCoordinating(n, c) == {cs \in coord[n] : cs.config.epoch > c.epoch}

(* Mutant: the computation starts only when the configuration is new. *)
MutStartsComputing(n, c) ==
  /\ ~ HasConfig(n, c.epoch)
  /\ \A k \in ksc[n] : k.config.epoch < c.epoch

StartsComputing(n, c) ==
  /\ ~ HasPrepared(n, c.epoch)
  /\ \A k \in ksc[n] : k.config.epoch < c.epoch

(* The state changes of Node::handle_commit_advance once the configuration  *)
(* is known to be acceptable: a prepared node commits, any other saves the  *)
(* configuration and, unless it already does, computes its key share.       *)
AdvanceTo(n, c) ==
  LET prepared == HasPrepared(n, c.epoch)
      later    == {k \in ksc[n] : k.config.epoch > c.epoch}
      start    == StartsComputing(n, c)
  IN /\ commits' = IF prepared
                   THEN [commits EXCEPT ![n] = @ \cup {c.epoch}]
                   ELSE commits
     /\ configs' = [configs EXCEPT ![n] = InsertUnique(n, c)]
     /\ coord' = [coord EXCEPT ![n] = StillCoordinating(n, c)]
     /\ ksc' = [ksc EXCEPT ![n] =
                  IF prepared THEN later
                  ELSE IF start THEN {[config |-> c, replies |-> {}]}
                  ELSE @]
     /\ Send(IF start THEN {GetShareMsg(n, c)} ELSE {})
     /\ UNCHANGED alarms

(* A different configuration is stored for the epoch. *)
MismatchedConfigurations(n, c) ==
  /\ ~ HasPrepared(n, c.epoch)
  /\ \E d \in configs[n] : d.epoch = c.epoch /\ d # c

(* Node::handle_commit_advance *)
HandleCommitAdvance(n, c) ==
  /\ n \in c.members
  /\ ~ CommittedAtLeast(n, c.epoch)
  /\ \/ ~ MismatchedConfigurations(n, c) /\ AdvanceTo(n, c)
     \/ /\ MismatchedConfigurations(n, c)
        /\ alarms' = [alarms EXCEPT ![n] = @ \cup {"MismatchedConfigurations"}]
        /\ UNCHANGED <<commits, configs, coord, ksc, msgs>>
  /\ UNCHANGED <<shares, expunged, loaderVars>>

(* Node::handle: the message goes to its handler.  A delivery that changes  *)
(* nothing is a stuttering step.                                            *)
Handle(n, m) ==
  /\ n \in m.to
  /\ \/ m.type = "Prepare" /\ HandlePrepare(n, m)
     \/ m.type = "PrepareAck" /\ HandlePrepareAck(n, m)
     \/ m.type = "GetShare" /\ HandleGetShare(n, m)
     \/ m.type = "Share" /\ HandleShare(n, m)
     \/ m.type = "Expunged" /\ HandleExpunged(n, m)
     \/ /\ m.type = "CommitAdvance"
        /\ InService(n)
        /\ HandleCommitAdvance(n, m.config)
  /\ nodeVars' # nodeVars

HandlePeerMsg(n) == \E m \in msgs : Handle(n, m)

(* Node n has a GetShare for epoch e outstanding. *)
Collecting(n, e) ==
  \/ \E cs \in coord[n] : cs.op = "CollectShares" /\ cs.old = e
  \/ \E k \in ksc[n] \cup collector[n] : k.config.epoch = e

(* The message is one that Node::on_connect sends again to node n, or the   *)
(* answer to one: only these are sure to arrive in the end.                 *)
IsResent(n, m) ==
  CASE m.type = "Prepare" ->
         \E cs \in coord[m.from] : cs.op = "Prepare" /\ cs.config = m.config
    [] m.type = "GetShare" -> Collecting(m.from, m.epoch)
    [] m.type \in {"PrepareAck", "Share"} -> TRUE
    [] m.type = "CommitAdvance" -> \E e \in Epoch : /\ e < m.config.epoch
                                                    /\ Collecting(n, e)
    [] m.type = "Expunged" -> \E e \in Epoch : e <= m.epoch /\ Collecting(n, e)

-----------------------------------------------------------------------------
(* Requests made at the node's API.                                         *)

(* Node::commit_configuration with a new epoch. *)
CommitConfiguration(n, e) ==
  /\ InService(n)
  /\ ~ CommittedAtLeast(n, e)
  /\ HasPrepared(n, e)
  /\ commits' = [commits EXCEPT ![n] = @ \cup {e}]
  /\ coord' = [coord EXCEPT ![n] = {cs \in @ : cs.config.epoch # e}]
  /\ UNCHANGED <<configs, shares, expunged, ksc, alarms, msgs, loaderVars>>

(* Node::prepare_and_commit *)
PrepareAndCommit(n, c) == InService(n) /\ HandleCommitAdvance(n, c)

(* Mutant: a collection in progress is never replaced. *)
MutStartsCollecting(n, c) == collector[n] = {}

StartsCollecting(n, c) == \A k \in collector[n] : k.config.epoch < c.epoch

(* RackSecretLoader::load when it has work to do: the secret of epoch e is  *)
(* not loaded, so the shares of the latest committed epoch are requested.   *)
LoadRackSecret(n, e) ==
  \E c \in configs[n] :
    LET lost  == \E k \in collector[n] : k.config.epoch > c.epoch
        start == StartsCollecting(n, c)
    IN
    /\ IsLatestCommittedConfig(n, c)
    /\ e \notin loaded[n] /\ e <= c.epoch
    /\ c.epoch \notin loaded[n]
    /\ collector' = IF start
                    THEN [collector EXCEPT ![n] =
                            {[config |-> c, replies |-> {n}]}]
                    ELSE collector
    /\ Send(IF start THEN {GetShareMsg(n, c)} ELSE {})
    /\ alarms' = IF lost
                 THEN [alarms EXCEPT ![n] =
                         @ \cup {"CommittedConfigurationLost"}]
                 ELSE alarms
    /\ UNCHANGED <<persistentVars, coord, ksc, loaded>>

(* Node::clear_secrets *)
ClearSecrets(n) ==
  /\ collector[n] # {} \/ loaded[n] # {}
  /\ collector' = [collector EXCEPT ![n] = {}]
  /\ loaded' = [loaded EXCEPT ![n] = {}]
  /\ UNCHANGED <<persistentVars, coord, ksc, alarms, msgs>>

(* The process restarts: NodeTask::new loads the ledgers and Node::new      *)
(* starts with empty in-memory state.                                       *)
Restart(n) ==
  /\ coord[n] # {} \/ ksc[n] # {} \/ collector[n] # {} \/ loaded[n] # {}
  /\ coord' = [coord EXCEPT ![n] = {}]
  /\ ksc' = [ksc EXCEPT ![n] = {}]
  /\ collector' = [collector EXCEPT ![n] = {}]
  /\ loaded' = [loaded EXCEPT ![n] = {}]
  /\ UNCHANGED <<persistentVars, alarms, msgs>>

=============================================================================
