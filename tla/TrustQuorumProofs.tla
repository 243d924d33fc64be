------------------------- MODULE TrustQuorumProofs -------------------------
(***************************************************************************)
(* Proofs, for every number of sleds, Nexus instances and epochs: of type  *)
(* correctness; that committed configurations are on disk with their       *)
(* shares; that no two memberships are ever in use for one epoch, and that *)
(* a member recorded as committed has committed.                           *)
(***************************************************************************)
EXTENDS TrustQuorum, TQNexusProofs, TLAPS

-----------------------------------------------------------------------------
(* Every step of a trust quorum node preserves its types.                   *)

LEMMA MsgFields ==
  ASSUME NEW m \in PeerMsg
  PROVE  /\ m.to \in SUBSET Node
         /\ m.type = "Prepare" => m.from \in Node /\ m.config \in Config
         /\ m.type = "PrepareAck" => m.from \in Node /\ m.epoch \in Epoch
         /\ m.type = "GetShare" => m.from \in Node /\ m.epoch \in Epoch
         /\ m.type = "Share" => m.from \in Node /\ m.epoch \in Epoch
         /\ m.type = "CommitAdvance" => m.config \in Config
         /\ m.type = "Expunged" => m.epoch \in Epoch
BY Zenon DEF PeerMsg

LEMMA MsgsMade ==
  ASSUME NEW n \in Node, NEW c \in Config
  PROVE  GetShareMsg(n, c) \in PeerMsg /\ PrepareMsg(n, c) \in PeerMsg
BY Zenon DEF PeerMsg, GetShareMsg, PrepareMsg, Config

-----------------------------------------------------------------------------
(* Messages between nodes.                                                  *)

LEMMA PrepareType ==
  ASSUME NodeTypeOK, NEW n \in Node, NEW m \in msgs, m.type = "Prepare",
         HandlePrepare(n, m)
  PROVE  NodeTypeOK'
<1>1. m.config \in Config /\ m.from \in Node
  BY MsgFields, Zenon DEF NodeTypeOK
<1>2. [type |-> "PrepareAck", from |-> n, to |-> {m.from},
       epoch |-> m.config.epoch] \in PeerMsg
  BY <1>1, Zenon DEF PeerMsg, Config
<1> QED
  BY <1>1, <1>2, Zenon DEF HandlePrepare, SavePrepare, InsertUnique, Send,
                           NodeTypeOK, loaderVars, Config

LEMMA PrepareAckType ==
  ASSUME NodeTypeOK, NEW n \in Node, NEW m \in msgs, m.type = "PrepareAck",
         HandlePrepareAck(n, m)
  PROVE  NodeTypeOK'
<1>1. m.from \in Node
  BY MsgFields, Zenon DEF NodeTypeOK
<1>2. PICK cs \in coord[n] :
        /\ coord' = [coord EXCEPT ![n] = {[cs EXCEPT !.replies = @ \cup {m.from}]}]
        /\ UNCHANGED <<persistentVars, ksc, alarms, msgs, loaderVars>>
  BY Zenon DEF HandlePrepareAck
<1>3. [cs EXCEPT !.replies = @ \cup {m.from}] \in CoordState
  BY <1>1 DEF NodeTypeOK, CoordState
<1> QED
  BY <1>2, <1>3, Zenon DEF NodeTypeOK, persistentVars, loaderVars

LEMMA LoaderShareType ==
  ASSUME NodeTypeOK, NEW n \in Node, NEW m, m.from \in Node,
         LoaderHandleShare(n, m)
  PROVE  collector' \in [Node -> SUBSET Collector] /\ loaded' \in [Node -> SUBSET Epoch]
<1> DEFINE new == {k \in collector[n] : /\ m.epoch \notin loaded[n]
                                        /\ NewShare(m, k.config, k.replies)}
           done == {k \in new : Cardinality(k.replies \cup {m.from})
                                  >= Threshold(k.config.members)}
           more == {[k EXCEPT !.replies = k.replies \cup {m.from}] : k \in new \ done}
           secrets == UNION {k.config.secrets \cup {k.config.epoch} : k \in done}
<1>1. new \subseteq Collector /\ done \subseteq Collector
  BY Zenon DEF NodeTypeOK
<1>2. collector' = [collector EXCEPT ![n] = IF new = {} THEN @ ELSE more]
      /\ loaded' = [loaded EXCEPT ![n] = IF done = {} THEN @ ELSE secrets]
  BY Zenon DEF LoaderHandleShare
<1> HIDE DEF new, done
<1>3. more \subseteq Collector
  BY <1>1, Zenon DEF Collector
<1>4. secrets \subseteq Epoch
  BY <1>1, Zenon DEF Collector, Config
<1> HIDE DEF more, secrets
<1> QED BY <1>2, <1>3, <1>4, Zenon DEF NodeTypeOK

LEMMA TransitionType ==
  ASSUME NodeTypeOK, NEW n \in Node, NEW cs \in coord[n], NEW old \in configs[n],
         TransitionToPreparing(n, cs, old)
  PROVE  /\ coord' \in [Node -> SUBSET CoordState]
         /\ shares' \in [Node -> SUBSET Epoch]
         /\ configs' \in [Node -> SUBSET Config]
         /\ msgs' \subseteq PeerMsg
<1> DEFINE c == [cs.config EXCEPT !.secrets = old.secrets \cup {old.epoch}]
<1>1. cs \in CoordState /\ old \in Config
  BY Zenon DEF NodeTypeOK
<1>2. c \in Config
  BY <1>1, Zenon DEF Config, CoordState
<1>3. /\ shares' = [shares EXCEPT ![n] = @ \cup {c.epoch}]
      /\ configs' = [configs EXCEPT ![n] = @ \cup {c}]
      /\ coord' = [coord EXCEPT ![n] = {Preparing(n, cs, c)}]
      /\ msgs' = msgs \cup {PrepareMsg(n, c)}
  BY Zenon DEF TransitionToPreparing, Send
<1> HIDE DEF c
<1>4. Preparing(n, cs, c) \in CoordState
  BY <1>1, <1>2, Zenon DEF Preparing, CoordState
<1>5. c.epoch \in Epoch /\ PrepareMsg(n, c) \in PeerMsg
  BY <1>2, MsgsMade, Zenon DEF Config
<1> QED BY <1>2, <1>3, <1>4, <1>5, Zenon DEF NodeTypeOK

LEMMA CoordinatorShareType ==
  ASSUME NodeTypeOK, NEW n \in Node, NEW m, m.from \in Node,
         CoordinatorHandleShare(n, m)
  PROVE  /\ coord' \in [Node -> SUBSET CoordState]
         /\ shares' \in [Node -> SUBSET Epoch]
         /\ configs' \in [Node -> SUBSET Config]
         /\ msgs' \subseteq PeerMsg
         /\ UNCHANGED <<commits, ksc>>
<1>1. PICK cs \in coord[n] :
        /\ \/ \E old \in configs[n] :
                LET got == cs.replies \cup {m.from} IN
                  \/ /\ coord' = [coord EXCEPT ![n] = {[cs EXCEPT !.replies = got]}]
                     /\ UNCHANGED <<shares, configs, msgs>>
                  \/ TransitionToPreparing(n, cs, old)
           \/ UNCHANGED <<coord, shares, configs, msgs>>
        /\ UNCHANGED <<commits, ksc>>
  BY Zenon DEF CoordinatorHandleShare
<1>2. CASE \E old \in configs[n] : TransitionToPreparing(n, cs, old)
  BY <1>1, <1>2, TransitionType, Zenon
<1>3. CASE /\ coord' = [coord EXCEPT ![n] = {[cs EXCEPT !.replies = cs.replies \cup {m.from}]}]
           /\ UNCHANGED <<shares, configs, msgs>>
  <2>1. [cs EXCEPT !.replies = cs.replies \cup {m.from}] \in CoordState
    BY DEF NodeTypeOK, CoordState
  <2> QED BY <1>1, <1>3, <2>1, Zenon DEF NodeTypeOK
<1>4. CASE UNCHANGED <<coord, shares, configs, msgs>>
  BY <1>1, <1>4, Zenon DEF NodeTypeOK
<1> QED BY <1>1, <1>2, <1>3, <1>4, Zenon

LEMMA KscShareType ==
  ASSUME NodeTypeOK, NEW n \in Node, NEW m, m.from \in Node, m.epoch \in Epoch,
         KscHandleShare(n, m)
  PROVE  /\ ksc' \in [Node -> SUBSET Collector]
         /\ shares' \in [Node -> SUBSET Epoch]
         /\ commits' \in [Node -> SUBSET Epoch]
         /\ UNCHANGED <<coord, configs, msgs>>
<1>1. PICK k \in ksc[n] :
        LET got == k.replies \cup {m.from} IN
          /\ \/ UNCHANGED <<ksc, shares, commits>>
             \/ /\ ksc' = [ksc EXCEPT ![n] = {[k EXCEPT !.replies = got]}]
                /\ UNCHANGED <<shares, commits>>
             \/ /\ ksc' = [ksc EXCEPT ![n] = {}]
                /\ SaveComputedShare(n, m.epoch)
          /\ UNCHANGED <<coord, configs, msgs>>
  BY Zenon DEF KscHandleShare
<1>2. [k EXCEPT !.replies = k.replies \cup {m.from}] \in Collector
  BY DEF NodeTypeOK, Collector
<1>3. UNCHANGED <<coord, configs, msgs>>
  BY <1>1, Zenon
<1>4. CASE UNCHANGED <<ksc, shares, commits>>
  BY <1>3, <1>4, Zenon DEF NodeTypeOK
<1>5. CASE /\ ksc' = [ksc EXCEPT ![n] = {[k EXCEPT !.replies = k.replies \cup {m.from}]}]
           /\ UNCHANGED <<shares, commits>>
  BY <1>2, <1>3, <1>5, Zenon DEF NodeTypeOK
<1>6. CASE /\ ksc' = [ksc EXCEPT ![n] = {}]
           /\ SaveComputedShare(n, m.epoch)
  BY <1>3, <1>6, Zenon DEF NodeTypeOK, SaveComputedShare
<1> QED BY <1>1, <1>4, <1>5, <1>6, Zenon

LEMMA ShareType ==
  ASSUME NodeTypeOK, NEW n \in Node, NEW m \in msgs, m.type = "Share",
         HandleShare(n, m)
  PROVE  NodeTypeOK'
<1>1. m.from \in Node /\ m.epoch \in Epoch
  BY MsgFields, Zenon DEF NodeTypeOK
<1>2. collector' \in [Node -> SUBSET Collector] /\ loaded' \in [Node -> SUBSET Epoch]
  BY <1>1, LoaderShareType, Zenon DEF HandleShare
<1>3. UNCHANGED <<expunged, alarms>>
  BY Zenon DEF HandleShare
<1>4. CASE CoordinatorHandleShare(n, m)
  BY <1>1, <1>2, <1>3, <1>4, CoordinatorShareType, Zenon DEF NodeTypeOK
<1>5. CASE KscHandleShare(n, m)
  BY <1>1, <1>2, <1>3, <1>5, KscShareType, Zenon DEF NodeTypeOK
<1>6. CASE UNCHANGED <<coord, ksc, configs, shares, commits, msgs>>
  BY <1>2, <1>3, <1>6, Zenon DEF NodeTypeOK
<1> QED BY <1>4, <1>5, <1>6, Zenon DEF HandleShare

LEMMA GetShareRepliesType ==
  ASSUME NodeTypeOK, NEW n \in Node, NEW from \in Node, NEW e \in Epoch
  PROVE  GetShareReplies(n, from, e) \subseteq PeerMsg
<1> DEFINE later == {c \in configs[n] : c.epoch > e /\ IsLatestCommittedConfig(n, c)}
           known == {c \in configs[n] : c.epoch = e}
           isExpunged == {c \in IF later # {} THEN later ELSE known :
                                                    IsExpungedFrom(from, c)}
           R1 == {[type |-> "Expunged", to |-> {from}, epoch |-> c.epoch] : c \in isExpunged}
           R2 == {[type |-> "CommitAdvance", to |-> {from}, config |-> c] : c \in later}
           R3 == {[type |-> "Share", from |-> n, to |-> {from}, epoch |-> s] :
                                                 s \in shares[n] \cap {e}}
<1>1. later \subseteq Config /\ isExpunged \subseteq Config
  BY Zenon DEF NodeTypeOK
<1>2. GetShareReplies(n, from, e) \in {R1, R2, R3}
  BY Zenon DEF GetShareReplies
<1> HIDE DEF later, isExpunged
<1>3. R1 \subseteq PeerMsg
  BY <1>1 DEF PeerMsg, Config
<1>4. R2 \subseteq PeerMsg
  BY <1>1 DEF PeerMsg
<1>5. R3 \subseteq PeerMsg
  BY DEF PeerMsg
<1> QED BY <1>2, <1>3, <1>4, <1>5, Zenon

LEMMA AdvanceType ==
  ASSUME NodeTypeOK, NEW n \in Node, NEW c \in Config, HandleCommitAdvance(n, c)
  PROVE  NodeTypeOK'
<1>1. CASE AdvanceTo(n, c)
  <2>1. c.epoch \in Epoch /\ GetShareMsg(n, c) \in PeerMsg
        /\ [config |-> c, replies |-> {}] \in Collector
    BY MsgsMade, Zenon DEF Config, Collector
  <2>2. /\ commits' \in {commits, [commits EXCEPT ![n] = @ \cup {c.epoch}]}
        /\ configs' = [configs EXCEPT ![n] = InsertUnique(n, c)]
        /\ coord' = [coord EXCEPT ![n] = StillCoordinating(n, c)]
        /\ msgs' \subseteq msgs \cup {GetShareMsg(n, c)}
        /\ UNCHANGED alarms
    BY <1>1, Zenon DEF AdvanceTo, Send
  <2>3. \E S \in SUBSET Collector : ksc' = [ksc EXCEPT ![n] = S]
    <3>1. {k \in ksc[n] : k.config.epoch > c.epoch} \in SUBSET Collector
          /\ ksc[n] \in SUBSET Collector
          /\ {[config |-> c, replies |-> {}]} \in SUBSET Collector
      BY <2>1, Zenon DEF NodeTypeOK
    <3> QED BY <1>1, <3>1, Zenon DEF AdvanceTo
  <2>4. InsertUnique(n, c) \subseteq Config /\ StillCoordinating(n, c) \subseteq CoordState
    BY Zenon DEF InsertUnique, StillCoordinating, NodeTypeOK
  <2>5. UNCHANGED <<shares, expunged, collector, loaded>>
    BY Zenon DEF HandleCommitAdvance, loaderVars
  <2> QED BY <2>1, <2>2, <2>3, <2>4, <2>5 DEF NodeTypeOK
<1>2. CASE /\ alarms' = [alarms EXCEPT ![n] = @ \cup {"MismatchedConfigurations"}]
           /\ UNCHANGED <<commits, configs, coord, ksc, msgs>>
  BY <1>2, Zenon DEF HandleCommitAdvance, loaderVars, NodeTypeOK, Alarm
<1> QED BY <1>1, <1>2, Zenon DEF HandleCommitAdvance

LEMMA HandleType ==
  ASSUME NodeTypeOK, NEW n \in Node, NEW m \in msgs, Handle(n, m)
  PROVE  NodeTypeOK'
<1>1. m \in PeerMsg
  BY Zenon DEF NodeTypeOK
<1>2. CASE m.type = "Prepare" /\ HandlePrepare(n, m)
  BY <1>2, PrepareType, Zenon
<1>3. CASE m.type = "PrepareAck" /\ HandlePrepareAck(n, m)
  BY <1>3, PrepareAckType, Zenon
<1>4. CASE m.type = "GetShare" /\ HandleGetShare(n, m)
  <2>1. GetShareReplies(n, m.from, m.epoch) \subseteq PeerMsg
    BY <1>1, <1>4, MsgFields, GetShareRepliesType, Zenon
  <2> QED BY <1>4, <2>1, Zenon DEF HandleGetShare, Send, NodeTypeOK, persistentVars, loaderVars
<1>5. CASE m.type = "Share" /\ HandleShare(n, m)
  BY <1>5, ShareType, Zenon
<1>6. CASE m.type = "Expunged" /\ HandleExpunged(n, m)
  <2>1. m.epoch \in Epoch
    BY <1>1, <1>6, MsgFields, Zenon
  <2> QED BY <1>6, <2>1, Zenon DEF HandleExpunged, NodeTypeOK, loaderVars
<1>7. CASE m.type = "CommitAdvance" /\ HandleCommitAdvance(n, m.config)
  BY <1>1, <1>7, MsgFields, AdvanceType, Zenon
<1> QED BY <1>2, <1>3, <1>4, <1>5, <1>6, <1>7, Zenon DEF Handle

-----------------------------------------------------------------------------
(* Requests.                                                                *)

LEMMA CoordinateType ==
  ASSUME NodeTypeOK, NEW n \in Node, NEW m,
         m.epoch \in Epoch, m.last \in Epoch \cup {NoEpoch}, m.members \in SUBSET Node,
         CoordinateReconfiguration(n, m)
  PROVE  NodeTypeOK'
<1> DEFINE c == NewConfiguration(n, m)
<1>1. c \in Config
  BY Zenon DEF NewConfiguration, Config
<1>2. PrepareMsg(n, c) \in PeerMsg /\ c.epoch \in Epoch
  BY <1>1, MsgsMade, Zenon DEF Config
<1>3. CASE CoordinateUninitialized(n, m)
  <2>1. [config |-> c, old |-> NoEpoch, op |-> "Prepare", replies |-> {n}] \in CoordState
    BY <1>1, Zenon DEF CoordState
  <2>2. /\ coord' = [coord EXCEPT ![n] = {[config |-> c, old |-> NoEpoch,
                                           op |-> "Prepare", replies |-> {n}]}]
        /\ shares' = [shares EXCEPT ![n] = @ \cup {c.epoch}]
        /\ configs' = [configs EXCEPT ![n] = @ \cup {c}]
        /\ msgs' = msgs \cup {PrepareMsg(n, c)}
    BY <1>3, Zenon DEF CoordinateUninitialized, Send
  <2> HIDE DEF c
  <2> QED BY <1>1, <1>2, <2>1, <2>2, Zenon DEF CoordinateReconfiguration, NodeTypeOK, loaderVars
<1>4. CASE CoordinateFromCommitted(n, m)
  <2>1. [config |-> c, old |-> m.last, op |-> "CollectShares", replies |-> {n}] \in CoordState
    BY <1>1, Zenon DEF CoordState
  <2>2. PICK old \in configs[n] :
          /\ coord' = [coord EXCEPT ![n] = {[config |-> c, old |-> m.last,
                                        op |-> "CollectShares", replies |-> {n}]}]
          /\ msgs' = msgs \cup {GetShareMsg(n, old)}
          /\ UNCHANGED <<shares, configs>>
    BY <1>4, Zenon DEF CoordinateFromCommitted, Send
  <2>3. GetShareMsg(n, old) \in PeerMsg
    BY MsgsMade, Zenon DEF NodeTypeOK
  <2> HIDE DEF c
  <2> QED BY <2>1, <2>2, <2>3, Zenon DEF CoordinateReconfiguration, NodeTypeOK, loaderVars
<1> QED BY <1>3, <1>4, Zenon DEF CoordinateReconfiguration

LEMMA CommitType ==
  ASSUME NodeTypeOK, NEW n \in Node, NEW e \in Epoch, CommitConfiguration(n, e)
  PROVE  NodeTypeOK'
BY Zenon DEF CommitConfiguration, NodeTypeOK, loaderVars

LEMMA LoadType ==
  ASSUME NodeTypeOK, NEW n \in Node, NEW e \in Epoch, LoadRackSecret(n, e)
  PROVE  NodeTypeOK'
<1>1. PICK c \in configs[n] :
        /\ collector' \in {collector, [collector EXCEPT ![n] =
                                         {[config |-> c, replies |-> {n}]}]}
        /\ msgs' \subseteq msgs \cup {GetShareMsg(n, c)}
        /\ alarms' \in {alarms, [alarms EXCEPT ![n] =
                                   @ \cup {"CommittedConfigurationLost"}]}
        /\ UNCHANGED <<persistentVars, coord, ksc, loaded>>
  BY Zenon DEF LoadRackSecret, Send
<1>2. GetShareMsg(n, c) \in PeerMsg /\ [config |-> c, replies |-> {n}] \in Collector
  BY MsgsMade, Zenon DEF NodeTypeOK, Collector
<1> DEFINE k == [config |-> c, replies |-> {n}]
<1>3. collector' \in [Node -> SUBSET Collector]
  <2>1. k \in Collector /\ collector' \in {collector, [collector EXCEPT ![n] = {k}]}
    BY <1>1, <1>2, Zenon
  <2> HIDE DEF k
  <2> QED BY <2>1 DEF NodeTypeOK
<1>4. alarms' \in [Node -> SUBSET Alarm]
  BY <1>1 DEF NodeTypeOK, Alarm
<1> QED BY <1>1, <1>2, <1>3, <1>4, Zenon DEF NodeTypeOK, persistentVars

LEMMA ClearType ==
  ASSUME NodeTypeOK, NEW n \in Node, ClearSecrets(n) \/ Restart(n)
  PROVE  NodeTypeOK'
BY Zenon DEF ClearSecrets, Restart, NodeTypeOK, persistentVars

-----------------------------------------------------------------------------
(* Type correctness.                                                        *)

LEMMA RequestFields ==
  ASSUME NEW q \in Request
  PROVE  /\ q.to \in Node
         /\ q.type = "Reconfigure" => /\ q.epoch \in Epoch
                                      /\ q.last \in Epoch \cup {NoEpoch}
                                      /\ q.members \in SUBSET Node
         /\ q.type = "Commit" => q.epoch \in Epoch
         /\ q.type = "PrepareAndCommit" => q.config \in Config
BY Zenon DEF Request

LEMMA OneIsEpoch == 1 \in Epoch
BY MaxEpochAssumption DEF Epoch

LEMMA InitialType ==
  ASSUME Init \/ InitAfterHandoff
  PROVE  TypeOK
<1>1. CASE Init
  BY <1>1, Zenon DEF Init, TypeOK, NodeTypeOK, NexusTypeOK, RssStep
<1>2. CASE InitAfterHandoff
  <2> DEFINE one(n, v) == IF n \in InitialMembers THEN {v} ELSE {}
             cfg(k) == [epoch |-> 1, members |-> InitialMembers, coordinator |-> k,
                        secrets |-> {}]
  <2>1. PICK k \in InitialMembers :
          /\ configs   = [n \in Node |-> one(n, cfg(k))]
          /\ shares    = [n \in Node |-> one(n, 1)]
          /\ commits   = [n \in Node |-> one(n, 1)]
          /\ expunged  = [n \in Node |-> {}]
          /\ coord     = [n \in Node |-> {}]
          /\ ksc       = [n \in Node |-> {}]
          /\ collector = [n \in Node |-> {}]
          /\ loaded    = [n \in Node |-> {}]
          /\ alarms    = [n \in Node |-> {}]
          /\ msgs      = {}
          /\ rows      = {RssRow(InitialMembers, k)}
          /\ task      = [t \in Task |-> {}]
          /\ requests  = {}
          /\ commitAcks = {}
          /\ rss = "Done"
    BY <1>2, Zenon DEF InitAfterHandoff
  <2>2. RssRow(InitialMembers, k) \in Row
    BY RssRowType, InitialMembersAssumption, Zenon
  <2>3. cfg(k) \in Config
    BY OneIsEpoch, InitialMembersAssumption, Zenon DEF Config
  <2> HIDE DEF cfg
  <2>4. NodeTypeOK
    BY <2>1, <2>3, OneIsEpoch DEF NodeTypeOK
  <2>5. NexusTypeOK
    BY <2>1, <2>2, Zenon DEF NexusTypeOK
  <2> QED BY <2>1, <2>4, <2>5, Zenon DEF TypeOK, RssStep
<1> QED BY <1>1, <1>2, Zenon

LEMMA NodeStepType ==
  ASSUME TypeOK, NEW n \in Node, NodeStep(n)
  PROVE  TypeOK'
<1> USE DEF TypeOK
<1>0. ASSUME UNCHANGED <<nexusVars, rss>> PROVE NexusTypeOK' /\ rss' \in RssStep
  BY <1>0, Zenon DEF NexusTypeOK, nexusVars
<1>1. CASE HandlePeerMsg(n) /\ UNCHANGED <<nexusVars, rss>>
  BY <1>0, <1>1, HandleType, Zenon DEF HandlePeerMsg
<1>2. CASE Restart(n) /\ UNCHANGED <<nexusVars, rss>>
  BY <1>0, <1>2, ClearType, Zenon
<1>3. CASE LoadSecrets(n)
  BY <1>0, <1>3, LoadType, Zenon DEF LoadSecrets
<1>4. CASE ClearSecrets(n) /\ UNCHANGED <<nexusVars, rss>>
  BY <1>0, <1>4, ClearType, Zenon
<1>5. CASE NodeReconfigure(n)
  <2>1. PICK q \in requests :
          /\ q.type = "Reconfigure"
          /\ CoordinateReconfiguration(n, q)
          /\ requests' = requests \ {q}
          /\ UNCHANGED <<rows, task, commitAcks, rss>>
    BY <1>5, Zenon DEF NodeReconfigure
  <2>2. NodeTypeOK'
    BY <2>1, RequestFields, CoordinateType, Zenon DEF NexusTypeOK
  <2> QED BY <2>1, <2>2, Zenon DEF NexusTypeOK
<1>6. CASE NodeCommit(n)
  <2>1. PICK q \in requests :
          /\ q.type = "Commit"
          /\ CommitConfiguration(n, q.epoch) \/ UNCHANGED nodeVars
          /\ commitAcks' = commitAcks \cup {<<n, q.epoch>>}
          /\ UNCHANGED <<rows, task, requests, rss>>
    BY <1>6, Zenon DEF NodeCommit
  <2>2. q.epoch \in Epoch
    BY <2>1, RequestFields, Zenon DEF NexusTypeOK
  <2>3. NodeTypeOK'
    BY <2>1, <2>2, CommitType, Zenon DEF nodeVars, NodeTypeOK
  <2> QED BY <2>1, <2>2, <2>3 DEF NexusTypeOK
<1>7. CASE NodePrepareAndCommit(n)
  <2>1. PICK q \in requests :
          /\ q.type = "PrepareAndCommit"
          /\ PrepareAndCommit(n, q.config) \/ UNCHANGED nodeVars
          /\ commitAcks' = commitAcks \cup AckIfCommitted(n, q.config.epoch)
          /\ UNCHANGED <<rows, task, requests, rss>>
    BY <1>7, Zenon DEF NodePrepareAndCommit
  <2>2. q.config \in Config /\ q.config.epoch \in Epoch
    BY <2>1, RequestFields, Zenon DEF NexusTypeOK, Config
  <2>3. NodeTypeOK'
    BY <2>1, <2>2, AdvanceType, Zenon DEF nodeVars, NodeTypeOK, PrepareAndCommit
  <2>4. AckIfCommitted(n, q.config.epoch) \subseteq Node \X Epoch
    BY <2>2 DEF AckIfCommitted
  <2> QED BY <2>1, <2>3, <2>4 DEF NexusTypeOK
<1> QED BY <1>1, <1>2, <1>3, <1>4, <1>5, <1>6, <1>7 DEF NodeStep

LEMMA CoordinatorStatusType ==
  ASSUME NEW cs \in CoordState
  PROVE  CoordinatorStatus(cs) \in Status
BY Zenon DEF CoordinatorStatus, CoordState, Status

LEMMA NexusStepType ==
  ASSUME TypeOK, NexusStep
  PROVE  TypeOK'
<1> USE DEF TypeOK
<1>0. UNCHANGED <<nodeVars, rss>>
  BY Zenon DEF NexusStep, NexusPoll
<1>1. NodeTypeOK' /\ rss' \in RssStep
  BY <1>0, Zenon DEF nodeVars, NodeTypeOK
<1>2. CASE TqPropose
  BY <1>1, <1>2, ProposeType, Zenon
<1>3. CASE TqAbort
  BY <1>1, <1>3, AbortType, Zenon
<1>4. CASE TqUpdateCommitStatus
  BY <1>1, <1>4, CommitStatusType, Zenon
<1>5. CASE TaskCommit
  <2>1. UNCHANGED <<rows, task, commitAcks>> /\ requests' \subseteq Request
    BY <1>5, CommitOpsType, Zenon DEF TaskCommit, NexusTypeOK
  <2> QED BY <1>1, <2>1, Zenon DEF NexusTypeOK
<1>6. ASSUME NEW t \in Task, TaskLoad(t) \/ TaskFail(t)
      PROVE  TypeOK'
  BY <1>1, <1>6, TaskType, Zenon
<1>7. ASSUME NEW t \in Task, TaskUpdatePrepareStatus(t)
      PROVE  TypeOK'
  BY <1>1, <1>7, PrepareStatusType, Zenon
<1>8. ASSUME NEW t \in Task, NexusPoll(t)
      PROVE  TypeOK'
  <2>1. PICK a \in task[t] : \E cs \in coord[a.row.coordinator] :
          TaskPoll(t, CoordinatorStatus(cs))
    BY <1>8, Zenon DEF NexusPoll
  <2>2. a.row.coordinator \in Node
    BY DEF NexusTypeOK, Activation, Row
  <2>3. PICK cs \in CoordState : TaskPoll(t, CoordinatorStatus(cs))
    BY <2>1, <2>2, Zenon DEF NodeTypeOK
  <2> QED BY <1>1, <2>3, CoordinatorStatusType, TaskType, Zenon
<1> QED BY <1>2, <1>3, <1>4, <1>5, <1>6, <1>7, <1>8, Zenon DEF NexusStep

LEMMA RssStepType ==
  ASSUME TypeOK, RssStepAction
  PROVE  TypeOK'
<1> USE DEF TypeOK, RssStep
<1>1. ASSUME NEW n \in Node, RssReconfigure(n)
      PROVE  TypeOK'
  <2>1. NodeTypeOK'
    <3> DEFINE m == RssReconfigureMsg
    <3>1. /\ m.epoch \in Epoch /\ m.last \in Epoch \cup {NoEpoch}
          /\ m.members \in SUBSET Node
      BY OneIsEpoch, InitialMembersAssumption, Zenon DEF RssReconfigureMsg
    <3> QED BY <1>1, <3>1, CoordinateType, Zenon DEF RssReconfigure
  <2> QED BY <1>1, <2>1, Zenon DEF RssReconfigure, NexusTypeOK, nexusVars
<1>2. ASSUME NEW n \in Node, RssCommitSelf(n) \/ RssProxyCommit(n)
      PROVE  TypeOK'
  <2>1. CommitConfiguration(n, 1) /\ UNCHANGED nexusVars /\ rss' \in RssStep
    BY <1>2, Zenon DEF RssCommitSelf, RssProxyCommit
  <2> QED BY <2>1, CommitType, OneIsEpoch, Zenon DEF NexusTypeOK, nexusVars
<1>3. CASE RssHandoff
  <2>1. PICK n \in InitialMembers :
          /\ rows' = {RssRow(InitialMembers, n)}
          /\ rss' = "Done"
          /\ UNCHANGED <<nodeVars, task, requests, commitAcks>>
    BY <1>3, Zenon DEF RssHandoff
  <2>2. RssRow(InitialMembers, n) \in Row
    BY RssRowType, InitialMembersAssumption, Zenon
  <2> QED BY <2>1, <2>2, Zenon DEF nodeVars, NodeTypeOK, NexusTypeOK
<1> QED BY <1>1, <1>2, <1>3, Zenon DEF RssStepAction

LEMMA StepType ==
  ASSUME TypeOK, [Next]_vars
  PROVE  TypeOK'
<1>1. CASE UNCHANGED vars
  BY <1>1, Zenon DEF vars, TypeOK, NodeTypeOK, NexusTypeOK
<1> QED BY <1>1, NodeStepType, NexusStepType, RssStepType, Zenon DEF Next

(* Every variable of the system stays in its type, from an uninitialized    *)
(* rack or from one just handed off.                                        *)
THEOREM TypeCorrect == (Init \/ InitAfterHandoff) /\ [][Next]_vars => []TypeOK
BY InitialType, StepType, PTL

-----------------------------------------------------------------------------
(* What is on disk.  A node that computes its share has stored the          *)
(* configuration, because it commits as soon as the share is there.  An     *)
(* acknowledged prepare is on disk, as a message and at the coordinator.    *)

KscConfigured ==
  \A n \in Node : \A k \in ksc[n] : HasConfig(n, k.config.epoch)

AckMsgs ==
  \A m \in msgs : m.type = "PrepareAck" => OnDisk(m.from, m.epoch)

CoordAcks ==
  \A n \in Node : \A cs \in coord[n] :
    cs.op = "Prepare" => \A m \in cs.replies : OnDisk(m, cs.config.epoch)

NodeDiskInv == KscConfigured /\ CommittedIsPrepared /\ AckMsgs /\ CoordAcks

(* Nothing is ever removed from a ledger. *)
Grows ==
  \A n \in Node : /\ configs[n] \subseteq configs'[n]
                  /\ shares[n] \subseteq shares'[n]
                  /\ commits[n] \subseteq commits'[n]

LEMMA DiskGrows ==
  ASSUME Grows, NEW n \in Node, NEW e
  PROVE  /\ OnDisk(n, e) => OnDisk(n, e)'
         /\ HasConfig(n, e) => HasConfig(n, e)'
BY Zenon DEF Grows, OnDisk, HasConfig

(* It is enough to look at what a step adds. *)
LEMMA NodeDiskKept ==
  ASSUME TypeOK, NodeDiskInv, Grows,
         \A n \in Node : \A k \in ksc'[n] :
           (\E j \in ksc[n] : j.config = k.config) \/ HasConfig(n, k.config.epoch)',
         \A n \in Node : \A e \in commits'[n] : e \in commits[n] \/ OnDisk(n, e)',
         \A m \in msgs' : m \in msgs \/ m.type # "PrepareAck" \/ OnDisk(m.from, m.epoch)',
         \A n \in Node : \A cs \in coord'[n] :
           \/ cs \in coord[n]
           \/ cs.op # "Prepare"
           \/ \A m \in cs.replies : OnDisk(m, cs.config.epoch)'
  PROVE  NodeDiskInv'
<1> USE DEF TypeOK, NodeTypeOK
<1>1. KscConfigured'
  BY DiskGrows, Zenon DEF NodeDiskInv, KscConfigured
<1>2. CommittedIsPrepared'
  BY DiskGrows, Zenon DEF NodeDiskInv, CommittedIsPrepared
<1>3. AckMsgs'
  <2>1. ASSUME NEW m \in msgs, m.type = "PrepareAck" PROVE OnDisk(m.from, m.epoch)'
    <3>1. m.from \in Node
      BY <2>1, MsgFields, Zenon
    <3> QED BY <2>1, <3>1, DiskGrows DEF NodeDiskInv, AckMsgs
  <2> QED BY <2>1, Zenon DEF AckMsgs
<1>4. CoordAcks'
  <2>1. \A x \in Node : \A cs \in coord[x] : cs.replies \subseteq Node
    BY DEF CoordState
  <2> QED BY <2>1, DiskGrows, Zenon DEF NodeDiskInv, CoordAcks
<1> QED BY <1>1, <1>2, <1>3, <1>4 DEF NodeDiskInv

LEMMA PrepareDisk ==
  ASSUME TypeOK, NodeDiskInv, NEW n \in Node, NEW m \in msgs, m.type = "Prepare",
         HandlePrepare(n, m)
  PROVE  Grows /\ NodeDiskInv'
<1> USE DEF TypeOK, NodeTypeOK
<1> DEFINE ack == [type |-> "PrepareAck", from |-> n, to |-> {m.from},
                   epoch |-> m.config.epoch]
<1>1. /\ shares' = [shares EXCEPT ![n] = @ \cup {m.config.epoch}]
      /\ configs' = [configs EXCEPT ![n] = InsertUnique(n, m.config)]
      /\ coord' = [coord EXCEPT ![n] = {cs \in @ : m.config.epoch <= cs.config.epoch}]
      /\ msgs' = msgs \cup {ack}
      /\ UNCHANGED <<commits, ksc>>
  BY Zenon DEF HandlePrepare, SavePrepare, Send
<1>2. Grows
  BY <1>1, Zenon DEF Grows, InsertUnique
<1>3. OnDisk(ack.from, ack.epoch)'
  BY <1>1, Zenon DEF OnDisk, HasConfig, InsertUnique
<1>4. \A x \in Node : coord'[x] \subseteq coord[x]
  BY <1>1, Zenon
<1> HIDE DEF ack
<1> QED BY <1>1, <1>2, <1>3, <1>4, NodeDiskKept, Zenon

LEMMA PrepareAckDisk ==
  ASSUME TypeOK, NodeDiskInv, NEW n \in Node, NEW m \in msgs, m.type = "PrepareAck",
         HandlePrepareAck(n, m)
  PROVE  Grows /\ NodeDiskInv'
<1> USE DEF TypeOK, NodeTypeOK
<1>1. PICK cs \in coord[n] :
        /\ cs.config.epoch = m.epoch
        /\ cs.op = "Prepare"
        /\ coord' = [coord EXCEPT ![n] = {[cs EXCEPT !.replies = @ \cup {m.from}]}]
        /\ UNCHANGED <<configs, shares, commits, ksc, msgs>>
  BY Zenon DEF HandlePrepareAck, persistentVars
<1>2. Grows
  BY <1>1, Zenon DEF Grows
<1> DEFINE cs2 == [cs EXCEPT !.replies = @ \cup {m.from}]
<1>3. cs2.config = cs.config /\ cs2.replies = cs.replies \cup {m.from}
      /\ cs.replies \subseteq Node /\ m.from \in Node
  BY MsgFields DEF CoordState
<1>4. coord' = [coord EXCEPT ![n] = {cs2}]
  BY <1>1, Zenon
<1> HIDE DEF cs2
<1>5. \A x \in cs2.replies : OnDisk(x, cs2.config.epoch)'
  <2>1. \A x \in cs2.replies : x \in Node /\ OnDisk(x, cs2.config.epoch)
    BY <1>1, <1>3, Zenon DEF NodeDiskInv, CoordAcks, AckMsgs
  <2> QED BY <2>1, <1>2, <1>3, DiskGrows, Zenon
<1> QED BY <1>1, <1>2, <1>4, <1>5, NodeDiskKept

LEMMA TransitionDisk ==
  ASSUME TypeOK, NEW n \in Node, NEW cs \in coord[n], NEW old \in configs[n],
         TransitionToPreparing(n, cs, old), UNCHANGED commits
  PROVE  /\ Grows
         /\ \A m \in msgs' : m \in msgs \/ m.type # "PrepareAck"
         /\ \A x \in Node : \A d \in coord'[x] :
              d \in coord[x] \/ \A m \in d.replies : OnDisk(m, d.config.epoch)'
<1> USE DEF TypeOK, NodeTypeOK
<1> DEFINE c == [cs.config EXCEPT !.secrets = old.secrets \cup {old.epoch}]
<1>1. /\ shares' = [shares EXCEPT ![n] = @ \cup {c.epoch}]
      /\ configs' = [configs EXCEPT ![n] = @ \cup {c}]
      /\ coord' = [coord EXCEPT ![n] = {Preparing(n, cs, c)}]
      /\ msgs' = msgs \cup {PrepareMsg(n, c)}
  BY Zenon DEF TransitionToPreparing, Send
<1> HIDE DEF c
<1>2. Grows
  BY <1>1, Zenon DEF Grows
<1>3. PrepareMsg(n, c).type = "Prepare"
  BY Zenon DEF PrepareMsg
<1>4. Preparing(n, cs, c).config = c /\ Preparing(n, cs, c).replies = {n}
  BY DEF Preparing, CoordState
<1>5. OnDisk(n, c.epoch)'
  BY <1>1, Zenon DEF OnDisk, HasConfig
<1>6. \A m \in msgs' : m \in msgs \/ m.type # "PrepareAck"
  BY <1>1, <1>3, Zenon
<1>7. ASSUME NEW x \in Node, NEW d \in coord'[x]
      PROVE  d \in coord[x] \/ d = Preparing(n, cs, c)
  BY <1>1, <1>7, Zenon
<1>8. ASSUME NEW x \in Node, NEW d \in coord'[x]
      PROVE  d \in coord[x] \/ \A m \in d.replies : OnDisk(m, d.config.epoch)'
  <2>1. CASE d = Preparing(n, cs, c)
    <3>1. d.config = c /\ d.replies = {n}
      BY <1>4, <2>1, Zenon
    <3> QED BY <1>5, <3>1, Zenon
  <2> QED BY <1>7, <1>8, <2>1, Zenon
<1> QED BY <1>2, <1>6, <1>8, Zenon

LEMMA CoordinatorShareDisk ==
  ASSUME TypeOK, NodeDiskInv, NEW n \in Node, NEW m, m.from \in Node,
         CoordinatorHandleShare(n, m)
  PROVE  Grows /\ NodeDiskInv'
<1> USE DEF TypeOK, NodeTypeOK
<1>1. PICK cs \in coord[n] :
        /\ \/ /\ cs.op = "CollectShares"
              /\ \E old \in configs[n] :
                   LET got == cs.replies \cup {m.from} IN
                     \/ /\ coord' = [coord EXCEPT ![n] = {[cs EXCEPT !.replies = got]}]
                        /\ UNCHANGED <<shares, configs, msgs>>
                     \/ TransitionToPreparing(n, cs, old)
           \/ UNCHANGED <<coord, shares, configs, msgs>>
        /\ UNCHANGED <<commits, ksc>>
  BY Zenon DEF CoordinatorHandleShare
<1>2. CASE \E old \in configs[n] : TransitionToPreparing(n, cs, old)
  BY <1>1, <1>2, TransitionDisk, NodeDiskKept
<1>3. CASE /\ cs.op = "CollectShares"
           /\ coord' = [coord EXCEPT ![n] = {[cs EXCEPT !.replies = cs.replies \cup {m.from}]}]
           /\ UNCHANGED <<shares, configs, msgs>>
  <2>1. Grows
    BY <1>1, <1>3, Zenon DEF Grows
  <2>2. [cs EXCEPT !.replies = cs.replies \cup {m.from}].op = "CollectShares"
    BY <1>3 DEF CoordState
  <2>3. \A x \in Node : \A d \in coord'[x] : d \in coord[x] \/ d.op # "Prepare"
    BY <1>3, <2>2, Zenon
  <2> QED BY <1>1, <1>3, <2>1, <2>3, NodeDiskKept
<1>4. CASE UNCHANGED <<coord, shares, configs, msgs>>
  <2>1. Grows
    BY <1>1, <1>4, Zenon DEF Grows
  <2> QED BY <1>1, <1>4, <2>1, NodeDiskKept, Zenon
<1> QED BY <1>1, <1>2, <1>3, <1>4

LEMMA KscShareDisk ==
  ASSUME TypeOK, NodeDiskInv, NEW n \in Node, NEW m, m.from \in Node,
         KscHandleShare(n, m)
  PROVE  Grows /\ NodeDiskInv'
<1> USE DEF TypeOK, NodeTypeOK
<1>1. PICK k \in ksc[n] :
        LET got == k.replies \cup {m.from} IN
          /\ \/ UNCHANGED <<ksc, shares, commits>>
             \/ /\ ksc' = [ksc EXCEPT ![n] = {[k EXCEPT !.replies = got]}]
                /\ UNCHANGED <<shares, commits>>
             \/ /\ m.epoch = k.config.epoch
                /\ ksc' = [ksc EXCEPT ![n] = {}]
                /\ SaveComputedShare(n, m.epoch)
          /\ UNCHANGED <<coord, configs, msgs>>
  BY Zenon DEF KscHandleShare, NewShare
<1>2. CASE UNCHANGED <<ksc, shares, commits>>
  <2>1. Grows
    BY <1>1, <1>2, Zenon DEF Grows
  <2> QED BY <1>1, <1>2, <2>1, NodeDiskKept
<1>3. CASE /\ ksc' = [ksc EXCEPT ![n] = {[k EXCEPT !.replies = k.replies \cup {m.from}]}]
           /\ UNCHANGED <<shares, commits>>
  <2>1. Grows
    BY <1>1, <1>3, Zenon DEF Grows
  <2>2. [k EXCEPT !.replies = k.replies \cup {m.from}].config = k.config
    BY DEF Collector
  <2>3. \A x \in Node : \A d \in ksc'[x] : \E j \in ksc[x] : j.config = d.config
    BY <1>3, <2>2, Zenon
  <2> QED BY <1>1, <1>3, <2>1, <2>3, NodeDiskKept
<1>4. CASE /\ m.epoch = k.config.epoch
           /\ ksc' = [ksc EXCEPT ![n] = {}]
           /\ SaveComputedShare(n, m.epoch)
  <2>1. Grows
    BY <1>1, <1>4, Zenon DEF Grows, SaveComputedShare
  <2>2. OnDisk(n, m.epoch)'
    BY <1>1, <1>4 DEF OnDisk, HasConfig, NodeDiskInv, KscConfigured, SaveComputedShare
  <2>3. \A x \in Node : \A e \in commits'[x] : e \in commits[x] \/ OnDisk(x, e)'
    BY <1>4, <2>2, Zenon DEF SaveComputedShare
  <2> QED BY <1>1, <1>4, <2>1, <2>3, NodeDiskKept, Zenon
<1> QED BY <1>1, <1>2, <1>3, <1>4

LEMMA AdvanceDisk ==
  ASSUME TypeOK, NodeDiskInv, NEW n \in Node, NEW c \in Config,
         HandleCommitAdvance(n, c)
  PROVE  Grows /\ NodeDiskInv'
<1> USE DEF TypeOK, NodeTypeOK
<1>1. CASE AdvanceTo(n, c)
  <2>1. /\ \/ UNCHANGED commits
           \/ /\ HasPrepared(n, c.epoch)
              /\ commits' = [commits EXCEPT ![n] = @ \cup {c.epoch}]
        /\ configs' = [configs EXCEPT ![n] = InsertUnique(n, c)]
        /\ coord' = [coord EXCEPT ![n] = StillCoordinating(n, c)]
        /\ msgs' \subseteq msgs \cup {GetShareMsg(n, c)}
    BY <1>1, Zenon DEF AdvanceTo, Send
  <2>2. UNCHANGED shares
    BY Zenon DEF HandleCommitAdvance
  <2>3. Grows
    BY <2>1, <2>2, Zenon DEF Grows, InsertUnique
  <2>4. HasConfig(n, c.epoch)'
    BY <2>1, Zenon DEF HasConfig, InsertUnique
  <2>5. \A x \in Node : \A e \in commits'[x] : e \in commits[x] \/ OnDisk(x, e)'
    BY SMTT(30), <2>1, <2>2, <2>4 DEF HasPrepared, OnDisk
  <2>6. \A x \in Node : \A k \in ksc'[x] :
          (\E j \in ksc[x] : j.config = k.config) \/ HasConfig(x, k.config.epoch)'
    BY <1>1, <2>4 DEF AdvanceTo
  <2>7. \A m \in msgs' : m \in msgs \/ m.type # "PrepareAck"
    <3>1. GetShareMsg(n, c).type = "GetShare"
      BY Zenon DEF GetShareMsg
    <3> HIDE DEF GetShareMsg
    <3> QED BY <2>1, <3>1, Zenon
  <2>8. \A x \in Node : coord'[x] \subseteq coord[x]
    BY <2>1, Zenon DEF StillCoordinating
  <2> QED BY <2>3, <2>5, <2>6, <2>7, <2>8, NodeDiskKept
<1>2. CASE UNCHANGED <<commits, configs, coord, ksc, msgs>>
  <2>1. Grows
    BY <1>2, Zenon DEF Grows, HandleCommitAdvance
  <2> QED BY <1>2, <2>1, NodeDiskKept
<1> QED BY <1>1, <1>2, Zenon DEF HandleCommitAdvance

LEMMA HandleDisk ==
  ASSUME TypeOK, NodeDiskInv, NEW n \in Node, NEW m \in msgs, Handle(n, m)
  PROVE  Grows /\ NodeDiskInv'
<1>1. m \in PeerMsg
  BY Zenon DEF TypeOK, NodeTypeOK
<1>2. CASE m.type = "Prepare" /\ HandlePrepare(n, m)
  BY <1>2, PrepareDisk, Zenon
<1>3. CASE m.type = "PrepareAck" /\ HandlePrepareAck(n, m)
  BY <1>3, PrepareAckDisk, Zenon
<1>4. CASE m.type = "GetShare" /\ HandleGetShare(n, m)
  <2>1. /\ msgs' = msgs \cup GetShareReplies(n, m.from, m.epoch)
        /\ UNCHANGED <<configs, shares, commits, coord, ksc>>
    BY <1>4, Zenon DEF HandleGetShare, Send, persistentVars
  <2>2. \A x \in GetShareReplies(n, m.from, m.epoch) : x.type # "PrepareAck"
    BY DEF GetShareReplies
  <2>3. Grows
    BY <2>1, ZenonT(30) DEF Grows
  <2> QED BY <2>1, <2>2, <2>3, NodeDiskKept, Zenon
<1>5. CASE m.type = "Share" /\ HandleShare(n, m)
  <2>1. m.from \in Node
    BY <1>1, <1>5, MsgFields, Zenon
  <2>2. CASE UNCHANGED <<coord, ksc, configs, shares, commits, msgs>>
    <3>1. Grows
      BY <2>2, Zenon DEF Grows
    <3> QED BY <2>2, <3>1, NodeDiskKept, Zenon
  <2> QED BY <1>5, <2>1, <2>2, CoordinatorShareDisk, KscShareDisk DEF HandleShare
<1>6. CASE m.type = "Expunged" /\ HandleExpunged(n, m)
  <2>1. /\ coord' = [coord EXCEPT ![n] = {}] /\ ksc' = [ksc EXCEPT ![n] = {}]
        /\ UNCHANGED <<configs, shares, commits, msgs>>
    BY <1>6, Zenon DEF HandleExpunged
  <2>2. Grows
    BY <2>1, Zenon DEF Grows
  <2>3. \A x \in Node : coord'[x] \subseteq coord[x] /\ ksc'[x] \subseteq ksc[x]
    BY <2>1, Zenon DEF TypeOK, NodeTypeOK
  <2> QED BY <2>1, <2>2, <2>3, NodeDiskKept, Zenon
<1>7. CASE m.type = "CommitAdvance" /\ HandleCommitAdvance(n, m.config)
  BY <1>1, <1>7, MsgFields, AdvanceDisk, Zenon
<1> QED BY <1>2, <1>3, <1>4, <1>5, <1>6, <1>7 DEF Handle

LEMMA CoordinateDisk ==
  ASSUME TypeOK, NodeDiskInv, NEW n \in Node, NEW m, CoordinateReconfiguration(n, m)
  PROVE  Grows /\ NodeDiskInv'
<1> USE DEF TypeOK, NodeTypeOK
<1> DEFINE c == NewConfiguration(n, m)
<1>1. UNCHANGED commits /\ ksc' = [ksc EXCEPT ![n] = {}]
  BY Zenon DEF CoordinateReconfiguration
<1>2. \A x \in Node : ksc'[x] \subseteq ksc[x]
  BY <1>1, Zenon
<1>3. CASE CoordinateUninitialized(n, m)
  <2> DEFINE cs == [config |-> c, old |-> NoEpoch, op |-> "Prepare", replies |-> {n}]
  <2>1. /\ coord' = [coord EXCEPT ![n] = {cs}]
        /\ shares' = [shares EXCEPT ![n] = @ \cup {c.epoch}]
        /\ configs' = [configs EXCEPT ![n] = @ \cup {c}]
        /\ msgs' = msgs \cup {PrepareMsg(n, c)}
    BY <1>3, Zenon DEF CoordinateUninitialized, Send
  <2>2. cs.config = c /\ cs.replies = {n} /\ PrepareMsg(n, c).type = "Prepare"
    BY Zenon DEF PrepareMsg
  <2> HIDE DEF c, cs
  <2>3. Grows
    BY <1>1, <2>1, Zenon DEF Grows
  <2>4. OnDisk(n, c.epoch)'
    BY <2>1, Zenon DEF OnDisk, HasConfig
  <2>5. \A p \in msgs' : p \in msgs \/ p.type # "PrepareAck"
    BY <2>1, <2>2, Zenon
  <2>6. ASSUME NEW x \in Node, NEW d \in coord'[x]
        PROVE  d \in coord[x] \/ \A p \in d.replies : OnDisk(p, d.config.epoch)'
    <3>1. d \in coord[x] \/ d = cs
      BY <2>1, <2>6, Zenon
    <3>2. CASE d = cs
      <4>1. d.config = c /\ d.replies = {n}
        BY <2>2, <3>2, Zenon
      <4> QED BY <2>4, <4>1, Zenon
    <3> QED BY <3>1, <3>2, Zenon
  <2> QED BY <1>1, <1>2, <2>3, <2>5, <2>6, NodeDiskKept
<1>4. CASE CoordinateFromCommitted(n, m)
  <2> DEFINE cs == [config |-> c, old |-> m.last, op |-> "CollectShares", replies |-> {n}]
  <2>1. PICK old \in configs[n] :
          /\ coord' = [coord EXCEPT ![n] = {cs}]
          /\ msgs' = msgs \cup {GetShareMsg(n, old)}
          /\ UNCHANGED <<shares, configs>>
    BY <1>4, Zenon DEF CoordinateFromCommitted, Send
  <2>2. cs.op = "CollectShares" /\ GetShareMsg(n, old).type = "GetShare"
    BY Zenon DEF GetShareMsg
  <2> HIDE DEF c, cs
  <2>3. Grows
    BY <1>1, <2>1, Zenon DEF Grows
  <2>4. \A p \in msgs' : p \in msgs \/ p.type # "PrepareAck"
    BY <2>1, <2>2, Zenon
  <2>5. \A x \in Node : \A d \in coord'[x] : d \in coord[x] \/ d.op # "Prepare"
    BY <2>1, <2>2, Zenon
  <2> QED BY <1>1, <1>2, <2>3, <2>4, <2>5, NodeDiskKept
<1> QED BY <1>3, <1>4, Zenon DEF CoordinateReconfiguration

LEMMA CommitDisk ==
  ASSUME TypeOK, NodeDiskInv, NEW n \in Node, NEW e, CommitConfiguration(n, e)
  PROVE  Grows /\ NodeDiskInv'
<1> USE DEF TypeOK, NodeTypeOK
<1>1. /\ HasPrepared(n, e)
      /\ commits' = [commits EXCEPT ![n] = @ \cup {e}]
      /\ coord' = [coord EXCEPT ![n] = {cs \in @ : cs.config.epoch # e}]
      /\ UNCHANGED <<configs, shares, ksc, msgs>>
  BY Zenon DEF CommitConfiguration
<1>2. Grows
  BY <1>1, Zenon DEF Grows
<1>3. \A x \in Node : \A f \in commits'[x] : f \in commits[x] \/ OnDisk(x, f)'
  BY <1>1, Zenon DEF HasPrepared, OnDisk, HasConfig
<1>4. \A x \in Node : coord'[x] \subseteq coord[x]
  BY <1>1, Zenon
<1> QED BY <1>1, <1>2, <1>3, <1>4, NodeDiskKept

LEMMA LoadSends ==
  ASSUME NEW n, NEW e, LoadRackSecret(n, e)
  PROVE  /\ \A m \in msgs' : m \in msgs \/ m.type = "GetShare"
         /\ UNCHANGED <<configs, shares, commits, coord, ksc>>
<1>1. PICK c : /\ msgs' \subseteq msgs \cup {GetShareMsg(n, c)}
               /\ UNCHANGED <<configs, shares, commits, coord, ksc>>
  BY Zenon DEF LoadRackSecret, Send, persistentVars
<1>2. GetShareMsg(n, c).type = "GetShare"
  BY Zenon DEF GetShareMsg
<1> QED BY <1>1, <1>2, Zenon

LEMMA VolatileDisk ==
  ASSUME TypeOK, NodeDiskInv, NEW n \in Node,
         ClearSecrets(n) \/ Restart(n) \/ \E e \in Epoch : LoadRackSecret(n, e)
  PROVE  Grows /\ NodeDiskInv'
<1>1. /\ UNCHANGED <<configs, shares, commits>>
      /\ \A x \in Node : coord'[x] \subseteq coord[x] /\ ksc'[x] \subseteq ksc[x]
      /\ \A m \in msgs' : m \in msgs \/ m.type # "PrepareAck"
  <2>1. CASE ClearSecrets(n)
    BY <2>1, Zenon DEF ClearSecrets, persistentVars
  <2>2. CASE Restart(n)
    BY <2>2, Zenon DEF Restart, persistentVars, TypeOK, NodeTypeOK
  <2>3. CASE \E e \in Epoch : LoadRackSecret(n, e)
    BY <2>3, LoadSends, Zenon
  <2> QED BY <2>1, <2>2, <2>3, Zenon
<1>2. Grows
  BY <1>1, Zenon DEF Grows
<1> QED BY <1>1, <1>2, NodeDiskKept, Zenon

LEMMA NodeDiskUnchanged ==
  ASSUME TypeOK, NodeDiskInv, UNCHANGED nodeVars
  PROVE  Grows /\ NodeDiskInv'
<1>1. UNCHANGED <<configs, shares, commits, coord, ksc, msgs>>
  BY Zenon DEF nodeVars
<1>2. Grows
  BY <1>1, Zenon DEF Grows
<1> QED BY <1>1, <1>2, NodeDiskKept, Zenon

LEMMA NodeStepDisk ==
  ASSUME TypeOK, NodeDiskInv, NEW n \in Node, NodeStep(n)
  PROVE  Grows /\ NodeDiskInv'
<1>1. CASE HandlePeerMsg(n)
  BY <1>1, HandleDisk, Zenon DEF HandlePeerMsg
<1>2. CASE Restart(n) \/ ClearSecrets(n) \/ LoadSecrets(n)
  BY <1>2, VolatileDisk, Zenon DEF LoadSecrets
<1>3. CASE NodeReconfigure(n)
  BY <1>3, CoordinateDisk, Zenon DEF NodeReconfigure
<1>4. CASE NodeCommit(n)
  BY <1>4, CommitDisk, NodeDiskUnchanged, Zenon DEF NodeCommit
<1>5. CASE NodePrepareAndCommit(n)
  <2>1. PICK q \in requests :
          /\ q.type = "PrepareAndCommit"
          /\ PrepareAndCommit(n, q.config) \/ UNCHANGED nodeVars
    BY <1>5, Zenon DEF NodePrepareAndCommit
  <2>2. q.config \in Config
    BY <2>1, RequestFields, Zenon DEF TypeOK, NexusTypeOK
  <2> QED BY <2>1, <2>2, AdvanceDisk, NodeDiskUnchanged DEF PrepareAndCommit
<1> QED BY <1>1, <1>2, <1>3, <1>4, <1>5 DEF NodeStep

(* Ledgers only grow and the nodes' part of the invariant is kept. *)
LEMMA StepNodeDisk ==
  ASSUME TypeOK, NodeDiskInv, [Next]_vars
  PROVE  Grows /\ NodeDiskInv'
<1>1. CASE \E n \in Node : NodeStep(n)
  BY <1>1, NodeStepDisk, Zenon
<1>2. CASE NexusStep
  <2>1. UNCHANGED nodeVars
    BY <1>2, Zenon DEF NexusStep, NexusPoll
  <2> QED BY <2>1, NodeDiskUnchanged, Zenon
<1>3. CASE RssStepAction
  <2>1. CASE RssHandoff
    BY <2>1, NodeDiskUnchanged, Zenon DEF RssHandoff
  <2>2. ASSUME NEW n \in Node, RssReconfigure(n) \/ RssCommitSelf(n) \/ RssProxyCommit(n)
        PROVE  Grows /\ NodeDiskInv'
    BY <2>2, CoordinateDisk, CommitDisk, Zenon DEF RssReconfigure, RssCommitSelf, RssProxyCommit
  <2> QED BY <1>3, <2>1, <2>2, Zenon DEF RssStepAction
<1>4. CASE UNCHANGED vars
  <2>1. UNCHANGED nodeVars
    BY <1>4, Zenon DEF vars, nodeVars
  <2> QED BY <2>1, NodeDiskUnchanged, Zenon
<1> QED BY <1>1, <1>2, <1>3, <1>4, Zenon DEF Next

LEMMA InitialNodeDisk ==
  ASSUME Init \/ InitAfterHandoff
  PROVE  /\ NodeDiskInv
         /\ rows # {} => \A n \in InitialMembers : OnDisk(n, 1)
<1> USE DEF NodeDiskInv, KscConfigured, CommittedIsPrepared, AckMsgs, CoordAcks
<1>1. CASE Init
  BY <1>1, Zenon DEF Init
<1>2. CASE InitAfterHandoff
  <2> DEFINE one(n, v) == IF n \in InitialMembers THEN {v} ELSE {}
             cfg(k) == [epoch |-> 1, members |-> InitialMembers, coordinator |-> k,
                        secrets |-> {}]
  <2>1. PICK k \in InitialMembers :
          /\ configs   = [n \in Node |-> one(n, cfg(k))]
          /\ shares    = [n \in Node |-> one(n, 1)]
          /\ commits   = [n \in Node |-> one(n, 1)]
          /\ coord     = [n \in Node |-> {}]
          /\ ksc       = [n \in Node |-> {}]
          /\ msgs      = {}
    BY <1>2, Zenon DEF InitAfterHandoff
  <2>2. cfg(k).epoch = 1
    BY Zenon
  <2> HIDE DEF cfg
  <2>3. \A n \in InitialMembers : OnDisk(n, 1)
    BY <2>1, <2>2, InitialMembersAssumption DEF OnDisk, HasConfig
  <2>4. \A n \in Node : \A e \in commits[n] : e = 1 /\ n \in InitialMembers
    BY <2>1, Zenon
  <2>5. KscConfigured /\ AckMsgs /\ CoordAcks
    BY <2>1, Zenon
  <2>6. CommittedIsPrepared
    BY <2>3, <2>4, Zenon
  <2> QED BY <2>3, <2>5, <2>6, Zenon
<1> QED BY <1>1, <1>2, Zenon

(* The ledgers, the messages and the coordinators keep NodeDiskInv, from an *)
(* uninitialized rack or from one just handed off.                          *)
THEOREM NodeDiskInvariant ==
  (Init \/ InitAfterHandoff) /\ [][Next]_vars => [](TypeOK /\ NodeDiskInv)
<1>1. Init \/ InitAfterHandoff => TypeOK /\ NodeDiskInv
  BY InitialType, InitialNodeDisk, Zenon
<1>2. TypeOK /\ NodeDiskInv /\ [Next]_vars => TypeOK' /\ NodeDiskInv'
  BY StepType, StepNodeDisk, Zenon
<1> QED BY <1>1, <1>2, PTL

(* Whichever of commit, PrepareAndCommit, CommitAdvance or key share        *)
(* computation commits an epoch, and whatever restarts in between, its      *)
(* configuration and share are on disk: the expects of PersistentState and  *)
(* ShareCollector::new cannot fail.                                         *)
THEOREM CommittedIsAlwaysPrepared ==
  (Init \/ InitAfterHandoff) /\ [][Next]_vars => []CommittedIsPrepared
BY NodeDiskInvariant, PTL DEF NodeDiskInv

-----------------------------------------------------------------------------
(* Who is in which configuration.                                           *)

(* What a configuration, a row and a request to reconfigure have in common. *)
Header(c) ==
  [epoch |-> c.epoch, members |-> c.members, coordinator |-> c.coordinator]

Headers == [epoch : Epoch, members : SUBSET Node, coordinator : Node]

InNodes(h) ==
  \/ \E n \in Node : \E c \in configs[n] : h = Header(c)
  \/ \E n \in Node : \E cs \in coord[n] : h = Header(cs.config)
  \/ \E m \in msgs : m.type \in {"Prepare", "CommitAdvance"} /\ h = Header(m.config)

InNexus(h) ==
  \/ \E q \in requests : q.type = "PrepareAndCommit" /\ h = Header(q.config)
  \/ \E q \in requests :
       /\ q.type = "Reconfigure"
       /\ h = [epoch |-> q.epoch, members |-> q.members, coordinator |-> q.to]
  \/ \E r \in rows : h = Header(r)
  \/ \E t \in Task : \E a \in task[t] : h = Header(a.row)

InUse(h) == InNodes(h) \/ InNexus(h)

(* Everything in use for an epoch agrees; every epoch in use was proposed;  *)
(* epoch 1 is the one of rack setup, before which there is nothing, and     *)
(* before whose handoff Nexus has nothing.                                  *)
AgreementInv ==
  /\ \A g, h \in Headers : InUse(g) /\ InUse(h) /\ g.epoch = h.epoch => g = h
  /\ \A h \in Headers : InUse(h) => h.epoch = 1 \/ \E r \in rows : r.epoch >= h.epoch
  /\ \A h \in Headers : InUse(h) /\ h.epoch = 1 => h.members = InitialMembers
  /\ rss = "Start" => \A h \in Headers : ~ InUse(h)
  /\ rss # "Done" => rows = {} /\ requests = {} /\ \A t \in Task : task[t] = {}

-----------------------------------------------------------------------------
(* No node makes up a configuration.                                        *)

LEMMA HeaderOfSame ==
  ASSUME NEW c \in Config, NEW S
  PROVE  Header([c EXCEPT !.secrets = S]) = Header(c)
BY Zenon DEF Header, Config

LEMMA AdvanceHeaders ==
  ASSUME TypeOK, NEW n \in Node, NEW c \in Config, HandleCommitAdvance(n, c),
         NEW h, InNodes(h)'
  PROVE  InNodes(h) \/ h = Header(c)
<1> USE DEF TypeOK, NodeTypeOK
<1>1. CASE AdvanceTo(n, c)
  <2>1. /\ configs' = [configs EXCEPT ![n] = InsertUnique(n, c)]
        /\ coord' = [coord EXCEPT ![n] = StillCoordinating(n, c)]
        /\ msgs' \subseteq msgs \cup {GetShareMsg(n, c)}
    BY <1>1, Zenon DEF AdvanceTo, Send
  <2>2. \A x \in Node : configs'[x] \subseteq configs[x] \cup {c}
    BY <2>1, Zenon DEF InsertUnique
  <2>3. \A x \in Node : coord'[x] \subseteq coord[x]
    BY <2>1, Zenon DEF StillCoordinating
  <2>4. GetShareMsg(n, c).type = "GetShare"
    BY Zenon DEF GetShareMsg
  <2>5. InNodes(h) \/ h \in {Header(c)}
    BY <2>1, <2>2, <2>3, <2>4 DEF InNodes
  <2> QED BY <2>5, Zenon
<1>2. CASE UNCHANGED <<configs, coord, msgs>>
  BY <1>2, Zenon DEF InNodes
<1> QED BY <1>1, <1>2 DEF HandleCommitAdvance

LEMMA TransitionHeaders ==
  ASSUME TypeOK, NEW n \in Node, NEW cs \in coord[n], NEW old \in configs[n],
         TransitionToPreparing(n, cs, old), NEW h, InNodes(h)'
  PROVE  InNodes(h)
<1> USE DEF TypeOK, NodeTypeOK
<1> DEFINE c == [cs.config EXCEPT !.secrets = old.secrets \cup {old.epoch}]
<1>1. /\ configs' = [configs EXCEPT ![n] = @ \cup {c}]
      /\ coord' = [coord EXCEPT ![n] = {Preparing(n, cs, c)}]
      /\ msgs' = msgs \cup {PrepareMsg(n, c)}
  BY Zenon DEF TransitionToPreparing, Send
<1>0. cs.config \in Config
  BY DEF CoordState
<1>2. Header(c) = Header(cs.config)
  BY <1>0, HeaderOfSame, Zenon
<1> HIDE DEF c
<1>3. Preparing(n, cs, c).config = c
  BY DEF Preparing, CoordState
<1>4. PrepareMsg(n, c).config = c
  BY Zenon DEF PrepareMsg
<1>5. InNodes(h) \/ h \in {Header(c)}
  BY <1>1, <1>3, <1>4, Zenon DEF InNodes
<1> QED BY <1>2, <1>5 DEF InNodes

LEMMA ShareHeaders ==
  ASSUME TypeOK, NEW n \in Node, NEW m, HandleShare(n, m), NEW h, InNodes(h)'
  PROVE  InNodes(h)
<1> USE DEF TypeOK, NodeTypeOK
<1>1. CASE UNCHANGED <<coord, configs, msgs>>
  BY <1>1, Zenon DEF InNodes
<1>2. CASE CoordinatorHandleShare(n, m)
  <2>1. PICK cs \in coord[n] :
          \/ \E old \in configs[n] :
               LET got == cs.replies \cup {m.from} IN
                 \/ /\ coord' = [coord EXCEPT ![n] = {[cs EXCEPT !.replies = got]}]
                    /\ UNCHANGED <<configs, msgs>>
                 \/ TransitionToPreparing(n, cs, old)
          \/ UNCHANGED <<coord, configs, msgs>>
    BY <1>2 DEF CoordinatorHandleShare
  <2>2. CASE \E old \in configs[n] : TransitionToPreparing(n, cs, old)
    BY <2>2, TransitionHeaders
  <2>3. CASE /\ coord' = [coord EXCEPT ![n] = {[cs EXCEPT !.replies = cs.replies \cup {m.from}]}]
             /\ UNCHANGED <<configs, msgs>>
    <3>1. [cs EXCEPT !.replies = cs.replies \cup {m.from}].config = cs.config
      BY DEF CoordState
    <3>2. InNodes(h) \/ h \in {}
      BY <2>3, <3>1, Zenon DEF InNodes
    <3> QED BY <3>2
  <2> QED BY <1>1, <2>1, <2>2, <2>3
<1> QED BY ZenonT(30), <1>1, <1>2 DEF HandleShare, KscHandleShare

LEMMA HandleHeaders ==
  ASSUME TypeOK, NEW n \in Node, NEW m \in msgs, Handle(n, m), NEW h, InNodes(h)'
  PROVE  InNodes(h)
<1> USE DEF TypeOK, NodeTypeOK
<1>1. CASE m.type = "Prepare" /\ HandlePrepare(n, m)
  <2> DEFINE ack == [type |-> "PrepareAck", from |-> n, to |-> {m.from},
                     epoch |-> m.config.epoch]
  <2>1. /\ configs' = [configs EXCEPT ![n] = InsertUnique(n, m.config)]
        /\ coord' = [coord EXCEPT ![n] = {cs \in @ : m.config.epoch <= cs.config.epoch}]
        /\ msgs' = msgs \cup {ack}
    BY <1>1 DEF HandlePrepare, SavePrepare, Send
  <2>2. ack.type = "PrepareAck"
    BY Zenon
  <2> HIDE DEF ack
  <2>3. \A x \in Node : configs'[x] \subseteq configs[x] \cup {m.config}
    BY <2>1, Zenon DEF InsertUnique
  <2>4. \A x \in Node : coord'[x] \subseteq coord[x]
    BY <2>1, Zenon
  <2>5. InNodes(h) \/ h \in {Header(m.config)}
    BY <2>1, <2>2, <2>3, <2>4 DEF InNodes
  <2> QED BY <1>1, <2>5 DEF InNodes
<1>2. CASE m.type = "PrepareAck" /\ HandlePrepareAck(n, m)
  <2>1. PICK cs \in coord[n] :
          /\ coord' = [coord EXCEPT ![n] = {[cs EXCEPT !.replies = @ \cup {m.from}]}]
          /\ UNCHANGED <<configs, msgs>>
    BY <1>2, Zenon DEF HandlePrepareAck, persistentVars
  <2>2. [cs EXCEPT !.replies = @ \cup {m.from}].config = cs.config
    BY DEF CoordState
  <2>3. InNodes(h) \/ h \in {}
    BY <2>1, <2>2, Zenon DEF InNodes
  <2> QED BY <2>3, Zenon
<1>3. CASE m.type = "GetShare" /\ HandleGetShare(n, m)
  <2>1. /\ msgs' = msgs \cup GetShareReplies(n, m.from, m.epoch)
        /\ UNCHANGED <<configs, coord>>
    BY <1>3, ZenonT(30) DEF HandleGetShare, Send, persistentVars
  <2> DEFINE X == {Header(c) : c \in configs[n]}
  <2>2. \A x \in GetShareReplies(n, m.from, m.epoch) :
          x.type \in {"Prepare", "CommitAdvance"} => x.config \in configs[n]
    BY DEF GetShareReplies
  <2>3. InNodes(h) \/ h \in X
    <3>1. \A x \in msgs' : x.type \in {"Prepare", "CommitAdvance"} =>
                               x \in msgs \/ Header(x.config) \in X
      BY <2>1, <2>2, Zenon
    <3> HIDE DEF X
    <3> QED BY <2>1, <3>1, Zenon DEF InNodes
  <2> QED BY <2>3, Zenon DEF InNodes
<1>4. CASE m.type = "Share" /\ HandleShare(n, m)
  BY <1>4, ShareHeaders
<1>5. CASE m.type = "Expunged" /\ HandleExpunged(n, m)
  <2>1. coord' = [coord EXCEPT ![n] = {}] /\ UNCHANGED <<configs, msgs>>
    BY <1>5, Zenon DEF HandleExpunged
  <2>2. InNodes(h) \/ h \in {}
    BY <2>1, Zenon DEF InNodes
  <2> QED BY <2>2
<1>6. CASE m.type = "CommitAdvance" /\ HandleCommitAdvance(n, m.config)
  <2>1. m.config \in Config
    BY <1>6, MsgFields
  <2>2. InNodes(h) \/ h = Header(m.config)
    BY <1>6, <2>1, AdvanceHeaders
  <2>3. InNodes(Header(m.config))
    BY <1>6, Zenon DEF InNodes
  <2> QED BY <2>2, <2>3
<1> QED BY <1>1, <1>2, <1>3, <1>4, <1>5, <1>6, Zenon DEF Handle

(* A coordinator takes the header of the request. *)
LEMMA CoordinateHeaders ==
  ASSUME TypeOK, NEW n \in Node, NEW m, CoordinateReconfiguration(n, m),
         NEW h, InNodes(h)'
  PROVE  InNodes(h) \/ h = [epoch |-> m.epoch, members |-> m.members, coordinator |-> n]
<1> USE DEF TypeOK, NodeTypeOK
<1> DEFINE c == NewConfiguration(n, m)
<1>1. Header(c) = [epoch |-> m.epoch, members |-> m.members, coordinator |-> n]
  BY Zenon DEF Header, NewConfiguration
<1>2. CASE CoordinateUninitialized(n, m)
  <2> DEFINE cs == [config |-> c, old |-> NoEpoch, op |-> "Prepare", replies |-> {n}]
  <2>1. /\ coord' = [coord EXCEPT ![n] = {cs}]
        /\ configs' = [configs EXCEPT ![n] = @ \cup {c}]
        /\ msgs' = msgs \cup {PrepareMsg(n, c)}
    BY <1>2, Zenon DEF CoordinateUninitialized, Send
  <2>2. cs.config = c /\ PrepareMsg(n, c).config = c
    BY Zenon DEF PrepareMsg
  <2> HIDE DEF c, cs
  <2>3. InNodes(h) \/ h \in {Header(c)}
    BY <2>1, <2>2 DEF InNodes
  <2> QED BY <1>1, <2>3
<1>3. CASE CoordinateFromCommitted(n, m)
  <2> DEFINE cs == [config |-> c, old |-> m.last, op |-> "CollectShares", replies |-> {n}]
  <2>1. PICK old \in configs[n] :
          /\ coord' = [coord EXCEPT ![n] = {cs}]
          /\ msgs' = msgs \cup {GetShareMsg(n, old)}
          /\ UNCHANGED configs
    BY <1>3, Zenon DEF CoordinateFromCommitted, Send
  <2>2. cs.config = c /\ GetShareMsg(n, old).type = "GetShare"
    BY Zenon DEF GetShareMsg
  <2> HIDE DEF c, cs
  <2>3. InNodes(h) \/ h \in {Header(c)}
    BY <2>1, <2>2 DEF InNodes
  <2> QED BY <1>1, <2>3
<1> QED BY <1>2, <1>3 DEF CoordinateReconfiguration

LEMMA OtherHeaders ==
  ASSUME TypeOK, NEW n \in Node,
         \/ ClearSecrets(n) \/ Restart(n) \/ UNCHANGED nodeVars
         \/ \E e \in Epoch : LoadRackSecret(n, e)
         \/ \E e \in Epoch : CommitConfiguration(n, e),
         NEW h, InNodes(h)'
  PROVE  InNodes(h)
<1> USE DEF TypeOK, NodeTypeOK
<1>1. /\ UNCHANGED configs
      /\ \A x \in Node : coord'[x] \subseteq coord[x]
      /\ \A m \in msgs' : m \in msgs \/ m.type = "GetShare"
  <2>1. CASE ClearSecrets(n) \/ Restart(n) \/ UNCHANGED nodeVars
    BY <2>1, Zenon DEF ClearSecrets, Restart, persistentVars, nodeVars
  <2>2. CASE \E e \in Epoch : LoadRackSecret(n, e)
    BY SMTT(30), <2>2, LoadSends
  <2>3. CASE \E e \in Epoch : CommitConfiguration(n, e)
    BY <2>3 DEF CommitConfiguration
  <2> QED BY <2>1, <2>2, <2>3
<1>2. InNodes(h) \/ h \in {}
  BY <1>1, Zenon DEF InNodes
<1> QED BY <1>2

-----------------------------------------------------------------------------
(* Nor does Nexus, except in a proposal.                                    *)

LEMMA CommitOpsHeaders ==
  ASSUME NEW r, NEW q \in CommitOps(r)
  PROVE  /\ q.type # "Reconfigure"
         /\ q.type = "PrepareAndCommit" => Header(q.config) = Header(r)
<1>1. Header(ToConfiguration(r)) = Header(r)
  BY Zenon DEF Header, ToConfiguration
<1> HIDE DEF Header
<1> QED BY <1>1 DEF CommitOps

LEMMA RowHeaders ==
  ASSUME NEW r \in Row
  PROVE  /\ \A st : Header(UpdatePrepareStatus(r, st)) = Header(r)
         /\ \A S : Header(UpdateCommitStatus(r, S)) = Header(r)
         /\ Header([r EXCEPT !.state = "Aborted"]) = Header(r)
         /\ Header(CommitPartially(r)) = Header(r)
<1>1. /\ Header([r EXCEPT !.state = "Aborted"]) = Header(r)
      /\ Header(CommitPartially(r)) = Header(r)
  BY Zenon DEF Row, Header, CommitPartially
<1>2. \A st : Header(UpdatePrepareStatus(r, st)) = Header(r)
  BY Zenon DEF Row, Header, UpdatePrepareStatus
<1>3. \A S : Header(UpdateCommitStatus(r, S)) = Header(r)
  BY Zenon DEF Row, Header, UpdateCommitStatus
<1> QED BY <1>1, <1>2, <1>3

(* The epochs of the rows. *)
RowsKept == \A r \in rows : \E s \in rows' : s.epoch = r.epoch

LEMMA ReplaceHeaders ==
  ASSUME NEW r \in rows, NEW r2, Header(r2) = Header(r),
         rows' = (rows \ {r}) \cup {r2}
  PROVE  /\ RowsKept
         /\ \A s \in rows' : \E x \in rows : Header(s) = Header(x)
<1>1. r2.epoch = r.epoch
  BY Zenon DEF Header
<1> QED BY <1>1, Zenon DEF RowsKept

LEMMA AbortHeaders ==
  ASSUME TypeOK, TqAbort \/ TqUpdateCommitStatus
  PROVE  RowsKept /\ \A h : InNexus(h)' => InNexus(h)
<1>1. PICK r \in rows : \E r2 :
        /\ Header(r2) = Header(r)
        /\ rows' = (rows \ {r}) \cup {r2}
        /\ UNCHANGED <<task, requests>>
  <2>1. CASE TqAbort
    <3>1. PICK r \in rows :
            /\ rows' = (rows \ {r}) \cup {[r EXCEPT !.state = "Aborted"]}
            /\ UNCHANGED <<task, requests>>
      BY <2>1, Zenon DEF TqAbort
    <3>2. Header([r EXCEPT !.state = "Aborted"]) = Header(r)
      BY RowHeaders, Zenon DEF TypeOK, NexusTypeOK
    <3> QED BY <3>1, <3>2, Zenon
  <2>2. CASE TqUpdateCommitStatus
    <3>1. PICK r \in rows, acked \in SUBSET Node :
            /\ rows' = (rows \ {r}) \cup {UpdateCommitStatus(r, acked)}
            /\ UNCHANGED <<task, requests>>
      BY <2>2, Zenon DEF TqUpdateCommitStatus
    <3>2. Header(UpdateCommitStatus(r, acked)) = Header(r)
      BY RowHeaders, Zenon DEF TypeOK, NexusTypeOK
    <3> QED BY <3>1, <3>2, Zenon
  <2> QED BY <2>1, <2>2, Zenon
<1>2. RowsKept /\ \A s \in rows' : \E x \in rows : Header(s) = Header(x)
  BY <1>1, ReplaceHeaders, Zenon
<1> QED BY <1>1, <1>2, Zenon DEF InNexus

LEMMA PrepareStatusHeaders ==
  ASSUME TypeOK, NEW t \in Task, TaskUpdatePrepareStatus(t)
  PROVE  RowsKept /\ \A h : InNexus(h)' => InNexus(h)
<1>1. PICK a \in task[t] : \E st \in a.status, r \in rows :
        /\ rows' = (rows \ {r}) \cup {UpdatePrepareStatus(r, st)}
        /\ requests' \subseteq requests \cup CommitOps(a.row)
        /\ task' = [task EXCEPT ![t] = {}]
  BY Zenon DEF TaskUpdatePrepareStatus
<1>2. PICK st \in a.status, r \in rows :
        /\ rows' = (rows \ {r}) \cup {UpdatePrepareStatus(r, st)}
        /\ requests' \subseteq requests \cup CommitOps(a.row)
        /\ task' = [task EXCEPT ![t] = {}]
  BY <1>1, Zenon
<1>3. Header(UpdatePrepareStatus(r, st)) = Header(r)
  BY RowHeaders, Zenon DEF TypeOK, NexusTypeOK
<1>4. RowsKept /\ \A s \in rows' : \E x \in rows : Header(s) = Header(x)
  BY <1>2, <1>3, ReplaceHeaders
<1>5. \A q \in requests' :
        \/ q \in requests
        \/ q.type = "PrepareAndCommit" /\ Header(q.config) = Header(a.row)
        \/ q.type \notin {"PrepareAndCommit", "Reconfigure"}
  BY <1>2, CommitOpsHeaders
<1>6. \A u \in Task : task'[u] \subseteq task[u]
  BY <1>2 DEF TypeOK, NexusTypeOK
<1> QED BY <1>4, <1>5, <1>6 DEF InNexus

LEMMA TaskHeaders ==
  ASSUME TypeOK, NEW t \in Task,
         TaskLoad(t) \/ TaskFail(t) \/ NexusPoll(t)
  PROVE  RowsKept /\ \A h : InNexus(h)' => InNexus(h)
<1> USE DEF TypeOK, NexusTypeOK
<1>1. CASE TaskLoad(t)
  <2>1. PICK r \in rows :
          /\ task' = [task EXCEPT ![t] = {[row |-> r, status |-> {}]}]
          /\ UNCHANGED <<rows, requests>>
    BY <1>1, Zenon DEF TaskLoad
  <2> QED BY <2>1 DEF InNexus, RowsKept
<1>2. CASE TaskFail(t)
  BY <1>2, Zenon DEF TaskFail, InNexus, RowsKept
<1>3. CASE NexusPoll(t)
  <2>0. PICK a \in task[t] : \E st :
          /\ task' = [task EXCEPT ![t] = {[a EXCEPT !.status = {st}]}]
          /\ UNCHANGED <<rows, requests>>
    BY <1>3, Zenon DEF NexusPoll, TaskPoll
  <2>1. PICK st :
          /\ task' = [task EXCEPT ![t] = {[a EXCEPT !.status = {st}]}]
          /\ UNCHANGED <<rows, requests>>
    BY <2>0, Zenon
  <2>2. [a EXCEPT !.status = {st}].row = a.row
    BY DEF Activation
  <2>3. \A u \in Task : \A b \in task'[u] : \E c \in task[u] : b.row = c.row
    BY <2>1, <2>2, Zenon
  <2> QED BY <2>1, <2>3 DEF InNexus, RowsKept
<1> QED BY SMTT(30), <1>1, <1>2, <1>3

(* A proposal brings in one header, of an epoch above every row. *)
LEMMA ProposeHeaders ==
  ASSUME TypeOK, TqPropose
  PROVE  /\ RowsKept
         /\ \E new \in Headers, r \in rows :
              /\ IsLatest(r) /\ new.epoch = r.epoch + 1
              /\ \E s \in rows' : s.epoch = new.epoch
              /\ \A h : InNexus(h)' => InNexus(h) \/ h = new
<1>1. PICK latest \in rows, lc \in rows, members \in SUBSET Node, coordinator \in Node :
        LET new == NewRow(latest.epoch + 1, lc.epoch, members, coordinator) IN
          /\ IsLatest(latest)
          /\ new \in Row
          /\ rows' = (rows \ {lc}) \cup {CommitPartially(lc), new}
          /\ requests' = requests \cup
               {[type |-> "Reconfigure", to |-> coordinator,
                 epoch |-> latest.epoch + 1, last |-> lc.epoch,
                 members |-> members]}
          /\ UNCHANGED <<task, commitAcks>>
  BY ProposeFacts DEF TypeOK
<1> DEFINE new == NewRow(latest.epoch + 1, lc.epoch, members, coordinator)
           q == [type |-> "Reconfigure", to |-> coordinator,
                 epoch |-> latest.epoch + 1, last |-> lc.epoch,
                 members |-> members]
           h0 == [epoch |-> latest.epoch + 1, members |-> members,
                  coordinator |-> coordinator]
<1>2. Header(new) = h0 /\ new.epoch = latest.epoch + 1
  BY Zenon DEF Header, NewRow
<1>3. /\ q.type = "Reconfigure"
      /\ [epoch |-> q.epoch, members |-> q.members, coordinator |-> q.to] = h0
  BY Zenon
<1>4. Header(CommitPartially(lc)) = Header(lc)
  BY RowHeaders, Zenon DEF TypeOK, NexusTypeOK
<1>5. CommitPartially(lc).epoch = lc.epoch
  BY <1>4, Zenon DEF Header
<1>6. /\ IsLatest(latest) /\ new \in Row
      /\ rows' = (rows \ {lc}) \cup {CommitPartially(lc), new}
      /\ requests' = requests \cup {q}
      /\ UNCHANGED task
  BY <1>1
<1> HIDE DEF new, q
<1>7. h0 \in Headers /\ h0.epoch = latest.epoch + 1
  BY <1>2, <1>6 DEF Headers, Row
<1> HIDE DEF h0
<1>8. RowsKept
  BY <1>5, <1>6 DEF RowsKept
<1>9. ASSUME NEW h, InNexus(h)' PROVE InNexus(h) \/ h = h0
  <2>1. \A s \in rows' : Header(s) = h0 \/ \E x \in rows : Header(s) = Header(x)
    BY <1>2, <1>4, <1>6
  <2> QED BY <1>3, <1>6, <1>9, <2>1 DEF InNexus
<1> QED BY <1>2, <1>6, <1>7, <1>8, <1>9, Zenon

-----------------------------------------------------------------------------
(* AgreementInv is inductive.                                               *)

LEMMA AgreementKept ==
  ASSUME AgreementInv, RowsKept, \A h \in Headers : InUse(h)' => InUse(h),
         rss' = "Start" => rss = "Start",
         rss' # "Done" => rss # "Done" /\ UNCHANGED <<rows, requests, task>>
  PROVE  AgreementInv'
<1>1. (\A g, h \in Headers : InUse(g) /\ InUse(h) /\ g.epoch = h.epoch => g = h)'
  BY Zenon DEF AgreementInv
<1>2. (\A h \in Headers : InUse(h) => h.epoch = 1 \/ \E r \in rows : r.epoch >= h.epoch)'
  BY Zenon DEF AgreementInv, RowsKept
<1>3. (\A h \in Headers : InUse(h) /\ h.epoch = 1 => h.members = InitialMembers)'
  BY Zenon DEF AgreementInv
<1>4. (rss = "Start" => \A h \in Headers : ~ InUse(h))'
  BY Zenon DEF AgreementInv
<1>5. (rss # "Done" => rows = {} /\ requests = {} /\ \A t \in Task : task[t] = {})'
  BY Zenon DEF AgreementInv
<1> QED BY <1>1, <1>2, <1>3, <1>4, <1>5 DEF AgreementInv

LEMMA NexusUnchanged ==
  ASSUME UNCHANGED <<rows, requests, task>>
  PROVE  RowsKept /\ \A h : InNexus(h)' => InNexus(h)
BY Zenon DEF RowsKept, InNexus

LEMMA NodesUnchanged ==
  ASSUME UNCHANGED nodeVars
  PROVE  \A h : InNodes(h)' => InNodes(h)
BY Zenon DEF InNodes, nodeVars

LEMMA NodeStepAgreement ==
  ASSUME TypeOK, AgreementInv, NEW n \in Node, NodeStep(n)
  PROVE  AgreementInv' /\ RowsKept
<1>1. CASE NodeReconfigure(n)
  <2>1. PICK q \in requests :
          /\ q.type = "Reconfigure"
          /\ q.to = n
          /\ CoordinateReconfiguration(n, q)
          /\ requests' = requests \ {q}
          /\ UNCHANGED <<rows, task, rss>>
    BY <1>1, Zenon DEF NodeReconfigure
  <2>2. \A h : InNodes(h)' => InNodes(h) \/ InNexus(h)
    BY <2>1, CoordinateHeaders DEF InNexus
  <2>3. RowsKept /\ \A h : InNexus(h)' => InNexus(h)
    BY <2>1, Zenon DEF InNexus, RowsKept
  <2>4. rss = "Done"
    BY <2>1, Zenon DEF AgreementInv
  <2> QED BY <2>1, <2>2, <2>3, <2>4, AgreementKept DEF InUse
<1>2. CASE NodePrepareAndCommit(n)
  <2>1. PICK q \in requests :
          /\ q.type = "PrepareAndCommit"
          /\ PrepareAndCommit(n, q.config) \/ UNCHANGED nodeVars
          /\ UNCHANGED <<rows, task, requests, rss>>
    BY <1>2 DEF NodePrepareAndCommit
  <2>2. q.config \in Config
    BY SMTT(30), <2>1, RequestFields DEF TypeOK, NexusTypeOK
  <2>3. \A h : InNodes(h)' => InNodes(h) \/ InNexus(h)
    BY <2>1, <2>2, AdvanceHeaders, NodesUnchanged DEF InNexus, PrepareAndCommit
  <2> QED BY <2>1, <2>3, NexusUnchanged, AgreementKept DEF InUse
<1>3. CASE NodeCommit(n)
  <2>1. PICK q \in requests :
          /\ q.type = "Commit"
          /\ CommitConfiguration(n, q.epoch) \/ UNCHANGED nodeVars
          /\ UNCHANGED <<rows, task, requests, rss>>
    BY <1>3, Zenon DEF NodeCommit
  <2>2. q.epoch \in Epoch
    BY <2>1, RequestFields DEF TypeOK, NexusTypeOK
  <2>3. \A h : InNodes(h)' => InNodes(h)
    BY <2>1, <2>2, OtherHeaders
  <2> QED BY <2>1, <2>3, NexusUnchanged, AgreementKept DEF InUse
<1>4. CASE /\ HandlePeerMsg(n) \/ Restart(n) \/ LoadSecrets(n) \/ ClearSecrets(n)
           /\ UNCHANGED <<nexusVars, rss>>
  <2>1. \A h : InNodes(h)' => InNodes(h)
    BY <1>4, HandleHeaders, OtherHeaders DEF HandlePeerMsg, LoadSecrets
  <2>2. UNCHANGED <<rows, task, requests, rss>>
    BY <1>4, Zenon DEF nexusVars
  <2> QED BY <2>1, <2>2, NexusUnchanged, AgreementKept DEF InUse
<1> QED BY <1>1, <1>2, <1>3, <1>4 DEF NodeStep, LoadSecrets

LEMMA ProposeAgreement ==
  ASSUME TypeOK, AgreementInv, TqPropose, UNCHANGED <<nodeVars, rss>>
  PROVE  AgreementInv' /\ RowsKept
<1>1. RowsKept
  BY ProposeHeaders, Zenon
<1>2. PICK new \in Headers, r \in rows :
        /\ IsLatest(r) /\ new.epoch = r.epoch + 1
        /\ \E s \in rows' : s.epoch = new.epoch
        /\ \A h : InNexus(h)' => InNexus(h) \/ h = new
  BY ProposeHeaders, Zenon
<1>3. \A h : InUse(h)' => InUse(h) \/ h = new
  BY <1>2, NodesUnchanged DEF InUse
<1>4. r.epoch \in Nat \ {0} /\ \A s \in rows : s.epoch \in Nat
  BY DEF TypeOK, NexusTypeOK, Row, Epoch
<1>5. \A h \in Headers : h.epoch \in Nat
  BY DEF Headers, Epoch
<1>6. \A h \in Headers : InUse(h) => h.epoch < new.epoch
  <2> SUFFICES ASSUME NEW h \in Headers, InUse(h) PROVE h.epoch < new.epoch
    BY Zenon
  <2>1. h.epoch = 1 \/ \E s \in rows : s.epoch >= h.epoch
    BY Zenon DEF AgreementInv
  <2>2. \A s \in rows : s.epoch <= r.epoch
    BY <1>2, Zenon DEF IsLatest
  <2> QED BY <1>2, <1>4, <1>5, <2>1, <2>2
<1>7. rss' = "Done"
  BY Zenon DEF AgreementInv
<1>8. (\A g, h \in Headers : InUse(g) /\ InUse(h) /\ g.epoch = h.epoch => g = h)'
  BY <1>3, <1>5, <1>6 DEF AgreementInv
<1>9. (\A h \in Headers : InUse(h) => h.epoch = 1 \/ \E s \in rows : s.epoch >= h.epoch)'
  <2> SUFFICES ASSUME NEW h \in Headers, InUse(h)'
               PROVE  h.epoch = 1 \/ \E s \in rows' : s.epoch >= h.epoch
    BY Zenon
  <2>1. CASE h = new
    BY <1>2, <1>5, <2>1
  <2>2. CASE InUse(h)
    BY <1>1, <2>2 DEF AgreementInv, RowsKept
  <2> QED BY <1>3, <2>1, <2>2, Zenon
<1>10. (\A h \in Headers : InUse(h) /\ h.epoch = 1 => h.members = InitialMembers)'
  <2>1. new.epoch # 1
    BY <1>2, <1>4
  <2> QED BY <1>3, <2>1, Zenon DEF AgreementInv
<1> QED BY <1>1, <1>7, <1>8, <1>9, <1>10 DEF AgreementInv

LEMMA NexusStepAgreement ==
  ASSUME TypeOK, AgreementInv, NexusStep
  PROVE  AgreementInv' /\ RowsKept
<1>1. UNCHANGED <<nodeVars, rss>>
  BY Zenon DEF NexusStep, NexusPoll
<1>2. CASE TqPropose
  BY <1>1, <1>2, ProposeAgreement
<1>3. CASE RowsKept /\ \A h : InNexus(h)' => InNexus(h)
  <2>1. rss = "Done"
    BY Zenon DEF NexusStep, AgreementInv, TqPropose, TqAbort, TqUpdateCommitStatus,
           TaskCommit, TaskLoad, NexusPoll, TaskUpdatePrepareStatus, TaskFail
  <2> QED BY <1>1, <1>3, <2>1, NodesUnchanged, AgreementKept DEF InUse
<1>4. CASE TqAbort \/ TqUpdateCommitStatus
  BY <1>3, <1>4, AbortHeaders, Zenon
<1>5. ASSUME NEW t \in Task, TaskLoad(t) \/ TaskFail(t) \/ NexusPoll(t)
      PROVE  AgreementInv' /\ RowsKept
  BY <1>3, <1>5, TaskHeaders
<1>6. ASSUME NEW t \in Task, TaskUpdatePrepareStatus(t)
      PROVE  AgreementInv' /\ RowsKept
  BY <1>3, <1>6, PrepareStatusHeaders
<1>7. CASE TaskCommit
  <2>1. PICK r \in rows :
          requests' = requests \cup CommitOps(r) /\ UNCHANGED <<rows, task>>
    BY <1>7, Zenon DEF TaskCommit
  <2>2. RowsKept /\ \A h : InNexus(h)' => InNexus(h)
    BY <2>1, CommitOpsHeaders, Zenon DEF InNexus, RowsKept
  <2> QED BY <1>3, <2>2, Zenon
<1> QED BY <1>2, <1>4, <1>5, <1>6, <1>7 DEF NexusStep

LEMMA RssStepAgreement ==
  ASSUME TypeOK, AgreementInv, RssStepAction
  PROVE  AgreementInv' /\ RowsKept
<1>1. ASSUME NEW n \in Node, RssReconfigure(n)
      PROVE  AgreementInv' /\ RowsKept
  <2> DEFINE h0 == [epoch |-> 1, members |-> InitialMembers, coordinator |-> n]
  <2>1. /\ rss = "Start" /\ rss' = "Preparing"
        /\ CoordinateReconfiguration(n, RssReconfigureMsg)
        /\ UNCHANGED <<rows, task, requests>>
    BY <1>1, Zenon DEF RssReconfigure, nexusVars
  <2>2. \A h : InUse(h)' => InUse(h) \/ h = h0
    BY <2>1, CoordinateHeaders, NexusUnchanged DEF InUse, RssReconfigureMsg
  <2>3. h0.epoch = 1 /\ h0.members = InitialMembers
    BY Zenon
  <2> HIDE DEF h0
  <2>4. \A h \in Headers : InUse(h)' => h = h0
    BY <2>1, <2>2, Zenon DEF AgreementInv
  <2> QED BY <2>1, <2>3, <2>4, NexusUnchanged DEF AgreementInv
<1>2. ASSUME NEW n \in Node, RssCommitSelf(n) \/ RssProxyCommit(n)
      PROVE  AgreementInv' /\ RowsKept
  <2>1. /\ CommitConfiguration(n, 1)
        /\ UNCHANGED <<rows, task, requests>>
        /\ rss # "Start" /\ rss' # "Start" /\ rss # "Done" /\ rss' # "Done"
    BY <1>2, Zenon DEF RssCommitSelf, RssProxyCommit, nexusVars
  <2>2. \A h : InNodes(h)' => InNodes(h)
    BY <2>1, OneIsEpoch, OtherHeaders
  <2> QED BY <2>1, <2>2, NexusUnchanged, AgreementKept DEF InUse
<1>3. CASE RssHandoff
  <2>1. PICK n \in InitialMembers :
          /\ rss = "Committing"
          /\ \E c \in configs[n] : c.epoch = 1 /\ c.coordinator = n
          /\ rows' = {RssRow(InitialMembers, n)}
          /\ rss' = "Done"
          /\ UNCHANGED <<nodeVars, task, requests>>
    BY <1>3, Zenon DEF RssHandoff
  <2>2. PICK c \in configs[n] : c.epoch = 1 /\ c.coordinator = n
    BY <2>1
  <2>3. n \in Node /\ c \in Config
    BY InitialMembersAssumption, Zenon DEF TypeOK, NodeTypeOK
  <2>4. InUse(Header(c)) /\ Header(c) \in Headers
    BY <2>3, Zenon DEF InUse, InNodes, Header, Headers, Config
  <2>5. c.members = InitialMembers
    BY <2>2, <2>4, Zenon DEF AgreementInv, Header
  <2>6. Header(RssRow(InitialMembers, n)) = Header(c)
    BY <2>2, <2>5, Zenon DEF Header, RssRow
  <2>7. \A h : InNexus(h)' => InNexus(h) \/ h = Header(c)
    BY <2>1, <2>6 DEF InNexus
  <2>8. \A h : InUse(h)' => InUse(h)
    BY <2>1, <2>4, <2>7, NodesUnchanged DEF InUse
  <2>9. RowsKept
    BY <2>1, Zenon DEF AgreementInv, RowsKept
  <2> QED BY <2>1, <2>8, <2>9, AgreementKept
<1> QED BY <1>1, <1>2, <1>3 DEF RssStepAction

LEMMA StepAgreement ==
  ASSUME TypeOK, AgreementInv, [Next]_vars
  PROVE  AgreementInv' /\ RowsKept
<1>1. CASE UNCHANGED vars
  <2>1. UNCHANGED <<rows, requests, task, rss>> /\ UNCHANGED nodeVars
    BY <1>1, Zenon DEF vars, nodeVars, persistentVars, loaderVars
  <2> QED BY <2>1, NexusUnchanged, NodesUnchanged, AgreementKept DEF InUse
<1> QED
  BY <1>1, NodeStepAgreement, NexusStepAgreement, RssStepAgreement DEF Next

LEMMA InitialAgreement ==
  ASSUME Init \/ InitAfterHandoff
  PROVE  AgreementInv
<1>1. CASE Init
  <2>1. \A h : ~ InUse(h)
    BY ZenonT(30), <1>1 DEF Init, InUse, InNodes, InNexus
  <2> QED BY <1>1, <2>1 DEF Init, AgreementInv
<1>2. CASE InitAfterHandoff
  <2> DEFINE one(n, v) == IF n \in InitialMembers THEN {v} ELSE {}
             cfg(k) == [epoch |-> 1, members |-> InitialMembers, coordinator |-> k,
                        secrets |-> {}]
  <2>1. PICK k \in InitialMembers :
          /\ configs   = [n \in Node |-> one(n, cfg(k))]
          /\ coord     = [n \in Node |-> {}]
          /\ msgs      = {}
          /\ rows      = {RssRow(InitialMembers, k)}
          /\ task      = [t \in Task |-> {}]
          /\ requests  = {}
          /\ rss = "Done"
    BY <1>2, Zenon DEF InitAfterHandoff
  <2> DEFINE h0 == [epoch |-> 1, members |-> InitialMembers, coordinator |-> k]
  <2>2. Header(RssRow(InitialMembers, k)) = h0 /\ Header(cfg(k)) = h0
    BY Zenon DEF Header, RssRow
  <2>3. h0.epoch = 1 /\ h0.members = InitialMembers
    BY Zenon
  <2>4. \A h : InUse(h) => h = h0
    <3> HIDE DEF cfg, h0
    <3>1. \A h : InNodes(h) => h = h0
      BY <2>1, <2>2, Zenon DEF InNodes
    <3>2. \A h : InNexus(h) => h = h0
      BY <2>1, <2>2, Zenon DEF InNexus
    <3> QED BY <3>1, <3>2 DEF InUse
  <2> HIDE DEF h0
  <2> QED BY ZenonT(30), <2>1, <2>3, <2>4 DEF AgreementInv
<1> QED BY <1>1, <1>2, ZenonT(30)

-----------------------------------------------------------------------------
(* What Nexus records as committed.  A commit request may be answered Ok by *)
(* a node that has only committed a later epoch; but then that epoch was    *)
(* proposed, and the answer is about a row that is no longer the latest.    *)

AckedCommits ==
  \A n \in Node : \A e \in Epoch :
    <<n, e>> \in commitAcks => e \in commits[n] \/ \E r \in rows : r.epoch > e

CommitInv == AckedCommits /\ RecordedIsCommitted

(* An epoch that a node has committed has been proposed. *)
LEMMA CommittedIsProposed ==
  ASSUME TypeOK, NodeDiskInv, AgreementInv, NEW n \in Node, NEW e \in commits[n], e > 1
  PROVE  \E r \in rows : r.epoch >= e
<1>1. PICK c \in configs[n] : c.epoch = e
  BY Zenon DEF NodeDiskInv, CommittedIsPrepared, OnDisk, HasConfig
<1>2. c \in Config
  BY Zenon DEF TypeOK, NodeTypeOK
<1>3. InUse(Header(c)) /\ Header(c) \in Headers /\ Header(c).epoch = e
  BY ZenonT(30), <1>1, <1>2 DEF InUse, InNodes, Header, Headers, Config
<1> QED BY <1>3 DEF AgreementInv

LEMMA AcksKept ==
  ASSUME TypeOK, AckedCommits, Grows, RowsKept,
         \A n \in Node : \A e \in Epoch :
           <<n, e>> \in commitAcks' =>
             \/ <<n, e>> \in commitAcks
             \/ e \in commits'[n]
             \/ \E r \in rows : r.epoch > e
  PROVE  AckedCommits'
BY Zenon DEF AckedCommits, Grows, RowsKept, TypeOK, NexusTypeOK

LEMMA NewAcks ==
  ASSUME TypeOK, NodeDiskInv, AgreementInv, [Next]_vars,
         NEW n \in Node, NEW e \in Epoch, <<n, e>> \in commitAcks'
  PROVE  \/ <<n, e>> \in commitAcks
         \/ e \in commits'[n]
         \/ \E r \in rows : r.epoch > e
<1>1. ASSUME NEW x \in Node, NodeCommit(x)
      PROVE  \/ <<n, e>> \in commitAcks
             \/ e \in commits'[n]
             \/ \E r \in rows : r.epoch > e
  <2>1. PICK q \in requests :
          /\ q.type = "Commit"
          /\ \/ CommitConfiguration(x, q.epoch)
             \/ CommittedAtLeast(x, q.epoch) /\ UNCHANGED nodeVars
          /\ commitAcks' = commitAcks \cup {<<x, q.epoch>>}
    BY <1>1, Zenon DEF NodeCommit
  <2> SUFFICES ASSUME n = x, e = q.epoch
               PROVE  e \in commits'[n] \/ \E r \in rows : r.epoch > e
    BY <2>1, ZenonT(30)
  <2>2. CASE CommitConfiguration(x, q.epoch)
    BY <2>2 DEF CommitConfiguration, TypeOK, NodeTypeOK
  <2>3. CASE CommittedAtLeast(x, q.epoch) /\ UNCHANGED nodeVars
    <3>1. UNCHANGED commits
      BY <2>3, Zenon DEF nodeVars, persistentVars
    <3>2. PICK f \in commits[n] : f >= e
      BY <2>3, Zenon DEF CommittedAtLeast
    <3>3. f \in Nat /\ e \in Nat /\ e >= 1
      BY DEF TypeOK, NodeTypeOK, Epoch
    <3>4. CASE f = e
      BY <3>1, <3>2, <3>4
    <3>5. CASE f > e
      <4>0. f > 1
        BY <3>3, <3>5
      <4>1. PICK r \in rows : r.epoch >= f
        BY <4>0, CommittedIsProposed
      <4>2. r.epoch \in Nat
        BY DEF TypeOK, NexusTypeOK, Row, Epoch
      <4> QED BY <3>3, <3>5, <4>1, <4>2
    <3> QED BY <3>2, <3>3, <3>4, <3>5
  <2> QED BY <2>1, <2>2, <2>3
<1>2. ASSUME NEW x \in Node, NodePrepareAndCommit(x)
      PROVE  <<n, e>> \in commitAcks \/ e \in commits'[n]
  <2>1. PICK f : commitAcks' = commitAcks \cup AckIfCommitted(x, f)
    BY <1>2, Zenon DEF NodePrepareAndCommit
  <2> QED BY <2>1, Zenon DEF AckIfCommitted
<1>3. CASE UNCHANGED commitAcks
  BY <1>3, Zenon
<1>4. \/ UNCHANGED commitAcks
      \/ \E x \in Node : NodeCommit(x) \/ NodePrepareAndCommit(x)
  <2>1. CASE UNCHANGED vars
    BY <2>1, Zenon DEF vars
  <2>2. ASSUME NEW x \in Node, NodeStep(x)
        PROVE  UNCHANGED commitAcks \/ NodeCommit(x) \/ NodePrepareAndCommit(x)
    BY <2>2, Zenon DEF NodeStep, nexusVars, LoadSecrets, NodeReconfigure
  <2>3. CASE NexusStep
    <3>1. ASSUME TqPropose
          PROVE  commitAcks' = commitAcks
      <4>1. PICK latest \in rows, lc \in rows :
              \E members \in ProposedMembers(lc) :
                \E coordinator \in members \cap InState(lc, "Committed") :
                  Propose(latest, lc, members, coordinator)
        BY <3>1, Zenon DEF TqPropose
      <4> QED BY <4>1, Zenon DEF Propose
    <3>2. ASSUME TqAbort \/ TqUpdateCommitStatus \/ TaskCommit
          PROVE  commitAcks' = commitAcks
      BY <3>2, Zenon DEF TqAbort, TqUpdateCommitStatus, TaskCommit
    <3>3. ASSUME NEW t \in Task, TaskLoad(t) \/ NexusPoll(t) \/ TaskFail(t)
          PROVE  UNCHANGED commitAcks
      BY <3>3, Zenon DEF TaskLoad, NexusPoll, TaskPoll, TaskFail
    <3>4. ASSUME NEW t \in Task, TaskUpdatePrepareStatus(t)
          PROVE  UNCHANGED commitAcks
      BY <3>4, Zenon DEF TaskUpdatePrepareStatus
    <3> QED BY <2>3, <3>1, <3>2, <3>3, <3>4 DEF NexusStep
  <2>4. CASE RssStepAction
    BY <2>4, Zenon DEF RssStepAction, RssReconfigure, RssCommitSelf, RssProxyCommit,
                RssHandoff, nexusVars
  <2> QED BY <2>1, <2>2, <2>3, <2>4 DEF Next
<1> QED BY <1>1, <1>2, <1>3, <1>4

LEMMA RecordedKept ==
  ASSUME TypeOK, RecordedIsCommitted, Grows,
         \A s \in rows' :
           \/ \E r \in rows : /\ s.epoch = r.epoch
                               /\ InState(s, "Committed") \subseteq InState(r, "Committed")
           \/ \A n \in InState(s, "Committed") : s.epoch \in commits'[n]
  PROVE  RecordedIsCommitted'
<1>1. \A r \in rows : InState(r, "Committed") \subseteq Node
  BY Zenon DEF TypeOK, NexusTypeOK, InState, Row
<1> SUFFICES ASSUME NEW s \in rows', NEW n \in InState(s, "Committed")
             PROVE  s.epoch \in commits'[n]
  BY Zenon DEF RecordedIsCommitted, InState
<1> QED BY <1>1, Zenon DEF RecordedIsCommitted, Grows

LEMMA CommitStatusRecorded ==
  ASSUME TypeOK, CommitInv, Grows, TqUpdateCommitStatus
  PROVE  RecordedIsCommitted'
<1>1. PICK r \in rows :
        \E acked \in SUBSET {n \in Node : <<n, r.epoch>> \in commitAcks} :
          /\ IsLatest(r)
          /\ rows' = (rows \ {r}) \cup {UpdateCommitStatus(r, acked)}
  BY Zenon DEF TqUpdateCommitStatus
<1>2. PICK acked \in SUBSET {n \in Node : <<n, r.epoch>> \in commitAcks} :
        /\ IsLatest(r)
        /\ rows' = (rows \ {r}) \cup {UpdateCommitStatus(r, acked)}
  BY <1>1
<1> DEFINE r2 == UpdateCommitStatus(r, acked)
<1>3. r \in Row
  BY Zenon DEF TypeOK, NexusTypeOK
<1>4. r2.epoch = r.epoch /\ r2.members = r.members
  BY <1>3, Zenon DEF UpdateCommitStatus, Row
<1>5. r2.mstate = [n \in Node |-> IF n \in r.members \cap acked
                                 THEN "Committed" ELSE r.mstate[n]]
  BY <1>3, Zenon DEF UpdateCommitStatus, Row
<1>6. InState(r2, "Committed") \subseteq InState(r, "Committed") \cup acked
  BY <1>3, <1>4, <1>5 DEF InState, Row
<1> HIDE DEF r2
<1>7. \A n \in acked : r.epoch \in commits[n]
  <2>1. \A s \in rows : s.epoch \in Int /\ r.epoch \in Int /\ s.epoch <= r.epoch
    BY <1>2 DEF IsLatest, TypeOK, NexusTypeOK, Row, Epoch
  <2>2. ~ \E s \in rows : s.epoch > r.epoch
    BY <2>1
  <2>3. r.epoch \in Epoch
    BY <1>3, Zenon DEF Row
  <2> QED BY ZenonT(30), <2>2, <2>3 DEF CommitInv, AckedCommits
<1>8. \A n \in InState(r2, "Committed") : r2.epoch \in commits'[n]
  <2>1. InState(r, "Committed") \subseteq Node
    BY <1>3, Zenon DEF InState, Row
  <2> QED BY <1>4, <1>6, <1>7, <2>1, Zenon DEF CommitInv, RecordedIsCommitted, Grows
<1>9. rows' = (rows \ {r}) \cup {r2}
  BY <1>2, Zenon DEF r2
<1> QED BY <1>8, <1>9, RecordedKept DEF CommitInv

LEMMA PrepareStatusRecorded ==
  ASSUME TypeOK, CommitInv, Grows, NEW t \in Task, TaskUpdatePrepareStatus(t)
  PROVE  RecordedIsCommitted'
<1>1. PICK r \in rows : \E st : rows' = (rows \ {r}) \cup {UpdatePrepareStatus(r, st)}
  BY Zenon DEF TaskUpdatePrepareStatus
<1>2. PICK st : rows' = (rows \ {r}) \cup {UpdatePrepareStatus(r, st)}
  BY <1>1, Zenon
<1> DEFINE r2 == UpdatePrepareStatus(r, st)
<1>3. r \in Row
  BY Zenon DEF TypeOK, NexusTypeOK
<1>4. /\ r2.epoch = r.epoch /\ r2.members = r.members
      /\ r2.mstate = AckPrepares(r, st.acks)
  BY <1>3, Zenon DEF UpdatePrepareStatus, Row
<1>5. InState(r2, "Committed") \subseteq InState(r, "Committed")
  BY <1>3, <1>4, Zenon DEF InState, AckPrepares, Row
<1> HIDE DEF r2
<1>6. rows' = (rows \ {r}) \cup {r2}
  BY <1>2, Zenon DEF r2
<1> QED BY <1>4, <1>5, <1>6, RecordedKept DEF CommitInv

LEMMA ProposeRecorded ==
  ASSUME TypeOK, CommitInv, Grows, TqPropose
  PROVE  RecordedIsCommitted'
<1>1. PICK latest \in rows, lc \in rows, members \in SUBSET Node, coordinator \in Node :
        rows' = (rows \ {lc}) \cup
          {CommitPartially(lc), NewRow(latest.epoch + 1, lc.epoch, members, coordinator)}
  BY ProposeFacts DEF TypeOK
<1> DEFINE new == NewRow(latest.epoch + 1, lc.epoch, members, coordinator)
           old == CommitPartially(lc)
<1>2. InState(new, "Committed") = {}
  BY Zenon DEF NewRow, InState
<1>3. old.epoch = lc.epoch /\ InState(old, "Committed") = InState(lc, "Committed")
  BY Zenon DEF CommitPartially, InState, TypeOK, NexusTypeOK, Row
<1>4. rows' = (rows \ {lc}) \cup {old, new}
  BY <1>1, Zenon
<1> HIDE DEF new, old
<1> QED BY <1>2, <1>3, <1>4, RecordedKept DEF CommitInv

LEMMA AbortRecorded ==
  ASSUME TypeOK, CommitInv, Grows, TqAbort
  PROVE  RecordedIsCommitted'
<1>1. PICK r \in rows : rows' = (rows \ {r}) \cup {[r EXCEPT !.state = "Aborted"]}
  BY Zenon DEF TqAbort
<1> DEFINE r2 == [r EXCEPT !.state = "Aborted"]
<1>2. r2.epoch = r.epoch /\ InState(r2, "Committed") = InState(r, "Committed")
  BY Zenon DEF InState, TypeOK, NexusTypeOK, Row
<1>3. rows' = (rows \ {r}) \cup {r2}
  BY <1>1, Zenon
<1> HIDE DEF r2
<1> QED BY <1>2, <1>3, RecordedKept, Zenon DEF CommitInv

LEMMA StepCommit ==
  ASSUME TypeOK, NodeDiskInv, AgreementInv, CommitInv, [Next]_vars
  PROVE  CommitInv'
<1>1. Grows
  BY StepNodeDisk, Zenon
<1>2. AckedCommits'
  BY <1>1, StepAgreement, NewAcks, AcksKept DEF CommitInv
<1>3. CASE UNCHANGED rows
  BY <1>1, <1>2, <1>3, RecordedKept DEF CommitInv
<1>4. CASE RssHandoff
  <2>1. PICK n \in InitialMembers : AllCommitted /\ rows' = {RssRow(InitialMembers, n)}
    BY <1>4, Zenon DEF RssHandoff
  <2> DEFINE r == RssRow(InitialMembers, n)
  <2>2. r.epoch = 1 /\ InState(r, "Committed") \subseteq InitialMembers
    BY Zenon DEF RssRow, InState
  <2>3. rows' = {r}
    BY <2>1, Zenon
  <2> HIDE DEF r
  <2>4. \A m \in InitialMembers : 1 \in commits'[m]
    BY <1>1, <2>1, InitialMembersAssumption DEF AllCommitted, Grows
  <2>5. RecordedIsCommitted'
    BY <1>1, <2>2, <2>3, <2>4, RecordedKept DEF CommitInv
  <2> QED BY <1>2, <2>5, Zenon DEF CommitInv
<1>5. CASE TqPropose \/ TqAbort \/ TqUpdateCommitStatus
             \/ \E t \in Task : TaskUpdatePrepareStatus(t)
  BY <1>1, <1>2, <1>5, ProposeRecorded, AbortRecorded, CommitStatusRecorded,
     PrepareStatusRecorded DEF CommitInv
<1>6. \/ UNCHANGED rows \/ RssHandoff
      \/ TqPropose \/ TqAbort \/ TqUpdateCommitStatus
      \/ \E t \in Task : TaskUpdatePrepareStatus(t)
  <2>1. CASE UNCHANGED vars
    BY <2>1, Zenon DEF vars
  <2>2. ASSUME NEW n \in Node, NodeStep(n)
        PROVE  UNCHANGED rows
    BY <2>2, Zenon DEF NodeStep, nexusVars, LoadSecrets, NodeReconfigure, NodeCommit,
                NodePrepareAndCommit
  <2>3. CASE NexusStep
    BY <2>3 DEF NexusStep, TaskCommit, TaskLoad, NexusPoll, TaskPoll, TaskFail
  <2>4. CASE RssStepAction
    BY <2>4, Zenon DEF RssStepAction, RssReconfigure, RssCommitSelf, RssProxyCommit, nexusVars
  <2> QED BY <2>1, <2>2, <2>3, <2>4 DEF Next
<1> QED BY <1>3, <1>4, <1>5, <1>6

LEMMA InitialCommit ==
  ASSUME Init \/ InitAfterHandoff
  PROVE  CommitInv
<1>1. CASE Init
  BY <1>1, Zenon DEF Init, CommitInv, AckedCommits, RecordedIsCommitted
<1>2. CASE InitAfterHandoff
  <2>1. PICK k \in InitialMembers :
          /\ commits = [n \in Node |-> IF n \in InitialMembers THEN {1} ELSE {}]
          /\ rows = {RssRow(InitialMembers, k)}
          /\ commitAcks = {}
    BY <1>2, Zenon DEF InitAfterHandoff
  <2> DEFINE r == RssRow(InitialMembers, k)
  <2>2. r.epoch = 1 /\ InState(r, "Committed") \subseteq InitialMembers
    BY Zenon DEF RssRow, InState
  <2>3. rows = {r}
    BY <2>1, Zenon
  <2> HIDE DEF r
  <2> QED BY <2>1, <2>2, <2>3, InitialMembersAssumption
          DEF CommitInv, AckedCommits, RecordedIsCommitted
<1> QED BY <1>1, <1>2

-----------------------------------------------------------------------------
(* The theorems, from an uninitialized rack or from one just handed off.    *)

(* Everything that carries a membership (ledgers, coordinators, messages,   *)
(* requests, rows and what background tasks hold) agrees on it per epoch,   *)
(* and acknowledged commits are commits unless overtaken.                   *)
THEOREM AgreementInvariant ==
  (Init \/ InitAfterHandoff) /\ [][Next]_vars => [](AgreementInv /\ CommitInv)
<1>1. Init \/ InitAfterHandoff => AgreementInv /\ CommitInv
  BY InitialAgreement, InitialCommit, Zenon
<1>2. TypeOK /\ NodeDiskInv /\ AgreementInv /\ CommitInv /\ [Next]_vars
        => AgreementInv' /\ CommitInv'
  BY StepAgreement, StepCommit
<1> QED BY <1>1, <1>2, NodeDiskInvariant, PTL

(* Every node that has stored a configuration for an epoch has the members  *)
(* and coordinator that Nexus recorded for it, whether the configuration    *)
(* came from a Prepare, a CommitAdvance or a PrepareAndCommit.              *)
THEOREM MembershipIsAlwaysTheSame ==
  (Init \/ InitAfterHandoff) /\ [][Next]_vars => []SameMembership
<1>1. TypeOK /\ AgreementInv => SameMembership
  <2> SUFFICES ASSUME TypeOK, AgreementInv, NEW n \in Node, NEW c \in configs[n],
                      NEW r \in rows, c.epoch = r.epoch
               PROVE  c.members = r.members /\ c.coordinator = r.coordinator
    BY Zenon DEF SameMembership
  <2>1. c \in Config /\ r \in Row
    BY Zenon DEF TypeOK, NodeTypeOK, NexusTypeOK
  <2>2. InUse(Header(c)) /\ InUse(Header(r))
    BY Zenon DEF InUse, InNodes, InNexus
  <2>3. Header(c) \in Headers /\ Header(r) \in Headers
    BY <2>1, Zenon DEF Header, Headers, Config, Row
  <2>4. Header(c) = Header(r)
    BY <2>2, <2>3, Zenon DEF AgreementInv, Header
  <2> QED BY <2>4, Zenon DEF Header
<1> QED BY <1>1, AgreementInvariant, TypeCorrect, PTL

(* A member that Nexus records as committed has committed that very epoch,  *)
(* although NodeTask::commit answers Ok for stale requests too, and those   *)
(* answers reach run_commit_ops arbitrarily late.                           *)
THEOREM RecordedIsAlwaysCommitted ==
  (Init \/ InitAfterHandoff) /\ [][Next]_vars => []RecordedIsCommitted
BY AgreementInvariant, PTL DEF CommitInv

=============================================================================
