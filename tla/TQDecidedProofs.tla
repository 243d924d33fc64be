-------------------------- MODULE TQDecidedProofs --------------------------
(***************************************************************************)
(* What is decided, and who is told: proofs, for every number of sleds,    *)
(* Nexus instances and epochs, that nodes commit only what Nexus decided   *)
(* on, that only removed nodes are expunged, and that neither coordinating *)
(* nor loading a secret is disturbed by what others do meanwhile.  In the  *)
(* end the whole system is shown to implement RackTrustQuorum.             *)
(*                                                                         *)
(* What is decided depends on Overtaking being FALSE: an activation of the *)
(* background task that awaits its coordinator is not overtaken by the     *)
(* operator's next proposal.  The run stale_epoch shows what happens       *)
(* otherwise.                                                              *)
(***************************************************************************)
EXTENDS TrustQuorumProofs

(* The types of the variables, one by one. *)
LEMMA NodeTypes ==
  TypeOK => /\ configs \in [Node -> SUBSET Config]
            /\ shares \in [Node -> SUBSET Epoch]
            /\ commits \in [Node -> SUBSET Epoch]
            /\ expunged \in [Node -> SUBSET Epoch]
            /\ coord \in [Node -> SUBSET CoordState]
            /\ ksc \in [Node -> SUBSET Collector]
            /\ collector \in [Node -> SUBSET Collector]
            /\ alarms \in [Node -> SUBSET Alarm]
            /\ msgs \in SUBSET PeerMsg
BY Zenon DEF TypeOK, NodeTypeOK

LEMMA NexusTypes ==
  TypeOK => /\ rows \in SUBSET Row
            /\ task \in [Task -> SUBSET Activation]
            /\ requests \in SUBSET Request
BY Zenon DEF TypeOK, NexusTypeOK

-----------------------------------------------------------------------------
(* The rows, in the whole system.                                           *)

RowsAdvanced == \A x \in rows : \E y \in rows' : Advances(x, y)

LEMMA RssRowInv ==
  ASSUME NEW r, r.epoch = 1, r.state = "Committed", rows = {r}
  PROVE  RowsInv
<1>1. Decided(r)
  BY Zenon DEF Decided
<1>2. ActiveIsLatest
  BY Zenon DEF ActiveIsLatest, IsActive
<1>3. ChainOfCommits
  BY DEF ChainOfCommits
<1> QED BY <1>1, <1>2, <1>3, Zenon DEF RowsInv

LEMMA RssRowInvNext ==
  ASSUME NEW r, r.epoch = 1, r.state = "Committed", rows' = {r}
  PROVE  RowsInv'
<1>1. Decided(r)
  BY Zenon DEF Decided
<1>2. ActiveIsLatest'
  BY Zenon DEF ActiveIsLatest, IsActive
<1>3. ChainOfCommits'
  BY DEF ChainOfCommits
<1> QED BY <1>1, <1>2, <1>3, Zenon DEF RowsInv

(* What can happen to the rows. *)
LEMMA RowSteps ==
  ASSUME [Next]_vars
  PROVE  \/ UNCHANGED rows \/ RssHandoff
         \/ TqPropose \/ TqAbort \/ TqUpdateCommitStatus
         \/ \E t \in Task : TaskUpdatePrepareStatus(t)
<1>1. CASE UNCHANGED vars
  BY <1>1, Zenon DEF vars
<1>2. ASSUME NEW n \in Node, NodeStep(n)
      PROVE  UNCHANGED rows
  BY <1>2, Zenon DEF NodeStep, nexusVars, LoadSecrets, NodeReconfigure, NodeCommit,
              NodePrepareAndCommit
<1>3. CASE NexusStep
  BY <1>3, Zenon DEF NexusStep, TaskCommit, TaskLoad, NexusPoll, TaskPoll, TaskFail
<1>4. CASE RssStepAction
  BY <1>4, Zenon DEF RssStepAction, RssReconfigure, RssCommitSelf, RssProxyCommit, nexusVars
<1> QED BY <1>1, <1>2, <1>3, <1>4, Zenon DEF Next

LEMMA StepRows ==
  ASSUME TypeOK, RowsInv, AgreementInv, [Next]_vars
  PROVE  RowsInv' /\ RowsAdvanced
<1>t. NexusTypeOK
  BY Zenon DEF TypeOK
<1> USE <1>t
<1>1. CASE UNCHANGED rows
  <2>1. \A x : Advances(x, x)
    BY Zenon DEF Advances
  <2> QED BY <1>1, <2>1, RowsUnchanged, Zenon DEF RowsAdvanced
<1>2. CASE RssHandoff
  <2>1. PICK n \in InitialMembers :
          rss = "Committing" /\ rows' = {RssRow(InitialMembers, n)}
    BY <1>2, Zenon DEF RssHandoff
  <2> DEFINE r == RssRow(InitialMembers, n)
  <2>2. r.epoch = 1 /\ r.state = "Committed" /\ rows' = {r}
    BY <2>1, Zenon DEF RssRow
  <2>3. rows = {}
    BY <2>1, Zenon DEF AgreementInv
  <2> HIDE DEF r
  <2> QED BY <2>2, <2>3, RssRowInvNext, Zenon DEF RowsAdvanced
<1>3. CASE TqPropose
  BY <1>3, ProposeRows, RowsAdvance, Zenon DEF RowsAdvanced
<1>4. CASE TqAbort
  BY <1>4, AbortRows, RowsAdvance, Zenon DEF RowsAdvanced
<1>5. CASE TqUpdateCommitStatus
  BY <1>5, CommitStatusRows, RowsAdvance, Zenon DEF RowsAdvanced
<1>6. ASSUME NEW t \in Task, TaskUpdatePrepareStatus(t)
      PROVE  RowsInv' /\ RowsAdvanced
  BY <1>6, PrepareStatusRows, RowsAdvance, Zenon DEF RowsAdvanced
<1> QED BY <1>1, <1>2, <1>3, <1>4, <1>5, <1>6, RowSteps, Zenon

LEMMA InitialRows ==
  ASSUME Init \/ InitAfterHandoff
  PROVE  RowsInv
<1>1. CASE Init
  BY <1>1, Zenon DEF Init, RowsInv, ActiveIsLatest, ChainOfCommits
<1>2. CASE InitAfterHandoff
  <2>1. PICK k \in InitialMembers : rows = {RssRow(InitialMembers, k)}
    BY <1>2, Zenon DEF InitAfterHandoff
  <2> DEFINE r == RssRow(InitialMembers, k)
  <2>2. r.epoch = 1 /\ r.state = "Committed" /\ rows = {r}
    BY <2>1, Zenon DEF RssRow
  <2> HIDE DEF r
  <2> QED BY <2>2, RssRowInv, Zenon
<1> QED BY <1>1, <1>2, Zenon

-----------------------------------------------------------------------------
(* The nodes, whatever the operator does.                                   *)

(* A request to coordinate names the epoch that its row builds on. *)
RequestsInv ==
  \A q \in requests :
    q.type = "Reconfigure" =>
      q.epoch > 1 /\ \E r \in rows : r.epoch = q.epoch /\ r.last = q.last

(* A node coordinates what names it as the coordinator and a member, and    *)
(* has committed what the row of that epoch builds on.                      *)
MayCoordinate(n, cs) ==
  /\ cs.config.coordinator = n
  /\ n \in cs.config.members
  /\ cs.config.epoch # 1 =>
       /\ cs.old \in commits[n]
       /\ \E r \in rows : r.epoch = cs.config.epoch /\ r.last = cs.old

CanPrepare(n, cs) ==
  cs.op = "CollectShares" =>
    OnDisk(n, cs.old) /\ ~ HasConfig(n, cs.config.epoch) /\ cs.config.secrets = {}

(* Only the coordinator of an epoch sends Prepare messages for it, and only *)
(* to others; whoever asks for shares of an epoch has its configuration.    *)
MaySend(m) ==
  /\ m.type = "Prepare" => m.from = m.config.coordinator /\ m.from \notin m.to
  /\ m.type = "GetShare" => HasConfig(m.from, m.epoch)

NodesInv ==
  /\ \A n \in Node : \A c \in configs[n] : n \in c.members
  /\ \A n \in Node : \A cs \in coord[n] : MayCoordinate(n, cs)
  /\ \A m \in msgs : MaySend(m)
  /\ CollectingCanPrepare
  /\ CommitNeverLost

SameHead(c, d) ==
  c.epoch = d.epoch /\ c.members = d.members /\ c.coordinator = d.coordinator

(* It is enough to look at what a step adds. *)
LEMMA NodesKept ==
  ASSUME TypeOK, NodesInv, Grows, RowsAdvanced,
         \A n \in Node : \A c \in configs'[n] : c \in configs[n] \/ n \in c.members,
         \A n \in Node : \A cs \in coord'[n] :
           \/ \E d \in coord[n] : SameHead(d.config, cs.config) /\ d.old = cs.old
           \/ MayCoordinate(n, cs)',
         \A m \in msgs' : m \in msgs \/ MaySend(m)',
         \A n \in Node : \A cs \in coord'[n] :
           \/ \E d \in coord[n] :
                /\ d.config = cs.config /\ d.old = cs.old /\ d.op = cs.op
                /\ HasConfig(n, cs.config.epoch)' => HasConfig(n, cs.config.epoch)
           \/ CanPrepare(n, cs)',
         \A n \in Node : \A k \in collector'[n] :
           (\E j \in collector[n] : j.config = k.config) \/ k.config.epoch \in commits'[n],
         \A n \in Node : \A x \in alarms'[n] : x \in alarms[n] \/ x # "CommittedConfigurationLost"
  PROVE  NodesInv'
<1>1. (\A n \in Node : \A c \in configs[n] : n \in c.members)'
  BY Zenon DEF NodesInv
<1>2. (\A n \in Node : \A cs \in coord[n] : MayCoordinate(n, cs))'
  <2>1. ASSUME NEW n \in Node, NEW cs, NEW d \in coord[n],
               SameHead(d.config, cs.config), d.old = cs.old
        PROVE  MayCoordinate(n, cs)'
    <3>1. MayCoordinate(n, d)
      BY Zenon DEF NodesInv
    <3>2. MayCoordinate(n, cs)
      BY <2>1, <3>1, Zenon DEF MayCoordinate, SameHead
    <3>3. \A r \in rows : \E s \in rows' : s.epoch = r.epoch /\ s.last = r.last
      BY ZenonT(30), Zenon DEF RowsAdvanced, Advances
    <3>4. cs.old \in commits[n] => cs.old \in commits'[n]
      BY Zenon DEF Grows
    <3>5. ASSUME NEW r \in rows, r.epoch = cs.config.epoch, r.last = cs.old
          PROVE  \E s \in rows' : s.epoch = cs.config.epoch /\ s.last = cs.old
      <4>1. PICK s \in rows' : s.epoch = r.epoch /\ s.last = r.last
        BY <3>3
      <4> QED BY <3>5, <4>1, Zenon
    <3> QED BY <3>2, <3>4, <3>5, Zenon DEF MayCoordinate
  <2> QED BY ZenonT(30), <2>1, Zenon
<1>3. (\A m \in msgs : MaySend(m))'
  <2>1. ASSUME NEW m \in msgs PROVE MaySend(m)'
    <3>1. MaySend(m)
      BY Zenon DEF NodesInv
    <3>2. m.type = "GetShare" => m.from \in Node
      BY MsgFields, NodeTypes, Zenon
    <3> QED BY <3>1, <3>2, DiskGrows, Zenon DEF MaySend
  <2> QED BY <2>1, Zenon
<1>4. CollectingCanPrepare'
  <2>1. ASSUME NEW n \in Node, NEW cs, NEW d \in coord[n],
               d.config = cs.config, d.old = cs.old, d.op = cs.op,
               HasConfig(n, cs.config.epoch)' => HasConfig(n, cs.config.epoch)
        PROVE  CanPrepare(n, cs)'
    <3>1. d.op = "CollectShares" => /\ OnDisk(n, d.old)
                                    /\ ~ HasConfig(n, d.config.epoch)
                                    /\ d.config.secrets = {}
      BY Zenon DEF NodesInv, CollectingCanPrepare
    <3>2. OnDisk(n, d.old) => OnDisk(n, d.old)'
      BY DiskGrows, Zenon
    <3>3. OnDisk(n, d.old)' <=> OnDisk(n, cs.old)'
      BY <2>1, Zenon
    <3>4. cs.op = "CollectShares" => /\ OnDisk(n, cs.old)'
                                     /\ ~ HasConfig(n, cs.config.epoch)
                                     /\ cs.config.secrets = {}
      BY <2>1, <3>1, <3>2, <3>3, Zenon
    <3> QED BY <2>1, <3>4, Zenon DEF CanPrepare
  <2>2. ASSUME NEW n \in Node, NEW cs \in coord'[n] PROVE CanPrepare(n, cs)'
    <3>1. CASE \E d \in coord[n] :
                 /\ d.config = cs.config /\ d.old = cs.old /\ d.op = cs.op
                 /\ HasConfig(n, cs.config.epoch)' => HasConfig(n, cs.config.epoch)
      BY <2>1, <3>1, Zenon
    <3> QED BY <3>1, Zenon
  <2> QED BY <2>2, Zenon DEF CollectingCanPrepare, CanPrepare
<1>5. CommitNeverLost'
  <2>1. \A n \in Node : "CommittedConfigurationLost" \notin alarms'[n]
    BY Zenon DEF NodesInv, CommitNeverLost
  <2>2. ASSUME NEW n \in Node, NEW k \in collector'[n] PROVE k.config.epoch \in commits'[n]
    <3>1. CASE \E j \in collector[n] : j.config = k.config
      <4>1. PICK j \in collector[n] : j.config = k.config
        BY <3>1
      <4>2. j.config.epoch \in commits[n]
        BY Zenon DEF NodesInv, CommitNeverLost
      <4> QED BY <4>1, <4>2, Zenon DEF Grows
    <3> QED BY <3>1, Zenon
  <2> QED BY <2>1, <2>2, Zenon DEF CommitNeverLost
<1> QED BY <1>1, <1>2, <1>3, <1>4, <1>5, Zenon DEF NodesInv

(* A node has committed the epoch, computes its share in order to commit,   *)
(* or was told by another node to do so.                                    *)
Going(e) ==
  \/ \E n \in Node : e \in commits[n] \/ \E k \in ksc[n] : k.config.epoch = e
  \/ \E m \in msgs : m.type = "CommitAdvance" /\ m.config.epoch = e

(* Of the epochs that are going, only f may be new. *)
GoingOnly(f) == \A e : Going(e)' => Going(e) \/ e = f

LEMMA GoingKept ==
  ASSUME NEW f,
         \A n \in Node : \A e \in commits'[n] : e \in commits[n] \/ Going(e) \/ e = f,
         \A n \in Node : \A k \in ksc'[n] :
           (\E j \in ksc[n] : j.config = k.config) \/ k.config.epoch = f,
         \A m \in msgs' : m \in msgs \/ m.type # "CommitAdvance" \/ Going(m.config.epoch)
  PROVE  GoingOnly(f)
<1> SUFFICES ASSUME NEW e, Going(e)' PROVE Going(e) \/ e = f
  BY Zenon DEF GoingOnly
<1>1. CASE \E n \in Node : e \in commits'[n]
  <2>1. (\E n \in Node : e \in commits[n]) => Going(e)
    BY Zenon DEF Going
  <2> QED BY <1>1, <2>1, Zenon
<1>2. CASE \E n \in Node : \E k \in ksc'[n] : k.config.epoch = e
  <2>0. PICK n \in Node : \E k \in ksc'[n] : k.config.epoch = e
    BY <1>2
  <2>1. PICK k \in ksc'[n] : k.config.epoch = e
    BY <2>0
  <2>2. ASSUME NEW j \in ksc[n], j.config = k.config PROVE Going(e)
    <3>1. j.config.epoch = e
      BY <2>1, <2>2, Zenon
    <3> QED BY <3>1, Zenon DEF Going
  <2> QED BY <2>1, <2>2, Zenon
<1>3. CASE \E m \in msgs' : m.type = "CommitAdvance" /\ m.config.epoch = e
  <2>1. PICK m \in msgs' : m.type = "CommitAdvance" /\ m.config.epoch = e
    BY <1>3
  <2>2. CASE m \in msgs
    BY <2>1, <2>2, Zenon DEF Going
  <2> QED BY <2>1, <2>2, Zenon
<1> QED BY <1>1, <1>2, <1>3, Zenon DEF Going

(* A coordinator never receives a Prepare for the epoch it coordinates.     *)
LEMMA PrepareFromAnother ==
  ASSUME TypeOK, AgreementInv, NodesInv, NEW n \in Node, NEW m \in msgs,
         m.type = "Prepare", n \in m.to, NEW cs \in coord[n]
  PROVE  m.config.epoch # cs.config.epoch
<1>1. m.config \in Config /\ cs.config \in Config
  <2>1. m.config \in Config
    BY MsgFields, NodeTypes, Zenon
  <2>2. cs \in CoordState
    BY NodeTypes, Zenon
  <2> QED BY <2>1, <2>2, Zenon DEF CoordState
<1>2. /\ Header(m.config) \in Headers /\ Header(cs.config) \in Headers
      /\ InUse(Header(m.config)) /\ InUse(Header(cs.config))
  <2>1. InUse(Header(m.config)) /\ InUse(Header(cs.config))
    BY Zenon DEF InUse, InNodes
  <2>2. Header(m.config) \in Headers /\ Header(cs.config) \in Headers
    BY <1>1, Zenon DEF Header, Headers, Config
  <2> QED BY <2>1, <2>2
<1>3. Header(m.config).epoch = m.config.epoch /\ Header(cs.config).epoch = cs.config.epoch
  BY Zenon DEF Header
<1>4. Header(m.config).coordinator = m.config.coordinator
      /\ Header(cs.config).coordinator = cs.config.coordinator
  BY Zenon DEF Header
<1>5. cs.config.coordinator = n
  BY Zenon DEF NodesInv, MayCoordinate
<1>6. m.config.coordinator # n
  BY Zenon DEF NodesInv, MaySend
<1> QED BY <1>2, <1>3, <1>4, <1>5, <1>6, Zenon DEF AgreementInv

LEMMA PrepareNodes ==
  ASSUME TypeOK, AgreementInv, NodesInv, Grows, RowsAdvanced,
         NEW n \in Node, NEW m \in msgs, m.type = "Prepare", n \in m.to,
         HandlePrepare(n, m)
  PROVE  NodesInv' /\ GoingOnly(1)
<1> USE NodeTypes
<1> DEFINE ack == [type |-> "PrepareAck", from |-> n, to |-> {m.from},
                   epoch |-> m.config.epoch]
<1>1. /\ configs' = [configs EXCEPT ![n] = InsertUnique(n, m.config)]
      /\ coord' = [coord EXCEPT ![n] = {cs \in @ : m.config.epoch <= cs.config.epoch}]
      /\ msgs' = msgs \cup {ack}
      /\ n \in m.config.members
      /\ UNCHANGED <<commits, ksc, alarms, collector>>
  BY Zenon DEF HandlePrepare, SavePrepare, Send, loaderVars
<1>2. ack.type = "PrepareAck"
  BY Zenon
<1> HIDE DEF ack
<1>3. \A x \in msgs' : x \in msgs \/ x.type = "PrepareAck"
  BY <1>1, <1>2, Zenon
<1>4. \A x \in Node : \A c \in configs'[x] : c \in configs[x] \/ (x = n /\ c = m.config)
  BY <1>1, Zenon DEF InsertUnique
<1>5. \A x \in Node : \A cs \in coord'[x] : cs \in coord[x]
  BY <1>1, Zenon
<1>6. \A x \in Node : \A cs \in coord'[x] :
        HasConfig(x, cs.config.epoch)' => HasConfig(x, cs.config.epoch)
  <2> SUFFICES ASSUME NEW x \in Node, NEW cs \in coord'[x], NEW c \in configs'[x],
                      c.epoch = cs.config.epoch
               PROVE  c \in configs[x]
    BY Zenon DEF HasConfig
  <2>1. ASSUME x = n, c = m.config PROVE FALSE
    <3>1. cs \in coord[n]
      BY <1>5, <2>1, Zenon
    <3>2. m.config.epoch # cs.config.epoch
      BY <3>1, PrepareFromAnother, Zenon
    <3> QED BY <2>1, <3>2, Zenon
  <2> QED BY <1>4, <2>1, Zenon
<1>7. GoingOnly(1)
  BY <1>1, <1>3, GoingKept, Zenon
<1>8. \A x \in msgs' : x \in msgs \/ MaySend(x)'
  BY <1>3, Zenon DEF MaySend
<1>9. \A x \in Node : \A c \in configs'[x] : c \in configs[x] \/ x \in c.members
  BY <1>1, <1>4, Zenon
<1>10. \A x \in Node : \A cs \in coord'[x] :
         \E d \in coord[x] : SameHead(d.config, cs.config) /\ d.old = cs.old
  BY <1>5, Zenon DEF SameHead
<1>11. \A x \in Node : \A cs \in coord'[x] :
         \E d \in coord[x] :
           /\ d.config = cs.config /\ d.old = cs.old /\ d.op = cs.op
           /\ HasConfig(x, cs.config.epoch)' => HasConfig(x, cs.config.epoch)
  BY <1>5, <1>6, Zenon
<1> QED BY <1>1, <1>7, <1>8, <1>9, <1>10, <1>11, NodesKept, Zenon

(* A coordinator that goes on with the same coordination. *)
LEMMA CoordinatingOn ==
  ASSUME TypeOK, NodesInv, Grows, RowsAdvanced,
         NEW n \in Node, NEW cs \in coord[n], NEW cs2,
         cs2.config = cs.config, cs2.old = cs.old, cs2.op = cs.op,
         coord' = [coord EXCEPT ![n] = {cs2}],
         UNCHANGED <<configs, msgs, alarms>>,
         \A x \in Node : \A k \in collector'[x] : \E j \in collector[x] : j.config = k.config
  PROVE  NodesInv'
<1>3. \A x \in Node : \A d \in coord'[x] : \E f \in coord[x] :
        f.config = d.config /\ f.old = d.old /\ f.op = d.op
  <2>1. \A x \in Node : \A d \in coord'[x] : d \in coord[x] \/ (x = n /\ d = cs2)
    BY NodeTypes, Zenon
  <2> QED BY <2>1, Zenon
<1>4. \A x, e : HasConfig(x, e)' => HasConfig(x, e)
  BY Zenon DEF HasConfig
<1>5. \A x \in Node : \A d \in coord'[x] :
        \E f \in coord[x] : SameHead(f.config, d.config) /\ f.old = d.old
  <2>1. \A c, d : c = d => SameHead(c, d)
    BY Zenon DEF SameHead
  <2> QED BY <1>3, <2>1, Zenon
<1>6. \A x \in Node : \A d \in coord'[x] : \E f \in coord[x] :
        /\ f.config = d.config /\ f.old = d.old /\ f.op = d.op
        /\ HasConfig(x, d.config.epoch)' => HasConfig(x, d.config.epoch)
  BY <1>3, <1>4, Zenon
<1> QED BY <1>5, <1>6, NodesKept, Zenon

LEMMA ReplyNodes ==
  ASSUME TypeOK, NodesInv, Grows, RowsAdvanced,
         NEW n \in Node, NEW cs \in coord[n], NEW S,
         coord' = [coord EXCEPT ![n] = {[cs EXCEPT !.replies = S]}],
         UNCHANGED <<configs, msgs, alarms>>,
         \A x \in Node : \A k \in collector'[x] : \E j \in collector[x] : j.config = k.config
  PROVE  NodesInv'
<1> DEFINE cs2 == [cs EXCEPT !.replies = S]
<1>1. cs2.config = cs.config /\ cs2.old = cs.old /\ cs2.op = cs.op
  BY DEF CoordState, TypeOK, NodeTypeOK
<1>2. coord' = [coord EXCEPT ![n] = {cs2}]
  BY Zenon
<1> HIDE DEF cs2
<1> QED BY <1>1, <1>2, CoordinatingOn, Zenon

LEMMA TransitionNodes ==
  ASSUME TypeOK, NodesInv, Grows, RowsAdvanced,
         NEW n \in Node, NEW cs \in coord[n], NEW old \in configs[n],
         TransitionToPreparing(n, cs, old),
         UNCHANGED <<commits, ksc, alarms>>,
         \A x \in Node : \A k \in collector'[x] : \E j \in collector[x] : j.config = k.config
  PROVE  NodesInv' /\ GoingOnly(1)
<1> USE NodeTypes
<1> DEFINE c == [cs.config EXCEPT !.secrets = old.secrets \cup {old.epoch}]
<1>1. /\ configs' = [configs EXCEPT ![n] = @ \cup {c}]
      /\ coord' = [coord EXCEPT ![n] = {Preparing(n, cs, c)}]
      /\ msgs' = msgs \cup {PrepareMsg(n, c)}
  BY Zenon DEF TransitionToPreparing, Send
<1>2. cs \in CoordState /\ cs.config \in Config
  BY DEF CoordState
<1>3. SameHead(cs.config, c)
  BY <1>2, Zenon DEF SameHead, Config
<1>4. MayCoordinate(n, cs)
  BY Zenon DEF NodesInv
<1>5. n \in c.members /\ c.coordinator = n
  BY <1>3, <1>4, Zenon DEF SameHead, MayCoordinate
<1> HIDE DEF c
<1>6. /\ Preparing(n, cs, c).config = c /\ Preparing(n, cs, c).old = cs.old
      /\ Preparing(n, cs, c).op = "Prepare"
  BY <1>2, Zenon DEF Preparing, CoordState
<1>7. /\ PrepareMsg(n, c).type = "Prepare" /\ PrepareMsg(n, c).from = n
      /\ PrepareMsg(n, c).to = c.members \ {n} /\ PrepareMsg(n, c).config = c
  BY Zenon DEF PrepareMsg
<1> DEFINE p == PrepareMsg(n, c)
           d2 == Preparing(n, cs, c)
<1> HIDE DEF p, d2
<1>8. \A x \in msgs' : x \in msgs \/ x = p
  BY <1>1, Zenon DEF p
<1>9. MaySend(p)' /\ p.type # "CommitAdvance"
  BY <1>5, <1>7, Zenon DEF MaySend, p
<1>10. \A x \in Node : \A d \in coord'[x] : d \in coord[x] \/ (x = n /\ d = d2)
  BY <1>1, Zenon DEF d2
<1>11. \A x \in Node : \A e \in configs'[x] : e \in configs[x] \/ (x = n /\ e = c)
  BY <1>1, Zenon
<1>12. d2.config = c /\ d2.old = cs.old /\ d2.op = "Prepare"
  BY <1>6, Zenon DEF d2
<1>13. GoingOnly(1)
  BY <1>8, <1>9, GoingKept, Zenon
<1>14. \A x \in Node : \A d \in coord'[x] :
         \E f \in coord[x] : SameHead(f.config, d.config) /\ f.old = d.old
  BY <1>3, <1>10, <1>12, Zenon DEF SameHead
<1>15. \A x \in Node : x # n => \A e : HasConfig(x, e)' => HasConfig(x, e)
  BY <1>11, Zenon DEF HasConfig
<1>16. \A d \in coord'[n] : d = d2
  BY <1>1, Zenon DEF d2
<1>17. CanPrepare(n, d2)'
  BY <1>12, Zenon DEF CanPrepare
<1>18. \A x \in Node : \A d \in coord'[x] :
         \/ \E f \in coord[x] :
              /\ f.config = d.config /\ f.old = d.old /\ f.op = d.op
              /\ HasConfig(x, d.config.epoch)' => HasConfig(x, d.config.epoch)
         \/ CanPrepare(x, d)'
  BY <1>10, <1>15, <1>16, <1>17, Zenon
<1>19. \A x \in Node : \A e \in configs'[x] : e \in configs[x] \/ x \in e.members
  BY <1>5, <1>11, Zenon
<1>20. \A x \in msgs' : x \in msgs \/ MaySend(x)'
  BY <1>8, <1>9, Zenon
<1> QED BY <1>13, <1>14, <1>18, <1>19, <1>20, NodesKept, Zenon

(* Nothing but subsets of what was there. *)
LEMMA LessNodes ==
  ASSUME TypeOK, NodesInv, Grows, RowsAdvanced,
         \A n \in Node : coord'[n] \subseteq coord[n],
         \A m \in msgs' : m \in msgs \/ MaySend(m)',
         \A n \in Node : \A k \in collector'[n] : \E j \in collector[n] : j.config = k.config,
         UNCHANGED <<configs, alarms>>
  PROVE  NodesInv'
<1>1. \A x, e : HasConfig(x, e)' => HasConfig(x, e)
  BY Zenon DEF HasConfig
<1>2. \A x \in Node : \A d \in coord'[x] :
        \E f \in coord[x] : SameHead(f.config, d.config) /\ f.old = d.old
  BY Zenon DEF SameHead
<1>3. \A x \in Node : \A d \in coord'[x] :
        \E f \in coord[x] :
          /\ f.config = d.config /\ f.old = d.old /\ f.op = d.op
          /\ HasConfig(x, d.config.epoch)' => HasConfig(x, d.config.epoch)
  BY <1>1, Zenon
<1> QED BY <1>2, <1>3, NodesKept, Zenon

LEMMA LoaderShareConfigs ==
  ASSUME TypeOK, NEW n \in Node, NEW m, LoaderHandleShare(n, m)
  PROVE  \A x \in Node : \A k \in collector'[x] : \E j \in collector[x] : j.config = k.config
<1> DEFINE new == {k \in collector[n] : /\ m.epoch \notin loaded[n]
                                        /\ NewShare(m, k.config, k.replies)}
           done == {k \in new : Cardinality(k.replies \cup {m.from})
                                  >= Threshold(k.config.members)}
           more == {[k EXCEPT !.replies = k.replies \cup {m.from}] : k \in new \ done}
<1>1. collector' = [collector EXCEPT ![n] = IF new = {} THEN @ ELSE more]
  BY Zenon DEF LoaderHandleShare
<1>2. new \subseteq collector[n] /\ new \subseteq Collector
  BY NodeTypes, Zenon
<1> HIDE DEF new
<1>3. \A k \in Collector : [k EXCEPT !.replies = k.replies \cup {m.from}].config = k.config
  BY DEF Collector
<1>4. \A k \in more : \E j \in collector[n] : j.config = k.config
  BY <1>2, <1>3, Zenon
<1> HIDE DEF more
<1> QED BY <1>1, <1>4, NodeTypes, Zenon

LEMMA ShareNodes ==
  ASSUME TypeOK, NodesInv, Grows, RowsAdvanced,
         NEW n \in Node, NEW m, HandleShare(n, m)
  PROVE  NodesInv' /\ GoingOnly(1)
<1> USE NodeTypes
<1>1. LoaderHandleShare(n, m) /\ UNCHANGED alarms
  BY Zenon DEF HandleShare
<1>2. \A x \in Node : \A k \in collector'[x] : \E j \in collector[x] : j.config = k.config
  BY <1>1, LoaderShareConfigs, Zenon
<1>3. CASE UNCHANGED <<coord, ksc, configs, commits, msgs>>
  <2>1. NodesInv'
    BY <1>1, <1>2, <1>3, LessNodes, Zenon
  <2>2. GoingOnly(1)
    BY <1>3, GoingKept, Zenon
  <2> QED BY <2>1, <2>2
<1>4. CASE CoordinatorHandleShare(n, m)
  <2>1. PICK cs \in coord[n] :
          /\ \/ \E old \in configs[n] :
                  LET got == cs.replies \cup {m.from} IN
                    \/ /\ coord' = [coord EXCEPT ![n] = {[cs EXCEPT !.replies = got]}]
                       /\ UNCHANGED <<configs, msgs>>
                    \/ TransitionToPreparing(n, cs, old)
             \/ UNCHANGED <<coord, configs, msgs>>
          /\ UNCHANGED <<commits, ksc>>
    BY <1>4, ZenonT(30) DEF CoordinatorHandleShare
  <2>2. CASE \E old \in configs[n] : TransitionToPreparing(n, cs, old)
    BY <1>1, <1>2, <2>1, <2>2, TransitionNodes, Zenon
  <2>3. CASE /\ coord' = [coord EXCEPT ![n] = {[cs EXCEPT !.replies = cs.replies \cup {m.from}]}]
             /\ UNCHANGED <<configs, msgs>>
    <3>1. NodesInv'
      BY <1>1, <1>2, <2>3, ReplyNodes, Zenon
    <3>2. GoingOnly(1)
      BY <2>1, <2>3, GoingKept, Zenon
    <3> QED BY <3>1, <3>2
  <2> QED BY <1>3, <2>1, <2>2, <2>3, Zenon
<1>5. CASE KscHandleShare(n, m)
  <2>1. PICK k \in ksc[n] :
          LET got == k.replies \cup {m.from} IN
            /\ \/ UNCHANGED <<ksc, shares, commits>>
               \/ /\ ksc' = [ksc EXCEPT ![n] = {[k EXCEPT !.replies = got]}]
                  /\ UNCHANGED <<shares, commits>>
               \/ /\ m.epoch = k.config.epoch
                  /\ ksc' = [ksc EXCEPT ![n] = {}]
                  /\ SaveComputedShare(n, m.epoch)
            /\ UNCHANGED <<coord, configs, msgs>>
    BY <1>5, Zenon DEF KscHandleShare, NewShare
  <2>2. NodesInv'
    BY <1>1, <1>2, <2>1, LessNodes, Zenon
  <2> DEFINE k2 == [k EXCEPT !.replies = k.replies \cup {m.from}]
  <2>3. k2.config = k.config
    BY DEF Collector
  <2>4. \A x \in Node : \A d \in ksc'[x] : \E j \in ksc[x] : j.config = d.config
    <3>1. \/ UNCHANGED ksc
          \/ ksc' = [ksc EXCEPT ![n] = {k2}]
          \/ ksc' = [ksc EXCEPT ![n] = {}]
      BY <2>1, Zenon
    <3> HIDE DEF k2
    <3>2. \A x \in Node : \A d \in ksc'[x] : d \in ksc[x] \/ (x = n /\ d = k2)
      BY <3>1, Zenon
    <3> QED BY <2>3, <3>2, Zenon
  <2>5. Going(k.config.epoch)
    BY Zenon DEF Going
  <2>6. \A x \in Node : \A e \in commits'[x] : e \in commits[x] \/ Going(e)
    <3>1. \/ UNCHANGED commits
          \/ commits' = [commits EXCEPT ![n] = @ \cup {k.config.epoch}]
      BY <2>1, Zenon DEF SaveComputedShare
    <3>2. \A x \in Node : \A e \in commits'[x] : e \in commits[x] \/ e = k.config.epoch
      BY <3>1, Zenon
    <3> QED BY <2>5, <3>2, Zenon
  <2>7. GoingOnly(1)
    BY <2>1, <2>4, <2>6, GoingKept, Zenon
  <2> QED BY <2>2, <2>7
<1> QED BY <1>3, <1>4, <1>5, Zenon DEF HandleShare

LEMMA GetShareNodes ==
  ASSUME TypeOK, NodesInv, Grows, RowsAdvanced,
         NEW n \in Node, NEW m \in msgs, HandleGetShare(n, m)
  PROVE  NodesInv' /\ GoingOnly(1)
<1>1. /\ msgs' = msgs \cup GetShareReplies(n, m.from, m.epoch)
      /\ UNCHANGED <<configs, commits, coord, ksc, alarms, collector>>
  BY ZenonT(30) DEF HandleGetShare, Send, persistentVars, loaderVars
<1>2. \A x \in GetShareReplies(n, m.from, m.epoch) :
        /\ x.type \in {"Expunged", "CommitAdvance", "Share"}
        /\ x.type = "CommitAdvance" =>
             \E c \in configs[n] : x.config = c /\ IsLatestCommittedConfig(n, c)
  BY DEF GetShareReplies
<1> HIDE DEF GetShareReplies
<1>3. \A x \in msgs' : x \in msgs \/ x.type \in {"Expunged", "CommitAdvance", "Share"}
  BY <1>1, <1>2, Zenon
<1>4. \A x \in msgs' : x \in msgs \/ MaySend(x)'
  BY <1>3, Zenon DEF MaySend
<1>5. NodesInv'
  BY <1>1, <1>4, LessNodes, Zenon
<1>6. \A x \in msgs' : x \in msgs \/ x.type # "CommitAdvance" \/ Going(x.config.epoch)
  BY <1>1, <1>2, Zenon DEF Going, IsLatestCommittedConfig
<1>7. GoingOnly(1)
  BY <1>1, <1>6, GoingKept, Zenon
<1> QED BY <1>5, <1>7

LEMMA AdvanceNodes ==
  ASSUME TypeOK, NodesInv, Grows, RowsAdvanced,
         NEW n \in Node, NEW c \in Config, HandleCommitAdvance(n, c)
  PROVE  NodesInv' /\ GoingOnly(c.epoch)
<1> USE NodeTypes
<1>1. n \in c.members /\ UNCHANGED collector
  BY Zenon DEF HandleCommitAdvance, loaderVars
<1>2. CASE AdvanceTo(n, c)
  <2> DEFINE k2 == [config |-> c, replies |-> {}]
             g == GetShareMsg(n, c)
  <2>1. /\ commits' = [commits EXCEPT ![n] = @ \cup {c.epoch}] \/ UNCHANGED commits
        /\ configs' = [configs EXCEPT ![n] = InsertUnique(n, c)]
        /\ coord' = [coord EXCEPT ![n] = StillCoordinating(n, c)]
        /\ msgs' = msgs \/ msgs' = msgs \cup {g}
        /\ UNCHANGED alarms
    BY <1>2, Zenon DEF AdvanceTo, Send
  <2>2. \/ ksc' = [ksc EXCEPT ![n] = {k \in ksc[n] : k.config.epoch > c.epoch}]
        \/ ksc' = [ksc EXCEPT ![n] = {k2}]
        \/ ksc' = [ksc EXCEPT ![n] = @]
    BY <1>2, Zenon DEF AdvanceTo
  <2>3. k2.config = c
    BY Zenon
  <2>4. g.type = "GetShare" /\ g.from = n /\ g.epoch = c.epoch
    BY Zenon DEF GetShareMsg
  <2> HIDE DEF k2, g
  <2>5. \A x \in Node : \A d \in configs'[x] : d \in configs[x] \/ (x = n /\ d = c)
    BY <2>1, Zenon DEF InsertUnique
  <2>6. HasConfig(n, c.epoch)'
    BY <2>1, Zenon DEF HasConfig, InsertUnique
  <2>7. MaySend(g)' /\ g.type # "CommitAdvance"
    BY <2>4, <2>6, Zenon DEF MaySend
  <2>8. \A x \in Node : \A cs \in coord'[x] :
          cs \in coord[x] /\ (x = n => cs.config.epoch # c.epoch)
    <3>1. \A cs \in StillCoordinating(n, c) : cs \in coord[n] /\ cs.config.epoch # c.epoch
      <4>1. \A cs \in coord[n] : cs.config.epoch \in Int /\ c.epoch \in Int
        BY DEF CoordState, Config, Epoch
      <4> QED BY <4>1 DEF StillCoordinating
    <3> HIDE DEF StillCoordinating
    <3> QED BY <2>1, <3>1, Zenon
  <2>9. \A x \in Node : \A cs \in coord'[x] :
          HasConfig(x, cs.config.epoch)' => HasConfig(x, cs.config.epoch)
    BY <2>5, <2>8, Zenon DEF HasConfig
  <2>10. \A x \in Node : \A k \in ksc'[x] :
           (\E j \in ksc[x] : j.config = k.config) \/ k.config.epoch = c.epoch
    BY <2>2, <2>3, Zenon
  <2>11. \A x \in Node : \A e \in commits'[x] : e \in commits[x] \/ e = c.epoch
    BY <2>1, Zenon
  <2>12. \A x \in msgs' : x \in msgs \/ x = g
    BY <2>1, Zenon
  <2>13. GoingOnly(c.epoch)
    BY <2>7, <2>10, <2>11, <2>12, GoingKept, Zenon
  <2>14. \A x \in Node : \A cs \in coord'[x] :
           \E d \in coord[x] : SameHead(d.config, cs.config) /\ d.old = cs.old
    BY <2>8, Zenon DEF SameHead
  <2>15. \A x \in Node : \A cs \in coord'[x] :
           \E d \in coord[x] :
             /\ d.config = cs.config /\ d.old = cs.old /\ d.op = cs.op
             /\ HasConfig(x, cs.config.epoch)' => HasConfig(x, cs.config.epoch)
    BY <2>8, <2>9, Zenon
  <2>16. \A x \in Node : \A d \in configs'[x] : d \in configs[x] \/ x \in d.members
    BY <1>1, <2>5, Zenon
  <2>17. \A x \in msgs' : x \in msgs \/ MaySend(x)'
    BY <2>7, <2>12, Zenon
  <2> QED BY <1>1, <2>1, <2>13, <2>14, <2>15, <2>16, <2>17, NodesKept, Zenon
<1>3. CASE /\ alarms' = [alarms EXCEPT ![n] = @ \cup {"MismatchedConfigurations"}]
           /\ UNCHANGED <<commits, configs, coord, ksc, msgs>>
  <2>1. \A x \in Node : \A y \in alarms'[x] : y \in alarms[x] \/ y = "MismatchedConfigurations"
    BY <1>3, Zenon
  <2>2. "MismatchedConfigurations" # "CommittedConfigurationLost"
    OBVIOUS
  <2>3. \A x \in Node : \A d \in coord'[x] :
          \E f \in coord[x] : SameHead(f.config, d.config) /\ f.old = d.old
    BY <1>3, Zenon DEF SameHead
  <2>4. \A x \in Node : \A d \in coord'[x] :
          \E f \in coord[x] :
            /\ f.config = d.config /\ f.old = d.old /\ f.op = d.op
            /\ HasConfig(x, d.config.epoch)' => HasConfig(x, d.config.epoch)
    BY <1>3, Zenon DEF HasConfig
  <2>5. GoingOnly(c.epoch)
    BY <1>3, GoingKept, Zenon
  <2> QED BY <1>1, <1>3, <2>1, <2>2, <2>3, <2>4, <2>5, NodesKept, Zenon
<1> QED BY <1>2, <1>3, Zenon DEF HandleCommitAdvance

LEMMA HandleNodes ==
  ASSUME TypeOK, AgreementInv, NodesInv, Grows, RowsAdvanced,
         NEW n \in Node, NEW m \in msgs, Handle(n, m)
  PROVE  NodesInv' /\ \E f : GoingOnly(f) /\ (f = 1 \/ Going(f))
<1>0. m \in PeerMsg /\ n \in m.to
  BY NodeTypes, Zenon DEF Handle
<1>1. CASE m.type = "Prepare" /\ HandlePrepare(n, m)
  BY <1>0, <1>1, PrepareNodes, Zenon
<1>2. CASE m.type = "PrepareAck" /\ HandlePrepareAck(n, m)
  <2>1. PICK cs \in coord[n] :
          /\ coord' = [coord EXCEPT ![n] = {[cs EXCEPT !.replies = @ \cup {m.from}]}]
          /\ UNCHANGED <<configs, commits, ksc, msgs, alarms, collector>>
    BY <1>2, Zenon DEF HandlePrepareAck, persistentVars, loaderVars
  <2>2. coord' = [coord EXCEPT ![n] = {[cs EXCEPT !.replies = cs.replies \cup {m.from}]}]
    BY <2>1, Zenon
  <2>3. NodesInv'
    BY <2>1, <2>2, ReplyNodes, Zenon
  <2>4. GoingOnly(1)
    BY <2>1, GoingKept, Zenon
  <2> QED BY <2>3, <2>4
<1>3. CASE m.type = "GetShare" /\ HandleGetShare(n, m)
  BY <1>3, GetShareNodes, Zenon
<1>4. CASE m.type = "Share" /\ HandleShare(n, m)
  BY <1>4, ShareNodes, Zenon
<1>5. CASE m.type = "Expunged" /\ HandleExpunged(n, m)
  <2>1. /\ coord' = [coord EXCEPT ![n] = {}]
        /\ ksc' = [ksc EXCEPT ![n] = {}]
        /\ UNCHANGED <<configs, commits, alarms, msgs, collector>>
    BY <1>5, Zenon DEF HandleExpunged, loaderVars
  <2>2. \A x \in Node : coord'[x] \subseteq coord[x] /\ ksc'[x] \subseteq ksc[x]
    BY <2>1, NodeTypes, Zenon
  <2>3. NodesInv'
    BY <2>1, <2>2, LessNodes, Zenon
  <2>4. GoingOnly(1)
    BY <2>1, <2>2, GoingKept, Zenon
  <2> QED BY <2>3, <2>4
<1>6. CASE m.type = "CommitAdvance" /\ HandleCommitAdvance(n, m.config)
  <2>1. m.config \in Config
    BY <1>0, <1>6, MsgFields, Zenon
  <2>2. Going(m.config.epoch)
    BY <1>6, Zenon DEF Going
  <2> QED BY <1>6, <2>1, <2>2, AdvanceNodes, Zenon
<1> QED BY <1>1, <1>2, <1>3, <1>4, <1>5, <1>6, Zenon DEF Handle

(* Only a request of rack setup is accepted by a node without commits; any  *)
(* other builds on what the node has committed.                             *)
LEMMA CoordinateNodes ==
  ASSUME TypeOK, NodeDiskInv, NodesInv, Grows, RowsAdvanced, NEW n \in Node, NEW m,
         m.epoch \in Epoch, m.last \in Epoch \cup {NoEpoch},
         CoordinateReconfiguration(n, m),
         \/ m.epoch = 1
         \/ m.last # NoEpoch /\ \E r \in rows : r.epoch = m.epoch /\ r.last = m.last
  PROVE  NodesInv' /\ GoingOnly(1)
<1> USE NodeTypes
<1> DEFINE c == NewConfiguration(n, m)
<1>1. /\ n \in m.members /\ IsLatestCommitted(n, m.last)
      /\ \A d \in configs[n] : d.epoch < m.epoch
      /\ ksc' = [ksc EXCEPT ![n] = {}]
      /\ UNCHANGED <<commits, alarms, collector>>
  BY Zenon DEF CoordinateReconfiguration, ValidReconfigureMsg, loaderVars
<1>2. /\ c.epoch = m.epoch /\ c.members = m.members /\ c.coordinator = n
      /\ c.secrets = {}
  BY Zenon DEF NewConfiguration
<1> HIDE DEF c
<1>3. \A x \in Node : ksc'[x] \subseteq ksc[x]
  BY <1>1, Zenon
<1>4. \A r \in rows : \E s \in rows' : s.epoch = r.epoch /\ s.last = r.last
  BY Zenon DEF RowsAdvanced, Advances
<1>5. CASE CoordinateUninitialized(n, m)
  <2> DEFINE cs == [config |-> c, old |-> NoEpoch, op |-> "Prepare", replies |-> {n}]
             p == PrepareMsg(n, c)
  <2>1. /\ commits[n] = {}
        /\ coord' = [coord EXCEPT ![n] = {cs}]
        /\ configs' = [configs EXCEPT ![n] = @ \cup {c}]
        /\ msgs' = msgs \cup {p}
    BY <1>5, Zenon DEF CoordinateUninitialized, Send, c
  <2>2. cs.config = c /\ cs.op = "Prepare"
    BY Zenon
  <2>3. p.type = "Prepare" /\ p.from = n /\ p.to = c.members \ {n} /\ p.config = c
    BY Zenon DEF PrepareMsg
  <2> HIDE DEF cs, p
  <2>4. c.epoch = 1
    BY <1>1, <1>2, <2>1, Zenon DEF IsLatestCommitted
  <2>5. MayCoordinate(n, cs)' /\ CanPrepare(n, cs)'
    BY <1>1, <1>2, <2>2, <2>4, Zenon DEF MayCoordinate, CanPrepare
  <2>6. MaySend(p)' /\ p.type # "CommitAdvance"
    BY <1>2, <2>3, Zenon DEF MaySend
  <2>7. \A x \in Node : \A d \in coord'[x] : (x # n /\ d \in coord[x]) \/ (x = n /\ d = cs)
    BY <2>1, Zenon
  <2>8. \A x \in Node : \A d \in configs'[x] : d \in configs[x] \/ (x = n /\ d = c)
    BY <2>1, Zenon
  <2>9. \A x \in msgs' : x \in msgs \/ x = p
    BY <2>1, Zenon
  <2>10. GoingOnly(1)
    BY <1>1, <1>3, <2>6, <2>9, GoingKept, Zenon
  <2>11. \A x \in Node : \A d \in coord'[x] :
           \/ \E f \in coord[x] : SameHead(f.config, d.config) /\ f.old = d.old
           \/ MayCoordinate(x, d)'
    BY <2>5, <2>7, Zenon DEF SameHead
  <2>12. \A x \in Node : x # n => \A e : HasConfig(x, e)' => HasConfig(x, e)
    BY <2>8, Zenon DEF HasConfig
  <2>13. \A x \in Node : \A d \in coord'[x] :
           \/ \E f \in coord[x] :
                /\ f.config = d.config /\ f.old = d.old /\ f.op = d.op
                /\ HasConfig(x, d.config.epoch)' => HasConfig(x, d.config.epoch)
           \/ CanPrepare(x, d)'
    BY <2>5, <2>7, <2>12, Zenon
  <2>14. \A x \in Node : \A d \in configs'[x] : d \in configs[x] \/ x \in d.members
    BY <1>1, <1>2, <2>8, Zenon
  <2>15. \A x \in msgs' : x \in msgs \/ MaySend(x)'
    BY <2>6, <2>9, Zenon
  <2> QED BY <1>1, <2>10, <2>11, <2>13, <2>14, <2>15, NodesKept, Zenon
<1>6. CASE CoordinateFromCommitted(n, m)
  <2> DEFINE cs == [config |-> c, old |-> m.last, op |-> "CollectShares", replies |-> {n}]
  <2>1. PICK old \in configs[n] :
          /\ commits[n] # {}
          /\ coord' = [coord EXCEPT ![n] = {cs}]
          /\ msgs' = msgs \cup {GetShareMsg(n, old)}
          /\ UNCHANGED configs
    BY <1>6, Zenon DEF CoordinateFromCommitted, Send, c
  <2> DEFINE g == GetShareMsg(n, old)
  <2>2. cs.config = c /\ cs.old = m.last
    BY Zenon
  <2>3. g.type = "GetShare" /\ g.from = n /\ g.epoch = old.epoch
    BY Zenon DEF GetShareMsg
  <2> HIDE DEF cs, g
  <2>4. m.last \in commits[n]
    BY <1>1, <2>1, Zenon DEF IsLatestCommitted
  <2>5. OnDisk(n, m.last)'
    BY <2>4, DiskGrows, Zenon DEF NodeDiskInv, CommittedIsPrepared
  <2>6. ~ HasConfig(n, c.epoch)'
    <3>1. \A d \in configs[n] : d.epoch \in Int /\ m.epoch \in Int
      BY DEF Config, Epoch
    <3>2. \A d \in configs[n] : d.epoch # m.epoch
      BY <1>1, <3>1
    <3> QED BY <1>2, <2>1, <3>2, Zenon DEF HasConfig
  <2>7. MayCoordinate(n, cs)'
    <3>1. m.epoch = 1 \/ \E s \in rows' : s.epoch = m.epoch /\ s.last = m.last
      BY <1>4, Zenon
    <3>2. m.last \in commits'[n]
      BY <1>1, <2>4, Zenon
    <3>3. /\ cs.config.coordinator = n /\ n \in cs.config.members
          /\ cs.config.epoch = m.epoch /\ cs.old = m.last
      BY <1>1, <1>2, <2>2, Zenon
    <3> QED BY <3>1, <3>2, <3>3, Zenon DEF MayCoordinate
  <2>8. CanPrepare(n, cs)'
    BY <1>2, <2>2, <2>5, <2>6, Zenon DEF CanPrepare
  <2>9. MaySend(g)' /\ g.type # "CommitAdvance"
    <3>1. HasConfig(n, old.epoch)'
      BY <2>1, Zenon DEF HasConfig
    <3> QED BY <2>3, <3>1, Zenon DEF MaySend
  <2>10. \A x \in Node : \A d \in coord'[x] : (x # n /\ d \in coord[x]) \/ (x = n /\ d = cs)
    BY <2>1, Zenon
  <2>11. \A x \in msgs' : x \in msgs \/ x = g
    BY <2>1, Zenon DEF g
  <2>12. GoingOnly(1)
    BY <1>1, <1>3, <2>9, <2>11, GoingKept, Zenon
  <2>13. \A x \in Node : \A d \in coord'[x] :
           \/ \E f \in coord[x] : SameHead(f.config, d.config) /\ f.old = d.old
           \/ MayCoordinate(x, d)'
    BY <2>7, <2>10, Zenon DEF SameHead
  <2>14. \A x \in Node : \A d \in coord'[x] :
           \/ \E f \in coord[x] :
                /\ f.config = d.config /\ f.old = d.old /\ f.op = d.op
                /\ HasConfig(x, d.config.epoch)' => HasConfig(x, d.config.epoch)
           \/ CanPrepare(x, d)'
    BY <2>1, <2>8, <2>10, Zenon DEF HasConfig
  <2>15. \A x \in msgs' : x \in msgs \/ MaySend(x)'
    BY <2>9, <2>11, Zenon
  <2> QED BY <1>1, <2>1, <2>12, <2>13, <2>14, <2>15, NodesKept, Zenon
<1> QED BY <1>5, <1>6, Zenon DEF CoordinateReconfiguration

LEMMA CommitNodes ==
  ASSUME TypeOK, NodesInv, Grows, RowsAdvanced,
         NEW n \in Node, NEW e, CommitConfiguration(n, e)
  PROVE  NodesInv' /\ GoingOnly(e)
<1>1. /\ commits' = [commits EXCEPT ![n] = @ \cup {e}]
      /\ coord' = [coord EXCEPT ![n] = {cs \in @ : cs.config.epoch # e}]
      /\ UNCHANGED <<configs, ksc, alarms, msgs, collector>>
  BY Zenon DEF CommitConfiguration, loaderVars
<1>2. \A x \in Node : coord'[x] \subseteq coord[x]
  BY <1>1, NodeTypes, Zenon
<1>3. \A x \in Node : \A f \in commits'[x] : f \in commits[x] \/ f = e
  BY <1>1, NodeTypes, Zenon
<1>4. NodesInv'
  BY <1>1, <1>2, LessNodes, Zenon
<1>5. GoingOnly(e)
  BY <1>1, <1>3, GoingKept, Zenon
<1> QED BY <1>4, <1>5

(* Whatever is being collected is committed, so it is not later than the    *)
(* latest committed configuration.                                          *)
LEMMA LoadNodes ==
  ASSUME TypeOK, NodesInv, Grows, RowsAdvanced,
         NEW n \in Node, NEW e \in Epoch, LoadRackSecret(n, e)
  PROVE  NodesInv' /\ GoingOnly(1)
<1> USE NodeTypes
<1>1. PICK c \in configs[n] :
        /\ IsLatestCommittedConfig(n, c)
        /\ \/ UNCHANGED collector
           \/ collector' = [collector EXCEPT ![n] = {[config |-> c, replies |-> {n}]}]
        /\ msgs' = msgs \/ msgs' = msgs \cup {GetShareMsg(n, c)}
        /\ alarms' = IF \E k \in collector[n] : k.config.epoch > c.epoch
                     THEN [alarms EXCEPT ![n] = @ \cup {"CommittedConfigurationLost"}]
                     ELSE alarms
        /\ UNCHANGED <<configs, commits, coord, ksc>>
  BY Zenon DEF LoadRackSecret, Send, persistentVars
<1>2. c.epoch \in commits[n] /\ \A f \in commits[n] : f <= c.epoch
  BY <1>1, Zenon DEF IsLatestCommittedConfig, IsLatestCommitted
<1>3. ~ \E k \in collector[n] : k.config.epoch > c.epoch
  <2>1. \A k \in collector[n] : k.config.epoch \in commits[n]
    BY Zenon DEF NodesInv, CommitNeverLost
  <2>2. \A f \in commits[n] : f \in Int /\ c.epoch \in Int
    BY <1>2 DEF Epoch
  <2> QED BY <1>2, <2>1, <2>2
<1>4. UNCHANGED alarms
  BY <1>1, <1>3, Zenon
<1> DEFINE g == GetShareMsg(n, c)
           k2 == [config |-> c, replies |-> {n}]
<1>5. g.type = "GetShare" /\ g.from = n /\ g.epoch = c.epoch
  BY Zenon DEF GetShareMsg
<1>6. k2.config = c
  BY Zenon
<1> HIDE DEF g, k2
<1>7. \A x \in msgs' : x \in msgs \/ x = g
  BY <1>1, Zenon DEF g
<1>8. MaySend(g)' /\ g.type # "CommitAdvance"
  BY <1>1, <1>5, Zenon DEF MaySend, HasConfig
<1>9. \A x \in Node : \A k \in collector'[x] :
        (\E j \in collector[x] : j.config = k.config) \/ k.config.epoch \in commits'[x]
  <2>1. UNCHANGED collector \/ collector' = [collector EXCEPT ![n] = {k2}]
    BY <1>1, Zenon DEF k2
  <2>2. \A x \in Node : \A k \in collector'[x] : k \in collector[x] \/ (x = n /\ k = k2)
    BY <2>1, Zenon
  <2> QED BY <1>1, <1>2, <1>6, <2>2, Zenon
<1>10. GoingOnly(1)
  BY <1>1, <1>7, <1>8, GoingKept, Zenon
<1>11. \A x \in Node : \A d \in coord'[x] :
         \E f \in coord[x] : SameHead(f.config, d.config) /\ f.old = d.old
  BY <1>1, Zenon DEF SameHead
<1>12. \A x \in Node : \A d \in coord'[x] :
         \E f \in coord[x] :
           /\ f.config = d.config /\ f.old = d.old /\ f.op = d.op
           /\ HasConfig(x, d.config.epoch)' => HasConfig(x, d.config.epoch)
  BY <1>1, Zenon DEF HasConfig
<1>13. \A x \in msgs' : x \in msgs \/ MaySend(x)'
  BY <1>7, <1>8, Zenon
<1> QED BY <1>1, <1>4, <1>9, <1>10, <1>11, <1>12, <1>13, NodesKept, Zenon

LEMMA ClearNodes ==
  ASSUME TypeOK, NodesInv, Grows, RowsAdvanced,
         UNCHANGED nodeVars \/ \E n \in Node : ClearSecrets(n) \/ Restart(n)
  PROVE  NodesInv' /\ GoingOnly(1)
<1>1. /\ UNCHANGED <<configs, commits, msgs, alarms>>
      /\ \A x \in Node : /\ coord'[x] \subseteq coord[x]
                         /\ ksc'[x] \subseteq ksc[x]
                         /\ collector'[x] \subseteq collector[x]
  <2>1. CASE UNCHANGED nodeVars
    BY <2>1, Zenon DEF nodeVars, persistentVars, loaderVars
  <2>2. ASSUME NEW n \in Node, ClearSecrets(n)
        PROVE  /\ UNCHANGED <<configs, commits, msgs, alarms>>
               /\ \A x \in Node : /\ coord'[x] \subseteq coord[x]
                                  /\ ksc'[x] \subseteq ksc[x]
                                  /\ collector'[x] \subseteq collector[x]
    BY <2>2, NodeTypes, Zenon DEF ClearSecrets, persistentVars
  <2>3. ASSUME NEW n \in Node, Restart(n)
        PROVE  /\ UNCHANGED <<configs, commits, msgs, alarms>>
               /\ \A x \in Node : /\ coord'[x] \subseteq coord[x]
                                  /\ ksc'[x] \subseteq ksc[x]
                                  /\ collector'[x] \subseteq collector[x]
    <3>1. /\ coord' = [coord EXCEPT ![n] = {}]
          /\ ksc' = [ksc EXCEPT ![n] = {}]
          /\ collector' = [collector EXCEPT ![n] = {}]
          /\ UNCHANGED <<configs, commits, msgs, alarms>>
      BY <2>3, Zenon DEF Restart, persistentVars
    <3>2. \A x \in Node : coord'[x] \subseteq coord[x]
      BY <3>1, NodeTypes, Zenon
    <3>3. \A x \in Node : ksc'[x] \subseteq ksc[x] /\ collector'[x] \subseteq collector[x]
      BY <3>1, NodeTypes, Zenon
    <3> QED BY <3>1, <3>2, <3>3, Zenon
  <2> QED BY <2>1, <2>2, <2>3, Zenon
<1>2. NodesInv'
  BY <1>1, LessNodes, Zenon
<1>3. GoingOnly(1)
  BY <1>1, GoingKept, Zenon
<1> QED BY <1>2, <1>3

-----------------------------------------------------------------------------
(* NodesInv is inductive.                                                   *)

(* Nexus told a node to commit the epoch. *)
Asked(e) ==
  \E q \in requests : \/ q.type = "Commit" /\ q.epoch = e
                      \/ q.type = "PrepareAndCommit" /\ q.config.epoch = e

(* What a node is going to commit it was asked to, by Nexus, by another     *)
(* node, or by rack setup.                                                  *)
NothingElseGoing == \A e : Going(e)' => Going(e) \/ Asked(e) \/ e = 1

LEMMA NodeStepNodes ==
  ASSUME TypeOK, NodeDiskInv, AgreementInv, RowsInv, RequestsInv, NodesInv,
         Grows, RowsAdvanced, NEW n \in Node, NodeStep(n)
  PROVE  NodesInv' /\ NothingElseGoing
<1>1. CASE HandlePeerMsg(n)
  <2>1. PICK m \in msgs : Handle(n, m)
    BY <1>1, Zenon DEF HandlePeerMsg
  <2> QED BY <2>1, HandleNodes, Zenon DEF GoingOnly, NothingElseGoing
<1>2. CASE Restart(n) \/ ClearSecrets(n)
  BY <1>2, ClearNodes, Zenon DEF GoingOnly, NothingElseGoing
<1>3. CASE LoadSecrets(n)
  BY <1>3, LoadNodes, Zenon DEF LoadSecrets, GoingOnly, NothingElseGoing
<1>4. CASE NodeReconfigure(n)
  <2>1. PICK q \in requests : q.type = "Reconfigure" /\ CoordinateReconfiguration(n, q)
    BY <1>4, Zenon DEF NodeReconfigure
  <2>2. q.epoch \in Epoch /\ q.last \in Epoch \cup {NoEpoch}
    BY <2>1, RequestFields, NexusTypes, Zenon
  <2>3. PICK r \in rows : r.epoch = q.epoch /\ r.last = q.last /\ q.epoch > 1
    BY <2>1, Zenon DEF RequestsInv
  <2>4. PICK s \in rows : s.epoch = r.last
    BY <2>3, Zenon DEF RowsInv, ChainOfCommits
  <2>5. s.epoch \in Epoch
    BY NexusTypes, Zenon DEF Row
  <2>6. q.last # NoEpoch
    BY <2>3, <2>4, <2>5 DEF Epoch, NoEpoch
  <2>7. NodesInv' /\ GoingOnly(1)
    BY <2>1, <2>2, <2>3, <2>6, CoordinateNodes, Zenon
  <2> QED BY <2>7, Zenon DEF GoingOnly, NothingElseGoing
<1>5. CASE NodeCommit(n)
  <2>1. PICK q \in requests :
          q.type = "Commit" /\ (CommitConfiguration(n, q.epoch) \/ UNCHANGED nodeVars)
    BY <1>5, Zenon DEF NodeCommit
  <2>2. Asked(q.epoch)
    BY <2>1, Zenon DEF Asked
  <2>3. CASE CommitConfiguration(n, q.epoch)
    BY <2>2, <2>3, CommitNodes, Zenon DEF GoingOnly, NothingElseGoing
  <2>4. CASE UNCHANGED nodeVars
    BY <2>4, ClearNodes, Zenon DEF GoingOnly, NothingElseGoing
  <2> QED BY <2>1, <2>3, <2>4, Zenon
<1>6. CASE NodePrepareAndCommit(n)
  <2>1. PICK q \in requests :
          q.type = "PrepareAndCommit" /\ (PrepareAndCommit(n, q.config) \/ UNCHANGED nodeVars)
    BY <1>6, Zenon DEF NodePrepareAndCommit
  <2>2. Asked(q.config.epoch) /\ q.config \in Config
    BY <2>1, RequestFields, NexusTypes, Zenon DEF Asked
  <2>3. CASE PrepareAndCommit(n, q.config)
    BY <2>2, <2>3, AdvanceNodes, Zenon DEF PrepareAndCommit, GoingOnly, NothingElseGoing
  <2>4. CASE UNCHANGED nodeVars
    BY <2>4, ClearNodes, Zenon DEF GoingOnly, NothingElseGoing
  <2> QED BY <2>1, <2>3, <2>4, Zenon
<1> QED BY <1>1, <1>2, <1>3, <1>4, <1>5, <1>6, Zenon DEF NodeStep

LEMMA StepNodes ==
  ASSUME TypeOK, NodeDiskInv, AgreementInv, RowsInv, RequestsInv, NodesInv, [Next]_vars
  PROVE  NodesInv' /\ NothingElseGoing
<1>1. Grows
  BY StepNodeDisk, Zenon
<1>2. RowsAdvanced
  BY StepRows, Zenon
<1>3. ASSUME NEW n \in Node, NodeStep(n)
      PROVE  NodesInv' /\ NothingElseGoing
  BY <1>1, <1>2, <1>3, NodeStepNodes, Zenon
<1>4. CASE UNCHANGED nodeVars
  BY <1>1, <1>2, <1>4, ClearNodes, Zenon DEF GoingOnly, NothingElseGoing
<1>5. ASSUME NEW n \in Node, RssReconfigure(n)
      PROVE  NodesInv' /\ NothingElseGoing
  <2> DEFINE m == RssReconfigureMsg
  <2>1. m.epoch = 1 /\ m.last = NoEpoch
    BY Zenon DEF RssReconfigureMsg
  <2>2. CoordinateReconfiguration(n, m)
    BY <1>5, Zenon DEF RssReconfigure
  <2> HIDE DEF m
  <2>3. m.epoch \in Epoch /\ m.last \in Epoch \cup {NoEpoch}
    BY <2>1, OneIsEpoch, Zenon
  <2>4. NodesInv' /\ GoingOnly(1)
    BY <1>1, <1>2, <2>1, <2>2, <2>3, CoordinateNodes, Zenon
  <2> QED BY <2>4, Zenon DEF GoingOnly, NothingElseGoing
<1>6. ASSUME NEW n \in Node, RssCommitSelf(n) \/ RssProxyCommit(n)
      PROVE  NodesInv' /\ NothingElseGoing
  <2>1. CommitConfiguration(n, 1)
    BY <1>6, Zenon DEF RssCommitSelf, RssProxyCommit
  <2>2. NodesInv' /\ GoingOnly(1)
    BY <1>1, <1>2, <2>1, CommitNodes, Zenon
  <2> QED BY <2>2, Zenon DEF GoingOnly, NothingElseGoing
<1>7. UNCHANGED vars \/ NexusStep \/ RssHandoff => UNCHANGED nodeVars
  <2>1. UNCHANGED vars => UNCHANGED nodeVars
    BY Zenon DEF vars, nodeVars, persistentVars, loaderVars
  <2>2. NexusStep => UNCHANGED nodeVars
    BY Zenon DEF NexusStep, NexusPoll
  <2>3. RssHandoff => UNCHANGED nodeVars
    BY Zenon DEF RssHandoff
  <2> QED BY <2>1, <2>2, <2>3, Zenon
<1> QED BY <1>3, <1>4, <1>5, <1>6, <1>7, Zenon DEF Next, RssStepAction

(* Who may be asked to do what. *)
LEMMA RequestSteps ==
  ASSUME [Next]_vars
  PROVE  \/ requests' \subseteq requests
         \/ TqPropose
         \/ \E r \in rows : r.state = "Committing" /\ requests' = requests \cup CommitOps(r)
         \/ \E t \in Task : TaskUpdatePrepareStatus(t)
<1>1. CASE UNCHANGED vars
  BY <1>1, Zenon DEF vars
<1>2. ASSUME NEW n \in Node, NodeStep(n)
      PROVE  requests' \subseteq requests
  BY <1>2, Zenon DEF NodeStep, nexusVars, LoadSecrets, NodeReconfigure, NodeCommit,
              NodePrepareAndCommit
<1>3. CASE NexusStep
  <2>1. TqAbort \/ TqUpdateCommitStatus => UNCHANGED requests
    BY Zenon DEF TqAbort, TqUpdateCommitStatus
  <2>2. TaskCommit =>
          \E r \in rows : r.state = "Committing" /\ requests' = requests \cup CommitOps(r)
    BY Zenon DEF TaskCommit
  <2>3. \A t \in Task : TaskLoad(t) \/ NexusPoll(t) \/ TaskFail(t) => UNCHANGED requests
    BY Zenon DEF TaskLoad, NexusPoll, TaskPoll, TaskFail
  <2> QED BY <1>3, <2>1, <2>2, <2>3, Zenon DEF NexusStep
<1>4. CASE RssStepAction
  BY <1>4, Zenon DEF RssStepAction, RssReconfigure, RssCommitSelf, RssProxyCommit,
              RssHandoff, nexusVars
<1> QED BY <1>1, <1>2, <1>3, <1>4, Zenon DEF Next

LEMMA StepRequests ==
  ASSUME TypeOK, RequestsInv, RowsAdvanced, [Next]_vars
  PROVE  RequestsInv'
<1>1. \A r \in rows : \E s \in rows' : s.epoch = r.epoch /\ s.last = r.last
  BY Zenon DEF RowsAdvanced, Advances
<1>2. CASE \A q \in requests' : q \in requests \/ q.type # "Reconfigure"
  <2> SUFFICES ASSUME NEW q \in requests', q.type = "Reconfigure"
               PROVE  q.epoch > 1 /\ \E r \in rows' : r.epoch = q.epoch /\ r.last = q.last
    BY Zenon DEF RequestsInv
  <2>1. q.epoch > 1 /\ \E r \in rows : r.epoch = q.epoch /\ r.last = q.last
    BY <1>2, Zenon DEF RequestsInv
  <2> QED BY <1>1, <2>1, Zenon
<1>3. CASE TqPropose
  <2>1. PICK latest \in rows, lc \in rows, members \in SUBSET Node, coordinator \in Node :
          LET new == NewRow(latest.epoch + 1, lc.epoch, members, coordinator) IN
            /\ rows' = (rows \ {lc}) \cup {CommitPartially(lc), new}
            /\ requests' = requests \cup
                 {[type |-> "Reconfigure", to |-> coordinator,
                   epoch |-> latest.epoch + 1, last |-> lc.epoch,
                   members |-> members]}
    BY <1>3, ProposeFacts, Zenon DEF TypeOK
  <2> DEFINE new == NewRow(latest.epoch + 1, lc.epoch, members, coordinator)
             q2 == [type |-> "Reconfigure", to |-> coordinator,
                    epoch |-> latest.epoch + 1, last |-> lc.epoch,
                    members |-> members]
  <2>2. /\ new \in rows' /\ new.epoch = latest.epoch + 1 /\ new.last = lc.epoch
        /\ q2.epoch = latest.epoch + 1 /\ q2.last = lc.epoch
    BY <2>1, Zenon DEF NewRow
  <2>3. latest.epoch + 1 > 1
    BY DEF TypeOK, NexusTypeOK, Row, Epoch
  <2>4. requests' = requests \cup {q2}
    BY <2>1, Zenon
  <2> HIDE DEF new, q2
  <2> SUFFICES ASSUME NEW q \in requests', q.type = "Reconfigure"
               PROVE  q.epoch > 1 /\ \E r \in rows' : r.epoch = q.epoch /\ r.last = q.last
    BY Zenon DEF RequestsInv
  <2>5. CASE q \in requests
    <3>1. q.epoch > 1 /\ \E r \in rows : r.epoch = q.epoch /\ r.last = q.last
      BY <2>5, Zenon DEF RequestsInv
    <3> QED BY <1>1, <3>1, Zenon
  <2>6. CASE q = q2
    BY <2>2, <2>3, <2>6, Zenon
  <2> QED BY <2>4, <2>5, <2>6, Zenon
<1>4. ASSUME NEW r, requests' \subseteq requests \cup CommitOps(r)
      PROVE  RequestsInv'
  BY <1>2, <1>4, CommitOpsHeaders, Zenon
<1>5. ASSUME NEW t \in Task, TaskUpdatePrepareStatus(t)
      PROVE  RequestsInv'
  <2>1. PICK a \in task[t] : requests' \subseteq requests \cup CommitOps(a.row)
    BY <1>5, Zenon DEF TaskUpdatePrepareStatus
  <2> QED BY <2>1, <1>4, Zenon
<1> QED BY <1>2, <1>3, <1>4, <1>5, RequestSteps, Zenon

LEMMA InitialNodes ==
  ASSUME Init \/ InitAfterHandoff
  PROVE  NodesInv /\ RequestsInv
<1>1. CASE Init
  BY <1>1, Zenon DEF Init, NodesInv, RequestsInv, CollectingCanPrepare, CommitNeverLost
<1>2. CASE InitAfterHandoff
  <2> DEFINE one(n, v) == IF n \in InitialMembers THEN {v} ELSE {}
             cfg(k) == [epoch |-> 1, members |-> InitialMembers, coordinator |-> k,
                        secrets |-> {}]
  <2>1. PICK k \in InitialMembers :
          /\ configs   = [n \in Node |-> one(n, cfg(k))]
          /\ coord     = [n \in Node |-> {}]
          /\ collector = [n \in Node |-> {}]
          /\ alarms    = [n \in Node |-> {}]
          /\ msgs      = {}
          /\ requests  = {}
    BY <1>2, Zenon DEF InitAfterHandoff
  <2>2. cfg(k).members = InitialMembers
    BY Zenon
  <2> HIDE DEF cfg
  <2>3. \A n \in Node : \A c \in configs[n] : n \in c.members
    BY <2>1, <2>2, Zenon
  <2> QED
    BY <2>1, <2>3, Zenon DEF NodesInv, RequestsInv, CollectingCanPrepare, CommitNeverLost
<1> QED BY <1>1, <1>2, Zenon

(* Rows form one chain of decided configurations; coordinators coordinate   *)
(* what was proposed to them, on top of what they committed; and what a     *)
(* node coordinates, collects and asks for is backed by its ledgers.        *)
THEOREM NodesInvariant ==
  (Init \/ InitAfterHandoff) /\ [][Next]_vars => [](RowsInv /\ RequestsInv /\ NodesInv)
<1>1. Init \/ InitAfterHandoff => RowsInv /\ RequestsInv /\ NodesInv
  BY InitialRows, InitialNodes, Zenon
<1>2. TypeOK /\ NodeDiskInv /\ AgreementInv /\ RowsInv /\ RequestsInv /\ NodesInv /\ [Next]_vars
        => RowsInv' /\ RequestsInv' /\ NodesInv'
  BY StepRows, StepRequests, StepNodes, Zenon
<1> QED BY <1>1, <1>2, NodeDiskInvariant, AgreementInvariant, PTL

(* While a coordinator collects old shares nothing that other nodes or      *)
(* Nexus do makes transition_to_preparing panic.                            *)
THEOREM CollectingAlwaysCanPrepare ==
  (Init \/ InitAfterHandoff) /\ [][Next]_vars => []CollectingCanPrepare
<1>1. NodesInv => CollectingCanPrepare
  BY Zenon DEF NodesInv
<1> QED BY <1>1, NodesInvariant, PTL

(* The rack secret loader never finds its commit lost. *)
THEOREM CommitIsNeverLost ==
  (Init \/ InitAfterHandoff) /\ [][Next]_vars => []CommitNeverLost
<1>1. NodesInv => CommitNeverLost
  BY Zenon DEF NodesInv
<1> QED BY <1>1, NodesInvariant, PTL

-----------------------------------------------------------------------------
(* What is decided, without overtaking.                                     *)

(* Nexus decided on the epoch, or rack setup did. *)
DecidedEpoch(e) == e = 1 \/ \E r \in rows : r.epoch = e /\ Decided(r)

(* What an activation loaded is still a row; it is the latest one until the *)
(* coordinator has answered, and the answer is about none later.            *)
TaskInv ==
  \A t \in Task : \A a \in task[t] :
    /\ \E r \in rows : r.epoch = a.row.epoch
    /\ a.status = {} => \A r \in rows : r.epoch <= a.row.epoch
    /\ \A st \in a.status : st.config.epoch <= a.row.epoch

DecidedInv ==
  /\ \A e : Going(e) \/ Asked(e) => DecidedEpoch(e)
  /\ TaskInv

LEMMA DecidedStays ==
  ASSUME RowsAdvanced, NEW e, DecidedEpoch(e)
  PROVE  DecidedEpoch(e)'
<1>1. ASSUME NEW r \in rows, r.epoch = e, Decided(r)
      PROVE  \E s \in rows' : s.epoch = e /\ Decided(s)
  <2>1. PICK s \in rows' : Advances(r, s)
    BY Zenon DEF RowsAdvanced
  <2>2. s.epoch = e /\ Decided(s)
    BY <1>1, <2>1, Zenon DEF Advances
  <2> QED BY <2>2
<1>2. (e = 1 \/ \E s \in rows' : s.epoch = e /\ Decided(s)) => DecidedEpoch(e)'
  BY Zenon DEF DecidedEpoch, Decided
<1> QED BY <1>1, <1>2, Zenon DEF DecidedEpoch

(* It is enough to look at new activations and rows. *)
LEMMA TaskKept ==
  ASSUME TypeOK, TaskInv, RowsKept,
         \A t \in Task : \A a \in task'[t] : a \in task[t],
         \A s \in rows' : \/ \E r \in rows : s.epoch = r.epoch
                          \/ \A t \in Task : \A a \in task[t] : a.status # {}
  PROVE  TaskInv'
BY Zenon DEF TaskInv, RowsKept

LEMMA ReplaceEpoch ==
  ASSUME NEW r \in rows, NEW r2, r2.epoch = r.epoch, rows' = (rows \ {r}) \cup {r2}
  PROVE  \A s \in rows' : \E x \in rows : s.epoch = x.epoch
BY Zenon

LEMMA UpdatedEpochs ==
  ASSUME TypeOK, TqAbort \/ TqUpdateCommitStatus
                   \/ \E t \in Task : TaskUpdatePrepareStatus(t)
  PROVE  \A s \in rows' : \E x \in rows : s.epoch = x.epoch
<1>0. \A r \in rows : r \in Row
  BY NexusTypes, Zenon
<1>1. CASE TqAbort
  <2>1. PICK r \in rows : rows' = (rows \ {r}) \cup {[r EXCEPT !.state = "Aborted"]}
    BY <1>1, Zenon DEF TqAbort
  <2>2. [r EXCEPT !.state = "Aborted"].epoch = r.epoch
    BY <1>0, Zenon DEF Row
  <2> QED BY <2>1, <2>2, ReplaceEpoch, Zenon
<1>2. CASE TqUpdateCommitStatus
  <2>1. PICK r \in rows : \E S : rows' = (rows \ {r}) \cup {UpdateCommitStatus(r, S)}
    BY <1>2, Zenon DEF TqUpdateCommitStatus
  <2>2. \A S : UpdateCommitStatus(r, S).epoch = r.epoch
    BY <1>0, Zenon DEF UpdateCommitStatus, Row
  <2> QED BY <2>1, <2>2, ReplaceEpoch, Zenon
<1>3. ASSUME NEW t \in Task, TaskUpdatePrepareStatus(t)
      PROVE  \A s \in rows' : \E x \in rows : s.epoch = x.epoch
  <2>1. PICK r \in rows : \E st : rows' = (rows \ {r}) \cup {UpdatePrepareStatus(r, st)}
    BY <1>3, Zenon DEF TaskUpdatePrepareStatus
  <2>2. \A st : UpdatePrepareStatus(r, st).epoch = r.epoch
    BY <1>0, Zenon DEF UpdatePrepareStatus, Row
  <2> QED BY <2>1, <2>2, ReplaceEpoch, Zenon
<1> QED BY <1>1, <1>2, <1>3, Zenon

(* The coordinator's status is about an epoch that was proposed, hence not  *)
(* later than the row the activation loaded.                                *)
LEMMA PollTask ==
  ASSUME TypeOK, AgreementInv, TaskInv, NEW t \in Task, NexusPoll(t)
  PROVE  TaskInv'
<1> USE NexusTypes
<1>1. PICK a \in task[t] : \E cs \in coord[a.row.coordinator] :
        TaskPoll(t, CoordinatorStatus(cs))
  BY Zenon DEF NexusPoll
<1>2. PICK cs \in coord[a.row.coordinator] : TaskPoll(t, CoordinatorStatus(cs))
  BY <1>1, Zenon
<1> DEFINE st == CoordinatorStatus(cs)
<1>3. st.config = cs.config
  BY Zenon DEF CoordinatorStatus
<1>4. PICK b \in task[t] :
        /\ b.status = {}
        /\ task' = [task EXCEPT ![t] = {[b EXCEPT !.status = {st}]}]
        /\ UNCHANGED rows
  BY <1>2, Zenon DEF TaskPoll
<1> HIDE DEF st
<1>5. /\ [b EXCEPT !.status = {st}].row = b.row
      /\ [b EXCEPT !.status = {st}].status = {st}
  BY DEF Activation
<1>6. b.row.epoch \in Epoch /\ a.row.coordinator \in Node
  <2>1. a \in Activation /\ b \in Activation
    BY Zenon
  <2>2. a.row \in Row /\ b.row \in Row
    BY <2>1, Zenon DEF Activation
  <2> QED BY <2>2, Zenon DEF Row
<1>7. cs.config \in Config
  <2>1. cs \in CoordState
    BY <1>6, NodeTypes, Zenon
  <2> QED BY <2>1, Zenon DEF CoordState
<1>8. cs.config.epoch = 1 \/ \E r \in rows : r.epoch >= cs.config.epoch
  <2>1. InUse(Header(cs.config))
    BY <1>6, Zenon DEF InUse, InNodes
  <2>2. Header(cs.config) \in Headers /\ Header(cs.config).epoch = cs.config.epoch
    BY <1>7, Zenon DEF Header, Headers, Config
  <2> QED BY <2>1, <2>2, Zenon DEF AgreementInv
<1>9. cs.config.epoch <= b.row.epoch
  <2>1. \A r \in rows : r.epoch <= b.row.epoch /\ r.epoch \in Int
    <3>1. \A r \in rows : r.epoch <= b.row.epoch
      BY <1>4, Zenon DEF TaskInv
    <3>2. \A r \in rows : r.epoch \in Int
      BY DEF Row, Epoch
    <3> QED BY <3>1, <3>2, Zenon
  <2>2. cs.config.epoch \in Int /\ b.row.epoch \in Int /\ b.row.epoch >= 1
    BY <1>6, <1>7 DEF Config, Epoch
  <2> QED BY <1>8, <2>1, <2>2
<1> DEFINE b2 == [b EXCEPT !.status = {st}]
<1>10. task' = [task EXCEPT ![t] = {b2}] /\ b2.row = b.row /\ b2.status = {st}
  BY <1>4, <1>5, Zenon
<1> HIDE DEF b2
<1>11. \A u \in Task : \A x \in task'[u] : x \in task[u] \/ x = b2
  BY <1>10, Zenon
<1>12. \E r \in rows' : r.epoch = b2.row.epoch
  BY <1>4, <1>10, Zenon DEF TaskInv
<1>13. b2.status # {} /\ \A s \in b2.status : s.config.epoch <= b2.row.epoch
  BY <1>3, <1>9, <1>10, Zenon
<1> QED BY <1>4, <1>11, <1>12, <1>13, Zenon DEF TaskInv

LEMMA LoadTask ==
  ASSUME TypeOK, RowsInv, TaskInv, NEW t \in Task, TaskLoad(t)
  PROVE  TaskInv'
<1> USE NexusTypes
<1> DEFINE b(r) == [row |-> r, status |-> {}]
<1>1. PICK r \in rows :
        /\ ActiveConfig(r)
        /\ task' = [task EXCEPT ![t] = {b(r)}]
        /\ UNCHANGED rows
  BY Zenon DEF TaskLoad
<1>2. b(r).row = r /\ b(r).status = {}
  BY Zenon
<1> HIDE DEF b
<1>3. \A s \in rows : s.epoch <= r.epoch
  BY <1>1, Zenon DEF RowsInv, ActiveIsLatest, ActiveConfig
<1>4. \A u \in Task : \A x \in task'[u] : x \in task[u] \/ x = b(r)
  BY <1>1, Zenon
<1> QED BY <1>1, <1>2, <1>3, <1>4, Zenon DEF TaskInv

LEMMA StepTask ==
  ASSUME TypeOK, AgreementInv, RowsInv, TaskInv, ~ Overtaking, [Next]_vars
  PROVE  TaskInv'
<1> USE NexusTypes
<1>1. RowsKept
  BY StepAgreement, Zenon
<1>2. CASE UNCHANGED <<rows, task>>
  BY <1>1, <1>2, TaskKept, Zenon
<1>3. CASE RssHandoff
  <2>1. \A t \in Task : task'[t] = {}
    BY <1>3, Zenon DEF RssHandoff, AgreementInv
  <2> QED BY <2>1, Zenon DEF TaskInv
<1>4. CASE TqPropose
  <2>1. UNCHANGED task
    BY <1>4, ProposeFacts, Zenon DEF TypeOK
  <2>2. NoneAwaiting
    BY ZenonT(30), <1>4, Zenon DEF TqPropose, Propose
  <2> QED BY <1>1, <2>1, <2>2, TaskKept, Zenon DEF NoneAwaiting
<1>5. CASE TqAbort \/ TqUpdateCommitStatus
  <2>1. UNCHANGED task
    BY <1>5, Zenon DEF TqAbort, TqUpdateCommitStatus
  <2> QED BY <1>1, <1>5, <2>1, UpdatedEpochs, TaskKept, Zenon
<1>6. ASSUME NEW t \in Task, TaskUpdatePrepareStatus(t)
      PROVE  TaskInv'
  <2>1. task' = [task EXCEPT ![t] = {}]
    BY <1>6, Zenon DEF TaskUpdatePrepareStatus
  <2>2. \A u \in Task : \A a \in task'[u] : a \in task[u]
    BY <2>1, Zenon
  <2> QED BY <1>1, <1>6, <2>2, UpdatedEpochs, TaskKept, Zenon
<1>7. ASSUME NEW t \in Task, TaskFail(t)
      PROVE  TaskInv'
  <2>1. task' = [task EXCEPT ![t] = {}] /\ UNCHANGED rows
    BY <1>7, Zenon DEF TaskFail
  <2>2. \A u \in Task : \A a \in task'[u] : a \in task[u]
    BY <2>1, Zenon
  <2> QED BY <1>1, <2>1, <2>2, TaskKept, Zenon
<1>8. UNCHANGED vars \/ (\E n \in Node : NodeStep(n)) \/ TaskCommit
        \/ (\E n \in Node : RssReconfigure(n) \/ RssCommitSelf(n) \/ RssProxyCommit(n))
        => UNCHANGED <<rows, task>>
  <2>1. UNCHANGED vars => UNCHANGED <<rows, task>>
    BY Zenon DEF vars
  <2>2. \A n \in Node : NodeStep(n) => UNCHANGED <<rows, task>>
    BY Zenon DEF NodeStep, nexusVars, LoadSecrets, NodeReconfigure, NodeCommit,
                 NodePrepareAndCommit
  <2>3. TaskCommit => UNCHANGED <<rows, task>>
    BY Zenon DEF TaskCommit
  <2>4. \A n \in Node : RssReconfigure(n) \/ RssCommitSelf(n) \/ RssProxyCommit(n)
                          => UNCHANGED <<rows, task>>
    BY Zenon DEF RssReconfigure, RssCommitSelf, RssProxyCommit, nexusVars
  <2> QED BY <2>1, <2>2, <2>3, <2>4, Zenon
<1>9. ASSUME NEW t \in Task, TaskLoad(t) \/ NexusPoll(t)
      PROVE  TaskInv'
  BY <1>9, LoadTask, PollTask, Zenon
<1> QED BY <1>2, <1>3, <1>4, <1>5, <1>6, <1>7, <1>8, <1>9, Zenon
        DEF Next, NexusStep, RssStepAction

LEMMA AskedOnly ==
  ASSUME NEW r, requests' \subseteq requests \cup CommitOps(r), NEW e, Asked(e)'
  PROVE  Asked(e) \/ e = r.epoch
<1>1. ToConfiguration(r).epoch = r.epoch
  BY Zenon DEF ToConfiguration
<1> HIDE DEF ToConfiguration
<1>2. \A q \in CommitOps(r) : /\ q.type = "Commit" => q.epoch = r.epoch
                              /\ q.type = "PrepareAndCommit" => q.config.epoch = r.epoch
  BY <1>1 DEF CommitOps
<1> HIDE DEF CommitOps
<1> QED BY <1>2, Zenon DEF Asked

(* Nexus asks for commits only of what it has decided on: the row that a    *)
(* status makes Committing is the one that the activation loaded.           *)
LEMMA StepAsked ==
  ASSUME TypeOK, DecidedInv, RowsAdvanced, [Next]_vars, NEW e, Asked(e)'
  PROVE  Asked(e) \/ DecidedEpoch(e)'
<1> USE NexusTypes
<1>1. CASE requests' \subseteq requests
  BY <1>1, Zenon DEF Asked
<1>2. CASE TqPropose
  <2>1. PICK q : requests' = requests \cup {q} /\ q.type = "Reconfigure"
    <3>1. PICK latest \in rows, lc \in rows, members \in SUBSET Node, coordinator \in Node :
            requests' = requests \cup
              {[type |-> "Reconfigure", to |-> coordinator,
                epoch |-> latest.epoch + 1, last |-> lc.epoch,
                members |-> members]}
      BY <1>2, ProposeFacts, Zenon DEF TypeOK
    <3> DEFINE q == [type |-> "Reconfigure", to |-> coordinator,
                     epoch |-> latest.epoch + 1, last |-> lc.epoch,
                     members |-> members]
    <3>2. requests' = requests \cup {q} /\ q.type = "Reconfigure"
      BY <3>1, Zenon
    <3> HIDE DEF q
    <3> QED BY <3>2
  <2> QED BY <2>1, Zenon DEF Asked
<1>3. ASSUME NEW r \in rows, r.state = "Committing", requests' = requests \cup CommitOps(r)
      PROVE  Asked(e) \/ DecidedEpoch(e)'
  <2>1. DecidedEpoch(r.epoch)
    BY <1>3, Zenon DEF DecidedEpoch, Decided
  <2> QED BY <1>3, <2>1, DecidedStays, AskedOnly, Zenon
<1>4. ASSUME NEW t \in Task, TaskUpdatePrepareStatus(t)
      PROVE  Asked(e) \/ DecidedEpoch(e)'
  <2>1. PICK a \in task[t] : \E st \in a.status, r \in rows :
          LET r2 == UpdatePrepareStatus(r, st) IN
            /\ PrepareStatusApplies(r, st)
            /\ rows' = (rows \ {r}) \cup {r2}
            /\ requests' = requests \cup
                 (IF GoesOnToCommit(r2) THEN CommitOps(a.row) ELSE {})
    BY <1>4, Zenon DEF TaskUpdatePrepareStatus
  <2>2. PICK st \in a.status, r \in rows :
          LET r2 == UpdatePrepareStatus(r, st) IN
            /\ PrepareStatusApplies(r, st)
            /\ rows' = (rows \ {r}) \cup {r2}
            /\ requests' = requests \cup
                 (IF GoesOnToCommit(r2) THEN CommitOps(a.row) ELSE {})
    BY <2>1, Zenon
  <2> DEFINE r2 == UpdatePrepareStatus(r, st)
  <2>3. r2.epoch = r.epoch /\ r2 \in rows'
    BY <2>2, Zenon DEF UpdatePrepareStatus, Row
  <2>4. requests' = requests \cup (IF GoesOnToCommit(r2) THEN CommitOps(a.row) ELSE {})
    BY <2>2, Zenon
  <2> HIDE DEF r2
  <2>5. CASE ~ GoesOnToCommit(r2)
    BY <1>1, <2>4, <2>5, Zenon
  <2>6. CASE GoesOnToCommit(r2)
    <3>1. r.epoch = a.row.epoch
      <4>1. r.epoch = st.config.epoch /\ \A s \in rows : s.epoch <= r.epoch
        BY <2>2, Zenon DEF PrepareStatusApplies, IsLatest
      <4>2. st.config.epoch <= a.row.epoch /\ \E s \in rows : s.epoch = a.row.epoch
        BY Zenon DEF DecidedInv, TaskInv
      <4>3. r.epoch \in Int /\ a.row.epoch \in Int
        BY DEF Row, Epoch, Activation
      <4> QED BY <4>1, <4>2, <4>3
    <3>2. DecidedEpoch(a.row.epoch)'
      BY <2>3, <2>6, <3>1, Zenon DEF DecidedEpoch, Decided, GoesOnToCommit
    <3>3. requests' \subseteq requests \cup CommitOps(a.row)
      BY <2>4, <2>6, Zenon
    <3>4. Asked(e) \/ e = a.row.epoch
      BY <3>3, AskedOnly, Zenon
    <3> QED BY <3>2, <3>4, Zenon
  <2> QED BY <2>5, <2>6, Zenon
<1> QED BY <1>1, <1>2, <1>3, <1>4, RequestSteps, Zenon

LEMMA StepDecided ==
  ASSUME TypeOK, NodeDiskInv, AgreementInv, RowsInv, RequestsInv, NodesInv, DecidedInv,
         ~ Overtaking, [Next]_vars
  PROVE  DecidedInv'
<1>1. TaskInv'
  BY StepTask, Zenon DEF DecidedInv
<1>2. RowsAdvanced /\ NothingElseGoing
  BY StepRows, StepNodes, Zenon
<1>3. ASSUME NEW e, Going(e)' \/ Asked(e)'
      PROVE  DecidedEpoch(e)'
  <2>1. Going(e) \/ Asked(e) \/ e = 1 \/ DecidedEpoch(e)'
    BY <1>2, <1>3, StepAsked, Zenon DEF NothingElseGoing
  <2>2. DecidedEpoch(1)
    BY Zenon DEF DecidedEpoch
  <2>3. Going(e) \/ Asked(e) => DecidedEpoch(e)
    BY Zenon DEF DecidedInv
  <2> QED BY <1>2, <2>1, <2>2, <2>3, DecidedStays, Zenon
<1> QED BY <1>1, <1>3, Zenon DEF DecidedInv

LEMMA InitialDecided ==
  ASSUME Init \/ InitAfterHandoff
  PROVE  DecidedInv
<1>1. /\ \A n \in Node : \A e \in commits[n] : e = 1
      /\ \A n \in Node : ksc[n] = {}
      /\ \A t \in Task : task[t] = {}
      /\ msgs = {} /\ requests = {}
  <2>1. CASE Init
    BY <2>1, Zenon DEF Init
  <2>2. CASE InitAfterHandoff
    <3>1. /\ commits = [n \in Node |-> IF n \in InitialMembers THEN {1} ELSE {}]
          /\ ksc     = [n \in Node |-> {}]
          /\ task    = [t \in Task |-> {}]
          /\ msgs = {} /\ requests = {}
      BY <2>2, Zenon DEF InitAfterHandoff
    <3> QED BY <3>1, Zenon
  <2> QED BY <2>1, <2>2, Zenon
<1> QED BY <1>1, Zenon DEF DecidedInv, TaskInv, Going, Asked, DecidedEpoch

-----------------------------------------------------------------------------
(* Who is expunged.                                                         *)

(* The node is not a member of the epoch, on which Nexus decided. *)
Removed(n, e) == \E r \in rows : r.epoch = e /\ Decided(r) /\ n \notin r.members

RemovedInv ==
  /\ \A m \in msgs : m.type = "Expunged" => \A n \in m.to : Removed(n, m.epoch)
  /\ ExpungedIsRemoved

LEMMA RemovedStays ==
  ASSUME RowsAdvanced, NEW n, NEW e, Removed(n, e)
  PROVE  Removed(n, e)'
<1>1. PICK r \in rows : r.epoch = e /\ Decided(r) /\ n \notin r.members
  BY Zenon DEF Removed
<1>2. PICK s \in rows' : Advances(r, s)
  BY Zenon DEF RowsAdvanced
<1>3. s.epoch = e /\ Decided(s) /\ n \notin s.members
  BY <1>1, <1>2, Zenon DEF Advances
<1> QED BY <1>3, Zenon DEF Removed, Decided

(* It is enough to look at what a step adds. *)
LEMMA RemovedKept ==
  ASSUME RowsAdvanced, RemovedInv,
         \A m \in msgs' : \/ m \in msgs \/ m.type # "Expunged"
                          \/ \A n \in m.to : Removed(n, m.epoch),
         \A n \in Node : \A e \in expunged'[n] : e \in expunged[n] \/ Removed(n, e)
  PROVE  RemovedInv'
<1>1. \A m \in msgs' : m.type = "Expunged" => \A n \in m.to : Removed(n, m.epoch)'
  BY RemovedStays, Zenon DEF RemovedInv
<1>2. \A n \in Node : \A e \in expunged'[n] : Removed(n, e)
  BY Zenon DEF RemovedInv, ExpungedIsRemoved, Removed
<1>3. \A n \in Node : \A e \in expunged'[n] : Removed(n, e)'
  BY <1>2, RemovedStays, Zenon
<1>4. ExpungedIsRemoved'
  BY <1>3, Zenon DEF ExpungedIsRemoved, Removed
<1> QED BY <1>1, <1>4, Zenon DEF RemovedInv

(* The members of a stored configuration are those of its row. *)
LEMMA StoredMembers ==
  ASSUME TypeOK, AgreementInv, NEW x \in Node, NEW c \in configs[x]
  PROVE  /\ \A y \in Node : \A d \in configs[y] : d.epoch = c.epoch => d.members = c.members
         /\ \A r \in rows : r.epoch = c.epoch => r.members = c.members
<1> USE NodeTypes, NexusTypes
<1>1. ASSUME NEW y \in Node, NEW d \in configs[y]
      PROVE  Header(d) \in Headers /\ InUse(Header(d))
  <2>1. d \in Config
    BY Zenon
  <2>2. Header(d) \in Headers
    BY <2>1, Zenon DEF Header, Headers, Config
  <2>3. InUse(Header(d))
    BY Zenon DEF InUse, InNodes
  <2> QED BY <2>2, <2>3
<1>2. ASSUME NEW r \in rows PROVE Header(r) \in Headers /\ InUse(Header(r))
  <2>1. r \in Row
    BY Zenon
  <2>2. Header(r) \in Headers
    BY <2>1, Zenon DEF Header, Headers, Row
  <2>3. InUse(Header(r))
    BY Zenon DEF InUse, InNexus
  <2> QED BY <2>2, <2>3
<1>3. \A y : Header(y).epoch = y.epoch /\ Header(y).members = y.members
  BY Zenon DEF Header
<1> HIDE DEF Header
<1>4. ASSUME NEW y \in Node, NEW d \in configs[y], d.epoch = c.epoch
      PROVE  d.members = c.members
  <2>0. Header(d).epoch = Header(c).epoch
    BY <1>3, <1>4, Zenon
  <2>1. Header(d) = Header(c)
    BY <1>1, <2>0, Zenon DEF AgreementInv
  <2> QED BY <1>3, <2>1, Zenon
<1>5. ASSUME NEW r \in rows, r.epoch = c.epoch
      PROVE  r.members = c.members
  <2>0. Header(r).epoch = Header(c).epoch
    BY <1>3, <1>5, Zenon
  <2>1. Header(r) = Header(c)
    BY <1>1, <1>2, <2>0, Zenon DEF AgreementInv
  <2> QED BY <1>3, <2>1, Zenon
<1> QED BY <1>4, <1>5, Zenon

(* Whoever asks for shares of an epoch is a member of it.  So Expunged is   *)
(* only ever answered on behalf of a later, committed configuration.        *)
LEMMA GetShareRemoved ==
  ASSUME TypeOK, AgreementInv, NodesInv, DecidedInv,
         NEW n \in Node, NEW m \in msgs, m.type = "GetShare",
         NEW x \in GetShareReplies(n, m.from, m.epoch), x.type = "Expunged"
  PROVE  \A y \in x.to : Removed(y, x.epoch)
<1> USE NodeTypes
<1>1. m.from \in Node /\ m.epoch \in Epoch
  BY MsgFields, Zenon
<1>2. PICK c \in configs[n] :
        /\ x = [type |-> "Expunged", to |-> {m.from}, epoch |-> c.epoch]
        /\ IsExpungedFrom(m.from, c)
        /\ (c.epoch > m.epoch /\ IsLatestCommittedConfig(n, c)) \/ c.epoch = m.epoch
  BY DEF GetShareReplies
<1>3. m.from \notin c.members
  BY <1>2, Zenon DEF IsExpungedFrom
<1>4. c.epoch # m.epoch
  <2> SUFFICES ASSUME c.epoch = m.epoch PROVE FALSE
    BY Zenon
  <2>1. PICK d \in configs[m.from] : d.epoch = m.epoch
    BY Zenon DEF NodesInv, MaySend, HasConfig
  <2>2. m.from \in d.members
    BY <1>1, Zenon DEF NodesInv
  <2>3. \A y \in Node : \A f \in configs[y] : f.epoch = c.epoch => f.members = c.members
    BY StoredMembers, Zenon
  <2>4. d.epoch = c.epoch
    BY <2>1, Zenon
  <2>5. d.members = c.members
    BY <1>1, <2>3, <2>4, Zenon
  <2> QED BY <1>3, <2>2, <2>5, Zenon
<1>5. c.epoch # 1
  <2>1. c.epoch > m.epoch
    BY <1>2, <1>4, Zenon
  <2>2. m.epoch \in Int /\ m.epoch >= 1
    BY <1>1 DEF Epoch
  <2>3. c.epoch \in Int
    BY DEF Config, Epoch
  <2> QED BY <2>1, <2>2, <2>3
<1>6. Going(c.epoch)
  BY <1>2, <1>4, Zenon DEF Going, IsLatestCommittedConfig
<1>7. PICK r \in rows : r.epoch = c.epoch /\ Decided(r)
  BY <1>5, <1>6, Zenon DEF DecidedInv, DecidedEpoch
<1>8. m.from \notin r.members
  BY <1>3, <1>7, StoredMembers, Zenon
<1>9. x.to = {m.from} /\ x.epoch = c.epoch
  BY <1>2, Zenon
<1> QED BY <1>7, <1>8, <1>9, Zenon DEF Removed

-----------------------------------------------------------------------------
(* Coordinating and computing.                                              *)

LEMMA ComputingKept ==
  ASSUME NotCoordinatingAndComputing, NEW n,
         \A x \in Node : x # n => coord'[x] \subseteq coord[x] /\ ksc'[x] \subseteq ksc[x],
         coord'[n] = {} \/ ksc'[n] = {}
  PROVE  NotCoordinatingAndComputing'
BY Zenon DEF NotCoordinatingAndComputing

(* A node that learns of a decided configuration it has not committed does  *)
(* not coordinate a later one: that one would build on a configuration the  *)
(* node has committed, with a decided one in between.                       *)
LEMMA AdvanceStops ==
  ASSUME TypeOK, RowsInv, NodesInv, NEW n \in Node, NEW c \in Config,
         ~ CommittedAtLeast(n, c.epoch), DecidedEpoch(c.epoch)
  PROVE  StillCoordinating(n, c) = {}
<1> USE NodeTypes, NexusTypes
<1> SUFFICES ASSUME NEW cs \in coord[n], cs.config.epoch > c.epoch PROVE FALSE
  BY Zenon DEF StillCoordinating
<1>1. /\ c.epoch \in Int /\ c.epoch >= 1
      /\ cs.config.epoch \in Int
      /\ \A f \in commits[n] : f \in Int /\ f >= 1
      /\ \A r \in rows : r.epoch \in Int
  BY DEF Config, CoordState, Epoch, Row
<1>2. cs.config.epoch # 1 /\ cs.config.epoch > 1
  BY <1>1
<1>3. MayCoordinate(n, cs)
  BY Zenon DEF NodesInv
<1>4. cs.old \in commits[n]
  BY <1>2, <1>3, Zenon DEF MayCoordinate
<1>5. PICK r \in rows : r.epoch = cs.config.epoch /\ r.last = cs.old
  BY <1>2, <1>3, Zenon DEF MayCoordinate
<1>6. cs.old < c.epoch /\ c.epoch # 1
  <2>1. ~ (cs.old >= c.epoch)
    BY <1>4, Zenon DEF CommittedAtLeast
  <2> QED BY <1>1, <1>4, <2>1
<1>7. PICK s \in rows : s.epoch = c.epoch /\ Decided(s)
  BY <1>6, Zenon DEF DecidedEpoch
<1>8. r.last < s.epoch /\ s.epoch < r.epoch /\ r.epoch > 1
  BY <1>1, <1>2, <1>5, <1>6, <1>7
<1> QED BY <1>7, <1>8, Zenon DEF RowsInv, ChainOfCommits

LEMMA AdvanceComputing ==
  ASSUME TypeOK, RowsInv, NodesInv, RemovedInv, RowsAdvanced,
         NotCoordinatingAndComputing, NEW n \in Node, NEW c \in Config,
         DecidedEpoch(c.epoch), HandleCommitAdvance(n, c)
  PROVE  RemovedInv' /\ NotCoordinatingAndComputing'
<1> USE NodeTypes
<1>1. ~ CommittedAtLeast(n, c.epoch) /\ UNCHANGED expunged
  BY Zenon DEF HandleCommitAdvance
<1>2. CASE AdvanceTo(n, c)
  <2>1. \/ ksc' = [ksc EXCEPT ![n] = {k \in ksc[n] : k.config.epoch > c.epoch}]
        \/ ksc' = [ksc EXCEPT ![n] = {[config |-> c, replies |-> {}]}]
        \/ ksc' = [ksc EXCEPT ![n] = @]
    BY <1>2, Zenon DEF AdvanceTo
  <2>2. /\ coord' = [coord EXCEPT ![n] = {}]
        /\ msgs' \subseteq msgs \cup {GetShareMsg(n, c)}
    BY <1>1, <1>2, AdvanceStops, Zenon DEF AdvanceTo, Send
  <2>3. GetShareMsg(n, c).type = "GetShare"
    BY Zenon DEF GetShareMsg
  <2>4. RemovedInv'
    <3>1. \A m \in msgs' : m \in msgs \/ m.type # "Expunged"
      BY <2>2, <2>3, Zenon
    <3> QED BY <1>1, <3>1, RemovedKept, Zenon
  <2>5. \A x \in Node : x # n => coord'[x] \subseteq coord[x] /\ ksc'[x] \subseteq ksc[x]
    BY <2>1, <2>2, Zenon
  <2>6. coord'[n] = {}
    BY <2>2, Zenon
  <2> QED BY <2>4, <2>5, <2>6, ComputingKept, Zenon
<1>3. CASE UNCHANGED <<coord, ksc, msgs>>
  <2>1. RemovedInv'
    BY <1>1, <1>3, RemovedKept, Zenon
  <2> QED BY <1>3, <2>1, Zenon DEF NotCoordinatingAndComputing
<1> QED BY <1>2, <1>3, Zenon DEF HandleCommitAdvance

LEMMA ShareComputing ==
  ASSUME TypeOK, RemovedInv, RowsAdvanced, NotCoordinatingAndComputing,
         NEW n \in Node, NEW m, HandleShare(n, m)
  PROVE  RemovedInv' /\ NotCoordinatingAndComputing'
<1> USE NodeTypes
<1>0. UNCHANGED expunged
  BY Zenon DEF HandleShare
<1>1. CASE CoordinatorHandleShare(n, m)
  <2>1. PICK cs \in coord[n] :
          /\ \/ \E old \in configs[n] :
                  LET got == cs.replies \cup {m.from} IN
                    \/ /\ coord' = [coord EXCEPT ![n] = {[cs EXCEPT !.replies = got]}]
                       /\ UNCHANGED msgs
                    \/ TransitionToPreparing(n, cs, old)
             \/ UNCHANGED <<coord, msgs>>
          /\ UNCHANGED ksc
    BY <1>1, ZenonT(30) DEF CoordinatorHandleShare
  <2>2. \E d : coord' = [coord EXCEPT ![n] = {d}] \/ UNCHANGED coord
    BY <2>1, Zenon DEF TransitionToPreparing
  <2>3. \A x \in Node : x # n => coord'[x] \subseteq coord[x] /\ ksc'[x] \subseteq ksc[x]
    BY <2>1, <2>2, Zenon
  <2>4. ksc'[n] = {}
    BY <2>1, Zenon DEF NotCoordinatingAndComputing
  <2>5. UNCHANGED msgs \/ \E c : msgs' = msgs \cup {PrepareMsg(n, c)}
    BY <2>1, Zenon DEF TransitionToPreparing, Send
  <2>6. \A c : PrepareMsg(n, c).type = "Prepare"
    BY Zenon DEF PrepareMsg
  <2>7. \A x \in msgs' : x \in msgs \/ x.type # "Expunged"
    <3> HIDE DEF PrepareMsg
    <3> QED BY <2>5, <2>6, Zenon
  <2>8. RemovedInv'
    BY <1>0, <2>7, RemovedKept, Zenon
  <2> QED BY <2>3, <2>4, <2>8, ComputingKept, Zenon
<1>2. CASE UNCHANGED <<coord, msgs>> /\ \A x \in Node : ksc[x] = {} => ksc'[x] = {}
  <2>1. RemovedInv'
    BY <1>0, <1>2, RemovedKept, Zenon
  <2> QED BY <1>2, <2>1, Zenon DEF NotCoordinatingAndComputing
<1>3. CASE KscHandleShare(n, m)
  <2>1. /\ UNCHANGED <<coord, msgs>>
        /\ ksc[n] # {}
        /\ UNCHANGED ksc \/ \E S : ksc' = [ksc EXCEPT ![n] = S]
    BY <1>3, Zenon DEF KscHandleShare
  <2>2. \A x \in Node : ksc[x] = {} => ksc'[x] = {}
    BY <2>1, Zenon
  <2> QED BY <1>2, <2>1, <2>2, Zenon
<1> QED BY <1>1, <1>2, <1>3, Zenon DEF HandleShare

(* Nothing is told to anybody, and no coordination or computation starts. *)
LEMMA LessComputing ==
  ASSUME RemovedInv, RowsAdvanced, NotCoordinatingAndComputing,
         \A m \in msgs' : m \in msgs \/ m.type # "Expunged",
         UNCHANGED expunged,
         \A x \in Node : coord'[x] \subseteq coord[x] /\ ksc'[x] \subseteq ksc[x]
  PROVE  RemovedInv' /\ NotCoordinatingAndComputing'
<1>1. RemovedInv'
  BY RemovedKept, Zenon
<1>2. NotCoordinatingAndComputing'
  BY Zenon DEF NotCoordinatingAndComputing
<1> QED BY <1>1, <1>2

LEMMA HandleComputing ==
  ASSUME TypeOK, AgreementInv, RowsInv, NodesInv, DecidedInv, RemovedInv, RowsAdvanced,
         NotCoordinatingAndComputing, NEW n \in Node, NEW m \in msgs, Handle(n, m)
  PROVE  RemovedInv' /\ NotCoordinatingAndComputing'
<1> USE NodeTypes
<1>0. m \in PeerMsg /\ n \in m.to
  BY Zenon DEF Handle
<1>1. CASE m.type = "Prepare" /\ HandlePrepare(n, m)
  <2> DEFINE ack == [type |-> "PrepareAck", from |-> n, to |-> {m.from},
                     epoch |-> m.config.epoch]
  <2>1. /\ coord' = [coord EXCEPT ![n] = {cs \in @ : m.config.epoch <= cs.config.epoch}]
        /\ msgs' = msgs \cup {ack}
        /\ UNCHANGED <<expunged, ksc>>
    BY <1>1, Zenon DEF HandlePrepare, Send
  <2>2. ack.type # "Expunged"
    BY Zenon
  <2> HIDE DEF ack
  <2>3. \A x \in Node : coord'[x] \subseteq coord[x]
    BY <2>1, Zenon
  <2> QED BY <2>1, <2>2, <2>3, LessComputing, Zenon
<1>2. CASE m.type = "PrepareAck" /\ HandlePrepareAck(n, m)
  <2>1. PICK cs \in coord[n] :
          /\ coord' = [coord EXCEPT ![n] = {[cs EXCEPT !.replies = @ \cup {m.from}]}]
          /\ UNCHANGED <<expunged, ksc, msgs>>
    BY <1>2, Zenon DEF HandlePrepareAck, persistentVars
  <2>2. ksc'[n] = {}
    BY <2>1, Zenon DEF NotCoordinatingAndComputing
  <2>3. \A x \in Node : x # n => coord'[x] \subseteq coord[x] /\ ksc'[x] \subseteq ksc[x]
    BY <2>1, Zenon
  <2>4. RemovedInv'
    BY <2>1, RemovedKept, Zenon
  <2> QED BY <2>2, <2>3, <2>4, ComputingKept, Zenon
<1>3. CASE m.type = "GetShare" /\ HandleGetShare(n, m)
  <2>1. /\ msgs' = msgs \cup GetShareReplies(n, m.from, m.epoch)
        /\ UNCHANGED <<expunged, coord, ksc>>
    BY <1>3, ZenonT(30) DEF HandleGetShare, Send, persistentVars
  <2>2. \A x \in msgs' : \/ x \in msgs \/ x.type # "Expunged"
                         \/ \A y \in x.to : Removed(y, x.epoch)
    BY <1>3, <2>1, GetShareRemoved, Zenon
  <2>3. RemovedInv'
    BY <2>1, <2>2, RemovedKept, Zenon
  <2> QED BY <2>1, <2>3, Zenon DEF NotCoordinatingAndComputing
<1>4. CASE m.type = "Share" /\ HandleShare(n, m)
  BY <1>4, ShareComputing, Zenon
<1>5. CASE m.type = "Expunged" /\ HandleExpunged(n, m)
  <2>1. /\ expunged' = [expunged EXCEPT ![n] = {m.epoch}]
        /\ coord' = [coord EXCEPT ![n] = {}]
        /\ ksc' = [ksc EXCEPT ![n] = {}]
        /\ UNCHANGED msgs
    BY <1>5, Zenon DEF HandleExpunged
  <2>2. Removed(n, m.epoch)
    BY <1>0, <1>5, Zenon DEF RemovedInv
  <2>3. \A x \in Node : \A e \in expunged'[x] : e \in expunged[x] \/ Removed(x, e)
    BY <2>1, <2>2, Zenon
  <2>4. RemovedInv'
    BY <2>1, <2>3, RemovedKept, Zenon
  <2>5. \A x \in Node : coord'[x] \subseteq coord[x] /\ ksc'[x] \subseteq ksc[x]
    BY <2>1, Zenon
  <2> QED BY <2>4, <2>5, Zenon DEF NotCoordinatingAndComputing
<1>6. CASE m.type = "CommitAdvance" /\ HandleCommitAdvance(n, m.config)
  <2>1. m.config \in Config
    BY <1>0, <1>6, MsgFields, Zenon
  <2>2. Going(m.config.epoch)
    BY <1>6, Zenon DEF Going
  <2> QED BY <1>6, <2>1, <2>2, AdvanceComputing, Zenon DEF DecidedInv
<1> QED BY <1>1, <1>2, <1>3, <1>4, <1>5, <1>6, Zenon DEF Handle

LEMMA CoordinateComputing ==
  ASSUME TypeOK, RemovedInv, RowsAdvanced, NotCoordinatingAndComputing,
         NEW n \in Node, NEW m, CoordinateReconfiguration(n, m)
  PROVE  RemovedInv' /\ NotCoordinatingAndComputing'
<1> USE NodeTypes
<1>1. ksc' = [ksc EXCEPT ![n] = {}] /\ UNCHANGED expunged
  BY Zenon DEF CoordinateReconfiguration
<1>2. /\ \E cs : coord' = [coord EXCEPT ![n] = {cs}]
      /\ \E c : msgs' = msgs \cup {PrepareMsg(n, c)} \/ msgs' = msgs \cup {GetShareMsg(n, c)}
  BY Zenon DEF CoordinateReconfiguration, CoordinateUninitialized,
               CoordinateFromCommitted, Send
<1>3. \A c : PrepareMsg(n, c).type = "Prepare" /\ GetShareMsg(n, c).type = "GetShare"
  BY Zenon DEF PrepareMsg, GetShareMsg
<1>4. \A x \in msgs' : x \in msgs \/ x.type # "Expunged"
  BY <1>2, <1>3, Zenon
<1>5. RemovedInv'
  BY <1>1, <1>4, RemovedKept, Zenon
<1>6. \A x \in Node : x # n => coord'[x] \subseteq coord[x] /\ ksc'[x] \subseteq ksc[x]
  BY <1>1, <1>2, Zenon
<1>7. ksc'[n] = {}
  BY <1>1, Zenon
<1> QED BY <1>5, <1>6, <1>7, ComputingKept, Zenon

LEMMA OtherComputing ==
  ASSUME TypeOK, RemovedInv, RowsAdvanced, NotCoordinatingAndComputing, NEW n \in Node,
         \/ ClearSecrets(n) \/ Restart(n) \/ UNCHANGED nodeVars
         \/ \E e \in Epoch : LoadRackSecret(n, e)
         \/ \E e \in Epoch : CommitConfiguration(n, e)
  PROVE  RemovedInv' /\ NotCoordinatingAndComputing'
<1> USE NodeTypes
<1>1. CASE /\ UNCHANGED <<expunged, msgs>>
           /\ \A x \in Node : coord'[x] \subseteq coord[x] /\ ksc'[x] \subseteq ksc[x]
  BY <1>1, LessComputing, Zenon
<1>2. CASE ClearSecrets(n) \/ UNCHANGED nodeVars
  <2>1. UNCHANGED <<expunged, msgs, coord, ksc>>
    BY <1>2, Zenon DEF ClearSecrets, persistentVars, nodeVars
  <2> QED BY <1>1, <2>1, Zenon
<1>3. CASE Restart(n)
  BY <1>1, <1>3, Zenon DEF Restart, persistentVars
<1>4. CASE \E e \in Epoch : LoadRackSecret(n, e)
  <2>1. PICK e \in Epoch : LoadRackSecret(n, e)
    BY <1>4
  <2>2. /\ \A m \in msgs' : m \in msgs \/ m.type = "GetShare"
        /\ UNCHANGED <<coord, ksc>>
    BY <2>1, LoadSends, Zenon
  <2>3. UNCHANGED expunged
    BY <2>1, Zenon DEF LoadRackSecret, persistentVars
  <2> QED BY <2>2, <2>3, LessComputing, Zenon
<1>5. CASE \E e \in Epoch : CommitConfiguration(n, e)
  BY <1>1, <1>5, Zenon DEF CommitConfiguration
<1> QED BY <1>2, <1>3, <1>4, <1>5, Zenon

LEMMA NodeStepComputing ==
  ASSUME TypeOK, AgreementInv, RowsInv, NodesInv, DecidedInv, RemovedInv, RowsAdvanced,
         NotCoordinatingAndComputing, NEW n \in Node, NodeStep(n)
  PROVE  RemovedInv' /\ NotCoordinatingAndComputing'
<1>1. CASE HandlePeerMsg(n)
  BY <1>1, HandleComputing, Zenon DEF HandlePeerMsg
<1>2. CASE Restart(n) \/ ClearSecrets(n) \/ LoadSecrets(n)
  BY <1>2, OtherComputing, Zenon DEF LoadSecrets
<1>3. CASE NodeReconfigure(n)
  BY <1>3, CoordinateComputing, Zenon DEF NodeReconfigure
<1>4. CASE NodeCommit(n)
  <2>1. PICK q \in requests :
          q.type = "Commit" /\ (CommitConfiguration(n, q.epoch) \/ UNCHANGED nodeVars)
    BY <1>4, Zenon DEF NodeCommit
  <2>2. q.epoch \in Epoch
    BY <2>1, RequestFields, NexusTypes, Zenon
  <2> QED BY <2>1, <2>2, OtherComputing, Zenon
<1>5. CASE NodePrepareAndCommit(n)
  <2>1. PICK q \in requests :
          q.type = "PrepareAndCommit" /\ (PrepareAndCommit(n, q.config) \/ UNCHANGED nodeVars)
    BY <1>5, Zenon DEF NodePrepareAndCommit
  <2>2. Asked(q.config.epoch) /\ q.config \in Config
    BY <2>1, RequestFields, NexusTypes, Zenon DEF Asked
  <2>3. DecidedEpoch(q.config.epoch)
    BY <2>2, Zenon DEF DecidedInv
  <2> QED BY <2>1, <2>2, <2>3, AdvanceComputing, OtherComputing, Zenon DEF PrepareAndCommit
<1> QED BY <1>1, <1>2, <1>3, <1>4, <1>5, Zenon DEF NodeStep

LEMMA StepComputing ==
  ASSUME TypeOK, AgreementInv, RowsInv, NodesInv, DecidedInv, RemovedInv,
         NotCoordinatingAndComputing, [Next]_vars
  PROVE  RemovedInv' /\ NotCoordinatingAndComputing'
<1>1. RowsAdvanced
  BY StepRows, Zenon
<1>2. ASSUME NEW n \in Node, NodeStep(n)
      PROVE  RemovedInv' /\ NotCoordinatingAndComputing'
  BY <1>1, <1>2, NodeStepComputing, Zenon
<1>3. CASE UNCHANGED nodeVars
  <2>1. UNCHANGED <<expunged, msgs, coord, ksc>>
    BY <1>3, Zenon DEF nodeVars
  <2> QED BY <1>1, <2>1, LessComputing, Zenon
<1>4. ASSUME NEW n \in Node, RssReconfigure(n) \/ RssCommitSelf(n) \/ RssProxyCommit(n)
      PROVE  RemovedInv' /\ NotCoordinatingAndComputing'
  BY <1>1, <1>4, OneIsEpoch, CoordinateComputing, OtherComputing, Zenon
     DEF RssReconfigure, RssCommitSelf, RssProxyCommit
<1>5. UNCHANGED vars \/ NexusStep \/ RssHandoff => UNCHANGED nodeVars
  <2>1. UNCHANGED vars => UNCHANGED nodeVars
    BY Zenon DEF vars, nodeVars, persistentVars, loaderVars
  <2>2. NexusStep => UNCHANGED nodeVars
    BY Zenon DEF NexusStep, NexusPoll
  <2>3. RssHandoff => UNCHANGED nodeVars
    BY Zenon DEF RssHandoff
  <2> QED BY <2>1, <2>2, <2>3, Zenon
<1> QED BY <1>2, <1>3, <1>4, <1>5, Zenon DEF Next, RssStepAction

LEMMA InitialComputing ==
  ASSUME Init \/ InitAfterHandoff
  PROVE  RemovedInv /\ NotCoordinatingAndComputing
<1>1. msgs = {} /\ expunged = [n \in Node |-> {}] /\ ksc = [n \in Node |-> {}]
  <2>1. Init => msgs = {} /\ expunged = [n \in Node |-> {}] /\ ksc = [n \in Node |-> {}]
    BY Zenon DEF Init
  <2>2. InitAfterHandoff =>
          msgs = {} /\ expunged = [n \in Node |-> {}] /\ ksc = [n \in Node |-> {}]
    BY Zenon DEF InitAfterHandoff
  <2> QED BY <2>1, <2>2, Zenon
<1> QED BY <1>1, Zenon DEF RemovedInv, ExpungedIsRemoved, NotCoordinatingAndComputing

-----------------------------------------------------------------------------
(* The theorems, from an uninitialized rack or from one just handed off.    *)

(* Whatever a node has committed, computes a share of, or was told or asked *)
(* to commit is decided; an activation's answer is about nothing later than *)
(* what it loaded; who was told it is expunged has been removed.            *)
THEOREM DecidedInvariant ==
  ASSUME ~ Overtaking
  PROVE  (Init \/ InitAfterHandoff) /\ [][Next]_vars
           => [](DecidedInv /\ RemovedInv /\ NotCoordinatingAndComputing)
<1>1. Init \/ InitAfterHandoff => DecidedInv /\ RemovedInv /\ NotCoordinatingAndComputing
  BY InitialDecided, InitialComputing, Zenon
<1>2. ASSUME TypeOK, NodeDiskInv, AgreementInv, RowsInv, RequestsInv, NodesInv,
             DecidedInv, RemovedInv, NotCoordinatingAndComputing, [Next]_vars
      PROVE  DecidedInv' /\ RemovedInv' /\ NotCoordinatingAndComputing'
  BY <1>2, StepDecided, StepComputing, Zenon
<1> QED
  BY <1>1, <1>2, NodeDiskInvariant, AgreementInvariant, NodesInvariant, PTL

(* Nodes commit only what Nexus decided on, and never what was aborted      *)
(* (commit_configuration, handle_commit_advance, KeyShareComputer).         *)
THEOREM CommittedIsAlwaysDecided ==
  ASSUME ~ Overtaking
  PROVE  (Init \/ InitAfterHandoff) /\ [][Next]_vars => []CommittedIsDecided
<1>1. DecidedInv => CommittedIsDecided
  BY Zenon DEF DecidedInv, DecidedEpoch, Going, CommittedIsDecided
<1> QED BY <1>1, DecidedInvariant, PTL

(* No node commits a configuration that was aborted.  The run stale_epoch   *)
(* refutes this when the operator overtakes the background task, so that    *)
(* the assumption is all that stands between the two.                       *)
THEOREM AbortedIsNeverCommitted ==
  ASSUME ~ Overtaking
  PROVE  (Init \/ InitAfterHandoff) /\ [][Next]_vars => []AbortedIsNotCommitted
<1>1. ASSUME RowsInv, CommittedIsDecided
      PROVE  AbortedIsNotCommitted
  <2> SUFFICES ASSUME NEW r \in rows, NEW n \in Node,
                      r.state = "Aborted", r.epoch \in commits[n]
               PROVE  FALSE
    BY Zenon DEF AbortedIsNotCommitted
  <2>1. Decided(r)
    BY <1>1, Zenon DEF CommittedIsDecided, RowsInv
  <2> QED BY <2>1, Zenon DEF Decided
<1> QED BY <1>1, CommittedIsAlwaysDecided, NodesInvariant, PTL

(* A node is told that it is expunged only after Nexus decided on a         *)
(* configuration without it (handle_get_share, handle_expunged).            *)
THEOREM ExpungedIsAlwaysRemoved ==
  ASSUME ~ Overtaking
  PROVE  (Init \/ InitAfterHandoff) /\ [][Next]_vars => []ExpungedIsRemoved
<1>1. RemovedInv => ExpungedIsRemoved
  BY Zenon DEF RemovedInv
<1> QED BY <1>1, DecidedInvariant, PTL

(* No node coordinates while it computes a key share, so that handle_share  *)
(* never withholds a share from the key share computer.                     *)
THEOREM NeverCoordinatingAndComputing ==
  ASSUME ~ Overtaking
  PROVE  (Init \/ InitAfterHandoff) /\ [][Next]_vars => []NotCoordinatingAndComputing
BY DecidedInvariant, PTL

-----------------------------------------------------------------------------
(* The whole system implements RackTrustQuorum.                             *)

(* A node commits nothing, or one epoch whose configuration it has. *)
CommitsOnly(n) ==
  \/ UNCHANGED commits
  \/ \E e : HasConfig(n, e) /\ commits' = [commits EXCEPT ![n] = @ \cup {e}]

LEMMA HandleCommits ==
  ASSUME NodeDiskInv, NEW n \in Node, NEW m, Handle(n, m)
  PROVE  CommitsOnly(n)
<1>1. CASE m.type = "Share" /\ HandleShare(n, m)
  <2>1. CASE KscHandleShare(n, m)
    <3>1. PICK k \in ksc[n] :
            UNCHANGED commits \/ (m.epoch = k.config.epoch /\ SaveComputedShare(n, m.epoch))
      BY <2>1, Zenon DEF KscHandleShare, NewShare
    <3>2. HasConfig(n, k.config.epoch)
      BY Zenon DEF NodeDiskInv, KscConfigured
    <3> QED BY <3>1, <3>2, Zenon DEF SaveComputedShare, CommitsOnly
  <2>2. CASE ~ KscHandleShare(n, m)
    BY <1>1, <2>2, Zenon DEF HandleShare, CoordinatorHandleShare, CommitsOnly
  <2> QED BY <2>1, <2>2
<1>2. CASE m.type = "CommitAdvance" /\ HandleCommitAdvance(n, m.config)
  BY <1>2, Zenon DEF HandleCommitAdvance, AdvanceTo, HasPrepared, CommitsOnly
<1>3. CASE \/ HandlePrepare(n, m) \/ HandlePrepareAck(n, m)
           \/ HandleGetShare(n, m) \/ HandleExpunged(n, m)
  BY <1>3, Zenon DEF HandlePrepare, HandlePrepareAck, HandleGetShare, HandleExpunged,
                     persistentVars, CommitsOnly
<1> QED BY <1>1, <1>2, <1>3, Zenon DEF Handle

LEMMA NodeStepCommits ==
  ASSUME NodeDiskInv, NEW n \in Node, NodeStep(n)
  PROVE  UNCHANGED rows /\ CommitsOnly(n)
<1>0. UNCHANGED rows
  BY Zenon DEF NodeStep, nexusVars, LoadSecrets, NodeReconfigure, NodeCommit,
               NodePrepareAndCommit
<1>1. CASE HandlePeerMsg(n)
  BY <1>0, <1>1, HandleCommits, Zenon DEF HandlePeerMsg
<1>2. CASE Restart(n) \/ ClearSecrets(n) \/ LoadSecrets(n)
  BY <1>0, <1>2, LoadSends, Zenon DEF Restart, ClearSecrets, LoadSecrets, persistentVars,
                                      CommitsOnly
<1>3. CASE NodeReconfigure(n)
  BY <1>0, <1>3, Zenon DEF NodeReconfigure, CoordinateReconfiguration, CommitsOnly
<1>4. CASE NodeCommit(n)
  BY <1>0, <1>4, Zenon DEF NodeCommit, CommitConfiguration, HasPrepared, nodeVars, CommitsOnly
<1>5. CASE NodePrepareAndCommit(n)
  BY <1>0, <1>5, Zenon DEF NodePrepareAndCommit, PrepareAndCommit, HandleCommitAdvance,
                           AdvanceTo, HasPrepared, nodeVars, CommitsOnly
<1> QED BY <1>1, <1>2, <1>3, <1>4, <1>5, Zenon DEF NodeStep

(* What can happen to the rows and commits together. *)
LEMMA RackSteps ==
  ASSUME NodeDiskInv, [Next]_vars
  PROVE  \/ UNCHANGED commits
         \/ UNCHANGED rows /\ \E n \in Node : CommitsOnly(n)
<1>1. CASE UNCHANGED vars \/ NexusStep \/ RssHandoff
  BY <1>1, Zenon DEF vars, NexusStep, NexusPoll, RssHandoff, nodeVars
<1>2. ASSUME NEW n \in Node, NodeStep(n)
      PROVE  UNCHANGED rows /\ CommitsOnly(n)
  BY <1>2, NodeStepCommits, Zenon
<1>3. ASSUME NEW n \in Node, RssReconfigure(n) \/ RssCommitSelf(n) \/ RssProxyCommit(n)
      PROVE  UNCHANGED rows /\ CommitsOnly(n)
  <2>1. UNCHANGED rows
    BY <1>3, Zenon DEF RssReconfigure, RssCommitSelf, RssProxyCommit, nexusVars
  <2>2. CASE RssReconfigure(n)
    BY <2>1, <2>2, Zenon DEF RssReconfigure, CoordinateReconfiguration, CommitsOnly
  <2>3. CASE RssCommitSelf(n) \/ RssProxyCommit(n)
    BY <2>1, <2>3, Zenon DEF RssCommitSelf, RssProxyCommit, CommitConfiguration,
                             HasPrepared, CommitsOnly
  <2> QED BY <1>3, <2>2, <2>3
<1> QED BY <1>1, <1>2, <1>3, Zenon DEF Next, RssStepAction

(* The row of rack setup is never lost. *)
FirstRow == rows = {} \/ \E r \in rows : r.epoch = 1

LEMMA StepFirstRow ==
  ASSUME RowsAdvanced, FirstRow, [Next]_vars
  PROVE  FirstRow'
<1>1. CASE \E r \in rows : r.epoch = 1
  <2>1. PICK r \in rows : r.epoch = 1
    BY <1>1
  <2>2. PICK s \in rows' : Advances(r, s)
    BY Zenon DEF RowsAdvanced
  <2>3. s.epoch = 1
    BY <2>1, <2>2, Zenon DEF Advances
  <2> QED BY <2>3, Zenon DEF FirstRow
<1>2. CASE rows = {}
  <2>1. UNCHANGED rows \/ RssHandoff
    BY <1>2, RowSteps, Zenon DEF TqPropose, TqAbort, TqUpdateCommitStatus,
                                 TaskUpdatePrepareStatus
  <2>2. CASE RssHandoff
    <3>1. PICK n : rows' = {RssRow(InitialMembers, n)}
      BY <2>2, Zenon DEF RssHandoff
    <3>2. RssRow(InitialMembers, n).epoch = 1
      BY Zenon DEF RssRow
    <3> HIDE DEF RssRow
    <3> QED BY <3>1, <3>2, Zenon DEF FirstRow
  <2> QED BY <1>2, <2>1, <2>2, Zenon DEF FirstRow
<1> QED BY <1>1, <1>2, Zenon DEF FirstRow

(* The configuration of a decided epoch is an entry of the history. *)
LEMMA StoredInHistory ==
  ASSUME TypeOK, AgreementInv, RowsInv, FirstRow, NEW n \in Node, NEW c \in configs[n],
         DecidedEpoch(c.epoch)
  PROVE  [epoch |-> c.epoch, members |-> c.members] \in DecidedHistory
<1>1. CASE rows = {}
  <2>1. c.epoch = 1
    BY <1>1, Zenon DEF DecidedEpoch
  <2>2. c \in Config
    BY NodeTypes, Zenon
  <2>3. Header(c) \in Headers /\ InUse(Header(c))
    BY <2>2, Zenon DEF Header, Headers, Config, InUse, InNodes
  <2>4. Header(c).epoch = c.epoch /\ Header(c).members = c.members
    BY Zenon DEF Header
  <2> HIDE DEF Header
  <2>5. c.members = InitialMembers
    BY <2>1, <2>3, <2>4, Zenon DEF AgreementInv
  <2> QED BY <1>1, <2>1, <2>5, Zenon DEF DecidedHistory
<1>2. CASE rows # {}
  <2>1. PICK r \in rows : r.epoch = c.epoch /\ Decided(r)
    BY <1>2, Zenon DEF DecidedEpoch, FirstRow, RowsInv
  <2>2. r.members = c.members
    BY <2>1, StoredMembers, Zenon
  <2> QED BY <1>2, <2>1, <2>2, Zenon DEF DecidedHistory, DecidedEntries, EntryOf
<1> QED BY <1>1, <1>2

LEMMA CommitImplements ==
  ASSUME TypeOK, NodeDiskInv, AgreementInv, RowsInv, RequestsInv, NodesInv, DecidedInv,
         FirstRow, [Next]_vars, UNCHANGED rows, NEW n \in Node, CommitsOnly(n)
  PROVE  Rack!Commit(n) \/ UNCHANGED commits
<1>1. CASE ~ UNCHANGED commits
  <2>1. PICK e : HasConfig(n, e) /\ commits' = [commits EXCEPT ![n] = @ \cup {e}]
    BY <1>1, Zenon DEF CommitsOnly
  <2>2. e \in commits'[n]
    BY <2>1, NodeTypes, Zenon
  <2>3. Going(e) \/ Asked(e) \/ e = 1
    BY <2>2, StepNodes, Zenon DEF NothingElseGoing, Going
  <2>4. DecidedEpoch(e)
    BY <2>3, Zenon DEF DecidedInv, DecidedEpoch
  <2>5. PICK c \in configs[n] : c.epoch = e
    BY <2>1, Zenon DEF HasConfig
  <2> DEFINE d == [epoch |-> c.epoch, members |-> c.members]
  <2>6. d \in DecidedHistory
    BY <2>4, <2>5, StoredInHistory, Zenon
  <2>7. d.epoch = e /\ n \in d.members
    BY <2>5, Zenon DEF NodesInv
  <2>8. UNCHANGED <<DecidedHistory, PendingEntries, UsedHistory>>
    BY Zenon DEF DecidedHistory, DecidedEntries, PendingEntries, UsedHistory, UsedEpochs,
                 EntryOf, Decided
  <2> HIDE DEF d
  <2> QED BY <2>1, <2>6, <2>7, <2>8, Zenon DEF Rack!Commit
<1> QED BY <1>1

(* Once there are rows the history is that of the rows. *)
LEMMA HistoryOfRows ==
  /\ rows # {} => DecidedHistory = DecidedEntries /\ UsedHistory = UsedEpochs
  /\ rows' # {} => DecidedHistory' = DecidedEntries' /\ UsedHistory' = UsedEpochs'
BY Zenon DEF DecidedHistory, UsedHistory

(* A step of the rows' history is one of the system's. *)
LEMMA HistoryImplements ==
  ASSUME rows # {}, rows' # {},
         \/ Membership!Next
         \/ UNCHANGED <<DecidedEntries, PendingEntries, UsedEpochs>>
  PROVE  \/ Rack!Next
         \/ UNCHANGED <<DecidedHistory, PendingEntries, UsedHistory>>
<1>1. /\ DecidedHistory = DecidedEntries /\ UsedHistory = UsedEpochs
      /\ DecidedHistory' = DecidedEntries' /\ UsedHistory' = UsedEpochs'
  BY HistoryOfRows, Zenon
<1>2. CASE UNCHANGED <<DecidedEntries, PendingEntries, UsedEpochs>>
  BY <1>1, <1>2, Zenon
<1>3. CASE Membership!Propose
  <2>1. \A d : Membership!IsLatestDecided(d) => Rack!IsLatestDecided(d)
    BY <1>1, Zenon DEF Membership!IsLatestDecided, Rack!IsLatestDecided
  <2>2. \A S : Membership!Changes(S) = Rack!Changes(S)
    BY Zenon DEF Membership!Changes, Rack!Changes
  <2>3. PICK d \in DecidedEntries : \E m \in Membership!Changes(d.members) : \E e \in Epoch :
          /\ PendingEntries = {}
          /\ Membership!IsLatestDecided(d)
          /\ \A u \in UsedEpochs : u < e
          /\ PendingEntries' = {[epoch |-> e, members |-> m]}
          /\ UsedEpochs' = UsedEpochs \cup {e}
          /\ UNCHANGED DecidedEntries
    BY <1>3, Zenon DEF Membership!Propose
  <2> QED BY <1>1, <2>1, <2>2, <2>3, Zenon DEF Rack!Next, Rack!Propose
<1>4. CASE Membership!Decide
  BY <1>1, <1>4, Zenon DEF Membership!Decide, Rack!Next, Rack!Decide
<1>5. CASE Membership!Drop
  BY <1>1, <1>5, Zenon DEF Membership!Drop, Rack!Next, Rack!Drop
<1> QED BY <1>2, <1>3, <1>4, <1>5, Zenon DEF Membership!Next

LEMMA RowsImplement ==
  ASSUME TypeOK, AgreementInv, RowsInv, [Next]_vars
  PROVE  \/ Rack!Next
         \/ UNCHANGED <<DecidedHistory, PendingEntries, UsedHistory>>
<1>t. NexusTypeOK
  BY Zenon DEF TypeOK
<1>1. CASE UNCHANGED rows
  BY <1>1, Zenon DEF DecidedHistory, DecidedEntries, PendingEntries, UsedHistory,
                     UsedEpochs, EntryOf, Decided
<1>2. CASE RssHandoff
  <2>1. PICK n \in InitialMembers :
          rss = "Committing" /\ rows' = {RssRow(InitialMembers, n)}
    BY <1>2, Zenon DEF RssHandoff
  <2> DEFINE r == RssRow(InitialMembers, n)
  <2>2. r.epoch = 1 /\ r.members = InitialMembers /\ r.state = "Committed"
    BY Zenon DEF RssRow
  <2>3. rows = {} /\ rows' = {r}
    BY <2>1, Zenon DEF AgreementInv
  <2> HIDE DEF r
  <2>4. DecidedEntries' = {[epoch |-> 1, members |-> InitialMembers]}
    BY <2>2, <2>3 DEF DecidedEntries, EntryOf, Decided
  <2>5. PendingEntries = {} /\ PendingEntries' = {} /\ UsedEpochs' = {1}
    BY <2>2, <2>3 DEF PendingEntries, UsedEpochs
  <2>6. DecidedHistory = {[epoch |-> 1, members |-> InitialMembers]} /\ UsedHistory = {1}
    BY <2>3, Zenon DEF DecidedHistory, UsedHistory
  <2> QED BY <2>3, <2>4, <2>5, <2>6, HistoryOfRows, Zenon
<1>3. CASE \/ TqPropose \/ TqAbort \/ TqUpdateCommitStatus
           \/ \E t \in Task : TaskUpdatePrepareStatus(t)
  <2>1. rows # {}
    BY <1>3, Zenon DEF TqPropose, TqAbort, TqUpdateCommitStatus, TaskUpdatePrepareStatus
  <2>2. rows' # {}
    BY <2>1, StepRows, Zenon DEF RowsAdvanced
  <2>3. \/ Membership!Next
        \/ UNCHANGED <<DecidedEntries, PendingEntries, UsedEpochs>>
    BY <1>t, <1>3, ProposeImplements, AbortImplements, CommitStatusImplements,
       PrepareStatusImplements, Zenon DEF Membership!Next
  <2> QED BY <2>1, <2>2, <2>3, HistoryImplements
<1> QED BY <1>1, <1>2, <1>3, RowSteps, Zenon

LEMMA RackInitial ==
  ASSUME Init \/ InitAfterHandoff
  PROVE  Rack!Init /\ Rack!InitCommitted /\ FirstRow
<1>1. CASE Init
  <2>1. rows = {} /\ commits = [n \in Node |-> {}]
    BY <1>1, Zenon DEF Init
  <2>2. Rack!Init /\ FirstRow
    BY <2>1 DEF Rack!Init, FirstRow, DecidedHistory, PendingEntries, UsedHistory
  <2>3. commits = [n \in Node |-> IF n \in {} THEN {1} ELSE {}]
    BY <2>1
  <2> QED BY <2>2, <2>3, Zenon DEF Rack!InitCommitted
<1>2. CASE InitAfterHandoff
  <2>1. PICK k \in InitialMembers :
          /\ rows = {RssRow(InitialMembers, k)}
          /\ commits = [n \in Node |-> IF n \in InitialMembers THEN {1} ELSE {}]
    BY <1>2, Zenon DEF InitAfterHandoff
  <2> DEFINE r == RssRow(InitialMembers, k)
  <2>2. r.epoch = 1 /\ r.members = InitialMembers /\ r.state = "Committed"
    BY Zenon DEF RssRow
  <2>3. rows = {r}
    BY <2>1, Zenon
  <2> HIDE DEF r
  <2>4. DecidedEntries = {[epoch |-> 1, members |-> InitialMembers]}
    BY <2>2, <2>3 DEF DecidedEntries, EntryOf, Decided
  <2>5. PendingEntries = {} /\ UsedEpochs = {1} /\ FirstRow
    BY <2>2, <2>3 DEF PendingEntries, UsedEpochs, FirstRow
  <2>6. Rack!Init
    BY <2>3, <2>4, <2>5, HistoryOfRows, Zenon DEF Rack!Init
  <2> QED BY <2>1, <2>5, <2>6, Zenon DEF Rack!InitCommitted
<1> QED BY <1>1, <1>2, Zenon

LEMMA RackStep ==
  ASSUME TypeOK, NodeDiskInv, AgreementInv, RowsInv, RequestsInv, NodesInv, DecidedInv,
         FirstRow, [Next]_vars
  PROVE  [Rack!RackNext]_<<DecidedHistory, PendingEntries, UsedHistory, commits>>
<1>1. \/ UNCHANGED commits
      \/ UNCHANGED rows /\ \E n \in Node : Rack!Commit(n)
  BY RackSteps, CommitImplements, Zenon
<1>2. \/ Rack!Next
      \/ UNCHANGED <<DecidedHistory, PendingEntries, UsedHistory>>
  BY RowsImplement, Zenon
<1> QED BY <1>1, <1>2, Zenon DEF Rack!RackNext

(* Rack setup, Nexus and the nodes together implement one history of        *)
(* memberships, and a sled commits nothing but an entry of it that has the  *)
(* sled as a member (trust_quorum.rs, node.rs and the RSS handoff).         *)
THEOREM SystemIsOneRack ==
  ASSUME ~ Overtaking
  PROVE  (Init \/ InitAfterHandoff) /\ [][Next]_vars => OneRack
<1>1. ASSUME TypeOK, AgreementInv, RowsInv, FirstRow, [Next]_vars
      PROVE  FirstRow'
  BY <1>1, StepRows, StepFirstRow, Zenon
<1> QED
  BY <1>1, RackInitial, RackStep, TypeCorrect, NodeDiskInvariant, AgreementInvariant,
     NodesInvariant, DecidedInvariant, PTL DEF OneRack, Rack!RackSpec

=============================================================================
