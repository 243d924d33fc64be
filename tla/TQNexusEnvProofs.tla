-------------------------- MODULE TQNexusEnvProofs --------------------------
(***************************************************************************)
(* Nexus keeps its rows in order whatever the sleds answer: the invariants *)
(* that the runs of MCNexus check, for every number of sleds, Nexus        *)
(* instances and epochs.                                                   *)
(***************************************************************************)
EXTENDS TQNexusEnv, TQNexusProofs

LEMMA AnyStatusType ==
  ASSUME NexusTypeOK, RowsInv
  PROVE  AnyStatus \subseteq Status
<1> SUFFICES ASSUME NEW st \in AnyStatus PROVE st \in Status
  OBVIOUS
<1>1. PICK r \in {s \in rows : s.epoch > 1} :
        \/ st = [config |-> [ToConfiguration(r) EXCEPT !.secrets = {}], acks |-> {}]
        \/ \E acks \in SUBSET r.members :
             st = [config |-> [ToConfiguration(r) EXCEPT !.secrets = {r.last}],
                   acks |-> acks \cup {r.coordinator}]
  BY DEF AnyStatus
<1>2. /\ ToConfiguration(r) \in Config
      /\ r.members \in SUBSET Node /\ r.coordinator \in Node
  BY DEF NexusTypeOK, Row, ToConfiguration, Config
<1>3. r.last \in Epoch
  BY DEF NexusTypeOK, RowsInv, ChainOfCommits, Row
<1>4. \A S \in SUBSET Epoch : [ToConfiguration(r) EXCEPT !.secrets = S] \in Config
  BY <1>2 DEF Config
<1> HIDE DEF ToConfiguration
<1> QED
  BY <1>1, <1>2, <1>3, <1>4 DEF Status

LEMMA NexusInitial ==
  ASSUME Init
  PROVE  NexusTypeOK /\ RowsInv
<1>1. PICK k \in InitialMembers : rows = {RssRow(InitialMembers, k)}
  BY DEF Init
<1>2. RssRow(InitialMembers, k) \in Row
  BY RssRowType, InitialMembersAssumption
<1>3. NexusTypeOK
  BY <1>1, <1>2 DEF Init, NexusTypeOK
<1>4. RssRow(InitialMembers, k).epoch = 1 /\ RssRow(InitialMembers, k).state = "Committed"
  BY DEF RssRow
<1>5. RowsInv
  BY <1>1, <1>4 DEF RowsInv, Decided, ActiveIsLatest, IsActive, ChainOfCommits
<1> QED BY <1>3, <1>5

LEMMA NexusPreserves ==
  ASSUME NexusTypeOK, RowsInv, [Next]_nexusVars
  PROVE  NexusTypeOK' /\ RowsInv'
<1>1. CASE TqPropose
  BY <1>1, ProposeType, ProposeRows
<1>2. CASE TqAbort
  BY <1>2, AbortType, AbortRows
<1>3. CASE TqUpdateCommitStatus
  BY <1>3, CommitStatusType, CommitStatusRows
<1>4. CASE TaskCommit
  <2>1. UNCHANGED <<rows, task, commitAcks>> /\ requests' \subseteq Request
    BY <1>4, CommitOpsType DEF TaskCommit, NexusTypeOK
  <2> QED BY <2>1, RowsUnchanged DEF NexusTypeOK
<1>5. ASSUME NEW t \in Task,
             TaskLoad(t) \/ AnyPoll(t) \/ TaskUpdatePrepareStatus(t) \/ TaskFail(t)
      PROVE  NexusTypeOK' /\ RowsInv'
  <2>1. CASE TaskUpdatePrepareStatus(t)
    BY <2>1, PrepareStatusType, PrepareStatusRows
  <2>2. CASE TaskLoad(t) \/ TaskFail(t)
    <3>1. UNCHANGED rows
      BY <2>2 DEF TaskLoad, TaskFail
    <3> QED BY <2>2, <3>1, TaskType, RowsUnchanged
  <2>3. CASE AnyPoll(t)
    <3>1. PICK st \in Status : TaskPoll(t, st)
      BY <2>3, AnyStatusType DEF AnyPoll
    <3>2. UNCHANGED rows
      BY <3>1 DEF TaskPoll
    <3> QED BY <3>1, <3>2, TaskType, RowsUnchanged
  <2> QED BY <1>5, <2>1, <2>2, <2>3
<1>6. CASE UNCHANGED nexusVars
  <2>1. UNCHANGED <<rows, task, requests, commitAcks>>
    BY <1>6 DEF nexusVars
  <2> QED BY <2>1, RowsUnchanged DEF NexusTypeOK
<1> QED BY <1>1, <1>2, <1>3, <1>4, <1>5, <1>6 DEF Next

(* Whatever the sleds answer, the rows keep their types and RowsInv.        *)
THEOREM NexusInvariant == Spec => [](NexusTypeOK /\ RowsInv)
BY NexusInitial, NexusPreserves, PTL DEF Spec

(* At most one configuration is active, and it is the latest: the          *)
(* background task's query, which keeps the lowest active epoch, finds it.  *)
THEOREM NexusActiveIsLatest == Spec => []ActiveIsLatest
BY NexusInvariant, PTL DEF RowsInv

(* Each configuration's last_committed_epoch is the decided configuration   *)
(* right below it, in every history of proposals, aborts and commits.       *)
THEOREM NexusChainOfCommits == Spec => []ChainOfCommits
BY NexusInvariant, PTL DEF RowsInv

(* Whatever stale answers Nexus instances record, and in whichever order,   *)
(* no transaction takes back what an earlier one recorded.                  *)
THEOREM NexusRowsOnlyAdvance == Spec => RowsOnlyAdvance
<1> DEFINE A == \A r \in rows : \E s \in rows' : Advances(r, s)
<1>1. ASSUME NexusTypeOK, RowsInv, [Next]_nexusVars
      PROVE  [A]_rows
  <2>1. CASE TqPropose \/ TqAbort \/ TqUpdateCommitStatus
               \/ \E t \in Task : TaskUpdatePrepareStatus(t)
    BY <1>1, <2>1, RowsAdvance
  <2>2. CASE ~ (TqPropose \/ TqAbort \/ TqUpdateCommitStatus
                  \/ \E t \in Task : TaskUpdatePrepareStatus(t))
    BY <1>1, <2>2 DEF Next, TaskLoad, TaskFail, AnyPoll, TaskPoll, TaskCommit,
                      nexusVars
  <2> QED BY <2>1, <2>2
<1> QED
  BY <1>1, NexusInvariant, PTL DEF Spec, RowsOnlyAdvance

-----------------------------------------------------------------------------
(* The refinement.                                                         *)

(* Whatever the sleds answer, proposals, aborts and recorded answers        *)
(* implement one history of memberships, each a change of the one before.   *)
THEOREM NexusOneHistory == Spec => OneHistory
<1>1. ASSUME Init
      PROVE  Membership!Init
  <2>1. PICK k \in InitialMembers : rows = {RssRow(InitialMembers, k)}
    BY <1>1 DEF Init
  <2> DEFINE r == RssRow(InitialMembers, k)
  <2>2. r.epoch = 1 /\ r.members = InitialMembers /\ r.state = "Committed"
    BY DEF RssRow
  <2>3. rows = {r}
    BY <2>1
  <2> HIDE DEF r
  <2>4. DecidedEntries = {[epoch |-> 1, members |-> InitialMembers]}
    BY <2>2, <2>3 DEF DecidedEntries, EntryOf, Decided
  <2>5. PendingEntries = {} /\ UsedEpochs = {1}
    BY <2>2, <2>3 DEF PendingEntries, UsedEpochs
  <2> QED BY <2>4, <2>5 DEF Membership!Init
<1>2. ASSUME NexusTypeOK, RowsInv, [Next]_nexusVars
      PROVE  [Membership!Next]_<<DecidedEntries, PendingEntries, UsedEpochs>>
  <2> USE DEF Membership!Next
  <2>1. CASE TqPropose
    BY <1>2, <2>1, ProposeImplements
  <2>2. CASE TqAbort
    BY <1>2, <2>2, AbortImplements
  <2>3. CASE TqUpdateCommitStatus
    BY <1>2, <2>3, CommitStatusImplements
  <2>4. CASE \E t \in Task : TaskUpdatePrepareStatus(t)
    BY <1>2, <2>4, PrepareStatusImplements
  <2>5. CASE UNCHANGED rows
    BY <2>5 DEF DecidedEntries, PendingEntries, UsedEpochs, Decided
  <2>6. \/ TqPropose \/ TqAbort \/ TqUpdateCommitStatus
        \/ \E t \in Task : TaskUpdatePrepareStatus(t)
        \/ UNCHANGED rows
    BY <1>2 DEF Next, TaskLoad, TaskFail, AnyPoll, TaskPoll, TaskCommit, nexusVars
  <2> QED BY <2>1, <2>2, <2>3, <2>4, <2>5, <2>6
<1> QED
  BY <1>1, <1>2, NexusInvariant, PTL DEF Spec, OneHistory, Membership!Spec

=============================================================================
