------------------------ MODULE TQRecoverableProofs ------------------------
(***************************************************************************)
(* What Nexus records of the ledgers: proofs, for every number of sleds,   *)
(* Nexus instances and epochs, that acknowledged configurations are saved  *)
(* with their shares, and that what Nexus decides on can be recovered.     *)
(***************************************************************************)
EXTENDS TrustQuorumProofs, FiniteSetTheorems

(* An acknowledged prepare is on disk at every stage of its way, also in an *)
(* answer that a background task holds and in the database.                 *)
StatusAcks ==
  \A t \in Task : \A a \in task[t] : \A st \in a.status :
    \A m \in st.acks : OnDisk(m, st.config.epoch)

RowAcks ==
  \A r \in rows : \A n \in InState(r, "Prepared") : OnDisk(n, r.epoch)

DiskInv == NodeDiskInv /\ StatusAcks /\ RowAcks /\ DecidedIsRecoverable

-----------------------------------------------------------------------------
(* Nexus.                                                                   *)

LEMMA PollDisk ==
  ASSUME TypeOK, DiskInv, NEW t \in Task, NexusPoll(t)
  PROVE  StatusAcks'
<1>1. PICK a \in task[t] : \E cs \in coord[a.row.coordinator] :
        TaskPoll(t, CoordinatorStatus(cs)) /\ UNCHANGED nodeVars
  BY Zenon DEF NexusPoll
<1>2. PICK cs \in coord[a.row.coordinator] :
        TaskPoll(t, CoordinatorStatus(cs)) /\ UNCHANGED nodeVars
  BY <1>1, Zenon
<1> DEFINE st == CoordinatorStatus(cs)
<1>3. a.row.coordinator \in Node
  BY DEF TypeOK, NexusTypeOK, Activation, Row
<1>4. \A n \in st.acks : OnDisk(n, st.config.epoch)
  <2>1. /\ st.config = cs.config
        /\ st.acks = IF cs.op = "Prepare" THEN cs.replies ELSE {}
    BY Zenon DEF CoordinatorStatus
  <2>2. cs.op = "Prepare" => \A n \in cs.replies : OnDisk(n, cs.config.epoch)
    BY <1>3, Zenon DEF DiskInv, NodeDiskInv, CoordAcks
  <2> HIDE DEF st
  <2> QED BY <2>1, <2>2, Zenon
<1>5. \A n, e : OnDisk(n, e) => OnDisk(n, e)'
  BY <1>2, Zenon DEF nodeVars, OnDisk, HasConfig
<1> HIDE DEF st
<1>6. PICK b \in task[t] : task' = [task EXCEPT ![t] = {[b EXCEPT !.status = {st}]}]
  BY <1>2, Zenon DEF TaskPoll, st
<1>7. [b EXCEPT !.status = {st}].status = {st}
  BY DEF TypeOK, NexusTypeOK, Activation
<1>8. ASSUME NEW u \in Task, NEW x \in task'[u], NEW s \in x.status
      PROVE  s = st \/ x \in task[u]
  <2>1. CASE u = t
    <3>1. x = [b EXCEPT !.status = {st}]
      BY <1>6, <2>1, Zenon DEF TypeOK, NexusTypeOK
    <3> QED BY <1>7, <3>1, Zenon
  <2>2. CASE u # t
    BY <1>6, <2>2, Zenon DEF TypeOK, NexusTypeOK
  <2> QED BY <2>1, <2>2, Zenon
<1> QED BY <1>4, <1>5, <1>8, Zenon DEF StatusAcks, DiskInv

(* A configuration becomes decided when K + Z of its members are recorded   *)
(* as prepared.                                                             *)
LEMMA PrepareStatusDisk ==
  ASSUME TypeOK, DiskInv, NEW t \in Task, TaskUpdatePrepareStatus(t),
         UNCHANGED nodeVars
  PROVE  StatusAcks' /\ RowAcks' /\ DecidedIsRecoverable'
<1>1. PICK a \in task[t] : \E st \in a.status, r \in rows :
        /\ PrepareStatusApplies(r, st)
        /\ rows' = (rows \ {r}) \cup {UpdatePrepareStatus(r, st)}
        /\ task' = [task EXCEPT ![t] = {}]
  BY Zenon DEF TaskUpdatePrepareStatus
<1>2. PICK st \in a.status, r \in rows :
        /\ PrepareStatusApplies(r, st)
        /\ rows' = (rows \ {r}) \cup {UpdatePrepareStatus(r, st)}
        /\ task' = [task EXCEPT ![t] = {}]
  BY <1>1, Zenon
<1> DEFINE r2 == UpdatePrepareStatus(r, st)
<1>3. r \in Row /\ st \in Status
  BY DEF TypeOK, NexusTypeOK, Activation
<1>4. \A n, e : OnDisk(n, e)' = OnDisk(n, e)
  BY Zenon DEF nodeVars, OnDisk, HasConfig
<1>5. StatusAcks'
  <2>1. \A u \in Task : task'[u] \subseteq task[u]
    BY <1>2, Zenon DEF TypeOK, NexusTypeOK
  <2> QED BY <1>4, <2>1, Zenon DEF StatusAcks, DiskInv
<1>6. /\ r2.epoch = r.epoch /\ r2.members = r.members
      /\ r2.mstate = AckPrepares(r, st.acks)
      /\ r2.state = IF Enough(r, InState(r2, "Prepared")) THEN "Committing" ELSE r.state
  BY <1>3, Zenon DEF UpdatePrepareStatus, Row, InState
<1>7. \A n \in InState(r2, "Prepared") : OnDisk(n, r2.epoch)
  <2>1. ASSUME NEW n \in InState(r2, "Prepared") PROVE OnDisk(n, r2.epoch)
    <3>1. n \in r.members /\ n \in Node /\ AckPrepares(r, st.acks)[n] = "Prepared"
      BY <1>3, <1>6, <2>1, Zenon DEF InState, Row
    <3>2. CASE r.mstate[n] = "Prepared"
      BY <1>6, <3>1, <3>2, Zenon DEF DiskInv, RowAcks, InState
    <3>3. CASE n \in st.acks
      BY <1>2, <1>6, <3>3, Zenon DEF DiskInv, StatusAcks, PrepareStatusApplies
    <3> QED BY <3>1, <3>2, <3>3, Zenon DEF AckPrepares
  <2> QED BY <2>1, Zenon
<1>8. rows' = (rows \ {r}) \cup {r2}
  BY <1>2, Zenon
<1> HIDE DEF r2
<1>9. RowAcks'
  BY <1>4, <1>7, <1>8, Zenon DEF RowAcks, DiskInv
<1>10. ASSUME Decided(r2)
       PROVE  Cardinality({n \in r2.members : OnDisk(n, r2.epoch)})
                >= Threshold(r2.members) + CommitCrashTolerance(r2.members)
  <2>1. Enough(r, InState(r2, "Prepared"))
    BY <1>2, <1>6, <1>10, Zenon DEF PrepareStatusApplies, Decided
  <2> DEFINE S == {n \in r2.members : OnDisk(n, r2.epoch)}
             A == InState(r2, "Prepared")
  <2>2. A \subseteq S /\ S \subseteq Node
    BY <1>3, <1>6, <1>7, Zenon DEF InState, Row
  <2>3. IsFiniteSet(S)
    BY <2>2, NodeAssumption, FS_Subset, Zenon
  <2>4. Cardinality(A) <= Cardinality(S) /\ Cardinality(A) \in Nat /\ Cardinality(S) \in Nat
    BY <2>2, <2>3, FS_Subset, FS_CardinalityType, Zenon
  <2>5. Cardinality(A) >= Threshold(r2.members) + CommitCrashTolerance(r2.members)
    BY <1>6, <2>1, Zenon DEF Enough
  <2>6. Threshold(r2.members) + CommitCrashTolerance(r2.members) \in Int
    <3>1. IsFiniteSet(r2.members)
      BY <1>3, <1>6, NodeAssumption, FS_Subset DEF Row
    <3>2. Cardinality(r2.members) \in Nat
      BY <3>1, FS_CardinalityType, Zenon
    <3> QED BY <3>2 DEF Threshold, CommitCrashTolerance
  <2> HIDE DEF S, A
  <2>7. Cardinality(S) >= Threshold(r2.members) + CommitCrashTolerance(r2.members)
    BY <2>4, <2>5, <2>6
  <2> QED BY <2>7, Zenon DEF S
<1>11. DecidedIsRecoverable'
  <2>1. ASSUME NEW x \in rows', Decided(x)
        PROVE  Cardinality({n \in x.members : OnDisk(n, x.epoch)})
                 >= Threshold(x.members) + CommitCrashTolerance(x.members)
    BY <1>8, <1>10, <2>1, Zenon DEF DiskInv, DecidedIsRecoverable
  <2>2. \A x : {n \in x.members : OnDisk(n, x.epoch)'} = {n \in x.members : OnDisk(n, x.epoch)}
    BY <1>4, Zenon
  <2> QED BY <2>1, <2>2, Zenon DEF DecidedIsRecoverable, Decided
<1> QED BY <1>5, <1>9, <1>11, Zenon

(* A row that was already decided, or is replaced by one that is decided    *)
(* only if it was, stays recoverable because ledgers only grow.             *)
LEMMA StillRecoverable ==
  ASSUME TypeOK, DiskInv, Grows, NEW r \in rows, Decided(r)
  PROVE  Cardinality({n \in r.members : OnDisk(n, r.epoch)'})
           >= Threshold(r.members) + CommitCrashTolerance(r.members)
<1> DEFINE S == {n \in r.members : OnDisk(n, r.epoch)}
           U == {n \in r.members : OnDisk(n, r.epoch)'}
<1>1. r \in Row
  BY Zenon DEF TypeOK, NexusTypeOK
<1>2. S \subseteq U /\ U \subseteq r.members /\ r.members \subseteq Node
  BY <1>1, DiskGrows, Zenon DEF Row
<1>3. IsFiniteSet(U) /\ IsFiniteSet(r.members)
  BY <1>2, NodeAssumption, FS_Subset, Zenon
<1>4. /\ Cardinality(S) <= Cardinality(U) /\ Cardinality(S) \in Nat
      /\ Cardinality(U) \in Nat /\ Cardinality(r.members) \in Nat
  BY <1>2, <1>3, FS_Subset, FS_CardinalityType
<1>5. Cardinality(S) >= Threshold(r.members) + CommitCrashTolerance(r.members)
  BY Zenon DEF DiskInv, DecidedIsRecoverable
<1>6. Threshold(r.members) + CommitCrashTolerance(r.members) \in Int
  BY <1>4 DEF Threshold, CommitCrashTolerance
<1> HIDE DEF S, U
<1>7. Cardinality(U) >= Threshold(r.members) + CommitCrashTolerance(r.members)
  BY <1>4, <1>5, <1>6
<1> QED BY <1>7, Zenon DEF U

(* For the rows it is enough that those a step adds come from old ones      *)
(* without new prepared members and without becoming decided.               *)
LEMMA RowsDiskKept ==
  ASSUME TypeOK, DiskInv, Grows,
         \A r \in rows' :
           \/ ~ Decided(r) /\ InState(r, "Prepared") = {}
           \/ \E s \in rows :
                /\ r.epoch = s.epoch /\ r.members = s.members
                /\ InState(r, "Prepared") \subseteq InState(s, "Prepared")
                /\ Decided(r) => Decided(s)
  PROVE  RowAcks' /\ DecidedIsRecoverable'
<1>1. ASSUME NEW r \in rows', NEW n \in InState(r, "Prepared")
      PROVE  OnDisk(n, r.epoch)'
  <2>1. PICK s \in rows : r.epoch = s.epoch /\ n \in InState(s, "Prepared")
    BY <1>1, Zenon
  <2>2. n \in Node
    BY <2>1, Zenon DEF InState, TypeOK, NexusTypeOK, Row
  <2>3. OnDisk(n, s.epoch)
    BY <2>1, Zenon DEF DiskInv, RowAcks
  <2> QED BY <2>1, <2>2, <2>3, DiskGrows
<1>2. ASSUME NEW r \in rows', Decided(r)
      PROVE  Cardinality({n \in r.members : OnDisk(n, r.epoch)'})
               >= Threshold(r.members) + CommitCrashTolerance(r.members)
  <2>1. PICK s \in rows : r.epoch = s.epoch /\ r.members = s.members /\ Decided(s)
    BY <1>2, Zenon
  <2> QED BY <2>1, StillRecoverable, Zenon
<1>3. RowAcks'
  BY <1>1, Zenon DEF RowAcks, InState
<1>4. DecidedIsRecoverable'
  BY <1>2, Zenon DEF DecidedIsRecoverable, Decided
<1> QED BY <1>3, <1>4, Zenon

(* K + Z is never more than a valid membership has. *)
LEMMA ValidSizeRecoverable ==
  ASSUME NEW S \in SUBSET Node, ValidSize(S)
  PROVE  Cardinality(S) >= Threshold(S) + CommitCrashTolerance(S)
<1>1. Cardinality(S) \in Nat
  BY NodeAssumption, FS_Subset, FS_CardinalityType, Zenon
<1> QED BY <1>1 DEF ValidSize, Threshold, CommitCrashTolerance

LEMMA StatusKept ==
  ASSUME TypeOK, DiskInv, Grows, \A t \in Task : task'[t] \subseteq task[t]
  PROVE  StatusAcks'
<1>1. \A t \in Task : \A a \in task[t] : \A st \in a.status : st.acks \subseteq Node
  BY DEF TypeOK, NexusTypeOK, Activation, Status
<1> QED BY <1>1, DiskGrows, Zenon DEF StatusAcks, DiskInv

LEMMA NexusDisk ==
  ASSUME TypeOK, DiskInv, Grows, NexusStep
  PROVE  StatusAcks' /\ RowAcks' /\ DecidedIsRecoverable'
<1> USE DEF TypeOK
<1>0. UNCHANGED nodeVars
  BY Zenon DEF NexusStep, NexusPoll
<1>1. CASE TqPropose
  <2>1. PICK latest \in rows, lc \in rows, members \in SUBSET Node, coordinator \in Node :
          LET new == NewRow(latest.epoch + 1, lc.epoch, members, coordinator) IN
            /\ LastCommitted(latest, lc)
            /\ rows' = (rows \ {lc}) \cup {CommitPartially(lc), new}
            /\ UNCHANGED task
    BY <1>1, ProposeFacts
  <2> DEFINE new == NewRow(latest.epoch + 1, lc.epoch, members, coordinator)
             old == CommitPartially(lc)
  <2>2. ~ Decided(new) /\ InState(new, "Prepared") = {}
    BY Zenon DEF NewRow, Decided, InState
  <2>3. /\ old.epoch = lc.epoch /\ old.members = lc.members
        /\ InState(old, "Prepared") = InState(lc, "Prepared")
        /\ Decided(lc)
    BY <2>1, Zenon DEF CommitPartially, InState, Decided, LastCommitted, IsCommitted,
                NexusTypeOK, Row
  <2>4. rows' = (rows \ {lc}) \cup {old, new}
    BY <2>1, Zenon
  <2> HIDE DEF new, old
  <2>5. RowAcks' /\ DecidedIsRecoverable'
    BY <2>2, <2>3, <2>4, RowsDiskKept, Zenon
  <2> QED BY <2>1, <2>5, StatusKept, Zenon
<1>2. CASE TqAbort
  <2>1. PICK r \in rows :
          /\ rows' = (rows \ {r}) \cup {[r EXCEPT !.state = "Aborted"]}
          /\ UNCHANGED task
    BY <1>2, Zenon DEF TqAbort
  <2> DEFINE r2 == [r EXCEPT !.state = "Aborted"]
  <2>2. /\ r2.epoch = r.epoch /\ r2.members = r.members /\ ~ Decided(r2)
        /\ InState(r2, "Prepared") = InState(r, "Prepared")
    BY Zenon DEF NexusTypeOK, Row, Decided, InState
  <2>3. rows' = (rows \ {r}) \cup {r2}
    BY <2>1, Zenon
  <2> HIDE DEF r2
  <2>4. RowAcks' /\ DecidedIsRecoverable'
    BY <2>2, <2>3, RowsDiskKept, Zenon
  <2> QED BY <2>1, <2>4, StatusKept, Zenon
<1>3. CASE TqUpdateCommitStatus
  <2>1. PICK r \in rows, acked \in SUBSET Node :
          /\ r.state = "Committing"
          /\ rows' = (rows \ {r}) \cup {UpdateCommitStatus(r, acked)}
          /\ UNCHANGED task
    BY <1>3, Zenon DEF TqUpdateCommitStatus
  <2> DEFINE r2 == UpdateCommitStatus(r, acked)
  <2>2. /\ r2.epoch = r.epoch /\ r2.members = r.members /\ Decided(r)
        /\ InState(r2, "Prepared") \subseteq InState(r, "Prepared")
    BY <2>1, Zenon DEF UpdateCommitStatus, NexusTypeOK, Row, Decided, InState
  <2>3. rows' = (rows \ {r}) \cup {r2}
    BY <2>1, Zenon
  <2> HIDE DEF r2
  <2>4. RowAcks' /\ DecidedIsRecoverable'
    BY <2>2, <2>3, RowsDiskKept, Zenon
  <2> QED BY <2>1, <2>4, StatusKept, Zenon
<1>4. ASSUME UNCHANGED rows PROVE RowAcks' /\ DecidedIsRecoverable'
  BY <1>4, RowsDiskKept, Zenon
<1>5. CASE TaskCommit
  BY <1>4, <1>5, StatusKept, Zenon DEF TaskCommit
<1>6. ASSUME NEW t \in Task, TaskLoad(t) \/ TaskFail(t)
      PROVE  StatusAcks' /\ RowAcks' /\ DecidedIsRecoverable'
  <2>1. UNCHANGED rows
    BY <1>6, Zenon DEF TaskLoad, TaskFail
  <2>2. CASE TaskFail(t)
    BY <1>4, <2>1, <2>2, StatusKept DEF TaskFail, NexusTypeOK
  <2>3. CASE TaskLoad(t)
    <3>1. PICK r \in rows : task' = [task EXCEPT ![t] = {[row |-> r, status |-> {}]}]
      BY <2>3, Zenon DEF TaskLoad
    <3>2. \A u \in Task : \A a \in task'[u] : a \in task[u] \/ a.status = {}
      BY <3>1 DEF NexusTypeOK
    <3>3. \A u \in Task : \A a \in task[u] : \A st \in a.status : st.acks \subseteq Node
      BY DEF NexusTypeOK, Activation, Status
    <3>4. StatusAcks'
      BY <3>2, <3>3, DiskGrows, Zenon DEF StatusAcks, DiskInv
    <3> QED BY <1>4, <2>1, <3>4, Zenon
  <2> QED BY <1>6, <2>2, <2>3, Zenon
<1>7. ASSUME NEW t \in Task, TaskUpdatePrepareStatus(t)
      PROVE  StatusAcks' /\ RowAcks' /\ DecidedIsRecoverable'
  BY <1>0, <1>7, PrepareStatusDisk, Zenon
<1>8. ASSUME NEW t \in Task, NexusPoll(t)
      PROVE  StatusAcks' /\ RowAcks' /\ DecidedIsRecoverable'
  <2>1. UNCHANGED rows
    BY <1>8, Zenon DEF NexusPoll, TaskPoll
  <2> QED BY <1>4, <1>8, <2>1, PollDisk, Zenon
<1> QED BY <1>1, <1>2, <1>3, <1>5, <1>6, <1>7, <1>8, Zenon DEF NexusStep

(* Rack setup hands off only what every initial member has committed. *)
LEMMA HandoffDisk ==
  ASSUME TypeOK, DiskInv, Grows, RssHandoff
  PROVE  StatusAcks' /\ RowAcks' /\ DecidedIsRecoverable'
<1>1. PICK k \in InitialMembers :
        /\ AllCommitted
        /\ rows' = {RssRow(InitialMembers, k)}
        /\ UNCHANGED <<nodeVars, task>>
  BY Zenon DEF RssHandoff
<1> DEFINE r == RssRow(InitialMembers, k)
<1>2. /\ r.epoch = 1 /\ r.members = InitialMembers
      /\ InState(r, "Prepared") = {}
  BY InitialMembersAssumption, Zenon DEF RssRow, InState
<1>3. rows' = {r}
  BY <1>1, Zenon
<1> HIDE DEF r
<1>4. \A n \in InitialMembers : OnDisk(n, 1)
  BY <1>1, InitialMembersAssumption, Zenon
     DEF AllCommitted, DiskInv, NodeDiskInv, CommittedIsPrepared
<1>5. \A n \in InitialMembers : OnDisk(n, 1)'
  BY <1>4, InitialMembersAssumption, DiskGrows, Zenon
<1>6. {n \in r.members : OnDisk(n, r.epoch)'} = InitialMembers
  BY <1>2, <1>5, Zenon
<1>7. Cardinality({n \in r.members : OnDisk(n, r.epoch)'})
        >= Threshold(r.members) + CommitCrashTolerance(r.members)
  BY <1>2, <1>6, ValidSizeRecoverable, InitialMembersAssumption, Zenon
<1>8. RowAcks' /\ DecidedIsRecoverable'
  BY <1>2, <1>3, <1>7, Zenon DEF RowAcks, DecidedIsRecoverable, InState, Decided
<1> QED BY <1>1, <1>8, StatusKept, Zenon

LEMMA StepDisk ==
  ASSUME TypeOK, DiskInv, [Next]_vars
  PROVE  DiskInv'
<1>1. Grows /\ NodeDiskInv'
  BY StepNodeDisk, Zenon DEF DiskInv
<1>2. CASE NexusStep
  BY <1>1, <1>2, NexusDisk, Zenon DEF DiskInv
<1>3. CASE RssHandoff
  BY <1>1, <1>3, HandoffDisk, Zenon DEF DiskInv
<1>4. CASE UNCHANGED <<rows, task>>
  <2>1. RowAcks' /\ DecidedIsRecoverable'
    BY <1>1, <1>4, RowsDiskKept, Zenon
  <2> QED BY <1>1, <1>4, <2>1, StatusKept, Zenon DEF DiskInv
<1>5. ASSUME NEW n \in Node, NodeStep(n)
      PROVE  UNCHANGED <<rows, task>>
  BY <1>5, Zenon DEF NodeStep, LoadSecrets, NodeReconfigure, NodeCommit,
              NodePrepareAndCommit, nexusVars
<1>6. ASSUME NEW n \in Node, RssReconfigure(n) \/ RssCommitSelf(n) \/ RssProxyCommit(n)
      PROVE  UNCHANGED <<rows, task>>
  BY <1>6, Zenon DEF RssReconfigure, RssCommitSelf, RssProxyCommit, nexusVars
<1>7. CASE UNCHANGED vars
  BY <1>4, <1>7, Zenon DEF vars
<1> QED BY <1>2, <1>3, <1>4, <1>5, <1>6, <1>7 DEF Next, RssStepAction

LEMMA InitialDisk ==
  ASSUME Init \/ InitAfterHandoff
  PROVE  DiskInv
<1> USE DEF StatusAcks, RowAcks, DecidedIsRecoverable
<1>1. CASE Init
  <2>1. StatusAcks /\ RowAcks /\ DecidedIsRecoverable
    BY <1>1, Zenon DEF Init
  <2> QED BY <2>1, InitialNodeDisk, Zenon DEF DiskInv
<1>2. CASE InitAfterHandoff
  <2>1. PICK k \in InitialMembers :
          /\ rows = {RssRow(InitialMembers, k)}
          /\ task = [t \in Task |-> {}]
    BY <1>2, Zenon DEF InitAfterHandoff
  <2>2. \A n \in InitialMembers : OnDisk(n, 1)
    BY <2>1, InitialNodeDisk, Zenon
  <2> DEFINE r == RssRow(InitialMembers, k)
  <2>3. /\ r.epoch = 1 /\ r.members = InitialMembers
        /\ InState(r, "Prepared") = {}
    BY InitialMembersAssumption, Zenon DEF RssRow, InState
  <2>4. rows = {r}
    BY <2>1, Zenon
  <2> HIDE DEF r
  <2>5. {n \in r.members : OnDisk(n, r.epoch)} = InitialMembers
    BY <2>2, <2>3, Zenon
  <2>6. Cardinality({n \in r.members : OnDisk(n, r.epoch)})
          >= Threshold(r.members) + CommitCrashTolerance(r.members)
    BY <2>3, <2>5, ValidSizeRecoverable, InitialMembersAssumption
  <2>7. StatusAcks
    BY <2>1, Zenon
  <2>8. RowAcks /\ DecidedIsRecoverable
    BY <2>3, <2>4, <2>6, Zenon
  <2> QED BY <2>7, <2>8, InitialNodeDisk, Zenon DEF DiskInv
<1> QED BY <1>1, <1>2, Zenon

-----------------------------------------------------------------------------
(* The theorems, from an uninitialized rack or from one just handed off.    *)

(* The ledgers, messages, coordinators, held answers and rows keep DiskInv: *)
(* no acknowledgement gets ahead of the ledger write it stands for.         *)
THEOREM DiskInvariant ==
  (Init \/ InitAfterHandoff) /\ [][Next]_vars => [](TypeOK /\ DiskInv)
<1>1. Init \/ InitAfterHandoff => TypeOK /\ DiskInv
  BY InitialType, InitialDisk, Zenon
<1>2. TypeOK /\ DiskInv /\ [Next]_vars => TypeOK' /\ DiskInv'
  BY StepType, StepDisk, Zenon
<1> QED BY <1>1, <1>2, PTL

(* An acknowledgement that a coordinator or Nexus has recorded stands for a *)
(* configuration and share on disk, although it passed through messages,    *)
(* memory and stale answers on its way.                                     *)
THEOREM AckedIsAlwaysPrepared ==
  (Init \/ InitAfterHandoff) /\ [][Next]_vars => []AckedIsPrepared
<1>1. CoordAcks /\ RowAcks => AckedIsPrepared
  BY Zenon DEF CoordAcks, RowAcks, AckedIsPrepared
<1> QED BY <1>1, DiskInvariant, PTL DEF DiskInv, NodeDiskInv

(* A configuration that Nexus has decided to commit is held by K + Z of its *)
(* members for ever.                                                        *)
THEOREM DecidedIsAlwaysRecoverable ==
  (Init \/ InitAfterHandoff) /\ [][Next]_vars => []DecidedIsRecoverable
BY DiskInvariant, PTL DEF DiskInv

=============================================================================
