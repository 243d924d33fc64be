--------------------------- MODULE TQNexusProofs ---------------------------
(***************************************************************************)
(* The inductive invariant of the trust quorum rows in the database, and   *)
(* its preservation by every transaction of Nexus.                         *)
(***************************************************************************)
EXTENDS TQNexus, TLAPS

(* Rows are identified by their epoch, the first one is decided, and a      *)
(* partially committed one is never the latest (so that it cannot be        *)
(* aborted).                                                                *)
RowsInv ==
  /\ \A r, s \in rows : r.epoch = s.epoch => r = s
  /\ \A r \in rows : r.epoch = 1 => Decided(r)
  /\ \A r \in rows : r.state = "CommittedPartially" =>
                       \E s \in rows : s.epoch > r.epoch
  /\ ActiveIsLatest
  /\ ChainOfCommits

-----------------------------------------------------------------------------
(* Replacing a row.                                                         *)

(* A row may be replaced by one with the same epoch that is decided if the  *)
(* old one was, as long as only the latest row becomes active or decided.   *)
LEMMA ReplaceRow ==
  ASSUME NexusTypeOK, RowsInv,
         NEW r \in rows, NEW r2 \in Row,
         r2.epoch = r.epoch, r2.last = r.last,
         Decided(r) => Decided(r2),
         Decided(r2) /\ ~ Decided(r) => IsLatest(r),
         IsActive(r2) => IsActive(r),
         r2.state = "CommittedPartially" => r.state = "CommittedPartially",
         rows' = (rows \ {r}) \cup {r2}
  PROVE  RowsInv'
<1> USE DEF RowsInv
<1>0. rows \subseteq Row /\ rows' \subseteq Row
  BY Zenon DEF NexusTypeOK
<1>1. \A s \in rows : s # r => s.epoch # r.epoch
  BY Zenon
<1>2. (\A x, y \in rows : x.epoch = y.epoch => x = y)'
  BY <1>1, Zenon
<1>3. (\A x \in rows : x.epoch = 1 => Decided(x))'
  BY Zenon DEF Decided
<1>4. (\A x \in rows : x.state = "CommittedPartially" =>
                         \E s \in rows : s.epoch > x.epoch)'
  <2> SUFFICES ASSUME NEW x \in rows', x.state = "CommittedPartially"
               PROVE  \E s \in rows' : s.epoch > x.epoch
    BY Zenon
  <2>1. PICK y \in rows : y.epoch = x.epoch /\ y.state = "CommittedPartially"
    BY Zenon
  <2>2. PICK s \in rows : s.epoch > y.epoch
    BY <2>1, Zenon
  <2> QED BY <2>1, <2>2, Zenon
<1>5. ActiveIsLatest'
  <2> SUFFICES ASSUME NEW x \in rows', NEW s \in rows', IsActive(x)
               PROVE  s.epoch <= x.epoch /\ (s.epoch = x.epoch => s = x)
    BY Zenon DEF ActiveIsLatest, IsActive
  <2>1. PICK x1 \in rows : x1.epoch = x.epoch /\ IsActive(x1)
    BY Zenon DEF IsActive
  <2>2. PICK s1 \in rows : s1.epoch = s.epoch
    BY Zenon
  <2> QED BY <2>1, <2>2, <1>2, Zenon DEF ActiveIsLatest
<1>6. ChainOfCommits'
  <2> SUFFICES ASSUME NEW x \in rows', x.epoch > 1
               PROVE  /\ \E s \in rows' : s.epoch = x.last /\ x.last < x.epoch
                                          /\ Decided(s)
                      /\ \A s \in rows' : x.last < s.epoch /\ s.epoch < x.epoch
                                            => ~ Decided(s)
    BY Zenon DEF ChainOfCommits, Decided
  <2>1. PICK x1 \in rows : x1.epoch = x.epoch /\ x1.last = x.last
    BY Zenon
  <2>2. PICK s1 \in rows : s1.epoch = x.last /\ x.last < x.epoch /\ Decided(s1)
    BY <2>1, Zenon DEF ChainOfCommits
  <2>3. \E s \in rows' : s.epoch = x.last /\ x.last < x.epoch /\ Decided(s)
    BY <2>2, Zenon
  <2>4. ASSUME NEW s \in rows', x.last < s.epoch, s.epoch < x.epoch, Decided(s)
        PROVE  FALSE
    <3>1. CASE s \in rows
      BY <2>1, <2>4, <3>1, Zenon DEF ChainOfCommits
    <3>2. CASE s = r2
      <4>1. CASE Decided(r)
        BY <2>1, <2>4, <3>2, <4>1, Zenon DEF ChainOfCommits
      <4>2. CASE ~ Decided(r)
        <5>1. IsLatest(r)
          BY <2>4, <3>2, <4>2, Zenon
        <5>2. x1.epoch <= r.epoch
          BY <5>1, Zenon DEF IsLatest
        <5>3. x1.epoch \in Nat /\ r.epoch \in Nat
          BY <1>0 DEF Row, Epoch
        <5> QED BY <2>1, <2>4, <3>2, <5>2, <5>3
      <4> QED BY <4>1, <4>2, Zenon
    <3> QED BY <3>1, <3>2, Zenon
  <2> QED BY <2>3, <2>4, Zenon
<1> QED BY <1>2, <1>3, <1>4, <1>5, <1>6, Zenon

-----------------------------------------------------------------------------
(* Type correctness.                                                        *)

LEMMA UpdatePrepareStatusType ==
  ASSUME NEW r \in Row, NEW st \in Status
  PROVE  UpdatePrepareStatus(r, st) \in Row
<1>1. AckPrepares(r, st.acks) \in [Node -> MemberState]
  BY Zenon DEF AckPrepares, Row, MemberState
<1> QED
  BY <1>1, Zenon DEF UpdatePrepareStatus, Row, Status, Config, ConfigState

LEMMA UpdateCommitStatusType ==
  ASSUME NEW r \in Row, NEW acked
  PROVE  UpdateCommitStatus(r, acked) \in Row
<1> DEFINE mstate == [n \in Node |-> IF n \in r.members \cap acked
                                     THEN "Committed" ELSE r.mstate[n]]
<1>1. mstate \in [Node -> MemberState]
  BY Zenon DEF Row, MemberState
<1> HIDE DEF mstate
<1>2. UpdateCommitStatus(r, acked) =
        [r EXCEPT !.mstate = mstate,
                  !.state = IF \A n \in r.members : mstate[n] = "Committed"
                            THEN "Committed" ELSE @]
  BY Zenon DEF UpdateCommitStatus, mstate
<1> QED
  BY <1>1, <1>2, Zenon DEF Row, ConfigState

LEMMA RssRowType ==
  ASSUME NEW S \in SUBSET Node, NEW k \in Node
  PROVE  RssRow(S, k) \in Row
<1>1. [n \in Node |-> IF n \in S THEN "Committed" ELSE "Unacked"]
        \in [Node -> MemberState]
  BY Zenon DEF MemberState
<1> QED
  BY <1>1, MaxEpochAssumption DEF RssRow, Row, Epoch, NoEpoch, ConfigState

LEMMA NewRowType ==
  ASSUME NEW e \in Epoch, NEW f \in Epoch, NEW S \in SUBSET Node, NEW k \in Node
  PROVE  NewRow(e, f, S, k) \in Row
<1>1. [n \in Node |-> "Unacked"] \in [Node -> MemberState]
  BY Zenon DEF MemberState
<1> QED
  BY <1>1, Zenon DEF NewRow, Row, ConfigState

LEMMA CommitOpsType ==
  ASSUME NEW r \in Row
  PROVE  CommitOps(r) \subseteq Request
<1>1. ToConfiguration(r) \in Config
  BY Zenon DEF ToConfiguration, Row, Config
<1>2. InState(r, "Unacked") \subseteq Node /\ InState(r, "Prepared") \subseteq Node
  BY Zenon DEF InState, Row
<1>3. r.epoch \in Epoch
  BY Zenon DEF Row
<1> HIDE DEF ToConfiguration
<1> QED
  BY <1>1, <1>2, <1>3 DEF CommitOps, Request

(* A proposal unfolded: which row it builds on, what it replaces that row   *)
(* with, and what it inserts.                                               *)
LEMMA ProposeFacts ==
  ASSUME NexusTypeOK, TqPropose
  PROVE  \E latest, lc \in rows, members \in SUBSET Node, coordinator \in Node :
           LET new == NewRow(latest.epoch + 1, lc.epoch, members, coordinator) IN
             /\ IsLatest(latest)
             /\ LastCommitted(latest, lc)
             /\ members \in ProposedMembers(lc)
             /\ ValidSize(members)
             /\ new \in Row
             /\ CommitPartially(lc) \in Row
             /\ rows' = (rows \ {lc}) \cup {CommitPartially(lc), new}
             /\ requests' = requests \cup
                  {[type |-> "Reconfigure", to |-> coordinator,
                    epoch |-> latest.epoch + 1, last |-> lc.epoch,
                    members |-> members]}
             /\ UNCHANGED <<task, commitAcks>>
<1>1. PICK latest \in rows, lc \in rows :
        \E members \in ProposedMembers(lc) :
          \E coordinator \in members \cap InState(lc, "Committed") :
            Propose(latest, lc, members, coordinator)
  BY Zenon DEF TqPropose
<1>2. PICK members \in ProposedMembers(lc) :
        \E coordinator \in members \cap InState(lc, "Committed") :
          Propose(latest, lc, members, coordinator)
  BY <1>1, Zenon
<1>3. PICK coordinator \in members \cap InState(lc, "Committed") :
        Propose(latest, lc, members, coordinator)
  BY <1>2, Zenon
<1> DEFINE new == NewRow(latest.epoch + 1, lc.epoch, members, coordinator)
<1>4. lc \in Row /\ latest \in Row
  BY Zenon DEF NexusTypeOK
<1>5. members \in SUBSET Node /\ coordinator \in Node
  BY <1>4, Zenon DEF ProposedMembers, Row
<1>6. NewRow(NewEpoch(latest, lc), lc.epoch, members, coordinator) = new
  BY Zenon DEF NewEpoch
<1>7. new.epoch = latest.epoch + 1 /\ new.last = lc.epoch
  BY Zenon DEF NewRow
<1> HIDE DEF new
<1>8. /\ IsLatest(latest) /\ new.epoch <= MaxEpoch /\ LastCommitted(latest, lc)
      /\ ValidSize(members)
      /\ rows' = (rows \ {lc}) \cup {CommitPartially(lc), new}
      /\ requests' = requests \cup
           {[type |-> "Reconfigure", to |-> coordinator, epoch |-> new.epoch,
             last |-> new.last, members |-> members]}
      /\ UNCHANGED <<task, commitAcks>>
  BY <1>3, <1>6, Zenon DEF Propose
<1>9. latest.epoch + 1 \in Epoch /\ lc.epoch \in Epoch
  BY <1>4, <1>7, <1>8, MaxEpochAssumption DEF Row, Epoch
<1>10. new \in Row
  BY <1>5, <1>9, NewRowType, Zenon DEF new
<1>11. CommitPartially(lc) \in Row
  BY <1>4, Zenon DEF CommitPartially, Row, ConfigState
<1> QED
  BY <1>5, <1>7, <1>8, <1>10, <1>11, Zenon DEF new

LEMMA ProposeType ==
  ASSUME NexusTypeOK, TqPropose
  PROVE  NexusTypeOK'
<1>1. PICK latest \in rows, lc \in rows, members \in SUBSET Node, coordinator \in Node :
        LET new == NewRow(latest.epoch + 1, lc.epoch, members, coordinator) IN
          /\ new \in Row
          /\ CommitPartially(lc) \in Row
          /\ rows' = (rows \ {lc}) \cup {CommitPartially(lc), new}
          /\ requests' = requests \cup
               {[type |-> "Reconfigure", to |-> coordinator,
                 epoch |-> latest.epoch + 1, last |-> lc.epoch,
                 members |-> members]}
          /\ UNCHANGED <<task, commitAcks>>
  BY ProposeFacts
<1> DEFINE new == NewRow(latest.epoch + 1, lc.epoch, members, coordinator)
           q == [type |-> "Reconfigure", to |-> coordinator,
                 epoch |-> latest.epoch + 1, last |-> lc.epoch,
                 members |-> members]
<1>2. new.epoch = latest.epoch + 1 /\ new.last = lc.epoch
  BY Zenon DEF NewRow
<1>3. new \in Row /\ CommitPartially(lc) \in Row
      /\ rows' = (rows \ {lc}) \cup {CommitPartially(lc), new}
      /\ requests' = requests \cup {q} /\ UNCHANGED <<task, commitAcks>>
  BY <1>1, Zenon
<1> HIDE DEF new
<1>4. q \in Request
  BY <1>2, <1>3, Zenon DEF Request, Row
<1> HIDE DEF q
<1> QED
  BY <1>3, <1>4, Zenon DEF NexusTypeOK

LEMMA AbortType ==
  ASSUME NexusTypeOK, TqAbort
  PROVE  NexusTypeOK'
<1>1. PICK r \in rows :
        /\ rows' = (rows \ {r}) \cup {[r EXCEPT !.state = "Aborted"]}
        /\ UNCHANGED <<task, requests, commitAcks>>
  BY Zenon DEF TqAbort
<1>2. [r EXCEPT !.state = "Aborted"] \in Row
  BY Zenon DEF NexusTypeOK, Row, ConfigState
<1> QED BY <1>1, <1>2, Zenon DEF NexusTypeOK

LEMMA CommitStatusType ==
  ASSUME NexusTypeOK, TqUpdateCommitStatus
  PROVE  NexusTypeOK'
<1>1. PICK r \in rows, acked \in SUBSET Node :
        /\ rows' = (rows \ {r}) \cup {UpdateCommitStatus(r, acked)}
        /\ UNCHANGED <<task, requests, commitAcks>>
  BY Zenon DEF TqUpdateCommitStatus
<1>2. UpdateCommitStatus(r, acked) \in Row
  BY UpdateCommitStatusType, Zenon DEF NexusTypeOK
<1> QED BY <1>1, <1>2, Zenon DEF NexusTypeOK

LEMMA TaskType ==
  ASSUME NexusTypeOK, NEW t \in Task,
         TaskLoad(t) \/ TaskFail(t) \/ TaskCommit
           \/ \E st \in Status : TaskPoll(t, st)
  PROVE  NexusTypeOK'
<1>1. CASE TaskLoad(t)
  BY <1>1 DEF TaskLoad, NexusTypeOK, Activation
<1>2. CASE TaskFail(t)
  BY <1>2, Zenon DEF TaskFail, NexusTypeOK
<1>3. CASE TaskCommit
  BY <1>3, CommitOpsType, Zenon DEF TaskCommit, NexusTypeOK
<1>4. ASSUME NEW st \in Status, TaskPoll(t, st)
      PROVE  NexusTypeOK'
  <2>1. PICK a \in task[t] :
          /\ task' = [task EXCEPT ![t] = {[a EXCEPT !.status = {st}]}]
          /\ UNCHANGED <<rows, requests, commitAcks>>
    BY <1>4, Zenon DEF TaskPoll
  <2>2. [a EXCEPT !.status = {st}] \in Activation
    BY DEF NexusTypeOK, Activation
  <2> QED BY <2>1, <2>2, Zenon DEF NexusTypeOK
<1> QED BY <1>1, <1>2, <1>3, <1>4, Zenon

LEMMA PrepareStatusType ==
  ASSUME NexusTypeOK, NEW t \in Task, TaskUpdatePrepareStatus(t)
  PROVE  NexusTypeOK'
<1>1. PICK a \in task[t] : \E st \in a.status, r \in rows :
        /\ rows' = (rows \ {r}) \cup {UpdatePrepareStatus(r, st)}
        /\ requests' \subseteq requests \cup CommitOps(a.row)
        /\ task' = [task EXCEPT ![t] = {}]
        /\ UNCHANGED commitAcks
  BY Zenon DEF TaskUpdatePrepareStatus
<1>2. PICK st \in a.status, r \in rows :
        /\ rows' = (rows \ {r}) \cup {UpdatePrepareStatus(r, st)}
        /\ requests' \subseteq requests \cup CommitOps(a.row)
        /\ task' = [task EXCEPT ![t] = {}]
        /\ UNCHANGED commitAcks
  BY <1>1, Zenon
<1>3. a.row \in Row /\ st \in Status /\ r \in Row
  BY DEF NexusTypeOK, Activation
<1>4. UpdatePrepareStatus(r, st) \in Row /\ CommitOps(a.row) \subseteq Request
  BY <1>3, UpdatePrepareStatusType, CommitOpsType, Zenon
<1> QED BY <1>2, <1>4, Zenon DEF NexusTypeOK

-----------------------------------------------------------------------------
(* Preservation of RowsInv.                                                 *)

LEMMA ProposeRows ==
  ASSUME NexusTypeOK, RowsInv, TqPropose
  PROVE  RowsInv'
<1>1. PICK latest \in rows, lc \in rows, members \in SUBSET Node, coordinator \in Node :
        LET new == NewRow(latest.epoch + 1, lc.epoch, members, coordinator) IN
          /\ IsLatest(latest)
          /\ LastCommitted(latest, lc)
          /\ new \in Row
          /\ CommitPartially(lc) \in Row
          /\ rows' = (rows \ {lc}) \cup {CommitPartially(lc), new}
  BY ProposeFacts
<1> DEFINE new == NewRow(latest.epoch + 1, lc.epoch, members, coordinator)
           old == CommitPartially(lc)
<1>2. /\ new.epoch = latest.epoch + 1 /\ new.last = lc.epoch
      /\ new.state = "Preparing"
  BY Zenon DEF NewRow
<1>3. /\ old.epoch = lc.epoch /\ old.last = lc.last
      /\ Decided(old) /\ ~ IsActive(old)
  BY <1>1, Zenon DEF CommitPartially, LastCommitted, IsCommitted, Decided, IsActive,
              NexusTypeOK, Row, ConfigState
<1>4. IsLatest(latest) /\ LastCommitted(latest, lc) /\ new \in Row /\ old \in Row
      /\ rows' = (rows \ {lc}) \cup {old, new}
  BY <1>1, Zenon
<1> HIDE DEF new, old
<1>5. rows \subseteq Row
  BY Zenon DEF NexusTypeOK
<1>6. \A s \in rows : s.epoch \in Int /\ s.epoch < new.epoch
  BY <1>2, <1>4, <1>5 DEF IsLatest, Row, Epoch
<1>7. Decided(lc) /\ (IsActive(lc) => lc = latest)
  BY <1>4, <1>5 DEF LastCommitted, IsCommitted, Decided, IsActive, RowsInv,
                    ActiveIsLatest, IsLatest, Row, Epoch
<1>8. (\A r, s \in rows : r.epoch = s.epoch => r = s)'
  BY <1>3, <1>4, <1>6 DEF RowsInv
<1>9. (\A r \in rows : r.epoch = 1 => Decided(r))'
  BY <1>3, <1>4, <1>5, <1>6 DEF RowsInv, Row, Epoch
<1>10. (\A r \in rows : r.state = "CommittedPartially" =>
                           \E s \in rows : s.epoch > r.epoch)'
  BY <1>2, <1>3, <1>4, <1>6, Zenon
<1>11. ActiveIsLatest'
  <2>1. \A r \in rows : IsActive(r) => r = lc
    BY <1>4, <1>5 DEF RowsInv, ActiveIsLatest, IsLatest, LastCommitted, IsActive,
                      Row, Epoch
  <2>2. \A r \in rows' : IsActive(r) => r = new
    BY <1>3, <1>4, <2>1, Zenon
  <2>3. \A s \in rows' : s.epoch <= new.epoch /\ (s.epoch = new.epoch => s = new)
    BY <1>3, <1>4, <1>6 DEF Row, Epoch
  <2> QED BY <2>2, <2>3, Zenon DEF ActiveIsLatest, IsActive
<1>12. ASSUME NEW r \in rows', r.epoch > 1
       PROVE  /\ \E s \in rows' : s.epoch = r.last /\ r.last < r.epoch /\ Decided(s)
              /\ \A s \in rows' : r.last < s.epoch /\ s.epoch < r.epoch
                                   => ~ Decided(s)
  <2>1. CASE r = new
    <3>1. \E s \in rows' : s.epoch = r.last /\ r.last < r.epoch /\ Decided(s)
      BY <1>2, <1>3, <1>4, <1>6, <2>1, Zenon
    <3>2. ASSUME NEW s \in rows', r.last < s.epoch, s.epoch < r.epoch, Decided(s)
          PROVE  FALSE
      <4>1. s \in rows /\ lc.epoch < s.epoch /\ s.epoch <= latest.epoch
        BY <1>2, <1>3, <1>4, <1>5, <1>6, <2>1, <3>2 DEF IsLatest, Row, Epoch
      <4>2. latest.state = "Aborted" /\ lc.epoch = latest.last
        BY <1>4, <1>5, <4>1 DEF LastCommitted, Row, Epoch
      <4>3. s # latest
        BY <3>2, <4>2, Zenon DEF Decided
      <4>4. s.epoch < latest.epoch
        BY <1>5, <4>1, <4>3 DEF RowsInv, Row, Epoch
      <4>5. latest.epoch > 1
        BY <1>5, <4>1, <4>4 DEF Row, Epoch
      <4> QED BY <3>2, <4>1, <4>2, <4>4, <4>5, Zenon DEF RowsInv, ChainOfCommits
    <3> QED BY <3>1, <3>2, Zenon
  <2>2. CASE r # new
    <3>1. PICK r1 \in rows : r1.epoch = r.epoch /\ r1.last = r.last
      BY <1>3, <1>4, <2>2, Zenon
    <3>2. PICK s1 \in rows : s1.epoch = r.last /\ r.last < r.epoch /\ Decided(s1)
      BY <1>12, <3>1, Zenon DEF RowsInv, ChainOfCommits
    <3>3. \E s \in rows' : s.epoch = r.last /\ Decided(s)
      BY <1>3, <1>4, <3>2, Zenon
    <3>4. ASSUME NEW s \in rows', r.last < s.epoch, s.epoch < r.epoch, Decided(s)
          PROVE  FALSE
      <4>1. s # new
        BY <1>4, <1>5, <1>6, <3>1, <3>4 DEF Row, Epoch
      <4>2. PICK s2 \in rows : s2.epoch = s.epoch /\ Decided(s2)
        BY <1>3, <1>4, <1>7, <3>4, <4>1, Zenon
      <4> QED BY <1>12, <3>1, <3>4, <4>2, Zenon DEF RowsInv, ChainOfCommits
    <3> QED BY <3>2, <3>3, <3>4, Zenon
  <2> QED BY <2>1, <2>2, Zenon
<1>13. ChainOfCommits'
  BY <1>12, Zenon DEF ChainOfCommits, Decided
<1> QED BY <1>8, <1>9, <1>10, <1>11, <1>13, Zenon DEF RowsInv

LEMMA AbortRows ==
  ASSUME NexusTypeOK, RowsInv, TqAbort
  PROVE  RowsInv'
<1>1. PICK r \in rows :
        /\ IsLatest(r)
        /\ r.state \notin {"Aborted", "Committing", "Committed"}
        /\ rows' = (rows \ {r}) \cup {[r EXCEPT !.state = "Aborted"]}
  BY Zenon DEF TqAbort
<1> DEFINE r2 == [r EXCEPT !.state = "Aborted"]
<1>2. r \in Row /\ r2 \in Row
  BY Zenon DEF NexusTypeOK, Row, ConfigState
<1>3. r.state = "Preparing"
  BY <1>1, <1>2 DEF RowsInv, IsLatest, Row, ConfigState, NexusTypeOK, Epoch
<1>4. r2.epoch = r.epoch /\ r2.last = r.last /\ r2.state = "Aborted"
  BY <1>2, Zenon DEF Row
<1> HIDE DEF r2
<1>5. /\ Decided(r) => Decided(r2)
      /\ Decided(r2) /\ ~ Decided(r) => IsLatest(r)
      /\ IsActive(r2) => IsActive(r)
      /\ r2.state = "CommittedPartially" => r.state = "CommittedPartially"
  BY <1>3, <1>4, Zenon DEF Decided, IsActive
<1>6. rows' = (rows \ {r}) \cup {r2}
  BY <1>1, Zenon DEF r2
<1> QED
  BY <1>2, <1>4, <1>5, <1>6, ReplaceRow, Zenon

LEMMA PrepareStatusRows ==
  ASSUME NexusTypeOK, RowsInv, NEW t \in Task, TaskUpdatePrepareStatus(t)
  PROVE  RowsInv'
<1>1. PICK a \in task[t] : \E st \in a.status, r \in rows :
        /\ PrepareStatusApplies(r, st)
        /\ rows' = (rows \ {r}) \cup {UpdatePrepareStatus(r, st)}
  BY Zenon DEF TaskUpdatePrepareStatus
<1>2. PICK st \in a.status, r \in rows :
        /\ PrepareStatusApplies(r, st)
        /\ rows' = (rows \ {r}) \cup {UpdatePrepareStatus(r, st)}
  BY <1>1, Zenon
<1> DEFINE r2 == UpdatePrepareStatus(r, st)
<1>3. st \in Status /\ r \in Row
  BY DEF NexusTypeOK, Activation
<1>4. r2 \in Row
  BY <1>3, UpdatePrepareStatusType, Zenon
<1>5. r2.epoch = r.epoch /\ r2.last = r.last /\ r2.state \in {"Committing", r.state}
  BY <1>3, Zenon DEF UpdatePrepareStatus, Row
<1> HIDE DEF r2
<1>6. /\ Decided(r) => Decided(r2)
      /\ Decided(r2) /\ ~ Decided(r) => IsLatest(r)
      /\ IsActive(r2) => IsActive(r)
      /\ r2.state = "CommittedPartially" => r.state = "CommittedPartially"
  BY <1>2, <1>5, Zenon DEF Decided, IsActive, PrepareStatusApplies
<1>7. rows' = (rows \ {r}) \cup {r2}
  BY <1>2, Zenon DEF r2
<1> QED
  BY <1>4, <1>5, <1>6, <1>7, ReplaceRow, Zenon

LEMMA CommitStatusRows ==
  ASSUME NexusTypeOK, RowsInv, TqUpdateCommitStatus
  PROVE  RowsInv'
<1>1. PICK r \in rows, acked \in SUBSET Node :
        /\ r.state = "Committing"
        /\ rows' = (rows \ {r}) \cup {UpdateCommitStatus(r, acked)}
  BY Zenon DEF TqUpdateCommitStatus
<1> DEFINE r2 == UpdateCommitStatus(r, acked)
<1>2. r \in Row /\ r2 \in Row
  BY UpdateCommitStatusType, Zenon DEF NexusTypeOK
<1>3. r2.epoch = r.epoch /\ r2.last = r.last /\ r2.state \in {"Committed", r.state}
  BY <1>2, Zenon DEF UpdateCommitStatus, Row
<1>4. rows' = (rows \ {r}) \cup {r2}
  BY <1>1, Zenon
<1> HIDE DEF r2
<1>5. /\ Decided(r) => Decided(r2)
      /\ Decided(r2) /\ ~ Decided(r) => IsLatest(r)
      /\ IsActive(r2) => IsActive(r)
      /\ r2.state = "CommittedPartially" => r.state = "CommittedPartially"
  BY <1>1, <1>3, Zenon DEF Decided, IsActive
<1> QED
  BY <1>2, <1>3, <1>4, <1>5, ReplaceRow, Zenon

LEMMA RowsUnchanged ==
  ASSUME RowsInv, UNCHANGED rows
  PROVE  RowsInv'
BY Zenon DEF RowsInv, ActiveIsLatest, ChainOfCommits, Decided, IsActive

-----------------------------------------------------------------------------
(* Rows only advance.                                                       *)

LEMMA AdvancesAll ==
  ASSUME NEW r \in rows, NEW r2 \in rows', Advances(r, r2),
         rows \ {r} \subseteq rows'
  PROVE  \A x \in rows : \E y \in rows' : Advances(x, y)
<1>1. \A x : Advances(x, x)
  BY Zenon DEF Advances
<1> HIDE DEF Advances
<1> QED BY <1>1, Zenon

LEMMA RowsAdvance ==
  ASSUME NexusTypeOK, RowsInv,
         TqPropose \/ TqAbort \/ TqUpdateCommitStatus
           \/ \E t \in Task : TaskUpdatePrepareStatus(t)
  PROVE  \A x \in rows : \E y \in rows' : Advances(x, y)
<1>1. CASE TqPropose
  <2>1. PICK lc \in rows : \E new :
          rows' = (rows \ {lc}) \cup {CommitPartially(lc), new}
    BY <1>1, ProposeFacts
  <2>2. Advances(lc, CommitPartially(lc))
    BY Zenon DEF Advances, CommitPartially, Decided, NexusTypeOK, Row, ConfigState
  <2> QED BY <2>1, <2>2, AdvancesAll, Zenon
<1>2. CASE TqAbort
  <2>1. PICK r \in rows :
          /\ IsLatest(r)
          /\ r.state \notin {"Aborted", "Committing", "Committed"}
          /\ rows' = (rows \ {r}) \cup {[r EXCEPT !.state = "Aborted"]}
    BY <1>2, Zenon DEF TqAbort
  <2>2. r.state = "Preparing" /\ r \in Row
    BY <2>1 DEF RowsInv, IsLatest, Row, ConfigState, NexusTypeOK, Epoch
  <2>3. Advances(r, [r EXCEPT !.state = "Aborted"])
    BY <2>2, Zenon DEF Advances, Decided, Row
  <2> QED BY <2>1, <2>3, AdvancesAll, Zenon
<1>3. CASE TqUpdateCommitStatus
  <2>1. PICK r \in rows, acked \in SUBSET Node :
          /\ r.state = "Committing"
          /\ rows' = (rows \ {r}) \cup {UpdateCommitStatus(r, acked)}
    BY <1>3, Zenon DEF TqUpdateCommitStatus
  <2>2. Advances(r, UpdateCommitStatus(r, acked))
    BY <2>1, Zenon DEF Advances, Decided, UpdateCommitStatus, NexusTypeOK, Row
  <2> QED BY <2>1, <2>2, AdvancesAll, Zenon
<1>4. ASSUME NEW t \in Task, TaskUpdatePrepareStatus(t)
      PROVE  \A x \in rows : \E y \in rows' : Advances(x, y)
  <2>1. PICK r \in rows : \E st :
          /\ PrepareStatusApplies(r, st)
          /\ rows' = (rows \ {r}) \cup {UpdatePrepareStatus(r, st)}
    BY <1>4, Zenon DEF TaskUpdatePrepareStatus
  <2>2. PICK st :
          /\ PrepareStatusApplies(r, st)
          /\ rows' = (rows \ {r}) \cup {UpdatePrepareStatus(r, st)}
    BY <2>1, Zenon
  <2>3. Advances(r, UpdatePrepareStatus(r, st))
    <3>1. r \in Row
      BY Zenon DEF NexusTypeOK
    <3>2. r.state \in {"Preparing", "PreparingLrtqUpgrade"}
      BY <2>2, Zenon DEF PrepareStatusApplies
    <3> QED BY <3>1, <3>2, Zenon DEF Advances, Decided, UpdatePrepareStatus, AckPrepares, Row
  <2> QED BY <2>2, <2>3, AdvancesAll, Zenon
<1> QED BY <1>1, <1>2, <1>3, <1>4, Zenon

-----------------------------------------------------------------------------
(* The refinement: each transaction is a step of RackMembership or leaves   *)
(* the history as it is.                                                    *)

(* A row may change as long as it stays decided, pending or neither.        *)
LEMMA ReplaceStutters ==
  ASSUME NEW r \in rows, NEW r2,
         r2.epoch = r.epoch, r2.members = r.members,
         Decided(r2) <=> Decided(r),
         r2.state = "Preparing" <=> r.state = "Preparing",
         rows' = (rows \ {r}) \cup {r2}
  PROVE  UNCHANGED <<DecidedEntries, PendingEntries, UsedEpochs>>
<1>1. EntryOf(r2) = EntryOf(r)
  BY DEF EntryOf
<1>2. \A x \in rows' : \E y \in rows :
        /\ EntryOf(x) = EntryOf(y) /\ x.epoch = y.epoch
        /\ Decided(x) <=> Decided(y)
        /\ x.state = "Preparing" <=> y.state = "Preparing"
  BY <1>1
<1>3. \A y \in rows : \E x \in rows' :
        /\ EntryOf(x) = EntryOf(y) /\ x.epoch = y.epoch
        /\ Decided(x) <=> Decided(y)
        /\ x.state = "Preparing" <=> y.state = "Preparing"
  BY <1>1
<1>4. DecidedEntries' = DecidedEntries
  BY <1>2, <1>3 DEF DecidedEntries, EntryOf, Decided
<1>5. PendingEntries' = PendingEntries
  BY <1>2, <1>3 DEF PendingEntries, EntryOf
<1>6. UsedEpochs' = UsedEpochs
  BY <1>2, <1>3 DEF UsedEpochs
<1> QED BY <1>4, <1>5, <1>6

(* A pending row that is settled leaves the pending ones, and joins the     *)
(* decided ones if it is decided.                                           *)
LEMMA ReplaceSettles ==
  ASSUME RowsInv, NEW r \in rows, NEW r2, r.state = "Preparing",
         r2.epoch = r.epoch, r2.members = r.members, r2.state # "Preparing",
         rows' = (rows \ {r}) \cup {r2}
  PROVE  /\ EntryOf(r) \in PendingEntries
         /\ PendingEntries' = PendingEntries \ {EntryOf(r)}
         /\ UsedEpochs' = UsedEpochs
         /\ Decided(r2) => DecidedEntries' = DecidedEntries \cup {EntryOf(r)}
         /\ ~ Decided(r2) => DecidedEntries' = DecidedEntries
<1>1. EntryOf(r2) = EntryOf(r) /\ ~ Decided(r)
  BY DEF EntryOf, Decided
<1>2. \A x \in rows : EntryOf(x) = EntryOf(r) => x = r
  BY DEF EntryOf, RowsInv
<1>3. EntryOf(r) \in PendingEntries
  BY DEF PendingEntries
<1>4. PendingEntries' = PendingEntries \ {EntryOf(r)}
  BY <1>1, <1>2 DEF PendingEntries, EntryOf
<1>5. UsedEpochs' = UsedEpochs
  BY DEF UsedEpochs
<1>6. Decided(r2) => DecidedEntries' = DecidedEntries \cup {EntryOf(r)}
  BY <1>1 DEF DecidedEntries, EntryOf, Decided
<1>7. ~ Decided(r2) => DecidedEntries' = DecidedEntries
  BY <1>1 DEF DecidedEntries, EntryOf, Decided
<1> QED BY <1>3, <1>4, <1>5, <1>6, <1>7

LEMMA ProposeImplements ==
  ASSUME NexusTypeOK, RowsInv, TqPropose
  PROVE  Membership!Propose
<1>1. PICK latest \in rows, lc \in rows, members \in SUBSET Node, coordinator \in Node :
        LET new == NewRow(latest.epoch + 1, lc.epoch, members, coordinator) IN
          /\ IsLatest(latest)
          /\ LastCommitted(latest, lc)
          /\ members \in ProposedMembers(lc)
          /\ new \in Row
          /\ CommitPartially(lc) \in Row
          /\ rows' = (rows \ {lc}) \cup {CommitPartially(lc), new}
  BY ProposeFacts
<1> DEFINE new == NewRow(latest.epoch + 1, lc.epoch, members, coordinator)
           old == CommitPartially(lc)
<1>2. /\ new.epoch = latest.epoch + 1 /\ new.members = members
      /\ new.state = "Preparing"
  BY DEF NewRow
<1>3. /\ old.epoch = lc.epoch /\ old.members = lc.members
      /\ Decided(old) /\ Decided(lc)
      /\ old.state # "Preparing" /\ lc.state # "Preparing"
  BY <1>1 DEF CommitPartially, LastCommitted, IsCommitted, Decided,
              NexusTypeOK, Row, ConfigState
<1>4. /\ IsLatest(latest) /\ LastCommitted(latest, lc) /\ new \in Row
      /\ members \in ProposedMembers(lc)
      /\ rows' = (rows \ {lc}) \cup {old, new}
  BY <1>1
<1> HIDE DEF new, old
<1>5. rows \subseteq Row
  BY DEF NexusTypeOK
<1>6. \A s \in rows : s.epoch \in Int /\ s.epoch < new.epoch
  BY <1>2, <1>4, <1>5 DEF IsLatest, Row, Epoch
<1>7. \A s \in rows : Decided(s) => s.epoch <= lc.epoch
  <2>1. CASE latest.state # "Aborted"
    BY <1>4, <1>5, <2>1 DEF LastCommitted, IsLatest, Row, Epoch
  <2>2. CASE latest.state = "Aborted"
    <3>1. lc.epoch = latest.last /\ ~ Decided(latest)
      BY <1>4, <2>2 DEF LastCommitted, Decided
    <3>2. latest.epoch > 1
      BY <1>5, <3>1 DEF RowsInv, Row, Epoch
    <3>3. \A s \in rows : Decided(s) => s.epoch < latest.epoch
      BY <1>4, <1>5, <3>1 DEF IsLatest, RowsInv, Row, Epoch
    <3> QED
      BY <1>5, <3>1, <3>2, <3>3 DEF RowsInv, ChainOfCommits, Row, Epoch
  <2> QED BY <2>1, <2>2
<1>8. \A s \in rows : s.state # "Preparing"
  <2> SUFFICES ASSUME NEW s \in rows, s.state = "Preparing" PROVE FALSE
    OBVIOUS
  <2>1. s.epoch = latest.epoch
    BY <1>4, <1>5 DEF RowsInv, ActiveIsLatest, IsActive, IsLatest, Row, Epoch
  <2> QED BY <1>4, <2>1 DEF RowsInv, LastCommitted
<1>9. EntryOf(old) = EntryOf(lc)
  BY <1>3 DEF EntryOf
<1>10. PendingEntries = {} /\ PendingEntries' = {EntryOf(new)}
  BY <1>2, <1>3, <1>4, <1>8 DEF PendingEntries, EntryOf
<1>11. DecidedEntries' = DecidedEntries
  <2>1. ~ Decided(new)
    BY <1>2 DEF Decided
  <2> QED BY <1>3, <1>4, <1>9, <2>1 DEF DecidedEntries, EntryOf, Decided
<1>12. UsedEpochs' = UsedEpochs \cup {new.epoch}
  BY <1>3, <1>4 DEF UsedEpochs
<1>13. \A u \in UsedEpochs : u < new.epoch
  BY <1>6 DEF UsedEpochs
<1>14. EntryOf(lc) \in DecidedEntries
  BY <1>3 DEF DecidedEntries
<1>15. Membership!IsLatestDecided(EntryOf(lc))
  BY <1>7, <1>14 DEF Membership!IsLatestDecided, DecidedEntries, EntryOf
<1>16. members \in Membership!Changes(EntryOf(lc).members)
  BY <1>4 DEF Membership!Changes, ProposedMembers, EntryOf
<1>17. new.epoch \in Epoch
  BY <1>4 DEF Row
<1>18. EntryOf(new) = [epoch |-> new.epoch, members |-> members]
  BY <1>2 DEF EntryOf
<1> HIDE DEF EntryOf
<1> QED
  BY <1>10, <1>11, <1>12, <1>13, <1>14, <1>15, <1>16, <1>17, <1>18
     DEF Membership!Propose

LEMMA AbortImplements ==
  ASSUME NexusTypeOK, RowsInv, TqAbort
  PROVE  Membership!Drop
<1>1. PICK r \in rows :
        /\ IsLatest(r)
        /\ r.state \notin {"Aborted", "Committing", "Committed"}
        /\ rows' = (rows \ {r}) \cup {[r EXCEPT !.state = "Aborted"]}
  BY DEF TqAbort
<1> DEFINE r2 == [r EXCEPT !.state = "Aborted"]
<1>2. r \in Row
  BY DEF NexusTypeOK
<1>3. r.state = "Preparing"
  BY <1>1, <1>2 DEF RowsInv, IsLatest, Row, ConfigState, NexusTypeOK, Epoch
<1>4. r2.epoch = r.epoch /\ r2.members = r.members /\ r2.state = "Aborted"
  BY <1>2 DEF Row
<1>5. rows' = (rows \ {r}) \cup {r2}
  BY <1>1
<1> HIDE DEF r2
<1>6. ~ Decided(r2)
  BY <1>4 DEF Decided
<1> QED
  BY <1>3, <1>4, <1>5, <1>6, ReplaceSettles DEF Membership!Drop

LEMMA PrepareStatusImplements ==
  ASSUME NexusTypeOK, RowsInv, NEW t \in Task, TaskUpdatePrepareStatus(t)
  PROVE  \/ Membership!Decide
         \/ UNCHANGED <<DecidedEntries, PendingEntries, UsedEpochs>>
<1>1. PICK a \in task[t] : \E st \in a.status, r \in rows :
        /\ PrepareStatusApplies(r, st)
        /\ rows' = (rows \ {r}) \cup {UpdatePrepareStatus(r, st)}
  BY DEF TaskUpdatePrepareStatus
<1>2. PICK st \in a.status, r \in rows :
        /\ PrepareStatusApplies(r, st)
        /\ rows' = (rows \ {r}) \cup {UpdatePrepareStatus(r, st)}
  BY <1>1
<1> DEFINE r2 == UpdatePrepareStatus(r, st)
<1>3. st \in Status /\ r \in Row
  BY DEF NexusTypeOK, Activation
<1>4. /\ r2.epoch = r.epoch /\ r2.members = r.members
      /\ r2.state \in {"Committing", r.state}
  BY <1>3 DEF UpdatePrepareStatus, Row
<1>5. r.state = "Preparing" /\ rows' = (rows \ {r}) \cup {r2}
  BY <1>2 DEF PrepareStatusApplies
<1> HIDE DEF r2
<1>6. CASE r2.state = "Committing"
  <2>1. Decided(r2)
    BY <1>6 DEF Decided
  <2> QED
    BY <1>4, <1>5, <1>6, <2>1, ReplaceSettles DEF Membership!Decide
<1>7. CASE r2.state = r.state
  <2>1. Decided(r2) <=> Decided(r)
    BY <1>7 DEF Decided
  <2> QED BY <1>4, <1>5, <1>7, <2>1, ReplaceStutters
<1> QED BY <1>4, <1>6, <1>7

LEMMA CommitStatusImplements ==
  ASSUME NexusTypeOK, RowsInv, TqUpdateCommitStatus
  PROVE  UNCHANGED <<DecidedEntries, PendingEntries, UsedEpochs>>
<1>1. PICK r \in rows, acked \in SUBSET Node :
        /\ r.state = "Committing"
        /\ rows' = (rows \ {r}) \cup {UpdateCommitStatus(r, acked)}
  BY DEF TqUpdateCommitStatus
<1> DEFINE r2 == UpdateCommitStatus(r, acked)
<1>2. /\ r2.epoch = r.epoch /\ r2.members = r.members
      /\ r2.state \in {"Committed", r.state}
  BY DEF UpdateCommitStatus, Row, NexusTypeOK
<1>3. rows' = (rows \ {r}) \cup {r2}
  BY <1>1
<1> HIDE DEF r2
<1>4. /\ Decided(r2) <=> Decided(r)
      /\ r2.state = "Preparing" <=> r.state = "Preparing"
  BY <1>1, <1>2 DEF Decided
<1> QED
  BY <1>2, <1>3, <1>4, ReplaceStutters

=============================================================================
