--------------------------- MODULE DrainedProofs ---------------------------
(***************************************************************************)
(* A process that is fully drained has no unfinished saga: the proof, for  *)
(* every number of Nexus instances, sagas and blueprints.  On top of what  *)
(* SagaRecoveryProofs assumes, no answer to an INSERT is lost and the      *)
(* recovery of a single saga does not fail transiently (see SagaRecovery). *)
(***************************************************************************)
EXTENDS SagaRecoveryProofs

(* Recovery never gets ahead of reassignment.                               *)
GenerationInv(n) ==
  /\ quiesce[n].recovered_generation <= quiesce[n].reassignment_generation
  /\ quiesce[n].pending_generation <= quiesce[n].reassignment_generation

(* A saga that the recovery task knows of is the process's own, and while   *)
(* it is unfinished the process has it.                                     *)
OwnInv(n) ==
  \A s \in Saga :
    s \in started[n] \cup channel[n] \cup pass[n].recovered =>
      saga[s].sec = n /\ (IsCandidate(s) => Busy(n, s))

(* Sagas have been reassigned to the process and that is not counted yet.   *)
Arriving(n) == exec[n].pc = "reassigned" /\ exec[n].any

(* An unfinished saga that is not pending.                                  *)
Waiting(n) == Unfinished(n) \ quiesce[n].sagas_pending

(* It is one that a recovery pass has yet to find ...                       *)
CaughtUpInv(n) ==
  \A s \in Waiting(n) : IsCaughtUp(quiesce[n]) => Arriving(n)

(* ... and, during a pass, one that this pass finds, or that the next one   *)
(* will be asked to find.                                                   *)
Ahead(n, s) ==
  \/ pass[n].pc = "listing" /\ s \in pass[n].unread \cup pass[n].found
  \/ pass[n].pc = "executing" /\ s \in pass[n].needs \cup pass[n].hopeless
  \/ pass[n].pc = "abandoning" /\ s \in pass[n].hopeless

AheadInv(n) ==
  \A s \in Waiting(n) :
    \/ pass[n].pc = "idle"
    \/ quiesce[n].reassignment_generation > quiesce[n].pending_generation
    \/ Arriving(n)
    \/ Ahead(n, s)

DrainInv(n) == GenerationInv(n) /\ OwnInv(n) /\ CaughtUpInv(n) /\ AheadInv(n)

-----------------------------------------------------------------------------
(* The counters of the quiesce handle.                                      *)

SameCounters(q, p) ==
  /\ p.first_recovery_complete = q.first_recovery_complete
  /\ p.reassignment_generation = q.reassignment_generation
  /\ p.recovered_generation = q.recovered_generation
  /\ p.pending_generation = q.pending_generation

LEMMA CountersType ==
  ASSUME NEW q \in QuiesceStatus(Saga)
  PROVE  /\ q.first_recovery_complete \in BOOLEAN
         /\ q.reassignment_generation \in Nat /\ q.recovered_generation \in Nat
         /\ q.pending_generation \in Nat
BY Zenon DEF QuiesceStatus

LEMMA PendingCounters ==
  ASSUME NEW q \in QuiesceStatus(Saga), NEW s \in Saga
  PROVE  /\ SameCounters(q, SagaCreate(q, s))
         /\ SagaCreate(q, s).sagas_pending = q.sagas_pending \cup {s}
         /\ SameCounters(q, SagaCompletion(q, s))
         /\ SagaCompletion(q, s).sagas_pending = q.sagas_pending \ {s}
<1> DEFINE r == [q EXCEPT !.sagas_pending = q.sagas_pending \ {s}]
<1>1. SameCounters(q, r) /\ r.sagas_pending = q.sagas_pending \ {s}
  BY Zenon DEF SameCounters, QuiesceStatus
<1>2. SameButDrained(r, SagaCompletion(q, s))
  BY PendingFacts, Zenon
<1> HIDE DEF r
<1>3. /\ SameCounters(q, SagaCompletion(q, s))
      /\ SagaCompletion(q, s).sagas_pending = q.sagas_pending \ {s}
  BY <1>1, <1>2, Zenon DEF SameCounters, SameButDrained
<1>4. /\ SameCounters(q, SagaCreate(q, s))
      /\ SagaCreate(q, s).sagas_pending = q.sagas_pending \cup {s}
  BY Zenon DEF SagaCreate, SameCounters, QuiesceStatus
<1> QED BY <1>3, <1>4, Zenon

LEMMA ReassignmentCounters ==
  ASSUME NEW q \in QuiesceStatus(Saga), NEW b \in BOOLEAN,
         NEW bp \in Nat, NEW any \in BOOLEAN
  PROVE  /\ SameCounters(q, ReassignmentStart(SetQuiescing(q, b)))
         /\ LET p == ReassignedAllAsOf(q, bp, any) IN
              IF any THEN /\ p.reassignment_generation = q.reassignment_generation + 1
                          /\ p.recovered_generation = q.recovered_generation
                          /\ p.pending_generation = q.pending_generation
                     ELSE SameCounters(q, p)
         /\ LET p == ReassignedIndeterminate(q) IN
              /\ p.reassignment_generation = q.reassignment_generation + 1
              /\ p.recovered_generation = q.recovered_generation
              /\ p.pending_generation = q.pending_generation
<1> DEFINE r1 == [q EXCEPT
                     !.reassignment_pending    = FALSE,
                     !.reassignment_blueprint  = bp,
                     !.reassignment_generation =
                         IF any THEN q.reassignment_generation + 1
                                ELSE q.reassignment_generation,
                     !.recovered_blueprint     =
                         IF ~any /\ IsCaughtUp(q) THEN bp ELSE q.recovered_blueprint]
           r2 == [q EXCEPT
                     !.reassignment_pending    = FALSE,
                     !.reassignment_generation = q.reassignment_generation + 1]
           t == SetQuiescing(q, b)
<1>1. /\ r1.reassignment_generation = IF any THEN q.reassignment_generation + 1
                                             ELSE q.reassignment_generation
      /\ r1.recovered_generation = q.recovered_generation
      /\ r1.pending_generation = q.pending_generation
      /\ r1.first_recovery_complete = q.first_recovery_complete
  BY Zenon DEF QuiesceStatus
<1>2. /\ r2.reassignment_generation = q.reassignment_generation + 1
      /\ r2.recovered_generation = q.recovered_generation
      /\ r2.pending_generation = q.pending_generation
  BY Zenon DEF QuiesceStatus
<1>3. /\ SameButDrained(r1, ReassignedAllAsOf(q, bp, any))
      /\ SameButDrained(r2, ReassignedIndeterminate(q))
  BY ReassignmentFacts, Zenon
<1>4. t \in QuiesceStatus(Saga) /\ SameCounters(q, t)
  <2> DEFINE u == [q EXCEPT !.new_sagas_allowed = t.new_sagas_allowed]
  <2>1. SameCounters(q, u)
    BY Zenon DEF SameCounters, QuiesceStatus
  <2>2. t \in QuiesceStatus(Saga) /\ SameButDrained(u, t)
    BY SetQuiescingFacts, Zenon
  <2> HIDE DEF u, t
  <2> QED BY <2>1, <2>2, Zenon DEF SameButDrained, SameCounters
<1> HIDE DEF r1, r2, t
<1>5. SameCounters(q, ReassignmentStart(t))
  BY <1>4, Zenon DEF ReassignmentStart, SameCounters, QuiesceStatus
<1> QED BY <1>1, <1>2, <1>3, <1>5, Zenon DEF SameButDrained, SameCounters, t

LEMMA RecoveryCounters ==
  ASSUME NEW q \in QuiesceStatus(Saga)
  PROVE  /\ LET p == RecoveryStart(q) IN
              /\ p.first_recovery_complete = q.first_recovery_complete
              /\ p.reassignment_generation = q.reassignment_generation
              /\ p.recovered_generation = q.recovered_generation
              /\ p.pending_generation = q.reassignment_generation
              /\ p.sagas_pending = q.sagas_pending
         /\ LET p == RecoveryDone(q, TRUE) IN
              /\ p.reassignment_generation = q.reassignment_generation
              /\ p.recovered_generation = q.pending_generation
              /\ p.pending_generation = 0
              /\ p.sagas_pending = q.sagas_pending
<1> DEFINE r == [q EXCEPT !.recovery_pending        = FALSE,
                          !.pending_generation      = 0,
                          !.pending_blueprint       = NoBlueprint,
                          !.recovered_blueprint     = q.pending_blueprint,
                          !.recovered_generation    = q.pending_generation,
                          !.first_recovery_complete = TRUE]
<1>1. /\ r.reassignment_generation = q.reassignment_generation
      /\ r.recovered_generation = q.pending_generation
      /\ r.pending_generation = 0 /\ r.sagas_pending = q.sagas_pending
  BY Zenon DEF QuiesceStatus
<1>2. SameButDrained(r, RecoveryDone(q, TRUE))
  BY RecoveryFacts, Zenon
<1> HIDE DEF r
<1>3. LET p == RecoveryStart(q) IN
              /\ p.first_recovery_complete = q.first_recovery_complete
              /\ p.reassignment_generation = q.reassignment_generation
              /\ p.recovered_generation = q.recovered_generation
              /\ p.pending_generation = q.reassignment_generation
              /\ p.sagas_pending = q.sagas_pending
  BY Zenon DEF RecoveryStart, QuiesceStatus
<1> QED BY <1>1, <1>2, <1>3, Zenon DEF SameButDrained

-----------------------------------------------------------------------------
(* A step of another process.                                               *)

MemoryKept(m) ==
  /\ SameCounters(quiesce[m], quiesce'[m])
  /\ quiesce'[m].sagas_pending = quiesce[m].sagas_pending
  /\ creating'[m] = creating[m] /\ sec'[m] = sec[m]
  /\ channel'[m] = channel[m] /\ started'[m] = started[m]
  /\ pass'[m] = pass[m]
  /\ Arriving(m)' = Arriving(m)

(* The saga does not become one of m, and is not taken away from m.         *)
TableKept(m, s) ==
  /\ saga'[s].sec = m /\ saga'[s].state = "Running" =>
       saga[s].sec = m /\ saga[s].state = "Running"
  /\ m \in alive /\ saga[s].sec = m /\ saga[s].state # "Unborn" =>
       saga'[s].sec = m

LEMMA KnownSagas ==
  ASSUME NEW m \in Nexus, SagaInv(m), NEW s \in Saga,
         s \in started[m] \cup channel[m] \cup pass[m].recovered
  PROVE  m \in alive /\ saga[s].state # "Unborn"
<1>1. m \in alive
  <2>1. Idle.recovered = {}
    BY Zenon DEF Idle
  <2> QED BY <2>1, Zenon DEF SagaInv, DeadInv
<1>2. saga[s].state # "Unborn"
  BY Zenon DEF SagaInv, TableInv, PassInv, HasRow
<1> QED BY <1>1, <1>2, Zenon

LEMMA DrainFrame ==
  ASSUME NEW m \in Nexus, SagaInv(m), DrainInv(m), MemoryKept(m),
         \A s \in Saga : TableKept(m, s)
  PROVE  DrainInv(m)'
<1> USE DEF MemoryKept, DrainInv
<1>1. GenerationInv(m)'
  BY Zenon DEF GenerationInv, SameCounters
<1>2. OwnInv(m)'
  BY KnownSagas, Zenon DEF OwnInv, TableKept, IsCandidate, Busy
<1>3. \A s : s \in Waiting(m)' => s \in Waiting(m)
  BY Zenon DEF Waiting, Unfinished, IsCandidate, TableKept
<1>4. CaughtUpInv(m)' /\ AheadInv(m)'
  BY <1>3, Zenon DEF CaughtUpInv, AheadInv, IsCaughtUp, SameCounters, Ahead
<1> QED BY <1>1, <1>2, <1>4, Zenon

LEMMA SameCountersRefl ==
  ASSUME NEW q
  PROVE  SameCounters(q, q)
BY Zenon DEF SameCounters

LEMMA OthersKept ==
  ASSUME TypeOK, NEW n \in Nexus, TableInv(n), UNCHANGED exec, SagaStep(n)
  PROVE  \A m \in Nexus : m # n => MemoryKept(m) /\ \A s \in Saga : TableKept(m, s)
<1> SUFFICES ASSUME NEW m \in Nexus, m # n
             PROVE  MemoryKept(m) /\ \A s \in Saga : TableKept(m, s)
  BY Zenon
<1>1. Arriving(m)' = Arriving(m)
  BY Zenon DEF Arriving
<1>2. ASSUME quiesce'[m] = quiesce[m], creating'[m] = creating[m], sec'[m] = sec[m],
             channel'[m] = channel[m], started'[m] = started[m], pass'[m] = pass[m]
      PROVE  MemoryKept(m)
  BY <1>1, <1>2, SameCountersRefl, Zenon DEF MemoryKept
<1>3. ASSUME UNCHANGED saga PROVE \A s \in Saga : TableKept(m, s)
  BY <1>3, Zenon DEF TableKept
<1>4. ASSUME NEW s \in Saga, Prepare(n, s)
      PROVE  MemoryKept(m) /\ \A x \in Saga : TableKept(m, x)
  <2>1. MemoryKept(m)
    BY <1>2, <1>4, Zenon DEF TypeOK, Prepare
  <2>2. \A x \in Saga : TableKept(m, x)
    BY <1>4, Zenon DEF TypeOK, Prepare, TableKept
  <2> QED BY <2>1, <2>2, Zenon
<1>5. ASSUME NEW s \in Saga, Insert(n, s)
      PROVE  MemoryKept(m) /\ \A x \in Saga : TableKept(m, x)
  <2>1. MemoryKept(m)
    BY <1>2, <1>5, Zenon DEF TypeOK, Insert, restVars
  <2>2. saga[s].sec = n /\ saga'[s].sec = n /\ \A x \in Saga : x # s => saga'[x] = saga[x]
    BY <1>5 DEF TypeOK, Insert, TableInv
  <2> QED BY <2>1, <2>2, Zenon DEF TableKept
<1>6. ASSUME NEW s \in Saga, CreateOk(n, s) \/ CreateFails(n, s) \/ Complete(n, s)
      PROVE  MemoryKept(m) /\ \A x \in Saga : TableKept(m, x)
  BY <1>2, <1>3, <1>6, Zenon DEF TypeOK, CreateOk, CreateFails, Complete, restVars
<1>7. ASSUME NEW s \in Saga, RecordDone(n, s)
      PROVE  MemoryKept(m) /\ \A x \in Saga : TableKept(m, x)
  <2>1. MemoryKept(m)
    BY <1>2, <1>7, Zenon DEF TypeOK, RecordDone, restVars
  <2>2. saga[s].sec = n /\ saga'[s].sec = n /\ \A x \in Saga : x # s => saga'[x] = saga[x]
    BY <1>7 DEF TypeOK, RecordDone
  <2> QED BY <2>1, <2>2, Zenon DEF TableKept
<1>8. ASSUME StartPass(n) \/ ListBatch(n) \/ ListFails(n) \/ MakePlan(n)
      PROVE  MemoryKept(m) /\ \A x \in Saga : TableKept(m, x)
  BY <1>2, <1>3, <1>8, Zenon
     DEF TypeOK, StartPass, ListBatch, ListFails, MakePlan, UpdateStartedSagas, restVars
<1>9. ASSUME NEW s \in Saga, Resume(n, s) \/ ResumeFails(n, s)
      PROVE  MemoryKept(m) /\ \A x \in Saga : TableKept(m, x)
  BY <1>2, <1>3, <1>9, Zenon DEF TypeOK, Resume, ResumeFails, restVars
<1>10. ASSUME FinishExecution(n)
       PROVE  MemoryKept(m) /\ \A x \in Saga : TableKept(m, x)
  BY <1>2, <1>3, <1>10, Zenon DEF TypeOK, FinishExecution, EndPass
<1>11. ASSUME NEW s \in Saga, Abandon(n, s)
       PROVE  MemoryKept(m) /\ \A x \in Saga : TableKept(m, x)
  <2>1. MemoryKept(m)
    BY <1>2, <1>11, Zenon DEF TypeOK, Abandon, EndPass, restVars
  <2>2. /\ saga'[s].sec = saga[s].sec
        /\ saga[s].sec # n => saga'[s].state = saga[s].state
        /\ \A x \in Saga : x # s => saga'[x] = saga[x]
    BY <1>11 DEF TypeOK, Abandon
  <2> QED BY <1>11, <2>1, <2>2, Zenon DEF TableKept
<1> QED BY <1>4, <1>5, <1>6, <1>7, <1>8, <1>9, <1>10, <1>11, Zenon DEF SagaStep

-----------------------------------------------------------------------------
(* A step of the process itself: sagas.                                     *)

(* A step that leaves the counters and the pass alone, and after which no   *)
(* other saga is waiting, has only to keep what the recovery task knows.    *)
LEMMA SameWaiting ==
  ASSUME NEW n \in Nexus, DrainInv(n), SameCounters(quiesce[n], quiesce'[n]),
         pass'[n] = pass[n], Arriving(n)' = Arriving(n),
         \A x : x \in Waiting(n)' => x \in Waiting(n), OwnInv(n)'
  PROVE  DrainInv(n)'
<1>1. GenerationInv(n)'
  BY Zenon DEF DrainInv, GenerationInv, SameCounters
<1>2. CaughtUpInv(n)' /\ AheadInv(n)'
  BY Zenon DEF DrainInv, CaughtUpInv, AheadInv, IsCaughtUp, SameCounters, Ahead
<1> QED BY <1>1, <1>2, Zenon DEF DrainInv

LEMMA PrepareDrain ==
  ASSUME TypeOK, NEW n \in Nexus, SagaInv(n), DrainInv(n), UNCHANGED exec,
         NEW s \in Saga, Prepare(n, s)
  PROVE  DrainInv(n)'
<1>1. /\ saga[s].state = "Unborn" /\ saga'[s].state = "NoRow" /\ saga'[s].sec = n
      /\ \A x \in Saga : x # s => saga'[x] = saga[x]
      /\ creating'[n] = creating[n] \cup {s} /\ sec'[n] = sec[n]
      /\ channel'[n] = channel[n] \cup {s} /\ started'[n] = started[n]
      /\ pass'[n] = pass[n] /\ quiesce'[n] = SagaCreate(quiesce[n], s)
      /\ quiesce[n] \in QuiesceStatus(Saga) /\ Arriving(n)' = Arriving(n)
  BY Zenon DEF TypeOK, Prepare, Arriving
<1>2. /\ SameCounters(quiesce[n], quiesce'[n])
      /\ quiesce'[n].sagas_pending = quiesce[n].sagas_pending \cup {s}
  BY <1>1, PendingCounters
<1>3. OwnInv(n)'
  BY <1>1 DEF DrainInv, OwnInv, IsCandidate, Busy
<1>4. \A x : x \in Waiting(n)' => x \in Waiting(n)
  BY <1>1, <1>2, Zenon DEF Waiting, Unfinished, IsCandidate
<1> QED BY <1>1, <1>2, <1>3, <1>4, SameWaiting, Zenon

LEMMA InsertDrain ==
  ASSUME TypeOK, NEW n \in Nexus, SagaInv(n), DrainInv(n), UNCHANGED exec,
         NEW s \in Saga, Insert(n, s)
  PROVE  DrainInv(n)'
<1>1. /\ UNCHANGED <<quiesce, creating, sec, channel, started, pass>>
      /\ s \in creating[n] /\ s \in quiesce[n].sagas_pending
      /\ \A x \in Saga : x # s => saga'[x] = saga[x]
      /\ Arriving(n)' = Arriving(n)
  BY Zenon DEF TypeOK, Insert, restVars, Arriving, SagaInv, PendingInv
<1>2. saga'[s].sec = n
  BY DEF TypeOK, Insert, SagaInv, TableInv
<1>3. OwnInv(n)'
  BY <1>1, <1>2, Zenon DEF DrainInv, OwnInv, IsCandidate, Busy
<1>4. \A x : x \in Waiting(n)' => x \in Waiting(n)
  BY <1>1, Zenon DEF Waiting, Unfinished, IsCandidate
<1> QED BY <1>1, <1>3, <1>4, SameCountersRefl, SameWaiting, Zenon

LEMMA CreateOkDrain ==
  ASSUME TypeOK, NEW n \in Nexus, SagaInv(n), DrainInv(n), UNCHANGED exec,
         NEW s \in Saga, CreateOk(n, s)
  PROVE  DrainInv(n)'
<1>1. /\ UNCHANGED <<saga, quiesce, channel, started, pass>>
      /\ creating'[n] = creating[n] \ {s}
      /\ sec'[n][s] = "Running" /\ \A x \in Saga : x # s => sec'[n][x] = sec[n][x]
      /\ Arriving(n)' = Arriving(n)
  BY Zenon DEF TypeOK, CreateOk, restVars, Arriving
<1>2. OwnInv(n)'
  BY <1>1, Zenon DEF DrainInv, OwnInv, IsCandidate, Busy
<1>3. Waiting(n)' = Waiting(n)
  BY <1>1, Zenon DEF Waiting, Unfinished, IsCandidate
<1> QED BY <1>1, <1>2, <1>3, SameCountersRefl, SameWaiting, Zenon

LEMMA CreateFailsDrain ==
  ASSUME TypeOK, NEW n \in Nexus, SagaInv(n), DrainInv(n), UNCHANGED exec,
         ~ LostReply, NEW s \in Saga, CreateFails(n, s)
  PROVE  DrainInv(n)'
<1>1. /\ UNCHANGED <<saga, sec, channel, started, pass>> /\ saga[s].state = "NoRow"
      /\ creating'[n] = creating[n] \ {s}
      /\ quiesce'[n] = SagaCompletion(quiesce[n], s)
      /\ quiesce[n] \in QuiesceStatus(Saga) /\ Arriving(n)' = Arriving(n)
  BY Zenon DEF TypeOK, CreateFails, restVars, Arriving
<1>2. /\ SameCounters(quiesce[n], quiesce'[n])
      /\ quiesce'[n].sagas_pending = quiesce[n].sagas_pending \ {s}
  BY <1>1, PendingCounters, Zenon
<1>3. OwnInv(n)'
  BY <1>1, Zenon DEF DrainInv, OwnInv, IsCandidate, Busy
<1>4. \A x : x \in Waiting(n)' => x \in Waiting(n)
  BY <1>1, <1>2, Zenon DEF Waiting, Unfinished, IsCandidate
<1> QED BY <1>1, <1>2, <1>3, <1>4, SameWaiting, Zenon

LEMMA RecordDoneDrain ==
  ASSUME TypeOK, NEW n \in Nexus, SagaInv(n), DrainInv(n), UNCHANGED exec,
         NEW s \in Saga, RecordDone(n, s)
  PROVE  DrainInv(n)'
<1>1. /\ UNCHANGED <<quiesce, creating, channel, started, pass>>
      /\ saga'[s].state = "Done" /\ saga'[s].sec = saga[s].sec
      /\ \A x \in Saga : x # s => saga'[x] = saga[x] /\ sec'[n][x] = sec[n][x]
      /\ Arriving(n)' = Arriving(n)
  BY DEF TypeOK, RecordDone, restVars, Arriving
<1>2. OwnInv(n)'
  BY <1>1, Zenon DEF DrainInv, OwnInv, IsCandidate, Busy
<1>3. \A x : x \in Waiting(n)' => x \in Waiting(n)
  BY <1>1, Zenon DEF Waiting, Unfinished, IsCandidate
<1> QED BY <1>1, <1>2, <1>3, SameCountersRefl, SameWaiting, Zenon

LEMMA CompleteDrain ==
  ASSUME TypeOK, NEW n \in Nexus, SagaInv(n), DrainInv(n), UNCHANGED exec,
         NEW s \in Saga, Complete(n, s)
  PROVE  DrainInv(n)'
<1>1. /\ UNCHANGED <<saga, creating, channel, started, pass>>
      /\ sec[n][s] = "Recorded"
      /\ \A x \in Saga : x # s => sec'[n][x] = sec[n][x]
      /\ quiesce'[n] = SagaCompletion(quiesce[n], s)
      /\ quiesce[n] \in QuiesceStatus(Saga) /\ Arriving(n)' = Arriving(n)
  BY Zenon DEF TypeOK, Complete, restVars, Arriving
<1>2. /\ SameCounters(quiesce[n], quiesce'[n])
      /\ quiesce'[n].sagas_pending = quiesce[n].sagas_pending \ {s}
  BY <1>1, PendingCounters, Zenon
<1>3. saga[s].state # "Running"
  BY <1>1, Zenon DEF SagaInv, TableInv, Ended
<1>4. OwnInv(n)'
  BY <1>1, <1>3, Zenon DEF DrainInv, OwnInv, IsCandidate, Busy
<1>5. \A x : x \in Waiting(n)' => x \in Waiting(n)
  BY <1>1, <1>2, <1>3, Zenon DEF Waiting, Unfinished, IsCandidate
<1> QED BY <1>1, <1>2, <1>4, <1>5, SameWaiting, Zenon

-----------------------------------------------------------------------------
(* A step of the process itself: the recovery pass.                         *)

LEMMA StartPassDrain ==
  ASSUME TypeOK, NEW n \in Nexus, SagaInv(n), DrainInv(n), UNCHANGED exec,
         StartPass(n)
  PROVE  DrainInv(n)'
<1>1. /\ UNCHANGED <<saga, creating, sec, channel, started>>
      /\ quiesce'[n] = RecoveryStart(quiesce[n])
      /\ quiesce[n] \in QuiesceStatus(Saga) /\ Arriving(n)' = Arriving(n)
  BY Zenon DEF TypeOK, StartPass, restVars, Arriving
<1>2. /\ quiesce'[n].first_recovery_complete = quiesce[n].first_recovery_complete
      /\ quiesce'[n].reassignment_generation = quiesce[n].reassignment_generation
      /\ quiesce'[n].recovered_generation = quiesce[n].recovered_generation
      /\ quiesce'[n].pending_generation = quiesce[n].reassignment_generation
      /\ quiesce'[n].sagas_pending = quiesce[n].sagas_pending
  BY <1>1, RecoveryCounters, Zenon
<1>3. pass'[n].pc = "listing" /\ pass'[n].unread = Saga /\ pass'[n].recovered = {}
  BY Zenon DEF TypeOK, StartPass, Idle
<1>4. GenerationInv(n)'
  BY <1>1, <1>2, CountersType DEF DrainInv, GenerationInv
<1>5. OwnInv(n)'
  BY <1>1, <1>3, Zenon DEF DrainInv, OwnInv, IsCandidate, Busy
<1>6. Waiting(n)' = Waiting(n) /\ Waiting(n) \subseteq Saga
  BY <1>1, <1>2, Zenon DEF Waiting, Unfinished, IsCandidate
<1>7. CaughtUpInv(n)'
  BY <1>1, <1>2, <1>6, Zenon DEF DrainInv, CaughtUpInv, IsCaughtUp
<1>8. AheadInv(n)'
  BY <1>3, <1>6, Zenon DEF AheadInv, Ahead
<1> QED BY <1>4, <1>5, <1>7, <1>8, Zenon DEF DrainInv

LEMMA ListBatchDrain ==
  ASSUME TypeOK, NEW n \in Nexus, SagaInv(n), DrainInv(n), UNCHANGED exec,
         ListBatch(n)
  PROVE  DrainInv(n)'
<1>1. /\ UNCHANGED <<saga, quiesce, creating, sec, channel, started>>
      /\ pass[n].pc = "listing" /\ Arriving(n)' = Arriving(n)
  BY Zenon DEF TypeOK, ListBatch, restVars, Arriving
<1>2. PICK batch \in SUBSET pass[n].unread :
        pass' = [pass EXCEPT ![n].unread = @ \ batch,
                             ![n].found  = @ \cup (batch \cap Unfinished(n))]
  BY Zenon DEF ListBatch
<1>3. /\ pass'[n].pc = "listing" /\ pass'[n].unread = pass[n].unread \ batch
      /\ pass'[n].found = pass[n].found \cup (batch \cap Unfinished(n))
      /\ pass'[n].recovered = pass[n].recovered
  BY <1>1, <1>2 DEF TypeOK, Pass
<1>4. GenerationInv(n)'
  BY <1>1, Zenon DEF DrainInv, GenerationInv
<1>5. OwnInv(n)'
  BY <1>1, <1>3, Zenon DEF DrainInv, OwnInv, IsCandidate, Busy
<1>6. Waiting(n)' = Waiting(n) /\ Waiting(n) \subseteq Unfinished(n)
  BY <1>1, Zenon DEF Waiting, Unfinished, IsCandidate
<1>7. CaughtUpInv(n)'
  BY <1>1, <1>6, Zenon DEF DrainInv, CaughtUpInv, IsCaughtUp
<1>8. AheadInv(n)'
  <2>1. \A x \in Waiting(n) : Ahead(n, x) => Ahead(n, x)'
    BY <1>1, <1>3, <1>6, Zenon DEF Ahead
  <2> QED BY <1>1, <1>6, <2>1, Zenon DEF DrainInv, AheadInv
<1> QED BY <1>4, <1>5, <1>7, <1>8, Zenon DEF DrainInv

LEMMA ListFailsDrain ==
  ASSUME TypeOK, NEW n \in Nexus, SagaInv(n), DrainInv(n), UNCHANGED exec,
         ListFails(n)
  PROVE  DrainInv(n)'
<1>1. /\ UNCHANGED <<saga, creating, sec>> /\ pass'[n].pc = "idle"
      /\ pass'[n].recovered = {}
      /\ started'[n] = started[n] \cup channel[n] /\ channel'[n] = {}
      /\ quiesce[n] \in QuiesceStatus(Saga) /\ Arriving(n)' = Arriving(n)
  BY Zenon DEF TypeOK, ListFails, UpdateStartedSagas, Arriving, Idle
<1>2. /\ quiesce'[n].first_recovery_complete = quiesce[n].first_recovery_complete
      /\ quiesce'[n].reassignment_generation = quiesce[n].reassignment_generation
      /\ quiesce'[n].recovered_generation = quiesce[n].recovered_generation
      /\ quiesce'[n].pending_generation = 0
      /\ quiesce'[n].sagas_pending = quiesce[n].sagas_pending
  BY DEF TypeOK, ListFails, RecoveryDone, QuiesceStatus
<1>4. GenerationInv(n)'
  BY <1>1, <1>2, CountersType DEF DrainInv, GenerationInv
<1>5. OwnInv(n)'
  BY <1>1, Zenon DEF DrainInv, OwnInv, IsCandidate, Busy
<1>6. Waiting(n)' = Waiting(n)
  BY <1>1, <1>2, Zenon DEF Waiting, Unfinished, IsCandidate
<1>7. CaughtUpInv(n)' /\ AheadInv(n)'
  BY <1>1, <1>2, <1>6, Zenon DEF DrainInv, CaughtUpInv, AheadInv, IsCaughtUp
<1> QED BY <1>4, <1>5, <1>7, Zenon DEF DrainInv

(* A saga that the pass found and that recovery does not have to resume is  *)
(* one that the process has, and therefore pending.                         *)
LEMMA MakePlanDrain ==
  ASSUME TypeOK, NEW n \in Nexus, SagaInv(n), DrainInv(n), UNCHANGED exec,
         MakePlan(n)
  PROVE  DrainInv(n)'
<1>1. /\ UNCHANGED <<saga, quiesce, creating, sec>>
      /\ pass[n].pc = "listing" /\ pass[n].unread = {}
      /\ started'[n] = started[n] \cup channel[n] /\ channel'[n] = {}
      /\ Arriving(n)' = Arriving(n)
  BY Zenon DEF TypeOK, MakePlan, UpdateStartedSagas, Arriving
<1>2. /\ pass'[n].pc = "executing"
      /\ pass'[n].needs = pass[n].found \ (started[n] \cup channel[n])
      /\ pass'[n].recovered = pass[n].recovered
  BY DEF TypeOK, MakePlan, NeedsRecovery, Pass
<1>3. GenerationInv(n)'
  BY <1>1, Zenon DEF DrainInv, GenerationInv
<1>4. OwnInv(n)'
  BY <1>1, <1>2, Zenon DEF DrainInv, OwnInv, IsCandidate, Busy
<1>5. Waiting(n)' = Waiting(n)
  BY <1>1, Zenon DEF Waiting, Unfinished, IsCandidate
<1>6. CaughtUpInv(n)'
  BY <1>1, <1>5, Zenon DEF DrainInv, CaughtUpInv, IsCaughtUp
<1>7. \A x \in Waiting(n) : x \notin started[n] \cup channel[n]
  BY Zenon DEF DrainInv, OwnInv, Waiting, Unfinished, Busy, SagaInv, PendingInv
<1>8. AheadInv(n)'
  <2>1. \A x \in Waiting(n) : Ahead(n, x) => Ahead(n, x)'
    BY <1>1, <1>2, <1>7, Zenon DEF Ahead
  <2> QED BY <1>1, <1>5, <2>1, Zenon DEF DrainInv, AheadInv
<1> QED BY <1>3, <1>4, <1>6, <1>8, Zenon DEF DrainInv

LEMMA ResumeDrain ==
  ASSUME TypeOK, NEW n \in Nexus, SagaInv(n), DrainInv(n), UNCHANGED exec,
         NEW s \in Saga, Resume(n, s)
  PROVE  DrainInv(n)'
<1>1. /\ UNCHANGED <<saga, creating, channel, started>>
      /\ pass[n].pc = "executing" /\ s \in pass[n].needs
      /\ sec'[n][s] = "Running" /\ \A x \in Saga : x # s => sec'[n][x] = sec[n][x]
      /\ quiesce'[n] = SagaCreate(quiesce[n], s)
      /\ quiesce[n] \in QuiesceStatus(Saga) /\ Arriving(n)' = Arriving(n)
  BY Zenon DEF TypeOK, Resume, restVars, Arriving, RecordSagaRecovery, SagaCreate
<1>2. /\ SameCounters(quiesce[n], quiesce'[n])
      /\ quiesce'[n].sagas_pending = quiesce[n].sagas_pending \cup {s}
  BY <1>1, PendingCounters
<1>3. /\ pass'[n].pc = "executing" /\ pass'[n].needs = pass[n].needs \ {s}
      /\ pass'[n].recovered = pass[n].recovered \cup {s}
      /\ pass'[n].hopeless = pass[n].hopeless
  BY <1>1 DEF TypeOK, Resume, Pass
<1>4. saga[s].sec = n
  BY <1>1, Zenon DEF SagaInv, PassInv, Unfinished
<1>5. GenerationInv(n)'
  BY <1>2, Zenon DEF DrainInv, GenerationInv, SameCounters
<1>6. OwnInv(n)'
  BY <1>1, <1>3, <1>4 DEF DrainInv, OwnInv, IsCandidate, Busy
<1>7. \A x : x \in Waiting(n)' => x \in Waiting(n) /\ x # s
  BY <1>1, <1>2, Zenon DEF Waiting, Unfinished, IsCandidate
<1>8. CaughtUpInv(n)'
  BY <1>1, <1>2, <1>7, Zenon DEF DrainInv, CaughtUpInv, IsCaughtUp, SameCounters
<1>9. AheadInv(n)'
  <2>1. \A x \in Waiting(n) : Ahead(n, x) /\ x # s => Ahead(n, x)'
    BY <1>1, <1>3, Zenon DEF Ahead
  <2> QED BY <1>1, <1>2, <1>7, <2>1, Zenon DEF DrainInv, AheadInv, SameCounters
<1> QED BY <1>5, <1>6, <1>8, <1>9, Zenon DEF DrainInv

LEMMA ResumeFailsDrain ==
  ASSUME TypeOK, NEW n \in Nexus, SagaInv(n), DrainInv(n), UNCHANGED exec,
         ~ Transient, NEW s \in Saga, ResumeFails(n, s)
  PROVE  DrainInv(n)'
<1>1. /\ UNCHANGED <<saga, quiesce, creating, sec, channel, started>>
      /\ pass[n].pc = "executing" /\ Arriving(n)' = Arriving(n)
      /\ pass' = [pass EXCEPT ![n].needs = @ \ {s}, ![n].hopeless = @ \cup {s}]
  BY Zenon DEF TypeOK, ResumeFails, restVars, Arriving
<1>2. /\ pass'[n].pc = "executing" /\ pass'[n].needs = pass[n].needs \ {s}
      /\ pass'[n].recovered = pass[n].recovered
      /\ pass'[n].hopeless = pass[n].hopeless \cup {s}
  BY <1>1 DEF TypeOK, Pass
<1>3. GenerationInv(n)'
  BY <1>1, Zenon DEF DrainInv, GenerationInv
<1>4. OwnInv(n)'
  BY <1>1, <1>2, Zenon DEF DrainInv, OwnInv, IsCandidate, Busy
<1>5. Waiting(n)' = Waiting(n)
  BY <1>1, Zenon DEF Waiting, Unfinished, IsCandidate
<1>6. CaughtUpInv(n)'
  BY <1>1, <1>5, Zenon DEF DrainInv, CaughtUpInv, IsCaughtUp
<1>7. AheadInv(n)'
  <2>1. \A x \in Waiting(n) : Ahead(n, x) => Ahead(n, x)'
    BY <1>1, <1>2, Zenon DEF Ahead
  <2> QED BY <1>1, <1>5, <2>1, Zenon DEF DrainInv, AheadInv
<1> QED BY <1>3, <1>4, <1>6, <1>7, Zenon DEF DrainInv

(* A pass that ends has dealt with every saga that waited when it started.  *)
LEMMA EndPassDrain ==
  ASSUME TypeOK, NEW n \in Nexus, DrainInv(n), EndPass(n), pass[n].pc # "idle",
         Arriving(n)' = Arriving(n), OwnInv(n)',
         \A x : x \in Waiting(n)' => x \in Waiting(n) /\ ~ Ahead(n, x)
  PROVE  DrainInv(n)'
<1>1. quiesce[n] \in QuiesceStatus(Saga) /\ pass'[n].pc = "idle"
  BY Zenon DEF TypeOK, EndPass, Idle
<1>2. /\ quiesce'[n].reassignment_generation = quiesce[n].reassignment_generation
      /\ quiesce'[n].recovered_generation = quiesce[n].pending_generation
      /\ quiesce'[n].pending_generation = 0
  <2>1. quiesce'[n] = RecoveryDone(quiesce[n], TRUE)
    BY Zenon DEF TypeOK, EndPass
  <2> QED BY <1>1, <2>1, RecoveryCounters, Zenon
<1>3. GenerationInv(n)'
  BY <1>1, <1>2, CountersType DEF DrainInv, GenerationInv
<1>4. CaughtUpInv(n)'
  <2> SUFFICES ASSUME NEW x \in Waiting(n)', IsCaughtUp(quiesce[n])' PROVE Arriving(n)'
    BY Zenon DEF CaughtUpInv
  <2>1. ~ (quiesce[n].reassignment_generation > quiesce[n].pending_generation)
    <3>1. quiesce[n].reassignment_generation <= quiesce[n].pending_generation
      BY <1>2, Zenon DEF IsCaughtUp
    <3> QED BY <1>1, <3>1, CountersType
  <2> QED BY <2>1, Zenon DEF DrainInv, AheadInv
<1>5. AheadInv(n)'
  BY <1>1, Zenon DEF AheadInv
<1> QED BY <1>3, <1>4, <1>5, Zenon DEF DrainInv

LEMMA AbandoningFields ==
  ASSUME NEW S
  PROVE  LET p == [Idle EXCEPT !.pc = "abandoning", !.hopeless = S] IN
           p.pc = "abandoning" /\ p.hopeless = S /\ p.recovered = {}
BY Zenon DEF Idle

LEMMA FinishExecutionDrain ==
  ASSUME TypeOK, NEW n \in Nexus, SagaInv(n), DrainInv(n), UNCHANGED exec,
         FinishExecution(n)
  PROVE  DrainInv(n)'
<1>1. /\ UNCHANGED <<saga, creating, sec, channel>>
      /\ pass[n].pc = "executing" /\ pass[n].needs = {}
      /\ started'[n] = (started[n] \ InferredDone(n)) \cup pass[n].recovered
      /\ Arriving(n)' = Arriving(n)
  BY Zenon DEF TypeOK, FinishExecution, Arriving
<1>0. \/ pass'[n] = Idle
      \/ pass'[n] = [Idle EXCEPT !.pc = "abandoning", !.hopeless = pass[n].hopeless]
         /\ UNCHANGED quiesce
  BY Zenon DEF TypeOK, FinishExecution, EndPass
<1>2. pass'[n].recovered = {}
  BY <1>0, AbandoningFields, Zenon DEF Idle
<1>3. OwnInv(n)'
  BY <1>1, <1>2, Zenon DEF DrainInv, OwnInv, IsCandidate, Busy
<1>4. quiesce'[n].sagas_pending = quiesce[n].sagas_pending
  <2>1. CASE pass[n].hopeless = {}
    <3>1. quiesce'[n] = RecoveryDone(quiesce[n], TRUE) /\ quiesce[n] \in QuiesceStatus(Saga)
      BY <2>1, Zenon DEF TypeOK, FinishExecution, EndPass
    <3> QED BY <3>1, RecoveryCounters, Zenon
  <2>2. CASE pass[n].hopeless # {}
    BY <2>2, Zenon DEF FinishExecution
  <2> QED BY <2>1, <2>2, Zenon
<1>5. Waiting(n)' = Waiting(n)
  BY <1>1, <1>4, Zenon DEF Waiting, Unfinished, IsCandidate
<1>6. CASE pass[n].hopeless = {}
  <2>1. \A x : ~ Ahead(n, x)
    BY <1>1, <1>6, Zenon DEF Ahead
  <2>2. EndPass(n)
    BY <1>6, Zenon DEF FinishExecution
  <2> QED BY <1>1, <1>3, <1>5, <2>1, <2>2, EndPassDrain, Zenon
<1>7. CASE pass[n].hopeless # {}
  <2>1. UNCHANGED quiesce /\ pass'[n].pc = "abandoning" /\ pass'[n].hopeless = pass[n].hopeless
    <3>1. pass'[n] = [Idle EXCEPT !.pc = "abandoning", !.hopeless = pass[n].hopeless]
          /\ UNCHANGED quiesce
      BY <1>7, Zenon DEF TypeOK, FinishExecution
    <3> QED BY <3>1, AbandoningFields, ZenonT(30)
  <2>2. \A x : Ahead(n, x) => Ahead(n, x)'
    BY <1>1, <2>1, Zenon DEF Ahead
  <2>3. GenerationInv(n)'
    BY <2>1, Zenon DEF DrainInv, GenerationInv
  <2>4. CaughtUpInv(n)' /\ AheadInv(n)'
    BY <1>1, <1>5, <2>1, <2>2, Zenon DEF DrainInv, CaughtUpInv, AheadInv, IsCaughtUp
  <2> QED BY <1>3, <2>3, <2>4, Zenon DEF DrainInv
<1> QED BY <1>6, <1>7, Zenon

LEMMA AbandonDrain ==
  ASSUME TypeOK, NEW n \in Nexus, SagaInv(n), DrainInv(n), UNCHANGED exec,
         ~ Transient, NEW s \in Saga, Abandon(n, s)
  PROVE  DrainInv(n)'
<1>1. /\ UNCHANGED <<creating, sec, channel, started>>
      /\ pass[n].pc = "abandoning" /\ Arriving(n)' = Arriving(n)
  BY Zenon DEF TypeOK, Abandon, Arriving, restVars
<1>2. /\ saga'[s].sec = saga[s].sec
      /\ saga[s].sec = n => saga'[s].state = "Abandoned"
      /\ saga[s].sec # n => saga'[s].state = saga[s].state
      /\ \A x \in Saga : x # s => saga'[x] = saga[x]
  BY DEF TypeOK, Abandon
<1>3. pass[n].recovered = {} /\ pass'[n].recovered = {}
  <2>1. pass[n].recovered = {}
    BY <1>1, Zenon DEF SagaInv, PhaseInv
  <2>2. CASE pass[n].hopeless = {s}
    BY <2>1, <2>2 DEF TypeOK, Abandon, EndPass, Idle
  <2>3. CASE pass[n].hopeless # {s}
    BY SMTT(30), <2>1, <2>3 DEF TypeOK, Abandon, Pass
  <2> QED BY <2>1, <2>2, <2>3, Zenon
<1>4. OwnInv(n)'
  BY <1>1, <1>2, <1>3 DEF DrainInv, OwnInv, IsCandidate, Busy
<1>5. quiesce'[n].sagas_pending = quiesce[n].sagas_pending
  <2>1. CASE pass[n].hopeless = {s}
    <3>1. quiesce'[n] = RecoveryDone(quiesce[n], TRUE) /\ quiesce[n] \in QuiesceStatus(Saga)
      BY <2>1, Zenon DEF TypeOK, Abandon, EndPass
    <3> QED BY <3>1, RecoveryCounters, Zenon
  <2>2. CASE pass[n].hopeless # {s}
    BY <2>2, Zenon DEF Abandon
  <2> QED BY <2>1, <2>2, Zenon
<1>6. \A x : x \in Waiting(n)' => x \in Waiting(n) /\ x # s
  BY <1>2, <1>5, Zenon DEF Waiting, Unfinished, IsCandidate
<1>7. CASE pass[n].hopeless = {s}
  <2>1. \A x : Ahead(n, x) => x = s
    BY <1>1, <1>7, Zenon DEF Ahead
  <2>2. EndPass(n)
    BY <1>7, Zenon DEF Abandon
  <2> QED BY <1>1, <1>4, <1>6, <2>1, <2>2, EndPassDrain, Zenon
<1>8. CASE pass[n].hopeless # {s}
  <2>1. UNCHANGED quiesce /\ pass' = [pass EXCEPT ![n].hopeless = @ \ {s}]
    BY <1>8, Zenon DEF Abandon
  <2>2. pass'[n].pc = "abandoning" /\ pass'[n].hopeless = pass[n].hopeless \ {s}
    BY <1>1, <2>1 DEF TypeOK, Pass
  <2>3. \A x : Ahead(n, x) /\ x # s => Ahead(n, x)'
    BY <1>1, <2>2, Zenon DEF Ahead
  <2>4. GenerationInv(n)'
    BY <2>1, Zenon DEF DrainInv, GenerationInv
  <2>5. CaughtUpInv(n)' /\ AheadInv(n)'
    BY <1>1, <1>6, <2>1, <2>3, Zenon DEF DrainInv, CaughtUpInv, AheadInv, IsCaughtUp
  <2> QED BY <1>4, <2>4, <2>5, Zenon DEF DrainInv
<1> QED BY <1>7, <1>8, Zenon

LEMMA SagaActivityDrain ==
  ASSUME ~ LostReply, ~ Transient, Inv, \A m \in Nexus : DrainInv(m),
         NEW n \in Nexus, SagaActivity(n)
  PROVE  \A m \in Nexus : DrainInv(m)'
<1>1. TypeOK /\ UNCHANGED exec /\ SagaStep(n) /\ \A m \in Nexus : SagaInv(m)
  BY Zenon DEF Inv, QuiesceTypeOK, SagaActivity, processVars
<1>2. TableInv(n)
  BY <1>1, Zenon DEF SagaInv
<1>3. \A m \in Nexus : m # n => DrainInv(m)'
  BY <1>1, <1>2, OthersKept, DrainFrame, Zenon
<1>4. SagaInv(n) /\ DrainInv(n)
  BY <1>1, Zenon
<1>5. ASSUME NEW s \in Saga, Prepare(n, s) \/ Insert(n, s) \/ CreateOk(n, s)
                             \/ CreateFails(n, s) \/ RecordDone(n, s) \/ Complete(n, s)
      PROVE  DrainInv(n)'
  BY Zenon, <1>1, <1>4, <1>5, PrepareDrain, InsertDrain, CreateOkDrain,
     CreateFailsDrain, RecordDoneDrain, CompleteDrain
<1>6. ASSUME StartPass(n) \/ ListBatch(n) \/ ListFails(n) \/ MakePlan(n)
             \/ FinishExecution(n)
      PROVE  DrainInv(n)'
  BY Zenon, <1>1, <1>4, <1>6, StartPassDrain, ListBatchDrain, ListFailsDrain,
     MakePlanDrain, FinishExecutionDrain
<1>7. ASSUME NEW s \in Saga, Resume(n, s) \/ ResumeFails(n, s) \/ Abandon(n, s)
      PROVE  DrainInv(n)'
  BY Zenon, <1>1, <1>4, <1>7, ResumeDrain, ResumeFailsDrain, AbandonDrain
<1>8. DrainInv(n)'
  BY <1>1, <1>5, <1>6, <1>7, Zenon DEF SagaStep
<1> QED BY <1>3, <1>8, Zenon

-----------------------------------------------------------------------------
(* Blueprint execution and the life of processes.                           *)

LEMMA StartExecutionDrain ==
  ASSUME Inv, \A m \in Nexus : DrainInv(m), NEW n \in Nexus, StartExecution(n)
  PROVE  \A m \in Nexus : DrainInv(m)'
<1> DEFINE b == blueprints[loaded[n]].quiescing
           p == ReassignmentStart(SetQuiescing(quiesce[n], b))
<1>1. TypeOK /\ exec \in [Nexus -> ExecState] /\ \A m \in Nexus : SagaInv(m)
  BY Zenon DEF Inv, QuiesceTypeOK, ExecState
<1>2. loaded[n] \in 1 .. Target
  <2>1. Target \in Nat
    BY DEF Inv, QuiesceTypeOK, Target
  <2>2. loaded[n] \in 0 .. Target /\ loaded[n] # 0
    BY Zenon DEF StartExecution, Inv, BlueprintInv, NoBlueprint
  <2> QED BY <2>1, <2>2
<1>3. b \in BOOLEAN /\ quiesce[n] \in QuiesceStatus(Saga)
  BY <1>1, <1>2, BlueprintType, Zenon DEF Inv, TypeOK
<1>4. SameCounters(quiesce[n], p) /\ p.sagas_pending = quiesce[n].sagas_pending
  <2>1. 0 \in Nat /\ TRUE \in BOOLEAN
    BY Zenon
  <2> QED BY <1>3, <2>1, StartExecutionFields, ReassignmentCounters, Zenon
<1>5. /\ quiesce'[n] = p /\ \A m \in Nexus : m # n => quiesce'[m] = quiesce[m]
      /\ UNCHANGED <<saga, alive, creating, sec, channel, started, pass>>
  BY <1>1, Zenon DEF StartExecution, restVars, TypeOK
<1>6. /\ exec[n].pc = "idle" /\ exec'[n].pc = "reassigning"
      /\ \A m \in Nexus : m # n => exec'[m] = exec[m]
  BY <1>1, Zenon DEF StartExecution
<1> HIDE DEF p
<1>7. \A m \in Nexus : Arriving(m)' = Arriving(m)
  BY <1>6, Zenon DEF Arriving
<1>8. \A m \in Nexus : MemoryKept(m)
  BY <1>4, <1>5, <1>7, SameCountersRefl, Zenon DEF MemoryKept
<1>9. \A m \in Nexus : \A s \in Saga : TableKept(m, s)
  BY <1>5, Zenon DEF TableKept
<1> QED BY <1>1, <1>8, <1>9, DrainFrame, Zenon

LEMMA ReassignedRows ==
  ASSUME Inv, NEW n \in Nexus, ReassignSagas(n)
  PROVE  LET from == blueprints[exec[n].bp].ready IN
           /\ exec[n].bp \in 1 .. Target /\ from \cap alive = {} /\ from \subseteq Nexus
           /\ exec'[n].pc = "reassigned" /\ exec'[n].bp = exec[n].bp
           /\ exec'[n].any = (Reassignable(from) # {})
           /\ \A m \in Nexus : m # n => exec'[m] = exec[m]
           /\ \A s \in Saga :
                /\ saga'[s].state = saga[s].state
                /\ s \in Reassignable(from) => saga'[s].sec = n
                /\ s \notin Reassignable(from) => saga'[s] = saga[s]
<1> DEFINE from == blueprints[exec[n].bp].ready
<1>1. exec[n].bp \in 1 .. Target
  BY Zenon DEF ReassignSagas, Inv, BlueprintInv
<1>2. from \cap alive = {} /\ from \subseteq Nexus
  BY <1>1, BlueprintType, Zenon DEF Inv, BlueprintInv
<1>3. exec \in [Nexus -> ExecState] /\ exec[n] \in ExecState
  BY Zenon DEF Inv, QuiesceTypeOK, ExecState
<1>4. exec' = [exec EXCEPT ![n] = [exec[n] EXCEPT !.pc = "reassigned",
                                                  !.any = Reassignable(from) # {}]]
  BY <1>3, Zenon DEF ReassignSagas, ExpungedNexus
<1>5. /\ exec'[n].pc = "reassigned" /\ exec'[n].bp = exec[n].bp
      /\ exec'[n].any = (Reassignable(from) # {})
      /\ \A m \in Nexus : m # n => exec'[m] = exec[m]
  BY <1>3, <1>4, Zenon DEF ExecState
<1>6. saga' = [s \in Saga |->
                 IF s \in Reassignable(from) THEN [saga[s] EXCEPT !.sec = n] ELSE saga[s]]
  BY Zenon DEF ReassignSagas, ReassignSec, ExpungedNexus
<1> HIDE DEF from
<1>7. ASSUME NEW s \in Saga
      PROVE  /\ saga'[s].state = saga[s].state
             /\ s \in Reassignable(from) => saga'[s].sec = n
             /\ s \notin Reassignable(from) => saga'[s] = saga[s]
  <2>1. saga[s] \in SagaRow
    BY Zenon DEF Inv, QuiesceTypeOK, TypeOK, SagaRow
  <2>2. /\ [saga[s] EXCEPT !.sec = n].sec = n
        /\ [saga[s] EXCEPT !.sec = n].state = saga[s].state
    BY <2>1, Zenon DEF SagaRow
  <2>3. saga'[s] = IF s \in Reassignable(from) THEN [saga[s] EXCEPT !.sec = n]
                                               ELSE saga[s]
    BY <1>6, Zenon
  <2> QED BY <2>2, <2>3, Zenon
<1> QED BY <1>1, <1>2, <1>5, <1>7, Zenon DEF from

(* Whatever is reassigned is on its way until it is counted.                *)
LEMMA ReassignSagasDrain ==
  ASSUME Inv, \A m \in Nexus : DrainInv(m), NEW n \in Nexus, ReassignSagas(n)
  PROVE  \A m \in Nexus : DrainInv(m)'
<1> DEFINE from == blueprints[exec[n].bp].ready
<1>1. TypeOK /\ \A m \in Nexus : SagaInv(m)
  BY Zenon DEF Inv, QuiesceTypeOK
<1>2. /\ from \cap alive = {}
      /\ exec'[n].pc = "reassigned" /\ exec'[n].any = (Reassignable(from) # {})
      /\ \A m \in Nexus : m # n => exec'[m] = exec[m]
      /\ \A s \in Saga : /\ saga'[s].state = saga[s].state
                         /\ s \in Reassignable(from) => saga'[s].sec = n
                         /\ s \notin Reassignable(from) => saga'[s] = saga[s]
  BY ReassignedRows, Zenon
<1>3. /\ UNCHANGED <<quiesce, creating, sec, channel, started, pass>>
      /\ n \in alive /\ exec[n].pc = "reassigning"
  BY Zenon DEF ReassignSagas, restVars, HasDatabase
<1> HIDE DEF from
<1>4. \A s \in Reassignable(from) : saga[s].sec \in from
  BY Zenon DEF Reassignable
<1>5. ASSUME NEW m \in Nexus, m # n PROVE DrainInv(m)'
  <2>1. MemoryKept(m)
    BY <1>2, <1>3, <1>5, SameCountersRefl, Zenon DEF MemoryKept, Arriving
  <2>2. \A s \in Saga : TableKept(m, s)
    BY <1>2, <1>4, <1>5, Zenon DEF TableKept
  <2> QED BY <1>1, <2>1, <2>2, DrainFrame, Zenon
<1>6. CASE Reassignable(from) = {}
  <2>1. MemoryKept(n)
    BY <1>2, <1>3, <1>6, SameCountersRefl, Zenon DEF MemoryKept, Arriving
  <2>2. \A s \in Saga : TableKept(n, s)
    BY <1>2, <1>6, Zenon DEF TableKept
  <2>3. DrainInv(n)'
    BY <1>1, <2>1, <2>2, DrainFrame, Zenon
  <2> QED BY <1>5, <2>3, Zenon
<1>7. CASE Reassignable(from) # {}
  <2>1. Arriving(n)'
    BY <1>2, <1>7, Zenon DEF Arriving
  <2>2. CaughtUpInv(n)' /\ AheadInv(n)'
    BY <2>1, Zenon DEF CaughtUpInv, AheadInv
  <2>3. GenerationInv(n)'
    BY <1>3, Zenon DEF DrainInv, GenerationInv
  <2>4. OwnInv(n)'
    <3>1. \A s \in Saga : saga[s].sec = n => saga'[s] = saga[s]
      BY <1>2, <1>3, <1>4, Zenon
    <3> QED BY <1>3, <3>1 DEF DrainInv, OwnInv, IsCandidate, Busy
  <2>5. DrainInv(n)'
    BY <2>2, <2>3, <2>4, Zenon DEF DrainInv
  <2> QED BY <1>5, <2>5, Zenon
<1> QED BY <1>6, <1>7, Zenon

(* ... and is counted when the reassignment ends, so that the process is    *)
(* not caught up before another pass.                                       *)
LEMMA ReassignmentEndsDrain ==
  ASSUME Inv, \A m \in Nexus : DrainInv(m), NEW n \in Nexus,
         ReassignmentDone(n) \/ ReassignmentFails(n)
  PROVE  \A m \in Nexus : DrainInv(m)'
<1>1. TypeOK /\ exec \in [Nexus -> ExecState] /\ \A m \in Nexus : SagaInv(m)
  BY Zenon DEF Inv, QuiesceTypeOK, ExecState
<1>2. quiesce[n] \in QuiesceStatus(Saga) /\ exec[n].bp \in Nat /\ exec[n].any \in BOOLEAN
  BY <1>1, Zenon DEF TypeOK, ExecState
<1>3. /\ UNCHANGED <<saga, alive, creating, sec, channel, started, pass>>
      /\ exec'[n].pc = "idle"
      /\ \A m \in Nexus : m # n => exec'[m] = exec[m] /\ quiesce'[m] = quiesce[m]
  <2>1. /\ UNCHANGED <<saga, alive, creating, sec, channel, started, pass>>
        /\ exec' = [exec EXCEPT ![n] = NoExec]
        /\ \A m \in Nexus : m # n => quiesce'[m] = quiesce[m]
    BY <1>1, Zenon DEF ReassignmentDone, ReassignmentFails, restVars, TypeOK
  <2>2. NoExec.pc = "idle"
    BY Zenon DEF NoExec
  <2> QED BY <1>1, <2>1, <2>2, Zenon
<1>4. \A m \in Nexus : \A s \in Saga : TableKept(m, s)
  BY <1>3, Zenon DEF TableKept
<1>5. ASSUME NEW m \in Nexus, m # n PROVE DrainInv(m)'
  <2>1. MemoryKept(m)
    BY <1>3, <1>5, SameCountersRefl, Zenon DEF MemoryKept, Arriving
  <2> QED BY <1>1, <1>4, <2>1, DrainFrame, Zenon
<1>6. \/ ~ Arriving(n) /\ SameCounters(quiesce[n], quiesce'[n])
      \/ /\ quiesce'[n].reassignment_generation = quiesce[n].reassignment_generation + 1
         /\ quiesce'[n].recovered_generation = quiesce[n].recovered_generation
         /\ quiesce'[n].pending_generation = quiesce[n].pending_generation
  <2>1. CASE ReassignmentDone(n)
    <3>1. quiesce'[n] = ReassignedAllAsOf(quiesce[n], exec[n].bp, exec[n].any)
      BY <1>1, <2>1, Zenon DEF ReassignmentDone, TypeOK
    <3>2. TRUE \in BOOLEAN
      BY Zenon
    <3>3. LET p == ReassignedAllAsOf(quiesce[n], exec[n].bp, exec[n].any) IN
            IF exec[n].any
              THEN /\ p.reassignment_generation = quiesce[n].reassignment_generation + 1
                   /\ p.recovered_generation = quiesce[n].recovered_generation
                   /\ p.pending_generation = quiesce[n].pending_generation
              ELSE SameCounters(quiesce[n], p)
      BY <1>2, <3>2, ReassignmentCounters, Zenon
    <3> QED BY <3>1, <3>3, Zenon DEF Arriving
  <2>2. CASE ReassignmentFails(n)
    <3>1. quiesce'[n] = ReassignedIndeterminate(quiesce[n])
      BY <1>1, <2>2, Zenon DEF ReassignmentFails, TypeOK
    <3>2. TRUE \in BOOLEAN
      BY Zenon
    <3> QED BY <1>2, <3>1, <3>2, ReassignmentCounters, Zenon
  <2> QED BY <2>1, <2>2, Zenon
<1>7. quiesce'[n].sagas_pending = quiesce[n].sagas_pending
  <2>1. CASE ReassignmentDone(n)
    <3>1. quiesce'[n] = ReassignedAllAsOf(quiesce[n], exec[n].bp, exec[n].any)
      BY <1>1, <2>1, Zenon DEF ReassignmentDone, TypeOK
    <3> QED BY <1>2, <3>1, ReassignmentFields, ZenonT(30)
  <2>2. CASE ReassignmentFails(n)
    <3>1. quiesce'[n] = ReassignedIndeterminate(quiesce[n])
      BY <1>1, <2>2, Zenon DEF ReassignmentFails, TypeOK
    <3> QED BY <1>2, <3>1, ReassignmentFields, Zenon
  <2> QED BY <2>1, <2>2, Zenon
<1>8. CASE ~ Arriving(n) /\ SameCounters(quiesce[n], quiesce'[n])
  <2>1. MemoryKept(n)
    BY <1>3, <1>7, <1>8, Zenon DEF MemoryKept, Arriving
  <2>2. DrainInv(n)'
    BY <1>1, <1>4, <2>1, DrainFrame, Zenon
  <2> QED BY <1>5, <2>2, Zenon
<1>9. CASE /\ quiesce'[n].reassignment_generation = quiesce[n].reassignment_generation + 1
           /\ quiesce'[n].recovered_generation = quiesce[n].recovered_generation
           /\ quiesce'[n].pending_generation = quiesce[n].pending_generation
  <2>1. GenerationInv(n)
    BY Zenon DEF DrainInv
  <2>2. /\ GenerationInv(n)'
        /\ ~ (quiesce'[n].reassignment_generation <= quiesce'[n].recovered_generation)
        /\ quiesce'[n].reassignment_generation > quiesce'[n].pending_generation
    BY <1>2, <1>9, <2>1, CountersType DEF GenerationInv
  <2>3. CaughtUpInv(n)' /\ AheadInv(n)'
    BY <2>2, Zenon DEF CaughtUpInv, AheadInv, IsCaughtUp
  <2>4. OwnInv(n)'
    BY <1>3, ZenonT(30) DEF DrainInv, OwnInv, IsCandidate, Busy
  <2>5. DrainInv(n)'
    BY <2>2, <2>3, <2>4, Zenon DEF DrainInv
  <2> QED BY <1>5, <2>5, Zenon
<1> QED BY <1>6, <1>8, <1>9, Zenon

LEMMA NewProcessDrain ==
  ASSUME NEW n \in Nexus, quiesce'[n] = NewQuiesce, channel'[n] = {},
         started'[n] = {}, pass'[n] = Idle
  PROVE  DrainInv(n)'
<1>1. /\ ~ NewQuiesce.first_recovery_complete
      /\ NewQuiesce.reassignment_generation = 0
      /\ NewQuiesce.recovered_generation = 0 /\ NewQuiesce.pending_generation = 0
      /\ Idle.pc = "idle" /\ Idle.recovered = {}
  BY Zenon DEF NewQuiesce, Idle
<1>2. GenerationInv(n)'
  BY <1>1 DEF GenerationInv
<1>3. OwnInv(n)' /\ CaughtUpInv(n)' /\ AheadInv(n)'
  BY <1>1, Zenon DEF OwnInv, CaughtUpInv, AheadInv, IsCaughtUp
<1> QED BY <1>2, <1>3, Zenon DEF DrainInv

LEMMA ProcessEndsDrain ==
  ASSUME Inv, \A m \in Nexus : DrainInv(m), NEW n \in Nexus, ProcessEnds(n)
  PROVE  \A m \in Nexus : DrainInv(m)'
<1>1. TypeOK /\ exec \in [Nexus -> ExecState] /\ \A m \in Nexus : SagaInv(m)
  BY Zenon DEF Inv, QuiesceTypeOK, ExecState
<1>2. /\ quiesce'[n] = NewQuiesce /\ channel'[n] = {} /\ started'[n] = {}
      /\ pass'[n] = Idle
      /\ \A m \in Nexus : m # n =>
           /\ quiesce'[m] = quiesce[m] /\ creating'[m] = creating[m] /\ sec'[m] = sec[m]
           /\ channel'[m] = channel[m] /\ started'[m] = started[m]
           /\ pass'[m] = pass[m] /\ exec'[m] = exec[m]
      /\ UNCHANGED saga
  BY <1>1, Zenon DEF ProcessEnds, Crash, TypeOK
<1>3. ASSUME NEW m \in Nexus, m # n PROVE DrainInv(m)'
  <2>1. MemoryKept(m)
    BY <1>2, <1>3, SameCountersRefl, Zenon DEF MemoryKept, Arriving
  <2>2. \A s \in Saga : TableKept(m, s)
    BY <1>2, Zenon DEF TableKept
  <2> QED BY <1>1, <2>1, <2>2, DrainFrame, Zenon
<1> QED BY <1>2, <1>3, NewProcessDrain, Zenon

(* Steps that leave the sagas and what processes know of them alone.        *)
LEMMA QuietDrain ==
  ASSUME \A m \in Nexus : SagaInv(m), \A m \in Nexus : DrainInv(m),
         UNCHANGED <<saga, quiesce, creating, sec, channel, started, pass, exec>>
  PROVE  \A m \in Nexus : DrainInv(m)'
<1>1. \A m \in Nexus : MemoryKept(m)
  BY SameCountersRefl, Zenon DEF MemoryKept, Arriving
<1>2. \A m \in Nexus : \A s \in Saga : TableKept(m, s)
  BY Zenon DEF TableKept
<1> QED BY <1>1, <1>2, DrainFrame, Zenon

-----------------------------------------------------------------------------
DrainedInv == Inv /\ \A n \in Nexus : DrainInv(n)

LEMMA NextDrain ==
  ASSUME ~ SlowInsert, ~ LostReply, ~ Transient, DrainedInv, [Next]_vars
  PROVE  DrainedInv'
<1>1. Inv /\ (\A m \in Nexus : DrainInv(m)) /\ \A m \in Nexus : SagaInv(m)
  BY Zenon DEF DrainedInv, Inv
<1>2. Inv'
  BY <1>1, NextInv, StutterInv, Zenon
<1>3. ASSUME UNCHANGED <<saga, quiesce, creating, sec, channel, started, pass, exec>>
      PROVE  \A m \in Nexus : DrainInv(m)'
  BY <1>1, <1>3, QuietDrain, Zenon
<1>4. ASSUME BumpGeneration \/ AttemptHandoff \/ UNCHANGED vars
      PROVE  \A m \in Nexus : DrainInv(m)'
  BY <1>3, <1>4, Zenon
     DEF BumpGeneration, AttemptHandoff, NewTarget, vars, sagaVars, processVars
<1>5. ASSUME NEW n \in Nexus,
             \/ ExpungeSled(n) \/ ExpungeDisk(n) \/ MarkReady(n) \/ LoadBlueprint(n)
             \/ StartCheck(n) \/ RecordDrained(n) \/ MoveOn(n) \/ CheckFails(n)
             \/ RecordQuiesced(n) \/ ProcessStarts(n)
      PROVE  \A m \in Nexus : DrainInv(m)'
  <2>1. CASE ExpungeSled(n) \/ ExpungeDisk(n) \/ MarkReady(n)
    BY <1>3, <2>1, Zenon
       DEF ExpungeSled, ExpungeDisk, MarkReady, NewTarget, sagaVars, processVars
  <2>2. CASE LoadBlueprint(n) \/ StartCheck(n) \/ RecordDrained(n) \/ MoveOn(n)
    BY <1>3, <2>2, Zenon DEF LoadBlueprint, StartCheck, RecordDrained, MoveOn, sagaVars
  <2>3. CASE CheckFails(n) \/ RecordQuiesced(n) \/ ProcessStarts(n)
    BY <1>3, <2>3, Zenon
       DEF CheckFails, RecordQuiesced, ProcessStarts, Restart, restVars, sagaVars,
           processVars
  <2> QED BY <1>5, <2>1, <2>2, <2>3, Zenon
<1>6. ASSUME NEW n \in Nexus,
             \/ StartExecution(n) \/ ReassignSagas(n) \/ ReassignmentDone(n)
             \/ ReassignmentFails(n) \/ ProcessEnds(n) \/ SagaActivity(n)
      PROVE  \A m \in Nexus : DrainInv(m)'
  BY Zenon, <1>1, <1>6, StartExecutionDrain, ReassignSagasDrain, ReassignmentEndsDrain,
     ProcessEndsDrain, SagaActivityDrain
<1> QED BY <1>2, <1>4, <1>5, <1>6, Zenon DEF Next, DrainedInv

LEMMA InitDrain ==
  Init => DrainedInv
<1> SUFFICES ASSUME Init PROVE DrainedInv
  BY Zenon
<1>1. Inv
  BY InitInv, Zenon
<1>2. ASSUME NEW n \in Nexus PROVE DrainInv(n)
  <2>1. /\ quiesce[n] = NewQuiesce /\ channel[n] = {} /\ started[n] = {}
        /\ pass[n] = Idle
    BY Zenon DEF Init, SagaInit
  <2>2. /\ ~ NewQuiesce.first_recovery_complete
        /\ NewQuiesce.reassignment_generation = 0
        /\ NewQuiesce.recovered_generation = 0 /\ NewQuiesce.pending_generation = 0
        /\ Idle.pc = "idle" /\ Idle.recovered = {}
    BY Zenon DEF NewQuiesce, Idle
  <2>3. GenerationInv(n)
    BY <2>1, <2>2 DEF GenerationInv
  <2>4. OwnInv(n) /\ CaughtUpInv(n) /\ AheadInv(n)
    BY <2>1, <2>2, Zenon DEF OwnInv, CaughtUpInv, AheadInv, IsCaughtUp
  <2> QED BY <2>3, <2>4, Zenon DEF DrainInv
<1> QED BY <1>1, <1>2, Zenon DEF DrainedInv

(* A process that is fully drained has no unfinished saga.                  *)
LEMMA DrainedFact ==
  ASSUME DrainedInv, NEW n \in Nexus, IsFullyDrained(quiesce[n])
  PROVE  Unfinished(n) = {}
<1>1. FlagsInv(n) /\ CaughtUpInv(n)
  BY Zenon DEF DrainedInv, Inv, SagaInv, DrainInv
<1>2. ~ Arriving(n)
  BY <1>1, Zenon DEF FlagsInv, IsFullyDrained, Arriving
<1>3. Waiting(n) = {}
  BY <1>1, <1>2, Zenon DEF CaughtUpInv, IsFullyDrained
<1> QED BY <1>3, Zenon DEF Waiting, IsFullyDrained

(* The invariant holds in every state that is reached.                      *)
THEOREM DrainInvariant ==
  ASSUME ~ SlowInsert, ~ LostReply, ~ Transient
  PROVE  Spec => []DrainedInv
<1>1. DrainedInv /\ [Next]_vars => DrainedInv'
  BY NextDrain, Zenon
<1> QED BY <1>1, InitDrain, PTL DEF Spec

(* A fully drained process has no unfinished saga assigned to it, although  *)
(* sagas are reassigned while recovery passes are under way                 *)
(* (is_fully_drained, recovery_start, reassignment_done).                   *)
THEOREM DrainedNeverHasSagas ==
  ASSUME ~ SlowInsert, ~ LostReply, ~ Transient
  PROVE  Spec => []DrainedHasNoSagas
<1>1. DrainedInv => DrainedHasNoSagas
  <2> SUFFICES ASSUME DrainedInv, NEW n \in alive, IsFullyDrained(quiesce[n])
               PROVE  Unfinished(n) = {}
    BY Zenon DEF DrainedHasNoSagas
  <2>1. n \in Nexus
    BY Zenon DEF DrainedInv, Inv, QuiesceTypeOK, TypeOK
  <2> QED BY <2>1, DrainedFact, Zenon
<1> QED BY <1>1, DrainInvariant, PTL
=============================================================================
