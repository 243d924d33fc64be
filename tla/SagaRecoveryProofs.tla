------------------------- MODULE SagaRecoveryProofs -------------------------
(***************************************************************************)
(* Sagas run in one process, recovery resumes none that runs already, and  *)
(* the assertions of the code hold: the proofs, for every number of Nexus  *)
(* instances, sagas and blueprints, with crashes, restarts, reassignments  *)
(* and failures anywhere.  Assumed is only that no INSERT is pending       *)
(* through a whole recovery pass, as the comment in Plan::new argues.      *)
(***************************************************************************)
EXTENDS NexusQuiesce, TLAPS

-----------------------------------------------------------------------------
(* The inductive invariant.                                                 *)

HasRow(s) == saga[s].state \notin {"Unborn", "NoRow"}

Ended(s) == saga[s].state \in {"Done", "Abandoned"}

(* Steno of process n is inserting the saga or has it.                      *)
Busy(n, s) == s \in creating[n] \/ sec[n][s] = "Running"

(* Blueprints only ever expunge instances, and one that is expunged and     *)
(* gone does not come back.                                                 *)
BlueprintInv ==
  /\ Target >= 1
  /\ \A i \in 1 .. Target :
       /\ blueprints[i].inService \cap blueprints[i].ready = {}
       /\ blueprints[i].ready \subseteq blueprints[Target].ready
       /\ blueprints[Target].inService \subseteq blueprints[i].inService
       /\ blueprints[i].quiescing => blueprints[Target].quiescing
  /\ blueprints[Target].ready \cap alive = {}
  /\ \A n \in Nexus : /\ loaded[n] \in 0 .. Target
                      /\ exec[n].pc # "idle" => exec[n].bp \in 1 .. Target

(* A process that does not run has lost its memory.                         *)
DeadInv(n) ==
  n \notin alive =>
    /\ quiesce[n] = NewQuiesce /\ creating[n] = {}
    /\ \A s \in Saga : sec[n][s] = "Unknown"
    /\ channel[n] = {} /\ started[n] = {} /\ removeNext[n] = {}
    /\ pass[n] = Idle /\ exec[n] = NoExec

FlagsInv(n) ==
  /\ quiesce[n].reassignment_pending <=> exec[n].pc # "idle"
  /\ quiesce[n].recovery_pending <=> pass[n].pc # "idle"

(* What a process holds of a saga agrees with the table.                    *)
TableInv(n) ==
  \A s \in Saga :
    /\ s \in started[n] \cup channel[n] => saga[s].state # "Unborn"
    /\ s \in creating[n] =>
         /\ saga[s].sec = n /\ saga[s].state \in {"NoRow", "Running"}
         /\ sec[n][s] = "Unknown"
    /\ sec[n][s] = "Running" => saga[s].sec = n /\ saga[s].state = "Running"
    /\ sec[n][s] \in {"Recorded", "Done"} => Ended(s)

PendingInv(n) ==
  \A s \in Saga : s \in creating[n] \/ sec[n][s] \in {"Running", "Recorded"}
                    => s \in quiesce[n].sagas_pending

(* The recovery task knows of every saga the process has.                   *)
StartedInv(n) ==
  /\ channel[n] \cap started[n] = {}
  /\ removeNext[n] \subseteq started[n]
  /\ \A s \in Saga : Busy(n, s) =>
       s \in started[n] \cup channel[n] \cup pass[n].recovered

(* Only the parts of a pass that its phase uses are set.                    *)
PhaseInv(n) ==
  /\ pass[n].pc = "idle" => pass[n] = Idle
  /\ pass[n].pc # "executing" => pass[n].needs = {} /\ pass[n].recovered = {}
  /\ pass[n].pc = "listing" => pass[n].hopeless = {}

(* A listed saga that the recovery task does not know of is unfinished and  *)
(* nobody has it, from the listing until it is resumed or given up.         *)
PassInv(n) ==
  \A s \in Saga :
    /\ pass[n].pc = "listing" /\ s \in pass[n].found =>
         /\ HasRow(s)
         /\ \/ s \in started[n] \cup channel[n]
            \/ s \in Unfinished(n) /\ sec[n][s] = "Unknown" /\ s \notin creating[n]
    /\ s \in pass[n].needs =>
         /\ s \in Unfinished(n) /\ sec[n][s] = "Unknown" /\ s \notin creating[n]
         /\ s \notin started[n] \cup channel[n] \cup pass[n].hopeless
    /\ s \in pass[n].recovered =>
         HasRow(s) /\ s \notin started[n] \cup channel[n]
    /\ s \in pass[n].hopeless =>
         HasRow(s) /\ sec[n][s] = "Unknown" /\ s \notin creating[n]

(* A saga that the last pass missed and that the process has is one that    *)
(* this pass finds.                                                         *)
MissedInv(n) ==
  \A s \in Saga :
    s \in removeNext[n] /\ Busy(n, s) =>
      /\ pass[n].pc = "listing" => HasRow(s) /\ s \in pass[n].unread \cup pass[n].found
      /\ pass[n].pc = "executing" => s \in pass[n].found

SagaInv(n) ==
  /\ DeadInv(n) /\ FlagsInv(n) /\ TableInv(n) /\ PendingInv(n)
  /\ StartedInv(n) /\ PhaseInv(n) /\ PassInv(n) /\ MissedInv(n)

Inv == QuiesceTypeOK /\ BlueprintInv /\ \A n \in Nexus : SagaInv(n)

-----------------------------------------------------------------------------
(* The functions of SagaQuiesceHandle.                                      *)

(* p differs from q at most in what it was last drained as of.              *)
SameButDrained(q, p) ==
  /\ p.new_sagas_allowed = q.new_sagas_allowed
  /\ p.sagas_pending = q.sagas_pending
  /\ p.first_recovery_complete = q.first_recovery_complete
  /\ p.reassignment_generation = q.reassignment_generation
  /\ p.reassignment_blueprint = q.reassignment_blueprint
  /\ p.reassignment_pending = q.reassignment_pending
  /\ p.recovered_generation = q.recovered_generation
  /\ p.recovered_blueprint = q.recovered_blueprint
  /\ p.recovery_pending = q.recovery_pending
  /\ p.pending_generation = q.pending_generation
  /\ p.pending_blueprint = q.pending_blueprint

(* Latching changes nothing else, and latches only when fully drained.      *)
LEMMA LatchFacts ==
  ASSUME NEW q \in QuiesceStatus(Saga)
  PROVE  /\ LatchBlueprintIfDrained(q) \in QuiesceStatus(Saga)
         /\ SameButDrained(q, LatchBlueprintIfDrained(q))
         /\ \/ LatchBlueprintIfDrained(q).drained_blueprint = q.drained_blueprint
            \/ /\ IsFullyDrained(q)
               /\ LatchBlueprintIfDrained(q).drained_blueprint = q.recovered_blueprint
<1>1. CASE IsFullyDrained(q)
  BY <1>1, Zenon DEF LatchBlueprintIfDrained, QuiesceStatus, SameButDrained
<1>2. CASE ~ IsFullyDrained(q)
  BY <1>2, Zenon DEF LatchBlueprintIfDrained, QuiesceStatus, SameButDrained
<1> QED BY <1>1, <1>2, Zenon

LEMMA NewQuiesceType ==
  NewQuiesce \in QuiesceStatus(Saga)
BY Zenon DEF NewQuiesce, QuiesceStatus, SagasAllowed, NoBlueprint

(* What drained_blueprint may become: it stays, or p is fully drained and   *)
(* it is what the sagas have been recovered as of.                          *)
Latched(q, p) ==
  \/ p.drained_blueprint = q.drained_blueprint
  \/ IsFullyDrained(p) /\ p.drained_blueprint = p.recovered_blueprint

LEMMA LatchedFacts ==
  ASSUME NEW q, NEW r \in QuiesceStatus(Saga),
         r.drained_blueprint = q.drained_blueprint
  PROVE  Latched(q, LatchBlueprintIfDrained(r))
<1>1. IsFullyDrained(r) => IsFullyDrained(LatchBlueprintIfDrained(r))
  BY LatchFacts, Zenon DEF IsFullyDrained, IsCaughtUp, SameButDrained
<1> QED BY <1>1, LatchFacts DEF Latched, SameButDrained

LEMMA SetQuiescingFacts ==
  ASSUME NEW q \in QuiesceStatus(Saga), NEW b \in BOOLEAN
  PROVE  LET p == SetQuiescing(q, b) IN
           /\ p \in QuiesceStatus(Saga)
           /\ SameButDrained([q EXCEPT !.new_sagas_allowed = p.new_sagas_allowed], p)
           /\ p.new_sagas_allowed =
                IF b \/ q.new_sagas_allowed = "DisallowedQuiesce"
                  THEN "DisallowedQuiesce" ELSE "Allowed"
           /\ Latched(q, p)
<1> DEFINE r == IF q.new_sagas_allowed = "DisallowedQuiesce"
                  THEN q
                  ELSE [q EXCEPT !.new_sagas_allowed =
                          IF b THEN "DisallowedQuiesce" ELSE "Allowed"]
           p == SetQuiescing(q, b)
<1>1. r \in QuiesceStatus(Saga) /\ r.drained_blueprint = q.drained_blueprint
  BY Zenon DEF QuiesceStatus, SagasAllowed
<1>2. r.new_sagas_allowed = IF b \/ q.new_sagas_allowed = "DisallowedQuiesce"
                              THEN "DisallowedQuiesce" ELSE "Allowed"
  BY Zenon DEF QuiesceStatus
<1>3. r = [q EXCEPT !.new_sagas_allowed = r.new_sagas_allowed]
  BY Zenon DEF QuiesceStatus
<1>4. p = LatchBlueprintIfDrained(r)
  BY Zenon DEF SetQuiescing
<1> HIDE DEF r, p
<1>5. p.new_sagas_allowed = r.new_sagas_allowed
  BY <1>1, <1>4, LatchFacts, Zenon DEF SameButDrained
<1>6. SameButDrained([q EXCEPT !.new_sagas_allowed = p.new_sagas_allowed], p)
  BY <1>1, <1>3, <1>4, <1>5, LatchFacts, Zenon
<1> QED
  BY <1>1, <1>2, <1>4, <1>5, <1>6, LatchFacts, LatchedFacts, Zenon DEF p

LEMMA PendingFacts ==
  ASSUME NEW q \in QuiesceStatus(Saga), NEW s \in Saga
  PROVE  /\ SagaCreate(q, s) \in QuiesceStatus(Saga)
         /\ SagaCreate(q, s) = [q EXCEPT !.sagas_pending = q.sagas_pending \cup {s}]
         /\ RecordSagaRecovery(q, s) = SagaCreate(q, s)
         /\ SagaCompletion(q, s) \in QuiesceStatus(Saga)
         /\ SameButDrained([q EXCEPT !.sagas_pending = q.sagas_pending \ {s}],
                           SagaCompletion(q, s))
         /\ Latched(q, SagaCompletion(q, s))
<1> DEFINE r == [q EXCEPT !.sagas_pending = q.sagas_pending \ {s}]
<1>1. r \in QuiesceStatus(Saga) /\ r.drained_blueprint = q.drained_blueprint
  BY Zenon DEF QuiesceStatus
<1>2. SagaCompletion(q, s) = LatchBlueprintIfDrained(r)
  BY Zenon DEF SagaCompletion
<1>3. /\ SagaCreate(q, s) \in QuiesceStatus(Saga)
      /\ SagaCreate(q, s) = [q EXCEPT !.sagas_pending = q.sagas_pending \cup {s}]
      /\ RecordSagaRecovery(q, s) = SagaCreate(q, s)
  BY Zenon DEF SagaCreate, RecordSagaRecovery, QuiesceStatus
<1> HIDE DEF r
<1>4. /\ LatchBlueprintIfDrained(r) \in QuiesceStatus(Saga)
      /\ SameButDrained(r, LatchBlueprintIfDrained(r))
      /\ Latched(q, LatchBlueprintIfDrained(r))
  BY <1>1, LatchFacts, LatchedFacts, Zenon
<1> QED BY <1>2, <1>3, <1>4, Zenon DEF r

LEMMA ReassignmentFacts ==
  ASSUME NEW q \in QuiesceStatus(Saga), NEW bp \in Nat, NEW any \in BOOLEAN
  PROVE  /\ ReassignmentStart(q) = [q EXCEPT !.reassignment_pending = TRUE]
         /\ ReassignmentStart(q) \in QuiesceStatus(Saga)
         /\ LET p == ReassignedAllAsOf(q, bp, any) IN
              /\ p \in QuiesceStatus(Saga)
              /\ SameButDrained(
                   [q EXCEPT
                     !.reassignment_pending    = FALSE,
                     !.reassignment_blueprint  = bp,
                     !.reassignment_generation =
                         IF any THEN q.reassignment_generation + 1
                                ELSE q.reassignment_generation,
                     !.recovered_blueprint     =
                         IF ~any /\ IsCaughtUp(q) THEN bp ELSE q.recovered_blueprint],
                   p)
              /\ Latched(q, p)
         /\ LET p == ReassignedIndeterminate(q) IN
              /\ p \in QuiesceStatus(Saga)
              /\ SameButDrained(
                   [q EXCEPT
                     !.reassignment_pending    = FALSE,
                     !.reassignment_generation = q.reassignment_generation + 1],
                   p)
              /\ Latched(q, p)
<1>1. /\ ReassignmentStart(q) = [q EXCEPT !.reassignment_pending = TRUE]
      /\ ReassignmentStart(q) \in QuiesceStatus(Saga)
  BY Zenon DEF ReassignmentStart, QuiesceStatus
<1> DEFINE r1 == [q EXCEPT
                     !.reassignment_pending    = FALSE,
                     !.reassignment_blueprint  = bp,
                     !.reassignment_generation =
                         IF any THEN q.reassignment_generation + 1
                                ELSE q.reassignment_generation,
                     !.recovered_blueprint     =
                         IF ~any /\ IsCaughtUp(q) THEN bp ELSE q.recovered_blueprint]
           r2 == [q EXCEPT
                     !.reassignment_pending    = FALSE,
                     !.reassignment_generation = q.reassignment_generation + 1]
<1>a. /\ q.reassignment_generation \in Nat /\ q.reassignment_generation + 1 \in Nat
      /\ q.recovered_blueprint \in Nat
  BY DEF QuiesceStatus
<1>b. \A g, b, h \in Nat :
        /\ [q EXCEPT !.reassignment_pending    = FALSE,
                     !.reassignment_blueprint  = b,
                     !.reassignment_generation = g,
                     !.recovered_blueprint     = h] \in QuiesceStatus(Saga)
        /\ [q EXCEPT !.reassignment_pending    = FALSE,
                     !.reassignment_generation = g] \in QuiesceStatus(Saga)
  BY Zenon DEF QuiesceStatus
<1>2. r1 \in QuiesceStatus(Saga) /\ r1.drained_blueprint = q.drained_blueprint
  <2>1. r1 \in QuiesceStatus(Saga)
    BY <1>a, <1>b, Zenon
  <2> QED BY <2>1, Zenon DEF QuiesceStatus
<1>3. r2 \in QuiesceStatus(Saga) /\ r2.drained_blueprint = q.drained_blueprint
  <2>1. r2 \in QuiesceStatus(Saga)
    BY <1>a, <1>b, Zenon
  <2> QED BY <2>1, Zenon DEF QuiesceStatus
<1>4. /\ ReassignedAllAsOf(q, bp, any) = LatchBlueprintIfDrained(r1)
      /\ ReassignedIndeterminate(q) = LatchBlueprintIfDrained(r2)
  BY Zenon DEF ReassignedAllAsOf, ReassignedIndeterminate
<1> HIDE DEF r1, r2
<1>5. /\ LatchBlueprintIfDrained(r1) \in QuiesceStatus(Saga)
      /\ SameButDrained(r1, LatchBlueprintIfDrained(r1))
      /\ Latched(q, LatchBlueprintIfDrained(r1))
  BY <1>2, LatchFacts, LatchedFacts, Zenon
<1>6. /\ LatchBlueprintIfDrained(r2) \in QuiesceStatus(Saga)
      /\ SameButDrained(r2, LatchBlueprintIfDrained(r2))
      /\ Latched(q, LatchBlueprintIfDrained(r2))
  BY <1>3, LatchFacts, LatchedFacts, Zenon
<1> QED BY <1>1, <1>4, <1>5, <1>6, Zenon DEF r1, r2

LEMMA RecoveryFacts ==
  ASSUME NEW q \in QuiesceStatus(Saga)
  PROVE  /\ RecoveryStart(q) \in QuiesceStatus(Saga)
         /\ LET p == RecoveryDone(q, FALSE) IN
              /\ p \in QuiesceStatus(Saga)
              /\ p = [q EXCEPT !.recovery_pending   = FALSE,
                               !.pending_generation = 0,
                               !.pending_blueprint  = NoBlueprint]
         /\ LET p == RecoveryDone(q, TRUE) IN
              /\ p \in QuiesceStatus(Saga)
              /\ SameButDrained(
                   [q EXCEPT !.recovery_pending        = FALSE,
                             !.pending_generation      = 0,
                             !.pending_blueprint       = NoBlueprint,
                             !.recovered_blueprint     = q.pending_blueprint,
                             !.recovered_generation    = q.pending_generation,
                             !.first_recovery_complete = TRUE],
                   p)
              /\ Latched(q, p)
<1> DEFINE c == [q EXCEPT !.recovery_pending   = FALSE,
                          !.pending_generation = 0,
                          !.pending_blueprint  = NoBlueprint]
           r == [q EXCEPT !.recovery_pending        = FALSE,
                          !.pending_generation      = 0,
                          !.pending_blueprint       = NoBlueprint,
                          !.recovered_blueprint     = q.pending_blueprint,
                          !.recovered_generation    = q.pending_generation,
                          !.first_recovery_complete = TRUE]
<1>1. RecoveryStart(q) \in QuiesceStatus(Saga) /\ c \in QuiesceStatus(Saga)
  BY Zenon DEF RecoveryStart, QuiesceStatus, NoBlueprint
<1>2. r \in QuiesceStatus(Saga) /\ r.drained_blueprint = q.drained_blueprint
  BY Zenon DEF QuiesceStatus, NoBlueprint
<1>3. RecoveryDone(q, FALSE) = c
  BY Zenon DEF RecoveryDone
<1>4. RecoveryDone(q, TRUE) = LatchBlueprintIfDrained(r)
  <2>1. r = [c EXCEPT !.recovered_blueprint     = q.pending_blueprint,
                      !.recovered_generation    = q.pending_generation,
                      !.first_recovery_complete = TRUE]
    BY Zenon DEF QuiesceStatus
  <2> QED BY <2>1, Zenon DEF RecoveryDone
<1> HIDE DEF c, r
<1>5. /\ LatchBlueprintIfDrained(r) \in QuiesceStatus(Saga)
      /\ SameButDrained(r, LatchBlueprintIfDrained(r))
      /\ Latched(q, LatchBlueprintIfDrained(r))
  BY <1>2, LatchFacts, LatchedFacts, Zenon
<1> QED BY <1>1, <1>3, <1>4, <1>5, Zenon DEF c, r

-----------------------------------------------------------------------------
(* Type correctness.                                                        *)

LEMMA IdleType ==
  /\ Idle \in Pass
  /\ [Idle EXCEPT !.pc = "listing", !.unread = Saga] \in Pass
  /\ \A S \in SUBSET Saga :
       [Idle EXCEPT !.pc = "abandoning", !.hopeless = S] \in Pass
BY Zenon DEF Idle, Pass

LEMMA PassUpdates ==
  ASSUME NEW p \in Pass, NEW S \in SUBSET Saga, NEW T \in SUBSET Saga
  PROVE  /\ [p EXCEPT !.unread = S, !.found = T] \in Pass
         /\ [p EXCEPT !.pc = "executing", !.needs = S] \in Pass
         /\ [p EXCEPT !.needs = S, !.recovered = T] \in Pass
         /\ [p EXCEPT !.needs = S, !.hopeless = T] \in Pass
         /\ [p EXCEPT !.hopeless = S] \in Pass
BY Zenon DEF Pass

SagaRow == [state : SagaState, sec : Nexus \cup {NoNexus}]

LEMMA SagaRowType ==
  ASSUME NEW r \in SagaRow, NEW x \in SagaState
  PROVE  [r EXCEPT !.state = x] \in SagaRow
BY Zenon DEF SagaRow

LEMMA CreatingType ==
  ASSUME TypeOK, NEW n \in Nexus, NEW s \in Saga,
         Prepare(n, s) \/ Insert(n, s) \/ CreateOk(n, s) \/ CreateFails(n, s)
           \/ RecordDone(n, s) \/ Complete(n, s)
  PROVE  TypeOK'
<1> USE DEF TypeOK
<1>0. quiesce[n] \in QuiesceStatus(Saga) /\ saga[s] \in SagaRow
  BY Zenon DEF SagaRow
<1>1. CASE Prepare(n, s)
  <2>1. quiesce' \in [Nexus -> QuiesceStatus(Saga)]
    BY <1>0, <1>1, PendingFacts, Zenon DEF Prepare
  <2>2. saga' \in [Saga -> SagaRow]
    BY <1>1, Zenon DEF Prepare, SagaState, SagaRow
  <2> QED BY <1>1, <2>1, <2>2 DEF Prepare, SagaRow
<1>2. CASE Insert(n, s)
  <2>1. saga' \in [Saga -> SagaRow]
    <3>1. [saga[s] EXCEPT !.state = "Running"] \in SagaRow
      BY <1>0, SagaRowType, Zenon DEF SagaState
    <3> QED BY <1>2, <3>1, Zenon DEF Insert, SagaRow
  <2> QED BY <1>2, <2>1, Zenon DEF Insert, restVars, SagaRow
<1>3. CASE CreateOk(n, s)
  <2>1. sec' \in [Nexus -> [Saga -> SecState]]
    BY <1>3, Zenon DEF CreateOk, SecState
  <2> QED BY <1>3, <2>1, Zenon DEF CreateOk, restVars
<1>4. CASE CreateFails(n, s)
  <2>1. quiesce' \in [Nexus -> QuiesceStatus(Saga)]
    BY <1>0, <1>4, PendingFacts, Zenon DEF CreateFails
  <2> QED BY <1>4, <2>1, Zenon DEF CreateFails, restVars
<1>5. CASE RecordDone(n, s)
  <2>1. saga' \in [Saga -> SagaRow]
    <3>1. [saga[s] EXCEPT !.state = "Done"] \in SagaRow
      BY <1>0, SagaRowType, Zenon DEF SagaState
    <3> QED BY <1>5, <3>1, Zenon DEF RecordDone, SagaRow
  <2>2. sec' \in [Nexus -> [Saga -> SecState]]
    BY <1>5, Zenon DEF RecordDone, SecState
  <2> QED BY <1>5, <2>1, <2>2, Zenon DEF RecordDone, restVars, SagaRow
<1>6. CASE Complete(n, s)
  <2>1. sec' \in [Nexus -> [Saga -> SecState]]
    BY <1>6, Zenon DEF Complete, SecState
  <2>2. quiesce' \in [Nexus -> QuiesceStatus(Saga)]
    BY <1>0, <1>6, PendingFacts, Zenon DEF Complete
  <2> QED BY <1>6, <2>1, <2>2, Zenon DEF Complete, restVars
<1> QED BY <1>1, <1>2, <1>3, <1>4, <1>5, <1>6, Zenon

LEMMA EndPassType ==
  ASSUME TypeOK, NEW n \in Nexus, EndPass(n)
  PROVE  quiesce' \in [Nexus -> QuiesceStatus(Saga)] /\ pass' \in [Nexus -> Pass]
<1>1. quiesce[n] \in QuiesceStatus(Saga)
  BY Zenon DEF TypeOK
<1>2. RecoveryDone(quiesce[n], TRUE) \in QuiesceStatus(Saga)
  BY <1>1, RecoveryFacts, Zenon
<1> QED BY <1>2, IdleType, Zenon DEF EndPass, TypeOK

LEMMA PassType ==
  ASSUME TypeOK, NEW n \in Nexus,
         \/ StartPass(n) \/ ListBatch(n) \/ ListFails(n) \/ MakePlan(n)
         \/ FinishExecution(n)
  PROVE  TypeOK'
<1> USE DEF TypeOK
<1>0. quiesce[n] \in QuiesceStatus(Saga) /\ pass[n] \in Pass
  BY Zenon
<1>1. CASE StartPass(n)
  <2>1. quiesce' \in [Nexus -> QuiesceStatus(Saga)]
    BY <1>0, <1>1, RecoveryFacts, Zenon DEF StartPass
  <2>2. pass' \in [Nexus -> Pass]
    BY <1>1, IdleType, Zenon DEF StartPass
  <2> QED BY <1>1, <2>1, <2>2, Zenon DEF StartPass, restVars
<1>2. CASE ListBatch(n)
  <2>1. PICK batch \in SUBSET pass[n].unread :
          pass' = [pass EXCEPT
                       ![n].unread = @ \ batch,
                       ![n].found  = @ \cup (batch \cap Unfinished(n))]
    BY <1>2, Zenon DEF ListBatch
  <2>2. pass' \in [Nexus -> Pass]
    <3>1. /\ pass[n].unread \ batch \in SUBSET Saga
          /\ pass[n].found \cup (batch \cap Unfinished(n)) \in SUBSET Saga
      BY <1>0, Zenon DEF Pass, Unfinished
    <3>2. [pass[n] EXCEPT !.unread = @ \ batch,
                          !.found  = @ \cup (batch \cap Unfinished(n))] \in Pass
      BY <1>0, <3>1, PassUpdates, Zenon
    <3> QED BY <2>1, <3>2, Zenon
  <2> QED BY <1>2, <2>2, Zenon DEF ListBatch, restVars
<1>3. CASE ListFails(n)
  <2>1. quiesce' \in [Nexus -> QuiesceStatus(Saga)]
    BY <1>0, <1>3, RecoveryFacts, Zenon DEF ListFails
  <2>2. pass' \in [Nexus -> Pass]
    BY <1>3, IdleType, Zenon DEF ListFails
  <2> QED BY <1>3, <2>1, <2>2, Zenon DEF ListFails, UpdateStartedSagas
<1>4. CASE MakePlan(n)
  <2>1. NeedsRecovery(n) \in SUBSET Saga
    BY <1>0, Zenon DEF NeedsRecovery, Pass
  <2>2. pass' \in [Nexus -> Pass]
    <3>1. [pass[n] EXCEPT !.pc = "executing", !.needs = NeedsRecovery(n)] \in Pass
      BY <1>0, <2>1, PassUpdates, Zenon
    <3> QED BY <1>4, <3>1, Zenon DEF MakePlan
  <2> QED BY <1>4, <2>2, Zenon DEF MakePlan, UpdateStartedSagas
<1>5. CASE FinishExecution(n)
  <2>1. /\ started' \in [Nexus -> SUBSET Saga]
        /\ removeNext' \in [Nexus -> SUBSET Saga]
    BY <1>0, <1>5, Zenon DEF FinishExecution, MaybeDone, InferredDone, Pass
  <2>2. CASE pass[n].hopeless = {}
    BY <1>5, <2>1, <2>2, EndPassType, Zenon DEF FinishExecution
  <2>3. CASE pass[n].hopeless # {}
    <3>1. pass[n].hopeless \in SUBSET Saga
      BY <1>0, Zenon DEF Pass
    <3>0. /\ pass' = [pass EXCEPT ![n] = [Idle EXCEPT !.pc = "abandoning",
                                                     !.hopeless = pass[n].hopeless]]
          /\ UNCHANGED quiesce
      BY <1>5, <2>3, Zenon DEF FinishExecution
    <3>2. pass' \in [Nexus -> Pass] /\ UNCHANGED quiesce
      BY <3>0, <3>1, IdleType, Zenon
    <3> QED BY <1>5, <2>1, <3>2, Zenon DEF FinishExecution
  <2> QED BY <2>2, <2>3, Zenon
<1> QED BY <1>1, <1>2, <1>3, <1>4, <1>5, Zenon

LEMMA ResumeType ==
  ASSUME TypeOK, NEW n \in Nexus, NEW s \in Saga,
         Resume(n, s) \/ ResumeFails(n, s) \/ Abandon(n, s)
  PROVE  TypeOK'
<1> USE DEF TypeOK
<1>0. quiesce[n] \in QuiesceStatus(Saga) /\ pass[n] \in Pass /\ saga[s] \in SagaRow
  BY Zenon DEF SagaRow
<1>1. CASE Resume(n, s)
  <2>1. quiesce' \in [Nexus -> QuiesceStatus(Saga)]
    <3>1. RecordSagaRecovery(quiesce[n], s) \in QuiesceStatus(Saga)
      BY <1>0, PendingFacts, Zenon
    <3> QED BY <1>1, <3>1, Zenon DEF Resume
  <2>2. pass' \in [Nexus -> Pass]
    <3>1. /\ pass[n].needs \ {s} \in SUBSET Saga
          /\ pass[n].recovered \cup {s} \in SUBSET Saga
      BY <1>0, Zenon DEF Pass
    <3>2. [pass[n] EXCEPT !.needs = @ \ {s}, !.recovered = @ \cup {s}] \in Pass
      BY <1>0, <3>1, PassUpdates, Zenon
    <3> QED BY <1>1, <3>2, Zenon DEF Resume
  <2>3. sec' \in [Nexus -> [Saga -> SecState]]
    BY <1>1, Zenon DEF Resume, SecState
  <2> QED BY <1>1, <2>1, <2>2, <2>3, Zenon DEF Resume, restVars
<1>2. CASE ResumeFails(n, s)
  <2>1. pass' \in [Nexus -> Pass]
    <3>1. PICK permanent \in BOOLEAN :
            pass' = [pass EXCEPT
                       ![n].needs = @ \ {s},
                       ![n].hopeless = IF permanent THEN @ \cup {s} ELSE @]
      BY <1>2, Zenon DEF ResumeFails
    <3>2. \A S, T \in SUBSET Saga : [pass[n] EXCEPT !.needs = S, !.hopeless = T] \in Pass
      BY <1>0, PassUpdates, Zenon
    <3>3. /\ pass[n].needs \ {s} \in SUBSET Saga
          /\ (IF permanent THEN pass[n].hopeless \cup {s} ELSE pass[n].hopeless)
               \in SUBSET Saga
      BY <1>0, Zenon DEF Pass
    <3>4. [pass[n] EXCEPT !.needs = @ \ {s},
                          !.hopeless = IF permanent THEN @ \cup {s} ELSE @] \in Pass
      BY <3>2, <3>3, Zenon
    <3> QED BY <3>1, <3>4, Zenon
  <2> QED BY <1>2, <2>1, Zenon DEF ResumeFails, restVars
<1>3. CASE Abandon(n, s)
  <2>1. saga' \in [Saga -> SagaRow]
    <3>1. [saga[s] EXCEPT !.state = IF saga[s].sec = n THEN "Abandoned" ELSE @]
            \in SagaRow
      BY <1>0, Zenon DEF SagaRow, SagaState
    <3>2. saga \in [Saga -> SagaRow]
      BY Zenon DEF SagaRow
    <3> QED BY <1>3, <3>1, <3>2, Zenon DEF Abandon
  <2>2. quiesce' \in [Nexus -> QuiesceStatus(Saga)] /\ pass' \in [Nexus -> Pass]
    <3>1. CASE pass[n].hopeless = {s}
      BY <1>3, <3>1, EndPassType, Zenon DEF Abandon
    <3>2. CASE pass[n].hopeless # {s}
      <4>1. [pass[n] EXCEPT !.hopeless = @ \ {s}] \in Pass
        BY <1>0, Zenon DEF Pass
      <4>2. pass' = [pass EXCEPT ![n].hopeless = @ \ {s}] /\ UNCHANGED quiesce
        BY <1>3, <3>2, Zenon DEF Abandon
      <4> QED BY <4>1, <4>2, Zenon
    <3> QED BY <3>1, <3>2, Zenon
  <2> QED BY <1>3, <2>1, <2>2, Zenon DEF Abandon, restVars, SagaRow
<1> QED BY <1>1, <1>2, <1>3, Zenon

-----------------------------------------------------------------------------
(* A step of another process, or one that is not about sagas.               *)

(* What process m knows of the table stays true.                            *)
SagaKept(m, s) ==
  /\ saga[s].state # "Unborn" => saga'[s].state # "Unborn"
  /\ HasRow(s) => HasRow(s)'
  /\ Ended(s) => Ended(s)'
  /\ m \in alive /\ saga[s].sec = m /\ saga[s].state # "Unborn" =>
       saga'[s] = saga[s]

ProcessKept(m) ==
  /\ m \in alive' <=> m \in alive
  /\ quiesce'[m] = quiesce[m]
  /\ creating'[m] = creating[m]
  /\ sec'[m] = sec[m]
  /\ channel'[m] = channel[m]
  /\ started'[m] = started[m]
  /\ removeNext'[m] = removeNext[m]
  /\ pass'[m] = pass[m]
  /\ exec'[m].pc = "idle" <=> exec[m].pc = "idle"
  /\ m \notin alive => exec'[m] = exec[m]

LEMMA Frame ==
  ASSUME NEW m \in Nexus, SagaInv(m), ProcessKept(m),
         \A s \in Saga : SagaKept(m, s)
  PROVE  SagaInv(m)'
<1> USE DEF SagaInv, ProcessKept
<1>1. DeadInv(m)'
  BY Zenon DEF DeadInv
<1>2. FlagsInv(m)' /\ PhaseInv(m)'
  BY Zenon DEF FlagsInv, PhaseInv
<1>3. PendingInv(m)' /\ StartedInv(m)'
  BY Zenon DEF PendingInv, StartedInv, Busy
<1>4. CASE m \notin alive
  <2>1. /\ creating[m] = {} /\ started[m] = {} /\ channel[m] = {}
        /\ removeNext[m] = {}
        /\ \A s \in Saga : sec[m][s] = "Unknown"
        /\ pass[m].pc = "idle" /\ pass[m].needs = {} /\ pass[m].recovered = {}
        /\ pass[m].hopeless = {}
    BY <1>4 DEF DeadInv, Idle
  <2>2. TableInv(m)' /\ PassInv(m)' /\ MissedInv(m)'
    BY <2>1, Zenon DEF TableInv, PassInv, MissedInv
  <2> QED BY <1>1, <1>2, <1>3, <2>2, Zenon
<1>5. CASE m \in alive
  <2>1. TableInv(m)'
    BY <1>5 DEF TableInv, SagaKept, Ended
  <2>2. PassInv(m)'
    <3>1. \A s \in Saga : /\ s \in Unfinished(m) => s \in Unfinished(m)'
                          /\ HasRow(s) => HasRow(s)'
      BY <1>5, Zenon DEF SagaKept, Unfinished, IsCandidate
    <3> QED BY <3>1, Zenon DEF PassInv
  <2>3. MissedInv(m)'
    BY <1>5, Zenon DEF MissedInv, SagaKept, Busy, HasRow
  <2> QED BY <1>1, <1>2, <1>3, <2>1, <2>2, <2>3, Zenon
<1> QED BY <1>4, <1>5, Zenon

(* ... that leaves the table alone.                                         *)
LEMMA SagaUnchanged ==
  ASSUME UNCHANGED saga, NEW m, NEW s
  PROVE  SagaKept(m, s)
BY Zenon DEF SagaKept, HasRow, Ended

LEMMA PrepareInv ==
  ASSUME TypeOK, \A m \in Nexus : SagaInv(m), UNCHANGED exec,
         NEW n \in Nexus, NEW s \in Saga, Prepare(n, s)
  PROVE  \A m \in Nexus : SagaInv(m)'
<1>1. ASSUME NEW m \in Nexus, m # n PROVE SagaInv(m)'
  <2>1. ProcessKept(m)
    BY <1>1, Zenon DEF TypeOK, Prepare, ProcessKept
  <2>2. \A x \in Saga : SagaKept(m, x)
    BY <1>1, Zenon DEF TypeOK, Prepare, SagaKept, HasRow, Ended
  <2> QED BY <1>1, <2>1, <2>2, Frame, Zenon
<1>2. /\ saga[s].state = "Unborn" /\ n \in alive /\ UNCHANGED alive
      /\ saga'[s].state = "NoRow" /\ saga'[s].sec = n
      /\ \A x \in Saga : x # s => saga'[x] = saga[x]
      /\ creating'[n] = creating[n] \cup {s} /\ sec'[n] = sec[n]
      /\ channel'[n] = channel[n] \cup {s} /\ started'[n] = started[n]
      /\ removeNext'[n] = removeNext[n] /\ pass'[n] = pass[n] /\ exec'[n] = exec[n]
  BY Zenon DEF TypeOK, Prepare
<1>3. /\ quiesce'[n].sagas_pending = quiesce[n].sagas_pending \cup {s}
      /\ quiesce'[n].reassignment_pending = quiesce[n].reassignment_pending
      /\ quiesce'[n].recovery_pending = quiesce[n].recovery_pending
  BY DEF TypeOK, Prepare, SagaCreate, QuiesceStatus
<1>4. SagaInv(n)
  BY Zenon
<1>5. SagaInv(n)'
  <2>0. /\ DeadInv(n) /\ FlagsInv(n) /\ TableInv(n) /\ PendingInv(n)
        /\ StartedInv(n) /\ PhaseInv(n) /\ PassInv(n) /\ MissedInv(n)
    BY <1>2, <1>4, Zenon DEF SagaInv
  <2> USE <1>2, <1>4, <2>0
  <2>1. DeadInv(n)' /\ FlagsInv(n)' /\ PhaseInv(n)'
    BY <1>3 DEF DeadInv, FlagsInv, PhaseInv
  <2>2. TableInv(n)'
    BY DEF TypeOK, TableInv, Ended, SecState
  <2>3. PendingInv(n)'
    BY <1>3, Zenon DEF PendingInv
  <2>4. StartedInv(n)'
    BY DEF StartedInv, TableInv, Busy
  <2>5. PassInv(n)'
    BY DEF PassInv, HasRow, Unfinished, IsCandidate
  <2>6. MissedInv(n)'
    BY DEF MissedInv, TableInv, StartedInv, Busy, HasRow
  <2> QED BY <2>1, <2>2, <2>3, <2>4, <2>5, <2>6, Zenon DEF SagaInv
<1> QED BY <1>1, <1>5, Zenon

LEMMA InsertInv ==
  ASSUME TypeOK, \A m \in Nexus : SagaInv(m), UNCHANGED exec,
         NEW n \in Nexus, NEW s \in Saga, Insert(n, s)
  PROVE  \A m \in Nexus : SagaInv(m)'
<1>0. SagaInv(n) /\ saga[s].sec = n
  BY Zenon DEF SagaInv, TableInv, Insert
<1>1. ASSUME NEW m \in Nexus, m # n PROVE SagaInv(m)'
  <2>1. ProcessKept(m)
    BY <1>1, Zenon DEF TypeOK, Insert, ProcessKept, restVars
  <2>2. \A x \in Saga : SagaKept(m, x)
    BY <1>0, <1>1, Zenon DEF TypeOK, Insert, SagaKept, HasRow, Ended
  <2> QED BY <1>1, <2>1, <2>2, Frame, Zenon
<1>2. /\ s \in creating[n] /\ saga[s].state = "NoRow"
      /\ UNCHANGED <<alive, quiesce, creating, sec, channel, started, removeNext, pass>>
      /\ saga'[s].state = "Running" /\ saga'[s].sec = n
      /\ \A x \in Saga : x # s => saga'[x] = saga[x]
  BY <1>0 DEF TypeOK, Insert, restVars
<1>3. SagaInv(n)'
  <2>0. /\ DeadInv(n) /\ FlagsInv(n) /\ TableInv(n) /\ PendingInv(n)
        /\ StartedInv(n) /\ PhaseInv(n) /\ PassInv(n) /\ MissedInv(n)
    BY <1>0, <1>2, Zenon DEF SagaInv
  <2> USE <1>0, <1>2, <2>0
  <2>1. DeadInv(n)' /\ FlagsInv(n)' /\ PhaseInv(n)'
    BY Zenon DEF DeadInv, FlagsInv, PhaseInv
  <2>2. TableInv(n)'
    BY Zenon DEF TableInv, Ended
  <2>3. PendingInv(n)' /\ StartedInv(n)'
    BY Zenon DEF PendingInv, StartedInv, Busy
  <2>4. PassInv(n)'
    <3>1. \A x \in Saga : /\ x \in Unfinished(n) => x \in Unfinished(n)'
                          /\ HasRow(x) => HasRow(x)'
      BY Zenon DEF Unfinished, IsCandidate, HasRow
    <3> QED BY <3>1, Zenon DEF PassInv
  <2>5. MissedInv(n)'
    BY Zenon DEF MissedInv, Busy, HasRow
  <2> QED BY <2>1, <2>2, <2>3, <2>4, <2>5, Zenon DEF SagaInv
<1> QED BY <1>1, <1>3, Zenon

LEMMA CreateOkInv ==
  ASSUME TypeOK, \A m \in Nexus : SagaInv(m), UNCHANGED exec,
         NEW n \in Nexus, NEW s \in Saga, CreateOk(n, s)
  PROVE  \A m \in Nexus : SagaInv(m)'
<1>1. ASSUME NEW m \in Nexus, m # n PROVE SagaInv(m)'
  <2>1. ProcessKept(m) /\ UNCHANGED saga
    BY <1>1, Zenon DEF TypeOK, CreateOk, ProcessKept, restVars
  <2> QED BY <1>1, <2>1, Frame, SagaUnchanged, Zenon
<1>2. /\ s \in creating[n] /\ saga[s].state # "NoRow"
      /\ UNCHANGED <<saga, alive, quiesce, channel, started, removeNext, pass>>
      /\ creating'[n] = creating[n] \ {s}
      /\ sec'[n][s] = "Running" /\ \A x \in Saga : x # s => sec'[n][x] = sec[n][x]
  BY Zenon DEF TypeOK, CreateOk, restVars
<1>3. SagaInv(n)
  BY Zenon
<1>4. SagaInv(n)'
  <2>0. /\ DeadInv(n) /\ FlagsInv(n) /\ TableInv(n) /\ PendingInv(n)
        /\ StartedInv(n) /\ PhaseInv(n) /\ PassInv(n) /\ MissedInv(n)
    BY <1>2, <1>3, Zenon DEF SagaInv
  <2> USE <1>2, <1>3, <2>0
  <2>1. DeadInv(n)' /\ FlagsInv(n)' /\ PhaseInv(n)'
    BY Zenon DEF DeadInv, FlagsInv, PhaseInv
  <2>2. TableInv(n)'
    BY Zenon DEF TableInv, Ended
  <2>3. PendingInv(n)' /\ StartedInv(n)'
    BY Zenon DEF PendingInv, StartedInv, Busy
  <2>4. PassInv(n)'
    BY DEF PassInv, HasRow, Unfinished, IsCandidate
  <2>5. MissedInv(n)'
    BY Zenon DEF MissedInv, Busy, HasRow
  <2> QED BY <2>1, <2>2, <2>3, <2>4, <2>5, Zenon DEF SagaInv
<1> QED BY <1>1, <1>4, Zenon

(* What the completion of a saga does to the flags and the pending sagas.   *)
LEMMA CompletionFields ==
  ASSUME NEW q \in QuiesceStatus(Saga), NEW s \in Saga
  PROVE  /\ SagaCompletion(q, s).sagas_pending = q.sagas_pending \ {s}
         /\ SagaCompletion(q, s).reassignment_pending = q.reassignment_pending
         /\ SagaCompletion(q, s).recovery_pending = q.recovery_pending
BY PendingFacts DEF SameButDrained, QuiesceStatus

LEMMA CreateFailsInv ==
  ASSUME TypeOK, \A m \in Nexus : SagaInv(m), UNCHANGED exec,
         NEW n \in Nexus, NEW s \in Saga, CreateFails(n, s)
  PROVE  \A m \in Nexus : SagaInv(m)'
<1>1. ASSUME NEW m \in Nexus, m # n PROVE SagaInv(m)'
  <2>1. ProcessKept(m) /\ UNCHANGED saga
    BY <1>1, Zenon DEF TypeOK, CreateFails, ProcessKept, restVars
  <2> QED BY <1>1, <2>1, Frame, SagaUnchanged, Zenon
<1>2. /\ s \in creating[n]
      /\ UNCHANGED <<saga, alive, sec, channel, started, removeNext, pass>>
      /\ creating'[n] = creating[n] \ {s}
      /\ quiesce'[n] = SagaCompletion(quiesce[n], s)
  BY Zenon DEF TypeOK, CreateFails, restVars
<1>3. /\ quiesce'[n].sagas_pending = quiesce[n].sagas_pending \ {s}
      /\ quiesce'[n].reassignment_pending = quiesce[n].reassignment_pending
      /\ quiesce'[n].recovery_pending = quiesce[n].recovery_pending
  BY <1>2, CompletionFields DEF TypeOK
<1>4. SagaInv(n)
  BY Zenon
<1>5. SagaInv(n)'
  <2>0. /\ DeadInv(n) /\ FlagsInv(n) /\ TableInv(n) /\ PendingInv(n)
        /\ StartedInv(n) /\ PhaseInv(n) /\ PassInv(n) /\ MissedInv(n)
    BY <1>2, <1>4, Zenon DEF SagaInv
  <2> USE <1>2, <1>4, <2>0
  <2>1. sec[n][s] \notin {"Running", "Recorded"}
    BY Zenon DEF TableInv, Ended
  <2>2. DeadInv(n)' /\ FlagsInv(n)' /\ PhaseInv(n)'
    BY <1>3, Zenon DEF DeadInv, FlagsInv, PhaseInv
  <2>3. TableInv(n)'
    BY Zenon DEF TableInv, Ended
  <2>4. PendingInv(n)' /\ StartedInv(n)'
    BY <1>3, <2>1, Zenon DEF PendingInv, StartedInv, Busy
  <2>5. PassInv(n)'
    BY DEF PassInv, HasRow, Unfinished, IsCandidate
  <2>6. MissedInv(n)'
    BY Zenon DEF MissedInv, Busy, HasRow
  <2> QED BY <2>2, <2>3, <2>4, <2>5, <2>6, Zenon DEF SagaInv
<1> QED BY <1>1, <1>5, Zenon

LEMMA RecordDoneInv ==
  ASSUME TypeOK, \A m \in Nexus : SagaInv(m), UNCHANGED exec,
         NEW n \in Nexus, NEW s \in Saga, RecordDone(n, s)
  PROVE  \A m \in Nexus : SagaInv(m)'
<1>1. ASSUME NEW m \in Nexus, m # n PROVE SagaInv(m)'
  <2>1. ProcessKept(m)
    BY <1>1, Zenon DEF TypeOK, RecordDone, ProcessKept, restVars
  <2>2. \A x \in Saga : SagaKept(m, x)
    BY <1>1, Zenon DEF TypeOK, RecordDone, SagaKept, HasRow, Ended
  <2> QED BY <1>1, <2>1, <2>2, Frame, Zenon
<1>2. /\ sec[n][s] = "Running" /\ n \in alive
      /\ UNCHANGED <<alive, quiesce, creating, channel, started, removeNext, pass>>
      /\ saga'[s].state = "Done" /\ \A x \in Saga : x # s => saga'[x] = saga[x]
      /\ sec'[n][s] = "Recorded" /\ \A x \in Saga : x # s => sec'[n][x] = sec[n][x]
  BY DEF TypeOK, RecordDone, restVars
<1>3. SagaInv(n)
  BY Zenon
<1>4. SagaInv(n)'
  <2>0. /\ DeadInv(n) /\ FlagsInv(n) /\ TableInv(n) /\ PendingInv(n)
        /\ StartedInv(n) /\ PhaseInv(n) /\ PassInv(n) /\ MissedInv(n)
    BY <1>2, <1>3, Zenon DEF SagaInv
  <2> USE <1>2, <1>3, <2>0
  <2>1. DeadInv(n)' /\ FlagsInv(n)' /\ PhaseInv(n)'
    BY Zenon DEF DeadInv, FlagsInv, PhaseInv
  <2>2. s \notin creating[n]
    BY Zenon DEF TableInv
  <2>3. TableInv(n)'
    BY <2>2, Zenon DEF TableInv, Ended
  <2>4. PendingInv(n)' /\ StartedInv(n)'
    BY Zenon DEF PendingInv, StartedInv, Busy
  <2>5. PassInv(n)'
    BY DEF PassInv, HasRow, Unfinished, IsCandidate
  <2>6. MissedInv(n)'
    BY Zenon DEF MissedInv, Busy, HasRow
  <2> QED BY <2>1, <2>3, <2>4, <2>5, <2>6, Zenon DEF SagaInv
<1> QED BY <1>1, <1>4, Zenon

LEMMA CompleteInv ==
  ASSUME TypeOK, \A m \in Nexus : SagaInv(m), UNCHANGED exec,
         NEW n \in Nexus, NEW s \in Saga, Complete(n, s)
  PROVE  \A m \in Nexus : SagaInv(m)'
<1>1. ASSUME NEW m \in Nexus, m # n PROVE SagaInv(m)'
  <2>1. ProcessKept(m) /\ UNCHANGED saga
    BY <1>1, Zenon DEF TypeOK, Complete, ProcessKept, restVars
  <2> QED BY <1>1, <2>1, Frame, SagaUnchanged, Zenon
<1>2. /\ sec[n][s] = "Recorded" /\ n \in alive
      /\ UNCHANGED <<saga, alive, creating, channel, started, removeNext, pass>>
      /\ sec'[n][s] = "Done" /\ \A x \in Saga : x # s => sec'[n][x] = sec[n][x]
      /\ quiesce'[n] = SagaCompletion(quiesce[n], s)
  BY Zenon DEF TypeOK, Complete, restVars
<1>3. /\ quiesce'[n].sagas_pending = quiesce[n].sagas_pending \ {s}
      /\ quiesce'[n].reassignment_pending = quiesce[n].reassignment_pending
      /\ quiesce'[n].recovery_pending = quiesce[n].recovery_pending
  BY <1>2, CompletionFields DEF TypeOK
<1>4. SagaInv(n)
  BY Zenon
<1>5. SagaInv(n)'
  <2>0. /\ DeadInv(n) /\ FlagsInv(n) /\ TableInv(n) /\ PendingInv(n)
        /\ StartedInv(n) /\ PhaseInv(n) /\ PassInv(n) /\ MissedInv(n)
    BY <1>2, <1>4, Zenon DEF SagaInv
  <2> USE <1>2, <1>4, <2>0
  <2>1. s \notin creating[n]
    BY Zenon DEF TableInv
  <2>2. DeadInv(n)' /\ FlagsInv(n)' /\ PhaseInv(n)'
    BY <1>3, Zenon DEF DeadInv, FlagsInv, PhaseInv
  <2>3. TableInv(n)'
    <3>1. Ended(s) /\ \A x \in Saga : Ended(x)' = Ended(x)
      BY Zenon DEF TableInv, Ended
    <3> QED BY <2>1, <3>1 DEF TableInv
  <2>4. PendingInv(n)' /\ StartedInv(n)'
    BY <1>3, <2>1, Zenon DEF PendingInv, StartedInv, Busy
  <2>5. PassInv(n)'
    BY DEF PassInv, HasRow, Unfinished, IsCandidate
  <2>6. MissedInv(n)'
    BY Zenon DEF MissedInv, Busy, HasRow
  <2> QED BY <2>2, <2>3, <2>4, <2>5, <2>6, Zenon DEF SagaInv
<1> QED BY <1>1, <1>5, Zenon

LEMMA StartPassInv ==
  ASSUME TypeOK, \A m \in Nexus : SagaInv(m), UNCHANGED exec, ~ SlowInsert,
         NEW n \in Nexus, StartPass(n)
  PROVE  \A m \in Nexus : SagaInv(m)'
<1>1. ASSUME NEW m \in Nexus, m # n PROVE SagaInv(m)'
  <2>1. ProcessKept(m) /\ UNCHANGED saga
    BY <1>1, Zenon DEF TypeOK, StartPass, ProcessKept, restVars
  <2> QED BY <1>1, <2>1, Frame, SagaUnchanged, Zenon
<1>2. /\ n \in alive
      /\ UNCHANGED <<saga, alive, creating, sec, channel, started, removeNext>>
      /\ \A x \in creating[n] \cap removeNext[n] : saga[x].state # "NoRow"
  BY Zenon DEF TypeOK, StartPass, restVars, InTime
<1>3. /\ quiesce'[n].sagas_pending = quiesce[n].sagas_pending
      /\ quiesce'[n].reassignment_pending = quiesce[n].reassignment_pending
      /\ quiesce'[n].recovery_pending
  BY DEF TypeOK, StartPass, RecoveryStart, QuiesceStatus
<1>4. /\ pass'[n].pc = "listing" /\ pass'[n].unread = Saga /\ pass'[n].found = {}
      /\ pass'[n].needs = {} /\ pass'[n].recovered = {} /\ pass'[n].hopeless = {}
  BY Zenon DEF TypeOK, StartPass, Idle
<1>5. SagaInv(n) /\ pass[n].recovered = {}
  BY Zenon DEF SagaInv, PhaseInv, StartPass
<1>6. SagaInv(n)'
  <2>0. /\ DeadInv(n) /\ FlagsInv(n) /\ TableInv(n) /\ PendingInv(n)
        /\ StartedInv(n) /\ PhaseInv(n) /\ PassInv(n) /\ MissedInv(n)
    BY <1>2, <1>4, <1>5, Zenon DEF SagaInv
  <2> USE <1>2, <1>4, <1>5, <2>0
  <2>1. DeadInv(n)' /\ FlagsInv(n)' /\ PhaseInv(n)'
    BY <1>3, Zenon DEF DeadInv, FlagsInv, PhaseInv
  <2>2. TableInv(n)'
    BY Zenon DEF TableInv, Ended
  <2>3. PendingInv(n)' /\ StartedInv(n)'
    BY <1>3, Zenon DEF PendingInv, StartedInv, Busy
  <2>4. PassInv(n)'
    BY Zenon DEF PassInv
  <2>5. MissedInv(n)'
    BY Zenon DEF MissedInv, Busy, HasRow, TableInv
  <2> QED BY <2>1, <2>2, <2>3, <2>4, <2>5, Zenon DEF SagaInv
<1> QED BY <1>1, <1>6, Zenon

LEMMA UnfinishedSec ==
  ASSUME TypeOK, NEW n \in Nexus, TableInv(n), NEW x \in Saga, IsCandidate(x)
  PROVE  sec[n][x] \in {"Unknown", "Running"}
<1>1. sec[n][x] \in SecState
  BY DEF TypeOK
<1>2. ~ Ended(x)
  BY Zenon DEF IsCandidate, Ended
<1> QED BY <1>1, <1>2, Zenon DEF TableInv, SecState

LEMMA PassIsAlive ==
  ASSUME NEW n \in Nexus, SagaInv(n), pass[n].pc # "idle"
  PROVE  n \in alive
BY DEF SagaInv, DeadInv, Idle

LEMMA ListBatchInv ==
  ASSUME TypeOK, \A m \in Nexus : SagaInv(m), UNCHANGED exec,
         NEW n \in Nexus, ListBatch(n)
  PROVE  \A m \in Nexus : SagaInv(m)'
<1>1. ASSUME NEW m \in Nexus, m # n PROVE SagaInv(m)'
  <2>1. ProcessKept(m) /\ UNCHANGED saga
    BY <1>1, Zenon DEF TypeOK, ListBatch, ProcessKept, restVars
  <2> QED BY <1>1, <2>1, Frame, SagaUnchanged, Zenon
<1>2. /\ pass[n].pc = "listing"
      /\ UNCHANGED <<saga, alive, quiesce, creating, sec, channel, started, removeNext>>
  BY Zenon DEF TypeOK, ListBatch, restVars
<1>3. PICK batch \in SUBSET pass[n].unread :
        pass' = [pass EXCEPT ![n].unread = @ \ batch,
                             ![n].found  = @ \cup (batch \cap Unfinished(n))]
  BY Zenon DEF TypeOK, ListBatch
<1>4. /\ pass'[n].pc = "listing" /\ pass'[n].unread = pass[n].unread \ batch
      /\ pass'[n].found = pass[n].found \cup (batch \cap Unfinished(n))
      /\ pass'[n].needs = pass[n].needs /\ pass'[n].recovered = pass[n].recovered
      /\ pass'[n].hopeless = pass[n].hopeless
  BY <1>2, <1>3 DEF TypeOK, Pass
<1>5. SagaInv(n)
  BY Zenon
<1>6. SagaInv(n)'
  <2>0. /\ DeadInv(n) /\ FlagsInv(n) /\ TableInv(n) /\ PendingInv(n)
        /\ StartedInv(n) /\ PhaseInv(n) /\ PassInv(n) /\ MissedInv(n)
    BY <1>2, <1>4, <1>5, Zenon DEF SagaInv
  <2> USE <1>2, <1>4, <1>5, <2>0
  <2>1. DeadInv(n)' /\ FlagsInv(n)' /\ PhaseInv(n)'
    BY DEF DeadInv, FlagsInv, PhaseInv, Idle
  <2>2. TableInv(n)' /\ PendingInv(n)' /\ StartedInv(n)'
    BY Zenon DEF TableInv, Ended, PendingInv, StartedInv, Busy
  <2>3. PassInv(n)'
    <3>1. Unfinished(n)' = Unfinished(n) /\ \A x \in Saga : HasRow(x)' = HasRow(x)
      BY Zenon DEF Unfinished, IsCandidate, HasRow
    <3>2. ASSUME NEW x \in batch \cap Unfinished(n)
          PROVE  /\ HasRow(x)
                 /\ \/ x \in started[n] \cup channel[n]
                    \/ sec[n][x] = "Unknown" /\ x \notin creating[n]
      <4>1. x \in Saga /\ saga[x].state = "Running"
        BY Zenon DEF Unfinished, IsCandidate
      <4>2. sec[n][x] \in {"Unknown", "Running"}
        BY <4>1, UnfinishedSec, Zenon DEF IsCandidate
      <4> QED BY <4>1, <4>2, Zenon DEF HasRow, StartedInv, PhaseInv, Busy
    <3> QED BY <3>1, <3>2, Zenon DEF PassInv, PhaseInv
  <2>4. MissedInv(n)'
    <3>1. \A x \in Saga : Busy(n, x) /\ HasRow(x) => x \in Unfinished(n)
      BY Zenon DEF Busy, TableInv, HasRow, Unfinished, IsCandidate
    <3> QED BY <3>1, Zenon DEF MissedInv, Busy, HasRow
  <2> QED BY <2>1, <2>2, <2>3, <2>4, Zenon DEF SagaInv
<1> QED BY <1>1, <1>6, Zenon

LEMMA ListFailsInv ==
  ASSUME TypeOK, \A m \in Nexus : SagaInv(m), UNCHANGED exec,
         NEW n \in Nexus, ListFails(n)
  PROVE  \A m \in Nexus : SagaInv(m)'
<1>1. ASSUME NEW m \in Nexus, m # n PROVE SagaInv(m)'
  <2>1. ProcessKept(m) /\ UNCHANGED saga
    BY <1>1, Zenon DEF TypeOK, ListFails, UpdateStartedSagas, ProcessKept
  <2> QED BY <1>1, <2>1, Frame, SagaUnchanged, Zenon
<1>2. /\ pass[n].pc = "listing"
      /\ UNCHANGED <<saga, alive, creating, sec, removeNext>>
      /\ started'[n] = started[n] \cup channel[n] /\ channel'[n] = {}
      /\ pass'[n] = Idle
  BY Zenon DEF TypeOK, ListFails, UpdateStartedSagas
<1>3. /\ quiesce'[n].sagas_pending = quiesce[n].sagas_pending
      /\ quiesce'[n].reassignment_pending = quiesce[n].reassignment_pending
      /\ ~ quiesce'[n].recovery_pending
  BY DEF TypeOK, ListFails, RecoveryDone, QuiesceStatus
<1>4. /\ Idle.pc = "idle" /\ Idle.needs = {} /\ Idle.recovered = {}
      /\ Idle.hopeless = {}
  BY Zenon DEF Idle
<1>5. SagaInv(n) /\ pass[n].recovered = {}
  BY <1>2, Zenon DEF SagaInv, PhaseInv
<1>6. SagaInv(n)'
  <2>0. /\ DeadInv(n) /\ FlagsInv(n) /\ TableInv(n) /\ PendingInv(n)
        /\ StartedInv(n) /\ PhaseInv(n) /\ PassInv(n) /\ MissedInv(n)
    BY <1>2, <1>4, <1>5, Zenon DEF SagaInv
  <2> USE <1>2, <1>4, <1>5, <2>0
  <2>1. DeadInv(n)' /\ FlagsInv(n)' /\ PhaseInv(n)'
    BY <1>3, Zenon DEF DeadInv, FlagsInv, PhaseInv
  <2>2. TableInv(n)'
    BY Zenon DEF TableInv, Ended
  <2>3. PendingInv(n)' /\ StartedInv(n)'
    BY <1>3, Zenon DEF PendingInv, StartedInv, Busy
  <2>4. PassInv(n)' /\ MissedInv(n)'
    BY Zenon DEF PassInv, MissedInv
  <2> QED BY <2>1, <2>2, <2>3, <2>4, Zenon DEF SagaInv
<1> QED BY <1>1, <1>6, Zenon

LEMMA MakePlanInv ==
  ASSUME TypeOK, \A m \in Nexus : SagaInv(m), UNCHANGED exec,
         NEW n \in Nexus, MakePlan(n)
  PROVE  \A m \in Nexus : SagaInv(m)'
<1>1. ASSUME NEW m \in Nexus, m # n PROVE SagaInv(m)'
  <2>1. ProcessKept(m) /\ UNCHANGED saga
    BY <1>1, Zenon DEF TypeOK, MakePlan, UpdateStartedSagas, ProcessKept
  <2> QED BY <1>1, <2>1, Frame, SagaUnchanged, Zenon
<1>2. /\ pass[n].pc = "listing" /\ pass[n].unread = {}
      /\ UNCHANGED <<saga, alive, quiesce, creating, sec, removeNext>>
      /\ started'[n] = started[n] \cup channel[n] /\ channel'[n] = {}
  BY Zenon DEF TypeOK, MakePlan, UpdateStartedSagas
<1>3. /\ pass'[n].pc = "executing" /\ pass'[n].found = pass[n].found
      /\ pass'[n].needs = pass[n].found \ (started[n] \cup channel[n])
      /\ pass'[n].recovered = pass[n].recovered
      /\ pass'[n].hopeless = pass[n].hopeless
  BY DEF TypeOK, MakePlan, NeedsRecovery, Pass
<1>4. SagaInv(n) /\ n \in alive
  BY <1>2, PassIsAlive, Zenon
<1>5. SagaInv(n)'
  <2>0. /\ DeadInv(n) /\ FlagsInv(n) /\ TableInv(n) /\ PendingInv(n)
        /\ StartedInv(n) /\ PhaseInv(n) /\ PassInv(n) /\ MissedInv(n)
    BY <1>2, <1>3, <1>4, Zenon DEF SagaInv
  <2> USE <1>2, <1>3, <1>4, <2>0
  <2>1. DeadInv(n)' /\ FlagsInv(n)' /\ PhaseInv(n)'
    BY Zenon DEF DeadInv, FlagsInv, PhaseInv
  <2>2. TableInv(n)'
    BY Zenon DEF TableInv, Ended
  <2>5. PendingInv(n)' /\ StartedInv(n)'
    BY Zenon DEF PendingInv, StartedInv, Busy
  <2>3. PassInv(n)'
    <3>1. Unfinished(n)' = Unfinished(n)
      BY Zenon DEF Unfinished, IsCandidate
    <3>2. \A x \in Saga : HasRow(x)' = HasRow(x)
      BY Zenon DEF HasRow
    <3>3. pass[n].recovered = {} /\ pass[n].hopeless = {}
      BY Zenon DEF PhaseInv
    <3> QED BY <3>1, <3>2, <3>3 DEF PassInv
  <2>4. MissedInv(n)'
    BY Zenon DEF MissedInv, Busy
  <2> QED BY <2>1, <2>2, <2>3, <2>4, <2>5, Zenon DEF SagaInv
<1> QED BY <1>1, <1>5, Zenon

LEMMA ResumeInv ==
  ASSUME TypeOK, \A m \in Nexus : SagaInv(m), UNCHANGED exec,
         NEW n \in Nexus, NEW s \in Saga, Resume(n, s)
  PROVE  \A m \in Nexus : SagaInv(m)'
<1>1. ASSUME NEW m \in Nexus, m # n PROVE SagaInv(m)'
  <2>1. ProcessKept(m) /\ UNCHANGED saga
    BY <1>1, Zenon DEF TypeOK, Resume, ProcessKept, restVars
  <2> QED BY <1>1, <2>1, Frame, SagaUnchanged, Zenon
<1>2. /\ pass[n].pc = "executing" /\ s \in pass[n].needs /\ sec[n][s] = "Unknown"
      /\ UNCHANGED <<saga, alive, creating, channel, started, removeNext>>
      /\ sec'[n][s] = "Running" /\ \A x \in Saga : x # s => sec'[n][x] = sec[n][x]
  BY Zenon DEF TypeOK, Resume, restVars
<1>3. /\ quiesce'[n].sagas_pending = quiesce[n].sagas_pending \cup {s}
      /\ quiesce'[n].reassignment_pending = quiesce[n].reassignment_pending
      /\ quiesce'[n].recovery_pending = quiesce[n].recovery_pending
  BY DEF TypeOK, Resume, RecordSagaRecovery, QuiesceStatus
<1>4. /\ pass'[n].pc = "executing" /\ pass'[n].found = pass[n].found
      /\ pass'[n].needs = pass[n].needs \ {s}
      /\ pass'[n].recovered = pass[n].recovered \cup {s}
      /\ pass'[n].hopeless = pass[n].hopeless
  BY <1>2 DEF TypeOK, Resume, Pass
<1>5. SagaInv(n) /\ n \in alive
  BY <1>2, PassIsAlive, Zenon
<1>6. /\ s \in Unfinished(n) /\ s \notin creating[n]
      /\ s \notin started[n] \cup channel[n] \cup pass[n].hopeless
  BY <1>2, <1>5, Zenon DEF SagaInv, PassInv
<1>7. Unfinished(n)' = Unfinished(n) /\ \A x \in Saga : HasRow(x)' = HasRow(x)
  BY <1>2, Zenon DEF Unfinished, IsCandidate, HasRow
<1>8. SagaInv(n)'
  <2>0. /\ DeadInv(n) /\ FlagsInv(n) /\ TableInv(n) /\ PendingInv(n)
        /\ StartedInv(n) /\ PhaseInv(n) /\ PassInv(n) /\ MissedInv(n)
    BY <1>2, <1>4, <1>5, <1>6, Zenon DEF SagaInv
  <2> USE <1>2, <1>4, <1>5, <1>6, <2>0
  <2>1. DeadInv(n)' /\ FlagsInv(n)' /\ PhaseInv(n)'
    BY <1>3, Zenon DEF DeadInv, FlagsInv, PhaseInv
  <2>2. TableInv(n)'
    BY DEF TableInv, Ended, Unfinished, IsCandidate
  <2>3. PendingInv(n)' /\ StartedInv(n)'
    BY <1>3, Zenon DEF PendingInv, StartedInv, Busy
  <2>4. PassInv(n)'
    <3>1. HasRow(s)
      BY Zenon DEF Unfinished, IsCandidate, HasRow
    <3> QED BY <1>7, <3>1 DEF PassInv
  <2>5. MissedInv(n)'
    BY Zenon DEF MissedInv, Busy, StartedInv
  <2> QED BY <2>1, <2>2, <2>3, <2>4, <2>5, Zenon DEF SagaInv
<1> QED BY <1>1, <1>8, Zenon

LEMMA ResumeFailsInv ==
  ASSUME TypeOK, \A m \in Nexus : SagaInv(m), UNCHANGED exec,
         NEW n \in Nexus, NEW s \in Saga, ResumeFails(n, s)
  PROVE  \A m \in Nexus : SagaInv(m)'
<1>1. ASSUME NEW m \in Nexus, m # n PROVE SagaInv(m)'
  <2>1. ProcessKept(m) /\ UNCHANGED saga
    BY <1>1, Zenon DEF TypeOK, ResumeFails, ProcessKept, restVars
  <2> QED BY <1>1, <2>1, Frame, SagaUnchanged, Zenon
<1>2. /\ pass[n].pc = "executing" /\ s \in pass[n].needs
      /\ UNCHANGED <<saga, alive, quiesce, creating, sec, channel, started, removeNext>>
  BY Zenon DEF TypeOK, ResumeFails, restVars
<1>3. PICK permanent \in BOOLEAN :
        pass' = [pass EXCEPT ![n].needs = @ \ {s},
                             ![n].hopeless = IF permanent THEN @ \cup {s} ELSE @]
  BY Zenon DEF TypeOK, ResumeFails
<1>4. /\ pass'[n].pc = "executing" /\ pass'[n].found = pass[n].found
      /\ pass'[n].needs = pass[n].needs \ {s}
      /\ pass'[n].recovered = pass[n].recovered
      /\ pass'[n].hopeless \subseteq pass[n].hopeless \cup {s}
  BY <1>2, <1>3 DEF TypeOK, Pass
<1>5. SagaInv(n) /\ n \in alive
  BY <1>2, PassIsAlive, Zenon
<1>6. Unfinished(n)' = Unfinished(n) /\ \A x \in Saga : HasRow(x)' = HasRow(x)
  BY <1>2, Zenon DEF Unfinished, IsCandidate, HasRow
<1>7. SagaInv(n)'
  <2>0. /\ DeadInv(n) /\ FlagsInv(n) /\ TableInv(n) /\ PendingInv(n)
        /\ StartedInv(n) /\ PhaseInv(n) /\ PassInv(n) /\ MissedInv(n)
    BY <1>2, <1>4, <1>5, Zenon DEF SagaInv
  <2> USE <1>2, <1>4, <1>5, <2>0
  <2>1. DeadInv(n)' /\ FlagsInv(n)' /\ PhaseInv(n)'
    BY Zenon DEF DeadInv, FlagsInv, PhaseInv
  <2>2. TableInv(n)'
    BY Zenon DEF TableInv, Ended
  <2>3. PendingInv(n)' /\ StartedInv(n)'
    BY Zenon DEF PendingInv, StartedInv, Busy
  <2>4. PassInv(n)'
    <3>1. HasRow(s)
      BY Zenon DEF PassInv, Unfinished, IsCandidate, HasRow
    <3> QED BY <1>6, <3>1 DEF PassInv
  <2>5. MissedInv(n)'
    BY Zenon DEF MissedInv, Busy
  <2> QED BY <2>1, <2>2, <2>3, <2>4, <2>5, Zenon DEF SagaInv
<1> QED BY <1>1, <1>7, Zenon

(* The end of a pass.                                                       *)
LEMMA EndPassFields ==
  ASSUME TypeOK, NEW n \in Nexus, EndPass(n)
  PROVE  /\ quiesce'[n].sagas_pending = quiesce[n].sagas_pending
         /\ quiesce'[n].reassignment_pending = quiesce[n].reassignment_pending
         /\ ~ quiesce'[n].recovery_pending
         /\ pass'[n] = Idle
         /\ \A m \in Nexus : m # n => quiesce'[m] = quiesce[m] /\ pass'[m] = pass[m]
<1>1. quiesce'[n] = RecoveryDone(quiesce[n], TRUE) /\ quiesce[n] \in QuiesceStatus(Saga)
  BY Zenon DEF EndPass, TypeOK
<1>2. /\ RecoveryDone(quiesce[n], TRUE).sagas_pending = quiesce[n].sagas_pending
      /\ RecoveryDone(quiesce[n], TRUE).reassignment_pending =
           quiesce[n].reassignment_pending
      /\ ~ RecoveryDone(quiesce[n], TRUE).recovery_pending
  BY <1>1, RecoveryFacts, Zenon DEF SameButDrained, QuiesceStatus
<1> QED BY <1>1, <1>2, Zenon DEF EndPass, TypeOK

LEMMA FinishExecutionInv ==
  ASSUME TypeOK, \A m \in Nexus : SagaInv(m), UNCHANGED exec,
         NEW n \in Nexus, FinishExecution(n)
  PROVE  \A m \in Nexus : SagaInv(m)'
<1>1. /\ pass[n].pc = "executing" /\ pass[n].needs = {}
      /\ UNCHANGED <<saga, alive, creating, sec, channel>>
      /\ started'[n] = (started[n] \ (removeNext[n] \ pass[n].found))
                         \cup pass[n].recovered
      /\ removeNext'[n] = (started[n] \ pass[n].found) \ removeNext[n]
      /\ \A m \in Nexus : m # n => started'[m] = started[m] /\ removeNext'[m] = removeNext[m]
  BY Zenon DEF TypeOK, FinishExecution, InferredDone, MaybeDone
<1>2. /\ quiesce'[n].sagas_pending = quiesce[n].sagas_pending
      /\ quiesce'[n].reassignment_pending = quiesce[n].reassignment_pending
      /\ quiesce'[n].recovery_pending <=> pass'[n].pc # "idle"
      /\ pass'[n].pc \in {"idle", "abandoning"}
      /\ pass'[n].pc = "idle" => pass'[n] = Idle
      /\ pass'[n].needs = {} /\ pass'[n].recovered = {}
      /\ pass'[n].hopeless = pass[n].hopeless
      /\ \A m \in Nexus : m # n => quiesce'[m] = quiesce[m] /\ pass'[m] = pass[m]
  <2>1. CASE pass[n].hopeless = {}
    <3>1. EndPass(n)
      BY <2>1, Zenon DEF TypeOK, FinishExecution
    <3> QED BY <2>1, <3>1, EndPassFields DEF Idle
  <2>2. CASE pass[n].hopeless # {}
    <3>1. /\ UNCHANGED quiesce
          /\ pass' = [pass EXCEPT ![n] = [Idle EXCEPT !.pc = "abandoning",
                                           !.hopeless = pass[n].hopeless]]
      BY <2>2, Zenon DEF TypeOK, FinishExecution
    <3>2. quiesce[n].recovery_pending
      BY <1>1, Zenon DEF SagaInv, FlagsInv
    <3> QED BY <3>1, <3>2 DEF TypeOK, Idle
  <2> QED BY <2>1, <2>2, Zenon
<1>3. ASSUME NEW m \in Nexus, m # n PROVE SagaInv(m)'
  <2>1. ProcessKept(m)
    BY <1>1, <1>2, <1>3, Zenon DEF ProcessKept
  <2> QED BY <1>1, <1>3, <2>1, Frame, SagaUnchanged, Zenon
<1>4. SagaInv(n) /\ n \in alive
  BY <1>1, PassIsAlive, Zenon
<1>5. \A x \in Saga : HasRow(x)' = HasRow(x)
  BY <1>1, Zenon DEF HasRow
<1>6. SagaInv(n)'
  <2>0. /\ DeadInv(n) /\ FlagsInv(n) /\ TableInv(n) /\ PendingInv(n)
        /\ StartedInv(n) /\ PhaseInv(n) /\ PassInv(n) /\ MissedInv(n)
    BY <1>1, <1>2, <1>4, Zenon DEF SagaInv
  <2> USE <1>1, <1>2, <1>4, <2>0
  <2>1. DeadInv(n)' /\ PhaseInv(n)'
    BY Zenon DEF DeadInv, PhaseInv
  <2>2. FlagsInv(n)'
    BY Zenon DEF FlagsInv
  <2>3. TableInv(n)'
    BY Zenon DEF TableInv, Ended, PassInv, HasRow
  <2>4. PendingInv(n)'
    BY Zenon DEF PendingInv
  <2>5. StartedInv(n)'
    <3>1. channel'[n] \cap started'[n] = {}
      <4>1. pass[n].recovered \subseteq Saga
        BY DEF TypeOK, Pass
      <4> QED BY <4>1, Zenon DEF StartedInv, PassInv
    <3>2. removeNext'[n] \subseteq started'[n]
      BY Zenon
    <3>3. ASSUME NEW x \in Saga, Busy(n, x)
          PROVE  x \in started'[n] \cup channel'[n]
      BY <3>3, Zenon DEF StartedInv, MissedInv
    <3> QED BY <3>1, <3>2, <3>3, Zenon DEF StartedInv, Busy
  <2>6. PassInv(n)'
    BY <1>5, Zenon DEF PassInv
  <2>7. MissedInv(n)'
    BY Zenon DEF MissedInv
  <2> QED BY <2>1, <2>2, <2>3, <2>4, <2>5, <2>6, <2>7, Zenon DEF SagaInv
<1> QED BY <1>3, <1>6, Zenon

LEMMA AbandonInv ==
  ASSUME TypeOK, \A m \in Nexus : SagaInv(m), UNCHANGED exec,
         NEW n \in Nexus, NEW s \in Saga, Abandon(n, s)
  PROVE  \A m \in Nexus : SagaInv(m)'
<1>1. /\ pass[n].pc = "abandoning" /\ s \in pass[n].hopeless
      /\ UNCHANGED <<alive, creating, sec, channel, started, removeNext>>
  BY Zenon DEF TypeOK, Abandon, restVars
<1>2. /\ \A x \in Saga : x # s \/ saga[s].sec # n => saga'[x] = saga[x]
      /\ saga'[s] = saga[s] \/ saga'[s].state = "Abandoned"
  BY DEF TypeOK, Abandon
<1>3. /\ quiesce'[n].sagas_pending = quiesce[n].sagas_pending
      /\ quiesce'[n].reassignment_pending = quiesce[n].reassignment_pending
      /\ quiesce'[n].recovery_pending <=> pass'[n].pc # "idle"
      /\ pass'[n].pc \in {"idle", "abandoning"}
      /\ pass'[n].pc = "idle" => pass'[n] = Idle
      /\ pass'[n].needs = {} /\ pass'[n].recovered = {}
      /\ pass'[n].hopeless \subseteq pass[n].hopeless
      /\ \A m \in Nexus : m # n => quiesce'[m] = quiesce[m] /\ pass'[m] = pass[m]
  <2>1. CASE pass[n].hopeless = {s}
    <3>1. EndPass(n)
      BY <2>1, Zenon DEF TypeOK, Abandon
    <3> QED BY <3>1, EndPassFields DEF Idle
  <2>2. CASE pass[n].hopeless # {s}
    <3>1. UNCHANGED quiesce /\ pass' = [pass EXCEPT ![n].hopeless = @ \ {s}]
      BY <2>2, Zenon DEF TypeOK, Abandon
    <3>2. /\ quiesce[n].recovery_pending
          /\ pass[n].needs = {} /\ pass[n].recovered = {}
      BY <1>1, Zenon DEF SagaInv, FlagsInv, PhaseInv
    <3> QED BY <1>1, <3>1, <3>2 DEF Pass
  <2> QED BY <2>1, <2>2, Zenon
<1>4. ASSUME NEW m \in Nexus, m # n PROVE SagaInv(m)'
  <2>1. ProcessKept(m)
    BY <1>1, <1>3, <1>4, Zenon DEF ProcessKept
  <2>2. \A x \in Saga : SagaKept(m, x)
    <3>1. HasRow(s)
      BY <1>1, Zenon DEF SagaInv, PassInv
    <3> QED BY <1>2, <1>4, <3>1, Zenon DEF SagaKept, HasRow, Ended
  <2> QED BY <1>4, <2>1, <2>2, Frame, Zenon
<1>5. SagaInv(n) /\ n \in alive
  BY <1>1, PassIsAlive, Zenon
<1>6. HasRow(s) /\ sec[n][s] = "Unknown" /\ s \notin creating[n]
  BY <1>1, <1>5, Zenon DEF SagaInv, PassInv
<1>7. \A x \in Saga : HasRow(x) => HasRow(x)'
  BY <1>2, Zenon DEF HasRow
<1>8. SagaInv(n)'
  <2>0. /\ DeadInv(n) /\ FlagsInv(n) /\ TableInv(n) /\ PendingInv(n)
        /\ StartedInv(n) /\ PhaseInv(n) /\ PassInv(n) /\ MissedInv(n)
    BY <1>1, <1>3, <1>5, Zenon DEF SagaInv
  <2> USE <1>1, <1>3, <1>5, <2>0
  <2>1. DeadInv(n)' /\ PhaseInv(n)'
    BY Zenon DEF DeadInv, PhaseInv
  <2>2. FlagsInv(n)'
    BY Zenon DEF FlagsInv
  <2>3. TableInv(n)'
    <3>1. \A x \in Saga : x # s => saga'[x] = saga[x] /\ Ended(x)' = Ended(x)
      BY <1>2, Zenon DEF Ended
    <3>2. saga'[s].state # "Unborn"
      BY <1>2, <1>6, Zenon DEF HasRow
    <3> DEFINE T(x) ==
          /\ x \in started[n] \cup channel[n] => saga[x].state # "Unborn"
          /\ x \in creating[n] =>
               /\ saga[x].sec = n /\ saga[x].state \in {"NoRow", "Running"}
               /\ sec[n][x] = "Unknown"
          /\ sec[n][x] = "Running" => saga[x].sec = n /\ saga[x].state = "Running"
          /\ sec[n][x] \in {"Recorded", "Done"} => Ended(x)
    <3>3. \A x \in Saga : x # s => T(x)'
      BY <3>1 DEF TableInv
    <3>4. T(s)'
      BY <1>6, <3>2, Zenon
    <3> QED BY <3>3, <3>4 DEF TableInv
  <2>4. PendingInv(n)'
    BY Zenon DEF PendingInv
  <2>5. StartedInv(n)'
    <3>1. pass[n].recovered = {}
      BY Zenon DEF PhaseInv
    <3> QED BY <3>1, Zenon DEF StartedInv, Busy
  <2>6. PassInv(n)'
    BY <1>7, Zenon DEF PassInv
  <2>7. MissedInv(n)'
    BY Zenon DEF MissedInv
  <2> QED BY <2>1, <2>2, <2>3, <2>4, <2>5, <2>6, <2>7, Zenon DEF SagaInv
<1> QED BY <1>4, <1>8, Zenon

(* A step of blueprint execution that tells the quiesce handle.             *)
LEMMA ExecutionInv ==
  ASSUME TypeOK, \A m \in Nexus : SagaInv(m), NEW n \in alive,
         UNCHANGED <<saga, alive, creating, sec, channel, started, removeNext, pass>>,
         \A m \in Nexus : m # n => quiesce'[m] = quiesce[m] /\ exec'[m] = exec[m],
         quiesce'[n].sagas_pending = quiesce[n].sagas_pending,
         quiesce'[n].recovery_pending = quiesce[n].recovery_pending,
         quiesce'[n].reassignment_pending <=> exec'[n].pc # "idle"
  PROVE  \A m \in Nexus : SagaInv(m)'
<1>1. ASSUME NEW m \in Nexus, m # n PROVE SagaInv(m)'
  <2>1. ProcessKept(m)
    BY <1>1, Zenon DEF ProcessKept
  <2> QED BY <1>1, <2>1, Frame, SagaUnchanged, Zenon
<1>2. SagaInv(n)'
  <2>1. n \in Nexus
    BY Zenon DEF TypeOK
  <2> USE <2>1 DEF SagaInv
  <2>2. DeadInv(n)' /\ FlagsInv(n)' /\ PhaseInv(n)'
    BY Zenon DEF DeadInv, FlagsInv, PhaseInv
  <2>3. TableInv(n)'
    BY DEF TableInv, Ended
  <2>4. PendingInv(n)' /\ StartedInv(n)' /\ MissedInv(n)'
    BY Zenon DEF PendingInv, StartedInv, MissedInv, Busy, HasRow
  <2>5. PassInv(n)'
    BY DEF PassInv, HasRow, Unfinished, IsCandidate
  <2> QED BY <2>2, <2>3, <2>4, <2>5, Zenon
<1> QED BY <1>1, <1>2, Zenon

LEMMA StartExecutionFields ==
  ASSUME NEW q \in QuiesceStatus(Saga), NEW b \in BOOLEAN
  PROVE  LET p == ReassignmentStart(SetQuiescing(q, b)) IN
           /\ p \in QuiesceStatus(Saga)
           /\ p.reassignment_pending
           /\ p.sagas_pending = q.sagas_pending
           /\ p.recovery_pending = q.recovery_pending
<1> DEFINE r == SetQuiescing(q, b)
<1>1. r \in QuiesceStatus(Saga)
      /\ r.sagas_pending = q.sagas_pending /\ r.recovery_pending = q.recovery_pending
  BY SetQuiescingFacts DEF SameButDrained, QuiesceStatus
<1> HIDE DEF r
<1>2. /\ ReassignmentStart(r) \in QuiesceStatus(Saga)
      /\ ReassignmentStart(r) = [r EXCEPT !.reassignment_pending = TRUE]
  <2>1. 0 \in Nat /\ TRUE \in BOOLEAN
    BY Zenon
  <2> QED BY <1>1, <2>1, ReassignmentFacts, Zenon
<1>3. /\ ReassignmentStart(r).reassignment_pending
      /\ ReassignmentStart(r).sagas_pending = r.sagas_pending
      /\ ReassignmentStart(r).recovery_pending = r.recovery_pending
  BY <1>1, <1>2, Zenon DEF QuiesceStatus
<1> QED BY <1>1, <1>2, <1>3, Zenon DEF r

LEMMA ReassignmentFields ==
  ASSUME NEW q \in QuiesceStatus(Saga), NEW bp \in Nat, NEW any \in BOOLEAN
  PROVE  /\ ~ ReassignedAllAsOf(q, bp, any).reassignment_pending
         /\ ReassignedAllAsOf(q, bp, any).sagas_pending = q.sagas_pending
         /\ ReassignedAllAsOf(q, bp, any).recovery_pending = q.recovery_pending
         /\ ~ ReassignedIndeterminate(q).reassignment_pending
         /\ ReassignedIndeterminate(q).sagas_pending = q.sagas_pending
         /\ ReassignedIndeterminate(q).recovery_pending = q.recovery_pending
<1> DEFINE r1 == [q EXCEPT
                     !.reassignment_pending    = FALSE,
                     !.reassignment_blueprint  = bp,
                     !.reassignment_generation =
                         IF any THEN q.reassignment_generation + 1
                                ELSE q.reassignment_generation,
                     !.recovered_blueprint     =
                         IF ~any /\ IsCaughtUp(q) THEN bp ELSE q.recovered_blueprint]
           r2 == [q EXCEPT
                     !.reassignment_pending    = FALSE,
                     !.reassignment_generation = q.reassignment_generation + 1]
<1>1. /\ ~ r1.reassignment_pending /\ r1.sagas_pending = q.sagas_pending
      /\ r1.recovery_pending = q.recovery_pending
  BY Zenon DEF QuiesceStatus
<1>2. /\ ~ r2.reassignment_pending /\ r2.sagas_pending = q.sagas_pending
      /\ r2.recovery_pending = q.recovery_pending
  BY Zenon DEF QuiesceStatus
<1>3. /\ SameButDrained(r1, ReassignedAllAsOf(q, bp, any))
      /\ SameButDrained(r2, ReassignedIndeterminate(q))
  BY ReassignmentFacts, Zenon
<1> HIDE DEF r1, r2
<1> QED BY <1>1, <1>2, <1>3, Zenon DEF SameButDrained

ExecState == [pc : {"idle", "reassigning", "reassigned"}, bp : Nat, any : BOOLEAN]

LEMMA BlueprintType ==
  ASSUME QuiesceTypeOK, NEW k \in 1 .. Target
  PROVE  /\ blueprints[k] \in Blueprint
         /\ blueprints[k].inService \subseteq Nexus
         /\ blueprints[k].ready \subseteq Nexus
         /\ blueprints[k].quiescing \in BOOLEAN
<1>1. blueprints[k] \in Blueprint
  BY DEF QuiesceTypeOK, Target
<1> QED BY <1>1, Zenon DEF Blueprint

LEMMA StartExecutionInv ==
  ASSUME Inv, NEW n \in Nexus, StartExecution(n)
  PROVE  Inv'
<1> DEFINE b == blueprints[loaded[n]].quiescing
           p == ReassignmentStart(SetQuiescing(quiesce[n], b))
<1>1. TypeOK /\ \A m \in Nexus : SagaInv(m)
  BY Zenon DEF Inv, QuiesceTypeOK
<1>2. loaded[n] \in 1 .. Target /\ n \in alive
  <2>1. Target \in Nat
    BY DEF Inv, QuiesceTypeOK, Target
  <2>2. loaded[n] \in 0 .. Target /\ loaded[n] # 0 /\ n \in alive
    BY Zenon DEF StartExecution, Inv, BlueprintInv, HasDatabase, NoBlueprint
  <2> QED BY <2>1, <2>2
<1>3. b \in BOOLEAN
  BY <1>2, BlueprintType, Zenon DEF Inv
<1>4. quiesce[n] \in QuiesceStatus(Saga)
  BY <1>1, Zenon DEF TypeOK
<1>5. /\ p \in QuiesceStatus(Saga) /\ p.reassignment_pending
      /\ p.sagas_pending = quiesce[n].sagas_pending
      /\ p.recovery_pending = quiesce[n].recovery_pending
  BY <1>3, <1>4, StartExecutionFields, Zenon
<1>6. /\ quiesce' = [quiesce EXCEPT ![n] = p]
      /\ exec' = [exec EXCEPT ![n] = [pc |-> "reassigning", bp |-> loaded[n], any |-> FALSE]]
      /\ UNCHANGED <<saga, alive, creating, sec, channel, started, removeNext, pass>>
      /\ UNCHANGED <<blueprints, loaded, check, recorded, handedOff>>
      /\ phase' = [phase EXCEPT ![n] = NextPhase(@, b)]
  BY Zenon DEF StartExecution, restVars
<1> HIDE DEF p, b
<1>7. \A m \in Nexus : SagaInv(m)'
  <2>1. /\ quiesce'[n] = p /\ exec'[n].pc = "reassigning"
        /\ \A m \in Nexus : m # n => quiesce'[m] = quiesce[m] /\ exec'[m] = exec[m]
    BY <1>1, <1>6, Zenon DEF TypeOK, Inv, QuiesceTypeOK
  <2> QED BY <1>1, <1>2, <1>5, <1>6, <2>1, ExecutionInv
<1>8. QuiesceTypeOK'
  <2>1. TypeOK'
    BY <1>1, <1>5, <1>6, Zenon DEF TypeOK
  <2>2. phase' \in [Nexus -> Phase]
    BY <1>6, Zenon DEF NextPhase, Phase, Inv, QuiesceTypeOK
  <2>3. exec' \in [Nexus -> ExecState]
    <3>1. [pc |-> "reassigning", bp |-> loaded[n], any |-> FALSE] \in ExecState
      BY Zenon DEF ExecState, Inv, QuiesceTypeOK
    <3> QED BY <1>6, <3>1, Zenon DEF Inv, QuiesceTypeOK, ExecState
  <2>4. access' \in [Nexus -> [state : {"Active", "Quiesced", "Deleted"}, drained : Nat]]
    <3>1. [state |-> "Deleted", drained |-> NoBlueprint]
            \in [state : {"Active", "Quiesced", "Deleted"}, drained : Nat]
      BY Zenon DEF NoBlueprint
    <3>2. CASE UNCHANGED access
      BY <3>2, Zenon DEF Inv, QuiesceTypeOK
    <3>3. CASE access' = [m \in Nexus |->
                    IF m \in ExpungedNexus(loaded[n])
                      THEN [state |-> "Deleted", drained |-> NoBlueprint]
                      ELSE access[m]]
      BY <3>1, <3>3, Zenon DEF Inv, QuiesceTypeOK
    <3> QED BY <3>2, <3>3, Zenon DEF StartExecution, CleanUpExpungedNexus
  <2> QED BY <1>6, <2>1, <2>2, <2>3, <2>4, Zenon DEF Inv, QuiesceTypeOK, ExecState
<1>9. BlueprintInv'
  BY <1>2, <1>6, Zenon DEF Inv, BlueprintInv, Target, QuiesceTypeOK
<1> QED BY <1>7, <1>8, <1>9, Zenon DEF Inv

LEMMA ReassignSagasInv ==
  ASSUME Inv, NEW n \in Nexus, ReassignSagas(n)
  PROVE  Inv'
<1> DEFINE from == ExpungedNexus(exec[n].bp)
           e == [exec[n] EXCEPT !.pc = "reassigned", !.any = Reassignable(from) # {}]
<1>1. TypeOK /\ exec \in [Nexus -> ExecState] /\ \A m \in Nexus : SagaInv(m)
  BY Zenon DEF Inv, QuiesceTypeOK, ExecState
<1>2. exec[n].pc = "reassigning" /\ exec[n].bp \in 1 .. Target /\ n \in alive
  BY Zenon DEF ReassignSagas, HasDatabase, Inv, BlueprintInv
<1>3. from \cap alive = {} /\ from \subseteq Nexus
  BY <1>2, BlueprintType, Zenon DEF Inv, BlueprintInv, ExpungedNexus
<1>4. e \in ExecState /\ e.pc = "reassigned" /\ e.bp = exec[n].bp
  BY <1>1, Zenon DEF ExecState
<1>5. /\ saga' = [s \in Saga |->
                    IF s \in Reassignable(from) THEN [saga[s] EXCEPT !.sec = n]
                                                ELSE saga[s]]
      /\ exec' = [exec EXCEPT ![n] = e]
      /\ UNCHANGED <<alive, quiesce, creating, sec, channel, started, removeNext, pass>>
      /\ UNCHANGED <<blueprints, loaded, phase, check, recorded, access, handedOff>>
  BY Zenon DEF ReassignSagas, ReassignSec, restVars
<1> HIDE DEF e, from
<1>6. \A s \in Saga : /\ saga'[s] \in SagaRow
                      /\ saga'[s].state = saga[s].state
                      /\ saga[s].sec \notin from => saga'[s] = saga[s]
  <2> SUFFICES ASSUME NEW s \in Saga
               PROVE  /\ saga'[s] \in SagaRow
                      /\ saga'[s].state = saga[s].state
                      /\ saga[s].sec \notin from => saga'[s] = saga[s]
    BY Zenon
  <2>1. saga[s] \in SagaRow
    BY <1>1, Zenon DEF TypeOK, SagaRow
  <2>2. /\ [saga[s] EXCEPT !.sec = n] \in SagaRow
        /\ [saga[s] EXCEPT !.sec = n].state = saga[s].state
    BY <2>1, Zenon DEF SagaRow
  <2>3. saga'[s] = IF s \in Reassignable(from) THEN [saga[s] EXCEPT !.sec = n]
                                               ELSE saga[s]
    BY <1>5, Zenon
  <2> QED BY <2>1, <2>2, <2>3, Zenon DEF Reassignable
<1>7. \A m \in Nexus : SagaInv(m)'
  <2> SUFFICES ASSUME NEW m \in Nexus PROVE SagaInv(m)'
    BY Zenon
  <2>1. ProcessKept(m)
    BY <1>1, <1>2, <1>4, <1>5, Zenon DEF ProcessKept
  <2>2. \A s \in Saga : SagaKept(m, s)
    BY <1>3, <1>6, Zenon DEF SagaKept, HasRow, Ended
  <2> QED BY <1>1, <2>1, <2>2, Frame, Zenon
<1>8. QuiesceTypeOK'
  <2>1. saga' \in [Saga -> SagaRow]
    BY <1>5, <1>6, Zenon
  <2>2. TypeOK'
    BY <1>1, <1>5, <2>1, Zenon DEF TypeOK, SagaRow
  <2>3. exec' \in [Nexus -> ExecState]
    BY <1>1, <1>4, <1>5, Zenon
  <2> QED BY <1>5, <2>2, <2>3, Zenon DEF Inv, QuiesceTypeOK, ExecState
<1>9. BlueprintInv'
  BY <1>1, <1>2, <1>4, <1>5, Zenon DEF Inv, BlueprintInv, Target
<1> QED BY <1>7, <1>8, <1>9, Zenon DEF Inv

LEMMA ReassignmentDoneInv ==
  ASSUME Inv, NEW n \in Nexus, ReassignmentDone(n) \/ ReassignmentFails(n)
  PROVE  Inv'
<1>1. TypeOK /\ exec \in [Nexus -> ExecState] /\ \A m \in Nexus : SagaInv(m)
  BY Zenon DEF Inv, QuiesceTypeOK, ExecState
<1>2. quiesce[n] \in QuiesceStatus(Saga) /\ exec[n].bp \in Nat /\ exec[n].any \in BOOLEAN
  BY <1>1, Zenon DEF TypeOK, ExecState
<1>3. /\ n \in alive /\ exec' = [exec EXCEPT ![n] = NoExec]
      /\ UNCHANGED <<saga, alive, creating, sec, channel, started, removeNext, pass>>
      /\ UNCHANGED <<blueprints, loaded, phase, check, recorded, access, handedOff>>
  BY Zenon DEF ReassignmentDone, ReassignmentFails, restVars
<1>4. PICK p \in QuiesceStatus(Saga) :
        /\ quiesce' = [quiesce EXCEPT ![n] = p]
        /\ ~ p.reassignment_pending
        /\ p.sagas_pending = quiesce[n].sagas_pending
        /\ p.recovery_pending = quiesce[n].recovery_pending
  <2>1. CASE ReassignmentDone(n)
    <3>1. ReassignedAllAsOf(quiesce[n], exec[n].bp, exec[n].any) \in QuiesceStatus(Saga)
      BY <1>2, ReassignmentFacts, Zenon
    <3> QED BY <1>2, <2>1, <3>1, ReassignmentFields, Zenon DEF ReassignmentDone
  <2>2. CASE ReassignmentFails(n)
    <3>1. ReassignedIndeterminate(quiesce[n]) \in QuiesceStatus(Saga)
      BY <1>2, ReassignmentFacts, Zenon
    <3> QED BY <1>2, <2>2, <3>1, ReassignmentFields, Zenon DEF ReassignmentFails
  <2> QED BY <2>1, <2>2, Zenon
<1>5. NoExec \in ExecState /\ NoExec.pc = "idle"
  BY Zenon DEF NoExec, ExecState, NoBlueprint
<1>6. /\ quiesce'[n] = p /\ exec'[n] = NoExec
      /\ \A m \in Nexus : m # n => quiesce'[m] = quiesce[m] /\ exec'[m] = exec[m]
  BY <1>1, <1>3, <1>4, Zenon DEF TypeOK
<1>7. \A m \in Nexus : SagaInv(m)'
  BY <1>1, <1>3, <1>4, <1>5, <1>6, ExecutionInv
<1>8. QuiesceTypeOK'
  <2>1. TypeOK'
    BY <1>1, <1>3, <1>4, Zenon DEF TypeOK
  <2>2. exec' \in [Nexus -> ExecState]
    BY <1>1, <1>3, <1>5, Zenon
  <2> QED BY <1>3, <2>1, <2>2, Zenon DEF Inv, QuiesceTypeOK, ExecState
<1>9. BlueprintInv'
  BY <1>3, <1>5, <1>6, Zenon DEF Inv, BlueprintInv, Target
<1> QED BY <1>7, <1>8, <1>9, Zenon DEF Inv

LEMMA ProcessEndsInv ==
  ASSUME Inv, NEW n \in Nexus, ProcessEnds(n)
  PROVE  Inv'
<1> USE DEF ProcessEnds, Crash
<1>1. TypeOK /\ exec \in [Nexus -> ExecState] /\ \A m \in Nexus : SagaInv(m)
  BY Zenon DEF Inv, QuiesceTypeOK, ExecState
<1>2. NoExec \in ExecState /\ NoExec.pc = "idle"
  BY Zenon DEF NoExec, ExecState, NoBlueprint
<1>3. ASSUME NEW m \in Nexus, m # n PROVE SagaInv(m)'
  <2>1. ProcessKept(m)
    BY <1>1, <1>3, Zenon DEF ProcessKept, TypeOK
  <2> QED BY <1>1, <1>3, <2>1, Frame, SagaUnchanged, Zenon
<1>4. SagaInv(n)'
  <2>1. /\ n \notin alive' /\ quiesce'[n] = NewQuiesce /\ creating'[n] = {}
        /\ \A s \in Saga : sec'[n][s] = "Unknown"
        /\ channel'[n] = {} /\ started'[n] = {} /\ removeNext'[n] = {}
        /\ pass'[n] = Idle /\ exec'[n] = NoExec
    BY <1>1, Zenon DEF TypeOK
  <2>2. /\ ~ NewQuiesce.reassignment_pending /\ ~ NewQuiesce.recovery_pending
        /\ Idle.pc = "idle" /\ Idle.needs = {} /\ Idle.recovered = {}
        /\ Idle.hopeless = {}
    BY Zenon DEF NewQuiesce, Idle
  <2> QED
    BY <1>2, <2>1, <2>2, Zenon
       DEF SagaInv, DeadInv, FlagsInv, TableInv, PendingInv, StartedInv, Busy,
           PhaseInv, PassInv, MissedInv
<1>5. QuiesceTypeOK'
  <2>1. [s \in Saga |-> "Unknown"] \in [Saga -> SecState]
    BY Zenon DEF SecState
  <2>2. sec' \in [Nexus -> [Saga -> SecState]]
    BY <1>1, <2>1, Zenon DEF TypeOK
  <2>3. quiesce' \in [Nexus -> QuiesceStatus(Saga)]
    BY <1>1, NewQuiesceType, Zenon DEF TypeOK
  <2>4. pass' \in [Nexus -> Pass]
    BY <1>1, IdleType, Zenon DEF TypeOK
  <2>5. TypeOK'
    BY <1>1, <2>2, <2>3, <2>4, Zenon DEF TypeOK
  <2>6. exec' \in [Nexus -> ExecState]
    BY <1>1, <1>2, Zenon
  <2>7. /\ loaded' \in [Nexus -> Nat] /\ recorded' \in [Nexus -> Nat]
        /\ phase' \in [Nexus -> Phase]
    BY Zenon DEF Inv, QuiesceTypeOK, NoBlueprint, Phase
  <2>8. check' \in [Nexus -> [pc : {"idle", "waiting", "comparing"}, bp : Nat]]
    <3>1. NoCheck \in [pc : {"idle", "waiting", "comparing"}, bp : Nat]
      BY Zenon DEF NoCheck, NoBlueprint
    <3> QED BY <3>1, Zenon DEF Inv, QuiesceTypeOK
  <2> QED BY <2>5, <2>6, <2>7, <2>8, Zenon DEF Inv, QuiesceTypeOK, ExecState
<1>6. BlueprintInv'
  BY <1>1, <1>2 DEF Inv, QuiesceTypeOK, BlueprintInv, Target, NoBlueprint
<1> QED BY <1>3, <1>4, <1>5, <1>6, Zenon DEF Inv

LEMMA ProcessStartsInv ==
  ASSUME Inv, NEW n \in Nexus, ProcessStarts(n)
  PROVE  Inv'
<1>1. /\ n \notin alive /\ alive' = alive \cup {n}
      /\ n \in blueprints[Target].inService
      /\ UNCHANGED <<saga, quiesce, creating, sec, channel, started, removeNext, pass>>
      /\ UNCHANGED <<blueprints, loaded, exec, phase, check, recorded, access, handedOff>>
  BY Zenon DEF ProcessStarts, Restart, restVars, processVars
<1>2. ASSUME NEW m \in Nexus, m # n PROVE SagaInv(m)'
  <2>1. ProcessKept(m)
    BY <1>1, <1>2, Zenon DEF ProcessKept
  <2> QED BY <1>1, <1>2, <2>1, Frame, SagaUnchanged, Zenon DEF Inv
<1>3. SagaInv(n)'
  <2>1. /\ DeadInv(n) /\ FlagsInv(n) /\ TableInv(n) /\ PendingInv(n)
        /\ StartedInv(n) /\ PhaseInv(n) /\ PassInv(n) /\ MissedInv(n)
    BY Zenon DEF Inv, SagaInv
  <2>2. /\ n \in alive' /\ saga' = saga /\ quiesce' = quiesce /\ creating' = creating
        /\ sec' = sec /\ channel' = channel /\ started' = started
        /\ removeNext' = removeNext /\ pass' = pass /\ exec' = exec
    BY <1>1, Zenon
  <2>3. DeadInv(n)'
    BY <2>2, Zenon DEF DeadInv
  <2>4. FlagsInv(n)'
    BY <2>1, <2>2, Zenon DEF FlagsInv
  <2>5. TableInv(n)'
    BY <2>1, <2>2, Zenon DEF TableInv, Ended
  <2>6. PendingInv(n)'
    BY <2>1, <2>2, Zenon DEF PendingInv
  <2>7. StartedInv(n)'
    BY <2>1, <2>2, Zenon DEF StartedInv, Busy
  <2>8. PhaseInv(n)'
    BY <2>1, <2>2, Zenon DEF PhaseInv
  <2>9. PassInv(n)'
    BY <2>1, <2>2, Zenon DEF PassInv, HasRow, Unfinished, IsCandidate
  <2>10. MissedInv(n)'
    BY <2>1, <2>2, Zenon DEF MissedInv, Busy, HasRow
  <2> QED BY <2>3, <2>4, <2>5, <2>6, <2>7, <2>8, <2>9, <2>10, Zenon DEF SagaInv
<1>4. QuiesceTypeOK'
  BY <1>1, Zenon DEF Inv, QuiesceTypeOK, TypeOK
<1>5. BlueprintInv'
  <2>1. Target \in 1 .. Target
    BY DEF Inv, QuiesceTypeOK, BlueprintInv, Target
  <2>2. n \notin blueprints[Target].ready
    BY <1>1, <2>1, Zenon DEF Inv, BlueprintInv
  <2> QED BY <1>1, <2>2, Zenon DEF Inv, BlueprintInv, Target
<1> QED BY <1>2, <1>3, <1>4, <1>5, Zenon DEF Inv

-----------------------------------------------------------------------------
(* Steps that are not about sagas.                                          *)

LEMMA QuietInv ==
  ASSUME \A m \in Nexus : SagaInv(m), UNCHANGED <<sagaVars, exec>>
  PROVE  \A m \in Nexus : SagaInv(m)'
<1> SUFFICES ASSUME NEW m \in Nexus PROVE SagaInv(m)'
  BY Zenon
<1>1. ProcessKept(m) /\ UNCHANGED saga
  BY Zenon DEF ProcessKept, sagaVars
<1> QED BY <1>1, Frame, SagaUnchanged, Zenon

LEMMA NewTargetInv ==
  ASSUME Inv, NEW bp \in Blueprint, NewTarget(bp),
         bp.inService \subseteq blueprints[Target].inService,
         blueprints[Target].ready \subseteq bp.ready,
         bp.inService \cap bp.ready = {},
         bp.ready \cap alive = {},
         blueprints[Target].quiescing => bp.quiescing
  PROVE  Inv'
<1>1. /\ blueprints' = Append(blueprints, bp)
      /\ UNCHANGED <<sagaVars, loaded, exec, phase, check, recorded, access, handedOff>>
  BY Zenon DEF NewTarget, processVars
<1>2. \A m \in Nexus : SagaInv(m)'
  BY <1>1, QuietInv, Zenon DEF Inv
<1>3. QuiesceTypeOK'
  <2>1. TypeOK'
    BY <1>1, Zenon DEF Inv, QuiesceTypeOK, TypeOK, sagaVars
  <2>2. blueprints' \in Seq(Blueprint)
    BY <1>1 DEF Inv, QuiesceTypeOK
  <2> QED BY <1>1, <2>1, <2>2, Zenon DEF Inv, QuiesceTypeOK
<1>4. BlueprintInv'
  <2> DEFINE N == Target
  <2>1. N \in Nat /\ N >= 1 /\ N = Target /\ Len(blueprints) = N
    BY DEF Inv, QuiesceTypeOK, BlueprintInv, Target
  <2> HIDE DEF N
  <2>2. /\ Target' = N + 1
        /\ blueprints'[N + 1] = bp
        /\ \A i \in 1 .. N : blueprints'[i] = blueprints[i]
    BY <1>1, <2>1 DEF Inv, QuiesceTypeOK, Target
  <2>3. ASSUME NEW i \in 1 .. N + 1
        PROVE  /\ blueprints'[i].inService \cap blueprints'[i].ready = {}
               /\ blueprints'[i].ready \subseteq bp.ready
               /\ bp.inService \subseteq blueprints'[i].inService
               /\ blueprints'[i].quiescing => bp.quiescing
    <3>1. CASE i = N + 1
      BY <2>2, <3>1, Zenon
    <3>2. CASE i \in 1 .. N
      <4>1. blueprints'[i] = blueprints[i]
        BY <2>2, <3>2, Zenon
      <4>2. /\ blueprints[i].inService \cap blueprints[i].ready = {}
            /\ blueprints[i].ready \subseteq blueprints[Target].ready
            /\ blueprints[Target].inService \subseteq blueprints[i].inService
            /\ blueprints[i].quiescing => blueprints[Target].quiescing
        BY <2>1, <3>2, Zenon DEF Inv, BlueprintInv
      <4> QED BY <4>1, <4>2, Zenon
    <3> QED BY <2>1, <3>1, <3>2
  <2>4. alive' = alive /\ loaded' = loaded /\ exec' = exec
    BY <1>1, Zenon DEF sagaVars
  <2>5. \A n \in Nexus : /\ loaded[n] \in 0 .. N + 1
                         /\ exec[n].pc # "idle" => exec[n].bp \in 1 .. N + 1
    BY <2>1 DEF Inv, BlueprintInv
  <2> QED BY <2>1, <2>2, <2>3, <2>4, <2>5 DEF BlueprintInv
<1> QED BY <1>2, <1>3, <1>4, Zenon DEF Inv

LEMMA PlanningInv ==
  ASSUME Inv, NEW n \in Nexus,
         BumpGeneration \/ ExpungeSled(n) \/ ExpungeDisk(n) \/ MarkReady(n)
  PROVE  Inv'
<1> DEFINE old == blueprints[Target]
<1>1. Target \in 1 .. Target
  BY DEF Inv, QuiesceTypeOK, BlueprintInv, Target
<1>2. old \in Blueprint
  BY <1>1, BlueprintType, Zenon DEF Inv
<1>3. old.inService \cap old.ready = {} /\ old.ready \cap alive = {}
  BY <1>1, Zenon DEF Inv, BlueprintInv
<1>4. CASE BumpGeneration
  <2> DEFINE bp == [old EXCEPT !.quiescing = TRUE]
  <2>1. /\ bp \in Blueprint /\ bp.inService = old.inService /\ bp.ready = old.ready
        /\ bp.quiescing
    BY <1>2, Zenon DEF Blueprint
  <2>2. NewTarget(bp)
    BY <1>4, Zenon DEF BumpGeneration
  <2> HIDE DEF bp
  <2> QED BY <1>3, <2>1, <2>2, NewTargetInv, Zenon
<1>5. CASE ExpungeSled(n)
  <2> DEFINE bp == [old EXCEPT !.inService = @ \ {n}, !.ready = @ \cup {n}]
  <2>1. /\ bp \in Blueprint /\ bp.inService = old.inService \ {n}
        /\ bp.ready = old.ready \cup {n} /\ bp.quiescing = old.quiescing
    BY <1>2, Zenon DEF Blueprint
  <2>2. NewTarget(bp) /\ n \notin alive
    BY <1>5, Zenon DEF ExpungeSled
  <2> HIDE DEF bp
  <2> QED BY <1>3, <2>1, <2>2, NewTargetInv, Zenon
<1>6. CASE ExpungeDisk(n)
  <2> DEFINE bp == [old EXCEPT !.inService = @ \ {n}]
  <2>1. /\ bp \in Blueprint /\ bp.inService = old.inService \ {n}
        /\ bp.ready = old.ready /\ bp.quiescing = old.quiescing
    BY <1>2, Zenon DEF Blueprint
  <2>2. NewTarget(bp)
    BY <1>6, Zenon DEF ExpungeDisk
  <2> HIDE DEF bp
  <2> QED BY <1>3, <2>1, <2>2, NewTargetInv, Zenon
<1>7. CASE MarkReady(n)
  <2> DEFINE bp == [old EXCEPT !.ready = @ \cup {n}]
  <2>1. /\ bp \in Blueprint /\ bp.inService = old.inService
        /\ bp.ready = old.ready \cup {n} /\ bp.quiescing = old.quiescing
    BY <1>2, Zenon DEF Blueprint
  <2>2. NewTarget(bp) /\ n \notin alive /\ n \notin old.inService
    BY <1>7, Zenon DEF MarkReady
  <2> HIDE DEF bp
  <2> QED BY <1>3, <2>1, <2>2, NewTargetInv, Zenon
<1> QED BY <1>4, <1>5, <1>6, <1>7, Zenon

AccessRow == [state : {"Active", "Quiesced", "Deleted"}, drained : Nat]

CheckState == [pc : {"idle", "waiting", "comparing"}, bp : Nat]

LEMMA QuiesceStepInv ==
  ASSUME Inv, NEW n \in Nexus,
         \/ LoadBlueprint(n) \/ StartCheck(n) \/ RecordDrained(n) \/ MoveOn(n)
         \/ CheckFails(n) \/ RecordQuiesced(n)
  PROVE  Inv'
<1>1. UNCHANGED <<sagaVars, exec, blueprints>>
  BY Zenon DEF LoadBlueprint, StartCheck, RecordDrained, MoveOn, CheckFails,
         RecordQuiesced
<1>2. \A m \in Nexus : SagaInv(m)'
  BY <1>1, QuietInv, Zenon DEF Inv
<1>3. TypeOK'
  BY <1>1, Zenon DEF Inv, QuiesceTypeOK, TypeOK, sagaVars
<1>4. loaded' \in [Nexus -> Nat] /\ \A m \in Nexus : loaded'[m] \in 0 .. Target
  <2>1. CASE LoadBlueprint(n)
    <3>1. Target \in Nat /\ \A m \in Nexus : loaded[m] \in 0 .. Target
      BY DEF Inv, QuiesceTypeOK, BlueprintInv, Target
    <3>2. loaded' = [loaded EXCEPT ![n] = Target] /\ loaded \in [Nexus -> Nat]
      BY <2>1, Zenon DEF LoadBlueprint, Inv, QuiesceTypeOK
    <3> QED BY <3>1, <3>2
  <2>2. CASE UNCHANGED loaded
    BY <2>2, Zenon DEF Inv, QuiesceTypeOK, BlueprintInv
  <2> QED BY <2>1, <2>2, Zenon
             DEF StartCheck, RecordDrained, MoveOn, CheckFails, RecordQuiesced
<1>5. BlueprintInv'
  BY <1>1, <1>4, Zenon DEF Inv, BlueprintInv, Target, sagaVars
<1>6. phase' \in [Nexus -> Phase]
  <2>1. phase \in [Nexus -> Phase] /\ "DrainingDb" \in Phase /\ "Quiesced" \in Phase
    BY Zenon DEF Inv, QuiesceTypeOK, Phase
  <2> QED BY <2>1, Zenon DEF LoadBlueprint, StartCheck, RecordDrained, MoveOn, CheckFails,
                      RecordQuiesced
<1>7. check' \in [Nexus -> CheckState]
  <2>1. check \in [Nexus -> CheckState] /\ loaded[n] \in Nat
    BY Zenon DEF Inv, QuiesceTypeOK, CheckState
  <2>2. /\ NoCheck \in CheckState /\ [pc |-> "waiting", bp |-> loaded[n]] \in CheckState
        /\ [check[n] EXCEPT !.pc = "comparing"] \in CheckState
    BY <2>1, Zenon DEF NoCheck, NoBlueprint, CheckState
  <2>3. \/ UNCHANGED check
        \/ check' = [check EXCEPT ![n] = NoCheck]
        \/ check' = [check EXCEPT ![n] = [pc |-> "waiting", bp |-> loaded[n]]]
        \/ check' = [check EXCEPT ![n] = [check[n] EXCEPT !.pc = "comparing"]]
    <3>1. CASE LoadBlueprint(n) \/ RecordQuiesced(n)
      BY <3>1, Zenon DEF LoadBlueprint, RecordQuiesced
    <3>2. CASE RecordDrained(n)
      BY <2>1, <3>2, Zenon DEF RecordDrained
    <3>3. CASE StartCheck(n) \/ MoveOn(n) \/ CheckFails(n)
      BY <3>3, Zenon DEF StartCheck, MoveOn, CheckFails
    <3> QED BY <3>1, <3>2, <3>3, Zenon
  <2> QED BY <2>1, <2>2, <2>3, Zenon
<1>8. recorded' \in [Nexus -> Nat]
  <2>1. recorded \in [Nexus -> Nat] /\ check[n].bp \in Nat
    BY Zenon DEF Inv, QuiesceTypeOK
  <2> QED
    BY <2>1, Zenon DEF LoadBlueprint, StartCheck, RecordDrained, MoveOn, CheckFails,
                RecordQuiesced
<1>9. access' \in [Nexus -> AccessRow]
  <2>1. access \in [Nexus -> AccessRow] /\ check[n].bp \in Nat
    BY Zenon DEF Inv, QuiesceTypeOK, AccessRow
  <2>2. /\ [access[n] EXCEPT !.drained = check[n].bp] \in AccessRow
        /\ [access[n] EXCEPT !.state = "Quiesced"] \in AccessRow
    BY <2>1, Zenon DEF AccessRow
  <2>3. CASE RecordDrained(n)
    BY <2>1, <2>2, <2>3, Zenon DEF RecordDrained
  <2>4. CASE RecordQuiesced(n)
    BY <2>1, <2>2, <2>4, Zenon DEF RecordQuiesced
  <2> QED
    BY <2>1, <2>3, <2>4, Zenon DEF LoadBlueprint, StartCheck, MoveOn, CheckFails
<1>10. handedOff' \in BOOLEAN
  BY Zenon DEF Inv, QuiesceTypeOK, LoadBlueprint, StartCheck, RecordDrained,
         MoveOn, CheckFails, RecordQuiesced
<1>11. QuiesceTypeOK'
  BY <1>1, <1>3, <1>4, <1>6, <1>7, <1>8, <1>9, <1>10, Zenon
     DEF Inv, QuiesceTypeOK, AccessRow, CheckState
<1> QED BY <1>2, <1>5, <1>11, Zenon DEF Inv

LEMMA AttemptHandoffInv ==
  ASSUME Inv, AttemptHandoff
  PROVE  Inv'
<1>1. /\ UNCHANGED <<sagaVars, blueprints, loaded, exec, phase, check, recorded, access>>
      /\ handedOff' = TRUE
  BY Zenon DEF AttemptHandoff, processVars
<1>2. \A m \in Nexus : SagaInv(m)'
  BY <1>1, QuietInv, Zenon DEF Inv
<1>3. TypeOK'
  BY <1>1, Zenon DEF Inv, QuiesceTypeOK, TypeOK, sagaVars
<1>4. QuiesceTypeOK' /\ BlueprintInv'
  BY <1>1, <1>3, Zenon DEF Inv, QuiesceTypeOK, BlueprintInv, Target, sagaVars
<1> QED BY <1>2, <1>4, Zenon DEF Inv

LEMMA SagaActivityInv ==
  ASSUME ~ SlowInsert, Inv, NEW n \in Nexus, SagaActivity(n)
  PROVE  Inv'
<1>1. TypeOK /\ \A m \in Nexus : SagaInv(m)
  BY Zenon DEF Inv, QuiesceTypeOK
<1>2. UNCHANGED <<blueprints, loaded, exec, phase, check, recorded, access, handedOff>>
  BY Zenon DEF SagaActivity, processVars
<1>3. TypeOK' /\ (\A m \in Nexus : SagaInv(m)') /\ UNCHANGED alive
  <2>1. ASSUME NEW s \in Saga,
               \/ Prepare(n, s) \/ Insert(n, s) \/ CreateOk(n, s)
               \/ CreateFails(n, s) \/ RecordDone(n, s) \/ Complete(n, s)
        PROVE  TypeOK' /\ (\A m \in Nexus : SagaInv(m)') /\ UNCHANGED alive
    <3>1. UNCHANGED alive
      BY <2>1, Zenon DEF Prepare, Insert, CreateOk, CreateFails, RecordDone, Complete
    <3> QED BY <1>1, <1>2, <2>1, <3>1, CreatingType, PrepareInv, InsertInv,
               CreateOkInv, CreateFailsInv, RecordDoneInv, CompleteInv
  <2>2. ASSUME NEW s \in Saga, Resume(n, s) \/ ResumeFails(n, s) \/ Abandon(n, s)
        PROVE  TypeOK' /\ (\A m \in Nexus : SagaInv(m)') /\ UNCHANGED alive
    <3>1. UNCHANGED alive
      BY <2>2, Zenon DEF Resume, ResumeFails, Abandon
    <3> QED BY <1>1, <1>2, <2>2, <3>1, ResumeType, ResumeInv, ResumeFailsInv, AbandonInv, Zenon
  <2>3. ASSUME \/ StartPass(n) \/ ListBatch(n) \/ ListFails(n) \/ MakePlan(n)
               \/ FinishExecution(n)
        PROVE  TypeOK' /\ (\A m \in Nexus : SagaInv(m)') /\ UNCHANGED alive
    <3>1. UNCHANGED alive
      BY <2>3, Zenon DEF StartPass, ListBatch, ListFails, MakePlan, FinishExecution
    <3> QED BY Zenon, <1>1, <1>2, <2>3, <3>1, PassType, StartPassInv, ListBatchInv,
               ListFailsInv, MakePlanInv, FinishExecutionInv
  <2> QED BY <2>1, <2>2, <2>3, Zenon DEF SagaActivity, SagaStep
<1>4. QuiesceTypeOK' /\ BlueprintInv'
  BY <1>2, <1>3, Zenon DEF Inv, QuiesceTypeOK, BlueprintInv, Target
<1> QED BY <1>3, <1>4, Zenon DEF Inv

-----------------------------------------------------------------------------
(* The invariant is inductive.                                              *)

LEMMA InitInv ==
  Init => Inv
<1> SUFFICES ASSUME Init PROVE Inv
  BY Zenon
<1> USE DEF Init, SagaInit
<1>1. TypeOK
  <2>1. saga \in [Saga -> SagaRow]
    BY Zenon DEF SagaRow, SagaState
  <2>2. sec \in [Nexus -> [Saga -> SecState]]
    BY Zenon DEF SecState
  <2> QED BY <2>1, <2>2, NewQuiesceType, IdleType, Zenon DEF TypeOK, SagaRow
<1>2. Target = 1 /\ blueprints[1] = [inService |-> Nexus, ready |-> {}, quiescing |-> FALSE]
      /\ blueprints \in Seq(Blueprint)
  <2>1. [inService |-> Nexus, ready |-> {}, quiescing |-> FALSE] \in Blueprint
    BY Zenon DEF Blueprint
  <2> QED BY <2>1 DEF Target
<1>3. QuiesceTypeOK
  BY <1>1, <1>2, Zenon DEF QuiesceTypeOK, NoExec, NoCheck, NoBlueprint, Phase
<1>4. BlueprintInv
  BY <1>2 DEF BlueprintInv, NoExec, NoBlueprint
<1>5. ASSUME NEW n \in Nexus PROVE SagaInv(n)
  <2>1. /\ ~ NewQuiesce.reassignment_pending /\ ~ NewQuiesce.recovery_pending
        /\ Idle.pc = "idle" /\ Idle.needs = {} /\ Idle.recovered = {}
        /\ Idle.hopeless = {} /\ NoExec.pc = "idle"
    BY Zenon DEF NewQuiesce, Idle, NoExec
  <2> QED
    BY <2>1, Zenon DEF SagaInv, DeadInv, FlagsInv, TableInv, PendingInv, StartedInv, Busy,
                PhaseInv, PassInv, MissedInv
<1> QED BY <1>3, <1>4, <1>5, Zenon DEF Inv

LEMMA NextInv ==
  ASSUME ~ SlowInsert, Inv, Next
  PROVE  Inv'
<1>1. CASE BumpGeneration
  <2>1. PICK n \in Nexus : TRUE
    BY <1>1, Zenon DEF BumpGeneration, NewTarget
  <2> QED BY <1>1, <2>1, PlanningInv, Zenon
<1>3. CASE AttemptHandoff
  BY <1>3, AttemptHandoffInv, Zenon
<1>2. CASE \E n \in Nexus :
             \/ ExpungeSled(n) \/ ExpungeDisk(n) \/ MarkReady(n)
             \/ LoadBlueprint(n) \/ StartExecution(n)
             \/ ReassignSagas(n) \/ ReassignmentDone(n) \/ ReassignmentFails(n)
             \/ StartCheck(n) \/ RecordDrained(n) \/ MoveOn(n) \/ CheckFails(n)
             \/ RecordQuiesced(n)
             \/ ProcessEnds(n) \/ ProcessStarts(n)
             \/ SagaActivity(n)
  BY Zenon, <1>2, PlanningInv, QuiesceStepInv, StartExecutionInv, ReassignSagasInv,
     ReassignmentDoneInv, ProcessEndsInv, ProcessStartsInv, SagaActivityInv
<1> QED BY <1>1, <1>2, <1>3, Zenon DEF Next

LEMMA StutterInv ==
  ASSUME Inv, UNCHANGED vars
  PROVE  Inv'
<1>1. UNCHANGED <<sagaVars, blueprints, loaded, exec, phase, check, recorded, access,
                  handedOff>>
  BY Zenon DEF vars, processVars
<1>2. \A m \in Nexus : SagaInv(m)'
  BY <1>1, QuietInv, Zenon DEF Inv
<1>3. TypeOK'
  BY <1>1, Zenon DEF Inv, QuiesceTypeOK, TypeOK, sagaVars
<1>4. QuiesceTypeOK' /\ BlueprintInv'
  BY <1>1, <1>3, Zenon DEF Inv, QuiesceTypeOK, BlueprintInv, Target, sagaVars
<1> QED BY <1>2, <1>4, Zenon DEF Inv

(* The invariant holds in every state that is reached.                      *)
THEOREM SagaInvariant ==
  ASSUME ~ SlowInsert
  PROVE  Spec => []Inv
<1>1. Inv /\ [Next]_vars => Inv'
  BY NextInv, StutterInv, Zenon
<1> QED BY <1>1, InitInv, PTL DEF Spec

(* A recovery pass is never about to resume a saga that its process already *)
(* runs or creates (Plan::new, recover_one_saga).                           *)
THEOREM NeverDoubleResume ==
  ASSUME ~ SlowInsert
  PROVE  Spec => []NoDoubleResume
<1>1. Inv => NoDoubleResume
  BY DEF Inv, SagaInv, PassInv, NoDoubleResume, Known, QuiesceTypeOK, TypeOK, Pass
<1> QED BY <1>1, SagaInvariant, PTL

(* None of the assertions of SagaQuiesceHandle, of RestState and of the     *)
(* completion of sagas fails.                                               *)
THEOREM AssertionsAlwaysHold ==
  ASSUME ~ SlowInsert
  PROVE  Spec => []AssertionsHold
<1>1. ASSUME Inv PROVE AssertionsHold
  <2> SUFFICES ASSUME NEW n \in Nexus
               PROVE  /\ quiesce[n].reassignment_pending <=> exec[n].pc # "idle"
                      /\ quiesce[n].recovery_pending <=> pass[n].pc # "idle"
                      /\ \A s \in Saga :
                           s \in creating[n] \/ sec[n][s] \in {"Running", "Recorded"}
                             => s \in quiesce[n].sagas_pending
                      /\ channel[n] \cap started[n] = {}
                      /\ pass[n].recovered \cap started[n] = {}
                      /\ removeNext[n] \subseteq started[n]
    BY Zenon DEF AssertionsHold
  <2>1. SagaInv(n) /\ started[n] \subseteq Saga
    BY <1>1, Zenon DEF Inv, QuiesceTypeOK, TypeOK
  <2>2. pass[n].recovered \cap started[n] = {}
    BY <2>1, Zenon DEF SagaInv, PassInv
  <2> QED BY <2>1, <2>2, Zenon DEF SagaInv, FlagsInv, PendingInv, StartedInv
<1> QED BY <1>1, SagaInvariant, PTL

(* A saga is executed by one process at a time, whatever is expunged and    *)
(* reassigned and however processes end and start (sagas_reassign_sec).     *)
THEOREM SagasRunInOneProcess ==
  ASSUME ~ SlowInsert
  PROVE  Spec => []RunsInOneProcess
<1>1. Inv => RunsInOneProcess
  BY DEF Inv, SagaInv, TableInv, RunsInOneProcess
<1> QED BY <1>1, SagaInvariant, PTL
=============================================================================
