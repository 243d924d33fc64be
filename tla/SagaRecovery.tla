---------------------------- MODULE SagaRecovery ----------------------------
(***************************************************************************)
(* How the sagas of the Nexus instances are created, run, finished, lost   *)
(* in a crash and recovered: SagaExecutor (nexus/src/app/saga.rs), the     *)
(* recovery background task (nexus/src/app/background/tasks/               *)
(* saga_recovery.rs) with its planner (nexus/saga-recovery), and the saga  *)
(* table (nexus/db-queries/src/db/datastore/saga.rs).                      *)
(*                                                                         *)
(* Steno, which executes sagas, is external: it knows a saga once it was   *)
(* created or resumed, records its end in the database, then completes it. *)
(***************************************************************************)
EXTENDS FiniteSets, SagaQuiesce

CONSTANTS
    Nexus,      \* the Nexus instances, which are also the SEC ids
    NoNexus,    \* the owner of a saga whose id was not drawn yet
    Saga,       \* the saga ids that may be drawn
    SlowInsert, \* may an INSERT be pending from one recovery pass into the next?
    LostReply,  \* may an INSERT be applied and still be reported as failed?
    Transient   \* may the recovery of one saga fail and have to be retried?

ASSUME SwitchAssumption ==
    NoNexus \notin Nexus /\ SlowInsert \in BOOLEAN /\ LostReply \in BOOLEAN /\ Transient \in BOOLEAN

VARIABLES
    saga,       \* the saga table, and which ids were drawn but have no row
    alive,      \* the Nexus processes that run
    quiesce,    \* SagaQuiesceHandle of each process
    creating,   \* sagas inside saga_create of Steno: the INSERT is under way
    sec,        \* what Steno knows of each saga in each process
    channel,    \* sagas_started: ids sent to the recovery task
    started,    \* RestState::sagas_started
    removeNext, \* RestState::remove_next
    pass        \* the recovery pass of each process

restVars == <<channel, started, removeNext>>
sagaVars == <<saga, alive, quiesce, creating, sec, channel, started,
              removeNext, pass>>

(* A saga without a row is Unborn (its id was not drawn) or NoRow.         *)
SagaState == {"Unborn", "NoRow", "Running", "Done", "Abandoned"}
SecState  == {"Unknown", "Running", "Recorded", "Done"}

Idle ==
    [pc |-> "idle", unread |-> {}, found |-> {}, needs |-> {},
     recovered |-> {}, hopeless |-> {}]

Pass ==
    [pc : {"idle", "listing", "executing", "abandoning"},
     unread : SUBSET Saga, found : SUBSET Saga, needs : SUBSET Saga,
     recovered : SUBSET Saga, hopeless : SUBSET Saga]

TypeOK ==
    /\ saga \in [Saga -> [state : SagaState, sec : Nexus \cup {NoNexus}]]
    /\ alive \in SUBSET Nexus
    /\ quiesce \in [Nexus -> QuiesceStatus(Saga)]
    /\ creating \in [Nexus -> SUBSET Saga]
    /\ sec \in [Nexus -> [Saga -> SecState]]
    /\ channel \in [Nexus -> SUBSET Saga]
    /\ started \in [Nexus -> SUBSET Saga]
    /\ removeNext \in [Nexus -> SUBSET Saga]
    /\ pass \in [Nexus -> Pass]

(* RECOVERY_CANDIDATE_STATES: Running and Unwinding, here one state.       *)
IsCandidate(s) == saga[s].state = "Running"

Unfinished(n) == {s \in Saga : IsCandidate(s) /\ saga[s].sec = n}

Known(n) == {s \in Saga : sec[n][s] # "Unknown"}

SagaInit ==
    /\ saga = [s \in Saga |-> [state |-> "Unborn", sec |-> NoNexus]]
    /\ alive = Nexus
    /\ quiesce = [n \in Nexus |-> NewQuiesce]
    /\ creating = [n \in Nexus |-> {}]
    /\ sec = [n \in Nexus |-> [s \in Saga |-> "Unknown"]]
    /\ channel = [n \in Nexus |-> {}]
    /\ started = [n \in Nexus |-> {}]
    /\ removeNext = [n \in Nexus |-> {}]
    /\ pass = [n \in Nexus |-> Idle]

-----------------------------------------------------------------------------
(* Creating a saga: saga_prepare                                           *)

(* The saga is recorded as pending, its id is sent to the recovery task,   *)
(* and Steno starts to INSERT its row.                                     *)
Prepare(n, s) ==
    /\ n \in alive
    /\ saga[s].state = "Unborn"
    /\ quiesce[n].new_sagas_allowed = "Allowed"
    /\ saga' = [saga EXCEPT ![s] = [state |-> "NoRow", sec |-> n]]
    /\ quiesce' = [quiesce EXCEPT ![n] = SagaCreate(@, s)]
    /\ channel' = [channel EXCEPT ![n] = @ \cup {s}]
    /\ creating' = [creating EXCEPT ![n] = @ \cup {s}]
    /\ UNCHANGED <<alive, sec, started, removeNext, pass>>

(* The database applies the INSERT.                                        *)
Insert(n, s) ==
    /\ s \in creating[n]
    /\ saga[s].state = "NoRow"
    /\ saga' = [saga EXCEPT ![s].state = "Running"]
    /\ UNCHANGED <<alive, quiesce, creating, sec, restVars, pass>>

(* The INSERT returns, and the saga is started.                            *)
CreateOk(n, s) ==
    /\ s \in creating[n]
    /\ saga[s].state # "NoRow"
    /\ creating' = [creating EXCEPT ![n] = @ \ {s}]
    /\ sec' = [sec EXCEPT ![n][s] = "Running"]
    /\ UNCHANGED <<saga, alive, quiesce, restVars, pass>>

(* The INSERT fails or, with LostReply, only its answer is lost: the       *)
(* NewlyPendingSagaRef is dropped and Steno does not know the saga.        *)
CreateFails(n, s) ==
    /\ s \in creating[n]
    /\ saga[s].state = "NoRow" \/ LostReply
    /\ creating' = [creating EXCEPT ![n] = @ \ {s}]
    /\ quiesce' = [quiesce EXCEPT ![n] = SagaCompletion(@, s)]
    /\ UNCHANGED <<saga, alive, sec, restVars, pass>>

-----------------------------------------------------------------------------
(* Finishing a saga: saga_update of the SecStore, then the completion task *)

(* The update is conditional on current_sec and retried until it applies.  *)
RecordDone(n, s) ==
    /\ n \in alive
    /\ sec[n][s] = "Running"
    /\ saga[s].sec = n
    /\ saga' = [saga EXCEPT ![s].state = "Done"]
    /\ sec' = [sec EXCEPT ![n][s] = "Recorded"]
    /\ UNCHANGED <<alive, quiesce, creating, restVars, pass>>

Complete(n, s) ==
    /\ n \in alive
    /\ sec[n][s] = "Recorded"
    /\ sec' = [sec EXCEPT ![n][s] = "Done"]
    /\ quiesce' = [quiesce EXCEPT ![n] = SagaCompletion(@, s)]
    /\ UNCHANGED <<saga, alive, creating, restVars, pass>>

-----------------------------------------------------------------------------
(* A recovery pass: activate_internal                                      *)

(* Without SlowInsert, an INSERT is not pending from before one pass has   *)
(* ended until after the next one started.                                 *)
InTime(n) ==
    \/ SlowInsert
    \/ \A s \in creating[n] \cap removeNext[n] : saga[s].state # "NoRow"

StartPass(n) ==
    /\ n \in alive
    /\ pass[n].pc = "idle"
    /\ InTime(n)
    /\ quiesce' = [quiesce EXCEPT ![n] = RecoveryStart(@)]
    /\ pass' = [pass EXCEPT ![n] =
                  [Idle EXCEPT !.pc = "listing", !.unread = Saga]]
    /\ UNCHANGED <<saga, alive, creating, sec, restVars>>

(* The listing runs in batches, each of which is a query of its own.       *)
ListBatch(n) ==
    /\ pass[n].pc = "listing"
    /\ \E batch \in SUBSET pass[n].unread :
         /\ batch # {}
         /\ pass' = [pass EXCEPT
                       ![n].unread = @ \ batch,
                       ![n].found  = @ \cup (batch \cap Unfinished(n))]
    /\ UNCHANGED <<saga, alive, quiesce, creating, sec, restVars>>

(* update_started_sagas: everything in the channel joins sagas_started.    *)
UpdateStartedSagas(n) ==
    /\ started' = [started EXCEPT ![n] = @ \cup channel[n]]
    /\ channel' = [channel EXCEPT ![n] = {}]

(* A plausible slip: the channel is not read between listing and planning. *)
MutNeedsRecovery(n) == pass[n].found \ started[n]

NeedsRecovery(n) == pass[n].found \ (started[n] \cup channel[n])

ListFails(n) ==
    /\ pass[n].pc = "listing"
    /\ UpdateStartedSagas(n)
    /\ quiesce' = [quiesce EXCEPT ![n] = RecoveryDone(@, FALSE)]
    /\ pass' = [pass EXCEPT ![n] = Idle]
    /\ UNCHANGED <<saga, alive, creating, sec, removeNext>>

MakePlan(n) ==
    /\ pass[n].pc = "listing"
    /\ pass[n].unread = {}
    /\ UpdateStartedSagas(n)
    /\ pass' = [pass EXCEPT ![n].pc = "executing",
                            ![n].needs = NeedsRecovery(n)]
    /\ UNCHANGED <<saga, alive, quiesce, creating, sec, removeNext>>

(* recover_one_saga.  Steno does not resume a saga that it knows.          *)
Resume(n, s) ==
    /\ pass[n].pc = "executing"
    /\ s \in pass[n].needs
    /\ sec[n][s] = "Unknown"
    /\ sec' = [sec EXCEPT ![n][s] = "Running"]
    /\ quiesce' = [quiesce EXCEPT ![n] = RecordSagaRecovery(@, s)]
    /\ pass' = [pass EXCEPT ![n].needs = @ \ {s},
                            ![n].recovered = @ \cup {s}]
    /\ UNCHANGED <<saga, alive, creating, restVars>>

(* The failure is transient (the saga log could not be loaded) or          *)
(* permanent (the saga cannot be resumed).                                 *)
ResumeFails(n, s) ==
    /\ pass[n].pc = "executing"
    /\ s \in pass[n].needs
    /\ \E permanent \in BOOLEAN :
         /\ permanent \/ Transient
         /\ pass' = [pass EXCEPT
                       ![n].needs = @ \ {s},
                       ![n].hopeless = IF permanent THEN @ \cup {s} ELSE @]
    /\ UNCHANGED <<saga, alive, quiesce, creating, sec, restVars>>

EndPass(n) ==
    /\ quiesce' = [quiesce EXCEPT ![n] = RecoveryDone(@, TRUE)]
    /\ pass' = [pass EXCEPT ![n] = Idle]

(* A plausible slip: a saga that is missing from one listing is done.      *)
MutInferredDone(n) == started[n] \ pass[n].found

(* sagas_inferred_done and sagas_maybe_done of the plan.                   *)
InferredDone(n) == removeNext[n] \ pass[n].found
MaybeDone(n)    == (started[n] \ pass[n].found) \ removeNext[n]

(* update_after_pass.  Whatever became of the single sagas, the pass is    *)
(* a success, reported once the hopeless sagas are dealt with.             *)
FinishExecution(n) ==
    /\ pass[n].pc = "executing"
    /\ pass[n].needs = {}
    /\ started' = [started EXCEPT
                     ![n] = (@ \ InferredDone(n)) \cup pass[n].recovered]
    /\ removeNext' = [removeNext EXCEPT ![n] = MaybeDone(n)]
    /\ IF pass[n].hopeless = {}
         THEN EndPass(n)
         ELSE /\ pass' = [pass EXCEPT ![n] =
                            [Idle EXCEPT !.pc = "abandoning",
                                         !.hopeless = pass[n].hopeless]]
              /\ UNCHANGED quiesce
    /\ UNCHANGED <<saga, alive, creating, sec, channel>>

(* abandon_non_transient_failed_saga: a conditional update, best effort.   *)
Abandon(n, s) ==
    /\ pass[n].pc = "abandoning"
    /\ s \in pass[n].hopeless
    /\ \/ saga' = [saga EXCEPT ![s].state =
                     IF saga[s].sec = n THEN "Abandoned" ELSE @]
       \/ Transient /\ UNCHANGED saga
    /\ IF pass[n].hopeless = {s}
         THEN EndPass(n)
         ELSE /\ pass' = [pass EXCEPT ![n].hopeless = @ \ {s}]
              /\ UNCHANGED quiesce
    /\ UNCHANGED <<alive, creating, sec, restVars>>

-----------------------------------------------------------------------------
(* A process ends at any time and loses its memory; an INSERT that was not *)
(* applied yet is lost with its connection.                                *)
Crash(n) ==
    /\ n \in alive
    /\ alive' = alive \ {n}
    /\ quiesce' = [quiesce EXCEPT ![n] = NewQuiesce]
    /\ creating' = [creating EXCEPT ![n] = {}]
    /\ sec' = [sec EXCEPT ![n] = [s \in Saga |-> "Unknown"]]
    /\ channel' = [channel EXCEPT ![n] = {}]
    /\ started' = [started EXCEPT ![n] = {}]
    /\ removeNext' = [removeNext EXCEPT ![n] = {}]
    /\ pass' = [pass EXCEPT ![n] = Idle]
    /\ UNCHANGED saga

Restart(n) ==
    /\ n \notin alive
    /\ alive' = alive \cup {n}
    /\ UNCHANGED <<saga, quiesce, creating, sec, restVars, pass>>

(* A plausible slip: the UPDATE is not restricted to the given SECs.       *)
MutReassignable(from) ==
    {s \in Saga : saga[s].sec # NoNexus /\ saga[s].state \in {"Running", "Abandoned"}}

(* sagas_reassign_sec: the unfinished sagas of the instances in from.      *)
Reassignable(from) ==
    {s \in Saga : saga[s].sec \in from /\ saga[s].state \in {"Running", "Abandoned"}}

ReassignSec(from, n) ==
    saga' = [s \in Saga |->
               IF s \in Reassignable(from) THEN [saga[s] EXCEPT !.sec = n]
                                           ELSE saga[s]]

SagaStep(n) ==
    \/ \E s \in Saga : Prepare(n, s) \/ Insert(n, s) \/ CreateOk(n, s)
                       \/ CreateFails(n, s)
    \/ \E s \in Saga : RecordDone(n, s) \/ Complete(n, s)
    \/ StartPass(n) \/ ListBatch(n) \/ ListFails(n) \/ MakePlan(n)
    \/ \E s \in Saga : Resume(n, s) \/ ResumeFails(n, s) \/ Abandon(n, s)
    \/ FinishExecution(n)
=============================================================================
