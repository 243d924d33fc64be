---------------------------- MODULE SagaQuiesce ----------------------------
(***************************************************************************)
(* The state with which one Nexus process tracks its sagas while it        *)
(* quiesces: SagaQuiesceStatus and the functions of SagaQuiesceHandle in   *)
(* nexus/types/src/quiesce.rs.  Every function changes the state inside    *)
(* one closure under the lock of a watch channel, so that each is an       *)
(* operator from the old state to the new one.                             *)
(*                                                                         *)
(* A blueprint id is the position of the blueprint in the history of       *)
(* targets; the code only compares ids for equality.                       *)
(***************************************************************************)
EXTENDS Naturals

NoBlueprint == 0

SagasAllowed == {"Allowed", "DisallowedQuiesce", "DisallowedUnknown"}

(* The state of a process that just started.  The Option<PendingRecovery>  *)
(* is the flag recovery_pending with the snapshot that belongs to it.      *)
NewQuiesce ==
    [ new_sagas_allowed        |-> "DisallowedUnknown",
      sagas_pending            |-> {},
      first_recovery_complete  |-> FALSE,
      reassignment_generation  |-> 0,
      reassignment_blueprint   |-> NoBlueprint,
      reassignment_pending     |-> FALSE,
      recovered_generation     |-> 0,
      recovered_blueprint      |-> NoBlueprint,
      drained_blueprint        |-> NoBlueprint,
      recovery_pending         |-> FALSE,
      pending_generation       |-> 0,
      pending_blueprint        |-> NoBlueprint ]

QuiesceStatus(Saga) ==
    [ new_sagas_allowed        : SagasAllowed,
      sagas_pending            : SUBSET Saga,
      first_recovery_complete  : BOOLEAN,
      reassignment_generation  : Nat,
      reassignment_blueprint   : Nat,
      reassignment_pending     : BOOLEAN,
      recovered_generation     : Nat,
      recovered_blueprint      : Nat,
      drained_blueprint        : Nat,
      recovery_pending         : BOOLEAN,
      pending_generation       : Nat,
      pending_blueprint        : Nat ]

IsCaughtUp(q) ==
    /\ q.first_recovery_complete
    /\ q.reassignment_generation <= q.recovered_generation

IsFullyDrained(q) ==
    /\ q.new_sagas_allowed = "DisallowedQuiesce"
    /\ q.sagas_pending = {}
    /\ IsCaughtUp(q)
    /\ ~q.reassignment_pending

LatchBlueprintIfDrained(q) ==
    IF IsFullyDrained(q)
      THEN [q EXCEPT !.drained_blueprint = q.recovered_blueprint]
      ELSE q

(* Quiescing is a one-way trip: only the first determination and the       *)
(* change from Allowed to DisallowedQuiesce have an effect.                *)
SetQuiescing(q, quiescing) ==
    LatchBlueprintIfDrained(
      IF q.new_sagas_allowed = "DisallowedQuiesce"
        THEN q
        ELSE [q EXCEPT !.new_sagas_allowed =
                IF quiescing THEN "DisallowedQuiesce" ELSE "Allowed"])

SagaCreate(q, s) == [q EXCEPT !.sagas_pending = @ \cup {s}]

RecordSagaRecovery(q, s) == [q EXCEPT !.sagas_pending = @ \cup {s}]

(* The completion task of a saga, and the Drop of a NewlyPendingSagaRef    *)
(* whose saga never started.                                               *)
SagaCompletion(q, s) ==
    LatchBlueprintIfDrained([q EXCEPT !.sagas_pending = @ \ {s}])

ReassignmentStart(q) == [q EXCEPT !.reassignment_pending = TRUE]

(* SagaReassignmentDone::ReassignedAllAsOf(bp, any)                        *)
ReassignedAllAsOf(q, bp, any) ==
    LatchBlueprintIfDrained(
      [q EXCEPT
        !.reassignment_pending    = FALSE,
        !.reassignment_blueprint  = bp,
        !.reassignment_generation = IF any THEN @ + 1 ELSE @,
        !.recovered_blueprint     = IF ~any /\ IsCaughtUp(q) THEN bp ELSE @])

(* SagaReassignmentDone::Indeterminate                                     *)
ReassignedIndeterminate(q) ==
    LatchBlueprintIfDrained(
      [q EXCEPT !.reassignment_pending    = FALSE,
                !.reassignment_generation = @ + 1])

RecoveryStart(q) ==
    [q EXCEPT !.recovery_pending   = TRUE,
              !.pending_generation = q.reassignment_generation,
              !.pending_blueprint  = q.reassignment_blueprint]

(* A plausible slip: the state of the reassignments is read when the pass  *)
(* ends, not when it starts.                                               *)
MutRecoveryDone(q, success) ==
    LET cleared == [q EXCEPT !.recovery_pending   = FALSE,
                             !.pending_generation = 0,
                             !.pending_blueprint  = NoBlueprint]
    IN  IF success
          THEN LatchBlueprintIfDrained(
                 [cleared EXCEPT
                   !.recovered_blueprint     = q.reassignment_blueprint,
                   !.recovered_generation    = q.reassignment_generation,
                   !.first_recovery_complete = TRUE])
          ELSE cleared

RecoveryDone(q, success) ==
    LET cleared == [q EXCEPT !.recovery_pending   = FALSE,
                             !.pending_generation = 0,
                             !.pending_blueprint  = NoBlueprint]
    IN  IF success
          THEN LatchBlueprintIfDrained(
                 [cleared EXCEPT
                   !.recovered_blueprint     = q.pending_blueprint,
                   !.recovered_generation    = q.pending_generation,
                   !.first_recovery_complete = TRUE])
          ELSE cleared
=============================================================================
