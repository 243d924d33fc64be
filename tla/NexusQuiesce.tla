---------------------------- MODULE NexusQuiesce ----------------------------
(***************************************************************************)
(* How one generation of Nexus instances hands the database over to the    *)
(* next: blueprint execution (nexus/src/app/background/tasks/              *)
(* blueprint_execution.rs, nexus/reconfigurator/execution), quiescing      *)
(* (nexus/src/app/quiesce.rs) and the table db_metadata_nexus              *)
(* (nexus/db-queries/src/db/datastore/db_metadata.rs), on top of the sagas *)
(* of SagaRecovery.                                                        *)
(*                                                                         *)
(* All instances in Nexus are of one generation.  The next generation is   *)
(* seen only through attempt_handoff.                                      *)
(***************************************************************************)
EXTENDS SagaRecovery, Sequences

CONSTANTS
    MaxBlueprint,  \* bound: how many blueprints become the target
    MaxGeneration, \* bound: reassignments that may fail in one process
    DiskExpunge,   \* may a zone be expunged while it may still be running?
    Crashers,      \* the instances whose processes may end
    Restarters     \* those that may be started again

ASSUME BoundAssumption ==
    /\ MaxBlueprint \in Nat \ {0} /\ MaxGeneration \in Nat
    /\ DiskExpunge \in BOOLEAN /\ Crashers \subseteq Nexus
    /\ Restarters \subseteq Nexus

VARIABLES
    blueprints, \* the blueprints that have been the target, in order
    loaded,     \* the latest blueprint that each process has loaded
    exec,       \* the blueprint execution of each process
    phase,      \* QuiesceState of each process
    check,      \* check_all_sagas_drained of each process
    recorded,   \* last_recorded_blueprint_id of do_quiesce
    access,     \* the table db_metadata_nexus
    handedOff   \* the next generation is active

processVars == <<loaded, exec, phase, check, recorded>>
vars == <<sagaVars, blueprints, processVars, access, handedOff>>

Phase == {"Undetermined", "Running", "DrainingSagas", "DrainingDb", "Quiesced"}

Blueprint ==
    [inService : SUBSET Nexus, ready : SUBSET Nexus, quiescing : BOOLEAN]

NoExec  == [pc |-> "idle", bp |-> NoBlueprint, any |-> FALSE]
NoCheck == [pc |-> "idle", bp |-> NoBlueprint]

QuiesceTypeOK ==
    /\ TypeOK
    /\ blueprints \in Seq(Blueprint)
    /\ loaded \in [Nexus -> Nat]
    /\ exec \in [Nexus -> [pc : {"idle", "reassigning", "reassigned"},
                           bp : Nat, any : BOOLEAN]]
    /\ phase \in [Nexus -> Phase]
    /\ check \in [Nexus -> [pc : {"idle", "waiting", "comparing"}, bp : Nat]]
    /\ recorded \in [Nexus -> Nat]
    /\ access \in [Nexus -> [state : {"Active", "Quiesced", "Deleted"}, drained : Nat]]
    /\ handedOff \in BOOLEAN

Target == Len(blueprints)

(* The state of a system in service, before any update: every instance     *)
(* restarts from the database or has yet to load its first blueprint.      *)
Init ==
    /\ SagaInit
    /\ blueprints = << [inService |-> Nexus, ready |-> {}, quiescing |-> FALSE] >>
    /\ loaded = [n \in Nexus |-> NoBlueprint]
    /\ exec = [n \in Nexus |-> NoExec]
    /\ phase = [n \in Nexus |-> "Undetermined"]
    /\ check = [n \in Nexus |-> NoCheck]
    /\ recorded = [n \in Nexus |-> NoBlueprint]
    /\ access = [n \in Nexus |-> [state |-> "Active", drained |-> NoBlueprint]]
    /\ handedOff = FALSE

(* datastore.quiesce(): afterwards this process has no database.           *)
HasDatabase(n) ==
    n \in alive /\ phase[n] \in {"Undetermined", "Running", "DrainingSagas"}

-----------------------------------------------------------------------------
(* Planning, by the instances that still have the database                 *)

NewTarget(bp) ==
    /\ Target < MaxBlueprint
    /\ \E n \in Nexus : HasDatabase(n)
    /\ blueprints' = Append(blueprints, bp)
    /\ UNCHANGED <<sagaVars, processVars, access, handedOff>>

(* do_plan_nexus_generation_update                                         *)
BumpGeneration ==
    /\ ~blueprints[Target].quiescing
    /\ NewTarget([blueprints[Target] EXCEPT !.quiescing = TRUE])

(* A sled that is gone is expunged: its zones are ready for cleanup.       *)
ExpungeSled(n) ==
    /\ n \notin alive
    /\ n \in blueprints[Target].inService
    /\ NewTarget([blueprints[Target] EXCEPT !.inService = @ \ {n},
                                            !.ready = @ \cup {n}])

(* A disk is expunged: its zones are expunged but may still be running.    *)
ExpungeDisk(n) ==
    /\ DiskExpunge
    /\ n \in blueprints[Target].inService
    /\ NewTarget([blueprints[Target] EXCEPT !.inService = @ \ {n}])

(* check_zones_eligible_for_cleanup: the sled reports that the zone is     *)
(* gone.                                                                   *)
MarkReady(n) ==
    /\ n \notin alive
    /\ n \notin blueprints[Target].inService \cup blueprints[Target].ready
    /\ NewTarget([blueprints[Target] EXCEPT !.ready = @ \cup {n}])

-----------------------------------------------------------------------------
(* Blueprint execution                                                     *)

(* The blueprint loader publishes the current target.                      *)
LoadBlueprint(n) ==
    /\ HasDatabase(n)
    /\ loaded[n] # Target
    /\ loaded' = [loaded EXCEPT ![n] = Target]
    /\ UNCHANGED <<sagaVars, blueprints, exec, phase, check, recorded, access,
                   handedOff>>

(* NexusQuiesceHandle::set_quiescing                                       *)
NextPhase(p, quiescing) ==
    IF p \in {"Undetermined", "Running"}
      THEN IF quiescing THEN "DrainingSagas" ELSE "Running"
      ELSE p

(* expunged_nexus_zones_ready_for_cleanup                                  *)
ExpungedNexus(bp) == blueprints[bp].ready

(* clean_up_expunged_nexus_zones deletes the records of the zones that are *)
(* gone; an error is only a warning.                                       *)
CleanUpExpungedNexus(bp) ==
    \/ access' = [m \in Nexus |->
                    IF m \in ExpungedNexus(bp)
                      THEN [state |-> "Deleted", drained |-> NoBlueprint]
                      ELSE access[m]]
    \/ Transient /\ UNCHANGED access

(* Execution propagates whether this Nexus is to quiesce, cleans up and    *)
(* begins the step that reassigns sagas.                                   *)
StartExecution(n) ==
    /\ HasDatabase(n)
    /\ exec[n].pc = "idle"
    /\ loaded[n] # NoBlueprint
    /\ LET bp == loaded[n]
           quiescing == blueprints[bp].quiescing
       IN  /\ phase' = [phase EXCEPT ![n] = NextPhase(@, quiescing)]
           /\ quiesce' = [quiesce EXCEPT ![n] =
                            ReassignmentStart(SetQuiescing(@, quiescing))]
           /\ CleanUpExpungedNexus(bp)
           /\ exec' = [exec EXCEPT ![n] =
                         [pc |-> "reassigning", bp |-> bp, any |-> FALSE]]
    /\ UNCHANGED <<saga, alive, creating, sec, restVars, pass, blueprints,
                   loaded, check, recorded, handedOff>>

(* reassign_sagas_from_expunged: the sagas of the instances that are gone. *)
ReassignSagas(n) ==
    /\ HasDatabase(n)
    /\ exec[n].pc = "reassigning"
    /\ LET from == ExpungedNexus(exec[n].bp)
       IN  /\ ReassignSec(from, n)
           /\ exec' = [exec EXCEPT ![n].pc = "reassigned",
                                   ![n].any = Reassignable(from) # {}]
    /\ UNCHANGED <<alive, quiesce, creating, sec, restVars, pass, blueprints,
                   loaded, phase, check, recorded, access, handedOff>>

ReassignmentDone(n) ==
    /\ n \in alive
    /\ exec[n].pc = "reassigned"
    /\ quiesce' = [quiesce EXCEPT ![n] =
                     ReassignedAllAsOf(@, exec[n].bp, exec[n].any)]
    /\ exec' = [exec EXCEPT ![n] = NoExec]
    /\ UNCHANGED <<saga, alive, creating, sec, restVars, pass, blueprints,
                   loaded, phase, check, recorded, access, handedOff>>

(* The UPDATE fails, or its answer is lost after it was applied.           *)
ReassignmentFails(n) ==
    /\ n \in alive
    /\ exec[n].pc \in {"reassigning", "reassigned"}
    /\ quiesce[n].reassignment_generation < MaxGeneration
    /\ quiesce' = [quiesce EXCEPT ![n] = ReassignedIndeterminate(@)]
    /\ exec' = [exec EXCEPT ![n] = NoExec]
    /\ UNCHANGED <<saga, alive, creating, sec, restVars, pass, blueprints,
                   loaded, phase, check, recorded, access, handedOff>>

-----------------------------------------------------------------------------
(* do_quiesce                                                              *)

(* The latest blueprint is taken; without us in service it is an error.    *)
StartCheck(n) ==
    /\ n \in alive
    /\ phase[n] = "DrainingSagas"
    /\ check[n].pc = "idle"
    /\ n \in blueprints[loaded[n]].inService
    /\ check' = [check EXCEPT ![n] = [pc |-> "waiting", bp |-> loaded[n]]]
    /\ UNCHANGED <<sagaVars, blueprints, loaded, exec, phase, recorded, access,
                   handedOff>>

(* Drained as of that blueprint: record it, unless that was done before.   *)
RecordDrained(n) ==
    /\ HasDatabase(n)
    /\ check[n].pc = "waiting"
    /\ quiesce[n].drained_blueprint = check[n].bp
    /\ access' = IF recorded[n] # check[n].bp /\ access[n].state = "Active"
                   THEN [access EXCEPT ![n].drained = check[n].bp]
                   ELSE access
    /\ recorded' = [recorded EXCEPT ![n] = check[n].bp]
    /\ check' = [check EXCEPT ![n].pc = "comparing"]
    /\ UNCHANGED <<sagaVars, blueprints, loaded, exec, phase, handedOff>>

(* A plausible slip: one's own record is enough.                           *)
MutAllDrained(n) == access[n].drained = recorded[n]

AllDrained(n) ==
    LET peers   == blueprints[check[n].bp].inService
        records == {m \in peers : access[m].state # "Deleted"}
    IN  \/ \E m \in records : access[m].state = "Quiesced"
        \/ /\ records = peers
           /\ \A m \in records : access[m].drained = recorded[n]

(* Everybody is drained as of the same blueprint: quiesce the database.    *)
MoveOn(n) ==
    /\ HasDatabase(n)
    /\ check[n].pc = "comparing"
    /\ AllDrained(n)
    /\ phase' = [phase EXCEPT ![n] = "DrainingDb"]
    /\ check' = [check EXCEPT ![n] = NoCheck]
    /\ UNCHANGED <<sagaVars, blueprints, loaded, exec, recorded, access,
                   handedOff>>

(* A plausible slip: the wait for being drained has no timeout.            *)
MutCheckFails(n) ==
    /\ n \in alive
    /\ check[n].pc = "comparing"
    /\ check' = [check EXCEPT ![n] = NoCheck]
    /\ UNCHANGED <<sagaVars, blueprints, loaded, exec, phase, recorded, access,
                   handedOff>>

(* Not drained before the timeout, not all drained, or a database error.   *)
CheckFails(n) ==
    /\ n \in alive
    /\ check[n].pc # "idle"
    /\ check' = [check EXCEPT ![n] = NoCheck]
    /\ UNCHANGED <<sagaVars, blueprints, loaded, exec, phase, recorded, access,
                   handedOff>>

(* database_nexus_access_update_quiesced, retried until it succeeds        *)
RecordQuiesced(n) ==
    /\ n \in alive
    /\ phase[n] = "DrainingDb"
    /\ phase' = [phase EXCEPT ![n] = "Quiesced"]
    /\ access' = IF access[n].state = "Deleted"
                   THEN access
                   ELSE [access EXCEPT ![n].state = "Quiesced"]
    /\ UNCHANGED <<sagaVars, blueprints, loaded, exec, check, recorded,
                   handedOff>>

(* attempt_handoff of the next generation                                  *)
AttemptHandoff ==
    /\ ~handedOff
    /\ \A n \in Nexus : access[n].state # "Active"
    /\ handedOff' = TRUE
    /\ UNCHANGED <<sagaVars, blueprints, processVars, access>>

-----------------------------------------------------------------------------
(* A process ends; it is started again while its zone is in service and    *)
(* its record lets it in (check_nexus_access).                             *)
ProcessEnds(n) ==
    /\ n \in Crashers
    /\ Crash(n)
    /\ loaded' = [loaded EXCEPT ![n] = NoBlueprint]
    /\ exec' = [exec EXCEPT ![n] = NoExec]
    /\ phase' = [phase EXCEPT ![n] = "Undetermined"]
    /\ check' = [check EXCEPT ![n] = NoCheck]
    /\ recorded' = [recorded EXCEPT ![n] = NoBlueprint]
    /\ UNCHANGED <<blueprints, access, handedOff>>

ProcessStarts(n) ==
    /\ n \in Restarters
    /\ n \in blueprints[Target].inService
    /\ access[n].state = "Active"
    /\ Restart(n)
    /\ UNCHANGED <<blueprints, processVars, access, handedOff>>

(* A step of the saga machinery; those that need the database wait for it. *)
SagaActivity(n) ==
    /\ HasDatabase(n)
    /\ SagaStep(n)
    /\ UNCHANGED <<blueprints, processVars, access, handedOff>>

Next ==
    \/ BumpGeneration \/ AttemptHandoff
    \/ \E n \in Nexus :
         \/ ExpungeSled(n) \/ ExpungeDisk(n) \/ MarkReady(n)
         \/ LoadBlueprint(n) \/ StartExecution(n)
         \/ ReassignSagas(n) \/ ReassignmentDone(n) \/ ReassignmentFails(n)
         \/ StartCheck(n) \/ RecordDrained(n) \/ MoveOn(n) \/ CheckFails(n)
         \/ RecordQuiesced(n)
         \/ ProcessEnds(n) \/ ProcessStarts(n)
         \/ SagaActivity(n)

Spec == Init /\ [][Next]_vars

(* What the code keeps doing.  Sagas finish, and their updates are retried *)
(* for ever; the background tasks that load and execute blueprints and     *)
(* recover sagas are activated periodically, and do_quiesce loops.         *)
(* Listings do not fail for ever, and a check that could succeed does not  *)
(* time out for ever.  Nothing is assumed of the operator, of the planner  *)
(* or of a process that ended.                                             *)
InSagas(n, A) ==
    HasDatabase(n) /\ A /\ UNCHANGED <<blueprints, processVars, access, handedOff>>

SagasProgress(n) ==
    InSagas(n, \E s \in Saga : \/ Insert(n, s) \/ CreateOk(n, s)
                               \/ RecordDone(n, s) \/ Complete(n, s))

RecoveryProgress(n) ==
    InSagas(n, \/ StartPass(n) \/ ListBatch(n) \/ MakePlan(n) \/ FinishExecution(n)
               \/ \E s \in Saga : Resume(n, s) \/ ResumeFails(n, s) \/ Abandon(n, s))

ExecutionProgress(n) ==
    StartExecution(n) \/ ReassignSagas(n) \/ ReassignmentDone(n)

FairnessOf(n) ==
    /\ WF_vars(SagasProgress(n))
    /\ WF_vars(RecoveryProgress(n))
    /\ <>[][~ListFails(n)]_vars
    /\ WF_vars(LoadBlueprint(n))
    /\ WF_vars(ExecutionProgress(n))
    /\ WF_vars(StartCheck(n) \/ CheckFails(n) \/ RecordQuiesced(n))
    /\ SF_vars(RecordDrained(n))
    /\ SF_vars(MoveOn(n))

(* The next generation takes over in the end, if the blueprint asks for it, *)
(* the instances in service keep running and the records of the others are *)
(* cleaned up (do_quiesce, attempt_handoff).                               *)
HandoffHappens ==
    <>[](/\ blueprints[Target].quiescing
         /\ \A n \in Nexus :
              IF n \in blueprints[Target].inService
                THEN n \in alive \/ access[n].state = "Quiesced"
                ELSE access[n].state # "Active")
    => <>handedOff

-----------------------------------------------------------------------------
(* A saga that a recovery pass is about to resume is not one that this     *)
(* process already runs or creates (Plan::new).                            *)
NoDoubleResume ==
    \A n \in Nexus : pass[n].needs \cap (Known(n) \cup creating[n]) = {}

(* The assertions of SagaQuiesceHandle, of RestState and of the completion *)
(* of sagas hold: one reassignment and one recovery pass at a time, a saga *)
(* that is created or runs is pending, and sagas_started gains no saga     *)
(* twice and loses none that it does not hold.                             *)
AssertionsHold ==
    \A n \in Nexus :
      /\ quiesce[n].reassignment_pending <=> exec[n].pc # "idle"
      /\ quiesce[n].recovery_pending <=> pass[n].pc # "idle"
      /\ \A s \in Saga : s \in creating[n] \/ sec[n][s] \in {"Running", "Recorded"}
                           => s \in quiesce[n].sagas_pending
      /\ channel[n] \cap started[n] = {}
      /\ pass[n].recovered \cap started[n] = {}
      /\ removeNext[n] \subseteq started[n]

(* A saga is executed by one process at a time: reassignment only takes    *)
(* the sagas of instances that are gone (sagas_reassign_sec).              *)
RunsInOneProcess ==
    \A s \in Saga : \A m, n \in Nexus :
      sec[m][s] = "Running" /\ sec[n][s] = "Running" => m = n

(* A fully drained process has no unfinished saga assigned to it           *)
(* (is_fully_drained).                                                     *)
DrainedHasNoSagas ==
    \A n \in alive : IsFullyDrained(quiesce[n]) => Unfinished(n) = {}

(* Once an instance quiesces the database, no instance has an unfinished   *)
(* saga, and none is left to the next generation (do_quiesce).             *)
HandoffAfterSagas ==
    (\E n \in Nexus : phase[n] \in {"DrainingDb", "Quiesced"}
                      \/ access[n].state = "Quiesced")
    => \A s \in Saga : ~IsCandidate(s)
=============================================================================
