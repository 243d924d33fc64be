--------------------------- MODULE MCNexusQuiesce ---------------------------
(* Small instances of NexusQuiesce for TLC. *)
EXTENDS NexusQuiesce, TLC

CONSTANTS
    Lost,  \* the instances that are gone when the generation is bumped
    Owner  \* those that have sagas then, NoNexus for a saga yet to come

(* A process that has executed blueprint 1 and recovered its sagas.        *)
InService(pending) ==
    [SetQuiescing(NewQuiesce, FALSE) EXCEPT
       !.sagas_pending = pending,
       !.first_recovery_complete = TRUE,
       !.reassignment_blueprint = 1,
       !.recovered_blueprint = 1]

(* The planner just bumped the generation.                                 *)
InitUpdating ==
    \E owner \in [Saga -> Owner] :
      LET of(n) == {s \in Saga : owner[s] = n /\ n \notin Lost}
      IN  /\ saga = [s \in Saga |->
               [state |-> IF owner[s] = NoNexus THEN "Unborn" ELSE "Running",
                sec |-> owner[s]]]
          /\ alive = Nexus \ Lost
          /\ quiesce = [n \in Nexus |->
                        IF n \in Lost THEN NewQuiesce ELSE InService(of(n))]
          /\ creating = [n \in Nexus |-> {}]
          /\ sec = [n \in Nexus |-> [s \in Saga |->
                      IF s \in of(n) THEN "Running" ELSE "Unknown"]]
          /\ channel = [n \in Nexus |-> {}]
          /\ started = [n \in Nexus |-> of(n)]
          /\ removeNext = [n \in Nexus |-> {}]
          /\ pass = [n \in Nexus |-> Idle]
          /\ \E off \in IF DiskExpunge THEN {{}, Lost} ELSE {{}} :
               blueprints = [i \in 1 .. 2 |->
                 [inService |-> Nexus \ off, ready |-> {}, quiescing |-> i = 2]]
          /\ loaded = [n \in Nexus |-> IF n \in Lost THEN NoBlueprint ELSE 1]
          /\ exec = [n \in Nexus |-> NoExec]
          /\ phase = [n \in Nexus |-> IF n \in Lost THEN "Undetermined" ELSE "Running"]
          /\ check = [n \in Nexus |-> NoCheck]
          /\ recorded = [n \in Nexus |-> NoBlueprint]
          /\ access = [n \in Nexus |-> [state |-> "Active", drained |-> NoBlueprint]]
          /\ handedOff = FALSE

SpecUpdating == InitUpdating /\ [][Next]_vars

FairUpdating ==
    /\ SpecUpdating
    /\ \A n \in Nexus \ Lost : FairnessOf(n)
    /\ WF_vars(AttemptHandoff)

Symmetry == Permutations(Nexus \ (Crashers \cup Lost)) \cup Permutations(Saga)
=============================================================================
