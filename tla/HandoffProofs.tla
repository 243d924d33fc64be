--------------------------- MODULE HandoffProofs ---------------------------
(***************************************************************************)
(* No unfinished saga is left when the instances give up the database: the *)
(* proof, for every number of Nexus instances, sagas and blueprints.  On   *)
(* top of what DrainedProofs assumes, zones are expunged only with their   *)
(* sled, so that an expunged instance is gone (see NexusQuiesce).          *)
(***************************************************************************)
EXTENDS DrainedProofs

(* The saga is unfinished, or its INSERT may still make it so.              *)
Live(s) == \/ IsCandidate(s)
           \/ saga[s].state = "NoRow" /\ \E n \in Nexus : s \in creating[n]

(* A saga whose id was drawn has an owner.                                  *)
OwnerInv == \A s \in Saga : saga[s].state # "Unborn" => saga[s].sec \in Nexus

(* Every instance is in service or gone.                                    *)
WholeInv ==
  \A i \in 1 .. Target : blueprints[i].inService \cup blueprints[i].ready = Nexus

(* The sagas of the instances gone as of blueprint k have been reassigned.  *)
Clear(k) ==
  k # NoBlueprint =>
    /\ k \in 1 .. Target
    /\ \A s \in Saga : IsCandidate(s) => saga[s].sec \notin blueprints[k].ready

(* The blueprints that the handle of a process refers to ...                *)
Sources(q) ==
  {NoBlueprint, q.reassignment_blueprint, q.pending_blueprint,
   q.recovered_blueprint, q.drained_blueprint}

(* ... and those as of which it has reassigned, recovered or drained.       *)
Settled(n) ==
  Sources(quiesce[n]) \cup {access[n].drained}
    \cup {k \in {exec[n].bp} : exec[n].pc = "reassigned"}

ClearInv(n) == \A k \in Settled(n) : Clear(k)

(* The process is told, or will be told, not to create sagas.               *)
Closing(n) ==
  /\ quiesce[n].new_sagas_allowed # "Allowed"
  /\ loaded[n] # NoBlueprint => blueprints[loaded[n]].quiescing
  /\ blueprints[Target].quiescing

ClosingInv(n) ==
  /\ quiesce[n].new_sagas_allowed = "DisallowedQuiesce" =>
       loaded[n] # NoBlueprint /\ blueprints[loaded[n]].quiescing
  /\ phase[n] = "DrainingSagas" => loaded[n] # NoBlueprint
  /\ quiesce[n].drained_blueprint # NoBlueprint =>
       quiesce[n].new_sagas_allowed = "DisallowedQuiesce"
  /\ access[n].drained # NoBlueprint => Closing(n)

CheckInv(n) ==
  /\ n \notin alive => loaded[n] = NoBlueprint
  /\ check[n].pc # "idle" =>
       check[n].bp \in 1 .. Target /\ n \in blueprints[check[n].bp].inService
  /\ check[n].pc = "comparing" => recorded[n] = check[n].bp

(* As long as a saga is unfinished, some instance that is in service as of  *)
(* blueprint k is not recorded as drained as of k: its owner or, after a    *)
(* reassignment, one that is gone for good.                                 *)
Undrained(s, k) ==
  \/ /\ saga[s].sec \in blueprints[k].inService
     /\ access[saga[s].sec].drained # k
     /\ quiesce[saga[s].sec].drained_blueprint # k
  \/ \E e \in blueprints[k].inService \cap blueprints[Target].ready :
       access[e].state = "Deleted" \/ access[e].drained # k
  \/ saga[s].sec \in blueprints[k].ready

UndrainedInv == \A s \in Saga, k \in 1 .. Target : Live(s) => Undrained(s, k)

GivenUp == \E n \in Nexus : phase[n] \in {"DrainingDb", "Quiesced"}
                            \/ access[n].state = "Quiesced"

GivenUpInv ==
  GivenUp => (\A s \in Saga : ~ Live(s)) /\ (\A n \in Nexus : Closing(n))

ClosedInv ==
  /\ OwnerInv /\ WholeInv /\ UndrainedInv /\ GivenUpInv
  /\ \A n \in Nexus : ClearInv(n) /\ ClosingInv(n) /\ CheckInv(n)

HandoffInv == DrainedInv /\ ClosedInv

-----------------------------------------------------------------------------
(* The blueprints in the handle of a process.                               *)

(* p comes from q: sagas are allowed as before, and every blueprint of p is *)
(* one of S.                                                                *)
Handled(q, p, S) ==
  /\ p.new_sagas_allowed = q.new_sagas_allowed
  /\ Latched(q, p)
  /\ Sources(p) \subseteq S

LEMMA HandledBy ==
  ASSUME NEW q, NEW r, NEW p, NEW S, SameButDrained(r, p), Latched(q, p),
         r.new_sagas_allowed = q.new_sagas_allowed, Sources(q) \subseteq S,
         r.reassignment_blueprint \in S, r.pending_blueprint \in S,
         r.recovered_blueprint \in S
  PROVE  Handled(q, p, S)
<1>1. /\ p.new_sagas_allowed = r.new_sagas_allowed
      /\ p.reassignment_blueprint \in S /\ p.pending_blueprint \in S
      /\ p.recovered_blueprint \in S
  BY Zenon DEF SameButDrained
<1>2. NoBlueprint \in S /\ q.drained_blueprint \in S
  BY Zenon DEF Sources
<1>3. p.drained_blueprint \in S
  BY <1>1, <1>2, Zenon DEF Latched
<1> QED BY <1>1, <1>2, <1>3, Zenon DEF Handled, Sources

LEMMA HandledSame ==
  ASSUME NEW q
  PROVE  SameButDrained(q, q) /\ Latched(q, q) /\ Handled(q, q, Sources(q))
BY Zenon DEF SameButDrained, Latched, Handled

LEMMA HandledSagas ==
  ASSUME NEW q \in QuiesceStatus(Saga), NEW s \in Saga
  PROVE  /\ Handled(q, SagaCreate(q, s), Sources(q))
         /\ Handled(q, RecordSagaRecovery(q, s), Sources(q))
         /\ Handled(q, SagaCompletion(q, s), Sources(q))
<1>1. Handled(q, SagaCreate(q, s), Sources(q))
  <2> DEFINE r == [q EXCEPT !.sagas_pending = q.sagas_pending \cup {s}]
  <2>1. /\ r.drained_blueprint = q.drained_blueprint
        /\ r.new_sagas_allowed = q.new_sagas_allowed
        /\ Sources(r) = Sources(q)
    BY Zenon DEF QuiesceStatus, Sources
  <2>2. SagaCreate(q, s) = r
    BY PendingFacts, Zenon
  <2> HIDE DEF r
  <2> QED BY <2>1, <2>2, Zenon DEF Handled, Latched
<1>2. Handled(q, SagaCompletion(q, s), Sources(q))
  <2> DEFINE r == [q EXCEPT !.sagas_pending = q.sagas_pending \ {s}]
  <2>1. /\ r.new_sagas_allowed = q.new_sagas_allowed
        /\ r.reassignment_blueprint \in Sources(q) /\ r.pending_blueprint \in Sources(q)
        /\ r.recovered_blueprint \in Sources(q)
    BY Zenon DEF QuiesceStatus, Sources
  <2>2. SameButDrained(r, SagaCompletion(q, s)) /\ Latched(q, SagaCompletion(q, s))
    BY PendingFacts, Zenon
  <2>3. Sources(q) \subseteq Sources(q)
    BY Zenon
  <2> HIDE DEF r
  <2> QED BY <2>1, <2>2, <2>3, HandledBy, Zenon
<1> QED BY <1>1, <1>2, PendingFacts, Zenon

LEMMA HandledRecovery ==
  ASSUME NEW q \in QuiesceStatus(Saga)
  PROVE  /\ Handled(q, RecoveryStart(q), Sources(q))
         /\ Handled(q, RecoveryDone(q, FALSE), Sources(q))
         /\ Handled(q, RecoveryDone(q, TRUE), Sources(q))
<1>0. Sources(q) \subseteq Sources(q)
  BY Zenon
<1>1. Handled(q, RecoveryStart(q), Sources(q))
  <2>1. /\ RecoveryStart(q).drained_blueprint = q.drained_blueprint
        /\ RecoveryStart(q).new_sagas_allowed = q.new_sagas_allowed
        /\ RecoveryStart(q).reassignment_blueprint = q.reassignment_blueprint
        /\ RecoveryStart(q).pending_blueprint = q.reassignment_blueprint
        /\ RecoveryStart(q).recovered_blueprint = q.recovered_blueprint
    BY Zenon DEF RecoveryStart, QuiesceStatus
  <2> QED BY <2>1, Zenon DEF Handled, Latched, Sources
<1>2. Handled(q, RecoveryDone(q, FALSE), Sources(q))
  <2> DEFINE r == [q EXCEPT !.recovery_pending   = FALSE,
                            !.pending_generation = 0,
                            !.pending_blueprint  = NoBlueprint]
  <2>1. /\ r.drained_blueprint = q.drained_blueprint
        /\ r.new_sagas_allowed = q.new_sagas_allowed
        /\ r.reassignment_blueprint = q.reassignment_blueprint
        /\ r.pending_blueprint = NoBlueprint
        /\ r.recovered_blueprint = q.recovered_blueprint
    BY Zenon DEF QuiesceStatus
  <2>2. RecoveryDone(q, FALSE) = r
    BY RecoveryFacts, Zenon
  <2> HIDE DEF r
  <2>3. Handled(q, r, Sources(q))
    BY <2>1, Zenon DEF Handled, Latched, Sources
  <2> QED BY <2>2, <2>3, Zenon
<1>3. Handled(q, RecoveryDone(q, TRUE), Sources(q))
  <2> DEFINE r == [q EXCEPT !.recovery_pending        = FALSE,
                            !.pending_generation      = 0,
                            !.pending_blueprint       = NoBlueprint,
                            !.recovered_blueprint     = q.pending_blueprint,
                            !.recovered_generation    = q.pending_generation,
                            !.first_recovery_complete = TRUE]
  <2>1. /\ r.new_sagas_allowed = q.new_sagas_allowed
        /\ r.reassignment_blueprint \in Sources(q) /\ r.pending_blueprint \in Sources(q)
        /\ r.recovered_blueprint \in Sources(q)
    BY Zenon DEF QuiesceStatus, Sources
  <2>2. SameButDrained(r, RecoveryDone(q, TRUE)) /\ Latched(q, RecoveryDone(q, TRUE))
    BY RecoveryFacts, Zenon
  <2> HIDE DEF r
  <2> QED BY <1>0, <2>1, <2>2, HandledBy, Zenon
<1> QED BY <1>1, <1>2, <1>3, Zenon

LEMMA HandledReassignment ==
  ASSUME NEW q \in QuiesceStatus(Saga), NEW bp \in Nat, NEW any \in BOOLEAN
  PROVE  /\ Handled(q, ReassignedAllAsOf(q, bp, any), Sources(q) \cup {bp})
         /\ Handled(q, ReassignedIndeterminate(q), Sources(q))
<1>1. Handled(q, ReassignedAllAsOf(q, bp, any), Sources(q) \cup {bp})
  <2> DEFINE r == [q EXCEPT
                     !.reassignment_pending    = FALSE,
                     !.reassignment_blueprint  = bp,
                     !.reassignment_generation =
                         IF any THEN q.reassignment_generation + 1
                                ELSE q.reassignment_generation,
                     !.recovered_blueprint     =
                         IF ~any /\ IsCaughtUp(q) THEN bp ELSE q.recovered_blueprint]
             S == Sources(q) \cup {bp}
  <2>1. /\ r.new_sagas_allowed = q.new_sagas_allowed
        /\ r.reassignment_blueprint \in S /\ r.pending_blueprint \in S
        /\ r.recovered_blueprint \in S
    BY Zenon DEF QuiesceStatus, Sources
  <2>2. /\ SameButDrained(r, ReassignedAllAsOf(q, bp, any))
        /\ Latched(q, ReassignedAllAsOf(q, bp, any))
    BY ReassignmentFacts, Zenon
  <2>3. Sources(q) \subseteq S
    BY Zenon
  <2> HIDE DEF r, S
  <2>4. Handled(q, ReassignedAllAsOf(q, bp, any), S)
    BY <2>1, <2>2, <2>3, HandledBy, Zenon
  <2> QED BY <2>4, Zenon DEF S
<1>2. Handled(q, ReassignedIndeterminate(q), Sources(q))
  <2> DEFINE r == [q EXCEPT
                     !.reassignment_pending    = FALSE,
                     !.reassignment_generation = q.reassignment_generation + 1]
  <2>1. /\ r.new_sagas_allowed = q.new_sagas_allowed
        /\ r.reassignment_blueprint \in Sources(q) /\ r.pending_blueprint \in Sources(q)
        /\ r.recovered_blueprint \in Sources(q)
    BY Zenon DEF QuiesceStatus, Sources
  <2>2. /\ SameButDrained(r, ReassignedIndeterminate(q))
        /\ Latched(q, ReassignedIndeterminate(q))
    BY ReassignmentFacts, Zenon
  <2>3. Sources(q) \subseteq Sources(q)
    BY Zenon
  <2> HIDE DEF r
  <2> QED BY <2>1, <2>2, <2>3, HandledBy, Zenon
<1> QED BY <1>1, <1>2, Zenon

(* set_quiescing allows or disallows sagas, and may latch before the        *)
(* reassignment starts.                                                     *)
LEMMA HandledStart ==
  ASSUME NEW q \in QuiesceStatus(Saga), NEW b \in BOOLEAN
  PROVE  LET p == ReassignmentStart(SetQuiescing(q, b)) IN
           /\ p.new_sagas_allowed =
                IF b \/ q.new_sagas_allowed = "DisallowedQuiesce"
                  THEN "DisallowedQuiesce" ELSE "Allowed"
           /\ Sources(p) \subseteq Sources(q)
           /\ \/ p.drained_blueprint = q.drained_blueprint
              \/ /\ p.new_sagas_allowed = "DisallowedQuiesce"
                 /\ q.sagas_pending = {} /\ IsCaughtUp(q)
<1> DEFINE a == SetQuiescing(q, b)
           r == [q EXCEPT !.new_sagas_allowed = a.new_sagas_allowed]
           p == ReassignmentStart(a)
<1>1. /\ a \in QuiesceStatus(Saga) /\ SameButDrained(r, a) /\ Latched(q, a)
      /\ a.new_sagas_allowed = IF b \/ q.new_sagas_allowed = "DisallowedQuiesce"
                                 THEN "DisallowedQuiesce" ELSE "Allowed"
  BY SetQuiescingFacts, Zenon
<1>2. /\ r.sagas_pending = q.sagas_pending
      /\ r.first_recovery_complete = q.first_recovery_complete
      /\ r.reassignment_generation = q.reassignment_generation
      /\ r.recovered_generation = q.recovered_generation
      /\ r.reassignment_blueprint = q.reassignment_blueprint
      /\ r.pending_blueprint = q.pending_blueprint
      /\ r.recovered_blueprint = q.recovered_blueprint
  BY Zenon DEF QuiesceStatus
<1> HIDE DEF r, a
<1>3. /\ p.new_sagas_allowed = a.new_sagas_allowed
      /\ p.drained_blueprint = a.drained_blueprint
      /\ p.reassignment_blueprint = a.reassignment_blueprint
      /\ p.pending_blueprint = a.pending_blueprint
      /\ p.recovered_blueprint = a.recovered_blueprint
  BY <1>1, Zenon DEF ReassignmentStart, QuiesceStatus
<1> HIDE DEF p
<1>4. Sources(p) \subseteq Sources(q)
  BY <1>1, <1>2, <1>3, ZenonT(30) DEF Sources, SameButDrained, Latched
<1>5. IsFullyDrained(a) => /\ a.new_sagas_allowed = "DisallowedQuiesce"
                           /\ q.sagas_pending = {} /\ IsCaughtUp(q)
  BY <1>1, <1>2, Zenon DEF IsFullyDrained, IsCaughtUp, SameButDrained
<1> QED BY <1>1, <1>3, <1>4, <1>5, Zenon DEF Latched, p, a

-----------------------------------------------------------------------------
(* What steps under one target blueprint may do.                            *)

(* A saga only becomes unfinished, or changes hands, at a running process.  *)
RowsKept ==
  \A s \in Saga : IsCandidate(s)' =>
    \/ IsCandidate(s) /\ saga'[s].sec = saga[s].sec
    \/ saga'[s].sec \in alive

LEMMA ReadyIsGone ==
  ASSUME BlueprintInv, NEW k \in 1 .. Target
  PROVE  /\ blueprints[k].ready \cap alive = {}
         /\ blueprints[k].ready \subseteq blueprints[Target].ready
         /\ blueprints[k].quiescing => blueprints[Target].quiescing
BY Zenon DEF BlueprintInv

LEMMA ClearKept ==
  ASSUME BlueprintInv, UNCHANGED blueprints, RowsKept, NEW k, Clear(k)
  PROVE  Clear(k)'
<1>1. CASE k = NoBlueprint
  BY <1>1, Zenon DEF Clear
<1>2. CASE k # NoBlueprint
  <2>1. k \in 1 .. Target /\ \A s \in Saga : IsCandidate(s) => saga[s].sec \notin blueprints[k].ready
    BY <1>2, Zenon DEF Clear
  <2>2. blueprints[k].ready \cap alive = {}
    BY <2>1, ReadyIsGone, Zenon
  <2>3. \A s \in Saga : IsCandidate(s)' => saga'[s].sec \notin blueprints[k].ready
    BY <2>1, <2>2, Zenon DEF RowsKept
  <2> QED BY <2>1, <2>3, Zenon DEF Clear, Target
<1> QED BY <1>1, <1>2, Zenon

LEMMA ClearInvKept ==
  ASSUME BlueprintInv, UNCHANGED blueprints, RowsKept, NEW n \in Nexus, ClearInv(n),
         Settled(n)' \subseteq Settled(n)
  PROVE  ClearInv(n)'
<1> SUFFICES ASSUME NEW k \in Settled(n)' PROVE Clear(k)'
  BY Zenon DEF ClearInv
<1>1. Clear(k)
  BY Zenon DEF ClearInv
<1> QED BY <1>1, ClearKept, Zenon

(* Records are deleted, never revived, and no drained blueprint is added.   *)
AccessKept ==
  \A m \in Nexus :
    /\ access[m].state = "Deleted" => access'[m].state = "Deleted"
    /\ access'[m].drained \in {access[m].drained, NoBlueprint}

DrainedKept(m) ==
  quiesce'[m].drained_blueprint \in {quiesce[m].drained_blueprint, NoBlueprint}

LEMMA UndrainedKept ==
  ASSUME QuiesceTypeOK, UNCHANGED blueprints, AccessKept,
         NEW s \in Saga, NEW k \in 1 .. Target, Undrained(s, k),
         saga'[s].sec = saga[s].sec, saga[s].sec \in Nexus, DrainedKept(saga[s].sec)
  PROVE  Undrained(s, k)'
<1>0. k # NoBlueprint /\ blueprints[k].inService \subseteq Nexus
  <2>1. k # NoBlueprint
    BY DEF NoBlueprint, Target
  <2> QED BY <2>1, BlueprintType, Zenon
<1> DEFINE o == saga[s].sec
<1>1. CASE o \in blueprints[k].inService /\ access[o].drained # k
           /\ quiesce[o].drained_blueprint # k
  <2>1. access'[o].drained # k
    BY <1>0, <1>1 DEF AccessKept
  <2>2. quiesce'[o].drained_blueprint # k
    BY <1>0, <1>1 DEF DrainedKept
  <2> QED BY <1>1, <2>1, <2>2, Zenon DEF Undrained
<1>2. ASSUME NEW e \in blueprints[k].inService \cap blueprints[Target].ready,
             access[e].state = "Deleted" \/ access[e].drained # k
      PROVE  Undrained(s, k)'
  <2>1. access'[e].state = "Deleted" \/ access'[e].drained # k
    BY <1>0, <1>2, Zenon DEF AccessKept
  <2>2. e \in blueprints'[k].inService \cap blueprints'[Len(blueprints')].ready
    BY <1>2, Zenon DEF Target
  <2> QED BY <2>1, <2>2, Zenon DEF Undrained, Target
<1>3. CASE o \in blueprints[k].ready
  BY <1>3, Zenon DEF Undrained
<1> QED BY <1>1, <1>2, <1>3, Zenon DEF Undrained

LEMMA UndrainedInvKept ==
  ASSUME Inv, OwnerInv, UndrainedInv, UNCHANGED blueprints, AccessKept,
         \A s \in Saga : Live(s)' => /\ Live(s) /\ saga'[s].sec = saga[s].sec
                                     /\ DrainedKept(saga[s].sec)
  PROVE  UndrainedInv'
<1>1. QuiesceTypeOK
  BY Zenon DEF Inv
<1> SUFFICES ASSUME NEW s \in Saga, NEW k \in 1 .. Target, Live(s)' PROVE Undrained(s, k)'
  BY Zenon DEF UndrainedInv, Target
<1>2. Live(s) /\ saga'[s].sec = saga[s].sec /\ DrainedKept(saga[s].sec)
  BY Zenon
<1>3. saga[s].sec \in Nexus
  BY <1>2, Zenon DEF Live, IsCandidate, OwnerInv
<1>4. Undrained(s, k)
  BY <1>2, Zenon DEF UndrainedInv
<1> QED BY <1>1, <1>2, <1>3, <1>4, UndrainedKept, Zenon

LEMMA GivenUpKept ==
  ASSUME GivenUpInv, GivenUp' => GivenUp, \A s \in Saga : GivenUp /\ Live(s)' => Live(s),
         \A m \in Nexus : GivenUp /\ Closing(m) => Closing(m)'
  PROVE  GivenUpInv'
BY Zenon DEF GivenUpInv

LEMMA ClosingKept ==
  ASSUME UNCHANGED blueprints, NEW m \in Nexus, ClosingInv(m),
         loaded'[m] = loaded[m], Latched(quiesce[m], quiesce'[m]),
         quiesce'[m].new_sagas_allowed = quiesce[m].new_sagas_allowed,
         phase'[m] = phase[m] \/ phase'[m] # "DrainingSagas",
         access'[m].drained \in {access[m].drained, NoBlueprint}
  PROVE  ClosingInv(m)' /\ (Closing(m) => Closing(m)')
<1>1. Closing(m) => Closing(m)'
  BY Zenon DEF Closing, Target
<1>2. quiesce'[m].drained_blueprint # NoBlueprint =>
        quiesce'[m].new_sagas_allowed = "DisallowedQuiesce"
  BY Zenon DEF ClosingInv, Latched, IsFullyDrained
<1> QED BY <1>1, <1>2, Zenon DEF ClosingInv

-----------------------------------------------------------------------------
(* The sagas.                                                               *)

(* A fully drained process owns no saga that is unfinished or may become    *)
(* so.                                                                      *)
DrainedOwnsNone ==
  \A n \in Nexus, s \in Saga :
    IsFullyDrained(quiesce[n]) /\ Live(s) => saga[s].sec # n

LEMMA NothingOwned ==
  ASSUME Inv, NEW n \in Nexus, quiesce[n].sagas_pending = {}, Unfinished(n) = {},
         NEW s \in Saga, Live(s)
  PROVE  saga[s].sec # n
<1>1. \A m \in Nexus : s \in creating[m] => saga[s].sec = m /\ s \in quiesce[m].sagas_pending
  BY Zenon DEF Inv, SagaInv, TableInv, PendingInv
<1>2. IsCandidate(s) => saga[s].sec # n
  BY Zenon DEF Unfinished
<1> QED BY <1>1, <1>2, Zenon DEF Live

LEMMA OwnsNone ==
  DrainedInv => DrainedOwnsNone
<1> SUFFICES ASSUME DrainedInv, NEW n \in Nexus, NEW s \in Saga,
                    IsFullyDrained(quiesce[n]), Live(s)
             PROVE  saga[s].sec # n
  BY Zenon DEF DrainedOwnsNone
<1>1. Unfinished(n) = {}
  BY DrainedFact, Zenon
<1>2. quiesce[n].sagas_pending = {} /\ Inv
  BY Zenon DEF IsFullyDrained, DrainedInv
<1> QED BY <1>1, <1>2, NothingOwned, Zenon

LEMMA OwnsNoneNext ==
  DrainedInv' => DrainedOwnsNone'
BY OwnsNone, PTL

LEMMA EndPassHandle ==
  ASSUME TypeOK, NEW n \in Nexus, EndPass(n)
  PROVE  /\ \A m \in Nexus : m # n => quiesce'[m] = quiesce[m]
         /\ Handled(quiesce[n], quiesce'[n], Sources(quiesce[n]))
<1>1. quiesce[n] \in QuiesceStatus(Saga)
  BY Zenon DEF TypeOK
<1>2. quiesce'[n] = RecoveryDone(quiesce[n], TRUE)
  BY Zenon DEF TypeOK, EndPass
<1>3. \A m \in Nexus : m # n => quiesce'[m] = quiesce[m]
  BY Zenon DEF TypeOK, EndPass
<1>4. Handled(quiesce[n], RecoveryDone(quiesce[n], TRUE), Sources(quiesce[n]))
  BY <1>1, HandledRecovery, Zenon
<1> QED BY <1>2, <1>3, <1>4, Zenon

(* The steps of the saga machinery never change whether sagas may be        *)
(* created.                                                                 *)
LEMMA SagaStepHandle ==
  ASSUME TypeOK, NEW n \in Nexus, SagaStep(n)
  PROVE  /\ \A m \in Nexus : m # n => quiesce'[m] = quiesce[m]
         /\ Handled(quiesce[n], quiesce'[n], Sources(quiesce[n]))
<1> DEFINE P == /\ \A m \in Nexus : m # n => quiesce'[m] = quiesce[m]
                /\ Handled(quiesce[n], quiesce'[n], Sources(quiesce[n]))
<1>1. quiesce[n] \in QuiesceStatus(Saga)
  BY Zenon DEF TypeOK
<1>2. ASSUME UNCHANGED quiesce PROVE P
  BY <1>2, HandledSame, Zenon
<1>3. ASSUME NEW p, quiesce' = [quiesce EXCEPT ![n] = p],
             Handled(quiesce[n], p, Sources(quiesce[n]))
      PROVE  P
  <2>1. quiesce'[n] = p /\ \A m \in Nexus : m # n => quiesce'[m] = quiesce[m]
    BY <1>3, Zenon DEF TypeOK
  <2> QED BY <1>3, <2>1, Zenon
<1>4. ASSUME NEW s \in Saga,
             Prepare(n, s) \/ CreateFails(n, s) \/ Complete(n, s) \/ Resume(n, s)
      PROVE  P
  <2>1. /\ Handled(quiesce[n], SagaCreate(quiesce[n], s), Sources(quiesce[n]))
        /\ Handled(quiesce[n], RecordSagaRecovery(quiesce[n], s), Sources(quiesce[n]))
        /\ Handled(quiesce[n], SagaCompletion(quiesce[n], s), Sources(quiesce[n]))
    BY <1>1, HandledSagas, Zenon
  <2>2. \/ quiesce' = [quiesce EXCEPT ![n] = SagaCreate(quiesce[n], s)]
        \/ quiesce' = [quiesce EXCEPT ![n] = RecordSagaRecovery(quiesce[n], s)]
        \/ quiesce' = [quiesce EXCEPT ![n] = SagaCompletion(quiesce[n], s)]
    BY <1>4, Zenon DEF Prepare, CreateFails, Complete, Resume
  <2> QED BY <1>3, <2>1, <2>2, Zenon
<1>5. CASE StartPass(n)
  <2>1. Handled(quiesce[n], RecoveryStart(quiesce[n]), Sources(quiesce[n]))
    BY <1>1, HandledRecovery, Zenon
  <2>2. quiesce' = [quiesce EXCEPT ![n] = RecoveryStart(quiesce[n])]
    BY <1>5, Zenon DEF StartPass
  <2> QED BY <1>3, <2>1, <2>2, Zenon
<1>6. CASE ListFails(n)
  <2>1. Handled(quiesce[n], RecoveryDone(quiesce[n], FALSE), Sources(quiesce[n]))
    BY <1>1, HandledRecovery, Zenon
  <2>2. quiesce' = [quiesce EXCEPT ![n] = RecoveryDone(quiesce[n], FALSE)]
    BY <1>6, Zenon DEF ListFails
  <2> QED BY <1>3, <2>1, <2>2, Zenon
<1>7. ASSUME NEW s \in Saga,
             Insert(n, s) \/ CreateOk(n, s) \/ RecordDone(n, s) \/ ResumeFails(n, s)
      PROVE  P
  <2>1. UNCHANGED quiesce
    BY <1>7, Zenon DEF Insert, CreateOk, RecordDone, ResumeFails
  <2> QED BY <1>2, <2>1, Zenon
<1>8. ASSUME ListBatch(n) \/ MakePlan(n) PROVE P
  <2>1. UNCHANGED quiesce
    BY <1>8, Zenon DEF ListBatch, MakePlan
  <2> QED BY <1>2, <2>1, Zenon
<1>9. ASSUME NEW s \in Saga, Abandon(n, s) PROVE P
  <2>1. EndPass(n) \/ UNCHANGED quiesce
    BY <1>9, Zenon DEF Abandon
  <2> QED BY <1>2, <2>1, EndPassHandle, Zenon
<1>10. CASE FinishExecution(n)
  <2>1. EndPass(n) \/ UNCHANGED quiesce
    BY <1>10, Zenon DEF FinishExecution
  <2> QED BY <1>2, <2>1, EndPassHandle, Zenon
<1> QED BY <1>4, <1>5, <1>6, <1>7, <1>8, <1>9, <1>10, Zenon DEF SagaStep

(* What a step of process n does to a row: nothing that makes the saga live *)
(* again, or it creates the saga.                                           *)
RowStep(n, s) ==
  \/ /\ saga'[s].sec = saga[s].sec
     /\ saga[s].state = "Unborn" => saga'[s].state = "Unborn"
     /\ Live(s)' => Live(s)
     /\ IsCandidate(s)' => IsCandidate(s) \/ saga[s].sec = n
  \/ /\ quiesce[n].new_sagas_allowed = "Allowed"
     /\ saga'[s].sec = n /\ saga'[s].state = "NoRow"

LEMMA SagaStepRows ==
  ASSUME TypeOK, NEW n \in Nexus, SagaInv(n), SagaStep(n)
  PROVE  \A x \in Saga : RowStep(n, x)
<1>1. ASSUME NEW s \in Saga, saga[s].state # "Unborn", saga'[s].sec = saga[s].sec,
             \A x \in Saga : x # s => saga'[x] = saga[x], UNCHANGED creating,
             Live(s)' => Live(s), IsCandidate(s)' => IsCandidate(s) \/ saga[s].sec = n
      PROVE  \A x \in Saga : RowStep(n, x)
  BY <1>1, Zenon DEF RowStep, Live, IsCandidate
<1>2. ASSUME UNCHANGED saga, \A m \in Nexus : creating'[m] \subseteq creating[m]
      PROVE  \A x \in Saga : RowStep(n, x)
  BY <1>2, Zenon DEF RowStep, Live, IsCandidate
<1>3. ASSUME NEW s \in Saga, Prepare(n, s) PROVE \A x \in Saga : RowStep(n, x)
  <2>1. /\ saga'[s].sec = n /\ saga'[s].state = "NoRow"
        /\ \A x \in Saga : x # s => saga'[x] = saga[x]
        /\ quiesce[n].new_sagas_allowed = "Allowed"
    BY <1>3, Zenon DEF TypeOK, Prepare
  <2>2. \A x \in Saga, m \in Nexus : x # s /\ x \in creating'[m] => x \in creating[m]
    BY <1>3, Zenon DEF TypeOK, Prepare
  <2> QED BY <2>1, <2>2, Zenon DEF RowStep, Live, IsCandidate
<1>4. ASSUME NEW s \in Saga, Insert(n, s) PROVE \A x \in Saga : RowStep(n, x)
  <2>1. /\ saga[s].state = "NoRow" /\ saga[s].sec = n /\ s \in creating[n]
        /\ UNCHANGED creating
    BY <1>4, Zenon DEF Insert, SagaInv, TableInv
  <2>2. saga'[s].sec = saga[s].sec /\ \A x \in Saga : x # s => saga'[x] = saga[x]
    BY <1>4 DEF TypeOK, Insert
  <2>3. saga[s].state # "Unborn" /\ Live(s)
    BY <2>1, Zenon DEF Live
  <2> QED BY <1>1, <2>1, <2>2, <2>3, Zenon
<1>5. ASSUME NEW s \in Saga, RecordDone(n, s) PROVE \A x \in Saga : RowStep(n, x)
  <2>1. /\ saga[s].state = "Running" /\ saga[s].sec = n /\ UNCHANGED creating
    BY <1>5, Zenon DEF RecordDone, SagaInv, TableInv
  <2>2. saga'[s].sec = saga[s].sec /\ \A x \in Saga : x # s => saga'[x] = saga[x]
    BY <1>5 DEF TypeOK, RecordDone
  <2>3. saga[s].state # "Unborn" /\ Live(s)
    BY <2>1, Zenon DEF Live, IsCandidate
  <2> QED BY <1>1, <2>1, <2>2, <2>3, Zenon
<1>6. ASSUME NEW s \in Saga, CreateOk(n, s) \/ CreateFails(n, s)
      PROVE  \A x \in Saga : RowStep(n, x)
  <2>1. UNCHANGED saga /\ \A m \in Nexus : creating'[m] \subseteq creating[m]
    BY <1>6, ZenonT(30) DEF TypeOK, CreateOk, CreateFails
  <2> QED BY <1>2, <2>1, Zenon
<1>7. ASSUME NEW s \in Saga, Complete(n, s) \/ Resume(n, s) \/ ResumeFails(n, s)
      PROVE  \A x \in Saga : RowStep(n, x)
  BY <1>2, <1>7, Zenon DEF Complete, Resume, ResumeFails
<1>8. ASSUME StartPass(n) \/ ListBatch(n) \/ ListFails(n) \/ MakePlan(n)
             \/ FinishExecution(n)
      PROVE  \A x \in Saga : RowStep(n, x)
  BY <1>2, <1>8, Zenon DEF StartPass, ListBatch, ListFails, MakePlan, FinishExecution
<1>9. ASSUME NEW s \in Saga, Abandon(n, s) PROVE \A x \in Saga : RowStep(n, x)
  <2>1. /\ UNCHANGED creating /\ saga'[s].sec = saga[s].sec
        /\ saga'[s].state \in {saga[s].state, "Abandoned"}
        /\ \A x \in Saga : x # s => saga'[x] = saga[x]
    BY <1>9 DEF TypeOK, Abandon
  <2>2. saga[s].state # "Unborn"
    BY <1>9, Zenon DEF SagaInv, PassInv, Abandon, HasRow
  <2> QED BY <2>1, <2>2, Zenon DEF RowStep, Live, IsCandidate
<1> QED BY <1>3, <1>4, <1>5, <1>6, <1>7, <1>8, <1>9, Zenon DEF SagaStep

LEMMA SagaStepAlive ==
  ASSUME NEW n \in Nexus, SagaStep(n)
  PROVE  alive' = alive
<1>1. ASSUME NEW s \in Saga,
             \/ Prepare(n, s) \/ Insert(n, s) \/ CreateOk(n, s) \/ CreateFails(n, s)
             \/ RecordDone(n, s) \/ Complete(n, s) \/ Resume(n, s) \/ ResumeFails(n, s)
             \/ Abandon(n, s)
      PROVE  alive' = alive
  BY <1>1, Zenon DEF Prepare, Insert, CreateOk, CreateFails, RecordDone, Complete,
                     Resume, ResumeFails, Abandon
<1>2. ASSUME StartPass(n) \/ ListBatch(n) \/ ListFails(n) \/ MakePlan(n)
             \/ FinishExecution(n)
      PROVE  alive' = alive
  BY <1>2, Zenon DEF StartPass, ListBatch, ListFails, MakePlan, FinishExecution
<1> QED BY <1>1, <1>2, Zenon DEF SagaStep

(* A new saga is owned by a process that is not drained as of anything.     *)
LEMMA NewSagaUndrained ==
  ASSUME Inv, WholeInv, NEW n \in alive, ClosingInv(n), NEW k \in 1 .. Target,
         quiesce[n].new_sagas_allowed = "Allowed"
  PROVE  /\ n \in blueprints[k].inService
         /\ access[n].drained # k /\ quiesce[n].drained_blueprint # k
<1>1. n \in Nexus /\ k # NoBlueprint
  <2>1. k # NoBlueprint
    BY DEF NoBlueprint, Target
  <2> QED BY <2>1, Zenon DEF Inv, QuiesceTypeOK, TypeOK
<1>2. n \in blueprints[k].inService
  BY <1>1, ReadyIsGone, Zenon DEF Inv, WholeInv
<1>3. access[n].drained = NoBlueprint /\ quiesce[n].drained_blueprint = NoBlueprint
  BY Zenon DEF ClosingInv, Closing
<1> QED BY <1>1, <1>2, <1>3, Zenon

LEMMA SagaActivityClosed ==
  ASSUME HandoffInv, DrainedInv', NEW n \in Nexus, SagaActivity(n)
  PROVE  ClosedInv'
<1>1. /\ Inv /\ TypeOK /\ BlueprintInv /\ ClosedInv /\ QuiesceTypeOK
      /\ \A m \in Nexus : SagaInv(m) /\ ClearInv(m) /\ ClosingInv(m) /\ CheckInv(m)
      /\ OwnerInv /\ WholeInv /\ UndrainedInv /\ GivenUpInv
  BY Zenon DEF HandoffInv, DrainedInv, Inv, QuiesceTypeOK, ClosedInv
<1>2. /\ n \in alive /\ SagaStep(n)
      /\ UNCHANGED <<blueprints, loaded, exec, phase, check, recorded, access>>
  BY Zenon DEF SagaActivity, HasDatabase, processVars
<1>3. /\ \A m \in Nexus : m # n => quiesce'[m] = quiesce[m]
      /\ Handled(quiesce[n], quiesce'[n], Sources(quiesce[n]))
  BY <1>1, <1>2, SagaStepHandle, Zenon
<1>4. \A x \in Saga : RowStep(n, x)
  BY <1>1, <1>2, SagaStepRows, Zenon
<1>5. DrainedOwnsNone'
  BY OwnsNoneNext, Zenon
<1>6. RowsKept
  <2> SUFFICES ASSUME NEW s \in Saga, IsCandidate(s)'
               PROVE  \/ IsCandidate(s) /\ saga'[s].sec = saga[s].sec
                      \/ saga'[s].sec \in alive
    BY Zenon DEF RowsKept
  <2>1. saga'[s].state = "Running"
    BY Zenon DEF IsCandidate
  <2> QED BY <1>2, <1>4, <2>1, Zenon DEF RowStep
<1>7. \A m \in Nexus : ClearInv(m)'
  <2> SUFFICES ASSUME NEW m \in Nexus PROVE Settled(m)' \subseteq Settled(m)
    BY <1>1, <1>2, <1>6, ClearInvKept, Zenon
  <2>1. Sources(quiesce'[m]) \subseteq Sources(quiesce[m])
    BY <1>3, Zenon DEF Handled
  <2> QED BY <1>2, <2>1, Zenon DEF Settled
<1>8. \A m \in Nexus : ClosingInv(m)' /\ (Closing(m) => Closing(m)')
  <2> SUFFICES ASSUME NEW m \in Nexus PROVE ClosingInv(m)' /\ (Closing(m) => Closing(m)')
    BY Zenon
  <2>1. /\ quiesce'[m].new_sagas_allowed = quiesce[m].new_sagas_allowed
        /\ Latched(quiesce[m], quiesce'[m])
    BY <1>3, HandledSame, Zenon DEF Handled
  <2>2. /\ loaded'[m] = loaded[m] /\ phase'[m] = phase[m]
        /\ access'[m].drained \in {access[m].drained, NoBlueprint}
    BY <1>2, Zenon
  <2> QED BY <1>1, <1>2, <2>1, <2>2, ClosingKept, Zenon
<1>9. OwnerInv'
  BY <1>1, <1>4, Zenon DEF OwnerInv, RowStep
<1>10. UndrainedInv'
  <2> SUFFICES ASSUME NEW s \in Saga, NEW k \in 1 .. Target, Live(s)'
               PROVE  Undrained(s, k)'
    BY <1>2, Zenon DEF UndrainedInv, Target
  <2>1. ASSUME quiesce[n].new_sagas_allowed = "Allowed", saga'[s].sec = n
        PROVE  Undrained(s, k)'
    <3>1. /\ n \in blueprints[k].inService
          /\ access[n].drained # k /\ quiesce[n].drained_blueprint # k
      BY <1>1, <1>2, <2>1, NewSagaUndrained, Zenon
    <3>2. quiesce'[n].drained_blueprint = quiesce[n].drained_blueprint
      BY <1>3, <2>1, Zenon DEF Handled, Latched, IsFullyDrained
    <3> QED BY <1>2, <2>1, <3>1, <3>2, Zenon DEF Undrained
  <2>2. ASSUME saga'[s].sec = saga[s].sec, Live(s) PROVE Undrained(s, k)'
    <3>1. saga[s].sec \in Nexus
      BY <1>1, <2>2, Zenon DEF OwnerInv, Live, IsCandidate
    <3>2. DrainedKept(saga[s].sec)
      <4>1. CASE saga[s].sec # n
        BY <1>3, <3>1, <4>1, Zenon DEF DrainedKept
      <4>2. CASE saga[s].sec = n
        <5>1. ~ IsFullyDrained(quiesce'[n])
          BY <1>5, <2>2, <4>2, Zenon DEF DrainedOwnsNone
        <5> QED BY <1>3, <4>2, <5>1, Zenon DEF DrainedKept, Handled, Latched
      <4> QED BY <4>1, <4>2, Zenon
    <3>3. AccessKept
      BY <1>2, Zenon DEF AccessKept
    <3> QED BY <1>1, <1>2, <2>2, <3>1, <3>2, <3>3, UndrainedKept, Zenon DEF UndrainedInv
  <2> QED BY <1>4, <2>1, <2>2, Zenon DEF RowStep
<1>11. GivenUpInv'
  <2>1. GivenUp' => GivenUp
    BY <1>2, Zenon DEF GivenUp
  <2>2. ASSUME GivenUp, NEW s \in Saga, Live(s)' PROVE Live(s)
    <3>1. quiesce[n].new_sagas_allowed # "Allowed"
      BY <1>1, <2>2, Zenon DEF GivenUpInv, Closing
    <3> QED BY <1>4, <2>2, <3>1, Zenon DEF RowStep
  <2> QED BY <1>1, <1>8, <2>1, <2>2, GivenUpKept, Zenon
<1>12. WholeInv' /\ \A m \in Nexus : CheckInv(m)'
  <2>1. alive' = alive
    BY <1>2, SagaStepAlive, Zenon
  <2> QED BY <1>1, <1>2, <2>1, Zenon DEF WholeInv, CheckInv, Target
<1> QED BY <1>7, <1>8, <1>9, <1>10, <1>11, <1>12, Zenon DEF ClosedInv

-----------------------------------------------------------------------------
(* Blueprint execution.                                                     *)

LEMMA HandoffFacts ==
  ASSUME HandoffInv
  PROVE  /\ Inv /\ TypeOK /\ BlueprintInv /\ ClosedInv /\ QuiesceTypeOK
         /\ \A m \in Nexus : SagaInv(m) /\ ClearInv(m) /\ ClosingInv(m) /\ CheckInv(m)
         /\ OwnerInv /\ WholeInv /\ UndrainedInv /\ GivenUpInv
BY Zenon DEF HandoffInv, DrainedInv, Inv, QuiesceTypeOK, ClosedInv

LEMMA StartExecutionClosed ==
  ASSUME ~ Transient, HandoffInv, NEW n \in Nexus, StartExecution(n)
  PROVE  ClosedInv'
<1> DEFINE b == blueprints[loaded[n]].quiescing
           p == ReassignmentStart(SetQuiescing(quiesce[n], b))
<1>1. /\ Inv /\ TypeOK /\ BlueprintInv /\ ClosedInv /\ QuiesceTypeOK
      /\ \A m \in Nexus : SagaInv(m) /\ ClearInv(m) /\ ClosingInv(m) /\ CheckInv(m)
      /\ OwnerInv /\ WholeInv /\ UndrainedInv /\ GivenUpInv
  BY HandoffFacts, Zenon
<1>2. loaded[n] \in 1 .. Target /\ loaded[n] # NoBlueprint
  <2>1. Target \in Nat
    BY <1>1 DEF QuiesceTypeOK, Target
  <2>2. loaded[n] \in 0 .. Target /\ loaded[n] # 0
    BY <1>1, Zenon DEF StartExecution, BlueprintInv, NoBlueprint
  <2> QED BY <2>1, <2>2 DEF NoBlueprint
<1>3. b \in BOOLEAN /\ quiesce[n] \in QuiesceStatus(Saga)
  BY <1>1, <1>2, BlueprintType, Zenon DEF TypeOK
<1> HIDE DEF b
<1>4. /\ p.new_sagas_allowed = IF b \/ quiesce[n].new_sagas_allowed = "DisallowedQuiesce"
                                 THEN "DisallowedQuiesce" ELSE "Allowed"
      /\ Sources(p) \subseteq Sources(quiesce[n])
      /\ \/ p.drained_blueprint = quiesce[n].drained_blueprint
         \/ /\ p.new_sagas_allowed = "DisallowedQuiesce"
            /\ quiesce[n].sagas_pending = {} /\ IsCaughtUp(quiesce[n])
  BY <1>3, HandledStart
<1>5. /\ quiesce'[n] = p /\ \A m \in Nexus : m # n => quiesce'[m] = quiesce[m]
      /\ UNCHANGED <<saga, alive, creating, blueprints, loaded, check, recorded>>
      /\ n \in alive /\ exec[n].pc = "idle" /\ exec'[n].pc = "reassigning"
      /\ \A m \in Nexus : m # n => exec'[m] = exec[m]
      /\ phase'[n] = NextPhase(phase[n], b)
      /\ \A m \in Nexus : m # n => phase'[m] = phase[m]
  BY <1>1, Zenon DEF StartExecution, HasDatabase, TypeOK, QuiesceTypeOK, b
<1>6. ASSUME NEW m \in Nexus
      PROVE  \/ access'[m] = access[m]
             \/ access'[m].state = "Deleted" /\ access'[m].drained = NoBlueprint
  <2> DEFINE r == [state |-> "Deleted", drained |-> NoBlueprint]
  <2>1. r.state = "Deleted" /\ r.drained = NoBlueprint
    BY Zenon
  <2>2. access'[m] = access[m] \/ access'[m] = r
    BY Zenon DEF StartExecution, CleanUpExpungedNexus
  <2> HIDE DEF r
  <2> QED BY <2>1, <2>2, Zenon
<1>7. AccessKept /\ \A m \in Nexus : access'[m].state = "Quiesced" => access[m].state = "Quiesced"
  BY <1>6, Zenon DEF AccessKept
<1> HIDE DEF p
<1>8. RowsKept /\ \A s \in Saga : Live(s)' => Live(s)
  BY <1>5, Zenon DEF RowsKept, Live, IsCandidate
<1>9. ASSUME NEW m \in Nexus PROVE ClearInv(m)'
  <2>1. Sources(quiesce'[m]) \subseteq Sources(quiesce[m])
    BY <1>4, <1>5, Zenon
  <2>2. access'[m].drained \in {access[m].drained, NoBlueprint} /\ NoBlueprint \in Sources(quiesce[m])
    BY <1>7, Zenon DEF AccessKept, Sources
  <2>3. exec'[m].pc = "reassigned" => exec'[m] = exec[m]
    BY <1>5, Zenon
  <2>4. Settled(m)' \subseteq Settled(m)
    BY <2>1, <2>2, <2>3, Zenon DEF Settled
  <2> QED BY <1>1, <1>5, <1>8, <2>4, ClearInvKept, Zenon
<1>10. ASSUME NEW m \in Nexus PROVE ClosingInv(m)' /\ (Closing(m) => Closing(m)')
  <2>1. CASE m # n
    <3>1. /\ quiesce'[m].new_sagas_allowed = quiesce[m].new_sagas_allowed
          /\ Latched(quiesce[m], quiesce'[m])
      BY <1>5, <2>1, HandledSame, Zenon
    <3>2. /\ loaded'[m] = loaded[m] /\ phase'[m] = phase[m]
          /\ access'[m].drained \in {access[m].drained, NoBlueprint}
      BY <1>5, <1>7, <2>1, Zenon DEF AccessKept
    <3> QED BY <1>1, <1>5, <3>1, <3>2, ClosingKept, Zenon
  <2>2. CASE m = n
    <3>1. Closing(n) => Closing(n)'
      BY <1>2, <1>4, <1>5, Zenon DEF Closing, Target, b
    <3>3. quiesce'[n].new_sagas_allowed = "DisallowedQuiesce" =>
            loaded'[n] # NoBlueprint /\ blueprints'[loaded'[n]].quiescing
      BY <1>1, <1>2, <1>4, <1>5, Zenon DEF ClosingInv, b
    <3>4. quiesce'[n].drained_blueprint # NoBlueprint =>
            quiesce'[n].new_sagas_allowed = "DisallowedQuiesce"
      BY <1>1, <1>4, <1>5, Zenon DEF ClosingInv
    <3>5. access'[n].drained # NoBlueprint => Closing(n)'
      BY <1>1, <1>7, <3>1, Zenon DEF ClosingInv, AccessKept
    <3> QED BY <1>2, <1>5, <2>2, <3>1, <3>3, <3>4, <3>5, Zenon DEF ClosingInv
  <2> QED BY <2>1, <2>2, Zenon
<1>11. UndrainedInv'
  <2>1. ASSUME NEW s \in Saga, Live(s) PROVE DrainedKept(saga[s].sec)
    <3>1. CASE saga[s].sec # n
      <4>1. saga[s].sec \in Nexus
        BY <1>1, <2>1, Zenon DEF OwnerInv, Live, IsCandidate
      <4> QED BY <1>5, <3>1, <4>1, Zenon DEF DrainedKept
    <3>2. CASE saga[s].sec = n
      <4>1. ASSUME quiesce[n].sagas_pending = {}, IsCaughtUp(quiesce[n]) PROVE FALSE
        <5>1. CaughtUpInv(n) /\ ~ Arriving(n)
          BY <1>5, Zenon DEF HandoffInv, DrainedInv, DrainInv, Arriving
        <5>2. Unfinished(n) = {}
          BY <4>1, <5>1, Zenon DEF CaughtUpInv, Waiting
        <5> QED BY <1>1, <2>1, <3>2, <4>1, <5>2, NothingOwned, Zenon
      <4> QED BY <1>4, <1>5, <3>2, <4>1, Zenon DEF DrainedKept
    <3> QED BY <3>1, <3>2, Zenon
  <2> QED BY <1>1, <1>5, <1>7, <1>8, <2>1, UndrainedInvKept, Zenon
<1>12. GivenUpInv'
  <2>1. phase'[n] \in {"DrainingDb", "Quiesced"} => phase[n] \in {"DrainingDb", "Quiesced"}
    BY <1>5, Zenon DEF NextPhase
  <2>2. GivenUp' => GivenUp
    BY <1>5, <1>7, <2>1, Zenon DEF GivenUp
  <2> QED BY <1>1, <1>8, <1>10, <2>2, GivenUpKept, Zenon
<1>13. OwnerInv' /\ WholeInv' /\ \A m \in Nexus : CheckInv(m)'
  BY <1>1, <1>5, Zenon DEF OwnerInv, WholeInv, CheckInv, Target
<1> QED BY <1>9, <1>10, <1>11, <1>12, <1>13, Zenon DEF ClosedInv

LEMMA ReassignSagasClosed ==
  ASSUME HandoffInv, NEW n \in Nexus, ReassignSagas(n)
  PROVE  ClosedInv'
<1> DEFINE bp == exec[n].bp
           from == blueprints[bp].ready
<1>1. /\ Inv /\ TypeOK /\ BlueprintInv /\ ClosedInv /\ QuiesceTypeOK
      /\ \A m \in Nexus : SagaInv(m) /\ ClearInv(m) /\ ClosingInv(m) /\ CheckInv(m)
      /\ OwnerInv /\ WholeInv /\ UndrainedInv /\ GivenUpInv
  BY HandoffFacts, Zenon
<1>2. /\ bp \in 1 .. Target /\ from \cap alive = {} /\ from \subseteq Nexus
      /\ exec'[n].pc = "reassigned" /\ exec'[n].bp = bp
      /\ \A m \in Nexus : m # n => exec'[m] = exec[m]
      /\ \A s \in Saga :
           /\ saga'[s].state = saga[s].state
           /\ s \in Reassignable(from) => saga'[s].sec = n
           /\ s \notin Reassignable(from) => saga'[s] = saga[s]
  BY <1>1, ReassignedRows, Zenon
<1>3. /\ n \in alive
      /\ UNCHANGED <<alive, quiesce, creating, blueprints, loaded, phase, check,
                     recorded, access>>
  BY Zenon DEF ReassignSagas, HasDatabase
<1>4. from \subseteq blueprints[Target].ready
  BY <1>1, <1>2, ReadyIsGone, Zenon
<1> HIDE DEF from, bp
<1>5. \A s \in Saga : s \in Reassignable(from) => saga[s].sec \in from
  BY Zenon DEF Reassignable
<1>6. \A s \in Saga : /\ IsCandidate(s)' = IsCandidate(s)
                      /\ Live(s)' = Live(s)
  BY <1>2, <1>3, Zenon DEF IsCandidate, Live
<1>7. RowsKept
  BY <1>2, <1>3, <1>6, Zenon DEF RowsKept
<1>8. ASSUME NEW k, k = bp PROVE Clear(k)'
  <2>1. \A s \in Saga : IsCandidate(s)' => saga'[s].sec \notin from
    <3> SUFFICES ASSUME NEW s \in Saga, IsCandidate(s)' PROVE saga'[s].sec \notin from
      BY Zenon
    <3>1. CASE s \in Reassignable(from)
      BY <1>2, <1>3, <3>1, Zenon
    <3>2. CASE s \notin Reassignable(from)
      BY <1>2, <1>6, <3>2, Zenon DEF Reassignable, IsCandidate
    <3> QED BY <3>1, <3>2, Zenon
  <2>2. from = blueprints'[k].ready /\ k \in 1 .. Len(blueprints')
    BY <1>2, <1>3, <1>8, Zenon DEF from, Target
  <2> QED BY <2>1, <2>2, Zenon DEF Clear, Target
<1>9. ASSUME NEW m \in Nexus PROVE ClearInv(m)'
  <2>1. CASE m # n
    <3>1. Settled(m)' \subseteq Settled(m)
      BY <1>2, <1>3, <2>1, Zenon DEF Settled
    <3> QED BY <1>1, <1>3, <1>7, <3>1, ClearInvKept, Zenon
  <2>2. CASE m = n
    <3> SUFFICES ASSUME NEW k \in Settled(n)' PROVE Clear(k)'
      BY <2>2, Zenon DEF ClearInv
    <3>1. k = bp \/ k \in Settled(n)
      BY <1>2, <1>3, Zenon DEF Settled
    <3>2. k \in Settled(n) => Clear(k)
      BY <1>1, Zenon DEF ClearInv
    <3> QED BY <1>1, <1>3, <1>7, <1>8, <3>1, <3>2, ClearKept, Zenon
  <2> QED BY <2>1, <2>2, Zenon
<1>10. UndrainedInv'
  <2> SUFFICES ASSUME NEW s \in Saga, NEW k \in 1 .. Target, Live(s)
               PROVE  Undrained(s, k)'
    BY <1>3, <1>6, Zenon DEF UndrainedInv, Target
  <2>1. Undrained(s, k)
    BY <1>1, Zenon DEF UndrainedInv
  <2>2. CASE s \notin Reassignable(from)
    BY <1>2, <1>3, <2>1, <2>2, Zenon DEF Undrained, Target
  <2>3. CASE s \in Reassignable(from)
    <3> DEFINE o == saga[s].sec
    <3>1. o \in blueprints[Target].ready /\ saga'[s].sec = n /\ IsCandidate(s)
      <4>1. saga[s].state # "NoRow"
        BY <2>3, Zenon DEF Reassignable
      <4> QED BY <1>2, <1>4, <1>5, <2>3, <4>1, Zenon DEF Live
    <3>2. ASSUME NEW e \in blueprints[k].inService \cap blueprints[Target].ready,
                 access[e].state = "Deleted" \/ access[e].drained # k
          PROVE  Undrained(s, k)'
      BY <1>3, <3>2, Zenon DEF Undrained, Target
    <3>3. CASE o \in blueprints[k].inService /\ access[o].drained # k
      BY <3>1, <3>2, <3>3, Zenon
    <3>4. CASE o \in blueprints[k].ready
      <4>1. k # NoBlueprint /\ ~ Clear(k)
        <5>1. k # NoBlueprint
          BY DEF NoBlueprint, Target
        <5> QED BY <3>1, <3>4, <5>1, Zenon DEF Clear
      <4>2. access[n].drained # k /\ quiesce[n].drained_blueprint # k
        BY <1>1, <4>1, Zenon DEF ClearInv, Settled, Sources
      <4>3. n \in blueprints[k].inService
        BY <1>1, <1>3, ReadyIsGone, Zenon DEF WholeInv
      <4> QED BY <1>3, <3>1, <4>2, <4>3, Zenon DEF Undrained
    <3> QED BY <2>1, <3>2, <3>3, <3>4, Zenon DEF Undrained
  <2> QED BY <2>2, <2>3, Zenon
<1>11. GivenUpInv' /\ \A m \in Nexus : ClosingInv(m)'
  <2>1. /\ GivenUp' = GivenUp
        /\ \A m \in Nexus : Closing(m)' = Closing(m)
    BY <1>3, Zenon DEF GivenUp, Closing, Target
  <2> QED BY <1>1, <1>3, <1>6, <2>1, Zenon DEF GivenUpInv, ClosingInv
<1>12. OwnerInv' /\ WholeInv' /\ \A m \in Nexus : CheckInv(m)'
  BY <1>1, <1>2, <1>3, Zenon DEF OwnerInv, WholeInv, CheckInv, Target
<1> QED BY <1>9, <1>10, <1>11, <1>12, Zenon DEF ClosedInv

(* The reassignment ends: its blueprint is settled, and the process may now *)
(* be drained.                                                              *)
LEMMA ReassignmentEndsClosed ==
  ASSUME HandoffInv, DrainedInv', NEW n \in Nexus,
         ReassignmentDone(n) \/ ReassignmentFails(n)
  PROVE  ClosedInv'
<1>1. /\ Inv /\ TypeOK /\ BlueprintInv /\ ClosedInv /\ QuiesceTypeOK
      /\ \A m \in Nexus : SagaInv(m) /\ ClearInv(m) /\ ClosingInv(m) /\ CheckInv(m)
      /\ OwnerInv /\ WholeInv /\ UndrainedInv /\ GivenUpInv
  BY HandoffFacts, Zenon
<1>2. /\ UNCHANGED <<saga, alive, creating, blueprints, loaded, phase, check, recorded,
                     access>>
      /\ exec' = [exec EXCEPT ![n] = NoExec]
      /\ \A m \in Nexus : m # n => quiesce'[m] = quiesce[m]
  BY <1>1, Zenon DEF ReassignmentDone, ReassignmentFails, TypeOK
<1>3. exec'[n].pc = "idle" /\ \A m \in Nexus : m # n => exec'[m] = exec[m]
  <2>1. NoExec.pc = "idle"
    BY Zenon DEF NoExec
  <2> QED BY <1>1, <1>2, <2>1, Zenon DEF QuiesceTypeOK
<1>4. /\ Handled(quiesce[n], quiesce'[n], Sources(quiesce[n]) \cup {exec[n].bp})
      /\ \/ exec[n].pc = "reassigned"
         \/ Handled(quiesce[n], quiesce'[n], Sources(quiesce[n]))
  <2>1. quiesce[n] \in QuiesceStatus(Saga) /\ exec[n].bp \in Nat /\ exec[n].any \in BOOLEAN
    BY <1>1, Zenon DEF TypeOK, QuiesceTypeOK
  <2>2. CASE ReassignmentDone(n)
    <3>1. /\ exec[n].pc = "reassigned"
          /\ quiesce'[n] = ReassignedAllAsOf(quiesce[n], exec[n].bp, exec[n].any)
      BY <1>1, <2>2, Zenon DEF ReassignmentDone, TypeOK
    <3>2. Handled(quiesce[n], ReassignedAllAsOf(quiesce[n], exec[n].bp, exec[n].any),
                  Sources(quiesce[n]) \cup {exec[n].bp})
      BY <2>1, HandledReassignment, Zenon
    <3> QED BY <3>1, <3>2, Zenon
  <2>3. CASE ReassignmentFails(n)
    <3>1. quiesce'[n] = ReassignedIndeterminate(quiesce[n])
      BY <1>1, <2>3, Zenon DEF ReassignmentFails, TypeOK
    <3>2. Handled(quiesce[n], ReassignedIndeterminate(quiesce[n]), Sources(quiesce[n]))
      BY <2>1, HandledReassignment, Zenon
    <3> QED BY <3>1, <3>2, Zenon DEF Handled
  <2> QED BY <2>2, <2>3, Zenon
<1>5. RowsKept /\ \A s \in Saga : Live(s)' = Live(s)
  BY <1>2, Zenon DEF RowsKept, Live, IsCandidate
<1>6. ASSUME NEW m \in Nexus PROVE ClearInv(m)'
  <2>1. CASE m # n
    BY <1>1, <1>2, <1>3, <1>5, <2>1, ClearInvKept, Zenon DEF Settled
  <2>2. CASE m = n
    <3>1. Settled(n)' \subseteq Settled(n)
      BY <1>2, <1>3, <1>4, Zenon DEF Settled, Handled
    <3> QED BY <1>1, <1>2, <1>5, <2>2, <3>1, ClearInvKept, Zenon
  <2> QED BY <2>1, <2>2, Zenon
<1>7. ASSUME NEW m \in Nexus PROVE ClosingInv(m)' /\ (Closing(m) => Closing(m)')
  <2>1. /\ quiesce'[m].new_sagas_allowed = quiesce[m].new_sagas_allowed
        /\ Latched(quiesce[m], quiesce'[m])
    BY <1>2, <1>4, HandledSame, Zenon DEF Handled
  <2>2. /\ loaded'[m] = loaded[m] /\ phase'[m] = phase[m]
        /\ access'[m].drained \in {access[m].drained, NoBlueprint}
    BY <1>2, Zenon
  <2> QED BY <1>1, <1>2, <2>1, <2>2, ClosingKept, Zenon
<1>8. UndrainedInv'
  <2>1. ASSUME NEW s \in Saga, Live(s)' PROVE DrainedKept(saga[s].sec)
    <3>1. CASE saga[s].sec # n
      <4>1. saga[s].sec \in Nexus
        BY <1>1, <1>5, <2>1, Zenon DEF OwnerInv, Live, IsCandidate
      <4> QED BY <1>2, <3>1, <4>1, Zenon DEF DrainedKept
    <3>2. CASE saga[s].sec = n
      <4>1. ~ IsFullyDrained(quiesce'[n])
        BY <1>2, <2>1, <3>2, OwnsNoneNext, Zenon DEF DrainedOwnsNone
      <4> QED BY <1>4, <3>2, <4>1, Zenon DEF DrainedKept, Handled, Latched
    <3> QED BY <3>1, <3>2, Zenon
  <2>2. AccessKept
    BY <1>2, Zenon DEF AccessKept
  <2> QED BY <1>1, <1>2, <1>5, <2>1, <2>2, UndrainedInvKept, Zenon
<1>9. GivenUpInv'
  <2>1. GivenUp' => GivenUp
    BY <1>2, Zenon DEF GivenUp
  <2> QED BY <1>1, <1>5, <1>7, <2>1, GivenUpKept, Zenon
<1>10. OwnerInv' /\ WholeInv' /\ \A m \in Nexus : CheckInv(m)'
  BY <1>1, <1>2, Zenon DEF OwnerInv, WholeInv, CheckInv, Target
<1> QED BY <1>6, <1>7, <1>8, <1>9, <1>10, Zenon DEF ClosedInv

-----------------------------------------------------------------------------
(* do_quiesce.                                                              *)

(* Steps that leave the sagas, the handles and the blueprints alone.        *)
LEMMA QuietFacts ==
  ASSUME ClosedInv, UNCHANGED <<saga, creating, quiesce, blueprints, exec>>
  PROVE  /\ OwnerInv' /\ WholeInv'
         /\ \A s \in Saga : Live(s)' = Live(s)
         /\ \A k : Clear(k)' = Clear(k)
         /\ \A s \in Saga, k \in 1 .. Target :
              UNCHANGED access => Undrained(s, k)' = Undrained(s, k)
<1>1. OwnerInv' /\ WholeInv'
  BY Zenon DEF ClosedInv, OwnerInv, WholeInv, Target
<1>2. \A s \in Saga : Live(s)' = Live(s)
  BY Zenon DEF Live, IsCandidate
<1>3. \A k : Clear(k)' = Clear(k)
  BY Zenon DEF Clear, IsCandidate, Target
<1>4. \A s \in Saga, k \in 1 .. Target :
        UNCHANGED access => Undrained(s, k)' = Undrained(s, k)
  BY ZenonT(30) DEF Undrained, Target
<1> QED BY <1>1, <1>2, <1>3, <1>4, Zenon

(* ... and the table as well.                                               *)
LEMMA QuietClosed ==
  ASSUME ClosedInv, UNCHANGED <<saga, creating, quiesce, blueprints, exec, access>>
  PROVE  /\ OwnerInv' /\ WholeInv' /\ UndrainedInv'
         /\ \A m \in Nexus : ClearInv(m)'
         /\ \A s \in Saga : Live(s)' = Live(s)
<1>1. OwnerInv' /\ WholeInv' /\ \A s \in Saga : Live(s)' = Live(s)
  BY QuietFacts, Zenon
<1>2. \A s \in Saga, k \in 1 .. Target : Undrained(s, k)' = Undrained(s, k)
  BY QuietFacts, Zenon
<1>3. UndrainedInv'
  BY <1>1, <1>2, Zenon DEF ClosedInv, UndrainedInv, Target
<1>4. \A k : Clear(k)' = Clear(k)
  BY QuietFacts, Zenon
<1>5. \A m \in Nexus : Settled(m)' = Settled(m)
  BY Zenon DEF Settled
<1>6. \A m \in Nexus : ClearInv(m)'
  BY <1>4, <1>5, Zenon DEF ClosedInv, ClearInv
<1> QED BY <1>1, <1>3, <1>6, Zenon

LEMMA LoadBlueprintClosed ==
  ASSUME HandoffInv, NEW n \in Nexus, LoadBlueprint(n)
  PROVE  ClosedInv'
<1>1. /\ Inv /\ TypeOK /\ BlueprintInv /\ ClosedInv /\ QuiesceTypeOK
      /\ \A m \in Nexus : SagaInv(m) /\ ClearInv(m) /\ ClosingInv(m) /\ CheckInv(m)
      /\ OwnerInv /\ WholeInv /\ UndrainedInv /\ GivenUpInv
  BY HandoffFacts, Zenon
<1>2. /\ UNCHANGED <<saga, alive, creating, quiesce, blueprints, exec, phase, check,
                     recorded, access>>
      /\ n \in alive /\ loaded'[n] = Target
      /\ \A m \in Nexus : m # n => loaded'[m] = loaded[m]
  BY <1>1, Zenon DEF LoadBlueprint, HasDatabase, sagaVars, QuiesceTypeOK
<1>3. Target # NoBlueprint
  BY <1>1 DEF BlueprintInv, NoBlueprint, Target
<1>4. \A k \in 1 .. Target : blueprints[k].quiescing => blueprints[Target].quiescing
  BY <1>1, Zenon DEF BlueprintInv
<1>5. \A m \in Nexus : Closing(m) => Closing(m)'
  BY <1>2, Zenon DEF Closing, Target
<1>6. ASSUME NEW m \in Nexus PROVE ClosingInv(m)'
  <2>1. ASSUME quiesce[m].new_sagas_allowed = "DisallowedQuiesce"
        PROVE  blueprints[Target].quiescing
    <3>1. loaded[m] \in 1 .. Target /\ blueprints[loaded[m]].quiescing
      <4>1. loaded[m] # NoBlueprint /\ blueprints[loaded[m]].quiescing
        BY <1>1, <2>1, Zenon DEF ClosingInv
      <4>2. loaded[m] \in 0 .. Target /\ Target \in Nat
        BY <1>1 DEF BlueprintInv, QuiesceTypeOK, Target
      <4> QED BY <4>1, <4>2 DEF NoBlueprint
    <3> QED BY <1>4, <3>1, Zenon
  <2>2. CASE m = n
    BY <1>1, <1>2, <1>3, <1>5, <2>1, <2>2, Zenon DEF ClosingInv, Target
  <2>3. CASE m # n
    BY <1>1, <1>2, <1>5, <2>3, Zenon DEF ClosingInv
  <2> QED BY <2>2, <2>3, Zenon
<1>7. \A m \in Nexus : CheckInv(m)'
  BY <1>1, <1>2, Zenon DEF CheckInv, Target
<1>8. /\ OwnerInv' /\ WholeInv' /\ UndrainedInv' /\ \A m \in Nexus : ClearInv(m)'
      /\ \A s \in Saga : Live(s)' = Live(s)
  BY <1>1, <1>2, QuietClosed, Zenon
<1>9. GivenUpInv'
  <2>1. GivenUp' => GivenUp
    BY <1>2, Zenon DEF GivenUp
  <2> QED BY <1>1, <1>5, <1>8, <2>1, GivenUpKept, Zenon
<1> QED BY <1>6, <1>7, <1>8, <1>9, Zenon DEF ClosedInv

(* ... and what is loaded: only the checks and the phases move.             *)
LEMMA CheckClosed ==
  ASSUME HandoffInv,
         UNCHANGED <<saga, creating, quiesce, blueprints, exec, access, loaded>>,
         \A m \in Nexus : phase'[m] = phase[m] \/ phase'[m] # "DrainingSagas",
         \A m \in Nexus : CheckInv(m)',
         GivenUp' => (\A s \in Saga : ~ Live(s)) /\ \A m \in Nexus : Closing(m)
  PROVE  ClosedInv'
<1>1. ClosedInv /\ \A m \in Nexus : ClosingInv(m)
  BY HandoffFacts, Zenon
<1>2. \A m \in Nexus : ClosingInv(m)' /\ Closing(m)' = Closing(m)
  BY <1>1, Zenon DEF ClosingInv, Closing, Target
<1>3. /\ OwnerInv' /\ WholeInv' /\ UndrainedInv' /\ \A m \in Nexus : ClearInv(m)'
      /\ \A s \in Saga : Live(s)' = Live(s)
  BY <1>1, QuietClosed, Zenon
<1>4. GivenUpInv'
  BY <1>2, <1>3, Zenon DEF GivenUpInv
<1> QED BY <1>2, <1>3, <1>4, Zenon DEF ClosedInv

LEMMA StartCheckClosed ==
  ASSUME HandoffInv, NEW n \in Nexus, StartCheck(n)
  PROVE  ClosedInv'
<1>1. /\ Inv /\ TypeOK /\ BlueprintInv /\ ClosedInv /\ QuiesceTypeOK
      /\ \A m \in Nexus : ClosingInv(m) /\ CheckInv(m)
      /\ GivenUpInv
  BY HandoffFacts, Zenon
<1>2. /\ UNCHANGED <<saga, creating, quiesce, blueprints, exec, access, loaded, phase,
                     alive, recorded>>
      /\ phase[n] = "DrainingSagas" /\ n \in blueprints[loaded[n]].inService
      /\ check'[n] = [pc |-> "waiting", bp |-> loaded[n]]
      /\ \A m \in Nexus : m # n => check'[m] = check[m]
  BY <1>1, Zenon DEF StartCheck, sagaVars, QuiesceTypeOK
<1>3. loaded[n] \in 1 .. Target
  <2>1. loaded[n] # NoBlueprint
    BY <1>1, <1>2, Zenon DEF ClosingInv
  <2>2. loaded[n] \in 0 .. Target /\ Target \in Nat
    BY <1>1 DEF BlueprintInv, QuiesceTypeOK, Target
  <2> QED BY <2>1, <2>2 DEF NoBlueprint
<1>4. check'[n].pc = "waiting" /\ check'[n].bp = loaded[n]
  BY <1>2
<1>5. \A m \in Nexus : CheckInv(m)'
  BY <1>1, <1>2, <1>3, <1>4, ZenonT(30) DEF CheckInv, Target
<1>6. GivenUp' => GivenUp
  BY <1>2, Zenon DEF GivenUp
<1> QED BY <1>1, <1>2, <1>5, <1>6, CheckClosed, Zenon DEF GivenUpInv

(* A check is given up, or another process starts.                          *)
LEMMA CheckFailsClosed ==
  ASSUME HandoffInv, NEW n \in Nexus, CheckFails(n) \/ ProcessStarts(n)
  PROVE  ClosedInv'
<1>1. /\ QuiesceTypeOK /\ GivenUpInv
      /\ \A m \in Nexus : ClosingInv(m) /\ CheckInv(m)
  BY HandoffFacts, Zenon
<1>2. /\ UNCHANGED <<saga, creating, quiesce, blueprints, exec, access, loaded, phase,
                     recorded>>
      /\ alive \subseteq alive'
      /\ \A m \in Nexus : check'[m] = check[m] \/ check'[m] = NoCheck
  <2>1. CASE CheckFails(n)
    BY <1>1, <2>1, Zenon DEF CheckFails, sagaVars, QuiesceTypeOK
  <2>2. CASE ProcessStarts(n)
    BY <1>1, <2>2, Zenon DEF ProcessStarts, Restart, restVars, processVars
  <2> QED BY <2>1, <2>2, Zenon
<1>3. NoCheck.pc = "idle"
  BY Zenon DEF NoCheck
<1>4. \A m \in Nexus : CheckInv(m)'
  BY <1>1, <1>2, <1>3, Zenon DEF CheckInv, Target
<1>5. GivenUp' => GivenUp
  BY <1>2, Zenon DEF GivenUp
<1> QED BY <1>1, <1>2, <1>4, <1>5, CheckClosed, Zenon DEF GivenUpInv

(* The handoff itself, and stuttering steps.                                *)
LEMMA AttemptHandoffClosed ==
  ASSUME HandoffInv, AttemptHandoff \/ UNCHANGED vars
  PROVE  ClosedInv'
<1>1. GivenUpInv /\ \A m \in Nexus : ClosingInv(m) /\ CheckInv(m)
  BY HandoffFacts, Zenon
<1>2. UNCHANGED <<saga, creating, quiesce, blueprints, exec, access, loaded, phase,
                  recorded, check, alive>>
  BY Zenon DEF AttemptHandoff, vars, sagaVars, processVars
<1>3. \A m \in Nexus : CheckInv(m)'
  BY <1>1, <1>2, Zenon DEF CheckInv, Target
<1>4. GivenUp' => GivenUp
  BY <1>2, Zenon DEF GivenUp
<1> QED BY <1>1, <1>2, <1>3, <1>4, CheckClosed, Zenon DEF GivenUpInv

(* A process that is told to quiesce has loaded a blueprint that says so.   *)
LEMMA ToldToQuiesce ==
  ASSUME HandoffInv, NEW n \in Nexus,
         quiesce[n].new_sagas_allowed = "DisallowedQuiesce"
  PROVE  Closing(n)
<1>1. BlueprintInv /\ QuiesceTypeOK /\ ClosingInv(n)
  BY HandoffFacts, Zenon
<1>2. loaded[n] # NoBlueprint /\ blueprints[loaded[n]].quiescing
  BY <1>1, Zenon DEF ClosingInv
<1>3. loaded[n] \in 0 .. Target /\ Target \in Nat
  BY <1>1 DEF BlueprintInv, QuiesceTypeOK, Target
<1>4. loaded[n] \in 1 .. Target
  BY <1>2, <1>3 DEF NoBlueprint
<1> QED BY <1>1, <1>2, <1>4, Zenon DEF BlueprintInv, Closing

LEMMA RecordDrainedClosed ==
  ASSUME HandoffInv, NEW n \in Nexus, RecordDrained(n)
  PROVE  ClosedInv'
<1>1. /\ Inv /\ TypeOK /\ BlueprintInv /\ ClosedInv /\ QuiesceTypeOK
      /\ \A m \in Nexus : SagaInv(m) /\ ClearInv(m) /\ ClosingInv(m) /\ CheckInv(m)
      /\ OwnerInv /\ WholeInv /\ UndrainedInv /\ GivenUpInv
  BY HandoffFacts, Zenon
<1> DEFINE k == check[n].bp
<1>2. /\ UNCHANGED <<saga, alive, creating, quiesce, blueprints, exec, loaded, phase>>
      /\ n \in alive /\ quiesce[n].drained_blueprint = k
      /\ check[n].pc = "waiting" /\ check'[n].pc = "comparing" /\ check'[n].bp = k
      /\ recorded'[n] = k
      /\ \A m \in Nexus : m # n => check'[m] = check[m] /\ recorded'[m] = recorded[m]
  BY <1>1, Zenon DEF RecordDrained, HasDatabase, sagaVars, QuiesceTypeOK
<1>3. /\ \A m \in Nexus : access'[m].state = access[m].state
      /\ \A m \in Nexus : m # n => access'[m] = access[m]
      /\ access'[n].drained \in {access[n].drained, k}
  BY <1>1, Zenon DEF RecordDrained, QuiesceTypeOK
<1> HIDE DEF k
<1>4. k \in 1 .. Target /\ n \in blueprints[k].inService
  BY <1>1, <1>2, Zenon DEF CheckInv, k
<1>5. k # NoBlueprint
  BY <1>4 DEF NoBlueprint, Target
<1>6. Closing(n)
  BY <1>1, <1>2, <1>5, ToldToQuiesce, Zenon DEF ClosingInv
<1>7. ASSUME NEW m \in Nexus
      PROVE  CheckInv(m)' /\ ClosingInv(m)' /\ Closing(m)' = Closing(m)
  <2>1. CheckInv(m)'
    <3>1. CASE m = n
      BY <1>1, <1>2, <1>4, <3>1, Zenon DEF CheckInv, Target
    <3>2. CASE m # n
      BY <1>1, <1>2, <3>2, Zenon DEF CheckInv, Target
    <3> QED BY <3>1, <3>2, Zenon
  <2>2. Closing(m)' = Closing(m)
    BY <1>2, Zenon DEF Closing, Target
  <2>3. ClosingInv(m)'
    <3>1. CASE m = n
      BY <1>1, <1>2, <1>6, <2>2, <3>1, Zenon DEF ClosingInv
    <3>2. CASE m # n
      BY <1>1, <1>2, <1>3, <2>2, <3>2, Zenon DEF ClosingInv
    <3> QED BY <3>1, <3>2, Zenon
  <2> QED BY <2>1, <2>2, <2>3, Zenon
<1>8. /\ OwnerInv' /\ WholeInv' /\ (\A s \in Saga : Live(s)' = Live(s))
      /\ \A j : Clear(j)' = Clear(j)
  BY <1>1, <1>2, QuietFacts, Zenon
<1>9. ASSUME NEW m \in Nexus PROVE ClearInv(m)'
  <2>1. Settled(m)' \subseteq Settled(m)
    <3>1. CASE m = n
      <4>1. quiesce'[n] = quiesce[n] /\ exec'[n] = exec[n]
        BY <1>2, Zenon
      <4>2. access'[n].drained \in Sources(quiesce[n]) \cup {access[n].drained}
        BY <1>2, <1>3, Zenon DEF Sources
      <4> QED BY <3>1, <4>1, <4>2, Zenon DEF Settled
    <3>2. CASE m # n
      BY <1>2, <1>3, <3>2, Zenon DEF Settled
    <3> QED BY <3>1, <3>2, Zenon
  <2> QED BY <1>1, <1>8, <2>1, Zenon DEF ClearInv
<1>10. GivenUpInv'
  <2>1. GivenUp' => GivenUp
    BY <1>2, <1>3, Zenon DEF GivenUp
  <2> QED BY <1>1, <1>7, <1>8, <2>1, Zenon DEF GivenUpInv
<1>11. ASSUME NEW s \in Saga, NEW j \in 1 .. Target, Live(s) PROVE Undrained(s, j)'
  <2>1. Undrained(s, j) /\ saga[s].sec \in Nexus
    BY <1>1, <1>11, Zenon DEF UndrainedInv, OwnerInv, Live, IsCandidate
  <2>2. CASE /\ saga[s].sec \in blueprints[j].inService
             /\ access[saga[s].sec].drained # j
             /\ quiesce[saga[s].sec].drained_blueprint # j
    <3>1. access'[saga[s].sec].drained # j
      BY <1>2, <1>3, <2>1, <2>2, Zenon
    <3> QED BY <1>2, <2>2, <3>1, Zenon DEF Undrained
  <2>3. ASSUME NEW e \in blueprints[j].inService \cap blueprints[Target].ready,
               access[e].state = "Deleted" \/ access[e].drained # j
        PROVE  Undrained(s, j)'
    <3>1. e # n
      BY <1>1, <1>2, <2>3, Zenon DEF BlueprintInv
    <3>2. e \in Nexus
      <4>1. Target \in 1 .. Target
        BY <1>1 DEF BlueprintInv, QuiesceTypeOK, Target
      <4> QED BY <1>1, <2>3, <4>1, Zenon DEF WholeInv
    <3> QED BY <1>2, <1>3, <2>3, <3>1, <3>2, Zenon DEF Undrained, Target
  <2>4. CASE saga[s].sec \in blueprints[j].ready
    BY <1>2, <2>4, Zenon DEF Undrained
  <2> QED BY <2>1, <2>2, <2>3, <2>4, Zenon DEF Undrained
<1>12. UndrainedInv'
  BY <1>2, <1>8, <1>11, Zenon DEF UndrainedInv, Target
<1> QED BY <1>7, <1>8, <1>9, <1>10, <1>12, Zenon DEF ClosedInv

(* Everybody in service is drained as of the same blueprint, so nobody has  *)
(* a saga left and nobody will create one.                                  *)
LEMMA MoveOnClosed ==
  ASSUME HandoffInv, NEW n \in Nexus, MoveOn(n)
  PROVE  ClosedInv'
<1>1. /\ Inv /\ TypeOK /\ BlueprintInv /\ ClosedInv /\ QuiesceTypeOK
      /\ \A m \in Nexus : SagaInv(m) /\ ClearInv(m) /\ ClosingInv(m) /\ CheckInv(m)
      /\ OwnerInv /\ WholeInv /\ UndrainedInv /\ GivenUpInv
  BY HandoffFacts, Zenon
<1>2. /\ UNCHANGED <<saga, alive, creating, quiesce, blueprints, exec, loaded, access,
                     recorded>>
      /\ check[n].pc = "comparing" /\ AllDrained(n)
      /\ phase' = [phase EXCEPT ![n] = "DrainingDb"]
      /\ \A m \in Nexus : check'[m] = check[m] \/ check'[m] = NoCheck
  BY <1>1, Zenon DEF MoveOn, HasDatabase, sagaVars, QuiesceTypeOK
<1>3. NoCheck.pc = "idle"
  BY Zenon DEF NoCheck
<1>4. \A m \in Nexus : CheckInv(m)'
  BY <1>1, <1>2, <1>3, Zenon DEF CheckInv, Target
<1>5. \A m \in Nexus : phase'[m] = phase[m] \/ phase'[m] # "DrainingSagas"
  BY <1>1, <1>2, Zenon DEF QuiesceTypeOK
<1> DEFINE k == check[n].bp
<1>6. k \in 1 .. Target /\ n \in blueprints[k].inService /\ recorded[n] = k
  BY <1>1, <1>2, Zenon DEF CheckInv
<1>7. k # NoBlueprint
  BY <1>6 DEF NoBlueprint, Target
<1>8. CASE \E m \in Nexus : access[m].state = "Quiesced"
  <2>1. GivenUp
    BY <1>8, Zenon DEF GivenUp
  <2> QED BY <1>1, <1>2, <1>4, <1>5, <2>1, CheckClosed, Zenon DEF GivenUpInv
<1>9. CASE ~ \E m \in Nexus : access[m].state = "Quiesced"
  <2>1. blueprints[k].inService \cup blueprints[k].ready = Nexus
    BY <1>1, <1>6, Zenon DEF WholeInv
  <2>2. \A m \in blueprints[k].inService :
          access[m].state # "Deleted" /\ access[m].drained = k
    BY <1>2, <1>6, <1>9, <2>1, Zenon DEF AllDrained
  <2> HIDE DEF k
  <2>3. \A m \in blueprints[k].ready : m \notin alive
    BY <1>1, <1>6, ReadyIsGone, Zenon
  <2>4. Clear(k)
    BY <1>1, <1>6, <2>2, Zenon DEF ClearInv, Settled
  <2>5. ASSUME NEW s \in Saga, Live(s) PROVE FALSE
    <3>1. Undrained(s, k)
      BY <1>1, <1>6, <2>5, Zenon DEF UndrainedInv
    <3>2. saga[s].sec \in blueprints[k].ready
      BY <2>2, <3>1, Zenon DEF Undrained
    <3>3. ~ IsCandidate(s)
      BY <1>7, <2>4, <3>2, Zenon DEF Clear
    <3>4. PICK m \in Nexus : s \in creating[m]
      BY <2>5, <3>3, Zenon DEF Live
    <3>5. saga[s].sec = m
      BY <1>1, <3>4, Zenon DEF SagaInv, TableInv
    <3>6. creating[m] = {}
      BY <1>1, <2>3, <3>2, <3>5, Zenon DEF SagaInv, DeadInv
    <3> QED BY <3>4, <3>6, Zenon
  <2>6. ASSUME NEW m \in Nexus PROVE Closing(m)
    <3>1. CASE m \in blueprints[k].inService
      BY <1>1, <1>7, <2>2, <3>1, Zenon DEF ClosingInv
    <3>2. CASE m \in blueprints[k].ready
      <4>1. quiesce[m] = NewQuiesce /\ loaded[m] = NoBlueprint
        BY <1>1, <2>3, <3>2, Zenon DEF SagaInv, DeadInv, CheckInv
      <4>2. NewQuiesce.new_sagas_allowed # "Allowed"
        BY Zenon DEF NewQuiesce
      <4>3. Closing(n)
        BY <1>1, <1>6, <1>7, <2>2, Zenon DEF ClosingInv
      <4> QED BY <4>1, <4>2, <4>3, Zenon DEF Closing
    <3> QED BY <2>1, <3>1, <3>2, Zenon
  <2> QED BY <1>2, <1>4, <1>5, <2>5, <2>6, CheckClosed, Zenon
<1> QED BY <1>8, <1>9, Zenon

LEMMA RecordQuiescedClosed ==
  ASSUME HandoffInv, NEW n \in Nexus, RecordQuiesced(n)
  PROVE  ClosedInv'
<1>1. /\ Inv /\ TypeOK /\ BlueprintInv /\ ClosedInv /\ QuiesceTypeOK
      /\ \A m \in Nexus : SagaInv(m) /\ ClearInv(m) /\ ClosingInv(m) /\ CheckInv(m)
      /\ OwnerInv /\ WholeInv /\ UndrainedInv /\ GivenUpInv
  BY HandoffFacts, Zenon
<1>2. /\ UNCHANGED <<saga, alive, creating, quiesce, blueprints, exec, loaded, check,
                     recorded>>
      /\ phase[n] = "DrainingDb" /\ phase' = [phase EXCEPT ![n] = "Quiesced"]
      /\ \A m \in Nexus : access'[m].drained = access[m].drained
  BY <1>1, Zenon DEF RecordQuiesced, sagaVars, QuiesceTypeOK
<1>3. \A m \in Nexus : phase'[m] = phase[m] \/ phase'[m] # "DrainingSagas"
  BY <1>1, <1>2, Zenon DEF QuiesceTypeOK
<1>4. \A m \in Nexus : Closing(m)' = Closing(m) /\ ClosingInv(m)' /\ CheckInv(m)'
  BY <1>1, <1>2, <1>3, Zenon DEF Closing, ClosingInv, CheckInv, Target
<1>5. /\ OwnerInv' /\ WholeInv' /\ (\A s \in Saga : Live(s)' = Live(s))
      /\ \A k : Clear(k)' = Clear(k)
  BY <1>1, <1>2, QuietFacts, Zenon
<1>6. \A m \in Nexus : ClearInv(m)'
  <2>1. \A m \in Nexus : Settled(m)' = Settled(m)
    BY <1>2, Zenon DEF Settled
  <2> QED BY <1>1, <1>5, <2>1, Zenon DEF ClearInv
<1>7. GivenUp
  BY <1>2, Zenon DEF GivenUp
<1>8. (\A s \in Saga : ~ Live(s)) /\ \A m \in Nexus : Closing(m)
  BY <1>1, <1>7, Zenon DEF GivenUpInv
<1> QED BY <1>4, <1>5, <1>6, <1>8, Zenon DEF ClosedInv, GivenUpInv, UndrainedInv

-----------------------------------------------------------------------------
(* Processes end.                                                           *)
LEMMA ProcessEndsClosed ==
  ASSUME HandoffInv, NEW n \in Nexus, ProcessEnds(n)
  PROVE  ClosedInv'
<1>1. /\ Inv /\ TypeOK /\ BlueprintInv /\ ClosedInv /\ QuiesceTypeOK
      /\ \A m \in Nexus : SagaInv(m) /\ ClearInv(m) /\ ClosingInv(m) /\ CheckInv(m)
      /\ OwnerInv /\ WholeInv /\ UndrainedInv /\ GivenUpInv
  BY HandoffFacts, Zenon
<1>2. /\ UNCHANGED <<saga, blueprints, access>> /\ alive' = alive \ {n}
      /\ quiesce'[n] = NewQuiesce /\ creating'[n] = {} /\ loaded'[n] = NoBlueprint
      /\ exec'[n] = NoExec /\ phase'[n] = "Undetermined" /\ check'[n] = NoCheck
  BY <1>1, Zenon DEF ProcessEnds, Crash, TypeOK, QuiesceTypeOK
<1>3. \A m \in Nexus : m # n =>
        /\ quiesce'[m] = quiesce[m] /\ creating'[m] = creating[m]
        /\ loaded'[m] = loaded[m] /\ exec'[m] = exec[m] /\ phase'[m] = phase[m]
        /\ check'[m] = check[m] /\ recorded'[m] = recorded[m]
  BY <1>1, Zenon DEF ProcessEnds, Crash, TypeOK, QuiesceTypeOK
<1>4. /\ NewQuiesce.new_sagas_allowed \notin {"Allowed", "DisallowedQuiesce"}
      /\ NewQuiesce.drained_blueprint = NoBlueprint
      /\ Sources(NewQuiesce) = {NoBlueprint}
      /\ NoExec.pc = "idle" /\ NoCheck.pc = "idle"
  BY Zenon DEF NewQuiesce, Sources, NoExec, NoCheck
<1>5. /\ RowsKept /\ AccessKept
      /\ \A s \in Saga : Live(s)' => Live(s) /\ saga'[s].sec = saga[s].sec
      /\ \A m \in Nexus : DrainedKept(m)
  <2>1. RowsKept /\ AccessKept
    BY <1>2, Zenon DEF RowsKept, AccessKept, IsCandidate
  <2>2. \A s \in Saga : Live(s)' => Live(s)
    BY <1>2, <1>3, Zenon DEF Live, IsCandidate
  <2>3. \A m \in Nexus : DrainedKept(m)
    BY <1>2, <1>3, <1>4, Zenon DEF DrainedKept
  <2> QED BY <1>2, <2>1, <2>2, <2>3, Zenon
<1>6. ASSUME NEW m \in Nexus PROVE ClearInv(m)'
  <2>1. CASE m = n
    <3>1. Settled(n)' \subseteq Settled(n)
      BY <1>2, <1>4, Zenon DEF Settled, Sources
    <3> QED BY <1>1, <1>2, <1>5, <2>1, <3>1, ClearInvKept, Zenon
  <2>2. CASE m # n
    <3>1. Settled(m)' \subseteq Settled(m)
      BY <1>2, <1>3, <2>2, Zenon DEF Settled
    <3> QED BY <1>1, <1>2, <1>5, <3>1, ClearInvKept, Zenon
  <2> QED BY <2>1, <2>2, Zenon
<1>7. ASSUME NEW m \in Nexus
      PROVE  ClosingInv(m)' /\ CheckInv(m)' /\ (Closing(m) => Closing(m)')
  <2>1. CASE m = n
    <3>1. Closing(n) => Closing(n)'
      BY <1>2, <1>4, Zenon DEF Closing, Target
    <3>2. ClosingInv(n)'
      <4>1. access'[n].drained # NoBlueprint => Closing(n)'
        BY <1>1, <1>2, <3>1, Zenon DEF ClosingInv
      <4> QED BY <1>2, <1>4, <4>1, Zenon DEF ClosingInv
    <3>3. CheckInv(n)'
      BY <1>2, <1>4, Zenon DEF CheckInv
    <3> QED BY <2>1, <3>1, <3>2, <3>3, Zenon
  <2>2. CASE m # n
    <3>1. Closing(m)' = Closing(m)
      BY <1>2, <1>3, <2>2, Zenon DEF Closing, Target
    <3>2. ClosingInv(m)'
      <4>1. /\ loaded'[m] = loaded[m] /\ quiesce'[m] = quiesce[m]
            /\ phase'[m] = phase[m] /\ access' = access /\ blueprints' = blueprints
        BY <1>2, <1>3, <2>2, Zenon
      <4> QED BY <1>1, <3>1, <4>1, Zenon DEF ClosingInv
    <3>3. CheckInv(m)'
      <4>1. m \in alive => m \in alive'
        BY <1>2, <2>2, Zenon
      <4>2. /\ loaded'[m] = loaded[m] /\ check'[m] = check[m]
            /\ recorded'[m] = recorded[m] /\ blueprints' = blueprints
        BY <1>2, <1>3, <2>2, Zenon
      <4> QED BY <1>1, <4>1, <4>2, Zenon DEF CheckInv, Target
    <3> QED BY <3>1, <3>2, <3>3, Zenon
  <2> QED BY <2>1, <2>2, Zenon
<1>8. UndrainedInv'
  <2>1. \A s \in Saga : Live(s)' => saga[s].sec \in Nexus
    BY <1>1, <1>5, Zenon DEF OwnerInv, Live, IsCandidate
  <2> QED BY <1>1, <1>2, <1>5, <2>1, UndrainedInvKept, Zenon
<1>9. GivenUpInv'
  <2>1. GivenUp' => GivenUp
    BY <1>2, <1>3, Zenon DEF GivenUp
  <2> QED BY <1>1, <1>5, <1>7, <2>1, GivenUpKept, Zenon
<1>10. OwnerInv' /\ WholeInv'
  BY <1>1, <1>2, Zenon DEF OwnerInv, WholeInv, Target
<1> QED BY <1>6, <1>7, <1>8, <1>9, <1>10, Zenon DEF ClosedInv

-----------------------------------------------------------------------------
(* Planning: nobody is drained as of a blueprint that was not there.        *)
LEMMA NewTargetClosed ==
  ASSUME HandoffInv, NEW b \in Blueprint, NewTarget(b),
         b.inService \cup b.ready = Nexus, blueprints[Target].ready \subseteq b.ready,
         blueprints[Target].quiescing => b.quiescing
  PROVE  ClosedInv'
<1>1. /\ Inv /\ TypeOK /\ BlueprintInv /\ ClosedInv /\ QuiesceTypeOK
      /\ \A m \in Nexus : SagaInv(m) /\ ClearInv(m) /\ ClosingInv(m) /\ CheckInv(m)
      /\ OwnerInv /\ WholeInv /\ UndrainedInv /\ GivenUpInv
  BY HandoffFacts, Zenon
<1> DEFINE N == Target
<1>2. N \in Nat /\ N >= 1 /\ N = Target /\ Len(blueprints) = N
  BY <1>1 DEF QuiesceTypeOK, BlueprintInv, Target
<1> HIDE DEF N
<1>3. /\ UNCHANGED <<saga, alive, creating, quiesce, exec, loaded, phase, check,
                     recorded, access>>
      /\ blueprints' = Append(blueprints, b)
  BY Zenon DEF NewTarget, sagaVars, processVars
<1>4. /\ Target' = N + 1
      /\ blueprints'[N + 1] = b
      /\ \A i \in 1 .. N : blueprints'[i] = blueprints[i]
  BY SMTT(30), <1>1, <1>2, <1>3 DEF QuiesceTypeOK, Target
<1>5. /\ \A i \in 1 .. N : i \in 1 .. N + 1 /\ i # N + 1
      /\ \A i \in 1 .. N + 1 : i \in 1 .. N \/ i = N + 1
      /\ NoBlueprint # N + 1
  BY <1>2 DEF NoBlueprint
<1>6. WholeInv'
  BY <1>1, <1>2, <1>4, <1>5, Zenon DEF WholeInv
<1>7. \A s \in Saga : Live(s)' = Live(s)
  BY <1>3, Zenon DEF Live, IsCandidate
<1>8. \A k : Clear(k) => Clear(k)' /\ k # N + 1
  <2> SUFFICES ASSUME NEW k, Clear(k), k # NoBlueprint PROVE Clear(k)' /\ k # N + 1
    BY <1>5, Zenon DEF Clear
  <2>1. /\ k \in 1 .. N
        /\ \A s \in Saga : IsCandidate(s) => saga[s].sec \notin blueprints[k].ready
    BY <1>2, Zenon DEF Clear
  <2>2. \A s \in Saga : IsCandidate(s)' => saga'[s].sec \notin blueprints'[k].ready
    BY <1>3, <1>4, <2>1, Zenon DEF IsCandidate
  <2>3. k \in 1 .. Target' /\ k # N + 1
    BY <1>4, <1>5, <2>1, Zenon
  <2> QED BY <2>2, <2>3, Zenon DEF Clear
<1>9. \A m \in Nexus : ClearInv(m)'
  <2>1. \A m \in Nexus : Settled(m)' = Settled(m)
    BY <1>3, Zenon DEF Settled
  <2> QED BY <1>1, <1>8, <2>1, Zenon DEF ClearInv
<1>10. \A m \in Nexus : loaded[m] # NoBlueprint => loaded[m] \in 1 .. N
  BY <1>1, <1>2 DEF BlueprintInv, NoBlueprint
<1>11. ASSUME NEW m \in Nexus
       PROVE  ClosingInv(m)' /\ CheckInv(m)' /\ (Closing(m) => Closing(m)')
  <2>1. Closing(m) => Closing(m)'
    <3>1. blueprints[Target].quiescing => blueprints'[Target'].quiescing
      BY <1>4, Zenon
    <3>2. loaded'[m] = loaded[m] /\ quiesce'[m] = quiesce[m]
      BY <1>3, Zenon
    <3>3. loaded[m] # NoBlueprint => blueprints'[loaded[m]] = blueprints[loaded[m]]
      BY <1>4, <1>10, Zenon
    <3> QED BY <3>1, <3>2, <3>3, Zenon DEF Closing
  <2>2. ClosingInv(m)'
    BY <1>1, <1>3, <1>4, <1>10, <2>1, Zenon DEF ClosingInv
  <2>3. CheckInv(m)'
    BY <1>1, <1>2, <1>3, <1>4, <1>5, Zenon DEF CheckInv
  <2> QED BY <2>1, <2>2, <2>3, Zenon
<1>12. GivenUpInv'
  <2>1. GivenUp' => GivenUp
    BY <1>3, Zenon DEF GivenUp
  <2> QED BY <1>1, <1>7, <1>11, <2>1, GivenUpKept, Zenon
<1>13. ASSUME NEW s \in Saga, NEW k \in 1 .. N + 1, Live(s)
       PROVE  Undrained(s, k)'
  <2>1. saga[s].sec \in Nexus
    BY <1>1, <1>13, Zenon DEF OwnerInv, Live, IsCandidate
  <2>2. CASE k \in 1 .. N
    <3>1. Undrained(s, k)
      BY <1>1, <1>2, <1>13, <2>2, Zenon DEF UndrainedInv
    <3>2. /\ blueprints'[k] = blueprints[k] /\ saga' = saga /\ access' = access
          /\ quiesce' = quiesce
          /\ blueprints[Target].ready \subseteq blueprints'[Target'].ready
      BY <1>3, <1>4, <2>2, Zenon
    <3> QED BY <3>1, <3>2, Zenon DEF Undrained
  <2>3. CASE k = N + 1
    <3>1. /\ access[saga[s].sec].drained # N + 1
          /\ quiesce[saga[s].sec].drained_blueprint # N + 1
      BY <1>1, <1>8, <2>1, Zenon DEF ClearInv, Settled, Sources
    <3>2. saga[s].sec \in b.inService \/ saga[s].sec \in b.ready
      BY <2>1, Zenon
    <3>3. /\ blueprints'[k] = b /\ saga' = saga /\ access' = access
          /\ quiesce' = quiesce
      BY <1>3, <1>4, <2>3, Zenon
    <3> QED BY <2>3, <3>1, <3>2, <3>3, Zenon DEF Undrained
  <2> QED BY <1>5, <2>2, <2>3, Zenon
<1>14. UndrainedInv'
  BY <1>4, <1>7, <1>13, Zenon DEF UndrainedInv
<1>15. OwnerInv'
  BY <1>1, <1>3, Zenon DEF OwnerInv
<1> QED BY <1>6, <1>9, <1>11, <1>12, <1>14, <1>15, Zenon DEF ClosedInv

LEMMA PlanningClosed ==
  ASSUME ~ DiskExpunge, HandoffInv, NEW n \in Nexus,
         BumpGeneration \/ ExpungeSled(n) \/ ExpungeDisk(n) \/ MarkReady(n)
  PROVE  ClosedInv'
<1> DEFINE old == blueprints[Target]
<1>1. QuiesceTypeOK /\ BlueprintInv /\ WholeInv
  BY HandoffFacts, Zenon
<1>2. Target \in 1 .. Target /\ old \in Blueprint
  BY <1>1 DEF QuiesceTypeOK, BlueprintInv, Target
<1>3. old.inService \cup old.ready = Nexus
  BY <1>1, <1>2, Zenon DEF WholeInv
<1> HIDE DEF old
<1>4. CASE BumpGeneration
  <2> DEFINE b == [old EXCEPT !.quiescing = TRUE]
  <2>1. b \in Blueprint /\ b.inService = old.inService /\ b.ready = old.ready /\ b.quiescing
    BY <1>2, Zenon DEF Blueprint
  <2>2. NewTarget(b)
    BY <1>4, Zenon DEF BumpGeneration, old
  <2> HIDE DEF b
  <2> QED BY <1>3, <2>1, <2>2, NewTargetClosed, Zenon DEF old
<1>5. CASE ExpungeSled(n)
  <2> DEFINE b == [old EXCEPT !.inService = @ \ {n}, !.ready = @ \cup {n}]
  <2>1. /\ b \in Blueprint /\ b.inService = old.inService \ {n}
        /\ b.ready = old.ready \cup {n} /\ b.quiescing = old.quiescing
    BY <1>2, Zenon DEF Blueprint
  <2>2. NewTarget(b)
    BY <1>5, Zenon DEF ExpungeSled, old
  <2> HIDE DEF b
  <2>3. b.inService \cup b.ready = Nexus
    BY <1>3, <2>1, Zenon
  <2> QED BY <2>1, <2>2, <2>3, NewTargetClosed, Zenon DEF old
<1>6. ~ ExpungeDisk(n) /\ ~ MarkReady(n)
  BY <1>3, Zenon DEF ExpungeDisk, MarkReady, old
<1> QED BY <1>4, <1>5, <1>6, Zenon

-----------------------------------------------------------------------------
LEMMA NextHandoff ==
  ASSUME ~ SlowInsert, ~ LostReply, ~ Transient, ~ DiskExpunge, HandoffInv, [Next]_vars
  PROVE  HandoffInv'
<1>1. DrainedInv'
  BY NextDrain, Zenon DEF HandoffInv
<1>2. ASSUME NEW n \in Nexus,
             \/ LoadBlueprint(n) \/ StartExecution(n) \/ ReassignSagas(n)
             \/ ReassignmentDone(n) \/ ReassignmentFails(n)
      PROVE  ClosedInv'
  BY Zenon, <1>1, <1>2, LoadBlueprintClosed, StartExecutionClosed, ReassignSagasClosed,
     ReassignmentEndsClosed
<1>3. ASSUME NEW n \in Nexus,
             \/ StartCheck(n) \/ RecordDrained(n) \/ MoveOn(n) \/ CheckFails(n)
             \/ RecordQuiesced(n) \/ ProcessStarts(n)
      PROVE  ClosedInv'
  BY Zenon, <1>3, StartCheckClosed, RecordDrainedClosed, MoveOnClosed, CheckFailsClosed,
     RecordQuiescedClosed
<1>4. ASSUME NEW n \in Nexus,
             \/ ExpungeSled(n) \/ ExpungeDisk(n) \/ MarkReady(n) \/ ProcessEnds(n)
             \/ SagaActivity(n)
      PROVE  ClosedInv'
  BY <1>1, <1>4, PlanningClosed, ProcessEndsClosed, SagaActivityClosed, Zenon
<1>5. ASSUME BumpGeneration PROVE ClosedInv'
  <2>1. PICK n \in Nexus : HasDatabase(n)
    BY <1>5, Zenon DEF BumpGeneration, NewTarget
  <2> QED BY <1>5, PlanningClosed, Zenon
<1>6. ASSUME AttemptHandoff \/ UNCHANGED vars PROVE ClosedInv'
  BY <1>6, AttemptHandoffClosed, Zenon
<1> QED BY <1>1, <1>2, <1>3, <1>4, <1>5, <1>6, Zenon DEF Next, HandoffInv

LEMMA InitHandoff ==
  Init => HandoffInv
<1> SUFFICES ASSUME Init PROVE ClosedInv
  BY InitDrain, Zenon DEF HandoffInv
<1> DEFINE first == [inService |-> Nexus, ready |-> {}, quiescing |-> FALSE]
<1>1. blueprints = << first >>
  BY Zenon DEF Init
<1>2. first.inService = Nexus /\ first.ready = {}
  BY Zenon
<1> HIDE DEF first
<1>3. Target = 1 /\ blueprints[1] = first /\ \A i \in 1 .. Target : i = 1
  BY <1>1 DEF Target
<1>4. WholeInv
  BY <1>2, <1>3, Zenon DEF WholeInv
<1>5. \A s \in Saga : saga[s].state = "Unborn" /\ ~ Live(s)
  BY Zenon DEF Init, SagaInit, Live, IsCandidate
<1>6. OwnerInv /\ UndrainedInv
  BY <1>5, Zenon DEF OwnerInv, UndrainedInv
<1>7. ASSUME NEW n \in Nexus
      PROVE  /\ quiesce[n] = NewQuiesce /\ access[n].drained = NoBlueprint
             /\ access[n].state = "Active" /\ exec[n] = NoExec /\ check[n] = NoCheck
             /\ phase[n] = "Undetermined" /\ loaded[n] = NoBlueprint
  BY Zenon DEF Init, SagaInit
<1>8. /\ NewQuiesce.new_sagas_allowed = "DisallowedUnknown"
      /\ NewQuiesce.drained_blueprint = NoBlueprint
      /\ Sources(NewQuiesce) = {NoBlueprint}
      /\ NoExec.pc = "idle" /\ NoCheck.pc = "idle"
  BY Zenon DEF NewQuiesce, Sources, NoExec, NoCheck
<1>9. GivenUpInv
  BY <1>7, Zenon DEF GivenUpInv, GivenUp
<1>10. ASSUME NEW n \in Nexus PROVE ClearInv(n) /\ ClosingInv(n) /\ CheckInv(n)
  <2>1. Settled(n) \subseteq {NoBlueprint}
    BY <1>7, <1>8, Zenon DEF Settled
  <2>2. ClearInv(n)
    BY <2>1, Zenon DEF ClearInv, Clear
  <2>3. ClosingInv(n)
    BY <1>7, <1>8, Zenon DEF ClosingInv
  <2>4. CheckInv(n)
    BY <1>7, <1>8, Zenon DEF CheckInv
  <2> QED BY <2>2, <2>3, <2>4, Zenon
<1> QED BY <1>4, <1>6, <1>9, <1>10, Zenon DEF ClosedInv

(* The invariant holds in every state that is reached.                      *)
THEOREM HandoffInvariant ==
  ASSUME ~ SlowInsert, ~ LostReply, ~ Transient, ~ DiskExpunge
  PROVE  Spec => []HandoffInv
<1>1. HandoffInv /\ [Next]_vars => HandoffInv'
  BY NextHandoff, Zenon
<1> QED BY <1>1, InitHandoff, PTL DEF Spec

(* Once an instance moves on to quiesce the database, no saga is left       *)
(* unfinished, whichever instances crash, restart or are expunged and       *)
(* whichever blueprint each of them has seen (do_quiesce).                  *)
THEOREM HandoffOnlyAfterSagas ==
  ASSUME ~ SlowInsert, ~ LostReply, ~ Transient, ~ DiskExpunge
  PROVE  Spec => []HandoffAfterSagas
<1>1. HandoffInv => HandoffAfterSagas
  BY Zenon DEF HandoffInv, ClosedInv, GivenUpInv, GivenUp, HandoffAfterSagas, Live
<1> QED BY <1>1, HandoffInvariant, PTL

=============================================================================
