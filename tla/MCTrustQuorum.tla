--------------------------- MODULE MCTrustQuorum ---------------------------
(***************************************************************************)
(* Instances of TrustQuorum for TLC.  A reconfiguration on its own already *)
(* has a large state space, so the runs about what an earlier              *)
(* reconfiguration leaves behind start in the middle of things, in states  *)
(* that the system reaches.                                                *)
(***************************************************************************)
EXTENDS TrustQuorum, TLC

(* The members that RSS starts with are interchangeable, unless one is a    *)
(* loader or only some of them restart.                                     *)
Special == Loaders \cup (IF Restarters = Node THEN {} ELSE Restarters)

Symmetry == Permutations(InitialMembers \ Special)

(* The configurations of epochs 1 to 3, if k coordinates.                   *)
ConfigOf(k, e, members) ==
  [epoch |-> e, members |-> members, coordinator |-> k, secrets |-> 1..(e - 1)]

(* The row of an epoch that is past collecting shares, as Nexus knows it:   *)
(* the members in `late` are Unacked, the others have state ms.             *)
RowOf(k, e, members, state, ms, late) ==
  [NewRow(e, e - 1, members, k) EXCEPT
     !.state = state,
     !.digests = TRUE,
     !.secrets = 1..(e - 1),
     !.mstate = [n \in Node |-> IF n \in members \ late THEN ms
                                                        ELSE "Unacked"]]

(* Nodes in service, without alarms, background tasks between activations.  *)
Quiet ==
  /\ expunged  = [n \in Node |-> {}]
  /\ collector = [n \in Node |-> {}]
  /\ loaded    = [n \in Node |-> {}]
  /\ alarms    = [n \in Node |-> {}]
  /\ task      = [t \in Task |-> {}]
  /\ commitAcks = {}
  /\ rss = "Done"

(* The nodes in S hold v. *)
Holding(S, v) == [n \in Node |-> IF n \in S THEN {v} ELSE {}]

(* k is the only coordinator. *)
Coordinates(k, cs) == coord = [n \in Node |-> IF n = k THEN {cs} ELSE {}]

-----------------------------------------------------------------------------
(* The coordinator of epoch 2 has just accepted it, on the rack of the      *)
(* nodes in `initial`.  Which of the members coordinates, or is late, makes *)
(* no difference here and below.                                            *)
InitCoordinating(initial) ==
  LET k  == CHOOSE n \in initial : TRUE
      c1 == ConfigOf(k, 1, initial)
  IN
  /\ Quiet
  /\ configs = Holding(initial, c1)
  /\ shares  = Holding(initial, 1)
  /\ commits = Holding(initial, 1)
  /\ Coordinates(k, [config |-> [c1 EXCEPT !.epoch = 2], old |-> 1,
                     op |-> "CollectShares", replies |-> {k}])
  /\ ksc = [n \in Node |-> {}]
  /\ msgs = {GetShareMsg(k, c1)}
  /\ rows = {RssRow(initial, k), NewRow(2, 1, initial, k)}
  /\ requests = {}

(* Epoch 2, which removes one of four members, was aborted after its        *)
(* coordinator and another member had prepared it: the coordinator does not *)
(* know, and its last Prepare message is on its way, to the sled that is to *)
(* coordinate epoch 3.  That has been proposed and removes another member   *)
(* instead.                                                                 *)
InitAborted(initial) ==
  LET k  == CHOOSE n \in initial : TRUE
      l  == CHOOSE n \in initial \ {k} : TRUE
      a  == CHOOSE n \in initial \ {k, l} : TRUE
      c2 == ConfigOf(k, 2, initial \ {a})
      members == {k, l, a}
      prepared == initial \ {l, a}
  IN
  /\ Quiet
  /\ configs = [n \in Node |-> {ConfigOf(k, 1, initial)} \cup
                               (IF n \in prepared THEN {c2} ELSE {})]
  /\ shares  = [n \in Node |-> {1} \cup (IF n \in prepared THEN {2} ELSE {})]
  /\ commits = [n \in Node |-> {1}]
  /\ Coordinates(k, [config |-> c2, old |-> 1, op |-> "Prepare",
                     replies |-> prepared])
  /\ ksc = [n \in Node |-> {}]
  /\ msgs = {PrepareMsg(k, c2)}
  /\ rows = {RssRow(initial, k),
             [NewRow(2, 1, c2.members, k) EXCEPT !.state = "Aborted"],
             NewRow(3, 1, members, l)}
  /\ requests = {[type |-> "Reconfigure", to |-> l, epoch |-> 3,
                  last |-> 1, members |-> members]}

(* One member has missed the Prepare of epoch 2 and is computing its share  *)
(* from those of the others, while epoch 3 is being prepared; Nexus has     *)
(* polled when only the coordinator itself had acknowledged it.             *)
InitStraggler(initial) ==
  LET k    == CHOOSE n \in initial : TRUE
      late == CHOOSE n \in initial \ {k} : TRUE
      c(e) == ConfigOf(k, e, initial)
      others == initial \ {late}
      both(v, w) == [n \in Node |-> (IF n \in initial THEN v ELSE {}) \cup
                                    (IF n \in others THEN w ELSE {})]
  IN
  /\ Quiet
  /\ configs = both({c(1), c(2)}, {c(3)})
  /\ shares  = both({1}, {2, 3})
  /\ commits = both({1}, {2})
  /\ Coordinates(k, [config |-> c(3), old |-> 2, op |-> "Prepare",
                     replies |-> others])
  /\ ksc = Holding({late}, [config |-> c(2), replies |-> {}])
  /\ msgs = {GetShareMsg(late, c(2)), PrepareMsg(k, c(2)), PrepareMsg(k, c(3))}
  /\ rows = {RssRow(initial, k),
             RowOf(k, 2, initial, "CommittedPartially", "Committed", {late}),
             RowOf(k, 3, initial, "Preparing", "Prepared", initial \ {k})}
  /\ requests = {[type |-> "PrepareAndCommit", to |-> late, config |-> c(2)]}

(* Nexus has just decided to commit epoch 2 on the rack of the nodes in     *)
(* `initial`.  Those in `late` have not prepared it.  Those in `removed`    *)
(* are no longer members, and do not know.                                  *)
InitCommitting(initial, removed, late) ==
  LET k    == CHOOSE n \in initial \ (removed \cup late) : TRUE
      members == initial \ removed
      c2   == ConfigOf(k, 2, members)
      prepared == members \ late
      both(f, g) == [n \in Node |-> f[n] \cup g[n]]
  IN
  /\ Quiet
  /\ configs = both(Holding(initial, ConfigOf(k, 1, initial)), Holding(prepared, c2))
  /\ shares  = both(Holding(initial, 1), Holding(prepared, 2))
  /\ commits = Holding(initial, 1)
  /\ Coordinates(k, [config |-> c2, old |-> 1, op |-> "Prepare",
                     replies |-> prepared])
  /\ ksc = [n \in Node |-> {}]
  /\ msgs = {PrepareMsg(k, c2)}
  /\ rows = {RssRow(initial, k),
             RowOf(k, 2, members, "Committing", "Prepared", late)}
  /\ requests = {}

SpecStraggler == InitStraggler(InitialMembers) /\ [][Next]_vars

(* On a rack of four members, or on three of its sleds.                     *)
SpecOverlapping ==
  /\ LET three == CHOOSE S \in SUBSET InitialMembers : Cardinality(S) = 3
     IN  InitAborted(InitialMembers) \/ InitStraggler(three)
  /\ [][Next]_vars

(* One of two racks.  In the first one member is late, and any may restart; *)
(* in the other the reconfiguration has just begun.                         *)
FairSettling ==
  /\ \/ InitCommitting(InitialMembers, {}, {CHOOSE n \in InitialMembers : TRUE})
     \/ InitCoordinating(Node \ InitialMembers)
  /\ [][Next]_vars
  /\ Fairness
  /\ FinitelyManyRestarts

(* The loader was removed from a rack of four, or is late on one of three.  *)
FairLoading ==
  /\ LET three == CHOOSE S \in SUBSET Node :
                    Loaders \subseteq S /\ Cardinality(S) = 3
     IN  InitCommitting(Node, Loaders, {}) \/ InitCommitting(three, {}, Loaders)
  /\ [][Next]_vars
  /\ Fairness

=============================================================================
