--------------------------- MODULE RackMembership ---------------------------
(***************************************************************************)
(* What Nexus promises of a rack's trust quorum, without rows, background  *)
(* tasks, sleds or messages: the memberships that have been decided on     *)
(* form one history.  At most one change is pending, it is a change of the *)
(* membership decided last, and it joins the history or is dropped.        *)
(* Epochs are not used twice.                                              *)
(***************************************************************************)
EXTENDS Integers

CONSTANTS Node, Epoch, InitialMembers

VARIABLES
  decided,  \* the memberships decided on, each with its epoch
  pending,  \* the change that is neither decided on nor dropped, if any
  used      \* the epochs that have been proposed

IsLatestDecided(d) == d \in decided /\ \A c \in decided : c.epoch <= d.epoch

(* Sleds are added, or one is removed. *)
Changes(members) ==
       {members \cup S : S \in SUBSET (Node \ members)}
  \cup {members \ {n} : n \in members}

Init ==
  /\ decided = {[epoch |-> 1, members |-> InitialMembers]}
  /\ pending = {}
  /\ used = {1}

Propose ==
  \E d \in decided : \E m \in Changes(d.members) : \E e \in Epoch :
    /\ pending = {}
    /\ IsLatestDecided(d)
    /\ \A u \in used : u < e
    /\ pending' = {[epoch |-> e, members |-> m]}
    /\ used' = used \cup {e}
    /\ UNCHANGED decided

Decide ==
  \E p \in pending :
    /\ decided' = decided \cup {p}
    /\ pending' = pending \ {p}
    /\ UNCHANGED used

Drop ==
  \E p \in pending :
    /\ pending' = pending \ {p}
    /\ UNCHANGED <<decided, used>>

Next == Propose \/ Decide \/ Drop

Spec == Init /\ [][Next]_<<decided, pending, used>>
=============================================================================
