----------------------------- MODULE MCDispatchQueue -----------------------------
EXTENDS DispatchQueue, TLC

CONSTANT c1

(* An emergency for two skills and a routine job for one, that becomes overdue. *)
TwoProfiles ==
  {[priority |-> "urgent", due |-> Null, skills |-> {"diesel", "rigging"}],
   [priority |-> "normal", due |-> 1, skills |-> {"diesel"}]}

(* The largest job the rule speaks of, with all its parts. *)
OneWork == {[revenue |-> "fiveThousand", parts |-> "covered"]}

(* A customer who cannot be more loyal. *)
Regular == c1 :> 12

Symmetry == Permutations(Handlers) \union Permutations(Jobs) \union Permutations(Technicians)

(* Jobs and pings share no row but that of the technician, whose switch each  *)
(* only reads: each is explored with the other at rest and within bounds of   *)
(* its own.                                                                   *)
NoPingYet == \A t \in Technicians : limiter[t].count = 0 /\ pings[t] = <<>>

NoJobYet == \A j \in Jobs : job[j] = NoJob

Apart == \/ NoJobYet /\ \A w \in Handlers : request[w].op # "assign"
         \/ NoPingYet /\ now <= 2 /\ Happenings - left <= 4

ApartSpec == QueueInit /\ [][QueueNext /\ Apart']_queueVars
=============================================================================
