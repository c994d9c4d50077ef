------------------------------- MODULE FleetMC -------------------------------
(* Model-checking instances of Fleet.                                      *)
EXTENDS Fleet, TLC

CONSTANTS p1, p2, p3, r1, r2, r3

(* One project with two task runs and a chat turn; containers of one unit. *)
OneHome == [r \in Runs |-> p1]
OneCap == (p1 :> 1)

(* Two projects; a container of the second is twice the size.              *)
TwoHome == [r \in Runs |-> IF r \in {r1, r3} THEN p1 ELSE p2]
TwoCap == (p1 :> 1) @@ (p2 :> 2)

(* A third project, without runs, to which both of them are victims.       *)
ThreeCap == (p1 :> 1) @@ (p2 :> 2) @@ (p3 :> 1)

(* Containers are interchangeable.                                         *)
Symmetry == Permutations(Containers)
=============================================================================
