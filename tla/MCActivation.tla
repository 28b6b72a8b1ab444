---------------------------- MODULE MCActivation ----------------------------
(* Instances of Activation for TLC.                                        *)
EXTENDS Activation, TLC

CONSTANTS l1, l2, n1, n2, n3, n4, r1, r2, r3, p1, p2

(* A machine, the same machine after one signal drifted, and two others.   *)
Machine == {1, 2, 3}
Drifted == {2, 3, 4}
Other   == {5, 6, 7}
Third   == {8, 9, 10}
Machines == {Machine, Other, Third, Drifted}

(* l1 sells two seats.                                                     *)
OneLicense == {l1}
TwoSeats   == (l1 :> 2)

(* Two questions, explored one at a time, on a license that operators and  *)
(* time change.  Whose are the two seats: three machines, one of which     *)
(* drifts, with three tokens, none of them in a file.  And what a file may *)
(* do: two machines, one of which drifts, with two tokens, one in a file   *)
(* that gets too old.                                                      *)
Used(n) == made[n] > 0 \/ Carrying(n) # {} \/ \E p \in Requests : req[p].nonce = n
Shows(f) ==
  \/ \E r \in Rows : act[r] # None /\ act[r].machine = f
  \/ \E p \in Requests : req[p].machine = f

Race == tooOld = {} /\ \A n \in FileNonces : ~Used(n)
Files == Cardinality({n \in Nonces \ FileNonces : Used(n)}) <= 1 /\ ~Shows(Third)
OneAtATime == Race \/ Files

Symmetry == Permutations(Rows) \union Permutations(Requests)
              \union Permutations(Nonces \ FileNonces)
=============================================================================
