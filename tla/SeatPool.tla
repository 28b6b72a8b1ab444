------------------------------ MODULE SeatPool ------------------------------
(***************************************************************************)
(* What the floating-seat service promises, with no transactions, locks,   *)
(* clocks or messages: each license owns a pool of seats that never holds  *)
(* more than its effective cap, a holder occupies at most one seat of a    *)
(* license, and a seat that has ended is never occupied again.             *)
(*                                                                         *)
(* LeaseSeats implements this module.                                      *)
(***************************************************************************)
EXTENDS Naturals, FiniteSets

CONSTANTS
  Licenses,   \* the licenses of one tenant
  Holders,    \* pseudonymous holder keys
  Seats,      \* seat identities; an identity names one occupancy, ever
  Capacity    \* Capacity[l]: the effective cap of license l

VARIABLES
  occupied,   \* occupied[l]: the pairs <<seat, holder>> now held on l
  spent       \* the seats whose occupancy has ended

vars == <<occupied, spent>>

Occupancy == Seats \X Holders

TypeOK ==
  /\ occupied \in [Licenses -> SUBSET Occupancy]
  /\ spent \in SUBSET Seats

Init ==
  /\ occupied = [l \in Licenses |-> {}]
  /\ spent = {}

(* A seat nobody has held yet is given to a holder that has none on l.     *)
Grant(l, s, h) ==
  /\ s \notin spent
  /\ \A k \in Licenses : \A o \in occupied[k] : o[1] # s
  /\ \A o \in occupied[l] : o[2] # h
  /\ Cardinality(occupied[l]) < Capacity[l]
  /\ occupied' = [occupied EXCEPT ![l] = @ \union {<<s, h>>}]
  /\ UNCHANGED spent

(* Some occupied seats end, for whatever reason, in one step (a reclaim    *)
(* sweep ends a batch).                                                    *)
End(S) ==
  /\ S # {}
  /\ \A s \in S : \E l \in Licenses : \E o \in occupied[l] : o[1] = s
  /\ occupied' = [l \in Licenses |-> {o \in occupied[l] : o[1] \notin S}]
  /\ spent' = spent \union S

Next ==
  \/ \E l \in Licenses, s \in Seats, h \in Holders : Grant(l, s, h)
  \/ \E S \in SUBSET Seats : End(S)

Spec == Init /\ [][Next]_vars
=============================================================================
