---------------------------- MODULE MCLeaseSeats ----------------------------
(* Instances of LeaseSeats for TLC.                                        *)
EXTENDS LeaseSeats, TLC

CONSTANTS l1, l2, h1, h2, h3, n1, n2, n3, p1, p2, p3

DefaultPolicy ==
  [revoked |-> "reclaim", suspended |-> "timer", expired |-> "timer"]
EagerPolicy ==
  [revoked |-> "reclaim", suspended |-> "reclaim", expired |-> "reclaim"]

(* Seats: time stands still; l1 sells one base seat and one overage seat   *)
(* and has three holders with a token each, so a third acquire is refused; *)
(* l2 sells one hard seat; one token reaches both licenses.                *)
SeatsLicenses == {l1, l2}
SeatsMax      == (l1 :> 1) @@ (l2 :> 1)
SeatsOverage  == (l1 :> 1) @@ (l2 :> 0)
SeatsExpiry   == (l1 :> 9) @@ (l2 :> 9)
SeatsPolicy   == (l1 :> DefaultPolicy) @@ (l2 :> EagerPolicy)
SeatsTokens   == (l1 :> {n1, n2, n3}) @@ (l2 :> {n3})

(* Timing: one license that expires during the run, with an overage seat.  *)
TimingLicenses == {l1}
TimingMax      == (l1 :> 1)
TimingOverage  == (l1 :> 1)
TimingExpiry   == (l1 :> 5)
TimingPolicy   == (l1 :> [EagerPolicy EXCEPT !.suspended = "timer"])
TimingTokens   == (l1 :> Nonces)

(* Two questions about it, explored one at a time.  One token, operators   *)
(* and slow transactions: what a lease is worth over time.  Two tokens and *)
(* a request at a time that takes none, a holder for each and nothing      *)
(* released: two leases can be due at once, and a batch of one has to      *)
(* leave one of them behind.                                               *)
Unused(n) ==
  lease[n] = None /\ \A p \in Requests : n \notin {req[p].nonce, req[p].target}

HolderOf == (n1 :> h1) @@ (n2 :> h2) @@ (None :> None)
OneToken == \A n \in Nonces \ {n3} : Unused(n)
TwoTokens ==
  /\ Unused(n3) /\ clock + 1 < MaxClock /\ \A l \in Licenses : licStatus[l] = "active"
  /\ \A n \in Nonces : lease[n] # None => lease[n].holder = HolderOf[n] /\ lease[n].status # "released"
  /\ req[p2] = Idle /\ req[p1].holder \in {None, HolderOf[req[p1].nonce]}
  /\ req[p1].pc # "idle" => req[p1].since = clock
OneAtATime == OneToken \/ TwoTokens

Symmetry == Permutations(Holders) \union Permutations({n1, n2})
              \union Permutations({p1, p2})
=============================================================================
