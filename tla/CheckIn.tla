------------------------------ MODULE CheckIn ------------------------------
(***************************************************************************)
(* Online enforcement (src/server/modules/enforcement): validate and       *)
(* heartbeat, which re-check a machine's license and renew its short-lived *)
(* token, and the pruning of the check-ins that make a retry idempotent.   *)
(*                                                                         *)
(* A beat is one READ COMMITTED transaction.  The time it signs is that of *)
(* its BEGIN, and each of its SELECTs sees what is committed when it runs, *)
(* so between them the license, the machine and the check-in table may     *)
(* change.  Its writes show at COMMIT: until then the unique index on the  *)
(* nonce and the row lock of the anchor's UPDATE hold others back.         *)
(***************************************************************************)
EXTENDS Naturals

CONSTANTS
  Activations,   \* the machines of one license
  Nonces,        \* single-use beat identifiers, chosen by the clients
  Beats,         \* handlers running at the same time
  TTL,           \* renewalWindowSecs of the license's plan
  Retain,        \* the retention horizon of check-ins
  Expiry,        \* license.expires_at
  MaxTime,       \* bound on the clock
  None

ASSUME TimingAssumption ==
  /\ {TTL, MaxTime} \subseteq Nat \ {0} /\ Retain \in Nat /\ Expiry \in Nat
  /\ Retain >= TTL

VARIABLES
  clock,          \* PostgreSQL's clock, from 1
  license,        \* license.status
  activation,     \* activation[a]: its status
  anchor,         \* activation[a].last_anchor_at, 0 when NULL
  checkin,        \* checkin[n]: the row with nonce n
  beat,           \* the handlers
  outstanding,    \* the unexpired tokens that clients hold
  stoppedAt       \* stoppedAt[a]: when a was deactivated or its license
                  \* revoked, whichever came first (history)

vars == <<clock, license, activation, anchor, checkin, beat, outstanding,
          stoppedAt>>
-----------------------------------------------------------------------------
Time == 1 .. MaxTime
Verdicts == {"valid", "revoked", "suspended", "expired", "deactivated"}

(* stored: the token is the one its check-in row keeps.                    *)
Token == [machine : Activations, nonce : Nonces, iat : Time, exp : Nat,
          stored : BOOLEAN]

Checkin == [machine : Activations, outcome : {"renewed", "refused"},
            at : Time, exp : Nat]     \* exp: the stored token's, 0 without one

Beat == [pc : {"idle", "begun", "resolved", "evaluated"},
         machine : Activations \union {None}, nonce : Nonces \union {None},
         now : Time \union {0}, active : BOOLEAN, verdict : Verdicts]

Idle == [pc |-> "idle", machine |-> None, nonce |-> None, now |-> 0,
         active |-> FALSE, verdict |-> "valid"]

ASSUME NoneAssumption ==
  /\ None \notin Activations \union Nonces \union Checkin
  /\ None \notin Nat

TypeOK ==
  /\ clock \in Time
  /\ license \in {"active", "suspended", "revoked"}
  /\ activation \in [Activations -> {"active", "deactivated"}]
  /\ anchor \in [Activations -> Time \union {0}]
  /\ checkin \in [Nonces -> Checkin \union {None}]
  /\ beat \in [Beats -> Beat]
  /\ outstanding \subseteq Token
  /\ stoppedAt \in [Activations -> Time \union {None}]

Init ==
  /\ clock = 1
  /\ license = "active"
  /\ activation = [a \in Activations |-> "active"]
  /\ anchor = [a \in Activations |-> 0]
  /\ checkin = [n \in Nonces |-> None]
  /\ beat = [b \in Beats |-> Idle]
  /\ outstanding = {}
  /\ stoppedAt = [a \in Activations |-> None]
-----------------------------------------------------------------------------
Earlier(s, t) == IF s < t THEN s ELSE t

Becomes(b, r) == beat' = [beat EXCEPT ![b] = r]

Unmoved == UNCHANGED <<clock, license, activation, stoppedAt>>

(* evaluateEnforcement: the license's status first, then its expiry, then  *)
(* the machine.                                                            *)
Verdict(status, now, active) ==
  CASE status # "active" -> status
    [] status = "active" /\ Expiry <= now -> "expired"
    [] status = "active" /\ Expiry > now /\ ~active -> "deactivated"
    [] OTHER -> "valid"

(* mintShortLivedToken: the renewal window from the signed server time,    *)
(* and never past the license.                                             *)
TokenExpiry_WallClock(b) == Earlier(Expiry, clock + TTL)
TokenExpiry(b) == Earlier(Expiry, beat[b].now + TTL)

Deliver(b, t) ==
  outstanding' = outstanding \union
    {[machine |-> beat[b].machine, nonce |-> beat[b].nonce, iat |-> t.iat,
      exp |-> t.exp, stored |-> t.stored]}

(* BEGIN, and the transaction's time.                                      *)
Begin(b, a, n) ==
  /\ beat[b].pc = "idle"
  /\ Becomes(b, [Idle EXCEPT !.pc = "begun", !.machine = a, !.nonce = n,
                             !.now = clock])
  /\ UNCHANGED <<anchor, checkin, outstanding>> /\ Unmoved

resolveActivation(b) ==
  /\ beat[b].pc = "begun"
  /\ Becomes(b, [beat[b] EXCEPT !.pc = "resolved",
                   !.active = activation[beat[b].machine] = "active"])
  /\ UNCHANGED <<anchor, checkin, outstanding>> /\ Unmoved

(* readLicense and the verdict.  The token is signed before the check-in   *)
(* is looked up, from values the beat already has.                         *)
readLicense(b) ==
  /\ beat[b].pc = "resolved"
  /\ LET v == Verdict(license, beat[b].now, beat[b].active) IN
       Becomes(b, [beat[b] EXCEPT !.verdict = v, !.active = FALSE,
                     !.pc = "evaluated"])
  /\ UNCHANGED <<anchor, checkin, outstanding>> /\ Unmoved

(* recordCheckin finds a row: the same machine's retry gets the stored     *)
(* token, or the one just minted when the row keeps none; a refused retry  *)
(* and another machine's nonce (409) get nothing.                          *)
Replay(b) ==
  /\ beat[b].pc = "evaluated"
  /\ checkin[beat[b].nonce] # None
  /\ LET row == checkin[beat[b].nonce] IN
       IF beat[b].verdict = "valid" /\ row.machine = beat[b].machine
       THEN Deliver(b, IF row.outcome = "renewed"
                       THEN [iat |-> row.at, exp |-> row.exp, stored |-> TRUE]
                       ELSE [iat |-> beat[b].now, exp |-> TokenExpiry(b),
                             stored |-> FALSE])
       ELSE UNCHANGED outstanding
  /\ Becomes(b, Idle)
  /\ UNCHANGED <<anchor, checkin>> /\ Unmoved

(* advanceAnchor: the guarded UPDATE, on the row as it is when it commits. *)
advanceAnchor_Unguarded(b) ==
  anchor' = [anchor EXCEPT ![beat[b].machine] = beat[b].now]

advanceAnchor(b) ==
  anchor' = [anchor EXCEPT ![beat[b].machine] =
               IF @ <= beat[b].now THEN beat[b].now ELSE @]

(* No row at the INSERT: the check-in, the anchor and COMMIT.              *)
recordCheckin(b) ==
  /\ beat[b].pc = "evaluated"
  /\ checkin[beat[b].nonce] = None
  /\ LET ok == beat[b].verdict = "valid" IN
       /\ checkin' = [checkin EXCEPT ![beat[b].nonce] =
            [machine |-> beat[b].machine, at |-> beat[b].now,
             outcome |-> IF ok THEN "renewed" ELSE "refused",
             exp |-> IF ok THEN TokenExpiry(b) ELSE 0]]
       /\ IF ok
          THEN /\ advanceAnchor(b)
               /\ Deliver(b, [iat |-> beat[b].now, exp |-> TokenExpiry(b),
                              stored |-> TRUE])
          ELSE UNCHANGED <<anchor, outstanding>>
  /\ Becomes(b, Idle)
  /\ Unmoved

(* The signer's 503, the race for the nonce lost (409), a lost connection. *)
Rollback(b) ==
  /\ beat[b].pc # "idle"
  /\ Becomes(b, Idle)
  /\ UNCHANGED <<anchor, checkin, outstanding>> /\ Unmoved

(* pruneExpiredCheckins, which an operator runs.                           *)
PruneDue_NoHorizon(n) == checkin[n] # None /\ checkin[n].at < clock
PruneDue(n) == checkin[n] # None /\ checkin[n].at + Retain < clock

pruneExpiredCheckins ==
  /\ \E n \in Nonces : PruneDue(n)
  /\ checkin' = [n \in Nonces |-> IF PruneDue(n) THEN None ELSE checkin[n]]
  /\ UNCHANGED <<anchor, beat, outstanding>> /\ Unmoved
-----------------------------------------------------------------------------
(* What others do meanwhile.                                               *)

Stopped(a) == IF stoppedAt[a] = None THEN clock ELSE stoppedAt[a]

deactivate(a) ==
  /\ activation[a] = "active"
  /\ activation' = [activation EXCEPT ![a] = "deactivated"]
  /\ stoppedAt' = [stoppedAt EXCEPT ![a] = Stopped(a)]
  /\ UNCHANGED <<clock, license, anchor, checkin, beat, outstanding>>

SetLicense(from, to) ==
  /\ license \in from
  /\ license' = to
  /\ UNCHANGED <<clock, activation, anchor, checkin, beat, outstanding>>

suspendLicense   == SetLicense({"active"}, "suspended") /\ UNCHANGED stoppedAt
reinstateLicense == SetLicense({"suspended"}, "active") /\ UNCHANGED stoppedAt
revokeLicense    == /\ SetLicense({"active", "suspended"}, "revoked")
                    /\ stoppedAt' = [a \in Activations |-> Stopped(a)]

(* A client has no use for an expired token.                               *)
Tick ==
  /\ clock < MaxTime
  /\ clock' = clock + 1
  /\ outstanding' = {t \in outstanding : t.exp > clock + 1}
  /\ UNCHANGED <<license, activation, anchor, checkin, beat, stoppedAt>>
-----------------------------------------------------------------------------
runEnforcement(b) ==
  \/ \E a \in Activations, n \in Nonces : Begin(b, a, n)
  \/ resolveActivation(b) \/ readLicense(b)
  \/ Replay(b) \/ recordCheckin(b) \/ Rollback(b)

Next ==
  \/ \E b \in Beats : runEnforcement(b)
  \/ \E a \in Activations : deactivate(a)
  \/ pruneExpiredCheckins
  \/ suspendLicense \/ reinstateLicense \/ revokeLicense
  \/ Tick

Spec == Init /\ [][Next]_vars
-----------------------------------------------------------------------------
(* Bounded staleness (FR-005): what a revoked license's machines, or a     *)
(* deactivated machine, still hold lapses within one renewal window of the *)
(* operator's change, however long a beat that had read the old status     *)
(* takes to answer.                                                        *)
StalenessBounded ==
  \A t \in outstanding :
    stoppedAt[t.machine] # None => t.exp <= stoppedAt[t.machine] + TTL

(* The floor of the clock check (FR-014) is at or above the signed time of *)
(* every renewal that was recorded, although beats commit in another order *)
(* than they began in.                                                     *)
AnchorCoversRenewals ==
  \A t \in outstanding : t.stored => anchor[t.machine] >= t.iat

(* A beat's identifier is good for one token at a time (FR-008): retries,  *)
(* races for it, another machine that reuses it and the pruning of its row *)
(* never leave two different renewals of it alive.                         *)
OneRenewalPerNonce ==
  \A t, u \in outstanding :
    t.stored /\ u.stored /\ t.nonce = u.nonce =>
      t = u \/ t.exp <= clock \/ u.exp <= clock

-----------------------------------------------------------------------------
(* What the comments say and the code does not do.                         *)

(* checkin-repo.ts on a retry: "its stored outcome/renewed_token are       *)
(* REPLAYED (replayed: true; no second token minted, no anchor advance)".  *)
(* So whatever a client holds was recorded.  The retry of a refused beat,  *)
(* once the license is reinstated, gets a token nobody recorded, and a new *)
(* one each time it is sent.                                               *)
EveryTokenRecorded == \A t \in outstanding : t.stored
=============================================================================
