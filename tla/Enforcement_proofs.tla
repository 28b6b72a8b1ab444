------------------------- MODULE Enforcement_proofs -------------------------
(***************************************************************************)
(* For every set of machines, nonces and handlers, and every window,       *)
(* horizon and expiry with Retain >= TTL: what CheckIn promises of the     *)
(* tokens clients hold.  A token is only what a row or a running beat      *)
(* gave it, so the invariant says the same of the three: none is dated     *)
(* after the stop of its machine, and each recorded one is the row's.      *)
(* And for every set of licenses, machines and workers: the revocation     *)
(* list names nobody in good standing.                                     *)
(***************************************************************************)
EXTENDS CheckIn, Sequences, TLAPS

(* A stop has a date that has come, and a cause that stays.                *)
StopShape ==
  \A a \in Activations : stoppedAt[a] # None =>
    /\ stoppedAt[a] <= clock
    /\ activation[a] = "deactivated" \/ license = "revoked"

(* A running beat is some machine's and began in the past; with good news, *)
(* or half of it, it began before the machine was stopped.                 *)
OnTime(r) ==
  LET stop == stoppedAt[r.machine]
  IN  /\ r.pc # "idle" => /\ r.machine \in Activations /\ r.nonce \in Nonces
                          /\ r.now \in Time /\ r.now <= clock
      /\ r.pc = "resolved" /\ r.active /\ stop # None =>
           (r.now <= stop \/ license = "revoked")
      /\ r.pc = "evaluated" /\ r.verdict = "valid" /\ stop # None => r.now <= stop

BeatsOnTime == \A b \in Beats : OnTime(beat[b])

(* What a renewal of machine a signed at iat until exp satisfies.          *)
Bounded(a, iat, exp) ==
  /\ iat <= clock /\ exp <= iat + TTL
  /\ stoppedAt[a] # None => exp <= stoppedAt[a] + TTL

RowsBounded ==
  \A n \in Nonces : checkin[n] # None /\ checkin[n].outcome = "renewed" =>
    /\ Bounded(checkin[n].machine, checkin[n].at, checkin[n].exp)
    /\ checkin[n].at <= anchor[checkin[n].machine]

TokensBounded ==
  \A t \in outstanding :
    /\ Bounded(t.machine, t.iat, t.exp)
    /\ t.stored => t.iat <= anchor[t.machine]

(* A recorded token that has not expired is the one its row keeps.         *)
TokensRecorded ==
  \A t \in outstanding : t.stored /\ clock < t.exp =>
    /\ checkin[t.nonce] # None
    /\ checkin[t.nonce] = [machine |-> t.machine, outcome |-> "renewed",
                           at |-> t.iat, exp |-> t.exp]

BeatsInv == StopShape /\ BeatsOnTime
TokensInv == RowsBounded /\ TokensBounded /\ TokensRecorded
CheckInInv == TypeOK /\ BeatsInv /\ TokensInv

LEMMA Instants ==
  /\ Time \subseteq Nat /\ 1 \in Time
  /\ TTL \in Nat /\ Retain \in Nat /\ Expiry \in Nat /\ MaxTime \in Nat /\ Retain >= TTL
BY TimingAssumption DEF Time

LEMMA AnchorRange == Time \union {0} \subseteq Nat
BY Instants

LEMMA StateInstants ==
  ASSUME TypeOK
  PROVE  /\ clock \in Nat
         /\ \A a \in Activations : anchor[a] \in Nat
         /\ \A a \in Activations : stoppedAt[a] # None => stoppedAt[a] \in Nat
<1>1. clock \in Nat
  BY Instants DEF TypeOK
<1>2. ASSUME NEW a \in Activations
      PROVE  anchor[a] \in Nat /\ (stoppedAt[a] # None => stoppedAt[a] \in Nat)
  <2>1. anchor[a] \in Time \union {0} /\ stoppedAt[a] \in Time \union {None}
    BY DEF TypeOK
  <2> QED
    BY <2>1, AnchorRange, Instants
<1> QED
  BY <1>1, <1>2

LEMMA TokenShape ==
  ASSUME TypeOK, NEW u \in outstanding
  PROVE  /\ u \in Token /\ u.machine \in Activations /\ u.nonce \in Nonces
         /\ u.iat \in Nat /\ u.exp \in Nat
BY Instants DEF TypeOK, Token

LEMMA RowShape ==
  ASSUME TypeOK, NEW n \in Nonces, checkin[n] # None
  PROVE  /\ checkin[n] \in Checkin /\ checkin[n].machine \in Activations
         /\ checkin[n].at \in Time /\ checkin[n].at \in Nat /\ checkin[n].exp \in Nat
BY Instants DEF TypeOK, Checkin

LEMMA InitCheckInInv == Init => CheckInInv
<1> SUFFICES ASSUME Init PROVE CheckInInv
  OBVIOUS
<1>1. Idle \in Beat
  BY DEF Idle, Beat, Verdicts
<1>2. TypeOK
  BY <1>1, Instants DEF Init, TypeOK
<1> QED
  BY <1>2 DEF Init, CheckInInv, BeatsInv, TokensInv, StopShape, BeatsOnTime,
     OnTime, RowsBounded, TokensBounded, TokensRecorded, Idle
-----------------------------------------------------------------------------
(* The steps of a beat up to its verdict, and its failure: nothing but the *)
(* beat moves.                                                             *)
LEMMA BeatStep ==
  ASSUME CheckInInv, NEW b \in Beats,
         \/ \E a \in Activations, n \in Nonces : Begin(b, a, n)
         \/ resolveActivation(b) \/ readLicense(b) \/ Rollback(b)
  PROVE  CheckInInv'
<1>1. UNCHANGED <<clock, license, activation, anchor, checkin, outstanding, stoppedAt>>
  BY DEF Begin, resolveActivation, readLicense, Rollback, Unmoved
<1>2. PICK r \in Beat : Becomes(b, r) /\ OnTime(r)
  <2> USE DEF CheckInInv, BeatsInv, TypeOK
  <2>1. Idle \in Beat /\ Idle.pc = "idle"
    BY DEF Idle, Beat, Verdicts
  <2>2. ASSUME NEW a \in Activations, NEW n \in Nonces, Begin(b, a, n)
        PROVE  \E r \in Beat : Becomes(b, r) /\ OnTime(r)
    <3> DEFINE r == [Idle EXCEPT !.pc = "begun", !.machine = a, !.nonce = n, !.now = clock]
    <3>1. /\ r \in Beat /\ r.pc = "begun" /\ r.machine = a /\ r.nonce = n /\ r.now = clock
      BY DEF Idle, Beat, Verdicts
    <3>2. Becomes(b, r)
      BY <2>2 DEF Begin
    <3>3. clock \in Time /\ clock <= clock
      BY Instants
    <3>4. OnTime(r)
      BY <2>2, <3>1, <3>3 DEF OnTime
    <3> QED
      BY <3>1, <3>2, <3>4
  <2>3. CASE resolveActivation(b)
    <3> DEFINE r == [beat[b] EXCEPT !.pc = "resolved",
                                    !.active = activation[beat[b].machine] = "active"]
    <3>1. /\ r \in Beat /\ r.pc = "resolved" /\ r.machine = beat[b].machine
          /\ r.nonce = beat[b].nonce /\ r.now = beat[b].now
          /\ r.active = (activation[beat[b].machine] = "active")
      BY DEF Beat
    <3>2. Becomes(b, r) /\ beat[b].pc = "begun"
      BY <2>3 DEF resolveActivation
    <3> QED
      BY <3>1, <3>2 DEF BeatsOnTime, OnTime, StopShape
  <2>4. CASE readLicense(b)
    <3> DEFINE v == Verdict(license, beat[b].now, beat[b].active)
               r == [beat[b] EXCEPT !.verdict = v, !.active = FALSE, !.pc = "evaluated"]
    <3>0. Becomes(b, r) /\ beat[b].pc = "resolved" /\ beat[b].now \in Nat
          /\ beat[b].active \in BOOLEAN
      BY <2>4, Instants DEF readLicense, BeatsOnTime, OnTime, Beat
    <3>1. v \in Verdicts /\ (v = "valid" => license = "active" /\ beat[b].active)
      BY <3>0, TimingAssumption DEF Verdict, Verdicts
    <3>2. /\ r \in Beat /\ r.pc = "evaluated" /\ r.machine = beat[b].machine
          /\ r.nonce = beat[b].nonce /\ r.now = beat[b].now /\ r.verdict = v
      BY <3>1 DEF Beat
    <3> QED
      BY <3>0, <3>1, <3>2 DEF BeatsOnTime, OnTime
  <2>5. CASE Rollback(b)
    BY <2>1, <2>5 DEF Rollback, OnTime
  <2> QED
    BY <2>2, <2>3, <2>4, <2>5
<1>3. beat' \in [Beats -> Beat] /\ beat'[b] = r /\ \A c \in Beats \ {b} : beat'[c] = beat[c]
  BY <1>2 DEF Becomes, CheckInInv, TypeOK
<1>4. TypeOK'
  BY <1>1, <1>3 DEF CheckInInv, TypeOK
<1>5. BeatsInv'
  BY <1>1, <1>2, <1>3 DEF CheckInInv, BeatsInv, StopShape, BeatsOnTime, OnTime
<1>6. TokensInv'
  BY <1>1 DEF CheckInInv, TokensInv, RowsBounded, TokensBounded, TokensRecorded, Bounded
<1> QED
  BY <1>4, <1>5, <1>6 DEF CheckInInv

(* A beat that answers leaves the others as they were.                     *)
LEMMA BeatEnds ==
  ASSUME CheckInInv, NEW b \in Beats, Becomes(b, Idle), Unmoved
  PROVE  beat' \in [Beats -> Beat] /\ BeatsInv'
<1>1. Idle \in Beat /\ Idle.pc = "idle"
  BY DEF Idle, Beat, Verdicts
<1>2. beat' \in [Beats -> Beat] /\ beat'[b] = Idle /\ \A c \in Beats \ {b} : beat'[c] = beat[c]
  BY <1>1 DEF Becomes, CheckInInv, TypeOK
<1>3. OnTime(Idle)'
  BY <1>1 DEF OnTime
<1> QED
  BY <1>2, <1>3 DEF Unmoved, CheckInInv, BeatsInv, StopShape, BeatsOnTime, OnTime

(* What an evaluated beat knows, and the token it may mint.                *)
LEMMA Minted ==
  ASSUME CheckInInv, NEW b \in Beats, beat[b].pc = "evaluated"
  PROVE  /\ beat[b].machine \in Activations /\ beat[b].nonce \in Nonces
         /\ beat[b].now \in Time /\ TokenExpiry(b) \in Nat
         /\ beat[b].verdict = "valid" =>
              Bounded(beat[b].machine, beat[b].now, TokenExpiry(b))
<1>1. OnTime(beat[b]) /\ beat[b].pc # "idle"
  BY DEF CheckInInv, BeatsInv, BeatsOnTime
<1>2. /\ beat[b].machine \in Activations /\ beat[b].nonce \in Nonces
      /\ beat[b].now \in Time /\ beat[b].now \in Nat /\ beat[b].now <= clock
  BY <1>1, Instants DEF OnTime
<1>3. TokenExpiry(b) \in Nat /\ TokenExpiry(b) <= beat[b].now + TTL
  BY <1>2, TimingAssumption DEF TokenExpiry, Earlier
<1>4. stoppedAt[beat[b].machine] \in Time \union {None}
  BY <1>2 DEF CheckInInv, TypeOK
<1> QED
  BY <1>1, <1>2, <1>3, <1>4, Instants, StateInstants DEF OnTime, Bounded, CheckInInv

(* A retry is answered with what its row keeps, or with a token made now.  *)
LEMMA ReplayStep ==
  ASSUME CheckInInv, NEW b \in Beats, Replay(b)
  PROVE  CheckInInv'
<1> DEFINE r == beat[b]
           row == checkin[r.nonce]
           stored == row.outcome = "renewed"
           t == [machine |-> r.machine, nonce |-> r.nonce,
                 iat |-> IF stored THEN row.at ELSE r.now,
                 exp |-> IF stored THEN row.exp ELSE TokenExpiry(b), stored |-> stored]
<1>1. UNCHANGED <<clock, license, activation, anchor, checkin, stoppedAt>>
      /\ Becomes(b, Idle) /\ Unmoved
  BY DEF Replay, Unmoved
<1>2. /\ r.pc = "evaluated" /\ r.machine \in Activations /\ r.nonce \in Nonces
      /\ r.now \in Time /\ TokenExpiry(b) \in Nat
      /\ checkin[r.nonce] # None /\ row \in Checkin /\ row.exp \in Nat /\ row.at \in Time
  BY Minted DEF Replay, CheckInInv, TypeOK, Checkin
<1>3. beat' \in [Beats -> Beat] /\ BeatsInv'
  BY <1>1, BeatEnds
<1>4. RowsBounded'
  BY <1>1 DEF CheckInInv, TokensInv, RowsBounded, Bounded
<1>5. CASE UNCHANGED outstanding
  BY <1>1, <1>3, <1>4, <1>5
     DEF CheckInInv, TypeOK, TokensInv, TokensBounded, TokensRecorded, Bounded
<1>6. CASE r.verdict = "valid" /\ row.machine = r.machine /\ outstanding' = outstanding \union {t}
  <2>1. t \in Token
    BY <1>2 DEF Token
  <2>2. Bounded(t.machine, t.iat, t.exp) /\ (t.stored => t.iat <= anchor[t.machine])
    BY <1>2, <1>6, Minted DEF CheckInInv, TokensInv, RowsBounded
  <2>3. t.stored => checkin[t.nonce] = [machine |-> t.machine, outcome |-> "renewed",
                                        at |-> t.iat, exp |-> t.exp]
    BY <1>2, <1>6 DEF Checkin
  <2>4. TokensBounded'
    BY <1>1, <1>6, <2>2 DEF CheckInInv, TokensInv, TokensBounded, Bounded
  <2>5. TokensRecorded'
    BY <1>1, <1>2, <1>6, <2>3 DEF CheckInInv, TokensInv, TokensRecorded
  <2>6. outstanding' \subseteq Token
    BY <1>6, <2>1 DEF CheckInInv, TypeOK
  <2> QED
    BY <1>1, <1>3, <1>4, <2>4, <2>5, <2>6 DEF CheckInInv, TypeOK, TokensInv
<1>7. \/ UNCHANGED outstanding
      \/ r.verdict = "valid" /\ row.machine = r.machine /\ outstanding' = outstanding \union {t}
  <2>1. CASE stored
    BY <2>1 DEF Replay, Deliver
  <2>2. CASE ~stored
    BY <2>2 DEF Replay, Deliver
  <2> QED
    BY <2>1, <2>2
<1> QED
  BY <1>5, <1>6, <1>7

(* A new row, and with good news its token and the anchor that covers it.  *)
LEMMA RecordStep ==
  ASSUME CheckInInv, NEW b \in Beats, recordCheckin(b)
  PROVE  CheckInInv'
<1> DEFINE r == beat[b]
           ok == r.verdict = "valid"
           row == [machine |-> r.machine, at |-> r.now,
                   outcome |-> IF ok THEN "renewed" ELSE "refused",
                   exp |-> IF ok THEN TokenExpiry(b) ELSE 0]
           t == [machine |-> r.machine, nonce |-> r.nonce, iat |-> r.now,
                 exp |-> TokenExpiry(b), stored |-> TRUE]
<1>1. UNCHANGED <<clock, license, activation, stoppedAt>> /\ Becomes(b, Idle) /\ Unmoved
  BY DEF recordCheckin, Unmoved
<1>2. /\ r.machine \in Activations /\ r.nonce \in Nonces
      /\ r.now \in Time /\ TokenExpiry(b) \in Nat
      /\ ok => Bounded(r.machine, r.now, TokenExpiry(b))
      /\ checkin[r.nonce] = None
  BY Minted DEF recordCheckin
<1>3. beat' \in [Beats -> Beat] /\ BeatsInv'
  BY <1>1, BeatEnds
<1>4. checkin' = [checkin EXCEPT ![r.nonce] = row]
  BY DEF recordCheckin
<1>5. row \in Checkin /\ row # None
  BY <1>2, NoneAssumption DEF Checkin
<1>6. checkin' \in [Nonces -> Checkin \union {None}]
  BY <1>4, <1>5 DEF CheckInInv, TypeOK
<1>7. /\ anchor' \in [Activations -> Time \union {0}]
      /\ \A a \in Activations : anchor[a] <= anchor'[a]
      /\ ok => r.now <= anchor'[r.machine]
  <2>1. /\ anchor \in [Activations -> Time \union {0}] /\ r.now \in Nat
        /\ \A a \in Activations : anchor[a] \in Nat
    BY <1>2, Instants, StateInstants DEF CheckInInv, TypeOK
  <2>2. CASE ok
    <3>1. anchor' = [anchor EXCEPT ![r.machine] = IF @ <= r.now THEN r.now ELSE @]
      BY <2>2 DEF recordCheckin, advanceAnchor
    <3> QED
      BY <1>2, <2>1, <3>1
  <2>3. CASE ~ok
    <3>1. anchor' = anchor
      BY <2>3 DEF recordCheckin
    <3> QED
      BY <2>1, <2>3, <3>1
  <2> QED
    BY <2>2, <2>3
<1>8. outstanding' = IF ok THEN outstanding \union {t} ELSE outstanding
  BY DEF recordCheckin, Deliver
<1>9. outstanding' \subseteq Token
  <2>1. t \in Token
    BY <1>2 DEF Token
  <2> QED
    BY <1>8, <2>1 DEF CheckInInv, TypeOK
<1>10. \A n \in Nonces : n # r.nonce => checkin'[n] = checkin[n]
  BY <1>4 DEF CheckInInv, TypeOK
<1>11. checkin'[r.nonce] = row
  BY <1>2, <1>4 DEF CheckInInv, TypeOK
<1>12. RowsBounded'
  <2>1. ASSUME NEW n \in Nonces, n # r.nonce, checkin[n] # None, checkin[n].outcome = "renewed"
        PROVE  checkin[n].at <= anchor'[checkin[n].machine]
    <3>1. checkin[n].at <= anchor[checkin[n].machine]
      BY <2>1 DEF CheckInInv, TokensInv, RowsBounded
    <3>2. checkin[n].machine \in Activations /\ checkin[n].at \in Nat
      BY <2>1, RowShape DEF CheckInInv
    <3>3. /\ anchor[checkin[n].machine] \in Nat /\ anchor'[checkin[n].machine] \in Nat
          /\ anchor[checkin[n].machine] <= anchor'[checkin[n].machine]
      <4>1. anchor'[checkin[n].machine] \in Time \union {0}
        BY <1>7, <3>2
      <4> QED
        BY <1>7, <3>2, <4>1, AnchorRange, StateInstants DEF CheckInInv
    <3> QED
      BY <3>1, <3>2, <3>3
  <2> QED
    BY <1>1, <1>2, <1>7, <1>10, <1>11, <2>1
       DEF CheckInInv, TokensInv, RowsBounded, Bounded
<1>13. TokensBounded'
  <2>1. ASSUME NEW u \in outstanding, u.stored PROVE u.iat <= anchor'[u.machine]
    <3>1. u.iat <= anchor[u.machine]
      BY <2>1 DEF CheckInInv, TokensInv, TokensBounded
    <3>2. u.iat \in Nat /\ u.machine \in Activations
      BY TokenShape DEF CheckInInv
    <3>3. /\ anchor[u.machine] \in Nat /\ anchor'[u.machine] \in Nat
          /\ anchor[u.machine] <= anchor'[u.machine]
      <4>1. anchor'[u.machine] \in Time \union {0}
        BY <1>7, <3>2
      <4> QED
        BY <1>7, <3>2, <4>1, AnchorRange, StateInstants DEF CheckInInv
    <3> QED
      BY <3>1, <3>2, <3>3
  <2> QED
    BY <1>1, <1>2, <1>7, <1>8, <2>1 DEF CheckInInv, TokensInv, TokensBounded, Bounded
<1>14. TokensRecorded'
  <2>1. ASSUME NEW u \in outstanding, u.stored, clock < u.exp
        PROVE  checkin'[u.nonce] = checkin[u.nonce] /\ u.nonce \in Nonces
    BY <1>2, <1>10, <2>1 DEF CheckInInv, TypeOK, TokensInv, TokensRecorded, Token
  <2> QED
    BY <1>1, <1>5, <1>8, <1>11, <2>1 DEF CheckInInv, TokensInv, TokensRecorded
<1> QED
  BY <1>1, <1>3, <1>6, <1>7, <1>9, <1>12, <1>13, <1>14 DEF CheckInInv, TypeOK, TokensInv
-----------------------------------------------------------------------------
(* A stop is dated now, unless it has a date: nothing out there outlives   *)
(* it by more than a window.                                               *)
LEMMA StopKeepsTokens ==
  ASSUME CheckInInv, UNCHANGED <<clock, anchor, checkin, beat, outstanding>>,
         NEW A \in SUBSET Activations,
         stoppedAt' = [a \in Activations |-> IF a \in A THEN Stopped(a) ELSE stoppedAt[a]],
         \A a \in Activations : activation[a] = "deactivated" => activation'[a] = "deactivated",
         license = "revoked" => license' = "revoked",
         \A a \in A : activation'[a] = "deactivated" \/ license' = "revoked"
  PROVE  /\ stoppedAt' \in [Activations -> Time \union {None}]
         /\ BeatsInv' /\ TokensInv'
<1>1. clock \in Time /\ clock \in Nat /\ TTL \in Nat
  BY Instants, TimingAssumption DEF CheckInInv, TypeOK
<1>2. stoppedAt' \in [Activations -> Time \union {None}]
  BY <1>1 DEF CheckInInv, TypeOK, Stopped
<1>3. StopShape'
  BY <1>1 DEF CheckInInv, BeatsInv, StopShape, Stopped
<1>4. \A a \in Activations : stoppedAt'[a] = stoppedAt[a] \/ stoppedAt'[a] = clock
  BY DEF Stopped
<1>5. BeatsOnTime'
  <2>1. ASSUME NEW c \in Beats PROVE OnTime(beat[c])'
    <3>1. OnTime(beat[c])
      BY DEF CheckInInv, BeatsInv, BeatsOnTime
    <3> QED
      BY <1>4, <3>1 DEF OnTime
  <2> QED
    BY <2>1 DEF BeatsOnTime
<1>6. ASSUME NEW a \in Activations, NEW iat \in Nat, NEW exp \in Nat, Bounded(a, iat, exp)
      PROVE  Bounded(a, iat, exp)'
  BY <1>1, <1>4, <1>6 DEF Bounded
<1>7. RowsBounded'
  <2>1. ASSUME NEW n \in Nonces, checkin[n] # None
        PROVE  checkin[n].machine \in Activations /\ checkin[n].at \in Nat /\ checkin[n].exp \in Nat
    BY <2>1, Instants DEF CheckInInv, TypeOK, Checkin
  <2> QED
    BY <1>6, <2>1 DEF CheckInInv, TokensInv, RowsBounded
<1>8. TokensBounded'
  <2>1. ASSUME NEW u \in outstanding
        PROVE  u.machine \in Activations /\ u.iat \in Nat /\ u.exp \in Nat
    BY Instants DEF CheckInInv, TypeOK, Token
  <2> QED
    BY <1>6, <2>1 DEF CheckInInv, TokensInv, TokensBounded
<1>9. TokensRecorded'
  BY DEF CheckInInv, TokensInv, TokensRecorded
<1> QED
  BY <1>2, <1>3, <1>5, <1>7, <1>8, <1>9 DEF BeatsInv, TokensInv

LEMMA StopStep ==
  ASSUME CheckInInv,
         (\E a \in Activations : deactivate(a)) \/ revokeLicense
  PROVE  CheckInInv'
<1>1. ASSUME NEW a \in Activations, deactivate(a) PROVE CheckInInv'
  <2>1. stoppedAt' = [c \in Activations |-> IF c \in {a} THEN Stopped(c) ELSE stoppedAt[c]]
    BY <1>1 DEF deactivate, CheckInInv, TypeOK
  <2>2. /\ activation' \in [Activations -> {"active", "deactivated"}]
        /\ activation'[a] = "deactivated"
        /\ \A c \in Activations \ {a} : activation'[c] = activation[c]
        /\ UNCHANGED <<clock, license, anchor, checkin, beat, outstanding>>
    BY <1>1 DEF deactivate, CheckInInv, TypeOK
  <2>3. stoppedAt' \in [Activations -> Time \union {None}] /\ BeatsInv' /\ TokensInv'
    <3>1. /\ {a} \in SUBSET Activations /\ (license = "revoked" => license' = "revoked")
          /\ \A c \in {a} : activation'[c] = "deactivated"
          /\ \A c \in Activations : activation[c] = "deactivated" => activation'[c] = "deactivated"
      BY <2>2
    <3> QED
      BY <2>1, <2>2, <3>1, StopKeepsTokens
  <2> QED
    BY <2>2, <2>3 DEF CheckInInv, TypeOK
<1>2. ASSUME revokeLicense PROVE CheckInInv'
  <2>1. /\ license' = "revoked" /\ UNCHANGED <<clock, activation, anchor, checkin, beat, outstanding>>
        /\ stoppedAt' = [c \in Activations |-> IF c \in Activations THEN Stopped(c) ELSE stoppedAt[c]]
    BY <1>2 DEF revokeLicense, SetLicense
  <2>2. stoppedAt' \in [Activations -> Time \union {None}] /\ BeatsInv' /\ TokensInv'
    BY <2>1, StopKeepsTokens
  <2> QED
    BY <2>1, <2>2 DEF CheckInInv, TypeOK
<1> QED
  BY <1>1, <1>2

(* Suspending and reinstating stop nothing for good.                       *)
LEMMA SuspendStep ==
  ASSUME CheckInInv, suspendLicense \/ reinstateLicense
  PROVE  CheckInInv'
<1>1. /\ license # "revoked" /\ license' \in {"active", "suspended"}
      /\ UNCHANGED <<clock, activation, anchor, checkin, beat, outstanding, stoppedAt>>
  BY DEF suspendLicense, reinstateLicense, SetLicense
<1> QED
  BY <1>1 DEF CheckInInv, TypeOK, BeatsInv, StopShape, BeatsOnTime, OnTime, TokensInv,
     RowsBounded, TokensBounded, TokensRecorded, Bounded

(* A row is pruned after its token: Retain >= TTL.                         *)
LEMMA PruneStep ==
  ASSUME CheckInInv, pruneExpiredCheckins
  PROVE  CheckInInv'
<1>1. UNCHANGED <<clock, license, activation, anchor, beat, outstanding, stoppedAt>>
  BY DEF pruneExpiredCheckins, Unmoved
<1>2. checkin' = [n \in Nonces |-> IF PruneDue(n) THEN None ELSE checkin[n]]
  BY DEF pruneExpiredCheckins
<1>3. checkin' \in [Nonces -> Checkin \union {None}]
  BY <1>2 DEF CheckInInv, TypeOK
<1>4. BeatsInv'
  BY <1>1 DEF CheckInInv, BeatsInv, StopShape, BeatsOnTime, OnTime
<1>5. RowsBounded' /\ TokensBounded'
  BY <1>1, <1>2 DEF CheckInInv, TokensInv, RowsBounded, TokensBounded, Bounded
<1>6. TokensRecorded'
  <2>1. ASSUME NEW u \in outstanding, u.stored, clock < u.exp PROVE ~PruneDue(u.nonce)
    <3>1. u.iat \in Nat /\ u.exp \in Nat /\ clock \in Nat /\ u.exp <= u.iat + TTL
      BY TokenShape, StateInstants DEF CheckInInv, TokensInv, TokensBounded, Bounded
    <3>2. checkin[u.nonce] = [machine |-> u.machine, outcome |-> "renewed",
                              at |-> u.iat, exp |-> u.exp]
      BY <2>1 DEF CheckInInv, TokensInv, TokensRecorded
    <3>3. checkin[u.nonce].at = u.iat
      BY <3>2
    <3> QED
      BY <2>1, <3>1, <3>3, Instants DEF PruneDue
  <2>2. \A u \in outstanding : u.nonce \in Nonces
    BY DEF CheckInInv, TypeOK, Token
  <2> QED
    BY <1>1, <1>2, <2>1, <2>2 DEF CheckInInv, TokensInv, TokensRecorded
<1> QED
  BY <1>1, <1>3, <1>4, <1>5, <1>6 DEF CheckInInv, TypeOK, TokensInv

LEMMA TickStep ==
  ASSUME CheckInInv, Tick
  PROVE  CheckInInv'
<1>1. /\ clock' = clock + 1 /\ clock' \in Time /\ clock \in Nat
      /\ UNCHANGED <<license, activation, anchor, checkin, beat, stoppedAt>>
      /\ outstanding' \subseteq outstanding
  BY TimingAssumption DEF Tick, CheckInInv, TypeOK, Time
<1>2. StopShape'
  BY <1>1, StateInstants DEF CheckInInv, BeatsInv, StopShape
<1>3. BeatsOnTime'
  <2>1. ASSUME NEW c \in Beats PROVE OnTime(beat[c])'
    <3>1. OnTime(beat[c])
      BY DEF CheckInInv, BeatsInv, BeatsOnTime
    <3>2. beat[c].pc # "idle" => beat[c].now \in Nat
      BY <3>1, Instants DEF OnTime
    <3> QED
      BY <1>1, <3>1, <3>2 DEF OnTime
  <2> QED
    BY <2>1 DEF BeatsOnTime
<1>4. ASSUME NEW a, NEW iat \in Nat, NEW exp, Bounded(a, iat, exp) PROVE Bounded(a, iat, exp)'
  BY <1>1, <1>4 DEF Bounded
<1>5. RowsBounded'
  <2>1. \A n \in Nonces : checkin[n] # None => checkin[n].at \in Nat
    BY Instants DEF CheckInInv, TypeOK, Checkin
  <2> QED
    BY <1>1, <1>4, <2>1 DEF CheckInInv, TokensInv, RowsBounded
<1>6. TokensBounded'
  <2>1. \A u \in outstanding : u.iat \in Nat
    BY Instants DEF CheckInInv, TypeOK, Token
  <2> QED
    BY <1>1, <1>4, <2>1 DEF CheckInInv, TokensInv, TokensBounded
<1>7. TokensRecorded'
  <2>1. \A u \in outstanding : u.exp \in Nat
    BY DEF CheckInInv, TypeOK, Token
  <2> QED
    BY <1>1, <2>1 DEF CheckInInv, TokensInv, TokensRecorded
<1> QED
  BY <1>1, <1>2, <1>3, <1>5, <1>6, <1>7 DEF CheckInInv, TypeOK, BeatsInv, TokensInv
-----------------------------------------------------------------------------
LEMMA NextCheckInInv == CheckInInv /\ [Next]_vars => CheckInInv'
<1> SUFFICES ASSUME CheckInInv, [Next]_vars PROVE CheckInInv'
  OBVIOUS
<1>1. ASSUME NEW b \in Beats, runEnforcement(b) PROVE CheckInInv'
  BY <1>1, BeatStep, ReplayStep, RecordStep DEF runEnforcement
<1>2. CASE UNCHANGED vars
  BY <1>2 DEF vars, CheckInInv, TypeOK, BeatsInv, StopShape, BeatsOnTime, OnTime, TokensInv,
     RowsBounded, TokensBounded, TokensRecorded, Bounded
<1> QED
  BY <1>1, <1>2, StopStep, SuspendStep, PruneStep, TickStep DEF Next

THEOREM CheckInInvariant == Spec => []CheckInInv
<1> QED
  BY InitCheckInInv, NextCheckInInv, PTL DEF Spec

(* Validate and heartbeat keep to their types.                             *)
THEOREM CheckInTypeCorrect == Spec => []TypeOK
<1>1. CheckInInv => TypeOK
  BY DEF CheckInInv
<1> QED
  BY <1>1, CheckInInvariant, PTL

(* What a stopped machine holds lapses within one renewal window of the    *)
(* stop, whatever its running beats had read.                              *)
THEOREM StalenessIsBounded == Spec => []StalenessBounded
<1>1. CheckInInv => StalenessBounded
  BY DEF CheckInInv, TokensInv, TokensBounded, Bounded, StalenessBounded
<1> QED
  BY <1>1, CheckInInvariant, PTL

(* No recorded renewal is dated after the anchor of its machine.           *)
THEOREM AnchorIsAFloor == Spec => []AnchorCoversRenewals
<1>1. CheckInInv => AnchorCoversRenewals
  <2> SUFFICES ASSUME CheckInInv, NEW t \in outstanding, t.stored
               PROVE  anchor[t.machine] >= t.iat
    BY DEF AnchorCoversRenewals
  <2>1. t.iat <= anchor[t.machine]
    BY DEF CheckInInv, TokensInv, TokensBounded
  <2>2. t.iat \in Nat /\ anchor[t.machine] \in Nat
    BY TokenShape, StateInstants DEF CheckInInv
  <2> QED
    BY <2>1, <2>2
<1> QED
  BY <1>1, CheckInInvariant, PTL

(* Retries, races and pruning leave one live renewal to a nonce.           *)
THEOREM OneRenewal == Spec => []OneRenewalPerNonce
<1>1. CheckInInv => OneRenewalPerNonce
  <2> SUFFICES ASSUME CheckInInv, NEW t \in outstanding, NEW u \in outstanding,
                      t.stored, u.stored, t.nonce = u.nonce,
                      ~(t.exp <= clock), ~(u.exp <= clock)
               PROVE  t = u
    BY DEF OneRenewalPerNonce
  <2>1. /\ t \in Token /\ u \in Token /\ clock \in Nat
        /\ t.exp \in Nat /\ u.exp \in Nat
    BY TokenShape, StateInstants DEF CheckInInv
  <2>2. clock < t.exp /\ clock < u.exp
    BY <2>1
  <2>3. /\ checkin[t.nonce] = [machine |-> t.machine, outcome |-> "renewed",
                               at |-> t.iat, exp |-> t.exp]
        /\ checkin[u.nonce] = [machine |-> u.machine, outcome |-> "renewed",
                               at |-> u.iat, exp |-> u.exp]
    BY <2>2 DEF CheckInInv, TokensInv, TokensRecorded
  <2>4. t.machine = u.machine /\ t.iat = u.iat /\ t.exp = u.exp
    BY <2>3
  <2> QED
    BY <2>1, <2>4 DEF Token
<1> QED
  BY <1>1, CheckInInvariant, PTL
-----------------------------------------------------------------------------
(***************************************************************************)
(* The revocation list.  It shares nothing with the beats but the changes  *)
(* it projects, so it is an instance of its own.                           *)
(***************************************************************************)
CONSTANTS Licenses, Machines, Workers, Clients, MaxDue, MaxFaults

VARIABLES licenses, machines, published, due, dues, faults, worker, trusted

List == INSTANCE Crl WITH
  Activations <- Machines, license <- licenses, activation <- machines

(* What a worker has projected is revoked, and it signs nothing else.      *)
ListInv ==
  /\ List!TypeOK
  /\ List!ListsOnlyRevoked
  /\ \A w \in Workers : worker[w].ids \subseteq List!Revoked

LEMMA IdleWorker == List!Idle \in List!Worker /\ List!Idle.ids = {}
BY DEF List!Idle, List!Worker

LEMMA InitListInv ==
  ASSUME MaxDue \in Nat, MaxFaults \in Nat
  PROVE  List!Init => ListInv
<1> SUFFICES ASSUME List!Init PROVE ListInv
  OBVIOUS
<1>1. List!Latest = 0
  BY DEF List!Init, List!Latest
<1>2. List!TypeOK
  <2>1. /\ published \in Seq(SUBSET List!Ids) /\ due \in BOOLEAN
        /\ dues \in 0 .. MaxDue /\ faults \in 0 .. MaxFaults
    <3>1. published = <<>> /\ due = FALSE /\ dues = 0 /\ faults = 0
      BY DEF List!Init
    <3>2. published \in Seq(SUBSET List!Ids)
      BY <3>1
    <3>3. due \in BOOLEAN
      BY <3>1
    <3>4. dues \in 0 .. MaxDue /\ faults \in 0 .. MaxFaults
      BY <3>1
    <3> QED
      BY <3>2, <3>3, <3>4
  <2>2. trusted \in [Clients -> 0 .. List!Latest]
    BY <1>1 DEF List!Init
  <2>3. worker \in [Workers -> List!Worker]
    BY IdleWorker DEF List!Init
  <2> QED
    BY <2>1, <2>2, <2>3 DEF List!Init, List!TypeOK
<1>3. List!ListsOnlyRevoked
  BY <1>1 DEF List!ListsOnlyRevoked
<1> QED
  BY <1>2, <1>3, IdleWorker DEF List!Init, ListInv

(* What is revoked stays revoked.                                          *)
LEMMA RevocationsStand ==
  ASSUME List!TypeOK, [List!Next]_List!vars
  PROVE  List!Revoked \subseteq List!Revoked'
<1>1. CASE UNCHANGED <<licenses, machines>>
  BY <1>1 DEF List!Revoked
<1>2. ASSUME NEW l \in Licenses, NEW from \in {{"active"}, {"suspended"}, {"active", "suspended"}},
             NEW to, List!SetLicense(l, from, to)
      PROVE  List!Revoked \subseteq List!Revoked'
  BY <1>2 DEF List!SetLicense, List!Revoked, List!TypeOK
<1>3. ASSUME NEW a \in Machines, List!deactivate(a)
      PROVE  List!Revoked \subseteq List!Revoked'
  BY <1>3 DEF List!deactivate, List!Revoked, List!TypeOK
<1> QED
  BY <1>1, <1>2, <1>3
     DEF List!Next, List!vars, List!publishIfStale, List!Sweep, List!Count, List!Decide,
         List!ProjectAgain, List!CollectAgain, List!Project, List!Collect, List!Number,
         List!Insert, List!LoseRace, List!Fail, List!FallDue, List!Fetch,
         List!suspendLicense, List!reinstateLicense, List!revokeLicense

(* A step of a worker's own.                                               *)
LEMMA WorkerStep ==
  ASSUME ListInv, NEW w \in Workers, NEW r \in List!Worker, List!Becomes(w, r),
         r.ids \subseteq List!Revoked, UNCHANGED <<licenses, machines, published, trusted>>,
         due' \in BOOLEAN, dues' \in 0 .. MaxDue, faults' \in 0 .. MaxFaults
  PROVE  ListInv'
<1>1. List!Revoked' = List!Revoked /\ List!Latest' = List!Latest
  BY DEF List!Revoked, List!Latest
<1>2. worker' \in [Workers -> List!Worker]
  BY DEF ListInv, List!TypeOK, List!Becomes
<1>3. \A v \in Workers : worker'[v].ids \subseteq List!Revoked'
  BY <1>1 DEF ListInv, List!TypeOK, List!Becomes
<1>4. List!TypeOK'
  BY <1>1, <1>2 DEF ListInv, List!TypeOK
<1>5. List!ListsOnlyRevoked'
  BY <1>1 DEF ListInv, List!ListsOnlyRevoked, List!Listed
<1> QED
  BY <1>3, <1>4, <1>5 DEF ListInv

LEMMA NextListInv ==
  ASSUME MaxDue \in Nat, MaxFaults \in Nat
  PROVE  ListInv /\ [List!Next]_List!vars => ListInv'
<1> SUFFICES ASSUME ListInv, [List!Next]_List!vars PROVE ListInv'
  OBVIOUS
<1>0. /\ List!TypeOK /\ due \in BOOLEAN /\ dues \in 0 .. MaxDue /\ faults \in 0 .. MaxFaults
      /\ \A w \in Workers : worker[w] \in List!Worker /\ worker[w].ids \subseteq List!Revoked
  BY DEF ListInv, List!TypeOK
<1>1. List!RevokedLicenses \subseteq List!Revoked /\ List!DeactivatedMachines \subseteq List!Revoked
      /\ List!Revoked \subseteq List!Ids
  BY DEF List!RevokedLicenses, List!DeactivatedMachines, List!Revoked, List!Ids
<1>2. ASSUME NEW w \in Workers, NEW from, NEW to \in {"counting", "collecting"}, List!Project(w, from, to)
      PROVE  ListInv'
  <2> DEFINE r == [worker[w] EXCEPT !.pc = to, !.ids = List!RevokedLicenses]
  <2>1. r \in List!Worker /\ r.ids \subseteq List!Revoked
    BY <1>0, <1>1 DEF List!Worker
  <2>2. List!Becomes(w, r) /\ UNCHANGED <<licenses, machines, published, trusted, due, dues, faults>>
    BY <1>2 DEF List!Project
  <2> HIDE DEF r
  <2> QED
    BY <1>0, <2>1, <2>2, WorkerStep
<1>3. ASSUME NEW w \in Workers, NEW from, NEW to \in {"deciding", "numbering"}, List!Collect(w, from, to)
      PROVE  ListInv'
  <2> DEFINE r == [worker[w] EXCEPT !.pc = to, !.ids = @ \union List!DeactivatedMachines]
  <2>1. r \in List!Worker /\ r.ids \subseteq List!Revoked
    BY <1>0, <1>1 DEF List!Worker
  <2>2. List!Becomes(w, r) /\ UNCHANGED <<licenses, machines, published, trusted, due, dues, faults>>
    BY <1>3 DEF List!Collect
  <2> HIDE DEF r
  <2> QED
    BY <1>0, <2>1, <2>2, WorkerStep
<1>4. ASSUME NEW w \in Workers, List!Decide(w) PROVE ListInv'
  <2>1. PICK r : /\ List!Becomes(w, r) /\ r \in {[List!Idle EXCEPT !.pc = "projecting"], List!Idle}
                 /\ UNCHANGED <<licenses, machines, published, trusted, due, dues, faults>>
    BY <1>4 DEF List!Decide
  <2>2. r \in List!Worker /\ r.ids \subseteq List!Revoked
    BY <2>1 DEF List!Idle, List!Worker
  <2> QED
    BY <1>0, <2>1, <2>2, WorkerStep
<1>5. ASSUME NEW w \in Workers, List!Number(w) PROVE ListInv'
  <2> DEFINE r == [worker[w] EXCEPT !.pc = "signing", !.version = List!Latest + 1]
  <2>1. List!Latest \in Nat
    BY <1>0 DEF List!TypeOK, List!Latest
  <2>2. r \in List!Worker /\ r.ids \subseteq List!Revoked
    <3>1. PICK n \in Nat : n = List!Latest + 1
      BY <2>1
    <3>2. worker[w] \in List!Worker /\ worker[w].ids \subseteq List!Revoked
      BY <1>0
    <3>3. r = [worker[w] EXCEPT !.pc = "signing", !.version = n]
      BY <3>1
    <3> HIDE DEF r
    <3> QED
      BY <3>2, <3>3 DEF List!Worker
  <2>3. List!Becomes(w, r) /\ UNCHANGED <<licenses, machines, published, trusted, due, dues, faults>>
    BY <1>5 DEF List!Number
  <2> HIDE DEF r
  <2> QED
    BY <1>0, <2>2, <2>3, WorkerStep
<1>6. ASSUME NEW w \in Workers, List!Insert(w) PROVE ListInv'
  <2>1. /\ published' = Append(published, worker[w].ids) /\ due' = FALSE
        /\ List!Becomes(w, List!Idle) /\ UNCHANGED <<licenses, machines, dues, faults, trusted>>
    BY <1>6 DEF List!Insert
  <2>2. published \in Seq(SUBSET List!Ids) /\ worker[w].ids \in SUBSET List!Ids
    BY <1>0 DEF List!TypeOK, List!Worker
  <2>3. /\ published' \in Seq(SUBSET List!Ids) /\ Len(published') = Len(published) + 1
        /\ \A v \in 1 .. Len(published) : published'[v] = published[v]
        /\ published'[Len(published) + 1] = worker[w].ids /\ Len(published) \in Nat
    BY <2>1, <2>2
  <2>4. worker' \in [Workers -> List!Worker] /\ List!Revoked' = List!Revoked
        /\ \A u \in Workers : worker'[u].ids \subseteq List!Revoked
    BY <1>0, <2>1, IdleWorker DEF List!TypeOK, List!Becomes, List!Revoked
  <2>5. List!TypeOK'
    <3>1. List!Latest \in Nat /\ List!Latest' = List!Latest + 1
      BY <2>3 DEF List!Latest
    <3>2. 0 .. List!Latest \subseteq 0 .. List!Latest'
      BY <3>1
    <3>3. trusted' \in [Clients -> 0 .. List!Latest']
      BY <1>0, <2>1, <3>2 DEF List!TypeOK
    <3> QED
      BY <1>0, <2>1, <2>3, <2>4, <3>3 DEF List!TypeOK
  <2>6. List!ListsOnlyRevoked'
    BY <1>0, <2>3, <2>4 DEF ListInv, List!ListsOnlyRevoked, List!Listed, List!Latest
  <2> QED
    BY <2>4, <2>5, <2>6 DEF ListInv
<1>7. ASSUME NEW w \in Workers, List!LoseRace(w) PROVE ListInv'
  BY <1>0, <1>7, IdleWorker, WorkerStep DEF List!LoseRace
<1>8. ASSUME NEW w \in Workers, List!Fail(w) PROVE ListInv'
  <2>1. faults' \in 0 .. MaxFaults
    BY <1>0, <1>8 DEF List!Fail
  <2> QED
    BY <1>0, <1>8, <2>1, IdleWorker, WorkerStep DEF List!Fail
<1>9. CASE List!FallDue
  <2>1. dues' \in 0 .. MaxDue /\ due' \in BOOLEAN
    BY <1>0, <1>9 DEF List!FallDue
  <2> QED
    BY <1>9, <2>1 DEF List!FallDue, ListInv, List!TypeOK, List!ListsOnlyRevoked, List!Listed,
                      List!Latest, List!Revoked
<1>10. ASSUME NEW c \in Clients, NEW v \in 1 .. List!Latest, List!Fetch(c, v) PROVE ListInv'
  <2>1. trusted' \in [Clients -> 0 .. List!Latest]
    BY <1>0, <1>10 DEF List!Fetch, List!TypeOK
  <2> QED
    BY <1>10, <2>1 DEF List!Fetch, ListInv, List!TypeOK, List!ListsOnlyRevoked, List!Listed,
                       List!Latest, List!Revoked
<1>11. ASSUME UNCHANGED <<published, due, dues, faults, worker, trusted>>,
              licenses' \in [Licenses -> {"active", "suspended", "revoked"}],
              machines' \in [Machines -> {"active", "deactivated"}]
       PROVE  ListInv'
  <2>1. List!Revoked \subseteq List!Revoked'
    BY <1>0, RevocationsStand
  <2> QED
    BY <1>11, <2>1 DEF ListInv, List!TypeOK, List!ListsOnlyRevoked, List!Listed, List!Latest
<1>12. ASSUME NEW l \in Licenses, NEW from, NEW to \in {"active", "suspended", "revoked"},
              List!SetLicense(l, from, to)
       PROVE  ListInv'
  BY <1>0, <1>11, <1>12 DEF List!SetLicense, List!TypeOK
<1>13. ASSUME NEW a \in Machines, List!deactivate(a) PROVE ListInv'
  BY <1>0, <1>11, <1>13 DEF List!deactivate, List!TypeOK
<1>14. CASE UNCHANGED List!vars
  BY <1>0, <1>11, <1>14 DEF List!vars, List!TypeOK
<1>15. ASSUME NEW w \in Workers, List!publishIfStale(w) PROVE ListInv'
  BY <1>2, <1>3, <1>4, <1>5, <1>6, <1>7, <1>15
     DEF List!publishIfStale, List!Sweep, List!Count, List!ProjectAgain, List!CollectAgain
<1> QED
  BY <1>8, <1>9, <1>10, <1>12, <1>13, <1>14, <1>15
     DEF List!Next, List!suspendLicense, List!reinstateLicense, List!revokeLicense

(* No version of the list names a license or a machine in good standing,   *)
(* for any number of workers, licenses, machines and clients, whichever    *)
(* worker wins which race (crl.ts generateCrl, crl-worker.ts).             *)
THEOREM ListNamesOnlyRevoked ==
  ASSUME MaxDue \in Nat, MaxFaults \in Nat
  PROVE  List!Spec => []List!ListsOnlyRevoked
<1>1. List!Init => ListInv
  BY InitListInv
<1>2. ListInv /\ [List!Next]_List!vars => ListInv'
  BY NextListInv
<1>3. ListInv => List!ListsOnlyRevoked
  BY DEF ListInv
<1> QED
  BY <1>1, <1>2, <1>3, PTL DEF List!Spec
=============================================================================
