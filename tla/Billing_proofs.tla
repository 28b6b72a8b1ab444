--------------------------- MODULE Billing_proofs ---------------------------
(***************************************************************************)
(* The four invariants of Billing, for any number of handlers, any length  *)
(* of the provider's history and any time.  The idea: what a claimed       *)
(* webhook found out - that its event is not in the ledger, that it is     *)
(* newer than the subscription - stays true until it commits, because it   *)
(* holds the subscription's row lock; and what the reconciliation fetched  *)
(* counts every renewal older than the date it gives its snapshot.         *)
(***************************************************************************)
EXTENDS Billing, NaturalsInduction, WellFoundedInduction, TLAPS

Told == {"active", "past_due", "grace", "refunded"}   \* what Overlay gives

(* The provider's history, and the ledger's relation to it.                *)
History ==
  /\ Len(sent) >= 1 /\ sent[1].kind = "created"
  /\ \A i, j \in DOMAIN sent :
       i <= j => sent[i].at <= sent[j].at /\ sent[i].period <= sent[j].period
  /\ \A i \in DOMAIN sent : sent[i].at <= now
  /\ \A e \in Events : /\ ledger[e] # "none" => e \in DOMAIN sent
                       /\ ledger[e] = "applied" => Linked

(* What a handler knows of its event.                                      *)
Sound(r) ==
  /\ r.pc # "idle" => r.event \in DOMAIN sent
  /\ r.pc \in {"found", "claimed"} => Linked
  /\ r.pc = "creating" => sent[r.event].kind = "created"
  /\ r.pc = "claimed" =>
       /\ ledger[r.event] = "none" /\ sent[r.event].kind # "unknown"
       /\ sent[r.event].kind # "created" => sub.anchor < sent[r.event].at

Handlers ==
  \A h \in Hooks :
    /\ Sound(hook[h])
    /\ \A g \in Hooks : (hook[g].pc = "claimed" /\ hook[h].pc = "claimed") => g = h

(* What the workers know.                                                  *)
Workers ==
  /\ worker = "due" => Linked
  /\ job.pc # "idle" => Linked /\ job.at \in Time /\ job.at <= now
  /\ job.pc = "fetched" =>
       /\ job.stamp \in Time /\ job.stamp <= now /\ job.state \in Told
       /\ \A i \in DOMAIN sent :
            (sent[i].kind # "unknown" /\ sent[i].at < job.stamp)
              => sent[i].period <= job.period

(* Only the worker moves the state shown away from the one called for.     *)
Overlaid ==
  Linked => \/ sub.last = sub.state
            \/ sub.state = "canceled" /\ sub.last \in {"past_due", "grace"}

BillingInv ==
  /\ TypeOK /\ History /\ Handlers /\ Workers /\ Overlaid
  /\ AppliedOnce /\ OneLicense /\ NewestWins /\ AccessFollowsStanding

-----------------------------------------------------------------------------
LEMMA Numbers ==
  /\ Grace \in Nat \ {0} /\ MaxTime \in Nat \ {0} /\ Last \in Nat /\ MaxTime < Last
  /\ 1 \in Time /\ Time \subseteq Nat \ {0} /\ \A t \in Nat : t \in Time <=> 1 <= t /\ t <= Last
  /\ \A t \in Nat : GraceExpiry(t) \in Time
BY BoundsAssumption DEF Last, Time, GraceExpiry

LEMMA KindsSeq ==
  /\ Len(Kinds) \in Nat \ {0} /\ Events = 1 .. Len(Kinds) /\ 1 \in Events
  /\ \A i \in Events : Kinds[i] \subseteq AllKinds
BY KindsAssumption DEF Events

(* A sequence of events, in terms of its indices.                          *)
LEMMA SentIndices ==
  ASSUME TypeOK
  PROVE  /\ Len(sent) \in Nat /\ DOMAIN sent = 1 .. Len(sent) /\ DOMAIN sent \subseteq Events
         /\ \A i \in DOMAIN sent : /\ sent[i] \in Event /\ sent[i].kind \in AllKinds
                                   /\ sent[i].at \in Time /\ sent[i].period \in Nat
<1>1. sent \in Seq(Event) /\ Len(sent) <= Len(Kinds)
  BY DEF TypeOK
<1>2. Len(sent) \in Nat /\ DOMAIN sent = 1 .. Len(sent) /\ \A i \in DOMAIN sent : sent[i] \in Event
  BY <1>1
<1>3. DOMAIN sent \subseteq Events
  BY <1>1, <1>2, KindsSeq
<1> QED
  BY <1>2, <1>3 DEF Event

LEMMA OverlayTells ==
  ASSUME NEW kind \in AllKinds, kind # "unknown"
  PROVE  Overlay(kind) \in Told /\ (Overlay(kind) = "active" <=> kind \in {"created", "renewed"})
BY DEF AllKinds, Overlay, Told

LEMMA InitBillingInv == Init => BillingInv
<1> SUFFICES ASSUME Init PROVE BillingInv
  OBVIOUS
<1>1. sent \in Seq(Event) /\ Len(sent) = 1 /\ sent[1] = [kind |-> "created", at |-> 1, period |-> 1]
  <2>1. [kind |-> "created", at |-> 1, period |-> 1] \in Event
    BY Numbers DEF Event, AllKinds
  <2> QED
    BY <2>1 DEF Init
<1>2. NoLicense \in License /\ Idle \in Hook /\ NoJob \in Job
  BY DEF NoLicense, License, Idle, Hook, NoJob, Job, States
<1>3. TypeOK
  BY <1>1, <1>2, Numbers, KindsSeq, BoundsAssumption DEF Init, TypeOK
<1>4. \A h \in Hooks : hook[h].pc = "idle"
  BY DEF Init, Idle
<1>5. sub = None /\ job.pc = "idle" /\ worker = "idle" /\ now = 1
  BY DEF Init, NoJob
<1>6. \A e \in Events : ledger[e] = "none" /\ effects[e] = 0 /\ license[e].status = "none"
  BY DEF Init, NoLicense
<1> QED
  BY <1>1, <1>3, <1>4, <1>5, <1>6, Numbers, SentIndices
     DEF BillingInv, History, Handlers, Sound, Workers, Overlaid, AppliedOnce, OneLicense, NewestWins,
         AccessFollowsStanding, Linked

-----------------------------------------------------------------------------
(* A handler moves on; at most it settles an event that nobody has claimed. *)
LEMMA HandlerStep ==
  ASSUME BillingInv, NEW h \in Hooks, NEW r \in Hook, Becomes(h, r),
         UNCHANGED <<now, sent, sub, license, worker, job, ops, effects>>, Sound(r)',
         r.pc = "claimed" => \A g \in Hooks : hook[g].pc # "claimed",
         \/ UNCHANGED ledger
         \/ \E e \in DOMAIN sent : \E o \in {"deadletter", "rejected"} :
              /\ ledger' = [ledger EXCEPT ![e] = o] /\ ledger[e] = "none"
              /\ \A g \in Hooks : hook[g].pc = "claimed" => hook[g].event # e
  PROVE  BillingInv'
<1>1. /\ TypeOK /\ ledger \in [Events -> {"none", "applied", "deadletter", "rejected"}]
      /\ hook \in [Hooks -> Hook] /\ DOMAIN sent \subseteq Events
  BY SentIndices DEF BillingInv, TypeOK
<1>2. hook'[h] = r /\ (\A g \in Hooks \ {h} : hook'[g] = hook[g]) /\ hook' \in [Hooks -> Hook]
  BY <1>1 DEF Becomes
<1>3. /\ ledger' \in [Events -> {"none", "applied", "deadletter", "rejected"}]
      /\ \A e \in Events : ledger'[e] = "applied" <=> ledger[e] = "applied"
      /\ \A e \in Events : ledger'[e] # "none" => ledger[e] # "none" \/ e \in DOMAIN sent
      /\ \A g \in Hooks : hook[g].pc = "claimed" => ledger'[hook[g].event] = ledger[hook[g].event]
  <2>1. CASE UNCHANGED ledger
    BY <1>1, <2>1
  <2>2. ASSUME NEW e \in DOMAIN sent, NEW o \in {"deadletter", "rejected"},
               ledger' = [ledger EXCEPT ![e] = o], ledger[e] = "none",
               \A g \in Hooks : hook[g].pc = "claimed" => hook[g].event # e
        PROVE  <1>3!:
    <3>1. e \in Events /\ ledger'[e] = o /\ \A d \in Events \ {e} : ledger'[d] = ledger[d]
      BY <1>1, <2>2
    <3>2. \A g \in Hooks : hook[g].pc = "claimed" => hook[g].event \in Events \ {e}
      BY <1>1, <2>2 DEF BillingInv, Handlers, Sound
    <3>3. ledger' \in [Events -> {"none", "applied", "deadletter", "rejected"}]
      BY <1>1, <2>2
    <3> QED
      BY <2>2, <3>1, <3>2, <3>3
  <2> QED
    BY <2>1, <2>2
<1>4. TypeOK'
  BY <1>1, <1>2, <1>3 DEF TypeOK
<1>5. \A g \in Hooks \ {h} : Sound(hook[g])'
  <2> TAKE g \in Hooks \ {h}
  <2>1. hook'[g] = hook[g] /\ Sound(hook[g])
    BY <1>2 DEF BillingInv, Handlers
  <2>2. hook[g].pc = "claimed" => ledger'[hook[g].event] = ledger[hook[g].event]
    BY <1>3
  <2> QED
    BY <2>1, <2>2 DEF Sound, Linked
<1>6. Handlers'
  <2>1. Sound(hook[h])'
    BY <1>2 DEF Sound, Linked
  <2>2. ASSUME NEW f \in Hooks, NEW g \in Hooks, hook'[f].pc = "claimed", hook'[g].pc = "claimed"
        PROVE  g = f
    BY <1>2, <2>2 DEF BillingInv, Handlers
  <2> QED
    BY <1>5, <2>1, <2>2 DEF Handlers
<1>7. History' /\ Workers' /\ Overlaid'
  BY <1>3 DEF BillingInv, History, Workers, Overlaid, Linked
<1>8. AppliedOnce' /\ OneLicense' /\ NewestWins' /\ AccessFollowsStanding'
  BY <1>3 DEF BillingInv, AppliedOnce, OneLicense, NewestWins, AccessFollowsStanding, Linked, Licensed
<1> QED
  BY <1>4, <1>6, <1>7, <1>8 DEF BillingInv

LEMMA ReceiveStep ==
  ASSUME BillingInv, NEW h \in Hooks, NEW e \in Events, Receive(h, e)
  PROVE  BillingInv'
<1> DEFINE r == [pc |-> IF Linked THEN "found" ELSE "missing", event |-> e,
                 at |-> IF sent[e].kind \in {"payment_failed", "canceled"} THEN now ELSE 0]
<1>1. PICK q : q = r
  OBVIOUS
<1>2. q \in Hook /\ q.pc = (IF Linked THEN "found" ELSE "missing") /\ q.event = e
  BY <1>1 DEF Hook, BillingInv, TypeOK
<1>3. /\ Becomes(h, q) /\ e \in DOMAIN sent
      /\ UNCHANGED <<now, sent, ledger, sub, license, worker, job, ops, effects>>
  BY <1>1 DEF Receive, World
<1> HIDE DEF r
<1>4. Sound(q)'
  BY <1>2, <1>3 DEF Sound, Linked
<1> QED
  BY <1>2, <1>3, <1>4, HandlerStep

(* The steps of a handler that leave everything else alone: it starts to   *)
(* create, it claims, or it stops.                                         *)
LEMMA MoveStep ==
  ASSUME BillingInv, NEW h \in Hooks,
         \/ Create(h) \/ Claim(h) \/ Fail(h)
         \/ Becomes(h, Idle) /\ UNCHANGED World /\ UNCHANGED <<ledger, sub, license, effects>>
  PROVE  BillingInv'
<1>0. hook[h] \in Hook /\ Sound(hook[h]) /\ UNCHANGED World /\ UNCHANGED <<ledger, sub, license, effects>>
  BY DEF BillingInv, TypeOK, Handlers, Create, Claim, Fail
<1>1. Idle \in Hook /\ Sound(Idle)' /\ Idle.pc = "idle"
  BY DEF Idle, Hook, Sound
<1>2. CASE Becomes(h, Idle)
  BY <1>0, <1>1, <1>2, HandlerStep DEF World
<1>3. CASE Create(h)
  <2>1. PICK q : q = [hook[h] EXCEPT !.pc = "creating"]
    OBVIOUS
  <2>2. q \in Hook /\ q.pc = "creating" /\ q.event = hook[h].event
    BY <1>0, <2>1 DEF Hook
  <2>3. Becomes(h, q) /\ Sound(q)'
    BY <1>0, <1>3, <2>1, <2>2 DEF Create, Sound, World, Linked
  <2> QED
    BY <1>0, <2>2, <2>3, HandlerStep DEF World
<1>4. CASE Claim(h) /\ ~Becomes(h, Idle)
  <2>1. PICK q : q = [hook[h] EXCEPT !.pc = "claimed"]
    OBVIOUS
  <2>2. q \in Hook /\ q.pc = "claimed" /\ q.event = hook[h].event
    BY <1>0, <2>1 DEF Hook
  <2>3. /\ Becomes(h, q) /\ SubFree /\ ledger[hook[h].event] = "none" /\ hook[h].pc = "found"
        /\ sent[hook[h].event].kind # "created" =>
             ~isStaleEvent(hook[h].event) /\ sent[hook[h].event].kind # "unknown"
    BY <1>4, <2>1 DEF Claim
  <2>4. hook[h].event \in DOMAIN sent /\ Linked
    BY <1>0, <2>3 DEF Sound
  <2>5. /\ sent[hook[h].event].kind # "unknown"
        /\ sent[hook[h].event].kind # "created" => sub.anchor < sent[hook[h].event].at
    <3>1. sub.anchor \in Nat /\ sent[hook[h].event].at \in Nat
      BY <2>4, SentIndices, Numbers DEF BillingInv, TypeOK, Subscription, Linked
    <3> QED
      BY <2>3, <3>1 DEF isStaleEvent
  <2>6. Sound(q)'
    BY <1>0, <2>2, <2>3, <2>4, <2>5 DEF Sound, World, Linked
  <2> QED
    BY <1>0, <2>2, <2>3, <2>6, HandlerStep DEF World, SubFree
<1> QED
  BY <1>2, <1>3, <1>4 DEF Fail

(* A transaction that records an event and does nothing for it.            *)
LEMMA SettleStep ==
  ASSUME BillingInv, NEW h \in Hooks, DeadLetter(h) \/ Refuse(h)
  PROVE  BillingInv'
<1>1. PICK e : e = hook[h].event
  OBVIOUS
<1>2. /\ e \in DOMAIN sent /\ e \in Events
  BY <1>1, SentIndices DEF BillingInv, Handlers, Sound, DeadLetter, Refuse
<1>3. /\ Becomes(h, Idle) /\ UNCHANGED World /\ UNCHANGED <<sub, license, effects>>
      /\ \A g \in Hooks : hook[g].pc = "claimed" => hook[g].event # e
      /\ recordEvent(e, "deadletter") \/ recordEvent(e, "rejected")
  BY <1>1 DEF DeadLetter, Refuse, Unclaimed, SubFree
<1>4. Idle \in Hook /\ Sound(Idle)' /\ Idle.pc = "idle"
  BY DEF Idle, Hook, Sound
<1>5. UNCHANGED ledger \/ \E o \in {"deadletter", "rejected"} :
        ledger' = [ledger EXCEPT ![e] = o] /\ ledger[e] = "none"
  BY <1>3 DEF recordEvent
<1> QED
  BY <1>2, <1>3, <1>4, <1>5, HandlerStep DEF World

(* The first license: nothing was linked, so nothing was applied, nobody   *)
(* had found the subscription and no license was issued.                   *)
LEMMA ProvisionStep ==
  ASSUME BillingInv, NEW h \in Hooks, Provision(h)
  PROVE  BillingInv'
<1>1. PICK e \in DOMAIN sent :
        e = hook[h].event /\ e \in Events /\ sent[e].kind = "created" /\ sent[e] \in Event
  BY SentIndices DEF BillingInv, Handlers, Sound, Provision
<1>2. CASE Linked \/ ledger[e] # "none"
  <2>1. Becomes(h, Idle) /\ UNCHANGED World /\ UNCHANGED <<ledger, sub, license, effects>>
    BY <1>1, <1>2 DEF Provision
  <2> QED
    BY <2>1, MoveStep
<1>3. CASE ~(Linked \/ ledger[e] # "none")
  <2>1. PICK first, row :
          /\ first = [status |-> "active", term |-> sent[e].period, by |-> "billing"]
          /\ row = [license |-> e, state |-> "active", graceUntil |-> None, anchor |-> sent[e].at,
                    last |-> "active"]
    OBVIOUS
  <2>2. /\ first \in License /\ first.status = "active"
        /\ row \in Subscription /\ row # None /\ row.license = e /\ row.state = "active"
        /\ row.last = "active"
    BY <1>1, <2>1, NoneAssumption DEF License, Subscription, States, Event
  <2>3. /\ license' = [license EXCEPT ![e] = first] /\ sub' = row /\ Becomes(h, Idle)
        /\ ledger' = [ledger EXCEPT ![e] = "applied"]
        /\ effects' = [effects EXCEPT ![e] = @ + 1]
        /\ UNCHANGED <<now, sent, worker, job, ops>>
    BY <1>1, <1>3, <2>1 DEF Provision, linkSubscription, recordEvent, World
  <2>4. /\ ledger \in [Events -> {"none", "applied", "deadletter", "rejected"}]
        /\ effects \in [Events -> Nat] /\ license \in [Events -> License] /\ hook \in [Hooks -> Hook]
    BY DEF BillingInv, TypeOK
  <2>5. \A g \in Hooks : hook[g].pc \notin {"found", "claimed"}
    BY <1>3 DEF BillingInv, Handlers, Sound
  <2>6. job.pc = "idle" /\ worker # "due"
    BY <1>3 DEF BillingInv, Workers
  <2>7. /\ ledger' \in [Events -> {"none", "applied", "deadletter", "rejected"}]
        /\ effects' \in [Events -> Nat] /\ license' \in [Events -> License]
        /\ ledger'[e] = "applied" /\ effects'[e] = effects[e] + 1 /\ license'[e] = first
        /\ \A d \in Events \ {e} : /\ ledger'[d] = ledger[d] /\ effects'[d] = effects[d]
                                   /\ license'[d] = license[d]
    BY <1>1, <2>2, <2>3, <2>4
  <2>8. hook'[h] = Idle /\ (\A g \in Hooks \ {h} : hook'[g] = hook[g]) /\ hook' \in [Hooks -> Hook]
    BY <2>3, <2>4 DEF Becomes, Idle, Hook
  <2>9. TypeOK'
    BY <2>2, <2>3, <2>7, <2>8 DEF TypeOK, BillingInv
  <2>10. \A d \in Events : ledger[d] # "applied" /\ effects[d] = 0 /\ license[d].status = "none"
    BY <1>3 DEF BillingInv, History, AppliedOnce, OneLicense
  <2>11. Handlers'
    <3>1. \A g \in Hooks : hook'[g].pc \notin {"found", "claimed"}
      BY <2>5, <2>8 DEF Idle
    <3>2. \A g \in Hooks : Sound(hook[g])'
      BY <2>3, <2>8, <3>1 DEF BillingInv, Handlers, Sound, Idle
    <3> QED
      BY <3>1, <3>2 DEF Handlers
  <2>12. History' /\ Workers' /\ Overlaid'
    BY <1>1, <2>2, <2>3, <2>6, <2>7 DEF BillingInv, History, Workers, Overlaid, Linked
  <2>13. AppliedOnce' /\ OneLicense'
    BY <1>1, <2>2, <2>3, <2>7, <2>10 DEF AppliedOnce, OneLicense, Linked
  <2>14. NewestWins'
    BY <1>1, <2>3, <2>7, <2>10 DEF NewestWins
  <2>15. AccessFollowsStanding'
    BY <1>1, <2>2, <2>3, <2>7 DEF AccessFollowsStanding, Linked, Licensed
  <2> QED
    BY <2>9, <2>11, <2>12, <2>13, <2>14, <2>15 DEF BillingInv
<1> QED
  BY <1>2, <1>3

-----------------------------------------------------------------------------
(* What applying an event or a snapshot newer than the subscription does:  *)
(* a revoked license stays revoked, any other takes the state called for.  *)
LEMMA ApplyTells ==
  ASSUME BillingInv, Linked, NEW state \in Told, NEW at \in Time, NEW period \in Nat,
         NEW from \in Nat, sub.anchor < at, Apply(state, at, period, from)
  PROVE  /\ Linked' /\ sub' \in Subscription /\ sub'.license = sub.license
         /\ license' \in [Events -> License]
         /\ \A d \in Events \ {sub.license} : license'[d] = license[d]
         /\ Licensed'.status = "none" => Licensed.status = "none"
         /\ Licensed.status = "revoked" => Licensed'.status = "revoked"
         /\ sub'.anchor \in {sub.anchor, at}
         /\ Licensed'.status # "revoked" =>
              /\ sub'.anchor = at /\ sub'.last = state
              /\ IF state = "active" THEN Licensed'.term = period ELSE Licensed'.term = Licensed.term
         /\ Overlaid' /\ AccessFollowsStanding'
<1>0. /\ sub \in Subscription /\ sub.license \in Events /\ license \in [Events -> License]
      /\ Licensed \in License
  BY DEF BillingInv, TypeOK, Linked, Subscription, Licensed
<1>1. ASSUME NEW until \in Time \union {None}, applySubscriptionState(state, until, at)
      PROVE  /\ Linked' /\ sub' \in Subscription /\ sub'.license = sub.license
             /\ sub'.anchor = at /\ sub'.state = state /\ sub'.last = state
  <2>1. PICK row : row = [sub EXCEPT !.state = state, !.graceUntil = until, !.anchor = at,
                                     !.last = state]
    OBVIOUS
  <2>2. /\ row \in Subscription /\ row.license = sub.license /\ row.anchor = at
        /\ row.state = state /\ row.last = state
    BY <1>0, <2>1 DEF Subscription, States, Told
  <2>3. sub' = row
    BY <1>1, <2>1 DEF applySubscriptionState
  <2> QED
    BY <2>2, <2>3, NoneAssumption DEF Linked
<1>2. CASE state = "active"
  <2>1. applyRenew(at, period)
    BY <1>2 DEF Apply
  <2>2. CASE Licensed.status = "revoked"
    BY <1>0, <2>1, <2>2 DEF applyRenew, Linked, Licensed, BillingInv, Overlaid, AccessFollowsStanding
  <2>3. CASE Licensed.status # "revoked"
    <3>1. PICK new : new = [status |-> "active", term |-> period,
                            by |-> IF Licensed.status = "suspended" THEN "billing" ELSE Licensed.by]
      OBVIOUS
    <3>2. new \in License /\ new.status = "active" /\ new.term = period
      BY <1>0, <3>1 DEF License
    <3>3. license' = [license EXCEPT ![sub.license] = new] /\ applySubscriptionState("active", None, at)
      BY <1>0, <2>1, <2>3, <3>1 DEF applyRenew, Licensed
    <3>4. /\ license' \in [Events -> License] /\ license'[sub.license] = new
          /\ \A d \in Events \ {sub.license} : license'[d] = license[d]
      BY <1>0, <3>2, <3>3
    <3>5. /\ Linked' /\ sub' \in Subscription /\ sub'.license = sub.license
          /\ sub'.anchor = at /\ sub'.state = "active" /\ sub'.last = "active"
      BY <1>1, <1>2, <3>3
    <3> QED
      BY <1>2, <2>3, <3>2, <3>4, <3>5 DEF Linked, Licensed, Overlaid, AccessFollowsStanding
  <2> QED
    BY <2>2, <2>3
<1>3. CASE state = "refunded"
  <2>1. PICK new : new = IF Licensed.status = "revoked" THEN Licensed
                         ELSE [Licensed EXCEPT !.status = "revoked", !.by = "billing"]
    OBVIOUS
  <2>2. new \in License /\ new.status = "revoked"
    BY <1>0, <2>1 DEF License
  <2>3. license' = [license EXCEPT ![sub.license] = new] /\ applySubscriptionState("refunded", None, at)
    BY <1>0, <1>3, <2>1 DEF Apply, applyRevoke, Licensed
  <2>4. /\ license' \in [Events -> License] /\ license'[sub.license] = new
        /\ \A d \in Events \ {sub.license} : license'[d] = license[d]
    BY <1>0, <2>2, <2>3
  <2>5. /\ Linked' /\ sub' \in Subscription /\ sub'.license = sub.license
        /\ sub'.anchor = at /\ sub'.state = "refunded" /\ sub'.last = "refunded"
    BY <1>1, <1>3, <2>3
  <2> QED
    BY <1>3, <2>2, <2>4, <2>5 DEF Linked, Licensed, Overlaid, AccessFollowsStanding
<1>4. CASE state \in {"past_due", "grace"}
  <2>1. applyGrace(state, at, from)
    BY <1>4 DEF Apply
  <2>2. CASE Licensed.status = "revoked"
    BY <1>0, <2>1, <2>2 DEF applyGrace, Linked, Licensed, BillingInv, Overlaid, AccessFollowsStanding
  <2>3. CASE Licensed.status # "revoked"
    <3>1. applySubscriptionState(state, GraceExpiry(from), at) /\ UNCHANGED license
      BY <2>1, <2>3 DEF applyGrace
    <3>2. /\ Linked' /\ sub' \in Subscription /\ sub'.license = sub.license
          /\ sub'.anchor = at /\ sub'.state = state /\ sub'.last = state
      BY <1>1, <3>1, Numbers
    <3> QED
      BY <1>0, <1>4, <3>1, <3>2 DEF Linked, Licensed, Overlaid, AccessFollowsStanding
  <2> QED
    BY <2>2, <2>3
<1> QED
  BY <1>2, <1>3, <1>4 DEF Told

(* .. and then the newest wins, provided that the state applied dates from *)
(* its event, or from a snapshot that counts all older renewals.           *)
LEMMA ApplyKeepsOrder ==
  ASSUME BillingInv, Linked, NEW state \in Told, NEW at \in Time, NEW period \in Nat,
         NEW from \in Nat, sub.anchor < at, Apply(state, at, period, from), UNCHANGED sent,
         \A d \in Events : ledger'[d] = "applied" =>
            \/ ledger[d] = "applied"
            \/ /\ d \in DOMAIN sent /\ sent[d].at = at /\ Overlay(sent[d].kind) = state
               /\ sent[d].period = period
               /\ sent[d].kind = "renewed" => state = "active",
         \A d \in DOMAIN sent :
            (sent[d].kind = "renewed" /\ sent[d].at < at) => sent[d].period <= period
  PROVE  NewestWins' /\ OneLicense'
<1>1. /\ Linked' /\ sub'.license = sub.license
      /\ \A d \in Events \ {sub.license} : license'[d] = license[d]
      /\ Licensed.status = "revoked" => Licensed'.status = "revoked"
      /\ Licensed'.status # "revoked" =>
           /\ sub'.anchor = at /\ sub'.last = state
           /\ IF state = "active" THEN Licensed'.term = period ELSE Licensed'.term = Licensed.term
  BY ApplyTells
<1>2. sub.license \in Events /\ sub.anchor \in Nat /\ at \in Nat
  BY Numbers DEF BillingInv, TypeOK, Linked, Subscription
<1>3. OneLicense'
  BY <1>1 DEF BillingInv, OneLicense
<1>4. NewestWins'
  <2> SUFFICES ASSUME NEW d \in Events, ledger'[d] = "applied", sent[d].kind # "created",
                      Licensed'.status # "revoked"
               PROVE  /\ sent[d].at <= sub'.anchor
                      /\ sent[d].at = sub'.anchor => sub'.last = Overlay(sent[d].kind)
                      /\ sent[d].kind = "renewed" => sent[d].period <= Licensed'.term
    BY DEF NewestWins
  <2>1. d \in DOMAIN sent /\ sent[d].at \in Nat /\ sent[d].period \in Nat
    BY SentIndices, Numbers DEF BillingInv, History
  <2>2. CASE ledger[d] = "applied"
    <3>1. /\ sent[d].at <= sub.anchor
          /\ sent[d].kind = "renewed" => sent[d].period <= Licensed.term
      BY <1>1, <2>2 DEF BillingInv, NewestWins
    <3>2. sent[d].at < at
      BY <1>2, <2>1, <3>1
    <3>3. sent[d].kind = "renewed" => sent[d].period <= period
      BY <2>1, <3>2
    <3> QED
      BY <1>1, <2>1, <1>2, <3>1, <3>2, <3>3
  <2>3. CASE ledger[d] # "applied"
    <3>1. /\ sent[d].at = at /\ Overlay(sent[d].kind) = state /\ sent[d].period = period
          /\ sent[d].kind = "renewed" => state = "active"
      BY <2>3
    <3> QED
      BY <1>1, <1>2, <2>1, <3>1
  <2> QED
    BY <2>2, <2>3
<1> QED
  BY <1>3, <1>4

LEMMA CommitStep ==
  ASSUME BillingInv, NEW h \in Hooks, Commit(h)
  PROVE  BillingInv'
<1>1. PICK e \in DOMAIN sent : e = hook[h].event
  BY DEF BillingInv, Handlers, Sound, Commit
<1>2. /\ e \in Events /\ sent[e].kind \in AllKinds /\ sent[e].at \in Time /\ sent[e].period \in Nat
      /\ sent[e].kind # "unknown" /\ ledger[e] = "none" /\ Linked /\ hook[h].pc = "claimed"
      /\ sent[e].kind # "created" => sub.anchor < sent[e].at
  BY <1>1, SentIndices DEF BillingInv, Handlers, Sound, Commit
<1>3. /\ ledger \in [Events -> {"none", "applied", "deadletter", "rejected"}]
      /\ effects \in [Events -> Nat] /\ license \in [Events -> License] /\ hook \in [Hooks -> Hook]
      /\ sub \in Subscription /\ hook[h].at \in Nat
  <2>1. hook[h] \in Hook
    BY DEF BillingInv, TypeOK
  <2>2. hook[h].at \in Time \/ hook[h].at = 0
    BY <2>1 DEF Hook
  <2>3. hook[h].at \in Nat
    BY <2>2 DEF Time
  <2> QED
    BY <1>2, <2>3 DEF BillingInv, TypeOK, Linked
<1>4. /\ ledger' = [ledger EXCEPT ![e] = "applied"] /\ effects' = [effects EXCEPT ![e] = @ + 1]
      /\ Becomes(h, Idle) /\ UNCHANGED <<now, sent, worker, job, ops>>
  BY <1>1, <1>2 DEF Commit, recordEvent, World
<1>5. /\ ledger' \in [Events -> {"none", "applied", "deadletter", "rejected"}]
      /\ effects' \in [Events -> Nat] /\ ledger'[e] = "applied" /\ effects'[e] = effects[e] + 1
      /\ \A d \in Events \ {e} : ledger'[d] = ledger[d] /\ effects'[d] = effects[d]
  BY <1>2, <1>3, <1>4
<1>6. /\ hook'[h] = Idle /\ (\A g \in Hooks \ {h} : hook'[g] = hook[g]) /\ hook' \in [Hooks -> Hook]
  BY <1>3, <1>4 DEF Becomes, Idle, Hook
<1>7. /\ Linked' /\ sub' \in Subscription /\ license' \in [Events -> License]
      /\ NewestWins' /\ OneLicense' /\ Overlaid' /\ AccessFollowsStanding'
  <2>1. CASE sent[e].kind = "created"
    <3>1. UNCHANGED <<sub, license>>
      BY <1>1, <2>1 DEF Commit
    <3>2. NewestWins'
      BY <1>4, <1>5, <2>1, <3>1 DEF BillingInv, NewestWins, Licensed
    <3> QED
      BY <1>2, <1>3, <3>1, <3>2
         DEF BillingInv, OneLicense, Overlaid, AccessFollowsStanding, Linked, Licensed
  <2>2. CASE sent[e].kind # "created"
    <3>1. Apply(Overlay(sent[e].kind), sent[e].at, sent[e].period, hook[h].at)
      BY <1>1, <2>2 DEF Commit
    <3>2. Overlay(sent[e].kind) \in Told /\ (sent[e].kind = "renewed" => Overlay(sent[e].kind) = "active")
      BY <1>2, OverlayTells
    <3>3. \A d \in DOMAIN sent : sent[d].at < sent[e].at => sent[d].period <= sent[e].period
      <4> SUFFICES ASSUME NEW d \in DOMAIN sent, sent[d].at < sent[e].at
                   PROVE  sent[d].period <= sent[e].period
        OBVIOUS
      <4>1. /\ d \in Nat /\ e \in Nat /\ sent[d].at \in Nat /\ sent[e].at \in Nat
        <5>1. TypeOK
          BY DEF BillingInv
        <5>2. d \in Nat /\ e \in Nat /\ sent[d].at \in Time /\ sent[e].at \in Time
          BY <5>1, SentIndices
        <5> QED
          BY <5>2, Numbers
      <4>2. ~(e <= d)
        BY <4>1 DEF BillingInv, History
      <4> QED
        BY <4>1, <4>2 DEF BillingInv, History
    <3>4. NewestWins' /\ OneLicense'
      BY <1>2, <1>3, <1>4, <1>5, <2>2, <3>1, <3>2, <3>3, ApplyKeepsOrder
    <3> QED
      BY <1>2, <1>3, <2>2, <3>1, <3>2, <3>4, ApplyTells
  <2> QED
    BY <2>1, <2>2
<1>8. TypeOK'
  BY <1>4, <1>5, <1>6, <1>7 DEF TypeOK, BillingInv
<1>9. Handlers'
  <2>1. \A g \in Hooks : hook'[g].pc # "claimed"
    BY <1>2, <1>6 DEF BillingInv, Handlers, Idle
  <2>2. \A g \in Hooks : Sound(hook[g])'
    BY <1>4, <1>6, <1>7, <2>1 DEF BillingInv, Handlers, Sound, Idle
  <2> QED
    BY <2>1, <2>2 DEF Handlers
<1>10. History' /\ Workers'
  BY <1>1, <1>4, <1>5, <1>7 DEF BillingInv, History, Workers
<1>11. AppliedOnce'
  BY <1>2, <1>5 DEF BillingInv, AppliedOnce
<1> QED
  BY <1>7, <1>8, <1>9, <1>10, <1>11 DEF BillingInv

LEMMA ReconcileStep ==
  ASSUME BillingInv, reconcileOne
  PROVE  BillingInv'
<1>1. /\ job.pc = "fetched" /\ SubFree /\ job' = NoJob /\ Linked
      /\ UNCHANGED <<now, sent, ledger, hook, worker, ops, effects>>
      /\ job.stamp \in Time /\ job.at \in Nat /\ job.state \in Told /\ job.period \in Nat
      /\ sub \in Subscription /\ sub.anchor \in Nat /\ job.stamp \in Nat
  BY Numbers DEF reconcileOne, BillingInv, Workers, TypeOK, Job, Linked, Subscription
<1>2. CASE UNCHANGED <<sub, license>>
  <2>1. TypeOK' /\ Workers'
    BY <1>1, <1>2 DEF BillingInv, TypeOK, Workers, NoJob, Job, States, Linked
  <2>2. Handlers' /\ History' /\ Overlaid'
    BY <1>1, <1>2 DEF BillingInv, Handlers, Sound, History, Overlaid, Linked
  <2> QED
    BY <1>1, <1>2, <2>1, <2>2
       DEF BillingInv, AppliedOnce, OneLicense, NewestWins, AccessFollowsStanding, Linked, Licensed
<1>3. CASE job.stamp > sub.anchor /\ Apply(job.state, job.stamp, job.period, job.at)
  <2>1. /\ Linked' /\ sub' \in Subscription /\ license' \in [Events -> License]
        /\ Overlaid' /\ AccessFollowsStanding'
    BY <1>1, <1>3, ApplyTells
  <2>2. NewestWins' /\ OneLicense'
    <3>1. \A d \in DOMAIN sent : (sent[d].kind = "renewed" /\ sent[d].at < job.stamp)
                                    => sent[d].period <= job.period
      BY <1>1 DEF BillingInv, Workers
    <3> QED
      BY <1>1, <1>3, <3>1, ApplyKeepsOrder
  <2>3. TypeOK' /\ Workers'
    BY <1>1, <2>1 DEF BillingInv, TypeOK, Workers, NoJob, Job, States
  <2>4. Handlers'
    BY <1>1, <2>1 DEF BillingInv, Handlers, Sound, SubFree
  <2>5. History' /\ AppliedOnce'
    BY <1>1, <2>1 DEF BillingInv, History, AppliedOnce
  <2> QED
    BY <2>1, <2>2, <2>3, <2>4, <2>5 DEF BillingInv
<1> QED
  BY <1>2, <1>3 DEF reconcileOne

-----------------------------------------------------------------------------
(* The grace worker: nothing but the state shown, and a license that was   *)
(* active is suspended in the worker's name.                               *)
LEMMA WorkerStep ==
  ASSUME BillingInv, ListElapsed \/ suspendElapsed \/ GraceFault
  PROVE  BillingInv'
<1>0. /\ UNCHANGED <<now, sent, ledger, hook, job, ops, effects>> /\ worker' \in {"idle", "due"}
      /\ worker' = "due" => Linked'
      /\ license \in [Events -> License]
  BY DEF ListElapsed, suspendElapsed, GraceFault, Lapsed, Linked, BillingInv, TypeOK
<1>1. CASE UNCHANGED <<sub, license>>
  <2>1. TypeOK' /\ Workers'
    BY <1>0, <1>1 DEF BillingInv, TypeOK, Workers, Linked
  <2>2. Handlers' /\ History' /\ Overlaid'
    BY <1>0, <1>1 DEF BillingInv, Handlers, Sound, History, Overlaid, Linked
  <2> QED
    BY <1>0, <1>1, <2>1, <2>2
       DEF BillingInv, AppliedOnce, OneLicense, NewestWins, AccessFollowsStanding, Linked, Licensed
<1>2. CASE suspendElapsed /\ Lapsed /\ Licensed.status # "revoked"
  <2>0. /\ Linked /\ SubFree /\ sub.state \in {"past_due", "grace"} /\ sub \in Subscription
        /\ sub.license \in Events /\ Licensed \in License /\ sub.last \in {"past_due", "grace"}
    BY <1>0, <1>2 DEF suspendElapsed, Lapsed, BillingInv, TypeOK, Linked, Subscription, Licensed, Overlaid
  <2>1. PICK row, new :
          /\ row = [sub EXCEPT !.state = "canceled", !.graceUntil = None]
          /\ new = IF Licensed.status = "active"
                   THEN [Licensed EXCEPT !.status = "suspended", !.by = "worker"] ELSE Licensed
    OBVIOUS
  <2>2. /\ row \in Subscription /\ row.license = sub.license /\ row.anchor = sub.anchor
        /\ row.state = "canceled" /\ row.last = sub.last /\ row # None
    BY <2>0, <2>1, NoneAssumption DEF Subscription, States
  <2>3. new \in License /\ new.status # "active" /\ new.term = Licensed.term
    BY <2>0, <2>1 DEF License
  <2>4. sub' = row /\ license' = [license EXCEPT ![sub.license] = new]
    BY <1>2, <2>1 DEF suspendElapsed, StillElapsed, Licensed
  <2>5. /\ license' \in [Events -> License] /\ license'[sub.license] = new
        /\ \A d \in Events \ {sub.license} : license'[d] = license[d]
    BY <1>0, <2>0, <2>3, <2>4
  <2>6. TypeOK'
    BY <1>0, <2>2, <2>4, <2>5 DEF BillingInv, TypeOK
  <2>7. Workers' /\ History' /\ AppliedOnce'
    BY <1>0, <2>2, <2>4 DEF BillingInv, Workers, History, AppliedOnce, Linked
  <2>8. Handlers'
    BY <1>0, <2>0, <2>2, <2>4 DEF BillingInv, Handlers, Sound, SubFree, Linked
  <2>9. Overlaid' /\ AccessFollowsStanding' /\ OneLicense'
    BY <2>0, <2>2, <2>3, <2>4, <2>5
       DEF BillingInv, Overlaid, AccessFollowsStanding, OneLicense, Linked, Licensed
  <2>10. NewestWins'
    BY <1>0, <1>2, <2>2, <2>3, <2>4, <2>5 DEF BillingInv, NewestWins, Licensed
  <2> QED
    BY <2>6, <2>7, <2>8, <2>9, <2>10 DEF BillingInv
<1> QED
  BY <1>1, <1>2 DEF ListElapsed, suspendElapsed, GraceFault, StillElapsed

(* The newest event that tells: there is one, the creation at the latest.  *)
LEMMA NewestTells ==
  ASSUME BillingInv
  PROVE  /\ Newest \in DOMAIN sent /\ sent[Newest].kind # "unknown"
         /\ \A i \in DOMAIN sent : sent[i].kind # "unknown" => i <= Newest
<1> DEFINE Telling == {i \in DOMAIN sent : sent[i].kind # "unknown"}
           Rest == {n \in Nat : \E i \in Telling : n = Len(sent) - i}
<1>1. Len(sent) \in Nat /\ DOMAIN sent = 1 .. Len(sent)
  BY SentIndices DEF BillingInv
<1>2. Len(sent) - 1 \in Rest
  BY <1>1 DEF BillingInv, History
<1>3. PICK n \in Rest : \A m \in Rest : ~(<<m, n>> \in OpToRel(<, Nat))
  BY <1>2, NatLessThanWellFounded, WFMin, Zenon
<1>4. PICK i \in Telling : n = Len(sent) - i
  BY <1>3
<1>5. \A j \in Telling : j <= i
  <2> TAKE j \in Telling
  <2>1. Len(sent) - j \in Rest
    BY <1>1
  <2>2. ~(Len(sent) - j < n)
    BY <1>1, <1>3, <2>1 DEF OpToRel
  <2> QED
    BY <1>1, <1>4, <2>2
<1> QED
  BY <1>4, <1>5 DEF Newest

(* The reconciliation up to the provider's answer.                         *)
LEMMA JobStep ==
  ASSUME BillingInv, ListCandidates \/ providerFetch \/ SkipJob
  PROVE  BillingInv'
<1>0. UNCHANGED <<now, sent, ledger, sub, license, hook, worker, ops, effects>>
  BY DEF ListCandidates, providerFetch, SkipJob
<1>1. job' \in Job /\ Workers'
  <2>0. job \in Job /\ now \in Time
    BY DEF BillingInv, TypeOK
  <2>1. CASE SkipJob
    BY <1>0, <2>1 DEF SkipJob, NoJob, Job, States, BillingInv, Workers, Linked
  <2>2. CASE ListCandidates
    <3>1. PICK q : q = [NoJob EXCEPT !.pc = "listed", !.at = now]
      OBVIOUS
    <3>2. q \in Job /\ q.pc = "listed" /\ q.at = now
      BY <2>0, <3>1 DEF NoJob, Job, States
    <3>3. job' = q /\ Linked
      BY <2>2, <3>1 DEF ListCandidates
    <3>4. now <= now
      BY <2>0 DEF Time
    <3> QED
      BY <1>0, <2>0, <3>2, <3>3, <3>4 DEF BillingInv, Workers, Linked
  <2>3. CASE providerFetch
    <3>1. PICK m \in DOMAIN sent :
            /\ m = Newest /\ sent[m].kind # "unknown"
            /\ \A i \in DOMAIN sent : sent[i].kind # "unknown" => i <= m
      BY NewestTells
    <3>2. /\ sent[m].kind \in AllKinds /\ sent[m].at \in Time /\ sent[m].period \in Nat
          /\ sent[m].at <= now /\ job.at \in Time /\ job.at <= now /\ Linked
      BY <2>3, SentIndices DEF BillingInv, History, Workers, providerFetch
    <3>3. PICK st, stamp : st = Overlay(sent[m].kind)
                           /\ stamp = (IF Stamped THEN sent[m].at ELSE job.at)
      OBVIOUS
    <3>4. st \in Told /\ stamp \in Time /\ stamp <= now
      BY <3>1, <3>2, <3>3, OverlayTells
    <3>5. PICK q : q = [job EXCEPT !.pc = "fetched", !.state = st, !.stamp = stamp,
                                   !.period = sent[m].period]
      OBVIOUS
    <3>6. /\ q \in Job /\ q.pc = "fetched" /\ q.state = st /\ q.stamp = stamp
          /\ q.period = sent[m].period /\ q.at = job.at
      BY <2>0, <3>2, <3>4, <3>5 DEF Job, Told, States
    <3>7. job' = q
      BY <2>3, <3>1, <3>3, <3>5 DEF providerFetch, Standing
    <3>8. \A i \in DOMAIN sent : sent[i].kind # "unknown" => sent[i].period <= sent[m].period
      BY <3>1 DEF BillingInv, History
    <3> QED
      BY <1>0, <3>2, <3>4, <3>6, <3>7, <3>8 DEF BillingInv, Workers, Linked
  <2> QED
    BY <2>1, <2>2, <2>3
<1>2. TypeOK' /\ Handlers' /\ History' /\ Overlaid'
  BY <1>0, <1>1 DEF BillingInv, TypeOK, Handlers, Sound, History, Overlaid, Linked
<1> QED
  BY <1>0, <1>1, <1>2
     DEF BillingInv, AppliedOnce, OneLicense, NewestWins, AccessFollowsStanding, Linked, Licensed

(* The operator: a license leaves "revoked" never.                         *)
LEMMA OperatorStep ==
  ASSUME BillingInv, suspendLicense \/ reinstateLicense \/ revokeLicense
  PROVE  BillingInv'
<1>1. PICK to \in {"active", "suspended", "revoked"} :
        /\ Linked /\ Licensed.status \in {"active", "suspended"}
        /\ ops' = ops + 1 /\ ops < MaxOps
        /\ license' = [license EXCEPT ![sub.license] = [@ EXCEPT !.status = to, !.by = "operator"]]
        /\ UNCHANGED <<now, sent, ledger, sub, hook, worker, job, effects>>
  BY DEF suspendLicense, reinstateLicense, revokeLicense, Operate
<1>2. /\ license \in [Events -> License] /\ sub.license \in Events /\ Licensed \in License
      /\ ops' \in 0 .. MaxOps
  BY <1>1, BoundsAssumption DEF BillingInv, TypeOK, Linked, Subscription, Licensed
<1>3. PICK new : new = [Licensed EXCEPT !.status = to, !.by = "operator"]
  OBVIOUS
<1>4. new \in License /\ new.status = to /\ new.by = "operator" /\ new.term = Licensed.term
  BY <1>2, <1>3 DEF License
<1>5. /\ license' \in [Events -> License] /\ license'[sub.license] = new
      /\ \A d \in Events \ {sub.license} : license'[d] = license[d]
  BY <1>1, <1>2, <1>3, <1>4 DEF Licensed
<1>6. TypeOK' /\ Workers' /\ History' /\ AppliedOnce' /\ Overlaid'
  BY <1>1, <1>2, <1>5 DEF BillingInv, TypeOK, Workers, History, AppliedOnce, Overlaid, Linked
<1>7. Handlers'
  BY <1>1 DEF BillingInv, Handlers, Sound, Linked
<1>8. OneLicense' /\ AccessFollowsStanding'
  BY <1>1, <1>4, <1>5 DEF BillingInv, OneLicense, AccessFollowsStanding, Linked, Licensed
<1>9. NewestWins'
  BY <1>1, <1>4, <1>5 DEF BillingInv, NewestWins, Licensed
<1> QED
  BY <1>6, <1>7, <1>8, <1>9 DEF BillingInv

(* A later clock.                                                          *)
LEMMA TickStep == ASSUME BillingInv, Tick PROVE BillingInv'
<1>1. /\ now' = now + 1 /\ now \in Time /\ now < Last
      /\ UNCHANGED <<sent, ledger, sub, license, hook, worker, job, ops, effects>>
  BY DEF Tick, BillingInv, TypeOK
<1>2. now \in Nat /\ now' \in Time /\ \A t \in Time : t <= now => t <= now'
  BY <1>1, Numbers DEF Time
<1>3. TypeOK' /\ Handlers' /\ Overlaid'
  BY <1>1, <1>2 DEF BillingInv, TypeOK, Handlers, Sound, Overlaid, Linked
<1>4. History'
  <2>1. \A i \in DOMAIN sent : sent[i].at \in Time
    BY SentIndices DEF BillingInv
  <2> QED
    BY <1>1, <1>2, <2>1 DEF BillingInv, History, Linked
<1>5. Workers'
  BY <1>1, <1>2 DEF BillingInv, Workers, Linked
<1> QED
  BY <1>1, <1>3, <1>4, <1>5
     DEF BillingInv, AppliedOnce, OneLicense, NewestWins, AccessFollowsStanding, Linked, Licensed

(* The provider's next event is no older than any other, and dates from    *)
(* now: no snapshot fetched is younger.                                    *)
LEMMA EmitStep ==
  ASSUME BillingInv, NEW kind \in AllKinds, Emit(kind)
  PROVE  BillingInv'
<1> DEFINE n == Len(sent)
<1>1. /\ n \in Nat \ {0} /\ DOMAIN sent = 1 .. n /\ n < Len(Kinds) /\ now \in Time
      /\ sent \in Seq(Event) /\ DOMAIN sent \subseteq Events /\ TypeOK
  BY SentIndices DEF BillingInv, TypeOK, History, Emit
<1>2. PICK event : event = [kind |-> kind, at |-> now,
                            period |-> sent[n].period + IF kind = "renewed" THEN 1 ELSE 0]
  OBVIOUS
<1>3. /\ event \in Event /\ event.at = now /\ event.kind = kind
      /\ event.period \in Nat /\ sent[n].period <= event.period
  <2>1. sent[n].period \in Nat
    BY <1>1, SentIndices
  <2> QED
    BY <1>1, <1>2, <2>1 DEF Event
<1>4. sent' = Append(sent, event) /\ UNCHANGED <<now, ledger, sub, license, hook, worker, job, ops, effects>>
  BY <1>2 DEF Emit
<1> HIDE DEF n
<1>5. /\ sent' \in Seq(Event) /\ Len(sent') = n + 1 /\ DOMAIN sent' = 1 .. n + 1
      /\ sent'[n + 1] = event /\ \A i \in DOMAIN sent : sent'[i] = sent[i]
  BY <1>1, <1>3, <1>4 DEF n
<1>6. /\ DOMAIN sent \subseteq DOMAIN sent' /\ \A i \in DOMAIN sent' : i \in DOMAIN sent \/ i = n + 1
  BY <1>1, <1>5
<1>7. TypeOK'
  BY <1>1, <1>4, <1>5 DEF TypeOK
<1>8. History'
  <2>1. Len(sent') >= 1 /\ sent'[1].kind = "created"
    BY <1>1, <1>5 DEF BillingInv, History
  <2>2. \A i \in DOMAIN sent' : sent'[i].at <= now
    <3>1. now <= now
      BY <1>1 DEF Time
    <3> QED
      BY <1>3, <1>5, <1>6, <3>1 DEF BillingInv, History
  <2>3. ASSUME NEW i \in DOMAIN sent', NEW j \in DOMAIN sent', i <= j
        PROVE  sent'[i].at <= sent'[j].at /\ sent'[i].period <= sent'[j].period
    <3>1. CASE j \in DOMAIN sent
      <4>1. i \in DOMAIN sent
        BY <1>1, <1>6, <2>3, <3>1
      <4> QED
        BY <1>5, <2>3, <3>1, <4>1 DEF BillingInv, History
    <3>2. CASE j = n + 1 /\ i = n + 1
      BY <1>1, <1>3, <1>5, <3>2 DEF Time
    <3>3. CASE j = n + 1 /\ i \in DOMAIN sent
      <4>1. sent[i].at <= now /\ sent[i].period <= sent[n].period
        BY <1>1, <3>3 DEF BillingInv, History
      <4>2. sent[i].period \in Nat /\ sent[n].period \in Nat
        BY <1>1, <3>3, SentIndices
      <4> QED
        BY <1>3, <1>5, <3>3, <4>1, <4>2
    <3> QED
      BY <1>6, <3>1, <3>2, <3>3
  <2>4. \A e \in Events : /\ ledger'[e] # "none" => e \in DOMAIN sent'
                          /\ ledger'[e] = "applied" => Linked'
    BY <1>4, <1>6 DEF BillingInv, History, Linked
  <2> QED
    BY <1>4, <2>1, <2>2, <2>3, <2>4 DEF History
<1>9. Handlers'
  BY <1>4, <1>5, <1>6 DEF BillingInv, Handlers, Sound, Linked
<1>10. Workers'
  <2>1. worker' = "due" => Linked'
    BY <1>4 DEF BillingInv, Workers, Linked
  <2>2. job'.pc # "idle" => Linked' /\ job'.at \in Time /\ job'.at <= now'
    BY <1>4 DEF BillingInv, Workers, Linked
  <2>3. ASSUME job'.pc = "fetched"
        PROVE  /\ job'.stamp \in Time /\ job'.stamp <= now' /\ job'.state \in Told
               /\ \A i \in DOMAIN sent' :
                    (sent'[i].kind # "unknown" /\ sent'[i].at < job'.stamp)
                      => sent'[i].period <= job'.period
    <3>1. job.stamp \in Nat /\ now \in Nat /\ job.stamp <= now
      BY <1>1, <1>4, <2>3, Numbers DEF BillingInv, Workers
    <3>2. ~(event.at < job.stamp)
      BY <1>3, <3>1
    <3> QED
      BY <1>4, <1>5, <1>6, <2>3, <3>2 DEF BillingInv, Workers
  <2> QED
    BY <2>1, <2>2, <2>3 DEF Workers
<1>11. NewestWins'
  BY <1>4, <1>5 DEF BillingInv, NewestWins, History, Licensed
<1> QED
  BY <1>4, <1>7, <1>8, <1>9, <1>10, <1>11
     DEF BillingInv, Overlaid, AppliedOnce, OneLicense, AccessFollowsStanding, Linked, Licensed

-----------------------------------------------------------------------------
LEMMA NextBillingInv == BillingInv /\ [Next]_vars => BillingInv'
<1> SUFFICES ASSUME BillingInv, [Next]_vars PROVE BillingInv'
  OBVIOUS
<1>1. CASE UNCHANGED vars
  <2>1. TypeOK' /\ Handlers' /\ History' /\ Workers' /\ Overlaid'
    BY <1>1 DEF vars, BillingInv, TypeOK, Handlers, Sound, History, Workers, Overlaid, Linked
  <2> QED
    BY <1>1, <2>1
       DEF vars, BillingInv, AppliedOnce, OneLicense, NewestWins, AccessFollowsStanding, Linked, Licensed
<1>2. ASSUME NEW h \in Hooks, Handle(h) PROVE BillingInv'
  BY <1>2, MoveStep, SettleStep, ProvisionStep, CommitStep DEF Handle
<1>3. ASSUME NEW h \in Hooks, Fail(h) PROVE BillingInv'
  BY <1>3, MoveStep
<1> QED
  BY <1>1, <1>2, <1>3, EmitStep, ReceiveStep, WorkerStep, JobStep, ReconcileStep, OperatorStep,
     TickStep DEF Next

THEOREM BillingInvariant == Spec => []BillingInv
BY InitBillingInv, NextBillingInv, PTL DEF Spec

(* Every variable keeps its type.                                          *)
THEOREM BillingTypeCorrect == Spec => []TypeOK
<1>1. BillingInv => TypeOK
  BY DEF BillingInv
<1> QED
  BY <1>1, BillingInvariant, PTL

(* An event is applied as often as the ledger says, once or never.         *)
THEOREM EventsApplyOnce == Spec => []AppliedOnce
<1>1. BillingInv => AppliedOnce
  BY DEF BillingInv
<1> QED
  BY <1>1, BillingInvariant, PTL

(* No license is issued but the one the subscription is linked to.         *)
THEOREM OneLicenseIssued == Spec => []OneLicense
<1>1. BillingInv => OneLicense
  BY DEF BillingInv
<1> QED
  BY <1>1, BillingInvariant, PTL

(* The newest event applied decides the state, in any order of delivery.   *)
THEOREM OrderOfDelivery == Spec => []NewestWins
<1>1. BillingInv => NewestWins
  BY DEF BillingInv
<1> QED
  BY <1>1, BillingInvariant, PTL

(* Suspended by the worker, let in by an operator, or revoked: the access  *)
(* a license gives is what its standing calls for.                         *)
THEOREM StandingDecidesAccess == Spec => []AccessFollowsStanding
<1>1. BillingInv => AccessFollowsStanding
  BY DEF BillingInv
<1> QED
  BY <1>1, BillingInvariant, PTL
=============================================================================
