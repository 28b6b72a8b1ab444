------------------------------ MODULE Billing ------------------------------
(***************************************************************************)
(* Billing-driven licenses (src/server/modules/billing): the provider's    *)
(* webhooks, delivered any number of times and in any order, the worker    *)
(* that suspends when a grace period has run out, and the reconciliation   *)
(* with what the provider says now.  One subscription of one tenant.       *)
(*                                                                         *)
(* A webhook is one transaction: it looks the subscription up, locks its   *)
(* row, claims the event in the ledger and applies it.  Its writes show at *)
(* COMMIT; an error rolls them back and the provider delivers again.       *)
(* Nothing is read after the license's row lock that another transaction   *)
(* could change, so locking it, applying and COMMIT are one step.          *)
(***************************************************************************)
EXTENDS Naturals, Sequences, FiniteSets

CONSTANTS
  Hooks,       \* webhook deliveries handled at the same time
  Kinds,       \* Kinds[i]: what the provider's i-th event may be
  Parallel,    \* Parallel[i]: bound on the deliveries taken up at the same
               \* time once i events were sent
  MaxOps,      \* bound on the operator's interventions
  Grace,       \* the grace period of the plan
  MaxTime,     \* bound on the time at which anything arrives
  Stamped,     \* whether the provider dates the state it reports
  None

AllKinds == {"created", "renewed", "payment_failed", "canceled", "refunded",
             "unknown"}

ASSUME KindsAssumption ==
  /\ Kinds \in Seq(SUBSET AllKinds) /\ Kinds # <<>> /\ Kinds[1] = {"created"}
ASSUME BoundsAssumption ==
  /\ Parallel \in [DOMAIN Kinds -> Nat]
  /\ MaxOps \in Nat /\ MaxTime \in Nat \ {0} /\ Grace \in Nat \ {0}
  /\ Stamped \in BOOLEAN

VARIABLES
  now,        \* the clock of the server and of the provider, in seconds
  sent,       \* the provider's events, oldest first; an index is an event id
  ledger,     \* ledger[e]: the outcome of e's billing_event row
  sub,        \* the subscription row
  license,    \* license[e]: the license that event e issued
  hook,       \* the webhook handlers
  worker,     \* the grace worker
  job,        \* the reconciliation
  ops,        \* the operator's interventions so far
  effects     \* effects[e]: how often e was applied (history)

vars == <<now, sent, ledger, sub, license, hook, worker, job, ops, effects>>
-----------------------------------------------------------------------------
Events == DOMAIN Kinds
Last == MaxTime + Grace     \* of the clock: stands for any later time too
Time == 1 .. Last
States == {"active", "past_due", "grace", "canceled", "refunded"}

Event == [kind : AllKinds, at : Time, period : Nat]

(* last: the state the newest applied event or snapshot called for         *)
(* (history), which the grace worker does not touch.                       *)
Subscription == [license : Events, state : States,
                 graceUntil : Time \union {None}, anchor : Time, last : States]

(* by: whose doing the status is (history).                                *)
License == [status : {"none", "active", "suspended", "revoked"}, term : Nat,
            by : {"billing", "worker", "operator"}]

NoLicense == [status |-> "none", term |-> 0, by |-> "billing"]

Hook == [pc : {"idle", "missing", "creating", "found", "claimed"},
         event : Events \union {None}, at : Time \union {0}]

Idle == [pc |-> "idle", event |-> None, at |-> 0]

Job == [pc : {"idle", "listed", "fetched"}, at : Time \union {0},
        state : States, stamp : Time \union {0}, period : Nat]

NoJob == [pc |-> "idle", at |-> 0, state |-> "active", stamp |-> 0, period |-> 0]

ASSUME NoneAssumption == None \notin Nat /\ None \notin Subscription

TypeOK ==
  /\ now \in Time
  /\ sent \in Seq(Event) /\ Len(sent) <= Len(Kinds)
  /\ ledger \in [Events -> {"none", "applied", "deadletter", "rejected"}]
  /\ sub \in Subscription \union {None}
  /\ license \in [Events -> License]
  /\ hook \in [Hooks -> Hook]
  /\ worker \in {"idle", "due"}
  /\ job \in Job
  /\ ops \in 0 .. MaxOps
  /\ effects \in [Events -> Nat]

(* The clock starts when the provider creates the subscription.            *)
Init ==
  /\ now = 1
  /\ sent = <<[kind |-> "created", at |-> now, period |-> 1]>>
  /\ ledger = [e \in Events |-> "none"]
  /\ sub = None
  /\ license = [e \in Events |-> NoLicense]
  /\ hook = [h \in Hooks |-> Idle]
  /\ worker = "idle"
  /\ job = NoJob
  /\ ops = 0
  /\ effects = [e \in Events |-> 0]
-----------------------------------------------------------------------------
(* mapEventToAction, and the overlay each action asks for.                 *)
Overlay(kind) ==
  CASE kind \in {"created", "renewed"} -> "active"
    [] kind = "payment_failed" -> "past_due"
    [] kind = "canceled" -> "grace"
    [] kind = "refunded" -> "refunded"

Linked == sub # None
Licensed == license[sub.license]

(* The provider: a renewal starts the next period, and two events may      *)
(* carry the same second.                                                  *)
Emit(kind) ==
  /\ Len(sent) < Len(Kinds) /\ now <= MaxTime
  /\ kind \in Kinds[Len(sent) + 1]
  /\ sent' = Append(sent, [kind |-> kind, at |-> now, period |->
               sent[Len(sent)].period + IF kind = "renewed" THEN 1 ELSE 0])
  /\ UNCHANGED <<now, ledger, sub, license, hook, worker, job, ops, effects>>

(* What the provider's own record says, from the newest event that tells.  *)
Newest == CHOOSE i \in DOMAIN sent :
            /\ sent[i].kind # "unknown"
            /\ \A j \in DOMAIN sent : sent[j].kind # "unknown" => j <= i
Standing == Overlay(sent[Newest].kind)

(* FOR UPDATE on the subscription: held from the claim to COMMIT.          *)
SubFree == \A h \in Hooks : hook[h].pc # "claimed"

Becomes(h, r) == hook' = [hook EXCEPT ![h] = r]
World == <<now, sent, worker, job, ops>>

(* A claim that is not committed yet holds another INSERT of its event.    *)
Unclaimed(e) == \A h \in Hooks : hook[h].pc = "claimed" => hook[h].event # e

(* recordEvent: INSERT .. ON CONFLICT DO NOTHING.                          *)
recordEvent(e, outcome) ==
  ledger' = IF ledger[e] = "none" THEN [ledger EXCEPT ![e] = outcome] ELSE ledger

(* applySubscriptionState: UPDATE .. WHERE last_applied_event_at < at.     *)
applySubscriptionState(state, until, at) ==
  sub' = IF sub.anchor < at
         THEN [sub EXCEPT !.state = state, !.graceUntil = until, !.anchor = at,
                          !.last = state]
         ELSE sub

applyRenew(at, period) ==
  IF Licensed.status = "revoked" THEN UNCHANGED <<sub, license>>
  ELSE /\ license' = [license EXCEPT ![sub.license] =
            [status |-> "active", term |-> period,
             by |-> IF Licensed.status = "suspended" THEN "billing" ELSE @.by]]
       /\ applySubscriptionState("active", None, at)

GraceExpiry(from) == IF from + Grace < Last THEN from + Grace ELSE Last

applyGrace(state, at, from) ==
  /\ IF Licensed.status = "revoked" THEN UNCHANGED sub
     ELSE applySubscriptionState(state, GraceExpiry(from), at)
  /\ UNCHANGED license

applyRevoke(at) ==
  /\ license' = [license EXCEPT ![sub.license] =
       IF @.status = "revoked" THEN @
       ELSE [@ EXCEPT !.status = "revoked", !.by = "billing"]]
  /\ applySubscriptionState("refunded", None, at)

(* One of the three, for an event or a snapshot that calls for state.      *)
Apply(state, at, period, from) ==
  CASE state = "active" -> applyRenew(at, period)
    [] state = "refunded" -> applyRevoke(at)
    [] OTHER -> applyGrace(state, at, from)
-----------------------------------------------------------------------------
(* handleWebhook up to the lookup by the external id, which takes no lock. *)
(* A grace period counts from this time, which nothing else uses.          *)
Receive(h, e) ==
  /\ hook[h].pc = "idle" /\ now <= MaxTime /\ e \in DOMAIN sent
  /\ Cardinality({g \in Hooks : hook[g].pc # "idle"}) < Parallel[Len(sent)]
  /\ Becomes(h, [pc |-> IF Linked THEN "found" ELSE "missing", event |-> e,
       at |-> IF sent[e].kind \in {"payment_failed", "canceled"} THEN now ELSE 0])
  /\ UNCHANGED World /\ UNCHANGED <<ledger, sub, license, effects>>

(* resolveCustomer: the upsert holds the customer's row to COMMIT, so one  *)
(* creation runs at a time.                                                *)
Create(h) ==
  /\ hook[h].pc = "missing" /\ sent[hook[h].event].kind = "created"
  /\ \A g \in Hooks : hook[g].pc # "creating"
  /\ Becomes(h, [hook[h] EXCEPT !.pc = "creating"])
  /\ UNCHANGED World /\ UNCHANGED <<ledger, sub, license, effects>>

(* linkSubscription: the INSERT that fails on a subscription that is        *)
(* linked.                                                                 *)
linkSubscription(e) ==
  sub' = [license |-> e, state |-> "active", graceUntil |-> None,
          anchor |-> sent[e].at, last |-> "active"]

(* applyProvision: issue, link and claim, or roll everything back when the *)
(* subscription is linked by now or the event was processed.               *)
Provision_LinkUnchecked(h) ==
  LET e == hook[h].event IN
  /\ hook[h].pc = "creating"
  /\ Becomes(h, Idle)
  /\ IF ledger[e] # "none"
     THEN UNCHANGED <<ledger, sub, license, effects>>
     ELSE /\ license' = [license EXCEPT ![e] = [status |-> "active",
               term |-> sent[e].period, by |-> "billing"]]
          /\ linkSubscription(e)
          /\ recordEvent(e, "applied")
          /\ effects' = [effects EXCEPT ![e] = @ + 1]
  /\ UNCHANGED World

Provision(h) ==
  LET e == hook[h].event IN
  /\ hook[h].pc = "creating"
  /\ Becomes(h, Idle)
  /\ IF Linked \/ ledger[e] # "none"
     THEN UNCHANGED <<ledger, sub, license, effects>>
     ELSE /\ license' = [license EXCEPT ![e] = [status |-> "active",
               term |-> sent[e].period, by |-> "billing"]]
          /\ linkSubscription(e)
          /\ recordEvent(e, "applied")
          /\ effects' = [effects EXCEPT ![e] = @ + 1]
  /\ UNCHANGED World

(* No subscription, and not an event that creates one.                     *)
DeadLetter(h) ==
  /\ hook[h].pc = "missing" /\ sent[hook[h].event].kind # "created"
  /\ Unclaimed(hook[h].event)
  /\ recordEvent(hook[h].event, "deadletter")
  /\ Becomes(h, Idle)
  /\ UNCHANGED World /\ UNCHANGED <<sub, license, effects>>

isStaleEvent_Never(e) == FALSE
isStaleEvent(e) == sent[e].at <= sub.anchor

(* lockSubscription, then the guard: an event no newer than the last one   *)
(* applied is rejected, and one nobody knows is dead-lettered.             *)
Refuse(h) ==
  LET e == hook[h].event IN
  /\ hook[h].pc = "found" /\ SubFree /\ sent[e].kind # "created"
  /\ \/ isStaleEvent(e) /\ recordEvent(e, "rejected")
     \/ ~isStaleEvent(e) /\ sent[e].kind = "unknown" /\ recordEvent(e, "deadletter")
  /\ Becomes(h, Idle)
  /\ UNCHANGED World /\ UNCHANGED <<sub, license, effects>>

(* .. and the claim: an event that is in the ledger is a duplicate.        *)
Claim_LedgerUnchecked(h) ==
  /\ hook[h].pc = "found" /\ SubFree
  /\ sent[hook[h].event].kind # "created" =>
       ~isStaleEvent(hook[h].event) /\ sent[hook[h].event].kind # "unknown"
  /\ Becomes(h, [hook[h] EXCEPT !.pc = "claimed"])
  /\ UNCHANGED World /\ UNCHANGED <<ledger, sub, license, effects>>

Claim(h) ==
  LET e == hook[h].event IN
  /\ hook[h].pc = "found" /\ SubFree
  /\ sent[e].kind # "created" => ~isStaleEvent(e) /\ sent[e].kind # "unknown"
  /\ Becomes(h, IF ledger[e] # "none" THEN Idle
                ELSE [hook[h] EXCEPT !.pc = "claimed"])
  /\ UNCHANGED World /\ UNCHANGED <<ledger, sub, license, effects>>

(* A creation of what is linked already only adds to the audit log.        *)
Commit(h) ==
  LET e == hook[h].event IN
  /\ hook[h].pc = "claimed"
  /\ recordEvent(e, "applied")
  /\ effects' = [effects EXCEPT ![e] = @ + 1]
  /\ IF sent[e].kind = "created" THEN UNCHANGED <<sub, license>>
     ELSE Apply(Overlay(sent[e].kind), sent[e].at, sent[e].period, hook[h].at)
  /\ Becomes(h, Idle)
  /\ UNCHANGED World

(* A fault or a crash anywhere in the transaction.                         *)
Fail(h) ==
  /\ hook[h].pc # "idle"
  /\ Becomes(h, Idle)
  /\ UNCHANGED World /\ UNCHANGED <<ledger, sub, license, effects>>
-----------------------------------------------------------------------------
(* The grace worker lists what has run out ..                              *)
Lapsed_GraceOnly == Linked /\ sub.state = "grace" /\ sub.graceUntil <= now
Lapsed == Linked /\ sub.state \in {"past_due", "grace"} /\ sub.graceUntil <= now

ListElapsed ==
  /\ worker = "idle" /\ Lapsed
  /\ worker' = "due"
  /\ UNCHANGED <<now, sent, ledger, sub, license, hook, job, ops, effects>>

(* .. and takes each in a transaction of its own, with the condition       *)
(* checked again under the lock.  A transaction whose now() is too old to  *)
(* find it true ends as GraceFault does.                                   *)
StillElapsed_Trusted == Linked
StillElapsed == Lapsed

suspendElapsed ==
  /\ worker = "due" /\ SubFree
  /\ IF StillElapsed /\ Licensed.status # "revoked"
     THEN /\ sub' = [sub EXCEPT !.state = "canceled", !.graceUntil = None]
          /\ license' = [license EXCEPT ![sub.license] =
               IF @.status = "active"
               THEN [@ EXCEPT !.status = "suspended", !.by = "worker"] ELSE @]
     ELSE UNCHANGED <<sub, license>>
  /\ worker' = "idle"
  /\ UNCHANGED <<now, sent, ledger, hook, job, ops, effects>>

GraceFault ==
  /\ worker = "due"
  /\ worker' = "idle"
  /\ UNCHANGED <<now, sent, ledger, sub, license, hook, job, ops, effects>>
-----------------------------------------------------------------------------
(* reconcile: the candidates, then the provider's answer, outside any      *)
(* transaction, then one transaction.  A state the provider does not date  *)
(* counts as of the start of the job.                                      *)
ListCandidates ==
  /\ job.pc = "idle" /\ Linked /\ sub.state # "refunded"
  /\ job' = [NoJob EXCEPT !.pc = "listed", !.at = now]
  /\ UNCHANGED <<now, sent, ledger, sub, license, hook, worker, ops, effects>>

providerFetch ==
  /\ job.pc = "listed"
  /\ job' = [job EXCEPT !.pc = "fetched", !.state = Standing,
               !.stamp = IF Stamped THEN sent[Newest].at ELSE job.at,
               !.period = sent[Newest].period]
  /\ UNCHANGED <<now, sent, ledger, sub, license, hook, worker, ops, effects>>

(* No record at the provider, no answer, or a fault.                       *)
SkipJob ==
  /\ job.pc # "idle"
  /\ job' = NoJob
  /\ UNCHANGED <<now, sent, ledger, sub, license, hook, worker, ops, effects>>

driftsTo_NotFromCanceled(local, state) ==
  CASE state = "refunded" -> local # "refunded"
    [] state = "active" -> local \in {"past_due", "grace"}
    [] state = "grace" -> local \in {"active", "past_due"}
    [] state = "past_due" -> local = "active"

driftsTo(local, state) ==
  CASE state = "refunded" -> local # "refunded"
    [] state = "active" -> local # "active"
    [] state = "grace" -> local \in {"active", "past_due"}
    [] state = "past_due" -> local = "active"

reconcileOne ==
  /\ job.pc = "fetched" /\ SubFree
  /\ IF job.stamp > sub.anchor /\ driftsTo(sub.state, job.state)
     THEN Apply(job.state, job.stamp, job.period, job.at)
     ELSE UNCHANGED <<sub, license>>
  /\ job' = NoJob
  /\ UNCHANGED <<now, sent, ledger, hook, worker, ops, effects>>
-----------------------------------------------------------------------------
(* The operator, through the license's own life cycle.                     *)
Operate(from, to) ==
  /\ Linked /\ Licensed.status \in from
  /\ ops < MaxOps /\ ops' = ops + 1
  /\ license' = [license EXCEPT ![sub.license] =
       [@ EXCEPT !.status = to, !.by = "operator"]]
  /\ UNCHANGED <<now, sent, ledger, sub, hook, worker, job, effects>>

suspendLicense == Operate({"active"}, "suspended")
reinstateLicense == Operate({"suspended"}, "active")
revokeLicense == Operate({"active", "suspended"}, "revoked")

Tick ==
  /\ now < Last
  /\ now' = now + 1
  /\ UNCHANGED <<sent, ledger, sub, license, hook, worker, job, ops, effects>>

Handle(h) ==
  \/ Create(h) \/ Provision(h) \/ DeadLetter(h) \/ Refuse(h) \/ Claim(h)
  \/ Commit(h)

Next ==
  \/ \E kind \in AllKinds : Emit(kind)
  \/ \E h \in Hooks : \/ \E e \in Events : Receive(h, e)
                      \/ Handle(h) \/ Fail(h)
  \/ ListElapsed \/ suspendElapsed \/ GraceFault
  \/ ListCandidates \/ providerFetch \/ SkipJob \/ reconcileOne
  \/ suspendLicense \/ reinstateLicense \/ revokeLicense
  \/ Tick

Spec == Init /\ [][Next]_vars

(* Handlers end, one way or the other; both workers run again and again,   *)
(* and a sweep that keeps trying gets the row lock and an answer in time.  *)
Fairness ==
  /\ WF_vars(Tick)
  /\ \A h \in Hooks : WF_vars(Handle(h))
  /\ WF_vars(ListElapsed) /\ SF_vars(suspendElapsed)
  /\ WF_vars(ListCandidates) /\ SF_vars(providerFetch) /\ SF_vars(reconcileOne)

FairSpec == Spec /\ Fairness
-----------------------------------------------------------------------------
(* An event is applied once, when the ledger says so, and otherwise never: *)
(* however often it is delivered, at the same time too, and whatever       *)
(* fails (billing/webhook.ts, dispatch).                                   *)
AppliedOnce ==
  \A e \in Events : effects[e] = IF ledger[e] = "applied" THEN 1 ELSE 0

(* A license that billing issued is the one its subscription is linked to: *)
(* deliveries of a creation that race leave no second license behind       *)
(* (applyProvision).                                                       *)
OneLicense ==
  \A e \in Events : license[e].status # "none" => Linked /\ sub.license = e

(* Whatever the order of delivery, no event that was applied is newer than *)
(* the state shown, the one the state dates from decides it, and the term  *)
(* covers every renewal applied (isStaleEvent, applySubscriptionState).    *)
NewestWins ==
  \A e \in Events :
    (ledger[e] = "applied" /\ sent[e].kind # "created" /\ Licensed.status # "revoked")
    => /\ sent[e].at <= sub.anchor
       /\ sent[e].at = sub.anchor => sub.last = Overlay(sent[e].kind)
       /\ sent[e].kind = "renewed" => sent[e].period <= Licensed.term

(* Access follows standing: the worker has suspended only a license that   *)
(* is unpaid by the newest word, an unpaid one whose grace ran out is out  *)
(* unless an operator let it in, and a refunded one is revoked             *)
(* (suspendElapsed against applyRenew, applyRevoke).                       *)
AccessFollowsStanding ==
  Linked =>
    /\ Licensed.status = "suspended" /\ Licensed.by = "worker"
         => sub.last \in {"past_due", "grace"}
    /\ sub.state = "canceled" /\ Licensed.status = "active"
         => Licensed.by = "operator"
    /\ sub.last = "refunded" => Licensed.status = "revoked"

(* A grace period ends, by payment, suspension or revocation, with no      *)
(* further webhook (startGraceWorker).                                     *)
InGrace == Linked /\ sub.state \in {"past_due", "grace"} /\ Licensed.status # "revoked"
GraceEnds == InGrace ~> ~InGrace

(* When the provider has said its last word, reconciliation brings a       *)
(* linked subscription to it, whichever webhooks were lost, doubled or     *)
(* overtaken (reconcile).                                                  *)
Agrees ==
  \/ sub.state = Standing
  \/ Standing = "past_due" /\ sub.state \in {"grace", "canceled"}
  \/ Standing = "grace" /\ sub.state = "canceled"
  \/ Licensed.status = "revoked"
MissedEventsHealed == <>[](Linked => Agrees)
=============================================================================
