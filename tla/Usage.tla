------------------------------- MODULE Usage -------------------------------
(***************************************************************************)
(* Usage metering (src/server/modules/usage): batches of usage events      *)
(* appended to a raw table, the worker that folds the raw events into a    *)
(* durable total per license, entitlement and bucket, the worker that      *)
(* prunes raw events past the acceptance window, and a tenant's erasure.   *)
(*                                                                         *)
(* An ingest is one transaction: its rows are stamped with the time it     *)
(* began and show when it commits.  The roll-up of a tenant is one         *)
(* transaction too, but READ COMMITTED: what it reads to know which        *)
(* buckets changed and what it then adds up are two snapshots.             *)
(* The database stamps rows more finely than the milliseconds the server   *)
(* reads back: a stamp is twice the clock, plus one when it lies past the  *)
(* whole millisecond, and the watermark is even.                           *)
(* Every tenant has one license; a bucket is named by its first instant.   *)
(***************************************************************************)
EXTENDS Integers, Sequences, FiniteSetsExt

CONSTANTS
  Metered,        \* the tenants
  Producers,      \* ingest requests handled at the same time
  Batches,        \* what a producer may report
  Entitlements,
  Aggregation,    \* Aggregation[e]: how e is metered, NoValue when it is not
  Archived,       \* the archived entitlements
  Inactive,       \* the tenants whose license is not active
  Allowance,      \* Allowance[e]: the quota of e, or NoValue
  BucketSecs, RetentionSecs, FutureSkewSecs,
  MaxEvents,      \* events of one batch
  MaxBatch,       \* raw events of a tenant that one sweep reads
  Fractions,      \* what a stamp may have beyond its millisecond
  MaxTime,        \* bound on the clock
  MaxRequests,    \* bound on the ingest requests with an eligible event
  MaxFaults,      \* bound on restarts, failed sweeps and erasures
  NoValue         \* none: NULL, a producer or a sweep that is idle

Event == [tenant : Metered, key : STRING, ent : Entitlements, time : Int,
          qty : Int, dim : STRING]

(* A producer that repeats an event id repeats the event.                  *)
ASSUME BatchesAssumption ==
  /\ Batches \subseteq Seq(Event)
  /\ \A a, b \in Batches : \A i \in DOMAIN a, j \in DOMAIN b :
       a[i].tenant = b[j].tenant /\ a[i].key = b[j].key => a[i] = b[j]
ASSUME CatalogAssumption ==
  /\ Aggregation \in [Entitlements -> {"sum", "count", "unique_count", NoValue}]
  /\ Allowance \in [Entitlements -> Nat \union {NoValue}]
  /\ Archived \subseteq Entitlements /\ Inactive \subseteq Metered
ASSUME BoundsAssumption ==
  /\ {BucketSecs, RetentionSecs, MaxEvents, MaxBatch, MaxTime} \subseteq Nat \ {0}
  /\ {FutureSkewSecs, MaxRequests, MaxFaults} \subseteq Nat
  /\ Fractions \subseteq {0, 1}
  /\ NoValue \notin Nat /\ NoValue \notin Metered

VARIABLES
  now,        \* the clock
  request,    \* request[p]: the rows p's open transaction is to append
  raw,        \* usage_event
  rollup,     \* usage_rollup: the rows, by bucket
  unique,     \* usage_unique_value
  since,      \* the watermark of the roll-up worker, kept in memory
  sweep,      \* the roll-up worker
  requests,   \* ingest requests so far
  faults,     \* restarts, failed sweeps and erasures so far
  folded,     \* rows that went into some total (history)
  late,       \* rows shown under or behind a sweep, whose sweep failed, or
              \* that a full batch split from their stamp (history)
  tainted     \* buckets whose raw rows went while they were read (history)

vars == <<now, request, raw, rollup, unique, since, sweep, requests, faults,
          folded, late, tainted>>
-----------------------------------------------------------------------------
Time == 1 .. MaxTime
Stamp == 0 .. 2 * MaxTime + 1
Row == [ev : Event, at : Stamp]

bucketStartFor(time) == time - (time % BucketSecs)

(* A bucket: license (tenant), entitlement, first instant.                 *)
BucketOf(r) == <<r.ev.tenant, r.ev.ent, bucketStartFor(r.ev.time)>>
In(b, rows) == {r \in rows : BucketOf(r) = b}
Of(t, rows) == {r \in rows : r.ev.tenant = t}

(* What JavaScript's Date keeps of a stamp.                                *)
Ms(at) == at - (at % 2)
Watermark == {Ms(at) : at \in Stamp}

Total == [value : Int, eventCount : Nat, overQuota : BOOLEAN]

SweepState == [pc : {"idle", "tenants", "fold"}, todo : SUBSET Metered,
               tenant : Metered \union {NoValue}, rows : SUBSET Row,
               globalMax : Watermark, cappedMin : Watermark \union {NoValue}]

NoSweep == [pc |-> "idle", todo |-> {}, tenant |-> NoValue, rows |-> {},
            globalMax |-> 0, cappedMin |-> NoValue]

TypeOK ==
  /\ now \in Time /\ since \in Watermark
  /\ request \in [Producers -> (SUBSET Row) \union {NoValue}]
  /\ raw \subseteq Row /\ folded \subseteq Row /\ late \subseteq Row
  /\ \A b \in DOMAIN rollup : rollup[b] \in Total
  /\ sweep \in SweepState
  /\ requests \in 0 .. MaxRequests /\ faults \in 0 .. MaxFaults

Init ==
  /\ now = 1
  /\ request = [p \in Producers |-> NoValue]
  /\ raw = {} /\ rollup = <<>> /\ unique = {}
  /\ since = 0 /\ sweep = NoSweep
  /\ requests = 0 /\ faults = 0
  /\ folded = {} /\ late = {} /\ tainted = {}
-----------------------------------------------------------------------------
(* Ingest.                                                                 *)

classifyAcceptance_NoStale(time) ==
  IF time > now + FutureSkewSecs THEN "future" ELSE "ok"
classifyAcceptance(time) ==
  CASE time < now - RetentionSecs  -> "stale"
    [] time > now + FutureSkewSecs -> "future"
    [] OTHER -> "ok"

(* A reversal takes from a sum or a count, never from a set of values.     *)
validateQuantity(agg, qty) ==
  CASE agg = "sum"          -> TRUE
    [] agg = "count"        -> qty # 0
    [] agg = "unique_count" -> qty > 0

Eligible(e) ==
  /\ Aggregation[e.ent] # NoValue
  /\ e.ent \notin Archived
  /\ e.tenant \notin Inactive
  /\ classifyAcceptance(e.time) = "ok"
  /\ validateQuantity(Aggregation[e.ent], e.qty)

(* The envelope is refused whole, before anything is accrued.              *)
Envelope(batch) == Len(batch) \in 1 .. MaxEvents

(* ingestBatch up to its INSERT: every event is judged on its own, and     *)
(* without an eligible one there is nothing to insert.                     *)
ingestBatch(p, batch) ==
  /\ request[p] = NoValue /\ Envelope(batch) /\ requests < MaxRequests
  /\ \E f \in Fractions :
       LET rows == {[ev |-> batch[i], at |-> 2 * now + f] :
                      i \in {j \in DOMAIN batch : Eligible(batch[j])}}
       IN  /\ rows # {}
           /\ request' = [request EXCEPT ![p] = rows]
  /\ requests' = requests + 1
  /\ UNCHANGED <<now, raw, rollup, unique, since, sweep, faults,
                 folded, late, tainted>>

(* INSERT .. ON CONFLICT DO NOTHING.                                       *)
Fresh(rows) == {r \in rows : \A s \in raw : s.ev.tenant = r.ev.tenant => s.ev.key # r.ev.key}

(* appendBatch and COMMIT.  A row that shows only once a sweep has begun,  *)
(* or below the watermark, may be passed over.                             *)
appendBatch(p) ==
  /\ request[p] # NoValue
  /\ LET new == Fresh(request[p])
     IN  /\ raw' = raw \union new
         /\ late' = late \union {r \in new : sweep.pc # "idle" \/ r.at <= since}
  /\ request' = [request EXCEPT ![p] = NoValue]
  /\ UNCHANGED <<now, requests, rollup, unique, since, sweep, faults,
                 folded, tainted>>
-----------------------------------------------------------------------------
(* The roll-up worker: one sweep over the tenants at a time.               *)

isOverQuota(net, allowance) == allowance # NoValue /\ net > allowance

Due(r) == r.at > since

(* listTenantsWithRawSince.                                                *)
SweepBegin ==
  /\ sweep.pc = "idle"
  /\ \E r \in raw : Due(r)
  /\ sweep' = [NoSweep EXCEPT !.pc = "tenants", !.globalMax = since,
                 !.todo = {r.ev.tenant : r \in {x \in raw : Due(x)}}]
  /\ UNCHANGED <<now, requests, request, raw, rollup, unique, since, faults,
                 folded, late, tainted>>

(* ORDER BY ingested_at, id LIMIT MaxBatch: ids are random.                *)
Oldest(rows) == {S \in SUBSET rows :
  /\ Cardinality(S) = IF Cardinality(rows) < MaxBatch THEN Cardinality(rows) ELSE MaxBatch
  /\ \A r \in S, s \in rows \ S : r.at <= s.at}

selectRawSince(t) ==
  LET due == {r \in Of(t, raw) : Due(r)}
  IN  /\ sweep.pc = "tenants" /\ t \in sweep.todo
      /\ \E S \in Oldest(due) :
           sweep' = [sweep EXCEPT !.pc = "fold", !.tenant = t, !.rows = S]
      /\ UNCHANGED <<now, requests, request, raw, rollup, unique, since, faults,
                     folded, late, tainted>>

(* The tenant is done: what its batch means for the watermark.             *)
Done(s) ==
  LET last == Max({since} \union {Ms(r.at) : r \in s.rows})
  IN  [s EXCEPT
        !.pc = "tenants", !.todo = @ \ {s.tenant}, !.tenant = NoValue, !.rows = {},
        !.globalMax = Max({@, last}),
        !.cappedMin = CASE Cardinality(s.rows) < MaxBatch -> @
                        [] @ = NoValue -> last
                        [] OTHER -> Min({@, last})]

(* The watermark that a full batch stops at is the stamp of its last row,  *)
(* rounded down.  When that stamp is a whole millisecond nothing is        *)
(* rounded, and rows with the same stamp that did not fit are never read   *)
(* again.                                                                  *)
Split(s) ==
  IF Cardinality(s.rows) < MaxBatch THEN {}
  ELSE {r \in Of(s.tenant, raw) \ s.rows :
          r.at = Ms(r.at) /\ \E x \in s.rows : x.at = r.at}

nextSince_Unclamped(s) == s.globalMax
nextSince_Stuck(s) == IF s.cappedMin # NoValue THEN since ELSE s.globalMax
nextSince(s) == IF s.cappedMin # NoValue THEN s.cappedMin ELSE s.globalMax

(* The next tenant, or the end of the sweep: the watermark moves.          *)
GoOn(s) ==
  IF s.todo = {} THEN since' = nextSince(s) /\ sweep' = NoSweep
                 ELSE since' = since /\ sweep' = s

Distinct(b) == Aggregation[b[2]] = "unique_count"
sumNet(rows) == MapThenSumSet(LAMBDA r : r.ev.qty, rows)
uniqueCount(b, values) == Cardinality({v \in values : v.bucket = b})
Value(b, values, rows) ==
  IF Distinct(b) THEN uniqueCount(b, values) ELSE sumNet(In(b, rows))

(* A set of values only grows, by the values of the batch.                 *)
insertUniqueValues(rows) ==
  unique \union {[bucket |-> BucketOf(r), dim |-> r.ev.dim] :
                   r \in {x \in rows : Distinct(BucketOf(x))}}

(* A sum is added up again from the raw rows there are now.                *)
rollupBucket(b, values) ==
  LET value == Value(b, values, raw)
  IN  [value |-> value, eventCount |-> Cardinality(In(b, raw)),
       overQuota |-> isOverQuota(value, Allowance[b[2]])]

upsertRollup(touched, values) ==
  [b \in DOMAIN rollup \union touched |->
     IF b \in touched THEN rollupBucket(b, values) ELSE rollup[b]]

(* Every bucket the batch touches, and COMMIT.                             *)
rollupTenant ==
  /\ sweep.pc = "fold"
  /\ LET touched == {BucketOf(r) : r \in sweep.rows}
     IN  /\ unique' = insertUniqueValues(sweep.rows)
         /\ rollup' = upsertRollup(touched, unique')
         /\ folded' = folded \union {r \in raw : BucketOf(r) \in touched
              /\ (Distinct(BucketOf(r)) => r \in sweep.rows)}
  /\ GoOn(Done(sweep))
  /\ late' = late \union Split(sweep)
  /\ UNCHANGED <<now, requests, request, raw, faults, tainted>>

(* The sweep of a tenant fails and is rolled back; the others go on.       *)
SweepFails(t) ==
  /\ \/ sweep.pc = "tenants" /\ t \in sweep.todo
     \/ sweep.pc = "fold" /\ t = sweep.tenant
  /\ faults < MaxFaults /\ faults' = faults + 1
  /\ GoOn([sweep EXCEPT !.pc = "tenants", !.todo = @ \ {t}, !.tenant = NoValue,
                            !.rows = {}])
  /\ late' = late \union Of(t, raw)
  /\ UNCHANGED <<now, requests, request, raw, rollup, unique, folded, tainted>>
-----------------------------------------------------------------------------
(* The retention worker.                                                   *)

firstOpenBucket_Straddle == now - RetentionSecs
firstOpenBucket == bucketStartFor(now - RetentionSecs)

(* Rows of t that a sweep has read and not added up, or an open ingest has *)
(* accepted and not shown.                                                 *)
InFlight(t) ==
  Of(t, sweep.rows \union UNION {request[p] : p \in {q \in Producers : request[q] # NoValue}})

(* The sweep lists the tenants with raw events in closed buckets; each is  *)
(* a transaction of its own.  A DELETE that comes long after the listing   *)
(* takes what an earlier sweep would have taken.                           *)
pruneTenant(t) ==
  LET gone == {r \in Of(t, raw) : r.ev.time < firstOpenBucket}
  IN  /\ gone # {}
      /\ raw' = raw \ gone /\ late' = late \ gone
      /\ unique' = {v \in unique : v.bucket[1] = t => v.bucket[3] >= firstOpenBucket}
      /\ tainted' = tainted \union
           {BucketOf(r) : r \in {x \in InFlight(t) : x.ev.time < firstOpenBucket}}
      /\ UNCHANGED <<now, requests, request, rollup, since, sweep, faults, folded>>

(* The erasure of a tenant.                                                *)
eraseTenantUsage(t) ==
  /\ Of(t, raw) # {} \/ \E b \in DOMAIN rollup : b[1] = t
  /\ faults < MaxFaults /\ faults' = faults + 1
  /\ raw' = raw \ Of(t, raw) /\ late' = late \ Of(t, late)
  /\ rollup' = [b \in {c \in DOMAIN rollup : c[1] # t} |-> rollup[b]]
  /\ unique' = {v \in unique : v.bucket[1] # t}
  /\ folded' = folded \ Of(t, folded)
  /\ tainted' = tainted \union {BucketOf(r) : r \in InFlight(t)}
  /\ UNCHANGED <<now, requests, request, since, sweep>>

(* Open transactions are rolled back; the watermark starts over.           *)
Restart ==
  /\ faults < MaxFaults /\ faults' = faults + 1
  /\ request' = [p \in Producers |-> NoValue]
  /\ since' = 0 /\ sweep' = NoSweep
  /\ UNCHANGED <<now, requests, raw, rollup, unique, folded, late, tainted>>

Tick ==
  /\ now < MaxTime /\ now' = now + 1
  /\ UNCHANGED <<requests, request, raw, rollup, unique, since, sweep, faults,
                 folded, late, tainted>>

Sweep == SweepBegin \/ rollupTenant \/ \E t \in Metered : selectRawSince(t)

Next ==
  \/ Tick \/ Restart \/ Sweep
  \/ \E p \in Producers : appendBatch(p) \/ \E b \in Batches : ingestBatch(p, b)
  \/ \E t \in Metered : SweepFails(t) \/ pruneTenant(t) \/ eraseTenantUsage(t)

Spec == Init /\ [][Next]_vars

(* The worker's timer keeps starting sweeps, and a sweep is not abandoned. *)
FairSpec == Spec /\ WF_vars(Sweep)
-----------------------------------------------------------------------------
(* What an operator is shown.                                              *)
floorDisplay(net) == Max({0, net})

readRollups(t, e, from, to) ==
  {b \in DOMAIN rollup : b[1] = t /\ b[2] = e /\ b[3] >= from /\ b[3] < to}

queryUsage(t, e, from, to, asNet) ==
  LET net == MapThenSumSet(LAMBDA b : rollup[b].value, readRollups(t, e, from, to))
  IN  [value |-> IF asNet THEN net ELSE floorDisplay(net),
       overQuota |-> isOverQuota(net, Allowance[e])]

(* A licensed application is never shown less than zero, a viewer may not  *)
(* ask for the net itself.                                                 *)
selfRead(t, e, from, to) == queryUsage(t, e, from, to, FALSE)
operatorRead(role, t, e, from, to) == queryUsage(t, e, from, to, role # "viewer")

(* The total that every event folded so far makes.                         *)
FoldedNet(b) ==
  Value(b, {[bucket |-> b, dim |-> r.ev.dim] : r \in In(b, folded)}, folded)

(* The watermark of the roll-up worker, which is all that tells it what is *)
(* left to fold, never passes a row that has gone into no total, save      *)
(* those shown after a sweep began or below it, those of a tenant whose    *)
(* sweep failed, and those with the very stamp at which a full batch was   *)
(* cut, when that stamp is a whole millisecond.                            *)
WatermarkSafe == \A r \in raw : r.at <= since => r \in folded \/ r \in late

(* Durable totals outlive the raw events: what a query answers for a       *)
(* bucket is the total of every event ever folded into it, pruned or not,  *)
(* and folded once whatever was swept again, as long as no prune overtook  *)
(* an ingest or a roll-up under way.                                       *)
TotalsSurvive ==
  \A b \in DOMAIN rollup : b \notin tainted =>
    /\ operatorRead("admin", b[1], b[2], b[3], b[3] + BucketSecs) =
         [value |-> FoldedNet(b), overQuota |-> isOverQuota(FoldedNet(b), Allowance[b[2]])]
    /\ selfRead(b[1], b[2], b[3], b[3] + BucketSecs).value >= 0

(* An event counts once: an event id that is reported again, in the same   *)
(* batch, in another or after its row was pruned, adds no second row.      *)
AccruedOnce ==
  \A r, s \in raw \union folded :
    r.ev = s.ev => r = s \/ BucketOf(r) \in tainted

(* A millisecond that fills the batch is read again by every sweep, and    *)
(* nothing after it is: no watermark lies between its rows.                *)
Crowded(t) == \E r \in Of(t, raw) :
  Cardinality({s \in Of(t, raw) : Ms(s.at) = Ms(r.at)}) >= MaxBatch

(* The roll-up keeps catching up: again and again every event accrued and  *)
(* neither pruned nor erased has gone into a total, save those that the    *)
(* watermark may pass, and unless a millisecond is crowded.                *)
CaughtUp ==
  \/ \E t \in Metered : Crowded(t)
  \/ \A r \in raw : r \in folded \/ r \in late
AlwaysEventuallyFolded == []<>CaughtUp
=============================================================================
