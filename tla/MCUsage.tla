------------------------------ MODULE MCUsage ------------------------------
(***************************************************************************)
(* Small instances of Usage: two tenants; a sum, a set of values and an    *)
(* entitlement that is not metered.  Buckets of two ticks and a window of  *)
(* one, so that the window ends inside a bucket.  The first tenant may     *)
(* have four rows due on two stamps, one more than a sweep reads.          *)
(***************************************************************************)
EXTENDS Usage

CONSTANTS t1, t2, p1

MCAggregation == [api |-> "sum", users |-> "unique_count", seats |-> NoValue]
MCAllowance == [api |-> 1, users |-> NoValue, seats |-> NoValue]

Report(t, k, e, time, q) ==
  [tenant |-> t, key |-> k, ent |-> e, time |-> time, qty |-> q, dim |-> k]

Call   == Report(t1, "call", "api", 0, 2)
Refund == Report(t1, "refund", "api", 1, -1)
User   == Report(t1, "user", "users", 0, 1)
Late   == Report(t1, "late", "users", 1, 1)
Other  == Report(t2, "other", "api", 1, 1)
Seat   == Report(t2, "seat", "seats", 0, 1)

(* A second fault only where no stamp is a whole millisecond.              *)
Small == faults < MaxFaults \/ \A r \in raw : r.at # Ms(r.at)

MCBatches == {<<Call, User, Call>>, <<Refund, Late>>, <<Other, Seat>>}
=============================================================================
