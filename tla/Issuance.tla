------------------------------ MODULE Issuance ------------------------------
(***************************************************************************)
(* Licenses, their life cycle and the customers who hold them              *)
(* (src/server/modules/issuance), under one plan of the product whose keys *)
(* Signing describes.                                                      *)
(*                                                                         *)
(* Issuing a license takes four transactions, one after the other: the     *)
(* plan, the customer, the active key, and the INSERT.  The life cycle     *)
(* takes one, which locks the license first.  An erasure takes one, which  *)
(* locks nothing until it writes.                                          *)
(***************************************************************************)
EXTENDS Signing, Sequences

CONSTANTS
  Requests,       \* licensing requests handled at the same time
  Customers,
  Licenses,       \* the license ids that can be drawn
  TransferLimit

ASSUME IssuanceAssumption == TransferLimit \in Nat /\ None \notin Customers

VARIABLES
  archived,   \* the plan is archived
  customer,   \* customer[c]: the status of c's row, None before there is one,
              \* "deleted" after
  license,    \* license[l]: the row of l, or None
  audit,      \* audit[l]: the audit entries about l, oldest first
  request     \* request[r]: what r's handler has read

issuanceVars == <<archived, customer, license, audit, request>>
vars == <<signingVars, issuanceVars>>
-----------------------------------------------------------------------------
License == [customer : Customers, status : {"active", "suspended", "revoked"},
            transferCount : 0 .. TransferLimit, key : Keys]

ASSUME NoneIsNoLicense == None \notin License

(* A handler between two of its reads and writes.                          *)
Request == [pc : {"idle", "customer", "sign", "insert", "update", "erase"},
            op : {"issue", "revoke", "suspend", "reinstate", "transfer", "erase"},
            customer : Customers \union {None}, license : Licenses \union {None},
            key : Keys \union {None}, held : BOOLEAN]
Idle == [pc |-> "idle", op |-> "issue", customer |-> None, license |-> None, key |-> None,
         held |-> FALSE]

Issued == {l \in Licenses : license[l] # None}
HeldBy(c) == {l \in Issued : license[l].customer = c}

TypeOK ==
  /\ SigningTypeOK
  /\ archived \in BOOLEAN
  /\ customer \in [Customers -> {"active", "anonymized", "deleted", None}]
  /\ license \in [Licenses -> License \union {None}]
  /\ request \in [Requests -> Request]

Init ==
  /\ SigningInit
  /\ archived = FALSE
  /\ customer = [c \in Customers |-> None]
  /\ license = [l \in Licenses |-> None]
  /\ audit = [l \in Licenses |-> <<>>]
  /\ request = [r \in Requests |-> Idle]

Done(r) == request' = [request EXCEPT ![r] = Idle]
writeAudit(l, action) == audit' = [audit EXCEPT ![l] = Append(@, action)]
-----------------------------------------------------------------------------
(* issueLicense.                                                           *)
IssuePlan(r, c) ==
  /\ request[r].pc = "idle" /\ ~archived /\ Issued # Licenses
  /\ customer[c] # None
  /\ request' = [request EXCEPT ![r] = [Idle EXCEPT !.pc = "customer", !.customer = c]]
  /\ UNCHANGED <<signingVars, archived, customer, license, audit>>

IssueCustomer(r) ==
  /\ request[r].pc = "customer"
  /\ request' = [request EXCEPT ![r] =
       IF customer[request[r].customer] = "active" THEN [@ EXCEPT !.pc = "sign"] ELSE Idle]
  /\ UNCHANGED <<signingVars, archived, customer, license, audit>>

(* The key is read here; the signature is made before the next await.      *)
IssueSign(r) ==
  /\ request[r].pc = "sign"
  /\ LET usable == {k \in Active : CanSign(k)}
     IN  \/ \E k \in usable : request' = [request EXCEPT ![r].pc = "insert", ![r].key = k]
         \/ usable = {} /\ Done(r)
  /\ UNCHANGED <<signingVars, archived, customer, license, audit>>

(* license_customer_fk.                                                    *)
CustomerExists_NoFk(c) == TRUE
CustomerExists(c) == customer[c] \in {"active", "anonymized"}

IssueInsert(r, l) ==
  /\ request[r].pc = "insert" /\ l \notin Issued
  /\ LET c == request[r].customer
     IN  IF CustomerExists(c)
         THEN /\ license' = [license EXCEPT ![l] =
                   [customer |-> c, status |-> "active", transferCount |-> 0,
                    key |-> request[r].key]]
              /\ writeAudit(l, "issued")
         ELSE UNCHANGED <<license, audit>>
  /\ Done(r)
  /\ UNCHANGED <<signingVars, archived, customer>>
-----------------------------------------------------------------------------
(* The life cycle: SELECT .. FOR UPDATE, then the UPDATE.                  *)
lockLicense_NoLock(r, l) == TRUE
lockLicense(r, l) == \A o \in Requests \ {r} : request[o].pc = "update" => request[o].license # l

(* What each action asks of the license as it was read.                    *)
Allowed(op, row) ==
  CASE op = "revoke"    -> row.status # "revoked"
    [] op = "suspend"   -> row.status = "active"
    [] op = "reinstate" -> row.status = "suspended"
    [] op = "transfer"  -> row.status # "revoked" /\ row.transferCount < TransferLimit

LifecycleLock(r, l, op, c) ==
  /\ request[r].pc = "idle" /\ l \in Issued /\ lockLicense(r, l)
  /\ Allowed(op, license[l])
  /\ IF op = "transfer" THEN c # None /\ customer[c] # None ELSE c = None
  /\ request' = [request EXCEPT ![r] =
       [Idle EXCEPT !.pc = "update", !.op = op, !.license = l, !.customer = c]]
  /\ UNCHANGED <<signingVars, archived, customer, license, audit>>

StatusAfter == [revoke |-> "revoked", suspend |-> "suspended", reinstate |-> "active"]
AuditAction == [revoke |-> "revoked", suspend |-> "suspended", reinstate |-> "reinstated"]

LifecycleUpdate(r) ==
  LET l == request[r].license
      op == request[r].op
  IN  /\ request[r].pc = "update" /\ op # "transfer"
      /\ license' = [license EXCEPT ![l].status = StatusAfter[op]]
      /\ writeAudit(l, AuditAction[op])
      /\ Done(r)
      /\ UNCHANGED <<signingVars, archived, customer>>

(* An unknown target is refused; one deleted just then fails the INSERT's  *)
(* foreign key: nothing is written either way.                             *)
TransferUpdate(r) ==
  LET l == request[r].license
      c == request[r].customer
  IN  /\ request[r].pc = "update" /\ request[r].op = "transfer"
      /\ IF CustomerExists(c)
         THEN /\ license' = [license EXCEPT ![l].customer = c, ![l].transferCount = @ + 1]
              /\ writeAudit(l, "transferred")
         ELSE UNCHANGED <<license, audit>>
      /\ Done(r)
      /\ UNCHANGED <<signingVars, archived, customer>>
-----------------------------------------------------------------------------
createCustomer(c) ==
  /\ customer[c] = None
  /\ customer' = [customer EXCEPT ![c] = "active"]
  /\ UNCHANGED <<signingVars, archived, license, audit, request>>

(* eraseCustomer: what it reads, then what it does about it.               *)
EraseRead(r, c) ==
  /\ request[r].pc = "idle" /\ customer[c] = "active"
  /\ request' = [request EXCEPT ![r] =
       [Idle EXCEPT !.pc = "erase", !.op = "erase", !.customer = c, !.held = HeldBy(c) # {}]]
  /\ UNCHANGED <<signingVars, archived, customer, license, audit>>

(* A DELETE that a license refers to fails, and the erasure with it.       *)
EraseWrite(r) ==
  LET c == request[r].customer
  IN  /\ request[r].pc = "erase"
      /\ customer' = [customer EXCEPT ![c] =
           IF ~CustomerExists(c) \/ (HeldBy(c) # {} /\ ~request[r].held) THEN @
           ELSE IF request[r].held THEN "anonymized" ELSE "deleted"]
      /\ Done(r)
      /\ UNCHANGED <<signingVars, archived, license, audit>>

archivePlan ==
  /\ ~archived /\ archived' = TRUE
  /\ UNCHANGED <<signingVars, customer, license, audit, request>>
-----------------------------------------------------------------------------
Restart ==
  /\ RestartSigning
  /\ request' = [r \in Requests |-> Idle]
  /\ UNCHANGED <<archived, customer, license, audit>>

Step(r) ==
  \/ IssueCustomer(r) \/ IssueSign(r) \/ \E l \in Licenses : IssueInsert(r, l)
  \/ LifecycleUpdate(r) \/ TransferUpdate(r) \/ EraseWrite(r)

Begin(r) ==
  \/ \E c \in Customers : IssuePlan(r, c) \/ EraseRead(r, c)
  \/ \E l \in Licenses, op \in {"revoke", "suspend", "reinstate", "transfer"},
        c \in Customers \union {None} : LifecycleLock(r, l, op, c)

Next ==
  \/ (Tick \/ SigningStep) /\ UNCHANGED issuanceVars
  \/ archivePlan \/ Restart
  \/ \E c \in Customers : createCustomer(c)
  \/ \E r \in Requests : Begin(r) \/ Step(r)

Spec == Init /\ [][Next]_vars

-----------------------------------------------------------------------------
(* A license is held by a customer there is: an erasure that found no      *)
(* license deletes no customer who was given one since, and nothing is     *)
(* issued or transferred to a customer deleted since it was looked up.     *)
OwnersKept ==
  \A l \in Issued : customer[license[l].customer] \in {"active", "anonymized"}

(* The audit trail of a license tells its life: each entry was allowed     *)
(* after those before it, none follows a revocation, no more transfers     *)
(* than the limit, and together they give the row there is.                *)
Transfers(log, n) == Cardinality({i \in 1 .. n : log[i] = "transferred"})

LastStatus(log, n) ==
  LET statuses == {i \in 1 .. n : log[i] # "transferred"}
  IN  CHOOSE i \in statuses : \A j \in statuses : j <= i

StatusOf(action) ==
  CASE action = "revoked"   -> "revoked"
    [] action = "suspended" -> "suspended"
    [] OTHER -> "active"

Replay(log, n) == [status |-> StatusOf(log[LastStatus(log, n)]),
                   transferCount |-> Transfers(log, n)]

EntryOp == [revoked |-> "revoke", suspended |-> "suspend",
            reinstated |-> "reinstate", transferred |-> "transfer"]

AuditReplays ==
  \A l \in Issued :
    LET log == audit[l]
        row == Replay(log, Len(log))
    IN  /\ \A i \in 2 .. Len(log) : Allowed(EntryOp[log[i]], Replay(log, i - 1))
        /\ license[l].status = row.status
        /\ license[l].transferCount = row.transferCount
=============================================================================
