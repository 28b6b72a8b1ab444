----------------------------- MODULE MCBilling -----------------------------
(* Instances of Billing for TLC.                                           *)
EXTENDS Billing

CONSTANTS h1, h2

(* The creation, announced twice or not; then trouble; then what follows.  *)
MCKinds ==
  <<{"created"},
    {"created", "payment_failed"},
    {"renewed", "canceled", "refunded", "unknown"}>>

(* Deliveries that may be taken up: the creation twice.                    *)
Racing == <<2, 2, 1>>
=============================================================================
