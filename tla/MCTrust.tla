------------------------------ MODULE MCTrust -------------------------------
(***************************************************************************)
(* What verifiers go by, the key ring and the revocation list, for TLC.    *)
(* The two share no state: each behaviour explores one of them.            *)
(***************************************************************************)
EXTENDS Signing, Crl

VARIABLE part   \* which one the behaviour explores

trustVars == <<part, signingVars, vars>>

TrustInit ==
  /\ part \in {"keys", "list"}
  /\ SigningInit /\ (part = "list" => masterKey = {})
  /\ Init

KeysNext == part = "keys" /\ SigningNext /\ UNCHANGED <<part, vars>>
ListNext == part = "list" /\ Next /\ UNCHANGED <<part, signingVars>>

TrustNext == KeysNext \/ ListNext

(* The fairness of SigningFairSpec and of FairSpec, each in its part.      *)
TrustSpec ==
  /\ TrustInit /\ [][TrustNext]_trustVars
  /\ \A a \in Admins : WF_signingVars(part = "keys" /\ ChangeStep(a))
  /\ \A w \in Workers : WF_vars(part = "list" /\ publishIfStale(w))
  /\ \A c \in Clients : WF_vars(part = "list" /\ Latest # 0 /\ Fetch(c, Latest))
=============================================================================
