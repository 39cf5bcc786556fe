----------------------------- MODULE ClaimStore -----------------------------
(***************************************************************************)
(* What IdempotencyStore.try_claim promises, whatever the backend: a call  *)
(* is decided in one instant, against the set of keys that are claimed at  *)
(* that instant, and nobody hears True who was not granted the key.  A     *)
(* claim may lapse at any time, and an answer may get lost on its way.     *)
(***************************************************************************)
CONSTANTS
    Clients,   \* callers of try_claim
    Keys       \* idempotency keys

VARIABLES
    candid,    \* whether False is said only of a claimed key
    held,      \* the keys that are claimed
    verdict,   \* verdict[c]: decided and not yet heard by c
    answer     \* answer[c]: what the last call of c returned

vars == <<candid, held, verdict, answer>>

Outcome(k) == IF k \in held THEN "duplicate" ELSE "granted"

Init ==
    /\ candid \in BOOLEAN
    /\ held = {}
    /\ verdict = [c \in Clients |-> "none"]
    /\ answer = [c \in Clients |-> "none"]

(* Decided and heard in one step.                                          *)
Claim(c, k) ==
    /\ verdict[c] = "none"
    /\ answer' = [answer EXCEPT ![c] = Outcome(k)]
    /\ held' = held \cup {k}
    /\ UNCHANGED <<candid, verdict>>

Decide(c, k) ==
    /\ verdict[c] = "none"
    /\ verdict' = [verdict EXCEPT ![c] = Outcome(k)]
    /\ held' = held \cup {k}
    /\ UNCHANGED <<candid, answer>>

Hear(c) ==
    /\ verdict[c] # "none"
    /\ \E a \in {verdict[c], "error"} : answer' = [answer EXCEPT ![c] = a]
    /\ verdict' = [verdict EXCEPT ![c] = "none"]
    /\ UNCHANGED <<candid, held>>

(* A call that never reached a decision.                                   *)
Fail(c) ==
    /\ verdict[c] = "none"
    /\ \E a \in {"error"} \cup (IF candid THEN {} ELSE {"duplicate"}) :
          answer' = [answer EXCEPT ![c] = a]
    /\ UNCHANGED <<candid, held, verdict>>

Lapse ==
    /\ held' \in SUBSET held
    /\ UNCHANGED <<candid, verdict, answer>>

Next ==
    \/ \E c \in Clients, k \in Keys : Claim(c, k) \/ Decide(c, k)
    \/ \E c \in Clients : Hear(c) \/ Fail(c)
    \/ Lapse

Spec == Init /\ [][Next]_vars
=============================================================================
