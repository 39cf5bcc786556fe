-------------------------- MODULE IdempotencyStore --------------------------
(***************************************************************************)
(* try_claim(key, ttl) on its four backends: InMemoryIdempotencyStore and  *)
(* RedisIdempotencyStore over redis-cli (Python), InMemoryIdempotencyStore *)
(* and RedisIdempotencyStore over go-redis (Go).  The memory backends      *)
(* decide in one step and live as long as their process; on Redis the call *)
(* travels to the server and back, and may fail on either way.  A blank    *)
(* key or a ttl that is not positive raises before any store is touched,   *)
(* which is no step.                                                       *)
(***************************************************************************)
EXTENDS Integers, Sequences

CONSTANTS
    Clients,      \* callers: runner loops, worker goroutines
    Keys,         \* idempotency keys
    TTLs,         \* ttl_seconds callers pass
    NONE,         \* no entry for a key
    FOREVER,      \* an entry that does not expire
    MaxTime,      \* bound: no claim outlives this moment
    MaxRestarts   \* bound: losses of the whole store

ASSUME TTLAssumption == TTLs \subseteq Nat \ {0}
ASSUME EntryAssumption == NONE \notin Nat /\ FOREVER \notin Nat /\ NONE # FOREVER
ASSUME BoundAssumption == MaxTime \in Nat /\ MaxRestarts \in Nat

VARIABLES
    backend,   \* which store was built from the environment
    now,       \* the clock of the process, or of the Redis server
    expiry,    \* expiry[k]: when the entry of k ends
    call,      \* call[c]: the call of c that is on its way to or from Redis
    answer,    \* answer[c]: what the last call of c returned
    boot,      \* history: the life the store is in
    grants     \* history: from when and until when k was granted

vars == <<backend, now, expiry, call, answer, boot, grants>>

Backends == {"memory", "redis_cli", "go_memory", "go_redis"}
Idle == [pc |-> "idle"]
Calls == {Idle} \cup [pc : {"sent"}, key : Keys, ttl : TTLs]
                \cup [pc : {"decided"}, key : Keys, verdict : {"granted", "duplicate"}]
Answers == {"none", "granted", "duplicate", "error"}
Grants == [from : Nat, until : Nat \cup {FOREVER}, boot : Nat]

TypeOK ==
    /\ backend \in Backends
    /\ now \in Nat
    /\ expiry \in [Keys -> Nat \cup {NONE, FOREVER}]
    /\ call \in [Clients -> Calls]
    /\ answer \in [Clients -> Answers]
    /\ boot \in Nat
    /\ grants \in [Keys -> Seq(Grants)]

Init ==
    /\ backend \in Backends
    /\ now = 0
    /\ expiry = [k \in Keys |-> NONE]
    /\ call = [c \in Clients |-> Idle]
    /\ answer = [c \in Clients |-> "none"]
    /\ boot = 0
    /\ grants = [k \in Keys |-> <<>>]

Elapsed(end, at) == end \in Nat /\ end <= at

(* Mutant: the expiry is not compared with the time.                        *)
LiveForGood(k) == expiry[k] # NONE

(* An entry that has expired counts as missing, removed or not.            *)
Live(k) == expiry[k] # NONE /\ ~Elapsed(expiry[k], now)

Outcome(k) == IF Live(k) THEN "duplicate" ELSE "granted"

(* The Go memory store takes a ttl and ignores it.                         *)
ExpiryOf(ttl) == IF backend = "go_memory" THEN FOREVER ELSE now + ttl

(* Mutant: SET EX without NX.                                               *)
PutAlways(k, until) ==
    /\ expiry' = [expiry EXCEPT ![k] = until]
    /\ grants' = IF Live(k) THEN grants
                 ELSE [grants EXCEPT ![k] =
                          Append(@, [from |-> now, until |-> until, boot |-> boot])]

(* SET NX EX, and its image on a dict: a live entry is not touched.        *)
Put(k, until) ==
    IF Live(k) THEN UNCHANGED <<expiry, grants>>
    ELSE /\ expiry' = [expiry EXCEPT ![k] = until]
         /\ grants' = [grants EXCEPT ![k] =
                          Append(@, [from |-> now, until |-> until, boot |-> boot])]

(***************************************************************************)
(* The memory backends.                                                    *)
(***************************************************************************)
MemoryClaim(c, k, ttl) ==
    /\ backend \in {"memory", "go_memory"}
    /\ call[c] = Idle
    /\ now + ttl <= MaxTime                                             \* bound
    /\ answer' = [answer EXCEPT ![c] = Outcome(k)]
    /\ Put(k, ExpiryOf(ttl))
    /\ UNCHANGED <<backend, now, call, boot>>

(* Mutant: expiry >= current_time.                                          *)
CleanupExpiredLive ==
    /\ backend = "memory"
    /\ expiry' = [k \in Keys |-> IF expiry[k] \in Nat /\ expiry[k] >= now
                                 THEN NONE ELSE expiry[k]]
    /\ UNCHANGED <<backend, now, call, answer, boot, grants>>

CleanupExpired ==
    /\ backend = "memory"
    /\ expiry' = [k \in Keys |-> IF Elapsed(expiry[k], now) THEN NONE ELSE expiry[k]]
    /\ UNCHANGED <<backend, now, call, answer, boot, grants>>

(***************************************************************************)
(* The Redis backends: send, SET NX EX at the server, reply.               *)
(***************************************************************************)
RedisSend(c, k, ttl) ==
    /\ backend \in {"redis_cli", "go_redis"}
    /\ call[c] = Idle
    /\ call' = [call EXCEPT ![c] = [pc |-> "sent", key |-> k, ttl |-> ttl]]
    /\ UNCHANGED <<backend, now, expiry, answer, boot, grants>>

RedisSet(c) ==
    /\ call[c].pc = "sent"
    /\ now + call[c].ttl <= MaxTime                                     \* bound
    /\ Put(call[c].key, ExpiryOf(call[c].ttl))
    /\ call' = [call EXCEPT ![c] =
                   [pc |-> "decided", key |-> @.key, verdict |-> Outcome(@.key)]]
    /\ UNCHANGED <<backend, now, answer, boot>>

(* Mutant: bool(stdout), which is true of any output.                       *)
RedisReplyTruthy(c) ==
    /\ call[c].pc = "decided"
    /\ answer' = [answer EXCEPT ![c] = "granted"]
    /\ call' = [call EXCEPT ![c] = Idle]
    /\ UNCHANGED <<backend, now, expiry, boot, grants>>

(* stdout is OK for a key that was set and empty for one that was not.     *)
RedisReply(c) ==
    /\ call[c].pc = "decided"
    /\ answer' = [answer EXCEPT ![c] = call[c].verdict]
    /\ call' = [call EXCEPT ![c] = Idle]
    /\ UNCHANGED <<backend, now, expiry, boot, grants>>

(* redis-cli ends with a non-zero code, SetNX returns an error, or the     *)
(* caller dies, before the server acted or after.                          *)
RedisFails(c) ==
    /\ call[c] # Idle
    /\ answer' = [answer EXCEPT ![c] = "error"]
    /\ call' = [call EXCEPT ![c] = Idle]
    /\ UNCHANGED <<backend, now, expiry, boot, grants>>

(* The server answers with an error (loading, out of memory, read-only).   *)
(* redis-cli prints it and ends with 0: not OK, which is taken for a       *)
(* duplicate; go-redis returns it as an error.                             *)
RedisRefuses(c) ==
    /\ call[c].pc = "sent"
    /\ answer' = [answer EXCEPT ![c] =
                     IF backend = "redis_cli" THEN "duplicate" ELSE "error"]
    /\ call' = [call EXCEPT ![c] = Idle]
    /\ UNCHANGED <<backend, now, expiry, boot, grants>>

(***************************************************************************)
(* The world around.                                                       *)
(***************************************************************************)
(* The process ends, or a Redis without a volume is started anew.          *)
Restart ==
    /\ boot < MaxRestarts
    /\ boot' = boot + 1
    /\ expiry' = [k \in Keys |-> NONE]
    /\ UNCHANGED <<backend, now, call, answer, grants>>

Tick ==
    /\ now < MaxTime
    /\ now' = now + 1
    /\ UNCHANGED <<backend, expiry, call, answer, boot, grants>>

ClientStep(c) ==
    \/ \E k \in Keys, ttl \in TTLs : MemoryClaim(c, k, ttl) \/ RedisSend(c, k, ttl)
    \/ RedisSet(c) \/ RedisReply(c) \/ RedisFails(c) \/ RedisRefuses(c)

Next ==
    \/ \E c \in Clients : ClientStep(c)
    \/ CleanupExpired
    \/ Restart
    \/ Tick

Spec == Init /\ [][Next]_vars

(* Nothing but the clock is sure to go on: callers may die in mid-call.    *)
FairSpec == Spec /\ WF_vars(Tick)

(***************************************************************************)
(* Properties.                                                             *)
(***************************************************************************)

(* A grant ends when it was said to end: until then its entry stands as it  *)
(* was written (no duplicate extends it, no cleanup takes it away), and     *)
(* every entry goes back to a grant of this life of the store.              *)
GrantsStand ==
    \A k \in Keys :
        /\ \A i \in 1 .. Len(grants[k]) :
              LET g == grants[k][i] IN
              /\ g.from <= now
              /\ g.boot <= boot
              /\ g.boot = boot => expiry[k] = g.until \/ Elapsed(g.until, now)
        /\ expiry[k] # NONE =>
              \E i \in 1 .. Len(grants[k]) :
                  grants[k][i].boot = boot /\ grants[k][i].until = expiry[k]

(* The inductive invariant: types, and every grant accounted for.           *)
StoreInv == TypeOK /\ GrantsStand

(* While the store lives, a key is granted again only after the previous    *)
(* grant has run out, whatever calls race, fail half-way or bring other     *)
(* TTLs with them.                                                          *)
OneGrantPerLife ==
    \A k \in Keys : \A i, j \in 1 .. Len(grants[k]) :
        (i < j /\ grants[k][i].boot = grants[k][j].boot) =>
            Elapsed(grants[k][i].until, grants[k][j].from)

(* Every backend implements try_claim as ClaimStore promises it; over       *)
(* redis-cli False is also said of keys nobody holds.                       *)
Claims == INSTANCE ClaimStore WITH
    candid <- backend # "redis_cli",
    held <- {k \in Keys : Live(k)},
    verdict <- [c \in Clients |-> IF call[c].pc = "decided" THEN call[c].verdict ELSE "none"]

ImplementsClaims == Claims!Spec

(* A claim whose holder is never heard of again does not block its key for  *)
(* good, except in the Go memory store, which knows no expiry.              *)
ClaimsLapse == \A k \in Keys : (backend # "go_memory" /\ Live(k)) ~> ~Live(k)
=============================================================================
