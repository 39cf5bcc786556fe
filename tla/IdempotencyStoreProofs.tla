----------------------- MODULE IdempotencyStoreProofs -----------------------
(***************************************************************************)
(* Proofs about IdempotencyStore for every set of callers, keys and TTLs,  *)
(* and without a bound on time or restarts other than their being numbers: *)
(* the inductive invariant, that grants of a key do not overlap, and that  *)
(* every backend implements ClaimStore.                                    *)
(***************************************************************************)
EXTENDS IdempotencyStore, TLAPS

(* The end of a grant is a moment or never, and never NONE.                 *)
LEMMA ExpiryOfType ==
    ASSUME TypeOK, NEW ttl \in TTLs
    PROVE  /\ ExpiryOf(ttl) \in Nat \cup {FOREVER}
           /\ ~Elapsed(ExpiryOf(ttl), now)
           /\ ExpiryOf(ttl) # NONE
  BY TTLAssumption, EntryAssumption DEF ExpiryOf, TypeOK, Elapsed

(* A call that is on its way names a key and a ttl.                         *)
LEMMA CallFields ==
    ASSUME TypeOK, NEW c \in Clients
    PROVE  /\ call[c].pc = "sent" => call[c].key \in Keys /\ call[c].ttl \in TTLs
           /\ call[c].pc = "decided" => /\ call[c].key \in Keys
                                        /\ call[c].verdict \in {"granted", "duplicate"}
  BY DEF TypeOK, Calls, Idle

(* What a recorded grant is made of.                                        *)
LEMMA GrantFields ==
    ASSUME TypeOK, NEW k \in Keys, NEW i \in 1 .. Len(grants[k])
    PROVE  /\ grants[k][i].from \in Nat
           /\ grants[k][i].until \in Nat \cup {FOREVER}
           /\ grants[k][i].boot \in Nat
  <1>1. grants[k] \in Seq(Grants)
    BY DEF TypeOK
  <1>2. grants[k][i] \in Grants
    BY <1>1
  <1>3. QED
    BY <1>2 DEF Grants

(* A new grant: the entry is written, and all grants of this life that came *)
(* before have run out.                                                     *)
LEMMA PutKeepsInv ==
    ASSUME StoreInv, NEW k \in Keys, NEW until \in Nat \cup {FOREVER},
           Put(k, until), UNCHANGED <<now, boot>>
    PROVE  /\ expiry' \in [Keys -> Nat \cup {NONE, FOREVER}]
           /\ grants' \in [Keys -> Seq(Grants)]
           /\ GrantsStand'
  <1> USE DEF StoreInv
  <1>1. CASE Live(k)
    BY <1>1 DEF Put, TypeOK, GrantsStand, Elapsed
  <1>2. CASE ~Live(k)
    <2> DEFINE g == [from |-> now, until |-> until, boot |-> boot]
    <2>1. /\ expiry' = [expiry EXCEPT ![k] = until]
          /\ grants' = [grants EXCEPT ![k] = Append(@, g)]
      BY <1>2 DEF Put
    <2>2. g \in Grants /\ grants[k] \in Seq(Grants)
      BY DEF TypeOK, Grants
    <2>3. /\ g.from = now /\ g.until = until /\ g.boot = boot
      OBVIOUS
    <2> HIDE DEF g
    <2>4. /\ Append(grants[k], g) \in Seq(Grants)
          /\ Len(Append(grants[k], g)) = Len(grants[k]) + 1
          /\ Len(grants[k]) \in Nat
          /\ \A i \in 1 .. Len(grants[k]) : Append(grants[k], g)[i] = grants[k][i]
          /\ Append(grants[k], g)[Len(grants[k]) + 1] = g
      BY <2>2
    <2>5. /\ expiry' \in [Keys -> Nat \cup {NONE, FOREVER}]
          /\ grants' \in [Keys -> Seq(Grants)]
      BY <2>1, <2>4 DEF TypeOK
    <2>6. \A i \in 1 .. Len(grants[k]) :
             /\ grants[k][i].from <= now
             /\ grants[k][i].boot <= boot
             /\ grants[k][i].boot = boot => Elapsed(grants[k][i].until, now)
      BY <1>2, GrantFields, EntryAssumption DEF GrantsStand, Live
    <2>7. ASSUME NEW h \in Keys
          PROVE  (/\ \A i \in 1 .. Len(grants[h]) :
                       LET x == grants[h][i] IN
                       /\ x.from <= now
                       /\ x.boot <= boot
                       /\ x.boot = boot => expiry[h] = x.until \/ Elapsed(x.until, now)
                  /\ expiry[h] # NONE =>
                       \E i \in 1 .. Len(grants[h]) :
                          grants[h][i].boot = boot /\ grants[h][i].until = expiry[h])'
      <3>1. CASE h = k
        <4>1. expiry'[h] = until /\ grants'[h] = Append(grants[k], g)
          BY <2>1, <3>1 DEF TypeOK
        <4>2. now \in Nat /\ boot \in Nat
          BY DEF TypeOK
        <4>3. ASSUME NEW i \in 1 .. Len(grants'[h])
              PROVE  /\ grants'[h][i].from <= now
                     /\ grants'[h][i].boot <= boot
                     /\ grants'[h][i].boot = boot =>
                          expiry'[h] = grants'[h][i].until \/ Elapsed(grants'[h][i].until, now)
          <5>1. CASE i \in 1 .. Len(grants[k])
            BY <2>4, <2>6, <4>1, <5>1
          <5>2. CASE i = Len(grants[k]) + 1
            BY <2>3, <2>4, <4>1, <4>2, <5>2
          <5>3. QED
            BY <2>4, <4>1, <4>3, <5>1, <5>2
        <4>4. \E i \in 1 .. Len(grants'[h]) :
                 grants'[h][i].boot = boot /\ grants'[h][i].until = expiry'[h]
          <5>1. Len(grants[k]) + 1 \in 1 .. Len(grants'[h])
            BY <2>4, <4>1
          <5>2. QED
            BY <2>3, <2>4, <4>1, <5>1
        <4>5. QED
          BY <4>3, <4>4 DEF Elapsed
      <3>2. CASE h # k
        BY <2>1, <3>2 DEF TypeOK, GrantsStand, Elapsed
      <3>3. QED
        BY <3>1, <3>2
    <2>8. QED
      BY <2>5, <2>7 DEF GrantsStand
  <1>3. QED
    BY <1>1, <1>2

(* The empty store satisfies the invariant.                                 *)
LEMMA InitStoreInv == Init => StoreInv
  BY EntryAssumption DEF Init, StoreInv, TypeOK, GrantsStand, Calls, Idle, Answers

(* Steps that change neither clock, entries nor history.                    *)
LEMMA OnlyCalls ==
    ASSUME StoreInv, UNCHANGED <<backend, now, expiry, boot, grants>>,
           call' \in [Clients -> Calls], answer' \in [Clients -> Answers]
    PROVE  StoreInv'
  BY DEF StoreInv, TypeOK, GrantsStand, Elapsed

(* Every step keeps the invariant.                                          *)
LEMMA NextStoreInv == StoreInv /\ [Next]_vars => StoreInv'
  <1> SUFFICES ASSUME StoreInv, [Next]_vars PROVE StoreInv'
    OBVIOUS
  <1>0. TypeOK /\ Idle \in Calls
    BY DEF StoreInv, Calls
  <1>1. ASSUME NEW c \in Clients, NEW k \in Keys, NEW ttl \in TTLs, MemoryClaim(c, k, ttl)
        PROVE  StoreInv'
    <2>1. answer' \in [Clients -> Answers]
      BY <1>0, <1>1 DEF MemoryClaim, TypeOK, Answers, Outcome
    <2>2. QED
      BY <1>0, <1>1, <2>1, PutKeepsInv, ExpiryOfType DEF MemoryClaim, StoreInv, TypeOK
  <1>2. ASSUME NEW c \in Clients, NEW k \in Keys, NEW ttl \in TTLs, RedisSend(c, k, ttl)
        PROVE  StoreInv'
    BY <1>0, <1>2, OnlyCalls DEF RedisSend, TypeOK, Calls
  <1>3. ASSUME NEW c \in Clients, RedisSet(c) PROVE StoreInv'
    <2>1. call[c].key \in Keys /\ call[c].ttl \in TTLs
      BY <1>0, <1>3, CallFields DEF RedisSet
    <2>2. [pc |-> "decided", key |-> call[c].key, verdict |-> Outcome(call[c].key)] \in Calls
      BY <2>1 DEF Calls, Outcome
    <2>3. call' \in [Clients -> Calls]
      BY <1>0, <1>3, <2>2 DEF RedisSet, TypeOK
    <2>4. QED
      BY <1>0, <1>3, <2>1, <2>3, PutKeepsInv, ExpiryOfType DEF RedisSet, StoreInv, TypeOK
  <1>4. ASSUME NEW c \in Clients, RedisReply(c) PROVE StoreInv'
    <2>1. call[c].verdict \in Answers
      BY <1>0, <1>4, CallFields DEF RedisReply, Answers
    <2>2. QED
      BY <1>0, <1>4, <2>1, OnlyCalls DEF RedisReply, TypeOK
  <1>5. ASSUME NEW c \in Clients, RedisFails(c) PROVE StoreInv'
    BY <1>0, <1>5, OnlyCalls DEF RedisFails, TypeOK, Answers
  <1>6. ASSUME NEW c \in Clients, RedisRefuses(c) PROVE StoreInv'
    BY <1>0, <1>6, OnlyCalls DEF RedisRefuses, TypeOK, Answers
  <1>7. CASE CleanupExpired
    BY <1>7 DEF CleanupExpired, StoreInv, TypeOK, GrantsStand, Elapsed
  <1>8. CASE Restart
    <2>1. \A k \in Keys : \A i \in 1 .. Len(grants[k]) : grants[k][i].boot \in Nat
      BY <1>0, GrantFields
    <2>2. QED
      BY <1>8, <2>1 DEF Restart, StoreInv, TypeOK, GrantsStand, Elapsed
  <1>9. CASE Tick
    <2>1. \A k \in Keys : \A i \in 1 .. Len(grants[k]) : grants[k][i].from \in Nat
      BY <1>0, GrantFields
    <2>2. QED
      BY <1>9, <2>1 DEF Tick, StoreInv, TypeOK, GrantsStand, Elapsed
  <1>10. CASE UNCHANGED vars
    BY <1>0, <1>10, OnlyCalls DEF vars, TypeOK
  <1>11. QED
    BY <1>1, <1>2, <1>3, <1>4, <1>5, <1>6, <1>7, <1>8, <1>9, <1>10 DEF Next, ClientStep

(* In every reachable state the entries of the store are the grants that    *)
(* have not run out (try_claim, cleanup_expired, SET NX EX).                *)
THEOREM StoreInvariant == Spec => []StoreInv
  BY InitStoreInv, NextStoreInv, PTL DEF Spec

(* A new grant begins when the earlier grants of its life have run out.     *)
LEMMA PutKeepsApart ==
    ASSUME StoreInv, OneGrantPerLife, NEW k \in Keys, NEW until \in Nat \cup {FOREVER},
           Put(k, until)
    PROVE  OneGrantPerLife'
  <1> USE DEF StoreInv
  <1>1. CASE Live(k)
    BY <1>1 DEF Put, OneGrantPerLife, Elapsed
  <1>2. CASE ~Live(k)
    <2> DEFINE g == [from |-> now, until |-> until, boot |-> boot]
               n == Len(grants[k])
    <2>1. /\ grants' = [grants EXCEPT ![k] = Append(@, g)]
          /\ g \in Grants /\ grants[k] \in Seq(Grants)
          /\ g.from = now /\ g.boot = boot
      BY <1>2 DEF Put, TypeOK, Grants
    <2> HIDE DEF g
    <2>2. /\ n \in Nat
          /\ Len(Append(grants[k], g)) = n + 1
          /\ \A i \in 1 .. n : Append(grants[k], g)[i] = grants[k][i]
          /\ Append(grants[k], g)[n + 1] = g
      BY <2>1
    <2>3. \A i \in 1 .. n : grants[k][i].boot = boot => Elapsed(grants[k][i].until, now)
      BY <1>2, GrantFields, EntryAssumption DEF GrantsStand, Live
    <2>4. ASSUME NEW h \in Keys, NEW i \in 1 .. Len(grants'[h]), NEW j \in 1 .. Len(grants'[h]),
                 i < j, grants'[h][i].boot = grants'[h][j].boot
          PROVE  Elapsed(grants'[h][i].until, grants'[h][j].from)
      <3>1. CASE h # k
        BY <2>1, <2>4, <3>1 DEF OneGrantPerLife, TypeOK
      <3>2. CASE h = k
        <4>1. grants'[h] = Append(grants[k], g)
          BY <2>1, <3>2 DEF TypeOK
        <4>2. i \in 1 .. n
          BY <2>2, <2>4, <4>1
        <4>3. CASE j \in 1 .. n
          <5>1. grants'[h][i] = grants[k][i] /\ grants'[h][j] = grants[k][j]
            BY <2>2, <4>1, <4>2, <4>3
          <5>2. QED
            BY <2>4, <4>2, <4>3, <5>1 DEF OneGrantPerLife
        <4>4. CASE j = n + 1
          <5>1. grants'[h][i] = grants[k][i] /\ grants'[h][j] = g
            BY <2>2, <4>1, <4>2, <4>4
          <5>2. QED
            BY <2>1, <2>3, <2>4, <4>2, <5>1
        <4>5. QED
          BY <2>2, <4>1, <4>3, <4>4
      <3>3. QED
        BY <3>1, <3>2
    <2>5. QED
      BY <2>4 DEF OneGrantPerLife, Elapsed
  <1>3. QED
    BY <1>1, <1>2

(* However calls race or fail, two grants of a key in one life of the store *)
(* never overlap (SET NX EX, and the expiry check of the memory stores).    *)
THEOREM GrantsApart == Spec => []OneGrantPerLife
  <1>1. Init => OneGrantPerLife
    BY DEF Init, OneGrantPerLife
  <1>2. StoreInv /\ OneGrantPerLife /\ [Next]_vars => OneGrantPerLife'
    <2> SUFFICES ASSUME StoreInv, OneGrantPerLife, [Next]_vars PROVE OneGrantPerLife'
      OBVIOUS
    <2>0. TypeOK
      BY DEF StoreInv
    <2>1. ASSUME NEW c \in Clients, NEW k \in Keys, NEW ttl \in TTLs, MemoryClaim(c, k, ttl)
          PROVE  OneGrantPerLife'
      BY <2>0, <2>1, PutKeepsApart, ExpiryOfType DEF MemoryClaim
    <2>2. ASSUME NEW c \in Clients, RedisSet(c) PROVE OneGrantPerLife'
      BY <2>0, <2>2, PutKeepsApart, ExpiryOfType, CallFields DEF RedisSet
    <2>3. CASE UNCHANGED grants
      BY <2>3 DEF OneGrantPerLife, Elapsed
    <2>4. QED
      BY <2>1, <2>2, <2>3
      DEF Next, ClientStep, RedisSend, RedisReply, RedisFails, RedisRefuses,
          CleanupExpired, Restart, Tick, vars
  <1>3. QED
    BY <1>1, <1>2, StoreInvariant, PTL DEF Spec

(***************************************************************************)
(* The refinement.                                                         *)
(***************************************************************************)

(* An entry that is written is live: the key becomes a held one, and no     *)
(* other key changes.                                                       *)
LEMMA PutHolds ==
    ASSUME TypeOK, NEW k \in Keys, NEW until \in Nat \cup {FOREVER},
           ~Elapsed(until, now), until # NONE, Put(k, until), now' = now
    PROVE  {h \in Keys : Live(h)}' = {h \in Keys : Live(h)} \cup {k}
  BY DEF TypeOK, Put, Live, Elapsed

(* Every step of a backend is a step of ClaimStore or changes nothing that  *)
(* ClaimStore speaks of.                                                    *)
LEMMA StepRefines == StoreInv /\ [Next]_vars => [Claims!Next]_(Claims!vars)
  <1> SUFFICES ASSUME StoreInv, [Next]_vars PROVE [Claims!Next]_(Claims!vars)
    OBVIOUS
  <1> DEFINE held == {k \in Keys : Live(k)}
             verdictOf(x) == IF x.pc = "decided" THEN x.verdict ELSE "none"
             verdict == [c \in Clients |-> verdictOf(call[c])]
  <1>0. TypeOK
    BY DEF StoreInv
  <1>a. \A k \in Keys : Outcome(k) = IF k \in held THEN "duplicate" ELSE "granted"
    BY DEF Outcome
  <1>b. /\ call' = call => verdict' = verdict
        /\ now' = now /\ expiry' = expiry => held' = held
    BY DEF Live
  <1>c. ASSUME NEW c \in Clients, NEW x \in Calls, call' = [call EXCEPT ![c] = x]
        PROVE  verdict' = [verdict EXCEPT ![c] = verdictOf(x)]
    BY <1>0, <1>c DEF TypeOK
  <1>d. Idle \in Calls /\ verdictOf(Idle) = "none"
    BY DEF Calls, Idle
  <1> HIDE DEF held, verdict, verdictOf
  <1>1. ASSUME NEW c \in Clients, NEW k \in Keys, NEW ttl \in TTLs, MemoryClaim(c, k, ttl)
        PROVE  Claims!Claim(c, k)
    <2>1. verdict[c] = "none" /\ verdict' = verdict
      BY <1>1, <1>b DEF MemoryClaim, verdict, verdictOf, Idle
    <2>2. held' = held \cup {k}
      BY <1>0, <1>1, PutHolds, ExpiryOfType DEF MemoryClaim, held
    <2>3. backend' = backend /\ answer' = [answer EXCEPT ![c] = Outcome(k)]
      BY <1>1 DEF MemoryClaim
    <2>4. QED
      BY <1>a, <2>1, <2>2, <2>3 DEF Claims!Claim, Claims!Outcome, held, verdict, verdictOf
  <1>2. ASSUME NEW c \in Clients, NEW k \in Keys, NEW ttl \in TTLs, RedisSend(c, k, ttl)
        PROVE  UNCHANGED Claims!vars
    <2>1. [pc |-> "sent", key |-> k, ttl |-> ttl] \in Calls
      BY DEF Calls
    <2>2. verdict' = [verdict EXCEPT ![c] = "none"] /\ verdict[c] = "none"
      BY <1>2, <1>c, <2>1 DEF RedisSend, verdictOf, verdict, Idle
    <2>3. verdict' = verdict
      BY <2>2 DEF verdict
    <2>4. QED
      BY <1>2, <1>b, <2>3 DEF RedisSend, Claims!vars, held, verdict, verdictOf
  <1>3. ASSUME NEW c \in Clients, RedisSet(c) PROVE \E k \in Keys : Claims!Decide(c, k)
    <2>1. call[c].key \in Keys /\ call[c].ttl \in TTLs /\ verdict[c] = "none"
      BY <1>0, <1>3, CallFields DEF RedisSet, verdict, verdictOf
    <2> DEFINE k == call[c].key
               x == [pc |-> "decided", key |-> k, verdict |-> Outcome(k)]
    <2>2. x \in Calls /\ verdictOf(x) = Outcome(k)
      BY <2>1 DEF Calls, Outcome, verdictOf
    <2>3. call' = [call EXCEPT ![c] = x]
      BY <1>3, <1>0 DEF RedisSet, TypeOK
    <2>4. verdict' = [verdict EXCEPT ![c] = Outcome(k)]
      BY <1>c, <2>2, <2>3
    <2>5. held' = held \cup {k}
      BY <1>0, <1>3, <2>1, PutHolds, ExpiryOfType DEF RedisSet, held
    <2>6. answer' = answer /\ backend' = backend
      BY <1>3 DEF RedisSet
    <2>7. QED
      BY <1>a, <2>1, <2>4, <2>5, <2>6 DEF Claims!Decide, Claims!Outcome, held, verdict, verdictOf
  <1>4. ASSUME NEW c \in Clients, RedisReply(c) PROVE Claims!Hear(c)
    <2>1. verdict[c] = call[c].verdict /\ verdict[c] # "none"
      BY <1>0, <1>4, CallFields DEF RedisReply, verdict, verdictOf
    <2>2. verdict' = [verdict EXCEPT ![c] = "none"]
      BY <1>4, <1>c, <1>d DEF RedisReply
    <2>3. held' = held /\ backend' = backend /\ answer' = [answer EXCEPT ![c] = verdict[c]]
      BY <1>4, <1>b, <2>1 DEF RedisReply
    <2>4. QED
      BY <2>1, <2>2, <2>3 DEF Claims!Hear, held, verdict, verdictOf
  <1>5. ASSUME NEW c \in Clients, RedisFails(c) PROVE Claims!Hear(c) \/ Claims!Fail(c)
    <2>1. verdict' = [verdict EXCEPT ![c] = "none"]
      BY <1>5, <1>c, <1>d DEF RedisFails
    <2>2. held' = held /\ backend' = backend /\ answer' = [answer EXCEPT ![c] = "error"]
      BY <1>5, <1>b DEF RedisFails
    <2>3. verdict[c] = "none" => verdict' = verdict
      BY <2>1 DEF verdict
    <2>4. QED
      BY <2>1, <2>2, <2>3 DEF Claims!Hear, Claims!Fail, held, verdict, verdictOf
  <1>6. ASSUME NEW c \in Clients, RedisRefuses(c) PROVE Claims!Fail(c)
    <2>1. verdict' = [verdict EXCEPT ![c] = "none"] /\ verdict[c] = "none"
      BY <1>6, <1>c, <1>d DEF RedisRefuses, verdict, verdictOf
    <2>2. verdict' = verdict
      BY <2>1 DEF verdict
    <2>3. held' = held /\ backend' = backend
      BY <1>6, <1>b DEF RedisRefuses
    <2>4. answer' = [answer EXCEPT ![c] =
                        IF backend = "redis_cli" THEN "duplicate" ELSE "error"]
      BY <1>6 DEF RedisRefuses
    <2>5. QED
      BY <2>1, <2>2, <2>3, <2>4 DEF Claims!Fail, held, verdict, verdictOf
  <1>7. ASSUME held' \subseteq held, UNCHANGED <<backend, call, answer>>
        PROVE  Claims!Lapse
    BY <1>7, <1>b DEF Claims!Lapse, held, verdict, verdictOf
  <1>8. CASE CleanupExpired \/ Restart \/ Tick
    <2>1. held' \subseteq held
      BY <1>0, <1>8 DEF CleanupExpired, Restart, Tick, held, Live, Elapsed, TypeOK
    <2>2. QED
      BY <1>7, <1>8, <2>1 DEF CleanupExpired, Restart, Tick, Claims!Next
  <1>9. CASE UNCHANGED vars
    BY <1>7, <1>9, <1>b DEF vars, Claims!vars, held, verdict, verdictOf
  <1>10. QED
    BY <1>1, <1>2, <1>3, <1>4, <1>5, <1>6, <1>7, <1>8, <1>9 DEF Next, ClientStep, Claims!Next

(* All four backends keep the promise of try_claim: one instant of          *)
(* decision, against the keys that are claimed then, and no True for        *)
(* anybody who was not granted the key.                                     *)
THEOREM BackendsImplementClaims == Spec => ImplementsClaims
  <1>1. Init => Claims!Init
    BY DEF Init, Claims!Init, Live, Idle
  <1>2. QED
    BY <1>1, StoreInvariant, StepRefines, PTL DEF Spec, ImplementsClaims, Claims!Spec
=============================================================================
