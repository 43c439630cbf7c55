---------------------------- MODULE InFlightLease ----------------------------
(***************************************************************************)
(* The in-flight (dispatch) leases of the local account scheduler.         *)
(*                                                                         *)
(* Every request that is sent to an account holds one lease.  The leases   *)
(* of all instances are kept in Redis, twice: in the registry of the       *)
(* account and in the global registry.  A registry is a last_seen sorted   *)
(* set, an acquired sorted set and a weight counter, changed only by Lua   *)
(* scripts (storage/redis_cache.rs).  In the process a lease is owned by   *)
(* an InFlightLeaseGuard (token_manager/concurrency.rs), which must give   *)
(* it back exactly once although it may not know whether Redis ever        *)
(* executed its acquire script; the give-back is retried by the release    *)
(* dispatcher.  Leases of a killed process are reclaimed by the others     *)
(* when its heartbeat expires, leases without activity by their age.       *)
(*                                                                         *)
(* Time is abstract: "stale" is the set of leases whose last_seen score is *)
(* older than the maximal age, and key expirations are actions.            *)
(***************************************************************************)
EXTENDS Naturals, FiniteSets

CONSTANTS
    Instances,      \* scheduler instances (a restarted process is a new one)
    Creds,          \* accounts
    Leases,         \* lease ids; every id is used by one request only
    CredOf,         \* the account a lease is for
    OwnerOf,        \* the instance whose id namespace the lease id is from
    RequestWeight,  \* weight units asked for
    MaxWeight,      \* largest request weight (64 in the code)
    MaxLocal,       \* concurrency limit of an account, 0 = none
    MaxGlobal,      \* concurrency limit over all accounts, 0 = none
    MaxAge,         \* is credentialInFlightLeaseMaxSecs > 0 ?
    KeyExpiry,      \* accounts whose registry keys may reach their EXPIRE
    Pauses,         \* instances that may miss their heartbeat TTL while running
    Admin,          \* may the administrator clear leases and block accounts ?
    Mortal,         \* instances that may be killed
    Stoppable,      \* instances that may be asked to stop
    None            \* no instance

ASSUME ConstantsAssumption ==
    /\ IsFiniteSet(Leases)
    /\ CredOf \in [Leases -> Creds]
    /\ OwnerOf \in [Leases -> Instances]
    /\ RequestWeight \in [Leases -> 1..MaxWeight]
    /\ MaxWeight \in Nat \ {0}
    /\ MaxLocal \in Nat /\ MaxGlobal \in Nat
    /\ MaxAge \in BOOLEAN /\ Admin \in BOOLEAN /\ KeyExpiry \subseteq Creds
    /\ Pauses \subseteq Instances /\ Mortal \subseteq Instances /\ Stoppable \subseteq Instances
    /\ None \notin Instances

VARIABLES
    \* Redis
    lacq, lseen,    \* leases in the acquired / last_seen set of their account
    lcnt,           \* the weight counter of every account
    gacq, gseen,    \* leases in the global acquired / last_seen set
    gcnt,           \* the global weight counter
    stale,          \* leases whose last_seen score is past the maximal age
    tomb,           \* leases with a released tombstone
    owned,          \* leases in the owner set of their instance
    blocked,        \* accounts with a dispatch block
    known, live,    \* registered instances / instances with a heartbeat key
    \* the instances
    up, stopping,   \* running processes / those that began to shut down
    guard,          \* state of the request's InFlightLeaseGuard
    entry,          \* leases in the process's own ledger (locally owned)
    cmd,            \* the acquire script call of a lease
    intent,         \* release intents queued in the release dispatcher
    victim, todo,   \* whose leases an instance is reclaiming, and which
    alone           \* instances that saw no other one (redis_single_instance)

redisVars == <<lacq, lseen, lcnt, gacq, gseen, gcnt, stale, tomb, owned>>
procVars  == <<guard, entry, cmd, intent>>
instVars  == <<blocked, known, live, up, stopping, victim, todo, alone>>
vars      == <<redisVars, procVars, instVars>>

-----------------------------------------------------------------------------
(* Weights.  The total weight of a set of leases is counted as the number  *)
(* of its weight units.                                                    *)

Clamped(w, max) == IF max > 0 /\ w > max THEN max ELSE w

EffectiveWeight(l) == Clamped(Clamped(RequestWeight[l], MaxLocal), MaxGlobal)

Units(S) == {p \in S \X (1..MaxWeight) : p[2] <= EffectiveWeight(p[1])}

Weight(S) == Cardinality(Units(S))

\* Mutant: a slot is free as soon as the limit is not reached yet.
FitsPartly(n, l, max) == max = 0 \/ n < max

Fits(n, l, max) == max = 0 \/ n + EffectiveWeight(l) <= max

On(c, S) == {l \in S : CredOf[l] = c}

OfInstance(i) == {l \in Leases : OwnerOf[l] = i}

\* DECRBY followed by the repair of a negative counter.
Decreased(n, w) == IF w > n THEN 0 ELSE n - w

-----------------------------------------------------------------------------
Init ==
    /\ lacq = {} /\ lseen = {} /\ gacq = {} /\ gseen = {}
    /\ lcnt = [c \in Creds |-> 0] /\ gcnt = 0
    /\ stale = {} /\ tomb = {} /\ owned = {} /\ blocked = {}
    /\ known = Instances /\ live = Instances
    /\ up = Instances /\ stopping = {}
    /\ guard = [l \in Leases |-> "idle"]
    /\ entry = {}
    /\ cmd = [l \in Leases |-> "none"]
    /\ intent = [l \in Leases |-> "none"]
    /\ victim = [i \in Instances |-> None]
    /\ todo = [i \in Instances |-> {}]
    /\ alone = {}

-----------------------------------------------------------------------------
(* The Lua scripts.                                                        *)

\* Mutant: DECRBY without looking at what ZREM removed, and without repair.
DropLeasesUnrepaired(D) ==
    /\ lacq' = lacq \ D /\ lseen' = lseen \ D
    /\ gacq' = gacq \ D /\ gseen' = gseen \ D
    /\ lcnt' = [c \in Creds |-> lcnt[c] - Weight(On(c, D))]
    /\ gcnt' = gcnt - Weight(D)
    /\ stale' = stale \ D

\* Mutant: the counters are lowered for leases that were gone already.
DropLeasesUnchecked(D) ==
    /\ lacq' = lacq \ D /\ lseen' = lseen \ D
    /\ gacq' = gacq \ D /\ gseen' = gseen \ D
    /\ lcnt' = [c \in Creds |-> Decreased(lcnt[c], Weight(On(c, D)))]
    /\ gcnt' = Decreased(gcnt, Weight(D))
    /\ stale' = stale \ D

\* Mutant: the global acquired set is forgotten.
DropLeasesOfAccount(D) ==
    /\ lacq' = lacq \ D /\ lseen' = lseen \ D
    /\ gseen' = gseen \ D
    /\ lcnt' = [c \in Creds |-> Decreased(lcnt[c], Weight(On(c, lacq) \cap D))]
    /\ stale' = stale \ D
    /\ UNCHANGED <<gacq, gcnt>>

\* What the release script and the sweeps do with the leases in D: drop them
\* from both registries, lower a counter only for what was still acquired.
DropLeases(D) ==
    /\ lacq' = lacq \ D /\ lseen' = lseen \ D
    /\ gacq' = gacq \ D /\ gseen' = gseen \ D
    /\ lcnt' = [c \in Creds |-> Decreased(lcnt[c], Weight(On(c, lacq) \cap D))]
    /\ gcnt' = Decreased(gcnt, Weight(gacq \cap D))
    /\ stale' = stale \ D

\* Mutant: the released tombstone is not looked at.
AcquireIgnoresTombstone(l) == CredOf[l] \notin blocked

\* The two early returns of the acquire script.
AcquireAllowed(l) == CredOf[l] \notin blocked /\ l \notin tomb

\* The acquire script: refuse a blocked account and a tombstoned lease;
\* purge what has expired in this account's registry and, separately, in the
\* global one; then take the slot if both limits have room.
AcquireScript(l) ==
    LET c  == CredOf[l]
        el == IF MaxAge THEN On(c, lseen) \cap stale ELSE {}
        eg == IF MaxAge THEN gseen \cap stale ELSE {}
        n  == Decreased(lcnt[c], Weight(On(c, lacq) \cap el))
        g  == Decreased(gcnt, Weight(gacq \cap eg))
        ok == Fits(n, l, MaxLocal) /\ Fits(g, l, MaxGlobal)
        new == IF ok THEN {l} ELSE {}
    IN  IF AcquireAllowed(l)
        THEN /\ lacq' = (lacq \ el) \cup new
             /\ lseen' = (lseen \ el) \cup new
             /\ gacq' = (gacq \ eg) \cup new
             /\ gseen' = (gseen \ eg) \cup new
             /\ lcnt' = [lcnt EXCEPT ![c] = n + Weight(new)]
             /\ gcnt' = g + Weight(new)
             /\ stale' = (stale \ new) \cap (lseen' \cup gseen')
             /\ owned' = owned \cup new
             /\ cmd' = [cmd EXCEPT ![l] =
                          IF guard[l] # "waiting" THEN "none"
                          ELSE IF ok THEN "yes" ELSE "no"]
             /\ UNCHANGED tomb
        ELSE /\ cmd' = [cmd EXCEPT ![l] =
                          IF guard[l] = "waiting" THEN "no" ELSE "none"]
             /\ UNCHANGED redisVars

\* release_in_flight_lease_inner for lease l of instance OwnerOf[l].
ReleaseScript(l, tombstone) ==
    /\ DropLeases({l})
    /\ owned' = owned \ {l}
    /\ tomb' = IF tombstone THEN tomb \cup {l} ELSE tomb

\* touch_in_flight_lease and set_in_flight_lease_kind: a lease that is no
\* longer in both registries is forgotten instead of refreshed.
TouchScript(l) ==
    /\ IF l \in lacq /\ l \in gacq
       THEN lseen' = lseen \cup {l} /\ gseen' = gseen \cup {l}
       ELSE lseen' = lseen \ {l} /\ gseen' = gseen \ {l}
    /\ stale' = stale \ {l}
    /\ UNCHANGED <<lacq, lcnt, gacq, gcnt, tomb, owned>>

\* touch_instance_in_flight_leases: forget owner entries whose lease left the
\* account registry, refresh the active ones in both last_seen sets.
TouchInstanceScript(i, active) ==
    LET mine == owned \cap OfInstance(i)
        hit  == mine \cap lacq \cap active
    IN  /\ owned' = owned \ (mine \ lacq)
        /\ lseen' = lseen \cup hit
        /\ gseen' = gseen \cup hit
        /\ stale' = stale \ hit
        /\ UNCHANGED <<lacq, lcnt, gacq, gcnt, tomb>>

-----------------------------------------------------------------------------
(* A request's guard.                                                      *)

\* Guards that occupy the process's own ledger.
Active == {"notStarted", "waiting", "acquired", "unknown", "rejected"}

\* prepare_in_flight_slot: reserve in the process's ledger first.  Only the
\* leases this process owns count; Redis is authoritative for the others.
Prepare(l) ==
    LET mine == entry \cap OfInstance(OwnerOf[l])
    IN  /\ OwnerOf[l] \in up \ stopping
        /\ guard[l] = "idle"
        /\ Fits(Weight(mine), l, MaxGlobal)
        /\ Fits(Weight(On(CredOf[l], mine)), l, MaxLocal)
        /\ guard' = [guard EXCEPT ![l] = "notStarted"]
        /\ entry' = entry \cup {l}
        /\ UNCHANGED <<redisVars, cmd, intent, instVars>>

\* The scheduler breaker admits the operation: the guard is armed as
\* commit-unknown, then the script call is sent.
SendAcquire(l) ==
    /\ OwnerOf[l] \in up
    /\ guard[l] = "notStarted"
    /\ guard' = [guard EXCEPT ![l] = "waiting"]
    /\ cmd' = [cmd EXCEPT ![l] = "wire"]
    /\ UNCHANGED <<redisVars, entry, intent, instVars>>

\* Redis executes the call, whenever it reaches Redis: possibly after the
\* guard gave up, was released, or its process was killed.
ExecuteAcquire(l) ==
    /\ cmd[l] = "wire"
    /\ AcquireScript(l)
    /\ UNCHANGED <<guard, entry, intent, instVars>>

\* The call is lost on the way.
LoseAcquire(l) ==
    /\ cmd[l] = "wire"
    /\ cmd' = [cmd EXCEPT ![l] = "none"]
    /\ UNCHANGED <<redisVars, guard, entry, intent, instVars>>

\* confirm_redis_acquired.
ConfirmAcquired(l) ==
    /\ OwnerOf[l] \in up
    /\ guard[l] = "waiting" /\ cmd[l] = "yes"
    /\ guard' = [guard EXCEPT ![l] = "acquired"]
    /\ cmd' = [cmd EXCEPT ![l] = "none"]
    /\ UNCHANGED <<redisVars, entry, intent, instVars>>

\* confirm_redis_not_acquired and drop: nothing to release in Redis.  The
\* refusal was answered by Redis, or the call certainly failed (connection
\* refused, not the only instance), or it never started (breaker open,
\* admission saturated).
Refused(l) ==
    /\ OwnerOf[l] \in up
    /\ \/ guard[l] = "waiting" /\ cmd[l] = "no"
       \/ guard[l] = "waiting" /\ cmd[l] = "wire" /\ OwnerOf[l] \notin alone
       \/ guard[l] = "notStarted"
    /\ guard' = [guard EXCEPT ![l] = "released"]
    /\ cmd' = [cmd EXCEPT ![l] = "none"]
    /\ entry' = entry \ {l}
    /\ UNCHANGED <<redisVars, intent, instVars>>

\* Mutant: dispatched on its own ledger although there are other instances.
DispatchRegardless(l) ==
    /\ OwnerOf[l] \in up
    /\ guard[l] = "notStarted"
    /\ guard' = [guard EXCEPT ![l] = "rejected"]
    /\ UNCHANGED <<redisVars, entry, cmd, intent, instVars>>

\* The only instance on this Redis dispatches on its own ledger when the
\* call did not start or certainly failed (connection refused) ...
DispatchWithoutLease(l) ==
    /\ OwnerOf[l] \in up \cap alone
    /\ \/ guard[l] = "notStarted"
       \/ guard[l] = "waiting" /\ cmd[l] = "wire"
    /\ guard' = [guard EXCEPT ![l] = "rejected"]
    /\ cmd' = [cmd EXCEPT ![l] = "none"]
    /\ UNCHANGED <<redisVars, entry, intent, instVars>>

\* Nobody reads the answer of the call any more; a call on the way stays there.
Unread(l) == IF cmd[l] = "wire" THEN "wire" ELSE "none"

\* ... or when it timed out: the guard stays commit-unknown.
DispatchUnknown(l) ==
    /\ OwnerOf[l] \in up \cap alone
    /\ guard[l] = "waiting"
    /\ guard' = [guard EXCEPT ![l] = "unknown"]
    /\ cmd' = [cmd EXCEPT ![l] = Unread(l)]
    /\ UNCHANGED <<redisVars, entry, intent, instVars>>

\* Which release the guard owes Redis: none, a plain one, or a tombstone one
\* when the outcome of the acquire call is unknown.
ReleaseKind(l) ==
    CASE guard[l] = "acquired" -> "plain"
      [] guard[l] \in {"waiting", "unknown"} -> "tombstone"
      [] OTHER -> "none"

\* InFlightLeaseGuard::release, also on drop: the request finished, timed out
\* waiting for Redis, or was cancelled.
Release(l) ==
    /\ OwnerOf[l] \in up
    /\ guard[l] \in {"waiting", "acquired", "unknown", "rejected"}
    /\ guard' = [guard EXCEPT ![l] = "released"]
    /\ intent' = [intent EXCEPT ![l] = ReleaseKind(l)]
    /\ cmd' = [cmd EXCEPT ![l] = Unread(l)]
    /\ entry' = entry \ {l}
    /\ UNCHANGED <<redisVars, instVars>>

\* Mutant: only a lease that is still registered is released.
DispatchReleaseIfRegistered(l) ==
    /\ OwnerOf[l] \in up
    /\ intent[l] # "none" /\ l \in lacq
    /\ ReleaseScript(l, intent[l] = "tombstone")
    /\ intent' = [intent EXCEPT ![l] = "none"]
    /\ UNCHANGED <<guard, entry, cmd, instVars>>

\* One attempt of the release dispatcher.  When the answer is lost the
\* intent stays queued and the script is run again later.
DispatchRelease(l) ==
    /\ OwnerOf[l] \in up
    /\ intent[l] # "none"
    /\ ReleaseScript(l, intent[l] = "tombstone")
    /\ \/ intent' = [intent EXCEPT ![l] = "none"]
       \/ UNCHANGED intent
    /\ UNCHANGED <<guard, entry, cmd, instVars>>

\* The spawned touch / set_kind task, which may run after the release.
Touch(l) ==
    /\ OwnerOf[l] \in up
    /\ guard[l] \in {"acquired", "unknown", "rejected", "released"}
    /\ TouchScript(l)
    /\ UNCHANGED <<procVars, instVars>>

\* cleanup_expired_local_in_flight_leases: the ledger drops a lease without
\* local activity although its guard still exists.
ExpireEntry(l) ==
    /\ MaxAge
    /\ OwnerOf[l] \in up
    /\ l \in entry
    /\ entry' = entry \ {l}
    /\ UNCHANGED <<redisVars, guard, cmd, intent, instVars>>

-----------------------------------------------------------------------------
(* Heartbeat, reclaim and shutdown.                                        *)

Heartbeat(i) ==
    /\ i \in up
    /\ live' = live \cup {i}
    /\ known' = known \cup {i}
    /\ UNCHANGED <<redisVars, procVars, blocked, up, stopping, victim, todo, alone>>

\* The heartbeat refreshes the leases of the ledger that showed activity.
TouchInstance(i) ==
    /\ i \in up
    /\ \E active \in SUBSET (entry \cap OfInstance(i)) :
          TouchInstanceScript(i, active)
    /\ UNCHANGED <<procVars, instVars>>

\* The heartbeat key of i reaches its TTL: i was killed, or paused.  A call
\* of a killed process does not stay on the way for that long.
HeartbeatExpires(i) ==
    /\ i \in live
    /\ i \in up => i \in Pauses
    /\ i \notin up => \A l \in OfInstance(i) : cmd[l] # "wire"
    /\ live' = live \ {i}
    /\ UNCHANGED <<redisVars, procVars, blocked, known, up, stopping, victim, todo, alone>>

\* Mutant: the heartbeat key of the other instance is not asked for.
ReclaimReadUnchecked(r, v) ==
    /\ r \in up
    /\ victim[r] = None
    /\ r # v /\ v \in known
    /\ victim' = [victim EXCEPT ![r] = v]
    /\ todo' = [todo EXCEPT ![r] = owned \cap OfInstance(v)]
    /\ UNCHANGED <<redisVars, procVars, blocked, known, live, up, stopping, alone>>

\* reclaim_dead_instance_leases finds v dead: read its owner set ...
ReclaimRead(r, v) ==
    /\ r \in up
    /\ victim[r] = None
    /\ r # v /\ v \in known /\ v \notin live
    /\ victim' = [victim EXCEPT ![r] = v]
    /\ todo' = [todo EXCEPT ![r] = owned \cap OfInstance(v)]
    /\ UNCHANGED <<redisVars, procVars, blocked, known, live, up, stopping, alone>>

\* ... release what was read, one script call each ...
ReclaimLease(r, l) ==
    /\ r \in up
    /\ l \in todo[r]
    /\ ReleaseScript(l, FALSE)
    /\ todo' = [todo EXCEPT ![r] = @ \ {l}]
    /\ UNCHANGED <<procVars, blocked, known, live, up, stopping, victim, alone>>

\* Mutant: the instance is forgotten although a release of its leases failed.
ReclaimForgetEarly(r) ==
    /\ r \in up
    /\ victim[r] # None
    /\ owned' = owned \ OfInstance(victim[r])
    /\ known' = known \ {victim[r]}
    /\ victim' = [victim EXCEPT ![r] = None]
    /\ todo' = [todo EXCEPT ![r] = {}]
    /\ UNCHANGED <<lacq, lseen, lcnt, gacq, gseen, gcnt, stale, tomb, procVars,
                   blocked, live, up, stopping, alone>>

\* ... and delete the owner set and the instance, whatever it holds by now.
ReclaimForget(r) ==
    /\ r \in up
    /\ victim[r] # None /\ todo[r] = {}
    /\ owned' = owned \ OfInstance(victim[r])
    /\ known' = known \ {victim[r]}
    /\ victim' = [victim EXCEPT ![r] = None]
    /\ UNCHANGED <<lacq, lseen, lcnt, gacq, gseen, gcnt, stale, tomb, procVars,
                   blocked, live, up, stopping, todo, alone>>

\* The pass times out or a call fails: the rest is left for the next one.
ReclaimAbort(r) ==
    /\ victim[r] # None
    /\ victim' = [victim EXCEPT ![r] = None]
    /\ todo' = [todo EXCEPT ![r] = {}]
    /\ UNCHANGED <<redisVars, procVars, blocked, known, live, up, stopping, alone>>

\* A pass that got through tells whether another instance is alive; the answer
\* is kept until the next such pass.
CountInstances(i) ==
    /\ i \in up
    /\ victim[i] = None
    /\ alone' = IF (known \cap live) \ {i} = {} THEN alone \cup {i} ELSE alone \ {i}
    /\ UNCHANGED <<redisVars, procVars, blocked, known, live, up, stopping, victim, todo>>

\* The stop signal: no new dispatch, and release_own_in_flight_leases starts
\* to give this instance's own leases back while their requests still drain.
BeginShutdown(i) ==
    /\ i \in (up \cap Stoppable) \ stopping
    /\ victim[i] = None
    /\ stopping' = stopping \cup {i}
    /\ victim' = [victim EXCEPT ![i] = i]
    /\ todo' = [todo EXCEPT ![i] = owned \cap OfInstance(i)]
    /\ UNCHANGED <<redisVars, procVars, blocked, known, live, up, alone>>

\* The process is killed, or exits: its guards, its ledger and its queued
\* release intents are gone; a call on the way may still arrive.
Crash(i) ==
    /\ i \in up \cap Mortal
    /\ up' = up \ {i}
    /\ guard' = [l \in Leases |-> IF OwnerOf[l] = i THEN "dead" ELSE guard[l]]
    /\ entry' = entry \ OfInstance(i)
    /\ cmd' = [l \in Leases |-> IF OwnerOf[l] = i THEN Unread(l) ELSE cmd[l]]
    /\ intent' = [l \in Leases |-> IF OwnerOf[l] = i THEN "none" ELSE intent[l]]
    /\ victim' = [victim EXCEPT ![i] = None]
    /\ todo' = [todo EXCEPT ![i] = {}]
    /\ alone' = alone \ {i}
    /\ UNCHANGED <<redisVars, blocked, known, live, stopping>>

-----------------------------------------------------------------------------
(* Time, clean-up and administration.                                      *)

\* A lease is not touched for the maximal age.
Age(l) ==
    /\ MaxAge
    /\ l \in (lseen \cup gseen) \ stale
    /\ stale' = stale \cup {l}
    /\ UNCHANGED <<lacq, lseen, lcnt, gacq, gseen, gcnt, tomb, owned, procVars, instVars>>

\* cleanup_expired_in_flight_leases, run by any instance: the accounts'
\* last_seen sets decide what has expired in both registries.
CleanupExpired ==
    /\ MaxAge
    /\ up # {}
    /\ DropLeases(lseen \cap stale)
    /\ UNCHANGED <<tomb, owned, procVars, instVars>>

\* clear_in_flight_leases with a minimal idle time, by the administrator.
ClearIdle(c) ==
    /\ Admin
    /\ \E idle \in SUBSET On(c, lseen) : DropLeases(idle)
    /\ UNCHANGED <<tomb, owned, procVars, instVars>>

\* clear_in_flight_leases without one: the account's keys are deleted.
ClearAll(c) ==
    LET D == On(c, lseen)
    IN  /\ Admin
        /\ lacq' = lacq \ On(c, Leases)
        /\ lseen' = lseen \ On(c, Leases)
        /\ lcnt' = [lcnt EXCEPT ![c] = 0]
        /\ gacq' = gacq \ D
        /\ gseen' = gseen \ D
        /\ gcnt' = Decreased(gcnt, Weight(gacq \cap D))
        /\ stale' = stale \cap (lseen' \cup gseen')
        /\ UNCHANGED <<tomb, owned, procVars, instVars>>

\* No acquire on account c for twice the maximal age: its keys expire, held
\* leases included (touching a lease does not extend them).
AccountKeysExpire(c) ==
    /\ c \in KeyExpiry /\ MaxAge
    /\ lacq' = lacq \ On(c, Leases)
    /\ lseen' = lseen \ On(c, Leases)
    /\ lcnt' = [lcnt EXCEPT ![c] = 0]
    /\ stale' = stale \cap (lseen' \cup gseen)
    /\ UNCHANGED <<gacq, gseen, gcnt, tomb, owned, procVars, instVars>>

\* No acquire at all for that long.
GlobalKeysExpire ==
    /\ KeyExpiry # {} /\ MaxAge
    /\ gacq' = {} /\ gseen' = {} /\ gcnt' = 0
    /\ stale' = stale \cap lseen
    /\ UNCHANGED <<lacq, lseen, lcnt, tomb, owned, procVars, instVars>>

\* A tombstone reaches its TTL; no acquire call stays on the way that long.
TombstoneExpires(l) ==
    /\ l \in tomb /\ cmd[l] # "wire"
    /\ tomb' = tomb \ {l}
    /\ UNCHANGED <<lacq, lseen, lcnt, gacq, gseen, gcnt, stale, owned, procVars, instVars>>

\* set_scheduler_dispatch_block / clear_scheduler_dispatch_block.
SetBlock(c) ==
    /\ Admin
    /\ blocked' \in {blocked \cup {c}, blocked \ {c}}
    /\ UNCHANGED <<redisVars, procVars, known, live, up, stopping, victim, todo, alone>>

-----------------------------------------------------------------------------
RequestStep(l) ==
    \/ Prepare(l) \/ SendAcquire(l) \/ ExecuteAcquire(l) \/ LoseAcquire(l)
    \/ ConfirmAcquired(l) \/ Refused(l) \/ DispatchWithoutLease(l)
    \/ DispatchUnknown(l) \/ Release(l) \/ DispatchRelease(l)
    \/ Touch(l) \/ ExpireEntry(l) \/ Age(l) \/ TombstoneExpires(l)

InstanceStep(i) ==
    \/ Heartbeat(i) \/ TouchInstance(i) \/ HeartbeatExpires(i)
    \/ \E v \in Instances : ReclaimRead(i, v)
    \/ \E l \in Leases : ReclaimLease(i, l)
    \/ ReclaimForget(i) \/ ReclaimAbort(i) \/ CountInstances(i)
    \/ BeginShutdown(i) \/ Crash(i)

AccountStep(c) ==
    ClearIdle(c) \/ ClearAll(c) \/ AccountKeysExpire(c) \/ SetBlock(c)

Next ==
    \/ \E l \in Leases : RequestStep(l)
    \/ \E i \in Instances : InstanceStep(i)
    \/ \E c \in Creds : AccountStep(c)
    \/ CleanupExpired
    \/ GlobalKeysExpire

Spec == Init /\ [][Next]_vars

\* What the code's workers guarantee: the release dispatcher retries until
\* Redis answers, the heartbeat worker ticks every five seconds, a reclaim
\* pass that is tried again and again gets through its next call, heartbeat
\* keys of dead processes do expire, and Redis executes or loses every call.
Fairness ==
    /\ \A l \in Leases :
          /\ SF_vars(DispatchRelease(l) /\ intent'[l] = "none")
          /\ WF_vars(ExecuteAcquire(l) \/ LoseAcquire(l))
    /\ \A i \in Instances :
          /\ WF_vars(Heartbeat(i))
          /\ WF_vars(i \notin up /\ HeartbeatExpires(i))
          /\ WF_vars(\E v \in Instances : ReclaimRead(i, v))
          /\ SF_vars(\E l \in Leases : ReclaimLease(i, l))
          /\ SF_vars(ReclaimForget(i))

FairSpec == Spec /\ Fairness

-----------------------------------------------------------------------------
(* Properties.                                                             *)

\* Types of the variables.
TypeOK ==
    /\ lacq \subseteq Leases /\ lseen \subseteq Leases
    /\ gacq \subseteq Leases /\ gseen \subseteq Leases
    /\ stale \subseteq Leases /\ tomb \subseteq Leases /\ owned \subseteq Leases
    /\ lcnt \in [Creds -> Nat] /\ gcnt \in Nat
    /\ blocked \subseteq Creds
    /\ known \subseteq Instances /\ live \subseteq Instances
    /\ up \subseteq Instances /\ stopping \subseteq Instances
    /\ guard \in [Leases -> Active \cup {"idle", "released", "dead"}]
    /\ entry \subseteq Leases
    /\ cmd \in [Leases -> {"none", "wire", "yes", "no"}]
    /\ intent \in [Leases -> {"none", "plain", "tombstone"}]
    /\ victim \in [Instances -> Instances \cup {None}]
    /\ todo \in [Instances -> SUBSET Leases]
    /\ alone \subseteq Instances

\* The counters, which the scripts keep up by increments and decrements, are
\* at all times the total weight of the acquired leases: no interleaving of
\* releases, retries, sweeps, purges, reclaims and clears counts a lease twice
\* or forgets one (so the repair of negative counters never has to act).
CountersAgree ==
    /\ \A c \in Creds : lcnt[c] = Weight(On(c, lacq))
    /\ gcnt = Weight(gacq)

\* Neither the account limit nor the global limit is ever exceeded in Redis.
WithinLimits ==
    /\ MaxLocal > 0 => \A c \in Creds : Weight(On(c, lacq)) <= MaxLocal
    /\ MaxGlobal > 0 => Weight(gacq) <= MaxGlobal

\* A lease whose guard was released and whose release reached Redis holds no
\* slot, and never will: not even if its acquire script, given up as
\* commit-unknown, is executed after the release.
ReleasedStaysReleased ==
    \A l \in Leases :
        guard[l] = "released" /\ intent[l] = "none" => l \notin lacq \cup gacq \cup owned

\* Requests that are being sent to an account.
Dispatched == {l \in Leases : guard[l] \in {"acquired", "unknown", "rejected"}}

\* What the limits are for: the requests under way of all instances together
\* keep to them, also after the other instances died and the last one goes on
\* without Redis, on its own ledger.  (Without pauses, administrator, age
\* limit and shutdown, which give slots of requests under way back.)
DispatchedWithinLimits ==
    /\ MaxLocal > 0 => \A c \in Creds : Weight(On(c, Dispatched)) <= MaxLocal
    /\ MaxGlobal > 0 => Weight(Dispatched) <= MaxGlobal

\* README, credentialInFlightLeaseMaxSecs: a slot that shows no activity is
\* released automatically.  A slot nobody will give back any more is still
\* listed where a sweep, a purge or a reclaim finds it.
NoSlotIsLeaked ==
    \A l \in gacq :
        guard[l] = "dead" =>
            \/ l \in gseen
            \/ l \in owned /\ OwnerOf[l] \in known
            \/ \E r \in up : l \in todo[r]

\* A running request of an instance that keeps up its heartbeat is registered
\* in Redis all the time: reclaiming never takes its slot away.  (Without
\* pauses, administrator and age limit.)
HeldIsRegistered ==
    \A l \in Leases :
        guard[l] = "acquired" /\ OwnerOf[l] \notin stopping =>
            l \in lacq \cap gacq \cap owned

\* heartbeat_and_reclaim_dead_instance_leases: the slots of a killed process
\* are given back, by the other instances, without an age limit.
DeadLeasesReclaimed ==
    \A l \in Leases : guard[l] = "dead" ~> [](l \notin lacq \cup gacq)

\* A released guard's slot is given back unless its process is killed first,
\* however often an attempt's answer is lost.
ReleasesDrain ==
    \A l \in Leases : intent[l] # "none" ~> intent[l] = "none"

=============================================================================
