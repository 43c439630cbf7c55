--------------------------- MODULE SchedulerView ---------------------------
(***************************************************************************)
(* The local copy of the scheduler state that one instance keeps of Redis: *)
(* MultiTokenManager::refresh_scheduler_state_from_redis and its variants  *)
(* in kiro/token_manager/manager.rs, and the merge of a snapshot into the  *)
(* entries in redis_runtime.rs.                                            *)
(*                                                                         *)
(* Account selection reads the entries, never Redis.  The entries learn of *)
(* the other instances' leases from a snapshot that is read, filtered and  *)
(* merged in separate steps, while this process takes and releases its own *)
(* leases, wake-up events mark accounts as out of date, and the            *)
(* administration reads snapshots of its own past the background worker.   *)
(*                                                                         *)
(* A lease is taken once and has one slot.  Cooldowns, health and rate     *)
(* limits travel in the same snapshot and are replaced as a whole; only    *)
(* the leases are merged, and only they are modelled.  The two counters    *)
(* scheduler_redis_full_sync_requested and _applied are compared for       *)
(* equality alone: `pending` is requested # applied, and `again` of a full *)
(* sync says that requested has grown since the worker loaded its target.  *)
(***************************************************************************)
EXTENDS Naturals, FiniteSets

CONSTANTS
    Creds,        \* the accounts, entries of the manager
    Own,          \* leases this process may take
    Foreign,      \* leases other instances may take
    CredOf,       \* the account of each lease
    Callers,      \* threads of this process that call the refresh
    MaxLeaving    \* bound: workers between their last store and the recheck

ASSUME ViewAssumption ==
    /\ Creds # {}
    /\ Own \cap Foreign = {}
    /\ CredOf \in [Own \cup Foreign -> Creds]
    /\ MaxLeaving \in Nat \ {0}

VARIABLES
    redis,      \* the leases registered in Redis
    own,        \* how far each lease of this process is
    used,       \* the foreign leases that have been taken already
    events,     \* accounts with a wake-up event under way to this process
    view,       \* in_flight_leases of all entries
    owned,      \* those with locally_owned
    tombs,      \* released_in_flight_lease_tombstones
    dirty,      \* scheduler_redis_dirty_credential_ids
    pending,    \* a full sync is requested and not applied
    worker,     \* where the background worker is; "none": no sync in flight
    job,        \* what it works on: full or targeted, ids, snapshot
    leaving,    \* workers that have cleared sync_in_flight and not rechecked
    caller,     \* where each caller of the refresh is
    direct,     \* a forced or targeted read past the worker
    astray      \* history: accounts whose last event was lost, or that a
                \* direct read overwrote, since the worker last read them

lease == <<redis, own, used>>
entries == <<view, owned, tombs>>
marks == <<dirty, pending>>
work == <<worker, job, leaving>>
vars == <<lease, events, entries, marks, work, caller, direct, astray>>

Lease == Own \cup Foreign
Of(ids) == {l \in Lease : CredOf[l] \in ids}
Idle == [at |-> "idle", force |-> FALSE, ids |-> {}, snap |-> {}]
NoJob == [full |-> FALSE, again |-> FALSE, ids |-> {}, snap |-> {}]

\* locally_owned: in the entries from the provisional reservation until the
\* guard's release has removed it.
OwnedNow == {l \in Own : own[l] \in {"local", "held", "marked"}}

Init ==
    /\ redis = {}
    /\ own = [l \in Own |-> "unused"]
    /\ used = {}
    /\ events = {}
    /\ view = {}
    /\ owned = {}
    /\ tombs = {}
    /\ dirty = {}
    /\ pending = FALSE
    /\ worker = "none"
    /\ job = NoJob
    /\ leaving = 0
    /\ caller = [k \in Callers |-> "idle"]
    /\ direct = Idle
    /\ astray = {}

-----------------------------------------------------------------------------
(* The leases of this process.                                             *)

\* acquire_provisional_local_in_flight_slot_with_id: in the entries before
\* Redis is asked.
Reserve(l) ==
    /\ own[l] = "unused"
    /\ own' = [own EXCEPT ![l] = "local"]
    /\ view' = view \cup {l}
    /\ owned' = owned \cup {l}
    /\ UNCHANGED <<redis, used, events, tombs, marks, work, caller, direct, astray>>

\* Redis grants the lease.
Granted(l) ==
    /\ own[l] = "local"
    /\ own' = [own EXCEPT ![l] = "held"]
    /\ redis' = redis \cup {l}
    /\ UNCHANGED <<used, events, entries, marks, work, caller, direct, astray>>

\* Redis refuses: confirm_redis_not_acquired, and the guard's release takes
\* the reservation back without a tombstone.
Refused(l) ==
    /\ own[l] = "local"
    /\ own' = [own EXCEPT ![l] = "gone"]
    /\ view' = view \ {l}
    /\ owned' = owned \ {l}
    /\ UNCHANGED <<redis, used, events, tombs, marks, work, caller, direct, astray>>

\* InFlightLeaseGuard::release, first under the lock of the tombstones ...
MarkReleased(l) ==
    /\ own[l] = "held"
    /\ own' = [own EXCEPT ![l] = "marked"]
    /\ tombs' = tombs \cup {l}
    /\ UNCHANGED <<redis, used, events, view, owned, marks, work, caller, direct, astray>>

\* ... then under the lock of the entries, after which the release is queued
\* for Redis.
RemoveEntry(l) ==
    /\ own[l] = "marked"
    /\ own' = [own EXCEPT ![l] = "removed"]
    /\ view' = view \ {l}
    /\ owned' = owned \ {l}
    /\ UNCHANGED <<redis, used, events, tombs, marks, work, caller, direct, astray>>

\* The release dispatcher takes the lease out of Redis.  The event that it
\* publishes names this process as its source, which ignores it.
ReleasedInRedis(l) ==
    /\ own[l] = "removed"
    /\ own' = [own EXCEPT ![l] = "gone"]
    /\ redis' = redis \ {l}
    /\ UNCHANGED <<used, events, entries, marks, work, caller, direct, astray>>

\* RELEASED_IN_FLIGHT_LEASE_TOMBSTONE_TTL has passed, or the hard limit of
\* the set has pushed the tombstone out.
TombstoneExpires(l) ==
    /\ l \in tombs
    /\ own[l] \in {"removed", "gone"}
    /\ tombs' = tombs \ {l}
    /\ UNCHANGED <<lease, events, view, owned, marks, work, caller, direct, astray>>

-----------------------------------------------------------------------------
(* The leases of the other instances, and the events about them.  A grant  *)
(* publishes nothing; a release publishes its account in the same script.  *)

ForeignTakes(l) ==
    /\ l \notin used
    /\ used' = used \cup {l}
    /\ redis' = redis \cup {l}
    /\ UNCHANGED <<own, events, entries, marks, work, caller, direct, astray>>

ForeignReleases(l) ==
    /\ l \in redis
    /\ redis' = redis \ {l}
    /\ events' = events \cup {CredOf[l]}
    /\ UNCHANGED <<own, used, entries, marks, work, caller, direct, astray>>

\* Publish/subscribe keeps nothing for a subscriber that is reconnecting.
EventLost(c) ==
    /\ c \in events
    /\ events' = events \ {c}
    /\ astray' = astray \cup {c}
    /\ UNCHANGED <<lease, entries, marks, work, caller, direct>>

-----------------------------------------------------------------------------
(* The callers of the refresh.                                             *)

\* notify_remote_dispatch_state_changed for an event that names an account.
Deliver(k, c) ==
    /\ caller[k] = "idle"
    /\ c \in events
    /\ events' = events \ {c}
    /\ dirty' = dirty \cup {c}
    /\ caller' = [caller EXCEPT ![k] = "enter"]
    /\ UNCHANGED <<lease, entries, pending, work, direct, astray>>

\* An event without an account, or the heartbeat that reclaimed the leases of
\* a dead instance: a full sync is requested.
RequestFull(k) ==
    /\ caller[k] = "idle"
    /\ pending' = TRUE
    /\ job' = [job EXCEPT !.again = job.full]
    /\ caller' = [caller EXCEPT ![k] = "enter"]
    /\ UNCHANGED <<lease, events, entries, dirty, worker, leaving, direct, astray>>

Marked == dirty # {} \/ pending

\* refresh_scheduler_state_from_redis, called by the two above and by every
\* account selection and administration snapshot: something is marked already.
Enter(k) ==
    /\ caller[k] \in {"idle", "enter"}
    /\ Marked
    /\ caller' = [caller EXCEPT ![k] = "cas"]
    /\ UNCHANGED <<lease, events, entries, marks, work, direct, astray>>

\* Nothing is marked and the last full sync is older than
\* SCHEDULER_REDIS_SYNC_MIN_INTERVAL: the caller requests one ...
EnterDue(k) ==
    /\ caller[k] \in {"idle", "enter"}
    /\ ~Marked
    /\ pending' = TRUE
    /\ job' = [job EXCEPT !.again = job.full]
    /\ caller' = [caller EXCEPT ![k] = "cas"]
    /\ UNCHANGED <<lease, events, entries, dirty, worker, leaving, direct, astray>>

\* ... or it is recent, and the caller returns.
EnterTooSoon(k) ==
    /\ caller[k] = "enter"
    /\ ~Marked
    /\ caller' = [caller EXCEPT ![k] = "idle"]
    /\ UNCHANGED <<lease, events, entries, marks, work, direct, astray>>

\* The exchange of sync_in_flight: the winner spawns the worker, the others
\* leave the marks to the worker that is running.
Spawn(k) ==
    /\ caller[k] = "cas"
    /\ caller' = [caller EXCEPT ![k] = "idle"]
    /\ worker' = IF worker = "none" THEN "start" ELSE worker
    /\ UNCHANGED <<lease, events, entries, marks, job, leaving, direct, astray>>

-----------------------------------------------------------------------------
(* The merge of a snapshot: apply_scheduler_state_to_entry.  The snapshot  *)
(* replaces what other instances hold; what this process holds is kept     *)
(* whether the snapshot has it or not, and keeps its flag.                 *)

\* Mutant: a lease of the snapshot counts as local when its id was drawn by
\* this process, without looking at the entry.
MergeByDrawnId(ids, snap) ==
    /\ view' = (view \ Of(ids)) \cup snap \cup (owned \cap Of(ids))
    /\ owned' = owned \cup (snap \cap Own)

\* Mutant: leases are only added, none of the previous entry is dropped.
MergeOnlyAdds(ids, snap) ==
    /\ view' = view \cup snap
    /\ owned' = owned

Merge(ids, snap) ==
    /\ view' = (view \ Of(ids)) \cup snap \cup (owned \cap Of(ids))
    /\ owned' = owned

-----------------------------------------------------------------------------
(* The background worker, one iteration of its loop.                       *)

\* After the debounce: the target generation is loaded, and whether it is
\* ahead of what was applied.
WorkerStart ==
    /\ worker = "start"
    /\ worker' = "collect"
    /\ job' = [NoJob EXCEPT !.full = pending]
    /\ UNCHANGED <<lease, events, entries, marks, leaving, caller, direct, astray>>

\* The marked accounts are drained; a full sync takes every account.
WorkerCollect ==
    /\ worker = "collect"
    /\ LET ids == IF job.full THEN Creds ELSE dirty IN
       /\ job' = [job EXCEPT !.ids = ids]
       /\ worker' = IF ids = {} THEN "check" ELSE "read"
    /\ dirty' = {}
    /\ UNCHANGED <<lease, events, entries, pending, leaving, caller, direct, astray>>

\* redis.scheduler_state_for_credentials(&ids) answers.
WorkerRead ==
    /\ worker = "read"
    /\ worker' = "filter"
    /\ job' = [job EXCEPT !.snap = redis \cap Of(job.ids)]
    /\ astray' = astray \ job.ids
    /\ UNCHANGED <<lease, events, entries, marks, leaving, caller, direct>>

\* Mutant: the accounts of a failed targeted read are not marked again.
WorkerReadForgets ==
    /\ worker = "read"
    /\ worker' = "check"
    /\ job' = NoJob
    /\ UNCHANGED <<lease, events, entries, marks, leaving, caller, direct, astray>>

\* The breaker does not admit the read, or it fails or times out: a full sync
\* stays requested, the accounts of a targeted one are marked again.
WorkerReadFails ==
    /\ worker = "read"
    /\ worker' = "check"
    /\ dirty' = IF job.full THEN dirty ELSE dirty \cup job.ids
    /\ job' = NoJob
    /\ UNCHANGED <<lease, events, entries, pending, leaving, caller, direct, astray>>

\* filter_released_in_flight_leases_from_scheduler_states, under the lock of
\* the tombstones.
WorkerFilter ==
    /\ worker = "filter"
    /\ worker' = "apply"
    /\ job' = [job EXCEPT !.snap = @ \ tombs]
    /\ UNCHANGED <<lease, events, entries, marks, leaving, caller, direct, astray>>

\* apply_redis_scheduler_states..., under the lock of the entries; a full sync
\* stores its target as applied.
WorkerApply ==
    /\ worker = "apply"
    /\ worker' = "check"
    /\ Merge(job.ids, job.snap)
    /\ pending' = IF job.full THEN job.again ELSE pending
    /\ job' = NoJob
    /\ UNCHANGED <<lease, events, tombs, dirty, leaving, caller, direct, astray>>

\* still_dirty
WorkerCheck ==
    /\ worker = "check"
    /\ worker' = IF Marked THEN "start" ELSE "exit"
    /\ job' = NoJob
    /\ UNCHANGED <<lease, events, entries, marks, leaving, caller, direct, astray>>

\* Mutant: the worker ends with the store, without looking again.
WorkerExitAtOnce ==
    /\ worker = "exit"
    /\ worker' = "none"
    /\ UNCHANGED <<lease, events, entries, marks, job, leaving, caller, direct, astray>>

\* sync_in_flight.store(false)
WorkerExit ==
    /\ worker = "exit"
    /\ leaving < MaxLeaving
    /\ worker' = "none"
    /\ leaving' = leaving + 1
    /\ UNCHANGED <<lease, events, entries, marks, job, caller, direct, astray>>

\* raced_dirty: a mark that came between the check and the store is taken up
\* by this worker, unless another has been spawned.
WorkerRecheck ==
    /\ leaving > 0
    /\ leaving' = leaving - 1
    /\ worker' = IF Marked /\ worker = "none" THEN "start" ELSE worker
    /\ UNCHANGED <<lease, events, entries, marks, job, caller, direct, astray>>

-----------------------------------------------------------------------------
(* Reads past the worker: refresh_scheduler_state_from_redis_force (an     *)
(* operator's clean-up) and ..._for_ids (the administration page, the      *)
(* check before an account is deleted).                                    *)

DirectRead(force, ids) ==
    /\ direct.at = "idle"
    /\ force => ids = Creds
    /\ direct' = [at |-> "filter", force |-> force, ids |-> ids, snap |-> redis \cap Of(ids)]
    /\ UNCHANGED <<lease, events, entries, marks, work, caller, astray>>

DirectFilter ==
    /\ direct.at = "filter"
    /\ direct' = [direct EXCEPT !.at = "apply", !.snap = @ \ tombs]
    /\ UNCHANGED <<lease, events, entries, marks, work, caller, astray>>

\* The forced read also declares every request applied and every mark done,
\* those included that came after it had read Redis.
DirectApply ==
    /\ direct.at = "apply"
    /\ Merge(direct.ids, direct.snap)
    /\ pending' = (pending /\ ~direct.force)
    /\ dirty' = IF direct.force THEN {} ELSE dirty
    /\ direct' = Idle
    /\ astray' = astray \cup direct.ids
    /\ UNCHANGED <<lease, events, tombs, work, caller>>

-----------------------------------------------------------------------------
OwnStep(l) ==
    \/ Reserve(l) \/ Granted(l) \/ Refused(l) \/ MarkReleased(l)
    \/ RemoveEntry(l) \/ ReleasedInRedis(l) \/ TombstoneExpires(l)

ForeignStep ==
    \/ \E l \in Foreign : ForeignTakes(l) \/ ForeignReleases(l)
    \/ \E c \in Creds : EventLost(c)

CallerStep(k) ==
    \/ \E c \in Creds : Deliver(k, c)
    \/ RequestFull(k) \/ Enter(k) \/ EnterDue(k) \/ EnterTooSoon(k)
    \/ Spawn(k)

WorkerStep ==
    \/ WorkerStart \/ WorkerCollect \/ WorkerRead \/ WorkerReadFails
    \/ WorkerFilter \/ WorkerApply \/ WorkerCheck \/ WorkerExit

DirectStep ==
    \/ \E ids \in (SUBSET Creds) \ {{}}, force \in BOOLEAN : DirectRead(force, ids)
    \/ DirectFilter \/ DirectApply

Next ==
    \/ \E l \in Own : OwnStep(l)
    \/ ForeignStep
    \/ \E k \in Callers : CallerStep(k)
    \/ WorkerStep
    \/ WorkerRecheck
    \/ DirectStep

Spec == Init /\ [][Next]_vars

\* A spawned worker runs, and reads it retries succeed in the end; a call once
\* made goes on; selections keep being made and are more than the minimum
\* interval apart often enough; a provisional lease is answered and a release
\* that has begun is finished, the retries of the dispatcher included; a
\* direct read that has its answer merges it.
Fairness ==
    /\ WF_vars(WorkerStep) /\ SF_vars(WorkerRead) /\ WF_vars(WorkerRecheck)
    /\ \A k \in Callers :
          WF_vars(Enter(k)) /\ SF_vars(EnterDue(k)) /\ WF_vars(Spawn(k))
    /\ \A l \in Own :
          /\ WF_vars(Granted(l) \/ Refused(l))
          /\ WF_vars(RemoveEntry(l)) /\ WF_vars(ReleasedInRedis(l))
    /\ WF_vars(DirectFilter) /\ WF_vars(DirectApply)

FairSpec == Spec /\ Fairness

-----------------------------------------------------------------------------
(* Properties.                                                             *)

\* Every variable has its type, and a lease of this process is in Redis
\* exactly while it is granted and its release has not got there.
TypeOK ==
    /\ own \in [Own -> {"unused", "local", "held", "marked", "removed", "gone"}]
    /\ redis \cap Own = {l \in Own : own[l] \in {"held", "marked", "removed"}}
    /\ used \subseteq Foreign /\ redis \cap Foreign \subseteq used
    /\ events \subseteq Creds /\ dirty \subseteq Creds /\ astray \subseteq Creds
    /\ view \subseteq Lease /\ tombs \subseteq Own
    /\ pending \in BOOLEAN
    /\ worker \in {"none", "start", "collect", "read", "filter", "apply", "check", "exit"}
    /\ job \in [full : BOOLEAN, again : BOOLEAN, ids : SUBSET Creds, snap : SUBSET Lease]
    /\ leaving \in 0 .. MaxLeaving
    /\ caller \in [Callers -> {"idle", "enter", "cas"}]
    /\ direct \in [at : {"idle", "filter", "apply"}, force : BOOLEAN,
                   ids : SUBSET Creds, snap : SUBSET Lease]

\* What the entries call locally owned is exactly what this process holds,
\* whatever snapshots are merged in whatever order: a snapshot older than the
\* reservation does not evict it (the gate for local contenders would let too
\* many through), and one that brings a released lease back does not bring it
\* back as local, where no later snapshot would remove it.
OwnedIsExact == owned = OwnedNow /\ owned \subseteq view

\* A mark is never left with nobody to act on it: while an account is marked
\* or a full sync is requested, a worker runs, one is about to look again, or
\* a caller is still on its way to the exchange.
MarkIsNoticed ==
    Marked => worker # "none" \/ leaving > 0 \/ \E k \in Callers : caller[k] # "idle"

\* When no event about an account is under way, no mark of it is left, no sync
\* of it is running and no event was lost and no direct read merged since the
\* worker last read it, the entries show no lease of another instance that has
\* already left Redis: no release is forgotten by the worker's own races.
Settled(c) ==
    /\ c \notin events \cup dirty \cup astray
    /\ ~pending
    /\ worker \in {"read", "filter", "apply"} => c \notin job.ids
QuietViewIsFresh ==
    \A c \in Creds : Settled(c) => view \cap Foreign \cap Of({c}) \subseteq redis

\* Once leases stop changing, the entries come to agree with Redis and stay
\* so, whatever events were lost, marks a forced read threw away, older
\* snapshots it merged, or released leases a snapshot brought back.
ViewConverges == <>[](view = redis)
=============================================================================
