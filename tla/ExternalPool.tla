----------------------------- MODULE ExternalPool -----------------------------
(***************************************************************************)
(* The coordination of external-pool leases over Redis and PostgreSQL.     *)
(*                                                                         *)
(* The leases of all processes are listed in Redis, which may restart and  *)
(* lose the list while the requests go on.  A coordination epoch, whose    *)
(* authority is a row in PostgreSQL, fences them: a process that finds the *)
(* Redis run id or the epoch in Redis changed writes a new epoch to the    *)
(* row and installs it in Redis with a recovery barrier, during which no   *)
(* lease is granted; the heartbeats of leases of another epoch find out,   *)
(* and their requests are aborted.                                         *)
(*                                                                         *)
(* Time is abstract.  The barrier is a key with a fixed life (35 s), long  *)
(* enough for one heartbeat of every lease (every 30 s, 2 s for the call); *)
(* a heartbeat that is answered meanwhile finds its lease lost.  But one   *)
(* that fails is only counted, and tried again for 358 s, so the barrier   *)
(* does not wait for a process that is cut off from Redis, or that waits   *)
(* for a lock somebody else left behind.  A heartbeat gives up before the  *)
(* score of its lease is too old (360 s): no lease grows stale in Redis    *)
(* while its request runs.                                                 *)
(*                                                                         *)
(* Two sets of leases are history, for the properties: the ones granted in *)
(* the probe window, and the ones whose heartbeats a barrier has outrun.   *)
(*                                                                         *)
(* Left out: cooldowns and leases that a restart brings back after their   *)
(* release (they only refuse), the release permits, and the leases of the  *)
(* degraded fallback, which are bounded per process.                       *)
(***************************************************************************)
EXTENDS Naturals, FiniteSets

CONSTANTS
    Instances,      \* processes; one that is killed starts again
    Leases,         \* lease ids, each used once
    OwnerOf,        \* the process that asks for a lease
    PoolOf,         \* the pool it is for
    PoolLimit,      \* maxConcurrentRequests of a pool
    GlobalLimit,    \* externalPoolGlobalMaxConcurrentRequests, 0 = none
    Faulty,         \* processes whose calls may fail, be late or be cancelled
    MaxRestarts,    \* bound: restarts of Redis
    MaxFaults,      \* bound: failed or cancelled calls, and crashes
    None            \* no process

ASSUME PoolAssumption ==
    /\ IsFiniteSet(Leases)
    /\ OwnerOf \in [Leases -> Instances]
    /\ PoolLimit \in Nat \ {0} /\ GlobalLimit \in Nat
    /\ Faulty \subseteq Instances
    /\ MaxRestarts \in Nat /\ MaxFaults \in Nat
    /\ None \notin Instances

VARIABLES
    \* Redis
    run,            \* its run id
    epoch,          \* the epoch key, 0 = absent
    recovering,     \* is the recovery key there ?
    reg, greg,      \* leases in the sets of their pool / in the global sets
    stale,          \* leases whose last_seen score is past the maximal age
    tomb,           \* leases with a released tombstone
    late,           \* install commands whose sender has given up
    \* PostgreSQL
    rowRun, rowEpoch,   \* the epoch row, 0 = no row
    lock,           \* the process that holds the advisory lock
    leak,           \* the process with the lock on an idle pooled connection
    orphan,         \* processes with a statement that waits for it, abandoned
    fresh,          \* the next epoch (a random UUID in the code)
    \* processes
    cEpoch, cRun,   \* the cached epoch and run id, 0 = none
    mode,           \* use of the cache: cached, due (probe) or required (check)
    rc,             \* where the reconciliation is
    seen,           \* the run id it has read
    \* leases
    st,             \* idle, asking, active, lost, ended
    tag,            \* the epoch it was asked for under
    cmd,            \* the acquire call: none, wire, granted, refused, mismatch
    intent,         \* its release intent: none, pending, confirmed
    on,             \* the run id its process had probed when it asked
    blind,          \* leases granted by a Redis their process had not probed
    missed,         \* leases held under another epoch as a barrier ended
    faults          \* failed or cancelled calls, and crashes so far

guardVars == <<run, epoch, recovering, late>>
regVars   == <<reg, greg, stale, tomb>>
pgVars    == <<rowRun, rowEpoch, lock, leak, orphan, fresh>>
cacheVars == <<cEpoch, cRun, mode>>
rcVars    == <<rc, seen>>
pastVars  == <<on, blind, missed>>
leaseVars == <<st, tag, cmd, intent, pastVars>>
vars == <<guardVars, regVars, pgVars, cacheVars, rcVars, leaseVars, faults>>

Init ==
    /\ run = 1 /\ epoch = 0 /\ recovering = FALSE /\ late = {}
    /\ reg = {} /\ greg = {} /\ stale = {} /\ tomb = {}
    /\ rowRun = 0 /\ rowEpoch = 0 /\ lock = None /\ leak = None
    /\ orphan = {} /\ fresh = 1
    /\ cEpoch = [i \in Instances |-> 0] /\ cRun = [i \in Instances |-> 0]
    /\ mode = [i \in Instances |-> "required"]
    /\ rc = [i \in Instances |-> "no"] /\ seen = [i \in Instances |-> 0]
    /\ st = [l \in Leases |-> "idle"] /\ tag = [l \in Leases |-> 0]
    /\ cmd = [l \in Leases |-> "none"] /\ intent = [l \in Leases |-> "none"]
    /\ on = [l \in Leases |-> 0] /\ blind = {} /\ missed = {} /\ faults = 0

-----------------------------------------------------------------------------
InPool(p, S) == {l \in S : PoolOf[l] = p}

\* The upstream request runs, until it notices that its lease is lost.
Running == {l \in Leases : st[l] \in {"active", "lost"}}

\* Those whose lease is not known to be lost.
Held == {l \in Leases : st[l] = "active"}

\* And those whose grant is on its way back.
Promised == Held \cup {l \in Leases : st[l] = "asking" /\ cmd[l] = "granted"}

\* What is held under another epoch than the one in Redis.
Fenced == {l \in Promised : tag[l] # epoch}

\* The heartbeats of the process do not get through: its calls fail, or it
\* waits for the advisory lock that another process has left on a connection.
Hampered(i) == i \in Faulty \/ (rc[i] = "lock" /\ leak \notin {None, i})

\* Epochs that somebody remembers; an older one is as good as none.
Remembered == {cEpoch[i] : i \in Instances} \cup {tag[l] : l \in Leases}

Require(i) == mode' = [mode EXCEPT ![i] = "required"]

\* record_external_pool_coordinator_probe.
Record(i, r, e) ==
    /\ cRun' = [cRun EXCEPT ![i] = r]
    /\ cEpoch' = [cEpoch EXCEPT ![i] = e]
    /\ mode' = [mode EXCEPT ![i] = "cached"]

Phase(i, p) == rc' = [rc EXCEPT ![i] = p]

\* The reconciliation returns; what it has read is gone.
Done(i) == Phase(i, "no") /\ seen' = [seen EXCEPT ![i] = 0]

-----------------------------------------------------------------------------
(* Redis.                                                                  *)

\* It restarts with what it has saved: the data of now, of some time ago or
\* none.  The leases taken since then are gone.
Restart ==
    /\ run < MaxRestarts + 1
    /\ run' = run + 1
    /\ epoch' \in {0, epoch} \cup Remembered
    /\ recovering' \in {FALSE, recovering}
    /\ \E gone \in SUBSET Leases :
        /\ reg' = reg \ gone /\ greg' = greg \ gone
        /\ stale' = stale \ gone /\ tomb' = tomb \ gone
    /\ UNCHANGED <<late, pgVars, cacheVars, rcVars, leaseVars, faults>>

\* The recovery key expires.  By then every acquire call has returned, and a
\* heartbeat of every lease was answered or has failed.
RecoveryEnds ==
    /\ recovering
    /\ \A l \in Fenced : st[l] = "active" /\ Hampered(OwnerOf[l])
    /\ recovering' = FALSE
    /\ missed' = missed \cup Fenced
    /\ UNCHANGED <<run, epoch, late, regVars, pgVars, cacheVars, rcVars, st, tag, cmd, intent,
                   on, blind, faults>>

\* A lease that nobody touches reaches the maximal age.
Age(l) ==
    /\ l \in (reg \cup greg) \ stale
    /\ st[l] \in {"lost", "ended"}
    /\ stale' = stale \cup {l}
    /\ UNCHANGED <<guardVars, reg, greg, tomb, pgVars, cacheVars, rcVars, leaseVars, faults>>

\* A tombstone expires; no acquire call is on the way that long.
TombstoneExpires(l) ==
    /\ l \in tomb /\ cmd[l] # "wire"
    /\ tomb' = tomb \ {l}
    /\ UNCHANGED <<guardVars, reg, greg, stale, pgVars, cacheVars, rcVars, leaseVars, faults>>

-----------------------------------------------------------------------------
(* external_pool_coordination_epoch.                                       *)

\* A coordinator call fails (also as Redis restarts), or a snapshot finds
\* another epoch.
Distrust(i) ==
    /\ mode[i] # "required"
    /\ i \in Faulty \/ cEpoch[i] # epoch \/ cRun[i] # run
    /\ Require(i)
    /\ UNCHANGED <<guardVars, regVars, pgVars, cEpoch, cRun, rcVars, leaseVars, faults>>

\* The probe interval has passed, or a check is required: the run id is read.
\* An unchanged one is enough unless a check is required.
Probe(i) ==
    /\ rc[i] = "no"
    /\ IF cEpoch[i] # 0 /\ cRun[i] = run
       THEN /\ mode[i] = "required" /\ Phase(i, "verify")
            /\ UNCHANGED mode
       ELSE /\ Phase(i, "lock")
            /\ mode' = [mode EXCEPT ![i] = IF @ = "cached" THEN "due" ELSE @]
    /\ UNCHANGED <<guardVars, regVars, pgVars, cEpoch, cRun, seen, leaseVars, faults>>

\* The guard in Redis is checked against the cached epoch.
Verify(i) ==
    /\ rc[i] = "verify"
    /\ IF epoch = cEpoch[i] THEN Record(i, cRun[i], cEpoch[i]) /\ Phase(i, "no")
       ELSE Phase(i, "lock") /\ UNCHANGED cacheVars
    /\ UNCHANGED <<guardVars, regVars, pgVars, seen, leaseVars, faults>>

-----------------------------------------------------------------------------
(* reconcile_external_pool_coordinator_guard.                              *)

\* Phases in which the process holds the lock.
Locked == {"run", "check", "write", "install", "installFirst", "confirm"}

\* pg_advisory_lock.  A session that holds the lock gets it again.
Lock(i) ==
    /\ rc[i] = "lock"
    /\ lock = None /\ leak \in {None, i}
    /\ lock' = i
    /\ Phase(i, "run")
    /\ UNCHANGED <<guardVars, regVars, rowRun, rowEpoch, leak, orphan, fresh, cacheVars,
                   seen, leaseVars, faults>>

\* The run id is read again, and the row, which does not change meanwhile.
ReadRow(i) ==
    /\ rc[i] = "run"
    /\ seen' = [seen EXCEPT ![i] = run]
    /\ Phase(i, IF rowEpoch # 0 /\ rowRun = run THEN "check" ELSE "write")
    /\ UNCHANGED <<guardVars, regVars, pgVars, cacheVars, leaseVars, faults>>

\* Mutant: the epoch of the row is taken whatever Redis has.
CheckNothing(i) ==
    /\ rc[i] = "check"
    /\ Record(i, seen[i], rowEpoch)
    /\ lock' = None
    /\ Done(i)
    /\ UNCHANGED <<guardVars, regVars, rowRun, rowEpoch, leak, orphan, fresh, leaseVars, faults>>

\* The row is of this Redis: its epoch is taken if Redis has it too.
CheckGuard(i) ==
    /\ rc[i] = "check"
    /\ IF epoch = rowEpoch
       THEN /\ Record(i, seen[i], rowEpoch)
            /\ lock' = None
            /\ Done(i)
       ELSE Phase(i, "write") /\ UNCHANGED <<cacheVars, lock, seen>>
    /\ UNCHANGED <<guardVars, regVars, rowRun, rowEpoch, leak, orphan, fresh, leaseVars, faults>>

\* Mutant: after a restart the old epoch is installed again.
WriteRunOnly(i) ==
    /\ rc[i] = "write"
    /\ rowRun' = seen[i] /\ fresh' = fresh + 1
    /\ rowEpoch' = IF rowEpoch = 0 THEN fresh ELSE rowEpoch
    /\ Phase(i, IF rowEpoch = 0 THEN "installFirst" ELSE "install")
    /\ UNCHANGED <<guardVars, regVars, lock, leak, orphan, cacheVars, seen, leaseVars, faults>>

\* Mutant: the epoch in use is drawn again.
WriteSameEpoch(i) ==
    /\ rc[i] = "write"
    /\ rowRun' = seen[i] /\ rowEpoch' = fresh /\ fresh' = fresh
    /\ Phase(i, IF rowEpoch = 0 THEN "installFirst" ELSE "install")
    /\ UNCHANGED <<guardVars, regVars, lock, leak, orphan, cacheVars, seen, leaseVars, faults>>

\* A new epoch is written to the row.
WriteRow(i) ==
    /\ rc[i] = "write"
    /\ rowRun' = seen[i] /\ rowEpoch' = fresh /\ fresh' = fresh + 1
    /\ Phase(i, IF rowEpoch = 0 THEN "installFirst" ELSE "install")
    /\ UNCHANGED <<guardVars, regVars, lock, leak, orphan, cacheVars, seen, leaseVars, faults>>

\* Mutant: the guard is installed without a barrier.
InstallOpen(e, barrier) == epoch' = e /\ recovering' = FALSE

\* The script of install_external_pool_coordinator_guard.
InstallScript(e, barrier) == epoch' = e /\ recovering' = barrier

Install(i) ==
    /\ rc[i] \in {"install", "installFirst"}
    /\ InstallScript(rowEpoch, rc[i] = "install")
    /\ Phase(i, "confirm")
    /\ UNCHANGED <<run, late, regVars, pgVars, cacheVars, seen, leaseVars, faults>>

\* The run id is read once more before the epoch is used.
Confirm(i) ==
    /\ rc[i] = "confirm"
    /\ IF run = seen[i] THEN Record(i, seen[i], rowEpoch)
       ELSE Require(i) /\ UNCHANGED <<cEpoch, cRun>>
    /\ lock' = None
    /\ Done(i)
    /\ UNCHANGED <<guardVars, regVars, rowRun, rowEpoch, leak, orphan, fresh, leaseVars, faults>>

\* An install command that was sent is executed all the same, now or never.
Left(i) ==
    CASE rc[i] = "install"      -> {<<rowEpoch, TRUE>>}
      [] rc[i] = "installFirst" -> {<<rowEpoch, FALSE>>}
      [] OTHER                  -> {}

\* A call of the reconciliation fails: unlock, and a check is required.
Fail(i) ==
    /\ i \in Faulty /\ faults < MaxFaults
    /\ rc[i] \in Locked
    /\ lock' = None
    /\ late' = late \cup Left(i)
    /\ Require(i)
    /\ Done(i)
    /\ faults' = faults + 1
    /\ UNCHANGED <<run, epoch, recovering, regVars, rowRun, rowEpoch, leak, orphan, fresh,
                   cEpoch, cRun, leaseVars>>

\* The future is dropped (the heartbeat's time limit, a client that left):
\* the connection goes back to the pool with the lock, or with the statement
\* that waits for it.
Cancel(i) ==
    /\ Hampered(i) /\ faults < MaxFaults
    /\ rc[i] \in Locked \cup {"verify", "lock"}
    /\ lock' = IF lock = i THEN None ELSE lock
    /\ leak' = IF lock = i \/ (rc[i] = "lock" /\ lock = None /\ leak = None) THEN i ELSE leak
    /\ orphan' = IF rc[i] = "lock" /\ leak' # i THEN orphan \cup {i} ELSE orphan
    /\ late' = late \cup Left(i)
    /\ Done(i)
    /\ faults' = faults + 1
    /\ UNCHANGED <<run, epoch, recovering, regVars, rowRun, rowEpoch, fresh, cacheVars,
                   leaseVars>>

\* The pool closes the connection (idle, or at the end of its life time).
ConnectionCloses ==
    /\ leak # None /\ lock # leak
    /\ leak' = None
    /\ UNCHANGED <<guardVars, regVars, rowRun, rowEpoch, lock, orphan, fresh, cacheVars,
                   rcVars, leaseVars, faults>>

\* The abandoned statement gets the lock, which nobody will give back.
OrphanLocks(i) ==
    /\ i \in orphan /\ lock = None /\ leak = None
    /\ leak' = i
    /\ orphan' = orphan \ {i}
    /\ UNCHANGED <<guardVars, regVars, rowRun, rowEpoch, lock, fresh, cacheVars, rcVars,
                   leaseVars, faults>>

LateInstall(c) ==
    /\ c \in late
    /\ late' = late \ {c}
    /\ InstallScript(c[1], c[2])
    /\ UNCHANGED <<run, regVars, pgVars, cacheVars, rcVars, leaseVars, faults>>

-----------------------------------------------------------------------------
(* Leases.                                                                 *)

Set(l, s) == st' = [st EXCEPT ![l] = s]

\* The lease objects are gone, and what they knew.
Forget(S) ==
    /\ tag' = [l \in Leases |-> IF l \in S THEN 0 ELSE tag[l]]
    /\ on' = [l \in Leases |-> IF l \in S THEN 0 ELSE on[l]]
    /\ blind' = blind \ S /\ missed' = missed \ S

\* The acquire call is sent with the cached epoch.
Ask(l) ==
    LET i == OwnerOf[l]
    IN  /\ st[l] = "idle" /\ mode[i] = "cached"
        /\ Set(l, "asking")
        /\ tag' = [tag EXCEPT ![l] = cEpoch[i]]
        /\ on' = [on EXCEPT ![l] = cRun[i]]
        /\ cmd' = [cmd EXCEPT ![l] = "wire"]
        /\ UNCHANGED <<guardVars, regVars, pgVars, cacheVars, rcVars, intent, blind, missed, faults>>

\* What the script leaves of the sets, in which it looks for room.
PoolLeft(l) == {m \in reg : PoolOf[m] = PoolOf[l] => m \notin stale}

GlobalLeft == greg \ stale

Room(l) ==
    /\ Cardinality(InPool(PoolOf[l], PoolLeft(l))) < PoolLimit
    /\ GlobalLimit > 0 => Cardinality(GlobalLeft) < GlobalLimit

Grant(l) == l \notin tomb /\ Room(l)

\* Mutant: the script does not compare the epochs.
AcquireAnyEpoch(l) ==
    /\ IF recovering
       THEN cmd' = [cmd EXCEPT ![l] = IF st[l] = "asking" THEN "refused" ELSE "none"]
            /\ UNCHANGED <<reg, greg, stale>>
       ELSE /\ reg' = IF Grant(l) THEN PoolLeft(l) \cup {l} ELSE PoolLeft(l)
            /\ greg' = IF Grant(l) THEN GlobalLeft \cup {l} ELSE GlobalLeft
            /\ stale' = stale \cap (reg' \cup greg')
            /\ cmd' = [cmd EXCEPT ![l] = IF st[l] # "asking" THEN "none"
                                         ELSE IF Grant(l) THEN "granted" ELSE "refused"]

\* The script of acquire_external_pool_lease; nobody reads a late answer.
AcquireScript(l) ==
    LET answer == IF tag[l] # epoch THEN "mismatch"
                  ELSE IF ~recovering /\ Grant(l) THEN "granted" ELSE "refused"
    IN  /\ cmd' = [cmd EXCEPT ![l] = IF st[l] = "asking" THEN answer ELSE "none"]
        /\ IF tag[l] = epoch /\ ~recovering
           THEN /\ reg' = IF Grant(l) THEN PoolLeft(l) \cup {l} ELSE PoolLeft(l)
                /\ greg' = IF Grant(l) THEN GlobalLeft \cup {l} ELSE GlobalLeft
                /\ stale' = stale \cap (reg' \cup greg')
           ELSE UNCHANGED <<reg, greg, stale>>

Acquire(l) ==
    /\ cmd[l] = "wire"
    /\ AcquireScript(l)
    /\ blind' = IF cmd'[l] = "granted" /\ on[l] # run THEN blind \cup {l} ELSE blind
    /\ UNCHANGED <<guardVars, tomb, pgVars, cacheVars, rcVars, st, tag, intent, on, missed, faults>>

\* ExternalPoolLease::confirm: the request is sent, the heartbeat starts.
Acquired(l) ==
    /\ st[l] = "asking" /\ cmd[l] = "granted"
    /\ Set(l, "active")
    /\ cmd' = [cmd EXCEPT ![l] = "none"]
    /\ UNCHANGED <<guardVars, regVars, pgVars, cacheVars, rcVars, tag, intent, pastVars, faults>>

\* disarm; after another epoch was found, the retry checks the guard first,
\* except that there is no further retry after the third.
Refused(l) ==
    /\ st[l] = "asking" /\ cmd[l] \in {"refused", "mismatch"}
    /\ Set(l, "ended")
    /\ \/ UNCHANGED mode
       \/ cmd[l] = "mismatch" /\ Require(OwnerOf[l])
    /\ cmd' = [cmd EXCEPT ![l] = "none"]
    /\ Forget({l})
    /\ UNCHANGED <<guardVars, regVars, pgVars, cEpoch, cRun, rcVars, intent, faults>>

\* Error, time limit or cancellation: the pending lease is dropped, while
\* the call may still be on its way.
Unknown(l) ==
    /\ OwnerOf[l] \in Faulty /\ faults < MaxFaults
    /\ st[l] = "asking"
    /\ Set(l, "ended")
    /\ intent' = [intent EXCEPT ![l] = "pending"]
    /\ cmd' \in {cmd, [cmd EXCEPT ![l] = "none"]}
    /\ cmd'[l] \in {"none", "wire"}
    /\ mode' \in {mode, [mode EXCEPT ![OwnerOf[l]] = "required"]}
    /\ Forget({m \in {l} : cmd'[m] = "none"})
    /\ faults' = faults + 1
    /\ UNCHANGED <<guardVars, regVars, pgVars, cEpoch, cRun, rcVars>>

\* The request ends, or is aborted as its lease is lost.
Drop(l) ==
    /\ l \in Running
    /\ Set(l, "ended")
    /\ intent' = [intent EXCEPT ![l] = "confirmed"]
    /\ Forget({l})
    /\ UNCHANGED <<guardVars, regVars, pgVars, cacheVars, rcVars, cmd, faults>>

\* The release dispatcher; an intent whose answer was lost is tried again.
Release(l) ==
    /\ intent[l] # "none"
    /\ reg' = reg \ {l} /\ greg' = greg \ {l} /\ stale' = stale \ {l}
    /\ tomb' = IF intent[l] = "pending" THEN tomb \cup {l} ELSE tomb
    /\ intent' \in {[intent EXCEPT ![l] = "none"]}
                     \cup (IF OwnerOf[l] \in Faulty THEN {intent} ELSE {})
    /\ UNCHANGED <<guardVars, pgVars, cacheVars, rcVars, st, tag, cmd, pastVars, faults>>

\* The answer of touch_external_pool_lease.
Touched(l) == tag[l] = epoch /\ ~recovering /\ l \in reg \cap greg

\* A heartbeat that is answered.
Touch(l) ==
    LET i == OwnerOf[l]
    IN  /\ st[l] = "active" /\ mode[i] = "cached"
        /\ ~(cEpoch[i] = tag[l] /\ Touched(l))
        /\ Set(l, "lost")
        /\ UNCHANGED <<guardVars, regVars, pgVars, cacheVars, rcVars, tag, cmd, intent, pastVars, faults>>

\* No heartbeat of the lease was answered for long.
LossDeadline(l) ==
    /\ Hampered(OwnerOf[l])
    /\ st[l] = "active"
    /\ Set(l, "lost")
    /\ UNCHANGED <<guardVars, regVars, pgVars, cacheVars, rcVars, tag, cmd, intent, pastVars, faults>>

\* A process is killed and starts again; its calls may still be on the way.
Crash(i) ==
    LET mine(l) == OwnerOf[l] = i /\ st[l] # "idle"
    IN  /\ i \in Faulty /\ faults < MaxFaults
        /\ faults' = faults + 1
        /\ cEpoch' = [cEpoch EXCEPT ![i] = 0] /\ cRun' = [cRun EXCEPT ![i] = 0]
        /\ Require(i)
        /\ late' = late \cup Left(i)
        /\ Done(i)
        /\ lock' = IF lock = i THEN None ELSE lock
        /\ leak' = IF leak = i THEN None ELSE leak
        /\ orphan' = orphan \ {i}
        /\ st' = [l \in Leases |-> IF mine(l) THEN "ended" ELSE st[l]]
        /\ cmd' = [l \in Leases |-> IF mine(l) /\ cmd[l] # "wire" THEN "none" ELSE cmd[l]]
        /\ intent' = [l \in Leases |-> IF mine(l) THEN "none" ELSE intent[l]]
        /\ Forget({l \in Leases : mine(l) /\ cmd[l] # "wire"})
        /\ UNCHANGED <<run, epoch, recovering, regVars, rowRun, rowEpoch, fresh>>

-----------------------------------------------------------------------------
Reconcile(i) ==
    \/ Probe(i) \/ Verify(i) \/ Lock(i) \/ ReadRow(i) \/ CheckGuard(i)
    \/ WriteRow(i) \/ Install(i) \/ Confirm(i)

LeaseStep(l) ==
    \/ Ask(l) \/ Acquire(l) \/ Acquired(l) \/ Refused(l) \/ Unknown(l)
    \/ Drop(l) \/ Release(l) \/ Touch(l) \/ LossDeadline(l)
    \/ Age(l) \/ TombstoneExpires(l)

Next ==
    \/ Restart \/ RecoveryEnds \/ ConnectionCloses
    \/ \E c \in late : LateInstall(c)
    \/ \E i \in Instances :
           Distrust(i) \/ Reconcile(i) \/ Fail(i) \/ Cancel(i) \/ OrphanLocks(i)
           \/ Crash(i)
    \/ \E l \in Leases : LeaseStep(l)

Spec == Init /\ [][Next]_vars

\* Requests keep coming, and their snapshots find another epoch; the probe
\* interval passes; calls and requests end, and releases are sent; the pool
\* closes idle connections; the barrier expires.
Fairness ==
    /\ WF_vars(RecoveryEnds) /\ WF_vars(ConnectionCloses)
    /\ \A i \in Instances :
        /\ WF_vars(Reconcile(i))
        /\ WF_vars(cEpoch[i] # epoch /\ Distrust(i))
        /\ SF_vars(Lock(i))
    /\ \A l \in Leases :
        /\ WF_vars(Acquire(l)) /\ WF_vars(Acquired(l)) /\ WF_vars(Refused(l))
        /\ WF_vars(Drop(l)) /\ WF_vars(Release(l))

FairSpec == Spec /\ Fairness

-----------------------------------------------------------------------------
(* Properties.                                                             *)

TypeOK ==
    /\ run \in Nat /\ epoch \in Nat /\ fresh \in Nat /\ faults \in Nat
    /\ recovering \in BOOLEAN
    /\ reg \subseteq Leases /\ greg \subseteq Leases /\ tomb \subseteq Leases
    /\ stale \subseteq reg \cup greg
    /\ late \subseteq Nat \X BOOLEAN
    /\ rowRun \in Nat /\ rowEpoch \in 0..(fresh - 1)
    /\ lock \in Instances \cup {None} /\ leak \in Instances \cup {None}
    /\ orphan \subseteq Instances
    /\ cEpoch \in [Instances -> Nat] /\ cRun \in [Instances -> Nat]
    /\ mode \in [Instances -> {"cached", "due", "required"}]
    /\ rc \in [Instances -> Locked \cup {"no", "verify", "lock"}]
    /\ seen \in [Instances -> Nat]
    /\ st \in [Leases -> {"idle", "asking", "active", "lost", "ended"}]
    /\ tag \in [Leases -> Nat]
    /\ cmd \in [Leases -> {"none", "wire", "granted", "refused", "mismatch"}]
    /\ intent \in [Leases -> {"none", "pending", "confirmed"}]
    /\ on \in [Leases -> Nat]
    /\ blind \subseteq Leases /\ missed \subseteq Leases

\* Leases of processes that knew which Redis granted them, and whose
\* heartbeats no barrier has outrun.
Sound(S) == S \ (blind \cup missed)

\* The epochs fence the requests: two of them are held upstream under
\* different epochs only if one was granted in the probe window of a restart
\* (5 s), or the heartbeats of the older one have failed for a whole barrier.
OneEpochRuns == \A l, m \in Sound(Held) : tag[l] = tag[m]

\* A process that has probed this Redis, and has its epoch, may be granted a
\* lease as soon as no barrier is up.
MayBeGranted(i) ==
    mode[i] = "cached" /\ cRun[i] = run /\ cEpoch[i] = epoch /\ ~recovering

\* What the acquire script counts for such a process is all there is: every
\* request that is held, of any process, is of its epoch and in the sets,
\* whatever Redis has lost before; but for the ones a barrier has outrun.
RunningIsCounted ==
    (\E i \in Instances : MayBeGranted(i))
        => \A l \in Held \ missed : tag[l] = epoch /\ l \in (reg \cap greg) \ stale

\* The pool keeps its limits, whatever restarts, is lost, crashes or is late,
\* but for the leases of a probe window and those a barrier has outrun.
Bounded == INSTANCE BoundedPool WITH
    running <- Sound(Held),
    ended <- {l \in Leases : st[l] \in {"lost", "ended"}} \cup (Held \ Sound(Held))

KeepsLimits == Bounded!Spec

\* external_pool/tests.rs, "new lease must not precede old upstream fencing":
\* no process whose own calls succeed holds a request of an older epoch next
\* to one of a newer epoch.
FencedFirst ==
    \A l, m \in Held : OwnerOf[l] \notin Faulty => tag[l] >= tag[m]

\* Every process gets back to a guard of the Redis that runs, under which
\* leases are granted, also when a cancelled reconciliation left the lock on a
\* pooled connection.
GuardRestored ==
    \A i \in Instances :
        []<>(cRun[i] = run /\ cEpoch[i] = epoch /\ epoch # 0 /\ ~recovering)

=============================================================================
