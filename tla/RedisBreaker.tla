----------------------------- MODULE RedisBreaker -----------------------------
(***************************************************************************)
(* The circuit breaker in front of the scheduler's Redis operations        *)
(* (SchedulerRedisBreaker, one for capacity, one for snapshots, one for    *)
(* affinity; Kind says which).                                             *)
(*                                                                         *)
(* An operation reads phase and failure generation under the lock, waits   *)
(* for a permit outside it, looks again, runs, and reports its result, by  *)
(* which time other operations may have opened, probed or closed the       *)
(* breaker.  It may be dropped at every await.  Every read-modify-write of *)
(* the breaker's lock or of an atomic is one step here.                    *)
(*                                                                         *)
(* Time is abstract: "open" becomes "due" when the back-off has passed, so *)
(* its length (doubling, jitter, two tolerated timeouts left out) does not *)
(* show.  silent is history.                                               *)
(***************************************************************************)
EXTENDS Naturals, FiniteSets

CONSTANTS
    Ops,                \* operations; one is begun again when it has ended
    Kind,               \* SchedulerRedisBreakerKind
    MaxInFlight,        \* permits of operation_semaphore
    FailuresToOpen,     \* SCHEDULER_REDIS_TIMEOUT_FAILURES_TO_OPEN
    MaxExcused,         \* SCHEDULER_REDIS_MAX_CONSECUTIVE_EXCUSED_TIMEOUTS
    MaxGeneration       \* bound: how often the breaker opens

ASSUME BreakerAssumption ==
    /\ IsFiniteSet(Ops)
    /\ Kind \in {"capacity", "snapshot", "affinity"}
    /\ MaxInFlight \in Nat \ {0} /\ FailuresToOpen \in Nat \ {0}
    /\ MaxExcused \in Nat /\ MaxGeneration \in Nat

VARIABLES
    phase,      \* closed, open, due (open, back-off passed) or half
    generation, \* failure_generation
    failures,   \* consecutive_failures
    excused,    \* consecutive_excused_timeouts, counted up to MaxExcused
    st,         \* where an operation is
    tag,        \* the generation it was admitted in
    probe,      \* is it a recovery probe ?
    silent      \* history: timeouts that changed a counter since an answer

opVars == <<st, tag, probe>>
vars   == <<phase, generation, failures, excused, opVars, silent>>

-----------------------------------------------------------------------------
Init ==
    /\ phase = "closed" /\ generation = 0 /\ failures = 0 /\ excused = 0
    /\ st = [o \in Ops |-> "idle"]
    /\ tag = [o \in Ops |-> 0]
    /\ probe = [o \in Ops |-> FALSE]
    /\ silent = 0

Goto(o, next) == st' = [st EXCEPT ![o] = next]

\* An admission that is not completed yet.
Live(o) == st[o] # "idle"

\* An admission holds its permit until it is dropped.
Permits == {o \in Ops : st[o] \in {"running", "answered", "timedOut", "erred"}}

\* The second look of begin_until.
StillCurrent(o) ==
    tag[o] = generation /\ phase = (IF probe[o] THEN "half" ELSE "closed")

\* Mutant: a recovery probe does not leave the due phase.
BeginManyProbes(o) ==
    /\ st[o] = "idle"
    /\ \/ phase = "closed" /\ probe' = [probe EXCEPT ![o] = FALSE]
       \/ phase = "due" /\ probe' = [probe EXCEPT ![o] = TRUE]
    /\ tag' = [tag EXCEPT ![o] = generation]
    /\ Goto(o, "waiting")
    /\ UNCHANGED <<phase, generation, failures, excused, silent>>

\* begin_until, up to the semaphore.  Open and half-open refuse.
Begin(o) ==
    /\ st[o] = "idle"
    /\ \/ /\ phase = "closed"
          /\ probe' = [probe EXCEPT ![o] = FALSE] /\ UNCHANGED phase
       \/ /\ phase = "due" /\ phase' = "half"
          /\ probe' = [probe EXCEPT ![o] = TRUE]
    /\ tag' = [tag EXCEPT ![o] = generation]
    /\ Goto(o, "waiting")
    /\ UNCHANGED <<generation, failures, excused, silent>>

\* begin_until has the permit.  What is not current any more is completed
\* without a report.
Admit(o) ==
    /\ st[o] = "waiting"
    /\ Cardinality(Permits) < MaxInFlight
    /\ Goto(o, IF StillCurrent(o) THEN "running" ELSE "idle")
    /\ UNCHANGED <<phase, generation, failures, excused, tag, probe, silent>>

\* Mutant: dropping a probe leaves the breaker half-open.
DropWithoutCancel(o) ==
    /\ st[o] \in {"waiting", "running"}
    /\ Goto(o, "idle")
    /\ UNCHANGED <<phase, generation, failures, excused, tag, probe, silent>>

\* The admission is dropped: no permit before the deadline, or the caller's
\* future was cancelled.  cancel_probe opens the breaker again.
Drop(o) ==
    /\ st[o] \in {"waiting", "running"}
    /\ phase' = IF probe[o] /\ StillCurrent(o) THEN "open" ELSE phase
    /\ Goto(o, "idle")
    /\ UNCHANGED <<generation, failures, excused, tag, probe, silent>>

\* complete_success before the lock.
Answered(o) ==
    /\ st[o] = "running"
    /\ excused' = 0 /\ silent' = 0
    /\ Goto(o, "answered")
    /\ UNCHANGED <<phase, generation, failures, tag, probe>>

\* complete_success under the lock.  A success of an older generation, or
\* of another phase, is ignored.
CompleteSuccess(o) ==
    /\ st[o] = "answered"
    /\ IF StillCurrent(o) THEN phase' = "closed" /\ failures' = 0 /\ silent' = 0
       ELSE UNCHANGED <<phase, failures, silent>>
    /\ Goto(o, "idle")
    /\ UNCHANGED <<generation, excused, tag, probe>>

\* Mutant: there is no limit to excuses.
AlwaysExcused(o) ==
    /\ st[o] = "running" /\ ~probe[o] /\ generation < MaxGeneration
    /\ excused' = excused + 1 /\ silent' = silent + 1 /\ Goto(o, "idle")
    /\ UNCHANGED <<phase, generation, failures, tag, probe>>

\* complete_failure before the lock, for a timeout of an operation that is
\* no probe, while this process runs its tasks late.
TimedOutLate(o) ==
    /\ st[o] = "running" /\ ~probe[o] /\ generation < MaxGeneration
    /\ IF excused < MaxExcused
       THEN excused' = excused + 1 /\ silent' = silent + 1 /\ Goto(o, "idle")
       ELSE UNCHANGED <<excused, silent>> /\ Goto(o, "timedOut")
    /\ UNCHANGED <<phase, generation, failures, tag, probe>>

\* complete_failure before the lock, for any other failure.
Failed(o) ==
    /\ st[o] = "running" /\ generation < MaxGeneration
    /\ \E kind \in {"timedOut", "erred"} : Goto(o, kind)
    /\ UNCHANGED <<phase, generation, failures, excused, tag, probe, silent>>

\* Failures that are counted and do not open the breaker.
Tolerated(o) ==
    /\ ~probe[o]
    /\ \/ Kind = "snapshot"
       \/ Kind = "capacity" /\ st[o] = "timedOut" /\ failures + 1 < FailuresToOpen

\* Mutant: opening does not start a new generation.
FailSameGeneration(o) ==
    /\ st[o] \in {"timedOut", "erred"}
    /\ IF tag[o] = generation
       THEN /\ failures' = failures + 1
            /\ IF Tolerated(o)
               THEN silent' = silent + 1 /\ UNCHANGED <<phase, generation>>
               ELSE silent' = 0 /\ phase' = "open" /\ UNCHANGED generation
       ELSE UNCHANGED <<failures, silent, phase, generation>>
    /\ Goto(o, "idle")
    /\ UNCHANGED <<excused, tag, probe>>

\* complete_failure under the lock.
CompleteFailure(o) ==
    /\ st[o] \in {"timedOut", "erred"}
    /\ IF tag[o] = generation
       THEN /\ failures' = failures + 1
            /\ IF Tolerated(o)
               THEN silent' = silent + 1 /\ UNCHANGED <<phase, generation>>
               ELSE silent' = 0 /\ phase' = "open" /\ generation' = generation + 1
       ELSE UNCHANGED <<failures, silent, phase, generation>>
    /\ Goto(o, "idle")
    /\ UNCHANGED <<excused, tag, probe>>

\* The back-off passes.
BackoffEnds ==
    /\ phase = "open"
    /\ phase' = "due"
    /\ UNCHANGED <<generation, failures, excused, opVars, silent>>

-----------------------------------------------------------------------------
Report(o) == CompleteSuccess(o) \/ CompleteFailure(o)

Settle(o) == Drop(o) \/ Answered(o) \/ TimedOutLate(o) \/ Failed(o)

Next ==
    \/ \E o \in Ops : Begin(o) \/ Admit(o) \/ Settle(o) \/ Report(o)
    \/ BackoffEnds

Spec == Init /\ [][Next]_vars

\* Every operation ends by its deadline, on its own or by being dropped, and
\* reports then; time passes; requests and the preflight keep using Redis.
Fairness ==
    /\ \A o \in Ops : WF_vars(Settle(o)) /\ WF_vars(Report(o))
    /\ WF_vars(BackoffEnds)
    /\ WF_vars(\E o \in Ops : Begin(o))

FairSpec == Spec /\ Fairness

-----------------------------------------------------------------------------
(* Properties.                                                             *)

TypeOK ==
    /\ phase \in {"closed", "open", "due", "half"}
    /\ generation \in Nat /\ failures \in Nat /\ silent \in Nat
    /\ excused \in 0..MaxExcused
    /\ st \in [Ops -> {"idle", "waiting", "running", "answered", "timedOut", "erred"}]
    /\ tag \in [Ops -> Nat]
    /\ probe \in [Ops -> BOOLEAN]

\* The breaker is half-open exactly while one recovery probe is under way:
\* no second probe reaches a Redis that is being tried out, and a probe that
\* is cancelled at an await never leaves the breaker half-open for good.
SingleProbe ==
    LET probes == {o \in Ops : Live(o) /\ probe[o]}
    IN  /\ (phase = "half") <=> (probes # {})
        /\ \A o, p \in probes : o = p

\* An operation that was admitted before the breaker last opened has no say
\* any more, and the probe always has: what is under way is the probe of a
\* half-open breaker, an operation of a closed one, or of an older generation.
OnlyCurrentCounts ==
    \A o \in Ops :
        Live(o) => StillCurrent(o) \/ (~probe[o] /\ tag[o] < generation)

\* SCHEDULER_REDIS_MAX_CONSECUTIVE_EXCUSED_TIMEOUTS, "timeouts count again and
\* a real outage still opens the breaker": however long this process lags,
\* the closed capacity breaker sees only so many timeouts without an answer.
OutageOpens ==
    Kind = "capacity" /\ phase = "closed" =>
        silent < MaxExcused + FailuresToOpen

\* A breaker that is not closed is tried out again and again: neither a lost
\* probe nor one that waits for a permit keeps it open or half-open for good.
TriedOutAgain ==
    /\ (phase \in {"open", "due"}) ~> (phase = "half")
    /\ (phase = "half") ~> (phase # "half")

=============================================================================
