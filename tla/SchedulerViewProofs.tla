------------------------ MODULE SchedulerViewProofs ------------------------
(***************************************************************************)
(* Theorems about SchedulerView, for any accounts, leases and callers.     *)
(***************************************************************************)
EXTENDS SchedulerView, TLAPS

-----------------------------------------------------------------------------
\* Initially every variable has its type.
LEMMA TypeInit == Init => TypeOK
  <1> SUFFICES ASSUME Init PROVE TypeOK
    OBVIOUS
  <1> USE ViewAssumption DEF Init
  <1>1. /\ own \in [Own -> {"unused", "local", "held", "marked", "removed", "gone"}]
        /\ redis \cap Own = {l \in Own : own[l] \in {"held", "marked", "removed"}}
    OBVIOUS
  <1>2. /\ job \in [full : BOOLEAN, again : BOOLEAN, ids : SUBSET Creds, snap : SUBSET Lease]
        /\ direct \in [at : {"idle", "filter", "apply"}, force : BOOLEAN,
                       ids : SUBSET Creds, snap : SUBSET Lease]
    BY DEF Idle, NoJob
  <1>3. /\ caller \in [Callers -> {"idle", "enter", "cas"}]
        /\ leaving \in 0 .. MaxLeaving
    OBVIOUS
  <1> QED
    BY <1>1, <1>2, <1>3 DEF TypeOK

\* A step of this process's own leases preserves the types.
LEMMA TypeOwn == ASSUME TypeOK, NEW l \in Own, OwnStep(l) PROVE TypeOK'
  <1> USE ViewAssumption DEF TypeOK, Lease
  <1>1. CASE Reserve(l)
    BY <1>1 DEF Reserve, marks, work
  <1>2. CASE Granted(l)
    BY <1>2 DEF Granted, entries, marks, work
  <1>3. CASE Refused(l)
    BY <1>3 DEF Refused, marks, work
  <1>4. CASE MarkReleased(l)
    BY <1>4 DEF MarkReleased, marks, work
  <1>5. CASE RemoveEntry(l)
    BY <1>5 DEF RemoveEntry, marks, work
  <1>6. CASE ReleasedInRedis(l)
    BY <1>6 DEF ReleasedInRedis, entries, marks, work
  <1>7. CASE TombstoneExpires(l)
    BY <1>7 DEF TombstoneExpires, lease, marks, work
  <1> QED
    BY <1>1, <1>2, <1>3, <1>4, <1>5, <1>6, <1>7 DEF OwnStep

\* A step of another instance, or the loss of its event, preserves the types.
LEMMA TypeForeign == ASSUME TypeOK, ForeignStep PROVE TypeOK'
  <1> USE ViewAssumption DEF TypeOK, Lease
  <1>1. ASSUME NEW l \in Foreign, ForeignTakes(l) PROVE TypeOK'
    BY <1>1 DEF ForeignTakes, entries, marks, work
  <1>2. ASSUME NEW l \in Foreign, ForeignReleases(l) PROVE TypeOK'
    BY <1>2 DEF ForeignReleases, entries, marks, work
  <1>3. ASSUME NEW c \in Creds, EventLost(c) PROVE TypeOK'
    BY <1>3 DEF EventLost, lease, entries, marks, work
  <1> QED
    BY <1>1, <1>2, <1>3 DEF ForeignStep

\* A step of a caller preserves the types.
LEMMA TypeCaller == ASSUME TypeOK, NEW k \in Callers, CallerStep(k) PROVE TypeOK'
  <1> USE ViewAssumption DEF TypeOK, Lease
  <1>1. ASSUME NEW c \in Creds, Deliver(k, c) PROVE TypeOK'
    BY <1>1 DEF Deliver, lease, entries, work
  <1>2. CASE RequestFull(k)
    BY <1>2 DEF RequestFull, lease, entries
  <1>3. CASE Enter(k)
    BY <1>3 DEF Enter, lease, entries, marks, work
  <1>4. CASE EnterDue(k)
    BY <1>4 DEF EnterDue, lease, entries
  <1>5. CASE EnterTooSoon(k)
    BY <1>5 DEF EnterTooSoon, lease, entries, marks, work
  <1>6. CASE Spawn(k)
    BY <1>6 DEF Spawn, lease, entries, marks
  <1> QED
    BY <1>1, <1>2, <1>3, <1>4, <1>5, <1>6 DEF CallerStep

\* A step of the worker preserves the types.
LEMMA TypeWorker == ASSUME TypeOK, owned \subseteq Lease, WorkerStep \/ WorkerRecheck PROVE TypeOK'
  <1> USE ViewAssumption DEF TypeOK, Lease, NoJob, Of
  <1>1. CASE WorkerStart
    BY <1>1 DEF WorkerStart, lease, entries, marks
  <1>2. CASE WorkerCollect
    BY <1>2 DEF WorkerCollect, lease, entries
  <1>3. CASE WorkerRead
    BY <1>3 DEF WorkerRead, lease, entries, marks
  <1>4. CASE WorkerReadFails
    BY <1>4 DEF WorkerReadFails, lease, entries
  <1>5. CASE WorkerFilter
    BY <1>5 DEF WorkerFilter, lease, entries, marks
  <1>6. CASE WorkerApply
    BY <1>6 DEF WorkerApply, Merge, lease
  <1>7. CASE WorkerCheck
    BY <1>7 DEF WorkerCheck, lease, entries, marks
  <1>8. CASE WorkerExit
    BY <1>8 DEF WorkerExit, lease, entries, marks
  <1>9. CASE WorkerRecheck
    BY <1>9 DEF WorkerRecheck, lease, entries, marks
  <1> QED
    BY <1>1, <1>2, <1>3, <1>4, <1>5, <1>6, <1>7, <1>8, <1>9 DEF WorkerStep

\* A direct read preserves the types.
LEMMA TypeDirect == ASSUME TypeOK, owned \subseteq Lease, DirectStep PROVE TypeOK'
  <1> USE ViewAssumption DEF TypeOK, Lease, Idle, Of
  <1>1. ASSUME NEW ids \in (SUBSET Creds) \ {{}}, NEW force \in BOOLEAN, DirectRead(force, ids)
        PROVE  TypeOK'
    BY <1>1 DEF DirectRead, lease, entries, marks, work
  <1>2. CASE DirectFilter
    BY <1>2 DEF DirectFilter, lease, entries, marks, work
  <1>3. CASE DirectApply
    BY <1>3 DEF DirectApply, Merge, lease, work
  <1> HIDE DEF TypeOK
  <1> QED
    BY <1>1, <1>2, <1>3, Zenon DEF DirectStep

-----------------------------------------------------------------------------
(* Own leases.                                                             *)

OwnedInv == TypeOK /\ OwnedIsExact

\* What is owned are leases.
LEMMA OwnedAreLeases == OwnedInv => owned \subseteq Lease
  BY DEF OwnedInv, OwnedIsExact, OwnedNow, Lease

\* Every step preserves the types.
LEMMA TypeStep == OwnedInv /\ [Next]_vars => TypeOK'
  <1> SUFFICES ASSUME OwnedInv, [Next]_vars PROVE TypeOK'
    OBVIOUS
  <1>1. TypeOK /\ owned \subseteq Lease
    BY OwnedAreLeases DEF OwnedInv
  <1>2. CASE Next
    BY <1>1, <1>2, TypeOwn, TypeForeign, TypeCaller, TypeWorker, TypeDirect DEF Next
  <1>3. CASE UNCHANGED vars
    BY <1>1, <1>3 DEF vars, lease, entries, marks, work, TypeOK
  <1> QED
    BY <1>2, <1>3

\* A merge keeps what this process owns, whatever the snapshot has.
LEMMA MergeKeepsOwned ==
  ASSUME NEW ids, NEW snap, OwnedInv, Merge(ids, snap)
  PROVE  owned' = owned /\ owned \subseteq view'
  BY OwnedAreLeases DEF OwnedInv, OwnedIsExact, Merge, Of

\* A step that takes or gives back a lease keeps the flags exact.
LEMMA OwnedOwn == ASSUME OwnedInv, NEW l \in Own, OwnStep(l) PROVE OwnedIsExact'
  <1> USE DEF OwnedInv, TypeOK, OwnedIsExact, OwnedNow
  <1>1. CASE Reserve(l)
    BY <1>1 DEF Reserve
  <1>2. CASE Granted(l)
    BY <1>2 DEF Granted, entries
  <1>3. CASE Refused(l)
    BY <1>3 DEF Refused
  <1>4. CASE MarkReleased(l)
    BY <1>4 DEF MarkReleased
  <1>5. CASE RemoveEntry(l)
    BY <1>5 DEF RemoveEntry
  <1>6. CASE ReleasedInRedis(l)
    BY <1>6 DEF ReleasedInRedis, entries
  <1>7. CASE TombstoneExpires(l)
    BY <1>7 DEF TombstoneExpires, lease
  <1> QED
    BY <1>1, <1>2, <1>3, <1>4, <1>5, <1>6, <1>7 DEF OwnStep

\* Every step keeps the flags exact.
LEMMA OwnedStep == OwnedInv /\ [Next]_vars => OwnedIsExact'
  <1> SUFFICES ASSUME OwnedInv, [Next]_vars PROVE OwnedIsExact'
    OBVIOUS
  <1> USE DEF OwnedInv, OwnedIsExact, OwnedNow
  <1>1. ASSUME UNCHANGED <<own, view, owned>> PROVE OwnedIsExact'
    BY <1>1
  <1>2. ASSUME NEW ids, NEW snap, Merge(ids, snap), UNCHANGED own PROVE OwnedIsExact'
    BY <1>2, MergeKeepsOwned
  <1> HIDE DEF OwnedInv, OwnedIsExact, OwnedNow
  <1>3. CASE \E l \in Own : OwnStep(l)
    BY <1>3, OwnedOwn
  <1>4. CASE ForeignStep
    BY <1>1, <1>4 DEF ForeignStep, ForeignTakes, ForeignReleases, EventLost, entries, lease
  <1>5. CASE \E k \in Callers : CallerStep(k)
    BY <1>1, <1>5 DEF CallerStep, Deliver, RequestFull, Enter, EnterDue, EnterTooSoon, Spawn,
                      entries, lease
  <1>6. CASE WorkerApply
    BY <1>2, <1>6 DEF WorkerApply, lease
  <1>7. CASE WorkerStep /\ ~WorkerApply
    BY <1>1, <1>7 DEF WorkerStep, WorkerStart, WorkerCollect, WorkerRead, WorkerReadFails,
                      WorkerFilter, WorkerCheck, WorkerExit, entries, lease
  <1>8. CASE WorkerRecheck
    BY <1>1, <1>8 DEF WorkerRecheck, entries, lease
  <1>9. CASE DirectApply
    BY <1>2, <1>9 DEF DirectApply, lease
  <1>10. CASE DirectStep /\ ~DirectApply
    BY <1>1, <1>10 DEF DirectStep, DirectRead, DirectFilter, entries, lease
  <1>11. CASE UNCHANGED vars
    BY <1>1, <1>11 DEF vars, lease, entries
  <1> QED
    BY <1>3, <1>4, <1>5, <1>6, <1>7, <1>8, <1>9, <1>10, <1>11 DEF Next

\* Types and flags hold throughout.
LEMMA OwnedInvariance == Spec => []OwnedInv
  <1>1. Init => OwnedInv
    BY TypeInit DEF Init, OwnedInv, OwnedIsExact, OwnedNow
  <1>2. OwnedInv /\ [Next]_vars => OwnedInv'
    BY TypeStep, OwnedStep DEF OwnedInv
  <1> QED
    BY <1>1, <1>2, PTL DEF Spec

\* The entries call locally owned exactly what this process holds, and never
\* lose it to a snapshot (apply_scheduler_state_to_entry and the guards).
THEOREM OwnedSafety == Spec => []OwnedIsExact
  <1>1. OwnedInv => OwnedIsExact
    BY DEF OwnedInv
  <1> QED
    BY OwnedInvariance, <1>1, PTL

-----------------------------------------------------------------------------
(* Marks.                                                                  *)

\* No step leaves a mark without a worker or a caller on its way.
LEMMA MarkStep == TypeOK /\ MarkIsNoticed /\ [Next]_vars => MarkIsNoticed'
  <1> SUFFICES ASSUME TypeOK, MarkIsNoticed, [Next]_vars PROVE MarkIsNoticed'
    OBVIOUS
  <1> USE ViewAssumption DEF MarkIsNoticed, Marked
  <1>1. ASSUME UNCHANGED <<marks, work, caller>> PROVE MarkIsNoticed'
    BY <1>1 DEF marks, work
  <1>2. ASSUME worker' # "none" PROVE MarkIsNoticed'
    BY <1>2
  <1>3. ASSUME NEW k \in Callers, caller'[k] # "idle" PROVE MarkIsNoticed'
    BY <1>3
  <1>4. CASE \E l \in Own : OwnStep(l)
    BY <1>1, <1>4 DEF OwnStep, Reserve, Granted, Refused, MarkReleased, RemoveEntry,
                      ReleasedInRedis, TombstoneExpires
  <1>5. CASE ForeignStep
    BY <1>1, <1>5 DEF ForeignStep, ForeignTakes, ForeignReleases, EventLost
  <1>6. ASSUME NEW k \in Callers, CallerStep(k) PROVE MarkIsNoticed'
    <2>1. CASE Spawn(k)
      BY <1>2, <2>1 DEF Spawn, TypeOK
    <2>2. CASE EnterTooSoon(k)
      BY <2>2 DEF EnterTooSoon, marks
    <2>3. CASE CallerStep(k) /\ ~Spawn(k) /\ ~EnterTooSoon(k)
      <3>1. caller'[k] # "idle"
        BY <2>3 DEF CallerStep, Deliver, RequestFull, Enter, EnterDue, TypeOK
      <3> QED
        BY <3>1, <1>3
    <2> QED
      BY <1>6, <2>1, <2>2, <2>3
  <1>7. CASE WorkerExit
    BY <1>7 DEF WorkerExit, TypeOK
  <1>8. CASE WorkerStep /\ ~WorkerExit
    <2>1. worker' # "none"
      BY <1>8 DEF WorkerStep, WorkerStart, WorkerCollect, WorkerRead, WorkerReadFails,
                  WorkerFilter, WorkerApply, WorkerCheck
    <2> QED
      BY <2>1, <1>2
  <1>9. CASE WorkerRecheck
    BY <1>9 DEF WorkerRecheck, marks
  <1>10. CASE DirectApply
    BY <1>10 DEF DirectApply, work, TypeOK
  <1>11. CASE DirectStep /\ ~DirectApply
    BY <1>1, <1>11 DEF DirectStep, DirectRead, DirectFilter
  <1>12. CASE UNCHANGED vars
    BY <1>1, <1>12 DEF vars
  <1> QED
    BY <1>4, <1>5, <1>6, <1>7, <1>8, <1>9, <1>10, <1>11, <1>12 DEF Next

\* No wake-up is lost between the worker's last look and its end (the recheck
\* after sync_in_flight.store(false)).
THEOREM MarkSafety == Spec => []MarkIsNoticed
  <1>1. Init => MarkIsNoticed
    BY DEF Init, MarkIsNoticed, Marked
  <1>2. OwnedInv => TypeOK
    BY DEF OwnedInv
  <1> QED
    BY OwnedInvariance, MarkStep, <1>1, <1>2, PTL DEF Spec

-----------------------------------------------------------------------------
(* Freshness.                                                              *)

\* The reads under way: a full sync reads every account, and what it has read
\* is of the accounts it reads.
JobsInv ==
    /\ worker = "collect" => job.snap = {}
    /\ worker \in {"read", "filter", "apply"} => job.snap \subseteq Of(job.ids)
    /\ worker \in {"read", "filter", "apply"} /\ job.full => job.ids = Creds
    /\ direct.at # "idle" => direct.snap \subseteq Of(direct.ids)
    /\ direct.at # "idle" /\ direct.force => direct.ids = Creds

\* A full sync that has not read yet is still requested, unless a forced read
\* has declared it applied, which leaves all accounts astray.
FullInv == worker \in {"collect", "read"} /\ job.full => pending \/ astray = Creds

\* What the worker has read and another instance has released since will be
\* told to this process once more.
SnapInv ==
    worker \in {"filter", "apply"} =>
        \A l \in job.snap \cap Foreign :
            l \in redis \/ CredOf[l] \in events \cup dirty \cup astray

FreshInv == OwnedInv /\ JobsInv /\ FullInv /\ SnapInv /\ QuietViewIsFresh


\* The reads under way keep to their accounts.
LEMMA JobsStep == OwnedInv /\ JobsInv /\ [Next]_vars => JobsInv'
  <1> SUFFICES ASSUME OwnedInv, JobsInv, [Next]_vars PROVE JobsInv'
    OBVIOUS
  <1> USE DEF OwnedInv, TypeOK, JobsInv
  <1>1. ASSUME UNCHANGED <<worker, job, direct>> PROVE JobsInv'
    BY <1>1 DEF Of
  <1>2. CASE \E l \in Own : OwnStep(l)
    BY <1>1, <1>2 DEF OwnStep, Reserve, Granted, Refused, MarkReleased, RemoveEntry,
                      ReleasedInRedis, TombstoneExpires, work
  <1>3. CASE ForeignStep
    BY <1>1, <1>3 DEF ForeignStep, ForeignTakes, ForeignReleases, EventLost, work
  <1>4. ASSUME NEW k \in Callers, CallerStep(k) PROVE JobsInv'
    BY <1>4 DEF CallerStep, Deliver, RequestFull, Enter, EnterDue, EnterTooSoon, Spawn, work, Of
  <1>5. CASE WorkerStep
    <2>1. CASE WorkerStart
      BY <2>1 DEF WorkerStart, NoJob, Of
    <2>2. CASE WorkerCollect
      BY <2>2 DEF WorkerCollect, Of
    <2>3. CASE WorkerRead
      BY <2>3 DEF WorkerRead, Of
    <2>4. CASE WorkerFilter
      BY <2>4 DEF WorkerFilter, Of
    <2>5. CASE WorkerReadFails \/ WorkerApply \/ WorkerCheck \/ WorkerExit
      BY <2>5 DEF WorkerReadFails, WorkerApply, WorkerCheck, WorkerExit, Of
    <2> QED
      BY <1>5, <2>1, <2>2, <2>3, <2>4, <2>5 DEF WorkerStep
  <1>6. CASE WorkerRecheck
    BY <1>6 DEF WorkerRecheck, Of
  <1>7. CASE DirectStep
    <2>1. ASSUME NEW ids \in (SUBSET Creds) \ {{}}, NEW force \in BOOLEAN, DirectRead(force, ids)
          PROVE  JobsInv'
      BY <2>1 DEF DirectRead, work, Of
    <2>2. CASE DirectFilter
      BY <2>2 DEF DirectFilter, work, Of
    <2>3. CASE DirectApply
      BY <2>3 DEF DirectApply, Idle, work, Of
    <2> HIDE DEF JobsInv
    <2> QED
      BY <1>7, <2>1, <2>2, <2>3, Zenon DEF DirectStep
  <1>8. CASE UNCHANGED vars
    BY <1>1, <1>8 DEF vars, work
  <1> QED
    BY <1>2, <1>3, <1>4, <1>5, <1>6, <1>7, <1>8 DEF Next

\* A full sync that is not read yet is not forgotten.
LEMMA FullStep == OwnedInv /\ JobsInv /\ FullInv /\ [Next]_vars => FullInv'
  <1> SUFFICES ASSUME OwnedInv, JobsInv, FullInv, [Next]_vars PROVE FullInv'
    OBVIOUS
  <1> USE DEF OwnedInv, TypeOK, JobsInv, FullInv
  <1>1. ASSUME UNCHANGED <<worker, job, pending, astray>> PROVE FullInv'
    BY <1>1
  <1>2. CASE \E l \in Own : OwnStep(l)
    BY <1>1, <1>2 DEF OwnStep, Reserve, Granted, Refused, MarkReleased, RemoveEntry,
                      ReleasedInRedis, TombstoneExpires, work, marks
  <1>3. CASE ForeignStep
    <2>1. UNCHANGED <<worker, job, pending>> /\ astray \subseteq astray' /\ astray' \subseteq Creds
      BY <1>3 DEF ForeignStep, ForeignTakes, ForeignReleases, EventLost, work, marks
    <2> QED
      BY <2>1
  <1>4. ASSUME NEW k \in Callers, CallerStep(k) PROVE FullInv'
    BY <1>4 DEF CallerStep, Deliver, RequestFull, Enter, EnterDue, EnterTooSoon, Spawn, work, marks
  <1>5. CASE WorkerStep
    BY <1>5 DEF WorkerStep, WorkerStart, WorkerCollect, WorkerRead, WorkerReadFails,
                WorkerFilter, WorkerApply, WorkerCheck, WorkerExit, NoJob, marks
  <1>6. CASE WorkerRecheck
    BY <1>6 DEF WorkerRecheck, marks
  <1>7. CASE DirectStep
    BY <1>7 DEF DirectStep, DirectRead, DirectFilter, DirectApply, work, marks
  <1>8. CASE UNCHANGED vars
    BY <1>1, <1>8 DEF vars, work, marks
  <1> QED
    BY <1>2, <1>3, <1>4, <1>5, <1>6, <1>7, <1>8 DEF Next

\* What has left Redis since the worker read it is announced.
LEMMA SnapStep == OwnedInv /\ JobsInv /\ SnapInv /\ [Next]_vars => SnapInv'
  <1> SUFFICES ASSUME OwnedInv, JobsInv, SnapInv, [Next]_vars PROVE SnapInv'
    OBVIOUS
  <1> USE ViewAssumption DEF OwnedInv, TypeOK, JobsInv, SnapInv
  <1>1. ASSUME UNCHANGED <<worker, job, events, dirty, astray>>,
               redis \cap Foreign \subseteq redis'
        PROVE  SnapInv'
    BY <1>1
  <1>2. CASE \E l \in Own : OwnStep(l)
    BY <1>1, <1>2 DEF OwnStep, Reserve, Granted, Refused, MarkReleased, RemoveEntry,
                      ReleasedInRedis, TombstoneExpires, work, marks, lease
  <1>3. CASE ForeignStep
    BY <1>3 DEF ForeignStep, ForeignTakes, ForeignReleases, EventLost, work, marks, lease
  <1>4. ASSUME NEW k \in Callers, CallerStep(k) PROVE SnapInv'
    BY <1>4 DEF CallerStep, Deliver, RequestFull, Enter, EnterDue, EnterTooSoon, Spawn,
                work, marks, lease
  <1>5. CASE WorkerStep
    BY <1>5 DEF WorkerStep, WorkerStart, WorkerCollect, WorkerRead, WorkerReadFails,
                WorkerFilter, WorkerApply, WorkerCheck, WorkerExit, NoJob, marks, lease
  <1>6. CASE WorkerRecheck
    BY <1>6 DEF WorkerRecheck, marks, lease
  <1>7. CASE DirectStep
    BY <1>7 DEF DirectStep, DirectRead, DirectFilter, DirectApply, work, marks, lease, Of, Lease
  <1>8. CASE UNCHANGED vars
    BY <1>1, <1>8 DEF vars, work, marks, lease
  <1> QED
    BY <1>2, <1>3, <1>4, <1>5, <1>6, <1>7, <1>8 DEF Next

\* No step makes a quiet view show what has left Redis.
LEMMA QuietStep == FreshInv /\ [Next]_vars => QuietViewIsFresh'
  <1> SUFFICES ASSUME FreshInv, [Next]_vars,
                      NEW l \in Foreign, l \in view', l \notin redis', Settled(CredOf[l])'
               PROVE  FALSE
    BY ViewAssumption DEF QuietViewIsFresh, Of, Lease
  <1> DEFINE c == CredOf[l]
  <1>1. l \notin Own /\ c \in Creds /\ l \in Lease
    BY ViewAssumption DEF Lease
  <1>2. l \in view /\ l \notin redis => ~Settled(c)
    BY <1>1 DEF FreshInv, QuietViewIsFresh, Of
  <1> HIDE DEF c
  <1> USE <1>1 DEF Settled
  <1>3. CASE \E m \in Own : OwnStep(m)
    BY <1>2, <1>3 DEF OwnStep, Reserve, Granted, Refused, MarkReleased, RemoveEntry,
                      ReleasedInRedis, TombstoneExpires, work, marks, lease, entries, c
  <1>4. CASE ForeignStep
    BY <1>2, <1>4 DEF ForeignStep, ForeignTakes, ForeignReleases, EventLost,
                      work, marks, lease, entries, c
  <1>5. ASSUME NEW k \in Callers, CallerStep(k) PROVE FALSE
    BY <1>2, <1>5 DEF CallerStep, Deliver, RequestFull, Enter, EnterDue, EnterTooSoon, Spawn,
                      work, marks, lease, entries, FreshInv, OwnedInv, TypeOK, c
  <1>6. CASE WorkerStep /\ ~WorkerApply
    BY <1>2, <1>6 DEF WorkerStep, WorkerStart, WorkerCollect, WorkerRead, WorkerReadFails,
                      WorkerFilter, WorkerCheck, WorkerExit, NoJob, marks, lease, entries,
                      FreshInv, OwnedInv, TypeOK, JobsInv, FullInv, c
  <1>7. CASE WorkerApply
    BY <1>2, <1>7 DEF WorkerApply, Merge, Of, lease, FreshInv, OwnedInv, OwnedIsExact,
                      OwnedNow, TypeOK, JobsInv, SnapInv, c
  <1>8. CASE WorkerRecheck
    BY <1>2, <1>8 DEF WorkerRecheck, marks, lease, entries, c
  <1>9. CASE DirectStep
    BY <1>2, <1>9 DEF DirectStep, DirectRead, DirectFilter, DirectApply, Merge, Of, work,
                      marks, lease, entries, FreshInv, OwnedInv, TypeOK, JobsInv, c
  <1>10. CASE UNCHANGED vars
    BY <1>2, <1>10 DEF vars, work, marks, lease, entries, c
  <1> QED
    BY <1>3, <1>4, <1>5, <1>6, <1>7, <1>8, <1>9, <1>10 DEF Next

\* The worker's own races forget no release of another instance: a quiet view
\* shows no lease that has left Redis (refresh_scheduler_state_from_redis).
THEOREM FreshSafety == Spec => []QuietViewIsFresh
  <1>1. Init => FreshInv
    BY TypeInit DEF Init, FreshInv, OwnedInv, OwnedIsExact, OwnedNow, JobsInv, FullInv, SnapInv,
                    QuietViewIsFresh, Idle
  <1>2. FreshInv /\ [Next]_vars => FreshInv'
    BY TypeStep, OwnedStep, JobsStep, FullStep, SnapStep, QuietStep DEF FreshInv, OwnedInv
  <1>3. FreshInv => QuietViewIsFresh
    BY DEF FreshInv
  <1> QED
    BY <1>1, <1>2, <1>3, PTL DEF Spec
=============================================================================
