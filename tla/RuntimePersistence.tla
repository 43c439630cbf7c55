------------------------ MODULE RuntimePersistence ------------------------
(***************************************************************************)
(* How the runtime state of an account (failures, warm-up, disabled or     *)
(* not) gets from a process to PostgreSQL and back: the FIFO of pending    *)
(* mutations and its replay in kiro/token_manager/manager.rs, and the      *)
(* transactions of storage/postgres.rs.                                    *)
(*                                                                         *)
(* Requests change the entry at once and queue a mutation; a background    *)
(* worker replays the queue in order.  A mutation carries an operation id  *)
(* (a write whose answer was lost is repeated) and the generation its      *)
(* author saw (a write older than an administrator's reset is dropped).    *)
(* While the queue holds a change of the disabled state the account is     *)
(* quarantined.  Other processes write the same row.                       *)
(*                                                                         *)
(* One account is modelled: queues, flags and rows of accounts are         *)
(* separate, the worker takes accounts in turn.  Left out are times of     *)
(* last use, the counter of refresh failures, which is treated like the    *)
(* one of API failures, and the quota guard that a reload applies.         *)
(***************************************************************************)
EXTENDS Naturals, Sequences, FiniteSets, SequencesExt

CONSTANTS
    Reports,      \* results of requests of this process
    Admins,       \* administrator's commands given to this process
    Remotes,      \* administrator's commands given to other processes
    Kinds,        \* what each of them may be
    MaxFailures,  \* MAX_FAILURES_PER_CREDENTIAL
    Warmup        \* warm-up requests the account starts with

Ops == Reports \cup Admins \cup Remotes

ASSUME RuntimeAssumption ==
    /\ Reports \cap Admins = {} /\ Remotes \cap (Reports \cup Admins) = {}
    /\ \A r \in Reports : Kinds[r] \subseteq {"success", "failure", "quota"}
    /\ \A a \in Admins \cup Remotes : Kinds[a] \subseteq {"enable", "disable"}
    /\ MaxFailures \in Nat \ {0} /\ Warmup \in Nat
    /\ IsFiniteSet(Ops)

VARIABLES
    row,        \* PostgreSQL: credential_runtime_state and credentials.disabled
    done,       \* PostgreSQL: operation ids of credential_runtime_mutations
    entry,      \* the account in this process
    queue,      \* its pending_runtime_mutations
    flush,      \* the replay worker
    reload,     \* a reload from PostgreSQL
    st,         \* how far each report and command is
    seen,       \* its kind and the generation its author saw, until the
                \* mutation carries them
    last,       \* history: number of the last replayed mutation that took effect
    owed,       \* history: queued operations other than successes that
                \* PostgreSQL has neither applied nor dropped
    overtaken   \* history: a mutation was queued while the worker was about to
                \* write flags that do not count it ("before"), or was written
                \* over so ("after")

db == <<row, done>>
history == <<last, owed, overtaken>>
vars == <<db, entry, queue, flush, reload, st, seen, history>>

-----------------------------------------------------------------------------
(* The row and the entry.                                                  *)

Row == [gen : Nat, rev : Nat, fails : Nat, warm : Nat,
        why : {"none", "manual", "failures", "quota"}, cred : BOOLEAN]

\* What a mutation does to the row: record_credential_success_...,
AfterSuccess(n, r) == [r EXCEPT !.fails = 0, !.warm = IF @ > n THEN @ - n ELSE 0]

\* record_credential_api_failure_...,
AfterFailure(r) ==
    LET over == r.fails + 1 >= MaxFailures IN
    [r EXCEPT !.fails = @ + 1,
              !.why = IF over THEN "failures" ELSE @,
              !.cred = @ \/ over \/ r.why = "failures"]

\* mark_credential_disabled_...,
AfterQuota(r) == [r EXCEPT !.fails = MaxFailures, !.why = "quota", !.cred = TRUE]

\* patch_credential_runtime_state_in_tx.
AfterPatch(kind, r) ==
    IF kind = "enable"
    THEN [r EXCEPT !.gen = @ + 1, !.fails = 0, !.why = "none", !.cred = FALSE]
    ELSE [r EXCEPT !.gen = @ + 1, !.why = "manual", !.cred = TRUE]

Effect(kind, n, r) ==
    LET next == [r EXCEPT !.rev = @ + 1] IN
    CASE kind = "success" -> AfterSuccess(n, next)
      [] kind = "failure" -> AfterFailure(next)
      [] kind = "quota"   -> AfterQuota(next)
      [] OTHER            -> AfterPatch(kind, next)

\* recompute_entry_disabled
Recompute(e) ==
    LET why == IF e.cred /\ e.why = "none" THEN "manual" ELSE e.why IN
    [e EXCEPT !.why = why, !.disabled = e.quarantined \/ e.cred \/ why # "none"]

\* apply_runtime_state_if_newer
IfNewer(e, r) ==
    LET why == IF r.why = "none" /\ e.cred THEN "manual" ELSE r.why IN
    IF r.rev <= e.rev THEN e
    ELSE [e EXCEPT !.gen = r.gen, !.rev = r.rev, !.fails = r.fails, !.warm = r.warm,
                   !.why = why, !.disabled = e.quarantined \/ why # "none"]

\* apply_authoritative_runtime_state_to_entry
Authoritative(e, r, cred) ==
    LET told == [e EXCEPT !.cred = cred] IN
    IF r.rev < e.rev THEN e
    ELSE IF r.rev > e.rev THEN IfNewer(told, r) ELSE Recompute(told)

\* apply_persisted_runtime_mutation_to_entry
Persisted(e, answer) ==
    IF answer.row.gen < e.gen THEN e
    ELSE Authoritative(e, answer.row, IF answer.applied THEN answer.row.cred ELSE e.cred)

-----------------------------------------------------------------------------
(* Mutations.                                                              *)

\* no is a history field: the how-manieth mutation to be queued it is.
Mutation(op, s, quar) ==
    [op |-> op, kind |-> s.kind, n |-> 1, gen |-> s.gen, quar |-> quar,
     no |-> 1 + Cardinality({o \in Ops : st[o] \in {"patch", "queued"}})]

\* coalesce_into_previous
Coalesces(m) ==
    /\ queue # <<>>
    /\ m.kind = "success" /\ Last(queue).kind = "success"
    /\ Last(queue).gen = m.gen

Quarantines(q) == \E i \in DOMAIN q : q[i].quar

\* enqueue_pending_runtime_mutation, under the locks of entries and queue.
Enqueue(e, m) ==
    /\ queue' = IF Coalesces(m)
                THEN [queue EXCEPT ![Len(queue)].n = @ + 1]
                ELSE Append(queue, m)
    /\ entry' = Recompute([e EXCEPT !.degraded = TRUE,
                                    !.quarantined = m.quar \/ Quarantines(queue)])
    /\ owed' = IF m.kind = "success" THEN owed ELSE owed \cup {m.op}
    /\ overtaken' = IF flush.at = "mark" THEN "before" ELSE "no"

\* Mutant: the generation is compared before the operation id is looked up, so
\* that only a repeated reset is recognised.
PersistChecksLate(m) ==
    CASE m.gen < row.gen -> "stale"
      [] m.gen > row.gen -> "ahead"
      [] OTHER -> "apply"

\* prepare_credential_runtime_mutation: what becomes of a mutation.
Persist(m) ==
    CASE m.op \in done -> "duplicate"
      [] m.op \notin done /\ m.gen < row.gen -> "stale"
      [] m.op \notin done /\ m.gen > row.gen -> "ahead"
      [] OTHER -> "apply"

\* The transaction commits.
Commit(m) ==
    LET fate == Persist(m) IN
    /\ fate # "ahead"
    /\ IF fate = "apply"
       THEN /\ row' = Effect(m.kind, m.n, row)
            /\ done' = done \cup {m.op}
       ELSE UNCHANGED db
    /\ owed' = owed \ {m.op}

Answer(m) == [row |-> row', applied |-> Persist(m) # "stale"]

-----------------------------------------------------------------------------
NoFlush == [at |-> "idle", m |-> <<>>, answer |-> <<>>]
Unseen == [kind |-> "none", gen |-> 0]
NoReload == [at |-> "idle", snap |-> <<>>]
FreshRow == [gen |-> 0, rev |-> 0, fails |-> 0, warm |-> Warmup, why |-> "none", cred |-> FALSE]

Init ==
    /\ row = FreshRow
    /\ done = {}
    /\ entry = [gen |-> 0, rev |-> 0, fails |-> 0, warm |-> Warmup, why |-> "none",
                cred |-> FALSE, disabled |-> FALSE, degraded |-> FALSE, quarantined |-> FALSE]
    /\ queue = <<>>
    /\ flush = NoFlush
    /\ reload = NoReload
    /\ st = [op \in Ops |-> "new"]
    /\ seen = [op \in Ops |-> Unseen]
    /\ last = 0
    /\ owed = {}
    /\ overtaken = "no"

Goto(op, s) == st' = [st EXCEPT ![op] = s]
Sees(op, k) == seen' = [seen EXCEPT ![op] = [kind |-> k, gen |-> entry.gen]]
Leave(op, s) == Goto(op, s) /\ seen' = [seen EXCEPT ![op] = Unseen]

-----------------------------------------------------------------------------
(* Results of requests, on the request path: report_success_with_latency_- *)
(* deferred, report_failure_deferred, report_quota_exhausted_deferred.     *)

\* A success changes the entry under its lock.  One that changes nothing is
\* queued only now and then, as a probe of the row.
NoteSuccess(r) ==
    /\ st[r] = "new"
    /\ entry' = [entry EXCEPT !.fails = 0, !.warm = IF @ > 0 THEN @ - 1 ELSE 0]
    /\ \/ Sees(r, "success") /\ Goto(r, "noted")
       \/ /\ entry.fails = 0 /\ entry.warm = 0 /\ ~entry.degraded /\ ~entry.disabled
          /\ queue = <<>>
          /\ Goto(r, "ended") /\ UNCHANGED seen
    /\ UNCHANGED <<db, queue, flush, reload, history>>

\* A failure of a disabled account is ignored unless persistence is recovering.
Ignored == entry.disabled /\ ~entry.degraded

\* A failure reads the generation first ...
ReadGeneration(r) ==
    /\ st[r] = "new"
    /\ IF Ignored THEN Goto(r, "ended") /\ UNCHANGED seen
                  ELSE Goto(r, "read") /\ Sees(r, "failure")
    /\ UNCHANGED <<db, entry, queue, flush, reload, history>>

\* ... and changes the entry under the lock anew.
NoteFailure(r) ==
    LET over == entry.fails + 1 >= MaxFailures IN
    /\ st[r] = "read"
    /\ IF Ignored THEN Leave(r, "ended") /\ UNCHANGED entry
       ELSE /\ entry' = [entry EXCEPT !.fails = @ + 1,
                                      !.disabled = @ \/ over,
                                      !.why = IF over THEN "failures" ELSE @]
            /\ Goto(r, "noted") /\ UNCHANGED seen
    /\ UNCHANGED <<db, queue, flush, reload, history>>

NoteQuota(r) ==
    /\ st[r] = "new"
    /\ IF entry.disabled THEN Goto(r, "ended") /\ UNCHANGED <<seen, entry>>
       ELSE /\ entry' = [entry EXCEPT !.fails = MaxFailures, !.disabled = TRUE,
                                      !.why = "quota"]
            /\ Goto(r, "noted") /\ Sees(r, "quota")
    /\ UNCHANGED <<db, queue, flush, reload, history>>

\* Then the mutation is queued, under the lock anew.
EnqueueReport(r) ==
    LET m == Mutation(r, seen[r], seen[r].kind = "quota") IN
    /\ st[r] = "noted"
    /\ Enqueue(entry, m)
    /\ Leave(r, "queued")
    /\ UNCHANGED <<db, flush, reload, last>>

-----------------------------------------------------------------------------
(* The administrator: persist_runtime_patch_value for set_disabled and     *)
(* reset_and_enable.                                                       *)

\* The generation is read, and whether persistence is recovering.
AdminStart(a, kind) ==
    /\ st[a] = "new"
    /\ Sees(a, kind)
    /\ Goto(a, IF queue # <<>> \/ entry.degraded THEN "defer" ELSE "direct")
    /\ UNCHANGED <<db, entry, queue, flush, reload, history>>

\* runtime_patch_is_dispatch_neutral
Neutral(kind) ==
    IF kind = "enable"
    THEN entry.why = "none" /\ ~entry.cred /\ entry.fails = 0
    ELSE entry.why = "manual" /\ entry.cred

\* enqueue_admin_runtime_patch_for_recovery: first the queue ...
AdminEnqueue(a) ==
    /\ st[a] = "defer"
    /\ Enqueue(entry, Mutation(a, seen[a], ~Neutral(seen[a].kind)))
    /\ Goto(a, "patch")
    /\ UNCHANGED <<db, flush, reload, seen, last>>

\* Mutant: the local change counts as a revision.
AdminPatchCounts(a) ==
    /\ st[a] = "patch"
    /\ LET e == IF seen[a].kind = "enable"
                THEN [entry EXCEPT !.fails = 0, !.why = "none", !.cred = FALSE]
                ELSE [entry EXCEPT !.why = "manual", !.cred = TRUE]
       IN  entry' = Recompute([e EXCEPT !.gen = @ + 1, !.rev = @ + 1])
    /\ Leave(a, "queued")
    /\ UNCHANGED <<db, queue, flush, reload, history>>

\* ... then, under the lock anew, the entry (apply_runtime_patch_to_entry).
AdminPatch(a) ==
    /\ st[a] = "patch"
    /\ LET e == IF seen[a].kind = "enable"
                THEN [entry EXCEPT !.fails = 0, !.why = "none", !.cred = FALSE]
                ELSE [entry EXCEPT !.why = "manual", !.cred = TRUE]
       IN  entry' = Recompute([e EXCEPT !.gen = @ + 1])
    /\ Leave(a, "queued")
    /\ UNCHANGED <<db, queue, flush, reload, history>>

\* Nothing is pending: the row is written at once, and the answer applied.
AdminWrite(a) ==
    LET m == Mutation(a, seen[a], FALSE) IN
    /\ st[a] = "direct"
    /\ Commit(m)
    /\ entry' = Authoritative(entry, row', row'.cred)
    /\ Leave(a, "ended")
    /\ UNCHANGED <<queue, flush, reload, last, overtaken>>

\* The write fails, or its answer is lost: the operator is told so.  The reload
\* that is tried then, and may fail too, is ReloadRead and ReloadApply.
AdminWriteFails(a) ==
    /\ st[a] = "direct"
    /\ \/ Commit(Mutation(a, seen[a], FALSE))
       \/ UNCHANGED <<db, owed>>
    /\ Leave(a, "ended")
    /\ UNCHANGED <<entry, queue, flush, reload, last, overtaken>>

\* Another process writes the row.
RemoteWrite(p, kind) ==
    /\ st[p] = "new"
    /\ row' = Effect(kind, 1, row)
    /\ done' = done \cup {p}
    /\ Goto(p, "ended")
    /\ UNCHANGED <<entry, queue, flush, reload, seen, history>>

-----------------------------------------------------------------------------
(* The replay worker: flush_pending_runtime_mutations_until.               *)

\* The front of the queue is copied.
FlushTake ==
    /\ flush.at = "idle"
    /\ queue # <<>>
    /\ flush' = [flush EXCEPT !.at = "write", !.m = Head(queue)]
    /\ UNCHANGED <<db, entry, queue, reload, st, seen, history>>

\* The transaction commits and its answer arrives.
FlushWrite ==
    /\ flush.at = "write"
    /\ Commit(flush.m)
    /\ last' = IF Persist(flush.m) = "apply" THEN flush.m.no ELSE last
    /\ flush' = [flush EXCEPT !.at = "pop", !.answer = Answer(flush.m)]
    /\ UNCHANGED <<entry, queue, reload, st, seen, overtaken>>

\* Mutant: what fails is given up.
FlushFailsForGood ==
    /\ flush.at = "write"
    /\ \/ /\ Commit(flush.m)
          /\ last' = IF Persist(flush.m) = "apply" THEN flush.m.no ELSE last
       \/ UNCHANGED <<db, owed, last>>
    /\ flush' = NoFlush
    /\ queue' = Tail(queue)
    /\ UNCHANGED <<entry, reload, st, seen, overtaken>>

\* It fails, times out, or commits without an answer; or the row is at an older
\* generation than the mutation: the queue is kept.
FlushFails ==
    /\ flush.at = "write"
    /\ \/ /\ Commit(flush.m)
          /\ last' = IF Persist(flush.m) = "apply" THEN flush.m.no ELSE last
       \/ UNCHANGED <<db, owed, last>>
    /\ flush' = NoFlush
    /\ UNCHANGED <<entry, queue, reload, st, seen, overtaken>>

\* Under the lock of the queue the front is removed, if it is still the same.
FlushPop ==
    /\ flush.at = "pop"
    /\ queue' = IF queue # <<>> /\ Head(queue).op = flush.m.op THEN Tail(queue) ELSE queue
    /\ flush' = [flush EXCEPT !.at = "mark", !.m = [empty |-> queue' = <<>>,
                                                    quar |-> Quarantines(queue')]]
    /\ UNCHANGED <<db, entry, reload, st, seen, history>>

\* Mutant: the flags are cleared with every mutation that got through.
FlushMarkClears ==
    /\ flush.at = "mark"
    /\ entry' = Recompute(Persisted([entry EXCEPT !.degraded = FALSE, !.quarantined = FALSE],
                                    flush.answer))
    /\ overtaken' = IF overtaken = "before" THEN "after" ELSE "no"
    /\ flush' = NoFlush
    /\ UNCHANGED <<db, queue, reload, st, seen, last, owed>>

\* Mutant: the flags are only ever raised.
FlushMarkRaises ==
    /\ flush.at = "mark"
    /\ entry' = Recompute(Persisted([entry EXCEPT !.quarantined = @ \/ flush.m.quar,
                                                  !.degraded = ~flush.m.empty],
                                    flush.answer))
    /\ overtaken' = IF overtaken = "before" THEN "after" ELSE "no"
    /\ flush' = NoFlush
    /\ UNCHANGED <<db, queue, reload, st, seen, last, owed>>

\* Under the lock of the entries the flags that were computed then, and the
\* answer, are written.
FlushMark ==
    /\ flush.at = "mark"
    /\ entry' = Recompute(Persisted([entry EXCEPT !.degraded = ~flush.m.empty,
                                                  !.quarantined = flush.m.quar],
                                    flush.answer))
    /\ overtaken' = IF overtaken = "before" THEN "after" ELSE "no"
    /\ flush' = NoFlush
    /\ UNCHANGED <<db, queue, reload, st, seen, last, owed>>

-----------------------------------------------------------------------------
(* reload_credentials_from_postgres: on a change event.                    *)

ReloadRead ==
    /\ reload.at = "idle"
    /\ reload' = [at |-> "apply", snap |-> row]
    /\ UNCHANGED <<db, entry, queue, flush, st, seen, history>>

\* An account with pending mutations is left alone.
ReloadApply ==
    LET s == reload.snap
        told == [entry EXCEPT !.cred = s.cred]
        manual == [told EXCEPT !.why = IF @ = "manual" /\ ~s.cred THEN "none" ELSE @]
    IN  /\ reload.at = "apply"
        /\ entry' = CASE entry.degraded -> entry
                      [] ~entry.degraded /\ s.rev > entry.rev -> IfNewer(told, s)
                      [] ~entry.degraded /\ s.rev = entry.rev -> Recompute(manual)
                      [] OTHER -> told
        /\ reload' = NoReload
        /\ UNCHANGED <<db, queue, flush, st, seen, history>>

-----------------------------------------------------------------------------
FlushStep == FlushTake \/ FlushWrite \/ FlushFails \/ FlushPop \/ FlushMark

ReportStep(r) ==
    \/ "success" \in Kinds[r] /\ NoteSuccess(r)
    \/ "failure" \in Kinds[r] /\ ReadGeneration(r)
    \/ "quota" \in Kinds[r] /\ NoteQuota(r)
    \/ NoteFailure(r)
    \/ EnqueueReport(r)

AdminStep(a) ==
    \/ \E kind \in Kinds[a] : AdminStart(a, kind)
    \/ AdminEnqueue(a) \/ AdminPatch(a) \/ AdminWrite(a) \/ AdminWriteFails(a)

Next ==
    \/ \E r \in Reports : ReportStep(r)
    \/ \E a \in Admins : AdminStep(a)
    \/ \E p \in Remotes : \E kind \in Kinds[p] : RemoteWrite(p, kind)
    \/ FlushStep
    \/ ReloadRead \/ ReloadApply

Spec == Init /\ [][Next]_vars

\* The worker runs every few seconds and PostgreSQL answers it in the end; a
\* thread between two locks goes on.
Fairness ==
    /\ WF_vars(FlushStep) /\ SF_vars(FlushWrite)
    /\ WF_vars(\/ \E r \in Reports : NoteFailure(r) \/ EnqueueReport(r)
               \/ \E a \in Admins : AdminEnqueue(a) \/ AdminPatch(a))

FairSpec == Spec /\ Fairness

-----------------------------------------------------------------------------
(* Properties.                                                             *)

\* Every variable has its type, and the entry never claims a revision that
\* PostgreSQL has not reached.
TypeOK ==
    /\ row \in Row
    /\ done \subseteq Ops /\ owed \subseteq Ops
    /\ entry \in [gen : Nat, rev : 0 .. row.rev, fails : Nat, warm : 0 .. Warmup,
                  why : {"none", "manual", "failures", "quota"}, cred : BOOLEAN,
                  disabled : BOOLEAN, degraded : BOOLEAN, quarantined : BOOLEAN]
    /\ st \in [Ops -> {"new", "read", "noted", "defer", "patch", "direct", "queued", "ended"}]
    /\ seen \in [Ops -> [kind : {"none", "success", "failure", "quota", "enable", "disable"},
                         gen : Nat]]
    /\ last \in 0 .. Cardinality(Ops)
    /\ flush.at \in {"idle", "write", "pop", "mark"}
    /\ reload.at \in {"idle", "apply"}
    /\ overtaken \in {"no", "before", "after"}

\* Replayed mutations take effect in the order in which they were queued and
\* each at most once, however many of their writes went without an answer.
AppliedOnceInOrder ==
    [][row' # row /\ flush' # flush => flush.m.no > last]_vars

\* While the queue holds a change of the disabled state that PostgreSQL has not
\* confirmed, the account takes no requests, whatever answers to earlier
\* mutations and reloads are merged into the entry meanwhile.  The exception is
\* exactly the mutation queued between the worker's pop and its flags, until the
\* flags are computed again.
QuarantineHeld == Quarantines(queue) /\ overtaken # "after" => entry.disabled

\* A failure, a disabling or a command that was queued stays queued until
\* PostgreSQL has applied it or dropped it as older than a reset.  (A success may
\* be lost: it can join a mutation that the worker has copied already.)
NothingForgotten ==
    \A op \in owed : \E i \in DOMAIN queue : queue[i].op = op

Recovered == queue = <<>> /\ ~entry.degraded /\ ~entry.quarantined

\* Unless the administrator gives a command during the recovery, the backlog of
\* results is replayed and the account is released from quarantine for good.
ReportsDrain ==
    <>[](Recovered \/ \E a \in Admins : st[a] \in {"defer", "patch", "queued"})

\* The same whatever the administrator does ("pending mutations reach zero in
\* the end").  The code does not have it: a command of this process and one of
\* another, or the replay of the command between its two halves, leave the
\* entry at a generation that the row never reaches.
BacklogDrains == <>[]Recovered
=============================================================================
