---------------------- MODULE RuntimePersistenceProofs ----------------------
(***************************************************************************)
(* Proofs about RuntimePersistence, for any number of reports, commands    *)
(* and processes, any limit of failures and any warm-up: every variable    *)
(* has its type; what is queued is forgotten by nobody; replayed mutations *)
(* take effect once and in order; and the quarantine is held.              *)
(***************************************************************************)
EXTENDS RuntimePersistence, SequenceTheorems, FiniteSetTheorems, TLAPS

-----------------------------------------------------------------------------
(* The invariants.                                                         *)

Whys == {"none", "manual", "failures", "quota"}

\* A row, with warm-up requests within the ones the account starts with.
WarmRow == [gen : Nat, rev : Nat, fails : Nat, warm : 0 .. Warmup, why : Whys, cred : BOOLEAN]

Entry == [gen : Nat, rev : Nat, fails : Nat, warm : 0 .. Warmup, why : Whys, cred : BOOLEAN,
          disabled : BOOLEAN, degraded : BOOLEAN, quarantined : BOOLEAN]

Names == {"none", "success", "failure", "quota", "enable", "disable"}
Mut == [op : Ops, kind : Names, n : Nat, gen : Nat, quar : BOOLEAN, no : Nat]
Flags == [empty : BOOLEAN, quar : BOOLEAN]
Answers == [row : WarmRow, applied : BOOLEAN]
Steps == {"new", "read", "noted", "defer", "patch", "direct", "queued", "ended"}

Worker == [at : {"idle", "write", "pop", "mark"}, m : Mut \cup Flags \cup {<<>>},
           answer : Answers \cup {<<>>}]

\* The row and the account.
DataInv ==
    /\ row \in WarmRow
    /\ entry \in Entry /\ entry.rev <= row.rev
    /\ reload.at \in {"idle", "apply"}
    /\ reload.at = "apply" => reload.snap \in WarmRow /\ reload.snap.rev <= row.rev

\* Who is how far, and what is known of it.
ControlInv ==
    /\ done \subseteq Ops /\ owed \subseteq Ops
    /\ st \in [Ops -> Steps]
    /\ seen \in [Ops -> [kind : Names, gen : Nat]]
    /\ overtaken \in {"no", "before", "after"}
    /\ last \in Nat

\* The queue and the worker.
WorkInv ==
    /\ queue \in Seq(Mut)
    /\ flush \in Worker
    /\ flush.at \in {"write", "pop"} => flush.m \in Mut
    /\ flush.at = "mark" => flush.m \in Flags
    /\ flush.at \in {"pop", "mark"} => flush.answer \in Answers /\ flush.answer.row.rev <= row.rev

Enqueued == {o \in Ops : st[o] \in {"patch", "queued"}}

\* What is in the queue was put there once; the front stays while it is written;
\* and the worker, when it removes the front, has seen it applied or dropped.
FrontInv ==
    /\ \A i \in DOMAIN queue : queue[i].op \in Enqueued
    /\ flush.at \in {"write", "pop"} =>
          queue # <<>> /\ queue[1].op = flush.m.op /\ queue[1].no = flush.m.no
    /\ flush.at = "pop" => flush.m.op \notin owed

\* The queue is in the order of its numbers, and what was not applied yet has a
\* number above that of everything that was.
OrderInv ==
    /\ \A i, j \in DOMAIN queue : i < j => queue[i].no < queue[j].no
    /\ \A i \in DOMAIN queue : queue[i].no <= Cardinality(Enqueued)
    /\ last <= Cardinality(Enqueued)
    /\ \A i \in DOMAIN queue : queue[i].op \in done \/ queue[i].no > last

\* The flags of the entry follow the queue except where the worker is overtaken.
QuarantineInv ==
    /\ Quarantines(queue) /\ overtaken # "after" => entry.quarantined
    /\ entry.quarantined => entry.disabled
    /\ flush.at = "mark" /\ overtaken # "before" => flush.m.quar = Quarantines(queue)
    /\ flush.at # "mark" => overtaken # "before"

-----------------------------------------------------------------------------
(* Rows and entries stay rows and entries.                                 *)

\* A success leaves a row a row, of the same revision, and takes no warm-up
\* request that is not there.
LEMMA SuccessInRow ==
    ASSUME NEW r \in WarmRow, NEW n \in Nat
    PROVE  AfterSuccess(n, r) \in WarmRow /\ AfterSuccess(n, r).rev = r.rev
<1>1. (IF r.warm > n THEN r.warm - n ELSE 0) \in 0 .. Warmup
  BY RuntimeAssumption DEF WarmRow
<1>2. \A w \in 0 .. Warmup : [r EXCEPT !.fails = 0, !.warm = w] \in WarmRow
  BY DEF WarmRow
<1>3. AfterSuccess(n, r) \in WarmRow
  BY <1>1, <1>2 DEF AfterSuccess
<1>4. AfterSuccess(n, r).rev = r.rev
  BY DEF AfterSuccess, WarmRow
<1>5. QED BY <1>3, <1>4

\* A failure leaves a row a row, of the same revision.
LEMMA FailureInRow ==
    ASSUME NEW r \in WarmRow
    PROVE  AfterFailure(r) \in WarmRow /\ AfterFailure(r).rev = r.rev
<1> DEFINE over == r.fails + 1 >= MaxFailures
<1>1. \A f \in Nat, y \in Whys, c \in BOOLEAN :
        [r EXCEPT !.fails = f, !.why = y, !.cred = c] \in WarmRow
  BY DEF WarmRow, Whys
<1>2. r.fails + 1 \in Nat
  BY DEF WarmRow
<1>3. (IF over THEN "failures" ELSE r.why) \in Whys
  BY DEF WarmRow, Whys
<1>4. (r.cred \/ over \/ r.why = "failures") \in BOOLEAN
  OBVIOUS
<1>5. AfterFailure(r) \in WarmRow
  BY <1>1, <1>2, <1>3, <1>4 DEF AfterFailure
<1>6. AfterFailure(r).rev = r.rev
  BY DEF AfterFailure, WarmRow
<1>7. QED BY <1>5, <1>6

\* An exhausted quota leaves a row a row, of the same revision.
LEMMA QuotaInRow ==
    ASSUME NEW r \in WarmRow
    PROVE  AfterQuota(r) \in WarmRow /\ AfterQuota(r).rev = r.rev
<1>1. MaxFailures \in Nat
  BY RuntimeAssumption
<1>2. QED BY <1>1 DEF AfterQuota, WarmRow, Whys

\* A command of the administrator leaves a row a row, of the same revision.
LEMMA PatchInRow ==
    ASSUME NEW r \in WarmRow, NEW kind
    PROVE  AfterPatch(kind, r) \in WarmRow /\ AfterPatch(kind, r).rev = r.rev
<1>1. r.gen + 1 \in Nat
  BY DEF WarmRow
<1>2. \A g \in Nat : [r EXCEPT !.gen = g, !.fails = 0, !.why = "none", !.cred = FALSE] \in WarmRow
  BY DEF WarmRow, Whys
<1>3. \A g \in Nat : [r EXCEPT !.gen = g, !.why = "manual", !.cred = TRUE] \in WarmRow
  BY DEF WarmRow, Whys
<1>4. AfterPatch(kind, r) \in WarmRow
  BY <1>1, <1>2, <1>3 DEF AfterPatch
<1>5. AfterPatch(kind, r).rev = r.rev
  BY DEF AfterPatch, WarmRow
<1>6. QED BY <1>4, <1>5

\* Every mutation leaves a row a row and counts one revision.
LEMMA EffectInRow ==
    ASSUME NEW r \in WarmRow, NEW kind, NEW n \in Nat
    PROVE  Effect(kind, n, r) \in WarmRow /\ Effect(kind, n, r).rev = r.rev + 1
<1> DEFINE next == [r EXCEPT !.rev = @ + 1]
<1>1. next \in WarmRow
  <2>1. r.rev + 1 \in Nat
    BY DEF WarmRow
  <2>2. \A v \in Nat : [r EXCEPT !.rev = v] \in WarmRow
    BY DEF WarmRow
  <2>3. QED BY <2>1, <2>2
<1>2. next.rev = r.rev + 1
  BY DEF WarmRow
<1> HIDE DEF next
<1>3. Effect(kind, n, r) \in {AfterSuccess(n, next), AfterFailure(next), AfterQuota(next),
                              AfterPatch(kind, next)}
  BY DEF Effect, next
<1>4. QED
  BY <1>1, <1>2, <1>3, SuccessInRow, FailureInRow, QuotaInRow, PatchInRow

\* What a merge into the entry must keep: it is an entry, the quarantine flag is
\* the queue's alone to change, a quarantined entry stays disabled, and no
\* revision appears that neither side had.
Keeps(e, f, rev) ==
    /\ f \in Entry
    /\ f.rev \in {e.rev, rev}
    /\ f.quarantined = e.quarantined
    /\ (e.quarantined => e.disabled) => (f.quarantined => f.disabled)

\* Recomputing the disabled flag keeps the rest, and disables what is
\* quarantined.
LEMMA RecomputeKeeps ==
    ASSUME NEW e \in Entry
    PROVE  /\ Recompute(e) \in Entry
           /\ Recompute(e).rev = e.rev
           /\ Recompute(e).quarantined = e.quarantined
           /\ Recompute(e).quarantined => Recompute(e).disabled
<1>1. Recompute(e) \in Entry
  <2>1. \A y \in Whys, d \in BOOLEAN : [e EXCEPT !.why = y, !.disabled = d] \in Entry
    BY DEF Entry, Whys
  <2>2. (IF e.cred /\ e.why = "none" THEN "manual" ELSE e.why) \in Whys
    BY DEF Entry, Whys
  <2>3. QED BY <2>1, <2>2 DEF Recompute
<1>2. Recompute(e).rev = e.rev /\ Recompute(e).quarantined = e.quarantined
  BY DEF Recompute, Entry
<1>3. Recompute(e).quarantined => Recompute(e).disabled
  BY DEF Recompute, Entry
<1>4. QED BY <1>1, <1>2, <1>3

\* A newer row is taken over without lifting the quarantine.
LEMMA IfNewerKeeps ==
    ASSUME NEW e \in Entry, NEW r \in WarmRow
    PROVE  Keeps(e, IfNewer(e, r), r.rev)
<1>1. CASE r.rev <= e.rev
  BY <1>1 DEF IfNewer, Keeps
<1>2. CASE ~(r.rev <= e.rev)
  <2> DEFINE y == IF r.why = "none" /\ e.cred THEN "manual" ELSE r.why
             f == [e EXCEPT !.gen = r.gen, !.rev = r.rev, !.fails = r.fails, !.warm = r.warm,
                            !.why = y, !.disabled = e.quarantined \/ y # "none"]
  <2>1. IfNewer(e, r) = f
    BY <1>2 DEF IfNewer
  <2>2. f \in Entry
    <3>1. \A g, v, n \in Nat, w \in 0 .. Warmup, z \in Whys, d \in BOOLEAN :
            [e EXCEPT !.gen = g, !.rev = v, !.fails = n, !.warm = w, !.why = z, !.disabled = d]
               \in Entry
      BY DEF Entry, Whys
    <3>2. r.gen \in Nat /\ r.rev \in Nat /\ r.fails \in Nat /\ r.warm \in 0 .. Warmup
      BY DEF WarmRow
    <3>3. y \in Whys
      BY DEF WarmRow, Whys
    <3>4. (e.quarantined \/ y # "none") \in BOOLEAN
      OBVIOUS
    <3>5. QED BY <3>1, <3>2, <3>3, <3>4
  <2>3. f.rev = r.rev /\ f.quarantined = e.quarantined
    BY DEF Entry
  <2>4. f.quarantined => f.disabled
    BY DEF Entry
  <2>5. QED BY <2>1, <2>2, <2>3, <2>4 DEF Keeps
<1>3. QED BY <1>1, <1>2

\* Telling an entry the administrator's flag changes nothing else of it.
LEMMA ToldKeeps ==
    ASSUME NEW e \in Entry, NEW c \in BOOLEAN
    PROVE  LET told == [e EXCEPT !.cred = c] IN
           /\ told \in Entry /\ told.rev = e.rev
           /\ told.quarantined = e.quarantined /\ told.disabled = e.disabled
BY DEF Entry

\* The same of the row that a write answered with.
LEMMA AuthoritativeKeeps ==
    ASSUME NEW e \in Entry, NEW r \in WarmRow, NEW c \in BOOLEAN
    PROVE  Keeps(e, Authoritative(e, r, c), r.rev)
<1> DEFINE told == [e EXCEPT !.cred = c]
<1>1. told \in Entry /\ told.rev = e.rev /\ told.quarantined = e.quarantined
      /\ told.disabled = e.disabled
  BY ToldKeeps
<1> HIDE DEF told
<1>2. Authoritative(e, r, c) \in {e, IfNewer(told, r), Recompute(told)}
  BY DEF Authoritative, told
<1>3. CASE Authoritative(e, r, c) = e
  BY <1>3 DEF Keeps
<1>4. CASE Authoritative(e, r, c) = IfNewer(told, r)
  BY <1>1, <1>4, IfNewerKeeps DEF Keeps
<1>5. CASE Authoritative(e, r, c) = Recompute(told)
  BY <1>1, <1>5, RecomputeKeeps DEF Keeps
<1>6. QED BY <1>2, <1>3, <1>4, <1>5

\* And of the answer to a replayed mutation.
LEMMA PersistedKeeps ==
    ASSUME NEW e \in Entry, NEW answer \in Answers
    PROVE  Keeps(e, Persisted(e, answer), answer.row.rev)
<1> DEFINE c == IF answer.applied THEN answer.row.cred ELSE e.cred
<1>1. answer.row \in WarmRow
  BY DEF Answers
<1>2. c \in BOOLEAN
  BY <1>1 DEF WarmRow, Entry
<1> HIDE DEF c
<1>3. Persisted(e, answer) \in {e, Authoritative(e, answer.row, c)}
  BY DEF Persisted, c
<1>4. Keeps(e, e, answer.row.rev)
  BY DEF Keeps
<1>5. Keeps(e, Authoritative(e, answer.row, c), answer.row.rev)
  BY <1>1, <1>2, AuthoritativeKeeps
<1>6. QED BY <1>3, <1>4, <1>5

-----------------------------------------------------------------------------
(* What the steps do to the entry and to the row.                          *)

\* A success that is noted keeps the entry's flags and revision.
LEMMA NoteSuccessKeeps ==
    ASSUME entry \in Entry, NEW r, NoteSuccess(r), NEW v
    PROVE  Keeps(entry, entry', v)
<1> DEFINE w == IF entry.warm > 0 THEN entry.warm - 1 ELSE 0
<1>1. entry' = [entry EXCEPT !.fails = 0, !.warm = w]
  BY DEF NoteSuccess
<1>2. w \in 0 .. Warmup
  BY RuntimeAssumption DEF Entry
<1> HIDE DEF w
<1>3. entry' \in Entry
  BY <1>1, <1>2 DEF Entry
<1>4. entry'.rev = entry.rev /\ entry'.quarantined = entry.quarantined
      /\ entry'.disabled = entry.disabled
  BY <1>1 DEF Entry
<1>5. QED BY <1>3, <1>4 DEF Keeps

\* So does a failure; it may disable the account.
LEMMA NoteFailureKeeps ==
    ASSUME entry \in Entry, NEW r, NoteFailure(r), NEW v
    PROVE  Keeps(entry, entry', v)
<1>1. CASE entry' = entry
  BY <1>1 DEF Keeps
<1>2. CASE entry' # entry
  <2> DEFINE over == entry.fails + 1 >= MaxFailures
             y == IF over THEN "failures" ELSE entry.why
             d == entry.disabled \/ over
             f == entry.fails + 1
  <2>1. entry' = [entry EXCEPT !.fails = f, !.disabled = d, !.why = y]
    BY <1>2 DEF NoteFailure
  <2>2. f \in Nat
    BY DEF Entry
  <2>3. y \in Whys
    BY DEF Entry, Whys
  <2>4. d \in BOOLEAN /\ (entry.disabled => d)
    OBVIOUS
  <2> HIDE DEF f, y, d
  <2>5. entry' \in Entry
    <3>1. \A n \in Nat, b \in BOOLEAN, z \in Whys :
            [entry EXCEPT !.fails = n, !.disabled = b, !.why = z] \in Entry
      BY DEF Entry, Whys
    <3>2. QED BY <2>1, <2>2, <2>3, <2>4, <3>1
  <2>6. entry'.rev = entry.rev /\ entry'.quarantined = entry.quarantined /\ entry'.disabled = d
    BY <2>1 DEF Entry
  <2>7. QED BY <2>4, <2>5, <2>6 DEF Keeps
<1>3. QED BY <1>1, <1>2

\* So does an exhausted quota, which disables it.
LEMMA NoteQuotaKeeps ==
    ASSUME entry \in Entry, NEW r, NoteQuota(r), NEW v
    PROVE  Keeps(entry, entry', v)
<1>1. CASE entry' = entry
  BY <1>1 DEF Keeps
<1>2. CASE entry' # entry
  <2>1. entry' = [entry EXCEPT !.fails = MaxFailures, !.disabled = TRUE, !.why = "quota"]
    BY <1>2 DEF NoteQuota
  <2>2. MaxFailures \in Nat
    BY RuntimeAssumption
  <2>3. entry' \in Entry
    BY <2>1, <2>2 DEF Entry, Whys
  <2>4. entry'.rev = entry.rev /\ entry'.quarantined = entry.quarantined /\ entry'.disabled = TRUE
    BY <2>1 DEF Entry
  <2>5. QED BY <2>3, <2>4 DEF Keeps
<1>3. QED BY <1>1, <1>2

\* The command of the administrator, applied to the entry ahead of the row,
\* claims no revision and lifts no quarantine.
LEMMA AdminPatchKeeps ==
    ASSUME entry \in Entry, NEW a, AdminPatch(a), NEW v
    PROVE  Keeps(entry, entry', v)
<1> DEFINE on  == [entry EXCEPT !.fails = 0, !.why = "none", !.cred = FALSE]
           off == [entry EXCEPT !.why = "manual", !.cred = TRUE]
           e   == IF seen[a].kind = "enable" THEN on ELSE off
           f   == [e EXCEPT !.gen = @ + 1]
<1>1. entry' = Recompute(f)
  BY DEF AdminPatch
<1>2. on \in Entry /\ off \in Entry
  BY DEF Entry, Whys
<1>3. /\ on.rev = entry.rev /\ on.quarantined = entry.quarantined
      /\ off.rev = entry.rev /\ off.quarantined = entry.quarantined
  BY DEF Entry
<1>4. e \in Entry /\ e.rev = entry.rev /\ e.quarantined = entry.quarantined
  BY <1>2, <1>3
<1> HIDE DEF e, on, off
<1>5. f \in Entry
  <2>1. e.gen + 1 \in Nat
    BY <1>4 DEF Entry
  <2>2. \A g \in Nat : [e EXCEPT !.gen = g] \in Entry
    BY <1>4 DEF Entry
  <2>3. QED BY <2>1, <2>2
<1>6. f.rev = entry.rev /\ f.quarantined = entry.quarantined
  BY <1>4 DEF Entry
<1> HIDE DEF f
<1>7. QED BY <1>1, <1>5, <1>6, RecomputeKeeps DEF Keeps

\* A reload merges the row it read.
LEMMA ReloadKeeps ==
    ASSUME entry \in Entry, reload.snap \in WarmRow, ReloadApply
    PROVE  Keeps(entry, entry', reload.snap.rev)
<1> DEFINE s == reload.snap
           told == [entry EXCEPT !.cred = s.cred]
           manual == [told EXCEPT !.why = IF @ = "manual" /\ ~s.cred THEN "none" ELSE @]
<1>1. told \in Entry /\ told.rev = entry.rev /\ told.quarantined = entry.quarantined
      /\ told.disabled = entry.disabled
  <2>1. s.cred \in BOOLEAN
    BY DEF WarmRow
  <2>2. QED BY <2>1, ToldKeeps
<1>2. manual \in Entry /\ manual.rev = entry.rev /\ manual.quarantined = entry.quarantined
  <2> HIDE DEF told
  <2>1. (IF told.why = "manual" /\ ~s.cred THEN "none" ELSE told.why) \in Whys
    BY <1>1 DEF Entry, Whys
  <2>2. \A y \in Whys : [told EXCEPT !.why = y] \in Entry
    BY <1>1 DEF Entry, Whys
  <2>3. manual \in Entry
    BY <2>1, <2>2
  <2>4. manual.rev = told.rev /\ manual.quarantined = told.quarantined
    BY <1>1 DEF Entry
  <2>5. QED BY <1>1, <2>3, <2>4
<1>3. entry' \in {entry, IfNewer(told, s), Recompute(manual), told}
  BY DEF ReloadApply
<1> HIDE DEF told, manual
<1>4. Keeps(entry, entry, s.rev) /\ Keeps(entry, told, s.rev)
  BY <1>1 DEF Keeps
<1>5. Keeps(entry, IfNewer(told, s), s.rev)
  BY <1>1, IfNewerKeeps DEF Keeps
<1>6. Keeps(entry, Recompute(manual), s.rev)
  BY <1>2, RecomputeKeeps DEF Keeps
<1>7. QED BY <1>3, <1>4, <1>5, <1>6

\* Queueing a mutation sets the flags of the entry and disables it if it is
\* quarantined.
LEMMA EnqueueFlags ==
    ASSUME entry \in Entry, NEW m \in Mut, Enqueue(entry, m)
    PROVE  /\ entry' \in Entry /\ entry'.rev = entry.rev
           /\ entry'.quarantined = (m.quar \/ Quarantines(queue))
           /\ entry'.quarantined => entry'.disabled
<1> DEFINE q == m.quar \/ Quarantines(queue)
           f == [entry EXCEPT !.degraded = TRUE, !.quarantined = q]
<1>1. entry' = Recompute(f)
  BY DEF Enqueue
<1>2. q \in BOOLEAN
  OBVIOUS
<1> HIDE DEF q
<1>3. f \in Entry
  BY <1>2 DEF Entry
<1>4. f.rev = entry.rev /\ f.quarantined = q
  BY DEF Entry
<1> HIDE DEF f
<1>5. /\ entry' \in Entry /\ entry'.rev = entry.rev /\ entry'.quarantined = q
      /\ entry'.quarantined => entry'.disabled
  BY <1>1, <1>3, <1>4, RecomputeKeeps
<1>6. QED BY <1>5 DEF q

\* The worker writes the quarantine flag it computed.
LEMMA FlushMarkFlags ==
    ASSUME entry \in Entry, flush.m \in Flags, flush.answer \in Answers, FlushMark
    PROVE  /\ entry' \in Entry
           /\ entry'.rev \in {entry.rev, flush.answer.row.rev}
           /\ entry'.quarantined = flush.m.quar
           /\ entry'.quarantined => entry'.disabled
<1> DEFINE d == ~flush.m.empty
           f == [entry EXCEPT !.degraded = d, !.quarantined = flush.m.quar]
           p == Persisted(f, flush.answer)
<1>1. entry' = Recompute(p)
  BY DEF FlushMark
<1>2. d \in BOOLEAN /\ flush.m.quar \in BOOLEAN
  BY DEF Flags
<1> HIDE DEF d
<1>3. f \in Entry
  BY <1>2 DEF Entry
<1>4. f.rev = entry.rev /\ f.quarantined = flush.m.quar
  BY DEF Entry
<1> HIDE DEF f
<1>5. p \in Entry /\ p.rev \in {entry.rev, flush.answer.row.rev} /\ p.quarantined = flush.m.quar
  BY <1>3, <1>4, PersistedKeeps DEF Keeps
<1> HIDE DEF p
<1>6. QED BY <1>1, <1>5, RecomputeKeeps

\* A transaction applies a mutation at most once: the row changes only for an
\* operation that is not recorded, and is recorded with it.
LEMMA CommitFacts ==
    ASSUME row \in WarmRow, done \subseteq Ops, owed \subseteq Ops,
           NEW m, m.op \in Ops, m.n \in Nat, Commit(m)
    PROVE  /\ row' \in WarmRow /\ row.rev <= row'.rev
           /\ done \subseteq done' /\ done' \subseteq Ops
           /\ owed' = owed \ {m.op}
           /\ Persist(m) = "apply" => m.op \notin done /\ m.op \in done'
           /\ Persist(m) # "apply" => UNCHANGED db
<1>0. row.rev \in Nat
  BY DEF WarmRow
<1>1. owed' = owed \ {m.op}
  BY DEF Commit
<1>2. CASE Persist(m) = "apply"
  <2>1. row' = Effect(m.kind, m.n, row) /\ done' = done \cup {m.op}
    BY <1>2 DEF Commit
  <2>2. row' \in WarmRow /\ row'.rev = row.rev + 1
    BY <2>1, EffectInRow
  <2>3. row.rev <= row'.rev
    BY <1>0, <2>2
  <2>4. m.op \notin done
    BY <1>2 DEF Persist
  <2>5. QED BY <1>1, <1>2, <2>1, <2>2, <2>3, <2>4
<1>3. CASE Persist(m) # "apply"
  <2>1. UNCHANGED db
    BY <1>3 DEF Commit
  <2>2. row' = row /\ done' = done
    BY <2>1 DEF db
  <2>3. row.rev <= row'.rev
    BY <1>0, <2>2
  <2>4. QED BY <1>1, <1>3, <2>1, <2>2, <2>3
<1>4. QED BY <1>2, <1>3

-----------------------------------------------------------------------------
(* Next, as the queue sees it: steps beside it, steps that queue a         *)
(* mutation, and the steps of the worker.                                  *)

Types == DataInv /\ ControlInv /\ WorkInv

\* A step beside the queue: nothing is queued, replayed or owed anew, and the
\* quarantine is not lifted.
Aside ==
    /\ UNCHANGED <<queue, flush, last, overtaken>>
    /\ Enqueued' = Enqueued
    /\ row.rev <= row'.rev /\ done \subseteq done' /\ owed' \subseteq owed
    /\ entry'.quarantined = entry.quarantined
    /\ (entry.quarantined => entry.disabled) => (entry'.quarantined => entry'.disabled)

\* A step that queues m, for the first time and with the next number.
Puts(m) ==
    /\ m \in Mut /\ m.op \notin Enqueued /\ m.no = 1 + Cardinality(Enqueued)
    /\ Enqueue(entry, m)
    /\ Enqueued' = Enqueued \cup {m.op}
    /\ UNCHANGED <<row, done, flush, last>>

\* A merge of a revision that the row has reached keeps the data in order.
LEMMA MergeKeepsData ==
    ASSUME DataInv, row' \in WarmRow, row.rev <= row'.rev, UNCHANGED reload,
           NEW v \in Nat, v <= row'.rev, Keeps(entry, entry', v)
    PROVE  DataInv'
<1>0. row.rev \in Nat /\ row'.rev \in Nat /\ entry.rev \in Nat
  BY DEF DataInv, WarmRow, Entry
<1>1. entry' \in Entry /\ entry'.rev \in {entry.rev, v}
  BY DEF Keeps
<1>2. entry'.rev <= row'.rev
  BY <1>0, <1>1 DEF DataInv
<1>3. reload.at = "apply" => reload.snap.rev <= row'.rev
  <2> SUFFICES ASSUME reload.at = "apply" PROVE reload.snap.rev <= row'.rev
    OBVIOUS
  <2>1. reload.snap.rev \in Nat /\ reload.snap.rev <= row.rev
    BY DEF DataInv, WarmRow
  <2>2. QED BY <1>0, <2>1
<1>4. QED BY <1>1, <1>2, <1>3 DEF DataInv

\* Steps that neither queue nor unqueue their operation.
LEMMA GotoAside ==
    ASSUME st \in [Ops -> Steps], NEW op \in Ops, NEW s \in Steps, Goto(op, s),
           st[op] \in {"patch", "queued"} <=> s \in {"patch", "queued"}
    PROVE  st' \in [Ops -> Steps] /\ Enqueued' = Enqueued
<1>1. st' = [st EXCEPT ![op] = s]
  BY DEF Goto
<1>2. st' \in [Ops -> Steps]
  BY <1>1
<1>3. \A o \in Ops : st'[o] = IF o = op THEN s ELSE st[o]
  BY <1>1
<1>4. QED BY <1>2, <1>3 DEF Enqueued

\* Steps that queue it.
LEMMA GotoQueue ==
    ASSUME st \in [Ops -> Steps], NEW op \in Ops, NEW s \in {"patch", "queued"}, Goto(op, s)
    PROVE  st' \in [Ops -> Steps] /\ Enqueued' = Enqueued \cup {op}
<1>1. st' = [st EXCEPT ![op] = s]
  BY DEF Goto
<1>2. st' \in [Ops -> Steps]
  BY <1>1 DEF Steps
<1>3. \A o \in Ops : st'[o] = IF o = op THEN s ELSE st[o]
  BY <1>1
<1>4. QED BY <1>2, <1>3 DEF Enqueued

Known == [Ops -> [kind : Names, gen : Nat]]

\* What an operation sees is of the right type.
LEMMA SeesType ==
    ASSUME seen \in Known, entry \in Entry, NEW op \in Ops, NEW k \in Names, Sees(op, k)
    PROVE  seen' \in Known
<1>1. entry.gen \in Nat
  BY DEF Entry
<1>2. [kind |-> k, gen |-> entry.gen] \in [kind : Names, gen : Nat]
  BY <1>1
<1>3. QED BY <1>2 DEF Sees, Known

\* Likewise once it is forgotten.
LEMMA LeaveType ==
    ASSUME seen \in Known, NEW op \in Ops, NEW s, Leave(op, s)
    PROVE  seen' \in Known /\ Goto(op, s)
<1>1. Unseen \in [kind : Names, gen : Nat]
  BY DEF Unseen, Names
<1>2. QED BY <1>1 DEF Leave, Known

\* The number of queued operations is a natural number, and one that is queued
\* for the first time adds one.
LEMMA EnqueuedCount ==
    /\ Cardinality(Enqueued) \in Nat /\ Cardinality(Enqueued) <= Cardinality(Ops)
    /\ IsFiniteSet(Enqueued)
    /\ \A op \in Ops \ Enqueued :
          Cardinality(Enqueued \cup {op}) = Cardinality(Enqueued) + 1
<1>1. IsFiniteSet(Ops) /\ Enqueued \subseteq Ops
  BY RuntimeAssumption DEF Enqueued
<1>2. IsFiniteSet(Enqueued) /\ Cardinality(Enqueued) <= Cardinality(Ops)
  BY <1>1, FS_Subset
<1>3. QED BY <1>2, FS_CardinalityType, FS_AddElement

\* Mutations are mutations.
LEMMA MutationType ==
    ASSUME st \in [Ops -> Steps], NEW op \in Ops, NEW s \in [kind : Names, gen : Nat],
           NEW quar \in BOOLEAN
    PROVE  LET m == Mutation(op, s, quar) IN
           m \in Mut /\ m.op = op /\ m.n = 1 /\ m.quar = quar /\ m.no = 1 + Cardinality(Enqueued)
<1> DEFINE c == 1 + Cardinality(Enqueued)
<1>1. c \in Nat
  BY EnqueuedCount
<1>2. Mutation(op, s, quar) =
        [op |-> op, kind |-> s.kind, n |-> 1, gen |-> s.gen, quar |-> quar, no |-> c]
  BY DEF Mutation, Enqueued
<1> HIDE DEF c
<1>3. QED BY <1>1, <1>2 DEF Mut, c

\* Results of requests, before they are queued, are steps beside the queue.
LEMMA ReportsAside ==
    ASSUME Types, NEW r \in Ops,
           NoteSuccess(r) \/ ReadGeneration(r) \/ NoteFailure(r) \/ NoteQuota(r)
    PROVE  DataInv' /\ ControlInv' /\ Aside
<1>1. /\ row' = row /\ done' = done /\ last' = last /\ owed' = owed /\ overtaken' = overtaken
      /\ queue' = queue /\ flush' = flush /\ reload' = reload
  BY DEF NoteSuccess, ReadGeneration, NoteFailure, NoteQuota, db, history
<1>2. entry \in Entry /\ row \in WarmRow /\ row.rev \in Nat /\ row'.rev = row.rev
  BY <1>1 DEF Types, DataInv, WarmRow
<1>3. st \in [Ops -> Steps] /\ seen \in Known
  BY DEF Types, ControlInv, Known
<1>4. Keeps(entry, entry', row.rev)
  <2>1. CASE ReadGeneration(r)
    BY <1>2, <2>1 DEF ReadGeneration, Keeps
  <2>2. QED
    BY <1>2, <2>1, NoteSuccessKeeps, NoteFailureKeeps, NoteQuotaKeeps
<1>5. DataInv'
  <2>1. row' \in WarmRow /\ row.rev <= row'.rev
    BY <1>1, <1>2
  <2>2. DataInv
    BY DEF Types
  <2>3. QED BY <1>1, <1>2, <1>4, <2>1, <2>2, MergeKeepsData
<1>6. st' \in [Ops -> Steps] /\ Enqueued' = Enqueued
  <2>1. st[r] \in {"new", "read"}
    BY DEF NoteSuccess, ReadGeneration, NoteFailure, NoteQuota
  <2>2. \E s \in {"noted", "read", "ended"} : Goto(r, s)
    BY DEF NoteSuccess, ReadGeneration, NoteFailure, NoteQuota, Leave
  <2>3. PICK s \in {"noted", "read", "ended"} : Goto(r, s)
    BY <2>2
  <2>4. s \in Steps /\ s \notin {"patch", "queued"} /\ st[r] \notin {"patch", "queued"}
    BY <2>1, <2>3 DEF Steps
  <2>5. QED BY <1>3, <2>3, <2>4, GotoAside
<1>7. seen' \in Known
  <2>1. seen' = seen \/ Leave(r, "ended") \/ (\E k \in Names : Sees(r, k))
    BY DEF NoteSuccess, ReadGeneration, NoteFailure, NoteQuota, Names
  <2>2. QED BY <1>2, <1>3, <2>1, LeaveType, SeesType
<1>8. ControlInv'
  BY <1>1, <1>6, <1>7 DEF Types, ControlInv, Known
<1>9. Aside
  <2>1. row.rev <= row'.rev
    BY <1>2
  <2>2. QED BY <1>1, <1>4, <1>6, <2>1 DEF Aside, Keeps
<1>10. QED BY <1>5, <1>8, <1>9

\* So are the start of a command and its patch of the entry.
LEMMA CommandsAside ==
    ASSUME Types, NEW a \in Ops, (\E kind \in Names : AdminStart(a, kind)) \/ AdminPatch(a)
    PROVE  DataInv' /\ ControlInv' /\ Aside
<1>1. /\ row' = row /\ done' = done /\ last' = last /\ owed' = owed /\ overtaken' = overtaken
      /\ queue' = queue /\ flush' = flush /\ reload' = reload
  BY DEF AdminStart, AdminPatch, db, history
<1>2. entry \in Entry /\ row \in WarmRow /\ row.rev \in Nat /\ row'.rev = row.rev
  BY <1>1 DEF Types, DataInv, WarmRow
<1>3. st \in [Ops -> Steps] /\ seen \in Known
  BY DEF Types, ControlInv, Known
<1>4. Keeps(entry, entry', row.rev)
  <2>1. CASE \E kind \in Names : AdminStart(a, kind)
    BY <1>2, <2>1 DEF AdminStart, Keeps
  <2>2. QED
    BY <1>2, <2>1, AdminPatchKeeps
<1>5. DataInv'
  <2>1. row' \in WarmRow /\ row.rev <= row'.rev
    BY <1>1, <1>2
  <2>2. DataInv
    BY DEF Types
  <2>3. QED BY <1>1, <1>2, <1>4, <2>1, <2>2, MergeKeepsData
<1>6. st' \in [Ops -> Steps] /\ Enqueued' = Enqueued
  <2>1. CASE \E kind \in Names : AdminStart(a, kind)
    <3>1. \E s \in {"defer", "direct"} : Goto(a, s)
      BY <2>1 DEF AdminStart
    <3>2. PICK s \in {"defer", "direct"} : Goto(a, s)
      BY <3>1
    <3>3. s \in Steps /\ s \notin {"patch", "queued"} /\ st[a] \notin {"patch", "queued"}
      BY <2>1, <3>2 DEF Steps, AdminStart
    <3>4. QED BY <1>3, <3>2, <3>3, GotoAside
  <2>2. CASE AdminPatch(a)
    <3>1. st[a] = "patch" /\ Goto(a, "queued") /\ "queued" \in Steps
      BY <2>2 DEF AdminPatch, Leave, Steps
    <3>2. QED BY <1>3, <3>1, GotoAside
  <2>3. QED BY <2>1, <2>2
<1>7. seen' \in Known
  <2>1. Leave(a, "queued") \/ (\E k \in Names : Sees(a, k))
    BY DEF AdminStart, AdminPatch
  <2>2. QED BY <1>2, <1>3, <2>1, LeaveType, SeesType
<1>8. ControlInv'
  BY <1>1, <1>6, <1>7 DEF Types, ControlInv, Known
<1>9. Aside
  <2>1. row.rev <= row'.rev
    BY <1>2
  <2>2. QED BY <1>1, <1>4, <1>6, <2>1 DEF Aside, Keeps
<1>10. QED BY <1>5, <1>8, <1>9

\* So are the writes that do not go through the queue: a command's, answered or
\* not, and another process's.
LEMMA WritesAside ==
    ASSUME Types, NEW a \in Ops,
           AdminWrite(a) \/ AdminWriteFails(a) \/ (\E kind \in Names : RemoteWrite(a, kind))
    PROVE  DataInv' /\ ControlInv' /\ Aside
<1>1. /\ last' = last /\ overtaken' = overtaken
      /\ queue' = queue /\ flush' = flush /\ reload' = reload
  BY DEF AdminWrite, AdminWriteFails, RemoteWrite, history
<1>2. entry \in Entry /\ row \in WarmRow /\ row.rev \in Nat /\ DataInv
  BY DEF Types, DataInv, WarmRow
<1>3. st \in [Ops -> Steps] /\ seen \in Known /\ done \subseteq Ops /\ owed \subseteq Ops
  BY DEF Types, ControlInv, Known
<1>4. /\ row' \in WarmRow /\ row.rev <= row'.rev
      /\ done \subseteq done' /\ done' \subseteq Ops /\ owed' \subseteq owed
  <2> DEFINE m == Mutation(a, seen[a], FALSE)
  <2>1. m.op \in Ops /\ m.n \in Nat
    BY DEF Mutation
  <2> HIDE DEF m
  <2>2. CASE Commit(m)
    BY <1>2, <1>3, <2>1, <2>2, CommitFacts
  <2>3. CASE UNCHANGED <<db, owed>>
    BY <1>2, <1>3, <2>3 DEF db
  <2>4. CASE \E kind \in Names : RemoteWrite(a, kind)
    <3>1. PICK kind : RemoteWrite(a, kind)
      BY <2>4
    <3>2. row' = Effect(kind, 1, row) /\ done' = done \cup {a} /\ owed' = owed
      BY <3>1 DEF RemoteWrite, history
    <3>3. row' \in WarmRow /\ row'.rev = row.rev + 1
      BY <1>2, <3>2, EffectInRow
    <3>4. row.rev <= row'.rev
      BY <1>2, <3>3
    <3>5. QED BY <1>3, <3>2, <3>3, <3>4
  <2>5. QED BY <2>2, <2>3, <2>4 DEF AdminWrite, AdminWriteFails, m
<1>5. row'.rev \in Nat
  BY <1>4 DEF WarmRow
<1>6. Keeps(entry, entry', row'.rev)
  <2>1. CASE AdminWrite(a)
    <3>1. entry' = Authoritative(entry, row', row'.cred) /\ row'.cred \in BOOLEAN
      BY <1>4, <2>1 DEF AdminWrite, WarmRow
    <3>2. QED BY <1>2, <1>4, <3>1, AuthoritativeKeeps
  <2>2. CASE entry' = entry
    BY <1>2, <2>2 DEF Keeps
  <2>3. QED BY <2>1, <2>2 DEF AdminWriteFails, RemoteWrite
<1>7. DataInv'
  <2>1. row'.rev <= row'.rev
    BY <1>5
  <2>2. QED BY <1>1, <1>2, <1>4, <1>5, <1>6, <2>1, MergeKeepsData
<1>8. st' \in [Ops -> Steps] /\ Enqueued' = Enqueued
  <2>1. st[a] \in {"direct", "new"} /\ Goto(a, "ended") /\ "ended" \in Steps
    BY DEF AdminWrite, AdminWriteFails, RemoteWrite, Leave, Steps
  <2>2. QED BY <1>3, <2>1, GotoAside
<1>9. seen' \in Known
  <2>1. seen' = seen \/ Leave(a, "ended")
    BY DEF AdminWrite, AdminWriteFails, RemoteWrite
  <2>2. QED BY <1>3, <2>1, LeaveType
<1>10. ControlInv'
  BY <1>1, <1>3, <1>4, <1>8, <1>9 DEF Types, ControlInv, Known
<1>11. Aside
  BY <1>1, <1>4, <1>6, <1>8 DEF Aside, Keeps
<1>12. QED BY <1>7, <1>10, <1>11

\* So are the two halves of a reload.
LEMMA ReloadsAside ==
    ASSUME Types, ReloadRead \/ ReloadApply
    PROVE  DataInv' /\ ControlInv' /\ Aside
<1>1. /\ row' = row /\ done' = done /\ last' = last /\ owed' = owed /\ overtaken' = overtaken
      /\ queue' = queue /\ flush' = flush /\ st' = st /\ seen' = seen
  BY DEF ReloadRead, ReloadApply, db, history
<1>2. entry \in Entry /\ row \in WarmRow /\ row.rev \in Nat /\ entry.rev \in Nat
      /\ entry.rev <= row.rev
  BY DEF Types, DataInv, WarmRow, Entry
<1>3. ControlInv'
  BY <1>1 DEF Types, ControlInv
<1>4. Enqueued' = Enqueued
  BY <1>1 DEF Enqueued
<1>5. CASE ReloadRead
  <2>1. entry' = entry /\ reload' = [at |-> "apply", snap |-> row]
    BY <1>5 DEF ReloadRead
  <2>2. row.rev <= row.rev
    BY <1>2
  <2>3. DataInv'
    BY <1>1, <1>2, <2>1, <2>2 DEF DataInv
  <2>4. Aside
    BY <1>1, <1>4, <2>1, <2>2 DEF Aside
  <2>5. QED BY <1>3, <2>3, <2>4
<1>6. CASE ReloadApply
  <2>1. reload.snap \in WarmRow /\ reload.snap.rev <= row.rev /\ reload' = NoReload
    BY <1>6 DEF ReloadApply, Types, DataInv
  <2>2. Keeps(entry, entry', reload.snap.rev)
    BY <1>2, <1>6, <2>1, ReloadKeeps
  <2>3. entry' \in Entry /\ entry'.rev <= row.rev
    BY <1>2, <2>1, <2>2 DEF Keeps
  <2>4. reload'.at = "idle"
    BY <2>1 DEF NoReload
  <2>5. DataInv'
    BY <1>1, <1>2, <2>3, <2>4 DEF DataInv
  <2>6. Aside
    <3>1. row.rev <= row'.rev
      BY <1>1, <1>2
    <3>2. QED BY <1>1, <1>4, <2>2, <3>1 DEF Aside, Keeps
  <2>7. QED BY <1>3, <2>5, <2>6
<1>7. QED BY <1>5, <1>6

\* Results and commands are queued once, with the next number.
LEMMA QueueingPuts ==
    ASSUME Types, NEW op \in Ops, EnqueueReport(op) \/ AdminEnqueue(op)
    PROVE  DataInv' /\ ControlInv' /\ \E m : Puts(m)
<1>1. /\ row' = row /\ done' = done /\ last' = last /\ flush' = flush /\ reload' = reload
  BY DEF EnqueueReport, AdminEnqueue, db
<1>2. entry \in Entry /\ row \in WarmRow /\ DataInv
  BY DEF Types, DataInv
<1>3. st \in [Ops -> Steps] /\ seen \in Known /\ owed \subseteq Ops
  BY DEF Types, ControlInv, Known
<1>4. seen[op] \in [kind : Names, gen : Nat]
  BY <1>3 DEF Known
<1>5. \E q \in BOOLEAN : Enqueue(entry, Mutation(op, seen[op], q))
  <2>1. CASE EnqueueReport(op)
    <3>1. (seen[op].kind = "quota") \in BOOLEAN
      OBVIOUS
    <3>2. QED BY <2>1, <3>1 DEF EnqueueReport
  <2>2. CASE AdminEnqueue(op)
    <3>1. (~Neutral(seen[op].kind)) \in BOOLEAN
      OBVIOUS
    <3>2. QED BY <2>2, <3>1 DEF AdminEnqueue
  <2>3. QED BY <2>1, <2>2
<1>6. PICK q \in BOOLEAN : Enqueue(entry, Mutation(op, seen[op], q))
  BY <1>5
<1> DEFINE m == Mutation(op, seen[op], q)
<1>7. m \in Mut /\ m.op = op /\ m.no = 1 + Cardinality(Enqueued)
  BY <1>3, <1>4, MutationType
<1> HIDE DEF m
<1>8. Enqueue(entry, m)
  BY <1>6 DEF m
<1>9. st[op] \in {"noted", "defer"} /\ \E s \in {"patch", "queued"} : Goto(op, s)
  BY DEF EnqueueReport, AdminEnqueue, Leave
<1>10. st' \in [Ops -> Steps] /\ Enqueued' = Enqueued \cup {op}
  BY <1>3, <1>9, GotoQueue
<1>11. op \notin Enqueued
  BY <1>9 DEF Enqueued
<1>12. seen' \in Known
  <2>1. seen' = seen \/ Leave(op, "queued")
    BY DEF EnqueueReport, AdminEnqueue
  <2>2. QED BY <1>3, <2>1, LeaveType
<1>13. owed' \subseteq Ops /\ overtaken' \in {"no", "before", "after"}
  BY <1>3, <1>7, <1>8 DEF Enqueue
<1>14. ControlInv'
  BY <1>1, <1>10, <1>12, <1>13 DEF Types, ControlInv, Known
<1>15. DataInv'
  <2>1. entry' \in Entry /\ entry'.rev = entry.rev
    BY <1>2, <1>7, <1>8, EnqueueFlags
  <2>2. QED BY <1>1, <1>2, <2>1 DEF DataInv
<1>16. Puts(m)
  BY <1>1, <1>7, <1>8, <1>10, <1>11 DEF Puts
<1>17. QED BY <1>14, <1>15, <1>16

\* So every step is beside the queue, queues a mutation, or is the worker's.
LEMMA Moves ==
    ASSUME Types, [Next]_vars
    PROVE  \/ DataInv' /\ ControlInv' /\ Aside
           \/ DataInv' /\ ControlInv' /\ \E m : Puts(m)
           \/ FlushTake \/ FlushWrite \/ FlushFails \/ FlushPop \/ FlushMark
<1>1. \A r \in Reports : r \in Ops /\ Kinds[r] \subseteq Names
  BY RuntimeAssumption DEF Ops, Names
<1>2. \A a \in Admins \cup Remotes : a \in Ops /\ Kinds[a] \subseteq Names
  BY RuntimeAssumption DEF Ops, Names
<1>3. CASE \E r \in Reports : ReportStep(r)
  <2>1. PICK r \in Reports : ReportStep(r)
    BY <1>3
  <2>2. r \in Ops
    BY <1>1
  <2>3. CASE EnqueueReport(r)
    BY <2>2, <2>3, QueueingPuts
  <2>4. CASE NoteSuccess(r) \/ ReadGeneration(r) \/ NoteFailure(r) \/ NoteQuota(r)
    BY <2>2, <2>4, ReportsAside
  <2>5. QED BY <2>1, <2>3, <2>4 DEF ReportStep
<1>4. CASE \E a \in Admins : AdminStep(a)
  <2>1. PICK a \in Admins : AdminStep(a)
    BY <1>4
  <2>2. a \in Ops /\ Kinds[a] \subseteq Names
    BY <1>2
  <2>3. CASE (\E kind \in Names : AdminStart(a, kind)) \/ AdminPatch(a)
    BY <2>2, <2>3, CommandsAside
  <2>4. CASE AdminEnqueue(a)
    BY <2>2, <2>4, QueueingPuts
  <2>5. CASE AdminWrite(a) \/ AdminWriteFails(a)
    BY <2>2, <2>5, WritesAside
  <2>6. QED BY <2>1, <2>2, <2>3, <2>4, <2>5 DEF AdminStep
<1>5. CASE \E p \in Remotes : \E kind \in Kinds[p] : RemoteWrite(p, kind)
  <2>1. PICK p \in Remotes : \E kind \in Kinds[p] : RemoteWrite(p, kind)
    BY <1>5
  <2>2. p \in Ops /\ Kinds[p] \subseteq Names
    BY <1>2
  <2>3. QED BY <2>1, <2>2, WritesAside
<1>6. CASE FlushStep
  BY <1>6 DEF FlushStep
<1>7. CASE ReloadRead \/ ReloadApply
  BY <1>7, ReloadsAside
<1>8. CASE UNCHANGED vars
  <2>1. /\ row' = row /\ done' = done /\ entry' = entry /\ queue' = queue /\ flush' = flush
        /\ reload' = reload /\ st' = st /\ seen' = seen /\ last' = last /\ owed' = owed
        /\ overtaken' = overtaken
    BY <1>8 DEF vars, db, history
  <2>2. DataInv' /\ ControlInv'
    BY <2>1 DEF Types, DataInv, ControlInv
  <2>3. row.rev <= row'.rev
    BY <2>1 DEF Types, DataInv, WarmRow
  <2>4. Enqueued' = Enqueued
    BY <2>1 DEF Enqueued
  <2>5. Aside
    BY <2>1, <2>3, <2>4 DEF Aside
  <2>6. QED BY <2>2, <2>5
<1>9. QED BY <1>3, <1>4, <1>5, <1>6, <1>7, <1>8 DEF Next

\* The queue after a mutation was queued: what was there keeps its place, its
\* operation, number and flag, whether or not a success has joined the last
\* one; and what is no success is there.
LEMMA EnqueueQueue ==
    ASSUME queue \in Seq(Mut), NEW m \in Mut, Enqueue(entry, m)
    PROVE  /\ queue' \in Seq(Mut)
           /\ DOMAIN queue \subseteq DOMAIN queue'
           /\ \A i \in DOMAIN queue : /\ queue'[i].op = queue[i].op
                                      /\ queue'[i].no = queue[i].no
                                      /\ queue'[i].quar = queue[i].quar
           /\ \A i \in DOMAIN queue' \ DOMAIN queue : i = Len(queue) + 1 /\ queue'[i] = m
           /\ m.kind # "success" => \E i \in DOMAIN queue' : queue'[i] = m
<1>0. Len(queue) \in Nat /\ DOMAIN queue = 1 .. Len(queue)
  OBVIOUS
<1>1. CASE Coalesces(m)
  <2>1. m.kind = "success" /\ queue # <<>>
    BY <1>1 DEF Coalesces
  <2> DEFINE k == Len(queue)
             c == queue[k].n + 1
             x == [queue[k] EXCEPT !.n = c]
  <2>2. k \in DOMAIN queue /\ queue[k] \in Mut
    BY <1>0, <2>1
  <2>3. c \in Nat
    BY <2>2 DEF Mut
  <2>4. queue' = [queue EXCEPT ![k] = x]
    BY <1>1 DEF Enqueue
  <2> HIDE DEF k, c
  <2>5. x \in Mut /\ x.op = queue[k].op /\ x.no = queue[k].no /\ x.quar = queue[k].quar
    BY <2>2, <2>3 DEF Mut
  <2> HIDE DEF x
  <2>6. queue' \in Seq(Mut) /\ DOMAIN queue' = DOMAIN queue
    BY <2>2, <2>4, <2>5, ExceptSeq
  <2>7. \A i \in DOMAIN queue : queue'[i] = IF i = k THEN x ELSE queue[i]
    BY <2>4
  <2>8. QED BY <2>1, <2>5, <2>6, <2>7
<1>2. CASE ~Coalesces(m)
  <2>1. queue' = Append(queue, m)
    BY <1>2 DEF Enqueue
  <2>2. queue' \in Seq(Mut) /\ Len(queue') = Len(queue) + 1
    BY <2>1, AppendProperties
  <2>3. \A i \in 1 .. Len(queue) : queue'[i] = queue[i]
    BY <2>1, AppendProperties
  <2>4. queue'[Len(queue) + 1] = m
    BY <2>1, AppendProperties
  <2>5. DOMAIN queue' = 1 .. Len(queue) + 1
    BY <2>2
  <2>6. QED BY <1>0, <2>2, <2>3, <2>4, <2>5
<1>3. QED BY <1>1, <1>2

\* The queue after its front was removed.
LEMMA PopQueue ==
    ASSUME queue \in Seq(Mut), flush \in Worker, FrontInv, FlushPop
    PROVE  /\ queue' \in Seq(Mut)
           /\ \A i \in DOMAIN queue' : i + 1 \in DOMAIN queue /\ queue'[i] = queue[i + 1]
           /\ \A i \in DOMAIN queue : i = 1 \/ (i - 1 \in DOMAIN queue' /\ queue'[i - 1] = queue[i])
           /\ flush'.at = "mark" /\ flush'.m \in Flags /\ flush'.m.quar = Quarantines(queue')
           /\ flush'.answer = flush.answer
           /\ flush' \in Worker
<1>1. queue # <<>> /\ queue[1].op = flush.m.op
  BY DEF FlushPop, FrontInv
<1>2. queue' = Tail(queue)
  BY <1>1 DEF FlushPop
<1>3. queue' \in Seq(Mut) /\ Len(queue') = Len(queue) - 1
  BY <1>1, <1>2, HeadTailProperties
<1>4. \A i \in 1 .. Len(queue') : queue'[i] = queue[i + 1]
  BY <1>1, <1>2, <1>3
<1>5. Len(queue) \in Nat /\ DOMAIN queue = 1 .. Len(queue) /\ DOMAIN queue' = 1 .. Len(queue) - 1
  BY <1>3
<1>6. \A i \in DOMAIN queue' : i + 1 \in DOMAIN queue /\ queue'[i] = queue[i + 1]
  BY <1>3, <1>4, <1>5
<1>7. \A i \in DOMAIN queue : i = 1 \/ (i - 1 \in DOMAIN queue' /\ queue'[i - 1] = queue[i])
  BY <1>4, <1>3, <1>5
<1> DEFINE f == [empty |-> queue' = <<>>, quar |-> Quarantines(queue')]
<1>8. flush' = [flush EXCEPT !.at = "mark", !.m = f]
  BY DEF FlushPop
<1>9. f \in Flags /\ f.quar = Quarantines(queue')
  <2>1. (queue' = <<>>) \in BOOLEAN /\ Quarantines(queue') \in BOOLEAN
    BY DEF Quarantines
  <2>2. QED BY <2>1 DEF Flags
<1> HIDE DEF f
<1>10. /\ flush'.at = "mark" /\ flush'.m = f /\ flush'.answer = flush.answer
       /\ flush' \in Worker
  BY <1>8, <1>9 DEF Worker
<1>11. QED BY <1>3, <1>6, <1>7, <1>9, <1>10

-----------------------------------------------------------------------------
(* The types.                                                              *)

\* What the worker's steps do to itself and to the row: the mutation it took is
\* the front; its answer is the row as the transaction left it; afterwards it
\* is idle.
LEMMA WorkerSteps ==
    ASSUME Types, FrontInv
    PROVE  /\ FlushTake => flush' \in Worker /\ flush'.at = "write" /\ queue # <<>>
                           /\ flush'.m = queue[1] /\ flush'.m \in Mut
           /\ FlushWrite => /\ flush' \in Worker /\ flush'.at = "pop" /\ flush'.m = flush.m
                            /\ flush'.answer \in Answers /\ flush'.answer.row = row'
           /\ FlushWrite \/ FlushFails =>
                 /\ row' \in WarmRow /\ row.rev <= row'.rev
                 /\ done \subseteq done' /\ done' \subseteq Ops
                 /\ owed' \in {owed, owed \ {flush.m.op}}
                 /\ last' = last \/ (last' = flush.m.no /\ flush.m.op \in done')
                 /\ row' # row => flush.m.op \notin done
           /\ FlushFails \/ FlushMark => flush' \in Worker /\ flush'.at = "idle"
<1>0. flush \in Worker /\ queue \in Seq(Mut) /\ row \in WarmRow
      /\ done \subseteq Ops /\ owed \subseteq Ops
  BY DEF Types, WorkInv, DataInv, ControlInv
<1>1. ASSUME FlushTake
      PROVE  flush' \in Worker /\ flush'.at = "write" /\ queue # <<>>
             /\ flush'.m = queue[1] /\ flush'.m \in Mut
  <2>1. queue # <<>> /\ flush' = [flush EXCEPT !.at = "write", !.m = Head(queue)]
    BY <1>1 DEF FlushTake
  <2>2. Head(queue) = queue[1] /\ Head(queue) \in Mut
    BY <1>0, <2>1
  <2>3. QED BY <1>0, <2>1, <2>2 DEF Worker
<1>2. ASSUME FlushWrite \/ FlushFails
      PROVE  /\ row' \in WarmRow /\ row.rev <= row'.rev
             /\ done \subseteq done' /\ done' \subseteq Ops
             /\ owed' \in {owed, owed \ {flush.m.op}}
             /\ last' = last \/ (last' = flush.m.no /\ flush.m.op \in done')
             /\ row' # row => flush.m.op \notin done
  <2>1. flush.m \in Mut
    BY <1>2 DEF FlushWrite, FlushFails, Types, WorkInv
  <2>2. flush.m.op \in Ops /\ flush.m.n \in Nat
    BY <2>1 DEF Mut
  <2>3. \/ Commit(flush.m) /\ last' = IF Persist(flush.m) = "apply" THEN flush.m.no ELSE last
        \/ UNCHANGED <<db, owed, last>>
    BY <1>2 DEF FlushWrite, FlushFails
  <2>4. CASE Commit(flush.m) /\ last' = IF Persist(flush.m) = "apply" THEN flush.m.no ELSE last
    <3>1. /\ row' \in WarmRow /\ row.rev <= row'.rev
          /\ done \subseteq done' /\ done' \subseteq Ops
          /\ owed' = owed \ {flush.m.op}
          /\ Persist(flush.m) = "apply" => flush.m.op \notin done /\ flush.m.op \in done'
          /\ Persist(flush.m) # "apply" => UNCHANGED db
      BY <1>0, <2>2, <2>4, CommitFacts
    <3>2. row' # row => Persist(flush.m) = "apply"
      BY <3>1 DEF db
    <3>3. QED BY <2>4, <3>1, <3>2
  <2>5. CASE UNCHANGED <<db, owed, last>>
    <3>1. row' = row /\ done' = done /\ owed' = owed /\ last' = last
      BY <2>5 DEF db
    <3>2. row.rev <= row.rev
      BY <1>0 DEF WarmRow
    <3>3. QED BY <1>0, <3>1, <3>2
  <2>6. QED BY <2>3, <2>4, <2>5
<1>3. ASSUME FlushWrite
      PROVE  /\ flush' \in Worker /\ flush'.at = "pop" /\ flush'.m = flush.m
             /\ flush'.answer \in Answers /\ flush'.answer.row = row'
  <2>1. flush' = [flush EXCEPT !.at = "pop", !.answer = Answer(flush.m)]
    BY <1>3 DEF FlushWrite
  <2>2. Answer(flush.m) \in Answers /\ Answer(flush.m).row = row'
    <3>1. row' \in WarmRow
      BY <1>2, <1>3
    <3>2. (Persist(flush.m) # "stale") \in BOOLEAN
      OBVIOUS
    <3>3. QED BY <3>1, <3>2 DEF Answer, Answers
  <2>3. QED BY <1>0, <2>1, <2>2 DEF Worker
<1>4. ASSUME FlushFails \/ FlushMark PROVE flush' \in Worker /\ flush'.at = "idle"
  BY <1>4 DEF FlushFails, FlushMark, NoFlush, Worker
<1>5. QED BY <1>1, <1>2, <1>3, <1>4

\* Steps of the worker leave the results and commands where they are.
LEMMA WorkerLeaves ==
    ASSUME FlushTake \/ FlushWrite \/ FlushFails \/ FlushPop \/ FlushMark
    PROVE  st' = st /\ seen' = seen /\ reload' = reload /\ Enqueued' = Enqueued
BY DEF FlushTake, FlushWrite, FlushFails, FlushPop, FlushMark, Enqueued

\* Every step keeps the types.
LEMMA TypesStep ==
    ASSUME Types, FrontInv, [Next]_vars
    PROVE  Types'
<1>0. /\ flush \in Worker /\ queue \in Seq(Mut) /\ row \in WarmRow /\ entry \in Entry
      /\ entry.rev <= row.rev /\ row.rev \in Nat /\ entry.rev \in Nat
      /\ flush.at \in {"pop", "mark"} => flush.answer \in Answers
                                         /\ flush.answer.row.rev <= row.rev
                                         /\ flush.answer.row.rev \in Nat
  BY DEF Types, WorkInv, DataInv, WarmRow, Entry, Answers
<1>1. CASE DataInv' /\ ControlInv' /\ Aside
  <2>1. queue' = queue /\ flush' = flush /\ row.rev <= row'.rev
    BY <1>1 DEF Aside
  <2>2. row'.rev \in Nat
    BY <1>1 DEF DataInv, WarmRow
  <2>3. flush.at \in {"pop", "mark"} => flush.answer.row.rev <= row'.rev
    BY <1>0, <2>1, <2>2
  <2>4. WorkInv'
    BY <2>1, <2>3 DEF Types, WorkInv
  <2>5. QED BY <1>1, <2>4 DEF Types
<1>2. CASE DataInv' /\ ControlInv' /\ \E m : Puts(m)
  <2>1. PICK m : Puts(m)
    BY <1>2
  <2>2. queue' \in Seq(Mut)
    BY <1>0, <2>1, EnqueueQueue DEF Puts
  <2>3. flush' = flush /\ row' = row
    BY <2>1 DEF Puts
  <2>4. WorkInv'
    BY <2>2, <2>3 DEF Types, WorkInv
  <2>5. QED BY <1>2, <2>4 DEF Types
<1>3. CASE FlushTake
  <2>1. /\ row' = row /\ done' = done /\ entry' = entry /\ queue' = queue /\ last' = last
        /\ owed' = owed /\ overtaken' = overtaken
    BY <1>3 DEF FlushTake, db, history
  <2>2. DataInv' /\ ControlInv'
    BY <1>3, <2>1, WorkerLeaves DEF Types, DataInv, ControlInv
  <2>3. WorkInv'
    BY <1>0, <1>3, <2>1, WorkerSteps DEF WorkInv
  <2>4. QED BY <2>2, <2>3 DEF Types
<1>4. CASE FlushWrite \/ FlushFails
  <2>1. entry' = entry /\ queue' = queue /\ overtaken' = overtaken
    BY <1>4 DEF FlushWrite, FlushFails
  <2>2. /\ row' \in WarmRow /\ row.rev <= row'.rev /\ done' \subseteq Ops
        /\ owed' \in {owed, owed \ {flush.m.op}} /\ last' \in {last, flush.m.no}
    BY <1>4, WorkerSteps
  <2>3. flush.m.no \in Nat
    BY <1>4 DEF FlushWrite, FlushFails, Types, WorkInv, Mut
  <2>4. row'.rev \in Nat /\ row'.rev <= row'.rev
    BY <2>2 DEF WarmRow
  <2>5. Keeps(entry, entry', row.rev)
    BY <1>0, <2>1 DEF Keeps
  <2>6. DataInv'
    BY <1>0, <1>4, <2>2, <2>5, WorkerLeaves, MergeKeepsData DEF Types
  <2>7. ControlInv'
    BY <1>4, <2>1, <2>2, <2>3, WorkerLeaves DEF Types, ControlInv
  <2>8. WorkInv'
    <3>1. CASE FlushWrite
      BY <1>0, <2>1, <2>4, <3>1, WorkerSteps DEF WorkInv, FlushWrite, Types
    <3>2. CASE FlushFails
      BY <1>0, <2>1, <3>2, WorkerSteps DEF WorkInv
    <3>3. QED BY <1>4, <3>1, <3>2
  <2>9. QED BY <2>6, <2>7, <2>8 DEF Types
<1>5. CASE FlushPop
  <2>1. /\ row' = row /\ done' = done /\ entry' = entry /\ last' = last
        /\ owed' = owed /\ overtaken' = overtaken
    BY <1>5 DEF FlushPop, db, history
  <2>2. DataInv' /\ ControlInv'
    BY <1>5, <2>1, WorkerLeaves DEF Types, DataInv, ControlInv
  <2>3. flush.at = "pop"
    BY <1>5 DEF FlushPop
  <2>4. WorkInv'
    BY <1>0, <1>5, <2>1, <2>3, PopQueue DEF WorkInv
  <2>5. QED BY <2>2, <2>4 DEF Types
<1>6. CASE FlushMark
  <2>1. row' = row /\ done' = done /\ queue' = queue /\ last' = last /\ owed' = owed
    BY <1>6 DEF FlushMark, db
  <2>2. flush.at = "mark" /\ flush.m \in Flags /\ flush.answer \in Answers
    BY <1>6 DEF FlushMark, Types, WorkInv
  <2>3. entry' \in Entry /\ entry'.rev \in {entry.rev, flush.answer.row.rev}
    BY <1>0, <1>6, <2>2, FlushMarkFlags
  <2>4. entry'.rev <= row.rev
    BY <1>0, <2>2, <2>3
  <2>5. DataInv'
    BY <1>6, <2>1, <2>3, <2>4, WorkerLeaves DEF Types, DataInv
  <2>6. overtaken' \in {"no", "before", "after"}
    BY <1>6 DEF FlushMark
  <2>7. ControlInv'
    BY <1>6, <2>1, <2>6, WorkerLeaves DEF Types, ControlInv
  <2>8. WorkInv'
    BY <1>0, <1>6, <2>1, WorkerSteps DEF WorkInv
  <2>9. QED BY <2>5, <2>7, <2>8 DEF Types
<1>7. QED BY <1>1, <1>2, <1>3, <1>4, <1>5, <1>6, Moves

-----------------------------------------------------------------------------
(* The front of the queue, and what is owed.                               *)

\* Every step keeps the front in place until the worker removes it.
LEMMA FrontStep ==
    ASSUME Types, FrontInv, [Next]_vars
    PROVE  FrontInv'
<1>0. queue \in Seq(Mut) /\ flush \in Worker
  BY DEF Types, WorkInv
<1>1. CASE Aside
  BY <1>1 DEF Aside, FrontInv
<1>2. CASE \E m : Puts(m)
  <2>1. PICK m : Puts(m)
    BY <1>2
  <2>2. /\ m \in Mut /\ m.op \notin Enqueued /\ Enqueue(entry, m)
        /\ Enqueued' = Enqueued \cup {m.op} /\ flush' = flush
    BY <2>1 DEF Puts
  <2>3. /\ DOMAIN queue \subseteq DOMAIN queue'
        /\ \A i \in DOMAIN queue : queue'[i].op = queue[i].op /\ queue'[i].no = queue[i].no
        /\ \A i \in DOMAIN queue' \ DOMAIN queue : queue'[i] = m
        /\ queue' \in Seq(Mut)
    BY <1>0, <2>2, EnqueueQueue
  <2>4. \A i \in DOMAIN queue' : queue'[i].op \in Enqueued'
    BY <2>2, <2>3 DEF FrontInv
  <2>5. ASSUME flush.at \in {"write", "pop"}
        PROVE  queue' # <<>> /\ queue'[1].op = flush.m.op /\ queue'[1].no = flush.m.no
               /\ flush.m.op \in Enqueued
    <3>1. queue # <<>> /\ queue[1].op = flush.m.op /\ queue[1].no = flush.m.no
      BY <2>5 DEF FrontInv
    <3>2. 1 \in DOMAIN queue
      BY <1>0, <3>1
    <3>3. queue' # <<>>
      BY <2>3, <3>2
    <3>4. QED BY <2>3, <3>1, <3>2, <3>3 DEF FrontInv
  <2>6. owed' \subseteq owed \cup {m.op}
    BY <2>2 DEF Enqueue
  <2>7. flush.at = "pop" => flush.m.op \notin owed'
    BY <2>2, <2>5, <2>6 DEF FrontInv
  <2>8. QED BY <2>2, <2>4, <2>5, <2>7 DEF FrontInv
<1>3. CASE FlushTake
  <2>1. queue' = queue /\ Enqueued' = Enqueued
    BY <1>3, WorkerLeaves DEF FlushTake
  <2>2. flush'.at = "write" /\ queue # <<>> /\ flush'.m = queue[1]
    BY <1>3, WorkerSteps
  <2>3. QED BY <2>1, <2>2 DEF FrontInv
<1>4. CASE FlushWrite
  <2>1. queue' = queue /\ Enqueued' = Enqueued /\ flush.at = "write" /\ owed' = owed \ {flush.m.op}
    BY <1>4, WorkerLeaves DEF FlushWrite, Commit
  <2>2. flush'.at = "pop" /\ flush'.m = flush.m
    BY <1>4, WorkerSteps
  <2>3. QED BY <2>1, <2>2 DEF FrontInv
<1>5. CASE FlushFails \/ FlushMark
  <2>1. queue' = queue /\ Enqueued' = Enqueued
    BY <1>5, WorkerLeaves DEF FlushFails, FlushMark
  <2>2. flush'.at = "idle"
    BY <1>5, WorkerSteps
  <2>3. QED BY <2>1, <2>2 DEF FrontInv
<1>6. CASE FlushPop
  <2>1. Enqueued' = Enqueued
    BY <1>6, WorkerLeaves
  <2>2. /\ flush'.at = "mark"
        /\ \A i \in DOMAIN queue' : i + 1 \in DOMAIN queue /\ queue'[i] = queue[i + 1]
    BY <1>0, <1>6, PopQueue
  <2>3. QED BY <2>1, <2>2 DEF FrontInv
<1>7. QED BY <1>1, <1>2, <1>3, <1>4, <1>5, <1>6, Moves

\* No step forgets what is owed.
LEMMA OwedStep ==
    ASSUME Types, FrontInv, NothingForgotten, [Next]_vars
    PROVE  NothingForgotten'
<1>0. queue \in Seq(Mut) /\ flush \in Worker
  BY DEF Types, WorkInv
<1>1. CASE Aside
  BY <1>1 DEF Aside, NothingForgotten
<1>2. CASE \E m : Puts(m)
  <2>1. PICK m : Puts(m)
    BY <1>2
  <2>2. m \in Mut /\ Enqueue(entry, m)
    BY <2>1 DEF Puts
  <2>3. /\ DOMAIN queue \subseteq DOMAIN queue'
        /\ \A i \in DOMAIN queue : queue'[i].op = queue[i].op
        /\ m.kind # "success" => \E i \in DOMAIN queue' : queue'[i] = m
    BY <1>0, <2>2, EnqueueQueue
  <2>4. owed' = IF m.kind = "success" THEN owed ELSE owed \cup {m.op}
    BY <2>2 DEF Enqueue
  <2>5. QED BY <2>3, <2>4 DEF NothingForgotten
<1>3. CASE FlushTake \/ FlushMark
  BY <1>3 DEF FlushTake, FlushMark, history, NothingForgotten
<1>4. CASE FlushWrite \/ FlushFails
  <2>1. queue' = queue
    BY <1>4 DEF FlushWrite, FlushFails
  <2>2. owed' \subseteq owed
    BY <1>4, WorkerSteps
  <2>3. QED BY <2>1, <2>2 DEF NothingForgotten
<1>5. CASE FlushPop
  <2>1. owed' = owed
    BY <1>5 DEF FlushPop, history
  <2>2. \A i \in DOMAIN queue : i = 1 \/ (i - 1 \in DOMAIN queue' /\ queue'[i - 1] = queue[i])
    BY <1>0, <1>5, PopQueue
  <2>3. queue[1].op \notin owed
    BY <1>5 DEF FlushPop, FrontInv
  <2>4. QED BY <2>1, <2>2, <2>3 DEF NothingForgotten
<1>6. QED BY <1>1, <1>2, <1>3, <1>4, <1>5, Moves

-----------------------------------------------------------------------------
(* Order.                                                                  *)

\* Every step keeps the order of the queue.
LEMMA OrderStep ==
    ASSUME Types, FrontInv, OrderInv, [Next]_vars
    PROVE  OrderInv'
<1>0. queue \in Seq(Mut) /\ flush \in Worker /\ last \in Nat /\ Len(queue) \in Nat
      /\ DOMAIN queue = 1 .. Len(queue) /\ Cardinality(Enqueued) \in Nat
      /\ \A i \in DOMAIN queue : queue[i].no \in Nat
  <2>1. queue \in Seq(Mut) /\ flush \in Worker /\ last \in Nat
    BY DEF Types, WorkInv, ControlInv
  <2>2. \A i \in DOMAIN queue : queue[i] \in Mut
    BY <2>1
  <2>3. \A i \in DOMAIN queue : queue[i].no \in Nat
    BY <2>2 DEF Mut
  <2>4. QED BY <2>1, <2>3, EnqueuedCount
<1>1. CASE Aside
  BY <1>1 DEF Aside, OrderInv
<1>2. CASE \E m : Puts(m)
  <2>1. PICK m : Puts(m)
    BY <1>2
  <2> DEFINE c == Cardinality(Enqueued)
  <2>2. /\ m \in Mut /\ m.op \notin Enqueued /\ m.no = 1 + c /\ Enqueue(entry, m)
        /\ Enqueued' = Enqueued \cup {m.op} /\ done' = done /\ last' = last
    BY <2>1 DEF Puts
  <2>3. Cardinality(Enqueued') = c + 1
    <3>1. m.op \in Ops \ Enqueued
      BY <2>2 DEF Mut
    <3>2. QED BY <2>2, <3>1, EnqueuedCount
  <2>4. /\ \A i \in DOMAIN queue : queue'[i].op = queue[i].op /\ queue'[i].no = queue[i].no
        /\ \A i \in DOMAIN queue' \ DOMAIN queue : i = Len(queue) + 1 /\ queue'[i] = m
        /\ DOMAIN queue' \subseteq Nat
    <3>1. queue' \in Seq(Mut)
      BY <1>0, <2>2, EnqueueQueue
    <3>2. DOMAIN queue' \subseteq Nat
      BY <3>1
    <3>3. QED BY <1>0, <2>2, <3>2, EnqueueQueue
  <2>5. /\ \A i, j \in DOMAIN queue : i < j => queue[i].no < queue[j].no
        /\ \A i \in DOMAIN queue : queue[i].no <= c
        /\ last <= c
        /\ \A i \in DOMAIN queue : queue[i].op \in done \/ queue[i].no > last
    BY DEF OrderInv
  <2> HIDE DEF c
  <2>6. c \in Nat
    BY <1>0 DEF c
  <2>7. ASSUME NEW i \in DOMAIN queue', NEW j \in DOMAIN queue', i < j
        PROVE  queue'[i].no < queue'[j].no
    <3>1. i \in DOMAIN queue
      <4>1. ASSUME i \notin DOMAIN queue PROVE FALSE
        <5>1. i = Len(queue) + 1
          BY <2>4, <4>1
        <5>2. j \in DOMAIN queue \/ j = Len(queue) + 1
          BY <2>4
        <5>3. QED BY <1>0, <2>7, <5>1, <5>2
      <4>2. QED BY <4>1
    <3>2. CASE j \in DOMAIN queue
      BY <2>4, <2>5, <2>7, <3>1, <3>2
    <3>3. CASE j \notin DOMAIN queue
      <4>1. queue'[i].no <= c /\ queue'[j].no = 1 + c /\ queue'[i].no \in Nat
        BY <1>0, <2>2, <2>4, <2>5, <3>1, <3>3
      <4>2. QED BY <2>6, <4>1
    <3>4. QED BY <3>2, <3>3
  <2>8. ASSUME NEW i \in DOMAIN queue'
        PROVE  /\ queue'[i].no <= c + 1
               /\ queue'[i].op \in done \/ queue'[i].no > last
    <3>1. CASE i \in DOMAIN queue
      <4>1. queue'[i].no <= c /\ queue'[i].no \in Nat /\ queue'[i].no = queue[i].no
            /\ queue'[i].op = queue[i].op
        BY <1>0, <2>4, <2>5, <3>1
      <4>2. queue'[i].no <= c + 1
        BY <2>6, <4>1
      <4>3. QED BY <2>5, <3>1, <4>1, <4>2
    <3>2. CASE i \notin DOMAIN queue
      <4>1. queue'[i].no = 1 + c
        BY <2>2, <2>4, <3>2
      <4>2. QED BY <1>0, <2>5, <2>6, <4>1
    <3>3. QED BY <3>1, <3>2
  <2>9. last' <= c + 1
    BY <1>0, <2>2, <2>5, <2>6
  <2>10. QED BY <2>2, <2>3, <2>7, <2>8, <2>9 DEF OrderInv
<1>3. CASE FlushTake \/ FlushMark
  <2>1. queue' = queue /\ Enqueued' = Enqueued /\ done' = done /\ last' = last
    BY <1>3, WorkerLeaves DEF FlushTake, FlushMark, db, history
  <2>2. QED BY <2>1 DEF OrderInv
<1>4. CASE FlushWrite \/ FlushFails
  <2>1. queue' = queue /\ Enqueued' = Enqueued
    BY <1>4, WorkerLeaves DEF FlushWrite, FlushFails
  <2>2. /\ done \subseteq done'
        /\ last' = last \/ (last' = flush.m.no /\ flush.m.op \in done')
    BY <1>4, WorkerSteps
  <2>3. queue # <<>> /\ queue[1].op = flush.m.op /\ queue[1].no = flush.m.no
    BY <1>4 DEF FlushWrite, FlushFails, FrontInv
  <2>4. 1 \in DOMAIN queue
    BY <1>0, <2>3
  <2>5. last' <= Cardinality(Enqueued)
    BY <2>2, <2>3, <2>4 DEF OrderInv
  <2>6. ASSUME NEW i \in DOMAIN queue
        PROVE  queue[i].op \in done' \/ queue[i].no > last'
    <3>1. CASE last' = last
      BY <2>2, <3>1 DEF OrderInv
    <3>2. CASE last' = flush.m.no /\ flush.m.op \in done'
      <4>1. CASE i = 1
        BY <2>3, <3>2, <4>1
      <4>2. CASE i # 1
        <5>1. 1 < i
          BY <1>0, <4>2
        <5>2. queue[1].no < queue[i].no
          BY <2>4, <5>1 DEF OrderInv
        <5>3. QED BY <1>0, <2>3, <2>4, <3>2, <5>2
      <4>3. QED BY <4>1, <4>2
    <3>3. QED BY <2>2, <3>1, <3>2
  <2>7. QED BY <2>1, <2>5, <2>6 DEF OrderInv
<1>5. CASE FlushPop
  <2>1. Enqueued' = Enqueued /\ done' = done /\ last' = last
    BY <1>5, WorkerLeaves DEF FlushPop, db, history
  <2>2. /\ queue' \in Seq(Mut)
        /\ \A i \in DOMAIN queue' : i + 1 \in DOMAIN queue /\ queue'[i] = queue[i + 1]
    BY <1>0, <1>5, PopQueue
  <2>3. \A i, j \in DOMAIN queue' : i < j => i + 1 < j + 1
    BY <2>2
  <2>4. \A i, j \in DOMAIN queue' : i < j => queue'[i].no < queue'[j].no
    BY <2>2, <2>3 DEF OrderInv
  <2>5. QED BY <2>1, <2>2, <2>4 DEF OrderInv
<1>6. QED BY <1>1, <1>2, <1>3, <1>4, <1>5, Moves

-----------------------------------------------------------------------------
(* Quarantine.                                                             *)

\* Every step keeps the flags with the queue, or notes that it did not.
LEMMA QuarantineStep ==
    ASSUME Types, FrontInv, QuarantineInv, [Next]_vars
    PROVE  QuarantineInv'
<1>0. queue \in Seq(Mut) /\ flush \in Worker /\ entry \in Entry
  BY DEF Types, WorkInv, DataInv
<1>1. CASE Aside
  <2>1. Quarantines(queue') = Quarantines(queue)
    BY <1>1 DEF Aside
  <2>2. QED BY <1>1, <2>1 DEF Aside, QuarantineInv
<1>2. CASE \E m : Puts(m)
  <2>1. PICK m : Puts(m)
    BY <1>2
  <2>2. m \in Mut /\ Enqueue(entry, m) /\ flush' = flush
    BY <2>1 DEF Puts
  <2>3. /\ \A i \in DOMAIN queue : queue'[i].quar = queue[i].quar
        /\ \A i \in DOMAIN queue' \ DOMAIN queue : queue'[i] = m
    BY <1>0, <2>2, EnqueueQueue
  <2>4. Quarantines(queue') => m.quar \/ Quarantines(queue)
    BY <2>3 DEF Quarantines
  <2>5. /\ entry'.quarantined = (m.quar \/ Quarantines(queue))
        /\ entry'.quarantined => entry'.disabled
    BY <1>0, <2>2, EnqueueFlags
  <2>6. overtaken' = IF flush.at = "mark" THEN "before" ELSE "no"
    BY <2>2 DEF Enqueue
  <2>7. QED BY <2>2, <2>4, <2>5, <2>6 DEF QuarantineInv
<1>3. CASE FlushTake \/ FlushWrite \/ FlushFails
  <2>1. queue' = queue /\ entry' = entry /\ overtaken' = overtaken /\ flush.at # "mark"
    BY <1>3 DEF FlushTake, FlushWrite, FlushFails, history
  <2>2. flush'.at # "mark"
    BY <1>3, WorkerSteps
  <2>3. QED BY <2>1, <2>2 DEF QuarantineInv
<1>4. CASE FlushPop
  <2>1. entry' = entry /\ overtaken' = overtaken /\ flush.at = "pop"
    BY <1>4 DEF FlushPop, history
  <2>2. /\ \A i \in DOMAIN queue' : i + 1 \in DOMAIN queue /\ queue'[i] = queue[i + 1]
        /\ flush'.at = "mark" /\ flush'.m.quar = Quarantines(queue')
    BY <1>0, <1>4, PopQueue
  <2>3. Quarantines(queue') => Quarantines(queue)
    BY <2>2 DEF Quarantines
  <2>4. QED BY <2>1, <2>2, <2>3 DEF QuarantineInv
<1>5. CASE FlushMark
  <2>1. /\ queue' = queue /\ flush.at = "mark"
        /\ overtaken' = IF overtaken = "before" THEN "after" ELSE "no"
    BY <1>5 DEF FlushMark
  <2>2. flush.m \in Flags /\ flush.answer \in Answers
    BY <2>1 DEF Types, WorkInv
  <2>3. entry'.quarantined = flush.m.quar /\ (entry'.quarantined => entry'.disabled)
    BY <1>0, <1>5, <2>2, FlushMarkFlags
  <2>4. flush'.at = "idle"
    BY <1>5, WorkerSteps
  <2>5. QED BY <2>1, <2>3, <2>4 DEF QuarantineInv
<1>6. QED BY <1>1, <1>2, <1>3, <1>4, <1>5, Moves

-----------------------------------------------------------------------------
(* The theorems.                                                           *)

RuntimeInv == Types /\ FrontInv /\ NothingForgotten /\ OrderInv /\ QuarantineInv

\* The invariants hold at the start.
LEMMA RuntimeInit ==
    ASSUME Init
    PROVE  RuntimeInv
<1>1. DataInv
  <2>1. FreshRow \in WarmRow
    BY RuntimeAssumption DEF FreshRow, WarmRow, Whys
  <2>2. entry \in Entry
    BY RuntimeAssumption DEF Init, Entry, Whys
  <2>3. row = FreshRow /\ reload.at = "idle" /\ row.rev = 0 /\ entry.rev = 0
    BY DEF Init, NoReload, FreshRow
  <2>4. QED BY <2>1, <2>2, <2>3 DEF DataInv
<1>2. ControlInv
  <2>1. st \in [Ops -> Steps]
    BY DEF Init, Steps
  <2>2. seen \in [Ops -> [kind : Names, gen : Nat]]
    BY DEF Init, Unseen, Names
  <2>3. QED BY <2>1, <2>2 DEF Init, ControlInv
<1>3. WorkInv
  BY DEF Init, NoFlush, WorkInv, Worker
<1>4. queue = <<>> /\ flush.at = "idle" /\ owed = {} /\ last = 0 /\ overtaken = "no"
      /\ entry.quarantined = FALSE
  BY DEF Init, NoFlush
<1>5. FrontInv /\ NothingForgotten
  BY <1>4 DEF FrontInv, NothingForgotten
<1>6. OrderInv
  BY <1>4, EnqueuedCount DEF OrderInv
<1>7. QuarantineInv
  BY <1>4 DEF QuarantineInv, Quarantines
<1>8. QED BY <1>1, <1>2, <1>3, <1>5, <1>6, <1>7 DEF Types, RuntimeInv

\* They are an invariant of the specification.
LEMMA RuntimeInvariant == Spec => []RuntimeInv
<1>1. Init => RuntimeInv
  BY RuntimeInit
<1>2. RuntimeInv /\ [Next]_vars => RuntimeInv'
  BY TypesStep, FrontStep, OwedStep, OrderStep, QuarantineStep DEF RuntimeInv
<1>3. QED BY <1>1, <1>2, PTL DEF Spec

\* Every variable has its type in every reachable state; in particular the entry
\* never claims a revision that PostgreSQL has not reached, and its warm-up
\* requests never exceed the ones it started with.
THEOREM TypeCorrect == Spec => []TypeOK
<1>1. RuntimeInv => TypeOK
  <2> SUFFICES ASSUME RuntimeInv PROVE TypeOK
    OBVIOUS
  <2>1. row \in Row
    BY RuntimeAssumption DEF RuntimeInv, Types, DataInv, WarmRow, Whys, Row
  <2>2. entry \in [gen : Nat, rev : 0 .. row.rev, fails : Nat, warm : 0 .. Warmup,
                   why : {"none", "manual", "failures", "quota"}, cred : BOOLEAN,
                   disabled : BOOLEAN, degraded : BOOLEAN, quarantined : BOOLEAN]
    <3>1. entry.rev \in 0 .. row.rev
      BY DEF RuntimeInv, Types, DataInv, Entry, WarmRow
    <3>2. QED BY <3>1 DEF RuntimeInv, Types, DataInv, Entry, Whys
  <2>3. last \in 0 .. Cardinality(Ops)
    <3>1. last \in Nat /\ last <= Cardinality(Enqueued) /\ Cardinality(Ops) \in Nat
      BY RuntimeAssumption, FS_CardinalityType DEF RuntimeInv, Types, ControlInv, OrderInv
    <3>2. QED BY <3>1, EnqueuedCount
  <2>4. st \in [Ops -> {"new", "read", "noted", "defer", "patch", "direct", "queued", "ended"}]
    BY DEF RuntimeInv, Types, ControlInv, Steps
  <2>5. seen \in [Ops -> [kind : {"none", "success", "failure", "quota", "enable", "disable"},
                          gen : Nat]]
    BY DEF RuntimeInv, Types, ControlInv, Names
  <2>6. done \subseteq Ops /\ owed \subseteq Ops /\ overtaken \in {"no", "before", "after"}
    BY DEF RuntimeInv, Types, ControlInv
  <2>7. flush.at \in {"idle", "write", "pop", "mark"} /\ reload.at \in {"idle", "apply"}
    BY DEF RuntimeInv, Types, WorkInv, DataInv, Worker
  <2>8. QED BY <2>1, <2>2, <2>3, <2>4, <2>5, <2>6, <2>7 DEF TypeOK
<1>2. QED BY <1>1, RuntimeInvariant, PTL

\* A queued failure, disabling or command stays queued until PostgreSQL has
\* applied or dropped it, however often its write fails or loses its answer.
THEOREM NothingIsForgotten == Spec => []NothingForgotten
<1>1. RuntimeInv => NothingForgotten
  BY DEF RuntimeInv
<1>2. QED BY <1>1, RuntimeInvariant, PTL

\* While a change of the disabled state is queued the account takes no requests,
\* except after the worker's flags were overtaken.
THEOREM QuarantineSafety == Spec => []QuarantineHeld
<1>1. RuntimeInv => QuarantineHeld
  BY DEF RuntimeInv, QuarantineInv, QuarantineHeld
<1>2. QED BY <1>1, RuntimeInvariant, PTL

\* Replayed mutations take effect in the order of the queue, each at most once.
THEOREM ReplayOnceInOrder == Spec => AppliedOnceInOrder
<1>1. RuntimeInv /\ [Next]_vars => [row' # row /\ flush' # flush => flush.m.no > last]_vars
  <2> SUFFICES ASSUME RuntimeInv, [Next]_vars, row' # row, flush' # flush
               PROVE  flush.m.no > last
    BY DEF vars
  <2>1. FlushWrite \/ FlushFails
    <3>1. ~Aside /\ ~(\E m : Puts(m))
      BY DEF Aside, Puts
    <3>2. ~FlushTake /\ ~FlushPop /\ ~FlushMark
      BY DEF FlushTake, FlushPop, FlushMark, db
    <3>3. QED BY <3>1, <3>2, Moves DEF RuntimeInv
  <2>2. flush.m.op \notin done
    BY <2>1, WorkerSteps DEF RuntimeInv
  <2>3. queue # <<>> /\ queue[1].op = flush.m.op /\ queue[1].no = flush.m.no
    BY <2>1 DEF RuntimeInv, FrontInv, FlushWrite, FlushFails
  <2>4. 1 \in DOMAIN queue
    BY <2>3 DEF RuntimeInv, Types, WorkInv
  <2>5. QED BY <2>2, <2>3, <2>4 DEF RuntimeInv, OrderInv
<1>2. QED BY <1>1, RuntimeInvariant, PTL DEF Spec, AppliedOnceInOrder

=============================================================================
