----------------------------- MODULE TokenRefresh -----------------------------
(***************************************************************************)
(* The distributed single-flight refresh of one account's access token.    *)
(*                                                                         *)
(* An attempt (try_ensure_token, recover_invalid_access_token_for or       *)
(* force_refresh_token_for) asks Redis to begin.  The begin script makes it *)
(* the leader, lets it wait, replays a recent failure, or announces a      *)
(* recent success.  The leader sends the refresh token upstream, writes    *)
(* the new token to PgSQL by compare-and-swap and publishes the outcome    *)
(* in Redis.  A leader that is cancelled on the way leaves a clean-up task *)
(* behind (RedisRefreshLeaseDropGuard), which runs concurrently with later *)
(* attempts.                                                               *)
(*                                                                         *)
(* A token is named after the attempt that obtained it.  The digest of the *)
(* refresh request (RefreshAttemptIdentity) is the token and the other     *)
(* authentication fields it was computed from.                             *)
(***************************************************************************)
EXTENDS Naturals, FiniteSets

CONSTANTS
    Instances,      \* processes
    Attempts,       \* refresh attempts; each begins with an owner id of its own
    InstanceOf,     \* the process an attempt runs in
    Kind,           \* "auto", "lead" (ahead of expiry), "recover" or "forced"
    HealthCallers,  \* attempts that may apply account health actions
    Faulty,         \* attempts that may be cancelled or lose an answer
    Perishable,     \* tokens that may expire
    Edits,          \* administrator's edits of the account in PgSQL
    Pauses,         \* may a leader outlive the TTL of its lock ?
    Mortal,         \* processes that may be killed
    Initial,        \* the token PgSQL holds at first
    None            \* no attempt

ASSUME RefreshAssumption ==
    /\ InstanceOf \in [Attempts -> Instances]
    /\ Kind \in [Attempts -> {"auto", "lead", "recover", "forced"}]
    /\ HealthCallers \subseteq {a \in Attempts : Kind[a] # "forced"}
    /\ Faulty \subseteq Attempts
    /\ Perishable \subseteq Attempts \cup {Initial, "token"}
    /\ Edits \subseteq {"token", "context", "metadata"}
    /\ Pauses \in BOOLEAN
    /\ Mortal \subseteq Instances
    /\ Initial \notin Attempts /\ None \notin Attempts
    /\ "token" \notin Attempts /\ Initial # "token"

VARIABLES
    lock,       \* Redis: the refresh lock, an owner or a failure fence
    out,        \* Redis: the outcome record
    pg,         \* PgSQL: the account's token, context and revision
    expired,    \* tokens that is_token_expired rejects
    mem,        \* the account in the memory of every instance
    gate,       \* the instance's own refresh mutex
    up,         \* running instances
    edits,      \* edits still to come
    pc,         \* where an attempt is
    ident,      \* the identity it computed
    src,        \* the account the leader sends and compares with
    obs, force, \* observed_generation and force of its next begin call
    sent,       \* its send_started flag
    saved,      \* the account it found persisted (revision 0: none)
    claim,      \* whose failure it has claimed the health action of
    cas,        \* attempts whose compare-and-swap is still on the way
    applied     \* how often the health action of an attempt's failure ran

redisVars == <<lock, out>>
pgVars    == <<pg, expired, edits>>
instVars  == <<mem, gate, up>>
flowVars  == <<ident, src, obs, force, sent, saved, claim, cas, applied>>
vars      == <<redisVars, pgVars, instVars, pc, flowVars>>

-----------------------------------------------------------------------------
Tokens == Attempts \cup {Initial, "token"}

Contexts == {"old", "new"}

\* RefreshAttemptIdentity of an account: the storage revision is no part of it.
Identity(cred) == <<cred.tok, cred.ctx>>

NoLock   == <<"free", None>>
Owner(a) == <<"owner", a>>
\* Mutant: the fence of a failure does not name its owner.
FenceOfNobody(a) == <<"fence", None>>

Fence(a) == <<"fence", a>>

NoOutcome ==
    [state |-> "none", gen |-> 0, by |-> None, ident |-> <<Initial, "old">>,
     rev |-> 0, health |-> "none", claim |-> None, live |-> FALSE, cooling |-> FALSE]

FirstCred == [tok |-> Initial, ctx |-> "old", rev |-> 1]

NoCred == [FirstCred EXCEPT !.rev = 0]

Init ==
    /\ lock = NoLock /\ out = NoOutcome
    /\ pg = FirstCred /\ expired = {} /\ edits = Edits
    /\ mem = [i \in Instances |-> FirstCred]
    /\ gate = [i \in Instances |-> None]
    /\ up = Instances
    /\ pc = [a \in Attempts |-> "idle"]
    /\ ident = [a \in Attempts |-> <<Initial, "old">>]
    /\ src = [a \in Attempts |-> FirstCred]
    /\ obs = [a \in Attempts |-> 0]
    /\ force = [a \in Attempts |-> FALSE]
    /\ sent = {} /\ cas = {}
    /\ saved = [a \in Attempts |-> NoCred]
    /\ claim = [a \in Attempts |-> None]
    /\ applied = [a \in Attempts |-> 0]

-----------------------------------------------------------------------------
(* The Lua scripts.                                                        *)

\* A failure is replayed while it cools down, and after that to the callers
\* that waited for exactly this generation.
Replays(a) ==
    /\ out.state = "failed" /\ out.ident = ident[a]
    /\ out.cooling \/ (obs[a] > 0 /\ obs[a] = out.gen)

\* Together with the replay, the right to apply the health action.
Claims(a) ==
    /\ a \in HealthCallers
    /\ out.health = "pending" \/ (out.health = "claimed" /\ ~out.live)

Announces(a) ==
    out.state = "succeeded" /\ out.ident = ident[a] /\ ~force[a]

\* Mutant: another identity does not respect the lock at all.
LockIsFreeForOthers(a) == lock = NoLock \/ out.ident # ident[a]

\* The fence of a failure does not hold up another identity.
LockIsFree(a) ==
    \/ lock = NoLock
    \/ out.state = "failed" /\ out.ident # ident[a] /\ lock = Fence(out.by)

Reply(a) ==
    CASE Replays(a)    -> "replay"
      [] Announces(a)  -> "succeeded"
      [] OTHER         -> IF LockIsFree(a) THEN "leader" ELSE "wait"

BeginScript(a) ==
    CASE Reply(a) = "replay" ->
            /\ out' = IF Claims(a)
                      THEN [out EXCEPT !.health = "claimed", !.claim = a, !.live = TRUE]
                      ELSE out
            /\ UNCHANGED lock
      [] Reply(a) = "leader" ->
            /\ lock' = Owner(a)
            /\ out' = [NoOutcome EXCEPT !.state = "running", !.gen = out.gen + 1,
                                        !.by = a, !.ident = ident[a]]
      [] OTHER -> UNCHANGED redisVars

\* What the three completing scripts check first; otherwise they are stale.
\* An owner id is used for one generation only, so the record's owner tells
\* its generation and identity too.
Leads(a) == lock = Owner(a) /\ out.state = "running" /\ out.by = a

FailureScript(a, health) ==
    IF Leads(a)
    THEN /\ lock' = Fence(a)
         /\ out' = [out EXCEPT
                !.state = "failed", !.cooling = TRUE,
                !.health = IF ~health THEN "none"
                           ELSE IF a \in HealthCallers THEN "claimed" ELSE "pending",
                !.claim = IF health /\ a \in HealthCallers THEN a ELSE None,
                !.live = health /\ a \in HealthCallers]
    ELSE UNCHANGED redisVars

SuccessScript(a, rev) ==
    IF Leads(a)
    THEN /\ lock' = NoLock
         /\ out' = [NoOutcome EXCEPT !.state = "succeeded", !.gen = out.gen, !.by = a,
                                     !.ident = out.ident, !.rev = rev]
    ELSE UNCHANGED redisVars

\* Mutant: the lock is deleted, the outcome record stays.
CancelLockOnly(a) ==
    IF Leads(a) THEN lock' = NoLock /\ UNCHANGED out ELSE UNCHANGED redisVars

CancelScript(a) ==
    IF Leads(a) THEN lock' = NoLock /\ out' = NoOutcome ELSE UNCHANGED redisVars

-----------------------------------------------------------------------------
(* An attempt.                                                             *)

Running(a) == InstanceOf[a] \in up

Gone == {"idle", "done", "dead"}

\* The attempt returns; its mutex guard is dropped.
Ungated(a) ==
    [gate EXCEPT ![InstanceOf[a]] = IF @ = a THEN None ELSE @]

Goto(a, next) == pc' = [pc EXCEPT ![a] = next]

Return(a) == Goto(a, "done") /\ gate' = Ungated(a) /\ UNCHANGED <<mem, up>>

\* try_ensure_token and recover_invalid_access_token_for take the instance's
\* mutex first and read the account again under it.
Start(a) ==
    LET i == InstanceOf[a]
    IN  /\ Running(a) /\ pc[a] = "idle"
        /\ Kind[a] # "forced" => gate[i] = None
        /\ Kind[a] = "auto" => mem[i].tok \in expired
        /\ gate' = IF Kind[a] = "forced" THEN gate ELSE [gate EXCEPT ![i] = a]
        /\ ident' = [ident EXCEPT ![a] = Identity(mem[i])]
        /\ force' = [force EXCEPT ![a] = Kind[a] = "forced"]
        /\ Goto(a, "begin")
        /\ UNCHANGED <<redisVars, pgVars, mem, up, src, obs, sent, saved, claim, cas, applied>>

\* begin_token_refresh, answered in time.  A waiter remembers the generation
\* it waits for, and forces no more; a forced one gives its mutex back.
Begin(a) ==
    LET r == Reply(a)
    IN  /\ Running(a) /\ pc[a] = "begin"
        /\ BeginScript(a)
        /\ obs' = IF r = "wait" /\ Kind[a] # "forced" /\ out.gen > obs[a]
                  THEN [obs EXCEPT ![a] = out.gen] ELSE obs
        /\ force' = IF r = "wait" THEN [force EXCEPT ![a] = FALSE] ELSE force
        /\ claim' = IF r = "replay" /\ Claims(a) THEN [claim EXCEPT ![a] = out.by] ELSE claim
        /\ Goto(a, CASE r = "leader" -> "lead"
                     [] r = "wait" -> "begin"
                     [] r = "succeeded" -> "follow"
                     [] OTHER -> IF Claims(a) THEN "ack" ELSE "replayed")
        /\ gate' = IF r \in {"wait", "replay"} /\ Kind[a] = "forced" THEN Ungated(a) ELSE gate
        /\ UNCHANGED <<pgVars, mem, up, ident, src, sent, saved, cas, applied>>

\* The coordination deadline passes; the call may still reach Redis.
GiveUp(a) ==
    /\ a \in Faulty
    /\ Running(a) /\ pc[a] = "begin"
    /\ Goto(a, "late") /\ gate' = Ungated(a)
    /\ UNCHANGED <<redisVars, pgVars, mem, up, flowVars>>

LateBegin(a) ==
    /\ pc[a] = "late"
    /\ BeginScript(a)
    /\ Goto(a, "done")
    /\ UNCHANGED <<pgVars, instVars, flowVars>>

\* reload_credential_for_refresh_until: memory takes the authority's account
\* unless it already holds a newer revision.
Reloaded(i) == IF pg.rev >= mem[i].rev THEN pg ELSE mem[i]

\* The announced success is checked against PgSQL; the attempt returns the
\* new account, or an error when the check fails.
Follow(a) ==
    /\ Running(a) /\ pc[a] = "follow"
    /\ mem' = [mem EXCEPT ![InstanceOf[a]] = Reloaded(InstanceOf[a])]
    /\ gate' = Ungated(a)
    /\ Goto(a, "done")
    /\ UNCHANGED <<redisVars, pgVars, up, flowVars>>

Replayed(a) ==
    /\ Running(a) /\ pc[a] = "replayed"
    /\ Return(a)
    /\ UNCHANGED <<redisVars, pgVars, flowVars>>

\* An automatic leader reads the authority again and goes on only if it is
\* still the account it began for; otherwise it cancels.
Verify(a) ==
    LET i == InstanceOf[a]
        now == Reloaded(i)
        same == Identity(now) = ident[a]
    IN  /\ Running(a) /\ pc[a] = "lead" /\ Kind[a] # "forced"
        /\ mem' = [mem EXCEPT ![i] = now]
        /\ src' = [src EXCEPT ![a] = now]
        /\ IF same
           THEN Goto(a, "ready") /\ UNCHANGED <<redisVars, gate>>
           ELSE Goto(a, "done") /\ CancelScript(a) /\ gate' = Ungated(a)
        /\ UNCHANGED <<pgVars, up, ident, obs, force, sent, saved, claim, cas, applied>>

\* A forced leader takes the mutex only now, and gives its lease back while it
\* waits for it.  It trusts the account in memory.
TakeGate(a) ==
    LET i == InstanceOf[a]
    IN  /\ Running(a) /\ pc[a] = "lead" /\ Kind[a] = "forced"
        /\ IF gate[i] \in {None, a}
           THEN /\ gate' = [gate EXCEPT ![i] = a]
                /\ src' = [src EXCEPT ![a] = mem[i]]
                /\ Goto(a, "ready")
                /\ UNCHANGED <<redisVars, force>>
           ELSE /\ CancelScript(a)
                /\ force' = [force EXCEPT ![a] = FALSE]
                /\ Goto(a, "gate")
                /\ UNCHANGED <<gate, src>>
        /\ UNCHANGED <<pgVars, mem, up, ident, obs, sent, saved, claim, cas, applied>>

WaitGate(a) ==
    LET i == InstanceOf[a]
    IN  /\ Running(a) /\ pc[a] = "gate" /\ gate[i] = None
        /\ gate' = [gate EXCEPT ![i] = a]
        /\ Goto(a, "begin")
        /\ UNCHANGED <<redisVars, pgVars, mem, up, flowVars>>

\* Admission is refused or the account is invalid: nothing was sent.
NotSent(a) ==
    /\ Running(a) /\ pc[a] = "ready"
    /\ CancelScript(a)
    /\ Return(a)
    /\ UNCHANGED <<pgVars, flowVars>>

Send(a) ==
    /\ Running(a) /\ pc[a] = "ready"
    /\ sent' = sent \cup {a}
    /\ Goto(a, "sent")
    /\ UNCHANGED <<redisVars, pgVars, instVars, ident, src, obs, force, saved, claim, cas, applied>>

\* The upstream answers with a token, a failure that concerns the account's
\* health, or another one.
Answer(a) ==
    /\ Running(a) /\ pc[a] = "sent"
    /\ \E next \in {"minted", "unhealthy", "failing"} : Goto(a, next)
    /\ UNCHANGED <<redisVars, pgVars, instVars, flowVars>>

-----------------------------------------------------------------------------
(* Writing the token, publishing the outcome.                              *)

\* Mutant: the precondition of the write leaves the token out.
CasOnContext(a) == pg.ctx = src[a].ctx

\* update_credential_refresh_fields_cas: token and context must be the ones
\* the refresh started from.
CasApplies(a) == Identity(pg) = Identity(src[a])

WriteToken(a) == pg' = [pg EXCEPT !.tok = a, !.rev = @ + 1]

\* A conflict is a success when PgSQL already holds this attempt's token, or,
\* for an automatic attempt, any token that is not expired (and, in the
\* recovery, is not the rejected one).
AcceptsConflict(a) ==
    \/ pg.tok = a
    \/ /\ Kind[a] # "forced"
       /\ pg.tok \notin expired
       /\ Kind[a] = "recover" => pg.tok # ident[a][1]

Persist(a) ==
    /\ Running(a) /\ pc[a] = "minted"
    /\ \/ /\ CasApplies(a) /\ WriteToken(a)
          /\ saved' = [saved EXCEPT ![a] = pg']
          /\ Goto(a, "saved")
       \/ /\ ~CasApplies(a) /\ AcceptsConflict(a)
          /\ saved' = [saved EXCEPT ![a] = pg]
          /\ Goto(a, "saved") /\ UNCHANGED pg
       \/ /\ ~CasApplies(a) /\ ~AcceptsConflict(a)
          /\ Goto(a, "failing") /\ UNCHANGED <<pg, saved>>
    /\ UNCHANGED <<redisVars, expired, edits, instVars, ident, src, obs, force, sent, claim, cas, applied>>

\* The answer of the write is lost; the attempt retries with the same
\* precondition (Persist again), or is cancelled.
PersistUnknown(a) ==
    /\ a \in Faulty
    /\ Running(a) /\ pc[a] = "minted"
    /\ a \notin cas
    /\ cas' = cas \cup {a}
    /\ UNCHANGED <<redisVars, pgVars, instVars, pc, ident, src, obs, force, sent, saved, claim, applied>>

\* The answer of the retry is lost too, and PgSQL cannot be read or does not
\* show the token, yet.
PersistGivesUp(a) ==
    /\ Running(a) /\ pc[a] = "minted"
    /\ a \in cas
    /\ Goto(a, "failing")
    /\ UNCHANGED <<redisVars, pgVars, instVars, flowVars>>

LateWrite(a) ==
    /\ a \in cas
    /\ cas' = cas \ {a}
    /\ IF CasApplies(a) THEN WriteToken(a) ELSE UNCHANGED pg
    /\ UNCHANGED <<redisVars, expired, edits, instVars, pc, ident, src, obs, force, sent, saved,
                   claim, applied>>

\* merge_refresh_fields: token and revision are copied into memory.
Merge(a) ==
    mem' = [mem EXCEPT ![InstanceOf[a]].tok = saved[a].tok,
                       ![InstanceOf[a]].rev = saved[a].rev]

\* A forced leader updates its memory before it announces its success, an
\* automatic one after that.
MergeForced(a) ==
    /\ Running(a) /\ pc[a] = "saved" /\ Kind[a] = "forced"
    /\ Merge(a)
    /\ Goto(a, "merged")
    /\ UNCHANGED <<redisVars, pgVars, gate, up, flowVars>>

\* complete_token_refresh_success; a stale leader fails and is cleaned up.
Publish(a) ==
    /\ Running(a)
    /\ pc[a] = IF Kind[a] = "forced" THEN "merged" ELSE "saved"
    /\ SuccessScript(a, saved[a].rev)
    /\ IF Leads(a) /\ Kind[a] # "forced"
       THEN Goto(a, "published") /\ UNCHANGED gate
       ELSE /\ Goto(a, IF Leads(a) THEN "done" ELSE "dropped")
            /\ gate' = Ungated(a)
    /\ UNCHANGED <<pgVars, mem, up, flowVars>>

MergeAutomatic(a) ==
    /\ Running(a) /\ pc[a] = "published"
    /\ Merge(a)
    /\ gate' = Ungated(a)
    /\ Goto(a, "done")
    /\ UNCHANGED <<redisVars, pgVars, up, flowVars>>

\* complete_token_refresh_failure, with or without a health action.
PublishFailure(a) ==
    LET health == pc[a] = "unhealthy"
        claims == Leads(a) /\ health /\ a \in HealthCallers
    IN  /\ Running(a) /\ pc[a] \in {"unhealthy", "failing"}
        /\ FailureScript(a, health)
        /\ claim' = IF claims THEN [claim EXCEPT ![a] = a] ELSE claim
        /\ gate' = IF claims THEN gate ELSE Ungated(a)
        /\ Goto(a, IF claims THEN "ack" ELSE IF Leads(a) THEN "done" ELSE "dropped")
        /\ UNCHANGED <<pgVars, mem, up, ident, src, obs, force, sent, saved, cas, applied>>

\* The outcome is published but the answer is lost.
AnswerLost(a) ==
    /\ a \in Faulty
    /\ Running(a) /\ pc[a] \in {"unhealthy", "failing"}
    /\ FailureScript(a, pc[a] = "unhealthy")
    /\ gate' = Ungated(a)
    /\ Goto(a, "dropped")
    /\ UNCHANGED <<pgVars, mem, up, flowVars>>

\* Mutant: the claim is checked and not consumed.
AckKeepsClaim(a) ==
    LET valid == out.state = "failed" /\ out.health = "claimed" /\ out.claim = a
    IN  /\ Running(a) /\ pc[a] = "ack"
        /\ Goto(a, IF valid THEN "apply" ELSE "replayed")
        /\ UNCHANGED <<redisVars, pgVars, instVars, flowVars>>

\* ack_token_refresh_health_claim consumes the claim ...
Ack(a) ==
    LET valid == out.state = "failed" /\ out.health = "claimed" /\ out.claim = a
    IN  /\ Running(a) /\ pc[a] = "ack"
        /\ out' = IF valid THEN [out EXCEPT !.health = "applied", !.claim = None, !.live = FALSE]
                  ELSE out
        /\ Goto(a, IF valid THEN "apply" ELSE "replayed")
        /\ UNCHANGED <<lock, pgVars, instVars, flowVars>>

\* ... before the action is applied.
Apply(a) ==
    /\ Running(a) /\ pc[a] = "apply"
    /\ applied' = [applied EXCEPT ![claim[a]] = @ + 1]
    /\ Goto(a, "replayed")
    /\ UNCHANGED <<redisVars, pgVars, instVars, ident, src, obs, force, sent, saved, claim, cas>>

-----------------------------------------------------------------------------
(* Cancellation, clean-up, crash.                                          *)

\* A leader is cancelled, hits a deadline or an error, or its account was
\* reset: its drop guard starts the clean-up task.
Cancelled(a) ==
    /\ a \in Faulty
    /\ Running(a)
    /\ pc[a] \in {"lead", "ready", "sent", "minted", "saved", "merged", "unhealthy", "failing"}
    /\ pc[a] = "lead" => Kind[a] # "forced"
    /\ gate' = Ungated(a)
    /\ Goto(a, "dropped")
    /\ UNCHANGED <<redisVars, pgVars, mem, up, flowVars>>

\* A caller without a lease is cancelled, or the answer of its ack is lost: a
\* claim it holds is not acted on.
\* (A forced leader that waits for its mutex has no drop guard yet.)
Abandoned(a) ==
    /\ a \in Faulty
    /\ Running(a)
    /\ \/ pc[a] \in {"follow", "ack", "apply", "gate", "published"}
       \/ pc[a] = "lead" /\ Kind[a] = "forced"
    /\ Return(a)
    /\ UNCHANGED <<redisVars, pgVars, flowVars>>

\* Mutant: whatever PgSQL holds is taken for the result of the refresh.
CleanupReadUnchecked(a) ==
    /\ Running(a) /\ pc[a] = "dropped"
    /\ saved' = IF a \in sent /\ saved[a].rev = 0 THEN [saved EXCEPT ![a] = pg] ELSE saved
    /\ Goto(a, "cleanup")
    /\ UNCHANGED <<redisVars, pgVars, instVars, ident, src, obs, force, sent, claim, cas, applied>>

\* The clean-up looks in PgSQL for a write whose answer was not seen.
CleanupRead(a) ==
    /\ Running(a) /\ pc[a] = "dropped"
    /\ saved' = IF a \in sent /\ saved[a].rev = 0 /\ pg.tok # ident[a][1]
                THEN [saved EXCEPT ![a] = pg] ELSE saved
    /\ Goto(a, "cleanup")
    /\ UNCHANGED <<redisVars, pgVars, instVars, ident, src, obs, force, sent, claim, cas, applied>>

Cleanup(a) ==
    /\ Running(a) /\ pc[a] = "cleanup"
    /\ IF a \notin sent THEN CancelScript(a)
       ELSE IF saved[a].rev > 0 THEN SuccessScript(a, saved[a].rev)
       ELSE FailureScript(a, FALSE)
    /\ Goto(a, "done")
    /\ UNCHANGED <<pgVars, instVars, flowVars>>

\* The clean-up is rejected by its lane or times out.
CleanupFails(a) ==
    /\ a \in Faulty
    /\ pc[a] \in {"dropped", "cleanup"}
    /\ Goto(a, "done")
    /\ UNCHANGED <<redisVars, pgVars, instVars, flowVars>>

Crash(i) ==
    /\ i \in up \cap Mortal
    /\ up' = up \ {i}
    /\ gate' = [gate EXCEPT ![i] = None]
    /\ pc' = [a \in Attempts |->
                IF InstanceOf[a] = i /\ pc[a] # "late" THEN "dead" ELSE pc[a]]
    /\ UNCHANGED <<redisVars, pgVars, mem, flowVars>>

-----------------------------------------------------------------------------
(* Time, other writers.                                                    *)

\* The lock and the record of a running leader have the same TTL, longer than
\* a leader's whole workflow.
LockExpires ==
    /\ lock[1] = "owner"
    /\ Pauses \/ pc[lock[2]] \in Gone \cup {"dropped", "cleanup"}
    /\ lock' = NoLock /\ out' = NoOutcome
    /\ UNCHANGED <<pgVars, instVars, pc, flowVars>>

\* retry_at: the fence expires with the cool-down.
CooldownEnds ==
    /\ out.state = "failed" /\ out.cooling
    /\ out' = [out EXCEPT !.cooling = FALSE]
    /\ lock' = IF lock = Fence(out.by) THEN NoLock ELSE lock
    /\ UNCHANGED <<pgVars, instVars, pc, flowVars>>

ClaimExpires ==
    /\ out.health = "claimed" /\ out.live
    /\ out' = [out EXCEPT !.live = FALSE]
    /\ UNCHANGED <<lock, pgVars, instVars, pc, flowVars>>

\* A published outcome is kept longer than its cool-down, then forgotten.
OutcomeExpires ==
    /\ out.state = "succeeded" \/ (out.state = "failed" /\ ~out.cooling)
    /\ out' = NoOutcome
    /\ UNCHANGED <<lock, pgVars, instVars, pc, flowVars>>

TokenExpires ==
    /\ pg.tok \in Perishable \ expired
    /\ expired' = expired \cup {pg.tok}
    /\ UNCHANGED <<redisVars, pg, edits, instVars, pc, flowVars>>

\* The administrator saves the account.
Edit(e) ==
    /\ e \in edits
    /\ edits' = edits \ {e}
    /\ pg' = [tok |-> IF e = "token" THEN "token" ELSE pg.tok,
              ctx |-> IF e = "context" THEN "new" ELSE pg.ctx,
              rev |-> pg.rev + 1]
    /\ UNCHANGED <<redisVars, expired, instVars, pc, flowVars>>

\* A change notification or the timer reloads the accounts from PgSQL.
Sync(i) ==
    /\ i \in up
    /\ mem' = [mem EXCEPT ![i] = Reloaded(i)]
    /\ UNCHANGED <<redisVars, pgVars, gate, up, pc, flowVars>>

-----------------------------------------------------------------------------
AttemptStep(a) ==
    \/ Start(a) \/ Begin(a) \/ GiveUp(a) \/ LateBegin(a) \/ Follow(a) \/ Replayed(a)
    \/ Verify(a) \/ TakeGate(a) \/ WaitGate(a) \/ NotSent(a) \/ Send(a) \/ Answer(a)
    \/ Persist(a) \/ PersistUnknown(a) \/ PersistGivesUp(a) \/ LateWrite(a)
    \/ MergeForced(a) \/ Publish(a) \/ MergeAutomatic(a)
    \/ PublishFailure(a) \/ AnswerLost(a) \/ Ack(a) \/ Apply(a)
    \/ Cancelled(a) \/ Abandoned(a) \/ CleanupRead(a) \/ Cleanup(a) \/ CleanupFails(a)

Next ==
    \/ \E a \in Attempts : AttemptStep(a)
    \/ \E i \in Instances : Crash(i) \/ Sync(i)
    \/ \E e \in Edits : Edit(e)
    \/ LockExpires \/ CooldownEnds \/ ClaimExpires \/ OutcomeExpires \/ TokenExpires

Spec == Init /\ [][Next]_vars

-----------------------------------------------------------------------------
(* Properties.                                                             *)

Creds == [tok : Tokens, ctx : Contexts, rev : Nat]

Identities == Tokens \X Contexts

\* Types of the variables.
TypeOK ==
    /\ lock \in {NoLock} \cup ({"owner", "fence"} \X Attempts)
    /\ out \in [state : {"none", "running", "failed", "succeeded"}, gen : Nat,
                by : Attempts \cup {None}, ident : Identities, rev : Nat,
                health : {"none", "pending", "claimed", "applied"},
                claim : Attempts \cup {None}, live : BOOLEAN, cooling : BOOLEAN]
    /\ pg \in Creds /\ expired \subseteq Tokens /\ edits \subseteq Edits
    /\ mem \in [Instances -> Creds]
    /\ gate \in [Instances -> Attempts \cup {None}]
    /\ up \subseteq Instances
    /\ pc \in [Attempts -> Gone \cup {"begin", "late", "follow", "replayed", "lead", "gate",
                  "ready", "sent", "minted", "saved", "merged", "published", "unhealthy",
                  "failing", "ack", "apply", "dropped", "cleanup"}]
    /\ ident \in [Attempts -> Identities]
    /\ src \in [Attempts -> Creds]
    /\ obs \in [Attempts -> Nat] /\ force \in [Attempts -> BOOLEAN]
    /\ sent \subseteq Attempts /\ cas \subseteq Attempts
    /\ saved \in [Attempts -> Creds]
    /\ claim \in [Attempts -> Attempts \cup {None}]
    /\ applied \in [Attempts -> Nat]

\* Lock and outcome record, two Redis keys, never contradict each other: a
\* held lock belongs to the leader of the running generation, a fence to the
\* failure it protects.
LockMatchesOutcome ==
    /\ lock[1] = "owner" <=> out.state = "running"
    /\ lock[1] = "owner" => lock[2] = out.by
    /\ lock[1] = "fence" => out.state = "failed" /\ out.cooling /\ lock[2] = out.by

\* From the send to the write of the token.
Sending(a) == pc[a] \in {"sent", "minted"}

\* Single flight: over all instances at most one attempt at a time has a
\* refresh under way, however cancelled leaders, their clean-up tasks and
\* late calls interleave (as long as no leader outlives its lock).
SingleFlight ==
    \A a, b \in Attempts : Sending(a) /\ Sending(b) => a = b

\* An announced success can be used by every waiter of that identity: PgSQL
\* holds at least the announced revision and another token than theirs.
AnnouncedSuccessIsReal ==
    out.state = "succeeded" => pg.rev >= out.rev /\ out.rev > 0 /\ pg.tok # out.ident[1]

\* apply_refresh_health_action: "at-most-once behavior".  One failed refresh
\* counts against the account at most once, although every waiter of every
\* instance may claim it.
HealthAtMostOnce == \A a \in Attempts : applied[a] <= 1

\* No instance forgets a newer revision of the account for an older one.
MemoryNeverRegresses == [][\A i \in Instances : mem'[i].rev >= mem[i].rev]_vars

\* Where a token is remembered, other than in PgSQL.
Remembers(t) ==
    \/ \E i \in Instances : mem[i].tok = t
    \/ \E a \in Attempts : t \in {ident[a][1], src[a].tok, saved[a].tok}

\* A token that was replaced never comes back: what a write brings into PgSQL
\* is a token nobody has read there before, although the write may be sent
\* twice, arrive after its attempt has given up or lost its lock, and meet
\* edits of the account and the tokens of later refreshes.
NoTokenReturns ==
    [][\A a \in Attempts : pg'.tok = a /\ pg.tok # a => ~Remembers(a)]_vars

=============================================================================
