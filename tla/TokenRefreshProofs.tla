-------------------------- MODULE TokenRefreshProofs --------------------------
(***************************************************************************)
(* Theorems about TokenRefresh, for any number of instances and attempts.  *)
(* The provers see the Lua scripts through what each may do to the lock    *)
(* and the outcome record; the workflow of an attempt only through the     *)
(* states in which it must hold the lock.                                  *)
(***************************************************************************)
EXTENDS TokenRefresh, TLAPS

Locks == {NoLock} \cup ({"owner", "fence"} \X Attempts)

Outcomes ==
    [state : {"none", "running", "failed", "succeeded"}, gen : Nat,
     by : Attempts \cup {None}, ident : Identities, rev : Nat,
     health : {"none", "pending", "claimed", "applied"},
     claim : Attempts \cup {None}, live : BOOLEAN, cooling : BOOLEAN]

\* The types of the two Redis keys.
LEMMA TypesOfKeys == TypeOK => lock \in Locks /\ out \in Outcomes
BY DEF TypeOK, Locks, Outcomes

\* A record that does not exist reads as a well-formed one.
LEMMA NoOutcomeType == NoOutcome \in Outcomes
BY RefreshAssumption DEF NoOutcome, Outcomes, Identities, Tokens, Contexts

\* The scripts write well-formed keys.
LEMMA BeginScriptType ==
    ASSUME NEW a \in Attempts, TypeOK, BeginScript(a)
    PROVE  lock' \in Locks /\ out' \in Outcomes
<1>1. CASE Reply(a) = "replay"
  <2>1. \/ out' = [out EXCEPT !.health = "claimed", !.claim = a, !.live = TRUE]
        \/ out' = out
    BY <1>1 DEF BeginScript
  <2> QED
    BY <1>1, <2>1, TypesOfKeys DEF BeginScript, Outcomes
<1>2. CASE Reply(a) = "leader"
  <2>1. ident[a] \in Identities
    BY DEF TypeOK
  <2>2. out.gen + 1 \in Nat
    BY TypesOfKeys DEF Outcomes
  <2>3. lock' = Owner(a)
    BY <1>2 DEF BeginScript
  <2>4. out' = [NoOutcome EXCEPT !.state = "running", !.gen = out.gen + 1,
                                 !.by = a, !.ident = ident[a]]
    BY <1>2 DEF BeginScript
  <2>5. out' \in Outcomes
    BY <2>1, <2>2, <2>4, NoOutcomeType DEF Outcomes
  <2> QED
    BY <2>3, <2>5 DEF Locks, Owner
<1>3. CASE Reply(a) \notin {"replay", "leader"}
  BY <1>3, TypesOfKeys DEF BeginScript, redisVars
<1> QED
  BY <1>1, <1>2, <1>3

\* The same for a published failure, with or without a health action ...
LEMMA FailureScriptType ==
    ASSUME NEW a \in Attempts, TypeOK, NEW h \in BOOLEAN, FailureScript(a, h)
    PROVE  lock' \in Locks /\ out' \in Outcomes
<1>1. CASE Leads(a)
  <2> DEFINE mine  == h /\ a \in HealthCallers
             state == IF ~h THEN "none" ELSE IF a \in HealthCallers THEN "claimed" ELSE "pending"
             by    == IF mine THEN a ELSE None
  <2>1. out' = [out EXCEPT !.state = "failed", !.cooling = TRUE, !.health = state,
                           !.claim = by, !.live = mine]
    BY <1>1 DEF FailureScript
  <2>2. /\ mine \in BOOLEAN /\ by \in Attempts \cup {None}
        /\ state \in {"none", "pending", "claimed", "applied"}
    OBVIOUS
  <2>3. lock' = Fence(a)
    BY <1>1 DEF FailureScript
  <2> HIDE DEF mine, state, by
  <2>4. out' \in Outcomes
    BY <2>1, <2>2, TypesOfKeys DEF Outcomes
  <2> QED
    BY <2>3, <2>4 DEF Locks, Fence
<1>2. CASE ~Leads(a)
  BY <1>2, TypesOfKeys DEF FailureScript, redisVars
<1> QED
  BY <1>1, <1>2

\* ... for a published success ...
LEMMA SuccessScriptType ==
    ASSUME NEW a \in Attempts, TypeOK, NEW r \in Nat, SuccessScript(a, r)
    PROVE  lock' \in Locks /\ out' \in Outcomes
<1>1. CASE Leads(a)
  BY <1>1, TypesOfKeys, NoOutcomeType DEF SuccessScript, Outcomes, Locks
<1>2. CASE ~Leads(a)
  BY <1>2, TypesOfKeys DEF SuccessScript, redisVars
<1> QED
  BY <1>1, <1>2

\* ... and for a refresh given back.
LEMMA CancelScriptType ==
    ASSUME NEW a \in Attempts, TypeOK, CancelScript(a)
    PROVE  lock' \in Locks /\ out' \in Outcomes
BY TypesOfKeys, NoOutcomeType DEF CancelScript, Locks, redisVars

-----------------------------------------------------------------------------
(* Types.                                                                  *)

\* What an attempt reads back from PgSQL is an account.
LEMMA ReloadedType ==
    ASSUME TypeOK, NEW i \in Instances
    PROVE  Reloaded(i) \in Creds
BY DEF Reloaded, TypeOK

\* Dropping the mutex guard leaves the mutexes well-formed.
LEMMA UngatedType ==
    ASSUME TypeOK, NEW a \in Attempts
    PROVE  Ungated(a) \in [Instances -> Attempts \cup {None}]
BY RefreshAssumption DEF Ungated, TypeOK

\* The identity of an account.
LEMMA IdentityType ==
    ASSUME NEW c \in Creds
    PROVE  Identity(c) \in Identities
BY DEF Identity, Creds, Identities

\* The compare-and-swap stores an account.
LEMMA WriteTokenType ==
    ASSUME TypeOK, NEW a \in Attempts, WriteToken(a)
    PROVE  pg' \in Creds
<1>1. pg \in Creds
  BY DEF TypeOK
<1>2. pg' = [pg EXCEPT !.tok = a, !.rev = pg.rev + 1]
  BY DEF WriteToken
<1>3. a \in Tokens /\ pg.rev + 1 \in Nat
  BY <1>1 DEF Tokens, Creds
<1> QED
  BY <1>1, <1>2, <1>3 DEF Creds

\* merge_refresh_fields leaves an account in memory.
LEMMA MergeType ==
    ASSUME TypeOK, NEW a \in Attempts, Merge(a)
    PROVE  mem' \in [Instances -> Creds]
<1> DEFINE i == InstanceOf[a]
<1>1. i \in Instances /\ mem[i] \in Creds /\ saved[a] \in Creds
  BY RefreshAssumption DEF TypeOK
<1>2. [[mem[i] EXCEPT !.tok = saved[a].tok] EXCEPT !.rev = saved[a].rev] \in Creds
  BY <1>1 DEF Creds
<1>3. mem \in [Instances -> Creds]
  BY DEF TypeOK
<1> QED
  BY <1>1, <1>2, <1>3 DEF Merge

\* The initial state has the types.
LEMMA InitType == Init => TypeOK
<1> SUFFICES ASSUME Init PROVE TypeOK
  OBVIOUS
<1>1. FirstCred \in Creds /\ NoCred \in Creds
  BY DEF FirstCred, NoCred, Creds, Tokens, Contexts
<1>2. <<Initial, "old">> \in Identities
  BY DEF Identities, Tokens, Contexts
<1>3. lock \in Locks /\ out \in Outcomes
  BY NoOutcomeType DEF Init, Locks
<1> QED
  BY <1>1, <1>2, <1>3 DEF Init, TypeOK, Gone, Locks, Outcomes

\* Every step keeps the types.
LEMMA NextType == TypeOK /\ [Next]_vars => TypeOK'
<1> SUFFICES ASSUME TypeOK, [Next]_vars PROVE TypeOK'
  OBVIOUS
<1> USE DEF redisVars, pgVars, instVars, flowVars
<1>1. ASSUME NEW a \in Attempts, AttemptStep(a) PROVE TypeOK'
  <2> USE DEF TypeOK, Gone
  <2>1. CASE Start(a)
    BY <2>1, IdentityType, RefreshAssumption DEF Start, Running, Goto
  <2>2. CASE Begin(a)
    BY <2>2, BeginScriptType, UngatedType DEF Begin, Running, Goto, Locks, Outcomes
  <2>3. CASE GiveUp(a)
    BY <2>3, UngatedType DEF GiveUp, Goto
  <2>4. CASE LateBegin(a)
    BY <2>4, BeginScriptType DEF LateBegin, Goto, Locks, Outcomes
  <2>5. CASE Follow(a)
    BY <2>5, ReloadedType, UngatedType, RefreshAssumption DEF Follow, Goto
  <2>6. CASE Replayed(a)
    BY <2>6, UngatedType DEF Replayed, Return, Goto
  <2>7. CASE Verify(a)
    <3>1. InstanceOf[a] \in Instances
      BY RefreshAssumption
    <3>2. Reloaded(InstanceOf[a]) \in Creds
      BY <3>1, ReloadedType
    <3>3. lock' \in Locks /\ out' \in Outcomes
      BY <2>7, CancelScriptType, TypesOfKeys DEF Verify
    <3>4. gate' \in [Instances -> Attempts \cup {None}]
      BY <2>7, UngatedType DEF Verify
    <3>5. mem' \in [Instances -> Creds] /\ src' \in [Attempts -> Creds]
      BY <2>7, <3>1, <3>2 DEF Verify
    <3> QED
      BY <2>7, <3>3, <3>4, <3>5 DEF Verify, Goto, Locks, Outcomes
  <2>8. CASE TakeGate(a)
    <3>1. InstanceOf[a] \in Instances /\ mem[InstanceOf[a]] \in Creds
      BY RefreshAssumption
    <3>2. lock' \in Locks /\ out' \in Outcomes
      BY <2>8, CancelScriptType, TypesOfKeys DEF TakeGate
    <3>3. gate' \in [Instances -> Attempts \cup {None}]
      BY <2>8, <3>1 DEF TakeGate
    <3>4. src' \in [Attempts -> Creds] /\ force' \in [Attempts -> BOOLEAN]
      BY <2>8, <3>1 DEF TakeGate
    <3> QED
      BY <2>8, <3>2, <3>3, <3>4 DEF TakeGate, Goto, Locks, Outcomes
  <2>9. CASE WaitGate(a)
    BY <2>9, RefreshAssumption DEF WaitGate, Goto
  <2>10. CASE NotSent(a)
    BY <2>10, UngatedType, CancelScriptType DEF NotSent, Return, Goto, Locks, Outcomes
  <2>11. CASE Send(a)
    BY <2>11 DEF Send, Goto
  <2>12. CASE Answer(a)
    BY <2>12 DEF Answer, Goto
  <2>13. CASE Persist(a)
    <3>1. pg' \in Creds
      BY <2>13, WriteTokenType DEF Persist
    <3> QED
      BY <2>13, <3>1 DEF Persist, Goto
  <2>14. CASE PersistUnknown(a)
    BY <2>14 DEF PersistUnknown
  <2>15. CASE PersistGivesUp(a)
    BY <2>15 DEF PersistGivesUp, Goto
  <2>16. CASE LateWrite(a)
    <3>1. pg' \in Creds
      BY <2>16, WriteTokenType DEF LateWrite
    <3> QED
      BY <2>16, <3>1 DEF LateWrite
  <2>17. CASE MergeForced(a)
    BY <2>17, MergeType DEF MergeForced, Goto
  <2>18. CASE Publish(a)
    <3>1. saved[a].rev \in Nat
      BY DEF Creds
    <3>2. lock' \in Locks /\ out' \in Outcomes
      BY <2>18, <3>1, SuccessScriptType DEF Publish
    <3>3. gate' \in [Instances -> Attempts \cup {None}]
      BY <2>18, UngatedType DEF Publish
    <3> QED
      BY <2>18, <3>2, <3>3 DEF Publish, Goto, Locks, Outcomes
  <2>19. CASE MergeAutomatic(a)
    BY <2>19, MergeType, UngatedType DEF MergeAutomatic, Goto
  <2>20. CASE PublishFailure(a)
    BY <2>20, FailureScriptType, UngatedType DEF PublishFailure, Goto, Locks, Outcomes
  <2>21. CASE AnswerLost(a)
    BY <2>21, FailureScriptType, UngatedType DEF AnswerLost, Goto, Locks, Outcomes
  <2>22. CASE Ack(a)
    BY <2>22, TypesOfKeys DEF Ack, Goto, Outcomes, Locks, Outcomes
  <2>23. CASE Apply(a)
    <3>1. applied' \in [Attempts -> Nat]
      <4>1. applied' = [applied EXCEPT ![claim[a]] = applied[claim[a]] + 1]
        BY <2>23 DEF Apply
      <4>2. ASSUME NEW b \in Attempts PROVE applied'[b] \in Nat
        BY <4>1
      <4> QED
        BY <4>1, <4>2
    <3> QED
      BY <2>23, <3>1 DEF Apply, Goto
  <2>24. CASE Cancelled(a)
    BY <2>24, UngatedType DEF Cancelled, Goto
  <2>25. CASE Abandoned(a)
    BY <2>25, UngatedType DEF Abandoned, Return, Goto
  <2>26. CASE CleanupRead(a)
    BY <2>26 DEF CleanupRead, Goto
  <2>27. CASE Cleanup(a)
    <3>1. saved[a].rev \in Nat
      BY DEF Creds
    <3>2. lock' \in Locks /\ out' \in Outcomes
      BY <2>27, <3>1, CancelScriptType, SuccessScriptType, FailureScriptType DEF Cleanup
    <3> QED
      BY <2>27, <3>2 DEF Cleanup, Goto, Locks, Outcomes
  <2>28. CASE CleanupFails(a)
    BY <2>28 DEF CleanupFails, Goto
  <2> QED
    BY <1>1, <2>1, <2>2, <2>3, <2>4, <2>5, <2>6, <2>7, <2>8, <2>9, <2>10, <2>11, <2>12, <2>13, <2>14, <2>15, <2>16, <2>17, <2>18, <2>19, <2>20, <2>21, <2>22, <2>23, <2>24, <2>25, <2>26, <2>27, <2>28 DEF AttemptStep
<1>2. ASSUME NEW i \in Instances, Crash(i) \/ Sync(i) PROVE TypeOK'
  <2>1. CASE Crash(i)
    BY <2>1 DEF Crash, TypeOK, Gone
  <2>2. CASE Sync(i)
    BY <2>2, ReloadedType DEF Sync, TypeOK
  <2> QED
    BY <1>2, <2>1, <2>2
<1>3. ASSUME NEW e \in Edits, Edit(e) PROVE TypeOK'
  BY <1>3 DEF Edit, TypeOK, Creds, Tokens, Contexts
<1>4. CASE LockExpires
  BY <1>4, NoOutcomeType DEF LockExpires, TypeOK, Outcomes
<1>5. CASE CooldownEnds
  BY <1>5, TypesOfKeys DEF CooldownEnds, TypeOK, Outcomes
<1>6. CASE ClaimExpires
  BY <1>6, TypesOfKeys DEF ClaimExpires, TypeOK, Outcomes
<1>7. CASE OutcomeExpires
  BY <1>7, NoOutcomeType DEF OutcomeExpires, TypeOK, Outcomes
<1>8. CASE TokenExpires
  BY <1>8, RefreshAssumption DEF TokenExpires, TypeOK, Tokens
<1>9. CASE UNCHANGED vars
  BY <1>9 DEF vars, TypeOK
<1> QED
  BY <1>1, <1>2, <1>3, <1>4, <1>5, <1>6, <1>7, <1>8, <1>9 DEF Next

\* Types: every variable of the model keeps its type in every behaviour.
THEOREM TypeCorrect == Spec => []TypeOK
BY InitType, NextType, PTL DEF Spec

-----------------------------------------------------------------------------
(* Lock and outcome record; who holds the lock.                            *)

\* Where an attempt has a lease it has not given back: from the answer to its
\* begin call to the publication of the outcome.
Leading ==
    {"lead", "ready", "sent", "minted", "saved", "merged", "unhealthy", "failing"}

\* As long as no leader outlives its lock, an attempt in one of these states
\* holds the lock of the running generation.  SingleFlight alone says nothing
\* about the lock and could not be kept by the next leader's begin.
LeaderInv == ~Pauses => \A a \in Attempts : pc[a] \in Leading => Leads(a)

KeyInv == LockMatchesOutcome /\ LeaderInv

\* A begin call takes no lock away, and a new leader holds it.
LEMMA BeginScriptKeeps ==
    ASSUME TypeOK, LockMatchesOutcome, NEW a \in Attempts, BeginScript(a)
    PROVE  /\ LockMatchesOutcome'
           /\ \A b \in Attempts : Leads(b) => Leads(b)'
           /\ Reply(a) = "leader" => Leads(a)'
<1>0. lock \in Locks /\ out \in Outcomes
  BY TypesOfKeys
<1>1. CASE Reply(a) = "replay"
  <2>1. /\ lock' = lock
        /\ \/ out' = [out EXCEPT !.health = "claimed", !.claim = a, !.live = TRUE]
           \/ out' = out
    BY <1>1 DEF BeginScript
  <2>2. out'.state = out.state /\ out'.by = out.by /\ out'.cooling = out.cooling
    BY <1>0, <2>1 DEF Outcomes
  <2> QED
    BY <1>1, <2>1, <2>2 DEF LockMatchesOutcome, Leads
<1>2. CASE Reply(a) = "leader"
  <2>1. LockIsFree(a)
    BY <1>2 DEF Reply
  <2>2. lock' = Owner(a) /\ out'.state = "running" /\ out'.by = a
    BY <1>2, NoOutcomeType DEF BeginScript, Outcomes
  <2>3. \A b \in Attempts : lock # Owner(b)
    BY <2>1 DEF LockIsFree, NoLock, Fence, Owner
  <2> QED
    BY <2>2, <2>3 DEF LockMatchesOutcome, Leads, Owner
<1>3. CASE Reply(a) \notin {"replay", "leader"}
  BY <1>3 DEF BeginScript, redisVars, LockMatchesOutcome, Leads
<1> QED
  BY <1>1, <1>2, <1>3

\* The scripts of one attempt take no lock from another one.
LEMMA FailureScriptKeeps ==
    ASSUME TypeOK, LockMatchesOutcome, NEW a \in Attempts, NEW h \in BOOLEAN, FailureScript(a, h)
    PROVE  LockMatchesOutcome' /\ \A b \in Attempts \ {a} : Leads(b) => Leads(b)'
<1>1. CASE Leads(a)
  <2>1. lock' = Fence(a) /\ out'.state = "failed" /\ out'.cooling = TRUE /\ out'.by = out.by
    BY <1>1, TypesOfKeys DEF FailureScript, Outcomes
  <2> QED
    BY <1>1, <2>1 DEF LockMatchesOutcome, Leads, Fence, Owner
<1>2. CASE ~Leads(a)
  BY <1>2 DEF FailureScript, redisVars, LockMatchesOutcome, Leads
<1> QED
  BY <1>1, <1>2

\* A published success gives back only its own lock.
LEMMA SuccessScriptKeeps ==
    ASSUME TypeOK, LockMatchesOutcome, NEW a \in Attempts, NEW r \in Nat, SuccessScript(a, r)
    PROVE  LockMatchesOutcome' /\ \A b \in Attempts \ {a} : Leads(b) => Leads(b)'
<1>1. CASE Leads(a)
  <2>1. lock' = NoLock /\ out'.state = "succeeded"
    BY <1>1, NoOutcomeType DEF SuccessScript, Outcomes
  <2> QED
    BY <1>1, <2>1 DEF LockMatchesOutcome, Leads, NoLock, Owner
<1>2. CASE ~Leads(a)
  BY <1>2 DEF SuccessScript, redisVars, LockMatchesOutcome, Leads
<1> QED
  BY <1>1, <1>2

\* A cancelled refresh gives back only its own lock.
LEMMA CancelScriptKeeps ==
    ASSUME TypeOK, LockMatchesOutcome, NEW a \in Attempts, CancelScript(a)
    PROVE  LockMatchesOutcome' /\ \A b \in Attempts \ {a} : Leads(b) => Leads(b)'
<1>1. CASE Leads(a)
  BY <1>1 DEF CancelScript, LockMatchesOutcome, Leads, NoLock, NoOutcome, Owner
<1>2. CASE ~Leads(a)
  BY <1>2 DEF CancelScript, redisVars, LockMatchesOutcome, Leads
<1> QED
  BY <1>1, <1>2

\* An attempt that moves on without taking a lock away keeps the invariant if
\* it leads, after its step, only when it holds the lock.
LEMMA Moves ==
    ASSUME TypeOK, KeyInv, NEW a \in Attempts, NEW next, Goto(a, next), LockMatchesOutcome',
           \A b \in Attempts \ {a} : Leads(b) => Leads(b)',
           ~Pauses /\ next \in Leading => Leads(a)'
    PROVE  KeyInv'
BY DEF KeyInv, LeaderInv, Goto, TypeOK

\* ... in particular if Redis is left alone and it led before.
LEMMA MovesAlone ==
    ASSUME TypeOK, KeyInv, NEW a \in Attempts, NEW next, Goto(a, next), UNCHANGED redisVars,
           next \in Leading => pc[a] \in Leading
    PROVE  KeyInv'
<1>1. LockMatchesOutcome' /\ \A b \in Attempts : Leads(b) => Leads(b)'
  BY DEF KeyInv, LockMatchesOutcome, Leads, redisVars
<1>2. ~Pauses /\ next \in Leading => Leads(a)'
  BY <1>1 DEF KeyInv, LeaderInv
<1> QED
  BY <1>1, <1>2, Moves

\* At first there is neither lock nor leader.
LEMMA InitKeys == Init => KeyInv
BY DEF Init, KeyInv, LockMatchesOutcome, LeaderInv, Leading, NoLock, NoOutcome

\* Steps of the other variables keep the invariant.
LEMMA Untouched ==
    ASSUME KeyInv, UNCHANGED redisVars, UNCHANGED pc
    PROVE  KeyInv'
BY DEF KeyInv, LockMatchesOutcome, LeaderInv, Leads, redisVars

\* Every step keeps the invariant.
LEMMA NextKeys == TypeOK /\ KeyInv /\ [Next]_vars => KeyInv'
<1> SUFFICES ASSUME TypeOK, KeyInv, [Next]_vars PROVE KeyInv'
  OBVIOUS
<1>1. ASSUME NEW a \in Attempts, AttemptStep(a) PROVE KeyInv'
  <2>1. CASE Start(a)
    BY <2>1, MovesAlone DEF Start, Leading
  <2>2. CASE Begin(a)
    <3>1. BeginScript(a)
      BY <2>2 DEF Begin
    <3>2. PICK next : Goto(a, next) /\ (next \in Leading => Reply(a) = "leader")
      BY <2>2 DEF Begin, Leading
    <3> QED
      BY <3>1, <3>2, BeginScriptKeeps, Moves DEF KeyInv
  <2>3. CASE GiveUp(a)
    BY <2>3, MovesAlone DEF GiveUp, Leading
  <2>4. CASE LateBegin(a)
    BY <2>4, BeginScriptKeeps, Moves DEF LateBegin, Leading, KeyInv
  <2>5. CASE Follow(a)
    BY <2>5, MovesAlone DEF Follow, Leading
  <2>6. CASE Replayed(a)
    BY <2>6, MovesAlone DEF Replayed, Return, Leading
  <2>7. CASE Verify(a)
    <3>1. CASE Identity(Reloaded(InstanceOf[a])) = ident[a]
      BY <2>7, <3>1, MovesAlone DEF Verify, Leading
    <3>2. CASE Identity(Reloaded(InstanceOf[a])) # ident[a]
      BY <2>7, <3>2, CancelScriptKeeps, Moves DEF Verify, Leading, KeyInv
    <3> QED
      BY <3>1, <3>2
  <2>8. CASE TakeGate(a)
    <3>1. CASE gate[InstanceOf[a]] \in {None, a}
      BY <2>8, <3>1, MovesAlone DEF TakeGate, Leading
    <3>2. CASE gate[InstanceOf[a]] \notin {None, a}
      BY <2>8, <3>2, CancelScriptKeeps, Moves DEF TakeGate, Leading, KeyInv
    <3> QED
      BY <3>1, <3>2
  <2>9. CASE WaitGate(a)
    BY <2>9, MovesAlone DEF WaitGate, Leading
  <2>10. CASE NotSent(a)
    BY <2>10, CancelScriptKeeps, Moves DEF NotSent, Return, Leading, KeyInv
  <2>11. CASE Send(a)
    BY <2>11, MovesAlone DEF Send, Leading
  <2>12. CASE Answer(a)
    BY <2>12, MovesAlone DEF Answer, Leading
  <2>13. CASE Persist(a)
    <3>1. PICK next : Goto(a, next)
      BY <2>13 DEF Persist
    <3> QED
      BY <2>13, <3>1, MovesAlone DEF Persist, Leading
  <2>14. CASE PersistUnknown(a)
    BY <2>14, Untouched DEF PersistUnknown
  <2>15. CASE PersistGivesUp(a)
    BY <2>15, MovesAlone DEF PersistGivesUp, Leading
  <2>16. CASE LateWrite(a)
    BY <2>16, Untouched DEF LateWrite
  <2>17. CASE MergeForced(a)
    BY <2>17, MovesAlone DEF MergeForced, Leading
  <2>18. CASE Publish(a)
    <3>1. saved[a].rev \in Nat
      BY DEF TypeOK, Creds
    <3>2. PICK next : Goto(a, next) /\ next \notin Leading
      BY <2>18 DEF Publish, Leading
    <3> QED
      BY <2>18, <3>1, <3>2, SuccessScriptKeeps, Moves DEF Publish, KeyInv
  <2>19. CASE MergeAutomatic(a)
    BY <2>19, MovesAlone DEF MergeAutomatic, Leading
  <2>20. CASE PublishFailure(a)
    <3>1. PICK next : Goto(a, next) /\ next \notin Leading
      BY <2>20 DEF PublishFailure, Leading
    <3> QED
      BY <2>20, <3>1, FailureScriptKeeps, Moves DEF PublishFailure, KeyInv
  <2>21. CASE AnswerLost(a)
    BY <2>21, FailureScriptKeeps, Moves DEF AnswerLost, Leading, KeyInv
  <2>22. CASE Ack(a)
    <3>1. lock' = lock
      BY <2>22 DEF Ack
    <3>2. out'.state = out.state /\ out'.by = out.by /\ out'.cooling = out.cooling
      BY <2>22, TypesOfKeys DEF Ack, Outcomes
    <3>3. LockMatchesOutcome' /\ \A b \in Attempts : Leads(b) => Leads(b)'
      BY <3>1, <3>2 DEF KeyInv, LockMatchesOutcome, Leads
    <3>4. PICK next : Goto(a, next) /\ next \notin Leading
      BY <2>22 DEF Ack, Leading
    <3> QED
      BY <3>3, <3>4, Moves
  <2>23. CASE Apply(a)
    BY <2>23, MovesAlone DEF Apply, Leading
  <2>24. CASE Cancelled(a)
    BY <2>24, MovesAlone DEF Cancelled, Leading
  <2>25. CASE Abandoned(a)
    BY <2>25, MovesAlone DEF Abandoned, Return, Leading
  <2>26. CASE CleanupRead(a)
    BY <2>26, MovesAlone DEF CleanupRead, Leading
  <2>27. CASE Cleanup(a)
    <3>1. saved[a].rev \in Nat
      BY DEF TypeOK, Creds
    <3> QED
      BY <2>27, <3>1, CancelScriptKeeps, SuccessScriptKeeps, FailureScriptKeeps, Moves
         DEF Cleanup, Leading, KeyInv
  <2>28. CASE CleanupFails(a)
    BY <2>28, MovesAlone DEF CleanupFails, Leading
  <2> QED
    BY <1>1, <2>1, <2>2, <2>3, <2>4, <2>5, <2>6, <2>7, <2>8, <2>9, <2>10, <2>11, <2>12, <2>13, <2>14,
       <2>15, <2>16, <2>17, <2>18, <2>19, <2>20, <2>21, <2>22, <2>23, <2>24, <2>25, <2>26, <2>27, <2>28 DEF AttemptStep
<1>2. ASSUME NEW i \in Instances, Crash(i) \/ Sync(i) PROVE KeyInv'
  <2>1. CASE Crash(i)
    <3>1. UNCHANGED redisVars
      BY <2>1 DEF Crash
    <3>2. \A a \in Attempts : pc'[a] \in Leading => pc[a] \in Leading
      BY <2>1 DEF Crash, Leading
    <3> QED
      BY <3>1, <3>2 DEF KeyInv, LockMatchesOutcome, LeaderInv, Leads, redisVars
  <2>2. CASE Sync(i)
    BY <2>2, Untouched DEF Sync
  <2> QED
    BY <1>2, <2>1, <2>2
<1>3. ASSUME NEW e \in Edits, Edit(e) PROVE KeyInv'
  BY <1>3, Untouched DEF Edit
<1>4. CASE LockExpires
  <2>1. LockMatchesOutcome'
    BY <1>4 DEF LockExpires, LockMatchesOutcome, NoLock, NoOutcome
  <2>2. ASSUME ~Pauses, NEW a \in Attempts, pc[a] \in Leading PROVE FALSE
    <3>1. lock[2] = a
      BY <2>2 DEF KeyInv, LeaderInv, Leads, Owner
    <3> QED
      BY <1>4, <2>2, <3>1 DEF LockExpires, Leading, Gone
  <2> QED
    BY <1>4, <2>1, <2>2 DEF LockExpires, KeyInv, LeaderInv
<1>5. CASE CooldownEnds
  <2>1. out'.state = out.state /\ out'.by = out.by /\ out.state = "failed"
    BY <1>5, TypesOfKeys DEF CooldownEnds, Outcomes
  <2>2. lock' = IF lock = Fence(out.by) THEN NoLock ELSE lock
    BY <1>5 DEF CooldownEnds
  <2>3. lock'[1] = "free"
    BY <2>1, <2>2, TypesOfKeys DEF KeyInv, LockMatchesOutcome, Locks, NoLock, Fence
  <2>4. LockMatchesOutcome'
    BY <2>1, <2>3 DEF LockMatchesOutcome
  <2> QED
    BY <1>5, <2>1, <2>4 DEF CooldownEnds, KeyInv, LeaderInv, Leads
<1>6. CASE ClaimExpires
  <2>1. out'.state = out.state /\ out'.by = out.by /\ out'.cooling = out.cooling
    BY <1>6, TypesOfKeys DEF ClaimExpires, Outcomes
  <2> QED
    BY <1>6, <2>1 DEF ClaimExpires, KeyInv, LockMatchesOutcome, LeaderInv, Leads
<1>7. CASE OutcomeExpires
  <2>1. lock[1] \notin {"owner", "fence"}
    BY <1>7, TypesOfKeys DEF OutcomeExpires, KeyInv, LockMatchesOutcome, Outcomes
  <2> QED
    BY <1>7, <2>1 DEF OutcomeExpires, KeyInv, LockMatchesOutcome, LeaderInv, Leads, NoOutcome
<1>8. CASE TokenExpires
  BY <1>8, Untouched DEF TokenExpires
<1>9. CASE UNCHANGED vars
  BY <1>9, Untouched DEF vars
<1> QED
  BY <1>1, <1>2, <1>3, <1>4, <1>5, <1>6, <1>7, <1>8, <1>9 DEF Next

\* The inductive invariant holds in every behaviour.
LEMMA KeysHold == Spec => []KeyInv
BY InitType, NextType, InitKeys, NextKeys, PTL DEF Spec

\* The lock and the outcome record, two keys with expiry times of their own,
\* never contradict each other, with any number of attempts, pauses, crashes
\* and late calls.
THEOREM KeysConsistent == Spec => []LockMatchesOutcome
BY KeysHold, PTL DEF KeyInv

\* If no leader outlives the TTL of its lock, then over all instances at most
\* one refresh of the account is on its way to the upstream and to PgSQL.
THEOREM RefreshIsSingleFlight ==
    ASSUME ~Pauses
    PROVE  Spec => []SingleFlight
<1>1. KeyInv => SingleFlight
  BY DEF KeyInv, LeaderInv, Leads, SingleFlight, Sending, Leading, Owner
<1> QED
  BY <1>1, KeysHold, PTL

-----------------------------------------------------------------------------
(* The health action of a failure.                                         *)

\* Where an attempt can publish at most what it already leads: it never asks
\* to begin again.
Expended == {"ack", "apply", "replayed", "done", "dead", "dropped", "cleanup"}

\* An attempt that publishes no failure any more.
Over(b) == pc[b] \in Expended /\ ~(out.state = "running" /\ out.by = b)

\* The failure of b is on record and its health action can still be claimed
\* or acknowledged.
Owed(b) == out.health \in {"pending", "claimed"} /\ out.by = b

\* The health action of b's failure cannot be handed out again.
Settled(b) == Over(b) /\ ~Owed(b)

\* Only a failure carries a health action, and the attempt that failed
\* publishes no other.
RecordInv ==
    out.health # "none" => out.state = "failed" /\ out.by \in Attempts /\ Over(out.by)

\* The claim in the record, if its holder is about to acknowledge it, is on
\* the failure the holder means.
AckInv == \A a \in Attempts : pc[a] = "ack" /\ out.claim = a => claim[a] = out.by

\* An acknowledged action has not run, and nobody else can get hold of it.
ApplyInv ==
    /\ \A a \in Attempts : pc[a] = "apply" =>
          claim[a] \in Attempts /\ Settled(claim[a]) /\ applied[claim[a]] = 0
    /\ \A a, b \in Attempts :
          pc[a] = "apply" /\ pc[b] = "apply" /\ claim[a] = claim[b] => a = b

\* An action that ran, ran once and cannot be handed out again.
RanInv == \A b \in Attempts : applied[b] # 0 => applied[b] = 1 /\ Settled(b)

HealthInv == RecordInv /\ AckInv /\ ApplyInv /\ RanInv

\* A step in which no action is handed out or run and nobody begins anew.
Calm ==
    /\ applied' = applied
    /\ \A b \in Attempts : pc[b] \in Expended => pc'[b] \in Expended
    /\ \A b \in Attempts : pc'[b] = "apply" => pc[b] = "apply" /\ claim'[b] = claim[b]

\* ... and nobody comes to hold a claim.
NoNewAck == \A b \in Attempts : pc'[b] = "ack" => pc[b] = "ack" /\ claim'[b] = claim[b]

\* The record keeps what the health action depends on ...
SameRecord ==
    out'.state = out.state /\ out'.by = out.by /\ out'.health = out.health /\ out'.claim = out.claim

\* ... or carries no health action any more; it may be a new leader's.
NoAction ==
    /\ out'.health = "none" /\ out'.claim = None
    /\ out'.state = "running" =>
          (out.state = "running" /\ out'.by = out.by) \/ pc[out'.by] \notin Expended

\* Whatever cannot be handed out again stays so, unless the record becomes a
\* failure of that attempt.
LEMMA SettledStays ==
    ASSUME TypeOK, Calm, SameRecord \/ NoAction, NEW b \in Attempts, Settled(b)
    PROVE  Settled(b)'
BY DEF Calm, SameRecord, NoAction, Settled, Over, Owed

\* A calm step that keeps the record.
LEMMA HealthSame ==
    ASSUME TypeOK, HealthInv, Calm, NoNewAck, SameRecord
    PROVE  HealthInv'
<1>1. RecordInv'
  BY DEF HealthInv, RecordInv, Calm, SameRecord, Over
<1>2. AckInv'
  BY DEF HealthInv, AckInv, NoNewAck, SameRecord
<1>3. ApplyInv'
  BY SettledStays DEF HealthInv, ApplyInv, Calm
<1>4. RanInv'
  BY SettledStays DEF HealthInv, RanInv, Calm
<1> QED
  BY <1>1, <1>2, <1>3, <1>4 DEF HealthInv

\* A calm step that leaves no action on record.
LEMMA HealthNoAction ==
    ASSUME TypeOK, HealthInv, Calm, NoAction
    PROVE  HealthInv'
<1>1. RecordInv'
  BY DEF RecordInv, NoAction
<1>2. AckInv'
  BY RefreshAssumption DEF AckInv, NoAction
<1>3. ApplyInv'
  BY SettledStays DEF HealthInv, ApplyInv, Calm
<1>4. RanInv'
  BY SettledStays DEF HealthInv, RanInv, Calm
<1> QED
  BY <1>1, <1>2, <1>3, <1>4 DEF HealthInv

\* A claim taken through a begin call.
LEMMA HealthClaimed ==
    ASSUME TypeOK, HealthInv, Calm, NEW a \in Attempts,
           out.health \in {"pending", "claimed"}, out'.state = out.state, out'.by = out.by,
           out'.health = "claimed", out'.claim = a,
           pc'[a] = "ack" => claim'[a] = out.by
    PROVE  HealthInv'
<1>1. RecordInv'
  BY DEF HealthInv, RecordInv, Calm, Over
<1>2. AckInv'
  BY DEF AckInv
<1>3. ASSUME NEW b \in Attempts, Settled(b) PROVE Settled(b)'
  BY <1>3 DEF Calm, Settled, Over, Owed
<1>4. ApplyInv'
  BY <1>3 DEF HealthInv, ApplyInv, Calm
<1>5. RanInv'
  BY <1>3 DEF HealthInv, RanInv, Calm
<1> QED
  BY <1>1, <1>2, <1>4, <1>5 DEF HealthInv

\* A published failure: its attempt led, so none of its actions was handed
\* out before.
LEMMA HealthFailed ==
    ASSUME TypeOK, HealthInv, Calm, NEW a \in Attempts, Leads(a),
           out'.state = "failed", out'.by = a, out'.claim \in {a, None},
           pc'[a] \in Expended, pc'[a] = "ack" => claim'[a] = a
    PROVE  HealthInv'
<1>1. RecordInv'
  BY DEF RecordInv, Over
<1>2. AckInv'
  BY RefreshAssumption DEF AckInv
<1>3. ASSUME NEW b \in Attempts, Settled(b) PROVE Settled(b)'
  BY <1>3 DEF Calm, Settled, Over, Owed, Leads
<1>4. ApplyInv'
  BY <1>3 DEF HealthInv, ApplyInv, Calm
<1>5. RanInv'
  BY <1>3 DEF HealthInv, RanInv, Calm
<1> QED
  BY <1>1, <1>2, <1>4, <1>5 DEF HealthInv

\* An attempt moves on without a claim.
LEMMA GoesOn ==
    ASSUME TypeOK, NEW a \in Attempts, NEW next, Goto(a, next), next \notin {"ack", "apply"},
           pc[a] \in Expended => next \in Expended, UNCHANGED <<claim, applied>>
    PROVE  Calm /\ NoNewAck
BY DEF Calm, NoNewAck, Goto, TypeOK

\* ... and leaves the record alone.
LEMMA GoesOnAlone ==
    ASSUME TypeOK, HealthInv, NEW a \in Attempts, NEW next, Goto(a, next),
           next \notin {"ack", "apply"}, pc[a] \in Expended => next \in Expended,
           UNCHANGED <<out, claim, applied>>
    PROVE  HealthInv'
BY GoesOn, HealthSame DEF SameRecord

\* A refresh given back leaves no action on record, if it changes it at all.
LEMMA CancelRecord ==
    ASSUME NEW a \in Attempts, CancelScript(a)
    PROVE  SameRecord \/ NoAction
BY DEF CancelScript, redisVars, SameRecord, NoAction, NoOutcome

\* The same for a success ...
LEMMA SuccessRecord ==
    ASSUME NEW a \in Attempts, NEW r \in Nat, SuccessScript(a, r)
    PROVE  SameRecord \/ NoAction
BY DEF SuccessScript, redisVars, SameRecord, NoAction, NoOutcome

\* ... and for a failure that is no matter of the account's health.
LEMMA FailureRecord ==
    ASSUME TypeOK, NEW a \in Attempts, FailureScript(a, FALSE)
    PROVE  SameRecord \/ NoAction
<1>1. CASE Leads(a)
  BY <1>1, TypesOfKeys DEF FailureScript, NoAction, Outcomes
<1>2. CASE ~Leads(a)
  BY <1>2 DEF FailureScript, redisVars, SameRecord
<1> QED
  BY <1>1, <1>2

\* A begin call replaces the record, takes its claim or leaves it.
LEMMA BeginRecord ==
    ASSUME TypeOK, NEW a \in Attempts, BeginScript(a), pc[a] \notin Expended
    PROVE  \/ Reply(a) = "leader" /\ NoAction
           \/ (Reply(a) = "replay" => ~Claims(a)) /\ SameRecord
           \/ /\ Reply(a) = "replay" /\ Claims(a)
              /\ out.health \in {"pending", "claimed"}
              /\ out'.state = out.state /\ out'.by = out.by
              /\ out'.health = "claimed" /\ out'.claim = a
<1>1. CASE Reply(a) = "replay" /\ Claims(a)
  <2>1. out' = [out EXCEPT !.health = "claimed", !.claim = a, !.live = TRUE]
    BY <1>1 DEF BeginScript
  <2>2. out.health \in {"pending", "claimed"}
    BY <1>1 DEF Claims
  <2> QED
    BY <1>1, <2>1, <2>2, TypesOfKeys DEF Outcomes
<1>2. CASE Reply(a) = "replay" /\ ~Claims(a)
  BY <1>2 DEF BeginScript, SameRecord
<1>3. CASE Reply(a) = "leader"
  <2>1. out'.health = "none" /\ out'.claim = None /\ out'.by = a
    BY <1>3 DEF BeginScript, NoOutcome
  <2> QED
    BY <1>3, <2>1 DEF NoAction
<1>4. CASE Reply(a) \notin {"replay", "leader"}
  BY <1>4 DEF BeginScript, redisVars, SameRecord
<1> QED
  BY <1>1, <1>2, <1>3, <1>4

\* What a published failure with a health action puts on record.
LEMMA FailureAction ==
    ASSUME TypeOK, NEW a \in Attempts, NEW h \in BOOLEAN, FailureScript(a, h), Leads(a)
    PROVE  out'.state = "failed" /\ out'.by = a /\ out'.claim \in {a, None}
<1> DEFINE mine  == h /\ a \in HealthCallers
           state == IF ~h THEN "none" ELSE IF a \in HealthCallers THEN "claimed" ELSE "pending"
           by    == IF mine THEN a ELSE None
<1>1. out' = [out EXCEPT !.state = "failed", !.cooling = TRUE, !.health = state,
                         !.claim = by, !.live = mine]
  BY DEF FailureScript
<1>2. by \in {a, None}
  OBVIOUS
<1> HIDE DEF mine, state, by
<1> QED
  BY <1>1, <1>2, TypesOfKeys DEF Outcomes, Leads

\* At first there is no action and no claim.
LEMMA InitHealth == Init => HealthInv
BY DEF Init, HealthInv, RecordInv, AckInv, ApplyInv, RanInv, NoOutcome

\* The two steps that ask Redis to begin.
LEMMA BeginHealth ==
    ASSUME TypeOK, HealthInv, NEW a \in Attempts, Begin(a) \/ LateBegin(a)
    PROVE  HealthInv'
<1>1. pc[a] \in {"begin", "late"} /\ BeginScript(a)
  BY DEF Begin, LateBegin
<1>2. pc[a] \notin Expended
  BY <1>1 DEF Expended
<1>3. CASE LateBegin(a)
  <2>1. Goto(a, "done") /\ UNCHANGED <<claim, applied>>
    BY <1>3 DEF LateBegin, flowVars
  <2>2. Calm /\ NoNewAck
    BY <2>1, GoesOn DEF Expended
  <2>3. pc'[a] # "ack"
    BY <2>1 DEF Goto, TypeOK
  <2> QED
    BY <1>1, <1>2, <2>2, <2>3, BeginRecord, HealthSame, HealthNoAction, HealthClaimed
<1>4. CASE Begin(a) /\ Reply(a) = "replay" /\ Claims(a)
  <2>1. /\ Goto(a, "ack") /\ applied' = applied
        /\ claim' = [claim EXCEPT ![a] = out.by]
    BY <1>4 DEF Begin
  <2>2. pc'[a] = "ack" /\ claim'[a] = out.by
    BY <2>1 DEF Goto, TypeOK
  <2>3. Calm
    BY <1>2, <2>1 DEF Calm, Goto, TypeOK
  <2>4. /\ out.health \in {"pending", "claimed"}
        /\ out'.state = out.state /\ out'.by = out.by
        /\ out'.health = "claimed" /\ out'.claim = a
    <3>1. out' = [out EXCEPT !.health = "claimed", !.claim = a, !.live = TRUE]
      BY <1>1, <1>4 DEF BeginScript
    <3>2. out.health \in {"pending", "claimed"}
      BY <1>4 DEF Claims
    <3> QED
      BY <3>1, <3>2, TypesOfKeys DEF Outcomes
  <2> QED
    BY <2>2, <2>3, <2>4, HealthClaimed
<1>5. CASE Begin(a) /\ ~(Reply(a) = "replay" /\ Claims(a))
  <2>1. PICK next : Goto(a, next) /\ next \notin {"ack", "apply"}
    BY <1>5 DEF Begin, Reply
  <2>2. UNCHANGED <<claim, applied>>
    BY <1>5 DEF Begin
  <2>3. Calm /\ NoNewAck
    BY <1>2, <2>1, <2>2, GoesOn
  <2> QED
    BY <1>1, <1>2, <1>5, <2>3, BeginRecord, HealthSame, HealthNoAction
<1> QED
  BY <1>3, <1>4, <1>5

\* The two steps that publish an upstream failure.
LEMMA FailureHealth ==
    ASSUME TypeOK, HealthInv, NEW a \in Attempts, PublishFailure(a) \/ AnswerLost(a)
    PROVE  HealthInv'
<1> DEFINE health == pc[a] = "unhealthy"
<1>1. FailureScript(a, health) /\ pc[a] \in {"unhealthy", "failing"} /\ applied' = applied
  BY DEF PublishFailure, AnswerLost, flowVars
<1>2. PICK next : Goto(a, next) /\ next \in {"ack", "done", "dropped"}
  BY DEF PublishFailure, AnswerLost
<1>3. \A b \in Attempts \ {a} : claim'[b] = claim[b] /\ pc'[b] = pc[b]
  BY <1>2 DEF PublishFailure, AnswerLost, flowVars, Goto, TypeOK
<1>4. pc'[a] = next /\ pc'[a] \in Expended
  BY <1>2 DEF Goto, TypeOK, Expended
<1>5. Calm
  BY <1>1, <1>2, <1>3, <1>4 DEF Calm, Expended
<1>6. CASE Leads(a)
  <2>1. pc'[a] = "ack" => claim'[a] = a
    BY <1>4 DEF PublishFailure, AnswerLost, Goto, TypeOK
  <2>2. health \in BOOLEAN
    OBVIOUS
  <2>3. out'.state = "failed" /\ out'.by = a /\ out'.claim \in {a, None}
    BY <1>1, <1>6, <2>2, FailureAction
  <2> QED
    BY <1>4, <1>5, <1>6, <2>1, <2>3, HealthFailed
<1>7. CASE ~Leads(a)
  <2>1. pc'[a] # "ack"
    BY <1>7 DEF PublishFailure, AnswerLost, Goto, TypeOK
  <2>2. NoNewAck
    BY <1>3, <2>1 DEF NoNewAck
  <2>3. SameRecord
    BY <1>1, <1>7 DEF FailureScript, redisVars, SameRecord
  <2> QED
    BY <1>5, <2>2, <2>3, HealthSame
<1> QED
  BY <1>6, <1>7

\* An acknowledgement hands the action out and takes it off the record.
LEMMA AckHealth ==
    ASSUME TypeOK, HealthInv, NEW a \in Attempts, Ack(a)
    PROVE  HealthInv'
<1> DEFINE valid == out.state = "failed" /\ out.health = "claimed" /\ out.claim = a
<1>0. pc[a] = "ack" /\ UNCHANGED <<claim, applied>>
  BY DEF Ack, flowVars
<1>1. CASE ~valid
  <2>1. Goto(a, "replayed") /\ out' = out
    BY <1>1 DEF Ack
  <2> QED
    BY <1>0, <2>1, GoesOnAlone DEF Expended
<1>2. CASE valid
  <2>1. Goto(a, "apply") /\ out' = [out EXCEPT !.health = "applied", !.claim = None, !.live = FALSE]
    BY <1>2 DEF Ack
  <2>2. /\ out'.state = out.state /\ out'.by = out.by
        /\ out'.health = "applied" /\ out'.claim = None
    BY <2>1, TypesOfKeys DEF Outcomes
  <2>3. pc' = [pc EXCEPT ![a] = "apply"]
    BY <2>1 DEF Goto
  <2>4. claim[a] = out.by /\ out.by \in Attempts /\ Over(out.by)
    BY <1>0, <1>2 DEF HealthInv, AckInv, RecordInv
  <2>5. \A b \in Attempts : pc[b] \in Expended => pc'[b] \in Expended
    BY <2>3 DEF Expended, TypeOK
  <2>6. \A b \in Attempts : Over(b) => Settled(b)'
    BY <2>2, <2>5 DEF Over, Owed, Settled
  <2>7. Owed(out.by)
    BY <1>2 DEF Owed
  <2>8. applied[out.by] = 0 /\ \A b \in Attempts : pc[b] = "apply" => claim[b] # out.by
    BY <2>4, <2>7 DEF HealthInv, ApplyInv, RanInv, Settled
  <2>9. RecordInv'
    BY <1>2, <2>2, <2>4, <2>6 DEF RecordInv, Settled
  <2>10. AckInv'
    BY <2>2, RefreshAssumption DEF AckInv
  <2>11. ApplyInv'
    <3>1. \A b \in Attempts : pc'[b] = "apply" <=> b = a \/ pc[b] = "apply"
      BY <2>3 DEF TypeOK
    <3>2. \A b \in Attempts : pc[b] = "apply" =>
             claim[b] \in Attempts /\ Over(claim[b]) /\ applied[claim[b]] = 0
      BY DEF HealthInv, ApplyInv, Settled
    <3>3. \A b, c \in Attempts : pc[b] = "apply" /\ pc[c] = "apply" /\ claim[b] = claim[c] => b = c
      BY DEF HealthInv, ApplyInv
    <3> QED
      BY <1>0, <2>4, <2>6, <2>8, <3>1, <3>2, <3>3 DEF ApplyInv
  <2>12. RanInv'
    BY <1>0, <2>6 DEF HealthInv, RanInv, Settled
  <2> QED
    BY <2>9, <2>10, <2>11, <2>12 DEF HealthInv
<1> QED
  BY <1>1, <1>2

\* The action runs.
LEMMA ApplyHealth ==
    ASSUME TypeOK, HealthInv, NEW a \in Attempts, Apply(a)
    PROVE  HealthInv'
<1>1. /\ pc[a] = "apply" /\ UNCHANGED <<out, claim>>
      /\ pc' = [pc EXCEPT ![a] = "replayed"]
      /\ applied' = [applied EXCEPT ![claim[a]] = applied[claim[a]] + 1]
  BY DEF Apply, redisVars, Goto
<1>2. claim[a] \in Attempts /\ Settled(claim[a]) /\ applied[claim[a]] = 0
  BY <1>1 DEF HealthInv, ApplyInv
<1>3. \A b \in Attempts : pc[b] \in Expended => pc'[b] \in Expended
  BY <1>1 DEF Expended, TypeOK
<1>4. \A b \in Attempts : (Over(b) => Over(b)') /\ (Settled(b) => Settled(b)')
  BY <1>1, <1>3 DEF Over, Owed, Settled
<1>5. \A b \in Attempts : pc'[b] \in {"ack", "apply"} => b # a /\ pc'[b] = pc[b]
  BY <1>1 DEF TypeOK
<1>6. applied'[claim[a]] = 1 /\ \A b \in Attempts : b # claim[a] => applied'[b] = applied[b]
  BY <1>1, <1>2 DEF TypeOK
<1>7. RecordInv'
  BY <1>1, <1>4 DEF HealthInv, RecordInv
<1>8. AckInv'
  BY <1>1, <1>5 DEF HealthInv, AckInv
<1>9. ApplyInv'
  <2>1. \A b \in Attempts : pc'[b] = "apply" => claim[b] # claim[a] /\ pc[b] = "apply"
    BY <1>1, <1>5 DEF HealthInv, ApplyInv
  <2> QED
    BY <1>1, <1>4, <1>6, <2>1 DEF HealthInv, ApplyInv
<1>10. RanInv'
  BY <1>2, <1>4, <1>6 DEF HealthInv, RanInv
<1> QED
  BY <1>7, <1>8, <1>9, <1>10 DEF HealthInv

\* Steps that touch neither a record nor an attempt.
LEMMA HealthUntouched ==
    ASSUME TypeOK, HealthInv, UNCHANGED <<out, pc, claim, applied>>
    PROVE  HealthInv'
BY HealthSame DEF Calm, NoNewAck, SameRecord

\* Every step keeps the invariant.
LEMMA NextHealth == TypeOK /\ HealthInv /\ [Next]_vars => HealthInv'
<1> SUFFICES ASSUME TypeOK, HealthInv, [Next]_vars PROVE HealthInv'
  OBVIOUS
<1> USE DEF redisVars, flowVars
<1>1. ASSUME NEW a \in Attempts, AttemptStep(a) PROVE HealthInv'
  <2>1. CASE Start(a) \/ GiveUp(a) \/ WaitGate(a) \/ Send(a) \/ MergeForced(a) \/ CleanupRead(a)
    <3>1. PICK next \in {"begin", "late", "sent", "merged", "cleanup"} :
             /\ Goto(a, next)
             /\ pc[a] \in Expended => next \in Expended
      BY <2>1 DEF Start, GiveUp, WaitGate, Send, MergeForced, CleanupRead, Expended
    <3>2. UNCHANGED <<out, claim, applied>>
      BY <2>1 DEF Start, GiveUp, WaitGate, Send, MergeForced, CleanupRead
    <3> QED
      BY <3>1, <3>2, GoesOnAlone
  <2>2. CASE Begin(a) \/ LateBegin(a)
    BY <2>2, BeginHealth
  <2>3. CASE Follow(a) \/ Replayed(a) \/ MergeAutomatic(a) \/ Cancelled(a) \/ Abandoned(a) \/ CleanupFails(a)
    <3>1. PICK next \in {"done", "dropped"} : Goto(a, next)
      BY <2>3 DEF Follow, Replayed, Return, MergeAutomatic, Cancelled, Abandoned, CleanupFails
    <3>2. UNCHANGED <<out, claim, applied>>
      BY <2>3 DEF Follow, Replayed, MergeAutomatic, Cancelled, Abandoned, CleanupFails
    <3> QED
      BY <3>1, <3>2, GoesOnAlone DEF Expended
  <2>4. CASE Answer(a) \/ Persist(a) \/ PersistGivesUp(a)
    <3>1. PICK next \in {"minted", "unhealthy", "failing", "saved"} : Goto(a, next)
      BY <2>4 DEF Answer, Persist, PersistGivesUp
    <3>2. UNCHANGED <<out, claim, applied>> /\ pc[a] \notin Expended
      BY <2>4 DEF Answer, Persist, PersistGivesUp, Expended
    <3> QED
      BY <3>1, <3>2, GoesOnAlone
  <2>5. CASE Verify(a) \/ TakeGate(a) \/ NotSent(a) \/ Publish(a) \/ Cleanup(a)
    <3>1. PICK next : /\ Goto(a, next) /\ next \notin {"ack", "apply"}
                      /\ pc[a] \in Expended => next \in Expended
      BY <2>5 DEF Verify, TakeGate, NotSent, Return, Publish, Cleanup, Expended
    <3>2. UNCHANGED <<claim, applied>>
      BY <2>5 DEF Verify, TakeGate, NotSent, Publish, Cleanup
    <3>3. saved[a].rev \in Nat
      BY DEF TypeOK, Creds
    <3>4. \/ CancelScript(a) \/ SuccessScript(a, saved[a].rev) \/ FailureScript(a, FALSE)
          \/ UNCHANGED redisVars
      BY <2>5 DEF Verify, TakeGate, NotSent, Publish, Cleanup
    <3>5. UNCHANGED redisVars => SameRecord
      BY DEF SameRecord
    <3>6. SameRecord \/ NoAction
      BY <3>3, <3>4, <3>5, CancelRecord, SuccessRecord, FailureRecord
    <3>7. Calm /\ NoNewAck
      BY <3>1, <3>2, GoesOn
    <3> QED
      BY <3>6, <3>7, HealthSame, HealthNoAction
  <2>6. CASE PersistUnknown(a) \/ LateWrite(a)
    BY <2>6, HealthUntouched DEF PersistUnknown, LateWrite
  <2>7. CASE PublishFailure(a) \/ AnswerLost(a)
    BY <2>7, FailureHealth
  <2>8. CASE Ack(a)
    BY <2>8, AckHealth
  <2>9. CASE Apply(a)
    BY <2>9, ApplyHealth
  <2> QED
    BY <1>1, <2>1, <2>2, <2>3, <2>4, <2>5, <2>6, <2>7, <2>8, <2>9 DEF AttemptStep
<1>2. ASSUME NEW i \in Instances, Crash(i) PROVE HealthInv'
  <2>1. \A b \in Attempts : pc'[b] = pc[b] \/ pc'[b] = "dead"
    BY <1>2 DEF Crash
  <2>2. UNCHANGED <<out, claim, applied>>
    BY <1>2 DEF Crash
  <2>3. Calm /\ NoNewAck /\ SameRecord
    BY <2>1, <2>2 DEF Calm, NoNewAck, SameRecord, Expended
  <2> QED
    BY <2>3, HealthSame
<1>3. ASSUME NEW i \in Instances, Sync(i) PROVE HealthInv'
  BY <1>3, HealthUntouched DEF Sync
<1>4. ASSUME NEW e \in Edits, Edit(e) PROVE HealthInv'
  BY <1>4, HealthUntouched DEF Edit
<1>5. CASE LockExpires \/ OutcomeExpires
  <2>1. Calm /\ NoAction
    BY <1>5 DEF LockExpires, OutcomeExpires, Calm, NoAction, NoOutcome
  <2> QED
    BY <2>1, HealthNoAction
<1>6. CASE CooldownEnds \/ ClaimExpires
  <2>1. Calm /\ NoNewAck
    BY <1>6 DEF CooldownEnds, ClaimExpires, Calm, NoNewAck
  <2>2. SameRecord
    BY <1>6, TypesOfKeys DEF CooldownEnds, ClaimExpires, SameRecord, Outcomes
  <2> QED
    BY <2>1, <2>2, HealthSame
<1>7. CASE TokenExpires
  BY <1>7, HealthUntouched DEF TokenExpires
<1>8. CASE UNCHANGED vars
  BY <1>8, HealthUntouched DEF vars
<1> QED
  BY <1>1, <1>2, <1>3, <1>4, <1>5, <1>6, <1>7, <1>8 DEF Next

\* However many waiters claim a failure, however late their acknowledgements
\* come and whatever expires in between, its health action runs at most once.
THEOREM HealthActionsRunOnce == Spec => []HealthAtMostOnce
<1>1. TypeOK /\ HealthInv => HealthAtMostOnce
  BY DEF HealthInv, RanInv, HealthAtMostOnce, TypeOK
<1> QED
  BY <1>1, InitType, NextType, InitHealth, NextHealth, PTL DEF Spec

-----------------------------------------------------------------------------
(* Announced successes.                                                    *)

\* Where an attempt has no token from upstream yet.
Early == {"idle", "begin", "late", "gate", "lead", "ready", "sent"}

\* The record of a running generation carries its leader's identity.
RunInv ==
    out.state = "running" =>
        out.by \in Attempts /\ pc[out.by] # "idle" /\ out.ident = ident[out.by]

\* Only a token that came from upstream is written.
CasInv == \A a \in cas : pc[a] \notin Early

\* An automatic attempt started from an expired token.
ExpiryInv ==
    \A a \in Attempts : pc[a] \notin {"idle", "dead"} /\ Kind[a] = "auto" => ident[a][1] \in expired

\* An automatic leader sends the account it began for.
SourceInv ==
    \A a \in Attempts : pc[a] \in {"ready", "sent", "minted"} /\ Kind[a] # "forced"
                            => Identity(src[a]) = ident[a]

\* Revisions: what was found persisted or announced is not newer than PgSQL.
RevisionInv ==
    /\ pg.rev > 0
    /\ \A a \in Attempts : /\ saved[a].rev <= pg.rev
                           /\ pc[a] \in {"saved", "merged"} => saved[a].rev > 0
                           /\ pc[a] \in Early => saved[a].rev = 0
    /\ out.state = "succeeded" => out.rev > 0 /\ out.rev <= pg.rev

\* Without edits of the context there is one context.
ContextInv ==
    "context" \notin Edits =>
        /\ pg.ctx = "old"
        /\ \A a \in Attempts : src[a].ctx = "old"
        /\ \A i \in Instances : mem[i].ctx = "old"

\* The tokens PgSQL has held so far: the given earlier ones and the present.
Known(P) == P \cup {pg.tok}

\* No attempt runs ahead of expiry, or nobody edits the context: who finds an
\* account persisted finds another token than it began with.
Renewing == (\A a \in Attempts : Kind[a] # "lead") \/ "context" \notin Edits

\* The set P accounts for the tokens that PgSQL held before the present one:
\* none of them can be written again, every account seen anywhere carries one
\* of them or the present one, and whoever has a success to announce began
\* with one of them.
TokenInv(P) ==
    /\ pg.tok \notin P
    /\ \A a \in Attempts :
          /\ {src[a].tok, ident[a][1], saved[a].tok} \subseteq Known(P)
          /\ a \in Known(P) => pc[a] \notin Early /\ src[a].tok \in P
          /\ ident[a][1] # a
          /\ Renewing /\ saved[a].rev > 0 => ident[a][1] \in P
    /\ \A i \in Instances : mem[i].tok \in Known(P)
    /\ "token" \in Known(P) => "token" \notin edits
    /\ Renewing /\ out.state = "succeeded" => out.ident[1] \in P

NewsInv ==
    /\ RunInv /\ CasInv /\ ExpiryInv /\ SourceInv /\ RevisionInv /\ ContextInv
    /\ \E P \in SUBSET Tokens : TokenInv(P)

\* How an attempt goes on: it neither starts again nor loses what it had when
\* it sent its request.
Onward ==
    \A b \in Attempts :
        /\ pc[b] \notin Early => pc'[b] \notin Early
        /\ pc[b] # "idle" => pc'[b] # "idle"
        /\ pc'[b] \notin {"idle", "dead"} => pc[b] \notin {"idle", "dead"}
        /\ pc'[b] \in {"ready", "sent", "minted"} => pc[b] \in {"ready", "sent", "minted"}
        /\ pc'[b] \in {"saved", "merged"} => pc[b] \in {"saved", "merged"}
        /\ pc'[b] \in Early => pc[b] \in Early

\* What a step may put on record: a generation of an attempt that has begun, or
\* a success somebody found persisted.
NewsRecord ==
    /\ out'.state = "running" =>
          out'.by \in Attempts /\ pc[out'.by] # "idle" /\ out'.ident = ident[out'.by]
    /\ out'.state = "succeeded" =>
          \/ out.state = "succeeded" /\ out'.ident = out.ident /\ out'.rev = out.rev
          \/ \E b \in Attempts : saved[b].rev > 0 /\ out'.ident = ident[b] /\ out'.rev = saved[b].rev

\* What a step may bring into memory: PgSQL's account or a saved token.
NewsMemory ==
    \A i \in Instances :
        /\ mem'[i].tok = mem[i].tok \/ mem'[i].tok = pg.tok \/ \E b \in Attempts : mem'[i].tok = saved[b].tok
        /\ mem'[i].ctx = mem[i].ctx \/ mem'[i].ctx = pg.ctx

\* An unchanged record, or memory, is nothing new.
LEMMA RecordStays ==
    ASSUME NewsInv, UNCHANGED out
    PROVE  NewsRecord
BY DEF NewsInv, RunInv, NewsRecord

\* The same for the memory of the instances.
LEMMA MemoryStays ==
    ASSUME UNCHANGED mem
    PROVE  NewsMemory
BY DEF NewsMemory

\* The flow of the attempts, the record and the memory change, PgSQL and what
\* the attempts know of it do not.
LEMMA FlowKeepsNews ==
    ASSUME TypeOK, NewsInv, UNCHANGED <<pg, edits, ident, src, saved>>, expired \subseteq expired',
           \A b \in cas' : b \in cas \/ pc'[b] \notin Early,
           Onward, NewsRecord, NewsMemory
    PROVE  NewsInv'
<1>1. RunInv'
  BY DEF NewsRecord, RunInv, Onward
<1>2. CasInv'
  BY DEF NewsInv, CasInv, Onward, TypeOK
<1>3. ExpiryInv'
  BY DEF NewsInv, ExpiryInv, Onward
<1>4. SourceInv'
  BY DEF NewsInv, SourceInv, Onward, Identity
<1>5. RevisionInv'
  BY DEF NewsInv, RevisionInv, Onward, NewsRecord
<1>6. ContextInv'
  BY DEF NewsInv, ContextInv, NewsMemory
<1>7. PICK P \in SUBSET Tokens : TokenInv(P)
  BY DEF NewsInv
<1>8. TokenInv(P)'
  <2>1. \A i \in Instances : mem'[i].tok \in Known(P)
    BY <1>7 DEF TokenInv, NewsMemory, Known
  <2>2. Renewing /\ out'.state = "succeeded" => out'.ident[1] \in P
    BY <1>7 DEF TokenInv, NewsRecord
  <2>3. \A a \in Attempts :
          /\ {src[a].tok, ident[a][1], saved[a].tok} \subseteq Known(P)
          /\ a \in Known(P) => pc'[a] \notin Early /\ src[a].tok \in P
          /\ ident[a][1] # a
          /\ Renewing /\ saved[a].rev > 0 => ident[a][1] \in P
    BY <1>7 DEF TokenInv, Onward
  <2> QED
    BY <1>7, <2>1, <2>2, <2>3 DEF TokenInv, Known
<1> QED
  BY <1>1, <1>2, <1>3, <1>4, <1>5, <1>6, <1>7, <1>8 DEF NewsInv

\* An attempt goes on.
LEMMA GoesOnward ==
    ASSUME TypeOK, NEW a \in Attempts, NEW next, Goto(a, next), pc[a] \notin {"idle", "dead"},
           next # "idle", next \in Early => pc[a] \in Early,
           next \in {"ready", "sent", "minted"} => pc[a] \in {"ready", "sent", "minted"},
           next \in {"saved", "merged"} => pc[a] \in {"saved", "merged"}
    PROVE  Onward
BY DEF Onward, Goto, TypeOK

\* The record after a begin call ...
LEMMA BeginNews ==
    ASSUME TypeOK, NewsInv, NEW a \in Attempts, BeginScript(a), pc[a] # "idle"
    PROVE  NewsRecord
<1>1. CASE Reply(a) = "leader"
  <2>1. out'.state = "running" /\ out'.by = a /\ out'.ident = ident[a]
    BY <1>1 DEF BeginScript, NoOutcome
  <2> QED
    BY <2>1 DEF NewsRecord
<1>2. CASE Reply(a) = "replay"
  <2>1. \/ out' = [out EXCEPT !.health = "claimed", !.claim = a, !.live = TRUE]
        \/ out' = out
    BY <1>2 DEF BeginScript
  <2>2. out'.state = out.state /\ out'.by = out.by /\ out'.ident = out.ident /\ out'.rev = out.rev
    BY <2>1, TypesOfKeys DEF Outcomes
  <2> QED
    BY <2>2 DEF NewsInv, RunInv, NewsRecord
<1>3. CASE Reply(a) \notin {"replay", "leader"}
  BY <1>3, RecordStays DEF BeginScript, redisVars
<1> QED
  BY <1>1, <1>2, <1>3

\* ... after a cancelled refresh ...
LEMMA CancelNews ==
    ASSUME NewsInv, NEW a \in Attempts, CancelScript(a)
    PROVE  NewsRecord
<1>1. CASE Leads(a)
  BY <1>1 DEF CancelScript, NewsRecord, NoOutcome
<1>2. CASE ~Leads(a)
  BY <1>2, RecordStays DEF CancelScript, redisVars
<1> QED
  BY <1>1, <1>2

\* ... after a published failure ...
LEMMA FailureNews ==
    ASSUME TypeOK, NewsInv, NEW a \in Attempts, NEW h \in BOOLEAN, FailureScript(a, h)
    PROVE  NewsRecord
<1>1. CASE Leads(a)
  BY <1>1, FailureAction DEF NewsRecord
<1>2. CASE ~Leads(a)
  BY <1>2, RecordStays DEF FailureScript, redisVars
<1> QED
  BY <1>1, <1>2

\* ... and after a published success: the leader's identity was its record's.
LEMMA SuccessNews ==
    ASSUME TypeOK, NewsInv, NEW a \in Attempts, saved[a].rev > 0, SuccessScript(a, saved[a].rev)
    PROVE  NewsRecord
<1>1. CASE Leads(a)
  <2>1. out'.state = "succeeded" /\ out'.ident = out.ident /\ out'.rev = saved[a].rev
    BY <1>1 DEF SuccessScript, NoOutcome
  <2>2. out.ident = ident[a]
    BY <1>1 DEF NewsInv, RunInv, Leads
  <2> QED
    BY <2>1, <2>2 DEF NewsRecord
<1>2. CASE ~Leads(a)
  BY <1>2, RecordStays DEF SuccessScript, redisVars
<1> QED
  BY <1>1, <1>2

-----------------------------------------------------------------------------
(* Steps that read an account.                                             *)

\* An attempt takes the identity of the account in its instance's memory.
LEMMA StartNews ==
    ASSUME TypeOK, NewsInv, NEW a \in Attempts, Start(a)
    PROVE  NewsInv'
<1> DEFINE i == InstanceOf[a]
<1>0. i \in Instances
  BY RefreshAssumption
<1>1. /\ pc[a] = "idle" /\ pc' = [pc EXCEPT ![a] = "begin"]
      /\ ident' = [ident EXCEPT ![a] = Identity(mem[i])]
      /\ UNCHANGED <<out, pg, edits, expired, mem, src, saved, cas>>
  BY DEF Start, Goto, redisVars, pgVars
<1>2. ident'[a][1] = mem[i].tok /\ \A b \in Attempts : b # a => ident'[b] = ident[b]
  BY <1>1 DEF TypeOK, Identity
<1>3. \A b \in Attempts : pc'[b] = IF b = a THEN "begin" ELSE pc[b]
  BY <1>1 DEF TypeOK
<1>4. Kind[a] = "auto" => mem[i].tok \in expired
  BY DEF Start
<1>5. RunInv'
  BY <1>1, <1>2, <1>3 DEF NewsInv, RunInv
<1>6. CasInv'
  BY <1>1, <1>3 DEF NewsInv, CasInv, Early, TypeOK
<1>7. ExpiryInv'
  BY <1>1, <1>2, <1>3, <1>4 DEF NewsInv, ExpiryInv
<1>8. SourceInv'
  BY <1>1, <1>2, <1>3 DEF NewsInv, SourceInv, Identity
<1>9. RevisionInv'
  BY <1>1, <1>3 DEF NewsInv, RevisionInv, Early
<1>10. ContextInv'
  BY <1>1 DEF NewsInv, ContextInv
<1>11. PICK P \in SUBSET Tokens : TokenInv(P)
  BY DEF NewsInv
<1>12. TokenInv(P)'
  <2>1. a \notin Known(P) /\ mem[i].tok \in Known(P) /\ saved[a].rev = 0
    BY <1>0, <1>1, <1>11 DEF TokenInv, NewsInv, RevisionInv, Early
  <2>2. ASSUME NEW b \in Attempts
        PROVE  /\ {src[b].tok, ident'[b][1], saved[b].tok} \subseteq Known(P)
               /\ b \in Known(P) => pc'[b] \notin Early /\ src[b].tok \in P
               /\ ident'[b][1] # b
               /\ Renewing /\ saved[b].rev > 0 => ident'[b][1] \in P
    <3>1. CASE b = a
      BY <1>2, <1>11, <2>1, <3>1 DEF TokenInv
    <3>2. CASE b # a
      BY <1>2, <1>3, <1>11, <3>2 DEF TokenInv
    <3> QED
      BY <3>1, <3>2
  <2> QED
    BY <1>1, <1>11, <2>2 DEF TokenInv, Known
<1> QED
  BY <1>5, <1>6, <1>7, <1>8, <1>9, <1>10, <1>11, <1>12 DEF NewsInv

\* A leader decides which account it sends.
LEMMA SourceNews ==
    ASSUME TypeOK, NewsInv, NEW a \in Attempts, Verify(a) \/ TakeGate(a)
    PROVE  NewsInv'
<1> DEFINE i == InstanceOf[a]
<1>0. i \in Instances /\ pc[a] = "lead"
  BY RefreshAssumption DEF Verify, TakeGate
<1>1. UNCHANGED <<pg, edits, expired, ident, saved, cas>>
  BY DEF Verify, TakeGate, pgVars
<1>2. PICK next \in {"ready", "done", "gate"} : Goto(a, next)
  BY DEF Verify, TakeGate
<1>3. \A b \in Attempts : pc'[b] = IF b = a THEN next ELSE pc[b]
  BY <1>2 DEF Goto, TypeOK
<1>4. NewsRecord
  BY CancelNews, RecordStays DEF Verify, TakeGate, redisVars
<1>5. NewsMemory
  BY <1>0 DEF Verify, TakeGate, NewsMemory, Reloaded, TypeOK
<1>6. \A b \in Attempts : b # a => src'[b] = src[b]
  BY DEF Verify, TakeGate, TypeOK
<1>7. src'[a] \in {src[a], mem[i], pg}
  BY <1>0 DEF Verify, TakeGate, TypeOK, Reloaded
<1>8. pc'[a] = "ready" /\ Kind[a] # "forced" => Identity(src'[a]) = ident[a]
  BY <1>0, <1>2, <1>3 DEF Verify, TakeGate, TypeOK, Goto
<1>9. RunInv'
  BY <1>1, <1>2, <1>3, <1>4 DEF NewsRecord, RunInv
<1>10. CasInv'
  BY <1>0, <1>1, <1>3 DEF NewsInv, CasInv, Early, TypeOK
<1>11. ExpiryInv'
  BY <1>0, <1>1, <1>3 DEF NewsInv, ExpiryInv
<1>12. SourceInv'
  BY <1>1, <1>2, <1>3, <1>6, <1>8 DEF NewsInv, SourceInv
<1>13. RevisionInv'
  BY <1>0, <1>1, <1>2, <1>3, <1>4 DEF NewsInv, RevisionInv, Early, NewsRecord
<1>14. ContextInv'
  <2> SUFFICES ASSUME "context" \notin Edits PROVE ContextInv'
    BY DEF ContextInv
  <2>1. pg.ctx = "old" /\ mem[i].ctx = "old" /\ \A b \in Attempts : src[b].ctx = "old"
    BY <1>0 DEF NewsInv, ContextInv
  <2>2. \A b \in Attempts : src'[b].ctx = "old"
    BY <1>6, <1>7, <2>1
  <2>3. \A j \in Instances : mem'[j].ctx = "old"
    BY <1>5 DEF NewsInv, ContextInv, NewsMemory
  <2> QED
    BY <1>1, <2>1, <2>2, <2>3 DEF ContextInv
<1>15. PICK P \in SUBSET Tokens : TokenInv(P)
  BY DEF NewsInv
<1>16. TokenInv(P)'
  <2>1. a \notin Known(P) /\ src'[a].tok \in Known(P)
    BY <1>0, <1>7, <1>15 DEF TokenInv, Early, Known
  <2>2. \A j \in Instances : mem'[j].tok \in Known(P)
    BY <1>5, <1>15 DEF TokenInv, NewsMemory, Known
  <2>3. Renewing /\ out'.state = "succeeded" => out'.ident[1] \in P
    BY <1>4, <1>15 DEF TokenInv, NewsRecord
  <2>4. \A b \in Attempts :
          /\ {src'[b].tok, ident[b][1], saved[b].tok} \subseteq Known(P)
          /\ b \in Known(P) => pc'[b] \notin Early /\ src'[b].tok \in P
          /\ ident[b][1] # b
          /\ Renewing /\ saved[b].rev > 0 => ident[b][1] \in P
    BY <1>3, <1>6, <1>15, <2>1 DEF TokenInv
  <2> QED
    BY <1>1, <1>15, <2>2, <2>3, <2>4 DEF TokenInv, Known
<1> QED
  BY <1>9, <1>10, <1>11, <1>12, <1>13, <1>14, <1>15, <1>16 DEF NewsInv

-----------------------------------------------------------------------------
(* Steps that write an account, or find one written.                       *)

\* An attempt keeps the account it found persisted.
LEMMA SavedNews ==
    ASSUME TypeOK, NewsInv, NEW a \in Attempts, NEW next \in {"saved", "cleanup"}, Goto(a, next),
           pc[a] \in {"minted", "dropped"}, saved' = [saved EXCEPT ![a] = pg],
           Renewing => pg.tok # ident[a][1],
           UNCHANGED <<out, pg, edits, expired, mem, ident, src, cas>>
    PROVE  NewsInv'
<1>1. \A b \in Attempts : pc'[b] = IF b = a THEN next ELSE pc[b]
  BY DEF Goto, TypeOK
<1>2. \A b \in Attempts : saved'[b] = IF b = a THEN pg ELSE saved[b]
  BY DEF TypeOK
<1>3. RunInv'
  BY <1>1 DEF NewsInv, RunInv
<1>4. CasInv'
  BY <1>1 DEF NewsInv, CasInv, Early, TypeOK
<1>5. ExpiryInv'
  BY <1>1 DEF NewsInv, ExpiryInv
<1>6. SourceInv'
  BY <1>1 DEF NewsInv, SourceInv, Identity
<1>7. RevisionInv'
  <2>1. pg.rev \in Nat /\ pg.rev > 0
    BY DEF NewsInv, RevisionInv, TypeOK, Creds
  <2>2. ASSUME NEW b \in Attempts
        PROVE  /\ saved'[b].rev <= pg.rev
               /\ pc'[b] \in {"saved", "merged"} => saved'[b].rev > 0
               /\ pc'[b] \in Early => saved'[b].rev = 0
    <3>1. CASE b = a
      BY <1>1, <1>2, <2>1, <3>1 DEF Early
    <3>2. CASE b # a
      BY <1>1, <1>2, <3>2 DEF NewsInv, RevisionInv
    <3> QED
      BY <3>1, <3>2
  <2> QED
    BY <2>2 DEF NewsInv, RevisionInv
<1>8. ContextInv'
  BY DEF NewsInv, ContextInv
<1>9. PICK P \in SUBSET Tokens : TokenInv(P)
  BY DEF NewsInv
<1>10. TokenInv(P)'
  <2>1. (Renewing => ident[a][1] \in P) /\ pg.tok \in Known(P)
    BY <1>9 DEF TokenInv, Known
  <2>2. \A b \in Attempts :
          /\ {src[b].tok, ident[b][1], saved'[b].tok} \subseteq Known(P)
          /\ b \in Known(P) => pc'[b] \notin Early /\ src[b].tok \in P
          /\ ident[b][1] # b
          /\ Renewing /\ saved'[b].rev > 0 => ident[b][1] \in P
    BY <1>1, <1>2, <1>9, <2>1 DEF TokenInv, Early
  <2> QED
    BY <1>9, <2>2 DEF TokenInv, Known
<1> QED
  BY <1>3, <1>4, <1>5, <1>6, <1>7, <1>8, <1>9, <1>10 DEF NewsInv

\* The compare-and-swap is applied: the token it replaces joins the earlier
\* ones, and the new one is none of them, because its attempt's request was
\* sent with the present one.
LEMMA WriteNews ==
    ASSUME TypeOK, NewsInv, NEW a \in Attempts, pc[a] \notin Early, CasApplies(a), WriteToken(a),
           \/ UNCHANGED <<saved, pc>>
           \/ pc[a] = "minted" /\ saved' = [saved EXCEPT ![a] = pg'] /\ Goto(a, "saved"),
           cas' \subseteq cas, UNCHANGED <<out, edits, expired, mem, ident, src>>
    PROVE  NewsInv'
<1>1. pg'.tok = a /\ pg'.ctx = pg.ctx /\ pg'.rev = pg.rev + 1 /\ pg.rev \in Nat
  BY DEF WriteToken, TypeOK, Creds
<1>2. src[a].tok = pg.tok
  BY DEF CasApplies, Identity
<1>3. \A b \in Attempts : b # a => saved'[b] = saved[b] /\ pc'[b] = pc[b]
  BY DEF Goto, TypeOK
<1>4. \/ saved'[a] = saved[a] /\ pc'[a] = pc[a]
      \/ saved'[a] = pg' /\ pc'[a] = "saved" /\ pc[a] = "minted"
  BY DEF Goto, TypeOK
<1>5. RunInv'
  BY <1>3, <1>4 DEF NewsInv, RunInv
<1>6. CasInv'
  BY <1>3, <1>4 DEF NewsInv, CasInv, Early, TypeOK
<1>7. ExpiryInv'
  BY <1>3, <1>4 DEF NewsInv, ExpiryInv
<1>8. SourceInv'
  BY <1>3, <1>4 DEF NewsInv, SourceInv
<1>9. RevisionInv'
  <2>1. pg'.rev > 0
    BY <1>1
  <2>2. ASSUME NEW b \in Attempts
        PROVE  /\ saved'[b].rev <= pg'.rev
               /\ pc'[b] \in {"saved", "merged"} => saved'[b].rev > 0
               /\ pc'[b] \in Early => saved'[b].rev = 0
    <3>0. saved[b].rev \in Nat /\ saved[b].rev <= pg.rev
      BY DEF NewsInv, RevisionInv, TypeOK, Creds
    <3>1. CASE saved'[b] = saved[b] /\ pc'[b] = pc[b]
      BY <1>1, <3>0, <3>1 DEF NewsInv, RevisionInv
    <3>2. CASE saved'[b] = pg' /\ pc'[b] = "saved"
      BY <1>1, <3>2 DEF Early
    <3> QED
      BY <1>3, <1>4, <3>1, <3>2
  <2>3. out.state = "succeeded" => out.rev > 0 /\ out.rev <= pg'.rev
    <3>1. out.rev \in Nat
      BY TypesOfKeys DEF Outcomes
    <3> QED
      BY <1>1, <3>1 DEF NewsInv, RevisionInv
  <2> QED
    BY <2>1, <2>2, <2>3 DEF RevisionInv
<1>10. ContextInv'
  BY <1>1 DEF NewsInv, ContextInv
<1>11. PICK P \in SUBSET Tokens : TokenInv(P)
  BY DEF NewsInv
<1>0. PICK Q : Q = P \cup {pg.tok}
  OBVIOUS
<1>12. Q \in SUBSET Tokens
  BY <1>0 DEF TypeOK, Creds
<1>13. a \notin Q
  BY <1>0, <1>2, <1>11 DEF TokenInv, Known
<1>14. Known(P) = Q /\ Known(Q)' = Q \cup {a}
  BY <1>0, <1>1 DEF Known
<1>15. TokenInv(Q)'
  <2>1. ASSUME NEW b \in Attempts
        PROVE  /\ {src[b].tok, ident[b][1]} \subseteq Q
               /\ saved'[b].tok \in Q \cup {a}
               /\ b \in Q \cup {a} => pc'[b] \notin Early /\ src[b].tok \in Q
               /\ ident[b][1] # b
               /\ Renewing /\ saved'[b].rev > 0 => ident[b][1] \in Q
    <3>1. {src[b].tok, ident[b][1], saved[b].tok} \subseteq Q /\ ident[b][1] # b
      BY <1>11, <1>14 DEF TokenInv
    <3>2. saved'[b].tok \in Q \cup {a}
      BY <1>1, <1>3, <1>4, <3>1
    <3>3. b \in Q => pc[b] \notin Early
      BY <1>11, <1>14 DEF TokenInv
    <3>4. b \in Q \cup {a} => pc'[b] \notin Early
      BY <1>3, <1>4, <3>3 DEF Early
    <3> QED
      BY <3>1, <3>2, <3>4
  <2>2. pg'.tok \notin Q
    BY <1>1, <1>13
  <2>3. \A i \in Instances : mem[i].tok \in Q
    BY <1>11, <1>14 DEF TokenInv
  <2>4. "token" \in Q \cup {a} => "token" \notin edits
    BY <1>11, <1>14, RefreshAssumption DEF TokenInv
  <2>5. Renewing /\ out.state = "succeeded" => out.ident[1] \in Q
    BY <1>0, <1>11 DEF TokenInv
  <2> QED
    BY <1>14, <2>1, <2>2, <2>3, <2>4, <2>5 DEF TokenInv
<1> QED
  BY <1>5, <1>6, <1>7, <1>8, <1>9, <1>10, <1>12, <1>15 DEF NewsInv

\* The administrator saves the account, with a new token once at most.
LEMMA EditNews ==
    ASSUME TypeOK, NewsInv, NEW e \in Edits, Edit(e)
    PROVE  NewsInv'
<1>1. /\ e \in edits /\ edits' = edits \ {e}
      /\ pg'.tok = (IF e = "token" THEN "token" ELSE pg.tok)
      /\ pg'.ctx = (IF e = "context" THEN "new" ELSE pg.ctx)
      /\ pg'.rev = pg.rev + 1 /\ pg.rev \in Nat
      /\ UNCHANGED <<out, expired, mem, pc, ident, src, saved, cas>>
  BY DEF Edit, redisVars, instVars, flowVars, TypeOK, Creds
<1>2. RunInv' /\ CasInv' /\ ExpiryInv' /\ SourceInv'
  BY <1>1 DEF NewsInv, RunInv, CasInv, ExpiryInv, SourceInv, Identity
<1>3. RevisionInv'
  <2>1. out.rev \in Nat /\ \A b \in Attempts : saved[b].rev \in Nat
    BY TypesOfKeys DEF Outcomes, TypeOK, Creds
  <2> QED
    BY <1>1, <2>1 DEF NewsInv, RevisionInv
<1>4. ContextInv'
  BY <1>1 DEF NewsInv, ContextInv
<1>5. PICK P \in SUBSET Tokens : TokenInv(P)
  BY DEF NewsInv
<1>6. CASE e # "token"
  <2>1. TokenInv(P)'
    BY <1>1, <1>5, <1>6 DEF TokenInv, Known
  <2> QED
    BY <1>2, <1>3, <1>4, <1>5, <2>1 DEF NewsInv
<1>7. CASE e = "token"
  <2>0. PICK Q : Q = P \cup {pg.tok}
    OBVIOUS
  <2>1. Q \in SUBSET Tokens
    BY <2>0 DEF TypeOK, Creds
  <2>2. pg'.tok = "token" /\ "token" \notin Q /\ "token" \notin edits' /\ "token" \notin Attempts
    BY <2>0, <1>1, <1>5, <1>7, RefreshAssumption DEF TokenInv, Known
  <2>3. Known(P) = Q /\ Known(Q)' = Q \cup {"token"}
    BY <2>0, <2>2 DEF Known
  <2>4. \A b \in Attempts :
          /\ {src[b].tok, ident[b][1], saved[b].tok} \subseteq Q
          /\ b \in Q => pc[b] \notin Early /\ src[b].tok \in Q
          /\ ident[b][1] # b
          /\ Renewing /\ saved[b].rev > 0 => ident[b][1] \in Q
    BY <2>0, <1>5, <2>3 DEF TokenInv
  <2>5. \A i \in Instances : mem[i].tok \in Q
    BY <1>5, <2>3 DEF TokenInv
  <2>6. Renewing /\ out.state = "succeeded" => out.ident[1] \in Q
    BY <2>0, <1>5 DEF TokenInv
  <2>7. TokenInv(Q)'
    BY <1>1, <2>2, <2>3, <2>4, <2>5, <2>6 DEF TokenInv
  <2> QED
    BY <1>2, <1>3, <1>4, <2>1, <2>7 DEF NewsInv
<1> QED
  BY <1>6, <1>7

\* A conflict that is accepted leaves another token than the attempt began
\* with.  An attempt ahead of expiry accepts any unexpired token, so it needs
\* the context to stay: else it would take its own old token for a success.
LEMMA ConflictNews ==
    ASSUME TypeOK, NewsInv, NEW a \in Attempts, pc[a] = "minted", ~CasApplies(a), AcceptsConflict(a),
           Renewing
    PROVE  pg.tok # ident[a][1]
<1>1. PICK P \in SUBSET Tokens : TokenInv(P)
  BY DEF NewsInv
<1>2. CASE pg.tok = a
  BY <1>1, <1>2 DEF TokenInv
<1>3. CASE Kind[a] # "forced" /\ pg.tok \notin expired /\ (Kind[a] = "recover" => pg.tok # ident[a][1])
  <2>1. Kind[a] \in {"auto", "lead", "recover", "forced"}
    BY RefreshAssumption
  <2>2. CASE Kind[a] = "auto"
    BY <1>3, <2>2 DEF NewsInv, ExpiryInv
  <2>3. CASE Kind[a] = "lead"
    <3>1. Identity(src[a]) = ident[a]
      BY <2>3 DEF NewsInv, SourceInv
    <3>2. pg.ctx = src[a].ctx
      BY <2>3 DEF Renewing, NewsInv, ContextInv
    <3> QED
      BY <3>1, <3>2 DEF CasApplies, Identity
  <2> QED
    BY <1>3, <2>1, <2>2, <2>3
<1> QED
  BY <1>2, <1>3 DEF AcceptsConflict

\* At first PgSQL has held one token.
LEMMA InitNews == Init => NewsInv
<1> SUFFICES ASSUME Init PROVE NewsInv
  OBVIOUS
<1>1. RunInv /\ CasInv /\ ExpiryInv /\ SourceInv
  BY DEF Init, RunInv, CasInv, ExpiryInv, SourceInv, NoOutcome
<1>2. RevisionInv
  BY DEF Init, RevisionInv, FirstCred, NoCred, NoOutcome
<1>3. ContextInv
  BY DEF Init, ContextInv, FirstCred
<1>4. TokenInv({})
  BY RefreshAssumption DEF Init, TokenInv, Known, FirstCred, NoCred, NoOutcome
<1> QED
  BY <1>1, <1>2, <1>3, <1>4 DEF NewsInv

\* Every step keeps the invariant.
LEMMA NextNews == TypeOK /\ NewsInv /\ [Next]_vars => NewsInv'
<1> SUFFICES ASSUME TypeOK, NewsInv, [Next]_vars PROVE NewsInv'
  OBVIOUS
<1> USE DEF redisVars, pgVars, instVars, flowVars
<1>1. ASSUME NEW a \in Attempts, AttemptStep(a) PROVE NewsInv'
  <2>1. CASE Start(a)
    BY <2>1, StartNews
  <2>2. CASE Begin(a) \/ LateBegin(a)
    <3>1. UNCHANGED <<pg, edits, ident, src, saved, expired, cas, mem>> /\ BeginScript(a)
      BY <2>2 DEF Begin, LateBegin
    <3>2. pc[a] \in {"begin", "late"}
      BY <2>2 DEF Begin, LateBegin
    <3>3. PICK next \in {"lead", "begin", "follow", "ack", "replayed", "done"} : Goto(a, next)
      BY <2>2 DEF Begin, LateBegin
    <3>4. Onward
      BY <3>2, <3>3, GoesOnward DEF Early
    <3> QED
      BY <3>1, <3>2, <3>4, BeginNews, MemoryStays, FlowKeepsNews
  <2>3. CASE \/ GiveUp(a) \/ Replayed(a) \/ WaitGate(a) \/ Send(a) \/ Answer(a) \/ PersistGivesUp(a)
             \/ Apply(a) \/ Cancelled(a) \/ Abandoned(a) \/ CleanupFails(a)
    <3>1. UNCHANGED <<out, pg, edits, ident, src, saved, expired, cas, mem>>
      BY <2>3 DEF GiveUp, Replayed, WaitGate, Send, Answer, PersistGivesUp, Apply, Cancelled, Abandoned,
         CleanupFails, Return
    <3>2. Onward
      <4>1. CASE GiveUp(a) \/ WaitGate(a) \/ Send(a) \/ Answer(a) \/ PersistGivesUp(a)
        <5>1. PICK next : /\ Goto(a, next)
                          /\ \/ pc[a] = "begin" /\ next = "late"
                             \/ pc[a] = "gate" /\ next = "begin"
                             \/ pc[a] = "ready" /\ next = "sent"
                             \/ pc[a] = "sent" /\ next \in {"minted", "unhealthy", "failing"}
                             \/ pc[a] = "minted" /\ next = "failing"
          BY <4>1 DEF GiveUp, WaitGate, Send, Answer, PersistGivesUp
        <5> QED
          BY <5>1, GoesOnward DEF Early
      <4>2. CASE Replayed(a) \/ Apply(a) \/ Cancelled(a) \/ Abandoned(a) \/ CleanupFails(a)
        <5>1. PICK next \in {"done", "replayed", "dropped"} : Goto(a, next)
          BY <4>2 DEF Replayed, Apply, Cancelled, Abandoned, CleanupFails, Return
        <5>2. pc[a] \notin {"idle", "dead"}
          BY <4>2 DEF Replayed, Apply, Cancelled, Abandoned, CleanupFails
        <5> QED
          BY <5>1, <5>2, GoesOnward DEF Early
      <4> QED
        BY <2>3, <4>1, <4>2
    <3> QED
      BY <3>1, <3>2, RecordStays, MemoryStays, FlowKeepsNews
  <2>4. CASE Follow(a) \/ MergeForced(a) \/ MergeAutomatic(a)
    <3>1. UNCHANGED <<out, pg, edits, ident, src, saved, expired, cas>>
      BY <2>4 DEF Follow, MergeForced, MergeAutomatic
    <3>2. PICK next : Goto(a, next) /\ (next = "done" \/ (next = "merged" /\ pc[a] = "saved"))
      BY <2>4 DEF Follow, MergeForced, MergeAutomatic
    <3>3. pc[a] \notin {"idle", "dead"}
      BY <2>4 DEF Follow, MergeForced, MergeAutomatic
    <3>4. Onward
      BY <3>2, <3>3, GoesOnward DEF Early
    <3>5. NewsMemory
      <4>0. InstanceOf[a] \in Instances
        BY RefreshAssumption
      <4>1. CASE Follow(a)
        BY <4>0, <4>1 DEF Follow, NewsMemory, Reloaded, TypeOK
      <4>2. CASE Merge(a)
        <5>1. /\ mem'[InstanceOf[a]].tok = saved[a].tok
              /\ mem'[InstanceOf[a]].ctx = mem[InstanceOf[a]].ctx
          BY <4>0, <4>2 DEF Merge, TypeOK, Creds
        <5>2. \A i \in Instances : i # InstanceOf[a] => mem'[i] = mem[i]
          BY <4>0, <4>2 DEF Merge, TypeOK
        <5> QED
          BY <5>1, <5>2 DEF NewsMemory
      <4> QED
        BY <2>4, <4>1, <4>2 DEF MergeForced, MergeAutomatic
    <3> QED
      BY <3>1, <3>4, <3>5, RecordStays, FlowKeepsNews
  <2>5. CASE Verify(a) \/ TakeGate(a)
    BY <2>5, SourceNews
  <2>6. CASE NotSent(a) \/ Publish(a) \/ Cleanup(a) \/ PublishFailure(a) \/ AnswerLost(a) \/ Ack(a)
    <3>1. UNCHANGED <<pg, edits, ident, src, saved, expired, cas, mem>>
      BY <2>6 DEF NotSent, Return, Publish, Cleanup, PublishFailure, AnswerLost, Ack
    <3>2. PICK next \in {"done", "published", "dropped", "ack", "apply", "replayed"} : Goto(a, next)
      BY <2>6 DEF NotSent, Return, Publish, Cleanup, PublishFailure, AnswerLost, Ack
    <3>3. pc[a] \notin {"idle", "dead"}
      BY <2>6 DEF NotSent, Publish, Cleanup, PublishFailure, AnswerLost, Ack
    <3>4. Onward
      BY <3>2, <3>3, GoesOnward DEF Early
    <3>5. NewsRecord
      <4>1. CASE NotSent(a)
        BY <4>1, CancelNews DEF NotSent
      <4>2. CASE Publish(a)
        <5>1. saved[a].rev > 0
          BY <4>2 DEF Publish, NewsInv, RevisionInv
        <5> QED
          BY <4>2, <5>1, SuccessNews DEF Publish
      <4>3. CASE Cleanup(a)
        BY <4>3, CancelNews, SuccessNews, FailureNews DEF Cleanup
      <4>4. CASE PublishFailure(a) \/ AnswerLost(a)
        <5>1. PICK h \in BOOLEAN : FailureScript(a, h)
          BY <4>4 DEF PublishFailure, AnswerLost
        <5> QED
          BY <5>1, FailureNews
      <4>5. CASE Ack(a)
        <5>1. out'.state = out.state /\ out'.by = out.by /\ out'.ident = out.ident /\ out'.rev = out.rev
          BY <4>5, TypesOfKeys DEF Ack, Outcomes
        <5> QED
          BY <5>1 DEF NewsInv, RunInv, NewsRecord
      <4> QED
        BY <2>6, <4>1, <4>2, <4>3, <4>4, <4>5
    <3> QED
      BY <3>1, <3>4, <3>5, MemoryStays, FlowKeepsNews
  <2>7. CASE Persist(a)
    <3>0. pc[a] = "minted" /\ UNCHANGED <<out, edits, expired, mem, ident, src, cas>>
      BY <2>7 DEF Persist
    <3>1. CASE CasApplies(a)
      BY <2>7, <3>0, <3>1, WriteNews DEF Persist, Early
    <3>2. CASE ~CasApplies(a) /\ AcceptsConflict(a)
      BY <2>7, <3>0, <3>2, ConflictNews, SavedNews DEF Persist
    <3>3. CASE ~CasApplies(a) /\ ~AcceptsConflict(a)
      <4>1. Goto(a, "failing") /\ UNCHANGED <<pg, saved>>
        BY <2>7, <3>3 DEF Persist
      <4>2. Onward
        BY <3>0, <4>1, GoesOnward DEF Early
      <4> QED
        BY <3>0, <4>1, <4>2, RecordStays, MemoryStays, FlowKeepsNews
    <3> QED
      BY <3>1, <3>2, <3>3
  <2>8. CASE PersistUnknown(a)
    <3>1. UNCHANGED <<out, pg, edits, ident, src, saved, expired, mem, pc>>
      BY <2>8 DEF PersistUnknown
    <3>2. cas' = cas \cup {a} /\ pc[a] \notin Early
      BY <2>8 DEF PersistUnknown, Early
    <3>3. Onward
      BY <3>1 DEF Onward
    <3> QED
      BY <3>1, <3>2, <3>3, RecordStays, MemoryStays, FlowKeepsNews
  <2>9. CASE LateWrite(a)
    <3>0. pc[a] \notin Early
      BY <2>9 DEF LateWrite, NewsInv, CasInv
    <3>1. cas' \subseteq cas /\ UNCHANGED <<out, edits, expired, mem, ident, src, saved, pc>>
      BY <2>9 DEF LateWrite
    <3>2. CASE CasApplies(a)
      BY <2>9, <3>0, <3>1, <3>2, WriteNews DEF LateWrite
    <3>3. CASE ~CasApplies(a)
      <4>1. UNCHANGED pg
        BY <2>9, <3>3 DEF LateWrite
      <4>2. Onward
        BY <3>1 DEF Onward
      <4> QED
        BY <3>1, <4>1, <4>2, RecordStays, MemoryStays, FlowKeepsNews
    <3> QED
      BY <3>2, <3>3
  <2>10. CASE CleanupRead(a)
    <3>0. /\ pc[a] = "dropped" /\ Goto(a, "cleanup")
          /\ UNCHANGED <<out, pg, edits, expired, mem, ident, src, cas>>
      BY <2>10 DEF CleanupRead
    <3>1. CASE saved' = saved
      <4>1. Onward
        BY <3>0, GoesOnward DEF Early
      <4> QED
        BY <3>0, <3>1, <4>1, RecordStays, MemoryStays, FlowKeepsNews
    <3>2. CASE saved' = [saved EXCEPT ![a] = pg] /\ pg.tok # ident[a][1]
      BY <3>0, <3>2, SavedNews
    <3> QED
      BY <2>10, <3>1, <3>2 DEF CleanupRead
  <2> QED
    BY <1>1, <2>1, <2>2, <2>3, <2>4, <2>5, <2>6, <2>7, <2>8, <2>9, <2>10 DEF AttemptStep
<1>2. ASSUME NEW i \in Instances, Crash(i) PROVE NewsInv'
  <2>1. UNCHANGED <<out, pg, edits, ident, src, saved, expired, cas, mem>>
    BY <1>2 DEF Crash
  <2>2. \A b \in Attempts : pc'[b] = pc[b] \/ pc'[b] = "dead"
    BY <1>2 DEF Crash
  <2>3. Onward
    BY <2>2 DEF Onward, Early
  <2> QED
    BY <2>1, <2>3, RecordStays, MemoryStays, FlowKeepsNews
<1>3. ASSUME NEW i \in Instances, Sync(i) PROVE NewsInv'
  <2>1. UNCHANGED <<out, pg, edits, ident, src, saved, expired, cas, pc>>
    BY <1>3 DEF Sync
  <2>2. Onward
    BY <2>1 DEF Onward
  <2>3. NewsMemory
    BY <1>3 DEF Sync, NewsMemory, Reloaded, TypeOK
  <2> QED
    BY <2>1, <2>2, <2>3, RecordStays, FlowKeepsNews
<1>4. ASSUME NEW e \in Edits, Edit(e) PROVE NewsInv'
  BY <1>4, EditNews
<1>5. CASE LockExpires \/ CooldownEnds \/ ClaimExpires \/ OutcomeExpires
  <2>1. UNCHANGED <<pg, edits, ident, src, saved, expired, cas, mem, pc>>
    BY <1>5 DEF LockExpires, CooldownEnds, ClaimExpires, OutcomeExpires
  <2>2. Onward
    BY <2>1 DEF Onward
  <2>3. NewsRecord
    <3>1. CASE LockExpires \/ OutcomeExpires
      BY <3>1 DEF LockExpires, OutcomeExpires, NewsRecord, NoOutcome
    <3>2. CASE CooldownEnds \/ ClaimExpires
      <4>1. out'.state = out.state /\ out'.by = out.by /\ out'.ident = out.ident /\ out'.rev = out.rev
        BY <3>2, TypesOfKeys DEF CooldownEnds, ClaimExpires, Outcomes
      <4> QED
        BY <4>1 DEF NewsInv, RunInv, NewsRecord
    <3> QED
      BY <1>5, <3>1, <3>2
  <2> QED
    BY <2>1, <2>2, <2>3, MemoryStays, FlowKeepsNews
<1>6. CASE TokenExpires \/ UNCHANGED vars
  <2>1. UNCHANGED <<out, pg, edits, ident, src, saved, cas, mem, pc>> /\ expired \subseteq expired'
    BY <1>6 DEF TokenExpires, vars
  <2>2. Onward
    BY <2>1 DEF Onward
  <2> QED
    BY <2>1, <2>2, RecordStays, MemoryStays, FlowKeepsNews
<1> QED
  BY <1>1, <1>2, <1>3, <1>4, <1>5, <1>6 DEF Next

\* What is known about tokens is so at all times.
LEMMA NewsHold == Spec => [](TypeOK /\ NewsInv)
BY InitType, NextType, InitNews, NextNews, PTL DEF Spec

\* Whatever late writes, clean-up tasks, pauses, crashes and edits interleave,
\* a success on record can be used by whoever waits for it, if no attempt runs
\* ahead of expiry or nobody edits the context.
THEOREM SuccessesAreReal ==
    ASSUME (\A a \in Attempts : Kind[a] # "lead") \/ "context" \notin Edits
    PROVE  Spec => []AnnouncedSuccessIsReal
<1>1. TypeOK /\ NewsInv => AnnouncedSuccessIsReal
  <2> SUFFICES ASSUME TypeOK, NewsInv PROVE AnnouncedSuccessIsReal
    OBVIOUS
  <2>1. PICK P \in SUBSET Tokens : TokenInv(P)
    BY DEF NewsInv
  <2>2. out.rev \in Nat /\ pg.rev \in Nat
    BY TypesOfKeys DEF Outcomes, TypeOK, Creds
  <2> QED
    BY <2>1, <2>2 DEF TokenInv, Renewing, NewsInv, RevisionInv, AnnouncedSuccessIsReal
<1> QED
  BY <1>1, NewsHold, PTL

\* A write that takes effect brings a token nobody remembers: had it been in
\* PgSQL before, the token it was obtained with would be an earlier one too,
\* and the compare-and-swap would not find it there.
LEMMA WriteIsNew ==
    ASSUME TypeOK, NewsInv, NEW a \in Attempts, CasApplies(a), WriteToken(a),
           NEW b \in Attempts, pg'.tok = b
    PROVE  ~Remembers(b)
<1>1. PICK P \in SUBSET Tokens : TokenInv(P)
  BY DEF NewsInv
<1>2. b = a /\ src[a].tok = pg.tok
  BY DEF WriteToken, CasApplies, Identity, TypeOK, Creds
<1>3. b \notin Known(P)
  BY <1>1, <1>2 DEF TokenInv
<1>4. \A t : Remembers(t) => t \in Known(P)
  BY <1>1 DEF Remembers, TokenInv
<1> QED
  BY <1>3, <1>4

\* Leaders that lost their lock, writes that are repeated or late and the
\* administrator's edits included, no token that was replaced comes back.
THEOREM TokensStayReplaced == Spec => NoTokenReturns
<1>1. TypeOK /\ NewsInv /\ [Next]_vars =>
        [\A a \in Attempts : pg'.tok = a /\ pg.tok # a => ~Remembers(a)]_vars
  <2> DEFINE New == \A b \in Attempts : pg'.tok = b /\ pg.tok # b => ~Remembers(b)
  <2> SUFFICES ASSUME TypeOK, NewsInv, Next PROVE New
    OBVIOUS
  <2> USE DEF pgVars
  <2>1. ASSUME NEW a \in Attempts, Persist(a) \/ LateWrite(a) PROVE New
    <3>1. (CasApplies(a) /\ WriteToken(a)) \/ pg' = pg
      BY <2>1 DEF Persist, LateWrite
    <3> QED
      BY <3>1, WriteIsNew
  <2>2. ASSUME NEW a \in Attempts, AttemptStep(a), ~Persist(a), ~LateWrite(a) PROVE pg' = pg
    BY <2>2 DEF AttemptStep, Start, Begin, GiveUp, LateBegin, Follow, Replayed, Verify, TakeGate,
       WaitGate, NotSent, Send, Answer, PersistUnknown, PersistGivesUp, MergeForced, Publish,
       MergeAutomatic, PublishFailure, AnswerLost, Ack, Apply, Cancelled, Abandoned, CleanupRead,
       Cleanup, CleanupFails
  <2>3. ASSUME NEW i \in Instances, Crash(i) \/ Sync(i) PROVE pg' = pg
    BY <2>3 DEF Crash, Sync
  <2>4. ASSUME NEW e \in Edits, Edit(e) PROVE pg'.tok \in {"token", pg.tok}
    BY <2>4 DEF Edit
  <2>5. LockExpires \/ CooldownEnds \/ ClaimExpires \/ OutcomeExpires \/ TokenExpires => pg' = pg
    BY DEF LockExpires, CooldownEnds, ClaimExpires, OutcomeExpires, TokenExpires
  <2>6. "token" \notin Attempts
    BY RefreshAssumption
  <2> QED
    BY <2>1, <2>2, <2>3, <2>4, <2>5, <2>6 DEF Next
<1> QED
  BY <1>1, NewsHold, PTL DEF Spec, NoTokenReturns

=============================================================================
