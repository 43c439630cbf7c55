-------------------------- MODULE InFlightLeaseProofs --------------------------
(***************************************************************************)
(* Proofs about InFlightLease, for any number of instances, accounts and   *)
(* leases, any weights and any limits: types, exact counters, limits, the  *)
(* finality of a release, that no slot is leaked, and that the requests    *)
(* under way keep their slots and keep to the limits.                      *)
(***************************************************************************)
EXTENDS InFlightLease, TLAPS, FiniteSetTheorems

-----------------------------------------------------------------------------
(* Weights.                                                                *)

\* The weight a lease counts with is a number of units from 1 to MaxWeight or,
\* if a limit is lower, to that limit.
LEMMA EffectiveWeightBound ==
    ASSUME NEW l \in Leases
    PROVE  EffectiveWeight(l) \in 1..MaxWeight
BY ConstantsAssumption DEF EffectiveWeight, Clamped

\* The units of a set of leases are finitely many, so its weight is a number.
LEMMA WeightType ==
    ASSUME NEW S \in SUBSET Leases
    PROVE  IsFiniteSet(Units(S)) /\ Weight(S) \in Nat
<1>1. IsFiniteSet(S)
  BY ConstantsAssumption, FS_Subset
<1>2. IsFiniteSet(1..MaxWeight)
  BY ConstantsAssumption, FS_Interval
<1>3. IsFiniteSet(S \X (1..MaxWeight))
  BY <1>1, <1>2, FS_Product
<1>4. IsFiniteSet(Units(S))
  BY <1>3, FS_Subset DEF Units
<1> QED
  BY <1>4, FS_CardinalityType DEF Weight

\* Removing leases lowers the weight by the weight of what was removed.
LEMMA WeightMinus ==
    ASSUME NEW S \in SUBSET Leases, NEW D
    PROVE  /\ Weight(S \cap D) \in Nat /\ Weight(S) \in Nat
           /\ Weight(S \cap D) <= Weight(S)
           /\ Weight(S \ D) = Weight(S) - Weight(S \cap D)
<1>1. Units(S \cap D) = Units(S) \cap Units(S \cap D)
  BY DEF Units
<1>2. Units(S \ D) = Units(S) \ Units(S \cap D)
  BY DEF Units
<1>3. IsFiniteSet(Units(S)) /\ Weight(S) \in Nat
  BY WeightType
<1>4. Weight(S \cap D) \in Nat
  BY WeightType
<1>5. Cardinality(Units(S) \cap Units(S \cap D)) <= Cardinality(Units(S))
  BY <1>3, FS_Intersection
<1>6. Cardinality(Units(S) \ Units(S \cap D))
        = Cardinality(Units(S)) - Cardinality(Units(S) \cap Units(S \cap D))
  BY <1>3, FS_Difference
<1> QED
  BY <1>1, <1>2, <1>3, <1>4, <1>5, <1>6 DEF Weight

\* Adding leases that were not there adds their weight.
LEMMA WeightPlus ==
    ASSUME NEW S \in SUBSET Leases, NEW T \in SUBSET Leases, S \cap T = {}
    PROVE  Weight(S \cup T) = Weight(S) + Weight(T)
<1>1. Units(S \cup T) = Units(S) \cup Units(T)
  BY DEF Units
<1>2. Units(S) \cap Units(T) = {}
  BY DEF Units
<1>3. IsFiniteSet(Units(S)) /\ IsFiniteSet(Units(T))
  BY WeightType
<1>4. Weight(S) \in Nat /\ Weight(T) \in Nat
  BY WeightType
<1>5. Cardinality(Units(S) \cup Units(T))
        = Cardinality(Units(S)) + Cardinality(Units(T)) - Cardinality(Units(S) \cap Units(T))
  BY <1>3, FS_Union
<1>6. Cardinality(Units(S) \cap Units(T)) = 0
  BY <1>2, FS_EmptySet
<1>7. Cardinality(Units(S \cup T)) = Weight(S) + Weight(T) - 0
  BY <1>1, <1>5, <1>6 DEF Weight
<1> QED
  BY <1>4, <1>7 DEF Weight

\* No leases weigh nothing.
LEMMA WeightEmpty == Weight({}) = 0
<1>1. Units({}) = {}
  BY DEF Units
<1> QED
  BY <1>1, FS_EmptySet DEF Weight

\* A single lease weighs its effective weight.
LEMMA WeightSingle ==
    ASSUME NEW l \in Leases
    PROVE  Weight({l}) = EffectiveWeight(l)
<1> DEFINE w == EffectiveWeight(l)
<1>1. w \in 1..MaxWeight
  BY EffectiveWeightBound
<1>2. w \in Nat /\ w >= 1 /\ w <= MaxWeight /\ MaxWeight \in Nat
  BY <1>1, ConstantsAssumption
<1>3. Units({l}) = {l} \X (1..w)
  <2>1. ASSUME NEW p \in Units({l})
        PROVE  p \in {l} \X (1..w)
    <3>1. p \in {l} \X (1..MaxWeight) /\ p[2] <= EffectiveWeight(p[1])
      BY <2>1 DEF Units
    <3>2. p = <<p[1], p[2]>> /\ p[1] = l /\ p[2] \in 1..MaxWeight
      BY <3>1
    <3>3. p[2] \in 1..w
      BY <3>1, <3>2, <1>2
    <3> QED
      BY <3>2, <3>3
  <2>2. ASSUME NEW p \in {l} \X (1..w)
        PROVE  p \in Units({l})
    <3>1. p = <<p[1], p[2]>> /\ p[1] = l /\ p[2] \in 1..w
      BY <2>2
    <3>2. p[2] \in 1..MaxWeight /\ p[2] <= EffectiveWeight(p[1])
      BY <3>1, <1>2
    <3> QED
      BY <3>1, <3>2 DEF Units
  <2> QED
    BY <2>1, <2>2
<1>4. IsFiniteSet({l}) /\ Cardinality({l}) = 1
  BY FS_Singleton
<1>5. IsFiniteSet(1..w) /\ Cardinality(1..w) = w
  BY <1>2, FS_Interval
<1>6. Cardinality({l} \X (1..w)) = 1 * w
  <2>1. Cardinality({l} \X (1..w)) = Cardinality({l}) * Cardinality(1..w)
    BY <1>4, <1>5, FS_Product, Zenon
  <2> QED
    BY <2>1, <1>4, <1>5, Zenon
<1>7. 1 * w = w
  <2> HIDE DEF w
  <2> QED  BY <1>2
<1>8. Cardinality(Units({l})) = w
  BY <1>3, <1>6, <1>7
<1> QED
  BY <1>8 DEF Weight

-----------------------------------------------------------------------------
(* Types.                                                                  *)

\* The repair of a negative counter keeps it a number.
LEMMA DecreasedType ==
    ASSUME NEW n \in Nat, NEW w \in Nat
    PROVE  Decreased(n, w) \in Nat
BY DEF Decreased

\* The part of the type invariant that the scripts can change.
RegistryType ==
    /\ lacq \subseteq Leases /\ lseen \subseteq Leases
    /\ gacq \subseteq Leases /\ gseen \subseteq Leases
    /\ stale \subseteq Leases
    /\ lcnt \in [Creds -> Nat] /\ gcnt \in Nat

\* Dropping any set of leases from the registries keeps their types.
LEMMA DropLeasesType ==
    ASSUME NEW D, RegistryType, DropLeases(D)
    PROVE  RegistryType'
<1>1. \A c \in Creds : On(c, lacq) \in SUBSET Leases
  BY DEF RegistryType, On
<1>2. \A c \in Creds : Weight(On(c, lacq) \cap D) \in Nat
  BY <1>1, WeightMinus
<1>3. Weight(gacq \cap D) \in Nat
  BY WeightMinus DEF RegistryType
<1>4. \A c \in Creds : Decreased(lcnt[c], Weight(On(c, lacq) \cap D)) \in Nat
  BY <1>2, DecreasedType DEF RegistryType
<1>5. Decreased(gcnt, Weight(gacq \cap D)) \in Nat
  BY <1>3, DecreasedType DEF RegistryType
<1> QED
  BY <1>4, <1>5 DEF RegistryType, DropLeases

\* So does the acquire script, whatever it purges and whether it succeeds.
LEMMA AcquireScriptType ==
    ASSUME NEW l \in Leases, TypeOK, AcquireScript(l)
    PROVE  /\ RegistryType' /\ tomb' \subseteq Leases /\ owned' \subseteq Leases
           /\ cmd' \in [Leases -> {"none", "wire", "yes", "no"}]
<1> DEFINE c   == CredOf[l]
           el  == IF MaxAge THEN On(c, lseen) \cap stale ELSE {}
           eg  == IF MaxAge THEN gseen \cap stale ELSE {}
           n   == Decreased(lcnt[c], Weight(On(c, lacq) \cap el))
           g   == Decreased(gcnt, Weight(gacq \cap eg))
           ok  == Fits(n, l, MaxLocal) /\ Fits(g, l, MaxGlobal)
           new == IF ok THEN {l} ELSE {}
<1>1. CASE ~AcquireAllowed(l)
  BY <1>1 DEF AcquireScript, TypeOK, RegistryType, redisVars
<1>2. CASE AcquireAllowed(l)
  <2>1. c \in Creds /\ new \in SUBSET Leases
    BY ConstantsAssumption
  <2>2. On(c, lacq) \in SUBSET Leases /\ gacq \in SUBSET Leases
    BY DEF TypeOK, On
  <2>3. Weight(On(c, lacq) \cap el) \in Nat /\ Weight(gacq \cap eg) \in Nat
    BY <2>2, WeightMinus
  <2>4. n \in Nat /\ g \in Nat
    BY <2>1, <2>3, DecreasedType DEF TypeOK
  <2>5. Weight(new) \in Nat
    BY <2>1, WeightType
  <2>6. /\ lacq' = (lacq \ el) \cup new /\ lseen' = (lseen \ el) \cup new
        /\ gacq' = (gacq \ eg) \cup new /\ gseen' = (gseen \ eg) \cup new
        /\ lcnt' = [lcnt EXCEPT ![c] = n + Weight(new)]
        /\ gcnt' = g + Weight(new)
        /\ stale' = (stale \ new) \cap (lseen' \cup gseen')
        /\ owned' = owned \cup new
        /\ cmd' = [cmd EXCEPT ![l] = IF guard[l] # "waiting" THEN "none"
                                     ELSE IF ok THEN "yes" ELSE "no"]
        /\ tomb' = tomb
    BY <1>2 DEF AcquireScript
  <2>7. n + Weight(new) \in Nat /\ g + Weight(new) \in Nat
    BY <2>4, <2>5
  <2> HIDE DEF c, el, eg, n, g, ok, new
  <2> QED
    BY <2>1, <2>6, <2>7 DEF TypeOK, RegistryType
<1> QED
  BY <1>1, <1>2

\* The initial state is well typed.
LEMMA InitType == Init => TypeOK
BY ConstantsAssumption DEF Init, TypeOK

\* Every step keeps the types.
LEMMA NextType == TypeOK /\ [Next]_vars => TypeOK'
<1> SUFFICES ASSUME TypeOK, [Next]_vars PROVE TypeOK'
  OBVIOUS
<1> USE DEF redisVars, procVars, instVars
<1>0. RegistryType
  BY DEF TypeOK, RegistryType
<1>1. ASSUME NEW l \in Leases, RequestStep(l) PROVE TypeOK'
  <2>1. CASE Prepare(l)
    BY <2>1 DEF Prepare, TypeOK, Active
  <2>2. CASE SendAcquire(l)
    BY <2>2 DEF SendAcquire, TypeOK, Active
  <2>3. CASE ExecuteAcquire(l)
    <3>1. /\ RegistryType' /\ tomb' \subseteq Leases /\ owned' \subseteq Leases
          /\ cmd' \in [Leases -> {"none", "wire", "yes", "no"}]
      BY <2>3, AcquireScriptType DEF ExecuteAcquire
    <3>2. UNCHANGED <<guard, entry, intent, instVars>>
      BY <2>3 DEF ExecuteAcquire
    <3> QED
      BY <3>1, <3>2 DEF TypeOK, RegistryType
  <2>4. CASE LoseAcquire(l)
    BY <2>4 DEF LoseAcquire, TypeOK
  <2>5. CASE ConfirmAcquired(l)
    BY <2>5 DEF ConfirmAcquired, TypeOK, Active
  <2>6. CASE Refused(l)
    BY <2>6 DEF Refused, TypeOK
  <2>7. CASE DispatchWithoutLease(l)
    BY <2>7 DEF DispatchWithoutLease, TypeOK, Active
  <2>8. CASE DispatchUnknown(l)
    BY <2>8 DEF DispatchUnknown, TypeOK, Active, Unread
  <2>9. CASE Release(l)
    BY <2>9 DEF Release, ReleaseKind, TypeOK, Unread
  <2>10. CASE DispatchRelease(l)
    <3>1. RegistryType'
      BY <1>0, <2>10, DropLeasesType DEF DispatchRelease, ReleaseScript
    <3>2. tomb' \subseteq Leases /\ owned' \subseteq Leases
      BY <2>10 DEF DispatchRelease, ReleaseScript, TypeOK
    <3>3. intent' \in [Leases -> {"none", "plain", "tombstone"}]
      BY <2>10 DEF DispatchRelease, TypeOK
    <3>4. UNCHANGED <<guard, entry, cmd, instVars>>
      BY <2>10 DEF DispatchRelease
    <3> QED
      BY <3>1, <3>2, <3>3, <3>4 DEF TypeOK, RegistryType
  <2>11. CASE Touch(l)
    BY <2>11 DEF Touch, TouchScript, TypeOK
  <2>12. CASE ExpireEntry(l)
    BY <2>12 DEF ExpireEntry, TypeOK
  <2>13. CASE Age(l)
    BY <2>13 DEF Age, TypeOK
  <2>14. CASE TombstoneExpires(l)
    BY <2>14 DEF TombstoneExpires, TypeOK
  <2> QED
    BY <1>1, <2>1, <2>2, <2>3, <2>4, <2>5, <2>6, <2>7, <2>8, <2>9, <2>10, <2>11,
       <2>12, <2>13, <2>14 DEF RequestStep
<1>2. ASSUME NEW i \in Instances, InstanceStep(i) PROVE TypeOK'
  <2>1. CASE Heartbeat(i)
    BY <2>1 DEF Heartbeat, TypeOK
  <2>2. CASE TouchInstance(i)
    BY <2>2 DEF TouchInstance, TouchInstanceScript, OfInstance, TypeOK
  <2>3. CASE HeartbeatExpires(i)
    BY <2>3 DEF HeartbeatExpires, TypeOK
  <2>4. ASSUME NEW v \in Instances, ReclaimRead(i, v) PROVE TypeOK'
    BY <2>4 DEF ReclaimRead, TypeOK
  <2>5. ASSUME NEW l \in Leases, ReclaimLease(i, l) PROVE TypeOK'
    <3>1. RegistryType'
      BY <1>0, <2>5, DropLeasesType DEF ReclaimLease, ReleaseScript
    <3>2. tomb' \subseteq Leases /\ owned' \subseteq Leases
      BY <2>5 DEF ReclaimLease, ReleaseScript, TypeOK
    <3>3. todo' \in [Instances -> SUBSET Leases]
      BY <2>5 DEF ReclaimLease, TypeOK
    <3>4. UNCHANGED <<procVars, blocked, known, live, up, stopping, victim, alone>>
      BY <2>5 DEF ReclaimLease
    <3> QED
      BY <3>1, <3>2, <3>3, <3>4 DEF TypeOK, RegistryType
  <2>6. CASE ReclaimForget(i)
    BY <2>6 DEF ReclaimForget, TypeOK
  <2>7. CASE ReclaimAbort(i)
    BY <2>7 DEF ReclaimAbort, TypeOK
  <2>8. CASE CountInstances(i)
    BY <2>8 DEF CountInstances, TypeOK
  <2>9. CASE BeginShutdown(i)
    BY <2>9 DEF BeginShutdown, TypeOK
  <2>10. CASE Crash(i)
    BY <2>10 DEF Crash, Unread, OfInstance, TypeOK
  <2> QED
    BY <1>2, <2>1, <2>2, <2>3, <2>4, <2>5, <2>6, <2>7, <2>8, <2>9, <2>10 DEF InstanceStep
<1>3. ASSUME NEW c \in Creds, AccountStep(c) PROVE TypeOK'
  <2>1. CASE ClearIdle(c)
    <3>1. RegistryType'
      BY <1>0, <2>1, DropLeasesType DEF ClearIdle
    <3>2. UNCHANGED <<tomb, owned, procVars, instVars>>
      BY <2>1 DEF ClearIdle
    <3> QED
      BY <3>1, <3>2 DEF TypeOK, RegistryType
  <2>2. CASE ClearAll(c)
    <3>1. Weight(gacq \cap On(c, lseen)) \in Nat
      BY WeightMinus DEF TypeOK
    <3>2. Decreased(gcnt, Weight(gacq \cap On(c, lseen))) \in Nat
      BY <3>1, DecreasedType DEF TypeOK
    <3> QED
      BY <2>2, <3>2 DEF ClearAll, TypeOK
  <2>3. CASE AccountKeysExpire(c)
    BY <2>3 DEF AccountKeysExpire, TypeOK
  <2>4. CASE SetBlock(c)
    BY <2>4 DEF SetBlock, TypeOK
  <2> QED
    BY <1>3, <2>1, <2>2, <2>3, <2>4 DEF AccountStep
<1>4. CASE CleanupExpired
  <2>1. RegistryType'
    BY <1>0, <1>4, DropLeasesType DEF CleanupExpired
  <2>2. UNCHANGED <<tomb, owned, procVars, instVars>>
    BY <1>4 DEF CleanupExpired
  <2> QED
    BY <2>1, <2>2 DEF TypeOK, RegistryType
<1>5. CASE GlobalKeysExpire
  BY <1>5 DEF GlobalKeysExpire, TypeOK
<1>6. CASE UNCHANGED vars
  BY <1>6 DEF vars, TypeOK
<1> QED
  BY <1>1, <1>2, <1>3, <1>4, <1>5, <1>6 DEF Next

\* Types: every variable of the model keeps its type in every behaviour.
THEOREM TypeCorrect == Spec => []TypeOK
BY InitType, NextType, PTL DEF Spec

-----------------------------------------------------------------------------
(* A release is final.                                                     *)

\* Leases that hold a slot in Redis, or are listed as their instance's.
Registered == lacq \cup gacq \cup owned

\* What must be true of a lease, by the state of its guard, for its release to
\* be final: a call on the way has registered nothing yet; a guard that knows
\* that it holds nothing is right; the call of a lease that was given back is
\* either over or stopped by a tombstone.
LeaseOK(l) ==
    /\ cmd[l] = "wire" => l \notin Registered
    /\ guard[l] \in {"idle", "notStarted", "rejected"} =>
          cmd[l] = "none" /\ intent[l] = "none" /\ l \notin Registered
    /\ guard[l] = "waiting" =>
          intent[l] = "none" /\ (cmd[l] # "yes" => l \notin Registered)
    /\ guard[l] = "acquired" => intent[l] = "none" /\ cmd[l] = "none"
    /\ guard[l] = "unknown" => intent[l] = "none" /\ cmd[l] \in {"none", "wire"}
    /\ guard[l] = "released" =>
          /\ cmd[l] \in {"none", "wire"}
          /\ intent[l] = "none" => l \notin Registered /\ (cmd[l] = "wire" => l \in tomb)
          /\ intent[l] = "plain" => cmd[l] = "none"

LeaseInv == \A l \in Leases : LeaseOK(l)

\* Steps that only take leases out of Redis disturb nothing, if no tombstone
\* goes while the call it stops is on the way.
LEMMA LeaseShrink ==
    ASSUME LeaseInv, UNCHANGED <<guard, cmd, intent>>,
           lacq' \subseteq lacq, gacq' \subseteq gacq, owned' \subseteq owned,
           \A l \in Leases : l \in tomb /\ cmd[l] = "wire" => l \in tomb'
    PROVE  LeaseInv'
BY DEF LeaseInv, LeaseOK, Registered

\* The acquire script registers only its own lease, and only if it answers yes
\* or nobody waits for its answer.
LEMMA AcquireScriptEffect ==
    ASSUME NEW l \in Leases, TypeOK, AcquireScript(l)
    PROVE  /\ Registered' \subseteq Registered \cup {l}
           /\ l \in tomb => Registered' \subseteq Registered
           /\ tomb' = tomb
           /\ \A k \in Leases \ {l} : cmd'[k] = cmd[k]
           /\ cmd'[l] \in {"none", "yes", "no"}
           /\ guard[l] # "waiting" => cmd'[l] = "none"
           /\ guard[l] = "waiting" => cmd'[l] \in {"yes", "no"}
           /\ cmd'[l] = "no" => Registered' \subseteq Registered
<1>1. CASE ~AcquireAllowed(l)
  BY <1>1 DEF AcquireScript, TypeOK, redisVars, Registered
<1>2. CASE AcquireAllowed(l)
  <2>1. PICK ok \in BOOLEAN, el \in SUBSET Leases, eg \in SUBSET Leases :
          LET new == IF ok THEN {l} ELSE {}
          IN  /\ lacq' = (lacq \ el) \cup new
              /\ gacq' = (gacq \ eg) \cup new
              /\ owned' = owned \cup new
              /\ cmd' = [cmd EXCEPT ![l] = IF guard[l] # "waiting" THEN "none"
                                           ELSE IF ok THEN "yes" ELSE "no"]
              /\ tomb' = tomb
    <3> DEFINE c   == CredOf[l]
               el0 == IF MaxAge THEN On(c, lseen) \cap stale ELSE {}
               eg0 == IF MaxAge THEN gseen \cap stale ELSE {}
               n   == Decreased(lcnt[c], Weight(On(c, lacq) \cap el0))
               g   == Decreased(gcnt, Weight(gacq \cap eg0))
               ok0 == Fits(n, l, MaxLocal) /\ Fits(g, l, MaxGlobal)
    <3> SUFFICES \E ok \in BOOLEAN, el \in SUBSET Leases, eg \in SUBSET Leases :
                   LET new == IF ok THEN {l} ELSE {}
                   IN  /\ lacq' = (lacq \ el) \cup new
                       /\ gacq' = (gacq \ eg) \cup new
                       /\ owned' = owned \cup new
                       /\ cmd' = [cmd EXCEPT ![l] = IF guard[l] # "waiting" THEN "none"
                                                    ELSE IF ok THEN "yes" ELSE "no"]
                       /\ tomb' = tomb
      OBVIOUS
    <3> ok0 \in BOOLEAN
      BY DEF Fits
    <3> el0 \in SUBSET Leases /\ eg0 \in SUBSET Leases
      BY DEF TypeOK, On
    <3> WITNESS ok0 \in BOOLEAN, el0 \in SUBSET Leases, eg0 \in SUBSET Leases
    <3> QED
      BY <1>2 DEF AcquireScript
  <2>2. l \notin tomb
    BY <1>2 DEF AcquireAllowed
  <2> QED
    BY <2>1, <2>2 DEF TypeOK, Registered
<1> QED
  BY <1>1, <1>2

\* The inductive invariant holds at first.
LEMMA InitLease == Init => LeaseInv
BY DEF Init, LeaseInv, LeaseOK, Registered

\* Every step keeps it.
LEMMA NextLease == TypeOK /\ LeaseInv /\ [Next]_vars => LeaseInv'
<1> SUFFICES ASSUME TypeOK, LeaseInv, [Next]_vars PROVE LeaseInv'
  OBVIOUS
<1> USE DEF redisVars, procVars, instVars
<1>1. ASSUME NEW l \in Leases, RequestStep(l) PROVE LeaseInv'
  <2> USE DEF LeaseInv, LeaseOK, Registered
  <2>1. CASE Prepare(l)
    BY <2>1 DEF Prepare, TypeOK
  <2>2. CASE SendAcquire(l)
    BY <2>2 DEF SendAcquire, TypeOK
  <2>3. CASE ExecuteAcquire(l)
    <3>1. cmd[l] = "wire" /\ UNCHANGED <<guard, intent>>
      BY <2>3 DEF ExecuteAcquire
    <3>2. /\ Registered' \subseteq Registered \cup {l}
          /\ l \in tomb => Registered' \subseteq Registered
          /\ tomb' = tomb
          /\ \A k \in Leases \ {l} : cmd'[k] = cmd[k]
          /\ cmd'[l] \in {"none", "yes", "no"}
          /\ guard[l] # "waiting" => cmd'[l] = "none"
          /\ guard[l] = "waiting" => cmd'[l] \in {"yes", "no"}
          /\ cmd'[l] = "no" => Registered' \subseteq Registered
      BY <2>3, AcquireScriptEffect DEF ExecuteAcquire
    <3>3. ASSUME NEW k \in Leases \ {l} PROVE LeaseOK(k)'
      <4> HIDE DEF Registered
      <4> QED
        BY <3>1, <3>2
    <3>4. LeaseOK(l)'
      <4> HIDE DEF Registered
      <4> QED
        BY <3>1, <3>2
    <3> QED
      BY <3>3, <3>4
  <2>4. CASE LoseAcquire(l)
    BY <2>4 DEF LoseAcquire, TypeOK
  <2>5. CASE ConfirmAcquired(l)
    BY <2>5 DEF ConfirmAcquired, TypeOK
  <2>6. CASE Refused(l)
    BY <2>6 DEF Refused, TypeOK
  <2>7. CASE DispatchWithoutLease(l)
    BY <2>7 DEF DispatchWithoutLease, TypeOK
  <2>8. CASE DispatchUnknown(l)
    BY <2>8 DEF DispatchUnknown, TypeOK, Unread
  <2>9. CASE Release(l)
    BY <2>9 DEF Release, ReleaseKind, TypeOK, Unread
  <2>10. CASE DispatchRelease(l)
    <3>1. /\ lacq' = lacq \ {l} /\ gacq' = gacq \ {l} /\ owned' = owned \ {l}
          /\ tomb' = IF intent[l] = "tombstone" THEN tomb \cup {l} ELSE tomb
          /\ UNCHANGED <<guard, cmd>>
      BY <2>10 DEF DispatchRelease, ReleaseScript, DropLeases
    <3>2. intent' = [intent EXCEPT ![l] = "none"] \/ intent' = intent
      BY <2>10 DEF DispatchRelease
    <3> QED
      BY <3>1, <3>2 DEF TypeOK
  <2>11. CASE Touch(l)
    BY <2>11 DEF Touch, TouchScript
  <2>12. CASE ExpireEntry(l)
    BY <2>12 DEF ExpireEntry
  <2>13. CASE Age(l)
    BY <2>13 DEF Age
  <2>14. CASE TombstoneExpires(l)
    BY <2>14 DEF TombstoneExpires
  <2> QED
    BY <1>1, <2>1, <2>2, <2>3, <2>4, <2>5, <2>6, <2>7, <2>8, <2>9, <2>10, <2>11,
       <2>12, <2>13, <2>14 DEF RequestStep
<1>2. ASSUME NEW i \in Instances, InstanceStep(i) PROVE LeaseInv'
  <2>1. CASE Heartbeat(i)
    BY <2>1, LeaseShrink DEF Heartbeat
  <2>2. CASE TouchInstance(i)
    BY <2>2, LeaseShrink DEF TouchInstance, TouchInstanceScript
  <2>3. CASE HeartbeatExpires(i)
    BY <2>3, LeaseShrink DEF HeartbeatExpires
  <2>4. ASSUME NEW v \in Instances, ReclaimRead(i, v) PROVE LeaseInv'
    BY <2>4, LeaseShrink DEF ReclaimRead
  <2>5. ASSUME NEW l \in Leases, ReclaimLease(i, l) PROVE LeaseInv'
    BY <2>5, LeaseShrink DEF ReclaimLease, ReleaseScript, DropLeases
  <2>6. CASE ReclaimForget(i)
    BY <2>6, LeaseShrink DEF ReclaimForget
  <2>7. CASE ReclaimAbort(i)
    BY <2>7, LeaseShrink DEF ReclaimAbort
  <2>8. CASE CountInstances(i)
    BY <2>8, LeaseShrink DEF CountInstances
  <2>9. CASE BeginShutdown(i)
    BY <2>9, LeaseShrink DEF BeginShutdown
  <2>10. CASE Crash(i)
    BY <2>10 DEF Crash, Unread, TypeOK, LeaseInv, LeaseOK, Registered
  <2> QED
    BY <1>2, <2>1, <2>2, <2>3, <2>4, <2>5, <2>6, <2>7, <2>8, <2>9, <2>10 DEF InstanceStep
<1>3. ASSUME NEW c \in Creds, AccountStep(c) PROVE LeaseInv'
  <2>1. CASE ClearIdle(c)
    BY <2>1, LeaseShrink DEF ClearIdle, DropLeases
  <2>2. CASE ClearAll(c)
    BY <2>2, LeaseShrink DEF ClearAll
  <2>3. CASE AccountKeysExpire(c)
    BY <2>3, LeaseShrink DEF AccountKeysExpire
  <2>4. CASE SetBlock(c)
    BY <2>4, LeaseShrink DEF SetBlock
  <2> QED
    BY <1>3, <2>1, <2>2, <2>3, <2>4 DEF AccountStep
<1>4. CASE CleanupExpired
  BY <1>4, LeaseShrink DEF CleanupExpired, DropLeases
<1>5. CASE GlobalKeysExpire
  BY <1>5, LeaseShrink DEF GlobalKeysExpire
<1>6. CASE UNCHANGED vars
  BY <1>6, LeaseShrink DEF vars
<1> QED
  BY <1>1, <1>2, <1>3, <1>4, <1>5, <1>6 DEF Next

\* A released lease never holds a slot again: neither a late acquire script,
\* nor a retried release, a sweep, a reclaim, a crash of another instance or
\* an administrator's clear brings it back.
THEOREM ReleaseIsFinal == Spec => []ReleasedStaysReleased
<1>1. LeaseInv => ReleasedStaysReleased
  BY DEF LeaseInv, LeaseOK, Registered, ReleasedStaysReleased
<1>2. Spec => []LeaseInv
  BY InitType, NextType, InitLease, NextLease, PTL DEF Spec
<1> QED
  BY <1>1, <1>2, PTL

-----------------------------------------------------------------------------
(* The counters are exact and the limits are kept.                         *)

CountInv == CountersAgree /\ WithinLimits

\* Removing leases never raises a weight, so limits that were kept still are.
LEMMA ShrinkWithinLimits ==
    ASSUME TypeOK, WithinLimits, lacq' \subseteq lacq, gacq' \subseteq gacq
    PROVE  WithinLimits'
<1>1. ASSUME NEW c \in Creds PROVE Weight(On(c, lacq')) <= Weight(On(c, lacq))
  <2>1. On(c, lacq) \in SUBSET Leases
    BY DEF TypeOK, On
  <2>2. On(c, lacq') = On(c, lacq) \cap On(c, lacq')
    BY DEF On
  <2> QED
    BY <2>1, <2>2, WeightMinus
<1>2. Weight(gacq') <= Weight(gacq)
  <2>1. gacq \in SUBSET Leases /\ gacq' = gacq \cap gacq'
    BY DEF TypeOK
  <2> QED
    BY <2>1, WeightMinus
<1>3. ASSUME NEW c \in Creds
      PROVE  Weight(On(c, lacq)) \in Nat /\ Weight(On(c, lacq')) \in Nat
  BY WeightType DEF TypeOK, On
<1>4. Weight(gacq) \in Nat /\ Weight(gacq') \in Nat
  BY WeightType DEF TypeOK
<1>5. ASSUME MaxLocal > 0, NEW c \in Creds PROVE Weight(On(c, lacq')) <= MaxLocal
  BY <1>1, <1>3, <1>5, ConstantsAssumption DEF WithinLimits
<1>6. ASSUME MaxGlobal > 0 PROVE Weight(gacq') <= MaxGlobal
  BY <1>2, <1>4, <1>6, ConstantsAssumption DEF WithinLimits
<1> QED
  BY <1>5, <1>6 DEF WithinLimits, Weight, Units, On, EffectiveWeight, Clamped

\* A counter that is exact stays exact when it is lowered by what was removed.
LEMMA DecreasedExact ==
    ASSUME NEW S \in SUBSET Leases, NEW D
    PROVE  Decreased(Weight(S), Weight(S \cap D)) = Weight(S \ D)
BY WeightMinus DEF Decreased

\* Dropping any set of leases, any of them gone already or not, keeps both.
LEMMA DropLeasesCounts ==
    ASSUME NEW D, TypeOK, CountInv, DropLeases(D)
    PROVE  CountInv'
<1>1. WithinLimits'
  BY ShrinkWithinLimits DEF DropLeases, CountInv
<1>2. ASSUME NEW c \in Creds PROVE lcnt'[c] = Weight(On(c, lacq'))
  <2>1. On(c, lacq) \in SUBSET Leases /\ On(c, lacq') = On(c, lacq) \ D
    BY DEF TypeOK, On, DropLeases
  <2>2. lcnt'[c] = Decreased(Weight(On(c, lacq)), Weight(On(c, lacq) \cap D))
    BY DEF DropLeases, CountInv, CountersAgree
  <2> QED
    BY <2>1, <2>2, DecreasedExact
<1>3. gcnt' = Weight(gacq')
  <2>1. gacq \in SUBSET Leases /\ gacq' = gacq \ D
    BY DEF TypeOK, DropLeases
  <2>2. gcnt' = Decreased(Weight(gacq), Weight(gacq \cap D))
    BY DEF DropLeases, CountInv, CountersAgree
  <2> QED
    BY <2>1, <2>2, DecreasedExact
<1> QED
  BY <1>1, <1>2, <1>3 DEF CountInv, CountersAgree

\* The acquire script counts the lease it registers exactly once, on top of
\* exactly what its purges left, and only if both limits have room for it.
LEMMA AcquireScriptCounts ==
    ASSUME NEW l \in Leases, TypeOK, CountInv, l \notin lacq, l \notin gacq, AcquireScript(l)
    PROVE  CountInv'
<1> DEFINE c   == CredOf[l]
           el  == IF MaxAge THEN On(c, lseen) \cap stale ELSE {}
           eg  == IF MaxAge THEN gseen \cap stale ELSE {}
           n   == Decreased(lcnt[c], Weight(On(c, lacq) \cap el))
           g   == Decreased(gcnt, Weight(gacq \cap eg))
           ok  == Fits(n, l, MaxLocal) /\ Fits(g, l, MaxGlobal)
           new == IF ok THEN {l} ELSE {}
<1>1. CASE ~AcquireAllowed(l)
  BY <1>1 DEF AcquireScript, redisVars, CountInv, CountersAgree, WithinLimits
<1>2. CASE AcquireAllowed(l)
  <2>1. c \in Creds /\ new \in SUBSET Leases /\ MaxLocal \in Nat /\ MaxGlobal \in Nat
    BY ConstantsAssumption
  <2>2. On(c, lacq) \in SUBSET Leases /\ gacq \in SUBSET Leases /\ lcnt \in [Creds -> Nat]
    BY DEF TypeOK, On
  <2>3. n = Weight(On(c, lacq) \ el) /\ g = Weight(gacq \ eg)
    BY <2>1, <2>2, DecreasedExact DEF CountInv, CountersAgree
  <2>4. /\ lacq' = (lacq \ el) \cup new
        /\ gacq' = (gacq \ eg) \cup new
        /\ lcnt' = [lcnt EXCEPT ![c] = n + Weight(new)]
        /\ gcnt' = g + Weight(new)
    BY <1>2 DEF AcquireScript
  <2>5. On(c, lacq') = (On(c, lacq) \ el) \cup new
    <3>1. \A k \in new : CredOf[k] = c
      OBVIOUS
    <3> HIDE DEF c, el, new
    <3> QED
      BY <3>1, <2>4 DEF On
  <2>6. ASSUME NEW d \in Creds, d # c PROVE On(d, lacq') = On(d, lacq)
    <3>1. \A k \in new \cup el : CredOf[k] = c
      BY DEF On
    <3> HIDE DEF c, el, new
    <3> QED
      BY <3>1, <2>4, <2>6 DEF On
  <2>7. (On(c, lacq) \ el) \cap new = {} /\ (gacq \ eg) \cap new = {}
    BY DEF On
  <2>8. Weight(On(c, lacq')) = n + Weight(new)
    <3> HIDE DEF c, el, new, n
    <3> QED
      BY <2>1, <2>2, <2>3, <2>5, <2>7, WeightPlus
  <2>9. Weight(gacq') = g + Weight(new)
    <3> HIDE DEF eg, new, g
    <3> QED
      BY <2>1, <2>2, <2>3, <2>4, <2>7, WeightPlus
  <2>10. CountersAgree'
    <3>1. ASSUME NEW d \in Creds PROVE lcnt'[d] = Weight(On(d, lacq'))
      <4> HIDE DEF c, n, new
      <4>1. CASE d = c
        BY <4>1, <2>2, <2>4, <2>8
      <4>2. CASE d # c
        BY <4>2, <2>2, <2>4, <2>6 DEF CountInv, CountersAgree
      <4> QED
        BY <4>1, <4>2
    <3> QED
      BY <3>1, <2>4, <2>9 DEF CountersAgree
  <2>11. WithinLimits'
    <3>1. CASE ok
      <4>1. Weight(new) = EffectiveWeight(l)
        BY <3>1, WeightSingle
      <4>2. MaxLocal > 0 => n + Weight(new) <= MaxLocal
        BY <3>1, <4>1 DEF Fits
      <4>3. MaxGlobal > 0 => g + Weight(new) <= MaxGlobal
        BY <3>1, <4>1 DEF Fits
      <4>4. ASSUME MaxLocal > 0, NEW d \in Creds PROVE Weight(On(d, lacq')) <= MaxLocal
        <5> HIDE DEF c, n, new
        <5> QED
          BY <4>2, <4>4, <2>6, <2>8 DEF CountInv, WithinLimits
      <4>5. ASSUME MaxGlobal > 0 PROVE Weight(gacq') <= MaxGlobal
        <5> HIDE DEF g, new
        <5> QED
          BY <4>3, <4>5, <2>9
      <4> QED
        BY <4>4, <4>5 DEF WithinLimits
    <3>2. CASE ~ok
      <4>1. lacq' \subseteq lacq /\ gacq' \subseteq gacq
        BY <2>4, <3>2
      <4> QED
        BY <4>1, ShrinkWithinLimits DEF CountInv
    <3> QED
      BY <3>1, <3>2
  <2> QED
    BY <2>10, <2>11 DEF CountInv
<1> QED
  BY <1>1, <1>2

\* The counters are exact at first.
LEMMA InitCount == Init => CountInv
<1> SUFFICES ASSUME Init PROVE CountInv
  OBVIOUS
<1>1. ASSUME NEW c \in Creds PROVE lcnt[c] = 0 /\ Weight(On(c, lacq)) = 0
  <2>1. On(c, lacq) = {}
    BY DEF Init, On
  <2> QED
    BY <2>1, WeightEmpty DEF Init
<1>2. gcnt = 0 /\ Weight(gacq) = 0
  BY WeightEmpty DEF Init
<1>3. MaxLocal \in Nat /\ MaxGlobal \in Nat
  BY ConstantsAssumption
<1> QED
  BY <1>1, <1>2, <1>3 DEF CountInv, CountersAgree, WithinLimits

\* Every step keeps them exact, and the limits.
LEMMA NextCount == TypeOK /\ LeaseInv /\ CountInv /\ [Next]_vars => CountInv'
<1> SUFFICES ASSUME TypeOK, LeaseInv, CountInv, [Next]_vars PROVE CountInv'
  OBVIOUS
<1> USE DEF redisVars, procVars, instVars
<1>0. ASSUME UNCHANGED <<lacq, gacq, lcnt, gcnt>> PROVE CountInv'
  BY <1>0 DEF CountInv, CountersAgree, WithinLimits
<1>1. ASSUME NEW l \in Leases, RequestStep(l) PROVE CountInv'
  <2>1. CASE ExecuteAcquire(l)
    <3>1. l \notin lacq /\ l \notin gacq
      BY <2>1 DEF ExecuteAcquire, LeaseInv, LeaseOK, Registered
    <3> QED
      BY <2>1, <3>1, AcquireScriptCounts DEF ExecuteAcquire
  <2>2. CASE DispatchRelease(l)
    BY <2>2, DropLeasesCounts DEF DispatchRelease, ReleaseScript
  <2>3. CASE Touch(l)
    BY <2>3, <1>0 DEF Touch, TouchScript
  <2>4. CASE Prepare(l) \/ SendAcquire(l) \/ LoseAcquire(l) \/ ConfirmAcquired(l)
    BY <2>4, <1>0 DEF Prepare, SendAcquire, LoseAcquire, ConfirmAcquired
  <2>5. CASE Refused(l) \/ DispatchWithoutLease(l) \/ DispatchUnknown(l) \/ Release(l)
    BY <2>5, <1>0 DEF Refused, DispatchWithoutLease, DispatchUnknown, Release
  <2>6. CASE ExpireEntry(l) \/ Age(l) \/ TombstoneExpires(l)
    BY <2>6, <1>0 DEF ExpireEntry, Age, TombstoneExpires
  <2> QED
    BY <1>1, <2>1, <2>2, <2>3, <2>4, <2>5, <2>6 DEF RequestStep
<1>2. ASSUME NEW i \in Instances, InstanceStep(i) PROVE CountInv'
  <2>1. ASSUME NEW l \in Leases, ReclaimLease(i, l) PROVE CountInv'
    BY <2>1, DropLeasesCounts DEF ReclaimLease, ReleaseScript
  <2>2. CASE TouchInstance(i)
    BY <2>2, <1>0 DEF TouchInstance, TouchInstanceScript
  <2>3. CASE Heartbeat(i) \/ HeartbeatExpires(i) \/ (\E v \in Instances : ReclaimRead(i, v))
    BY <2>3, <1>0 DEF Heartbeat, HeartbeatExpires, ReclaimRead
  <2>4. CASE ReclaimForget(i) \/ ReclaimAbort(i) \/ CountInstances(i)
    BY <2>4, <1>0 DEF ReclaimForget, ReclaimAbort, CountInstances
  <2>5. CASE BeginShutdown(i) \/ Crash(i)
    BY <2>5, <1>0 DEF BeginShutdown, Crash
  <2> QED
    BY <1>2, <2>1, <2>2, <2>3, <2>4, <2>5 DEF InstanceStep
<1>3. ASSUME NEW c \in Creds, AccountStep(c) PROVE CountInv'
  <2> DEFINE Emptied == /\ lacq' = lacq \ On(c, Leases)
                        /\ lcnt' = [lcnt EXCEPT ![c] = 0]
  <2>1. CASE ClearIdle(c)
    BY <2>1, DropLeasesCounts DEF ClearIdle
  <2>2. ASSUME Emptied PROVE \A d \in Creds : lcnt'[d] = Weight(On(d, lacq'))
    <3>1. On(c, lacq') = {} /\ lcnt'[c] = 0
      BY <2>2 DEF On, TypeOK
    <3>2. \A d \in Creds \ {c} : On(d, lacq') = On(d, lacq) /\ lcnt'[d] = lcnt[d]
      BY <2>2 DEF On, TypeOK
    <3> QED
      BY <3>1, <3>2, WeightEmpty DEF CountInv, CountersAgree
  <2>3. CASE ClearAll(c)
    <3>1. Emptied
      BY <2>3 DEF ClearAll
    <3>2. gacq \in SUBSET Leases /\ gacq' = gacq \ On(c, lseen)
      BY <2>3 DEF ClearAll, TypeOK
    <3>3. gcnt' = Decreased(Weight(gacq), Weight(gacq \cap On(c, lseen)))
      BY <2>3 DEF ClearAll, CountInv, CountersAgree
    <3>4. gcnt' = Weight(gacq')
      BY <3>2, <3>3, DecreasedExact
    <3>5. WithinLimits'
      BY <3>1, <3>2, ShrinkWithinLimits DEF CountInv
    <3> QED
      BY <2>2, <3>1, <3>4, <3>5 DEF CountInv, CountersAgree
  <2>4. CASE AccountKeysExpire(c)
    <3>1. Emptied /\ gacq' = gacq /\ gcnt' = gcnt
      BY <2>4 DEF AccountKeysExpire
    <3>2. WithinLimits'
      BY <3>1, ShrinkWithinLimits DEF CountInv
    <3> QED
      BY <2>2, <3>1, <3>2 DEF CountInv, CountersAgree
  <2>5. CASE SetBlock(c)
    BY <2>5, <1>0 DEF SetBlock
  <2> QED
    BY <1>3, <2>1, <2>3, <2>4, <2>5 DEF AccountStep
<1>4. CASE CleanupExpired
  BY <1>4, DropLeasesCounts DEF CleanupExpired
<1>5. CASE GlobalKeysExpire
  <2>1. lacq' = lacq /\ lcnt' = lcnt /\ gacq' = {} /\ gcnt' = 0
    BY <1>5 DEF GlobalKeysExpire
  <2>2. WithinLimits'
    BY <2>1, ShrinkWithinLimits DEF CountInv
  <2> QED
    BY <2>1, <2>2, WeightEmpty DEF CountInv, CountersAgree
<1>6. CASE UNCHANGED vars
  BY <1>6, <1>0 DEF vars
<1> QED
  BY <1>1, <1>2, <1>3, <1>4, <1>5, <1>6 DEF Next

\* The weight counters in Redis are exact in every behaviour.
THEOREM CountersExact == Spec => []CountersAgree
<1>1. Spec => []CountInv
  BY InitType, NextType, InitLease, NextLease, InitCount, NextCount, PTL DEF Spec
<1> QED
  BY <1>1, PTL DEF CountInv

\* Neither limit is ever exceeded in Redis, whatever the weights.
THEOREM LimitsKept == Spec => []WithinLimits
<1>1. Spec => []CountInv
  BY InitType, NextType, InitLease, NextLease, InitCount, NextCount, PTL DEF Spec
<1> QED
  BY <1>1, PTL DEF CountInv

-----------------------------------------------------------------------------
(* The guards of a killed process, and of no other, are dead.              *)

CrashInv ==
    /\ Instances \ up \subseteq Mortal
    /\ \A l \in Leases : guard[l] = "dead" <=> OwnerOf[l] \notin up

\* At first every process runs.
LEMMA InitCrash == Init => CrashInv
BY ConstantsAssumption DEF Init, CrashInv

\* Only a crash kills a guard, and it kills all guards of its process.
LEMMA NextCrash == TypeOK /\ CrashInv /\ [Next]_vars => CrashInv'
<1> SUFFICES ASSUME TypeOK, CrashInv, [Next]_vars PROVE CrashInv'
  OBVIOUS
<1> USE DEF redisVars, procVars, instVars
<1>0. ASSUME UNCHANGED <<guard, up>> PROVE CrashInv'
  BY <1>0 DEF CrashInv
<1>1. ASSUME NEW l \in Leases, RequestStep(l) PROVE CrashInv'
  <2>1. CASE Prepare(l) \/ SendAcquire(l) \/ ConfirmAcquired(l) \/ Refused(l)
    BY <2>1 DEF Prepare, SendAcquire, ConfirmAcquired, Refused, CrashInv, TypeOK
  <2>2. CASE DispatchWithoutLease(l) \/ DispatchUnknown(l) \/ Release(l)
    BY <2>2 DEF DispatchWithoutLease, DispatchUnknown, Release, CrashInv, TypeOK
  <2>3. CASE ExecuteAcquire(l) \/ LoseAcquire(l) \/ DispatchRelease(l) \/ Touch(l)
             \/ ExpireEntry(l) \/ Age(l) \/ TombstoneExpires(l)
    BY <2>3, <1>0 DEF ExecuteAcquire, LoseAcquire, DispatchRelease, Touch, ExpireEntry, Age,
                      TombstoneExpires
  <2> QED
    BY <1>1, <2>1, <2>2, <2>3 DEF RequestStep
<1>2. ASSUME NEW i \in Instances, InstanceStep(i) PROVE CrashInv'
  <2>1. CASE Crash(i)
    BY <2>1 DEF Crash, CrashInv, TypeOK
  <2>2. CASE ~Crash(i)
    BY <1>2, <2>2, <1>0 DEF InstanceStep, Heartbeat, TouchInstance, HeartbeatExpires, ReclaimRead,
             ReclaimLease, ReclaimForget, ReclaimAbort, CountInstances, BeginShutdown
  <2> QED
    BY <2>1, <2>2
<1>3. ASSUME NEW c \in Creds, AccountStep(c) PROVE CrashInv'
  BY <1>3, <1>0 DEF AccountStep, ClearIdle, ClearAll, AccountKeysExpire, SetBlock
<1>4. CASE CleanupExpired \/ GlobalKeysExpire
  BY <1>4, <1>0 DEF CleanupExpired, GlobalKeysExpire
<1>5. CASE UNCHANGED vars
  BY <1>5, <1>0 DEF vars
<1> QED
  BY <1>1, <1>2, <1>3, <1>4, <1>5 DEF Next

-----------------------------------------------------------------------------
(* No slot is leaked.                                                      *)

\* A slot of the global registry is listed in all four sets, so that whatever
\* finds it in one of them can give it back in both registries; unless the keys
\* of its account may expire.
ListedInv ==
    \A l \in gacq : CredOf[l] \notin KeyExpiry => l \in lacq \cap lseen \cap gseen

\* Nothing is registered at first.
LEMMA InitListed == Init => ListedInv
BY DEF Init, ListedInv

\* The acquire script purges in the global registry whatever it purges in the
\* account's, and registers in all four sets.
LEMMA AcquireScriptListed ==
    ASSUME NEW l \in Leases, ListedInv, AcquireScript(l)
    PROVE  ListedInv'
<1> DEFINE c   == CredOf[l]
           el  == IF MaxAge THEN On(c, lseen) \cap stale ELSE {}
           eg  == IF MaxAge THEN gseen \cap stale ELSE {}
           n   == Decreased(lcnt[c], Weight(On(c, lacq) \cap el))
           g   == Decreased(gcnt, Weight(gacq \cap eg))
           ok  == Fits(n, l, MaxLocal) /\ Fits(g, l, MaxGlobal)
           new == IF ok THEN {l} ELSE {}
<1>1. CASE ~AcquireAllowed(l)
  BY <1>1 DEF AcquireScript, redisVars, ListedInv
<1>2. CASE AcquireAllowed(l)
  <2>1. /\ lacq' = (lacq \ el) \cup new /\ lseen' = (lseen \ el) \cup new
        /\ gacq' = (gacq \ eg) \cup new /\ gseen' = (gseen \ eg) \cup new
    BY <1>2 DEF AcquireScript
  <2>2. \A k \in gseen : k \notin eg => k \notin el
    BY DEF On
  <2> HIDE DEF el, eg, new
  <2> QED
    BY <2>1, <2>2 DEF ListedInv
<1> QED
  BY <1>1, <1>2

\* Every step keeps the four sets together.
LEMMA NextListed == TypeOK /\ ListedInv /\ [Next]_vars => ListedInv'
<1> SUFFICES ASSUME TypeOK, ListedInv, [Next]_vars PROVE ListedInv'
  OBVIOUS
<1> USE DEF redisVars, procVars, instVars
<1>0. ASSUME UNCHANGED <<lacq, lseen, gacq, gseen>> PROVE ListedInv'
  BY <1>0 DEF ListedInv
<1>00. ASSUME NEW D, DropLeases(D) PROVE ListedInv'
  BY <1>00 DEF DropLeases, ListedInv
<1>1. ASSUME NEW l \in Leases, RequestStep(l) PROVE ListedInv'
  <2>1. CASE ExecuteAcquire(l)
    BY <2>1, AcquireScriptListed DEF ExecuteAcquire
  <2>2. CASE DispatchRelease(l)
    BY <2>2, <1>00 DEF DispatchRelease, ReleaseScript
  <2>3. CASE Touch(l)
    BY <2>3 DEF Touch, TouchScript, ListedInv
  <2>4. CASE ~(ExecuteAcquire(l) \/ DispatchRelease(l) \/ Touch(l))
    BY <1>1, <2>4, <1>0 DEF RequestStep, Prepare, SendAcquire, LoseAcquire, ConfirmAcquired,
             Refused, DispatchWithoutLease, DispatchUnknown, Release, ExpireEntry, Age,
             TombstoneExpires
  <2> QED
    BY <2>1, <2>2, <2>3, <2>4
<1>2. ASSUME NEW i \in Instances, InstanceStep(i) PROVE ListedInv'
  <2>1. ASSUME NEW l \in Leases, ReclaimLease(i, l) PROVE ListedInv'
    BY <2>1, <1>00 DEF ReclaimLease, ReleaseScript
  <2>2. CASE TouchInstance(i)
    BY <2>2 DEF TouchInstance, TouchInstanceScript, ListedInv
  <2>3. CASE Heartbeat(i) \/ HeartbeatExpires(i) \/ (\E v \in Instances : ReclaimRead(i, v))
             \/ ReclaimForget(i) \/ ReclaimAbort(i) \/ CountInstances(i)
             \/ BeginShutdown(i) \/ Crash(i)
    BY <2>3, <1>0 DEF Heartbeat, HeartbeatExpires, ReclaimRead, ReclaimForget, ReclaimAbort,
             CountInstances, BeginShutdown, Crash
  <2> QED
    BY <1>2, <2>1, <2>2, <2>3 DEF InstanceStep
<1>3. ASSUME NEW c \in Creds, AccountStep(c) PROVE ListedInv'
  <2>1. CASE ClearIdle(c)
    BY <2>1, <1>00 DEF ClearIdle
  <2>2. CASE ClearAll(c)
    BY <2>2 DEF ClearAll, On, ListedInv, TypeOK
  <2>3. CASE AccountKeysExpire(c)
    BY <2>3 DEF AccountKeysExpire, On, ListedInv, TypeOK
  <2>4. CASE SetBlock(c)
    BY <2>4, <1>0 DEF SetBlock
  <2> QED
    BY <1>3, <2>1, <2>2, <2>3, <2>4 DEF AccountStep
<1>4. CASE CleanupExpired
  BY <1>4, <1>00 DEF CleanupExpired
<1>5. CASE GlobalKeysExpire
  BY <1>5 DEF GlobalKeysExpire, ListedInv
<1>6. CASE UNCHANGED vars
  BY <1>6, <1>0 DEF vars
<1> QED
  BY <1>1, <1>2, <1>3, <1>4, <1>5, <1>6 DEF Next

\* If no process dies that serves an account whose keys may expire, no slot is
\* leaked: neither the purges, which treat the two registries apart, nor a late
\* touch, which forgets a lease that left one of them, nor a clear loses it.
\* (The hypothesis is needed: see lease_key_expiry.)
THEOREM SlotsAreListed ==
    (\A l \in Leases : OwnerOf[l] \in Mortal => CredOf[l] \notin KeyExpiry)
        => (Spec => []NoSlotIsLeaked)
<1> SUFFICES ASSUME \A l \in Leases : OwnerOf[l] \in Mortal => CredOf[l] \notin KeyExpiry
             PROVE  Spec => []NoSlotIsLeaked
  OBVIOUS
<1>1. TypeOK /\ CrashInv /\ ListedInv => NoSlotIsLeaked
  <2> SUFFICES ASSUME TypeOK, CrashInv, ListedInv, NEW l \in gacq, guard[l] = "dead"
               PROVE  l \in gseen
    BY DEF NoSlotIsLeaked
  <2>1. l \in Leases /\ OwnerOf[l] \in Instances
    BY ConstantsAssumption DEF TypeOK
  <2>2. OwnerOf[l] \in Mortal
    BY <2>1 DEF CrashInv
  <2> QED
    BY <2>1, <2>2 DEF ListedInv
<1>2. Spec => [](TypeOK /\ CrashInv /\ ListedInv)
  BY InitType, NextType, InitCrash, NextCrash, InitListed, NextListed, PTL DEF Spec
<1> QED
  BY <1>1, <1>2, PTL

-----------------------------------------------------------------------------
(* Requests under way keep their slots.                                    *)

\* Nothing but a release and a reclaim takes slots away.
Steady == Pauses = {} /\ ~MaxAge /\ ~Admin

\* Only instances that are not running, or that asked for it themselves, are
\* reclaimed from.
ReclaimInv ==
    /\ up \subseteq live
    /\ \A r \in Instances : victim[r] # None => victim[r] \notin up \ stopping
    /\ \A r \in Instances : \A l \in todo[r] : OwnerOf[l] \notin up \ stopping

\* A lease that was taken is registered, from the moment the script answers yes.
HeldInv ==
    \A l \in Leases :
        /\ OwnerOf[l] \notin stopping
        /\ guard[l] = "acquired" \/ (guard[l] = "waiting" /\ cmd[l] = "yes")
        => l \in lacq \cap gacq \cap owned

\* Both hold at first.
LEMMA InitHeld == Init => ReclaimInv /\ HeldInv
BY DEF Init, ReclaimInv, HeldInv

\* Every step keeps the reclaims to the dead: without pauses a heartbeat key
\* expires only after its process has died.
LEMMA NextReclaim == Steady /\ TypeOK /\ ReclaimInv /\ [Next]_vars => ReclaimInv'
<1> SUFFICES ASSUME Steady, TypeOK, ReclaimInv, [Next]_vars PROVE ReclaimInv'
  OBVIOUS
<1> USE DEF redisVars, procVars, instVars
<1>0. ASSUME UNCHANGED <<up, live, stopping, victim, todo>> PROVE ReclaimInv'
  BY <1>0 DEF ReclaimInv
<1>1. ASSUME NEW l \in Leases, RequestStep(l) PROVE ReclaimInv'
  BY <1>1, <1>0 DEF RequestStep, Prepare, SendAcquire, ExecuteAcquire, LoseAcquire,
           ConfirmAcquired, Refused, DispatchWithoutLease, DispatchUnknown, Release,
           DispatchRelease, Touch, ExpireEntry, Age, TombstoneExpires
<1>2. ASSUME NEW i \in Instances, InstanceStep(i) PROVE ReclaimInv'
  <2> USE DEF ReclaimInv
  <2>1. CASE Heartbeat(i)
    BY <2>1 DEF Heartbeat
  <2>2. CASE HeartbeatExpires(i)
    BY <2>2 DEF HeartbeatExpires, Steady
  <2>3. ASSUME NEW v \in Instances, ReclaimRead(i, v) PROVE ReclaimInv'
    BY <2>3 DEF ReclaimRead, OfInstance, TypeOK
  <2>4. ASSUME NEW l \in Leases, ReclaimLease(i, l) PROVE ReclaimInv'
    BY <2>4 DEF ReclaimLease, TypeOK
  <2>5. CASE ReclaimForget(i)
    BY <2>5 DEF ReclaimForget, TypeOK
  <2>6. CASE ReclaimAbort(i)
    BY <2>6 DEF ReclaimAbort, TypeOK
  <2>7. CASE BeginShutdown(i)
    BY <2>7 DEF BeginShutdown, OfInstance, TypeOK
  <2>8. CASE Crash(i)
    BY <2>8 DEF Crash, TypeOK
  <2>9. CASE TouchInstance(i) \/ CountInstances(i)
    BY <2>9, <1>0 DEF TouchInstance, CountInstances
  <2> QED
    BY <1>2, <2>1, <2>2, <2>3, <2>4, <2>5, <2>6, <2>7, <2>8, <2>9 DEF InstanceStep
<1>3. ASSUME NEW c \in Creds, AccountStep(c) PROVE ReclaimInv'
  BY <1>3, <1>0 DEF AccountStep, ClearIdle, ClearAll, AccountKeysExpire, SetBlock
<1>4. CASE CleanupExpired \/ GlobalKeysExpire
  BY <1>4, <1>0 DEF CleanupExpired, GlobalKeysExpire
<1>5. CASE UNCHANGED vars
  BY <1>5, <1>0 DEF vars
<1> QED
  BY <1>1, <1>2, <1>3, <1>4, <1>5 DEF Next

\* Without an age limit the acquire script purges nothing, and it answers yes
\* only for a lease that it has registered.
LEMMA AcquireScriptSteady ==
    ASSUME NEW l \in Leases, TypeOK, ~MaxAge, AcquireScript(l)
    PROVE  /\ lacq \subseteq lacq' /\ gacq \subseteq gacq' /\ owned \subseteq owned'
           /\ cmd'[l] = "yes" => l \in lacq' \cap gacq' \cap owned'
           /\ \A k \in Leases \ {l} : cmd'[k] = cmd[k]
<1>1. CASE ~AcquireAllowed(l)
  BY <1>1 DEF AcquireScript, TypeOK, redisVars
<1>2. CASE AcquireAllowed(l)
  <2>1. PICK ok \in BOOLEAN :
          LET new == IF ok THEN {l} ELSE {}
          IN  /\ lacq' = lacq \cup new /\ gacq' = gacq \cup new /\ owned' = owned \cup new
              /\ cmd' = [cmd EXCEPT ![l] = IF guard[l] # "waiting" THEN "none"
                                           ELSE IF ok THEN "yes" ELSE "no"]
    <3> DEFINE c   == CredOf[l]
               n   == Decreased(lcnt[c], Weight(On(c, lacq) \cap {}))
               g   == Decreased(gcnt, Weight(gacq \cap {}))
               ok0 == Fits(n, l, MaxLocal) /\ Fits(g, l, MaxGlobal)
    <3>1. ok0 \in BOOLEAN
      BY DEF Fits
    <3>2. LET new == IF ok0 THEN {l} ELSE {}
          IN  /\ lacq' = lacq \cup new /\ gacq' = gacq \cup new /\ owned' = owned \cup new
              /\ cmd' = [cmd EXCEPT ![l] = IF guard[l] # "waiting" THEN "none"
                                           ELSE IF ok0 THEN "yes" ELSE "no"]
      BY <1>2 DEF AcquireScript
    <3> HIDE DEF ok0
    <3> QED
      BY <3>1, <3>2
  <2> QED
    BY <2>1 DEF TypeOK
<1> QED
  BY <1>1, <1>2

\* Every step leaves the slots of the requests under way registered.
LEMMA NextHeld ==
    Steady /\ TypeOK /\ CrashInv /\ LeaseInv /\ ReclaimInv /\ HeldInv /\ [Next]_vars => HeldInv'
<1> SUFFICES ASSUME Steady, TypeOK, CrashInv, LeaseInv, ReclaimInv, HeldInv, [Next]_vars
             PROVE  HeldInv'
  OBVIOUS
<1> USE DEF redisVars, procVars, instVars
<1>0. ASSUME UNCHANGED <<lacq, gacq, owned, guard, cmd>>, stopping \subseteq stopping'
      PROVE  HeldInv'
  BY <1>0 DEF HeldInv
<1>1. ASSUME NEW l \in Leases, RequestStep(l) PROVE HeldInv'
  <2>1. CASE Prepare(l)
    BY <2>1 DEF Prepare, HeldInv, TypeOK
  <2>2. CASE SendAcquire(l)
    BY <2>2 DEF SendAcquire, HeldInv, TypeOK
  <2>3. CASE ExecuteAcquire(l)
    <3>1. UNCHANGED <<guard, stopping>> /\ cmd[l] = "wire"
      BY <2>3 DEF ExecuteAcquire
    <3>2. guard[l] # "acquired"
      BY <3>1 DEF LeaseInv, LeaseOK
    <3>3. /\ lacq \subseteq lacq' /\ gacq \subseteq gacq' /\ owned \subseteq owned'
          /\ cmd'[l] = "yes" => l \in lacq' \cap gacq' \cap owned'
          /\ \A k \in Leases \ {l} : cmd'[k] = cmd[k]
      BY <2>3, AcquireScriptSteady DEF ExecuteAcquire, Steady
    <3> QED
      BY <3>1, <3>2, <3>3 DEF HeldInv
  <2>4. CASE LoseAcquire(l)
    BY <2>4 DEF LoseAcquire, HeldInv, TypeOK
  <2>5. CASE ConfirmAcquired(l)
    BY <2>5 DEF ConfirmAcquired, HeldInv, TypeOK
  <2>6. CASE Refused(l)
    BY <2>6 DEF Refused, HeldInv, TypeOK
  <2>7. CASE DispatchWithoutLease(l)
    BY <2>7 DEF DispatchWithoutLease, HeldInv, TypeOK
  <2>8. CASE DispatchUnknown(l)
    BY <2>8 DEF DispatchUnknown, Unread, HeldInv, TypeOK
  <2>9. CASE Release(l)
    BY <2>9 DEF Release, Unread, HeldInv, TypeOK
  <2>10. CASE DispatchRelease(l)
    <3>1. /\ lacq' = lacq \ {l} /\ gacq' = gacq \ {l} /\ owned' = owned \ {l}
          /\ UNCHANGED <<guard, cmd, stopping>>
      BY <2>10 DEF DispatchRelease, ReleaseScript, DropLeases
    <3>2. guard[l] \notin {"acquired", "waiting"}
      BY <2>10 DEF DispatchRelease, LeaseInv, LeaseOK
    <3> QED
      BY <3>1, <3>2 DEF HeldInv
  <2>11. CASE Touch(l)
    BY <2>11, <1>0 DEF Touch, TouchScript
  <2>12. CASE ExpireEntry(l) \/ Age(l) \/ TombstoneExpires(l)
    BY <2>12, <1>0 DEF ExpireEntry, Age, TombstoneExpires
  <2> QED
    BY <1>1, <2>1, <2>2, <2>3, <2>4, <2>5, <2>6, <2>7, <2>8, <2>9, <2>10, <2>11, <2>12
       DEF RequestStep
<1>2. ASSUME NEW i \in Instances, InstanceStep(i) PROVE HeldInv'
  <2>1. ASSUME NEW l \in Leases, ReclaimLease(i, l) PROVE HeldInv'
    <3>1. /\ lacq' = lacq \ {l} /\ gacq' = gacq \ {l} /\ owned' = owned \ {l}
          /\ UNCHANGED <<guard, cmd, stopping>>
      BY <2>1 DEF ReclaimLease, ReleaseScript, DropLeases
    <3>2. OwnerOf[l] \in stopping \/ guard[l] = "dead"
      BY <2>1 DEF ReclaimLease, ReclaimInv, CrashInv
    <3> QED
      BY <3>1, <3>2 DEF HeldInv
  <2>2. CASE ReclaimForget(i)
    <3>1. /\ owned' = owned \ OfInstance(victim[i])
          /\ UNCHANGED <<lacq, gacq, guard, cmd, stopping>>
      BY <2>2 DEF ReclaimForget
    <3>2. \A l \in OfInstance(victim[i]) : OwnerOf[l] \in stopping \/ guard[l] = "dead"
      BY <2>2 DEF ReclaimForget, OfInstance, ReclaimInv, CrashInv
    <3> QED
      BY <3>1, <3>2 DEF HeldInv
  <2>3. CASE TouchInstance(i)
    BY <2>3 DEF TouchInstance, TouchInstanceScript, HeldInv
  <2>4. CASE Crash(i)
    BY <2>4 DEF Crash, Unread, HeldInv, TypeOK
  <2>5. CASE Heartbeat(i) \/ HeartbeatExpires(i) \/ (\E v \in Instances : ReclaimRead(i, v))
             \/ ReclaimAbort(i) \/ CountInstances(i) \/ BeginShutdown(i)
    BY <2>5, <1>0 DEF Heartbeat, HeartbeatExpires, ReclaimRead, ReclaimAbort, CountInstances,
             BeginShutdown
  <2> QED
    BY <1>2, <2>1, <2>2, <2>3, <2>4, <2>5 DEF InstanceStep
<1>3. ASSUME NEW c \in Creds, AccountStep(c) PROVE HeldInv'
  BY <1>3, <1>0 DEF AccountStep, ClearIdle, ClearAll, AccountKeysExpire, SetBlock, Steady
<1>4. CASE CleanupExpired \/ GlobalKeysExpire
  BY <1>4 DEF CleanupExpired, GlobalKeysExpire, Steady
<1>5. CASE UNCHANGED vars
  BY <1>5, <1>0 DEF vars
<1> QED
  BY <1>1, <1>2, <1>3, <1>4, <1>5 DEF Next

\* The invariants of the steady case.
SteadyInv == TypeOK /\ CrashInv /\ LeaseInv /\ CountInv /\ ReclaimInv /\ HeldInv

\* They are an invariant of the specification.
LEMMA SteadyInvariant == Steady => (Spec => []SteadyInv)
<1>1. Init => SteadyInv
  BY InitType, InitCrash, InitLease, InitCount, InitHeld DEF SteadyInv
<1>2. ASSUME Steady PROVE SteadyInv /\ [Next]_vars => SteadyInv'
  BY <1>2, NextType, NextCrash, NextLease, NextCount, NextReclaim, NextHeld DEF SteadyInv
<1>3. ASSUME Steady PROVE Spec => []SteadyInv
  BY <1>1, <1>2, <1>3, PTL DEF Spec
<1> QED
  BY <1>3

\* Without pauses, administrator and age limit, a running request of an instance
\* that is not shutting down is registered in Redis all the time, however often
\* other processes crash and are reclaimed from.
THEOREM HeldStaysRegistered ==
    Pauses = {} /\ ~MaxAge /\ ~Admin => (Spec => []HeldIsRegistered)
<1>1. SteadyInv => HeldIsRegistered
  BY DEF SteadyInv, HeldInv, HeldIsRegistered
<1> QED
  BY <1>1, SteadyInvariant, PTL DEF Steady

-----------------------------------------------------------------------------
(* Requests under way keep to the limits.                                  *)

\* A request that went out without a lease is of the only instance that runs.
AloneInv ==
    /\ stopping = {} /\ up \subseteq known
    /\ \A i \in alone : up \subseteq {i}
    /\ \A l \in Leases : guard[l] \in {"unknown", "rejected"} => up \subseteq {OwnerOf[l]}
    /\ \A l \in Leases : guard[l] \in Active => l \in entry

\* The ledger of every instance, S, keeps to the limits by itself.
Roomy(S) ==
    /\ MaxLocal > 0 => \A c \in Creds : Weight(On(c, S)) <= MaxLocal
    /\ MaxGlobal > 0 => Weight(S) <= MaxGlobal

RoomInv == \A i \in Instances : Roomy(entry \cap OfInstance(i))

\* A part of what keeps to the limits keeps to them.
LEMMA RoomyPart ==
    ASSUME NEW S \in SUBSET Leases, NEW T \in SUBSET S, Roomy(S)
    PROVE  Roomy(T)
<1>1. Weight(T) <= Weight(S) /\ Weight(T) \in Nat /\ Weight(S) \in Nat
  <2>1. T = S \cap T
    OBVIOUS
  <2> QED
    BY <2>1, WeightMinus
<1>2. ASSUME NEW c \in Creds
      PROVE  /\ Weight(On(c, T)) <= Weight(On(c, S))
             /\ Weight(On(c, T)) \in Nat /\ Weight(On(c, S)) \in Nat
  <2>1. On(c, T) = On(c, S) \cap On(c, T) /\ On(c, S) \in SUBSET Leases
    BY DEF On
  <2> QED
    BY <2>1, WeightMinus
<1>3. MaxLocal \in Nat /\ MaxGlobal \in Nat
  BY ConstantsAssumption
<1>4. ASSUME MaxGlobal > 0 PROVE Weight(T) <= MaxGlobal
  BY <1>1, <1>3, <1>4 DEF Roomy
<1>5. ASSUME MaxLocal > 0, NEW c \in Creds PROVE Weight(On(c, T)) <= MaxLocal
  <2>1. Weight(On(c, S)) <= MaxLocal
    BY <1>5 DEF Roomy
  <2> QED
    BY <1>2, <1>3, <2>1
<1> QED
  BY <1>4, <1>5 DEF Roomy

\* A lease that fits into what keeps to the limits may join it.
LEMMA RoomyJoin ==
    ASSUME NEW S \in SUBSET Leases, NEW l \in Leases \ S, Roomy(S),
           Fits(Weight(S), l, MaxGlobal), Fits(Weight(On(CredOf[l], S)), l, MaxLocal)
    PROVE  Roomy(S \cup {l})
<1>1. Weight({l}) = EffectiveWeight(l)
  BY WeightSingle
<1>2. MaxLocal \in Nat /\ MaxGlobal \in Nat
  BY ConstantsAssumption
<1>3. ASSUME MaxGlobal > 0 PROVE Weight(S \cup {l}) <= MaxGlobal
  <2>1. Weight(S \cup {l}) = Weight(S) + Weight({l})
    BY WeightPlus
  <2>2. Weight(S) + EffectiveWeight(l) <= MaxGlobal
    BY <1>2, <1>3 DEF Fits
  <2> QED
    BY <1>1, <2>1, <2>2
<1>4. ASSUME MaxLocal > 0, NEW c \in Creds PROVE Weight(On(c, S \cup {l})) <= MaxLocal
  <2>1. CASE c = CredOf[l]
    <3>1. On(c, S \cup {l}) = On(c, S) \cup {l}
      BY <2>1 DEF On
    <3>2. On(c, S) \in SUBSET Leases /\ On(c, S) \cap {l} = {}
      BY DEF On
    <3>3. Weight(On(c, S) \cup {l}) = Weight(On(c, S)) + Weight({l})
      BY <3>2, WeightPlus
    <3>4. Weight(On(c, S)) + EffectiveWeight(l) <= MaxLocal
      BY <1>2, <1>4, <2>1 DEF Fits
    <3> QED
      BY <1>1, <3>1, <3>3, <3>4
  <2>2. CASE c # CredOf[l]
    <3>1. On(c, S \cup {l}) = On(c, S)
      BY <2>2 DEF On
    <3> QED
      BY <1>4, <3>1 DEF Roomy
  <2> QED
    BY <2>1, <2>2
<1> QED
  BY <1>3, <1>4 DEF Roomy

\* Both hold at first.
LEMMA InitAlone == Init => AloneInv /\ RoomInv
<1> SUFFICES ASSUME Init PROVE AloneInv /\ RoomInv
  OBVIOUS
<1>1. AloneInv
  BY DEF Init, AloneInv, Active
<1>2. \A i \in Instances : entry \cap OfInstance(i) = {}
  BY DEF Init
<1>3. \A c \in Creds : On(c, {}) = {}
  BY DEF On
<1>4. Roomy({})
  BY <1>3, WeightEmpty, ConstantsAssumption DEF Roomy
<1> QED
  BY <1>1, <1>2, <1>4 DEF RoomInv

\* Every step keeps the ledgers to the limits: only a reservation adds to one,
\* and it asks for room first.
LEMMA NextRoom == TypeOK /\ RoomInv /\ [Next]_vars => RoomInv'
<1> SUFFICES ASSUME TypeOK, RoomInv, [Next]_vars PROVE RoomInv'
  OBVIOUS
<1> USE DEF redisVars, procVars, instVars
<1>0. ASSUME entry' \subseteq entry PROVE RoomInv'
  <2>1. ASSUME NEW i \in Instances PROVE Roomy(entry' \cap OfInstance(i))
    <3>1. entry \cap OfInstance(i) \in SUBSET Leases
      BY DEF TypeOK
    <3>2. entry' \cap OfInstance(i) \in SUBSET (entry \cap OfInstance(i))
      BY <1>0
    <3> QED
      BY <3>1, <3>2, RoomyPart DEF RoomInv
  <2> QED
    BY <2>1 DEF RoomInv, Roomy, Weight, Units, EffectiveWeight, Clamped, On, OfInstance
<1>1. ASSUME NEW l \in Leases, RequestStep(l) PROVE RoomInv'
  <2>1. CASE Prepare(l) /\ l \notin entry
    <3>1. ASSUME NEW i \in Instances PROVE Roomy(entry' \cap OfInstance(i))
      <4>1. entry' = entry \cup {l} /\ entry \subseteq Leases
        BY <2>1 DEF Prepare, TypeOK
      <4>2. CASE i = OwnerOf[l]
        <5> DEFINE S == entry \cap OfInstance(i)
        <5>1. S \in SUBSET Leases /\ l \in Leases \ S /\ Roomy(S)
          BY <2>1, <4>1 DEF RoomInv
        <5>2. Fits(Weight(S), l, MaxGlobal) /\ Fits(Weight(On(CredOf[l], S)), l, MaxLocal)
          BY <2>1, <4>2 DEF Prepare
        <5>3. entry' \cap OfInstance(i) = S \cup {l}
          BY <4>1, <4>2 DEF OfInstance
        <5> HIDE DEF S
        <5> QED
          BY <5>1, <5>2, <5>3, RoomyJoin
      <4>3. CASE i # OwnerOf[l]
        <5>1. entry' \cap OfInstance(i) = entry \cap OfInstance(i)
          BY <4>1, <4>3 DEF OfInstance
        <5> QED
          BY <5>1 DEF RoomInv
      <4> QED
        BY <4>2, <4>3
    <3> QED
      BY <3>1 DEF RoomInv, Roomy, Weight, Units, EffectiveWeight, Clamped, On, OfInstance
  <2>2. CASE Prepare(l) /\ l \in entry
    BY <2>2, <1>0 DEF Prepare
  <2>3. CASE ~Prepare(l)
    BY <1>1, <2>3, <1>0 DEF RequestStep, SendAcquire, ExecuteAcquire, LoseAcquire,
             ConfirmAcquired, Refused, DispatchWithoutLease, DispatchUnknown, Release,
             DispatchRelease, Touch, ExpireEntry, Age, TombstoneExpires
  <2> QED
    BY <2>1, <2>2, <2>3
<1>2. ASSUME NEW i \in Instances, InstanceStep(i) PROVE RoomInv'
  BY <1>2, <1>0 DEF InstanceStep, Heartbeat, TouchInstance, HeartbeatExpires, ReclaimRead,
           ReclaimLease, ReclaimForget, ReclaimAbort, CountInstances, BeginShutdown, Crash
<1>3. ASSUME NEW c \in Creds, AccountStep(c) PROVE RoomInv'
  BY <1>3, <1>0 DEF AccountStep, ClearIdle, ClearAll, AccountKeysExpire, SetBlock
<1>4. CASE CleanupExpired \/ GlobalKeysExpire
  BY <1>4, <1>0 DEF CleanupExpired, GlobalKeysExpire
<1>5. CASE UNCHANGED vars
  BY <1>5, <1>0 DEF vars
<1> QED
  BY <1>1, <1>2, <1>3, <1>4, <1>5 DEF Next

\* Every step keeps what is known of the only instance: the instances that are
\* up are registered and alive, so the one that counts itself alone is.
LEMMA NextAlone ==
    Steady /\ Stoppable = {} /\ SteadyInv /\ AloneInv /\ [Next]_vars => AloneInv'
<1> SUFFICES ASSUME Steady, Stoppable = {}, SteadyInv, AloneInv, [Next]_vars PROVE AloneInv'
  OBVIOUS
<1> USE DEF redisVars, procVars, instVars
<1>a. TypeOK /\ ReclaimInv /\ CrashInv
  BY DEF SteadyInv
<1>0. ASSUME UNCHANGED <<guard, entry, stopping, up, known, alone>> PROVE AloneInv'
  BY <1>0 DEF AloneInv
<1>1. ASSUME NEW l \in Leases, RequestStep(l) PROVE AloneInv'
  <2>1. CASE Prepare(l) \/ SendAcquire(l) \/ ConfirmAcquired(l)
    BY <2>1, <1>a DEF Prepare, SendAcquire, ConfirmAcquired, AloneInv, TypeOK, Active
  <2>2. CASE Refused(l) \/ Release(l)
    BY <2>2, <1>a DEF Refused, Release, AloneInv, TypeOK, Active
  <2>3. CASE DispatchWithoutLease(l) \/ DispatchUnknown(l)
    BY <2>3, <1>a DEF DispatchWithoutLease, DispatchUnknown, AloneInv, TypeOK, Active
  <2>4. CASE ExecuteAcquire(l) \/ LoseAcquire(l) \/ DispatchRelease(l) \/ Touch(l)
    BY <2>4, <1>0 DEF ExecuteAcquire, LoseAcquire, DispatchRelease, Touch
  <2>5. CASE ExpireEntry(l) \/ Age(l) \/ TombstoneExpires(l)
    BY <2>5, <1>0 DEF ExpireEntry, Age, TombstoneExpires, Steady
  <2> QED
    BY <1>1, <2>1, <2>2, <2>3, <2>4, <2>5 DEF RequestStep
<1>2. ASSUME NEW i \in Instances, InstanceStep(i) PROVE AloneInv'
  <2>1. CASE Heartbeat(i)
    BY <2>1 DEF Heartbeat, AloneInv
  <2>2. CASE ReclaimForget(i)
    BY <2>2, <1>a DEF ReclaimForget, AloneInv, ReclaimInv
  <2>3. CASE CountInstances(i)
    BY <2>3, <1>a DEF CountInstances, AloneInv, ReclaimInv
  <2>4. CASE Crash(i)
    BY <2>4, <1>a DEF Crash, AloneInv, TypeOK, Active, OfInstance
  <2>5. CASE BeginShutdown(i)
    BY <2>5 DEF BeginShutdown
  <2>6. CASE TouchInstance(i) \/ HeartbeatExpires(i) \/ (\E v \in Instances : ReclaimRead(i, v))
             \/ (\E l \in Leases : ReclaimLease(i, l)) \/ ReclaimAbort(i)
    BY <2>6, <1>0 DEF TouchInstance, HeartbeatExpires, ReclaimRead, ReclaimLease, ReclaimAbort
  <2> QED
    BY <1>2, <2>1, <2>2, <2>3, <2>4, <2>5, <2>6 DEF InstanceStep
<1>3. ASSUME NEW c \in Creds, AccountStep(c) PROVE AloneInv'
  BY <1>3, <1>0 DEF AccountStep, ClearIdle, ClearAll, AccountKeysExpire, SetBlock
<1>4. CASE CleanupExpired \/ GlobalKeysExpire
  BY <1>4, <1>0 DEF CleanupExpired, GlobalKeysExpire
<1>5. CASE UNCHANGED vars
  BY <1>5, <1>0 DEF vars
<1> QED
  BY <1>1, <1>2, <1>3, <1>4, <1>5 DEF Next

\* Without pauses, administrator, age limit and shutdown the requests under way,
\* of all instances together, keep to the limits, although an instance goes on
\* without Redis when it is the only one.  Either they all hold a lease, and
\* Redis keeps to the limits; or there is one instance, and its ledger does.
THEOREM DispatchKeepsLimits ==
    Pauses = {} /\ ~MaxAge /\ ~Admin /\ Stoppable = {} => (Spec => []DispatchedWithinLimits)
<1>1. SteadyInv /\ AloneInv /\ RoomInv => DispatchedWithinLimits
  <2> SUFFICES ASSUME SteadyInv, AloneInv, RoomInv PROVE Roomy(Dispatched)
    BY DEF Roomy, DispatchedWithinLimits
  <2>1. CASE \A l \in Dispatched : guard[l] = "acquired"
    <3>1. Dispatched \subseteq lacq /\ Dispatched \subseteq gacq
      BY <2>1 DEF Dispatched, SteadyInv, HeldInv, AloneInv
    <3>2. /\ lacq \in SUBSET Leases /\ gacq \in SUBSET Leases
          /\ Dispatched \in SUBSET lacq /\ Dispatched \in SUBSET gacq
      BY <3>1 DEF SteadyInv, TypeOK
    <3>3. WithinLimits
      BY DEF SteadyInv, CountInv
    <3>4. MaxLocal \in Nat /\ MaxGlobal \in Nat
      BY ConstantsAssumption
    <3>5. ASSUME MaxGlobal > 0 PROVE Weight(Dispatched) <= MaxGlobal
      <4>1. Dispatched = gacq \cap Dispatched
        BY <3>2
      <4>2. Weight(Dispatched) <= Weight(gacq) /\ Weight(Dispatched) \in Nat /\ Weight(gacq) \in Nat
        BY <3>2, <4>1, WeightMinus
      <4> QED
        BY <3>3, <3>4, <3>5, <4>2 DEF WithinLimits
    <3>6. ASSUME MaxLocal > 0, NEW c \in Creds PROVE Weight(On(c, Dispatched)) <= MaxLocal
      <4>1. On(c, Dispatched) = On(c, lacq) \cap On(c, Dispatched) /\ On(c, lacq) \in SUBSET Leases
        BY <3>2 DEF On
      <4>2. /\ Weight(On(c, Dispatched)) <= Weight(On(c, lacq))
            /\ Weight(On(c, Dispatched)) \in Nat /\ Weight(On(c, lacq)) \in Nat
        BY <4>1, WeightMinus
      <4> QED
        BY <3>3, <3>4, <3>6, <4>2 DEF WithinLimits
    <3> QED
      BY <3>5, <3>6 DEF Roomy
  <2>2. CASE ~\A l \in Dispatched : guard[l] = "acquired"
    <3>1. PICK k \in Leases : guard[k] \in {"unknown", "rejected"}
      BY <2>2 DEF Dispatched
    <3> DEFINE i == OwnerOf[k]
               S == entry \cap OfInstance(i)
    <3>2. i \in Instances /\ up \subseteq {i}
      BY <3>1, ConstantsAssumption DEF AloneInv
    <3>3. Dispatched \subseteq S
      BY <3>2 DEF Dispatched, AloneInv, SteadyInv, CrashInv, Active, OfInstance
    <3>4. S \in SUBSET Leases /\ Dispatched \in SUBSET S /\ Roomy(S)
      BY <3>2, <3>3 DEF RoomInv, SteadyInv, TypeOK
    <3> HIDE DEF S
    <3> QED
      BY <3>4, RoomyPart
  <2> QED
    BY <2>1, <2>2
<1>2. ASSUME Pauses = {} /\ ~MaxAge /\ ~Admin /\ Stoppable = {}
      PROVE  Spec => []DispatchedWithinLimits
  <2>1. Steady
    BY <1>2 DEF Steady
  <2>2. SteadyInv /\ AloneInv /\ [Next]_vars => AloneInv'
    BY <1>2, <2>1, NextAlone
  <2>3. SteadyInv => TypeOK
    BY DEF SteadyInv
  <2>4. Spec => []SteadyInv
    BY <2>1, SteadyInvariant
  <2> QED
    BY <1>1, <2>2, <2>3, <2>4, InitAlone, NextRoom, PTL DEF Spec
<1> QED
  BY <1>2

=============================================================================
