------------------------- MODULE ExternalPoolProofs -------------------------
(***************************************************************************)
(* Theorems about ExternalPool, for any processes, leases, pools, limits,  *)
(* restarts and faults.                                                    *)
(***************************************************************************)
EXTENDS ExternalPool, FiniteSetTheorems, TLAPS

-----------------------------------------------------------------------------
(* Types.                                                                  *)

\* Initially every variable has its type.
LEMMA TypeInit == Init => TypeOK
  <1> SUFFICES ASSUME Init PROVE TypeOK
    OBVIOUS
  <1> USE DEF Init
  <1>1. /\ run \in Nat /\ epoch \in Nat /\ fresh \in Nat /\ faults \in Nat
        /\ rowRun \in Nat /\ rowEpoch \in 0..(fresh - 1)
    OBVIOUS
  <1>5. recovering \in BOOLEAN
    OBVIOUS
  <1>2. /\ reg \subseteq Leases /\ greg \subseteq Leases /\ tomb \subseteq Leases
        /\ stale \subseteq reg \cup greg /\ late \subseteq Nat \X BOOLEAN
        /\ lock \in Instances \cup {None} /\ leak \in Instances \cup {None}
        /\ orphan \subseteq Instances /\ blind \subseteq Leases /\ missed \subseteq Leases
    OBVIOUS
  <1>3. /\ cEpoch \in [Instances -> Nat] /\ cRun \in [Instances -> Nat]
        /\ mode \in [Instances -> {"cached", "due", "required"}]
        /\ rc \in [Instances -> Locked \cup {"no", "verify", "lock"}]
        /\ seen \in [Instances -> Nat]
    OBVIOUS
  <1>4. /\ st \in [Leases -> {"idle", "asking", "active", "lost", "ended"}]
        /\ tag \in [Leases -> Nat]
        /\ cmd \in [Leases -> {"none", "wire", "granted", "refused", "mismatch"}]
        /\ intent \in [Leases -> {"none", "pending", "confirmed"}]
        /\ on \in [Leases -> Nat]
    OBVIOUS
  <1> QED
    BY <1>1, <1>2, <1>3, <1>4, <1>5 DEF TypeOK

\* What is remembered is typed.
LEMMA RememberedType == ASSUME TypeOK PROVE Remembered \subseteq Nat
  <1>1. \A i \in Instances : cEpoch[i] \in Nat
    BY DEF TypeOK
  <1>2. \A l \in Leases : tag[l] \in Nat
    BY DEF TypeOK
  <1> SUFFICES ASSUME NEW e \in Remembered PROVE e \in Nat
    OBVIOUS
  <1>3. (\E i \in Instances : e = cEpoch[i]) \/ (\E l \in Leases : e = tag[l])
    BY DEF Remembered
  <1> QED
    BY <1>1, <1>2, <1>3

\* A step of the environment preserves the types.
LEMMA TypeEnvironment ==
  ASSUME TypeOK, Restart \/ RecoveryEnds \/ ConnectionCloses \/ \E c \in late : LateInstall(c)
  PROVE  TypeOK'
  <1> USE DEF TypeOK
  <1>1. CASE Restart
    <2>1. run' \in Nat /\ epoch' \in Nat
      <3>4. run' = run + 1 /\ epoch' \in {0, epoch} \cup Remembered
        BY <1>1, Zenon DEF Restart
      <3> QED
        BY <3>4, RememberedType
    <2>3. recovering' \in BOOLEAN
      BY <1>1 DEF Restart
    <2>2. /\ reg' \subseteq Leases /\ greg' \subseteq Leases /\ tomb' \subseteq Leases
          /\ stale' \subseteq reg' \cup greg'
      BY <1>1 DEF Restart, regVars
    <2> QED
      BY <1>1, <2>1, <2>2, <2>3 DEF Restart, pgVars, cacheVars, rcVars, leaseVars, pastVars
  <1>2. CASE RecoveryEnds
    <2>1. Fenced \subseteq Leases
      BY DEF Fenced, Promised, Held
    <2>2. recovering' = FALSE /\ missed' \subseteq Leases
      BY <1>2, <2>1 DEF RecoveryEnds
    <2> QED
      BY <1>2, <2>2 DEF RecoveryEnds, regVars, pgVars, cacheVars, rcVars
  <1>3. CASE ConnectionCloses
    BY <1>3 DEF ConnectionCloses, guardVars, regVars, cacheVars, rcVars, leaseVars, pastVars
  <1>4. CASE \E c \in late : LateInstall(c)
    BY <1>4 DEF LateInstall, InstallScript, regVars, pgVars, cacheVars, rcVars, leaseVars, pastVars
  <1> QED
    BY <1>1, <1>2, <1>3, <1>4

\* The command left behind is typed.
LEMMA LeftType == ASSUME TypeOK, NEW i \in Instances PROVE Left(i) \subseteq Nat \X BOOLEAN
  <1>1. rowEpoch \in Nat
    BY DEF TypeOK
  <1>2. <<rowEpoch, TRUE>> \in Nat \X BOOLEAN /\ <<rowEpoch, FALSE>> \in Nat \X BOOLEAN
    BY <1>1
  <1>3. \A c \in Left(i) : c = <<rowEpoch, TRUE>> \/ c = <<rowEpoch, FALSE>>
    BY DEF Left
  <1> QED
    BY <1>2, <1>3

\* A step of a process preserves the types.
LEMMA TypeProcess ==
  ASSUME TypeOK, NEW i \in Instances,
         Distrust(i) \/ Reconcile(i) \/ Fail(i) \/ Cancel(i)
         \/ OrphanLocks(i) \/ Crash(i)
  PROVE  TypeOK'
  <1> USE DEF TypeOK, Record, Require, Phase, Done, Locked
  <1>1. CASE OrphanLocks(i)
    BY <1>1 DEF OrphanLocks, guardVars, regVars, cacheVars, rcVars, leaseVars, pastVars
  <1>2. CASE Distrust(i)
    BY <1>2 DEF Distrust, guardVars, regVars, pgVars, rcVars, leaseVars, pastVars
  <1>3. CASE Probe(i)
    BY <1>3 DEF Probe, guardVars, regVars, pgVars, cacheVars, leaseVars, pastVars
  <1>4. CASE Verify(i)
    BY <1>4 DEF Verify, guardVars, regVars, pgVars, cacheVars, leaseVars, pastVars
  <1>5. CASE Lock(i)
    BY <1>5 DEF Lock, guardVars, regVars, cacheVars, leaseVars, pastVars
  <1>6. CASE ReadRow(i)
    BY <1>6 DEF ReadRow, guardVars, regVars, pgVars, cacheVars, leaseVars, pastVars
  <1>7. CASE CheckGuard(i)
    BY <1>7 DEF CheckGuard, guardVars, regVars, cacheVars, leaseVars, pastVars
  <1>8. CASE WriteRow(i)
    BY <1>8 DEF WriteRow, guardVars, regVars, cacheVars, leaseVars, pastVars
  <1>9. CASE Install(i)
    BY <1>9 DEF Install, InstallScript, regVars, pgVars, cacheVars, leaseVars, pastVars
  <1>10. CASE Confirm(i)
    BY <1>10 DEF Confirm, guardVars, regVars, leaseVars, pastVars
  <1>11. CASE Fail(i)
    BY <1>11, LeftType DEF Fail, regVars, leaseVars, pastVars
  <1>12. CASE Cancel(i)
    BY <1>12, LeftType DEF Cancel, regVars, cacheVars, leaseVars, pastVars
  <1>13. CASE Crash(i)
    BY <1>13, LeftType DEF Crash, Forget, regVars
  <1> QED
    BY <1>1, <1>2, <1>3, <1>4, <1>5, <1>6, <1>7, <1>8, <1>9, <1>10, <1>11, <1>12, <1>13
    DEF Reconcile

\* A step of a lease preserves the types.
LEMMA TypeLease == ASSUME TypeOK, NEW l \in Leases, LeaseStep(l) PROVE TypeOK'
  <1> USE PoolAssumption DEF TypeOK, Set, Require, Forget, pastVars
  <1>1. CASE Ask(l)
    BY <1>1 DEF Ask, guardVars, regVars, pgVars, cacheVars, rcVars
  <1>2. CASE Acquire(l)
    <2>1. /\ reg' \subseteq Leases /\ greg' \subseteq Leases /\ stale' \subseteq reg' \cup greg'
          /\ cmd' \in [Leases -> {"none", "wire", "granted", "refused", "mismatch"}]
      BY <1>2 DEF Acquire, AcquireScript, PoolLeft, GlobalLeft
    <2> QED
      BY <1>2, <2>1 DEF Acquire, guardVars, pgVars, cacheVars, rcVars
  <1>3. CASE Acquired(l)
    BY <1>3 DEF Acquired, guardVars, regVars, pgVars, cacheVars, rcVars
  <1>4. CASE Refused(l)
    BY <1>4 DEF Refused, guardVars, regVars, pgVars, rcVars
  <1>5. CASE Unknown(l)
    BY <1>5 DEF Unknown, guardVars, regVars, pgVars, rcVars
  <1>6. CASE Drop(l)
    BY <1>6 DEF Drop, guardVars, regVars, pgVars, cacheVars, rcVars
  <1>7. CASE Release(l)
    BY <1>7 DEF Release, guardVars, pgVars, cacheVars, rcVars
  <1>8. CASE Touch(l)
    BY <1>8 DEF Touch, guardVars, regVars, pgVars, cacheVars, rcVars
  <1>9. CASE LossDeadline(l)
    BY <1>9 DEF LossDeadline, guardVars, regVars, pgVars, cacheVars, rcVars
  <1>10. CASE Age(l)
    BY <1>10 DEF Age, guardVars, pgVars, cacheVars, rcVars, leaseVars, pastVars
  <1>11. CASE TombstoneExpires(l)
    BY <1>11 DEF TombstoneExpires, guardVars, pgVars, cacheVars, rcVars, leaseVars, pastVars
  <1> QED
    BY <1>1, <1>2, <1>3, <1>4, <1>5, <1>6, <1>7, <1>8, <1>9, <1>10, <1>11 DEF LeaseStep

\* Every step preserves the types.
LEMMA TypeStep == TypeOK /\ [Next]_vars => TypeOK'
  <1> SUFFICES ASSUME TypeOK, [Next]_vars PROVE TypeOK'
    OBVIOUS
  <1>1. CASE UNCHANGED vars
    BY <1>1 DEF TypeOK, vars, guardVars, regVars, pgVars, cacheVars, rcVars, leaseVars, pastVars
  <1> QED
    BY <1>1, TypeEnvironment, TypeProcess, TypeLease DEF Next

\* Every variable keeps its type, whatever restarts, fails, is late or crashes.
THEOREM TypeCorrect == Spec => []TypeOK
  BY TypeInit, TypeStep, PTL DEF Spec

-----------------------------------------------------------------------------
(* Epochs.  An epoch is installed once: the process that has written it to *)
(* the row does it, or the command it left behind.                         *)

\* Nothing is newer than the epoch of the row.
RowInv ==
    /\ epoch <= rowEpoch
    /\ \A i \in Instances : cEpoch[i] <= rowEpoch
    /\ \A l \in Leases : tag[l] <= rowEpoch
    /\ \A c \in late : c[1] \in 1 .. rowEpoch

\* The lock protects the phases between reading and confirming, and an epoch
\* that is used is one.
PhaseInv ==
    \A i \in Instances :
        /\ rc[i] \in Locked => lock = i
        /\ rc[i] \in {"check", "install", "installFirst", "confirm"} => rowEpoch # 0
        /\ rc[i] = "verify" \/ mode[i] = "cached" => cEpoch[i] # 0

Unused(e) ==
    /\ e # epoch
    /\ \A i \in Instances : cEpoch[i] # e
    /\ \A l \in Leases : tag[l] # e

\* An epoch that will still be installed is known to nobody.
PendingInv ==
    /\ \A c \in late : Unused(c[1])
    /\ \A c, d \in late : c[1] = d[1] => c = d
    /\ \A i \in Instances :
        /\ rc[i] \in {"install", "installFirst"} => Unused(rowEpoch)
        /\ rc[i] \in {"install", "installFirst", "confirm"} => \A c \in late : c[1] # rowEpoch

\* While the epoch of the row is one to be installed without a barrier, no
\* epoch at all has been used.
FirstInv ==
    (\E i \in Instances : rc[i] = "installFirst") \/ <<rowEpoch, FALSE>> \in late
        => /\ \A i \in Instances : cEpoch[i] = 0
           /\ \A l \in Leases : tag[l] = 0

GuardInv == TypeOK /\ RowInv /\ PhaseInv /\ PendingInv /\ FirstInv

Coordination == <<epoch, rowEpoch, cEpoch, late, rc, lock>>

\* Steps that only ask for a check, or forget leases, leave the epochs alone.
LEMMA GuardFrame ==
  ASSUME GuardInv, UNCHANGED Coordination, \A l \in Leases : tag'[l] \in {0, tag[l]},
         \A i \in Instances : mode'[i] = "cached" => mode[i] = "cached"
  PROVE  RowInv' /\ PhaseInv' /\ PendingInv' /\ FirstInv'
  <1> USE DEF GuardInv, Coordination
  <1>1. RowInv'
    BY DEF RowInv, TypeOK
  <1>2. PhaseInv'
    BY DEF PhaseInv
  <1>3. PendingInv'
    <2>1. \A e : e # 0 /\ Unused(e) => Unused(e)'
      BY DEF Unused
    <2>2. /\ \A c \in late : c[1] # 0
          /\ \A i \in Instances : rc[i] \in {"install", "installFirst"} => rowEpoch # 0
      BY DEF RowInv, PhaseInv
    <2> QED
      BY <2>1, <2>2 DEF PendingInv
  <1>4. FirstInv'
    BY DEF FirstInv
  <1> QED
    BY <1>1, <1>2, <1>3, <1>4

\* Redis restarts, or an install command arrives late.
LEMMA GuardRedis ==
  ASSUME GuardInv, Restart \/ \E c \in late : LateInstall(c)
  PROVE  RowInv' /\ PhaseInv' /\ PendingInv' /\ FirstInv'
  <1> USE DEF GuardInv
  <1>1. ASSUME UNCHANGED <<rowEpoch, cEpoch, tag, rc, lock, mode>>, late' \subseteq late,
               epoch' \in {0, epoch} \cup Remembered \/ \E c \in late : late' = late \ {c} /\ epoch' = c[1]
        PROVE  RowInv' /\ PhaseInv' /\ PendingInv' /\ FirstInv'
    <2> USE <1>1
    <2>1. RowInv'
      BY DEF RowInv, TypeOK, Remembered
    <2>2. PhaseInv'
      BY DEF PhaseInv
    <2>3. \A c \in late' : c[1] # epoch'
      BY DEF PendingInv, Unused, RowInv, Remembered
    <2>4. \A i \in Instances : rc[i] \in {"install", "installFirst"} => rowEpoch # epoch'
      BY DEF PendingInv, Unused, PhaseInv, Remembered
    <2>5. PendingInv'
      BY <2>3, <2>4 DEF PendingInv, Unused
    <2>6. FirstInv'
      BY DEF FirstInv
    <2> QED
      BY <2>1, <2>2, <2>5, <2>6
  <1>2. CASE Restart
    BY <1>1, <1>2 DEF Restart, pgVars, cacheVars, rcVars, leaseVars, pastVars
  <1>3. CASE \E c \in late : LateInstall(c)
    BY <1>1, <1>3 DEF LateInstall, InstallScript, pgVars, cacheVars, rcVars, leaseVars, pastVars
  <1> QED
    BY <1>2, <1>3

\* What a process leaves behind when its reconciliation is given up.
LEMMA LeftBehind ==
  ASSUME GuardInv, NEW i \in Instances, NEW c \in Left(i)
  PROVE  /\ rc[i] \in {"install", "installFirst"} /\ c[1] = rowEpoch
         /\ c = <<rowEpoch, FALSE>> => rc[i] = "installFirst"
         /\ Left(i) = {c}
  <1>1. CASE rc[i] = "install"
    <2>1. Left(i) = {<<rowEpoch, TRUE>>}
      BY <1>1 DEF Left
    <2>2. c = <<rowEpoch, TRUE>>
      BY <2>1
    <2>4. c[1] = rowEpoch
      BY <2>2
    <2>3. c # <<rowEpoch, FALSE>>
      BY <2>2
    <2> QED
      BY <1>1, <2>1, <2>2, <2>3, <2>4
  <1>2. CASE rc[i] = "installFirst"
    <2>1. Left(i) = {<<rowEpoch, FALSE>>}
      BY <1>2 DEF Left
    <2>2. c = <<rowEpoch, FALSE>>
      BY <2>1
    <2>3. c[1] = rowEpoch
      BY <2>2
    <2> QED
      BY <1>2, <2>1, <2>2, <2>3
  <1>3. CASE rc[i] \notin {"install", "installFirst"}
    BY <1>3 DEF Left
  <1> QED
    BY <1>1, <1>2, <1>3

\* A reconciliation is given up.
LEMMA GuardAbandon ==
  ASSUME GuardInv, NEW i \in Instances, Fail(i) \/ Cancel(i) \/ Crash(i)
  PROVE  RowInv' /\ PhaseInv' /\ PendingInv' /\ FirstInv'
  <1> USE DEF GuardInv
  <1>1. /\ rc' = [rc EXCEPT ![i] = "no"] /\ late' = late \cup Left(i)
        /\ UNCHANGED <<epoch, rowEpoch>> /\ \A l \in Leases : tag'[l] \in {0, tag[l]}
    BY DEF Fail, Cancel, Crash, Done, Phase, Forget, leaseVars
  <1>2. \A j \in Instances \ {i} : rc[j] \in Locked => lock' = lock
    BY DEF Fail, Cancel, Crash, PhaseInv, Locked
  <1>3. \A j \in Instances : /\ cEpoch'[j] = cEpoch[j] \/ cEpoch'[j] = 0
                             /\ j # i => cEpoch'[j] = cEpoch[j] /\ mode'[j] = mode[j]
    BY DEF Fail, Cancel, Crash, Require, cacheVars, TypeOK
  <1>4. mode'[i] = "cached" => mode[i] = "cached" /\ cEpoch'[i] = cEpoch[i]
    BY DEF Fail, Cancel, Crash, Require, cacheVars, TypeOK
  <1>5. RowInv'
    <2>1. \A c \in Left(i) : c[1] = rowEpoch /\ rowEpoch # 0
      BY LeftBehind DEF PhaseInv
    <2>2. rowEpoch \in Nat
      BY DEF TypeOK
    <2>3. \A c \in late' : c[1] \in 1 .. rowEpoch
      BY <1>1, <2>1, <2>2 DEF RowInv
    <2> QED
      BY <1>1, <1>3, <2>3 DEF RowInv, TypeOK
  <1>6. PhaseInv'
    BY <1>1, <1>2, <1>3, <1>4 DEF PhaseInv, TypeOK, Locked
  <1>7. PendingInv'
    <2>1. \A e : e # 0 /\ Unused(e) => Unused(e)'
      BY <1>1, <1>3 DEF Unused
    <2>6. \A c \in Left(i) : /\ c[1] = rowEpoch /\ rowEpoch # 0 /\ Unused(rowEpoch) /\ Left(i) = {c}
                             /\ \A d \in late : d[1] # rowEpoch
      BY LeftBehind DEF PhaseInv, PendingInv
    <2>7. \A c \in late : c[1] # 0 /\ Unused(c[1])
      BY DEF PendingInv, RowInv
    <2>2. \A c \in late' : Unused(c[1])'
      BY <1>1, <2>1, <2>6, <2>7
    <2>3. \A c, d \in late' : c[1] = d[1] => c = d
      BY <1>1, <2>6 DEF PendingInv
    <2>4. ASSUME NEW j \in Instances, rc'[j] \in {"install", "installFirst", "confirm"}
          PROVE  j # i /\ rc[j] = rc'[j] /\ lock = j /\ rc[i] \notin Locked
      BY <1>1, <2>4 DEF PhaseInv, TypeOK, Locked
    <2>5. ASSUME NEW j \in Instances, rc'[j] \in {"install", "installFirst", "confirm"}
          PROVE  /\ rc[j] \in {"install", "installFirst"} => Unused(rowEpoch)'
                 /\ rc[j] = rc'[j] /\ \A c \in late' : c[1] # rowEpoch'
      <3>1. late' = late
        BY <1>1, <2>4, <2>5, LeftBehind DEF Locked
      <3> QED
        BY <1>1, <2>1, <2>4, <2>5, <3>1 DEF PendingInv, PhaseInv
    <2> QED
      BY <1>1, <2>2, <2>3, <2>5 DEF PendingInv
  <1>8. FirstInv'
    BY <1>1, <1>3, LeftBehind DEF FirstInv, TypeOK
  <1> QED
    BY <1>5, <1>6, <1>7, <1>8

\* A phase that neither records nor writes: only the phase of i changes, and
\* perhaps the lock is taken.
LEMMA GuardPhase ==
  ASSUME GuardInv, NEW i \in Instances, Probe(i) \/ Verify(i) \/ Lock(i) \/ ReadRow(i)
  PROVE  RowInv' /\ PhaseInv' /\ PendingInv' /\ FirstInv'
  <1> USE DEF GuardInv
  <1>1. PICK p \in {"no", "verify", "lock", "run", "check", "write"} :
            rc' = [rc EXCEPT ![i] = p] /\ (p \in Locked => lock' = i)
    <2>1. CASE Probe(i)
      <3>1. UNCHANGED rc => rc' = [rc EXCEPT ![i] = "no"]
        BY <2>1 DEF Probe, TypeOK
      <3> QED
        BY <2>1, <3>1 DEF Probe, Phase, Locked
    <2>2. CASE Verify(i)
      BY <2>2 DEF Verify, Phase, Locked
    <2>3. CASE Lock(i)
      BY <2>3 DEF Lock, Phase
    <2>4. CASE ReadRow(i)
      BY <2>4 DEF ReadRow, Phase, pgVars, PhaseInv, Locked
    <2> QED
      BY <2>1, <2>2, <2>3, <2>4
  <1>2. UNCHANGED <<epoch, rowEpoch, tag, late, cEpoch>>
    BY DEF Probe, Verify, Lock, ReadRow, Record, guardVars, pgVars, cacheVars, leaseVars, TypeOK
  <1>3. RowInv'
    BY <1>2 DEF RowInv
  <1>4. PhaseInv'
    <2>1. \A j \in Instances \ {i} : rc[j] \in Locked => lock' = lock
      BY PoolAssumption DEF Probe, Verify, Lock, ReadRow, pgVars, PhaseInv
    <2>2. /\ rc'[i] = "check" => rowEpoch # 0
          /\ rc'[i] = "verify" \/ mode'[i] = "cached" => cEpoch[i] # 0
      <3>1. CASE Probe(i)
        BY <3>1 DEF Probe, Phase, Record, cacheVars, TypeOK, PhaseInv
      <3>2. CASE Verify(i)
        BY <3>2 DEF Verify, Phase, Record, cacheVars, TypeOK, PhaseInv
      <3>3. CASE Lock(i) \/ ReadRow(i)
        BY <3>3 DEF Lock, ReadRow, Phase, cacheVars, TypeOK, PhaseInv
      <3> QED
        BY <3>1, <3>2, <3>3
    <2>3. \A j \in Instances \ {i} : rc'[j] = rc[j] /\ mode'[j] = mode[j]
      BY DEF Probe, Verify, Lock, ReadRow, Phase, Record, cacheVars, TypeOK
    <2>4. rc'[i] = p
      BY <1>1 DEF TypeOK
    <2> QED
      BY <1>1, <1>2, <2>1, <2>2, <2>3, <2>4 DEF PhaseInv
  <1>5. PendingInv'
    BY <1>1, <1>2 DEF PendingInv, Unused, TypeOK
  <1>6. FirstInv'
    BY <1>1, <1>2 DEF FirstInv, TypeOK
  <1> QED
    BY <1>3, <1>4, <1>5, <1>6

\* An epoch is recorded that will not be installed any more.
LEMMA GuardRecord ==
  ASSUME GuardInv, NEW i \in Instances, CheckGuard(i) \/ Confirm(i)
  PROVE  RowInv' /\ PhaseInv' /\ PendingInv' /\ FirstInv'
  <1> USE DEF GuardInv
  <1>1. /\ UNCHANGED <<epoch, rowEpoch, tag, late>> /\ lock = i /\ rowEpoch # 0
        /\ rc[i] \in {"check", "confirm"}
    BY DEF CheckGuard, Confirm, guardVars, leaseVars, PhaseInv, Locked
  <1>2. \A j \in Instances \ {i} : /\ rc[j] \notin Locked /\ rc'[j] = rc[j]
                                   /\ mode'[j] = mode[j] /\ cEpoch'[j] = cEpoch[j]
    BY <1>1 DEF CheckGuard, Confirm, Done, Phase, Record, Require, cacheVars, PhaseInv, TypeOK
  <1>3. /\ rc'[i] \in {"no", "write"} /\ (rc'[i] = "write" => lock' = i)
        /\ cEpoch'[i] = cEpoch[i] \/ (cEpoch'[i] = rowEpoch /\ \A c \in late : c[1] # rowEpoch)
        /\ mode'[i] = "cached" => (cEpoch'[i] = rowEpoch \/ (mode[i] = "cached" /\ cEpoch'[i] = cEpoch[i]))
    <2>1. CASE CheckGuard(i)
      <3>1. CASE epoch = rowEpoch
        BY <2>1, <3>1 DEF CheckGuard, Done, Phase, Record, TypeOK, PendingInv, Unused
      <3>2. CASE epoch # rowEpoch
        BY <1>1, <2>1, <3>2 DEF CheckGuard, Phase, cacheVars, TypeOK
      <3> QED
        BY <3>1, <3>2
    <2>2. CASE Confirm(i)
      BY <2>2 DEF Confirm, Done, Phase, Record, Require, TypeOK, PendingInv
    <2> QED
      BY <2>1, <2>2
  <1>4. RowInv'
    BY <1>1, <1>2, <1>3 DEF RowInv, TypeOK
  <1>5. PhaseInv'
    BY <1>1, <1>2, <1>3 DEF PhaseInv, Locked
  <1>6. PendingInv'
    <2>1. \A c \in late' : Unused(c[1])'
      BY <1>1, <1>2, <1>3 DEF PendingInv, Unused
    <2>2. \A j \in Instances : rc'[j] \notin {"install", "installFirst", "confirm"}
      BY <1>2, <1>3 DEF Locked
    <2> QED
      BY <1>1, <2>1, <2>2 DEF PendingInv
  <1>7. FirstInv'
    <2>1. \A j \in Instances : rc'[j] # "installFirst"
      BY <1>2, <1>3 DEF Locked
    <2>2. ASSUME <<rowEpoch, FALSE>> \in late PROVE cEpoch'[i] = cEpoch[i]
      BY <1>3, <2>2
    <2> QED
      BY <1>1, <1>2, <2>1, <2>2 DEF FirstInv
  <1> QED
    BY <1>4, <1>5, <1>6, <1>7

\* A new epoch is written to the row.
LEMMA GuardWrite ==
  ASSUME GuardInv, NEW i \in Instances, WriteRow(i)
  PROVE  RowInv' /\ PhaseInv' /\ PendingInv' /\ FirstInv'
  <1> USE DEF GuardInv
  <1>1. /\ UNCHANGED <<epoch, tag, late, cEpoch, mode, lock>> /\ lock = i
        /\ rowEpoch' = fresh /\ rowEpoch < fresh /\ fresh \in Nat /\ rowEpoch \in Nat
        /\ rc' = [rc EXCEPT ![i] = IF rowEpoch = 0 THEN "installFirst" ELSE "install"]
    BY DEF WriteRow, Phase, guardVars, cacheVars, leaseVars, PhaseInv, Locked, TypeOK
  <1>2. \A j \in Instances \ {i} : rc[j] \notin Locked /\ rc'[j] = rc[j]
    BY <1>1 DEF PhaseInv, TypeOK
  <1>3. rc'[i] = IF rowEpoch = 0 THEN "installFirst" ELSE "install"
    BY <1>1 DEF TypeOK
  <1>4. RowInv'
    BY <1>1 DEF RowInv, TypeOK
  <1>5. PhaseInv'
    BY <1>1, <1>2, <1>3 DEF PhaseInv, Locked
  <1>6. PendingInv'
    <2>1. Unused(rowEpoch)'
      BY <1>1 DEF Unused, RowInv, TypeOK
    <2>2. \A c \in late : c[1] # rowEpoch'
      BY <1>1 DEF RowInv
    <2> QED
      BY <1>1, <2>1, <2>2 DEF PendingInv, Unused
  <1>7. FirstInv'
    <2>1. <<rowEpoch', FALSE>> \notin late
      BY <1>1 DEF RowInv
    <2>2. rowEpoch = 0 => (\A j \in Instances : cEpoch[j] = 0) /\ (\A l \in Leases : tag[l] = 0)
      BY DEF RowInv, TypeOK
    <2>3. (\E j \in Instances : rc'[j] = "installFirst") => rowEpoch = 0
      BY <1>2, <1>3 DEF Locked
    <2> QED
      BY <1>1, <2>1, <2>2, <2>3 DEF FirstInv
  <1> QED
    BY <1>4, <1>5, <1>6, <1>7

\* The new epoch is installed.
LEMMA GuardInstall ==
  ASSUME GuardInv, NEW i \in Instances, Install(i)
  PROVE  RowInv' /\ PhaseInv' /\ PendingInv' /\ FirstInv'
  <1> USE DEF GuardInv
  <1>1. /\ UNCHANGED <<rowEpoch, tag, late, cEpoch, mode, lock>> /\ lock = i /\ rowEpoch # 0
        /\ epoch' = rowEpoch /\ rc' = [rc EXCEPT ![i] = "confirm"]
        /\ rc[i] \in {"install", "installFirst"} /\ \A c \in late : c[1] # rowEpoch
    BY DEF Install, InstallScript, Phase, pgVars, cacheVars, leaseVars, PhaseInv, PendingInv, Locked
  <1>2. \A j \in Instances : j # i => rc[j] \notin Locked /\ rc'[j] = rc[j]
    BY <1>1 DEF PhaseInv, TypeOK
  <1>3. rc'[i] = "confirm"
    BY <1>1 DEF TypeOK
  <1>4. RowInv'
    BY <1>1 DEF RowInv, TypeOK
  <1>5. PhaseInv'
    BY <1>1, <1>2, <1>3 DEF PhaseInv, Locked
  <1>6. PendingInv'
    <2>1. \A j \in Instances : rc'[j] \notin {"install", "installFirst"}
      BY <1>2, <1>3 DEF Locked
    <2> QED
      BY <1>1, <2>1 DEF PendingInv, Unused
  <1>7. FirstInv'
    BY <1>1, <1>2, <1>3 DEF FirstInv, Locked
  <1> QED
    BY <1>4, <1>5, <1>6, <1>7

\* A lease is asked for under the cached epoch.
LEMMA GuardAsk ==
  ASSUME GuardInv, NEW l \in Leases, Ask(l)
  PROVE  RowInv' /\ PhaseInv' /\ PendingInv' /\ FirstInv'
  <1> USE DEF GuardInv
  <1>1. /\ UNCHANGED <<epoch, rowEpoch, late, cEpoch, mode, lock, rc>>
        /\ OwnerOf[l] \in Instances /\ tag' = [tag EXCEPT ![l] = cEpoch[OwnerOf[l]]]
    BY PoolAssumption DEF Ask, guardVars, pgVars, cacheVars, rcVars
  <1>2. \A m \in Leases : tag'[m] = tag[m] \/ tag'[m] = cEpoch[OwnerOf[l]]
    BY <1>1 DEF TypeOK
  <1>3. RowInv'
    BY <1>1, <1>2 DEF RowInv, TypeOK
  <1>4. PhaseInv'
    BY <1>1 DEF PhaseInv
  <1>5. PendingInv'
    BY <1>1, <1>2 DEF PendingInv, Unused
  <1>6. FirstInv'
    BY <1>1, <1>2 DEF FirstInv
  <1> QED
    BY <1>3, <1>4, <1>5, <1>6

\* Every step preserves what is known about epochs.
LEMMA GuardStep == GuardInv /\ [Next]_vars => GuardInv'
  <1> SUFFICES ASSUME GuardInv, [Next]_vars PROVE GuardInv'
    OBVIOUS
  <1>1. TypeOK /\ TypeOK'
    BY TypeStep DEF GuardInv
  <1> SUFFICES RowInv' /\ PhaseInv' /\ PendingInv' /\ FirstInv'
    BY <1>1 DEF GuardInv
  <1>2. CASE Restart \/ \E c \in late : LateInstall(c)
    BY <1>2, GuardRedis
  <1>3. CASE RecoveryEnds \/ ConnectionCloses \/ UNCHANGED vars
    <2>1. UNCHANGED Coordination /\ UNCHANGED <<mode, tag>>
      BY <1>3 DEF RecoveryEnds, ConnectionCloses, Coordination, vars, guardVars, pgVars,
                  cacheVars, rcVars, leaseVars, pastVars
    <2> QED
      BY <2>1, GuardFrame
  <1>4. ASSUME NEW i \in Instances, Distrust(i) \/ OrphanLocks(i)
        PROVE  RowInv' /\ PhaseInv' /\ PendingInv' /\ FirstInv'
    <2>1. UNCHANGED Coordination /\ UNCHANGED tag
      BY <1>4 DEF Distrust, OrphanLocks, Coordination, guardVars, pgVars, cacheVars, rcVars,
                  leaseVars
    <2>2. \A j \in Instances : mode'[j] = "cached" => mode[j] = "cached"
      BY <1>1, <1>4 DEF Distrust, OrphanLocks, Require, cacheVars, TypeOK
    <2> QED
      BY <2>1, <2>2, GuardFrame
  <1>5. ASSUME NEW i \in Instances, Reconcile(i)
        PROVE  RowInv' /\ PhaseInv' /\ PendingInv' /\ FirstInv'
    BY <1>5, GuardPhase, GuardRecord, GuardWrite, GuardInstall DEF Reconcile
  <1>6. ASSUME NEW i \in Instances, Fail(i) \/ Cancel(i) \/ Crash(i)
        PROVE  RowInv' /\ PhaseInv' /\ PendingInv' /\ FirstInv'
    BY <1>6, GuardAbandon
  <1>7. ASSUME NEW l \in Leases, LeaseStep(l)
        PROVE  RowInv' /\ PhaseInv' /\ PendingInv' /\ FirstInv'
    <2>1. CASE Ask(l)
      BY <2>1, GuardAsk
    <2>2. CASE ~Ask(l)
      <3>1. UNCHANGED Coordination
        BY <1>7, <2>2 DEF LeaseStep, Acquire, Acquired, Refused, Unknown, Drop, Release, Touch,
              LossDeadline, Age, TombstoneExpires, Coordination, guardVars, pgVars, cacheVars,
              rcVars, leaseVars
      <3>4. \A m \in Leases : tag'[m] \in {0, tag[m]}
        BY <1>7, <2>2 DEF LeaseStep, Acquire, Acquired, Refused, Unknown, Drop, Release, Touch,
              LossDeadline, Age, TombstoneExpires, Forget, leaseVars
      <3>2. mode' = mode \/ mode' = [mode EXCEPT ![OwnerOf[l]] = "required"]
        BY <1>7, <2>2 DEF LeaseStep, Acquire, Acquired, Refused, Unknown, Drop, Release, Touch,
              LossDeadline, Age, TombstoneExpires, Require, cacheVars
      <3>3. \A j \in Instances : mode'[j] = "cached" => mode[j] = "cached"
        BY <1>1, <3>2 DEF TypeOK
      <3> QED
        BY <3>1, <3>3, <3>4, GuardFrame
    <2> QED
      BY <2>1, <2>2
  <1> QED
    BY <1>2, <1>3, <1>4, <1>5, <1>6, <1>7 DEF Next

\* What is known about epochs is so at all times.
LEMMA GuardInvariance == Spec => []GuardInv
  <1>1. Init => GuardInv
    <2> SUFFICES ASSUME Init PROVE GuardInv
      OBVIOUS
    <2>1. TypeOK
      BY TypeInit
    <2>2. RowInv /\ PhaseInv /\ PendingInv /\ FirstInv
      BY DEF Init, RowInv, PhaseInv, PendingInv, FirstInv, Locked
    <2> QED
      BY <2>1, <2>2 DEF GuardInv
  <1> QED
    BY <1>1, GuardStep, PTL DEF Spec

-----------------------------------------------------------------------------
(* Run ids.  Nothing is of a Redis still to come, and the row is of the    *)
(* Redis that the holder of the lock has read.                             *)

RunInv ==
    /\ rowRun <= run
    /\ \A i \in Instances :
        /\ cRun[i] <= run /\ seen[i] <= run
        /\ rc[i] \in {"check", "install", "installFirst", "confirm"} => rowRun = seen[i]
    /\ \A l \in Leases : on[l] <= run

\* Steps of the environment and of the leases.
LEMMA RunFrame ==
  ASSUME GuardInv, TypeOK', RunInv, UNCHANGED <<rowRun, cRun, rc, seen>>,
         run' \in {run, run + 1}, \A l \in Leases : on'[l] <= run
  PROVE  RunInv'
  <1> USE DEF GuardInv, TypeOK
  <1>1. run \in Nat /\ run <= run' /\ run' \in Nat
    OBVIOUS
  <1>2. rowRun' <= run'
    BY <1>1 DEF RunInv
  <1>3. \A i \in Instances : cRun[i] <= run' /\ seen[i] <= run'
    BY <1>1 DEF RunInv
  <1>4. \A i \in Instances :
            rc[i] \in {"check", "install", "installFirst", "confirm"} => rowRun = seen[i]
    BY DEF RunInv
  <1>5. \A l \in Leases : on'[l] <= run'
    BY <1>1
  <1> QED
    BY <1>1, <1>2, <1>3, <1>4, <1>5 DEF RunInv

\* A step of a process: what it has read, recorded or written is of run.
LEMMA RunProcess ==
  ASSUME GuardInv, RunInv, NEW i \in Instances,
         Distrust(i) \/ Reconcile(i) \/ Fail(i) \/ Cancel(i) \/ OrphanLocks(i) \/ Crash(i)
  PROVE  RunInv'
  <1> USE DEF GuardInv, TypeOK
  <1>1. run' = run /\ \A l \in Leases : on'[l] \in {0, on[l]}
    BY DEF Distrust, Reconcile, Probe, Verify, Lock, ReadRow, CheckGuard, WriteRow, Install, Confirm,
       Fail, Cancel, OrphanLocks, Crash, Forget, guardVars, leaseVars, pastVars
  <1>2. \A j \in Instances : j # i => cRun'[j] = cRun[j] /\ seen'[j] = seen[j] /\ rc'[j] = rc[j]
    <2>1. CASE Distrust(i) \/ OrphanLocks(i) \/ Fail(i) \/ Cancel(i) \/ Crash(i)
      BY <2>1 DEF Distrust, OrphanLocks, Fail, Cancel, Crash, Done, Phase, cacheVars, rcVars
    <2>2. CASE Reconcile(i)
      BY <2>2 DEF Reconcile, Probe, Verify, Lock, ReadRow, CheckGuard, WriteRow, Install, Confirm,
         Record, Done, Phase, cacheVars
    <2> QED
      BY <2>1, <2>2
  <1>3. /\ cRun'[i] <= run /\ seen'[i] <= run
        /\ rc'[i] \in {"check", "install", "installFirst", "confirm"} => rowRun' = seen'[i]
    <2> USE DEF RunInv, Phase, Done, Record
    <2>1. CASE Distrust(i) \/ OrphanLocks(i)
      BY <2>1 DEF Distrust, OrphanLocks, cacheVars, rcVars, pgVars
    <2>2. CASE Fail(i) \/ Cancel(i) \/ Crash(i)
      BY <2>2 DEF Fail, Cancel, Crash, cacheVars
    <2>3. CASE Probe(i) \/ Lock(i)
      BY <2>3 DEF Probe, Lock, cacheVars, pgVars
    <2>4. CASE Verify(i)
      BY <2>4 DEF Verify, cacheVars, pgVars
    <2>5. CASE ReadRow(i)
      BY <2>5 DEF ReadRow, cacheVars, pgVars
    <2>6. CASE CheckGuard(i)
      BY <2>6 DEF CheckGuard, cacheVars
    <2>7. CASE WriteRow(i) \/ Install(i)
      BY <2>7 DEF WriteRow, Install, cacheVars, pgVars
    <2>8. CASE Confirm(i)
      BY <2>8 DEF Confirm
    <2> QED
      BY <2>1, <2>2, <2>3, <2>4, <2>5, <2>6, <2>7, <2>8 DEF Reconcile
  <1>4. /\ rowRun' <= run
        /\ rowRun' # rowRun => \A j \in Instances : j # i => rc[j] \notin Locked
    <2>1. CASE WriteRow(i)
      BY <2>1 DEF WriteRow, RunInv, PhaseInv, Locked
    <2>2. CASE ~WriteRow(i)
      <3>1. rowRun' = rowRun
        BY <2>2 DEF Distrust, Reconcile, Probe, Verify, Lock, ReadRow, CheckGuard, Install, Confirm,
           Fail, Cancel, OrphanLocks, Crash, pgVars
      <3> QED
        BY <3>1 DEF RunInv
    <2> QED
      BY <2>1, <2>2
  <1>5. \A l \in Leases : on'[l] <= run
    BY <1>1 DEF RunInv
  <1>6. \A j \in Instances :
            /\ cRun'[j] <= run /\ seen'[j] <= run
            /\ rc'[j] \in {"check", "install", "installFirst", "confirm"} => rowRun' = seen'[j]
    BY <1>2, <1>3, <1>4 DEF RunInv, Locked
  <1> QED
    BY <1>1, <1>4, <1>5, <1>6 DEF RunInv

\* Every step keeps what is known about run ids.
LEMMA RunStep == GuardInv /\ RunInv /\ [Next]_vars => RunInv'
  <1> SUFFICES ASSUME GuardInv, RunInv, [Next]_vars PROVE RunInv'
    OBVIOUS
  <1>3. TypeOK'
    BY TypeStep DEF GuardInv
  <1>1. CASE Restart \/ RecoveryEnds \/ ConnectionCloses \/ UNCHANGED vars \/ \E c \in late : LateInstall(c)
    <2>1. UNCHANGED <<rowRun, cRun, rc, seen, on>> /\ run' \in {run, run + 1}
      BY <1>1 DEF Restart, RecoveryEnds, ConnectionCloses, LateInstall, vars, guardVars, pgVars,
         cacheVars, rcVars, leaseVars, pastVars
    <2> QED
      BY <1>3, <2>1, RunFrame DEF RunInv
  <1>2. ASSUME NEW l \in Leases, LeaseStep(l) PROVE RunInv'
    <2>1. UNCHANGED <<rowRun, cRun, rc, seen, run>>
      BY <1>2 DEF LeaseStep, Ask, Acquire, Acquired, Refused, Unknown, Drop, Release, Touch,
         LossDeadline, Age, TombstoneExpires, guardVars, pgVars, cacheVars, rcVars
    <2>2. \A m \in Leases : on'[m] \in {0, on[m], cRun[OwnerOf[l]]}
      <3>1. CASE Ask(l)
        BY <3>1 DEF Ask, GuardInv, TypeOK
      <3>2. CASE ~Ask(l)
        BY <1>2, <3>2 DEF LeaseStep, Acquire, Acquired, Refused, Unknown, Drop, Release, Touch,
           LossDeadline, Age, TombstoneExpires, Forget, leaseVars, pastVars
      <3> QED
        BY <3>1, <3>2
    <2>3. \A m \in Leases : on'[m] <= run
      BY <2>2, PoolAssumption DEF RunInv, GuardInv, TypeOK
    <2> QED
      BY <1>3, <2>1, <2>3, RunFrame
  <1> QED
    BY <1>1, <1>2, RunProcess DEF Next

\* What is known about run ids is so at all times.
LEMMA RunInvariance == Spec => [](GuardInv /\ RunInv)
  <1>1. Init => RunInv
    BY DEF Init, RunInv
  <1> QED
    BY <1>1, GuardInvariance, RunStep, PTL DEF Spec

-----------------------------------------------------------------------------
(* Promises.                                                               *)

\* What the state of a lease says of its call, its intent and its score.
LeaseInv ==
    \A l \in Leases :
        /\ st[l] = "idle" => cmd[l] = "none" /\ intent[l] = "none"
        /\ st[l] \in {"asking", "active"} => tag[l] # 0
        /\ cmd[l] \in {"granted", "refused", "mismatch"} => st[l] = "asking"
        /\ intent[l] # "none" => st[l] = "ended"
        /\ l \in stale => st[l] \in {"lost", "ended"}

\* A step of a lease keeps what its state says.
LEMMA LeaseLease ==
  ASSUME GuardInv, LeaseInv, NEW l \in Leases, LeaseStep(l) PROVE LeaseInv'
  <1> SUFFICES ASSUME NEW m \in Leases
               PROVE  /\ st'[m] = "idle" => cmd'[m] = "none" /\ intent'[m] = "none"
                      /\ st'[m] \in {"asking", "active"} => tag'[m] # 0
                      /\ cmd'[m] \in {"granted", "refused", "mismatch"} => st'[m] = "asking"
                      /\ intent'[m] # "none" => st'[m] = "ended"
                      /\ m \in stale' => st'[m] \in {"lost", "ended"}
    BY DEF LeaseInv
  <1> USE PoolAssumption DEF GuardInv, TypeOK, LeaseInv, Set, Forget
  <1>1. CASE Ask(l)
    BY <1>1 DEF Ask, PhaseInv, regVars
  <1>2. CASE Acquire(l)
    BY <1>2 DEF Acquire, AcquireScript
  <1>3. CASE Acquired(l)
    BY <1>3 DEF Acquired, regVars
  <1>4. CASE Refused(l)
    BY <1>4 DEF Refused, regVars
  <1>5. CASE Unknown(l)
    BY <1>5 DEF Unknown, regVars
  <1>6. CASE Drop(l)
    BY <1>6 DEF Drop, Running, regVars
  <1>7. CASE Release(l)
    BY <1>7 DEF Release
  <1>8. CASE Touch(l)
    BY <1>8 DEF Touch, regVars
  <1>9. CASE LossDeadline(l)
    BY <1>9 DEF LossDeadline, regVars
  <1>10. CASE Age(l)
    BY <1>10 DEF Age, leaseVars
  <1>11. CASE TombstoneExpires(l)
    BY <1>11 DEF TombstoneExpires, leaseVars
  <1> QED
    BY <1>1, <1>2, <1>3, <1>4, <1>5, <1>6, <1>7, <1>8, <1>9, <1>10, <1>11 DEF LeaseStep

Lease == <<st, tag, cmd, intent, on, blind>>

\* Steps of no lease, except a crash, leave the leases as they are; only the
\* end of a barrier may miss some.
LEMMA LeasesStay ==
  ASSUME [Next]_vars, \A l \in Leases : ~LeaseStep(l), \A i \in Instances : ~Crash(i)
  PROVE  UNCHANGED Lease /\ (RecoveryEnds \/ UNCHANGED missed) /\ (Restart \/ UNCHANGED regVars)
  <1>0. UNCHANGED leaseVars => UNCHANGED <<Lease, missed>>
    BY DEF leaseVars, pastVars, Lease
  <1>1. CASE UNCHANGED vars
    BY <1>0, <1>1 DEF vars
  <1>2. CASE RecoveryEnds
    BY <1>2 DEF RecoveryEnds, Lease
  <1>3. CASE Restart \/ ConnectionCloses \/ \E c \in late : LateInstall(c)
    BY <1>0, <1>3 DEF Restart, ConnectionCloses, LateInstall
  <1>4. ASSUME NEW i \in Instances, Distrust(i) \/ Fail(i) \/ Cancel(i) \/ OrphanLocks(i)
        PROVE  UNCHANGED leaseVars /\ UNCHANGED regVars
    BY <1>4 DEF Distrust, Fail, Cancel, OrphanLocks
  <1>5. ASSUME NEW i \in Instances, Reconcile(i)
        PROVE  UNCHANGED leaseVars /\ UNCHANGED regVars
    BY <1>5 DEF Reconcile, Probe, Verify, Lock, ReadRow, CheckGuard, WriteRow, Install, Confirm
  <1> QED
    BY <1>0, <1>1, <1>2, <1>3, <1>4, <1>5 DEF Next

\* Every step keeps what the state of a lease says.
LEMMA LeaseInvStep == GuardInv /\ LeaseInv /\ [Next]_vars => LeaseInv'
  <1> SUFFICES ASSUME GuardInv, LeaseInv, [Next]_vars PROVE LeaseInv'
    OBVIOUS
  <1>1. CASE \E l \in Leases : LeaseStep(l)
    BY <1>1, LeaseLease
  <1>2. ASSUME NEW i \in Instances, Crash(i) PROVE LeaseInv'
    BY <1>2 DEF Crash, Forget, LeaseInv, GuardInv, TypeOK, regVars
  <1>3. CASE UNCHANGED Lease /\ (Restart \/ UNCHANGED regVars)
    <2>1. stale' \subseteq stale
      BY <1>3 DEF Restart, regVars
    <2> QED
      BY <1>3, <2>1 DEF LeaseInv, Lease
  <1> QED
    BY <1>1, <1>2, <1>3, LeasesStay

\* Only the acquire script makes a promise, and then under the epoch in Redis;
\* what was blind or missed stays so as long as it is promised.
LEMMA PromisedStep ==
  ASSUME GuardInv, LeaseInv, [Next]_vars, NEW l \in Promised'
  PROVE  /\ l \in Leases /\ tag'[l] = tag[l] /\ on'[l] = on[l]
         /\ l \in blind => l \in blind'
         /\ l \in missed => l \in missed'
         /\ \/ l \in Promised
            \/ /\ Acquire(l) /\ st[l] = "asking" /\ tag[l] = epoch /\ ~recovering /\ Grant(l)
               /\ on[l] # run => l \in blind'
  <1>1. l \in Leases
    BY DEF Promised, Held
  <1>2. CASE LeaseStep(l)
    <2> USE <1>1 DEF Promised, Held, GuardInv, TypeOK, LeaseInv, Set
    <2>1. CASE Ask(l)
      BY <2>1 DEF Ask
    <2>2. CASE Acquire(l)
      BY <2>2 DEF Acquire, AcquireScript
    <2>3. CASE Refused(l) \/ Unknown(l) \/ Drop(l)
      BY <2>3 DEF Refused, Unknown, Drop
    <2>4. CASE Acquired(l) \/ Release(l) \/ Touch(l) \/ LossDeadline(l) \/ Age(l) \/ TombstoneExpires(l)
      BY <2>4 DEF Acquired, Release, Touch, LossDeadline, Age, TombstoneExpires, leaseVars, pastVars
    <2> QED
      BY <1>2, <2>1, <2>2, <2>3, <2>4 DEF LeaseStep
  <1>3. ASSUME NEW m \in Leases, m # l, LeaseStep(m)
        PROVE  /\ st'[l] = st[l] /\ tag'[l] = tag[l] /\ cmd'[l] = cmd[l] /\ on'[l] = on[l]
               /\ l \in blind => l \in blind'
               /\ l \in missed => l \in missed'
    <2> USE <1>1, <1>3 DEF GuardInv, TypeOK, Set
    <2>1. CASE Ask(m) \/ Acquire(m)
      BY <2>1 DEF Ask, Acquire, AcquireScript
    <2>2. CASE Refused(m) \/ Unknown(m) \/ Drop(m)
      BY <2>2 DEF Refused, Unknown, Drop, Forget
    <2>3. CASE Acquired(m) \/ Release(m) \/ Touch(m) \/ LossDeadline(m) \/ Age(m) \/ TombstoneExpires(m)
      BY <2>3 DEF Acquired, Release, Touch, LossDeadline, Age, TombstoneExpires, leaseVars, pastVars
    <2> QED
      BY <1>3, <2>1, <2>2, <2>3 DEF LeaseStep
  <1>4. ASSUME NEW i \in Instances, Crash(i)
        PROVE  /\ l \in Promised /\ tag'[l] = tag[l] /\ on'[l] = on[l]
               /\ l \in blind => l \in blind'
               /\ l \in missed => l \in missed'
    <2>1. /\ ~(OwnerOf[l] = i /\ st[l] # "idle")
          /\ st'[l] = st[l] /\ cmd'[l] = cmd[l]
      BY <1>1, <1>4 DEF Crash, Promised, Held
    <2> QED
      BY <1>1, <1>4, <2>1 DEF Crash, Forget, Promised, Held
  <1>5. CASE \E m \in Leases : m # l /\ LeaseStep(m)
    BY <1>1, <1>3, <1>5 DEF Promised, Held
  <1>6. CASE UNCHANGED Lease /\ (RecoveryEnds \/ UNCHANGED missed)
    BY <1>1, <1>6 DEF Promised, Held, Lease, RecoveryEnds
  <1> QED
    BY <1>1, <1>2, <1>4, <1>5, <1>6, LeasesStay

\* What is promised has an epoch, is not released and not too old.
LEMMA PromisedIsFresh ==
  ASSUME LeaseInv, NEW l \in Promised
  PROVE  l \in Leases /\ tag[l] # 0 /\ intent[l] = "none" /\ l \notin stale
  BY DEF LeaseInv, Promised, Held

-----------------------------------------------------------------------------
(* Counts and barriers.                                                    *)

\* Somebody may use the epoch in Redis, and believes it is of this Redis.
Live ==
    /\ epoch # 0
    /\ \/ rowRun = run /\ rowEpoch = epoch
       \/ \E i \in Instances : cRun[i] = run /\ cEpoch[i] = epoch
       \/ \E l \in Leases : on[l] = run /\ tag[l] = epoch

\* Then Redis counts what it has promised under it,
CountedInv == Live => \A l \in Promised : tag[l] = epoch => l \in reg \cap greg

\* and without a barrier it is the epoch of all promises no barrier has outrun.
BarrierInv == Live /\ ~recovering => \A l \in Promised \ missed : tag[l] = epoch

PoolInv == GuardInv /\ RunInv /\ LeaseInv /\ CountedInv /\ BarrierInv

Installs == (\E c \in late : LateInstall(c)) \/ (\E i \in Instances : Install(i))

\* Redis restarts, an epoch is installed, or its run id and epoch stay; then
\* the barrier stays too, or ends.
LEMMA RedisStep ==
  ASSUME [Next]_vars
  PROVE  \/ Restart \/ Installs
         \/ UNCHANGED <<run, epoch>> /\ (RecoveryEnds \/ UNCHANGED recovering)
  <1>1. ASSUME NEW i \in Instances, Reconcile(i)
        PROVE  Install(i) \/ UNCHANGED <<run, epoch, recovering>>
    BY <1>1 DEF Reconcile, Probe, Verify, Lock, ReadRow, CheckGuard, WriteRow, Confirm, guardVars
  <1>2. ASSUME NEW i \in Instances, Distrust(i) \/ Fail(i) \/ Cancel(i) \/ OrphanLocks(i) \/ Crash(i)
        PROVE  UNCHANGED <<run, epoch, recovering>>
    BY <1>2 DEF Distrust, Fail, Cancel, OrphanLocks, Crash, guardVars
  <1>3. ASSUME NEW l \in Leases, LeaseStep(l) PROVE UNCHANGED <<run, epoch, recovering>>
    BY <1>3 DEF LeaseStep, Ask, Acquire, Acquired, Refused, Unknown, Drop, Release, Touch,
          LossDeadline, Age, TombstoneExpires, guardVars
  <1>4. CASE RecoveryEnds
    BY <1>4 DEF RecoveryEnds
  <1>5. CASE ConnectionCloses \/ UNCHANGED vars
    BY <1>5 DEF ConnectionCloses, vars, guardVars
  <1> QED
    BY <1>1, <1>2, <1>3, <1>4, <1>5 DEF Next, Installs

\* After a restart no epoch is live, whatever Redis has kept.
LEMMA RestartKills == ASSUME GuardInv, RunInv, Restart PROVE ~Live'
  <1>1. run' = run + 1 /\ UNCHANGED <<rowRun, cRun, on>>
    BY DEF Restart, pgVars, cacheVars, leaseVars, pastVars
  <1>2. /\ rowRun # run + 1
        /\ \A i \in Instances : cRun[i] # run + 1
        /\ \A l \in Leases : on[l] # run + 1
    BY DEF RunInv, GuardInv, TypeOK
  <1> QED
    BY <1>1, <1>2 DEF Live

\* Only an installed epoch becomes live.
LEMMA LiveStep ==
  ASSUME GuardInv, RunInv, [Next]_vars, UNCHANGED <<run, epoch>>, Live', ~Installs PROVE Live
  <1> USE DEF GuardInv, TypeOK, Live
  <1>1. ASSUME UNCHANGED <<rowRun, rowEpoch, cRun, cEpoch, on, tag>> PROVE Live
    BY <1>1
  <1>2. CASE Restart \/ RecoveryEnds \/ ConnectionCloses \/ UNCHANGED vars
    BY <1>1, <1>2 DEF Restart, RecoveryEnds, ConnectionCloses, vars, pgVars, cacheVars,
          leaseVars, pastVars
  <1>3. ASSUME NEW i \in Instances, CheckGuard(i) \/ Confirm(i) PROVE Live
    <2>1. rowRun = seen[i] /\ UNCHANGED <<rowRun, rowEpoch, on, tag>>
      BY <1>3 DEF CheckGuard, Confirm, RunInv, leaseVars, pastVars
    <2>2. \A j \in Instances : \/ cEpoch'[j] = cEpoch[j] /\ cRun'[j] = cRun[j]
                               \/ cEpoch'[j] = rowEpoch /\ cRun'[j] = seen[i]
      BY <1>3 DEF CheckGuard, Confirm, Record, cacheVars
    <2> QED
      BY <2>1, <2>2
  <1>4. ASSUME NEW i \in Instances, WriteRow(i) PROVE Live
    <2>1. rowEpoch' # epoch /\ UNCHANGED <<cRun, cEpoch, on, tag>>
      BY <1>4 DEF WriteRow, RowInv, cacheVars, leaseVars, pastVars
    <2> QED
      BY <2>1
  <1>5. ASSUME NEW i \in Instances, Probe(i) \/ Lock(i) \/ ReadRow(i) PROVE Live
    BY <1>1, <1>5 DEF Probe, Lock, ReadRow, pgVars, cacheVars, leaseVars, pastVars
  <1>6. ASSUME NEW i \in Instances, Verify(i) PROVE Live
    <2>1. UNCHANGED <<cRun, cEpoch>>
      BY <1>6 DEF Verify, Record, cacheVars
    <2> QED
      BY <1>1, <1>6, <2>1 DEF Verify, pgVars, leaseVars, pastVars
  <1>7. ASSUME NEW i \in Instances, Distrust(i) \/ Fail(i) \/ Cancel(i) \/ OrphanLocks(i)
        PROVE  Live
    BY <1>1, <1>7 DEF Distrust, Fail, Cancel, OrphanLocks, pgVars, cacheVars, leaseVars, pastVars
  <1>8. ASSUME NEW i \in Instances, Crash(i) PROVE Live
    <2>1. /\ \A j \in Instances : cEpoch'[j] = 0 \/ (cEpoch'[j] = cEpoch[j] /\ cRun'[j] = cRun[j])
          /\ \A l \in Leases : tag'[l] = 0 \/ (tag'[l] = tag[l] /\ on'[l] = on[l])
      BY <1>8 DEF Crash, Forget
    <2> QED
      BY <1>8, <2>1 DEF Crash
  <1>9. ASSUME NEW l \in Leases, LeaseStep(l) PROVE Live
    <2>1. UNCHANGED <<rowRun, rowEpoch, cRun, cEpoch>>
      BY <1>9 DEF LeaseStep, Ask, Acquire, Acquired, Refused, Unknown, Drop, Release, Touch,
         LossDeadline, Age, TombstoneExpires, pgVars, cacheVars
    <2>2. \A m \in Leases : \/ tag'[m] = 0
                            \/ tag'[m] = tag[m] /\ on'[m] = on[m]
                            \/ tag'[m] = cEpoch[OwnerOf[l]] /\ on'[m] = cRun[OwnerOf[l]]
      <3>1. CASE Ask(l)
        BY <3>1 DEF Ask
      <3>2. CASE ~Ask(l)
        BY <1>9, <3>2 DEF LeaseStep, Acquire, Acquired, Refused, Unknown, Drop, Release, Touch,
           LossDeadline, Age, TombstoneExpires, Forget, leaseVars, pastVars
      <3> QED
        BY <3>1, <3>2
    <2> QED
      BY <2>1, <2>2, PoolAssumption
  <1> QED
    BY <1>2, <1>3, <1>4, <1>5, <1>6, <1>7, <1>8, <1>9 DEF Next, Reconcile, Installs

\* An install command finds its epoch unused.  It raises a barrier, or there
\* was never a promise, or nobody takes the epoch up.
LEMMA InstallsUnused ==
  ASSUME GuardInv, RunInv, LeaseInv, Installs
  PROVE  /\ UNCHANGED <<Lease, missed>>
         /\ \A l \in Leases : tag[l] # epoch'
         /\ Live' /\ ~recovering' => Promised = {}
  <1>1. UNCHANGED <<Lease, missed, rowRun, rowEpoch, cRun, cEpoch, run>>
    BY DEF Installs, LateInstall, Install, Lease, pgVars, cacheVars, leaseVars, pastVars
  <1>2. (\A l \in Leases : tag[l] = 0) => Promised = {}
    BY PromisedIsFresh
  <1>3. ASSUME NEW c \in late, LateInstall(c), Live', ~recovering' PROVE \A l \in Leases : tag[l] = 0
    <2>1. epoch' = c[1] /\ recovering' = c[2] /\ Unused(c[1])
      BY <1>3 DEF LateInstall, InstallScript, GuardInv, PendingInv
    <2>2. c[1] = rowEpoch
      BY <1>1, <1>3, <2>1 DEF Live, Unused, Lease
    <2>3. c = <<rowEpoch, FALSE>>
      <3>1. c \in Nat \X BOOLEAN
        BY DEF GuardInv, TypeOK
      <3>2. c = <<c[1], c[2]>> /\ c[2] \in BOOLEAN
        BY <3>1
      <3>3. c[2] = FALSE
        BY <1>3, <2>1, <3>2
      <3> QED
        BY <2>2, <3>2, <3>3
    <2> QED
      BY <2>3 DEF GuardInv, FirstInv
  <1>4. ASSUME NEW i \in Instances, Install(i), ~recovering' PROVE \A l \in Leases : tag[l] = 0
    <2>1. rc[i] = "installFirst"
      BY <1>4 DEF Install, InstallScript
    <2> QED
      BY <2>1 DEF GuardInv, FirstInv
  <1>5. \A l \in Leases : tag[l] # epoch'
    BY DEF Installs, LateInstall, Install, InstallScript, GuardInv, PendingInv, Unused
  <1> QED
    BY <1>1, <1>2, <1>3, <1>4, <1>5 DEF Installs

\* No step removes the lease of a promise while its epoch is live.
LEMMA CountedStep ==
  ASSUME GuardInv, RunInv, LeaseInv, CountedInv, [Next]_vars PROVE CountedInv'
  <1> SUFFICES ASSUME NEW l \in Promised', tag'[l] = epoch', Live' PROVE l \in reg' \cap greg'
    BY DEF CountedInv
  <1>1. /\ l \in Leases /\ tag'[l] = tag[l]
        /\ \/ l \in Promised
           \/ Acquire(l) /\ st[l] = "asking" /\ tag[l] = epoch /\ ~recovering /\ Grant(l)
    BY PromisedStep
  <1>2. CASE Acquire(l) /\ tag[l] = epoch /\ ~recovering /\ Grant(l)
    BY <1>2 DEF Acquire, AcquireScript
  <1>3. CASE l \in Promised
    <2>1. l \notin stale /\ intent[l] = "none"
      BY <1>3, PromisedIsFresh
    <2>2. ~Restart /\ ~Installs /\ UNCHANGED <<run, epoch>>
      BY <1>1, RedisStep, RestartKills, InstallsUnused
    <2>3. l \in reg \cap greg
      BY <1>1, <1>3, <2>2, LiveStep DEF CountedInv
    <2>4. ASSUME NEW m \in Leases, LeaseStep(m) PROVE l \in reg' \cap greg'
      <3>1. CASE Acquire(m)
        BY <2>1, <2>3, <3>1 DEF Acquire, AcquireScript, PoolLeft, GlobalLeft
      <3>2. CASE Release(m)
        BY <2>1, <2>3, <3>2 DEF Release
      <3>3. CASE ~Acquire(m) /\ ~Release(m)
        BY <2>3, <2>4, <3>3 DEF LeaseStep, Ask, Acquired, Refused, Unknown, Drop, Touch,
              LossDeadline, Age, TombstoneExpires, regVars
      <3> QED
        BY <3>1, <3>2, <3>3
    <2>5. ASSUME NEW i \in Instances, Crash(i) PROVE l \in reg' \cap greg'
      BY <2>3, <2>5 DEF Crash, regVars
    <2>6. CASE UNCHANGED regVars
      BY <2>3, <2>6 DEF regVars
    <2> QED
      BY <2>2, <2>4, <2>5, <2>6, LeasesStay
  <1> QED
    BY <1>1, <1>2, <1>3

\* A barrier ends after the fenced promises, or misses them.
LEMMA BarrierStep == ASSUME PoolInv, [Next]_vars PROVE BarrierInv'
  <1> USE DEF PoolInv
  <1> SUFFICES ASSUME Live', ~recovering', NEW l \in Promised', l \notin missed'
               PROVE  tag'[l] = epoch'
    BY DEF BarrierInv
  <1>1. /\ tag'[l] = tag[l] /\ l \notin missed
        /\ l \in Promised \/ (Acquire(l) /\ tag[l] = epoch)
    BY PromisedStep
  <1>2. CASE Installs
    <2>1. Promised = {} /\ UNCHANGED Lease
      BY <1>2, InstallsUnused
    <2> QED
      BY <2>1 DEF Promised, Held, Lease
  <1>3. CASE UNCHANGED <<run, epoch, recovering>> /\ ~Installs
    <2>1. Live
      BY <1>3, LiveStep
    <2> QED
      BY <1>1, <1>3, <2>1 DEF BarrierInv
  <1>4. CASE RecoveryEnds
    BY <1>1, <1>4 DEF RecoveryEnds, Fenced, Promised, Held
  <1> QED
    BY <1>2, <1>3, <1>4, RedisStep, RestartKills

\* Epochs, run ids, leases, counts and barriers together.
LEMMA PoolInvariance == Spec => []PoolInv
  <1>1. Init => LeaseInv /\ CountedInv /\ BarrierInv
    BY DEF Init, LeaseInv, CountedInv, BarrierInv, Promised, Held
  <1>2. PoolInv /\ [Next]_vars => BarrierInv'
    BY BarrierStep
  <1> QED
    BY <1>1, <1>2, RunInvariance, LeaseInvStep, CountedStep, PTL DEF Spec, PoolInv

\* A process that has probed this Redis and has its epoch is granted a lease
\* among counted ones only: every held request of any process is of that epoch
\* and in the sets, whatever a restart has lost or kept, unless a barrier has
\* outrun its heartbeats.
THEOREM CountedSafety == Spec => []RunningIsCounted
  <1>1. PoolInv => RunningIsCounted
    <2> SUFFICES ASSUME PoolInv, NEW i \in Instances, MayBeGranted(i), NEW l \in Held \ missed
                 PROVE  tag[l] = epoch /\ l \in (reg \cap greg) \ stale
      BY DEF RunningIsCounted
    <2>1. Live /\ ~recovering
      BY DEF MayBeGranted, Live, PoolInv, GuardInv, PhaseInv
    <2>2. l \in Promised \ missed
      BY DEF Promised
    <2>3. tag[l] = epoch /\ l \in reg \cap greg
      BY <2>1, <2>2 DEF PoolInv, BarrierInv, CountedInv
    <2> QED
      BY <2>2, <2>3, PromisedIsFresh DEF PoolInv
  <1> QED
    BY <1>1, PoolInvariance, PTL

\* If a sound promise is made, all promises that no barrier has outrun are of
\* the epoch in Redis, which counts them.
LEMMA PromiseMade ==
  ASSUME PoolInv, [Next]_vars, NEW l \in Sound(Promised)', l \notin Sound(Promised)
  PROVE  /\ l \in Leases /\ Acquire(l) /\ Grant(l) /\ tag'[l] = epoch
         /\ \A m \in Sound(Promised) : tag[m] = epoch /\ m \in (reg \cap greg) \ stale
  <1> USE DEF PoolInv, Sound
  <1>1. /\ l \in Leases /\ tag'[l] = tag[l] /\ Acquire(l) /\ st[l] = "asking" /\ tag[l] = epoch
        /\ ~recovering /\ Grant(l) /\ on[l] = run
    BY PromisedStep
  <1>2. Live
    BY <1>1 DEF LeaseInv, Live
  <1>3. \A m \in Sound(Promised) : tag[m] = epoch
    BY <1>1, <1>2 DEF BarrierInv
  <1>4. \A m \in Promised : m \notin stale
    BY PromisedIsFresh
  <1> QED
    BY <1>1, <1>2, <1>3, <1>4 DEF CountedInv

\* All sound promises are of one epoch.
OneInv == \A l, m \in Sound(Promised) : tag[l] = tag[m]

\* A promise is made under the epoch of the others.
LEMMA OneStep == ASSUME PoolInv, OneInv, [Next]_vars PROVE OneInv'
  <1> SUFFICES ASSUME NEW l \in Sound(Promised)', NEW m \in Sound(Promised)' PROVE tag'[l] = tag'[m]
    BY DEF OneInv
  <1>1. tag'[l] = tag[l] /\ tag'[m] = tag[m]
    BY PromisedStep DEF PoolInv, Sound
  <1>2. CASE l \in Sound(Promised) /\ m \in Sound(Promised)
    BY <1>1, <1>2 DEF OneInv
  <1>3. CASE l \notin Sound(Promised)
    <2>1. tag'[l] = epoch /\ \A n \in Sound(Promised) : tag[n] = epoch
      BY <1>3, PromiseMade
    <2>2. m \notin Sound(Promised) => tag'[m] = epoch
      BY PromiseMade
    <2> QED
      BY <1>1, <2>1, <2>2
  <1>4. CASE m \notin Sound(Promised)
    <2>1. tag'[m] = epoch /\ \A n \in Sound(Promised) : tag[n] = epoch
      BY <1>4, PromiseMade
    <2>2. l \notin Sound(Promised) => tag'[l] = epoch
      BY PromiseMade
    <2> QED
      BY <1>1, <2>1, <2>2
  <1> QED
    BY <1>2, <1>3, <1>4

\* Requests that are held at the same time are held under one epoch (the
\* recovery barrier and the fencing tags), but for those granted in a probe
\* window and those whose heartbeats have failed for a whole barrier.
THEOREM OneEpochSafety == Spec => []OneEpochRuns
  <1>1. Init => OneInv
    BY DEF Init, OneInv, Sound, Promised, Held
  <1>2. PoolInv /\ OneInv /\ [Next]_vars => OneInv'
    BY OneStep
  <1>3. OneInv => OneEpochRuns
    BY DEF OneInv, OneEpochRuns, Sound, Promised
  <1> QED
    BY <1>1, <1>2, <1>3, PoolInvariance, PTL DEF Spec

-----------------------------------------------------------------------------
(* The limits, and the refinement.                                         *)

LimitInv ==
    /\ \A l \in Leases : Cardinality(InPool(PoolOf[l], Sound(Promised))) <= PoolLimit
    /\ GlobalLimit > 0 => Cardinality(Sound(Promised)) <= GlobalLimit

\* Sets of leases are finite, and a larger one has no fewer elements.
LEMMA LeasesFinite ==
  ASSUME NEW S \in SUBSET Leases, NEW T \in SUBSET S
  PROVE  /\ IsFiniteSet(S) /\ IsFiniteSet(T)
         /\ Cardinality(S) \in Nat /\ Cardinality(T) \in Nat /\ Cardinality(T) <= Cardinality(S)
  <1>1. IsFiniteSet(S)
    BY PoolAssumption, FS_Subset
  <1> QED
    BY <1>1, FS_Subset, FS_CardinalityType

\* A sound promise is made where the script finds room among all of them.
LEMMA LimitStep == ASSUME PoolInv, LimitInv, [Next]_vars PROVE LimitInv'
  <1> USE PoolAssumption
  <1>1. Sound(Promised) \subseteq Leases /\ Sound(Promised)' \subseteq Leases
    BY DEF Sound, Promised, Held
  <1>2. CASE Sound(Promised)' \subseteq Sound(Promised)
    <2>1. ASSUME NEW l \in Leases PROVE Cardinality(InPool(PoolOf[l], Sound(Promised)')) <= PoolLimit
      <3>1. /\ InPool(PoolOf[l], Sound(Promised)) \in SUBSET Leases
            /\ InPool(PoolOf[l], Sound(Promised)') \in SUBSET InPool(PoolOf[l], Sound(Promised))
        BY <1>1, <1>2 DEF InPool
      <3> QED
        BY <3>1, LeasesFinite DEF LimitInv
    <2>2. GlobalLimit > 0 => Cardinality(Sound(Promised)') <= GlobalLimit
      BY <1>1, <1>2, LeasesFinite DEF LimitInv
    <2> QED
      BY <2>1, <2>2 DEF LimitInv, InPool
  <1>3. ASSUME NEW l \in Sound(Promised)', l \notin Sound(Promised) PROVE LimitInv'
    <2>1. /\ l \in Leases /\ Acquire(l) /\ Grant(l)
          /\ Sound(Promised) \subseteq (reg \cap greg) \ stale
      BY <1>3, PromiseMade
    <2>2. Sound(Promised)' \subseteq Sound(Promised) \cup {l}
      <3> SUFFICES ASSUME NEW m \in Sound(Promised)', m \notin Sound(Promised), m # l PROVE FALSE
        OBVIOUS
      <3>1. Acquire(m) /\ m \in Leases /\ cmd \in [Leases -> {"none", "wire", "granted", "refused", "mismatch"}]
        BY PromiseMade DEF PoolInv, GuardInv, TypeOK
      <3>2. cmd[l] = "wire" /\ cmd'[l] # "wire" /\ cmd'[l] = cmd[l]
        BY <2>1, <3>1 DEF Acquire, AcquireScript
      <3> QED
        BY <3>2
    <2>3. ASSUME NEW m \in Leases PROVE Cardinality(InPool(PoolOf[m], Sound(Promised)')) <= PoolLimit
      <3>1. CASE PoolOf[m] # PoolOf[l]
        <4>1. /\ InPool(PoolOf[m], Sound(Promised)) \in SUBSET Leases
              /\ InPool(PoolOf[m], Sound(Promised)') \in SUBSET InPool(PoolOf[m], Sound(Promised))
          BY <1>1, <2>2, <3>1 DEF InPool
        <4> QED
          BY <4>1, LeasesFinite DEF LimitInv
      <3>2. CASE PoolOf[m] = PoolOf[l]
        <4> DEFINE R == InPool(PoolOf[l], PoolLeft(l))
        <4>1. R \in SUBSET Leases /\ Cardinality(R) < PoolLimit
          BY <2>1 DEF Grant, Room, InPool, PoolLeft, PoolInv, GuardInv, TypeOK
        <4>2. InPool(PoolOf[m], Sound(Promised)') \in SUBSET (R \cup {l})
          BY <2>1, <2>2, <3>2 DEF InPool, PoolLeft
        <4>3. IsFiniteSet(R) /\ Cardinality(R) \in Nat
          BY <4>1, LeasesFinite
        <4>4. Cardinality(R \cup {l}) <= Cardinality(R) + 1 /\ R \cup {l} \in SUBSET Leases
          <5>1. Cardinality(R \cup {l}) = IF l \in R THEN Cardinality(R) ELSE Cardinality(R) + 1
            BY <4>3, FS_AddElement
          <5> QED
            BY <2>1, <4>1, <4>3, <5>1
        <4>5. /\ Cardinality(InPool(PoolOf[m], Sound(Promised)')) <= Cardinality(R \cup {l})
              /\ Cardinality(InPool(PoolOf[m], Sound(Promised)')) \in Nat /\ Cardinality(R \cup {l}) \in Nat
          BY <4>2, <4>4, LeasesFinite
        <4> QED
          BY <4>1, <4>3, <4>4, <4>5
      <3> QED
        BY <3>1, <3>2
    <2>4. ASSUME GlobalLimit > 0 PROVE Cardinality(Sound(Promised)') <= GlobalLimit
      <3> DEFINE R == GlobalLeft
      <3>1. R \in SUBSET Leases /\ Cardinality(R) < GlobalLimit
        BY <2>1, <2>4 DEF Grant, Room, GlobalLeft, PoolInv, GuardInv, TypeOK
      <3>2. Sound(Promised)' \in SUBSET (R \cup {l})
        BY <2>1, <2>2 DEF GlobalLeft
      <3>3. IsFiniteSet(R) /\ Cardinality(R) \in Nat
        BY <3>1, LeasesFinite
      <3>4. Cardinality(R \cup {l}) <= Cardinality(R) + 1 /\ R \cup {l} \in SUBSET Leases
        <4>1. Cardinality(R \cup {l}) = IF l \in R THEN Cardinality(R) ELSE Cardinality(R) + 1
          BY <3>3, FS_AddElement
        <4> QED
          BY <2>1, <3>1, <3>3, <4>1
      <3>5. /\ Cardinality(Sound(Promised)') <= Cardinality(R \cup {l})
            /\ Cardinality(Sound(Promised)') \in Nat /\ Cardinality(R \cup {l}) \in Nat
        BY <3>2, <3>4, LeasesFinite
      <3> QED
        BY <3>1, <3>3, <3>4, <3>5
    <2> QED
      BY <2>3, <2>4 DEF LimitInv, InPool
  <1> QED
    BY <1>2, <1>3

Gone == {l \in Leases : st[l] \in {"lost", "ended"}} \cup (Held \ Sound(Held))

\* BoundedPool counts as ExternalPool does.
LEMMA SameCardinality == ASSUME NEW S PROVE Bounded!Cardinality(S) = Cardinality(S)
  BY DEF Bounded!Cardinality, Cardinality

\* A sound request starts within the limits of BoundedPool.
LEMMA StartsBounded ==
  ASSUME PoolInv, LimitInv, NEW l \in Leases, Acquired(l), l \notin blind \cup missed
  PROVE  Bounded!Start(l)
  <1> USE PoolAssumption
  <1>1. /\ l \in Sound(Promised) /\ l \notin Held /\ st' = [st EXCEPT ![l] = "active"]
        /\ Sound(Held) \subseteq Sound(Promised) /\ Sound(Promised) \subseteq Leases
        /\ st[l] = "asking" /\ UNCHANGED <<blind, missed>>
    BY DEF Acquired, Set, Sound, Promised, Held, pastVars
  <1>2. /\ Sound(Held)' = Sound(Held) \cup {l} /\ l \notin Sound(Held)
        /\ Gone' = Gone /\ l \notin Gone
    BY <1>1 DEF Held, Sound, Gone, PoolInv, GuardInv, TypeOK
  <1>3. Cardinality(InPool(PoolOf[l], Sound(Held))) < PoolLimit
    <2> DEFINE R == InPool(PoolOf[l], Sound(Held))
    <2>1. R \cup {l} \in SUBSET InPool(PoolOf[l], Sound(Promised))
          /\ InPool(PoolOf[l], Sound(Promised)) \in SUBSET Leases /\ l \notin R
      BY <1>1, <1>2 DEF InPool
    <2>2. /\ Cardinality(R \cup {l}) <= Cardinality(InPool(PoolOf[l], Sound(Promised)))
          /\ Cardinality(InPool(PoolOf[l], Sound(Promised))) \in Nat
          /\ Cardinality(R \cup {l}) \in Nat
      BY <2>1, LeasesFinite
    <2>3. IsFiniteSet(R) /\ Cardinality(R) \in Nat
      BY <2>1, LeasesFinite
    <2>4. Cardinality(R \cup {l}) = Cardinality(R) + 1
      BY <2>1, <2>3, FS_AddElement
    <2> QED
      BY <2>2, <2>3, <2>4 DEF LimitInv
  <1>4. GlobalLimit > 0 => Cardinality(Sound(Held)) < GlobalLimit
    <2>1. Sound(Held) \cup {l} \in SUBSET Sound(Promised)
      BY <1>1
    <2>2. /\ Cardinality(Sound(Held) \cup {l}) <= Cardinality(Sound(Promised))
          /\ Cardinality(Sound(Promised)) \in Nat /\ Cardinality(Sound(Held) \cup {l}) \in Nat
      BY <1>1, <2>1, LeasesFinite
    <2>3. IsFiniteSet(Sound(Held)) /\ Cardinality(Sound(Held)) \in Nat
      BY <1>1, LeasesFinite
    <2>4. Cardinality(Sound(Held) \cup {l}) = Cardinality(Sound(Held)) + 1
      BY <1>2, <2>3, FS_AddElement
    <2> QED
      BY <2>2, <2>3, <2>4 DEF LimitInv
  <1>5. Bounded!InPool(PoolOf[l], Sound(Held)) = InPool(PoolOf[l], Sound(Held))
    BY DEF Bounded!InPool, InPool
  <1>6. /\ Bounded!Cardinality(Bounded!InPool(PoolOf[l], Sound(Held))) < PoolLimit
        /\ GlobalLimit > 0 => Bounded!Cardinality(Sound(Held)) < GlobalLimit
    BY <1>3, <1>4, <1>5, SameCardinality
  <1> QED
    BY <1>1, <1>2, <1>6 DEF Bounded!Start, Gone

\* Requests that end, whose lease is lost, or that are no longer sound.
LEMMA EndsBounded ==
  ASSUME NEW S \in SUBSET Leases,
         Sound(Held)' = Sound(Held) \ S, Gone' = Gone \cup S
  PROVE  Bounded!Next
  BY DEF Bounded!Next, Bounded!End, Gone

\* Every step starts one request within the limits, ends some, or does neither.
LEMMA BoundedStep ==
  ASSUME PoolInv, LimitInv, [Next]_vars
  PROVE  [Bounded!Next]_<<Sound(Held), Gone>>
  <1>1. ASSUME NEW l \in Leases, LeaseStep(l) PROVE [Bounded!Next]_<<Sound(Held), Gone>>
    <2> USE DEF Held, Sound, Gone, PoolInv, GuardInv, TypeOK, Set
    <2>1. CASE Acquired(l) /\ l \notin blind \cup missed
      BY <2>1, StartsBounded DEF Bounded!Next
    <2>2. CASE Acquired(l) /\ l \in blind \cup missed
      <3>1. st' = [st EXCEPT ![l] = "active"] /\ st[l] = "asking" /\ UNCHANGED <<blind, missed>>
        BY <2>2 DEF Acquired, pastVars
      <3>2. Sound(Held)' = Sound(Held) \ {l} /\ Gone' = Gone \cup {l}
        BY <2>2, <3>1
      <3> QED
        BY <3>2, EndsBounded
    <2>3. CASE Refused(l) \/ Unknown(l) \/ Drop(l)
      <3>1. /\ st' = [st EXCEPT ![l] = "ended"]
            /\ blind' \in {blind, blind \ {l}} /\ missed' \in {missed, missed \ {l}}
        <4>1. CASE Unknown(l)
          <5>1. {m \in {l} : cmd'[m] = "none"} \in {{}, {l}}
            OBVIOUS
          <5> QED
            BY <4>1, <5>1 DEF Unknown, Forget
        <4> QED
          BY <2>3, <4>1 DEF Refused, Drop, Forget
      <3>2. Sound(Held)' = Sound(Held) \ {l} /\ Gone' = Gone \cup {l}
        BY <3>1
      <3> QED
        BY <3>2, EndsBounded
    <2>4. CASE Touch(l) \/ LossDeadline(l)
      <3>1. st' = [st EXCEPT ![l] = "lost"] /\ UNCHANGED <<blind, missed>>
        BY <2>4 DEF Touch, LossDeadline, pastVars
      <3>2. Sound(Held)' = Sound(Held) \ {l} /\ Gone' = Gone \cup {l}
        BY <3>1
      <3> QED
        BY <3>2, EndsBounded
    <2>5. CASE Ask(l)
      BY <2>5 DEF Ask
    <2>6. CASE Acquire(l)
      <3>1. UNCHANGED <<st, missed>> /\ blind' \in {blind, blind \cup {l}} /\ (blind' # blind => st[l] = "asking")
        BY <2>6 DEF Acquire, AcquireScript
      <3>2. UNCHANGED <<Sound(Held), Gone>>
        BY <3>1
      <3> QED
        BY <3>2
    <2>7. CASE Release(l) \/ Age(l) \/ TombstoneExpires(l)
      BY <2>7 DEF Release, Age, TombstoneExpires, leaseVars, pastVars
    <2> QED
      BY <1>1, <2>1, <2>2, <2>3, <2>4, <2>5, <2>6, <2>7 DEF LeaseStep
  <1>2. ASSUME NEW i \in Instances, Crash(i) PROVE [Bounded!Next]_<<Sound(Held), Gone>>
    <2> DEFINE S == {l \in Leases : OwnerOf[l] = i /\ st[l] # "idle"}
    <2>1. /\ \A l \in Leases : st'[l] = IF l \in S THEN "ended" ELSE st[l]
          /\ \A l \in Leases \ S : (l \in blind' <=> l \in blind) /\ (l \in missed' <=> l \in missed)
      BY <1>2 DEF Crash, Forget
    <2>2. Sound(Held)' = Sound(Held) \ S /\ Gone' = Gone \cup S
      BY <2>1 DEF Held, Sound, Gone
    <2> QED
      BY <2>2, EndsBounded
  <1>3. CASE RecoveryEnds
    <2>1. /\ Fenced \in SUBSET Leases /\ Fenced \subseteq Held
          /\ missed' = missed \cup Fenced /\ UNCHANGED <<st, blind>>
      BY <1>3 DEF RecoveryEnds, Fenced, Promised, Held
    <2>2. Sound(Held)' = Sound(Held) \ Fenced /\ Gone' = Gone \cup Fenced
      BY <2>1 DEF Held, Sound, Gone
    <2> QED
      BY <2>1, <2>2, EndsBounded
  <1>4. CASE UNCHANGED <<Lease, missed>>
    BY <1>4 DEF Lease, Held, Sound, Gone
  <1> QED
    BY <1>1, <1>2, <1>3, <1>4, LeasesStay

\* The detailed coordination implements BoundedPool: over all processes,
\* restarts of Redis with any loss, late and repeated calls, left locks and
\* crashes, the held requests keep to the limits, but for those granted in a
\* probe window and those whose heartbeats have failed for a whole barrier.
THEOREM ImplementsBoundedPool == Spec => KeepsLimits
  <1>1. Init => Bounded!Init
    BY DEF Init, Bounded!Init, Held, Sound
  <1>2. Init => LimitInv
    <2> SUFFICES ASSUME Init PROVE LimitInv
      OBVIOUS
    <2>1. Sound(Promised) = {} /\ \A l \in Leases : InPool(PoolOf[l], Sound(Promised)) = {}
      BY DEF Init, Promised, Held, Sound, InPool
    <2> QED
      BY <2>1, FS_EmptySet, PoolAssumption DEF LimitInv
  <1>3. PoolInv /\ LimitInv /\ [Next]_vars => LimitInv'
    BY LimitStep
  <1>4. PoolInv /\ LimitInv /\ [Next]_vars
        => [Bounded!Next]_<<Sound(Held), {l \in Leases : st[l] \in {"lost", "ended"}} \cup (Held \ Sound(Held))>>
    BY BoundedStep DEF Gone
  <1> QED
    BY <1>1, <1>2, <1>3, <1>4, PoolInvariance, PTL DEF Spec, KeepsLimits, Bounded!Spec

=============================================================================
