------------------------ MODULE DispatchQueueProofs ------------------------
(***************************************************************************)
(* Theorems about DispatchQueue, for any instances, requests, limits,      *)
(* numbers of permits and tries, with all faults.                          *)
(***************************************************************************)
EXTENDS DispatchQueue, FiniteSetTheorems, TLAPS

States == Guarded \cup {"idle", "seek", "refused", "hold", "done", "dead"}

\* What a step of a request does to the counters of its process: the counter
\* follows the guard, and the permit goes where the release goes.
LocalFollows(r, s) ==
    \/ (st[r] \in Guarded <=> s \in Guarded) /\ UNCHANGED local
    \/ st[r] \notin Guarded /\ s \in Guarded /\ local' = Counted(r, "up")
    \/ st[r] \in Guarded /\ s \notin Guarded /\ local' = Counted(r, "down")

PermitFollows(r, s) ==
    \/ (st[r] \in Reserved <=> s \in Reserved) /\ UNCHANGED <<permits, intent>>
    \/ /\ st[r] \notin Reserved /\ s \in Reserved /\ permits[InstanceOf[r]] > 0
       /\ permits' = [permits EXCEPT ![InstanceOf[r]] = @ - 1] /\ UNCHANGED intent
    \/ /\ st[r] \in Reserved /\ s \notin Reserved
       /\ permits' = Returned(r) /\ UNCHANGED intent
    \/ /\ st[r] \in Reserved /\ s \in {"hold", "done"}
       /\ intent' = intent \cup {Entry(r)} /\ UNCHANGED permits

TryFollows(r, s) ==
    \/ UNCHANGED try /\ (st[r] = "hold" => s \in {"hold", "done"})
                     /\ (st[r] = "done" => s = "done")
    \/ /\ st[r] = "hold" /\ s = "seek" /\ try[r] < MaxTries
       /\ try' = [try EXCEPT ![r] = @ + 1]

Shape(r, s) ==
    /\ Goto(r, s) /\ UNCHANGED up
    /\ LocalFollows(r, s) /\ PermitFollows(r, s) /\ TryFollows(r, s)

\* Every step of a request has this shape.
LEMMA RequestShape ==
  ASSUME TypeOK, NEW r \in Requests, RequestStep(r)
  PROVE  \E s \in States : Shape(r, s)
  <1> USE QueueAssumption DEF TypeOK, Shape, LocalFollows, PermitFollows, TryFollows, States,
                              Guarded, Owing, Reserved, Goto, procVars
  <1>1. CASE Arrive(r)
    BY <1>1 DEF Arrive
  <1>2. CASE TakeSlot(r)
    <2> SUFFICES Shape(r, "hold")
      OBVIOUS
    <2> QED
      BY <1>2 DEF TakeSlot, Seeking, DropGuard
  <1>3. CASE FindNoSlot(r)
    BY <1>3 DEF FindNoSlot
  <1>4. CASE EnterQueue(r)
    <2>1. CASE ~Full(local[InstanceOf[r]], Entry(r)) /\ permits[InstanceOf[r]] > 0
      <3> SUFFICES Shape(r, "entered")
        OBVIOUS
      <3> QED
        BY <1>4, <2>1 DEF EnterQueue
    <2>2. CASE ~(~Full(local[InstanceOf[r]], Entry(r)) /\ permits[InstanceOf[r]] > 0)
      <3> SUFFICES Shape(r, "done")
        OBVIOUS
      <3> QED
        BY <1>4, <2>2 DEF EnterQueue
    <2> QED
      BY <2>1, <2>2
  <1>5. CASE EnterLocalOnly(r)
    BY <1>5 DEF EnterLocalOnly
  <1>6. CASE SendAdmit(r)
    BY <1>6 DEF SendAdmit
  <1>7. CASE Admitted(r)
    BY <1>7 DEF Admitted
  <1>8. CASE NotAdmitted(r)
    BY <1>8 DEF NotAdmitted
  <1>9. CASE CallFails(r)
    BY <1>9 DEF CallFails
  <1>10. CASE CallUnknown(r)
    BY <1>10 DEF CallUnknown, DropGuard
  <1>11. CASE Renew(r)
    <2>1. CASE UNCHANGED <<st, local, permits, intent>>
      <3> SUFFICES Shape(r, "queued")
        OBVIOUS
      <3> QED
        BY <1>11, <2>1 DEF Renew
    <2>2. CASE Goto(r, "done") /\ DropGuard(r)
      <3> SUFFICES Shape(r, "done")
        OBVIOUS
      <3> QED
        BY <1>11, <2>2 DEF Renew, DropGuard
    <2> QED
      BY <1>11, <2>1, <2>2 DEF Renew
  <1>12. CASE Leave(r)
    <2> SUFFICES Shape(r, "done")
      OBVIOUS
    <2> QED
      BY <1>12 DEF Leave, DropGuard
  <1>13. CASE Fail(r)
    <2> SUFFICES Shape(r, "seek")
      OBVIOUS
    <2> QED
      BY <1>13 DEF Fail
  <1>14. CASE Finish(r)
    BY <1>14 DEF Finish
  <1> QED
    BY <1>1, <1>2, <1>3, <1>4, <1>5, <1>6, <1>7, <1>8, <1>9, <1>10, <1>11, <1>12, <1>13, <1>14
       DEF RequestStep

-----------------------------------------------------------------------------
(* Counting.                                                               *)

\* Requests, and therefore guards, are finitely many.
LEMMA WaitingFinite ==
  ASSUME NEW i \in Instances, NEW S
  PROVE  /\ IsFiniteSet(Waiting(i, S)) /\ Cardinality(Waiting(i, S)) \in Nat
         /\ IsFiniteSet(Waiting(i, S)') /\ Cardinality(Waiting(i, S)') \in Nat
  <1>1. Waiting(i, S) \in SUBSET Requests /\ Waiting(i, S)' \in SUBSET Requests
    BY DEF Waiting
  <1> QED
    BY <1>1, QueueAssumption, FS_Subset, FS_CardinalityType

\* A request that moves changes the number of its process by one at most.
LEMMA WaitingMoves ==
  ASSUME TypeOK, NEW r \in Requests, NEW s, Goto(r, s), NEW i \in Instances, NEW S
  PROVE  /\ i # InstanceOf[r] \/ (st[r] \in S <=> s \in S)
              => Cardinality(Waiting(i, S)') = Cardinality(Waiting(i, S))
         /\ i = InstanceOf[r] /\ st[r] \notin S /\ s \in S
              => Cardinality(Waiting(i, S)') = Cardinality(Waiting(i, S)) + 1
         /\ i = InstanceOf[r] /\ st[r] \in S /\ s \notin S
              => /\ Cardinality(Waiting(i, S)') = Cardinality(Waiting(i, S)) - 1
                 /\ Cardinality(Waiting(i, S)) > 0
  <1> USE DEF TypeOK, Goto, Waiting
  <1>1. CASE i # InstanceOf[r] \/ (st[r] \in S <=> s \in S)
    <2>1. Waiting(i, S)' = Waiting(i, S)
      BY <1>1
    <2> QED
      BY <1>1, <2>1
  <1>2. CASE i = InstanceOf[r] /\ st[r] \notin S /\ s \in S
    <2>1. Waiting(i, S)' = Waiting(i, S) \cup {r} /\ r \notin Waiting(i, S)
      BY <1>2
    <2> HIDE DEF Waiting
    <2>2. Cardinality(Waiting(i, S)') = Cardinality(Waiting(i, S)) + 1
      BY <2>1, WaitingFinite, FS_AddElement
    <2> QED
      BY <1>2, <2>2
  <1>3. CASE i = InstanceOf[r] /\ st[r] \in S /\ s \notin S
    <2>1. Waiting(i, S)' = Waiting(i, S) \ {r} /\ r \in Waiting(i, S)
      BY <1>3
    <2> HIDE DEF Waiting
    <2>2. Cardinality(Waiting(i, S)') = Cardinality(Waiting(i, S)) - 1
      BY <2>1, WaitingFinite, FS_RemoveElement
    <2>3. Cardinality(Waiting(i, S)) > 0
      BY <2>1, WaitingFinite, FS_EmptySet
    <2> QED
      BY <1>3, <2>2, <2>3
  <1> QED
    BY <1>1, <1>2, <1>3

\* The entries whose release a process has queued.
IntentOf(i) == {e \in intent : InstanceOf[e[1]] = i}

\* A release is queued for a dispatch that is over.
IntentInv ==
    \A e \in intent : e[2] < try[e[1]] \/ (e = Entry(e[1]) /\ st[e[1]] \in {"hold", "done"})

\* Entries are finitely many.
LEMMA EntriesFinite == IsFiniteSet(Entries)
  <1>1. IsFiniteSet(0..MaxTries)
    BY QueueAssumption, FS_Interval
  <1> QED
    BY <1>1, QueueAssumption, FS_Product DEF Entries

\* So are the queued releases.
LEMMA IntentFinite ==
  ASSUME TypeOK, NEW i \in Instances
  PROVE  IsFiniteSet(IntentOf(i)) /\ Cardinality(IntentOf(i)) \in Nat
  <1>1. IntentOf(i) \in SUBSET Entries
    BY DEF TypeOK, IntentOf
  <1> QED
    BY <1>1, EntriesFinite, FS_Subset, FS_CardinalityType

\* The entry of a dispatch is an entry.
LEMMA EntryType == ASSUME TypeOK, NEW r \in Requests PROVE Entry(r) \in Entries
  BY DEF TypeOK, Entry, Entries

-----------------------------------------------------------------------------
(* The counters of the processes.                                          *)

CountInv == TypeOK /\ LocalCountExact /\ IntentInv /\ PermitsExact

\* A guard is counted.
LEMMA GuardIsCounted ==
  ASSUME TypeOK, LocalCountExact, NEW r \in Requests, st[r] \in Guarded
  PROVE  local[InstanceOf[r]] > 0
  <1>1. InstanceOf[r] \in Instances /\ r \in Waiting(InstanceOf[r], Guarded)
    BY QueueAssumption DEF Waiting
  <1>2. Cardinality(Waiting(InstanceOf[r], Guarded)) > 0
    BY <1>1, WaitingFinite, FS_EmptySet
  <1> QED
    BY <1>1, <1>2 DEF LocalCountExact

\* A step of a request keeps the counter exact.
LEMMA LocalRequest ==
  ASSUME TypeOK, LocalCountExact, NEW r \in Requests, NEW s, Shape(r, s)
  PROVE  LocalCountExact'
  <1> SUFFICES ASSUME NEW i \in Instances
               PROVE  local'[i] = Cardinality(Waiting(i, Guarded)')
    BY DEF LocalCountExact
  <1>1. local[i] = Cardinality(Waiting(i, Guarded)) /\ local[i] \in Nat
    BY DEF LocalCountExact, TypeOK
  <1>2. /\ i # InstanceOf[r] \/ (st[r] \in Guarded <=> s \in Guarded)
             => Cardinality(Waiting(i, Guarded)') = Cardinality(Waiting(i, Guarded))
        /\ i = InstanceOf[r] /\ st[r] \notin Guarded /\ s \in Guarded
             => Cardinality(Waiting(i, Guarded)') = Cardinality(Waiting(i, Guarded)) + 1
        /\ i = InstanceOf[r] /\ st[r] \in Guarded /\ s \notin Guarded
             => Cardinality(Waiting(i, Guarded)') = Cardinality(Waiting(i, Guarded)) - 1
    BY WaitingMoves DEF Shape
  <1>3. LocalFollows(r, s) /\ local \in [Instances -> Nat] /\ InstanceOf[r] \in Instances
    BY QueueAssumption DEF Shape, TypeOK
  <1> QED
    BY <1>1, <1>2, <1>3 DEF LocalFollows, Counted

\* A step of a request queues the release of its own, finished dispatch.
LEMMA IntentRequest ==
  ASSUME TypeOK, IntentInv, NEW r \in Requests, NEW s, Shape(r, s)
  PROVE  IntentInv'
  <1> USE DEF TypeOK, Shape, Goto, PermitFollows, TryFollows, Entry, Entries, Reserved, Owing
  <1> SUFFICES ASSUME NEW e \in intent'
               PROVE  e[2] < try'[e[1]] \/ (e = <<e[1], try'[e[1]]>> /\ st'[e[1]] \in {"hold", "done"})
    BY DEF IntentInv
  <1>1. CASE e \notin intent
    BY <1>1
  <1>2. CASE e \in intent
    <2>1. /\ e \in Requests \X (0..MaxTries)
          /\ e[2] < try[e[1]] \/ (e = <<e[1], try[e[1]]>> /\ st[e[1]] \in {"hold", "done"})
      BY <1>2 DEF IntentInv
    <2>2. try[e[1]] \in 0..MaxTries /\ try[r] \in 0..MaxTries /\ MaxTries \in Nat
      BY <2>1, QueueAssumption
    <2>3. CASE e[1] # r
      BY <2>1, <2>3
    <2>4. CASE e[1] = r
      BY <2>1, <2>2, <2>4
    <2> QED
      BY <2>3, <2>4
  <1> QED
    BY <1>1, <1>2

\* A step of a request moves its permit and loses none.
LEMMA PermitRequest ==
  ASSUME TypeOK, IntentInv, PermitsExact, NEW r \in Requests, NEW s, Shape(r, s)
  PROVE  PermitsExact'
  <1> SUFFICES ASSUME NEW i \in Instances
               PROVE  permits'[i] + Cardinality(Waiting(i, Reserved)')
                                  + Cardinality(IntentOf(i)') = MaxReleases
    BY DEF PermitsExact, IntentOf
  <1> DEFINE W == Cardinality(Waiting(i, Reserved))
             T == Cardinality(IntentOf(i))
  <1>1. permits[i] + W + T = MaxReleases /\ permits[i] \in Nat /\ W \in Nat /\ T \in Nat
    BY WaitingFinite, IntentFinite DEF PermitsExact, TypeOK, IntentOf
  <1>2. /\ i # InstanceOf[r] \/ (st[r] \in Reserved <=> s \in Reserved)
             => Cardinality(Waiting(i, Reserved)') = W
        /\ i = InstanceOf[r] /\ st[r] \notin Reserved /\ s \in Reserved
             => Cardinality(Waiting(i, Reserved)') = W + 1
        /\ i = InstanceOf[r] /\ st[r] \in Reserved /\ s \notin Reserved
             => Cardinality(Waiting(i, Reserved)') = W - 1
    BY WaitingMoves DEF Shape
  <1>3. UNCHANGED intent => Cardinality(IntentOf(i)') = T
    BY DEF IntentOf
  <1>4. ASSUME st[r] \in Reserved, intent' = intent \cup {Entry(r)}
        PROVE  Cardinality(IntentOf(i)') = IF i = InstanceOf[r] THEN T + 1 ELSE T
    <2>1. Entry(r) \notin intent
      BY <1>4, QueueAssumption DEF IntentInv, Entry, Reserved, Owing, TypeOK
    <2>2. CASE i # InstanceOf[r]
      <3>1. IntentOf(i)' = IntentOf(i)
        BY <1>4, <2>2 DEF IntentOf, Entry
      <3> QED
        BY <3>1, <2>2
    <2>3. CASE i = InstanceOf[r]
      <3>1. IntentOf(i)' = IntentOf(i) \cup {Entry(r)} /\ Entry(r) \notin IntentOf(i)
        BY <1>4, <2>1, <2>3 DEF IntentOf, Entry
      <3>2. Cardinality(IntentOf(i)') = Cardinality(IntentOf(i)) + 1
        BY <3>1, IntentFinite, FS_AddElement
      <3> QED
        BY <3>2, <2>3
    <2> QED
      BY <2>2, <2>3
  <1>5. PermitFollows(r, s) /\ permits \in [Instances -> Nat] /\ InstanceOf[r] \in Instances
    BY QueueAssumption DEF Shape, TypeOK
  <1>6. s \in {"hold", "done"} => s \notin Reserved
    BY DEF Reserved, Owing
  <1> HIDE DEF W, T
  <1> QED
    BY <1>1, <1>2, <1>3, <1>4, <1>5, <1>6 DEF PermitFollows, Returned

\* A step of a request preserves the types.
LEMMA TypeRequest ==
  ASSUME TypeOK, LocalCountExact, NEW r \in Requests, RequestStep(r)
  PROVE  TypeOK'
  <1>1. PICK s \in States : Shape(r, s)
    BY RequestShape
  <1>2. st' \in [Requests -> States] /\ up' \subseteq Instances
    BY <1>1 DEF Shape, Goto, TypeOK, States
  <1>3. local' \in [Instances -> Nat]
    BY <1>1, GuardIsCounted, QueueAssumption DEF Shape, LocalFollows, Counted, TypeOK
  <1>4. permits' \in [Instances -> Nat] /\ intent' \subseteq Entries
    BY <1>1, EntryType, QueueAssumption DEF Shape, PermitFollows, Returned, TypeOK
  <1>5. try' \in [Requests -> 0..MaxTries]
    BY <1>1, QueueAssumption DEF Shape, TryFollows, TypeOK
  <1>6. queue' \subseteq Entries /\ due' \subseteq queue' /\ holding' \subseteq Requests
    BY DEF RequestStep, Arrive, TakeSlot, FindNoSlot, EnterQueue, EnterLocalOnly, SendAdmit,
           Admitted, NotAdmitted, CallFails, CallUnknown, Renew, Leave, Fail, Finish,
           RenewScript, Pruned, redisVars, TypeOK
  <1>7. call' \in [Entries -> {"none", "wire", "yes", "no"}]
    BY EntryType DEF RequestStep, Arrive, TakeSlot, FindNoSlot, EnterQueue, EnterLocalOnly, SendAdmit,
           Admitted, NotAdmitted, CallFails, CallUnknown, Renew, Leave, Fail, Finish, Unread, TypeOK
  <1> QED
    BY <1>2, <1>3, <1>4, <1>5, <1>6, <1>7 DEF TypeOK, States

\* A step of an entry preserves the types.
LEMMA TypeEntry == ASSUME TypeOK, NEW e \in Entries, EntryStep(e) PROVE TypeOK'
  <1> USE QueueAssumption DEF TypeOK, redisVars, procVars
  <1>1. CASE ExecuteAdmit(e)
    BY <1>1 DEF ExecuteAdmit, AdmitScript, Pruned
  <1>2. CASE LoseAdmit(e)
    BY <1>2 DEF LoseAdmit
  <1>3. CASE DispatchRelease(e)
    BY <1>3 DEF DispatchRelease, ReleaseScript, Returned, Entries
  <1>4. CASE EntryExpires(e)
    BY <1>4 DEF EntryExpires
  <1> QED
    BY <1>1, <1>2, <1>3, <1>4 DEF EntryStep

\* A crash preserves the types.
LEMMA TypeCrash == ASSUME TypeOK, NEW i \in Instances, Crash(i) PROVE TypeOK'
  <1> USE QueueAssumption DEF TypeOK
  <1>1. st' \in [Requests -> Guarded \cup {"idle", "seek", "refused", "hold", "done", "dead"}]
    BY DEF Crash
  <1>2. call' \in [Entries -> {"none", "wire", "yes", "no"}]
    BY DEF Crash
  <1>3. /\ local' \in [Instances -> Nat] /\ permits' \in [Instances -> Nat]
        /\ up' \subseteq Instances /\ intent' \subseteq Entries /\ holding' \subseteq Requests
        /\ UNCHANGED <<queue, due, try>>
    BY DEF Crash, redisVars
  <1> QED
    BY <1>1, <1>2, <1>3

\* A step of an entry gives back the permit of a release that is answered.
LEMMA CountEntry == ASSUME CountInv, NEW e \in Entries, EntryStep(e)
                    PROVE LocalCountExact' /\ IntentInv' /\ PermitsExact'
  <1>1. UNCHANGED <<local, st, try>>
    BY DEF EntryStep, ExecuteAdmit, LoseAdmit, DispatchRelease, EntryExpires, procVars
  <1>2. LocalCountExact'
    BY <1>1 DEF CountInv, LocalCountExact, Waiting
  <1>3. intent' \subseteq intent
    BY DEF EntryStep, ExecuteAdmit, LoseAdmit, DispatchRelease, EntryExpires, procVars
  <1>4. IntentInv'
    BY <1>1, <1>3 DEF CountInv, IntentInv, Entry
  <1>5. ASSUME UNCHANGED <<permits, intent>> PROVE PermitsExact'
    BY <1>1, <1>5 DEF CountInv, PermitsExact, Waiting
  <1>6. ASSUME e \in intent, intent' = intent \ {e}, permits' = Returned(e[1])
        PROVE  PermitsExact'
    <2> SUFFICES ASSUME NEW i \in Instances
                 PROVE  permits'[i] + Cardinality(Waiting(i, Reserved)')
                                    + Cardinality(IntentOf(i)') = MaxReleases
      BY DEF PermitsExact, IntentOf
    <2>1. /\ permits[i] + Cardinality(Waiting(i, Reserved)) + Cardinality(IntentOf(i)) = MaxReleases
          /\ permits[i] \in Nat /\ Cardinality(Waiting(i, Reserved)) \in Nat
          /\ Cardinality(IntentOf(i)) \in Nat
      BY WaitingFinite, IntentFinite DEF CountInv, PermitsExact, TypeOK, IntentOf
    <2>2. Cardinality(Waiting(i, Reserved)') = Cardinality(Waiting(i, Reserved))
      BY <1>1 DEF Waiting
    <2>3. permits \in [Instances -> Nat] /\ InstanceOf[e[1]] \in Instances
      BY QueueAssumption DEF CountInv, TypeOK, Entries
    <2>4. CASE i # InstanceOf[e[1]]
      <3>1. IntentOf(i)' = IntentOf(i)
        BY <1>6, <2>4 DEF IntentOf
      <3> QED
        BY <1>6, <2>1, <2>2, <2>3, <2>4, <3>1 DEF Returned
    <2>5. CASE i = InstanceOf[e[1]]
      <3>1. IntentOf(i)' = IntentOf(i) \ {e} /\ e \in IntentOf(i)
        BY <1>6, <2>5 DEF IntentOf
      <3>2. Cardinality(IntentOf(i)') = Cardinality(IntentOf(i)) - 1
        BY <3>1, IntentFinite, FS_RemoveElement DEF CountInv
      <3> QED
        BY <1>6, <2>1, <2>2, <2>3, <2>5, <3>2 DEF Returned
    <2> QED
      BY <2>4, <2>5
  <1>7. UNCHANGED <<permits, intent>>
        \/ (e \in intent /\ intent' = intent \ {e} /\ permits' = Returned(e[1]))
    BY DEF EntryStep, ExecuteAdmit, LoseAdmit, DispatchRelease, EntryExpires, procVars
  <1> QED
    BY <1>2, <1>4, <1>5, <1>6, <1>7

\* A crash starts the counters of its process anew.
LEMMA CountCrash == ASSUME CountInv, NEW i \in Instances, Crash(i)
                    PROVE LocalCountExact' /\ IntentInv' /\ PermitsExact'
  <1>1. /\ st' = [r \in Requests |-> IF InstanceOf[r] = i THEN "dead" ELSE st[r]]
        /\ intent' = {e \in intent : e[1] \notin {r \in Requests : InstanceOf[r] = i}}
        /\ local' = [local EXCEPT ![i] = 0] /\ permits' = [permits EXCEPT ![i] = MaxReleases]
        /\ UNCHANGED try
    BY DEF Crash
  <1>2. \A e \in intent : e[1] \in Requests
    BY DEF CountInv, TypeOK, Entries
  <1>3. IntentInv'
    BY <1>1, <1>2 DEF CountInv, IntentInv, Entry
  <1>4. ASSUME NEW j \in Instances, j # i, NEW S, "dead" \notin S
        PROVE  Waiting(j, S)' = Waiting(j, S) /\ IntentOf(j)' = IntentOf(j)
    BY <1>1, <1>2, <1>4 DEF Waiting, IntentOf, CountInv, TypeOK
  <1>5. ASSUME NEW S, "dead" \notin S PROVE Waiting(i, S)' = {} /\ IntentOf(i)' = {}
    BY <1>1, <1>2, <1>5 DEF Waiting, IntentOf, CountInv, TypeOK
  <1>6. "dead" \notin Guarded /\ "dead" \notin Reserved
    BY DEF Guarded, Reserved, Owing
  <1>7. LocalCountExact'
    <2> SUFFICES ASSUME NEW j \in Instances
                 PROVE  local'[j] = Cardinality(Waiting(j, Guarded)')
      BY DEF LocalCountExact
    <2>1. CASE j = i
      BY <1>1, <1>5, <1>6, <2>1, FS_EmptySet DEF CountInv, TypeOK
    <2>2. CASE j # i
      BY <1>1, <1>4, <1>6, <2>2 DEF CountInv, LocalCountExact, TypeOK
    <2> QED
      BY <2>1, <2>2
  <1>8. PermitsExact'
    <2> SUFFICES ASSUME NEW j \in Instances
                 PROVE  permits'[j] + Cardinality(Waiting(j, Reserved)')
                                    + Cardinality(IntentOf(j)') = MaxReleases
      BY DEF PermitsExact, IntentOf
    <2>1. CASE j = i
      <3>1. Waiting(j, Reserved)' = {} /\ IntentOf(j)' = {}
        BY <1>5, <1>6, <2>1
      <3>2. Cardinality(Waiting(j, Reserved)') = 0 /\ Cardinality(IntentOf(j)') = 0
        BY <3>1, FS_EmptySet
      <3>3. permits'[j] = MaxReleases /\ MaxReleases \in Nat
        BY <1>1, <2>1, QueueAssumption DEF CountInv, TypeOK
      <3> QED
        BY <3>2, <3>3
    <2>2. CASE j # i
      BY <1>1, <1>4, <1>6, <2>2 DEF CountInv, PermitsExact, TypeOK, IntentOf
    <2> QED
      BY <2>1, <2>2
  <1> QED
    BY <1>3, <1>7, <1>8

\* Every step keeps the counters exact.
LEMMA CountStep == CountInv /\ [Next]_vars => CountInv'
  <1> SUFFICES ASSUME CountInv, [Next]_vars PROVE CountInv'
    OBVIOUS
  <1>1. ASSUME NEW r \in Requests, RequestStep(r) PROVE CountInv'
    <2>1. PICK s \in States : Shape(r, s)
      BY <1>1, RequestShape DEF CountInv
    <2> QED
      BY <1>1, <2>1, TypeRequest, LocalRequest, IntentRequest, PermitRequest DEF CountInv
  <1>2. ASSUME NEW e \in Entries, EntryStep(e) PROVE CountInv'
    BY <1>2, TypeEntry, CountEntry DEF CountInv
  <1>3. ASSUME NEW i \in Instances, Crash(i) PROVE CountInv'
    BY <1>3, TypeCrash, CountCrash DEF CountInv
  <1>4. CASE KeyExpires \/ UNCHANGED vars
    <2>1. /\ UNCHANGED <<local, permits, intent, up, holding, try, st, call>>
          /\ (queue' = queue /\ due' = due) \/ (queue' = {} /\ due' = {})
      BY <1>4 DEF KeyExpires, vars, redisVars, procVars
    <2> QED
      BY <2>1 DEF CountInv, TypeOK, LocalCountExact, PermitsExact, IntentInv, Waiting, Entry
  <1> QED
    BY <1>1, <1>2, <1>3, <1>4 DEF Next

\* The counters start exact.
LEMMA CountInit == Init => CountInv
  <1> SUFFICES ASSUME Init PROVE CountInv
    OBVIOUS
  <1> USE QueueAssumption DEF Init
  <1>1. TypeOK
    BY DEF TypeOK, Entries
  <1>2. \A i \in Instances : Waiting(i, Guarded) = {} /\ Waiting(i, Reserved) = {}
    BY DEF Waiting, Guarded, Reserved, Owing
  <1>3. LocalCountExact
    BY <1>2, FS_EmptySet DEF LocalCountExact
  <1>4. PermitsExact
    <2>1. \A i \in Instances : {e \in intent : InstanceOf[e[1]] = i} = {}
      OBVIOUS
    <2> QED
      BY <1>2, <2>1, FS_EmptySet DEF PermitsExact
  <1> QED
    BY <1>1, <1>3, <1>4 DEF CountInv, IntentInv

\* Types and counters hold throughout.
LEMMA CountInvariance == Spec => []CountInv
  BY CountInit, CountStep, PTL DEF Spec

\* The types of the waiting room, whatever limits, tries and faults.
THEOREM TypeCorrect == Spec => []TypeOK
  <1>1. CountInv => TypeOK
    BY DEF CountInv
  <1> QED
    BY CountInvariance, <1>1, PTL

\* queued_requests counts the guards of its process exactly (fetch_add in
\* try_enter_dispatch_queue, fetch_sub in DispatchQueueGuard::release).
THEOREM CounterExact == Spec => []LocalCountExact
  <1>1. CountInv => LocalCountExact
    BY DEF CountInv
  <1> QED
    BY CountInvariance, <1>1, PTL

\* No permit of the release dispatcher is lost or doubled: each is free, set
\* aside by a guard, or in use by a queued release.
THEOREM PermitsKept == Spec => []PermitsExact
  <1>1. CountInv => PermitsExact
    BY DEF CountInv
  <1> QED
    BY CountInvariance, <1>1, PTL

-----------------------------------------------------------------------------
(* The shared queue.                                                       *)

\* A waiter that is told it was admitted is in the queue already.
AdmittedInv ==
    \A r \in Requests \ Pauses :
        st[r] = "queued" \/ (st[r] = "asking" /\ call[Entry(r)] = "yes")
            => Entry(r) \in queue \ due

\* Every step keeps what waits with an entry in the queue.
LEMMA AdmittedStep == CountInv /\ AdmittedInv /\ [Next]_vars => AdmittedInv'
  <1> SUFFICES ASSUME CountInv, AdmittedInv, [Next]_vars,
                      NEW r \in Requests \ Pauses,
                      st'[r] = "queued" \/ (st'[r] = "asking" /\ call'[Entry(r)'] = "yes")
               PROVE  Entry(r)' \in queue' \ due'
    BY DEF AdmittedInv
  <1> USE DEF CountInv, TypeOK, AdmittedInv, redisVars, procVars, Goto
  <1>1. Entry(r) \in Entries /\ (st[r] \in {"asking", "queued"} => Entry(r) \notin intent)
    BY EntryType DEF IntentInv, Entry
  <1>2. ASSUME NEW m \in Requests, RequestStep(m) PROVE Entry(r)' \in queue' \ due'
    <2>1. /\ try'[r] = try[r] \/ st'[r] \in {"seek"}
          /\ m # r => st'[r] = st[r] /\ try'[r] = try[r]
      BY <1>2, RequestShape DEF Shape, TryFollows
    <2>2. Entry(r)' = Entry(r)
      BY <2>1 DEF Entry
    <2>3. /\ queue \ due \subseteq queue' /\ due' \subseteq due
      BY <1>2 DEF RequestStep, Arrive, TakeSlot, FindNoSlot, EnterQueue, EnterLocalOnly, SendAdmit,
           Admitted, NotAdmitted, CallFails, CallUnknown, Renew, Leave, Fail, Finish,
           RenewScript, Pruned
    <2>4. st[r] = "queued" \/ (st[r] = "asking" /\ call[Entry(r)] = "yes")
      <3>1. CASE m = r
        BY <1>1, <1>2, <2>2, <3>1
           DEF RequestStep, Arrive, TakeSlot, FindNoSlot, EnterQueue, EnterLocalOnly, SendAdmit,
               Admitted, NotAdmitted, CallFails, CallUnknown, Renew, Leave, Fail, Finish
      <3>2. CASE m # r
        <4>1. Entry(m) # Entry(r) /\ Entry(m) \in Entries
          BY <3>2, EntryType DEF Entry
        <4>2. call'[Entry(r)] = call[Entry(r)]
          BY <1>1, <1>2, <4>1
             DEF RequestStep, Arrive, TakeSlot, FindNoSlot, EnterQueue, EnterLocalOnly, SendAdmit,
                 Admitted, NotAdmitted, CallFails, CallUnknown, Renew, Leave, Fail, Finish, Unread
        <4> QED
          BY <2>1, <2>2, <3>2, <4>2
      <3> QED
        BY <3>1, <3>2
    <2> QED
      BY <2>2, <2>3, <2>4
  <1>3. ASSUME NEW e \in Entries, EntryStep(e) PROVE Entry(r)' \in queue' \ due'
    <2>1. st' = st /\ Entry(r)' = Entry(r)
      BY <1>3 DEF EntryStep, ExecuteAdmit, LoseAdmit, DispatchRelease, EntryExpires, Entry
    <2>2. CASE ExecuteAdmit(e)
      BY <1>1, <2>1, <2>2 DEF ExecuteAdmit, AdmitScript, Pruned
    <2>3. CASE LoseAdmit(e)
      BY <1>1, <2>1, <2>3 DEF LoseAdmit
    <2>4. CASE DispatchRelease(e)
      BY <1>1, <2>1, <2>4 DEF DispatchRelease, ReleaseScript
    <2>5. CASE EntryExpires(e)
      <3>1. e # Entry(r)
        BY <2>1, <2>5 DEF EntryExpires, Entry
      <3> QED
        BY <2>1, <2>5, <3>1 DEF EntryExpires
    <2> QED
      BY <1>3, <2>2, <2>3, <2>4, <2>5 DEF EntryStep
  <1>4. ASSUME NEW i \in Instances, Crash(i) PROVE Entry(r)' \in queue' \ due'
    <2>1. /\ st'[r] # "dead" => st'[r] = st[r] /\ InstanceOf[r] # i
          /\ UNCHANGED <<queue, due, try>>
      BY <1>4 DEF Crash
    <2>2. Entry(r)' = Entry(r)
      BY <2>1 DEF Entry
    <2>3. call'[Entry(r)] = "yes" => call[Entry(r)] = "yes"
      BY <1>1, <1>4 DEF Crash
    <2> QED
      BY <2>1, <2>2, <2>3
  <1>5. CASE KeyExpires
    BY <1>5 DEF KeyExpires, Entry
  <1>6. CASE UNCHANGED vars
    BY <1>6 DEF vars, Entry
  <1> QED
    BY <1>2, <1>3, <1>4, <1>5, <1>6 DEF Next

\* A request that waits with an entry counts in the shared queue all the time
\* it waits, although scripts of others prune, release and admit meanwhile.
THEOREM WaitersCounted == Spec => []QueuedIsCounted
  <1>1. Init => AdmittedInv
    BY DEF Init, AdmittedInv
  <1>2. AdmittedInv => QueuedIsCounted
    BY DEF AdmittedInv, QueuedIsCounted
  <1> QED
    BY CountInvariance, AdmittedStep, <1>1, <1>2, PTL DEF Spec

\* The first dispatches in the queue.
NewIn(q) == {e \in q : e[2] = 0}

\* A queue that only loses entries stays within the limit.
LEMMA FewerNew ==
  ASSUME TypeOK, NewWithinLimit, queue' \subseteq queue
  PROVE  NewWithinLimit'
  <1>1. NewIn(queue) \in SUBSET Entries /\ NewIn(queue') \in SUBSET NewIn(queue)
    BY DEF TypeOK, NewIn
  <1>2. /\ IsFiniteSet(NewIn(queue)) /\ Cardinality(NewIn(queue)) \in Nat
        /\ Cardinality(NewIn(queue')) <= Cardinality(NewIn(queue)) /\ Cardinality(NewIn(queue')) \in Nat
    BY <1>1, EntriesFinite, FS_Subset, FS_CardinalityType
  <1> QED
    BY <1>2, QueueAssumption DEF NewWithinLimit, NewIn

\* The admit script looks before it adds.
LEMMA AdmitNew ==
  ASSUME TypeOK, NewWithinLimit, NEW e \in Entries, AdmitScript(e)
  PROVE  NewWithinLimit'
  <1>1. CASE queue' \subseteq queue
    BY <1>1, FewerNew
  <1>2. CASE ~(queue' \subseteq queue)
    <2>1. queue' = Pruned \cup {e} /\ e \notin Pruned /\ ~Full(Cardinality(Pruned), e)
      BY <1>2 DEF AdmitScript, Pruned, TypeOK
    <2>2. IsFiniteSet(Pruned) /\ Cardinality(Pruned) \in Nat
      BY EntriesFinite, FS_Subset, FS_CardinalityType DEF Pruned, TypeOK
    <2>3. CASE e[2] = 0
      <3>1. MaxQueued > 0 => Cardinality(Pruned) < MaxQueued
        BY <2>1, <2>2, <2>3, QueueAssumption DEF Full, Limit
      <3>2. Cardinality(queue') = Cardinality(Pruned) + 1 /\ IsFiniteSet(queue')
        BY <2>1, <2>2, FS_AddElement
      <3>3. NewIn(queue') \in SUBSET queue'
        BY DEF NewIn
      <3>4. Cardinality(NewIn(queue')) <= Cardinality(queue') /\ Cardinality(NewIn(queue')) \in Nat
        BY <3>2, <3>3, FS_Subset, FS_CardinalityType
      <3> QED
        BY <2>2, <3>1, <3>2, <3>4, QueueAssumption DEF NewWithinLimit, NewIn
    <2>4. CASE e[2] # 0
      <3>1. NewIn(queue) \in SUBSET Entries /\ NewIn(queue') \in SUBSET NewIn(queue)
        BY <2>1, <2>4 DEF TypeOK, NewIn, Pruned
      <3>2. /\ IsFiniteSet(NewIn(queue)) /\ Cardinality(NewIn(queue)) \in Nat
            /\ Cardinality(NewIn(queue')) <= Cardinality(NewIn(queue))
            /\ Cardinality(NewIn(queue')) \in Nat
        BY <3>1, EntriesFinite, FS_Subset, FS_CardinalityType
      <3> QED
        BY <3>2, QueueAssumption DEF NewWithinLimit, NewIn
    <2> QED
      BY <2>3, <2>4
  <1> QED
    BY <1>1, <1>2

\* The shared queue never holds more first dispatches than the limit, over
\* all processes and however late an admit call is executed.
THEOREM LimitKept == Spec => []NewWithinLimit
  <1>1. Init => NewWithinLimit
    <2>1. Init => {e \in queue : e[2] = 0} = {}
      BY DEF Init
    <2> QED
      BY <2>1, FS_EmptySet, QueueAssumption DEF NewWithinLimit
  <1>2. TypeOK /\ NewWithinLimit /\ [Next]_vars => NewWithinLimit'
    <2> SUFFICES ASSUME TypeOK, NewWithinLimit, [Next]_vars PROVE NewWithinLimit'
      OBVIOUS
    <2>1. ASSUME NEW e \in Entries, ExecuteAdmit(e) PROVE NewWithinLimit'
      BY <2>1, AdmitNew DEF ExecuteAdmit
    <2>2. ASSUME NEW r \in Requests, RequestStep(r) PROVE queue' \subseteq queue
      BY <2>2 DEF RequestStep, Arrive, TakeSlot, FindNoSlot, EnterQueue, EnterLocalOnly, SendAdmit,
           Admitted, NotAdmitted, CallFails, CallUnknown, Renew, Leave, Fail, Finish,
           RenewScript, Pruned, redisVars
    <2>3. ASSUME NEW e \in Entries, EntryStep(e), ~ExecuteAdmit(e) PROVE queue' \subseteq queue
      BY <2>3 DEF EntryStep, LoseAdmit, DispatchRelease, EntryExpires, ReleaseScript, redisVars
    <2>4. CASE KeyExpires \/ UNCHANGED vars \/ \E i \in Instances : Crash(i)
      BY <2>4, FewerNew DEF KeyExpires, vars, redisVars, Crash
    <2> QED
      BY <2>1, <2>2, <2>3, <2>4, FewerNew DEF Next
  <1>3. CountInv => TypeOK
    BY DEF CountInv
  <1> QED
    BY CountInvariance, <1>1, <1>2, <1>3, PTL DEF Spec
=============================================================================
