---------------------------- MODULE DispatchQueue ----------------------------
(***************************************************************************)
(* The waiting room of the local account scheduler.                        *)
(*                                                                         *)
(* A request that finds no slot waits in a queue which is counted twice:   *)
(* by a counter in its process and by a sorted set in Redis, shared by all *)
(* instances, whose scores are expiry times.  Its DispatchQueueGuard gives *)
(* both back exactly once; the Redis entry goes through the release        *)
(* dispatcher, for which a permit is reserved before the entry is asked    *)
(* for.  A request that failed upstream gives its slot back and queues     *)
(* again as a retry, to which the limit does not apply.                    *)
(*                                                                         *)
(* How a slot itself is taken is the subject of InFlightLease; here a slot *)
(* is one of a fixed number.  Time is abstract: "due" holds the entries    *)
(* whose score has passed.                                                 *)
(***************************************************************************)
EXTENDS Naturals, FiniteSets

CONSTANTS
    Instances,      \* processes
    Requests,       \* requests of clients
    InstanceOf,     \* the process that serves a request
    MaxTries,       \* bound: how often a request is dispatched again
    Slots,          \* slots of the account pool
    MaxQueued,      \* dispatchMaxQueuedRequests, 0 = no limit
    MaxReleases,    \* permits of a process's release dispatcher
    Renewing,       \* requests without a maximal wait, which renew their entry
    Pauses,         \* requests whose entry may expire while they wait
    Faulty,         \* requests whose Redis calls may fail or be late
    Mortal          \* processes that may be killed

ASSUME QueueAssumption ==
    /\ IsFiniteSet(Requests)
    /\ InstanceOf \in [Requests -> Instances]
    /\ MaxTries \in Nat /\ Slots \in Nat \ {0}
    /\ MaxQueued \in Nat /\ MaxReleases \in Nat \ {0}
    /\ Renewing \subseteq Requests /\ Faulty \subseteq Requests
    /\ Mortal \subseteq Instances
    /\ Pauses \subseteq Requests

VARIABLES
    queue, due,     \* Redis: the entries, and those whose score has passed
    local,          \* queued_requests of every process
    permits,        \* free permits of its release dispatcher
    intent,         \* release intents in its release dispatcher
    up,             \* running processes
    holding,        \* requests that hold a slot
    try,            \* how often a request was dispatched before
    st,             \* where a request is
    call            \* the admit call of an entry

redisVars == <<queue, due>>
procVars  == <<local, permits, intent, up>>
vars      == <<redisVars, procVars, holding, try, st, call>>

-----------------------------------------------------------------------------
\* Every dispatch asks for an entry of its own.
Entries == Requests \X (0..MaxTries)

Entry(r) == <<r, try[r]>>

\* States with a DispatchQueueGuard: not started, acquire call sent, entry
\* held, waiting without an entry, waiting with an unknown one.
Guarded == {"entered", "asking", "queued", "unleased", "unknown"}

\* ... those that owe Redis a release, and those with a permit reserved.
Owing    == {"asking", "queued", "unknown"}
Reserved == Owing \cup {"entered"}

\* States in which the scheduler loop looks for a slot.
Seeking == {"seek", "queued", "unleased", "unknown"}

\* dispatch_queue_limit: a retry has none.
Limit(e) == IF e[2] > 0 THEN 0 ELSE MaxQueued

\* Mutant: one too many.
FullLater(n, e) == Limit(e) > 0 /\ n > Limit(e)

Full(n, e) == Limit(e) > 0 /\ n >= Limit(e)

FreeSlot == Cardinality(holding) < Slots

Init ==
    /\ queue = {} /\ due = {}
    /\ local = [i \in Instances |-> 0]
    /\ permits = [i \in Instances |-> MaxReleases]
    /\ intent = {} /\ up = Instances /\ holding = {}
    /\ try = [r \in Requests |-> 0]
    /\ st = [r \in Requests |-> "idle"]
    /\ call = [e \in Entries |-> "none"]

-----------------------------------------------------------------------------
(* The Lua scripts.  All of them prune what is due first.                  *)

Pruned == queue \ due

AdmitScript(e) ==
    LET known == e \in Pruned
        ok    == known \/ ~Full(Cardinality(Pruned), e)
    IN  /\ queue' = IF ok THEN Pruned \cup {e} ELSE Pruned
        /\ due' = {}
        /\ call' = [call EXCEPT ![e] =
                      IF st[e[1]] # "asking" \/ e # Entry(e[1]) THEN "none"
                      ELSE IF ok THEN "yes" ELSE "no"]

RenewScript == queue' = Pruned /\ due' = {}

\* Mutant: the entries of a request are not told apart.
ReleaseOfRequest(e) ==
    queue' = {q \in queue : q[1] # e[1]} /\ due' = {q \in due : q[1] # e[1]}

ReleaseScript(e) == queue' = queue \ {e} /\ due' = due \ {e}

-----------------------------------------------------------------------------
(* Guards.                                                                 *)

Running(r) == InstanceOf[r] \in up

Goto(r, next) == st' = [st EXCEPT ![r] = next]

Counted(r, d) == [local EXCEPT ![InstanceOf[r]] = IF d = "up" THEN @ + 1 ELSE @ - 1]

Returned(r) == [permits EXCEPT ![InstanceOf[r]] = @ + 1]

\* Mutant: the counter is lowered without a guard, too.
DropGuardAlways(r) ==
    /\ local' = Counted(r, "down")
    /\ intent' = IF st[r] \in Owing THEN intent \cup {Entry(r)} ELSE intent
    /\ permits' = IF st[r] = "entered" THEN Returned(r) ELSE permits

\* Mutant: only guards that release something in Redis lower the counter.
DropGuardOwing(r) ==
    /\ local' = IF st[r] \in Owing THEN Counted(r, "down") ELSE local
    /\ intent' = IF st[r] \in Owing THEN intent \cup {Entry(r)} ELSE intent
    /\ permits' = IF st[r] = "entered" THEN Returned(r) ELSE permits

\* Mutant: a permit that was not needed is lost.
DropGuardKeepsPermit(r) ==
    /\ local' = IF st[r] \in Guarded THEN Counted(r, "down") ELSE local
    /\ intent' = IF st[r] \in Owing THEN intent \cup {Entry(r)} ELSE intent
    /\ UNCHANGED permits

\* DispatchQueueGuard::release, also on drop, if the request has a guard.
DropGuard(r) ==
    /\ local' = IF st[r] \in Guarded THEN Counted(r, "down") ELSE local
    /\ intent' = IF st[r] \in Owing THEN intent \cup {Entry(r)} ELSE intent
    /\ permits' = IF st[r] = "entered" THEN Returned(r) ELSE permits

\* Nobody reads the answer any more; a call on the way stays there.
Unread(r) ==
    [call EXCEPT ![Entry(r)] = IF @ = "wire" THEN "wire" ELSE "none"]

-----------------------------------------------------------------------------
(* A request.                                                              *)

\* The entry of the service: dispatch_queue_full_retry_after turns a request
\* away if the queue is full and this process saw no free slot (the answer is
\* cached, and other instances' slots are not its own: either may be out of date).
Arrive(r) ==
    /\ Running(r) /\ st[r] = "idle"
    /\ \/ Goto(r, "seek")
       \/ Full(local[InstanceOf[r]], Entry(r)) /\ Goto(r, "done")
    /\ UNCHANGED <<redisVars, procVars, holding, try, call>>

\* The scheduler finds a slot, for whoever asks first; a guard is dropped.
TakeSlot(r) ==
    /\ Running(r) /\ st[r] \in Seeking
    /\ FreeSlot
    /\ holding' = holding \cup {r}
    /\ DropGuard(r)
    /\ call' = IF st[r] = "unknown" THEN Unread(r) ELSE call
    /\ Goto(r, "hold")
    /\ UNCHANGED <<redisVars, up, try>>

\* The scheduler looks and finds no slot; one may be free again when it acts.
FindNoSlot(r) ==
    /\ Running(r) /\ st[r] = "seek" /\ ~FreeSlot
    /\ Goto(r, "refused")
    /\ UNCHANGED <<redisVars, procVars, holding, try, call>>

\* try_enter_dispatch_queue: the process's counter, then a release permit.
EnterQueue(r) ==
    LET i == InstanceOf[r]
        ok == ~Full(local[i], Entry(r)) /\ permits[i] > 0
    IN  /\ Running(r) /\ st[r] = "refused"
        /\ local' = IF ok THEN Counted(r, "up") ELSE local
        /\ permits' = IF ok THEN [permits EXCEPT ![i] = @ - 1] ELSE permits
        /\ Goto(r, IF ok THEN "entered" ELSE "done")
        /\ UNCHANGED <<redisVars, intent, up, holding, try, call>>

\* try_enter_local_only_dispatch_queue, when the slot could not be confirmed
\* because Redis is not available.
EnterLocalOnly(r) ==
    LET ok == ~Full(local[InstanceOf[r]], Entry(r))
    IN  /\ r \in Faulty
        /\ Running(r) /\ st[r] = "seek"
        /\ local' = IF ok THEN Counted(r, "up") ELSE local
        /\ Goto(r, IF ok THEN "unleased" ELSE "done")
        /\ UNCHANGED <<redisVars, permits, intent, up, holding, try, call>>

SendAdmit(r) ==
    /\ Running(r) /\ st[r] = "entered"
    /\ call' = [call EXCEPT ![Entry(r)] = "wire"]
    /\ Goto(r, "asking")
    /\ UNCHANGED <<redisVars, procVars, holding, try>>

ExecuteAdmit(e) ==
    /\ call[e] = "wire"
    /\ AdmitScript(e)
    /\ UNCHANGED <<procVars, holding, try, st>>

LoseAdmit(e) ==
    /\ e[1] \in Faulty /\ call[e] = "wire"
    /\ call' = [call EXCEPT ![e] = "none"]
    /\ UNCHANGED <<redisVars, procVars, holding, try, st>>

Admitted(r) ==
    /\ Running(r) /\ st[r] = "asking" /\ call[Entry(r)] = "yes"
    /\ call' = [call EXCEPT ![Entry(r)] = "none"]
    /\ Goto(r, "queued")
    /\ UNCHANGED <<redisVars, procVars, holding, try>>

\* confirm_redis_not_acquired and drop: the queue is full.
NotAdmitted(r) ==
    /\ Running(r) /\ st[r] = "asking" /\ call[Entry(r)] = "no"
    /\ call' = [call EXCEPT ![Entry(r)] = "none"]
    /\ local' = Counted(r, "down") /\ permits' = Returned(r)
    /\ Goto(r, "done")
    /\ UNCHANGED <<redisVars, intent, up, holding, try>>

\* redis_single_instance: what the heartbeat last saw.  The last process that
\* runs learns of it with its next heartbeat.
Single(r) == IF up = {InstanceOf[r]} THEN BOOLEAN ELSE {FALSE}

\* The call was not started, or certainly failed.  The only instance waits on
\* its own counter, without an entry; others give up.
CallFails(r) ==
    /\ r \in Faulty
    /\ Running(r)
    /\ st[r] = "entered" \/ (st[r] = "asking" /\ call[Entry(r)] = "wire")
    /\ call' = [call EXCEPT ![Entry(r)] = "none"]
    /\ permits' = Returned(r)
    /\ \E single \in Single(r) :
          /\ local' = IF single THEN local ELSE Counted(r, "down")
          /\ Goto(r, IF single THEN "unleased" ELSE "done")
    /\ UNCHANGED <<redisVars, intent, up, holding, try>>

\* The outcome of the call is unknown.
CallUnknown(r) ==
    /\ r \in Faulty
    /\ Running(r) /\ st[r] = "asking"
    /\ call' = Unread(r)
    /\ \E single \in Single(r) :
          IF single
          THEN Goto(r, "unknown") /\ UNCHANGED <<local, permits, intent>>
          ELSE Goto(r, "done") /\ DropGuard(r)
    /\ UNCHANGED <<redisVars, up, holding, try>>

\* renew_if_needed: an entry that is gone ends the wait, except for the only
\* instance.
Renew(r) ==
    /\ Running(r) /\ st[r] = "queued" /\ r \in Renewing
    /\ \E single \in Single(r) :
          IF Entry(r) \in Pruned \/ single
          THEN UNCHANGED <<st, local, permits, intent>>
          ELSE Goto(r, "done") /\ DropGuard(r)
    /\ RenewScript
    /\ UNCHANGED <<up, holding, try, call>>

\* The maximal wait is over, or the client is gone.
Leave(r) ==
    /\ Running(r) /\ st[r] \in Guarded \cup {"seek", "refused"}
    /\ DropGuard(r)
    /\ call' = Unread(r)
    /\ Goto(r, "done")
    /\ UNCHANGED <<redisVars, up, holding, try>>

\* The attempt failed upstream: the slot is given back, the request is
\* dispatched again as a retry.
Fail(r) ==
    /\ Running(r) /\ st[r] = "hold" /\ try[r] < MaxTries
    /\ holding' = holding \ {r}
    /\ try' = [try EXCEPT ![r] = @ + 1]
    /\ Goto(r, "seek")
    /\ UNCHANGED <<redisVars, procVars, call>>

Finish(r) ==
    /\ Running(r) /\ st[r] = "hold"
    /\ holding' = holding \ {r}
    /\ Goto(r, "done")
    /\ UNCHANGED <<redisVars, procVars, try, call>>

-----------------------------------------------------------------------------
(* The release dispatcher, time, crashes.                                  *)

\* One attempt; without an answer the intent stays queued.
DispatchRelease(e) ==
    /\ Running(e[1]) /\ e \in intent
    /\ ReleaseScript(e)
    /\ \/ intent' = intent \ {e} /\ permits' = Returned(e[1])
       \/ e[1] \in Faulty /\ UNCHANGED <<intent, permits>>
    /\ UNCHANGED <<local, up, holding, try, st, call>>

\* Mutant: the entries of a killed process have no time.
EntryExpiresIfRunning(e) ==
    /\ e \in queue \ due /\ Running(e[1])
    /\ e[1] \in Pauses \/ ~(e = Entry(e[1]) /\ st[e[1]] \in {"asking", "queued"})
    /\ due' = due \cup {e}
    /\ UNCHANGED <<queue, procVars, holding, try, st, call>>

\* An entry's time passes.  It is longer than the maximal wait, or renewed.
EntryExpires(e) ==
    /\ e \in queue \ due
    /\ e[1] \in Pauses \/ ~(e = Entry(e[1]) /\ st[e[1]] \in {"asking", "queued"})
    /\ due' = due \cup {e}
    /\ UNCHANGED <<queue, procVars, holding, try, st, call>>

\* The key expires with its latest entry.
KeyExpires ==
    /\ queue # {} /\ queue \subseteq due
    /\ queue' = {} /\ due' = {}
    /\ UNCHANGED <<procVars, holding, try, st, call>>

Crash(i) ==
    LET mine == {r \in Requests : InstanceOf[r] = i}
    IN  /\ i \in up \cap Mortal
        /\ up' = up \ {i}
        /\ local' = [local EXCEPT ![i] = 0]
        /\ permits' = [permits EXCEPT ![i] = MaxReleases]
        /\ intent' = {e \in intent : e[1] \notin mine}
        /\ holding' = holding \ mine
        /\ st' = [r \in Requests |-> IF r \in mine THEN "dead" ELSE st[r]]
        /\ call' = [e \in Entries |-> IF e[1] \in mine /\ call[e] # "wire" THEN "none" ELSE call[e]]
        /\ UNCHANGED <<redisVars, try>>

-----------------------------------------------------------------------------
RequestStep(r) ==
    \/ Arrive(r) \/ TakeSlot(r) \/ FindNoSlot(r) \/ EnterQueue(r) \/ EnterLocalOnly(r)
    \/ SendAdmit(r) \/ Admitted(r) \/ NotAdmitted(r) \/ CallFails(r) \/ CallUnknown(r) \/ Renew(r)
    \/ Leave(r) \/ Fail(r) \/ Finish(r)

EntryStep(e) ==
    ExecuteAdmit(e) \/ LoseAdmit(e) \/ DispatchRelease(e) \/ EntryExpires(e)

Next ==
    \/ \E r \in Requests : RequestStep(r)
    \/ \E e \in Entries : EntryStep(e)
    \/ \E i \in Instances : Crash(i)
    \/ KeyExpires

Spec == Init /\ [][Next]_vars

\* The release dispatcher retries until it is answered, Redis executes or
\* loses every call, and entries nobody waits on do reach their time.
Fairness ==
    /\ SF_vars(\E e \in Entries : DispatchRelease(e) /\ e \notin intent')
    /\ WF_vars(\E e \in Entries : ExecuteAdmit(e) \/ LoseAdmit(e))
    /\ WF_vars(\E e \in Entries : EntryExpires(e))
    /\ WF_vars(KeyExpires)

FairSpec == Spec /\ Fairness

-----------------------------------------------------------------------------
(* Properties.                                                             *)

Waiting(i, S) == {r \in Requests : InstanceOf[r] = i /\ st[r] \in S}

\* Types of the variables.
TypeOK ==
    /\ queue \subseteq Entries /\ due \subseteq queue /\ intent \subseteq Entries
    /\ local \in [Instances -> Nat] /\ permits \in [Instances -> Nat]
    /\ up \subseteq Instances /\ holding \subseteq Requests
    /\ try \in [Requests -> 0..MaxTries]
    /\ st \in [Requests -> Guarded \cup {"idle", "seek", "refused", "hold", "done", "dead"}]
    /\ call \in [Entries -> {"none", "wire", "yes", "no"}]

\* The waiting room in Redis never holds more than the configured number of
\* first dispatches, over all instances, however late an admit call arrives.
NewWithinLimit ==
    MaxQueued > 0 => Cardinality({e \in queue : e[2] = 0}) <= MaxQueued

\* queued_requests, kept by fetch_add and fetch_sub of many tasks, counts the
\* guards: none is counted twice or left behind, and it never wraps below 0.
LocalCountExact ==
    \A i \in Instances : local[i] = Cardinality(Waiting(i, Guarded))

\* A guard that owes Redis a release can always enqueue it: its permit is
\* set aside from the start, and no permit is lost or doubled.
PermitsExact ==
    \A i \in Instances :
        permits[i] + Cardinality(Waiting(i, Reserved))
                   + Cardinality({e \in intent : InstanceOf[e[1]] = i}) = MaxReleases

\* A request that waits with a confirmed entry is counted in Redis as long as
\* it waits (unless it is paused beyond the entry's time).
QueuedIsCounted ==
    \A r \in Requests \ Pauses : st[r] = "queued" => Entry(r) \in queue \ due

\* Whatever happens to its request and its process, an entry does not count in
\* the queue for good; not even one that is admitted after its release.  (An
\* entry past its time is dropped before the queue is counted.)
QueueDrains == <>[](\A e \in queue \ due : st[e[1]] \notin {"done", "dead"})

=============================================================================
