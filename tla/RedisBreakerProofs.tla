-------------------------- MODULE RedisBreakerProofs --------------------------
(***************************************************************************)
(* The breaker's safety for any number of operations, any limits, and any  *)
(* of its three kinds.                                                     *)
(***************************************************************************)
EXTENDS RedisBreaker, TLAPS

\* Timeouts without an answer are accounted for by the two counters.
SilenceCounted ==
    /\ silent <= excused + failures
    /\ Kind = "capacity" /\ phase = "closed" => failures < FailuresToOpen

Inv == TypeOK /\ SingleProbe /\ OnlyCurrentCounts /\ SilenceCounted

\* The initial state, with no operation under way, satisfies the invariant.
LEMMA InitInv == Init => Inv
  <1> SUFFICES ASSUME Init PROVE Inv
    OBVIOUS
  <1>1. TypeOK
    BY BreakerAssumption DEF Init, TypeOK
  <1>2. SingleProbe /\ OnlyCurrentCounts
    BY DEF Init, SingleProbe, OnlyCurrentCounts, Live
  <1>3. SilenceCounted
    BY BreakerAssumption DEF Init, SilenceCounted
  <1> QED
    BY <1>1, <1>2, <1>3 DEF Inv

\* Types are preserved by every step of the breaker.
LEMMA TypeStep == TypeOK /\ [Next]_vars => TypeOK'
  <1> SUFFICES ASSUME TypeOK, [Next]_vars PROVE TypeOK'
    OBVIOUS
  <1> USE BreakerAssumption DEF TypeOK, Goto
  <1>1. ASSUME NEW o \in Ops, Begin(o) PROVE TypeOK'
    BY <1>1 DEF Begin
  <1>2. ASSUME NEW o \in Ops, Admit(o) PROVE TypeOK'
    BY <1>2 DEF Admit
  <1>3. ASSUME NEW o \in Ops, Drop(o) PROVE TypeOK'
    BY <1>3 DEF Drop
  <1>4. ASSUME NEW o \in Ops, Answered(o) PROVE TypeOK'
    BY <1>4 DEF Answered
  <1>5. ASSUME NEW o \in Ops, CompleteSuccess(o) PROVE TypeOK'
    BY <1>5 DEF CompleteSuccess
  <1>6. ASSUME NEW o \in Ops, TimedOutLate(o) PROVE TypeOK'
    BY <1>6 DEF TimedOutLate
  <1>7. ASSUME NEW o \in Ops, Failed(o) PROVE TypeOK'
    BY <1>7 DEF Failed
  <1>8. ASSUME NEW o \in Ops, CompleteFailure(o) PROVE TypeOK'
    BY <1>8 DEF CompleteFailure
  <1>9. CASE BackoffEnds
    BY <1>9 DEF BackoffEnds, opVars
  <1>10. CASE UNCHANGED vars
    BY <1>10 DEF vars, opVars
  <1> QED
    BY <1>1, <1>2, <1>3, <1>4, <1>5, <1>6, <1>7, <1>8, <1>9, <1>10
       DEF Next, Report, Settle

\* The probe and the generations: preserved by every step.  That the probe is
\* always current and that a due or open breaker has no current operation are
\* needed together: the first keeps half-open and probe in step when an
\* operation reports, the second when the next probe begins.
LEMMA ProbeStep ==
    Inv /\ [Next]_vars => SingleProbe' /\ OnlyCurrentCounts'
  <1> SUFFICES ASSUME Inv, [Next]_vars PROVE SingleProbe' /\ OnlyCurrentCounts'
    OBVIOUS
  <1> USE DEF Inv, TypeOK, SingleProbe, OnlyCurrentCounts, StillCurrent, Live, Goto
  <1>1. ASSUME NEW o \in Ops, Begin(o)
        PROVE  SingleProbe' /\ OnlyCurrentCounts'
    BY <1>1 DEF Begin
  <1>2. ASSUME NEW o \in Ops, Admit(o)
        PROVE  SingleProbe' /\ OnlyCurrentCounts'
    BY <1>2 DEF Admit
  <1>3. ASSUME NEW o \in Ops, Drop(o)
        PROVE  SingleProbe' /\ OnlyCurrentCounts'
    BY <1>3 DEF Drop
  <1>4. ASSUME NEW o \in Ops, Answered(o)
        PROVE  SingleProbe' /\ OnlyCurrentCounts'
    BY <1>4 DEF Answered
  <1>5. ASSUME NEW o \in Ops, CompleteSuccess(o)
        PROVE  SingleProbe' /\ OnlyCurrentCounts'
    BY <1>5 DEF CompleteSuccess
  <1>6. ASSUME NEW o \in Ops, TimedOutLate(o)
        PROVE  SingleProbe' /\ OnlyCurrentCounts'
    BY <1>6 DEF TimedOutLate
  <1>7. ASSUME NEW o \in Ops, Failed(o)
        PROVE  SingleProbe' /\ OnlyCurrentCounts'
    BY <1>7 DEF Failed
  <1>8. ASSUME NEW o \in Ops, CompleteFailure(o)
        PROVE  SingleProbe' /\ OnlyCurrentCounts'
    BY <1>8 DEF CompleteFailure, Tolerated
  <1>9. CASE BackoffEnds
    BY <1>9 DEF BackoffEnds, opVars
  <1>10. CASE UNCHANGED vars
    BY <1>10 DEF vars, opVars
  <1> QED
    BY <1>1, <1>2, <1>3, <1>4, <1>5, <1>6, <1>7, <1>8, <1>9, <1>10
       DEF Next, Report, Settle

\* The counters keep accounting for the timeouts.
LEMMA SilenceStep == Inv /\ [Next]_vars => SilenceCounted'
  <1> SUFFICES ASSUME Inv, [Next]_vars PROVE SilenceCounted'
    OBVIOUS
  <1> USE BreakerAssumption DEF Inv, TypeOK, SilenceCounted
  <1>1. ASSUME NEW o \in Ops, Begin(o) PROVE SilenceCounted'
    BY <1>1 DEF Begin
  <1>2. ASSUME NEW o \in Ops, Admit(o) PROVE SilenceCounted'
    BY <1>2 DEF Admit
  <1>3. ASSUME NEW o \in Ops, Drop(o) PROVE SilenceCounted'
    BY <1>3 DEF Drop
  <1>4. ASSUME NEW o \in Ops, Answered(o) PROVE SilenceCounted'
    BY <1>4 DEF Answered
  <1>5. ASSUME NEW o \in Ops, CompleteSuccess(o) PROVE SilenceCounted'
    BY <1>5 DEF CompleteSuccess
  <1>6. ASSUME NEW o \in Ops, TimedOutLate(o) PROVE SilenceCounted'
    BY <1>6 DEF TimedOutLate
  <1>7. ASSUME NEW o \in Ops, Failed(o) PROVE SilenceCounted'
    BY <1>7 DEF Failed
  <1>8. ASSUME NEW o \in Ops, CompleteFailure(o) PROVE SilenceCounted'
    BY <1>8 DEF CompleteFailure, Tolerated, OnlyCurrentCounts, StillCurrent, Live
  <1>9. CASE BackoffEnds
    BY <1>9 DEF BackoffEnds
  <1>10. CASE UNCHANGED vars
    BY <1>10 DEF vars
  <1> QED
    BY <1>1, <1>2, <1>3, <1>4, <1>5, <1>6, <1>7, <1>8, <1>9, <1>10
       DEF Next, Report, Settle

\* The invariant holds throughout.
LEMMA Invariance == Spec => []Inv
  <1>1. Inv /\ [Next]_vars => Inv'
    BY TypeStep, ProbeStep, SilenceStep DEF Inv
  <1> QED
    BY InitInv, <1>1, PTL DEF Spec

\* Types: the breakers, the operations under way and the counters keep their
\* types, tokens of cancelled, late and refused operations included.
THEOREM TypeCorrect == Spec => []TypeOK
  <1>1. Inv => TypeOK
    BY DEF Inv
  <1> QED
    BY Invariance, <1>1, PTL

\* Half-open means exactly one probe under way, whatever is cancelled, late
\* or refused (begin_until, cancel_probe, complete_success/failure).
THEOREM ProbeSafety == Spec => []SingleProbe
  <1>1. Inv => SingleProbe
    BY DEF Inv
  <1> QED
    BY Invariance, <1>1, PTL

\* Operations of an older failure generation never count again.
THEOREM GenerationSafety == Spec => []OnlyCurrentCounts
  <1>1. Inv => OnlyCurrentCounts
    BY DEF Inv
  <1> QED
    BY Invariance, <1>1, PTL

\* A real outage opens the capacity breaker after a bounded number of
\* timeouts, also in a process that lags (complete_failure's safety valve).
THEOREM OutageSafety == Spec => []OutageOpens
  <1>1. Inv => OutageOpens
    BY BreakerAssumption DEF Inv, TypeOK, SilenceCounted, OutageOpens
  <1> QED
    BY Invariance, <1>1, PTL

=============================================================================
