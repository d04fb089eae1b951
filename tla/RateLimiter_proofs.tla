------------------------- MODULE RateLimiter_proofs -------------------------
(***************************************************************************)
(* RateLimiter for every set of callers, interval and horizon: its types,  *)
(* the spacing of the slots, no early admission, no slot used twice, and   *)
(* that it implements Pacer.                                               *)
(***************************************************************************)
EXTENDS RateLimiter, TLAPS

\* What the field next knows about the reservations: it lies an interval after
\* each of them, and exactly an interval after one of them (unless there is
\* none yet).  Neither SlotsSpaced nor PacingSpec is inductive without it.
NextCoversReserved ==
    /\ \A s \in reserved : s + Interval <= next
    /\ next = 0 \/ \E s \in reserved : next = s + Interval

IInv == TypeOK /\ NextCoversReserved /\ SlotsSpaced /\ NeverEarly

\* The slot taken in Wait's critical section is a slot the pacing allows.
LEMMA SlotNowPaced ==
    ASSUME IInv
    PROVE  /\ SlotNow \in Nat
           /\ SlotNow >= now
           /\ NextAfter(SlotNow) \in Nat
           /\ \A s \in reserved : s + Interval <= SlotNow
           /\ SlotNow = now \/ \E s \in reserved : SlotNow = s + Interval
  BY LimiterAssumption
     DEF IInv, TypeOK, NextCoversReserved, SlotNow, NextAfter

LEMMA InitIInv == Init => IInv
<1> SUFFICES ASSUME Init
             PROVE  IInv
  OBVIOUS
<1>1. TypeOK
  BY DEF Init, TypeOK, Places
<1>2. NextCoversReserved /\ SlotsSpaced /\ NeverEarly
  BY DEF Init, NextCoversReserved, SlotsSpaced, NeverEarly
<1>3. QED BY <1>1, <1>2 DEF IInv

LEMMA StepIInv == IInv /\ [Next]_limiterVars => IInv'
<1> SUFFICES ASSUME IInv, [Next]_limiterVars
             PROVE  IInv'
  OBVIOUS
<1> USE LimiterAssumption
<1>1. ASSUME NEW c \in Callers, NEW left \in Deadlines, Reserve(c, left)
      PROVE  IInv'
  <2>1. /\ SlotNow \in Nat
        /\ SlotNow >= now
        /\ NextAfter(SlotNow) = SlotNow + Interval
        /\ \A s \in reserved : s + Interval <= SlotNow
    BY SlotNowPaced DEF NextAfter
  <2>2. left \in Nat /\ ctxEnd' \in [Callers -> Nat]
    BY <1>1 DEF Reserve, IInv, TypeOK
  <2>3. TypeOK'
    BY <1>1, <2>1, <2>2 DEF Reserve, IInv, TypeOK, Places
  <2>4. NextCoversReserved'
    BY <1>1, <2>1 DEF Reserve, IInv, TypeOK, NextCoversReserved
  <2>5. SlotsSpaced'
    BY <1>1, <2>1 DEF Reserve, IInv, TypeOK, SlotsSpaced
  <2>6. NeverEarly'
    BY <1>1, <2>1 DEF Reserve, IInv, TypeOK, NeverEarly
  <2>7. QED BY <2>3, <2>4, <2>5, <2>6 DEF IInv
<1>2. ASSUME NEW c \in Callers, TimerFires(c)
      PROVE  IInv'
  BY <1>2 DEF TimerFires, TimerDue, IInv, TypeOK, NextCoversReserved,
              SlotsSpaced, NeverEarly, Places
<1>3. ASSUME NEW c \in Callers, GiveUp(c) \/ SendRefused(c) \/ CallReturns(c)
      PROVE  IInv'
  <2>1. /\ Forget(c)
        /\ UNCHANGED <<now, next, cancelled, reserved>>
    BY <1>3 DEF GiveUp, SendRefused, CallReturns
  <2>2. TypeOK'
    BY <2>1 DEF Forget, IInv, TypeOK, Places
  <2>3. NextCoversReserved' /\ SlotsSpaced'
    BY <2>1 DEF IInv, NextCoversReserved, SlotsSpaced
  <2>4. NeverEarly'
    BY <2>1 DEF Forget, IInv, TypeOK, NeverEarly
  <2>5. QED BY <2>2, <2>3, <2>4 DEF IInv
<1>4. ASSUME NEW c \in Callers, Send(c)
      PROVE  IInv'
  BY <1>4 DEF Send, IInv, TypeOK, NextCoversReserved, SlotsSpaced, NeverEarly, Places
<1>5. CASE Cancel
  BY <1>5 DEF Cancel, IInv, TypeOK, NextCoversReserved, SlotsSpaced, NeverEarly
<1>6. CASE Elapse
  BY <1>6 DEF Elapse, IInv, TypeOK, NextCoversReserved, SlotsSpaced, NeverEarly
<1>7. CASE UNCHANGED limiterVars
  BY <1>7 DEF limiterVars, IInv, TypeOK, NextCoversReserved, SlotsSpaced, NeverEarly
<1>8. QED
  BY <1>1, <1>2, <1>3, <1>4, <1>5, <1>6, <1>7 DEF Next, Step

LEMMA Invariance == Spec => []IInv
  BY InitIInv, StepIInv, PTL DEF Spec

\* The types of the limiter and of its callers (ratelimit.go:13-17).
THEOREM LimiterTypes == Spec => []TypeOK
  BY Invariance, PTL DEF IInv

\* Slots of one limiter are at least an interval apart, for any number of
\* callers that reserve, give up and come back (ratelimit.go:33-40).
THEOREM LimiterSpacing == Spec => []SlotsSpaced
  BY Invariance, PTL DEF IInv

\* A request never leaves before its slot (ratelimit.go:42-53, client.go:62).
THEOREM LimiterNeverEarly == Spec => []NeverEarly
  BY Invariance, PTL DEF IInv

\* No slot is handed out twice (ratelimit.go:38-39).
THEOREM LimiterSlotsOnce == Spec => SlotsUsedOnce
<1>1. ASSUME IInv, [Next]_limiterVars, Interval > 0, NEW c \in Callers
      PROVE  NewSlot(c)
  <2>1. ASSUME NEW left \in Deadlines, Reserve(c, left)
        PROVE  NewSlot(c)
    <3>1. /\ SlotNow \in Nat
          /\ \A s \in reserved : s + Interval <= SlotNow
      BY <1>1, SlotNowPaced
    <3>2. SlotNow \notin reserved
      BY <3>1, <1>1, LimiterAssumption DEF IInv, TypeOK
    <3>3. QED BY <2>1, <3>2, <1>1 DEF Reserve, NewSlot, IInv, TypeOK
  <2>2. ASSUME NEW d \in Callers \ {c}, Step(d)
        PROVE  pc'[c] = pc[c]
    BY <2>2, <1>1 DEF Step, Reserve, TimerFires, GiveUp, Send, SendRefused,
                      CallReturns, Forget, IInv, TypeOK
  <2>3. ASSUME pc[c] = "idle", Step(c)
        PROVE  \E left \in Deadlines : Reserve(c, left)
    BY <2>3 DEF Step, TimerFires, GiveUp, Send, SendRefused, CallReturns
  <2>4. CASE Cancel \/ Elapse \/ UNCHANGED limiterVars
    BY <2>4 DEF Cancel, Elapse, limiterVars, NewSlot
  <2>5. QED BY <1>1, <2>1, <2>2, <2>3, <2>4 DEF Next, NewSlot
<1>2. IInv /\ [Next]_limiterVars
         => [Interval > 0 => \A c \in Callers : NewSlot(c)]_limiterVars
  BY <1>1
<1>3. QED BY <1>2, Invariance, PTL DEF Spec, SlotsUsedOnce

\* The limiter implements Pacer: its one field hands out exactly the earliest
\* grant the whole history of reservations allows (ratelimit.go:35-39).
THEOREM LimiterPaces == Spec => PacingSpec
<1>1. Init => Pacing!Init
  BY DEF Init, Pacing!Init
<1>2. ASSUME IInv, [Next]_limiterVars
      PROVE  [Pacing!Next]_(Pacing!pacerVars)
  <2>1. ASSUME NEW c \in Callers, NEW left \in Deadlines, Reserve(c, left)
        PROVE  Pacing!Next
    <3>1. /\ SlotNow >= now
          /\ \A s \in reserved : s + Interval <= SlotNow
          /\ SlotNow = now \/ \E s \in reserved : SlotNow = s + Interval
      BY <1>2, SlotNowPaced
    <3>2. Pacing!Grant(SlotNow)
      BY <2>1, <3>1 DEF Reserve, Pacing!Grant, Pacing!Spaced, Pacing!Earliest
    <3>3. SlotNow \in {now} \cup {g + Interval : g \in reserved}
      BY <3>1
    <3>4. QED BY <3>2, <3>3 DEF Pacing!Next
  <2>2. ASSUME NEW c \in Callers,
               \/ TimerFires(c) \/ GiveUp(c) \/ Send(c)
               \/ SendRefused(c) \/ CallReturns(c)
        PROVE  UNCHANGED Pacing!pacerVars
    BY <2>2 DEF TimerFires, GiveUp, Send, SendRefused, CallReturns,
                Pacing!pacerVars
  <2>3. CASE Cancel
    BY <2>3 DEF Cancel, Pacing!pacerVars
  <2>4. CASE Elapse
    BY <2>4 DEF Elapse, Pacing!Elapse, Pacing!Next
  <2>5. CASE UNCHANGED limiterVars
    BY <2>5 DEF limiterVars, Pacing!pacerVars
  <2>6. QED BY <1>2, <2>1, <2>2, <2>3, <2>4, <2>5 DEF Next, Step
<1>3. QED BY <1>1, <1>2, Invariance, PTL DEF Spec, PacingSpec, Pacing!Spec
===============================================================================
