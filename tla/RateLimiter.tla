----------------------------- MODULE RateLimiter -----------------------------
(***************************************************************************)
(* internal/ratelimit and the call path that uses it, evm.Client.Call:     *)
(* one Limiter is shared by every caller of an endpoint.  A caller takes   *)
(* the next free slot under the mutex, sleeps until the slot or until its  *)
(* context ends, and only then sends its request.                          *)
(*                                                                         *)
(* The clock is discrete.  It may advance between any two steps, by any    *)
(* amount: a goroutine can be descheduled anywhere, so a timer is known to *)
(* fire no earlier than it should, never exactly when it should.           *)
(***************************************************************************)
EXTENDS Integers

CONSTANTS Callers,       \* goroutines sharing the limiter
          Interval,      \* Limiter.interval, in clock units
          Deadlines,     \* possible times left on a caller's context
          Horizon        \* bound: the clock and the slots stop here

ASSUME LimiterAssumption ==
    /\ Interval \in Nat
    /\ Horizon \in Nat
    /\ Deadlines \subseteq Nat

VARIABLES now,           \* time.Now()
          next,          \* Limiter.next
          pc,            \* where each caller is in Client.Call
          slot,          \* Wait's local slot
          ctxEnd,        \* when the caller's context expires
          cancelled,     \* the process context, parent of them all, is done
          reserved       \* history: every slot handed out

limiterVars == <<now, next, pc, slot, ctxEnd, cancelled, reserved>>

Places == {"idle", "waiting", "admitted", "requesting"}

TypeOK ==
    /\ now \in Nat
    /\ next \in Nat
    /\ pc \in [Callers -> Places]
    /\ slot \in [Callers -> Nat]
    /\ ctxEnd \in [Callers -> Nat]
    /\ cancelled \in BOOLEAN
    /\ reserved \subseteq Nat

Init ==
    /\ now = 0
    /\ next = 0                      \* the zero time.Time
    /\ pc = [c \in Callers |-> "idle"]
    /\ slot = [c \in Callers |-> 0]
    /\ ctxEnd = [c \in Callers |-> 0]
    /\ cancelled = FALSE
    /\ reserved = {}

CtxDone(c) == cancelled \/ ctxEnd[c] <= now

(***************************************************************************)
(* The critical section of Wait.                                           *)
(***************************************************************************)
SlotUnclamped == next
SlotNow == IF next < now THEN now ELSE next

NextFromOldNext(s) == next + Interval
NextBackwards(s) == s - Interval
NextAfter(s) == s + Interval

\* Wait up to the select: the slot is taken whatever the state of ctx, which
\* nothing has looked at yet.
Reserve(c, left) ==
    /\ pc[c] = "idle"
    /\ NextAfter(SlotNow) <= Horizon
    /\ slot' = [slot EXCEPT ![c] = SlotNow]
    /\ next' = NextAfter(SlotNow)
    /\ reserved' = reserved \cup {SlotNow}
    /\ ctxEnd' = [ctxEnd EXCEPT ![c] = now + left]
    /\ pc' = [pc EXCEPT ![c] = IF SlotNow <= now THEN "admitted" ELSE "waiting"]
    /\ UNCHANGED <<now, cancelled>>

TimerOnTheDot(c) == slot[c] = now
TimerEarly(c) == slot[c] - Interval <= now
TimerDue(c) == slot[c] <= now

TimerFires(c) ==
    /\ pc[c] = "waiting"
    /\ TimerDue(c)
    /\ pc' = [pc EXCEPT ![c] = "admitted"]
    /\ UNCHANGED <<now, next, slot, ctxEnd, cancelled, reserved>>

\* A call is over: its locals go with it.
Forget(c) ==
    /\ pc' = [pc EXCEPT ![c] = "idle"]
    /\ slot' = [slot EXCEPT ![c] = 0]
    /\ ctxEnd' = [ctxEnd EXCEPT ![c] = 0]

\* A caller that gives up keeps its slot: l.next does not go back.
GiveUp(c) ==
    /\ pc[c] = "waiting"
    /\ CtxDone(c)
    /\ Forget(c)
    /\ UNCHANGED <<now, next, cancelled, reserved>>

(***************************************************************************)
(* The rest of Client.Call.                                                *)
(***************************************************************************)
Send(c) ==
    /\ pc[c] = "admitted"
    /\ pc' = [pc EXCEPT ![c] = "requesting"]
    /\ UNCHANGED <<now, next, slot, ctxEnd, cancelled, reserved>>

\* http.Client refuses a request whose context is already done.
SendRefused(c) ==
    /\ pc[c] = "admitted"
    /\ CtxDone(c)
    /\ Forget(c)
    /\ UNCHANGED <<now, next, cancelled, reserved>>

\* An answer, an error or the client's own 15 s timeout.
CallReturns(c) ==
    /\ pc[c] = "requesting"
    /\ Forget(c)
    /\ UNCHANGED <<now, next, cancelled, reserved>>

Cancel ==
    /\ ~cancelled
    /\ cancelled' = TRUE
    /\ UNCHANGED <<now, next, pc, slot, ctxEnd, reserved>>

Elapse ==
    /\ now < Horizon
    /\ now' = now + 1
    /\ UNCHANGED <<next, pc, slot, ctxEnd, cancelled, reserved>>

Step(c) == \/ \E left \in Deadlines : Reserve(c, left)
           \/ TimerFires(c)
           \/ GiveUp(c)
           \/ Send(c)
           \/ SendRefused(c)
           \/ CallReturns(c)

Next == \/ \E c \in Callers : Step(c)
        \/ Cancel
        \/ Elapse

Spec == Init /\ [][Next]_limiterVars

\* Time goes on, and the runtime delivers a due timer or a done context.
FairSpec == /\ Spec
            /\ WF_limiterVars(Elapse)
            /\ \A c \in Callers : WF_limiterVars(TimerFires(c) \/ GiveUp(c))

(***************************************************************************)
(* Properties.                                                             *)
(***************************************************************************)

\* Two reservations are never closer than the interval, whatever the order
\* in which callers reserve, give up and come back (ratelimit.go:33-40).
SlotsSpaced ==
    \A s, t \in reserved : s < t => t - s >= Interval

\* No request leaves before the slot that was reserved for it, on any path
\* out of Wait (ratelimit.go:42-53, client.go:62).
NeverEarly ==
    \A c \in Callers : pc[c] \in {"admitted", "requesting"} => slot[c] <= now

\* A slot is handed out once, so it admits one request: not again after the
\* caller that held it gave up, nor to a caller arriving while the clock stands
\* still (ratelimit.go:38-39).
NewSlot(c) == pc[c] = "idle" /\ pc'[c] # "idle" => slot'[c] \notin reserved
SlotsUsedOnce ==
    [][Interval > 0 => \A c \in Callers : NewSlot(c)]_limiterVars

\* The field next stands for the whole history of reservations: the limiter
\* hands out the earliest slot the pacing allows (ratelimit.go:35-39).
Pacing == INSTANCE Pacer WITH grants <- reserved
PacingSpec == Pacing!Spec

\* Every caller gets out of Wait: at its slot, or when its context ends, even
\* if callers before it gave up (ratelimit.go:48-53).
WaitReturns ==
    \A c \in Callers : pc[c] = "waiting" ~> pc[c] # "waiting"
===============================================================================
