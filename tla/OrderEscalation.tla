-------------------------- MODULE OrderEscalation --------------------------
(***************************************************************************)
(* Chasing an order the shop ignores (OrderEscalationService).             *)
(*                                                                         *)
(* The level of an order is derived from its status and its age.  Timers   *)
(* set when it was placed, and a periodic sweep, only decide when to look; *)
(* each look is an escalateTo call that re-reads the order across an       *)
(* `await` and then, in one go, compares, remembers and alerts.  A restart *)
(* loses the timers, the calls in flight and what was announced.           *)
(*                                                                         *)
(* One order, from the commit that placed it.  What happens to it after it *)
(* leaves PENDING is OrderLifecycle's subject and indistinguishable here:  *)
(* CONFIRMED stands for every later stage.                                 *)
(*                                                                         *)
(* The administrator's screen asks for the ignored orders on its own, and  *)
(* is told of them from their status and age alone.                        *)
(***************************************************************************)
EXTENDS OrderPolicy, Naturals, Sequences

CONSTANTS First,        \* ESCALATION.firstAlertSeconds, in ticks
          Admin,        \* ESCALATION.adminAlertSeconds, in ticks
          Skew,         \* ticks the wall clock, which ages orders, may lag the timers
          Calls,        \* slots for escalateTo calls and sweeps in flight
          MaxAge,       \* bound: the order's age is not followed beyond this
          MaxRestarts   \* bound: how often the process restarts

\* `seconds` accepts positive integers only, and asks nothing of their order.
ASSUME ThresholdsAssumption == First \in Nat \ {0} /\ Admin \in Nat \ {0}
ASSUME BoundsAssumption == Skew \in Nat /\ MaxAge \in Nat /\ MaxRestarts \in Nat

VARIABLES
    orderStatus, \* orders.status
    age,        \* ticks since the order was placed, on the API's clock
    placing,    \* whether `create` has yet to run what follows its commit
    confirming, \* where a `confirm` request is
    timers,     \* timers: for each level still armed, the age at which it fires
    announced,  \* announced: the level remembered for the order, 0 if none
    call,       \* the escalateTo calls and sweeps in flight
    alerts,     \* the order.escalation events of this boot, oldest first
    restarts,
    ignored,    \* Admin: whether the order is in its list of ignored ones
    check       \* the answer to Admin's check on its way to it

screen == <<ignored, check>>
escalationVars ==
    <<orderStatus, age, placing, confirming, timers, announced, call, alerts, restarts, screen>>

Levels == {1, 2}
Unarmed == MaxAge + Admin + First + 1        \* later than any timer

\* A call in flight: the query it awaits, the time a sweep noted, the level its
\* caller asked for, and the status it was answered.
Look(at, now, level) == [at |-> at, now |-> now, level |-> level, seen |-> "PENDING"]
NoCall == Look("idle", 0, 0)

-----------------------------------------------------------------------------
ESCALATABLE_STATUSES == {"PENDING"}

escalationLevel(s, now) ==
    CASE s \notin ESCALATABLE_STATUSES -> 0
      [] s \in ESCALATABLE_STATUSES /\ now >= Skew + Admin -> 2
      [] s \in ESCALATABLE_STATUSES /\ now >= Skew + First /\ now < Skew + Admin -> 1
      [] OTHER -> 0

\* clear(orderId): no timers, nothing announced.
clear ==
    /\ timers' = [l \in Levels |-> Unarmed]
    /\ announced' = 0

-----------------------------------------------------------------------------
\* The order has just been committed; `create` resumes later.
EscalationInit ==
    /\ orderStatus = "PENDING"
    /\ age = 0
    /\ placing = TRUE
    /\ confirming = "idle"
    /\ timers = [l \in Levels |-> Unarmed]
    /\ announced = 0
    /\ call = [c \in Calls |-> NoCall]
    /\ alerts = <<>>
    /\ restarts = 0
    /\ ignored = FALSE /\ check = "none"

Tick ==
    /\ age < MaxAge
    /\ age' = age + 1
    /\ UNCHANGED <<orderStatus, placing, confirming, timers, announced, call, alerts, restarts,
                   screen>>

\* What follows the commit in `create`: watchNewOrder arms both timers.
watchNewOrder ==
    /\ placing
    /\ placing' = FALSE
    /\ timers' = [l \in Levels |-> age + (IF l = 1 THEN First ELSE Admin)]
    /\ UNCHANGED <<orderStatus, age, confirming, announced, call, alerts, restarts, screen>>

-----------------------------------------------------------------------------
(* Who deals with the order. *)

\* The customer cancels, or accepts that nothing is left: nobody tells the
\* escalation service.
Cancelled ==
    /\ orderStatus = "PENDING"
    /\ orderStatus' = "CANCELLED"
    /\ UNCHANGED <<age, placing, confirming, timers, announced, call, alerts, restarts, screen>>

\* The shop's confirm: its read, its write (refused on a cancelled order), and
\* the clear that follows the write.
ConfirmRead ==
    /\ confirming = "idle"
    /\ canMoveTo(orderStatus, "CONFIRMED")
    /\ confirming' = "write"
    /\ UNCHANGED <<orderStatus, age, placing, timers, announced, call, alerts, restarts, screen>>

ConfirmCommit ==
    /\ confirming = "write"
    /\ IF orderStatus = "CANCELLED"
       THEN confirming' = "idle" /\ UNCHANGED orderStatus
       ELSE confirming' = "clear" /\ orderStatus' = "CONFIRMED"
    /\ UNCHANGED <<age, placing, timers, announced, call, alerts, restarts, screen>>

ConfirmClear ==
    /\ confirming = "clear"
    /\ confirming' = "idle"
    /\ clear
    /\ UNCHANGED <<orderStatus, age, placing, call, alerts, restarts, screen>>

-----------------------------------------------------------------------------
(* Who looks at it. *)

\* A timer goes off, on time or late, and calls escalateTo.
TimerFires(c, l) ==
    /\ call[c] = NoCall
    /\ timers[l] <= age
    /\ timers' = [timers EXCEPT ![l] = Unarmed]
    /\ call' = [call EXCEPT ![c] = Look("read", 0, l)]
    /\ UNCHANGED <<orderStatus, age, placing, confirming, announced, alerts, restarts, screen>>

\* The interval goes off: the sweep notes the time and asks for pending orders.
SweepStarts(c) ==
    /\ call[c] = NoCall
    /\ call' = [call EXCEPT ![c] = Look("list", age, 0)]
    /\ UNCHANGED <<orderStatus, age, placing, confirming, timers, announced, alerts, restarts,
                   screen>>

\* A sweep that leaves alone the orders somebody was already alerted about.
SweepLists_TrustsAnnounced(c) ==
    /\ call[c].at = "list"
    /\ LET level == escalationLevel(orderStatus, call[c].now)
       IN  call' = [call EXCEPT ![c] =
                      IF level = 0 \/ announced # 0 THEN NoCall
                      ELSE Look("read", 0, level)]
    /\ UNCHANGED <<orderStatus, age, placing, confirming, timers, announced, alerts, restarts,
                   screen>>
\* The list arrives; an order on it that is overdue goes to escalateTo.
SweepLists(c) ==
    /\ call[c].at = "list"
    /\ LET level == escalationLevel(orderStatus, call[c].now)
       IN  call' = [call EXCEPT ![c] =
                      IF level = 0 THEN NoCall
                      ELSE Look("read", 0, level)]
    /\ UNCHANGED <<orderStatus, age, placing, confirming, timers, announced, alerts, restarts,
                   screen>>

(* escalateTo *)

EscalateReads(c) ==
    /\ call[c].at = "read"
    /\ call' = [call EXCEPT ![c] = [@ EXCEPT !.at = "judge", !.seen = orderStatus]]
    /\ UNCHANGED <<orderStatus, age, placing, confirming, timers, announced, alerts, restarts,
                   screen>>

\* The level is 0 by now: stop chasing the order.
EscalateClears(c) ==
    /\ call[c].at = "judge"
    /\ escalationLevel(call[c].seen, age) = 0
    /\ call' = [call EXCEPT ![c] = NoCall]
    /\ clear
    /\ UNCHANGED <<orderStatus, age, placing, confirming, alerts, restarts, screen>>

\* Counting alerts instead of remembering the level they were at.
Announce_Counts(c, level) ==
    /\ announced' = announced + 1
    /\ alerts' = Append(alerts, level)
    /\ call' = [call EXCEPT ![c] = NoCall]
    /\ UNCHANGED <<orderStatus, age, placing, confirming, timers, restarts, screen>>
Announce(c, level) ==
    /\ IF level <= announced
       THEN UNCHANGED <<announced, alerts>>
       ELSE announced' = level /\ alerts' = Append(alerts, level)
    /\ call' = [call EXCEPT ![c] = NoCall]
    /\ UNCHANGED <<orderStatus, age, placing, confirming, timers, restarts, screen>>

\* Taking the caller's word for the level.
EscalateAnnounces_TrustsCaller(c) ==
    /\ call[c].at = "judge"
    /\ escalationLevel(call[c].seen, age) # 0
    /\ Announce(c, call[c].level)
\* The level derived now, from the status just read, is announced unless the
\* order is already at or past it.  The caller's level is not looked at.
EscalateAnnounces(c) ==
    LET level == escalationLevel(call[c].seen, age)
    IN  /\ call[c].at = "judge"
        /\ level # 0
        /\ Announce(c, level)

-----------------------------------------------------------------------------
\* The process dies and comes back: only the database survives.
Restart ==
    /\ restarts < MaxRestarts
    /\ restarts' = restarts + 1
    /\ placing' = FALSE
    /\ confirming' = "idle"
    /\ clear
    /\ call' = [c \in Calls |-> NoCall]
    /\ alerts' = <<>>
    /\ UNCHANGED <<orderStatus, age, screen>>

-----------------------------------------------------------------------------
(* The administrator's screen. *)

\* Only those that somebody must act on, longest waiting first.
findIgnoredOrders == IF escalationLevel(orderStatus, age) = 2 THEN "listed" ELSE "empty"

\* Every 20 seconds, whichever section is open.
Checks ==
    /\ check = "none"
    /\ check' = findIgnoredOrders
    /\ UNCHANGED <<orderStatus, age, placing, confirming, timers, announced, call, alerts, restarts,
                   ignored>>

Hears ==
    /\ check # "none"
    /\ ignored' = (check = "listed") /\ check' = "none"
    /\ UNCHANGED <<orderStatus, age, placing, confirming, timers, announced, call, alerts,
                   restarts>>

\* A failed check does not disturb the administrator.
CheckFails ==
    /\ check # "none"
    /\ check' = "none"
    /\ UNCHANGED <<orderStatus, age, placing, confirming, timers, announced, call, alerts, restarts,
                   ignored>>

-----------------------------------------------------------------------------
CallStep(c) ==
    SweepLists(c) \/ EscalateReads(c) \/ EscalateClears(c) \/ EscalateAnnounces(c)

EscalationNext ==
    \/ Tick \/ watchNewOrder
    \/ Cancelled \/ ConfirmRead \/ ConfirmCommit \/ ConfirmClear
    \/ \E c \in Calls :
          \/ \E l \in Levels : TimerFires(c, l)
          \/ SweepStarts(c) \/ CallStep(c)
    \/ Restart
    \/ Checks \/ Hears \/ CheckFails

EscalationSpec == EscalationInit /\ [][EscalationNext]_escalationVars

\* Time passes, the intervals keep going off, queries are answered, and not every check of the
\* administrator's fails.  Nothing is assumed of the timers, the shop or the customer.
EscalationFairSpec ==
    /\ EscalationSpec
    /\ WF_escalationVars(Tick)
    /\ WF_escalationVars(\E c \in Calls : SweepStarts(c))
    /\ \A c \in Calls : WF_escalationVars(CallStep(c))
    /\ WF_escalationVars(Checks) /\ SF_escalationVars(Hears)

-----------------------------------------------------------------------------
\* Every variable has its type.
EscalationTypeOK ==
    /\ orderStatus \in {"PENDING", "CONFIRMED", "CANCELLED"}
    /\ age \in 0..MaxAge
    /\ placing \in BOOLEAN
    /\ confirming \in {"idle", "write", "clear"}
    /\ timers \in [Levels -> 1..Unarmed]
    /\ announced \in 0..2
    /\ call \in [Calls -> [at : {"idle", "list", "read", "judge"}, now : 0..MaxAge,
                           level : 0..2, seen : {"PENDING", "CONFIRMED", "CANCELLED"}]]
    /\ alerts \in Seq(Levels)
    /\ restarts \in 0..MaxRestarts
    /\ ignored \in BOOLEAN /\ check \in {"none", "empty", "listed"}

\* The admin and the customer are never told too early: what is remembered as
\* announced is at most the level the order's age gives a pending order, though a timer
\* may go off before the wall clock says so.
AnnouncedIsDue == announced <= escalationLevel("PENDING", age)

\* While an order is pending, a boot of the process alerts at each level at most once
\* and never steps back from 2 to 1, however timers and overlapping sweeps interleave.
RingsOncePerLevel ==
    orderStatus = "PENDING" => alerts \in {<<>>, <<1>>, <<2>>, <<1, 2>>}

\* "The sweep, not the timer, is the guarantee": an order that stays ignored is, from
\* some moment on, escalated to the admin in the current boot, whatever timers were
\* lost to a restart or dropped by a clear, and stays on the admin's screen, whatever
\* checks fail or were answered before it was due.
IgnoredIsEscalated ==
    <>[](orderStatus # "PENDING" \/ (ignored /\ \E i \in DOMAIN alerts : alerts[i] = 2))
=============================================================================
