-------------------------------- MODULE Timer --------------------------------
(***************************************************************************)
(* The alarms of one timer device (module/timer/src/mod_timer.c): a list   *)
(* of active alarms in the order they fall due, a comparator programmed    *)
(* for its head, and the timer's interrupt.                                *)
(*                                                                         *)
(* The thread starts and stops alarms and asks how long to the next one;   *)
(* the interrupt handler fires the head of the list and re-inserts a       *)
(* periodic alarm.  They share the list and are kept apart by disabling    *)
(* the device, not by disabling interrupts.  The thread may call with      *)
(* interrupts globally disabled.                                           *)
(*                                                                         *)
(* Time is relative: due[a] is how many ticks from now alarm a falls due,  *)
(* which a tick of the counter decrements.  The driver is gtimer, whose    *)
(* operations never fail and which has no overflow handler; the interrupt  *)
(* is level-triggered, and latched as pending by the interrupt controller. *)
(***************************************************************************)
EXTENDS Integers, SequencesExt

CONSTANTS
    Alarms,     \* The alarm sub-elements of the timer.
    NoAlarm,    \* No alarm.
    Delays,     \* The delays alarms are started with, in ticks.
    MaxDelay,   \* UINT32_MAX / 1000 ms, in ticks: a longer delay is capped.
    MinDelay,   \* GTIMER_MIN_TIMESTAMP, in ticks.
    MaxLate,    \* Bound: how late an alarm is is told apart up to here.
    Stoppable,  \* The alarms the thread stops.
    SelfStop,   \* The alarms whose callback may stop its own alarm.
    CrossStop,  \* Whether a callback may stop other alarms too.
    Query,      \* Whether the thread calls get_next_alarm_remaining.
    LateIrq,    \* Whether an interrupt raised just before the device was
                \* disabled may be taken just after.
    Careful     \* Whether clients stop alarms, and ask for the next one, only
                \* when there is one in the list, and the thread has interrupts
                \* disabled for it, and to start what a callback may stop.

ASSUME TimerAssumption ==
    /\ NoAlarm \notin Alarms
    /\ IsFiniteSet(Alarms)
    /\ Delays \subseteq Nat
    /\ MaxDelay \in Nat /\ MinDelay \in Nat /\ MaxLate \in Nat
    /\ Stoppable \subseteq Alarms /\ SelfStop \subseteq Alarms
    /\ CrossStop \in BOOLEAN /\ Query \in BOOLEAN
    /\ LateIrq \in BOOLEAN /\ Careful \in BOOLEAN

VARIABLES
    started,    \* started[a]: alarm->started
    activated,  \* activated[a]: alarm->activated
    periodic,   \* periodic[a]: alarm->periodic
    period,     \* period[a]: alarm->microseconds, in ticks
    due,        \* due[a]: alarm->timestamp less the counter
    active,     \* ctx->alarms_active
    enabled,    \* the device is enabled and its interrupt unmasked
    compare,    \* the comparator less the counter
    pending,    \* the interrupt controller's pending state
    masked,     \* interrupts are globally disabled
    pc,         \* where the thread is in a call
    subject,    \* the alarm of the call
    restart,    \* alarm_stop is called from alarm_start
    unexpected, \* timer_isr has run with no active alarm
    rang        \* rang[a]: a's callback has run since a was last inserted

alarmVars == <<started, activated, periodic, period, due, active>>
deviceVars == <<enabled, compare, pending>>
callVars == <<masked, pc, subject, restart>>
vars == <<alarmVars, deviceVars, callVars, unexpected, rang>>

PCs == {"idle", "stop", "stopLocked", "start", "startLock", "startLocked",
        "queryLocked"}

TypeOK ==
    /\ started \in [Alarms -> BOOLEAN]
    /\ activated \in [Alarms -> BOOLEAN]
    /\ periodic \in [Alarms -> BOOLEAN]
    /\ period \in [Alarms -> 0..MaxDelay]
    /\ due \in [Alarms -> Int]
    /\ active \in Seq(Alarms)
    /\ enabled \in BOOLEAN
    /\ compare \in Int
    /\ pending \in BOOLEAN
    /\ masked \in BOOLEAN
    /\ pc \in PCs
    /\ subject \in Alarms \cup {NoAlarm}
    /\ restart \in BOOLEAN
    /\ unexpected \in BOOLEAN
    /\ rang \in [Alarms -> BOOLEAN]

\* gtimer_device_init disables the device; its comparator is 0 out of reset.
Init ==
    /\ started = [a \in Alarms |-> FALSE]
    /\ activated = [a \in Alarms |-> FALSE]
    /\ periodic = [a \in Alarms |-> FALSE]
    /\ period = [a \in Alarms |-> 0]
    /\ due = [a \in Alarms |-> 0]
    /\ active = <<>>
    /\ enabled = FALSE
    /\ compare = 0
    /\ pending = FALSE
    /\ masked = FALSE
    /\ pc = "idle"
    /\ subject = NoAlarm
    /\ restart = FALSE
    /\ unexpected = FALSE
    /\ rang = [a \in Alarms |-> FALSE]

-----------------------------------------------------------------------------
\* Mutant: _insert_alarm_ctx_into_active_queue compares the wrong way round.
InsertByDueReversed(q, a, d) ==
    LET earlier == {i \in DOMAIN q : d[a] >= d[q[i]]}
    IN IF earlier = {} THEN Append(q, a) ELSE InsertAt(q, Min(earlier), a)

\* The list q with alarm a inserted just before the first alarm that falls
\* due no earlier, when the alarms fall due at d.
InsertByDue(q, a, d) ==
    LET later == {i \in DOMAIN q : d[a] <= d[q[i]]}
    IN IF later = {} THEN Append(q, a) ELSE InsertAt(q, Min(later), a)

\* set_timer never programs a time nearer than the minimum.
Compare(q, d) == Max({MinDelay, d[Head(q)]})

\* driver->disable.  No barrier follows the device register's write: a pending
\* interrupt may then find the thread already at work on the list.
Disable ==
    /\ LateIrq \/ masked' \/ ~pending
    /\ enabled' = FALSE

\* The interrupt line is level: while the device is enabled and past its
\* comparator the interrupt controller (re)latches the interrupt.
Asserted(on, c) == on /\ c <= 0

\* Mutant: _configure_timer_with_next_alarm programs the comparator but does not
\* enable the device.
ConfigureWithNextOff(on, latched) ==
    /\ enabled' = on
    /\ compare' = IF active' # <<>> THEN Compare(active', due') ELSE compare
    /\ pending' = (latched \/ Asserted(enabled', compare'))

\* _configure_timer_with_next_alarm for the new list, with the interrupt
\* cleared before or not: an empty list leaves the device as it is.
ConfigureWithNext(on, latched) ==
    /\ enabled' = (active' # <<>> \/ on)
    /\ compare' = IF active' # <<>> THEN Compare(active', due') ELSE compare
    /\ pending' = (latched \/ Asserted(enabled', compare'))

-----------------------------------------------------------------------------
(* The thread: alarm_start, alarm_stop, get_next_alarm_remaining.          *)

\* A client may disable interrupts around its call; a careful one does when
\* a callback could stop the alarm under its hands.
CallMasked(a) == \E m \in BOOLEAN :
    /\ Careful /\ (a \in SelfStop \/ CrossStop) => m
    /\ masked' = m

\* alarm_start reads alarm->started before it disables the device.
CallStart(a) ==
    /\ pc = "idle"
    /\ subject' = a
    /\ restart' = started[a]
    /\ pc' = IF started[a] THEN "stop" ELSE "start"
    /\ CallMasked(a)
    /\ UNCHANGED <<alarmVars, deviceVars, unexpected, rang>>

CallStop(a) ==
    /\ pc = "idle"
    /\ a \in Stoppable
    /\ Careful => activated[a]
    /\ subject' = a
    /\ restart' = FALSE
    /\ pc' = "stop"
    /\ CallMasked(a)
    /\ Careful => masked'
    /\ UNCHANGED <<alarmVars, deviceVars, unexpected, rang>>

Return ==
    /\ pc' = "idle"
    /\ subject' = NoAlarm
    /\ restart' = FALSE
    /\ masked' = FALSE

\* The end of a successful alarm_stop.
StopReturns ==
    IF restart
    THEN /\ pc' = "start"
         /\ restart' = FALSE
         /\ UNCHANGED <<subject, masked>>
    ELSE Return

\* alarm_stop disables the device; a late interrupt's handler may enable it.
StopDisables ==
    /\ pc = "stop"
    /\ pc' = "stopLocked"
    /\ UNCHANGED <<alarmVars, compare, pending, masked, subject, restart,
                   unexpected, rang>>
    /\ Disable

\* The alarm is not started (any more): FWK_E_STATE, from alarm_start too.
StopNotStarted ==
    /\ pc = "stopLocked"
    /\ ~started[subject]
    /\ enabled' = TRUE
    /\ pending' = (pending \/ Asserted(TRUE, compare))
    /\ Return
    /\ UNCHANGED <<alarmVars, compare, unexpected, rang>>

\* Mutant: alarm_stop takes an alarm that has not fired for one that has.
StopFiredAny ==
    /\ pc = "stopLocked"
    /\ started[subject]
    /\ started' = [started EXCEPT ![subject] = FALSE]
    /\ StopReturns
    /\ UNCHANGED <<activated, periodic, period, due, active, deviceVars,
                   unexpected, rang>>

\* The alarm has fired and is not in the list: the code returns at once.
StopFired ==
    /\ pc = "stopLocked"
    /\ started[subject] /\ ~activated[subject]
    /\ started' = [started EXCEPT ![subject] = FALSE]
    /\ StopReturns
    /\ UNCHANGED <<activated, periodic, period, due, active, deviceVars,
                   unexpected, rang>>

\* Mutant: alarm_stop forgets fwk_interrupt_clear_pending.
StopActiveUncleared ==
    /\ pc = "stopLocked"
    /\ started[subject] /\ activated[subject]
    /\ started' = [started EXCEPT ![subject] = FALSE]
    /\ activated' = [activated EXCEPT ![subject] = FALSE]
    /\ active' = RemoveFirst(active, subject)
    /\ UNCHANGED <<periodic, period, due>>
    /\ ConfigureWithNext(enabled, pending)
    /\ StopReturns
    /\ UNCHANGED <<unexpected, rang>>

\* The alarm is in the list: remove it, drop the interrupt it may have
\* caused, and program the device for the next one.
StopActive ==
    /\ pc = "stopLocked"
    /\ started[subject] /\ activated[subject]
    /\ started' = [started EXCEPT ![subject] = FALSE]
    /\ activated' = [activated EXCEPT ![subject] = FALSE]
    /\ active' = RemoveFirst(active, subject)
    /\ UNCHANGED <<periodic, period, due>>
    /\ ConfigureWithNext(enabled, FALSE)
    /\ StopReturns
    /\ UNCHANGED <<unexpected, rang>>

\* Mutant: no cap, and the delay overflows its 32 bits of microseconds.
Uncapped(d) == d

\* alarm_start caps the delay so that it fits in microseconds ...
Capped(d) == Min({d, MaxDelay})

\* ... and fills in the alarm; its time is taken here.
StartFills ==
    /\ pc = "start"
    /\ started' = [started EXCEPT ![subject] = TRUE]
    /\ \E p \in BOOLEAN : periodic' = [periodic EXCEPT ![subject] = p]
    /\ \E d \in Delays :
           /\ period' = [period EXCEPT ![subject] = Capped(d)]
           /\ due' = [due EXCEPT ![subject] = Capped(d)]
    /\ pc' = "startLock"
    /\ UNCHANGED <<activated, active, deviceVars, masked, subject, restart,
                   unexpected, rang>>

StartDisables ==
    /\ pc = "startLock"
    /\ pc' = "startLocked"
    /\ UNCHANGED <<alarmVars, compare, pending, masked, subject, restart,
                   unexpected, rang>>
    /\ Disable

StartInserts ==
    /\ pc = "startLocked"
    /\ active' = InsertByDue(active, subject, due)
    /\ activated' = [activated EXCEPT ![subject] = TRUE]
    /\ rang' = [rang EXCEPT ![subject] = FALSE]
    /\ UNCHANGED <<started, periodic, period, due>>
    /\ ConfigureWithNext(enabled, pending)
    /\ Return
    /\ UNCHANGED unexpected

\* get_next_alarm_remaining disables the device to look at the head ...
CallQuery ==
    /\ pc = "idle" /\ Query
    /\ pc' = "queryLocked"
    /\ masked' \in BOOLEAN
    /\ Careful => active # <<>> /\ masked'
    /\ Disable
    /\ UNCHANGED <<alarmVars, compare, pending, subject, restart, unexpected,
                   rang>>

\* Mutant: get_next_alarm_remaining returns without enabling the device.
QueryEnablesNot ==
    /\ pc = "queryLocked"
    /\ Return
    /\ UNCHANGED <<alarmVars, deviceVars, unexpected, rang>>

\* ... and enables it, whether or not there is one.
QueryEnables ==
    /\ pc = "queryLocked"
    /\ enabled' = TRUE
    /\ pending' = (pending \/ Asserted(TRUE, compare))
    /\ Return
    /\ UNCHANGED <<alarmVars, compare, unexpected, rang>>

-----------------------------------------------------------------------------
(* The timer interrupt and the passage of time.                            *)

\* What the callback of alarm a may stop by calling alarm_stop: nothing, its
\* own alarm, or, with CrossStop, another alarm.
CallbackStops(a) ==
    {NoAlarm} \cup {b \in Alarms : /\ CrossStop \/ (b = a /\ a \in SelfStop)
                                   /\ Careful => started[b]}

\* The periodic alarm's next time.
NextDue(a) == [due EXCEPT ![a] = @ + period[a]]

\* timer_isr pops the head without looking at its time, runs its callback and
\* re-inserts the alarm if it is periodic and was not stopped meanwhile.  An
\* alarm_stop of an alarm that is not started enables the device.
IsrFires ==
    /\ pending /\ ~masked
    /\ active # <<>>
    /\ LET a == Head(active) IN \E stop \in CallbackStops(a) :
           LET again == periodic[a] /\ a # stop /\ started[a]
               rest == RemoveFirst(Tail(active), stop)
               idle == stop # NoAlarm /\ ~started[stop]
           IN /\ started' = [b \in Alarms |-> started[b] /\ b # stop]
              /\ activated' = [b \in Alarms |->
                     activated[b] /\ b # stop /\ (b = a => again)]
              /\ due' = IF again THEN NextDue(a) ELSE due
              /\ active' = IF again THEN InsertByDue(rest, a, due') ELSE rest
              /\ ConfigureWithNext(idle, Asserted(idle, compare))
              /\ rang' = [rang EXCEPT ![a] = TRUE]
    /\ UNCHANGED <<periodic, period, callVars, unexpected>>

\* No alarm is active: fwk_unexpected(), and the device is left disabled.
IsrFindsNone ==
    /\ pending /\ ~masked
    /\ active = <<>>
    /\ enabled' = FALSE
    /\ pending' = FALSE
    /\ unexpected' = TRUE
    /\ UNCHANGED <<alarmVars, compare, callVars, rang>>

\* Alarms whose time matters: those in the list and the one being started.
Timed(a) == activated[a] \/ (subject = a /\ pc \in {"startLock", "startLocked"})

Earlier(t) == IF t > -MaxLate THEN t - 1 ELSE t

Tick ==
    /\ due' = [a \in Alarms |-> IF Timed(a) THEN Earlier(due[a]) ELSE due[a]]
    /\ compare' = Earlier(compare)
    /\ pending' = (pending \/ Asserted(enabled, compare'))
    /\ UNCHANGED <<started, activated, periodic, period, active, enabled,
                   callVars, unexpected, rang>>

-----------------------------------------------------------------------------
Call == CallQuery \/ \E a \in Alarms : CallStart(a) \/ CallStop(a)

Step ==
    \/ StopDisables \/ StopNotStarted \/ StopFired \/ StopActive
    \/ StartFills \/ StartDisables \/ StartInserts \/ QueryEnables

Isr == IsrFires \/ IsrFindsNone

Next == Call \/ Step \/ Isr \/ Tick

Spec == Init /\ [][Next]_vars

\* The counter counts, a call that has begun ends, and an interrupt that is
\* pending and not masked is taken.
FairSpec == Spec /\ WF_vars(Tick) /\ WF_vars(Step) /\ WF_vars(Isr)

-----------------------------------------------------------------------------
(* Properties *)

\* The list holds exactly the alarms flagged activated, once each, in the
\* order they fall due, and the flag agrees however calls and interrupts
\* interleave; no delay of theirs is beyond the cap of alarm_start.
ListInv ==
    /\ TypeOK
    /\ IsInjective(active)
    /\ Range(active) = {a \in Alarms : activated[a]}
    /\ \A i, j \in DOMAIN active : i <= j => due[active[i]] <= due[active[j]]

\* timer_isr fires the head without looking at its time: a pending interrupt
\* must therefore mean that the head is due, also when alarms are stopped and
\* started between the interrupt being latched and being taken.
NoEarlyAlarm == pending /\ active # <<>> => due[Head(active)] <= 0

\* "This will prevent the alarm from triggering" (mod_timer.h:315): an alarm
\* that is going to be fired is not a stopped one.
StoppedDoesNotTrigger == \A a \in Alarms : activated[a] => started[a]

\* Between calls, the device is armed for the head of the list, unless its
\* interrupt is already on the way.
Armed ==
    pc = "idle" /\ active # <<>> =>
        \/ pending
        \/ enabled /\ compare <= Max({MinDelay, due[Head(active)]})

\* "When an alarm is triggered, callback is called" (mod_timer.h:277): once the
\* thread calls no more, an alarm in the list has its callback called, or is
\* stopped by another's.  A thread that starts alarms without end postpones
\* the comparator without end.
AlarmRings ==
    <>[](pc = "idle") =>
        \A a \in Alarms : activated[a] ~> (rang[a] \/ ~activated[a])

\* fwk_unexpected() in timer_isr marks an interrupt with no alarm active as
\* "unreachable in normal operation" (fwk_assert.h:31).
NoUnexpectedInterrupt == ~unexpected

\* The device interrupts for an alarm that is due, neither for a later one nor
\* for none: what alarm_stop's clearing of the interrupt is for.
InterruptsAreDue == NoEarlyAlarm /\ NoUnexpectedInterrupt

=============================================================================
