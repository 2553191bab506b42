------------------------------- MODULE FwkCore -------------------------------
(***************************************************************************)
(* The event engine of the framework (framework/src/fwk_core.c and         *)
(* framework/src/fwk_delayed_resp.c): a fixed pool of event structures,    *)
(* the thread's event queue, the interrupt handlers' event queue, one      *)
(* delayed-response list per entity, and the main loop that moves events   *)
(* between them and sleeps when there is none.                             *)
(*                                                                         *)
(* Two actors share this state.  The thread runs the main loop and the     *)
(* event handlers; an interrupt may preempt it between any two of the      *)
(* steps below, and runs to completion.  A section the code runs with      *)
(* interrupts globally disabled is one step, and so is a run of statements *)
(* that touches nothing an interrupt handler touches.                      *)
(*                                                                         *)
(* Modelled is the release build, where fwk_unexpected() does nothing.     *)
(* The event identifier and the parameters are abstracted away.            *)
(***************************************************************************)
EXTENDS Naturals, SequencesExt

CONSTANTS
    Slots,        \* The event structures __fwk_init allocates.
    NoSlot,       \* The NULL event pointer.
    Entities,     \* The modules and elements that exchange events.
    CookieMod,    \* The cookie counter is modulo this, 2^32 in the code.
    MaxCookie,    \* Bound: handlers raise no more events once the counter
                  \* is there.  No bound at all when it is CookieMod.
    LightEvents,  \* Whether modules raise light events.
    LightDelays   \* Whether a handler may delay the response to a light
                  \* event, which doc/framework.md rules out.

ASSUME SlotsAssumption ==
    /\ IsFiniteSet(Slots) /\ Slots # {}
    /\ NoSlot \notin Slots

ASSUME EntitiesAssumption == Entities # {}

\* NULL is not a message between entities either.
ASSUME NoSlotAssumption ==
    NoSlot \notin [source: Entities, target: Entities, isResponse: BOOLEAN,
                   responseRequested: BOOLEAN]

ASSUME CookieAssumption ==
    /\ CookieMod \in Nat \ {0}
    /\ MaxCookie \in Nat

ASSUME LightAssumption == LightEvents \in BOOLEAN /\ LightDelays \in BOOLEAN

-----------------------------------------------------------------------------
\* What the properties tell apart in struct fwk_event.  The flag light is no
\* field of the code: it records that the event was raised as a light event.
Event == [source: Entities, target: Entities, isResponse: BOOLEAN,
          responseRequested: BOOLEAN, isDelayedResponse: BOOLEAN,
          light: BOOLEAN]

Cookies == 0 .. CookieMod - 1

Request(s, t, rr, l) ==
    [source |-> s, target |-> t, isResponse |-> FALSE,
     responseRequested |-> rr, isDelayedResponse |-> FALSE, light |-> l]

\* async_response_event: the request with source and target swapped.
Response(e, delayed) ==
    [source |-> e.target, target |-> e.source, isResponse |-> TRUE,
     responseRequested |-> FALSE, isDelayedResponse |-> delayed,
     light |-> FALSE]

VARIABLES
    event,    \* event[s]: the contents of event structure s
    cookie,   \* cookie[s]: its cookie, which survives in a free structure
    free,     \* ctx.free_event_queue
    queue,    \* ctx.event_queue
    isrQueue, \* ctx.isr_event_queue
    held,     \* held[e]: the delayed_response_list of entity e
    counter,  \* ctx.event_cookie_counter
    current,  \* ctx.current_event
    new,      \* allocated_event of the put_event the thread is in
    moving,   \* isr_event of the process_isr the thread is in
    pc,       \* where the thread is in the main loop
    stage,    \* where the thread is in put_event
    seen,     \* the counter value the thread has loaded in put_event
    wake      \* the event register of the processor, that wfe waits for

lists == <<free, queue, isrQueue, held>>
thread == <<current, new, moving, pc, stage, seen>>
vars == <<event, cookie, lists, counter, thread, wake>>

PCs == {"start", "check", "push", "idle", "suspend", "handle", "respond",
        "free"}
Stages == {"none", "load", "store"}

TypeOK ==
    /\ event \in [Slots -> Event]
    /\ cookie \in [Slots -> Cookies]
    /\ free \in Seq(Slots)
    /\ queue \in Seq(Slots)
    /\ isrQueue \in Seq(Slots)
    /\ held \in [Entities -> Seq(Slots)]
    /\ counter \in Cookies
    /\ current \in Slots \cup {NoSlot}
    /\ new \in Slots \cup {NoSlot}
    /\ moving \in Slots \cup {NoSlot}
    /\ pc \in PCs
    /\ stage \in Stages
    /\ seen \in Cookies
    /\ wake \in BOOLEAN

\* Event structures that hold no event have no contents worth telling apart.
Blank == LET e == CHOOSE e \in Entities : TRUE IN Request(e, e, FALSE, FALSE)

Init ==
    /\ event = [s \in Slots |-> Blank]
    /\ cookie = [s \in Slots |-> 0]
    /\ free \in {f \in [1 .. Cardinality(Slots) -> Slots] : IsInjective(f)}
    /\ queue = <<>>
    /\ isrQueue = <<>>
    /\ held = [e \in Entities |-> <<>>]
    /\ counter = 0
    /\ current = NoSlot
    /\ new = NoSlot
    /\ moving = NoSlot
    /\ pc = "start"
    /\ stage = "none"
    /\ seen = 0
    /\ wake \in BOOLEAN

\* Variant: the counter is read and not incremented.
NextCookieForgotten(c) == c

NextCookie(c) == (c + 1) % CookieMod

\* duplicate_event: take an event structure from the pool and fill it in.
Allocate(e) ==
    /\ free # <<>>
    /\ event' = [event EXCEPT ![Head(free)] = e]
    /\ free' = Tail(free)

-----------------------------------------------------------------------------
\* put_event called by the thread.  While an event is being processed its
\* target is the source of what the handler raises; module start functions
\* name the source themselves.
MayRaise == stage = "none" /\ pc \in {"start", "handle"} /\ counter < MaxCookie

Raiser == IF current = NoSlot THEN Entities ELSE {event[current].target}

\* A standard event: allocated here, given its cookie and queued by the two
\* steps that follow.  With an empty pool the call returns FWK_E_NOMEM and
\* changes nothing.
RaiseEvent ==
    /\ MayRaise
    /\ \E s \in Raiser, t \in Entities, rr \in BOOLEAN :
           Allocate(Request(s, t, rr, FALSE))
    /\ new' = Head(free)
    /\ stage' = "load"
    /\ UNCHANGED <<cookie, queue, isrQueue, held, counter, current, moving, pc,
                   seen, wake>>

\* A light event: the cookie of the structure stays what it was.
RaiseLightEvent ==
    /\ LightEvents
    /\ MayRaise
    /\ \E s \in Raiser, t \in Entities, rr \in BOOLEAN :
           Allocate(Request(s, t, rr, TRUE))
    /\ queue' = Append(queue, Head(free))
    /\ UNCHANGED <<cookie, isrQueue, held, counter, thread, wake>>

\* Variant: fwk_list_remove is forgotten.
RaiseDelayedResponseUnremoved ==
    /\ stage = "none" /\ pc = "handle"
    /\ \E e \in Raiser : \E i \in DOMAIN held[e] :
           /\ \A j \in 1 .. i - 1 : cookie[held[e][j]] # cookie[held[e][i]]
           /\ new' = held[e][i]
    /\ stage' = "load"
    /\ UNCHANGED <<event, cookie, lists, counter, current, moving, pc, seen,
                   wake>>

\* A delayed response: the first one with the cookie in the list of the
\* raising entity leaves the list.  The structure is the one in the list, so
\* the pool is not needed.  A cookie not in the list returns FWK_E_PARAM.
RaiseDelayedResponse ==
    /\ stage = "none" /\ pc = "handle"
    /\ \E e \in Raiser : \E i \in DOMAIN held[e] :
           /\ \A j \in 1 .. i - 1 : cookie[held[e][j]] # cookie[held[e][i]]
           /\ held' = [held EXCEPT ![e] = RemoveAt(@, i)]
           /\ new' = held[e][i]
    /\ stage' = "load"
    /\ UNCHANGED <<event, cookie, free, queue, isrQueue, counter, current,
                   moving, pc, seen, wake>>

\* ctx.event_cookie_counter++ is a load ...
LoadCounter ==
    /\ stage = "load"
    /\ seen' = counter
    /\ stage' = "store"
    /\ UNCHANGED <<event, cookie, lists, counter, current, new, moving, pc,
                   wake>>

\* ... and a store; interrupts are enabled between them.
StoreAndQueue ==
    /\ stage = "store"
    /\ counter' = NextCookie(seen)
    /\ cookie' = [cookie EXCEPT ![new] = seen]
    /\ queue' = Append(queue, new)
    /\ new' = NoSlot
    /\ stage' = "none"
    /\ pc' = IF pc = "respond" THEN "free" ELSE pc
    /\ UNCHANGED <<event, free, isrQueue, held, current, moving, seen, wake>>

-----------------------------------------------------------------------------
\* The main loop.

\* fwk_module_start returns and __fwk_run_main_loop begins.
EnterMainLoop ==
    /\ pc = "start" /\ stage = "none"
    /\ pc' = "check"
    /\ UNCHANGED <<event, cookie, lists, counter, current, new, moving, stage,
                   seen, wake>>

\* process_next_event, up to the call of the handler.
PopEvent ==
    /\ pc = "check" /\ queue # <<>>
    /\ current' = Head(queue)
    /\ queue' = Tail(queue)
    /\ pc' = "handle"
    /\ UNCHANGED <<event, cookie, free, isrQueue, held, counter, new, moving,
                   stage, seen, wake>>

\* The handler returns.  A handler that has to respond may have delayed the
\* response; the result is in the flag of the event structure it was given.
HandlerReturns ==
    /\ pc = "handle" /\ stage = "none"
    /\ \E delay \in BOOLEAN :
           /\ delay => /\ event[current].responseRequested
                       /\ event[current].light => LightDelays
           /\ event' = [event EXCEPT ![current].isDelayedResponse = delay]
    /\ pc' = IF event[current].responseRequested THEN "respond" ELSE "free"
    /\ UNCHANGED <<cookie, lists, counter, current, new, moving, stage, seen,
                   wake>>

\* The response is allocated as any standard event, or is lost: the status of
\* put_event is ignored.
Respond ==
    /\ pc = "respond" /\ stage = "none"
    /\ ~event[current].isDelayedResponse
    /\ IF free # <<>>
       THEN /\ Allocate(Response(event[current], FALSE))
            /\ new' = Head(free)
            /\ stage' = "load"
            /\ pc' = pc
       ELSE /\ pc' = "free"
            /\ UNCHANGED <<event, free, new, stage>>
    /\ UNCHANGED <<cookie, queue, isrQueue, held, counter, current, moving,
                   seen, wake>>

\* Variant: the delayed response goes to the list of the requester.
HoldResponseAtSource ==
    /\ pc = "respond" /\ stage = "none"
    /\ event[current].isDelayedResponse
    /\ IF free # <<>>
       THEN /\ Allocate(Response(event[current], TRUE))
            /\ cookie' = [cookie EXCEPT ![Head(free)] = cookie[current]]
            /\ held' = [held EXCEPT ![event[current].source] =
                            Append(@, Head(free))]
       ELSE UNCHANGED <<event, cookie, free, held>>
    /\ pc' = "free"
    /\ UNCHANGED <<queue, isrQueue, counter, current, new, moving, stage, seen,
                   wake>>

\* A delayed response is kept in the list of the entity that delayed it, with
\* the cookie of the request.  It too is lost when the pool is empty.
HoldResponse ==
    /\ pc = "respond" /\ stage = "none"
    /\ event[current].isDelayedResponse
    /\ IF free # <<>>
       THEN /\ Allocate(Response(event[current], TRUE))
            /\ cookie' = [cookie EXCEPT ![Head(free)] = cookie[current]]
            /\ held' = [held EXCEPT ![event[current].target] =
                            Append(@, Head(free))]
       ELSE UNCHANGED <<event, cookie, free, held>>
    /\ pc' = "free"
    /\ UNCHANGED <<queue, isrQueue, counter, current, new, moving, stage, seen,
                   wake>>

\* The end of process_next_event: free_event.
FreeEvent ==
    /\ pc = "free"
    /\ event' = [event EXCEPT ![current] = Blank]
    /\ free' = Append(free, current)
    /\ current' = NoSlot
    /\ pc' = "check"
    /\ UNCHANGED <<cookie, queue, isrQueue, held, counter, new, moving, stage,
                   seen, wake>>

\* process_isr, run when the event queue is empty: pop one event ...
PopIsrEvent ==
    /\ pc = "check" /\ queue = <<>>
    /\ IF isrQueue # <<>>
       THEN /\ moving' = Head(isrQueue)
            /\ isrQueue' = Tail(isrQueue)
            /\ pc' = "push"
       ELSE /\ pc' = "idle"
            /\ UNCHANGED <<moving, isrQueue>>
    /\ UNCHANGED <<event, cookie, free, queue, held, counter, current, new,
                   stage, seen, wake>>

\* Variant: one pulled event ends fwk_process_event_queue.
PushIsrEventAndStop ==
    /\ pc = "push"
    /\ queue' = Append(queue, moving)
    /\ moving' = NoSlot
    /\ pc' = "idle"
    /\ UNCHANGED <<event, cookie, free, isrQueue, held, counter, current, new,
                   stage, seen, wake>>

\* ... and append it to the event queue.
PushIsrEvent ==
    /\ pc = "push"
    /\ queue' = Append(queue, moving)
    /\ moving' = NoSlot
    /\ pc' = "check"
    /\ UNCHANGED <<event, cookie, free, isrQueue, held, counter, current, new,
                   stage, seen, wake>>

\* Variant: a stale event register is cleared on the way to the wfe.
UnbufferClearing ==
    /\ pc = "idle"
    /\ pc' \in {"check", "suspend"}
    /\ wake' = FALSE
    /\ UNCHANGED <<event, cookie, lists, counter, current, new, moving, stage,
                   seen>>

\* fwk_log_unbuffer: the processor sleeps only when no log character is left.
Unbuffer ==
    /\ pc = "idle"
    /\ pc' \in {"check", "suspend"}
    /\ UNCHANGED <<event, cookie, lists, counter, current, new, moving, stage,
                   seen, wake>>

\* arch_suspend is a wfe: it returns at once, clearing the event register,
\* when the register is set, and otherwise sleeps until it is.
Suspend ==
    /\ pc = "suspend"
    /\ wake
    /\ wake' = FALSE
    /\ pc' = "check"
    /\ UNCHANGED <<event, cookie, lists, counter, current, new, moving, stage,
                   seen>>

-----------------------------------------------------------------------------
\* An interrupt.  Entering and leaving an exception set the event register.

\* An interrupt handler raises a standard event.  None in the repository asks
\* for a response.
IsrRaisesEvent ==
    /\ counter < MaxCookie
    /\ \E s, t \in Entities : Allocate(Request(s, t, FALSE, FALSE))
    /\ cookie' = [cookie EXCEPT ![Head(free)] = counter]
    /\ counter' = NextCookie(counter)
    /\ isrQueue' = Append(isrQueue, Head(free))
    /\ wake' = TRUE
    /\ UNCHANGED <<queue, held, thread>>

\* An interrupt handler raises no event, or finds the pool empty.
IsrRaisesNothing ==
    /\ wake' = TRUE
    /\ UNCHANGED <<event, cookie, lists, counter, thread>>

-----------------------------------------------------------------------------
Raise == RaiseEvent \/ RaiseLightEvent \/ RaiseDelayedResponse

\* What the thread does without a choice of its own.
Loop ==
    \/ LoadCounter \/ StoreAndQueue
    \/ EnterMainLoop \/ PopEvent \/ HandlerReturns \/ Respond \/ HoldResponse
    \/ FreeEvent \/ PopIsrEvent \/ PushIsrEvent \/ Unbuffer \/ Suspend

Isr == IsrRaisesEvent \/ IsrRaisesNothing

Next == Raise \/ Loop \/ Isr

Spec == Init /\ [][Next]_vars

\* The processor runs the thread, and module start functions and event
\* handlers return.  Interrupts are owed nothing.  Light events, which the bound
\* on cookies does not count, come to an end.
FairSpec ==
    /\ Spec
    /\ WF_vars(Loop)
    /\ <>[](\A s \in Slots : ~event[s].light)

-----------------------------------------------------------------------------
(* Properties *)

\* The event structure the thread has its hands on, by role.
InHand == ({current} \cup {new} \cup {moving}) \ {NoSlot}

HeldSlots == UNION {Range(held[e]) : e \in Entities}

\* No event structure is twice in a list, or in two lists of entities.
NoDuplicates ==
    /\ IsInjective(free) /\ IsInjective(queue) /\ IsInjective(isrQueue)
    /\ \A e \in Entities : IsInjective(held[e])
    /\ \A d, e \in Entities : d # e => Range(held[d]) \cap Range(held[e]) = {}

\* No event structure is in two places.
Disjoint ==
    /\ Range(free) \cap Range(queue) = {}
    /\ Range(free) \cap Range(isrQueue) = {}
    /\ Range(free) \cap HeldSlots = {}
    /\ Range(queue) \cap Range(isrQueue) = {}
    /\ Range(queue) \cap HeldSlots = {}
    /\ Range(isrQueue) \cap HeldSlots = {}
    /\ InHand \cap (Range(free) \cup Range(queue) \cup Range(isrQueue)
                    \cup HeldSlots) = {}
    /\ current = new => new = NoSlot
    /\ current = moving => moving = NoSlot
    /\ new = moving => new = NoSlot

\* Every event structure is somewhere.
NoneLost ==
    Slots = Range(free) \cup Range(queue) \cup Range(isrQueue) \cup HeldSlots
            \cup InHand

\* Every event structure of the pool is at all times in exactly one place,
\* whatever the interleaving of thread and interrupts: none leaks, so the pool
\* never shrinks, and none is queued, held, processed or free twice.  The
\* lists are intrusive: a structure in two of them would corrupt both.
Conservation == NoDuplicates /\ Disjoint /\ NoneLost

\* fwk_get_delayed_response and put_event find a delayed response by its
\* cookie: no two responses an entity delays have the same.
DelayedCookiesUnique ==
    \A e \in Entities : \A i, j \in DOMAIN held[e] :
        cookie[held[e][i]] = cookie[held[e][j]] => i = j

\* "Unique event number used to identify an event" (fwk_event.h:62): no two
\* queued standard events have the same cookie.
QueuedCookiesUnique ==
    \A s, t \in Range(queue) \cup Range(isrQueue) :
        /\ ~event[s].light /\ ~event[t].light
        /\ cookie[s] = cookie[t]
        => s = t

\* An interrupt that comes between the last look at the interrupt queue and
\* the wfe is not slept over: the loop is never asleep with an event to pull.
NoLostWakeup == pc = "suspend" /\ isrQueue # <<>> => wake

\* An event queued by thread or interrupt is eventually processed.  Handlers
\* that raise events for ever would starve the interrupt queue: the bound on
\* cookies stands for handlers whose chains of events end.
EventuallyProcessed ==
    \A s \in Slots : s \in Range(queue) \cup Range(isrQueue) ~> current = s

-----------------------------------------------------------------------------
(* FwkCore implements EventService. *)

Message(s) == [source |-> event[s].source, target |-> event[s].target,
               isResponse |-> event[s].isResponse,
               responseRequested |-> event[s].responseRequested]

MessageOrNone(s) == IF s = NoSlot THEN NoSlot ELSE Message(s)

Messages(q) == [i \in DOMAIN q |-> Message(q[i])]

\* The event process_isr has popped and not yet pushed is still the first of
\* the interrupt messages.
IsrMessages ==
    IF moving = NoSlot THEN Messages(isrQueue)
    ELSE <<Message(moving)>> \o Messages(isrQueue)

\* A message is settled once its response has an event structure or is lost.
Settled == pc = "free" \/ (pc = "respond" /\ stage # "none")

HeldMessages == [e \in Entities |-> Messages(held[e])]

Service == INSTANCE EventService WITH
    Capacity <- Cardinality(Slots),
    None <- NoSlot,
    queue <- Messages(queue),
    isrQueue <- IsrMessages,
    serving <- MessageOrNone(current),
    settled <- Settled,
    posting <- MessageOrNone(new),
    owed <- HeldMessages

\* Event structures, cookies, the delayed-response lookup and interrupts in
\* the middle of put_event or process_isr are invisible to the modules: each
\* step of the engine is a step of the event service, or none.
ImplementsService == Service!Spec

=============================================================================
