------------------------------ MODULE ScmiClock ------------------------------
(***************************************************************************)
(* A clock that agents share (module/scmi_clock), over the clock HAL       *)
(* without a tree (module/clock) and a driver that answers at once or      *)
(* later.  The protocol keeps what each agent last set, counts the agents  *)
(* that have the clock running, and has one operation of the clock under   *)
(* way at a time; a request that needs none is answered in the handler.    *)
(*                                                                         *)
(* Clocks share nothing but the queue of events, so there is one.  An      *)
(* agent has one channel and waits for its answer before it asks again.    *)
(* The answers to a request that is refused before it concerns the clock   *)
(* (no such clock, no permission, wrong flags) are left out, and so is the *)
(* rate that a build with notifications asks for after a set_rate.         *)
(***************************************************************************)
EXTENDS Naturals, Sequences, FiniteSets, Clock

CONSTANTS
    Agents,         \* The agents.
    GetMayFail,     \* Whether the driver may fail to tell its state or rate.
    StartsMeanwhile \* Whether agents start the clock while another's stop is
                    \* under way.

Requests == {"get", "set_rate", "name"} \cup States  \* a state: set_state

ASSUME ScmiClockAssumption ==
    /\ IsFiniteSet(Agents) /\ None \notin Agents /\ None \notin Requests
    /\ GetMayFail \in BOOLEAN /\ StartsMeanwhile \in BOOLEAN

VARIABLES
    set,     \* set[a]: agent_clock_state_table
    count,   \* dev_clock_ref_count_table
    ops,     \* clock_ops: the service, and what it asks for
    ongoing, \* request.is_ongoing of the HAL
    events,  \* the events of both modules, oldest first
    driver,  \* the call the driver has answered "pending", or None
    hw,      \* the state the clock is really in
    asked,   \* asked[a]: the request agent a waits for, or None
    told,    \* history: told[a] is the state a was last told it has set
    stray    \* history: whether an answer went to nobody who waits for it

scmiVars == <<set, count, ops, ongoing, events, driver, hw, asked, told, stray>>

\* What the HAL calls the driver for.
Calls == Requests \ {"name"}

ScmiEvents == [kind: {"request"}, of: Requests]
          \cup [kind: {"call"}, of: Calls]
          \cup [kind: {"response", "reply"}, of: Calls, ok: BOOLEAN]

ScmiTypeOK ==
    /\ set \in [Agents -> States] /\ count \in 0 .. Cardinality(Agents)
    /\ ops \in [service: Agents \cup {None}, of: Requests \cup {None}]
    /\ ongoing \in BOOLEAN
    /\ events \in Seq(ScmiEvents)
    /\ driver \in Calls \cup {None} /\ hw \in States
    /\ asked \in [Agents -> Requests \cup {None}]
    /\ told \in [Agents -> States] /\ stray \in BOOLEAN

Running(states) == {a \in Agents : states[a] = "RUNNING"}

\* clock_ref_count_init: what is started for some agents runs.
ScmiInit ==
    /\ set \in [Agents -> States]
    /\ count = Cardinality(Running(set))
    /\ hw \in IF count > 0 THEN {"RUNNING"} ELSE States
    /\ ops = [service |-> None, of |-> None]
    /\ ongoing = FALSE /\ events = << >> /\ driver = None
    /\ asked = [a \in Agents |-> None] /\ told = set /\ stray = FALSE

-----------------------------------------------------------------------------
\* The scmi_api's respond: service "a" is answered as of request "r".  What
\* becomes of an answer gone astray is not this module's: the model stops.
ScmiRespond(a, r, ok) ==
    IF a \in Agents /\ asked[a] = r
    THEN /\ asked' = [asked EXCEPT ![a] = None]
         /\ told' = IF r \in States /\ ok THEN [told EXCEPT ![a] = r] ELSE told
         /\ UNCHANGED stray
    ELSE stray' = TRUE /\ UNCHANGED <<asked, told>>

NoAnswer == UNCHANGED <<asked, told, stray>>

\* mod_scmi_clock_state_update
StateUpdate(a, s) ==
    IF set[a] = s THEN UNCHANGED <<set, count>>
    ELSE /\ set' = [set EXCEPT ![a] = s]
         /\ count' = IF s = "RUNNING" THEN count + 1 ELSE count - 1

\* Variant: the first to stop stops the clock.
ExecuteEarly(a, s) == set[a] # s /\ (s = "STOPPED" \/ count = 0)

\* mod_scmi_clock_request_state_check: whether the clock itself is to change.
Execute(a, s) ==
    set[a] # s /\ count = IF s = "RUNNING" THEN 0 ELSE 1

\* clock_ops_set_available
Available == ops' = [ops EXCEPT !.service = None]

\* clock_ops_update_state.  For nobody it comes to nothing.
UpdateOps(r, ok) ==
    IF ok /\ r \in States /\ ops.of \in States /\ ops.service # None
    THEN StateUpdate(ops.service, ops.of)
    ELSE UNCHANGED <<set, count>>

-----------------------------------------------------------------------------
\* scmi_clock_config_set_handler, when the clock needs no change.
SkipSetState(a, s) ==
    /\ ~stray /\ asked[a] = None /\ ~Execute(a, s)
    /\ ~StartsMeanwhile => ~(s = "RUNNING" /\ ops.service # None /\ ops.of = "STOPPED")
    /\ StateUpdate(a, s)
    /\ told' = [told EXCEPT ![a] = s]
    /\ UNCHANGED <<ops, ongoing, events, driver, hw, asked, stray>>

\* The handlers up to create_event_request, which finds the clock available; it
\* answers "busy" otherwise, and nothing changes.
CreateRequest(a, r) ==
    /\ ~stray /\ asked[a] = None
    /\ r \in States => Execute(a, r)
    /\ ops.service = None
    /\ asked' = [asked EXCEPT ![a] = r]
    /\ events' = Append(events, [kind |-> "request", of |-> r])
    /\ ops' = [service |-> a, of |-> r]
    /\ UNCHANGED <<set, count, ongoing, driver, hw, told, stray>>

-----------------------------------------------------------------------------
IsEvent(kind) == ~stray /\ events # << >> /\ Head(events).kind = kind

\* Variant: whatever failed leaves the clock busy.
DoneIfSucceeds(r, ok) ==
    /\ ScmiRespond(ops.service, r, ok)
    /\ UpdateOps(r, ok)
    /\ IF ok THEN Available ELSE UNCHANGED ops

\* process_request_event (mod_scmi_clock.c) of a request that is done when the
\* HAL returns: the agent has its answer, and unless a "get" failed the clock
\* is available.
DoneAtOnce(r, ok) ==
    /\ ScmiRespond(ops.service, r, ok)
    /\ UpdateOps(r, ok)
    /\ IF r = "get" /\ ~ok THEN UNCHANGED ops ELSE Available

Later == NoAnswer /\ UNCHANGED <<set, count, ops>>

\* create_async_request: the driver answers later; the event has the framework
\* hold the answer of the HAL's caller.
Pending(r) ==
    /\ ~ongoing /\ ongoing' = TRUE /\ driver' = r
    /\ events' = Append(Tail(events), [kind |-> "call", of |-> r])

AtOnce == events' = Tail(events) /\ UNCHANGED <<ongoing, driver>>

Request(r) == IsEvent("request") /\ Head(events).of = r

\* The HAL or the driver does what is asked at once, or refuses it.
ServeAtOnce(r) ==
    /\ Request(r) /\ AtOnce
    /\ \E ok \in BOOLEAN :
           /\ r = "name" => ok
           /\ r # "name" /\ ongoing => ~ok
           /\ r = "get" /\ ~ongoing /\ ~GetMayFail => ok
           /\ DoneAtOnce(r, ok)
           /\ hw' = IF ok /\ r \in States THEN r ELSE hw

ServeLater(r) ==
    /\ Request(r) /\ r # "name"
    /\ Pending(r) /\ Later
    /\ UNCHANGED hw

\* process_request_event (mod_clock.c)
HoldResponse ==
    /\ IsEvent("call")
    /\ AtOnce /\ Later /\ UNCHANGED hw

\* The driver is done, and calls request_complete.
RequestComplete ==
    /\ ~stray /\ driver # None
    /\ \E ok \in BOOLEAN :
           /\ events' = Append(events, [kind |-> "response", of |-> driver, ok |-> ok])
           /\ hw' = IF ok /\ driver \in States THEN driver ELSE hw
    /\ driver' = None
    /\ Later /\ UNCHANGED ongoing

\* Variant: an answer of failure is not passed on.
ForwardSuccess ==
    /\ IsEvent("response")
    /\ ongoing' = FALSE
    /\ events' = IF Head(events).ok
                 THEN Append(Tail(events), [Head(events) EXCEPT !.kind = "reply"])
                 ELSE Tail(events)
    /\ Later /\ UNCHANGED <<driver, hw>>

\* process_response_event (mod_clock.c): the held answer goes to the protocol.
ForwardResponse ==
    /\ IsEvent("response")
    /\ ongoing' = FALSE
    /\ events' = Append(Tail(events), [Head(events) EXCEPT !.kind = "reply"])
    /\ Later /\ UNCHANGED <<driver, hw>>

\* process_response_event (mod_scmi_clock.c)
TakeReply ==
    /\ IsEvent("reply")
    /\ LET e == Head(events)
       IN ScmiRespond(ops.service, e.of, e.ok) /\ UpdateOps(e.of, e.ok)
    /\ Available /\ AtOnce /\ UNCHANGED hw

-----------------------------------------------------------------------------
ProcessEvent ==
    \/ \E r \in Requests : ServeAtOnce(r) \/ ServeLater(r)
    \/ HoldResponse
    \/ ForwardResponse
    \/ TakeReply

ScmiNext ==
    \/ \E a \in Agents, s \in States : SkipSetState(a, s)
    \/ \E a \in Agents, r \in Requests : CreateRequest(a, r)
    \/ ProcessEvent
    \/ RequestComplete

ScmiSpec == ScmiInit /\ [][ScmiNext]_scmiVars

\* The framework serves its events, and the driver finishes what it began.
ScmiFairSpec == ScmiSpec /\ WF_scmiVars(ProcessEvent) /\ WF_scmiVars(RequestComplete)

-----------------------------------------------------------------------------
\* The clock has a service on record exactly while that agent waits for what is
\* on record, and one thing is under way that will answer it: an event, or the
\* driver.  Two would answer twice, or somebody who does not wait, or as of
\* another request; none would leave the clock busy for ever.
OneUnderWay ==
    LET things == Cardinality({i \in DOMAIN events : events[i].kind # "call"})
                  + IF driver # None THEN 1 ELSE 0
    IN /\ ScmiTypeOK /\ ~stray
       /\ IF ops.service = None THEN things = 0
          ELSE things = 1 /\ asked[ops.service] = ops.of

\* A service is on record only as long as it waits (the comment of
\* clock_operations: "A 'none' value indicates that there is no pending
\* request").
BusyWhilePending == ops.service # None => asked[ops.service] = ops.of

\* The count is the number of agents on record as having the clock running,
\* whichever of them start or stop it while an operation is under way: it never
\* passes zero.
CountAgrees == count = Cardinality(Running(set))

\* The clock runs for an agent that was told so, until that agent stops it.
ToldRuns ==
    \A a \in Agents : told[a] = "RUNNING" /\ asked[a] # "STOPPED" => hw = "RUNNING"

\* Every request is answered.
EveryRequestAnswered == \A a \in Agents : asked[a] # None ~> asked[a] = None
=============================================================================
