# A verification project for the SCP firmware

The repository is a fork of the Arm SCP firmware, with MCTP and PLDM modules.
It is a single-threaded, event-driven firmware: a *framework* (`framework/`)
runs *modules* (`module/`), which own *elements* and *sub-elements*, expose
*APIs* (tables of functions, bound at boot) and exchange *events*. One thread
runs everything; interrupt handlers preempt it, and they too call module code
and raise events. Almost everything that can go wrong here and that a unit test
does not reach is an interrupt between two statements, an event in an
unexpected order, an answer that comes late or never, or a fixed pool that runs
out.

This directory models those parts in TLA+, checks the models with TLC and
proves the main results with TLAPS. `PROJECT.json` relates every definition to
the lines it models.

## Inventory

| Part | State | Operations | Talks to |
|---|---|---|---|
| Event engine (`fwk_core.c`, `fwk_delayed_resp.c`) | pool of event structures, thread queue, interrupt queue, a delayed-response list per entity, cookie counter | put event, light event, delayed response; process event; pull interrupt event; sleep | every module, by events; interrupt handlers |
| Notifications (`fwk_notification.c`) | a list of subscriptions per notification and source | subscribe, unsubscribe, notify | event engine |
| Module lifecycle (`fwk_module.c`) | state of each module and element, bind round | init, bind in two rounds, start | every module, at boot |
| Interrupt layer (`fwk_interrupt.c`, `arch/`) | nesting of global disables, ISR parameters | enable, disable, clear pending, current | all |
| Containers (`fwk_ring.c`, `fwk_slist.c`, `fwk_dlist.c`) | ring indices, list links | push, pop, insert, remove | framework, timer, log |
| Log (`fwk_log.c`) | ring of messages, dropped count | buffer, unbuffer one character | main loop |
| Timer (`timer`, driver `gtimer`) | ordered list of active alarms, comparator | start, stop, next alarm, interrupt | clients call it, it calls back in interrupt context |
| Transport (`transport`, `msg_smt`) | lock, buffers and mailbox readiness per channel | signal, respond, transmit, release lock | MHU below; SCMI or MCTP above |
| MHU (`mhu`, `mhu2`, `mhu3`) | doorbell slots | interrupt, raise | transport |
| MCTP (`mctp*`) | endpoint state, channel lock | signal, transmit | transport, vendored library |
| PLDM events (`pldm_fw`) | ring of platform events, the event being read | log, poll for a part, acknowledge, resize | MCTP below, the event receiver beyond |
| Power domains (`power_domain`, `system_power`, `ppu_*`) | requested and current composite state of a tree | set state, report, deny, suspend | drivers by events, notifications |
| SCMI (`scmi*`, `resource_perms`) | agents, pending requests per service | message handlers, deferred answers | transport, HALs |
| Sensor HAL (`sensor`) | number of requests that wait, cookie kept, last reading | get data, driver's completion | drivers in interrupts, readers by delayed responses |
| Clocks (`clock`) | per clock: who needs it, its parent's answer it waits for, one pending driver call | set state and rate, get, walk of the tree, driver's deferred answer | its own events, drivers |
| SCMI clock protocol (`scmi_clock`) | each agent's state of a clock, their count, the one operation under way | set state and rate, get, deferred answer | SCMI above, clock HAL below |
| Other HALs (`psu`, `reset_domain`, `voltage_domain`) | one pending request per device | get, set, driver's deferred answer | drivers, by delayed responses |
| DVFS (`dvfs`) | current level, request, pending request, retry | set level, get level, step | clock, psu, timer |
| Performance (`mpmm`, `thermal_mgmt`, `power_capping`, ...) | limits | periodic steps | dvfs |
| Buses (`i2c`, `spmi`; drivers `dw_apb_i2c`, `cdns_i2c`) | transaction in progress | transmit, receive, completion | controllers, events |
| Boot and shared data (`sds`, `fip`, `bootloader`, `statistics`, `atu`) | tables, regions | sequential | boot |

What is hard:

* *Interrupts.* `put_event` runs in both contexts. Some sections are covered by
  `fwk_interrupt_global_disable`, the cookie counter is not; the timer is
  protected by disabling its device, not interrupts.
* *Lists are intrusive.* The node is in the event or the alarm, so a structure
  that is in two lists corrupts both.
* *Fixed pools.* Events and subscriptions come from pools sized at build time.
* *Late answers.* A handler may leave a response for later, found by a cookie.
* *Sleep.* The main loop sleeps with `wfe` after looking at its queues with
  interrupts enabled.

What makes each part correct:

* event engine: structures are conserved; every event is processed once, in
  the order of its queue; a response goes to whom asked; the loop does not
  sleep over an event;
* timer: the list is ordered and agrees with the flags; no alarm early, none
  forgotten, none after it was stopped; no interrupt for nothing;
* notifications: a subscriber gets each notification at most once, none after
  unsubscribing is complete;
* transport: a channel is locked exactly while a message is in service, and is
  always released; a request made in a mailbox one owns is answered;
* power domains: parent and child states compatible at every step; no
  transition without the agreement it needs; each request is answered;
* I2C, sensor: one thing under way for those who wait, each answered once, with
  its own data;
* DVFS: voltage and frequency compatible at every step, the level asked for last
  wins, no request lost by a retry;
* clocks: a clock runs as long as a child or a client needs it, counts agree with
  who needs it, children know their parent's rate; agents that share a clock are
  answered once, and have it running when told so;
* PLDM events: each event received whole, once and in order, whatever is lost, as
  long as the receiver is told.

## Modules

| Module | What it is |
|---|---|
| `FwkCore` | the event engine, at the grain interrupts can interleave |
| `EventService` | what the engine promises: abstract specification |
| `MCFwkCore` | instances of `FwkCore` for TLC |
| `FwkCoreProofs` | theorems of `FwkCore` |
| `SeqLemmas` | lemmas on the sequence operators the lists use |
| `Timer` | the alarms of one timer device and its interrupt |
| `MCTimer` | instances of `Timer` |
| `TimerPowerProofs` | theorems of `Timer` and of `PowerDomain` |
| `Transport` | out-band channels between an MHU's doorbells and the SCMI service |
| `Mailbox` | what a channel promises its agent: abstract specification |
| `TransportProofs` | theorems of `Transport`: types, lock, doorbells, interrupts, and that it implements `Mailbox` |
| `I2c` | one I2C bus: the HAL, its driver and the interrupt |
| `I2cService` | what the bus promises: a FIFO service |
| `I2cProofs` | theorems of `I2c`, and that it implements `I2cService` |
| `Sensor` | one sensor: readers that share a reading |
| `MonitorProofs` | theorems of `Sensor`, of `PldmEvents`, and that this implements `EventLog` |
| `Dvfs`, `MCDvfs` | one DVFS domain over its supply and clock; instances |
| `DvfsProofs` | theorems of `Dvfs` |
| `PldmEvents` | the log of platform events and its delivery in parts |
| `EventLog` | what the log promises its receiver: abstract specification |
| `PowerDomain`, `MCPowerDomain` | the tree of power domains; instances on Juno's tables |
| `ClockTree`, `MCClockTree` | clocks of a tree that start and stop one another; an instance |
| `ScmiClock` | a clock that agents share: the SCMI protocol over the HAL |
| `Clock` | what the modules about clocks share |
| `ClockProofs` | theorems of `ClockTree` and `ScmiClock` |

### FwkCore

State, and the code it stands for: `free`, `queue`, `isrQueue` are
`ctx.free_event_queue`, `ctx.event_queue` and `ctx.isr_event_queue`; `held[e]`
is the `delayed_response_list` of a module or element; `event` and `cookie` are
the contents of the structures; `counter` is `ctx.event_cookie_counter`;
`current`, `new` and `moving` are the structures the thread has in a local
variable, and `pc` and `stage` say where it is. `wake` is the processor's event
register, which `wfe` waits for and every exception sets.

A step of the model is what the code does without an interrupt being able to
tell: a section with interrupts disabled, or a run of statements that touches
nothing an interrupt handler touches. `put_event` is therefore several steps:
`RaiseEvent` (or `RaiseLightEvent`, `RaiseDelayedResponse`) takes a structure,
`LoadCounter` and `StoreAndQueue` are the unprotected `event_cookie_counter++`.
`IsrRaisesEvent` is a whole interrupt handler that raises a standard event (a light
one, as `mod_scmi.c:237` raises there, leaves the counter alone): interrupts
do not nest here. `PopIsrEvent` and `PushIsrEvent` are `process_isr`,
`PopEvent`, `HandlerReturns`, `Respond`, `HoldResponse`, `FreeEvent` are
`process_next_event`, `Unbuffer` and `Suspend` the sleep at the end of a round of
the main loop. A full pool makes `put_event` return `FWK_E_NOMEM`; the response
of an event is then lost, as in the code.

Abstracted: what an event says (identifier, parameters, notification flag), the
argument checks of debug builds, and that `fwk_unexpected()` stops a debug build
when the pool is empty. A handler may raise any events, any number, in any
order.

`EventService` has messages instead of structures: a message is raised and
posted, served one at a time, answered at once or owed. `FwkCore` implements it
(`ImplementsService`): the refinement mapping drops the structures, puts the
event `process_isr` has in hand back at the head of the interrupt queue, and
counts a message as settled from the moment its response has been allocated or
lost.

### Timer

`active` is the `alarms_active` list, `started`, `activated`, `periodic`,
`period` the fields of an alarm. Time is relative: `due[a]` and `compare` are
distances from the counter, which `Tick` decrements. `enabled` is the device,
`pending` the latch of the interrupt controller, `masked` the global disable a
client may hold around its call.

The thread's calls are split where the interrupt can come: before and after the
device is disabled. `IsrFires` is the whole handler with the callback it calls
and what that callback may do to alarms. Constants say what clients do, so that
each run asks one question: which alarms the thread stops (`Stoppable`), whose
callback stops its own alarm (`SelfStop`) or others (`CrossStop`), whether an
interrupt may be taken just after the device has been disabled (`LateIrq`), and
whether clients are `Careful`.

The comparator is never programmed nearer than `MinDelay` ticks. Lateness is
told apart only up to `MaxLate` ticks: an alarm later than that counts as
`MaxLate` late, so a periodic alarm catches up that much at most.

### Transport

One module holds three layers, because their faults are in how they interleave:
`mhu_isr` and `raise_interrupt` of `mhu`; `transport_signal_message`, the
message handler, `transport_respond` and `transport_mailbox_init` of
`transport`; `signal_message`, `signal_error` and `scmi_process_event` of `scmi`.
The actors are the agents, which run on other processors and so step at any
moment; the MHU's interrupt handler, which steps between any two steps of the
thread; and the thread, which steps only while the handler is not active.
`pc[a]` and `subject[a]` say where the thread or the handler is, and for which
channel.

`mailbox[c]` is the shared memory; `ready`, `locked`, `in`, `out` are the fields
of `transport_channel_ctx`; `stat` is the MHU's STAT register; `queue` the events
that wait for `scmi_process_event`; `deferred` and `result` what protocol modules
still owe. `transport_respond` is three steps, in the handler as in the thread:
`CopyResponse`; `FreeMailbox`, the section with interrupts disabled; and
`RaiseInterrupt`, which reads the flags again from the shared mailbox.
`IsrSignals` is one look of the handler at a slot: it refuses the doorbell, has
it answered with an error, queues an event, or finds the pool of events empty.

`transport_mailbox_init` is two steps: `InitMailbox` writes the mailbox, which is
the agent's from then on, and `MailboxReady` sets `out_band_mailbox_ready`. The
handler may run in between (`mhu_start` has enabled the interrupt, and modules
start with interrupts on), and agents step at any moment: a request written and
rung there is discarded with `FWK_SUCCESS`, and its doorbell cleared.
`discarded`, a history, holds the channels whose last request went that way, so
that `NoLostDoorbell` and `EveryRequestAnswered` can say that no other is lost. The
mailbox itself is taken to be written in one step. The order of its words is the
compiler's; an agent that saw FREE before the others were cleared could have
its request cleared with them, which is not modelled.

A message is its token, which follows it through the header and which the answer
carries back, and its payload, named by the token of its request; so an answer
given to the wrong request is told apart. A channel has one request at a time,
so two tokens in turn are enough. The mailbox's length is whether it is within
limits. When a protocol module answers is left open: within the event, or in a
later one, in any order. It answers exactly once, which is what the rest of the
firmware requires of it and what its own code would have to show.

Agents are not part of the repository. They wait for the status to read as free,
write a request, ring, and take the answer on an interrupt or by polling. Out of
reset the status reads as busy. `Spurious` adds doorbells that no request
explains.

`Mailbox` has a mailbox change hands: closed, free, asked, taken, free again with
the answer to what was asked. `Transport` maps onto it without history: the phase
is read off the FREE bit, the lock and `Opened`, which holds of a channel from
`InitMailbox` on. A request that is discarded has been asked and is not taken.

### I2c

`state`, `request` and `held` are `ctx->state`, `ctx->request` and the
framework's list of delayed responses, which the module reads back as its queue
of requests. The event handler is split where it calls the driver or sends a
response (`pc`, and `caller` for which of `process_event`, the completion and
`process_next_request` it is in), since `i2c_isr` may come between any two of
these steps. The driver starts a transfer, refuses it, or, with `SyncDriver`,
completes it at once as the interface of drivers allows. `reading` is the
driver's `data` while `read_on_going`. Histories say which transfers were made
for the request in service, whose buffer was filled and what each client was
told. `I2cService` has requests wait in a line whose head is served and answered.

### Sensor

`pending`, `dequeuing`, `cookie` and `last` are the fields of `sensor_dev_ctx`.
`get_data` is one step when it answers, and otherwise two or three, because the
driver's interrupt (`ReadingComplete`) may come before its event is put.
Readings are numbered; `since` remembers the last one given out when a request
was made. With `Overlap` a reader may call while the event of another is still
queued, and with `QuickDriver` the interrupt may come before `get_value`'s
result is stored: see the findings.

### Dvfs

`state`, `current`, `request`, `pending`, `has` and the domain's events are those
of the code; an operating point is its level. The handler stops where it calls
the supply or the clock (`pc = "call"`, `calls` being what is left to do), as the
hardware is between two levels there; each call succeeds, fails, or is answered
later. `supply` and `clock` are the real voltage and frequency, which the domain
knows only by what it has recorded. Clients call between two events, with any
level. `Revert` lets them ask for the current level while a change to another
one is under way: see the findings. A client that reads the level is answered
within its event, if the supply answers at once, or by a delayed response, found
by the cookie of that event. It is a light event, which the framework gives no
cookie: it has the one its structure last bore, and zero in a structure that has
borne none. `owed` says which; `dvfs_complete_respond` takes a zero for no delayed
response, and nobody is answered.

### PldmEvents

`ring` is `event_queue` with its indices, `event` the static variables of
`handle_pldm_poll_for_platform_event_message`, which hold an event from its first
part to its acknowledgement. One handler call is one action. The receiver is
external; it does what the protocol (DSP0248) says a receiver does: it polls when told, puts
parts together, acknowledges, goes on while it is told there is more, and asks
again after a time when a message was lost. A byte is the event it belongs to and
its place, so parts that are mixed up, lost or repeated are told apart. The notice
that has the receiver poll goes once: `LogEvent` may find no structure for its event
(the code asserts that there is one, which a release build does not check),
and `NotifyReceiver` may lose it on the transport, as `Lose` loses requests
and replies; `send_pldm_packet` does not look at the result, nothing
acknowledges it, and nothing repeats it. An event of an unsupported class, which the code logs with no contents, is not modelled.
`EventLog` offers events in turn, gives each once, and may discard the oldest.

### PowerDomain

`pd[d]` is the `pd_ctx`, with the contexts of its two notifications; `before` and
`after` are their numbers of pending responses. `driver[d]` is the state a driver
is making for and `hw[d]` the state it is in. A handler is one action; the walks
over the tree and the calls they make are operators on a record of what the
handler changes (`Walk`), from the level of a composite request (`SetLevel`) to
the start of a neighbour's transition on a report (`Propagate`). Their loops, over
the levels (`SetLevels`) and over the children (`StartChildren`), are recursive
functions, so that they can be proved about. Drivers may
refuse a transition, entities may disagree (`MayFail`); `lost` says that a
transition a request had left for later was refused.

Unless `Overlap`, clients ask for a domain only when it, its parent and its
children are at rest and no suspension is going on, and for suspension only
when everything is: see the findings for what happens otherwise. In the passing
run no domain tells entities before a transition whose neighbour tells them
after one, and no composite request takes one domain deeper and another
shallower, because the code does not finish these: of a request whose lowest
domain gets deeper and whose parent gets shallower, the second waits for a
report that does not come.

`CoreAssumption` is what the tables of every product say of cores
(`config_power_domain.c`): nothing is below a core, and under a state of the cluster
in which a core may be in any state, it may be off. `ProcessSuspend` relies on it,
since it switches the last core off without a look at the tables
(`mod_power_domain.c:752`). The specification is `PdSpec`: it shares no name with
`Timer`, so that one module of proofs extends both.

### ClockTree

`clk[c]` is the `clock_dev_ctx`: `ref_count`, whether it is in `WAIT_PARENT`,
`caller_id` and `is_transition_initiator`. There is one action for each case of
`clock_management_process_state`, named for what the clock does: `OneMore`,
`OneLess`, `LastStops`, `AskParent`, `TurnAway` and so on. `Answer` is
`clk_mgmt_complete_response`, which answers the client or the child that asked.
`want[c]` and `holds[c]` say what the client of a clock waits for and how often it
has been told that the clock runs; `missed[c]` counts the children's stops that
were lost because the driver could not tell the clock's state. Rates go down
the tree by events of their own. What a client is sent for an event that is not
its call is left out, because it goes to nobody who waits for it.

### ScmiClock

`set` and `count` are `agent_clock_state_table` and `dev_clock_ref_count_table`,
`ops` the `clock_operations` of the clock, `ongoing` the HAL's `request`. A request
goes through the queue of events up to three times: as `request` of the protocol,
as `call` by which the framework holds the HAL's answer, and back as `response` of
the HAL and `reply` to the protocol; or it is done at the first (`ServeAtOnce`).
`asked` and `told` are the agents' sides. Its specification is `ScmiSpec`: it shares no
name with `ClockTree`, so that one module of proofs extends both.

## Runs

| Run | Question | Bounds |
|---|---|---|
| `core_service` | are structures conserved, does the loop never sleep over an event, are held responses told apart, is it the abstract service, is every queued event processed? | 3 structures, 2 entities, 2 standard events at most |
| `timer_list` | do the list and its flags survive any client? | 3 alarms, delays of 0 and beyond the cap |
| `timer_careful` | with careful clients, is no alarm early, no interrupt for nothing, and does every alarm ring? | 2 alarms, one whose callback stops it |
| `transport_mailbox` | does a channel implement the abstract mailbox, and stay locked while an answer is owed? | 2 channels, anything may go wrong |
| `transport_doorbell` | is a channel locked exactly while a message is in service, no interrupt early, and, but for a request that is discarded before its channel is marked ready, no doorbell lost and every request answered? | 2 channels, well-formed messages, no event lost |
| `i2c_bus` | do the three ways to complete a transfer agree, is a buffer filled before success is told, is it a FIFO service, is every client answered? | 3 requests of any kind, any driver |
| `sensor_readers` | are those who wait counted, is data fresh, is every reader answered? | 4 readers, room for 3 |
| `dvfs_domain` | is the frequency supported at every step, is a domain where it says, does the last request win, is a reader whose event has a cookie answered? | 3 levels, 5 calls, any failure, with and without the retry alarm |
| `pldm_delivery` | is each event received whole, once, in order, and is one notice that arrives enough for all? | ring of 2, 5 events of 1 to 3 parts, 2 losses of requests, replies or notices, 1 change of buffer, ids that wrap |
| `power_tree` | are neighbours compatible at every moment, is agreement waited for, is a request taken as far as it can be, answered and carried out? | 2 cores, cluster, system; 4 requests, any refusal |
| `clock_tree` | does what is needed run, do the counts agree, do children hear their parent's rate last, is every client answered? | 4 clocks; 4 starts and stops, or 3 changes of rate, or one of each; starts and reads that fail |
| `scmi_clock_shared` | is one thing under way for the agent on record, does the clock run for those told so, is every request answered? | 3 agents, any driver that can be read |

Three structures are enough for the event being processed, the one being put or
pulled and one in a list, and for the pool to run out; two entities give a
requester and a responder, each in either role and both at once. Two alarms give
a head and another; three, an insertion in the middle. Two channels give the
slot that `mhu_isr` takes first and the one that waits for it; nothing relates
channels but the handler, the thread and the queue. Nothing bounds the
behaviours of `Transport`. In `transport_mailbox` channel 1 has an agent
that asks now for an interrupt and now polls; in the others channel 0
asks for interrupts and channel 1 polls. An agent that mixes both may be
interrupted early, by the flags of its next request: `InterruptMeansDone` holds
for agents that keep to one.

The runs of the engine bound the number of standard events by `MaxCookie`; that
the cookie counter wraps is left to the theorems, which hold for any width. This
bound also ends chains of events in `core_service`, whose `EventuallyProcessed`
needs it: `fwk_process_event_queue` pulls an interrupt's event only when the
thread's queue is empty, so handlers that raise events for ever do starve
interrupts. Light events are not counted by it; for them `FairSpec` says that
they come to an end.

Three I2C requests are one in service, one at the head of those that wait and one
behind it, which is what `process_next_request` and its reload event tell apart.
Four readers pass the limit of three. Three levels give a voltage above and one
below the current one, and a third for a request that overwrites; five calls are
enough for one in service, one pending, one that overwrites it and requests after
a failure. `MaxRetries` is the code's. A ring of two discards its oldest event,
sizes of 2 and 4 bytes with buffers of 2 and 3 give one part to three and the
boundary where the checksum has to wait for an empty last part; `ReservedId = 5`
has ids wrap; two losses drop a notice and a message of the delivery that a later
notice starts, or a request and the reply to its repetition. Four requests on the tree are enough for one that turns a transition
round and a suspension.

Four clocks, a root, its child and two children of that, are the tree of
`clock_management_framework.md`: two siblings meet at a clock which itself has to
wait for its parent. Four calls start and stop both; three changes of rate put two
under way above a third. `MCPlans` bounds calls of either kind, which meet in the
queue only. Three agents are the first and the last to hold a clock and one
in between; nothing bounds `ScmiClock`. It asks of agents and drivers what the
findings show to be needed: nobody starts a clock whose last holder's stop is under
way (`StartsMeanwhile`), and a driver can be read (`GetMayFail`). `ClockTree` asks that
drivers do not fail to stop a clock or to set a rate.

The type invariants are conjuncts of an invariant of a run (`ListInv`,
`Accounting`, `OneInFlight`, `TreeSafe`, `RefsAgree`, `OneUnderWay`), or theorems
(`FwkCore`, `Transport`, `Dvfs`, `PldmEvents`).

Fairness. `FwkCore` assumes only that the thread runs and handlers return
(`WF_vars(Loop)`); nothing is assumed of interrupts. `Timer` assumes that the
counter counts, that a call that has begun ends and that an unmasked pending
interrupt is taken. `Transport` assumes that the handler is entered and goes on
(weak), that the thread takes its events and finishes its answers although
interrupts suspend it again and again (strong: its steps are disabled while the
handler is active, and the processor returns to it each time), and that an agent
which has posted rings, and which finds its answer takes it. Nothing makes an
agent ask; `transport_doorbell` says `CHECK_DEADLOCK FALSE` because all agents may
wait for answers to requests that were discarded, and nothing is left to happen. `I2c`, `Sensor` and `Dvfs` assume that the main loop keeps running and
that the controller, the driver, the supply and the clock end what they started
(no timeout in this code ends it for them). `PldmEvents` assumes that messages and
events are handled and that the receiver goes on asking; the number of losses is
bounded. `PowerDomain` assumes that the event queue is served and that drivers
and entities answer; its conditions are stated on one variable each (whatever
takes the head of the queue is the service of an event), which TLC evaluates much
faster than the enabling of whole walks. `ClockTree` and `ScmiClock` assume that
events are served and that a driver which has said that it answers later does. `CHECK_DEADLOCK FALSE` is said where
clients are bounded and everything may come to rest.

## Findings

These are configurations kept beside the runs, each of which TLC refutes with
`tlc -config <configuration> <module>`:

| Configuration | Module | Property | What happens |
|---|---|---|---|
| `FwkCore_cookie_race.cfg` | `MCFwkCore` | `QueuedCookiesUnique` | the cookie counter is incremented without a lock (`fwk_core.c:142`): two queued events may have the same cookie, which a delayed response to either would take |
| `FwkCore_light_delay.cfg` | `MCFwkCore` | `DelayedCookiesUnique` | `duplicate_event` leaves a light event the cookie of its structure's previous user; `doc/framework.md` excludes light events from delayed responses, but `mod_psu.c:95` and `:424` use them so |
| `Timer_stop_fired.cfg` | `MCTimer` | `Armed` | `alarm_stop` of an alarm that has fired returns with the device disabled (`mod_timer.c:442`): other alarms do not ring until some call arms it |
| `Timer_stop_race.cfg` | `MCTimer` | `StoppedDoesNotTrigger` | `alarm_start` does not see that a callback has stopped the alarm between its two halves (`mod_timer.c:522`) |
| `Transport_full_pool.cfg` | `Transport` | `LockReleased` | a message whose event finds the pool empty leaves its channel locked for ever (`mod_transport.c:745`) |
| `Transport_lost_doorbell.cfg` | `Transport` | `NoLostDoorbell` | `mhu_isr` clears a doorbell after the message has been dealt with; a message of a wrong length is answered before, so its agent may ring again and not be heard (`mod_mhu.c:112`) |
| `Transport_early.cfg` | `Transport` | `NothingDiscarded` | `transport_mailbox_init` gives the mailbox to the agent before it marks the channel ready (`mod_transport.c:820`): a request rung in between is discarded with `FWK_SUCCESS`, its doorbell is cleared, and its agent waits for ever |
| `I2c_late_fill.cfg` | `I2c` | `NoLateFill` | `receive_as_controller` records the buffer before the controller refuses; the success of a later transmission then fills the buffer of a client long answered (`mod_dw_apb_i2c.c:205`) |
| `Sensor_two_readers.cfg` | `Sensor` | `EventuallyAnswered` | a second reader that calls before the first one's event is processed makes two pending: no cookie is kept, and the completion answers nobody (`mod_sensor.c:693`) |
| `Dvfs_retry.cfg` | `MCDvfs` | `FailedIsRetried` | `dvfs_set_level_start` drops a request equal to the one in the context, which a failed request that is to be retried always is: it is never tried again (`mod_dvfs.c:165`) |
| `Dvfs_revert.cfg` | `MCDvfs` | `LastRequestWins` | a request for the current level is dropped while a change to another level is under way (`mod_dvfs.c:268`), which then wins, against `module_dvfs_architecture.md:46` |
| `Dvfs_zero_cookie.cfg` | `MCDvfs` | `EveryReaderAnswered` | a late answer to a client that reads the level is given only if the cookie of its event is not zero (`mod_dvfs.c:522`), and that of a light event in a structure never used is, against the comment of `:434` |
| `PldmEvents_lost_notice.cfg` | `PldmEvents` | `EventuallyDelivered` | the receiver is told of an event by one notice, whose sending is neither checked (`mod_pldm_fw.c:195`) nor repeated: when it is lost the event stays in the ring until another is logged |
| `PowerDomain_agreement.cfg` | `MCPowerDomain` | `AgreedFirst` | a transition that waits for agreement is started when a neighbour's notification is answered, since `valid` and no disagreement yet is taken for agreement (`power_domain_notifications.c:31`) |
| `PowerDomain_overlap.cfg` | `MCPowerDomain` | `TreeSafe` | the report of a transition that a newer request has overtaken sets `current_state` to the newer state (`mod_power_domain.c:626`), and a neighbour starts too early |
| `ClockTree_overlap.cfg` | `MCClockTree` | `EveryoneAnswered` | `clock_set_state` makes its clock the initiator when it is called, although events of children may be queued before its own (`mod_clock.c:401`): the client is answered for the child's transition, and the child and its client wait for ever |
| `ScmiClock_start_stop.cfg` | `ScmiClock` | `ToldRuns` | while the last holder's stop is under way the count is still one, so another agent's RUNNING is answered SUCCESS without touching the clock, which then stops (`mod_scmi_clock.c:349`) |
| `ScmiClock_failed_get.cfg` | `ScmiClock` | `BusyWhilePending` | a get that fails at once is answered, but its service stays on record (`mod_scmi_clock.c:1937`), against the comment of `:41`: every later operation of the clock is answered BUSY |

`clock_tree` is refuted by four changes of a constant too. With `Fails = {"stop"}`
a clock that could not be stopped tells its parent that it has, which stops under
it (`clock_tree_management.c:194`), against
`clock_management_framework.md:28`. With `StopUnheld` a stop of a clock that runs
since boot takes its count from zero to the largest value (`:179`), and one that
comes before other holders' takes theirs. With `Fails = {"rate"}` or `Rounds` the
children are told the rate asked for and not the one their parent has
(`mod_clock.c:258`). In a build with notifications `clock_set_rate` returns success
and has the driver's later answer delivered all the same (`mod_clock.c:301`):
`scmi_clock` takes it for the answer to whatever is under way then. `ScmiClock` is
of a build without.

With `QuickDriver` `Sensor` also violates `FreshData`: `get_data` stores the
`FWK_PENDING` of `get_value` over the status the interrupt has already reported
(`mod_sensor.c:197`). Where one of these conditions is needed, the passing run
states it by its constants (`Overlap`, `Revert`, `QuickDriver`, `LightDelays` and
so on), and the properties hold in everything else.

Further hazards were seen and are not covered by a property: the 32-bit cookie
wraps (`fwk_core.c:142`); a periodic alarm of period zero starves the others
(`mod_timer.c:580`); a request written before its mailbox is initialised, by an
agent that does not wait for the status, is overwritten (`mod_transport.c:807`); an event that cannot be put after a reading
was started leaves a sensor dequeuing (`mod_sensor.c:227`), and an alarm or event
that cannot be had leaves a DVFS domain busy (`mod_dvfs.c:237`); a part that is start and end may pass the receiver's buffer by
its checksum (`mod_pldm_fw.c:1515`); MCTP over PCC returns early with the channel
locked (`mctp_pcc.c`); one child that may not start ends the walk over its siblings
(`mod_power_domain.c:573`).

What `Careful` asks of the timer's clients is needed too. `alarm_stop` of an alarm
that is not started, and `get_next_alarm_remaining` with none in the list, enable
the idle device with its old comparator, whose interrupt comes at once. With
`Careful = FALSE`, `timer_careful` finds it in `fwk_unexpected()`, or still latched
when the next alarm is started and fires that one early. `LateIrq` is off in that
run: a late interrupt in the middle of `alarm_start` of a started alarm may leave
the device enabled with an empty list, to the same effect.

## Proofs

`FwkCoreProofs` proves, for every finite non-empty pool, every non-empty set of
entities and every cookie width:

* `TypeCorrect`: `Spec => [](TypeOK /\ HandsInv)`. `HandsInv` says which
  structures the thread has in hand at each `pc` and `stage`: it is needed since
  `TypeOK` alone lets `current` be `NoSlot` while a handler runs.
* `PoolConserved`: `Spec => []Conservation`, whose induction rests on
  `TypeCorrect`. It goes action by action, each one a move of one structure
  from one place to another, by lemmas on `Append`, `Tail` and `RemoveAt`
  (`SeqLemmas`).
* `NeverSleepsOverEvent`: `Spec => []NoLostWakeup`, by itself inductive once
  interrupts are seen to set `wake` and only `Suspend` to clear it.
* `DelayedResponsesFound`: while no handler delays the response to a light event
  (`~LightDelays`; `FwkCore_light_delay.cfg` shows why), `Spec /\ []NotWrapped =>
  []DelayedCookiesUnique`. `NotWrapped`, that the cookie counter does not come to its
  last value, is a hypothesis on the behaviour: a response held while 2^32 events
  go by does meet its cookie again. What keeps cookies apart is that the thread's own
  only grow: `put_event`'s store may set the counter back over what interrupts took
  meanwhile, but never to a value the thread has used, and interrupt handlers ask
  for no response. `CookieInv` says so of every structure that is held or may come
  to be (`Identified`).
* `EngineServes`: `Spec => ImplementsService`, with no condition. Each list maps to
  the messages it holds; the event `process_isr` has popped and not yet pushed is
  still the first of the interrupts' messages, so that `PopIsrEvent` stutters and
  `PushIsrEvent` is the service's step. One lemma for each action says which of the
  service's steps it is. The service's capacity comes from `Conservation`: `Load` is
  the number of structures that are not free, so the pool is empty exactly when the
  service may lose a response.

Its assumptions are those `FwkCore` names. `NoSlotAssumption` only says that the
null pointer is none of the messages, which are records.

`TimerPowerProofs` proves of `Timer`, for any set of alarms and any delays:

* `ListCorrect` and `StoppedStaysSilent`: `Spec => []ListInv` and
  `Spec => []StoppedDoesNotTrigger`, when `CallbacksKept`: callbacks stop no alarm
  but their own, or the clients mask interrupts (`Timer_stop_race.cfg` is the
  counterexample without). `IInv` adds what each stage of a call may rely on
  (`InCall`: the alarm that a call is about to insert is not in the list, and nobody
  can stop it meanwhile) and that the comparator is programmed for the head
  (`CompareFollows`). The insertion's loop, which the model has as `InsertByDue`,
  is proved to keep the order.
* `FiresOnlyDue` and `ArmedForHead`: `Spec => []InterruptsAreDue` and
  `Spec => []Armed`, for careful clients without late interrupts (`Careful`,
  `~LateIrq`; below the runs it is said what goes wrong otherwise). `InDevice` ties
  the device's enable bit and latched interrupt to the list at each stage of a call.

Of `PowerDomain` it proves, for any tree, any states and tables, any number of
entities told before and after transitions, any refusals and disagreements:

* `PdTreeSafe`: `PdSpec => []TreeSafe`, types included, when clients make no request
  for domains on the move (`~Overlap`; `PowerDomain_overlap.cfg` is the
  counterexample without). `TreeSafe` is about the hardware and its drivers, which
  no handler looks at, so `PdInv` first says what the module may conclude from its
  contexts. `Known`: a domain is in its `current_state` or in the one requested,
  its driver makes for no other, and when a report waits it is in the one
  requested, so that the report may be taken for that. `AsAsked`: the states
  requested of a domain and of its parent go together, after every level of every
  composite request, refused ones included; this is what makes two neighbours
  that are on the move at once safe, since each check of the code is against the
  other's `current_state` only. `Agreed`: a transition that waits for agreement
  is still possible, although neither neighbours nor tables are looked at again
  when the last entity agrees (`power_domain_notifications.c:120`).
  A handler changes several domains. `Change` says what the change of one domain
  may be, `ChangeSafe` that it keeps all of this, and every step of a walk, every
  report of a driver and the suspension are shown to be such changes; the walks
  follow by the number of levels and of children, whatever the order of the levels.
  `RequestsQuiet` and `SuspendQuiet` carry the condition on clients along: the
  levels of a request that waits in the queue are `Quiet` until it is served, a
  suspension waits alone, and while it goes on only the last core moves.
* `PdStatesKnown`: under the same condition, `current_state` is where the
  hardware is whenever the driver does not work and no report waits, and the states
  requested always go together.

`TransportProofs` proves, for every finite set of channels and every mix of
agents:

* `Invariance`: `Spec => []IInv`, where `IInv` joins `TypeOK`, `LockHeld`, `Released`
  and `OnceInv`. None is inductive alone. That no channel has two events queued
  (part of `TypeOK`) follows from the lock; that `transport_respond` may unlock
  follows from `OnceInv`, that a message in service is in one place only: the
  queue, a protocol module's hands or one actor's. `TransportTypeCorrect`,
  `NoSecondMessage` (`LockHeld`, whatever goes wrong) and, when the pool is never
  empty, `LockCorrect` (`LockMatchesService`) are its consequences.
* `NoDoorbellLost`: without wrong lengths and stray doorbells,
  `Spec => []NoLostDoorbell`, where the one request that is discarded between the
  two steps of `transport_mailbox_init` is named as lost. `DoorbellInv` says that a
  doorbell that is set stands for the one request in its mailbox, until the
  handler has locked the channel for it or discarded it; so what the handler
  clears is never a newer one.
* `InterruptedWhenDone`: when no channel serves both agents that poll and agents
  that wait for the interrupt, `Spec => InterruptMeansDone`. `BellInv` says
  that the flag `transport_respond` reads after it has given the mailbox back is still
  that of the request it answered: an agent that waits for the interrupt asks nothing
  more before it comes.
* `TransportImplementsMailbox`: `Spec => ImplementsMailbox` with no condition. On top
  of `IInv`, `AnswersInv` follows a request through the mailbox, both buffers and
  the result; then `InitMaps` and `StepMaps` give the mapping: `InitMailbox` opens,
  `AgentPosts` asks, a message accepted is taken, `FreeMailbox` answers, all else
  stutters, `MailboxReady` and the discarding of an early request included:
  `OpensOne` and `OpenedKept` show that which mailboxes are open changes with
  `InitMailbox` alone.

Two counterexamples of `Transport` lie outside those theorems' conditions:
`LockCorrect` asks for `~PoolMayBeFull`, `NoDoorbellLost` for `~BadLengths`, and
they show that neither condition can be dropped. The third, `Transport_early.cfg`,
shows that the exception for discarded requests is needed.

`DvfsProofs` proves, for every table whose voltages and frequencies grow with the
level, any number of calls and retries, any failures, with and without a retry
alarm: `DvfsTypeCorrect`, `NeverOverclocked` (`Spec => []FrequencySupported`) and
`IdleMatches` (`Spec => []HardwareMatches`). Its invariant is a list of the phases
of a domain: `Phase` says, of each, which one thing makes it go on (the handler,
an event, the alarm, the supply or the clock) and how voltage and frequency relate
to the level recorded and the one requested. Neither property is inductive: that
a frequency may be set rests on the voltage having been set first (`ClockNext`),
and what a failure leaves behind rests on only the safe half having been done
(`Base`). There is one lemma per action.

`I2cProofs` proves, for any set of requests, and when the pool of events is never
empty (`~PoolMayBeEmpty`; without it answers are lost, and a reload that cannot be
put makes the device panic):

* `DeviceContinues`: `Spec => []OneInFlight`, and `SuccessHasData`:
  `Spec => []DataBeforeSuccess`. `IInv` has one conjunct for each stage of the
  thread (`AtLoop`, `AtCall`, `AtHold`, `AtRespond`, `AtNext`): what the state of the
  device is there, and in which one place what makes it go on is: the bus, the
  interrupts' queue, the queue, or the thread's hands.
* `BusServes`: `Spec => ImplementsService`. The clients that wait are, in order, the
  one whose transfer is under way, those held, and those whose events are queued.
  The last are the queue without the one event that is no request's (`Queued`), and
  what `PutReload`, `TakeReload` and an interrupt's event do to that sequence is
  proved from the queue's operations.

`MonitorProofs` proves of `Sensor`, for any number of readers and when the driver answers by an
interrupt (`~QuickDriver`):

* `DataIsFresh`: `Spec => []FreshData`, whether or not readers call before the events
  of others are served. `OneReading` says that a single reading is under way or
  reported and that while it is reported no event is put behind it, so that its
  completion is alone in the queue; `NumbersAgree` that what a waiting reader will
  be told is newer than what had been given out when it asked.
* `RequestsCounted`: when readers do not overlap (`~Overlap`; `Sensor_two_readers.cfg`
  shows what goes wrong with it), `Spec => []Accounting`. `Counted` says that there is
  then at most one event, so that what waits is what is counted.

Of `PldmEvents` it proves, for a ring of any size, any finite set of event sizes, any
buffers and any number of losses, with no other condition:

* `LogImplemented`: `PldmSpec => ImplementsLog`. Every handler and every message is a
  step of `EventLog` or a stutter: polling with an empty hand takes the oldest event
  of the ring (`Offer`), the last part gives it to the receiver (`Give`), the
  acknowledgement lets it go (`Release`); a repeated, lost or middle part is a stutter.
  The invariant, `PldmInv`, has four parts. `RingInv`: the ring holds the last
  `ring.length` events that were logged, under consecutive numbers, across the wrap
  of its indices (`PutFacts`, `TakeFacts`). `MessageInv`: one message at most is
  under way, the request the receiver waits on or a reply to that one request.
  `AskedInv`: what the receiver has put together is the first bytes of the event on
  offer up to the handle it asks with, whatever the buffers were when the parts
  were cut (`BytesConcat`), and when it acknowledges it has the whole of it.
  `GotInv`: what it has was taken from the ring, and the event on offer is not
  among it before that. The refinement follows because a part that ends the
  event then completes exactly that event.
* `PldmTyped`: `PldmSpec => []PldmTypeOK`, from the same invariant.

`ClockProofs` proves, for any tree of clocks, any clocks that run at boot, any
calls, starts that fail and states that cannot be read:

* `NeededClocksRun`: `Spec /\ []NotWrapped => []NeededRuns`, and `CountsMatchUsers`:
  `Spec /\ []NotWrapped => []RefsAgree`, when clients do not call a clock that has an
  event to serve (`~Overlap`), stop only what they have started (`~StopUnheld`) and
  drivers stop clocks when told to (`"stop" \notin Fails`): what `clock_tree` runs
  with, and what goes wrong otherwise is said below its run. `NotWrapped`, that no
  `ref_count` is about to overflow, is a hypothesis on the behaviour.
  Neither property is inductive. `TreeInv` describes the events between clocks as
  they may be at any time, which the module's own variables do not. `Waiting`: a
  clock that waits has its request in one place, its question (`Ask`) or its
  parent's answer (`Reply`) in the queue, or with the parent, which waits
  itself (`Above`); `Clients` says the same of a client's call. `Refs`: `ref_count`
  is the number of the children that run, that were just told they may or that
  have stopped without having been heard (`Counts`), plus what the client holds and
  is about to be told, plus the stops missed. That is kept only since a clock that
  gives its parent up and asks for it again is heard in that order, hence
  `InOrder`, which says of each two events that wait which comes first. Each kind
  of step (a request counted and answered, a release, a parent asked, a child
  turned away) is described once as a change of the set of events, of two clocks
  and of a count (`Answered`, `Released`, `Asked`, `TurnedAway`), with one lemma
  that such a change keeps `TreeInv`; the actions are then shown to be such changes.
* `ChildrenKnowRates`: `Spec => []RatesAgree` when drivers give the rate they are
  asked for (`"rate" \notin Fails`, `~Rounds`), whoever starts and stops clocks
  meanwhile. `RateInv` says of each clock that either all its children know its rate
  and no event is to tell them anything, or the last event to it about rates is of the
  rate it has.

Of `ScmiClock` it proves, for every finite set of agents:

* `CountCorrect`: `ScmiSpec => [](ScmiTypeOK /\ CountAgrees)`, with no condition. The count
  goes with the cardinality of the agents' set (`OneChanges`).
* `OneAtATime`: with a driver that can be read, `ScmiSpec => []OneUnderWay`. It is not
  inductive: `Phase` lists the stages an operation goes through, each with the one
  queue, driver and HAL state it has, so that whatever event is at the head of the
  queue is the operation's on record.
* `RunsForHolders`: when moreover nobody starts the clock while its last holder's
  stop is under way, `ScmiSpec => []ToldRuns`. `HwInv` relates the count and the
  hardware to the operation on record: a start is the first holder's, a stop the
  last one's, and the hardware is as requested once the driver has said so.

The two conditions cannot be dropped: `ScmiClock_failed_get.cfg` and
`ScmiClock_start_stop.cfg` are the counterexamples without them.

Of the safety properties, `AgreedFirst` and `TakenInFull` of `PowerDomain` are only
model-checked, because they are not true of every instance. A domain whose entities
are to agree may be started by the report of a neighbour that the same request set
in motion, depending on the tables and on who is told
(`PowerDomain_agreement.cfg`); and a walk that meets a state the parent does not
allow leaves the levels it has not come to as they were, so how much of a request
is taken depends on the tables and on which of its levels get deeper. The run's
instances, on Juno's tables, keep clear of both. Out of the prover's reach, and left to TLC: liveness under fairness
(`EventuallyProcessed`, `AlarmRings`, `EveryRequestAnswered`, `EventuallyAnswered`,
`LastRequestWins`, `ReaderAnswered`, `DeliveredOnceTold`, `EventuallyDone`,
`EveryoneAnswered`).

The library's theorems of induction take an operator as a parameter, which the
provers cannot instantiate. Where a proof needs one, it argues by the least
counterexample: `LeastNat` (`SeqLemmas`) has a set of naturals as its parameter.

## Not modelled, and the plan

1. Done: `FwkCore`, `EventService`, `Timer`, `Transport`, `Mailbox`, `I2c`,
   `Sensor`, `Dvfs`, `PldmEvents`, `PowerDomain`, `ClockTree`, `ScmiClock`, and the
   theorems above.
2. `FwkNotification`: subscriptions while a notification is being fanned out,
   pool and queue exhaustion.
3. The other end of the transport: requester channels (`transport_transmit`,
   `release_transport_channel_lock`), the power-down notification, and the
   MCTP-over-PCC binding.
4. `ScmiClock` under `Transport`, whose assumption that a protocol module answers
   exactly once it would discharge, and over `ClockTree`; the other SCMI protocols;
   `system_power` over `PowerDomain`.
5. `FwkModule` lifecycle, and `FwkRing` as an algorithm against a sequence.

The map covers a small share of the repository, most of whose lines are not
program logic of its own: vendored operating systems and libraries, register
descriptions, configuration tables of some twenty products. What is modelled is
the logic of the framework and of the modules that keep state across events.

Left out for good: register drivers of SoC hardware, platform configuration,
logging and formatting, the vendored MCTP and PLDM libraries.
