--------------------------------- MODULE Dvfs ---------------------------------
(***************************************************************************)
(* One DVFS domain (module/dvfs/src/mod_dvfs.c) over a power supply and a  *)
(* clock, which complete an operation at once or answer later by an event. *)
(*                                                                         *)
(* Clients call set_level and get_current_opp from their own handlers,     *)
(* between two events of the domain.  A request that finds the domain busy *)
(* is pending; there is one pending request, which a later one overwrites. *)
(* The handler is split where it calls the supply or the clock, because    *)
(* the hardware is between two operating points there.                     *)
(*                                                                         *)
(* An operating point is named by its level.  A failed operation leaves    *)
(* the hardware as it was.                                                 *)
(***************************************************************************)
EXTENDS Naturals, SequencesExt

CONSTANTS
    Levels,     \* The performance levels, 0 standing for no level.
    Voltage,    \* Voltage[l]: the voltage of level l.
    Frequency,  \* Frequency[l]: its frequency.
    Sustained,  \* The level of the sustained operating point.
    BootVoltages, BootFrequencies,  \* What the hardware may start with.
    MaxRetries, \* DVFS_MAX_RETRIES.
    MayFail,    \* Whether the supply and the clock may fail.
    Revert,     \* Whether a client may ask for the current level while a
                \* change of level is under way.
    MaxAsks     \* Bound: how many times clients call.

ASSUME DvfsAssumption ==
    /\ Levels \subseteq Nat \ {0} /\ IsFiniteSet(Levels) /\ Sustained \in Levels
    /\ Voltage \in [Levels -> Nat] /\ Frequency \in [Levels -> Nat]
    /\ BootVoltages \subseteq Nat /\ BootFrequencies \subseteq Nat
    /\ MaxRetries \in Nat /\ MaxAsks \in Nat
    /\ MayFail \in BOOLEAN /\ Revert \in BOOLEAN

\* A higher level has a higher frequency and a higher voltage.
ASSUME OppsAssumption ==
    \A l, m \in Levels : l < m => /\ Frequency[l] < Frequency[m]
                                  /\ Voltage[l] < Voltage[m]

VARIABLES
    state,   \* ctx->state
    current, \* ctx->current_opp
    request, \* ctx->request
    pending, \* ctx->pending_request
    has,     \* ctx->request_pending
    queue,   \* the domain's events, oldest first
    alarm,   \* the retry alarm, "none" when retry_ms is 0
    pc,      \* where the handler is
    calls,   \* the operations the handler has still to start
    status,  \* whether the request it completes has succeeded
    supply,  \* the supply: its voltage and what it is doing
    clock,   \* the clock: its frequency and what it is doing
    asks,    \* how many times clients have called
    wanted,  \* history: the level asked for last
    outcome, \* history: whether the last thing tried has failed (or was to
             \* read the level), has set the hardware to the current level,
             \* or has found that level recorded
    owed     \* history: whether a client waits for the current level, and how
             \* the response to it is found

domain == <<state, current, request, pending, has>>
handler == <<pc, calls, status>>
hardware == <<supply, clock>>
history == <<wanted, outcome, owed>>
vars == <<domain, queue, alarm, handler, hardware, asks, history>>

States == {"IDLE", "GET_OPP", "SET_OPP", "SET_VOLTAGE", "SET_FREQUENCY",
           "SET_OPP_DONE", "RETRY"}
Events == {"set", "get", "retry", "voltage", "voltage_error", "supply_set",
           "supply_error", "clock_set", "clock_error"}
Request == [opp: Levels \cup {0}, retry: BOOLEAN, retries: 0 .. MaxRetries,
            response: BOOLEAN]
NoRequest == [opp |-> 0, retry |-> FALSE, retries |-> 0, response |-> FALSE]

\* A response is given at once, or found later by the cookie of the event that
\* asked for it.  That event is a light one: its cookie is the one its structure
\* last bore, zero in one that has borne none.
Owed == {"no", "now", "cookie", "zero"}

TypeOK ==
    /\ state \in States
    /\ current \in Levels \cup {0}
    /\ request \in Request /\ pending \in Request /\ has = (pending # NoRequest)
    /\ queue \in Seq(Events)
    /\ alarm \in {"none", "off", "on"}
    /\ pc \in {"loop", "call", "complete"}
    /\ calls \in {<<>>, <<"supply">>, <<"clock">>, <<"supply", "clock">>,
                  <<"clock", "supply">>}
    /\ status \in BOOLEAN
    /\ supply \in [volts: Nat, busy: {"no", "get", "set"}]
    /\ clock \in [rate: Nat, busy: {"no", "set"}]
    /\ asks \in 0 .. MaxAsks
    /\ wanted \in Levels /\ outcome \in {"failed", "set", "found"}
    /\ owed \in Owed

\* A voltage supports the frequency of the levels it is enough for.
Supports(v, f) == f = 0 \/ \E l \in Levels : Voltage[l] <= v /\ f <= Frequency[l]

\* dvfs_start has asked for the sustained operating point.
Init ==
    /\ state = "SET_OPP"
    /\ current = 0
    /\ request = [NoRequest EXCEPT !.opp = Sustained, !.retry = TRUE]
    /\ pending = NoRequest /\ has = FALSE
    /\ queue = <<"set">>
    /\ alarm \in {"none", "off"}
    /\ pc = "loop" /\ calls = <<>> /\ status = TRUE
    /\ \E v \in BootVoltages, f \in BootFrequencies :
           /\ Supports(v, f)
           /\ supply = [volts |-> v, busy |-> "no"]
           /\ clock = [rate |-> f, busy |-> "no"]
    /\ asks = 0 /\ wanted = Sustained /\ outcome = "failed" /\ owed = "no"

-----------------------------------------------------------------------------
\* dvfs_cleanup_request
Cleanup ==
    /\ state' = "IDLE"
    /\ request' = NoRequest
    /\ pending' = NoRequest /\ has' = FALSE

\* dvfs_set_level_start, called with events q queued: a request equal to the
\* one in the context is dropped, whether that one has succeeded or not.
StartLevel(l, retry, retries, q) ==
    IF l = request.opp
    THEN Cleanup /\ queue' = q
    ELSE /\ request' = [opp |-> l, retry |-> retry, retries |-> retries,
                        response |-> FALSE]
         /\ state' = "SET_OPP"
         /\ queue' = Append(q, "set")
         /\ pending' = NoRequest /\ has' = FALSE

\* dvfs_create_pending_level_request
\* Variant: the first request to be pending is the one that stays.
KeepFirst(l) ==
    /\ pending' = IF has THEN pending ELSE [NoRequest EXCEPT !.opp = l]
    /\ has' = TRUE
    /\ UNCHANGED <<state, request>>

MakePending(l) ==
    /\ pending' = [(IF has THEN pending ELSE NoRequest) EXCEPT !.opp = l]
    /\ has' = TRUE
    /\ UNCHANGED <<state, request>>

SetLevel(l) ==
    /\ pc = "loop" /\ asks < MaxAsks
    /\ state # "IDLE" /\ ~has /\ l = current => Revert
    /\ asks' = asks + 1
    /\ wanted' = l
    /\ \/ state # "IDLE" /\ (has \/ l # current)
          /\ MakePending(l) /\ UNCHANGED queue
       \/ (state = "IDLE" \/ ~has) /\ l = current
          /\ UNCHANGED <<state, request, pending, has, queue>>
       \/ state = "IDLE" /\ l # current
          /\ StartLevel(l, FALSE, 0, queue)
    /\ UNCHANGED <<current, alarm, handler, hardware, outcome, owed>>

\* dvfs_get_current_opp, when the level is not known.
GetCurrentOpp ==
    /\ pc = "loop" /\ asks < MaxAsks
    /\ current = 0 /\ state = "IDLE"
    /\ asks' = asks + 1
    /\ state' = "GET_OPP"
    /\ request' = [request EXCEPT !.response = TRUE]
    /\ queue' = Append(queue, "get")
    /\ owed' \in {"cookie", "zero"}
    /\ UNCHANGED <<current, pending, has, alarm, handler, hardware, wanted,
                   outcome>>

-----------------------------------------------------------------------------
\* dvfs_handle_set_opp, the supply being at v: the voltage is raised before
\* the frequency, and lowered after it.
\* Variant: the frequency is always set first.
OrderClockFirst(v) ==
    CASE Voltage[request.opp] # v -> <<"clock", "supply">>
      [] Voltage[request.opp] = v /\ current = 0 -> <<"clock">>
      [] OTHER -> <<>>

\* Variant: a frequency is not set when the voltage is right.
OrderVoltageOnly(v) ==
    CASE Voltage[request.opp] > v -> <<"supply", "clock">>
      [] Voltage[request.opp] < v -> <<"clock", "supply">>
      [] OTHER -> <<>>

Order(v) ==
    CASE Voltage[request.opp] > v -> <<"supply", "clock">>
      [] Voltage[request.opp] < v -> <<"clock", "supply">>
      [] Voltage[request.opp] = v /\ current = 0 -> <<"clock">>
      [] OTHER -> <<>>

Carry(cs) ==
    /\ calls' = cs
    /\ pc' = IF cs = <<>> THEN "complete" ELSE "call"
    /\ status' = TRUE

Fail ==
    /\ calls' = <<>>
    /\ pc' = "complete"
    /\ status' = FALSE

\* dvfs_handle_psu_get_voltage_resp, for a get_voltage that has succeeded.
GotVoltage(v) ==
    IF state = "SET_OPP"
    THEN Carry(Order(v)) /\ UNCHANGED current
    ELSE \/ \E l \in Levels : Voltage[l] = v /\ current' = l /\ Carry(<<>>)
         \/ (\A l \in Levels : Voltage[l] # v) /\ Fail /\ UNCHANGED current

\* get_voltage is called, for a get or set event, and returns at once or answers
\* later.
ReadNow ==
    /\ \/ GotVoltage(supply.volts)
       \/ MayFail /\ Fail /\ UNCHANGED current
    /\ UNCHANGED supply

ReadLater ==
    /\ supply' = [supply EXCEPT !.busy = "get"]
    /\ UNCHANGED <<current, handler>>

Take(e) == pc = "loop" /\ queue # <<>> /\ Head(queue) = e

TakeSet ==
    /\ Take("set")
    /\ IF current = 0
       THEN ReadNow \/ ReadLater
       ELSE GotVoltage(Voltage[current]) /\ UNCHANGED supply
    /\ queue' = Tail(queue)
    /\ UNCHANGED <<state, request, pending, has, alarm, clock, asks, history>>

TakeGet ==
    /\ Take("get")
    /\ \/ ReadNow /\ owed' = "now"
       \/ ReadLater /\ UNCHANGED owed
    /\ queue' = Tail(queue)
    /\ UNCHANGED <<state, request, pending, has, alarm, clock, asks, wanted,
                   outcome>>

\* What the supply answered; nothing has changed its voltage since.
TakeVoltage ==
    /\ \/ Take("voltage") /\ GotVoltage(supply.volts)
       \/ Take("voltage_error") /\ Fail /\ UNCHANGED current
    /\ queue' = Tail(queue)
    /\ UNCHANGED <<state, request, pending, has, alarm, hardware, asks, history>>

\* The supply or the clock is called for the next operation.
StateAfter(cs) ==
    CASE cs = <<>> -> "SET_OPP_DONE"
      [] cs = <<"clock">> -> "SET_FREQUENCY"
      [] cs = <<"supply">> -> "SET_VOLTAGE"

SetsNow ==
    /\ IF Head(calls) = "supply"
       THEN supply' = [supply EXCEPT !.volts = Voltage[request.opp]]
            /\ UNCHANGED clock
       ELSE clock' = [clock EXCEPT !.rate = Frequency[request.opp]]
            /\ UNCHANGED supply
    /\ Carry(Tail(calls))
    /\ UNCHANGED state

SetsLater ==
    /\ IF Head(calls) = "supply"
       THEN supply' = [supply EXCEPT !.busy = "set"] /\ UNCHANGED clock
       ELSE clock' = [clock EXCEPT !.busy = "set"] /\ UNCHANGED supply
    /\ state' = StateAfter(Tail(calls))
    /\ calls' = <<>>
    /\ pc' = "loop"
    /\ UNCHANGED status

CallHardware ==
    /\ pc = "call"
    /\ \/ SetsNow
       \/ SetsLater
       \/ MayFail /\ Fail /\ UNCHANGED <<state, hardware>>
    /\ UNCHANGED <<current, request, pending, has, queue, alarm, asks, history>>

\* dvfs_handle_psu_set_voltage_resp and dvfs_handle_clk_set_freq_resp
TakeResponse ==
    /\ \/ Take("supply_set") /\ state = "SET_FREQUENCY" /\ Carry(<<"clock">>)
       \/ Take("clock_set") /\ state = "SET_VOLTAGE" /\ Carry(<<"supply">>)
       \/ (Take("supply_set") \/ Take("clock_set")) /\ state = "SET_OPP_DONE"
          /\ Carry(<<>>)
       \/ (Take("supply_error") \/ Take("clock_error")) /\ Fail
    /\ queue' = Tail(queue)
    /\ UNCHANGED <<domain, alarm, hardware, asks, history>>

\* dvfs_complete.  A request that may be retried becomes pending, or lends its
\* retries to the one that is; a pending request starts after a delay, if the
\* domain has a timer; else the domain is idle.
\* Variant: the pending request is left for the next one to find.
StartPendingForgotten(p) == Cleanup /\ UNCHANGED <<queue, alarm>>

StartPending(p) ==
    IF alarm # "none"
    THEN /\ alarm' = "on"
         /\ state' = "RETRY"
         /\ pending' = p /\ has' = TRUE
         /\ UNCHANGED <<request, queue>>
    ELSE StartLevel(p.opp, p.retry, p.retries, queue) /\ UNCHANGED alarm

Retried ==
    /\ ~status /\ ~request.response
    /\ request.retry /\ request.retries < MaxRetries

\* dvfs_complete_respond: a cookie of zero is taken for a response to give at
\* once, of which there is none by then.
\* Variant: only a reading that succeeds is answered.
AnswerIfRead ==
    owed' = IF request.response /\ status /\ owed # "zero" THEN "no" ELSE owed

Answer == owed' = IF request.response /\ owed # "zero" THEN "no" ELSE owed

Complete ==
    /\ pc = "complete"
    /\ current' = IF status /\ state # "GET_OPP" THEN request.opp ELSE current
    /\ outcome' = CASE ~status \/ state = "GET_OPP" -> "failed"
                    [] OTHER -> IF request.opp # current \/ outcome = "set"
                                THEN "set" ELSE "found"
    /\ Answer
    /\ \/ /\ Retried
          /\ StartPending([opp |-> IF has THEN pending.opp ELSE request.opp,
                           retry |-> TRUE, retries |-> request.retries + 1,
                           response |-> FALSE])
       \/ ~Retried /\ has /\ StartPending(pending)
       \/ ~Retried /\ ~has /\ Cleanup /\ UNCHANGED <<queue, alarm>>
    /\ pc' = "loop"
    /\ UNCHANGED <<calls, status, hardware, asks, wanted>>

\* alarm_callback, in the timer's interrupt
AlarmCallback ==
    /\ alarm = "on"
    /\ alarm' = "off"
    /\ queue' = Append(queue, "retry")
    /\ UNCHANGED <<domain, handler, hardware, asks, history>>

TakeRetry ==
    /\ Take("retry")
    /\ StartLevel(pending.opp, pending.retry, pending.retries, Tail(queue))
    /\ UNCHANGED <<current, alarm, handler, hardware, asks, history>>

-----------------------------------------------------------------------------
\* The supply and the clock answer later.
SupplyAnswers ==
    /\ \/ supply.busy = "get" /\ queue' = Append(queue, "voltage")
          /\ supply' = [supply EXCEPT !.busy = "no"]
       \/ supply.busy = "set" /\ queue' = Append(queue, "supply_set")
          /\ supply' = [volts |-> Voltage[request.opp], busy |-> "no"]
       \/ supply.busy # "no" /\ MayFail
          /\ queue' = Append(queue, IF supply.busy = "get" THEN "voltage_error"
                                                            ELSE "supply_error")
          /\ supply' = [supply EXCEPT !.busy = "no"]
    /\ UNCHANGED <<domain, alarm, handler, clock, asks, history>>

ClockAnswers ==
    /\ clock.busy = "set"
    /\ \/ queue' = Append(queue, "clock_set")
          /\ clock' = [rate |-> Frequency[request.opp], busy |-> "no"]
       \/ MayFail /\ queue' = Append(queue, "clock_error")
          /\ clock' = [clock EXCEPT !.busy = "no"]
    /\ UNCHANGED <<domain, alarm, handler, supply, asks, history>>

Thread == TakeSet \/ TakeGet \/ TakeVoltage \/ CallHardware \/ TakeResponse
          \/ Complete \/ TakeRetry

Next == (\E l \in Levels : SetLevel(l)) \/ GetCurrentOpp \/ Thread
        \/ AlarmCallback \/ SupplyAnswers \/ ClockAnswers

Spec == Init /\ [][Next]_vars

\* The main loop keeps running, started alarms ring, the supply and the clock
\* answer.
FairSpec == Spec /\ WF_vars(Thread) /\ WF_vars(AlarmCallback)
            /\ WF_vars(SupplyAnswers) /\ WF_vars(ClockAnswers)

-----------------------------------------------------------------------------
\* The hardware is never clocked faster than its voltage allows, whatever
\* requests overlap and operations fail: what the order of dvfs_handle_set_opp
\* is for.  After a failure the voltage it starts from is not the real one.
FrequencySupported == Supports(supply.volts, clock.rate)

\* An idle domain runs at the level it reports once a change of level has
\* succeeded, until an operation fails.  A request for the level recorded does
\* not check what the hardware is at: after a failed step, or a level deduced
\* from the voltage, it succeeds and changes nothing.
HardwareMatches ==
    outcome = "set" /\ state = "IDLE" /\ pc = "loop" =>
        /\ supply.volts = Voltage[current]
        /\ clock.rate = Frequency[current]

\* Once clients stop the domain gets idle, at the level asked for last unless
\* the change to it failed: "There is only ever a single pending/queued request
\* with the last level/limits values requested" (module_dvfs_architecture.md).
LastRequestWins == <>[](state = "IDLE" /\ (outcome # "failed" => current = wanted))

\* A request that has failed and may be retried is tried again: "A failing
\* request will be retried a number of times" (module_dvfs_architecture.md).
FailedIsRetried ==
    [][(TakeRetry /\ pending.retry) \/ (Complete /\ Retried)
       => state' # "IDLE"]_vars

\* A client that reads the level is answered, also when the supply answers late
\* or fails, if the event that asks has a cookie to find the response by.
ReaderAnswered == owed = "cookie" ~> owed = "no"

\* Every client that reads the level is answered: "the result of the request is
\* pending and will arrive later through an event" (mod_dvfs.c:434-436).  The
\* code does not keep this when the supply answers late and the structure of the
\* event has never borne a cookie.
EveryReaderAnswered == owed # "no" ~> owed = "no"
===============================================================================
