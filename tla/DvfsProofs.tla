------------------------------ MODULE DvfsProofs ------------------------------
(***************************************************************************)
(* Theorems of Dvfs: types, the order of voltage and frequency, and the    *)
(* agreement of an idle domain with its hardware, for every table of       *)
(* operating points, whatever fails and whoever asks.                      *)
(***************************************************************************)
EXTENDS Dvfs, TLAPS

\* What the voltage and the frequency are at between two changes of level: the
\* recorded level is supported by the voltage and not exceeded by the
\* frequency, because a change that failed has done only its safe half.
Base ==
    IF current = 0
    THEN Supports(supply.volts, clock.rate)
    ELSE Voltage[current] <= supply.volts /\ clock.rate <= Frequency[current]

HardwareAt(l) == supply.volts = Voltage[l] /\ clock.rate = Frequency[l]

\* A domain that has set its level is at it until the next operation.
Settled == outcome = "set" => current # 0 /\ HardwareAt(current)

\* The four points at which the supply or the clock has to be called.
Believed == IF current = 0 THEN supply.volts ELSE Voltage[current]
Raise == Base /\ Believed < Voltage[request.opp]
Lower == Base /\ Voltage[request.opp] < Believed
ClockNext == Base /\ supply.volts = Voltage[request.opp]
SupplyNext == /\ Base /\ clock.rate = Frequency[request.opp]
              /\ Voltage[request.opp] <= supply.volts

-----------------------------------------------------------------------------
\* Exactly one thing has a busy domain go on: the handler, an event, the alarm,
\* the supply or the clock.
Quiet == alarm # "on" /\ clock.busy = "no"
Queued(e) == pc = "loop" /\ queue = <<e>> /\ Quiet /\ supply.busy = "no"
Supplying(what) == pc = "loop" /\ queue = <<>> /\ Quiet /\ supply.busy = what
Clocking == /\ pc = "loop" /\ queue = <<>> /\ alarm # "on"
            /\ supply.busy = "no" /\ clock.busy = "set"
Ringing == /\ pc = "loop" /\ queue = <<>> /\ alarm = "on"
           /\ supply.busy = "no" /\ clock.busy = "no"
Handling == queue = <<>> /\ Quiet /\ supply.busy = "no"

Setting == request.opp \in Levels /\ ~request.response
Reading == current = 0
           /\ (Supplying("get") \/ Queued("voltage") \/ Queued("voltage_error"))

\* The phases of a domain.
Idling == state = "IDLE" /\ Supplying("no") /\ Base /\ Settled
SetsOpp ==
    /\ state = "SET_OPP" /\ Setting /\ Base /\ Settled
    /\ (Queued("set") \/ Reading)
GetsOpp ==
    /\ state = "GET_OPP" /\ request.response /\ Base
    /\ current = 0 /\ (Queued("get") \/ Reading)
Retries == state = "RETRY" /\ has /\ Base /\ Settled /\ (Ringing \/ Queued("retry"))
FirstOfTwo ==
    \/ state = "SET_FREQUENCY" /\ Setting
       /\ ((Supplying("set") /\ Raise) \/ (Queued("supply_set") /\ ClockNext))
    \/ state = "SET_VOLTAGE" /\ Setting
       /\ ((Clocking /\ Lower) \/ (Queued("clock_set") /\ SupplyNext))
LastStep ==
    /\ state = "SET_OPP_DONE" /\ Setting
    /\ \/ Supplying("set") /\ SupplyNext
       \/ Clocking /\ ClockNext
       \/ (Queued("supply_set") \/ Queued("clock_set")) /\ HardwareAt(request.opp)
Failed ==
    /\ state \in {"SET_FREQUENCY", "SET_VOLTAGE", "SET_OPP_DONE"} /\ Setting /\ Base
    /\ (Queued("supply_error") \/ Queued("clock_error"))
Calls ==
    /\ pc = "call" /\ Handling /\ Setting
    /\ \/ state = "SET_OPP" /\ calls = <<"supply", "clock">> /\ Raise
       \/ state = "SET_OPP" /\ calls = <<"clock", "supply">> /\ Lower
       \/ state \in {"SET_OPP", "SET_FREQUENCY"} /\ calls = <<"clock">> /\ ClockNext
       \/ state \in {"SET_OPP", "SET_VOLTAGE"} /\ calls = <<"supply">> /\ SupplyNext
Completes ==
    /\ pc = "complete" /\ Handling
    /\ \/ state = "GET_OPP" /\ request.response /\ Base
       \/ state \notin {"GET_OPP", "IDLE", "RETRY"} /\ Setting /\ ~status /\ Base
       \/ /\ state \notin {"GET_OPP", "IDLE", "RETRY"} /\ Setting /\ status
          /\ \/ HardwareAt(request.opp)
             \/ request.opp = current /\ Base /\ Settled

Phase == Idling \/ SetsOpp \/ GetsOpp \/ Retries \/ FirstOfTwo \/ LastStep \/ Failed
         \/ Calls \/ Completes

\* A pending request is for a level.
Pending == has => pending.opp \in Levels

IInv == TypeOK /\ Pending /\ Phase

-----------------------------------------------------------------------------
\* The table: a voltage names a level, and is as high as its frequency.
LEMMA Table ==
    ASSUME NEW l \in Levels, NEW m \in Levels
    PROVE  /\ Voltage[l] \in Nat /\ Frequency[l] \in Nat
           /\ Voltage[l] = Voltage[m] => l = m
           /\ Voltage[l] < Voltage[m] => Frequency[l] < Frequency[m]
           /\ Voltage[l] <= Voltage[m] => Frequency[l] <= Frequency[m]
    BY DvfsAssumption, OppsAssumption

\* The queue of a domain holds one event at most.
LEMMA OneEvent ==
    ASSUME NEW e \in Events
    PROVE  /\ Append(<<>>, e) = <<e>> /\ Tail(<<e>>) = <<>> /\ Head(<<e>>) = e
           /\ <<e>> # <<>> /\ <<e>> \in Seq(Events) /\ <<>> \in Seq(Events)
    OBVIOUS

\* What is left of the calls of a handler after the first.
LEMMA CallsLeft ==
    /\ Tail(<<"supply", "clock">>) = <<"clock">> /\ Head(<<"supply", "clock">>) = "supply"
    /\ Tail(<<"clock", "supply">>) = <<"supply">> /\ Head(<<"clock", "supply">>) = "clock"
    /\ Tail(<<"clock">>) = <<>> /\ Head(<<"clock">>) = "clock"
    /\ Tail(<<"supply">>) = <<>> /\ Head(<<"supply">>) = "supply"
    /\ <<"supply">> # <<>> /\ <<"clock">> # <<>> /\ <<"supply">> # <<"clock">>
    /\ <<"supply", "clock">> # <<>> /\ <<"clock", "supply">> # <<>>
    OBVIOUS

\* The event that is taken says which phase the domain is in.
LEMMA TakeFacts ==
    ASSUME IInv, NEW e \in Events, Take(e)
    PROVE  /\ Queued(e)
           /\ e = "set" => state = "SET_OPP" /\ Setting /\ Base /\ Settled
           /\ e = "get" => state = "GET_OPP" /\ request.response /\ Base /\ current = 0
           /\ e \in {"voltage", "voltage_error"} =>
                 /\ Base /\ current = 0
                 /\ \/ state = "SET_OPP" /\ Setting /\ Settled
                    \/ state = "GET_OPP" /\ request.response
           /\ e = "supply_set" => Setting
                 /\ \/ state = "SET_FREQUENCY" /\ ClockNext
                    \/ state = "SET_OPP_DONE" /\ HardwareAt(request.opp)
           /\ e = "clock_set" => Setting
                 /\ \/ state = "SET_VOLTAGE" /\ SupplyNext
                    \/ state = "SET_OPP_DONE" /\ HardwareAt(request.opp)
           /\ e \in {"supply_error", "clock_error"} => Setting /\ Base
                 /\ state \in {"SET_FREQUENCY", "SET_VOLTAGE", "SET_OPP_DONE"}
           /\ e = "retry" => state = "RETRY" /\ has /\ Base /\ Settled
    BY OneEvent DEF IInv, Phase, Take, Queued, Supplying, Clocking, Ringing, Reading,
       Handling, Idling, SetsOpp, GetsOpp, Retries, FirstOfTwo, LastStep, Failed,
       Calls, Completes, Events

LEMMA HandlerFacts ==
    ASSUME IInv
    PROVE  (pc = "call" => Calls) /\ (pc = "complete" => Completes)
    BY DEF IInv, Phase, Queued, Supplying, Clocking, Ringing, Reading,
       Idling, SetsOpp, GetsOpp, Retries, FirstOfTwo, LastStep, Failed, Calls,
       Completes

\* What the hardware supports at a voltage it supports at a higher one.
LEMMA SupportsMore ==
    ASSUME NEW v \in Nat, NEW w \in Nat, NEW f \in Nat, Supports(v, f), v <= w
    PROVE  Supports(w, f)
    BY DvfsAssumption DEF Supports

\* A level is supported by its voltage and by every higher one.
LEMMA LevelSupported ==
    ASSUME NEW l \in Levels, NEW v \in Nat, NEW f \in Nat,
           Voltage[l] <= v, f <= Frequency[l]
    PROVE  Supports(v, f)
    BY DEF Supports

\* The types that the hardware and the requests give the arithmetic.
LEMMA Numbers ==
    ASSUME TypeOK
    PROVE  /\ supply.volts \in Nat /\ clock.rate \in Nat
           /\ current # 0 => current \in Levels
           /\ current # 0 => Voltage[current] \in Nat /\ Frequency[current] \in Nat
           /\ request.opp \in Levels => /\ Voltage[request.opp] \in Nat
                                        /\ Frequency[request.opp] \in Nat
           /\ \A l \in Levels : l # 0
    BY DvfsAssumption DEF TypeOK

LEMMA BaseSupports ==
    ASSUME TypeOK, Base
    PROVE  Supports(supply.volts, clock.rate)
    BY Numbers, LevelSupported DEF Base

\* The voltage that is raised first supports the frequency there is.
LEMMA SupplyFirst ==
    ASSUME TypeOK, Setting, Raise, supply'.volts = Voltage[request.opp],
           UNCHANGED <<request, clock, current>>
    PROVE  ClockNext'
    <1>1. CASE current = 0
        <2>1. Supports(supply.volts, clock.rate)
            BY <1>1 DEF Raise, Base
        <2>2. Supports(supply'.volts, clock.rate)
            BY <1>1, <2>1, Numbers, SupportsMore DEF Raise, Believed, Setting
        <2> QED BY <1>1, <2>2 DEF Base, ClockNext
    <1>2. CASE current # 0
        BY <1>2, Numbers DEF Raise, Believed, Base, Setting, ClockNext
    <1> QED BY <1>1, <1>2

\* The frequency that is lowered first is supported by the voltage there is.
LEMMA ClockFirst ==
    ASSUME TypeOK, Setting, Lower, clock'.rate = Frequency[request.opp],
           UNCHANGED <<request, supply, current>>
    PROVE  SupplyNext'
    <1>1. CASE current = 0
        <2>1. Voltage[request.opp] <= supply.volts
            BY <1>1, Numbers DEF Lower, Believed, Setting
        <2>2. Supports(supply.volts, clock'.rate)
            BY <2>1, Numbers, LevelSupported DEF Setting
        <2> QED BY <1>1, <2>1, <2>2 DEF Base, SupplyNext
    <1>2. CASE current # 0
        <2>1. current \in Levels /\ Voltage[request.opp] < Voltage[current]
            BY <1>2, Numbers DEF Lower, Believed
        <2>2. Frequency[request.opp] <= Frequency[current]
            BY <2>1, Table, Numbers DEF Setting
        <2>3. Voltage[current] <= supply.volts
            BY <1>2 DEF Lower, Base
        <2> QED BY <1>2, <2>1, <2>2, <2>3, Numbers DEF Base, SupplyNext, Setting
    <1> QED BY <1>1, <1>2

\* The second of the two has the hardware at the level.
LEMMA SupplySecond ==
    ASSUME SupplyNext, supply'.volts = Voltage[request.opp], UNCHANGED <<request, clock>>
    PROVE  HardwareAt(request.opp)'
    BY DEF SupplyNext, HardwareAt

LEMMA ClockSecond ==
    ASSUME ClockNext, clock'.rate = Frequency[request.opp], UNCHANGED <<request, supply>>
    PROVE  HardwareAt(request.opp)'
    BY DEF ClockNext, HardwareAt

-----------------------------------------------------------------------------
\* An operation of the handler is started or the request completed: what
\* dvfs_handle_set_opp goes on with, from a settled domain.
LEMMA GotSet ==
    ASSUME TypeOK, state = "SET_OPP", Setting, Base, Settled, GotVoltage(Believed),
           Handling', UNCHANGED <<state, request, hardware, outcome>>
    PROVE  /\ current' = current /\ status' /\ calls' \in {<<>>, <<"clock">>,
                  <<"supply", "clock">>, <<"clock", "supply">>}
           /\ pc' \in {"call", "complete"}
           /\ Calls' \/ Completes'
    <1>1. Carry(Order(Believed)) /\ current' = current /\ status' = TRUE
        BY DEF GotVoltage, Carry
    <1>2. Believed \in Nat /\ Voltage[request.opp] \in Nat
        BY Numbers DEF Believed, Setting
    <1>3. Base' /\ Believed' = Believed /\ Setting' /\ Settled'
        BY <1>1 DEF Base, Believed, Setting, Settled, HardwareAt, hardware
    <1>4. CASE Voltage[request.opp] > Believed
        <2>1. calls' = <<"supply", "clock">> /\ pc' = "call"
            BY <1>1, <1>2, <1>4, CallsLeft DEF Carry, Order
        <2> QED BY <1>1, <1>2, <1>3, <1>4, <2>1 DEF Calls, Raise
    <1>5. CASE Voltage[request.opp] < Believed
        <2>1. calls' = <<"clock", "supply">> /\ pc' = "call"
            BY <1>1, <1>2, <1>5, CallsLeft DEF Carry, Order
        <2> QED BY <1>1, <1>2, <1>3, <1>5, <2>1 DEF Calls, Lower
    <1>6. CASE Voltage[request.opp] = Believed /\ current = 0
        <2>1. calls' = <<"clock">> /\ pc' = "call"
            BY <1>1, <1>2, <1>6, CallsLeft DEF Carry, Order
        <2> QED BY <1>1, <1>2, <1>3, <1>6, <2>1 DEF Calls, ClockNext, Believed, hardware
    <1>7. CASE Voltage[request.opp] = Believed /\ current # 0
        <2>1. calls' = <<>> /\ pc' = "complete"
            BY <1>1, <1>2, <1>7 DEF Carry, Order
        <2>2. request.opp = current
            BY <1>7, Numbers, Table DEF Believed, Setting
        <2> QED BY <1>1, <1>3, <2>1, <2>2 DEF Completes
    <1> QED BY <1>2, <1>4, <1>5, <1>6, <1>7

\* The level that the voltage names supports the frequency.
LEMMA GotGet ==
    ASSUME TypeOK, state = "GET_OPP", request.response, Base, current = 0,
           GotVoltage(supply.volts), Handling',
           UNCHANGED <<state, request, hardware>>
    PROVE  /\ current' \in Levels \cup {0} /\ calls' = <<>> /\ pc' = "complete"
           /\ status' \in BOOLEAN /\ Completes'
    <1>1. CASE \E l \in Levels : Voltage[l] = supply.volts /\ current' = l /\ Carry(<<>>)
        <2>1. PICK l \in Levels : Voltage[l] = supply.volts /\ current' = l /\ Carry(<<>>)
            BY <1>1
        <2>2. clock.rate <= Frequency[l]
            <3>1. CASE clock.rate = 0
                BY <3>1, Table
            <3>2. CASE clock.rate # 0
                <4>1. PICK m \in Levels : Voltage[m] <= supply.volts
                                         /\ clock.rate <= Frequency[m]
                    BY <3>2 DEF Base, Supports
                <4>2. Frequency[m] <= Frequency[l]
                    BY <2>1, <4>1, Table
                <4> QED BY <4>1, <4>2, Table, Numbers
            <3> QED BY <3>1, <3>2
        <2>3. Base'
            BY <2>1, <2>2, Numbers DEF Base, hardware
        <2> QED BY <2>1, <2>3 DEF Carry, Completes
    <1>2. CASE (\A l \in Levels : Voltage[l] # supply.volts) /\ Fail /\ UNCHANGED current
        BY <1>2 DEF Fail, Completes, Base, hardware
    <1> QED BY <1>1, <1>2 DEF GotVoltage

\* A failed operation leaves the hardware where the base says.
LEMMA FailCompletes ==
    ASSUME Fail, Base, Handling', UNCHANGED <<state, request, current, hardware>>,
           \/ Setting /\ state \notin {"GET_OPP", "IDLE", "RETRY"}
           \/ state = "GET_OPP" /\ request.response
    PROVE  pc' = "complete" /\ calls' = <<>> /\ status' = FALSE /\ Completes'
    BY DEF Fail, Base, hardware, Setting, Completes

-----------------------------------------------------------------------------
\* The supply is asked, for a change of level or a reading, and returns at once.
LEMMA ReadNowInv ==
    ASSUME IInv, NEW e \in {"set", "get"}, Take(e), current = 0, ReadNow,
           queue' = Tail(queue), owed' \in Owed,
           UNCHANGED <<state, request, pending, has, alarm, clock, asks, wanted, outcome>>
    PROVE  IInv'
    <1>1. /\ TypeOK /\ Pending /\ Queued(e) /\ Base /\ e \in Events
          /\ \/ state = "SET_OPP" /\ Setting /\ Settled
             \/ state = "GET_OPP" /\ request.response
        BY TakeFacts DEF IInv, Events
    <1>2. queue' = <<>> /\ queue' \in Seq(Events) /\ Quiet' /\ pc = "loop"
        BY <1>1, OneEvent DEF Queued, Quiet
    <1>3. Pending' /\ UNCHANGED supply
        BY <1>1 DEF Pending, ReadNow
    <1>4. CASE GotVoltage(supply.volts)
        <2>1. Handling' /\ UNCHANGED <<outcome, hardware>> /\ Believed = supply.volts
            BY <1>1, <1>2, <1>3 DEF Handling, Queued, hardware, Believed
        <2>2. CASE state = "SET_OPP" /\ Setting /\ Settled
            <3>1. /\ current' = current /\ status' = TRUE
                  /\ calls' \in {<<>>, <<"clock">>, <<"supply", "clock">>, <<"clock", "supply">>}
                  /\ pc' \in {"call", "complete"} /\ (Calls' \/ Completes')
                BY <1>1, <1>4, <2>1, <2>2, GotSet DEF GotVoltage, Carry
            <3> QED BY <1>1, <1>2, <1>3, <3>1 DEF IInv, TypeOK, Phase
        <2>3. CASE state = "GET_OPP" /\ request.response
            <3>1. /\ current' \in Levels \cup {0} /\ calls' = <<>> /\ pc' = "complete"
                  /\ status' \in BOOLEAN /\ Completes'
                BY <1>1, <1>4, <2>1, <2>3, GotGet
            <3> QED BY <1>1, <1>2, <1>3, <3>1 DEF IInv, TypeOK, Phase
        <2> QED BY <1>1, <2>2, <2>3
    <1>5. CASE Fail /\ UNCHANGED current
        <2>1. Handling' /\ UNCHANGED hardware
            BY <1>1, <1>2, <1>3, <1>5 DEF Handling, Queued, hardware
        <2>2. pc' = "complete" /\ calls' = <<>> /\ status' = FALSE /\ Completes'
            BY <1>1, <1>5, <2>1, FailCompletes
        <2> QED BY <1>1, <1>2, <1>3, <1>5, <2>2 DEF IInv, TypeOK, Phase
    <1> QED BY <1>4, <1>5 DEF ReadNow

\* It answers later.
LEMMA ReadLaterInv ==
    ASSUME IInv, NEW e \in {"set", "get"}, Take(e), current = 0, ReadLater,
           queue' = Tail(queue), owed' \in Owed,
           UNCHANGED <<state, request, pending, has, alarm, clock, asks, wanted, outcome>>
    PROVE  IInv'
    <1>1. /\ TypeOK /\ Pending /\ Queued(e) /\ Base /\ e \in Events
          /\ \/ state = "SET_OPP" /\ Setting /\ Settled
             \/ state = "GET_OPP" /\ request.response
        BY TakeFacts DEF IInv, Events
    <1>2. queue' = <<>> /\ queue' \in Seq(Events) /\ Quiet' /\ pc = "loop"
        BY <1>1, OneEvent DEF Queued, Quiet
    <1>3. Pending'
        BY <1>1 DEF Pending
    <1>4. supply' = [supply EXCEPT !.busy = "get"] /\ UNCHANGED <<current, handler>>
        BY DEF ReadLater
    <1>5. supply'.volts = supply.volts /\ supply'.busy = "get"
          /\ supply' \in [volts: Nat, busy: {"no", "get", "set"}]
        BY <1>1, <1>4 DEF TypeOK
    <1>6. Base' /\ (Settled => Settled') /\ (Setting => Setting') /\ Reading'
        BY <1>1, <1>2, <1>4, <1>5
        DEF Base, Settled, Setting, HardwareAt, Reading, Supplying, handler
    <1>7. SetsOpp' \/ GetsOpp'
        BY <1>1, <1>4, <1>6 DEF SetsOpp, GetsOpp
    <1> QED BY <1>1, <1>2, <1>3, <1>4, <1>5, <1>7 DEF IInv, TypeOK, Phase, handler

\* dvfs_handle_set_opp from the level recorded, without asking.
LEMMA TakeSetInv ==
    ASSUME IInv, TakeSet
    PROVE  IInv'
    <1>1. CASE current = 0
        <2>1. Take("set") /\ queue' = Tail(queue) /\ (ReadNow \/ ReadLater)
              /\ UNCHANGED <<state, request, pending, has, alarm, clock, asks, wanted, outcome>>
            BY <1>1 DEF TakeSet, history
        <2>2. owed' \in Owed
            BY DEF TakeSet, history, IInv, TypeOK
        <2> QED BY <1>1, <2>1, <2>2, ReadNowInv, ReadLaterInv
    <1>2. CASE current # 0
        <2>1. /\ TypeOK /\ Pending /\ Queued("set") /\ Base
              /\ state = "SET_OPP" /\ Setting /\ Settled
            BY TakeFacts DEF IInv, Events, TakeSet
        <2>2. /\ queue' = <<>> /\ queue' \in Seq(Events) /\ GotVoltage(Believed)
              /\ UNCHANGED <<state, request, pending, has, alarm, supply, clock, asks, history>>
            BY <1>2, <2>1, OneEvent DEF Queued, TakeSet, Believed, Events
        <2>3. Handling' /\ UNCHANGED <<outcome, hardware>> /\ Pending'
            BY <2>1, <2>2 DEF Handling, Quiet, Queued, hardware, history, Pending
        <2>4. /\ current' = current /\ status' = TRUE
              /\ calls' \in {<<>>, <<"clock">>, <<"supply", "clock">>, <<"clock", "supply">>}
              /\ pc' \in {"call", "complete"} /\ (Calls' \/ Completes')
            BY <2>1, <2>2, <2>3, GotSet DEF GotVoltage, Carry
        <2> QED BY <2>1, <2>2, <2>3, <2>4 DEF IInv, TypeOK, Phase, history
    <1> QED BY <1>1, <1>2

LEMMA TakeGetInv ==
    ASSUME IInv, TakeGet
    PROVE  IInv'
    <1>1. /\ Take("get") /\ queue' = Tail(queue) /\ current = 0
          /\ UNCHANGED <<state, request, pending, has, alarm, clock, asks, wanted, outcome>>
        BY TakeFacts DEF TakeGet, Events
    <1>2. \/ ReadNow /\ owed' \in Owed
          \/ ReadLater /\ owed' \in Owed
        BY DEF TakeGet, IInv, TypeOK, Owed
    <1> QED BY <1>1, <1>2, ReadNowInv, ReadLaterInv

\* dvfs_handle_psu_get_voltage_resp
LEMMA TakeVoltageInv ==
    ASSUME IInv, TakeVoltage
    PROVE  IInv'
    <1>1. PICK e \in {"voltage", "voltage_error"} :
              /\ Take(e)
              /\ \/ e = "voltage" /\ GotVoltage(supply.volts)
                 \/ e = "voltage_error" /\ Fail /\ UNCHANGED current
        BY DEF TakeVoltage
    <1>2. /\ TypeOK /\ Pending /\ Queued(e) /\ Base /\ current = 0 /\ e \in Events
          /\ \/ state = "SET_OPP" /\ Setting /\ Settled
             \/ state = "GET_OPP" /\ request.response
        BY <1>1, TakeFacts DEF IInv, Events
    <1>3. /\ queue' = <<>> /\ queue' \in Seq(Events) /\ Believed = supply.volts
          /\ UNCHANGED <<state, request, pending, has, alarm, supply, clock, asks, history>>
        BY <1>2, OneEvent DEF Queued, TakeVoltage, Believed, hardware
    <1>4. Handling' /\ UNCHANGED <<outcome, hardware>> /\ Pending'
        BY <1>2, <1>3 DEF Handling, Quiet, Queued, hardware, history, Pending
    <1>5. CASE GotVoltage(supply.volts) /\ state = "SET_OPP" /\ Setting /\ Settled
        <2>1. /\ current' = current /\ status' = TRUE
              /\ calls' \in {<<>>, <<"clock">>, <<"supply", "clock">>, <<"clock", "supply">>}
              /\ pc' \in {"call", "complete"} /\ (Calls' \/ Completes')
            BY <1>2, <1>3, <1>4, <1>5, GotSet DEF GotVoltage, Carry
        <2> QED BY <1>2, <1>3, <1>4, <2>1 DEF IInv, TypeOK, Phase, history
    <1>6. CASE GotVoltage(supply.volts) /\ state = "GET_OPP" /\ request.response
        <2>1. /\ current' \in Levels \cup {0} /\ calls' = <<>> /\ pc' = "complete"
              /\ status' \in BOOLEAN /\ Completes'
            BY <1>2, <1>3, <1>4, <1>6, GotGet
        <2> QED BY <1>2, <1>3, <1>4, <2>1 DEF IInv, TypeOK, Phase, history
    <1>7. CASE Fail /\ UNCHANGED current
        <2>1. pc' = "complete" /\ calls' = <<>> /\ status' = FALSE /\ Completes'
            BY <1>2, <1>3, <1>4, <1>7, FailCompletes
        <2> QED BY <1>2, <1>3, <1>4, <1>7, <2>1 DEF IInv, TypeOK, Phase, history
    <1> QED BY <1>1, <1>2, <1>5, <1>6, <1>7

-----------------------------------------------------------------------------
\* The supply or the clock is called: the hardware is set now or later, or not.
LEMMA CallHardwareInv ==
    ASSUME IInv, CallHardware
    PROVE  IInv'
    <1>1. /\ TypeOK /\ Pending /\ Calls /\ Handling /\ Setting /\ queue \in Seq(Events)
          /\ UNCHANGED <<current, request, pending, has, queue, alarm, asks, history>>
        BY HandlerFacts DEF IInv, CallHardware, Calls, TypeOK
    <1>2. Pending' /\ Setting'
        BY <1>1 DEF Pending, Setting
    <1>3. Base
        BY <1>1 DEF Calls, Raise, Lower, ClockNext, SupplyNext
    <1>4. \/ state = "SET_OPP" /\ calls = <<"supply", "clock">> /\ Raise
          \/ state = "SET_OPP" /\ calls = <<"clock", "supply">> /\ Lower
          \/ state \in {"SET_OPP", "SET_FREQUENCY"} /\ calls = <<"clock">> /\ ClockNext
          \/ state \in {"SET_OPP", "SET_VOLTAGE"} /\ calls = <<"supply">> /\ SupplyNext
        BY <1>1 DEF Calls
    <1>5. Voltage[request.opp] \in Nat /\ Frequency[request.opp] \in Nat
        BY <1>1, Numbers DEF Setting
    <1>6. CASE SetsNow
        <2>1. Handling' /\ state' = state /\ status' = TRUE
            BY <1>1, <1>6 DEF Handling, Quiet, SetsNow, Carry, TypeOK
        <2>2. /\ supply' \in [volts: Nat, busy: {"no", "get", "set"}]
              /\ clock' \in [rate: Nat, busy: {"no", "set"}]
            BY <1>1, <1>5, <1>6 DEF TypeOK, SetsNow
        <2>3. CASE calls = <<"supply", "clock">> /\ Raise /\ state = "SET_OPP"
            <3>1. /\ supply'.volts = Voltage[request.opp] /\ UNCHANGED clock
                  /\ calls' = <<"clock">> /\ pc' = "call"
                BY <1>1, <1>6, <2>3, CallsLeft DEF SetsNow, Carry, TypeOK
            <3>2. ClockNext'
                BY <1>1, <2>3, <3>1, SupplyFirst
            <3>3. Calls'
                BY <1>2, <2>1, <2>3, <3>1, <3>2 DEF Calls
            <3> QED BY <1>1, <1>2, <2>1, <2>2, <3>1, <3>3 DEF IInv, TypeOK, Phase, history
        <2>4. CASE calls = <<"clock", "supply">> /\ Lower /\ state = "SET_OPP"
            <3>1. /\ clock'.rate = Frequency[request.opp] /\ UNCHANGED supply
                  /\ calls' = <<"supply">> /\ pc' = "call"
                BY <1>1, <1>6, <2>4, CallsLeft DEF SetsNow, Carry, TypeOK
            <3>2. SupplyNext'
                BY <1>1, <2>4, <3>1, ClockFirst
            <3>3. Calls'
                BY <1>2, <2>1, <2>4, <3>1, <3>2 DEF Calls
            <3> QED BY <1>1, <1>2, <2>1, <2>2, <3>1, <3>3 DEF IInv, TypeOK, Phase, history
        <2>5. CASE /\ calls = <<"clock">> /\ ClockNext
                   /\ state \in {"SET_OPP", "SET_FREQUENCY"}
            <3>1. /\ clock'.rate = Frequency[request.opp] /\ UNCHANGED supply
                  /\ calls' = <<>> /\ pc' = "complete"
                BY <1>1, <1>6, <2>5, CallsLeft DEF SetsNow, Carry, TypeOK
            <3>2. HardwareAt(request.opp)'
                BY <1>1, <2>5, <3>1, ClockSecond
            <3>3. Completes'
                BY <1>2, <2>1, <2>5, <3>1, <3>2 DEF Completes
            <3> QED BY <1>1, <1>2, <2>1, <2>2, <3>1, <3>3 DEF IInv, TypeOK, Phase, history
        <2>6. CASE /\ calls = <<"supply">> /\ SupplyNext
                   /\ state \in {"SET_OPP", "SET_VOLTAGE"}
            <3>1. /\ supply'.volts = Voltage[request.opp] /\ UNCHANGED clock
                  /\ calls' = <<>> /\ pc' = "complete"
                BY <1>1, <1>6, <2>6, CallsLeft DEF SetsNow, Carry, TypeOK
            <3>2. HardwareAt(request.opp)'
                BY <1>1, <2>6, <3>1, SupplySecond
            <3>3. Completes'
                BY <1>2, <2>1, <2>6, <3>1, <3>2 DEF Completes
            <3> QED BY <1>1, <1>2, <2>1, <2>2, <3>1, <3>3 DEF IInv, TypeOK, Phase, history
        <2> QED BY <1>4, <2>3, <2>4, <2>5, <2>6
    <1>7. CASE SetsLater
        <2>1. /\ calls' = <<>> /\ pc' = "loop" /\ status' = status /\ queue' = <<>>
              /\ UNCHANGED <<request, current>> /\ alarm' # "on"
            BY <1>1, <1>7 DEF SetsLater, Handling, Quiet
        <2>2. supply.busy = "no" /\ clock.busy = "no"
            BY <1>1 DEF Handling, Quiet
        <2>3. CASE Head(calls) = "supply"
            <3>1. /\ supply' \in [volts: Nat, busy: {"no", "get", "set"}]
                  /\ supply'.volts = supply.volts /\ supply'.busy = "set"
                  /\ UNCHANGED clock
                BY <1>1, <1>7, <2>3 DEF SetsLater, TypeOK
            <3>2. Supplying("set")'
                BY <2>1, <2>2, <3>1 DEF Supplying, Quiet
            <3>3. /\ Raise => Raise'
                  /\ SupplyNext => SupplyNext'
                BY <2>1, <3>1 DEF Raise, SupplyNext, Base, Believed
            <3>4. \/ Raise /\ state' = "SET_FREQUENCY"
                  \/ SupplyNext /\ state' = "SET_OPP_DONE"
                BY <1>4, <1>7, <2>3, CallsLeft DEF SetsLater, StateAfter
            <3>5. FirstOfTwo' \/ LastStep'
                BY <1>2, <3>2, <3>3, <3>4 DEF FirstOfTwo, LastStep
            <3> QED BY <1>1, <1>2, <2>1, <3>1, <3>4, <3>5
                    DEF IInv, TypeOK, Phase, history, States
        <2>4. CASE Head(calls) = "clock"
            <3>1. /\ clock' \in [rate: Nat, busy: {"no", "set"}]
                  /\ clock'.rate = clock.rate /\ clock'.busy = "set"
                  /\ UNCHANGED supply
                BY <1>1, <1>7, <2>4 DEF SetsLater, TypeOK
            <3>2. Clocking'
                BY <2>1, <2>2, <3>1 DEF Clocking
            <3>3. /\ Lower => Lower'
                  /\ ClockNext => ClockNext'
                BY <2>1, <3>1 DEF Lower, ClockNext, Base, Believed
            <3>4. \/ Lower /\ state' = "SET_VOLTAGE"
                  \/ ClockNext /\ state' = "SET_OPP_DONE"
                BY <1>4, <1>7, <2>4, CallsLeft DEF SetsLater, StateAfter
            <3>5. FirstOfTwo' \/ LastStep'
                BY <1>2, <3>2, <3>3, <3>4 DEF FirstOfTwo, LastStep
            <3> QED BY <1>1, <1>2, <2>1, <3>1, <3>4, <3>5
                    DEF IInv, TypeOK, Phase, history, States
        <2> QED BY <1>4, <2>3, <2>4, CallsLeft
    <1>8. CASE Fail /\ UNCHANGED <<state, hardware>>
        <2>1. Handling'
            BY <1>1, <1>8 DEF Handling, Quiet, hardware
        <2>2. pc' = "complete" /\ calls' = <<>> /\ status' = FALSE /\ Completes'
            BY <1>1, <1>3, <1>4, <1>8, <2>1, FailCompletes
        <2> QED BY <1>1, <1>2, <1>8, <2>2 DEF IInv, TypeOK, Phase, history, hardware
    <1> QED BY <1>6, <1>7, <1>8 DEF CallHardware

\* dvfs_handle_psu_set_voltage_resp and dvfs_handle_clk_set_freq_resp
LEMMA TakeResponseInv ==
    ASSUME IInv, TakeResponse
    PROVE  IInv'
    <1>1. PICK e \in {"supply_set", "clock_set", "supply_error", "clock_error"} :
              /\ Take(e)
              /\ \/ e = "supply_set" /\ state = "SET_FREQUENCY" /\ Carry(<<"clock">>)
                 \/ e = "clock_set" /\ state = "SET_VOLTAGE" /\ Carry(<<"supply">>)
                 \/ e \in {"supply_set", "clock_set"} /\ state = "SET_OPP_DONE" /\ Carry(<<>>)
                 \/ e \in {"supply_error", "clock_error"} /\ Fail
        BY DEF TakeResponse
    <1>2. /\ TypeOK /\ Pending /\ Queued(e) /\ Setting /\ e \in Events
          /\ UNCHANGED <<domain, alarm, hardware, asks, history>>
        BY <1>1, TakeFacts DEF IInv, Events, TakeResponse
    <1>3. queue' = <<>> /\ queue' \in Seq(Events)
        BY <1>2, OneEvent DEF Queued, TakeResponse
    <1>4. Handling' /\ Pending' /\ Setting' /\ UNCHANGED <<state, request, current, hardware>>
        BY <1>2, <1>3 DEF Handling, Quiet, Queued, hardware, domain, Pending, Setting
    <1>5. CASE e = "supply_set" /\ state = "SET_FREQUENCY" /\ Carry(<<"clock">>)
        <2>1. ClockNext'
            BY <1>1, <1>4, <1>5, TakeFacts DEF Events, ClockNext, Base, hardware
        <2>2. pc' = "call" /\ calls' = <<"clock">> /\ status' = TRUE
            BY <1>5, CallsLeft DEF Carry
        <2>3. Calls'
            BY <1>4, <1>5, <2>1, <2>2 DEF Calls
        <2> QED BY <1>2, <1>3, <1>4, <2>2, <2>3 DEF IInv, TypeOK, Phase, history, hardware, domain
    <1>6. CASE e = "clock_set" /\ state = "SET_VOLTAGE" /\ Carry(<<"supply">>)
        <2>1. SupplyNext'
            BY <1>1, <1>4, <1>6, TakeFacts DEF Events, SupplyNext, Base, hardware
        <2>2. pc' = "call" /\ calls' = <<"supply">> /\ status' = TRUE
            BY <1>6, CallsLeft DEF Carry
        <2>3. Calls'
            BY <1>4, <1>6, <2>1, <2>2 DEF Calls
        <2> QED BY <1>2, <1>3, <1>4, <2>2, <2>3 DEF IInv, TypeOK, Phase, history, hardware, domain
    <1>7. CASE e \in {"supply_set", "clock_set"} /\ state = "SET_OPP_DONE" /\ Carry(<<>>)
        <2>1. HardwareAt(request.opp)'
            BY <1>1, <1>4, <1>7, TakeFacts DEF Events, HardwareAt, hardware
        <2>2. pc' = "complete" /\ calls' = <<>> /\ status' = TRUE
            BY <1>7 DEF Carry
        <2>3. Completes'
            BY <1>4, <1>7, <2>1, <2>2 DEF Completes
        <2> QED BY <1>2, <1>3, <1>4, <2>2, <2>3 DEF IInv, TypeOK, Phase, history, hardware, domain
    <1>8. CASE e \in {"supply_error", "clock_error"} /\ Fail
        <2>1. Base /\ state \in {"SET_FREQUENCY", "SET_VOLTAGE", "SET_OPP_DONE"}
            BY <1>1, <1>8, TakeFacts DEF Events
        <2>2. pc' = "complete" /\ calls' = <<>> /\ status' = FALSE /\ Completes'
            BY <1>2, <1>4, <1>8, <2>1, FailCompletes
        <2> QED BY <1>2, <1>3, <1>4, <2>2 DEF IInv, TypeOK, Phase, history, hardware, domain
    <1> QED BY <1>1, <1>5, <1>6, <1>7, <1>8

-----------------------------------------------------------------------------
LEMMA Requests ==
    /\ NoRequest \in Request /\ NoRequest.opp = 0 /\ 0 \in 0 .. MaxRetries
    /\ \A l \in Levels, retry \in BOOLEAN, retries \in 0 .. MaxRetries :
          LET r == [opp |-> l, retry |-> retry, retries |-> retries, response |-> FALSE]
          IN  r \in Request /\ r # NoRequest /\ r.opp = l /\ r.response = FALSE
    BY DvfsAssumption DEF NoRequest, Request

\* dvfs_set_level_start leaves the domain idle or about to set its level.
LEMMA StartLevelFacts ==
    ASSUME NEW l \in Levels, NEW retry \in BOOLEAN, NEW retries \in 0 .. MaxRetries,
           StartLevel(l, retry, retries, <<>>),
           Base', Settled', Quiet', pc' = "loop", supply'.busy = "no"
    PROVE  /\ state' \in States /\ request' \in Request
           /\ pending' \in Request /\ has' = (pending' # NoRequest) /\ has' \in BOOLEAN
           /\ queue' \in Seq(Events) /\ Pending' /\ (Idling' \/ SetsOpp')
    <1>1. CASE l = request.opp
        <2>1. /\ state' = "IDLE" /\ request' = NoRequest /\ pending' = NoRequest
              /\ has' = FALSE /\ queue' = <<>>
            BY <1>1 DEF StartLevel, Cleanup
        <2>2. queue' \in Seq(Events) /\ Pending' /\ Idling'
            BY <2>1 DEF Idling, Supplying, Pending
        <2>3. request' \in Request /\ pending' \in Request /\ state' \in States
            BY <2>1, Requests DEF States
        <2> QED BY <2>1, <2>2, <2>3
    <1>2. CASE l # request.opp
        <2>1. /\ state' = "SET_OPP" /\ pending' = NoRequest /\ has' = FALSE
              /\ request' = [opp |-> l, retry |-> retry, retries |-> retries,
                             response |-> FALSE]
              /\ queue' = <<"set">> /\ queue' \in Seq(Events)
            BY <1>2, OneEvent DEF StartLevel, Events
        <2>2. request' \in Request /\ Setting'
            BY <2>1, Requests DEF Setting
        <2>3. SetsOpp'
            BY <2>1, <2>2 DEF SetsOpp, Queued
        <2> QED BY <2>1, <2>2, <2>3, Requests DEF States, Pending
    <1> QED BY <1>1, <1>2

\* The retry alarm rings and the pending request is started.
LEMMA TakeRetryInv ==
    ASSUME IInv, TakeRetry
    PROVE  IInv'
    <1>1. /\ TypeOK /\ Pending /\ Queued("retry") /\ has /\ Base /\ Settled
        BY TakeFacts DEF IInv, Events, TakeRetry
    <1>2. /\ StartLevel(pending.opp, pending.retry, pending.retries, <<>>)
          /\ UNCHANGED <<current, alarm, handler, hardware, asks, history>>
        BY <1>1, OneEvent DEF Queued, TakeRetry, Events
    <1>3. /\ pending.opp \in Levels /\ pending.retry \in BOOLEAN
          /\ pending.retries \in 0 .. MaxRetries
        BY <1>1 DEF Pending, TypeOK, Request
    <1>4. Base' /\ Settled' /\ Quiet' /\ pc' = "loop" /\ supply'.busy = "no"
        BY <1>1, <1>2 DEF Base, Settled, HardwareAt, Queued, Quiet, hardware, handler, history
    <1>5. /\ state' \in States /\ request' \in Request
          /\ pending' \in Request /\ has' = (pending' # NoRequest)
          /\ queue' \in Seq(Events) /\ Pending' /\ (Idling' \/ SetsOpp')
        BY <1>2, <1>3, <1>4, StartLevelFacts
    <1> QED BY <1>1, <1>2, <1>5 DEF IInv, TypeOK, Phase, history, hardware, handler

\* A pending request waits for the alarm, or starts at once.
LEMMA StartPendingFacts ==
    ASSUME NEW p \in Request, p.opp \in Levels, p # NoRequest, StartPending(p),
           alarm \in {"none", "off"}, queue = <<>>, request \in Request, UNCHANGED hardware,
           Base', Settled', pc' = "loop", supply.busy = "no", clock.busy = "no"
    PROVE  /\ state' \in States /\ request' \in Request /\ alarm' \in {"none", "off", "on"}
           /\ pending' \in Request /\ has' = (pending' # NoRequest)
           /\ queue' \in Seq(Events) /\ Pending' /\ Phase'
    <1>1. CASE alarm # "none"
        <2>1. /\ alarm' = "on" /\ state' = "RETRY" /\ pending' = p /\ has' = TRUE
              /\ UNCHANGED <<request, queue>>
            BY <1>1 DEF StartPending
        <2>2. has' = (pending' # NoRequest) /\ Pending' /\ state' \in States
            BY <2>1 DEF Pending, States
        <2>3. Phase' /\ queue' \in Seq(Events)
            BY <2>1 DEF Phase, Retries, Ringing, hardware
        <2> QED BY <2>1, <2>2, <2>3
    <1>2. CASE alarm = "none"
        <2>1. StartLevel(p.opp, p.retry, p.retries, <<>>) /\ alarm' = alarm
            BY <1>2 DEF StartPending
        <2>2. p.retry \in BOOLEAN /\ p.retries \in 0 .. MaxRetries
            BY DEF Request
        <2>3. Quiet' /\ supply'.busy = "no"
            BY <1>2, <2>1 DEF Quiet, hardware
        <2>4. /\ state' \in States /\ request' \in Request
              /\ pending' \in Request /\ has' = (pending' # NoRequest)
              /\ queue' \in Seq(Events) /\ Pending' /\ (Idling' \/ SetsOpp')
            BY <2>1, <2>2, <2>3, StartLevelFacts
        <2> QED BY <2>1, <2>4 DEF Phase
    <1> QED BY <1>1, <1>2

\* dvfs_complete
LEMMA CompleteInv ==
    ASSUME IInv, Complete
    PROVE  IInv'
    <1>1. /\ TypeOK /\ Pending /\ Completes /\ pc' = "loop"
          /\ UNCHANGED <<calls, status, hardware, asks, wanted>>
        BY HandlerFacts DEF IInv, Complete
    <1>2. /\ queue = <<>> /\ alarm \in {"none", "off"} /\ request \in Request
          /\ supply.busy = "no" /\ clock.busy = "no"
        BY <1>1 DEF Completes, Handling, Quiet, TypeOK
    <1>3. /\ Base' /\ Settled' /\ current' \in Levels \cup {0}
          /\ outcome' \in {"failed", "set", "found"} /\ owed' \in Owed
        <2>1. outcome' \in {"failed", "set", "found"} /\ owed' \in Owed
            BY <1>1 DEF Complete, Answer, TypeOK, Owed
        <2>2. CASE Base /\ (state = "GET_OPP" \/ ~status)
            <3>1. current' = current /\ outcome' = "failed"
                BY <2>2 DEF Complete
            <3> QED BY <1>1, <2>1, <2>2, <3>1 DEF Base, Settled, hardware, TypeOK
        <2>3. CASE state # "GET_OPP" /\ status /\ Setting /\ HardwareAt(request.opp)
            <3>1. current' = request.opp
                BY <2>3 DEF Complete
            <3>2. current' \in Levels /\ current' # 0 /\ HardwareAt(current)'
                BY <1>1, <2>3, <3>1, Numbers DEF Setting, HardwareAt, hardware
            <3>3. Base'
                BY <3>2, <1>1, Numbers DEF Base, HardwareAt, hardware
            <3> QED BY <2>1, <3>2, <3>3 DEF Settled
        <2>4. CASE /\ state # "GET_OPP" /\ status /\ Setting
                   /\ request.opp = current /\ Base /\ Settled
            <3>1. current' = current /\ (outcome' = "set" => outcome = "set")
                BY <2>4 DEF Complete
            <3> QED BY <1>1, <2>1, <2>4, <3>1 DEF Base, Settled, HardwareAt, hardware, TypeOK
        <2> QED BY <1>1, <2>2, <2>3, <2>4 DEF Completes
    <1>4. /\ state' \in States /\ request' \in Request /\ alarm' \in {"none", "off", "on"}
          /\ pending' \in Request /\ has' = (pending' # NoRequest)
          /\ queue' \in Seq(Events) /\ Pending' /\ Phase'
        <2>1. CASE Retried
            <3> DEFINE p == [opp |-> IF has THEN pending.opp ELSE request.opp,
                             retry |-> TRUE, retries |-> request.retries + 1,
                             response |-> FALSE]
            <3>1. Setting
                BY <1>1, <2>1 DEF Completes, Retried
            <3>2. p.opp \in Levels
                BY <1>1, <3>1 DEF Setting, Pending
            <3>3. request.retries + 1 \in 0 .. MaxRetries
                BY <1>2, <2>1, DvfsAssumption DEF Retried, Request
            <3>4. p \in Request /\ p # NoRequest
                BY <3>2, <3>3 DEF Request, NoRequest
            <3>5. StartPending(p)
                BY <2>1 DEF Complete
            <3> HIDE DEF p
            <3> QED BY <1>1, <1>2, <1>3, <3>2, <3>4, <3>5, StartPendingFacts
        <2>2. CASE has /\ StartPending(pending)
            <3>1. pending \in Request /\ pending # NoRequest /\ pending.opp \in Levels
                BY <1>1, <2>2 DEF TypeOK, Pending
            <3> QED BY <1>1, <1>2, <1>3, <2>2, <3>1, StartPendingFacts
        <2>3. CASE Cleanup /\ UNCHANGED <<queue, alarm>>
            <3>1. /\ state' = "IDLE" /\ request' = NoRequest /\ pending' = NoRequest
                  /\ has' = FALSE /\ queue' = <<>> /\ alarm' \in {"none", "off"}
                BY <1>2, <2>3 DEF Cleanup
            <3>2. Idling' /\ Pending' /\ queue' \in Seq(Events)
                BY <1>1, <1>2, <1>3, <3>1 DEF Idling, Supplying, Quiet, hardware, Pending
            <3> QED BY <3>1, <3>2, Requests DEF Phase, States
        <2> QED BY <2>1, <2>2, <2>3 DEF Complete
    <1> QED BY <1>1, <1>3, <1>4 DEF IInv, TypeOK, hardware

-----------------------------------------------------------------------------
\* alarm_callback
LEMMA AlarmCallbackInv ==
    ASSUME IInv, AlarmCallback
    PROVE  IInv'
    <1>1. /\ TypeOK /\ Pending /\ Ringing /\ state = "RETRY" /\ has /\ Base /\ Settled
          /\ alarm' = "off" /\ UNCHANGED <<domain, handler, hardware, asks, history>>
        BY DEF IInv, AlarmCallback, Phase, Queued, Supplying, Clocking, Ringing, Reading,
               Handling, Quiet, Idling, SetsOpp, GetsOpp, Retries, FirstOfTwo, LastStep,
               Failed, Calls, Completes
    <1>2. queue' = <<"retry">> /\ queue' \in Seq(Events)
        BY <1>1, OneEvent DEF AlarmCallback, Ringing, Events
    <1>3. Queued("retry")' /\ Base' /\ Settled' /\ Pending'
        BY <1>1, <1>2 DEF Ringing, Queued, Quiet, Base, Settled, HardwareAt, Pending,
                          domain, handler, hardware, history
    <1>4. Phase'
        BY <1>1, <1>3 DEF Phase, Retries, domain
    <1> QED BY <1>1, <1>2, <1>3, <1>4 DEF IInv, TypeOK, domain, handler, hardware, history

\* The supply has answered, or has failed and left the voltage.
LEMMA SupplyAnswersInv ==
    ASSUME IInv, SupplyAnswers
    PROVE  IInv'
    <1>1. /\ TypeOK /\ Pending /\ pc = "loop" /\ queue = <<>> /\ Quiet /\ supply.busy # "no"
          /\ \/ /\ supply.busy = "get" /\ current = 0 /\ Base
                /\ \/ state = "SET_OPP" /\ Setting /\ Settled
                   \/ state = "GET_OPP" /\ request.response
             \/ supply.busy = "set" /\ Setting /\ Base
                /\ \/ state = "SET_FREQUENCY" /\ Raise
                   \/ state = "SET_OPP_DONE" /\ SupplyNext
          /\ UNCHANGED <<domain, alarm, handler, clock, asks, history>>
        BY DEF IInv, SupplyAnswers, Phase, Queued, Supplying, Clocking, Ringing, Reading,
               Handling, Idling, SetsOpp, GetsOpp, Retries, FirstOfTwo, LastStep,
               Failed, Calls, Completes, Raise, SupplyNext
    <1>2. PICK e \in {"voltage", "supply_set", "voltage_error", "supply_error"} :
              /\ queue' = Append(queue, e)
              /\ \/ /\ supply.busy = "get" /\ e \in {"voltage", "voltage_error"}
                    /\ supply' = [supply EXCEPT !.busy = "no"]
                 \/ /\ supply.busy = "set" /\ e = "supply_error"
                    /\ supply' = [supply EXCEPT !.busy = "no"]
                 \/ /\ supply.busy = "set" /\ e = "supply_set"
                    /\ supply' = [volts |-> Voltage[request.opp], busy |-> "no"]
        <2> USE <1>1 DEF TypeOK
        <2>1. CASE supply.busy = "get"
            BY <2>1 DEF SupplyAnswers
        <2>2. CASE supply.busy = "set"
            BY <2>2 DEF SupplyAnswers
        <2> QED BY <2>1, <2>2
    <1>3. queue' = <<e>> /\ queue' \in Seq(Events) /\ Quiet' /\ Pending' /\ pc' = "loop"
        BY <1>1, <1>2, OneEvent DEF Events, Quiet, Pending, domain, handler
    <1>4. CASE supply' = [supply EXCEPT !.busy = "no"] /\ e # "supply_set"
        <2>1. /\ supply'.volts = supply.volts /\ supply'.busy = "no"
              /\ supply' \in [volts: Nat, busy: {"no", "get", "set"}]
            BY <1>1, <1>4 DEF TypeOK
        <2>2. Queued(e)'
            BY <1>3, <2>1 DEF Queued
        <2>3. Base' /\ (Settled => Settled') /\ (Setting => Setting')
            BY <1>1, <2>1 DEF Base, Settled, Setting, HardwareAt, domain, history
        <2>4. SetsOpp' \/ GetsOpp' \/ Failed'
            <3>1. CASE supply.busy = "get"
                BY <1>1, <1>2, <2>2, <2>3, <3>1 DEF SetsOpp, GetsOpp, Reading, domain
            <3>2. CASE supply.busy = "set"
                BY <1>1, <1>2, <1>4, <2>2, <2>3, <3>2 DEF Failed, domain
            <3> QED BY <1>1, <3>1, <3>2
        <2> QED BY <1>1, <1>3, <2>1, <2>4 DEF IInv, TypeOK, Phase, domain, handler, history
    <1>5. CASE /\ supply.busy = "set" /\ e = "supply_set"
               /\ supply' = [volts |-> Voltage[request.opp], busy |-> "no"]
        <2>1. /\ supply'.volts = Voltage[request.opp] /\ supply'.busy = "no"
              /\ supply' \in [volts: Nat, busy: {"no", "get", "set"}]
            BY <1>1, <1>5, Numbers DEF Setting
        <2>2. Queued("supply_set")' /\ Setting'
            BY <1>1, <1>3, <1>5, <2>1 DEF Queued, Setting, domain
        <2>3. CASE state = "SET_FREQUENCY" /\ Raise
            <3>1. ClockNext'
                BY <1>1, <1>5, <2>1, <2>3, SupplyFirst DEF domain
            <3>2. FirstOfTwo'
                BY <1>1, <2>2, <2>3, <3>1 DEF FirstOfTwo, domain
            <3> QED BY <1>1, <1>3, <2>1, <3>2 DEF IInv, TypeOK, Phase, domain, handler, history
        <2>4. CASE state = "SET_OPP_DONE" /\ SupplyNext
            <3>1. HardwareAt(request.opp)'
                BY <1>1, <2>1, <2>4, SupplySecond DEF domain
            <3>2. LastStep'
                BY <1>1, <2>2, <2>4, <3>1 DEF LastStep, domain
            <3> QED BY <1>1, <1>3, <2>1, <3>2 DEF IInv, TypeOK, Phase, domain, handler, history
        <2> QED BY <1>1, <1>5, <2>3, <2>4
    <1> QED BY <1>2, <1>4, <1>5

\* The clock has answered, or has failed and left the frequency.
LEMMA ClockAnswersInv ==
    ASSUME IInv, ClockAnswers
    PROVE  IInv'
    <1>1. /\ TypeOK /\ Pending /\ Clocking /\ Setting /\ Base
          /\ \/ state = "SET_VOLTAGE" /\ Lower
             \/ state = "SET_OPP_DONE" /\ ClockNext
          /\ UNCHANGED <<domain, alarm, handler, supply, asks, history>>
        BY DEF IInv, ClockAnswers, Phase, Queued, Supplying, Clocking, Ringing, Reading,
               Handling, Quiet, Idling, SetsOpp, GetsOpp, Retries, FirstOfTwo, LastStep,
               Failed, Calls, Completes, Lower, ClockNext
    <1>2. PICK e \in {"clock_set", "clock_error"} :
              /\ queue' = Append(queue, e)
              /\ \/ e = "clock_error" /\ clock' = [clock EXCEPT !.busy = "no"]
                 \/ /\ e = "clock_set"
                    /\ clock' = [rate |-> Frequency[request.opp], busy |-> "no"]
        BY DEF ClockAnswers
    <1>3. queue' = <<e>> /\ queue' \in Seq(Events) /\ Pending' /\ Setting'
        BY <1>1, <1>2, OneEvent DEF Events, Clocking, Pending, Setting, domain
    <1>4. CASE e = "clock_error" /\ clock' = [clock EXCEPT !.busy = "no"]
        <2>1. /\ clock'.rate = clock.rate /\ clock'.busy = "no"
              /\ clock' \in [rate: Nat, busy: {"no", "set"}]
            BY <1>1, <1>4 DEF TypeOK
        <2>2. Queued("clock_error")' /\ Base'
            BY <1>1, <1>3, <1>4, <2>1 DEF Clocking, Queued, Quiet, Base, domain, handler
        <2>3. Failed'
            BY <1>1, <1>3, <2>2 DEF Failed, domain
        <2> QED BY <1>1, <1>3, <2>1, <2>3 DEF IInv, TypeOK, Phase, domain, handler, history
    <1>5. CASE e = "clock_set" /\ clock' = [rate |-> Frequency[request.opp], busy |-> "no"]
        <2>1. /\ clock'.rate = Frequency[request.opp] /\ clock'.busy = "no"
              /\ clock' \in [rate: Nat, busy: {"no", "set"}]
            BY <1>1, <1>5, Numbers DEF Setting
        <2>2. Queued("clock_set")'
            BY <1>1, <1>3, <1>5, <2>1 DEF Clocking, Queued, Quiet, handler
        <2>3. CASE state = "SET_VOLTAGE" /\ Lower
            <3>1. SupplyNext'
                BY <1>1, <2>1, <2>3, ClockFirst DEF domain
            <3>2. FirstOfTwo'
                BY <1>1, <1>3, <2>2, <2>3, <3>1 DEF FirstOfTwo, domain
            <3> QED BY <1>1, <1>3, <2>1, <3>2 DEF IInv, TypeOK, Phase, domain, handler, history
        <2>4. CASE state = "SET_OPP_DONE" /\ ClockNext
            <3>1. HardwareAt(request.opp)'
                BY <1>1, <2>1, <2>4, ClockSecond DEF domain
            <3>2. LastStep'
                BY <1>1, <1>3, <2>2, <2>4, <3>1 DEF LastStep, domain
            <3> QED BY <1>1, <1>3, <2>1, <3>2 DEF IInv, TypeOK, Phase, domain, handler, history
        <2> QED BY <1>1, <2>3, <2>4
    <1> QED BY <1>2, <1>4, <1>5

-----------------------------------------------------------------------------
\* A client only changes what is pending, unless the domain is idle.
LEMMA PhaseKept ==
    ASSUME Phase, has => has',
           UNCHANGED <<state, current, request, queue, alarm, handler, hardware, outcome>>
    PROVE  Phase'
    BY DEF handler, hardware, Phase, Queued, Supplying, Clocking, Ringing, Reading,
           Handling, Quiet, Idling, SetsOpp, GetsOpp, Retries, FirstOfTwo, LastStep,
           Failed, Calls, Completes, Setting, Base, Believed, Settled, HardwareAt,
           Raise, Lower, ClockNext, SupplyNext

\* dvfs_set_level
LEMMA SetLevelInv ==
    ASSUME IInv, NEW l \in Levels, SetLevel(l)
    PROVE  IInv'
    <1>1. /\ TypeOK /\ Pending /\ Phase /\ asks' \in 0 .. MaxAsks /\ wanted' = l
          /\ UNCHANGED <<current, alarm, handler, hardware, outcome, owed>>
        BY DvfsAssumption DEF IInv, SetLevel, TypeOK
    <1>2. CASE MakePending(l) /\ UNCHANGED queue
        <2>1. /\ pending' = [(IF has THEN pending ELSE NoRequest) EXCEPT !.opp = l]
              /\ has' = TRUE /\ UNCHANGED <<state, request>>
            BY <1>2 DEF MakePending
        <2>2. pending' \in Request /\ pending'.opp = l
            BY <1>1, <2>1, Requests DEF TypeOK, Request
        <2>3. pending' # NoRequest
            BY <2>2, Numbers, <1>1, Requests
        <2>4. Phase'
            BY <1>1, <1>2, <2>1, PhaseKept
        <2>5. has' = (pending' # NoRequest)
            BY <2>1, <2>3
        <2> QED BY <1>1, <1>2, <2>1, <2>2, <2>4, <2>5
                DEF IInv, TypeOK, Pending, handler, hardware
    <1>3. CASE UNCHANGED <<state, request, pending, has, queue>>
        <2>1. Phase'
            BY <1>1, <1>3, PhaseKept
        <2> QED BY <1>1, <1>3, <2>1 DEF IInv, TypeOK, Pending, handler, hardware
    <1>4. CASE state = "IDLE" /\ StartLevel(l, FALSE, 0, queue)
        <2>1. Idling
            BY <1>1, <1>4 DEF SetLevel, Phase, SetsOpp, GetsOpp, Retries, FirstOfTwo,
                              LastStep, Failed, Calls, Completes
        <2>2. StartLevel(l, FALSE, 0, <<>>)
            BY <1>4, <2>1 DEF Idling, Supplying
        <2>3. Base' /\ Settled' /\ Quiet' /\ pc' = "loop" /\ supply'.busy = "no"
            BY <1>1, <2>1 DEF Base, Settled, HardwareAt, Idling, Supplying, Quiet,
                              handler, hardware
        <2>4. /\ state' \in States /\ request' \in Request
              /\ pending' \in Request /\ has' = (pending' # NoRequest)
              /\ queue' \in Seq(Events) /\ Pending' /\ (Idling' \/ SetsOpp')
            BY <2>2, <2>3, Requests, StartLevelFacts
        <2> QED BY <1>1, <2>4 DEF IInv, TypeOK, Phase, handler, hardware
    <1> QED BY <1>2, <1>3, <1>4 DEF SetLevel

\* dvfs_get_current_opp
LEMMA GetCurrentOppInv ==
    ASSUME IInv, GetCurrentOpp
    PROVE  IInv'
    <1>1. /\ TypeOK /\ Pending /\ state = "IDLE" /\ pc = "loop" /\ current = 0
          /\ asks' \in 0 .. MaxAsks
          /\ state' = "GET_OPP" /\ request' = [request EXCEPT !.response = TRUE]
          /\ UNCHANGED <<current, pending, has, alarm, handler, hardware, wanted, outcome>>
        BY DvfsAssumption DEF IInv, GetCurrentOpp, TypeOK
    <1>2. Idling
        BY <1>1 DEF IInv, Phase, SetsOpp, GetsOpp, Retries, FirstOfTwo,
                    LastStep, Failed, Calls, Completes
    <1>3. queue' = <<"get">> /\ queue' \in Seq(Events)
        BY <1>2, OneEvent DEF GetCurrentOpp, Idling, Supplying, Events
    <1>4. request' \in Request /\ request'.response
        BY <1>1 DEF TypeOK, Request
    <1>5. GetsOpp'
        BY <1>1, <1>2, <1>3, <1>4 DEF Idling, Supplying, GetsOpp, Queued, Quiet, Base,
                                      handler, hardware
    <1>6. Pending' /\ owed' \in Owed
        BY <1>1 DEF Pending, GetCurrentOpp, Owed
    <1> QED BY <1>1, <1>3, <1>4, <1>5, <1>6 DEF IInv, TypeOK, Phase, States, handler, hardware

-----------------------------------------------------------------------------
\* dvfs_start has queued the change to the sustained level.
LEMMA InitInv == Init => IInv
    <1> SUFFICES ASSUME Init PROVE IInv
        OBVIOUS
    <1>1. PICK v \in BootVoltages, f \in BootFrequencies :
              /\ Supports(v, f)
              /\ supply = [volts |-> v, busy |-> "no"]
              /\ clock = [rate |-> f, busy |-> "no"]
        BY DEF Init
    <1>2. /\ state = "SET_OPP" /\ current = 0 /\ pending = NoRequest /\ has = FALSE
          /\ request = [opp |-> Sustained, retry |-> TRUE, retries |-> 0, response |-> FALSE]
          /\ queue = <<"set">> /\ alarm \in {"none", "off"}
          /\ pc = "loop" /\ calls = <<>> /\ status = TRUE
          /\ asks = 0 /\ wanted = Sustained /\ outcome = "failed" /\ owed \in Owed
        BY DEF Init, NoRequest, Owed
    <1>3. request \in Request /\ Setting /\ queue \in Seq(Events)
        BY <1>2, Requests, OneEvent, DvfsAssumption DEF Setting, Events
    <1>4. v \in Nat /\ f \in Nat
        BY DvfsAssumption
    <1>5. TypeOK
        <2>1. has = (pending # NoRequest)
            BY <1>2
        <2>2. /\ supply \in [volts: Nat, busy: {"no", "get", "set"}]
              /\ clock \in [rate: Nat, busy: {"no", "set"}]
            BY <1>1, <1>4
        <2>3. asks \in 0 .. MaxAsks /\ wanted \in Levels /\ pending \in Request
            BY <1>2, Requests, DvfsAssumption
        <2> QED BY <1>2, <1>3, <2>1, <2>2, <2>3 DEF TypeOK, States
    <1>6. Base /\ Settled /\ Queued("set")
        BY <1>1, <1>2 DEF Base, Settled, Queued, Quiet
    <1>7. Phase /\ Pending
        BY <1>2, <1>3, <1>6 DEF Phase, SetsOpp, Pending
    <1> QED BY <1>5, <1>7 DEF IInv

LEMMA NextInv == IInv /\ [Next]_vars => IInv'
    <1> SUFFICES ASSUME IInv, [Next]_vars PROVE IInv'
        OBVIOUS
    <1>1. CASE \E l \in Levels : SetLevel(l)
        BY <1>1, SetLevelInv
    <1>2. CASE GetCurrentOpp
        BY <1>2, GetCurrentOppInv
    <1>3. CASE Thread
        BY <1>3, TakeSetInv, TakeGetInv, TakeVoltageInv, CallHardwareInv, TakeResponseInv,
           CompleteInv, TakeRetryInv DEF Thread
    <1>4. CASE AlarmCallback
        BY <1>4, AlarmCallbackInv
    <1>5. CASE SupplyAnswers
        BY <1>5, SupplyAnswersInv
    <1>6. CASE ClockAnswers
        BY <1>6, ClockAnswersInv
    <1>7. CASE UNCHANGED vars
        <2>1. /\ UNCHANGED <<state, current, request, pending, has, queue, alarm, outcome>>
              /\ UNCHANGED <<handler, hardware, asks, wanted, owed>>
            BY <1>7 DEF vars, domain, history
        <2>2. TypeOK' /\ Pending'
            BY <2>1 DEF IInv, TypeOK, Pending, handler, hardware
        <2>3. Phase'
            BY <2>1, PhaseKept DEF IInv
        <2> QED BY <2>2, <2>3 DEF IInv
    <1> QED BY <1>1, <1>2, <1>3, <1>4, <1>5, <1>6, <1>7 DEF Next

\* The phases of a domain are all there are.
THEOREM DvfsInvariance == Spec => []IInv
    BY InitInv, NextInv, PTL DEF Spec

\* Every state of a DVFS domain is one the code declares, and no retry counter
\* exceeds DVFS_MAX_RETRIES.
THEOREM DvfsTypeCorrect == Spec => []TypeOK
    <1>1. IInv => TypeOK
        BY DEF IInv
    <1> QED BY <1>1, DvfsInvariance, PTL

\* dvfs_handle_set_opp never has the clock faster than the voltage allows,
\* whichever operation fails or answers late and whoever asks meanwhile.
THEOREM NeverOverclocked == Spec => []FrequencySupported
    <1>1. IInv => FrequencySupported
        <2> SUFFICES ASSUME IInv PROVE FrequencySupported
            OBVIOUS
        <2>1. TypeOK /\ (Base \/ (Setting /\ HardwareAt(request.opp)))
            BY DEF IInv, Phase, Idling, SetsOpp, GetsOpp, Retries, FirstOfTwo, LastStep,
                   Failed, Calls, Completes, Raise, Lower, ClockNext, SupplyNext
        <2>2. CASE Base
            BY <2>1, <2>2, BaseSupports DEF FrequencySupported
        <2>3. CASE Setting /\ HardwareAt(request.opp)
            BY <2>1, <2>3, Numbers, LevelSupported
               DEF FrequencySupported, HardwareAt, Setting
        <2> QED BY <2>1, <2>2, <2>3
    <1> QED BY <1>1, DvfsInvariance, PTL

\* An idle domain that has set its level is at the voltage and the frequency of
\* the level that dvfs_get_current_opp reports.
THEOREM IdleMatches == Spec => []HardwareMatches
    <1>1. IInv => HardwareMatches
        BY DEF IInv, HardwareMatches, Phase, Idling, Settled, HardwareAt, SetsOpp, GetsOpp,
               Retries, FirstOfTwo, LastStep, Failed, Calls, Completes
    <1> QED BY <1>1, DvfsInvariance, PTL
===============================================================================
