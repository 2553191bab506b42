--------------------------------- MODULE I2c ----------------------------------
(***************************************************************************)
(* One I2C bus: the hardware abstraction layer (module/i2c/src/mod_i2c.c)  *)
(* over the interrupt-driven controller driver                             *)
(* (module/dw_apb_i2c/src/mod_dw_apb_i2c.c).                               *)
(*                                                                         *)
(* The thread runs the event handler, one event at a time; it is split     *)
(* where it calls the driver or sends a response, because the transfer's   *)
(* interrupt may come between any two of these steps.  Requests that wait  *)
(* are delayed responses in the framework, whose list the module reads     *)
(* back in order.                                                          *)
(***************************************************************************)
EXTENDS Naturals, SequencesExt

CONSTANTS
    Requests,       \* The requests clients may make, each at most once.
    NoRequest,      \* No request.
    SyncDriver,     \* Whether the driver may complete a transfer at once, as
                    \* its interface allows; dw_apb_i2c never does.
    PoolMayBeEmpty  \* Whether the framework may have no event left.

ASSUME I2cAssumption ==
    /\ IsFiniteSet(Requests) /\ NoRequest \notin Requests
    /\ SyncDriver \in BOOLEAN /\ PoolMayBeEmpty \in BOOLEAN

Transfers == {<<"TX">>, <<"RX">>, <<"TX", "RX">>}

VARIABLES
    todo,      \* todo[r]: the kind of request r
    state,     \* ctx->state
    request,   \* ctx->request
    queue,     \* the device's events in the thread's queue
    isrQueue,  \* the status of a transfer that the interrupt has reported
    held,      \* the delayed responses of the device, oldest first
    pc,        \* where the handler is
    caller,    \* the function that has the driver called or the answer sent
    drvStatus, \* drv_status, to answer
    bus,       \* the transfer the controller is making, or "idle"
    reading,   \* the driver's data while read_on_going, or NoRequest
    made,      \* history: the transfers made for the request being served
    filled,    \* history: the requests whose receive buffer was written
    answer     \* history: what the client of each request was told

device == <<state, request, held>>
handler == <<pc, caller, drvStatus>>
driver == <<bus, reading>>
history == <<made, filled, answer>>
vars == <<todo, device, queue, isrQueue, handler, driver, history>>

States == {"IDLE", "TX", "RX", "TX_RX", "RELOAD", "PANIC"}
Results == {"SUCCESS", "E_DEVICE"}

Reload == [type |-> "reload"]
RequestEvent(r) == [type |-> "request", req |-> r]
Completed(s) == [type |-> "completed", status |-> s]
Events == {Reload} \cup {RequestEvent(r) : r \in Requests}
          \cup {Completed(s) : s \in Results}

TypeOK ==
    /\ todo \in [Requests -> Transfers]
    /\ state \in States
    /\ request \in Requests \cup {NoRequest}
    /\ queue \in Seq(Events)
    /\ isrQueue \in Seq(Results)
    /\ held \in Seq(Requests)
    /\ pc \in {"loop", "call", "hold", "respond", "next"}
    /\ caller \in {"request", "completed", "next"}
    /\ drvStatus \in Results
    /\ bus \in {"idle", "TX", "RX"}
    /\ reading \in Requests \cup {NoRequest}
    /\ made \in {<<>>} \cup Transfers
    /\ filled \subseteq Requests
    /\ answer \in [Requests -> Results \cup {"none", "E_PANIC"}]

Init ==
    /\ todo \in [Requests -> Transfers]
    /\ state = "IDLE"
    /\ request = NoRequest
    /\ queue = <<>>
    /\ isrQueue = <<>>
    /\ held = <<>>
    /\ pc = "loop"
    /\ caller = "request"
    /\ drvStatus = "SUCCESS"
    /\ bus = "idle"
    /\ reading = NoRequest
    /\ made = <<>>
    /\ filled = {}
    /\ answer = [r \in Requests |-> "none"]

\* The state in which a request's first transfer is made.
FirstState(r) == CASE todo[r] = <<"TX">> -> "TX"
                   [] todo[r] = <<"RX">> -> "RX"
                   [] todo[r] = <<"TX", "RX">> -> "TX_RX"

-----------------------------------------------------------------------------
\* transmit_as_controller and its two siblings: the client's request becomes
\* an event.  With no event left it is refused, and nothing changes.
Unasked(r) ==
    /\ answer[r] = "none" /\ r # request /\ ~Contains(held, r)
    /\ ~Contains(queue, RequestEvent(r))

MakeRequest(r) ==
    /\ pc = "loop" /\ Unasked(r)
    /\ queue' = Append(queue, RequestEvent(r))
    /\ UNCHANGED <<todo, device, isrQueue, handler, driver, history>>

\* A request event is taken: its transfers start if the device is idle, else
\* its response is delayed; after a panic it is answered at once.
AnswerPanic(r) ==
    /\ state = "PANIC"
    /\ \/ answer' = [answer EXCEPT ![r] = "E_PANIC"]
       \/ PoolMayBeEmpty /\ UNCHANGED answer
    /\ UNCHANGED <<device, handler, made, filled>>

Wait(r) ==
    /\ state \notin {"IDLE", "PANIC"}
    /\ \/ held' = Append(held, r)
       \/ PoolMayBeEmpty /\ UNCHANGED held
    /\ UNCHANGED <<state, request, handler, history>>

Start(r) ==
    /\ state' = FirstState(r)
    /\ request' = r
    /\ pc' = "call"

StartAtOnce(r) ==
    /\ state = "IDLE"
    /\ Start(r)
    /\ caller' = "request"
    /\ UNCHANGED <<held, drvStatus, history>>

TakeRequest ==
    /\ pc = "loop" /\ queue # <<>> /\ Head(queue).type = "request"
    /\ queue' = Tail(queue)
    /\ LET r == Head(queue).req IN AnswerPanic(r) \/ Wait(r) \/ StartAtOnce(r)
    /\ UNCHANGED <<todo, isrQueue, driver>>

-----------------------------------------------------------------------------
\* The driver is called for the transfer the state names.  It starts it and
\* returns FWK_PENDING; or fails, a reception having perhaps been recorded
\* already; or, if it is such a driver, completes it.
Direction == IF state = "RX" THEN "RX" ELSE "TX"

\* Variant: the driver does not record the buffer to fill.
RecordReadForgotten == UNCHANGED reading

RecordRead == reading' = IF Direction = "RX" THEN request ELSE reading

TransferStarts ==
    /\ bus' = Direction
    /\ RecordRead
    /\ pc' = IF caller = "request" THEN "hold" ELSE "loop"
    /\ UNCHANGED <<state, drvStatus, history>>

TransferRefused ==
    /\ RecordRead \/ UNCHANGED reading
    /\ drvStatus' = "E_DEVICE"
    /\ pc' = "respond"
    /\ UNCHANGED <<state, bus, history>>

TransferMadeAtOnce ==
    /\ SyncDriver
    /\ made' = Append(made, Direction)
    /\ filled' = IF Direction = "RX" THEN filled \cup {request} ELSE filled
    /\ IF state = "TX_RX"
       THEN state' = "RX" /\ UNCHANGED <<pc, drvStatus>>
       ELSE drvStatus' = "SUCCESS" /\ pc' = "respond" /\ UNCHANGED state
    /\ UNCHANGED <<driver, answer>>

CallDriver ==
    /\ pc = "call"
    /\ TransferStarts \/ TransferRefused \/ TransferMadeAtOnce
    /\ UNCHANGED <<todo, request, queue, isrQueue, held, caller>>

\* The handler returns, and the framework keeps the response for later.
DelayResponse ==
    /\ pc = "hold"
    /\ \/ held' = Append(held, request)
       \/ PoolMayBeEmpty /\ UNCHANGED held
    /\ pc' = "loop"
    /\ UNCHANGED <<todo, state, request, queue, isrQueue, caller, drvStatus,
                   driver, history>>

-----------------------------------------------------------------------------
Tell(r, status) == answer' = [answer EXCEPT ![r] = status] /\ made' = <<>>

Panic ==
    /\ state' = "PANIC"
    /\ pc' = "loop"

\* mod_i2c_process_event answers the request whose event it was given.
RespondAtOnce ==
    /\ caller = "request"
    /\ \/ Tell(request, drvStatus)
       \/ (PoolMayBeEmpty /\ made' = <<>> /\ UNCHANGED answer)
    /\ state' = "IDLE"
    /\ pc' = "loop"
    /\ UNCHANGED <<queue, held>>

\* respond_to_caller answers the oldest delayed response.
RespondToCaller ==
    /\ caller = "completed"
    /\ IF held = <<>>
       THEN Panic /\ UNCHANGED <<held, made, answer>>
       ELSE /\ Tell(Head(held), drvStatus)
            /\ held' = Tail(held)
            /\ pc' = "next"
            /\ UNCHANGED state
    /\ UNCHANGED queue

\* Variant: the reload event is not sent.
PutReloadForgotten == UNCHANGED queue

PutReload == queue' = Append(queue, Reload)

\* process_next_request answers the request it has started, then has the
\* module called back for the next one by a reload event.
RespondAndReload ==
    /\ caller = "next"
    /\ Tell(Head(held), drvStatus)
    /\ held' = Tail(held)
    /\ \/ /\ Tail(held) = <<>>
          /\ state' = "IDLE"
          /\ UNCHANGED queue
       \/ /\ Tail(held) # <<>>
          /\ state' = "RELOAD"
          /\ PutReload
       \/ /\ Tail(held) # <<>> /\ PoolMayBeEmpty
          /\ state' = "PANIC"
          /\ UNCHANGED queue
    /\ pc' = "loop"

Respond ==
    /\ pc = "respond"
    /\ RespondAtOnce \/ RespondToCaller \/ RespondAndReload
    /\ UNCHANGED <<todo, request, isrQueue, caller, drvStatus, driver, filled>>

\* Variant: the device is left idle with a request waiting.
ProcessNextDropped ==
    /\ pc = "next"
    /\ state' = "IDLE" /\ pc' = "loop" /\ UNCHANGED <<request, caller>>
    /\ UNCHANGED <<todo, queue, isrQueue, held, drvStatus, driver, history>>

ProcessNext ==
    /\ pc = "next"
    /\ IF held = <<>>
       THEN state' = "IDLE" /\ pc' = "loop" /\ UNCHANGED <<request, caller>>
       ELSE Start(Head(held)) /\ caller' = "next"
    /\ UNCHANGED <<todo, queue, isrQueue, held, drvStatus, driver, history>>

TakeReload ==
    /\ pc = "loop" /\ queue # <<>> /\ Head(queue).type = "reload"
    /\ queue' = Tail(queue)
    /\ pc' = "next"
    /\ UNCHANGED <<todo, device, isrQueue, caller, drvStatus, driver, history>>

\* The event of a completed transfer is taken.  A transmission that succeeded
\* is followed by the reception of the same request.
\* Variant: the status of the transmission is not looked at.
AfterCompletionUnchecked(status) ==
    \/ /\ state \in {"TX", "RX"}
       /\ pc' = "respond"
       /\ drvStatus' = status
       /\ UNCHANGED state
    \/ /\ state = "TX_RX"
       /\ state' = "RX"
       /\ pc' = "call"
       /\ UNCHANGED drvStatus
    \/ /\ state \notin {"TX", "RX", "TX_RX"}
       /\ Panic
       /\ UNCHANGED drvStatus

AfterCompletion(status) ==
    \/ /\ state \in {"TX", "RX"} \/ (state = "TX_RX" /\ status # "SUCCESS")
       /\ pc' = "respond"
       /\ drvStatus' = status
       /\ UNCHANGED state
    \/ /\ state = "TX_RX" /\ status = "SUCCESS"
       /\ state' = "RX"
       /\ pc' = "call"
       /\ UNCHANGED drvStatus
    \/ /\ state \notin {"TX", "RX", "TX_RX"}
       /\ Panic
       /\ UNCHANGED drvStatus

TakeCompleted ==
    /\ pc = "loop" /\ queue # <<>> /\ Head(queue).type = "completed"
    /\ queue' = Tail(queue)
    /\ caller' = "completed"
    /\ AfterCompletion(Head(queue).status)
    /\ UNCHANGED <<todo, request, isrQueue, held, driver, history>>

\* The framework moves an interrupt's event to an empty thread queue.
TakeIsrEvent ==
    /\ pc = "loop" /\ queue = <<>> /\ isrQueue # <<>>
    /\ queue' = <<Completed(Head(isrQueue))>>
    /\ isrQueue' = Tail(isrQueue)
    /\ UNCHANGED <<todo, device, handler, driver, history>>

-----------------------------------------------------------------------------
\* i2c_isr: the transfer is over.  On success the driver fills the buffer it
\* has recorded; an aborted transfer leaves the record.
TransferSucceeds ==
    /\ made' = Append(made, bus)
    /\ filled' = IF reading = NoRequest THEN filled ELSE filled \cup {reading}
    /\ reading' = NoRequest

TransferAborts == UNCHANGED <<made, filled, reading>>

Report(status) ==
    \/ isrQueue' = Append(isrQueue, status)
    \/ PoolMayBeEmpty /\ UNCHANGED isrQueue

I2cIsr ==
    /\ bus # "idle"
    /\ bus' = "idle"
    /\ \/ TransferSucceeds /\ Report("SUCCESS")
       \/ TransferAborts /\ Report("E_DEVICE")
    /\ UNCHANGED <<todo, device, queue, handler, answer>>

Thread == \/ TakeRequest \/ CallDriver \/ DelayResponse \/ Respond
          \/ ProcessNext \/ TakeReload \/ TakeCompleted \/ TakeIsrEvent

Next == (\E r \in Requests : MakeRequest(r)) \/ Thread \/ I2cIsr

Spec == Init /\ [][Next]_vars

\* The main loop keeps running, the controller ends the transfers it starts.
FairSpec == Spec /\ WF_vars(Thread) /\ WF_vars(I2cIsr)

-----------------------------------------------------------------------------
\* The places of the queue's reports of a completed transfer.
Reports == {i \in DOMAIN queue : queue[i].type = "completed"}

\* Between two events exactly one thing will have the device continue when a
\* request waits: a transfer, its report, or a reload event; nothing will when
\* the device is idle, and no report comes that the state does not expect.
\* The paths that must agree are the three ways to answer (at once, after an
\* interrupt, after a queued request that completed at once) and the list of
\* the framework.
OneInFlight ==
    /\ TypeOK
    /\ state # "PANIC"
    /\ LET transfers == (IF bus = "idle" THEN 0 ELSE 1) + Len(isrQueue)
                        + Cardinality(Reports)
       IN pc = "loop" =>
              /\ transfers = IF state \in {"TX", "RX", "TX_RX"} THEN 1 ELSE 0
              /\ Contains(queue, Reload) <=> (state = "RELOAD")
              /\ (held = <<>>) <=> (state = "IDLE")

\* A client that is told of success has had its buffer filled: the driver
\* records the buffer when it starts a reception and fills it in the
\* interrupt, after a transmission of the same request perhaps.
DataBeforeSuccess ==
    \A r \in Requests :
        answer[r] = "SUCCESS" /\ Contains(todo[r], "RX") => r \in filled

\* The place in a queue of the event that is no request's, of which there is
\* at most one; past the end when there is none.
Other(q) == CHOOSE k \in 1 .. Len(q) + 1 :
                \A i \in DOMAIN q : q[i].type = "request" <=> i # k

\* The requests whose events are queued, in order.
Queued(q) ==
    LET k == Other(q)
    IN [i \in 1 .. (IF k > Len(q) THEN Len(q) ELSE Len(q) - 1) |->
            q[IF i < k THEN i ELSE i + 1].req]

\* The requests to serve: the one in the handler's hands, those the framework
\* holds, those whose events are queued.
InHand == IF pc \in {"call", "hold", "respond"} /\ caller = "request"
          THEN <<request>>
          ELSE <<>>

Service == INSTANCE I2cService WITH waiting <- InHand \o held \o Queued(queue)

\* The FIFO service of i2c/doc, "Concurrent accesses".
ImplementsService == Service!Spec

\* A client that made a request is answered: "When the transmission operation
\* has finished a response event is sent to the client" (mod_i2c.h:149).
EventuallyAnswered ==
    \A r \in Requests : ~Unasked(r) ~> answer[r] # "none"

\* A buffer is written only for a client that still waits: "its content must
\* not be modified until the transaction is completed or aborted"
\* (mod_i2c.h:174) is the client's side of it.
NoLateFill == [][\A r \in filled' \ filled : answer[r] = "none"]_vars
===============================================================================
