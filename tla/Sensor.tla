-------------------------------- MODULE Sensor ---------------------------------
(***************************************************************************)
(* One sensor of the sensor HAL (module/sensor/src/mod_sensor.c) over a    *)
(* driver that may take its time: readers share a reading that is under    *)
(* way, and are answered together when it completes.                       *)
(*                                                                         *)
(* The thread runs get_data for a reader, or the handler of one of the     *)
(* sensor's events; the driver's interrupt reports a reading between any   *)
(* two of its steps.  The framework keeps the requests that wait as        *)
(* delayed responses.                                                      *)
(***************************************************************************)
EXTENDS Naturals, SequencesExt

CONSTANTS
    Requests,     \* The calls of get_data, each made at most once.
    NoRequest,    \* No request.
    MaxPending,   \* SENSOR_MAX_PENDING_REQUESTS.
    Overlap,      \* Whether a reader may call while the event of a reader
                  \* before it is still queued.
    QuickDriver   \* Whether a reading may complete before get_data returns.

ASSUME SensorAssumption ==
    /\ IsFiniteSet(Requests) /\ NoRequest \notin Requests
    /\ "complete" \notin Requests
    /\ MaxPending \in Nat \ {0}
    /\ Overlap \in BOOLEAN /\ QuickDriver \in BOOLEAN

VARIABLES
    pending,   \* concurrency_readings.pending_requests
    dequeuing, \* concurrency_readings.dequeuing
    cookie,    \* ctx->cookie, named by the request that bears it
    last,      \* ctx->last_read: which reading, and its status
    queue,     \* the sensor's events in the thread's queue: the request of a
               \* read request, or "complete"
    isrQueue,  \* how many completions the interrupt has reported
    held,      \* the delayed responses of the sensor, oldest first
    pc,        \* where the thread is
    reader,    \* the request get_data is running for
    reading,   \* whether the driver is at work
    count,     \* history: how many readings have completed
    since,     \* history: how many had been given out when each request was
               \* made
    answer     \* history: what each reader was told

hal == <<pending, dequeuing, cookie, last>>
events == <<queue, isrQueue, held>>
thread == <<pc, reader>>
history == <<count, since, answer>>
vars == <<hal, events, thread, reading, history>>

Statuses == {"SUCCESS", "E_DEVICE", "PENDING"}
Reading == [number: Nat, status: Statuses]
Unanswered == [number |-> 0, status |-> "none"]
Busy == [number |-> 0, status |-> "E_BUSY"]

TypeOK ==
    /\ pending \in 0 .. MaxPending
    /\ dequeuing \in BOOLEAN
    /\ cookie \in Requests \cup {NoRequest}
    /\ last \in Reading
    /\ queue \in Seq(Requests \cup {"complete"})
    /\ isrQueue \in Nat
    /\ held \in Seq(Requests)
    /\ pc \in {"loop", "status", "put"}
    /\ reader \in Requests \cup {NoRequest}
    /\ reading \in BOOLEAN
    /\ count \in Nat
    /\ since \in [Requests -> Nat]
    /\ answer \in [Requests -> Reading \cup {Unanswered, Busy}]

Init ==
    /\ pending = 0
    /\ dequeuing = FALSE
    /\ cookie = NoRequest
    /\ last = [number |-> 0, status |-> "SUCCESS"]
    /\ queue = <<>>
    /\ isrQueue = 0
    /\ held = <<>>
    /\ pc = "loop"
    /\ reader = NoRequest
    /\ reading = FALSE
    /\ count = 0
    /\ since = [r \in Requests |-> 0]
    /\ answer = [r \in Requests |-> Unanswered]

Asked(r) == r = reader \/ Contains(queue, r) \/ Contains(held, r)
            \/ answer[r] # Unanswered

-----------------------------------------------------------------------------
\* get_data is called from a handler of the reader's, between two events of
\* the sensor's.
MayCall(r) ==
    /\ pc = "loop" /\ ~Asked(r)
    /\ Overlap \/ \A q \in Requests : ~Contains(queue, q)

Call(r) == since' = [since EXCEPT ![r] = IF dequeuing THEN count - 1 ELSE count]

Tell(r, what) == answer' = [answer EXCEPT ![r] = what]

\* While a completed reading is being given out, its data is used again.
GetCached(r) ==
    /\ MayCall(r) /\ dequeuing
    /\ Call(r) /\ Tell(r, last)
    /\ UNCHANGED <<hal, events, thread, reading, count>>

\* The driver answers at once.
GetAtOnce(r) ==
    /\ MayCall(r) /\ ~dequeuing /\ pending = 0
    /\ \E s \in {"SUCCESS", "E_DEVICE"} :
           last' = [number |-> count + 1, status |-> s]
    /\ count' = count + 1
    /\ Call(r) /\ Tell(r, last')
    /\ UNCHANGED <<pending, dequeuing, cookie, events, thread, reading>>

\* Variant: one request more than the limit may wait.
RoomForOneMore == pending <= MaxPending

Room == pending < MaxPending

\* The driver starts a reading, or one is under way already.
GetLater(r) ==
    /\ MayCall(r) /\ ~dequeuing
    /\ \/ pending = 0 /\ pc' = "status" /\ reading' = TRUE
       \/ pending > 0 /\ Room /\ pc' = "put" /\ UNCHANGED reading
    /\ reader' = r
    /\ Call(r)
    /\ UNCHANGED <<hal, events, count, answer>>

GetBusy(r) ==
    /\ MayCall(r) /\ ~dequeuing /\ ~Room
    /\ Call(r) /\ Tell(r, Busy)
    /\ UNCHANGED <<hal, events, thread, reading, count>>

GetData(r) == GetCached(r) \/ GetAtOnce(r) \/ GetLater(r) \/ GetBusy(r)

\* get_data records what get_value has returned.
StoreStatus ==
    /\ pc = "status"
    /\ last' = [last EXCEPT !.status = "PENDING"]
    /\ pc' = "put"
    /\ UNCHANGED <<pending, dequeuing, cookie, events, reader, reading, history>>

PutReadRequest ==
    /\ pc = "put"
    /\ queue' = Append(queue, reader)
    /\ pending' = pending + 1
    /\ pc' = "loop"
    /\ reader' = NoRequest
    /\ UNCHANGED <<dequeuing, cookie, last, isrQueue, held, reading, history>>

-----------------------------------------------------------------------------
\* "We keep the cookie event of the request that triggers the reading": it is
\* told by being the only one pending when its event is processed.
\* Variant: the cookie of every request is kept.
KeepEveryCookie(r) == cookie' = r

KeepCookie(r) == cookie' = IF pending = 1 THEN r ELSE cookie

TakeReadRequest ==
    /\ pc = "loop" /\ queue # <<>> /\ Head(queue) \in Requests
    /\ queue' = Tail(queue)
    /\ KeepCookie(Head(queue))
    /\ held' = Append(held, Head(queue))
    /\ UNCHANGED <<pending, dequeuing, last, isrQueue, thread, reading, history>>

\* The interrupt of the driver.
\* Variant: get_data goes on starting readings until the event is processed.
ReportUnmarked ==
    /\ last' = [number |-> count + 1, status |-> "SUCCESS"]
    /\ UNCHANGED dequeuing

Report ==
    /\ \E s \in {"SUCCESS", "E_DEVICE"} :
           last' = [number |-> count + 1, status |-> s]
    /\ dequeuing' = TRUE

ReadingComplete ==
    /\ reading /\ (QuickDriver \/ pc # "status")
    /\ reading' = FALSE
    /\ count' = count + 1
    /\ Report
    /\ isrQueue' = isrQueue + 1
    /\ UNCHANGED <<pending, cookie, queue, held, thread, since, answer>>

TakeIsrEvent ==
    /\ pc = "loop" /\ queue = <<>> /\ isrQueue > 0
    /\ queue' = <<"complete">>
    /\ isrQueue' = isrQueue - 1
    /\ UNCHANGED <<hal, held, thread, reading, history>>

\* The requests process_pending_requests answers once n are pending: the
\* oldest ones, up to that number.
\* Variant: only the request that triggered the reading is answered.
OldestNone(s, n) == <<>>

Oldest(s, n) == IF n <= Len(s) THEN SubSeq(s, 1, n) ELSE s

\* The completion answers the request whose cookie was kept, then the others;
\* if no response bears that cookie, it does nothing at all.
TakeReadComplete ==
    /\ pc = "loop" /\ queue # <<>> /\ Head(queue) = "complete"
    /\ queue' = Tail(queue)
    /\ IF Contains(held, cookie)
       THEN LET others == RemoveFirst(held, cookie)
                told == Oldest(others, pending)
            IN /\ answer' = [r \in Requests |->
                                 IF r = cookie \/ Contains(told, r)
                                 THEN last ELSE answer[r]]
               /\ held' = SubSeq(others, Len(told) + 1, Len(others))
               /\ pending' = 0
               /\ dequeuing' = FALSE
       ELSE UNCHANGED <<answer, held, pending, dequeuing>>
    /\ UNCHANGED <<cookie, last, isrQueue, thread, reading, count, since>>

Thread == StoreStatus \/ PutReadRequest \/ TakeReadRequest \/ TakeIsrEvent
          \/ TakeReadComplete

Next == (\E r \in Requests : GetData(r)) \/ Thread \/ ReadingComplete

Spec == Init /\ [][Next]_vars

\* The main loop keeps running, and the driver ends the readings it starts.
FairSpec == Spec /\ WF_vars(Thread) /\ WF_vars(ReadingComplete)

-----------------------------------------------------------------------------
\* The requests that have been accepted and wait for a reading.
Waiting == Len(held) + Cardinality({i \in DOMAIN queue : queue[i] \in Requests})

\* The readings that are under way or reported.
Readings == (IF reading THEN 1 ELSE 0) + isrQueue
            + Cardinality({i \in DOMAIN queue : queue[i] = "complete"})

\* Between two events the requests that wait are counted, a single reading is
\* under way or being reported exactly when there are some, and the cookie
\* kept is that of the oldest: what the completion relies on to answer all.  At
\* every step no more wait than the module's limit.
Accounting ==
    /\ TypeOK
    /\ pc = "loop" =>
           /\ pending = Waiting
           /\ Readings = IF pending = 0 THEN 0 ELSE 1
           /\ held # <<>> => cookie = Head(held)

\* A reader gets the data of a reading that had not been given out when it
\* asked, and never a status that says it is still to come.
FreshData ==
    \A r \in Requests :
        answer[r] \notin {Unanswered, Busy} =>
            /\ answer[r].number > since[r]
            /\ answer[r].status # "PENDING"

\* "The requested data will be provided via a response event"
\* (mod_sensor.h:555).
EventuallyAnswered ==
    \A r \in Requests : Asked(r) ~> answer[r] # Unanswered
===============================================================================
