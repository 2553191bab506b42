---------------------------- MODULE MonitorProofs ----------------------------
(***************************************************************************)
(* Sensors and platform events.                                            *)
(*                                                                         *)
(* Readers that share a reading: for any number of readers and any limit,  *)
(* each is told a reading that is its own, and those that wait are counted.*)
(*                                                                         *)
(* The log of platform events: for a ring of any size, events of any       *)
(* sizes, any buffers and any losses, it implements EventLog.              *)
(***************************************************************************)
EXTENDS Sensor, PldmEvents, SeqLemmas, FiniteSetTheorems

-----------------------------------------------------------------------------
(* The inductive invariants.                                               *)

Reported == isrQueue > 0 \/ queue = <<"complete">>

\* One reading at a time is under way or reported.  While it is reported
\* get_data starts no other and puts no event, so that its completion is alone
\* in the queue.
OneReading ==
    /\ isrQueue <= 1
    /\ queue = <<"complete">> \/ queue \in Seq(Requests)
    /\ queue = <<"complete">> => isrQueue = 0 /\ pc = "loop"
    /\ dequeuing => ~reading /\ count > 0
    /\ Reported => dequeuing
    /\ reading /\ pc = "loop" => pending > 0
    /\ dequeuing /\ pc = "loop" => pending > 0
    /\ pc = "status" => reading /\ ~dequeuing /\ pending = 0
    /\ pc # "loop" => reader \in Requests
    /\ pc = "put" => pending < MaxPending

Waits(r) == (pc # "loop" /\ r = reader) \/ Contains(queue, r) \/ Contains(held, r)

\* The last reading is the one that is given out, and what a reader that waits
\* will be told is newer than what had been given out when it asked.
NumbersAgree ==
    /\ last.number = count
    /\ dequeuing => last.status # "PENDING"
    /\ \A r \in Requests : since[r] <= count /\ (dequeuing /\ Waits(r) => since[r] < count)

FreshInv == TypeOK /\ OneReading /\ NumbersAgree /\ FreshData

\* When readers do not call before the event of another one is processed there
\* is at most one event, what waits is what is counted, and the cookie that was
\* kept is that of the oldest.
Counted ==
    /\ queue \in {<<>>, <<"complete">>} \cup {<<r>> : r \in Requests}
    /\ pc # "loop" => queue = <<>>
    /\ pending = Len(held) + IF queue \in {<<>>, <<"complete">>} THEN 0 ELSE 1
    /\ held # <<>> => cookie = Head(held)
    /\ pending > 0 \/ pc # "loop" => reading \/ Reported

CountInv == TypeOK /\ OneReading /\ Counted

-----------------------------------------------------------------------------
(* The two queues.                                                         *)

\* fwk_get_delayed_response takes one response out of the list.
LEMMA TakenOut ==
    ASSUME NEW s \in Seq(Requests), NEW x, Contains(s, x)
    PROVE  /\ RemoveFirst(s, x) \in Seq(Requests)
           /\ Len(RemoveFirst(s, x)) = Len(s) - 1
           /\ Range(RemoveFirst(s, x)) \subseteq Range(s)
    <1> DEFINE I == {i \in 1 .. Len(s) : s[i] = x}
               k == Min(I)
    <1>1. Len(s) \in Nat /\ DOMAIN s = 1 .. Len(s)
        BY SeqBasics
    <1>2. I # {} /\ I \subseteq Nat
        BY <1>1 DEF Contains
    <1>3. k \in DOMAIN s
        <2>1. k \in I
            BY <1>2, MinFacts
        <2> QED BY <2>1, <1>1
    <1>4. RemoveFirst(s, x) = RemoveAt(s, k)
        <2>1. SelectInSeq(s, LAMBDA v : v = x) = k
            BY <1>2, Zenon DEF SelectInSeq
        <2> QED BY <2>1, Zenon DEF RemoveFirst, Contains
    <1> HIDE DEF k
    <1>5. RemoveAt(s, k) \in Seq(Requests) /\ Range(s) = Range(RemoveAt(s, k)) \cup {s[k]}
        BY <1>3, RemoveAtFacts
    <1>6. Len(RemoveAt(s, k)) = Len(s) - 1
        BY <1>1, <1>3, RemoveAtOrder
    <1> QED BY <1>4, <1>5, <1>6

\* process_pending_requests answers some of the responses that wait, and keeps
\* the others.
LEMMA ToldFacts ==
    ASSUME NEW s \in Seq(Requests), NEW n \in Nat
    PROVE  LET told == Oldest(s, n)
           IN /\ told \in Seq(Requests)
              /\ \A r : Contains(told, r) => Contains(s, r)
              /\ SubSeq(s, Len(told) + 1, Len(s)) \in Seq(Requests)
              /\ n > Len(s) => SubSeq(s, Len(told) + 1, Len(s)) = <<>>
    <1> DEFINE told == Oldest(s, n)
               rest == SubSeq(s, Len(told) + 1, Len(s))
    <1>1. Len(s) \in Nat /\ \A i \in 1 .. Len(s) : s[i] \in Requests
        BY SeqBasics
    <1>2. CASE n <= Len(s)
        <2>1. told = SubSeq(s, 1, n)
            BY <1>2 DEF Oldest
        <2>2. /\ SubSeq(s, 1, n) \in Seq(Requests)
              /\ Len(SubSeq(s, 1, n)) = n
              /\ \A i \in 1 .. n : SubSeq(s, 1, n)[i] = s[i]
            <3>1. \A i \in 1 .. n : s[i] \in Requests
                BY <1>1, <1>2
            <3> QED BY <3>1, <1>1, <1>2, SubSeqProperties
        <2>3. \A r : Contains(told, r) => Contains(s, r)
            BY <1>1, <1>2, <2>1, <2>2 DEF Contains
        <2>4. SubSeq(s, n + 1, Len(s)) \in Seq(Requests)
            <3>1. \A i \in n + 1 .. Len(s) : s[i] \in Requests
                BY <1>1
            <3> QED BY <3>1, <1>1, <1>2, SubSeqProperties
        <2> QED BY <1>1, <1>2, <2>1, <2>2, <2>3, <2>4
    <1>3. CASE n > Len(s)
        <2>1. told = s
            BY <1>1, <1>3 DEF Oldest
        <2>2. SubSeq(s, Len(s) + 1, Len(s)) \in Seq(Requests)
              /\ Len(SubSeq(s, Len(s) + 1, Len(s))) = 0
            <3>1. \A i \in Len(s) + 1 .. Len(s) : s[i] \in Requests
                BY <1>1
            <3> QED BY <3>1, <1>1, SubSeqProperties
        <2>3. SubSeq(s, Len(s) + 1, Len(s)) = <<>>
            BY <2>2, EmptySeq
        <2> QED BY <2>1, <2>2, <2>3
    <1> QED BY <1>1, <1>2, <1>3

\* What the handler of the completion may have done.
LEMMA CompleteFacts ==
    ASSUME TypeOK, TakeReadComplete
    PROVE  /\ UNCHANGED <<cookie, last, isrQueue, pc, reader, reading, count, since>>
           /\ pc = "loop" /\ queue # <<>> /\ Head(queue) = "complete"
           /\ queue' = Tail(queue)
           /\ answer' \in [Requests -> Reading \cup {Unanswered, Busy}]
           /\ \A r \in Requests : answer'[r] = answer[r]
                                  \/ (answer'[r] = last /\ Contains(held, r))
           /\ \/ UNCHANGED <<answer, held, pending, dequeuing>> /\ ~Contains(held, cookie)
              \/ /\ held' \in Seq(Requests) /\ pending' = 0 /\ dequeuing' = FALSE
                 /\ Contains(held, cookie)
                 /\ pending = Len(held) => held' = <<>>
    <1>1. CASE ~Contains(held, cookie)
        <2>1. UNCHANGED <<answer, held, pending, dequeuing>>
            BY <1>1, Zenon DEF TakeReadComplete
        <2>2. /\ UNCHANGED <<cookie, last, isrQueue, thread, reading, count, since>>
              /\ pc = "loop" /\ queue # <<>> /\ Head(queue) = "complete"
              /\ queue' = Tail(queue)
            BY Zenon DEF TakeReadComplete
        <2>3. answer \in [Requests -> Reading \cup {Unanswered, Busy}]
            BY DEF TypeOK
        <2>4. answer' \in [Requests -> Reading \cup {Unanswered, Busy}]
              /\ \A r \in Requests : answer'[r] = answer[r]
            BY <2>1, <2>3
        <2>5. UNCHANGED <<cookie, last, isrQueue, pc, reader, reading, count, since>>
            BY <2>2 DEF thread
        <2> QED BY <1>1, <2>1, <2>2, <2>4, <2>5, Zenon
    <1>2. CASE Contains(held, cookie)
        <2> DEFINE others == RemoveFirst(held, cookie)
                   told == Oldest(others, pending)
                   rest == SubSeq(others, Len(told) + 1, Len(others))
        <2>1. /\ answer' = [r \in Requests |-> IF r = cookie \/ Contains(told, r)
                                               THEN last ELSE answer[r]]
              /\ held' = rest /\ pending' = 0 /\ dequeuing' = FALSE
            BY <1>2, Zenon DEF TakeReadComplete
        <2>2. /\ others \in Seq(Requests) /\ Len(others) = Len(held) - 1
              /\ Range(others) \subseteq Range(held)
            BY <1>2, TakenOut DEF TypeOK
        <2> HIDE DEF others
        <2>3. /\ \A r : Contains(told, r) => Contains(others, r)
              /\ rest \in Seq(Requests)
              /\ pending > Len(others) => rest = <<>>
            <3>1. pending \in Nat
                BY SensorAssumption DEF TypeOK
            <3> QED BY <3>1, <2>2, ToldFacts
        <2> HIDE DEF told, rest
        <2>4. Len(held) \in Nat /\ Range(held) = {held[i] : i \in 1 .. Len(held)}
            BY SeqBasics DEF TypeOK
        <2>5. \A r : Contains(others, r) => Contains(held, r)
            <3>1. Len(others) \in Nat /\ Range(others) = {others[i] : i \in 1 .. Len(others)}
                BY <2>2, SeqBasics
            <3> QED BY <3>1, <2>2, <2>4 DEF Contains
        <2>6. pending = Len(held) => held' = <<>>
            BY <2>1, <2>2, <2>3, <2>4
        <2>7. \A r \in Requests : answer'[r] = answer[r]
                                  \/ (answer'[r] = last /\ Contains(held, r))
            <3>1. ASSUME NEW r \in Requests
                  PROVE  answer'[r] = IF r = cookie \/ Contains(told, r)
                                      THEN last ELSE answer[r]
                BY <2>1
            <3>2. ASSUME NEW r \in Requests, r = cookie \/ Contains(told, r)
                  PROVE  Contains(held, r)
                BY <1>2, <2>3, <2>5, <3>2
            <3>3. ASSUME NEW r \in Requests, ~(r = cookie \/ Contains(told, r))
                  PROVE  answer'[r] = answer[r]
                BY <3>1, <3>3
            <3>4. ASSUME NEW r \in Requests, r = cookie \/ Contains(told, r)
                  PROVE  answer'[r] = last
                BY <3>1, <3>4
            <3> QED BY <3>2, <3>3, <3>4, Zenon
        <2>8. answer' \in [Requests -> Reading \cup {Unanswered, Busy}]
            BY <2>1 DEF TypeOK
        <2> QED BY <1>2, <2>1, <2>3, <2>6, <2>7, <2>8 DEF TakeReadComplete, thread
    <1> QED BY <1>1, <1>2

\* The events of the sensor that wait are a completion, or requests.
LEMMA QueueFacts ==
    ASSUME TypeOK, OneReading
    PROVE  /\ <<"complete">> # <<>> /\ Head(<<"complete">>) = "complete"
           /\ Tail(<<"complete">>) = <<>>
           /\ <<"complete">> \notin Seq(Requests) /\ <<>> \in Seq(Requests)
           /\ queue # <<>> =>
                 /\ Tail(queue) \in Seq(Requests)
                 /\ Head(queue) = "complete" => queue = <<"complete">>
                 /\ Head(queue) \in Requests => queue \in Seq(Requests)
    <1>1. <<"complete">> # <<>> /\ Head(<<"complete">>) = "complete"
          /\ Tail(<<"complete">>) = <<>> /\ <<>> \in Seq(Requests)
        OBVIOUS
    <1>2. ASSUME NEW q \in Seq(Requests), q # <<>>
          PROVE  Head(q) \in Requests /\ Tail(q) \in Seq(Requests)
        BY <1>2, TailFacts
    <1>3. "complete" \notin Requests
        BY SensorAssumption
    <1>4. <<"complete">> \notin Seq(Requests)
        BY <1>1, <1>2, <1>3
    <1> QED BY <1>1, <1>2, <1>3, <1>4 DEF OneReading

-----------------------------------------------------------------------------
(* One reading at a time.                                                  *)

LEMMA OneInit == Init => TypeOK /\ OneReading
    <1> SUFFICES ASSUME Init PROVE TypeOK /\ OneReading
        OBVIOUS
    <1>1. <<>> \in Seq(Requests) /\ <<>> \in Seq(Requests \cup {"complete"})
          /\ <<>> # <<"complete">>
        OBVIOUS
    <1>2. TypeOK
        <2>1. /\ [r \in Requests |-> 0] \in [Requests -> Nat]
              /\ [r \in Requests |-> Unanswered]
                   \in [Requests -> Reading \cup {Unanswered, Busy}]
              /\ [number |-> 0, status |-> "SUCCESS"] \in Reading
            BY DEF Reading, Statuses
        <2>2. 0 \in 0 .. MaxPending
            BY SensorAssumption
        <2> QED BY <1>1, <2>1, <2>2 DEF Init, TypeOK
    <1>3. OneReading
        BY <1>1 DEF Init, OneReading, Reported
    <1> QED BY <1>2, <1>3

LEMMA OneGetData ==
    ASSUME TypeOK, OneReading, NEW r \in Requests, GetData(r)
    PROVE  TypeOK' /\ OneReading'
    <1>1. /\ MaxPending \in Nat \ {0} /\ pending \in Nat /\ count \in Nat
          /\ since \in [Requests -> Nat] /\ last \in Reading
          /\ answer \in [Requests -> Reading \cup {Unanswered, Busy}]
        BY SensorAssumption DEF TypeOK
    <1>2. pc = "loop" /\ MayCall(r) /\ Call(r)
        BY DEF GetData, GetCached, GetAtOnce, GetLater, GetBusy, MayCall
    <1>3. since' \in [Requests -> Nat]
        <2>1. (IF dequeuing THEN count - 1 ELSE count) \in Nat
            BY <1>1 DEF OneReading
        <2> QED BY <1>1, <1>2, <2>1 DEF Call
    <1>4. CASE GetCached(r) \/ GetBusy(r)
        <2>1. UNCHANGED <<hal, events, thread, reading, count>>
            BY <1>4 DEF GetCached, GetBusy
        <2>2. answer' \in [Requests -> Reading \cup {Unanswered, Busy}]
            BY <1>1, <1>4 DEF GetCached, GetBusy, Tell
        <2>3. TypeOK'
            BY <1>3, <2>1, <2>2 DEF TypeOK, hal, events, thread
        <2>4. OneReading'
            BY <2>1 DEF OneReading, Reported, hal, events, thread
        <2> QED BY <2>3, <2>4
    <1>5. CASE GetAtOnce(r)
        <2>1. /\ UNCHANGED <<pending, dequeuing, cookie, events, thread, reading>>
              /\ count' = count + 1 /\ ~dequeuing
              /\ last' \in Reading
              /\ answer' = [answer EXCEPT ![r] = last']
            BY <1>1, <1>5 DEF GetAtOnce, Tell, Reading, Statuses
        <2>2. TypeOK'
            BY <1>1, <1>3, <2>1 DEF TypeOK, events, thread
        <2>3. OneReading'
            BY <2>1 DEF OneReading, Reported, events, thread
        <2> QED BY <2>2, <2>3
    <1>6. CASE GetLater(r)
        <2>1. /\ UNCHANGED <<hal, events, count, answer>> /\ ~dequeuing /\ reader' = r
              /\ \/ pending = 0 /\ pc' = "status" /\ reading' = TRUE
                 \/ pending > 0 /\ Room /\ pc' = "put" /\ UNCHANGED reading
            BY <1>6 DEF GetLater
        <2>2. TypeOK'
            BY <1>1, <1>3, <2>1 DEF TypeOK, hal, events
        <2>3. OneReading'
            BY <1>1, <1>2, <2>1 DEF OneReading, Reported, hal, events, Room
        <2> QED BY <2>2, <2>3
    <1> QED BY <1>4, <1>5, <1>6 DEF GetData

LEMMA OneThread ==
    ASSUME TypeOK, OneReading, Thread
    PROVE  TypeOK' /\ OneReading'
    <1>1. /\ MaxPending \in Nat \ {0} /\ pending \in Nat /\ isrQueue \in Nat
          /\ last \in Reading
        BY SensorAssumption DEF TypeOK
    <1>2. CASE StoreStatus
        <2>1. last' \in Reading
            BY <1>1, <1>2 DEF StoreStatus, Reading, Statuses
        <2>2. TypeOK'
            BY <1>2, <2>1 DEF StoreStatus, TypeOK, events, history
        <2>3. OneReading'
            BY <1>1, <1>2 DEF StoreStatus, OneReading, Reported, events, history
        <2> QED BY <2>2, <2>3
    <1>3. CASE PutReadRequest
        <2>1. reader \in Requests /\ pending < MaxPending /\ queue \in Seq(Requests)
            BY <1>3 DEF PutReadRequest, OneReading
        <2>2. /\ queue' = Append(queue, reader)
              /\ queue' \in Seq(Requests) /\ queue' \in Seq(Requests \cup {"complete"})
            BY <1>3, <2>1, AppendFacts DEF PutReadRequest, TypeOK
        <2>3. TypeOK'
            BY <1>1, <1>3, <2>1, <2>2 DEF PutReadRequest, TypeOK, history
        <2>4. queue' # <<"complete">> /\ queue # <<"complete">>
            BY <2>1, <2>2, QueueFacts
        <2>5. OneReading'
            BY <1>1, <1>3, <2>2, <2>4 DEF PutReadRequest, OneReading, Reported, history
        <2> QED BY <2>3, <2>5
    <1>4. CASE TakeReadRequest
        <2>1. /\ Head(queue) \in Requests /\ queue' = Tail(queue) /\ pc = "loop"
              /\ queue' \in Seq(Requests) /\ queue' # <<"complete">> /\ queue # <<"complete">>
            <3>1. /\ queue # <<>> /\ Head(queue) \in Requests /\ queue' = Tail(queue)
                  /\ pc = "loop"
                BY <1>4 DEF TakeReadRequest
            <3>2. <<"complete">> \notin Seq(Requests)
                BY QueueFacts
            <3>3. queue \in Seq(Requests) /\ Tail(queue) \in Seq(Requests)
                BY <3>1, QueueFacts
            <3> QED BY <3>1, <3>2, <3>3, Zenon
        <2>2. queue' \in Seq(Requests \cup {"complete"})
            BY <2>1
        <2>3. held' \in Seq(Requests) /\ cookie' \in Requests \cup {NoRequest}
            BY <1>4, <2>1 DEF TakeReadRequest, KeepCookie, TypeOK
        <2>4. TypeOK'
            BY <1>4, <2>2, <2>3 DEF TakeReadRequest, TypeOK, thread, history
        <2>5. OneReading'
            BY <1>4, <2>1 DEF TakeReadRequest, OneReading, Reported, thread, history
        <2> QED BY <2>4, <2>5
    <1>5. CASE TakeIsrEvent
        <2>1. /\ queue' = <<"complete">> /\ isrQueue = 1 /\ isrQueue' = 0 /\ pc = "loop"
              /\ dequeuing
            BY <1>1, <1>5 DEF TakeIsrEvent, OneReading, Reported
        <2>2. TypeOK'
            BY <1>5, <2>1 DEF TakeIsrEvent, TypeOK, hal, thread, history
        <2>3. OneReading'
            BY <1>5, <2>1 DEF TakeIsrEvent, OneReading, Reported, hal, thread, history
        <2> QED BY <2>2, <2>3
    <1>6. CASE TakeReadComplete
        <2>1. /\ UNCHANGED <<cookie, last, isrQueue, pc, reader, reading, count, since>>
              /\ pc = "loop" /\ queue = <<"complete">> /\ queue' = <<>>
              /\ isrQueue = 0 /\ ~reading
            BY <1>6, CompleteFacts, QueueFacts DEF OneReading, Reported
        <2>2. answer' \in [Requests -> Reading \cup {Unanswered, Busy}]
            BY <1>6, CompleteFacts
        <2>3. queue' \in Seq(Requests) /\ queue' \in Seq(Requests \cup {"complete"})
              /\ queue' # <<"complete">>
            BY <2>1
        <2>4. CASE UNCHANGED <<held, pending, dequeuing>>
            <3>1. TypeOK'
                BY <2>1, <2>2, <2>3, <2>4 DEF TypeOK
            <3>2. OneReading'
                BY <2>1, <2>3, <2>4 DEF OneReading, Reported
            <3> QED BY <3>1, <3>2
        <2>5. CASE held' \in Seq(Requests) /\ pending' = 0 /\ dequeuing' = FALSE
            <3>1. TypeOK'
                <4>1. dequeuing' \in BOOLEAN
                    BY <2>5, Zenon
                <4> QED BY <1>1, <2>1, <2>2, <2>3, <2>5, <4>1 DEF TypeOK
            <3>2. OneReading'
                BY <1>1, <2>1, <2>3, <2>5 DEF OneReading, Reported
            <3> QED BY <3>1, <3>2
        <2> QED BY <1>6, <2>4, <2>5, CompleteFacts
    <1> QED BY <1>2, <1>3, <1>4, <1>5, <1>6 DEF Thread

LEMMA OneInterrupt ==
    ASSUME ~QuickDriver, TypeOK, OneReading, ReadingComplete
    PROVE  TypeOK' /\ OneReading'
    <1>1. count \in Nat /\ isrQueue \in Nat /\ pending \in Nat
        BY SensorAssumption DEF TypeOK
    <1>2. /\ reading /\ pc # "status" /\ reading' = FALSE /\ count' = count + 1
          /\ last' \in Reading /\ dequeuing' = TRUE
          /\ UNCHANGED <<pending, cookie, queue, held, thread, since, answer>>
        BY <1>1 DEF ReadingComplete, Report, Reading, Statuses
    <1>3. isrQueue = 0 /\ isrQueue' = 1 /\ queue # <<"complete">>
        BY <1>1, <1>2 DEF ReadingComplete, OneReading, Reported
    <1>4. TypeOK'
        <2>1. dequeuing' \in BOOLEAN /\ reading' \in BOOLEAN
            BY <1>2, Zenon
        <2>3. count' \in Nat /\ isrQueue' \in Nat
            BY <1>1, <1>2, <1>3
        <2>2. UNCHANGED <<pending, cookie, queue, held, pc, reader, since, answer>>
            BY <1>2 DEF thread
        <2> QED BY <1>2, <2>1, <2>2, <2>3 DEF TypeOK
    <1>5. OneReading'
        BY <1>1, <1>2, <1>3 DEF OneReading, Reported, thread
    <1> QED BY <1>4, <1>5

LEMMA OneNext ==
    ASSUME ~QuickDriver, TypeOK, OneReading, [Next]_vars
    PROVE  TypeOK' /\ OneReading'
    <1>1. CASE UNCHANGED vars
        <2>1. TypeOK'
            BY <1>1 DEF vars, hal, events, thread, history, TypeOK
        <2>2. OneReading'
            BY <1>1 DEF vars, hal, events, thread, history, OneReading, Reported
        <2> QED BY <2>1, <2>2
    <1> QED BY <1>1, OneGetData, OneThread, OneInterrupt DEF Next

-----------------------------------------------------------------------------
(* Each reader gets a reading that is its own.                             *)

LEMMA FreshGetData ==
    ASSUME FreshInv, NEW r \in Requests, GetData(r)
    PROVE  NumbersAgree' /\ FreshData'
    <1>1. /\ count \in Nat /\ since \in [Requests -> Nat] /\ last \in Reading
          /\ answer \in [Requests -> Reading \cup {Unanswered, Busy}]
        BY DEF FreshInv, TypeOK
    <1>2. /\ ~Asked(r) /\ pc = "loop"
          /\ since' = [since EXCEPT ![r] = IF dequeuing THEN count - 1 ELSE count]
        BY DEF GetData, GetCached, GetAtOnce, GetLater, GetBusy, MayCall, Call
    <1>3. ~Waits(r) /\ answer[r] = Unanswered
        BY <1>2 DEF Asked, Waits
    <1>4. ASSUME NEW x, answer' = [answer EXCEPT ![r] = x],
                 x \notin {Unanswered, Busy} => x.number > since'[r] /\ x.status # "PENDING"
          PROVE  FreshData'
        <2> SUFFICES ASSUME NEW q \in Requests, answer'[q] \notin {Unanswered, Busy}
                     PROVE  answer'[q].number > since'[q] /\ answer'[q].status # "PENDING"
            BY DEF FreshData
        <2>1. CASE q = r
            BY <1>1, <1>4, <2>1
        <2>2. CASE q # r
            <3>1. answer'[q] = answer[q] /\ since'[q] = since[q]
                BY <1>1, <1>2, <1>4, <2>2
            <3> QED BY <3>1 DEF FreshInv, FreshData
        <2> QED BY <2>1, <2>2
    <1>5. /\ last.number = count
          /\ dequeuing => last.status # "PENDING"
          /\ \A q \in Requests : since[q] <= count
          /\ \A q \in Requests : dequeuing /\ Waits(q) => since[q] < count
        BY DEF FreshInv, NumbersAgree
    <1>6. \A q \in Requests : since'[q] <= count
        BY <1>1, <1>2, <1>5
    <1>7. ASSUME UNCHANGED <<hal, events, thread, count>>
          PROVE  NumbersAgree'
        <2>1. ASSUME NEW q \in Requests, dequeuing', Waits(q)'
              PROVE  since'[q] < count
            <3>1. Waits(q)
                BY <1>7, <2>1 DEF Waits, events, thread
            <3> QED BY <1>1, <1>2, <1>3, <1>5, <1>7, <2>1, <3>1 DEF hal
        <2> QED BY <1>5, <1>6, <1>7, <2>1 DEF NumbersAgree, hal
    <1>8. CASE GetCached(r)
        <2>1. UNCHANGED <<hal, events, thread, count>> /\ dequeuing
              /\ answer' = [answer EXCEPT ![r] = last]
            BY <1>8 DEF GetCached, Tell
        <2>2. last.number > since'[r] /\ last.status # "PENDING"
            BY <1>1, <1>2, <1>5, <2>1
        <2> QED BY <1>4, <1>7, <2>1, <2>2
    <1>9. CASE GetBusy(r)
        <2>1. UNCHANGED <<hal, events, thread, count>>
              /\ answer' = [answer EXCEPT ![r] = Busy]
            BY <1>9 DEF GetBusy, Tell
        <2> QED BY <1>4, <1>7, <2>1
    <1>10. CASE GetAtOnce(r)
        <2>1. PICK t \in {"SUCCESS", "E_DEVICE"} : last' = [number |-> count + 1, status |-> t]
            BY <1>10 DEF GetAtOnce
        <2>2. /\ ~dequeuing /\ UNCHANGED dequeuing /\ count' = count + 1
              /\ answer' = [answer EXCEPT ![r] = last']
            BY <1>10 DEF GetAtOnce, Tell
        <2>3. FreshData'
            <3>1. last'.number > since'[r] /\ last'.status # "PENDING"
                BY <1>1, <1>2, <2>1, <2>2
            <3> QED BY <1>4, <2>2, <3>1
        <2>4. NumbersAgree'
            BY <1>1, <1>2, <1>6, <2>1, <2>2 DEF NumbersAgree
        <2> QED BY <2>3, <2>4
    <1>11. CASE GetLater(r)
        <2>1. UNCHANGED <<hal, count, answer>> /\ ~dequeuing
            BY <1>11 DEF GetLater
        <2>2. FreshData'
            <3>1. answer' = [answer EXCEPT ![r] = Unanswered]
                BY <1>1, <1>3, <2>1
            <3> QED BY <1>4, <3>1
        <2>3. NumbersAgree'
            BY <1>5, <1>6, <2>1 DEF NumbersAgree, hal
        <2> QED BY <2>2, <2>3
    <1> QED BY <1>8, <1>9, <1>10, <1>11 DEF GetData

LEMMA FreshThread ==
    ASSUME FreshInv, Thread
    PROVE  NumbersAgree' /\ FreshData'
    <1>1. /\ TypeOK /\ OneReading /\ FreshData
          /\ last.number = count
          /\ dequeuing => last.status # "PENDING"
          /\ \A q \in Requests : since[q] <= count
          /\ \A q \in Requests : dequeuing /\ Waits(q) => since[q] < count
        BY DEF FreshInv, NumbersAgree
    <1>2. last \in Reading
        BY <1>1 DEF TypeOK
    <1>3. ASSUME UNCHANGED <<last, count, since, answer>>,
                 \A q \in Requests : dequeuing' /\ Waits(q)' => dequeuing /\ Waits(q),
                 dequeuing' => dequeuing
          PROVE  NumbersAgree' /\ FreshData'
        <2>1. NumbersAgree'
            BY <1>1, <1>3 DEF NumbersAgree
        <2>2. FreshData'
            BY <1>1, <1>3 DEF FreshData
        <2> QED BY <2>1, <2>2
    <1>4. CASE StoreStatus
        <2>1. /\ last' = [last EXCEPT !.status = "PENDING"] /\ ~dequeuing
              /\ UNCHANGED <<dequeuing, count, since, answer>>
            BY <1>1, <1>4 DEF StoreStatus, OneReading, history
        <2>2. last'.number = count
            BY <1>1, <1>2, <2>1 DEF Reading
        <2>3. NumbersAgree'
            BY <1>1, <2>1, <2>2 DEF NumbersAgree
        <2>4. FreshData'
            BY <1>1, <2>1 DEF FreshData
        <2> QED BY <2>3, <2>4
    <1>5. CASE PutReadRequest
        <2>1. /\ UNCHANGED <<last, count, since, answer, dequeuing, held>>
              /\ queue' = Append(queue, reader) /\ pc = "put" /\ pc' = "loop"
            BY <1>5 DEF PutReadRequest, history
        <2>2. reader \in Requests /\ queue \in Seq(Requests \cup {"complete"})
            BY <1>1, <2>1 DEF OneReading, TypeOK
        <2>3. ASSUME NEW q, Contains(queue', q)
              PROVE  Contains(queue, q) \/ q = reader
            BY <2>1, <2>2, <2>3, AppendProperties DEF Contains
        <2>4. \A q \in Requests : Waits(q)' => Waits(q)
            BY <2>1, <2>3 DEF Waits
        <2> QED BY <1>3, <2>1, <2>4
    <1>6. CASE TakeReadRequest
        <2>1. /\ UNCHANGED <<last, count, since, answer, dequeuing, pc, reader>>
              /\ queue' = Tail(queue) /\ queue # <<>> /\ held' = Append(held, Head(queue))
              /\ Head(queue) \in Requests
            BY <1>6 DEF TakeReadRequest, history, thread
        <2>2. queue \in Seq(Requests \cup {"complete"}) /\ held \in Seq(Requests)
            BY <1>1 DEF TypeOK
        <2>3. ASSUME NEW q, Contains(queue', q) PROVE Contains(queue, q)
            BY <2>1, <2>2, <2>3, HeadTailProperties DEF Contains
        <2>4. Contains(queue, Head(queue))
            BY <2>1, <2>2, HeadTailProperties DEF Contains
        <2>5. ASSUME NEW q, Contains(held', q)
              PROVE  Contains(held, q) \/ q = Head(queue)
            BY <2>1, <2>2, <2>5, AppendProperties DEF Contains
        <2>6. \A q \in Requests : Waits(q)' => Waits(q)
            BY <2>1, <2>3, <2>4, <2>5 DEF Waits
        <2> QED BY <1>3, <2>1, <2>6
    <1>7. CASE TakeIsrEvent
        <2>1. /\ UNCHANGED <<last, count, since, answer, dequeuing, pc, reader, held>>
              /\ queue' = <<"complete">>
            BY <1>7 DEF TakeIsrEvent, history, thread, hal
        <2>2. \A q \in Requests : ~Contains(queue', q)
            BY <2>1, SensorAssumption DEF Contains
        <2>3. \A q \in Requests : Waits(q)' => Waits(q)
            BY <2>1, <2>2 DEF Waits
        <2> QED BY <1>3, <2>1, <2>3
    <1>8. CASE TakeReadComplete
        <2>1. /\ UNCHANGED <<last, count, since, pc, reader>>
              /\ pc = "loop" /\ queue = <<"complete">> /\ queue' = <<>> /\ dequeuing
              /\ \A r \in Requests : answer'[r] = answer[r]
                                     \/ (answer'[r] = last /\ Contains(held, r))
            BY <1>1, <1>8, CompleteFacts, QueueFacts DEF OneReading, Reported
        <2>2. FreshData'
            <3> SUFFICES ASSUME NEW q \in Requests, answer'[q] \notin {Unanswered, Busy}
                         PROVE  answer'[q].number > since'[q] /\ answer'[q].status # "PENDING"
                BY DEF FreshData
            <3>1. CASE answer'[q] = answer[q]
                BY <1>1, <2>1, <3>1 DEF FreshData
            <3>2. CASE answer'[q] = last /\ Contains(held, q)
                <4>1. since[q] < count
                    BY <1>1, <2>1, <3>2 DEF Waits
                <4>2. since[q] \in Nat /\ count \in Nat
                    BY <1>1 DEF TypeOK
                <4> QED BY <1>1, <2>1, <3>2, <4>1, <4>2
            <3> QED BY <2>1, <3>1, <3>2
        <2>3. dequeuing' => UNCHANGED <<held, dequeuing>>
            BY <1>1, <1>8, CompleteFacts
        <2>4. \A q \in Requests : dequeuing' /\ Waits(q)' => Waits(q)
            BY <2>1, <2>3 DEF Waits, Contains
        <2>5. NumbersAgree'
            BY <1>1, <2>1, <2>3, <2>4 DEF NumbersAgree
        <2> QED BY <2>2, <2>5
    <1> QED BY <1>4, <1>5, <1>6, <1>7, <1>8 DEF Thread

LEMMA FreshInterrupt ==
    ASSUME FreshInv, ReadingComplete
    PROVE  NumbersAgree' /\ FreshData'
    <1>1. PICK t \in {"SUCCESS", "E_DEVICE"} : last' = [number |-> count + 1, status |-> t]
        BY DEF ReadingComplete, Report
    <1>2. count' = count + 1 /\ UNCHANGED <<since, answer>>
        BY DEF ReadingComplete
    <1>3. count \in Nat /\ since \in [Requests -> Nat]
        BY DEF FreshInv, TypeOK
    <1>4. \A q \in Requests : since[q] < count + 1
        BY <1>3 DEF FreshInv, NumbersAgree
    <1>5. NumbersAgree'
        BY <1>1, <1>2, <1>3, <1>4 DEF NumbersAgree
    <1>6. FreshData'
        BY <1>2 DEF FreshInv, FreshData
    <1> QED BY <1>5, <1>6

\* A reader gets the data of a reading that had not been given out when it
\* asked, whoever calls get_data between the events of the others, when a driver
\* does not report before get_data has returned.
THEOREM DataIsFresh ==
    ASSUME ~QuickDriver
    PROVE  Spec => []FreshData
    <1>1. Init => FreshInv
        <2>1. ASSUME Init PROVE NumbersAgree /\ FreshData
            BY <2>1 DEF Init, NumbersAgree, FreshData
        <2> QED BY <2>1, OneInit DEF FreshInv
    <1>2. FreshInv /\ [Next]_vars => FreshInv'
        <2> SUFFICES ASSUME FreshInv, [Next]_vars PROVE FreshInv'
            OBVIOUS
        <2>1. TypeOK' /\ OneReading'
            BY OneNext DEF FreshInv
        <2>2. CASE UNCHANGED vars
            BY <2>1, <2>2 DEF vars, hal, events, thread, history, FreshInv, NumbersAgree,
                              FreshData, Waits
        <2>3. CASE Next
            BY <2>1, <2>3, FreshGetData, FreshThread, FreshInterrupt DEF Next, FreshInv
        <2> QED BY <2>2, <2>3
    <1>3. FreshInv => FreshData
        BY DEF FreshInv
    <1> QED BY <1>1, <1>2, <1>3, PTL DEF Spec

-----------------------------------------------------------------------------
(* The requests that wait are counted.                                     *)

LEMMA CountGetData ==
    ASSUME ~Overlap, CountInv, NEW r \in Requests, GetData(r)
    PROVE  Counted'
    <1>1. CASE GetCached(r) \/ GetAtOnce(r) \/ GetBusy(r)
        <2>1. UNCHANGED <<pending, cookie, queue, isrQueue, held, pc, reading>>
            BY <1>1 DEF GetCached, GetAtOnce, GetBusy, hal, events, thread
        <2> QED BY <2>1 DEF CountInv, Counted, Reported
    <1>2. CASE GetLater(r)
        <2>1. /\ UNCHANGED <<pending, cookie, queue, isrQueue, held>>
              /\ ~dequeuing /\ \A q \in Requests : ~Contains(queue, q)
              /\ \/ pending = 0 /\ reading' = TRUE
                 \/ pending > 0 /\ UNCHANGED reading
            BY <1>2 DEF GetLater, MayCall, hal, events
        <2>2. queue = <<>>
            <3>1. queue # <<"complete">>
                BY <2>1 DEF CountInv, OneReading, Reported
            <3>2. \A q \in Requests : queue # <<q>>
                BY <2>1 DEF Contains
            <3> QED BY <3>1, <3>2 DEF CountInv, Counted
        <2> QED BY <2>1, <2>2 DEF CountInv, Counted, Reported
    <1> QED BY <1>1, <1>2 DEF GetData

LEMMA CountThread ==
    ASSUME CountInv, Thread
    PROVE  Counted'
    <1>1. /\ TypeOK /\ OneReading /\ Counted
          /\ pending \in Nat /\ isrQueue \in Nat /\ Len(held) \in Nat
        BY SensorAssumption DEF CountInv, TypeOK
    <1>2. <<"complete">> # <<>> /\ \A r \in Requests : <<r>> # <<>> /\ <<r>> # <<"complete">>
        BY SensorAssumption
    <1>3. CASE StoreStatus
        <2>1. UNCHANGED <<pending, cookie, queue, isrQueue, held, reading>> /\ pc # "loop"
            BY <1>3 DEF StoreStatus, events
        <2> QED BY <1>1, <2>1 DEF Counted, Reported
    <1>4. CASE PutReadRequest
        <2>1. /\ queue' = Append(queue, reader) /\ reader \in Requests /\ queue = <<>>
              /\ pending' = pending + 1 /\ pc' = "loop"
              /\ UNCHANGED <<cookie, isrQueue, held, reading>>
              /\ reading \/ Reported
            BY <1>1, <1>4 DEF PutReadRequest, Counted, OneReading
        <2>2. queue' = <<reader>>
            BY <2>1
        <2>3. reading' \/ Reported'
            BY <1>2, <2>1 DEF Reported
        <2> QED BY <1>1, <1>2, <2>1, <2>2, <2>3 DEF Counted
    <1>5. CASE TakeReadRequest
        <2>1. /\ queue # <<>> /\ Head(queue) \in Requests /\ queue' = Tail(queue)
              /\ held' = Append(held, Head(queue)) /\ pc = "loop"
              /\ cookie' = IF pending = 1 THEN Head(queue) ELSE cookie
              /\ UNCHANGED <<pending, isrQueue, pc, reading>>
            BY <1>5 DEF TakeReadRequest, KeepCookie, thread
        <2>2. PICK r \in Requests : queue = <<r>>
            BY <1>1, <2>1, QueueFacts, SensorAssumption DEF Counted
        <2>3. Head(queue) = r /\ queue' = <<>>
            BY <2>1, <2>2
        <2>4. held \in Seq(Requests)
            BY <1>1 DEF TypeOK
        <2>5. Len(held') = Len(held) + 1 /\ pending = Len(held) + 1
            BY <1>1, <1>2, <2>1, <2>2, <2>3, <2>4 DEF Counted
        <2>6. cookie' = Head(held')
            <3>1. CASE held = <<>>
                BY <2>1, <2>3, <2>5, <3>1
            <3>2. CASE held # <<>>
                <4>1. Head(held') = Head(held) /\ Len(held) # 0
                    BY <2>1, <2>3, <2>4, <3>2, AppendProperties, EmptySeq
                <4> QED BY <1>1, <2>1, <2>5, <3>2, <4>1 DEF Counted
            <3> QED BY <3>1, <3>2
        <2>7. reading' \/ Reported'
            BY <1>1, <1>2, <2>1, <2>2, <2>5 DEF Counted, Reported
        <2> QED BY <1>1, <2>1, <2>3, <2>5, <2>6, <2>7 DEF Counted
    <1>6. CASE TakeIsrEvent
        <2>1. /\ queue = <<>> /\ queue' = <<"complete">> /\ pc = "loop"
              /\ UNCHANGED <<pending, cookie, held, pc, reading>>
            BY <1>6 DEF TakeIsrEvent, hal, thread
        <2> QED BY <1>1, <1>2, <2>1 DEF Counted, Reported
    <1>7. CASE TakeReadComplete
        <2>1. /\ pc = "loop" /\ pc' = "loop" /\ queue = <<"complete">> /\ queue' = <<>>
              /\ dequeuing
            BY <1>1, <1>7, CompleteFacts, QueueFacts DEF OneReading, Reported
        <2>2. pending = Len(held) /\ held # <<>> /\ cookie = Head(held)
            BY <1>1, <2>1 DEF Counted, OneReading
        <2>3. Contains(held, cookie)
            <3>1. held \in Seq(Requests)
                BY <1>1 DEF TypeOK
            <3> QED BY <2>2, <3>1, HeadTailProperties DEF Contains
        <2>4. held' = <<>> /\ pending' = 0
            BY <1>1, <1>7, <2>2, <2>3, CompleteFacts
        <2> QED BY <2>1, <2>4 DEF Counted
    <1> QED BY <1>3, <1>4, <1>5, <1>6, <1>7 DEF Thread

LEMMA CountInterrupt ==
    ASSUME CountInv, ReadingComplete
    PROVE  Counted'
    <1>1. /\ UNCHANGED <<pending, cookie, queue, held, pc>>
          /\ isrQueue' = isrQueue + 1 /\ isrQueue \in Nat
        BY DEF ReadingComplete, thread, CountInv, TypeOK
    <1> QED BY <1>1 DEF CountInv, Counted, Reported

\* Between two events the numbers of CountInv are those of Accounting.
LEMMA CountsAgree == CountInv => Accounting
    <1> SUFFICES ASSUME CountInv, pc = "loop"
                 PROVE  /\ pending = Waiting
                        /\ Readings = IF pending = 0 THEN 0 ELSE 1
                        /\ held # <<>> => cookie = Head(held)
        BY DEF CountInv, Accounting
    <1> DEFINE R == {i \in DOMAIN queue : queue[i] \in Requests}
               C == {i \in DOMAIN queue : queue[i] = "complete"}
    <1>1. /\ TypeOK /\ OneReading /\ Counted
          /\ pending \in Nat /\ isrQueue \in Nat /\ Len(held) \in Nat
          /\ reading \in BOOLEAN /\ isrQueue \in {0, 1}
        BY SensorAssumption DEF CountInv, TypeOK, OneReading
    <1>2. Waiting = Len(held) + Cardinality(R)
        BY Zenon DEF Waiting
    <1>3. Readings = (IF reading THEN 1 ELSE 0) + isrQueue + Cardinality(C)
        BY Zenon DEF Readings
    <1>4. Cardinality({}) = 0 /\ Cardinality({1}) = 1
        BY FS_EmptySet, FS_Singleton
    <1>5. /\ reading => pending > 0 /\ ~dequeuing
          /\ isrQueue = 1 => dequeuing /\ queue # <<"complete">>
          /\ queue = <<"complete">> => dequeuing
          /\ dequeuing => pending > 0
        BY <1>1 DEF OneReading, Reported
    <1>6. CASE queue = <<>>
        <2>1. R = {} /\ C = {}
            BY <1>6
        <2>2. pending > 0 => reading \/ isrQueue = 1
            BY <1>1, <1>6 DEF Counted, Reported
        <2>3. pending = Len(held) /\ (held # <<>> => cookie = Head(held))
            BY <1>1, <1>6 DEF Counted
        <2> HIDE DEF R, C
        <2>4. Readings = IF pending = 0 THEN 0 ELSE 1
            BY <1>1, <1>3, <1>4, <1>5, <2>1, <2>2
        <2> QED BY <1>1, <1>2, <1>4, <2>1, <2>3, <2>4
    <1>7. CASE queue = <<"complete">>
        <2>1. R = {} /\ C = {1}
            BY <1>7, SensorAssumption
        <2>2. pending = Len(held) /\ (held # <<>> => cookie = Head(held))
            BY <1>1, <1>7 DEF Counted
        <2> HIDE DEF R, C
        <2>4. Readings = IF pending = 0 THEN 0 ELSE 1
            BY <1>1, <1>3, <1>4, <1>5, <1>7, <2>1
        <2> QED BY <1>1, <1>2, <1>4, <2>1, <2>2, <2>4
    <1>8. ASSUME NEW r \in Requests, queue = <<r>>
          PROVE  /\ pending = Waiting /\ Readings = IF pending = 0 THEN 0 ELSE 1
                 /\ held # <<>> => cookie = Head(held)
        <2>1. R = {1} /\ C = {} /\ queue \notin {<<>>, <<"complete">>}
            BY <1>8, SensorAssumption
        <2>2. pending = Len(held) + 1 /\ (held # <<>> => cookie = Head(held))
            BY <1>1, <2>1 DEF Counted
        <2>3. reading \/ isrQueue = 1
            BY <1>1, <2>1, <2>2 DEF Counted, Reported
        <2> HIDE DEF R, C
        <2>4. Readings = IF pending = 0 THEN 0 ELSE 1
            BY <1>1, <1>3, <1>4, <1>5, <2>1, <2>2, <2>3
        <2> QED BY <1>1, <1>2, <1>4, <2>1, <2>2, <2>4
    <1> QED BY <1>1, <1>6, <1>7, <1>8 DEF Counted

\* The requests that wait are counted, one reading serves them all, and the
\* cookie that its completion looks for is there, when no reader calls before
\* the event of the reader before it is processed and a driver does not report
\* before get_data has returned.
THEOREM RequestsCounted ==
    ASSUME ~Overlap, ~QuickDriver
    PROVE  Spec => []Accounting
    <1>1. Init => CountInv
        <2>1. ASSUME Init PROVE Counted
            BY <2>1 DEF Init, Counted
        <2> QED BY <2>1, OneInit DEF CountInv
    <1>2. CountInv /\ [Next]_vars => CountInv'
        <2> SUFFICES ASSUME CountInv, [Next]_vars PROVE CountInv'
            OBVIOUS
        <2>1. TypeOK' /\ OneReading'
            BY OneNext DEF CountInv
        <2>2. CASE UNCHANGED vars
            BY <2>1, <2>2 DEF vars, hal, events, thread, CountInv, Counted, Reported
        <2>3. CASE Next
            BY <2>1, <2>3, CountGetData, CountThread, CountInterrupt DEF Next, CountInv
        <2> QED BY <2>2, <2>3
    <1> QED BY <1>1, <1>2, CountsAgree, PTL DEF Spec

-----------------------------------------------------------------------------
(* The log of platform events: the invariant.                              *)

RingType == [events: [Slots -> Event], head: Slots, tail: Slots, length: 0 .. QueueSize]

\* Entry(q, i): the i-th event of a ring, oldest first.
Entry(q, i) == q.events[(q.head + i - 1) % QueueSize]

WellFormed(q) == q \in RingType /\ q.tail = (q.head + q.length) % QueueSize

\* The event that is offered was taken from the ring.
Taken == logged - ring.length

\* The ring holds the last events logged, each under its number.
RingInv ==
    /\ WellFormed(ring) /\ ring.length <= logged
    /\ \A i \in 1 .. ring.length :
           /\ Entry(ring, i).n = Taken + i
           /\ Entry(ring, i).id # 0 /\ Entry(ring, i).size \in Sizes

EventInv == event.id # 0 => event.size \in Sizes /\ event.n \in 1 .. Taken

\* The number of the event whose bytes these are.
NumberOf(bytes) == bytes[1][1]

\* The receiver has no event that is still to come, and the one that is being
\* received only once it acknowledges it.
GotInv ==
    \A k \in 1 .. Len(got) :
        /\ got[k] # <<>> /\ NumberOf(got[k]) <= Taken
        /\ event.id # 0 /\ asked.op # "ack" => NumberOf(got[k]) # event.n

Given == \E k \in 1 .. Len(got) : got[k] = BytesOf(event, 0, event.size)

\* What the receiver asks, and what it knows then.
AskedIdle == asked = Idle /\ event.id = 0
AskedFirst == asked = First
AskedNext ==
    /\ event.id # 0
    /\ \E h \in 0 .. event.size :
           /\ asked = Request("next", h, ReservedId)
           /\ part = BytesOf(event, 0, h)
AskedAck ==
    \E id \in 1 .. ReservedId - 1 :
        /\ asked = Request("ack", 0, id)
        /\ event.id \in {0, id}
        /\ event.id # 0 => Given

AskedInv == AskedIdle \/ AskedFirst \/ AskedNext \/ AskedAck

\* A reply is to the request the receiver waits for.
AnswersFirst(r) ==
    \/ r.id = 0 /\ event.id = 0
    \/ /\ event.id # 0 /\ r.id = event.id /\ r.flag = "start"
       /\ r.next \in 0 .. event.size /\ r.bytes = BytesOf(event, 0, r.next)
    \/ /\ event.id # 0 /\ r.id = event.id /\ r.flag = "start_and_end"
       /\ r.bytes = BytesOf(event, 0, event.size)

AnswersNext(r) ==
    /\ r.id = event.id /\ r.next \in asked.handle .. event.size
    /\ r.bytes = BytesOf(event, asked.handle, r.next - asked.handle)
    /\ r.flag = "middle" \/ (r.flag = "end" /\ r.next = event.size)

AnswersAck(r) == r.id \in {0, ReservedId} /\ event.id = 0

Answers(r) ==
    /\ asked.op = "first" => AnswersFirst(r)
    /\ asked.op = "next" => AnswersNext(r)
    /\ asked.op = "ack" => AnswersAck(r)

MessageInv ==
    \/ requests = <<>> /\ replies = <<>>
    \/ requests = <<asked>> /\ replies = <<>> /\ asked # Idle
    \/ /\ requests = <<>> /\ asked # Idle
       /\ Len(replies) = 1 /\ replies = <<replies[1]>> /\ Answers(replies[1])

PldmInv == PldmTypeOK /\ RingInv /\ EventInv /\ GotInv /\ AskedInv /\ MessageInv

-----------------------------------------------------------------------------
\* The slot a count leads to.
SlotOf(h) == h % QueueSize

LEMMA Wrap ==
    ASSUME NEW h \in Nat, h < QueueSize + QueueSize
    PROVE  SlotOf(h) = IF h < QueueSize THEN h ELSE h - QueueSize
BY PldmEventsAssumption DEF SlotOf

\* A ring is full where its tail has met its head.
LEMMA RingFull ==
    ASSUME NEW q, WellFormed(q)
    PROVE  (q.tail = q.head /\ q.length > 0) <=> q.length = QueueSize
<1> QueueSize \in Nat \ {0}
    BY PldmEventsAssumption
<1>1. /\ q.head \in 0 .. QueueSize - 1 /\ q.length \in 0 .. QueueSize
      /\ q.tail = SlotOf(q.head + q.length)
    BY DEF WellFormed, RingType, Slots, SlotOf
<1>2. q.tail = IF q.head + q.length < QueueSize THEN q.head + q.length
                                                ELSE q.head + q.length - QueueSize
    BY <1>1, Wrap
<1>3. QED BY <1>1, <1>2

\* event_queue_put adds the event, in the place of the oldest one when the ring
\* is full.
LEMMA PutFacts ==
    ASSUME NEW q, WellFormed(q), NEW e \in Event
    PROVE  /\ WellFormed(Put(q, e))
           /\ q.length < QueueSize =>
                  /\ Put(q, e).length = q.length + 1
                  /\ \A i \in 1 .. q.length : Entry(Put(q, e), i) = Entry(q, i)
                  /\ Entry(Put(q, e), q.length + 1) = e
           /\ q.length = QueueSize =>
                  /\ Put(q, e).length = QueueSize
                  /\ \A i \in 1 .. QueueSize - 1 :
                         Entry(Put(q, e), i) = Entry(q, i + 1)
                  /\ Entry(Put(q, e), QueueSize) = e
<1> QueueSize \in Nat \ {0}
    BY PldmEventsAssumption
<1> DEFINE p == Put(q, e)
<1>1. /\ q.head \in 0 .. QueueSize - 1 /\ q.length \in 0 .. QueueSize
      /\ q.tail \in 0 .. QueueSize - 1
      /\ q.tail = SlotOf(q.head + q.length)
      /\ q.events \in [0 .. QueueSize - 1 -> Event]
    BY DEF WellFormed, RingType, Slots, SlotOf
<1>2. q.tail = IF q.head + q.length < QueueSize THEN q.head + q.length
                                                ELSE q.head + q.length - QueueSize
    BY <1>1, Wrap
<1>3. SlotOf(q.tail + 1) = IF q.tail + 1 < QueueSize THEN q.tail + 1 ELSE 0
    BY <1>1, Wrap
<1>4. /\ p.events = [q.events EXCEPT ![q.tail] = e]
      /\ p.tail = SlotOf(q.tail + 1)
      /\ p.head = IF q.length = QueueSize THEN SlotOf(q.tail + 1) ELSE q.head
      /\ p.length = IF q.length = QueueSize THEN QueueSize ELSE q.length + 1
      /\ p = [events |-> p.events, head |-> p.head, tail |-> p.tail,
              length |-> p.length]
    BY RingFull DEF Put, SlotOf
<1> HIDE DEF p
<1>5. p.events \in [0 .. QueueSize - 1 -> Event]
    BY <1>1, <1>4
<1>6. /\ p.tail \in 0 .. QueueSize - 1 /\ p.head \in 0 .. QueueSize - 1
      /\ p.length \in 0 .. QueueSize
  <2>1. SlotOf(q.tail + 1) \in 0 .. QueueSize - 1
    BY <1>1, <1>3
  <2>2. QED BY <2>1, <1>1, <1>4
<1>7. p.tail = SlotOf(p.head + p.length)
  <2>1. SlotOf(p.head + p.length)
            = IF p.head + p.length < QueueSize THEN p.head + p.length
                                               ELSE p.head + p.length - QueueSize
    BY <1>6, Wrap
  <2>2. CASE q.length = QueueSize
    BY <2>1, <2>2, <1>1, <1>2, <1>3, <1>4
  <2>3. CASE q.length < QueueSize
    <3>1. p.head = q.head /\ p.length = q.length + 1
        BY <2>3, <1>1, <1>4
    <3>2. QED BY <2>1, <2>3, <3>1, <1>1, <1>2, <1>3, <1>4, SMTT(30)
  <2>4. QED BY <2>2, <2>3, <1>1
<1>8. WellFormed(p)
  <2>1. p \in RingType
    <3>1. [events |-> p.events, head |-> p.head, tail |-> p.tail,
           length |-> p.length] \in RingType
        BY <1>5, <1>6 DEF RingType, Slots
    <3>2. QED BY <3>1, <1>4
  <2>2. QED BY <2>1, <1>7 DEF WellFormed, SlotOf
<1>9. ASSUME NEW i \in 1 .. QueueSize
      PROVE  /\ SlotOf(q.head + i - 1)
                    = IF q.head + i - 1 < QueueSize THEN q.head + i - 1
                                                    ELSE q.head + i - 1 - QueueSize
             /\ SlotOf(p.head + i - 1)
                    = IF p.head + i - 1 < QueueSize THEN p.head + i - 1
                                                    ELSE p.head + i - 1 - QueueSize
  <2> DEFINE h == q.head + i - 1  g == p.head + i - 1
  <2>1. h \in Nat /\ h < QueueSize + QueueSize
    BY <1>1
  <2>2. g \in Nat /\ g < QueueSize + QueueSize
    BY <1>6
  <2> HIDE DEF h, g
  <2>3. SlotOf(h) = IF h < QueueSize THEN h ELSE h - QueueSize
    BY <2>1, Wrap
  <2>4. SlotOf(g) = IF g < QueueSize THEN g ELSE g - QueueSize
    BY <2>2, Wrap
  <2>5. QED BY <2>3, <2>4, <1>1, <1>6 DEF h, g
<1>10. CASE q.length < QueueSize
  <2>1. p.head = q.head /\ p.length = q.length + 1
    BY <1>10, <1>4, <1>1
  <2>2. ASSUME NEW i \in 1 .. q.length
        PROVE  Entry(p, i) = Entry(q, i)
    <3> DEFINE k == SlotOf(q.head + i - 1)
    <3>1. k = IF q.head + i - 1 < QueueSize THEN q.head + i - 1
                                            ELSE q.head + i - 1 - QueueSize
        BY <1>9, <1>1
    <3>2. k \in 0 .. QueueSize - 1 /\ k # q.tail
        BY <3>1, <1>1, <1>2, <1>10, SMTT(30)
    <3>3. p.events[k] = q.events[k]
        BY <3>2, <1>1, <1>4
    <3>4. QED BY <3>3, <2>1 DEF Entry, SlotOf
  <2>3. Entry(p, q.length + 1) = e
    <3>1. SlotOf(q.head + (q.length + 1) - 1) = q.tail
        BY <1>1
    <3>2. p.events[q.tail] = e
        BY <1>1, <1>4
    <3>3. QED BY <3>1, <3>2, <2>1 DEF Entry, SlotOf
  <2>4. QED BY <2>1, <2>2, <2>3, <1>8, <1>10 DEF p
<1>11. CASE q.length = QueueSize
  <2>1. p.length = QueueSize /\ q.tail = q.head
        /\ p.head = IF q.head + 1 < QueueSize THEN q.head + 1 ELSE 0
    BY <1>11, <1>1, <1>2, <1>3, <1>4
  <2>2. ASSUME NEW i \in 1 .. QueueSize - 1
        PROVE  Entry(p, i) = Entry(q, i + 1)
    <3>1. SlotOf(p.head + i - 1) = SlotOf(q.head + (i + 1) - 1)
      <4>1. i \in 1 .. QueueSize /\ i + 1 \in 1 .. QueueSize
        OBVIOUS
      <4>2. SlotOf(p.head + i - 1)
                = IF p.head + i - 1 < QueueSize THEN p.head + i - 1
                                                ELSE p.head + i - 1 - QueueSize
        BY <4>1, <1>9
      <4>3. SlotOf(q.head + (i + 1) - 1)
                = IF q.head + (i + 1) - 1 < QueueSize
                  THEN q.head + (i + 1) - 1 ELSE q.head + (i + 1) - 1 - QueueSize
        BY <4>1, <1>9
      <4>4. QED BY <4>2, <4>3, <2>1, <1>1
    <3> DEFINE k == SlotOf(q.head + (i + 1) - 1)
    <3>2. k \in 0 .. QueueSize - 1 /\ k # q.tail
      <4>1. k = IF q.head + (i + 1) - 1 < QueueSize
                THEN q.head + (i + 1) - 1 ELSE q.head + (i + 1) - 1 - QueueSize
        BY <1>9
      <4>2. QED BY <4>1, <2>1, <1>1
    <3>3. p.events[k] = q.events[k]
        BY <3>2, <1>1, <1>4
    <3>4. QED BY <3>1, <3>3 DEF Entry, SlotOf
  <2>3. Entry(p, QueueSize) = e
    <3>1. SlotOf(p.head + QueueSize - 1) = q.tail
      <4>1. SlotOf(p.head + QueueSize - 1)
                = IF p.head + QueueSize - 1 < QueueSize THEN p.head + QueueSize - 1
                  ELSE p.head + QueueSize - 1 - QueueSize
        BY <1>9
      <4>2. QED BY <4>1, <2>1, <1>1
    <3>2. p.events[q.tail] = e
        BY <1>1, <1>4
    <3>3. QED BY <3>1, <3>2 DEF Entry, SlotOf
  <2>4. QED BY <2>1, <2>2, <2>3, <1>8, <1>11 DEF p
<1>12. QED BY <1>1, <1>10, <1>11

\* event_queue_get takes the oldest event.
TakeOldest(q) == [q EXCEPT !.head = (@ + 1) % QueueSize, !.length = @ - 1]

LEMMA TakeFacts ==
    ASSUME NEW q, WellFormed(q), q.length > 0
    PROVE  /\ WellFormed(TakeOldest(q))
           /\ TakeOldest(q).length = q.length - 1
           /\ q.events[q.head] = Entry(q, 1)
           /\ \A i \in 1 .. q.length - 1 : Entry(TakeOldest(q), i) = Entry(q, i + 1)
<1> QueueSize \in Nat \ {0}
    BY PldmEventsAssumption
<1> DEFINE p == TakeOldest(q)
<1>1. /\ q.head \in 0 .. QueueSize - 1 /\ q.length \in 1 .. QueueSize
      /\ q.tail \in 0 .. QueueSize - 1
      /\ q.tail = SlotOf(q.head + q.length)
      /\ q.events \in [0 .. QueueSize - 1 -> Event]
    BY DEF WellFormed, RingType, Slots, SlotOf
<1>2. q.tail = IF q.head + q.length < QueueSize THEN q.head + q.length
                                                ELSE q.head + q.length - QueueSize
    BY <1>1, Wrap
<1>3. SlotOf(q.head + 1) = IF q.head + 1 < QueueSize THEN q.head + 1 ELSE 0
    BY <1>1, Wrap
<1>4. /\ p.events = q.events /\ p.tail = q.tail
      /\ p.head = SlotOf(q.head + 1) /\ p.length = q.length - 1
      /\ p \in RingType
  <2>1. q \in RingType
    BY DEF WellFormed, SlotOf
  <2>2. SlotOf(q.head + 1) \in Slots /\ q.length - 1 \in 0 .. QueueSize
    BY <1>1, <1>3 DEF Slots
  <2>3. QED BY <2>1, <2>2 DEF RingType, TakeOldest, SlotOf
<1> HIDE DEF p
<1>5. p.head \in 0 .. QueueSize - 1 /\ p.length \in 0 .. QueueSize
    BY <1>1, <1>3, <1>4
<1>6. p.tail = SlotOf(p.head + p.length)
  <2>1. SlotOf(p.head + p.length)
            = IF p.head + p.length < QueueSize THEN p.head + p.length
                                               ELSE p.head + p.length - QueueSize
    BY <1>5, Wrap
  <2>2. QED BY <2>1, <1>1, <1>2, <1>3, <1>4
<1>7. q.events[q.head] = Entry(q, 1)
  <2>1. SlotOf(q.head + 1 - 1) = q.head
    BY <1>1, Wrap
  <2>2. QED BY <2>1 DEF Entry, SlotOf
<1>8. ASSUME NEW i \in 1 .. q.length - 1
      PROVE  Entry(p, i) = Entry(q, i + 1)
  <2>1. SlotOf(p.head + i - 1)
            = IF p.head + i - 1 < QueueSize THEN p.head + i - 1
                                            ELSE p.head + i - 1 - QueueSize
    BY <1>1, <1>5, Wrap
  <2>2. SlotOf(q.head + (i + 1) - 1)
            = IF q.head + (i + 1) - 1 < QueueSize
              THEN q.head + (i + 1) - 1 ELSE q.head + (i + 1) - 1 - QueueSize
    <3> DEFINE h == q.head + (i + 1) - 1
    <3>1. h \in Nat /\ h < QueueSize + QueueSize
        BY <1>1
    <3> HIDE DEF h
    <3>2. SlotOf(h) = IF h < QueueSize THEN h ELSE h - QueueSize
        BY <3>1, Wrap
    <3>3. QED BY <3>2, <1>1 DEF h
  <2>3. SlotOf(p.head + i - 1) = SlotOf(q.head + (i + 1) - 1)
    BY <2>1, <2>2, <1>1, <1>3, <1>4
  <2>4. QED BY <2>3, <1>4 DEF Entry, SlotOf
<1>9. QED BY <1>4, <1>6, <1>7, <1>8 DEF p, WellFormed, SlotOf

-----------------------------------------------------------------------------
\* What is sent of an event.
LEMMA BytesFacts ==
    ASSUME NEW e, NEW from \in Nat, NEW size \in Nat
    PROVE  /\ DOMAIN BytesOf(e, from, size) = 1 .. size
           /\ Len(BytesOf(e, from, size)) = size
           /\ BytesOf(e, from, size) \in Seq({e.n} \X Nat)
           /\ \A i \in 1 .. size : BytesOf(e, from, size)[i] = <<e.n, from + i>>
           /\ BytesOf(e, from, size) = <<>> <=> size = 0
    <1> DEFINE b == BytesOf(e, from, size)
    <1>1. b = [i \in 1 .. size |-> <<e.n, from + i>>]
        BY DEF BytesOf
    <1>2. \A i \in 1 .. size : <<e.n, from + i>> \in {e.n} \X Nat
        OBVIOUS
    <1>3. b \in Seq({e.n} \X Nat)
        BY <1>1, <1>2
    <1>4. DOMAIN b = 1 .. size /\ \A i \in 1 .. size : b[i] = <<e.n, from + i>>
        BY <1>1
    <1> HIDE DEF b
    <1>5. Len(b) = size
        BY <1>3, <1>4, LenProperties
    <1>6. b = <<>> <=> size = 0
        BY <1>3, <1>5, EmptySeq
    <1> QED BY <1>3, <1>4, <1>5, <1>6 DEF b

LEMMA BytesTyped ==
    ASSUME NEW e, NEW from \in Nat, NEW size \in Nat, e.n \in 1 .. MaxEvents,
           e.size \in Sizes, from + size <= e.size
    PROVE  BytesOf(e, from, size) \in Seq(Bytes)
    <1>1. Max(Sizes) \in Nat /\ e.size <= Max(Sizes) /\ e.size \in Nat
        BY PldmEventsAssumption, FiniteMax
    <1>2. BytesOf(e, from, size) = [i \in 1 .. size |-> <<e.n, from + i>>]
        BY DEF BytesOf
    <1>3. ASSUME NEW i \in 1 .. size PROVE <<e.n, from + i>> \in Bytes
        BY <1>1 DEF Bytes
    <1>4. [i \in 1 .. size |-> <<e.n, from + i>>] \in Seq(Bytes)
        BY <1>3
    <1> QED BY <1>2, <1>4

LEMMA BytesConcat ==
    ASSUME NEW e, NEW h \in Nat, NEW size \in Nat
    PROVE  BytesOf(e, 0, h) \o BytesOf(e, h, size) = BytesOf(e, 0, h + size)
    <1> DEFINE a == BytesOf(e, 0, h)  b == BytesOf(e, h, size)
               c == BytesOf(e, 0, h + size)
    <1>0. 0 \in Nat /\ h + size \in Nat
        OBVIOUS
    <1>1. /\ a \in Seq({e.n} \X Nat) /\ Len(a) = h
          /\ \A i \in 1 .. h : a[i] = <<e.n, 0 + i>>
        BY <1>0, BytesFacts, ZenonT(30)
    <1>2. /\ b \in Seq({e.n} \X Nat) /\ Len(b) = size
          /\ \A i \in 1 .. size : b[i] = <<e.n, h + i>>
        BY BytesFacts
    <1>3. /\ c \in Seq({e.n} \X Nat) /\ Len(c) = h + size
          /\ \A i \in 1 .. h + size : c[i] = <<e.n, 0 + i>>
        BY <1>0, BytesFacts, ZenonT(30)
    <1> HIDE DEF a, b, c
    <1>4. /\ a \o b \in Seq({e.n} \X Nat) /\ Len(a \o b) = h + size
          /\ \A i \in 1 .. h + size : (a \o b)[i] = IF i <= h THEN a[i] ELSE b[i - h]
        BY <1>1, <1>2, ConcatProperties
    <1>5. ASSUME NEW i \in 1 .. h + size PROVE (a \o b)[i] = c[i]
        <2>1. CASE i <= h
            <3>1. i \in 1 .. h
                BY <2>1
            <3>2. (a \o b)[i] = a[i]
                BY <2>1, <1>4
            <3> QED BY <3>1, <3>2, <1>1, <1>3
        <2>2. CASE ~(i <= h)
            <3>1. i - h \in 1 .. size /\ h + (i - h) = 0 + i
                BY <2>2
            <3>2. (a \o b)[i] = <<e.n, 0 + i>>
                BY <3>1, <2>2, <1>2, <1>4
            <3> QED BY <3>2, <1>3
        <2> QED BY <2>1, <2>2
    <1>6. a \o b = c
        BY <1>3, <1>4, <1>5, SeqEqual
    <1> QED BY <1>6 DEF a, b, c

\* The contents of an event are known by its number.
LEMMA NumberOfBytes ==
    ASSUME NEW e, NEW size \in Nat \ {0}
    PROVE  NumberOf(BytesOf(e, 0, size)) = e.n
    <1>1. 1 \in 1 .. size
        OBVIOUS
    <1>2. BytesOf(e, 0, size)[1] = <<e.n, 0 + 1>>
        BY <1>1 DEF BytesOf
    <1> QED BY <1>2 DEF NumberOf

LEMMA MinOfTwo ==
    ASSUME NEW a \in Nat, NEW b \in Nat
    PROVE  Min({a, b}) = IF a <= b THEN a ELSE b
    <1>1. {a, b} \subseteq Nat /\ {a, b} # {}
        OBVIOUS
    <1>2. Min({a, b}) \in {a, b} /\ \A x \in {a, b} : Min({a, b}) <= x
        BY <1>1, MinFacts
    <1>3. Min({a, b}) <= a /\ Min({a, b}) <= b
        BY <1>2
    <1> QED BY <1>2, <1>3

-----------------------------------------------------------------------------
(* The invariant holds at first.                                           *)

LEMMA PldmInitInv ==
    ASSUME PldmInit
    PROVE  PldmInv
<1> QueueSize \in Nat \ {0} /\ Preset \in 0 .. QueueSize /\ MaxEvents \in Nat
    /\ Preset <= MaxEvents /\ ReservedId \in Nat /\ ReservedId > QueueSize + 2
    BY PldmEventsAssumption
<1>1. PICK size \in [Slots -> Sizes] :
          ring = [events |-> [s \in Slots |->
                        IF s < Preset
                        THEN [n |-> s + 1, id |-> s + 1, size |-> size[s]]
                        ELSE NoEvent],
                  head |-> 0, tail |-> Preset % QueueSize, length |-> Preset]
    BY DEF PldmInit
<1> DEFINE evs == [s \in Slots |->
                     IF s < Preset
                     THEN [n |-> s + 1, id |-> s + 1, size |-> size[s]]
                     ELSE NoEvent]
<1>2. /\ ring.events = evs /\ ring.head = 0 /\ ring.length = Preset
      /\ ring.tail = SlotOf(Preset)
      /\ ring = [events |-> evs, head |-> 0, tail |-> SlotOf(Preset),
                 length |-> Preset]
    BY <1>1 DEF SlotOf
<1>3. SlotOf(Preset) \in Slots
    BY Wrap DEF Slots
<1>4. evs \in [Slots -> Event]
  <2>1. ASSUME NEW s \in Slots
        PROVE  (IF s < Preset THEN [n |-> s + 1, id |-> s + 1, size |-> size[s]]
                              ELSE NoEvent) \in Event
    <3>1. CASE s < Preset
      <4>1. s + 1 \in 0 .. MaxEvents /\ s + 1 \in 0 .. ReservedId - 1
            /\ size[s] \in Sizes
        BY <3>1 DEF Slots
      <4>2. QED BY <4>1, <3>1 DEF Event
    <3>2. CASE ~(s < Preset)
        BY <3>2 DEF NoEvent, Event
    <3>3. QED BY <3>1, <3>2
  <2>2. QED BY <2>1
<1>5. ASSUME NEW i \in 1 .. Preset
      PROVE  Entry(ring, i) = [n |-> i, id |-> i, size |-> size[i - 1]]
             /\ size[i - 1] \in Sizes
  <2>1. SlotOf(0 + i - 1) = i - 1 /\ i - 1 \in Slots /\ i - 1 < Preset
        /\ (i - 1) + 1 = i
    BY Wrap DEF Slots
  <2>2. Entry(ring, i) = evs[SlotOf(0 + i - 1)]
    BY <1>2 DEF Entry, SlotOf
  <2>3. evs[i - 1] = [n |-> (i - 1) + 1, id |-> (i - 1) + 1, size |-> size[i - 1]]
    BY <2>1
  <2>4. QED BY <2>1, <2>2, <2>3
<1> HIDE DEF evs
<1>6. WellFormed(ring)
  <2>1. 0 \in Slots
    BY DEF Slots
  <2>2. ring \in RingType
    BY <1>2, <1>3, <1>4, <2>1 DEF RingType
  <2>3. ring.tail = (ring.head + ring.length) % QueueSize
    BY <1>2 DEF SlotOf
  <2>4. QED BY <2>2, <2>3 DEF WellFormed
<1>7. /\ logged = Preset /\ notices = 0 /\ nextId = Preset + 1 /\ event = NoEvent
      /\ bufferSize = TerminusMax /\ requests = <<>> /\ replies = <<>>
      /\ asked = Idle /\ part = <<>> /\ got = <<>> /\ wake = TRUE
      /\ losses = 0 /\ resizes = 0
    BY DEF PldmInit
<1>8. RingInv
  <2>1. Taken = 0 /\ ring.length = Preset /\ ring.length <= logged
    BY <1>2, <1>7 DEF Taken
  <2>2. ASSUME NEW i \in 1 .. Preset
        PROVE  /\ Entry(ring, i).n = 0 + i
               /\ Entry(ring, i).id # 0 /\ Entry(ring, i).size \in Sizes
    BY <1>5
  <2>3. QED BY <2>1, <2>2, <1>6 DEF RingInv
<1>9. EventInv /\ AskedInv /\ MessageInv
    BY <1>7 DEF EventInv, AskedInv, AskedIdle, MessageInv, NoEvent
<1>10. GotInv
    BY <1>7 DEF GotInv
<1>11. PldmTypeOK
  <2>1. ring \in [events: [Slots -> Event], head: Slots, tail: Slots,
                  length: 0 .. QueueSize]
    BY <1>6 DEF WellFormed, RingType
  <2>2. event \in Event
    BY <1>7 DEF NoEvent, Event
  <2>3. Len(requests) + Len(replies) <= 1
    BY <1>7
  <2>4. asked.op = "none"
    BY <1>7 DEF Idle, Request
  <2>5. part \in Seq(Bytes) /\ got \in Seq(Seq(Bytes))
    BY <1>7
  <2>6. QED BY <2>1, <2>2, <2>3, <2>4, <2>5, <1>7, PldmEventsAssumption DEF PldmTypeOK
<1>12. QED BY <1>8, <1>9, <1>10, <1>11 DEF PldmInv

-----------------------------------------------------------------------------
(* What the parts of the invariant depend on.                              *)

\* The receiver's part of the invariant holds while the event that is offered,
\* what the receiver asks and the messages stay.
LEMMA ReceiverFrame ==
    ASSUME UNCHANGED <<event, asked, part, got, requests, replies>>,
           AskedInv, MessageInv
    PROVE  AskedInv' /\ MessageInv'
<1>1. AskedInv'
  <2>1. AskedIdle => AskedIdle'
    BY DEF AskedIdle, Idle, Request
  <2>2. AskedFirst => AskedFirst'
    BY DEF AskedFirst, First, Request
  <2>3. AskedNext => AskedNext'
    BY DEF AskedNext, Request, BytesOf
  <2>4. AskedAck => AskedAck'
    BY DEF AskedAck, Request, BytesOf, Given
  <2>5. QED BY <2>1, <2>2, <2>3, <2>4 DEF AskedInv
<1>2. MessageInv'
    BY DEF MessageInv, Idle, Request, Answers, AnswersFirst, AnswersNext, AnswersAck,
           BytesOf
<1>3. QED BY <1>1, <1>2

\* The log's part holds while the log, the event that is offered and what was
\* received stay, if the receiver does not ask again for an event it has.
LEMMA LogFrame ==
    ASSUME UNCHANGED <<ring, logged, event, got>>, RingInv, EventInv, GotInv,
           asked.op = "ack" => asked'.op = "ack" \/ event.id = 0
    PROVE  RingInv' /\ EventInv' /\ GotInv'
<1>1. Taken' = Taken
    BY DEF Taken
<1>2. RingInv'
    BY <1>1 DEF RingInv, Entry, WellFormed
<1>3. EventInv'
    BY <1>1 DEF EventInv
<1>4. GotInv'
    BY <1>1 DEF GotInv, NumberOf
<1>5. QED BY <1>2, <1>3, <1>4

-----------------------------------------------------------------------------
(* The steps of the log.                                                   *)

\* What the constants and the invariant say of the types.
LEMMA PldmBasics ==
    ASSUME PldmInv
    PROVE  /\ QueueSize \in Nat \ {0} /\ ReservedId \in Nat /\ MaxEvents \in Nat
           /\ WellFormed(ring) /\ ring.length \in 0 .. QueueSize
           /\ logged \in 0 .. MaxEvents /\ ring.length <= logged
           /\ Taken \in 0 .. MaxEvents
           /\ event \in Event /\ event.n \in 0 .. MaxEvents
           /\ event.id \in 0 .. ReservedId - 1 /\ event.size \in Nat
           /\ Sizes \subseteq Nat \ {0} /\ ReservedId # 0
           /\ part \in Seq(Bytes) /\ got \in Seq(Seq(Bytes)) /\ Len(got) \in Nat
           /\ \A k \in 1 .. Len(got) : got[k] \in Seq(Bytes)
<1>1. /\ QueueSize \in Nat \ {0} /\ ReservedId \in Nat /\ MaxEvents \in Nat
      /\ Sizes \subseteq Nat \ {0} /\ ReservedId # 0
    BY PldmEventsAssumption
<1>2. /\ ring \in RingType /\ logged \in 0 .. MaxEvents /\ ring.length <= logged
      /\ WellFormed(ring)
    BY DEF PldmInv, PldmTypeOK, RingInv, WellFormed
<1>3. ring.length \in 0 .. QueueSize
    BY <1>2 DEF RingType
<1>4. Taken \in 0 .. MaxEvents
    BY <1>1, <1>2, <1>3 DEF Taken
<1>5. event \in Event
    BY DEF PldmInv, PldmTypeOK
<1>6. /\ event.n \in 0 .. MaxEvents /\ event.id \in 0 .. ReservedId - 1
      /\ event.size \in Nat
  <2>1. event.n \in 0 .. MaxEvents /\ event.id \in 0 .. ReservedId - 1
        /\ event.size \in Sizes \cup {0}
    BY <1>5 DEF Event
  <2>2. event.size \in Nat
    <3>1. CASE event.size \in Sizes
        BY <3>1, <1>1
    <3>2. CASE event.size = 0
        BY <3>2
    <3>3. QED BY <2>1, <3>1, <3>2
  <2>3. QED BY <2>1, <2>2
<1>7. part \in Seq(Bytes) /\ got \in Seq(Seq(Bytes))
    BY DEF PldmInv, PldmTypeOK
<1>8. Len(got) \in Nat /\ \A k \in 1 .. Len(got) : got[k] \in Seq(Bytes)
    BY <1>7, SeqBasics
<1>9. QED BY <1>1, <1>2, <1>3, <1>4, <1>5, <1>6, <1>7, <1>8

\* The numbers of what was received.
LEMMA NumbersTyped ==
    ASSUME PldmInv, NEW k \in 1 .. Len(got)
    PROVE  NumberOf(got[k]) \in Nat
<1>1. got[k] \in Seq(Bytes) /\ got[k] # <<>>
    BY PldmBasics DEF PldmInv, GotInv
<1>2. got[k][1] \in Bytes
    BY <1>1
<1>3. QED BY <1>2 DEF Bytes, NumberOf

\* What is lost is counted.
LEMMA DropFacts ==
    ASSUME losses \in 0 .. MaxLosses, Drop
    PROVE  losses' \in 0 .. MaxLosses
BY PldmEventsAssumption DEF Drop

\* A notice is put, taken or dropped.
LEMMA Told ==
    ASSUME PldmInv, LogEvent \/ NotifyReceiver
    PROVE  notices' \in Nat /\ losses' \in 0 .. MaxLosses
<1>1. notices \in Nat /\ losses \in 0 .. MaxLosses
    BY DEF PldmInv, PldmTypeOK
<1>2. losses' \in 0 .. MaxLosses
    BY <1>1, DropFacts DEF LogEvent, NotifyReceiver
<1>3. notices' \in Nat
    BY <1>1 DEF LogEvent, NotifyReceiver
<1>4. QED BY <1>2, <1>3

LEMMA LogEventInv ==
    ASSUME PldmInv, LogEvent
    PROVE  PldmInv'
<1> USE PldmBasics
<1>1. PICK s \in Sizes :
          ring' = Put(ring, [n |-> logged + 1, id |-> nextId, size |-> s])
    BY DEF LogEvent
<1> DEFINE e == [n |-> logged + 1, id |-> nextId, size |-> s]
<1>2. /\ logged < MaxEvents /\ logged' = logged + 1 /\ nextId' = AfterId(nextId)
      /\ UNCHANGED <<event, bufferSize, requests, replies, receiver, resizes>>
      /\ notices' \in Nat /\ losses' \in 0 .. MaxLosses
    BY Told DEF LogEvent
<1>3. nextId \in 1 .. ReservedId - 1
    BY DEF PldmInv, PldmTypeOK
<1>4. e \in Event
    BY <1>2, <1>3, SMTT(30) DEF Event
<1>5. e.n = logged + 1 /\ e.id # 0 /\ e.size \in Sizes
    BY <1>3
<1> HIDE DEF e
<1>6. /\ WellFormed(ring')
      /\ ring.length < QueueSize =>
             /\ ring'.length = ring.length + 1
             /\ \A i \in 1 .. ring.length : Entry(ring', i) = Entry(ring, i)
             /\ Entry(ring', ring.length + 1) = e
      /\ ring.length = QueueSize =>
             /\ ring'.length = QueueSize
             /\ \A i \in 1 .. QueueSize - 1 : Entry(ring', i) = Entry(ring, i + 1)
             /\ Entry(ring', QueueSize) = e
    BY <1>1, <1>4, PutFacts DEF e
<1>7. \A i \in 1 .. ring.length :
          /\ Entry(ring, i).n = Taken + i
          /\ Entry(ring, i).id # 0 /\ Entry(ring, i).size \in Sizes
    BY DEF PldmInv, RingInv
<1>8. RingInv' /\ Taken' \in Nat /\ Taken' >= Taken
  <2>1. CASE ring.length < QueueSize
    <3>1. Taken' = Taken /\ ring'.length <= logged'
      <4>1. ring'.length = ring.length + 1
        BY <1>6, <2>1
      <4>2. QED BY <4>1, <1>2, SMTT(30) DEF Taken
    <3>2. ASSUME NEW i \in 1 .. ring'.length
          PROVE  /\ Entry(ring', i).n = Taken' + i
                 /\ Entry(ring', i).id # 0 /\ Entry(ring', i).size \in Sizes
      <4>1. CASE i = ring.length + 1
        <5>1. Entry(ring', i) = e
            BY <4>1, <1>6, <2>1
        <5>2. Taken' + i = logged + 1
            BY <3>1, <4>1 DEF Taken
        <5>3. QED BY <5>1, <5>2, <1>5
      <4>2. CASE i # ring.length + 1
        <5>1. i \in 1 .. ring.length
            BY <4>2, <1>6, <2>1, SMTT(30)
        <5>2. QED BY <5>1, <1>6, <2>1, <1>7, <3>1
      <4>3. QED BY <4>1, <4>2
    <3>3. QED BY <3>1, <3>2, <1>6 DEF RingInv
  <2>2. CASE ring.length = QueueSize
    <3>1. Taken' = Taken + 1 /\ ring'.length <= logged' /\ ring'.length = QueueSize
        BY <1>2, <1>6, <2>2, SMTT(30) DEF Taken
    <3>2. ASSUME NEW i \in 1 .. ring'.length
          PROVE  /\ Entry(ring', i).n = Taken' + i
                 /\ Entry(ring', i).id # 0 /\ Entry(ring', i).size \in Sizes
      <4>1. CASE i = QueueSize
        <5>1. Entry(ring', i) = e
            BY <4>1, <1>6, <2>2
        <5>2. Taken' + i = logged + 1
            BY <3>1, <4>1, <2>2 DEF Taken
        <5>3. QED BY <5>1, <5>2, <1>5
      <4>2. CASE i # QueueSize
        <5>1. i \in 1 .. QueueSize - 1 /\ i + 1 \in 1 .. ring.length
            BY <4>2, <3>1, <2>2, SMTT(30)
        <5>2. Entry(ring', i) = Entry(ring, i + 1)
            BY <5>1, <1>6, <2>2
        <5>3. Taken' + i = Taken + (i + 1)
            BY <3>1, <5>1
        <5>4. QED BY <5>1, <5>2, <5>3, <1>7
      <4>3. QED BY <4>1, <4>2
    <3>3. QED BY <3>1, <3>2, <1>6, SMTT(30) DEF RingInv
  <2>3. QED BY <2>1, <2>2
<1>9. EventInv'
    BY <1>2, <1>8 DEF PldmInv, EventInv
<1>10. GotInv'
  <2>1. ASSUME NEW k \in 1 .. Len(got)
        PROVE  NumberOf(got[k]) \in Nat /\ NumberOf(got[k]) <= Taken'
    <3>1. NumberOf(got[k]) \in Nat /\ NumberOf(got[k]) <= Taken
        BY NumbersTyped DEF PldmInv, GotInv
    <3>2. QED BY <3>1, <1>8
  <2>2. QED BY <2>1, <1>2 DEF PldmInv, GotInv, receiver, NumberOf
<1>11. AskedInv' /\ MessageInv'
    BY <1>2, ReceiverFrame DEF PldmInv, receiver
<1>12. PldmTypeOK'
  <2>1. ring' \in [events: [Slots -> Event], head: Slots, tail: Slots,
                   length: 0 .. QueueSize]
    BY <1>6 DEF WellFormed, RingType
  <2>2. AfterId(nextId) \in 1 .. ReservedId - 1
    BY <1>3, PldmEventsAssumption DEF AfterId
  <2>3. QED BY <2>1, <2>2, <1>2, SMTT(30) DEF PldmInv, PldmTypeOK, receiver
<1>13. QED BY <1>8, <1>9, <1>10, <1>11, <1>12 DEF PldmInv

\* A step that leaves the log, the event offered, the messages and what the
\* receiver asks as they are.
LEMMA QuietInv ==
    ASSUME PldmInv,
           UNCHANGED <<ring, nextId, event, logged, requests, replies, asked, part, got>>,
           bufferSize' \in Buffers \cup {TerminusMax}, notices' \in Nat,
           wake' \in BOOLEAN, losses' \in 0 .. MaxLosses, resizes' \in 0 .. MaxResizes
    PROVE  PldmInv'
<1>1. RingInv' /\ EventInv' /\ GotInv'
    BY LogFrame DEF PldmInv
<1>2. AskedInv' /\ MessageInv'
    BY ReceiverFrame DEF PldmInv
<1>3. PldmTypeOK'
    BY DEF PldmInv, PldmTypeOK
<1>4. QED BY <1>1, <1>2, <1>3 DEF PldmInv

LEMMA NotifyReceiverInv ==
    ASSUME PldmInv, NotifyReceiver
    PROVE  PldmInv'
<1>1. /\ UNCHANGED <<ring, nextId, event, logged, requests, replies, asked, part, got>>
      /\ bufferSize' \in Buffers \cup {TerminusMax}
      /\ wake' \in BOOLEAN /\ resizes' \in 0 .. MaxResizes
    BY DEF NotifyReceiver, PldmInv, PldmTypeOK, receiver
<1>2. notices' \in Nat /\ losses' \in 0 .. MaxLosses
    BY Told
<1>3. QED BY <1>1, <1>2, QuietInv

LEMMA ResizeBufferInv ==
    ASSUME PldmInv, ResizeBuffer
    PROVE  PldmInv'
<1>1. /\ UNCHANGED <<ring, nextId, event, logged, requests, replies, asked, part, got>>
      /\ bufferSize' \in Buffers \cup {TerminusMax} /\ notices' \in Nat
      /\ wake' \in BOOLEAN /\ losses' \in 0 .. MaxLosses
    BY DEF ResizeBuffer, receiver, PldmInv, PldmTypeOK
<1>2. resizes' \in 0 .. MaxResizes
    BY PldmEventsAssumption DEF ResizeBuffer, PldmInv, PldmTypeOK
<1>3. QED BY <1>1, <1>2, QuietInv

-----------------------------------------------------------------------------
(* The steps of the terminus.                                              *)

\* A request that is handled is the one the receiver asks.
LEMMA HandleFacts ==
    ASSUME PldmInv, NEW op, Handle(op), NEW r, Respond(r)
    PROVE  /\ Head(requests) = asked /\ asked # Idle /\ asked.op = op
           /\ requests = <<asked>> /\ replies = <<>>
           /\ requests' = <<>> /\ replies' = <<r>> /\ Len(replies') = 1
           /\ replies'[1] = r
           /\ UNCHANGED <<nextId, bufferSize, logged, notices, asked, part, got, wake,
                          losses, resizes>>
<1>1. requests = <<asked>> /\ replies = <<>> /\ asked # Idle
    BY DEF PldmInv, MessageInv, Handle
<1>2. Head(requests) = asked /\ Tail(requests) = <<>> /\ Append(replies, r) = <<r>>
    BY <1>1
<1>3. QED BY <1>1, <1>2 DEF Handle, Respond, receiver

\* The reply to the request the receiver waits for, in the new state.
LEMMA RespondMessage ==
    ASSUME NEW r, requests' = <<>>, replies' = <<r>>, Len(replies') = 1,
           replies'[1] = r, asked' # Idle, Answers(r)'
    PROVE  MessageInv'
<1>1. (requests = <<>> /\ asked # Idle)'
    BY DEF Idle, Request
<1>2. (Len(replies) = 1 /\ replies = <<replies[1]>> /\ Answers(replies[1]))'
    BY DEF Answers, AnswersFirst, AnswersNext, AnswersAck
<1>3. QED BY <1>1, <1>2 DEF MessageInv

LEMMA TransferTyped ==
    ASSUME PldmInv
    PROVE  /\ MaxTransfer \in Nat /\ MaxTransfer >= ChecksumSize /\ ChecksumSize \in Nat
           /\ ChecksumSize > 0
<1>1. bufferSize \in Buffers \cup {TerminusMax}
    BY DEF PldmInv, PldmTypeOK
<1>2. /\ TerminusMax \in Nat /\ bufferSize \in Nat
      /\ ChecksumSize \in Nat /\ ChecksumSize > 0
    BY <1>1, PldmEventsAssumption
<1>3. TerminusMax >= ChecksumSize /\ bufferSize >= ChecksumSize
    BY <1>1, BufferAssumption
<1>4. MaxTransfer = IF TerminusMax <= bufferSize THEN TerminusMax ELSE bufferSize
    BY <1>2, MinOfTwo DEF MaxTransfer
<1>5. QED BY <1>2, <1>3, <1>4

\* The asks, told apart by their operations.
LEMMA AskedFacts ==
    ASSUME AskedInv
    PROVE  /\ asked.op = "none" <=> AskedIdle
           /\ asked.op = "none" <=> asked = Idle
           /\ asked.op = "first" <=> AskedFirst
           /\ asked.op = "next" <=> AskedNext
           /\ asked.op = "ack" <=> AskedAck
           /\ asked = First <=> asked.op = "first"
           /\ asked.op \in {"none", "first", "next", "ack"}
<1>1. AskedIdle => asked = Idle /\ asked.op = "none"
    BY DEF AskedIdle, Idle, Request
<1>2. AskedFirst => asked = First /\ asked.op = "first"
    BY DEF AskedFirst, First, Request
<1>3. AskedNext => asked.op = "next"
    BY DEF AskedNext, Request
<1>4. AskedAck => asked.op = "ack"
    BY DEF AskedAck, Request
<1>5. Idle.op = "none" /\ First.op = "first"
    BY DEF Idle, First, Request
<1>6. QED BY <1>1, <1>2, <1>3, <1>4, <1>5 DEF AskedInv

\* handle_pldm_poll_for_platform_event_message offers no event twice: the next
\* one, if any, comes only when the one before is acknowledged.
LEMMA NextEventFacts ==
    ASSUME PldmInv, NextEvent, asked' = asked, asked.op = "first", got' = got,
           logged' = logged
    PROVE  /\ RingInv' /\ EventInv' /\ GotInv' /\ event' \in Event
           /\ \/ event.id # 0 /\ UNCHANGED <<event, ring>>
              \/ event.id = 0 /\ ring.length = 0 /\ event' = NoEvent /\ UNCHANGED ring
              \/ /\ event.id = 0 /\ ring.length > 0 /\ ring' = TakeOldest(ring)
                 /\ event' = Entry(ring, 1) /\ event'.id # 0 /\ event'.n = Taken + 1
<1> USE PldmBasics
<1>1. CASE event.id # 0
  <2>1. UNCHANGED <<event, ring>>
    BY <1>1 DEF NextEvent
  <2>2. RingInv' /\ EventInv' /\ GotInv'
    BY <2>1, LogFrame DEF PldmInv
  <2>3. QED BY <1>1, <2>1, <2>2
<1>2. CASE event.id = 0 /\ ring.length = 0
  <2>1. event' = NoEvent /\ UNCHANGED ring
    BY <1>2 DEF NextEvent
  <2>2. Taken' = Taken
    BY <2>1 DEF Taken
  <2>3. RingInv'
    BY <2>1, <2>2 DEF PldmInv, RingInv, Entry, WellFormed
  <2>4. NoEvent.id = 0 /\ NoEvent \in Event
    BY PldmEventsAssumption DEF NoEvent, Event
  <2>5. EventInv' /\ GotInv'
    BY <2>1, <2>2, <2>4 DEF PldmInv, EventInv, GotInv, NumberOf
  <2>6. QED BY <1>2, <2>1, <2>3, <2>4, <2>5
<1>3. CASE event.id = 0 /\ ring.length # 0
  <2>1. event' = ring.events[ring.head] /\ ring' = TakeOldest(ring)
    BY <1>3 DEF NextEvent, TakeOldest
  <2>2. /\ WellFormed(ring') /\ ring'.length = ring.length - 1
        /\ event' = Entry(ring, 1)
        /\ \A i \in 1 .. ring.length - 1 : Entry(ring', i) = Entry(ring, i + 1)
    BY <2>1, <1>3, TakeFacts
  <2>3. \A i \in 1 .. ring.length :
            /\ Entry(ring, i).n = Taken + i
            /\ Entry(ring, i).id # 0 /\ Entry(ring, i).size \in Sizes
    BY DEF PldmInv, RingInv
  <2>4. Taken' = Taken + 1 /\ ring'.length <= logged'
    <3>1. ring'.length = ring.length - 1
        BY <2>2
    <3>2. QED BY <3>1 DEF Taken
  <2>5. RingInv'
    <3>1. ASSUME NEW i \in 1 .. ring'.length
          PROVE  /\ Entry(ring', i).n = Taken' + i
                 /\ Entry(ring', i).id # 0 /\ Entry(ring', i).size \in Sizes
      <4>1. i \in 1 .. ring.length - 1 /\ i + 1 \in 1 .. ring.length
        BY <2>2
      <4>2. Taken' + i = Taken + (i + 1)
        BY <2>4, <4>1
      <4>3. Entry(ring', i) = Entry(ring, i + 1)
        BY <4>1, <2>2
      <4>4. QED BY <4>1, <4>2, <4>3, <2>3
    <3>2. QED BY <3>1, <2>2, <2>4 DEF RingInv
  <2>6. event'.n = Taken + 1 /\ event'.id # 0 /\ event'.size \in Sizes
    <3>1. 1 \in 1 .. ring.length
        BY <1>3
    <3>2. QED BY <3>1, <2>2, <2>3
  <2>7. event' \in Event
    <3>1. ring \in RingType
        BY DEF PldmInv, RingInv, WellFormed
    <3>2. QED BY <3>1, <2>1 DEF RingType
  <2>8. EventInv'
    BY <2>4, <2>6 DEF EventInv
  <2>9. GotInv'
    <3>1. ASSUME NEW k \in 1 .. Len(got)
          PROVE  got[k] # <<>> /\ NumberOf(got[k]) <= Taken'
                 /\ NumberOf(got[k]) # event'.n
      <4>1. NumberOf(got[k]) \in Nat /\ NumberOf(got[k]) <= Taken /\ got[k] # <<>>
        BY NumbersTyped DEF PldmInv, GotInv
      <4>2. QED BY <4>1, <2>4, <2>6, SMTT(30)
    <3>2. QED BY <3>1 DEF GotInv, NumberOf
  <2>10. QED BY <1>3, <2>1, <2>2, <2>5, <2>6, <2>7, <2>8, <2>9
<1>4. QED BY <1>1, <1>2, <1>3

LEMMA FirstPartAnswers ==
    ASSUME PldmInv, event' \in Event, EventInv', NEW r, r = FirstPart(event')
    PROVE  AnswersFirst(r)'
<1>1. MaxTransfer \in Nat
    BY TransferTyped
<1>2. CASE event'.id = 0
  <2>1. r.id = 0
    BY <1>2 DEF FirstPart, Reply
  <2>2. QED BY <1>2, <2>1 DEF AnswersFirst
<1>3. CASE event'.id # 0 /\ event'.size >= MaxTransfer
  <2>1. r = Reply(event'.id, MaxTransfer, "start", BytesOf(event', 0, MaxTransfer))
    BY <1>3 DEF FirstPart
  <2>2. event'.size \in Nat
    BY <1>3, PldmEventsAssumption DEF EventInv
  <2>3. MaxTransfer \in 0 .. event'.size
    BY <1>1, <1>3, <2>2
  <2>4. /\ r.id = event'.id /\ r.flag = "start" /\ r.next = MaxTransfer
        /\ r.bytes = BytesOf(event', 0, MaxTransfer)
    BY <2>1 DEF Reply
  <2>5. QED BY <1>3, <2>3, <2>4 DEF AnswersFirst, BytesOf
<1>4. CASE event'.id # 0 /\ ~(event'.size >= MaxTransfer)
  <2>1. r = Reply(event'.id, event'.size, "start_and_end",
                  BytesOf(event', 0, event'.size))
    BY <1>4 DEF FirstPart
  <2>2. /\ r.id = event'.id /\ r.flag = "start_and_end"
        /\ r.bytes = BytesOf(event', 0, event'.size)
    BY <2>1 DEF Reply
  <2>3. QED BY <1>4, <2>2 DEF AnswersFirst, BytesOf
<1>5. QED BY <1>2, <1>3, <1>4

LEMMA HandleFirstInv ==
    ASSUME PldmInv, HandleFirst
    PROVE  PldmInv'
<1> USE PldmBasics
<1>1. PICK r : Handle("first") /\ NextEvent /\ Respond(r) /\ r = FirstPart(event')
    BY DEF HandleFirst
<1>2. /\ asked # Idle /\ asked.op = "first"
      /\ requests' = <<>> /\ replies' = <<r>> /\ Len(replies') = 1
      /\ replies'[1] = r
      /\ UNCHANGED <<nextId, bufferSize, logged, notices, asked, part, got, wake,
                     losses, resizes>>
    BY <1>1, HandleFacts
<1>3. RingInv' /\ EventInv' /\ GotInv' /\ event' \in Event
    BY <1>1, <1>2, NextEventFacts
<1>4. AskedInv'
    BY <1>2, AskedFacts DEF PldmInv, AskedInv, AskedFirst, First, Request
<1>5. MessageInv'
  <2>1. AnswersFirst(r)'
    BY <1>1, <1>3, FirstPartAnswers
  <2>2. Answers(r)'
    BY <2>1, <1>2 DEF Answers
  <2>3. QED BY <2>2, <1>2, RespondMessage
<1>6. PldmTypeOK'
  <2>1. ring' \in [events: [Slots -> Event], head: Slots, tail: Slots,
                   length: 0 .. QueueSize]
    BY <1>3 DEF RingInv, WellFormed, RingType
  <2>2. QED BY <2>1, <1>2, <1>3, SMTT(30) DEF PldmInv, PldmTypeOK
<1>7. QED BY <1>3, <1>4, <1>5, <1>6 DEF PldmInv

LEMMA HandleNextInv ==
    ASSUME PldmInv, HandleNext
    PROVE  PldmInv'
<1> USE PldmBasics
<1> DEFINE handle == Head(requests).handle
           size == Min({event.size - handle, MaxTransfer})
<1>1. PICK r : /\ Handle("next") /\ Respond(r)
               /\ r = IF event.id = 0 \/ handle > event.size
                      THEN Reply(event.id, 0, "error", <<>>)
                      ELSE Reply(event.id, handle + size,
                                 IF size + ChecksumSize <= MaxTransfer
                                 THEN "end" ELSE "middle",
                                 BytesOf(event, handle, size))
    BY DEF HandleNext
<1>2. UNCHANGED <<ring, event>>
    BY DEF HandleNext
<1>3. /\ Head(requests) = asked /\ asked # Idle /\ asked.op = "next"
      /\ requests' = <<>> /\ replies' = <<r>> /\ Len(replies') = 1
      /\ replies'[1] = r
      /\ UNCHANGED <<nextId, bufferSize, logged, notices, asked, part, got, wake,
                     losses, resizes>>
    BY <1>1, HandleFacts
<1>4. event.id # 0 /\ handle = asked.handle /\ handle \in 0 .. event.size
  <2>1. AskedNext
    BY <1>3, AskedFacts DEF PldmInv
  <2>2. QED BY <2>1, <1>3 DEF AskedNext, Request
<1>5. /\ size \in Nat /\ size <= event.size - handle
      /\ size + ChecksumSize <= MaxTransfer => size = event.size - handle
  <2>1. event.size - handle \in Nat
    BY <1>4
  <2>2. /\ MaxTransfer \in Nat /\ ChecksumSize \in Nat /\ ChecksumSize > 0
    BY TransferTyped
  <2> DEFINE left == event.size - handle
  <2> HIDE DEF left
  <2>3. Min({left, MaxTransfer}) = IF left <= MaxTransfer THEN left ELSE MaxTransfer
    BY <2>1, <2>2, MinOfTwo DEF left
  <2>4. QED BY <2>1, <2>2, <2>3 DEF left
<1>6. Answers(r)'
  <2>1. r = Reply(event.id, handle + size,
                  IF size + ChecksumSize <= MaxTransfer THEN "end" ELSE "middle",
                  BytesOf(event, handle, size))
    BY <1>1, <1>4
  <2>2. /\ r.id = event.id /\ r.next = handle + size
        /\ r.flag = IF size + ChecksumSize <= MaxTransfer THEN "end" ELSE "middle"
        /\ r.bytes = BytesOf(event, handle, size)
    BY <2>1 DEF Reply
  <2> HIDE DEF size, handle
  <2>3. /\ r.next \in handle .. event.size /\ r.next - handle = size
        /\ r.flag = "end" => r.next = event.size
    <3>1. r.next = handle + size
        BY <2>2
    <3>2. r.flag = "end" => size = event.size - handle
        BY <2>2, <1>5
    <3>3. size \in Nat /\ size <= event.size - handle /\ handle \in 0 .. event.size
        BY <1>4, <1>5
    <3>4. r.next \in handle .. event.size /\ r.next - handle = size
        BY <3>1, <3>3
    <3>5. r.flag = "end" => r.next = event.size
      <4>1. SUFFICES ASSUME r.flag = "end" PROVE handle + size = event.size
        BY <3>1
      <4>2. size = event.size - handle
        BY <4>1, <3>2
      <4>3. QED BY <4>2, <3>3, SMTT(30)
    <3>6. QED BY <3>4, <3>5
  <2>4. AnswersNext(r)
    BY <2>2, <2>3, <1>4 DEF AnswersNext
  <2>5. AnswersNext(r)'
    BY <2>4, <1>2, <1>3 DEF AnswersNext, BytesOf
  <2>6. QED BY <2>5, <1>3 DEF Answers
<1>7. MessageInv'
    BY <1>3, <1>6, RespondMessage
<1>8. RingInv' /\ EventInv' /\ GotInv'
    BY <1>2, <1>3, LogFrame DEF PldmInv
<1>9. AskedInv'
  <2>1. AskedNext
    BY <1>3, AskedFacts DEF PldmInv
  <2>2. AskedNext'
    BY <2>1, <1>2, <1>3 DEF AskedNext, Request, BytesOf
  <2>3. QED BY <2>2 DEF AskedInv
<1>10. PldmTypeOK'
    BY <1>2, <1>3 DEF PldmInv, PldmTypeOK
<1>11. QED BY <1>7, <1>8, <1>9, <1>10 DEF PldmInv

LEMMA HandleAckInv ==
    ASSUME PldmInv, HandleAck
    PROVE  /\ PldmInv' /\ event'.id = 0 /\ UNCHANGED <<ring, logged, got>>
           /\ event.id # 0 => Given
<1> USE PldmBasics
<1>1. PICK r : /\ Handle("ack") /\ Respond(r) /\ r = Reply(More, 0, "start", <<>>)
    BY DEF HandleAck
<1>2. /\ event' = IF event.id = Head(requests).id THEN [event EXCEPT !.id = 0]
                                                  ELSE event
      /\ UNCHANGED ring
    BY DEF HandleAck
<1>3. /\ Head(requests) = asked /\ asked # Idle /\ asked.op = "ack"
      /\ requests' = <<>> /\ replies' = <<r>> /\ Len(replies') = 1
      /\ replies'[1] = r
      /\ UNCHANGED <<nextId, bufferSize, logged, notices, asked, part, got, wake,
                     losses, resizes>>
    BY <1>1, HandleFacts
<1>4. PICK id \in 1 .. ReservedId - 1 :
          asked = Request("ack", 0, id) /\ event.id \in {0, id} /\ (event.id # 0 => Given)
  <2>1. AskedAck
    BY <1>3, AskedFacts DEF PldmInv
  <2>2. QED BY <2>1 DEF AskedAck
<1>5. event' \in Event /\ event'.id = 0
  <2>1. Head(requests).id = id
    BY <1>3, <1>4 DEF Request
  <2>2. CASE event.id = id
    <3>1. event' = [event EXCEPT !.id = 0]
        BY <2>1, <2>2, <1>2
    <3>2. 0 \in 0 .. ReservedId - 1
        OBVIOUS
    <3>3. QED BY <3>1, <3>2 DEF Event
  <2>3. CASE event.id = 0
    BY <2>1, <2>3, <1>2, <1>4
  <2>4. QED BY <1>4, <2>2, <2>3
<1>6. Taken' = Taken
    BY <1>2, <1>3 DEF Taken
<1>7. RingInv'
    BY <1>2, <1>3, <1>6 DEF PldmInv, RingInv, Entry, WellFormed
<1>8. EventInv' /\ GotInv'
    BY <1>3, <1>5, <1>6 DEF PldmInv, EventInv, GotInv, NumberOf
<1>9. AskedInv'
    BY <1>3, <1>4, <1>5 DEF AskedInv, AskedAck, Request
<1>10. MessageInv'
  <2>1. r.id = More /\ More \in {0, ReservedId}
    BY <1>1 DEF Reply, More
  <2>2. AnswersAck(r)'
    BY <2>1, <1>5 DEF AnswersAck
  <2>3. Answers(r)'
    BY <2>2, <1>3 DEF Answers
  <2>4. QED BY <2>3, <1>3, RespondMessage
<1>11. PldmTypeOK'
    BY <1>2, <1>3, <1>5, SMTT(30) DEF PldmInv, PldmTypeOK
<1>12. PldmInv'
    BY <1>7, <1>8, <1>9, <1>10, <1>11 DEF PldmInv
<1>13. QED BY <1>2, <1>3, <1>4, <1>5, <1>12

-----------------------------------------------------------------------------
(* The steps of the receiver and of the transport.                         *)

\* The receiver asks, whether for the first time or again.
LEMMA AskMessage ==
    ASSUME NEW request, requests = <<>>, Ask(request), request # Idle, replies' = <<>>
    PROVE  MessageInv' /\ requests' = <<request>> /\ asked' = request
<1>1. requests' = <<request>> /\ asked' = request
    BY DEF Ask
<1>2. (requests = <<asked>> /\ replies = <<>> /\ asked # Idle)'
    BY <1>1 DEF Idle, Request
<1>3. QED BY <1>1, <1>2 DEF MessageInv

LEMMA PollInv ==
    ASSUME PldmInv, Poll
    PROVE  PldmInv'
<1> USE PldmBasics
<1>1. /\ asked = Idle /\ Ask(First)
      /\ UNCHANGED <<ring, nextId, event, bufferSize, logged, notices, replies,
                     part, got, losses, resizes>>
      /\ wake' = FALSE
    BY DEF Poll
<1>2. First # Idle /\ First.op = "first" /\ Idle.op = "none"
    BY DEF First, Idle, Request
<1>3. requests = <<>> /\ replies = <<>>
    BY <1>1 DEF PldmInv, MessageInv
<1>4. MessageInv' /\ requests' = <<First>> /\ asked' = First
    BY <1>1, <1>2, <1>3, AskMessage
<1>5. asked'.op = "first"
    BY <1>2, <1>4
<1>6. event.id = 0
    BY <1>1, <1>2, AskedFacts DEF PldmInv, AskedIdle
<1>7. RingInv' /\ EventInv' /\ GotInv'
    BY <1>1, <1>6, LogFrame DEF PldmInv
<1>8. AskedInv'
    BY <1>4 DEF AskedInv, AskedFirst, First, Request
<1>9. PldmTypeOK'
  <2>1. Len(requests') + Len(replies') <= 1
    BY <1>1, <1>3, <1>4
  <2>2. QED BY <2>1, <1>1, <1>5 DEF PldmInv, PldmTypeOK
<1>10. QED BY <1>4, <1>7, <1>8, <1>9 DEF PldmInv

\* What is asked stays justified while the receiver and the event stay.
LEMMA AskedFrame ==
    ASSUME AskedInv, event' = event, asked' = asked, part' = part, got' = got
    PROVE  AskedInv'
<1>1. Given' = Given
    BY DEF Given, BytesOf
<1>2. AskedIdle' = AskedIdle /\ AskedFirst' = AskedFirst
    BY DEF AskedIdle, AskedFirst, Idle, First, Request
<1>3. AskedNext => AskedNext'
    BY DEF AskedNext, Request, BytesOf
<1>4. AskedAck => AskedAck'
    BY <1>1 DEF AskedAck, Request
<1>5. QED BY <1>2, <1>3, <1>4 DEF AskedInv

LEMMA AskAgainInv ==
    ASSUME PldmInv, AskAgain
    PROVE  PldmInv'
<1> USE PldmBasics
<1>1. /\ asked # Idle /\ requests = <<>> /\ replies = <<>> /\ Ask(asked)
      /\ UNCHANGED <<ring, nextId, event, bufferSize, logged, notices, replies,
                     part, got, wake, losses, resizes>>
    BY DEF AskAgain
<1>2. asked' = asked /\ requests' = <<asked>> /\ replies' = <<>>
    BY <1>1 DEF Ask
<1>3. MessageInv'
    BY <1>1, <1>2 DEF MessageInv, Idle, Request
<1>4. RingInv' /\ EventInv' /\ GotInv'
    BY <1>1, <1>2, LogFrame DEF PldmInv
<1>5. AskedInv'
    BY <1>1, <1>2, AskedFrame DEF PldmInv
<1>6. PldmTypeOK'
  <2>1. Len(requests') + Len(replies') <= 1
    BY <1>2
  <2>2. QED BY <2>1, <1>1, <1>2 DEF PldmInv, PldmTypeOK
<1>7. QED BY <1>3, <1>4, <1>5, <1>6 DEF PldmInv

LEMMA LoseInv ==
    ASSUME PldmInv, Lose
    PROVE  PldmInv'
<1> USE PldmBasics
<1>1. /\ losses' \in 0 .. MaxLosses
      /\ UNCHANGED <<ring, nextId, event, bufferSize, logged, notices, receiver,
                     resizes>>
      /\ \/ requests # <<>> /\ requests' = Tail(requests) /\ UNCHANGED replies
         \/ replies # <<>> /\ replies' = Tail(replies) /\ UNCHANGED requests
    BY DropFacts DEF Lose, PldmInv, PldmTypeOK
<1>2. UNCHANGED <<asked, part, got, wake>>
    BY <1>1 DEF receiver
<1>3. requests' = <<>> /\ replies' = <<>>
  <2>1. CASE requests # <<>> /\ requests' = Tail(requests) /\ UNCHANGED replies
    <3>1. requests = <<asked>> /\ replies = <<>>
        BY <2>1 DEF PldmInv, MessageInv
    <3>2. QED BY <3>1, <2>1
  <2>2. CASE replies # <<>> /\ replies' = Tail(replies) /\ UNCHANGED requests
    <3>1. replies = <<replies[1]>> /\ requests = <<>>
        BY <2>2 DEF PldmInv, MessageInv
    <3>2. Tail(<<replies[1]>>) = <<>>
        OBVIOUS
    <3>3. QED BY <3>1, <3>2, <2>2
  <2>3. QED BY <1>1, <2>1, <2>2
<1>4. MessageInv'
    BY <1>3 DEF MessageInv
<1>5. RingInv' /\ EventInv' /\ GotInv'
    BY <1>1, <1>2, LogFrame DEF PldmInv
<1>6. AskedInv'
    BY <1>1, <1>2, AskedFrame DEF PldmInv
<1>7. PldmTypeOK'
  <2>1. Len(requests') + Len(replies') <= 1
    BY <1>3
  <2>2. QED BY <2>1, <1>1, <1>2 DEF PldmInv, PldmTypeOK
<1>8. QED BY <1>4, <1>5, <1>6, <1>7 DEF PldmInv

\* The bytes the receiver has with a part are the first ones of the event that
\* is offered, and all of them with the last part.
LEMMA PartFacts ==
    ASSUME PldmInv, NEW r, Answers(r), asked.op \in {"first", "next"},
           asked.op = "first" => r.id # 0, NEW bytes,
           bytes = (IF asked = First THEN <<>> ELSE part) \o r.bytes
    PROVE  /\ event.id # 0 /\ r.id = event.id /\ r.flag # "error"
           /\ \E m \in 0 .. event.size :
                  /\ bytes = BytesOf(event, 0, m)
                  /\ r.flag \in {"end", "start_and_end"} => m = event.size
                  /\ r.flag \notin {"end", "start_and_end"} => m = r.next
<1> USE PldmBasics
<1>1. CASE asked.op = "first"
  <2>1. AnswersFirst(r) /\ asked = First
    BY <1>1, AskedFacts DEF Answers, PldmInv
  <2>2. ASSUME NEW m \in Nat, r.bytes = BytesOf(event, 0, m)
        PROVE  bytes = BytesOf(event, 0, m)
    <3>1. BytesOf(event, 0, m) \in Seq({event.n} \X Nat)
        BY BytesFacts, 0 \in Nat, Zenon
    <3>2. QED BY <3>1, <2>1, <2>2
  <2>3. CASE r.flag = "start"
    BY <1>1, <2>1, <2>2, <2>3 DEF AnswersFirst
  <2>4. CASE r.flag = "start_and_end"
    BY <1>1, <2>1, <2>2, <2>4 DEF AnswersFirst
  <2>5. QED BY <1>1, <2>1, <2>3, <2>4 DEF AnswersFirst
<1>2. CASE asked.op = "next"
  <2>1. AnswersNext(r) /\ AskedNext /\ asked # First
    BY <1>2, AskedFacts DEF Answers, PldmInv
  <2>2. PICK h \in 0 .. event.size :
            asked = Request("next", h, ReservedId) /\ part = BytesOf(event, 0, h)
    BY <2>1 DEF AskedNext
  <2>3. asked.handle = h
    BY <2>2 DEF Request
  <2>4. /\ r.id = event.id /\ r.next \in h .. event.size
        /\ r.bytes = BytesOf(event, h, r.next - h)
        /\ r.flag = "middle" \/ (r.flag = "end" /\ r.next = event.size)
    BY <2>1, <2>3 DEF AnswersNext
  <2>5. bytes = BytesOf(event, 0, r.next)
    <3>1. h \in Nat /\ r.next - h \in Nat /\ h + (r.next - h) = r.next
        BY <2>4, SMTT(30)
    <3>2. BytesOf(event, 0, h) \o BytesOf(event, h, r.next - h)
              = BytesOf(event, 0, h + (r.next - h))
        BY <3>1, BytesConcat
    <3>3. QED BY <3>1, <3>2, <2>1, <2>2, <2>4
  <2>6. r.next \in 0 .. event.size
    BY <2>4
  <2>7. event.id # 0
    BY <2>1 DEF AskedNext
  <2>8. QED BY <2>4, <2>5, <2>6, <2>7
<1>3. QED BY <1>1, <1>2

\* A part that does not complete the event has the receiver ask for the next.
LEMMA TakeMiddle ==
    ASSUME PldmInv, NEW r, replies' = <<>>, requests = <<>>,
           UNCHANGED <<ring, nextId, event, bufferSize, logged, notices, wake, losses,
                       resizes, got>>,
           event.id # 0, asked.op # "ack", r.next \in 0 .. event.size,
           part' = BytesOf(event, 0, r.next), Ask(Request("next", r.next, ReservedId))
    PROVE  PldmInv'
<1> USE PldmBasics
<1> DEFINE request == Request("next", r.next, ReservedId)
<1>1. request # Idle /\ request.op = "next"
    BY DEF Request, Idle
<1>2. MessageInv' /\ requests' = <<request>> /\ asked' = request
    BY <1>1, AskMessage
<1>3. asked'.op = "next"
    BY <1>1, <1>2
<1>4. RingInv' /\ EventInv' /\ GotInv'
    BY LogFrame DEF PldmInv
<1>5. AskedInv'
  <2>1. AskedNext'
    BY <1>2 DEF AskedNext, Request, BytesOf
  <2>2. QED BY <2>1 DEF AskedInv
<1>6. PldmTypeOK'
  <2>1. event.n \in 1 .. MaxEvents /\ event.size \in Sizes
    BY DEF PldmInv, EventInv
  <2>2. part' \in Seq(Bytes)
    BY <2>1, BytesTyped
  <2>3. Len(requests') + Len(replies') <= 1
    BY <1>2
  <2>4. QED BY <2>2, <2>3, <1>3 DEF PldmInv, PldmTypeOK
<1>7. QED BY <1>2, <1>4, <1>5, <1>6 DEF PldmInv

\* The last part gives the receiver the event, which it acknowledges.
LEMMA TakeLast ==
    ASSUME PldmInv, replies' = <<>>, requests = <<>>,
           UNCHANGED <<ring, nextId, event, bufferSize, logged, notices, wake, losses,
                       resizes>>,
           event.id # 0, asked.op # "ack", part' = <<>>,
           got' = Append(got, BytesOf(event, 0, event.size)),
           Ask(Request("ack", 0, event.id))
    PROVE  PldmInv'
<1> USE PldmBasics
<1> DEFINE request == Request("ack", 0, event.id)
           bytes == BytesOf(event, 0, event.size)
<1>1. request # Idle /\ request.op = "ack"
    BY DEF Request, Idle
<1>2. MessageInv' /\ requests' = <<request>> /\ asked' = request
    BY <1>1, AskMessage
<1>3. asked'.op = "ack"
    BY <1>1, <1>2
<1>4. event.n \in 1 .. Taken /\ event.size \in Sizes /\ event.size \in Nat \ {0}
    BY DEF PldmInv, EventInv
<1>5. bytes \in Seq(Bytes) /\ bytes # <<>> /\ NumberOf(bytes) = event.n
  <2>1. bytes \in Seq(Bytes)
    BY <1>4, BytesTyped
  <2>2. bytes # <<>>
    <3>1. DOMAIN bytes = 1 .. event.size
        BY DEF BytesOf
    <3> HIDE DEF bytes
    <3>2. 1 \in DOMAIN bytes
        BY <3>1, <1>4
    <3>3. QED BY <3>2
  <2>3. NumberOf(bytes) = event.n
    BY <1>4, NumberOfBytes
  <2>4. QED BY <2>1, <2>2, <2>3
<1> HIDE DEF bytes
<1>6. /\ got' \in Seq(Seq(Bytes)) /\ Len(got') = Len(got) + 1
      /\ \A k \in 1 .. Len(got) : got'[k] = got[k]
      /\ got'[Len(got) + 1] = bytes
    BY <1>5, AppendProperties DEF bytes
<1>7. RingInv' /\ EventInv' /\ Taken' = Taken
    BY DEF PldmInv, RingInv, EventInv, Taken, Entry, WellFormed
<1>8. GotInv'
  <2>1. ASSUME NEW k \in 1 .. Len(got')
        PROVE  got'[k] # <<>> /\ NumberOf(got'[k]) <= Taken
    <3>1. CASE k = Len(got) + 1
        BY <3>1, <1>4, <1>5, <1>6
    <3>2. CASE k # Len(got) + 1
      <4>1. Len(got') = Len(got) + 1 /\ Len(got) \in Nat
        BY <1>6
      <4>2. k \in 1 .. Len(got)
        BY <4>1, <3>2, SMTT(30)
      <4>3. got'[k] = got[k]
        BY <4>2, <1>6
      <4>4. QED BY <4>2, <4>3 DEF PldmInv, GotInv
    <3>3. QED BY <3>1, <3>2
  <2>2. QED BY <2>1, <1>3, <1>7 DEF GotInv, NumberOf
<1>9. AskedInv'
  <2>1. Given'
    <3>1. Len(got) + 1 \in 1 .. Len(got')
        BY <1>6
    <3>2. QED BY <3>1, <1>6 DEF Given, BytesOf, bytes
  <2>2. event.id \in 1 .. ReservedId - 1
    OBVIOUS
  <2>3. AskedAck'
    BY <2>1, <2>2, <1>2 DEF AskedAck, Request
  <2>4. QED BY <2>3 DEF AskedInv
<1>10. PldmTypeOK'
  <2>1. Len(requests') + Len(replies') <= 1
    BY <1>2
  <2>2. part' \in Seq(Bytes)
    OBVIOUS
  <2>3. QED BY <2>1, <2>2, <1>3, <1>6 DEF PldmInv, PldmTypeOK
<1>11. QED BY <1>2, <1>7, <1>8, <1>9, <1>10 DEF PldmInv

\* The receiver stops, or asks anew, when no event is offered.
LEMMA TakeNothing ==
    ASSUME PldmInv, replies' = <<>>, requests = <<>>,
           UNCHANGED <<ring, nextId, event, bufferSize, logged, notices, wake, losses,
                       resizes, part, got>>,
           event.id = 0, Stop \/ Ask(First)
    PROVE  PldmInv'
<1> USE PldmBasics
<1>1. RingInv' /\ EventInv' /\ GotInv'
    BY LogFrame DEF PldmInv
<1>2. CASE Stop
  <2>1. asked' = Idle /\ requests' = <<>>
    BY <1>2 DEF Stop
  <2>2. MessageInv'
    BY <2>1 DEF MessageInv
  <2>3. AskedInv'
    BY <2>1 DEF AskedInv, AskedIdle, Idle, Request
  <2>4. Idle.op = "none" /\ Len(requests') + Len(replies') <= 1
    BY <2>1 DEF Idle, Request
  <2>5. PldmTypeOK'
    BY <2>1, <2>4 DEF PldmInv, PldmTypeOK
  <2>6. QED BY <1>1, <2>2, <2>3, <2>5 DEF PldmInv
<1>3. CASE Ask(First)
  <2>1. First # Idle /\ First.op = "first"
    BY DEF First, Idle, Request
  <2>2. MessageInv' /\ requests' = <<First>> /\ asked' = First
    BY <1>3, <2>1, AskMessage
  <2>3. AskedInv'
    BY <2>2 DEF AskedInv, AskedFirst, First, Request
  <2>4. Len(requests') + Len(replies') <= 1
    BY <2>2
  <2>5. PldmTypeOK'
    BY <2>1, <2>2, <2>4 DEF PldmInv, PldmTypeOK
  <2>6. QED BY <1>1, <2>2, <2>3, <2>5 DEF PldmInv
<1>4. QED BY <1>2, <1>3

LEMMA TakeReplyInv ==
    ASSUME PldmInv, TakeReply
    PROVE  /\ PldmInv' /\ UNCHANGED <<ring, event, logged>>
           /\ \/ UNCHANGED got
              \/ /\ event.id # 0 /\ asked.op # "ack" /\ event.size \in Sizes
                 /\ got' = Append(got, BytesOf(event, 0, event.size))
<1> USE PldmBasics
<1>1. /\ requests = <<>> /\ replies = <<replies[1]>> /\ Answers(replies[1])
      /\ asked # Idle
    BY DEF TakeReply, PldmInv, MessageInv
<1> DEFINE r == replies[1]
<1>2. Head(replies) = r /\ Tail(replies) = <<>>
  <2>1. replies = <<r>>
    BY <1>1
  <2> HIDE DEF r
  <2>2. Head(<<r>>) = r /\ Tail(<<r>>) = <<>>
    OBVIOUS
  <2>3. QED BY <2>1, <2>2
<1> HIDE DEF r
<1>3. /\ replies' = <<>>
      /\ UNCHANGED <<ring, nextId, event, bufferSize, logged, notices, wake, losses,
                     resizes>>
      /\ CASE asked.op \in {"first", "ack"} /\ r.id = 0 -> Stop
           [] asked.op = "ack" /\ r.id # 0 -> Ask(First) /\ UNCHANGED <<part, got>>
           [] asked.op = "next" /\ r.flag = "error" ->
                  Ask(First) /\ UNCHANGED <<part, got>>
           [] OTHER -> TakePart(r)
    BY <1>2 DEF TakeReply
<1>4. Answers(r)
    BY <1>1 DEF r
<1>5. asked.op \in {"first", "next", "ack"}
    BY <1>1, AskedFacts DEF PldmInv
<1>6. CASE asked.op = "ack" \/ (asked.op = "first" /\ r.id = 0)
  <2>1. event.id = 0
    BY <1>4, <1>6 DEF Answers, AnswersFirst, AnswersAck
  <2>2. (Stop \/ Ask(First)) /\ UNCHANGED <<part, got>>
    BY <1>3, <1>6 DEF Stop
  <2>3. PldmInv'
    BY <2>1, <2>2, <1>1, <1>3, TakeNothing
  <2>4. QED BY <2>2, <2>3, <1>3
<1>7. CASE asked.op = "next" \/ (asked.op = "first" /\ r.id # 0)
  <2> DEFINE bytes == (IF asked = First THEN <<>> ELSE part) \o r.bytes
  <2>1. /\ event.id # 0 /\ r.id = event.id /\ r.flag # "error"
        /\ \E m \in 0 .. event.size :
               /\ bytes = BytesOf(event, 0, m)
               /\ r.flag \in {"end", "start_and_end"} => m = event.size
               /\ r.flag \notin {"end", "start_and_end"} => m = r.next
    <3>1. asked.op \in {"first", "next"} /\ (asked.op = "first" => r.id # 0)
        BY <1>7
    <3> HIDE DEF bytes
    <3>2. bytes = (IF asked = First THEN <<>> ELSE part) \o r.bytes
        BY DEF bytes
    <3>3. QED BY <3>1, <3>2, <1>4, PartFacts
  <2>2. TakePart(r)
    BY <1>3, <1>7, <2>1
  <2>3. CASE r.flag \in {"end", "start_and_end"}
    <3>1. /\ got' = Append(got, bytes) /\ part' = <<>>
          /\ Ask(Request("ack", 0, r.id)) /\ bytes = BytesOf(event, 0, event.size)
        BY <2>1, <2>2, <2>3 DEF TakePart
    <3>2. PldmInv'
        BY <3>1, <2>1, <1>1, <1>3, <1>7, TakeLast
    <3>3. QED BY <3>1, <3>2, <2>1, <1>3, <1>7 DEF PldmInv, EventInv
  <2>4. CASE r.flag \notin {"end", "start_and_end"}
    <3>1. /\ part' = bytes /\ UNCHANGED got /\ r.next \in 0 .. event.size
          /\ bytes = BytesOf(event, 0, r.next)
          /\ Ask(Request("next", r.next, ReservedId))
        BY <2>1, <2>2, <2>4 DEF TakePart
    <3>2. PldmInv'
        BY <3>1, <2>1, <1>1, <1>3, <1>7, TakeMiddle
    <3>3. QED BY <3>1, <3>2, <1>3
  <2>5. QED BY <2>3, <2>4
<1>8. QED BY <1>5, <1>6, <1>7

-----------------------------------------------------------------------------
(* The invariant, and the log it implements.                               *)

LEMMA PldmStepInv ==
    ASSUME PldmInv, [PldmNext]_pldmVars
    PROVE  PldmInv'
<1>1. CASE LogEvent
    BY <1>1, LogEventInv
<1>2. CASE NotifyReceiver
    BY <1>2, NotifyReceiverInv
<1>3. CASE ResizeBuffer
    BY <1>3, ResizeBufferInv
<1>4. CASE HandleFirst
    BY <1>4, HandleFirstInv
<1>5. CASE HandleNext
    BY <1>5, HandleNextInv
<1>6. CASE HandleAck
    BY <1>6, HandleAckInv
<1>7. CASE Poll
    BY <1>7, PollInv
<1>8. CASE TakeReply
    BY <1>8, TakeReplyInv
<1>9. CASE AskAgain
    BY <1>9, AskAgainInv
<1>10. CASE Lose
    BY <1>10, LoseInv
<1>11. CASE UNCHANGED pldmVars
    BY <1>11, QuietInv DEF pldmVars, receiver, PldmInv, PldmTypeOK
<1>12. QED BY <1>1, <1>2, <1>3, <1>4, <1>5, <1>6, <1>7, <1>8, <1>9, <1>10, <1>11
           DEF PldmNext, Terminus

LEMMA PldmInvariant == PldmSpec => []PldmInv
<1>1. PldmInit => PldmInv
    BY PldmInitInv
<1>2. PldmInv /\ [PldmNext]_pldmVars => PldmInv'
    BY PldmStepInv
<1>3. QED BY <1>1, <1>2, PTL DEF PldmSpec

\* The variables of the management processor keep their types: the ring stays a
\* ring and the ids of events stay below the reserved one.
THEOREM PldmTyped == PldmSpec => []PldmTypeOK
<1>1. PldmInv => PldmTypeOK
    BY DEF PldmInv
<1>2. QED BY <1>1, PldmInvariant, PTL

-----------------------------------------------------------------------------
\* The mapping to the log: names for what the instance substitutes.
Backlog == [i \in 1 .. ring.length |-> [n |-> Queued[i].n, size |-> Queued[i].size]]
Offered == [n |-> IF event.id = 0 THEN 0 ELSE event.n,
            size |-> IF event.id = 0 THEN 0 ELSE event.size]
GivenAway == event.id # 0 /\ BytesOf(event, 0, event.size) \in Range(got)

\* What the log holds of an entry of the ring.
Held(q, i) == [n |-> Entry(q, i).n, size |-> Entry(q, i).size]

LEMMA BacklogFacts ==
    ASSUME PldmInv
    PROVE  /\ Backlog = [i \in 1 .. ring.length |-> Held(ring, i)]
           /\ Backlog \in Seq([n: Nat, size: Sizes]) /\ Len(Backlog) = ring.length
           /\ \A i \in 1 .. ring.length : Backlog[i] = Held(ring, i)
<1> USE PldmBasics
<1>1. Backlog = [i \in 1 .. ring.length |-> Held(ring, i)]
  <2>1. ASSUME NEW i \in 1 .. ring.length
        PROVE  [n |-> Queued[i].n, size |-> Queued[i].size] = Held(ring, i)
    BY DEF Queued, Held, Entry
  <2>2. QED BY <2>1 DEF Backlog
<1>2. ASSUME NEW i \in 1 .. ring.length
      PROVE  Held(ring, i) \in [n: Nat, size: Sizes]
  <2>1. Entry(ring, i).n = Taken + i /\ Entry(ring, i).size \in Sizes
    BY DEF PldmInv, RingInv
  <2>2. QED BY <2>1 DEF Held
<1>3. [i \in 1 .. ring.length |-> Held(ring, i)] \in Seq([n: Nat, size: Sizes])
  <2> DEFINE n == ring.length  f == [i \in 1 .. n |-> Held(ring, i)]
             Entries == [n: Nat, size: Sizes]
  <2>1. n \in Nat
    OBVIOUS
  <2>2. \A i \in 1 .. n : f[i] \in Entries
    BY <1>2
  <2>3. f \in [1 .. n -> Entries]
    BY <2>2
  <2> HIDE DEF n, f, Entries
  <2>4. f \in Seq(Entries)
    <3>1. f \in UNION {[1 .. m -> Entries] : m \in Nat}
        BY <2>1, <2>3
    <3>2. QED BY <3>1, SeqDef
  <2>5. QED BY <2>4 DEF n, f, Entries
<1>4. Len(Backlog) = ring.length
    BY <1>1, <1>3, LenProperties
<1>5. QED BY <1>1, <1>3, <1>4

\* What is received is a sequence, whose elements its range collects.
LEMMA GivenAwayFacts ==
    ASSUME PldmInv
    PROVE  GivenAway <=> event.id # 0 /\ Given
<1>1. Range(got) = {got[k] : k \in 1 .. Len(got)}
    BY PldmBasics, SeqBasics
<1>2. QED BY <1>1 DEF GivenAway, Given

\* The event that is offered is not given before the receiver acknowledges it.
LEMMA NotGiven ==
    ASSUME PldmInv, event.id # 0, asked.op # "ack"
    PROVE  ~GivenAway
<1>1. event.size \in Nat \ {0}
    BY PldmBasics DEF PldmInv, EventInv
<1>2. NumberOf(BytesOf(event, 0, event.size)) = event.n
    BY <1>1, NumberOfBytes
<1>3. \A k \in 1 .. Len(got) : got[k] # BytesOf(event, 0, event.size)
    BY <1>2 DEF PldmInv, GotInv
<1>4. QED BY <1>3, GivenAwayFacts DEF Given

\* A step that keeps the ring, the event offered and what was received.
LEMMA LogStutters ==
    ASSUME UNCHANGED <<ring, event, logged, got>>
    PROVE  UNCHANGED Log!vars
<1>1. UNCHANGED <<Backlog, Offered, GivenAway>>
    BY DEF Backlog, Offered, GivenAway, Queued, BytesOf, Range
<1>2. QED BY <1>1 DEF Log!vars, Backlog, Offered, GivenAway

\* The first events are those that mcp_init logs.
LEMMA LogInit ==
    ASSUME PldmInit
    PROVE  Log!Init
<1>1. PldmInv /\ logged = Preset /\ event = NoEvent /\ got = <<>> /\ Preset \in 0 .. QueueSize
    BY PldmInitInv, PldmEventsAssumption DEF PldmInit
<1>2. ring.length = Preset
    BY DEF PldmInit
<1>3. Taken = 0 /\ QueueSize \in Nat
    BY <1>1, <1>2, PldmBasics DEF Taken
<1>4. /\ Backlog = [i \in 1 .. ring.length |-> Held(ring, i)]
      /\ \A i \in 1 .. ring.length : Backlog[i] = Held(ring, i)
    BY <1>1, BacklogFacts
<1>5. ASSUME NEW i \in 1 .. logged
      PROVE  Held(ring, i) \in [n: 1 .. logged, size: Sizes] /\ Held(ring, i).n = i
  <2>1. Entry(ring, i).n = 0 + i /\ Entry(ring, i).size \in Sizes
    BY <1>1, <1>2, <1>3 DEF PldmInv, RingInv
  <2>2. Entry(ring, i).n = i
    BY <2>1, <1>1
  <2>3. QED BY <2>1, <2>2 DEF Held
<1>6. Backlog \in [1 .. logged -> [n: 1 .. logged, size: Sizes]]
    BY <1>1, <1>2, <1>4, <1>5
<1>7. \A i \in 1 .. logged : Backlog[i].n = i
    BY <1>1, <1>2, <1>4, <1>5
<1>8. Offered = Log!NoEvent
    BY <1>1 DEF Offered, Log!NoEvent, NoEvent
<1>9. GivenAway = FALSE
    BY <1>1 DEF GivenAway, NoEvent
<1>10. logged \in 0 .. QueueSize
    BY <1>1
<1>11. QED BY <1>1, <1>6, <1>7, <1>8, <1>9, <1>10 DEF Log!Init, Backlog, Offered, GivenAway

LEMMA LogLogs ==
    ASSUME PldmInv, PldmInv', LogEvent
    PROVE  Log!Log
<1> USE PldmBasics
<1>1. PICK s \in Sizes :
          ring' = Put(ring, [n |-> logged + 1, id |-> nextId, size |-> s])
    BY DEF LogEvent
<1> DEFINE e == [n |-> logged + 1, id |-> nextId, size |-> s]
           h == [n |-> logged + 1, size |-> s]
<1>2. logged < MaxEvents /\ logged' = logged + 1 /\ UNCHANGED <<event, got>>
    BY DEF LogEvent, receiver
<1>3. e \in Event
  <2>1. nextId \in 1 .. ReservedId - 1
    BY DEF PldmInv, PldmTypeOK
  <2>2. QED BY <2>1, <1>2 DEF Event
<1>4. [n |-> e.n, size |-> e.size] = h
    OBVIOUS
<1> HIDE DEF e
<1>5. /\ ring.length < QueueSize =>
             /\ ring'.length = ring.length + 1
             /\ \A i \in 1 .. ring.length : Entry(ring', i) = Entry(ring, i)
             /\ Entry(ring', ring.length + 1) = e
      /\ ring.length = QueueSize =>
             /\ ring'.length = QueueSize
             /\ \A i \in 1 .. QueueSize - 1 : Entry(ring', i) = Entry(ring, i + 1)
             /\ Entry(ring', QueueSize) = e
    BY <1>1, <1>3, PutFacts DEF e
<1> DEFINE H == [n: Nat, size: Sizes]
<1>6. /\ Backlog \in Seq(H) /\ Len(Backlog) = ring.length
      /\ \A i \in 1 .. ring.length : Backlog[i] = Held(ring, i)
    BY BacklogFacts
<1>7. /\ Backlog' \in Seq(H) /\ Len(Backlog') = ring'.length
      /\ \A i \in 1 .. ring'.length : Backlog'[i] = Held(ring', i)
  <2>1. (/\ Backlog \in Seq([n: Nat, size: Sizes]) /\ Len(Backlog) = ring.length
         /\ \A i \in 1 .. ring.length : Backlog[i] = Held(ring, i))'
    BY BacklogFacts, PTL
  <2>2. QED BY <2>1 DEF Held, Entry
<1>8. h \in H
    OBVIOUS
<1> HIDE DEF h, H
<1>9. Backlog' = Append(IF Len(Backlog) = QueueSize THEN Tail(Backlog) ELSE Backlog, h)
  <2>1. CASE ring.length < QueueSize
    <3> DEFINE b == Append(Backlog, h)
    <3>1. /\ b \in Seq(H) /\ Len(b) = ring.length + 1
          /\ \A i \in 1 .. ring.length : b[i] = Backlog[i]
          /\ b[ring.length + 1] = h
        BY <1>6, <1>8, AppendProperties, SMTT(30)
    <3> HIDE DEF b
    <3>2. ring'.length = ring.length + 1
        BY <1>5, <2>1
    <3>3. ASSUME NEW i \in 1 .. ring.length + 1 PROVE Backlog'[i] = b[i]
      <4>1. CASE i = ring.length + 1
        BY <4>1, <3>1, <3>2, <1>4, <1>5, <1>7, <2>1 DEF Held
      <4>2. CASE i # ring.length + 1
        <5>1. i \in 1 .. ring.length /\ i \in 1 .. ring'.length
            BY <4>2, <3>2
        <5>2. Entry(ring', i) = Entry(ring, i)
            BY <5>1, <1>5, <2>1
        <5>3. QED BY <5>1, <5>2, <3>1, <1>6, <1>7 DEF Held
      <4>3. QED BY <4>1, <4>2
    <3>4. Backlog' = b
        BY <3>1, <3>2, <3>3, <1>7, SeqEqual
    <3>5. QED BY <3>4, <2>1, <1>6 DEF b
  <2>2. CASE ring.length = QueueSize
    <3> DEFINE t == Tail(Backlog)  b == Append(t, h)
    <3>1. /\ t \in Seq(H) /\ Len(t) = QueueSize - 1
          /\ \A i \in 1 .. QueueSize - 1 : t[i] = Backlog[i + 1]
      <4>1. Backlog # <<>>
        BY <1>6, <2>2
      <4>2. QED BY <4>1, <1>6, <2>2, HeadTailProperties
    <3> HIDE DEF t
    <3>2. /\ b \in Seq(H) /\ Len(b) = QueueSize
          /\ \A i \in 1 .. QueueSize - 1 : b[i] = t[i]
          /\ b[QueueSize] = h
      <4>1. /\ b \in Seq(H) /\ Len(b) = Len(t) + 1
            /\ \A i \in 1 .. Len(t) : b[i] = t[i]
            /\ b[Len(t) + 1] = h
        BY <3>1, <1>8, AppendProperties
      <4> HIDE DEF b
      <4>2. Len(t) + 1 = QueueSize
        BY <3>1
      <4>3. QED BY <4>1, <4>2, <3>1
    <3> HIDE DEF b
    <3>3. ring'.length = QueueSize
        BY <1>5, <2>2
    <3>4. ASSUME NEW i \in 1 .. QueueSize PROVE Backlog'[i] = b[i]
      <4>1. CASE i = QueueSize
        BY <4>1, <3>2, <3>3, <1>4, <1>5, <1>7, <2>2 DEF Held
      <4>2. CASE i # QueueSize
        <5>1. i \in 1 .. QueueSize - 1 /\ i \in 1 .. ring'.length
              /\ i + 1 \in 1 .. ring.length
            BY <4>2, <3>3, <2>2
        <5>2. Entry(ring', i) = Entry(ring, i + 1)
            BY <5>1, <1>5, <2>2
        <5>3. b[i] = Backlog[i + 1]
            BY <5>1, <3>1, <3>2
        <5>4. Backlog'[i] = Held(ring', i) /\ Backlog[i + 1] = Held(ring, i + 1)
            BY <5>1, <1>6, <1>7
        <5>5. QED BY <5>2, <5>3, <5>4 DEF Held
      <4>3. QED BY <4>1, <4>2
    <3>5. Backlog' = b
        BY <3>2, <3>3, <3>4, <1>7, SeqEqual
    <3>6. QED BY <3>5, <2>2, <1>6 DEF b, t
  <2>3. QED BY <2>1, <2>2
<1>10. UNCHANGED <<Offered, GivenAway, got>>
    BY <1>2 DEF Offered, GivenAway, BytesOf, Range
<1>11. logged' = logged + 1 /\ h = [n |-> logged', size |-> s] /\ s \in Sizes
    BY <1>2 DEF h
<1>12. \E x \in Sizes :
          Backlog' = Append(IF Len(Backlog) = QueueSize THEN Tail(Backlog) ELSE Backlog,
                            [n |-> logged', size |-> x])
    BY <1>9, <1>11
<1>13. QED BY <1>10, <1>11, <1>12 DEF Log!Log, Backlog, Offered, GivenAway

LEMMA LogOffers ==
    ASSUME PldmInv, PldmInv', HandleFirst
    PROVE  Log!Offer \/ UNCHANGED Log!vars
<1> USE PldmBasics
<1>1. PICK r : Handle("first") /\ NextEvent /\ Respond(r)
    BY DEF HandleFirst
<1>2. /\ asked.op = "first" /\ UNCHANGED <<logged, asked, got>>
    BY <1>1, HandleFacts
<1>3. \/ event.id # 0 /\ UNCHANGED <<event, ring>>
      \/ event.id = 0 /\ ring.length = 0 /\ event' = NoEvent /\ UNCHANGED ring
      \/ /\ event.id = 0 /\ ring.length > 0 /\ ring' = TakeOldest(ring)
         /\ event' = Entry(ring, 1) /\ event'.id # 0 /\ event'.n = Taken + 1
    BY <1>1, <1>2, NextEventFacts
<1>4. CASE event.id # 0 /\ UNCHANGED <<event, ring>>
    BY <1>2, <1>4, LogStutters
<1>5. CASE event.id = 0 /\ event' = NoEvent /\ UNCHANGED ring
  <2>1. UNCHANGED <<Offered, GivenAway, Backlog>>
    BY <1>5 DEF Offered, GivenAway, NoEvent, Backlog, Queued
  <2>2. QED BY <2>1, <1>2 DEF Log!vars, Backlog, Offered, GivenAway
<1>6. CASE /\ event.id = 0 /\ ring.length > 0 /\ ring' = TakeOldest(ring)
           /\ event' = Entry(ring, 1) /\ event'.id # 0 /\ event'.n = Taken + 1
  <2> DEFINE H == [n: Nat, size: Sizes]
  <2>1. /\ Backlog \in Seq(H) /\ Len(Backlog) = ring.length
        /\ \A i \in 1 .. ring.length : Backlog[i] = Held(ring, i)
    BY BacklogFacts
  <2>2. /\ Backlog' \in Seq(H) /\ Len(Backlog') = ring'.length
        /\ \A i \in 1 .. ring'.length : Backlog'[i] = Held(ring', i)
    <3>1. (/\ Backlog \in Seq([n: Nat, size: Sizes]) /\ Len(Backlog) = ring.length
           /\ \A i \in 1 .. ring.length : Backlog[i] = Held(ring, i))'
        BY BacklogFacts, PTL
    <3>2. QED BY <3>1 DEF Held, Entry
  <2> HIDE DEF H
  <2>3. /\ ring'.length = ring.length - 1
        /\ \A i \in 1 .. ring.length - 1 : Entry(ring', i) = Entry(ring, i + 1)
    BY <1>6, TakeFacts
  <2>4. Backlog # <<>>
    BY <1>6, <2>1
  <2>5. /\ Tail(Backlog) \in Seq(H) /\ Len(Tail(Backlog)) = ring.length - 1
        /\ \A i \in 1 .. ring.length - 1 : Tail(Backlog)[i] = Backlog[i + 1]
        /\ Head(Backlog) = Backlog[1]
    BY <2>1, <2>4, HeadTailProperties
  <2>6. Backlog' = Tail(Backlog)
    <3>1. ASSUME NEW i \in 1 .. ring.length - 1 PROVE Backlog'[i] = Tail(Backlog)[i]
      <4>1. i + 1 \in 1 .. ring.length /\ i \in 1 .. ring'.length
        BY <2>3
      <4>2. Backlog'[i] = Held(ring', i) /\ Backlog[i + 1] = Held(ring, i + 1)
        BY <4>1, <2>1, <2>2
      <4>3. QED BY <4>2, <2>3, <2>5 DEF Held
    <3>2. QED BY <3>1, <2>2, <2>3, <2>5, SeqEqual
  <2>7. Offered' = Head(Backlog)
    <3>1. Backlog[1] = Held(ring, 1)
        BY <1>6, <2>1
    <3>2. QED BY <3>1, <2>5, <1>6 DEF Offered, Held
  <2>8. Offered = Log!NoEvent
    BY <1>6 DEF Offered, Log!NoEvent
  <2>9. GivenAway' = GivenAway
    <3>1. (event.id # 0 /\ asked.op # "ack")'
        BY <1>2, <1>6
    <3>2. ~GivenAway'
        BY <3>1, NotGiven, PTL
    <3>3. ~GivenAway
        BY <1>6 DEF GivenAway
    <3>4. QED BY <3>2, <3>3 DEF GivenAway
  <2>10. QED BY <2>4, <2>6, <2>7, <2>8, <2>9, <1>2
             DEF Log!Offer, Backlog, Offered, GivenAway
<1>7. QED BY <1>3, <1>4, <1>5, <1>6

LEMMA LogGives ==
    ASSUME PldmInv, PldmInv', TakeReply
    PROVE  Log!Give \/ UNCHANGED Log!vars
<1> USE PldmBasics
<1>1. /\ UNCHANGED <<ring, event, logged>>
      /\ \/ UNCHANGED got
         \/ /\ event.id # 0 /\ asked.op # "ack" /\ event.size \in Sizes
            /\ got' = Append(got, BytesOf(event, 0, event.size))
    BY TakeReplyInv
<1>2. CASE UNCHANGED got
    BY <1>1, <1>2, LogStutters
<1>3. CASE /\ event.id # 0 /\ asked.op # "ack" /\ event.size \in Sizes
           /\ got' = Append(got, BytesOf(event, 0, event.size))
  <2>1. ~GivenAway
    BY <1>3, NotGiven
  <2>2. GivenAway'
    <3> DEFINE b == BytesOf(event, 0, event.size)
    <3>1. b \in Seq(Bytes)
      <4>1. event.n \in 1 .. MaxEvents /\ event.size \in Sizes
        BY <1>3 DEF PldmInv, EventInv
      <4>2. QED BY <4>1, BytesTyped
    <3> HIDE DEF b
    <3>2. Range(Append(got, b)) = Range(got) \cup {b}
        BY <3>1, AppendFacts
    <3>3. b \in Range(got')
        BY <3>2, <1>3 DEF b
    <3>4. QED BY <3>3, <1>1, <1>3 DEF GivenAway, b, BytesOf
  <2>3. UNCHANGED <<Backlog, Offered>>
    BY <1>1 DEF Backlog, Offered, Queued
  <2>4. Offered.size = event.size /\ Offered.n = event.n
    BY <1>3 DEF Offered
  <2>5. Offered # Log!NoEvent
    <3>1. event.size # 0
        BY <1>3
    <3>2. QED BY <3>1, <2>4 DEF Log!NoEvent
  <2>6. BytesOf(event, 0, event.size) = Log!Contents(Offered)
    <3>1. \A i \in 1 .. event.size : 0 + i = i
        OBVIOUS
    <3>2. [i \in 1 .. event.size |-> <<event.n, 0 + i>>]
              = [i \in 1 .. event.size |-> <<event.n, i>>]
        BY <3>1
    <3>3. QED BY <3>2, <2>4 DEF BytesOf, Log!Contents
  <2>7. GivenAway' = TRUE /\ ~GivenAway
    BY <2>1, <2>2 DEF GivenAway
  <2>8. got' = Append(got, Log!Contents(Offered))
    BY <2>6, <1>3
  <2>9. QED BY <2>3, <2>5, <2>7, <2>8, <1>1
            DEF Log!Give, Backlog, Offered, GivenAway
<1>4. QED BY <1>1, <1>2, <1>3

LEMMA LogReleases ==
    ASSUME PldmInv, HandleAck
    PROVE  Log!Release \/ UNCHANGED Log!vars
<1>1. /\ event'.id = 0 /\ UNCHANGED <<ring, logged, got>>
      /\ event.id # 0 => Given
    BY HandleAckInv
<1>2. UNCHANGED Backlog
    BY <1>1 DEF Backlog, Queued
<1>3. Offered' = Log!NoEvent /\ GivenAway' = FALSE
    BY <1>1 DEF Offered, GivenAway, Log!NoEvent
<1>4. CASE event.id # 0
  <2>1. GivenAway
    BY <1>1, <1>4, GivenAwayFacts
  <2>2. QED BY <2>1, <1>1, <1>2, <1>3 DEF Log!Release, Backlog, Offered, GivenAway
<1>5. CASE event.id = 0
  <2>1. Offered = Log!NoEvent /\ GivenAway = FALSE
    BY <1>5 DEF Offered, GivenAway, Log!NoEvent
  <2>2. UNCHANGED <<logged, Backlog, Offered, GivenAway, got>>
    BY <2>1, <1>1, <1>2, <1>3
  <2>3. QED BY <2>2 DEF Log!vars, Backlog, Offered, GivenAway
<1>6. QED BY <1>4, <1>5

LEMMA LogSteps ==
    ASSUME PldmInv, PldmInv', [PldmNext]_pldmVars
    PROVE  [Log!Next]_Log!vars
<1>1. CASE LogEvent
    BY <1>1, LogLogs DEF Log!Next
<1>2. CASE HandleFirst
    BY <1>2, LogOffers DEF Log!Next
<1>3. CASE HandleAck
    BY <1>3, LogReleases DEF Log!Next
<1>4. CASE TakeReply
    BY <1>4, LogGives DEF Log!Next
<1>5. CASE NotifyReceiver \/ ResizeBuffer \/ HandleNext \/ Poll \/ AskAgain \/ Lose
           \/ UNCHANGED pldmVars
  <2>1. UNCHANGED <<ring, event, logged, got>>
    <3>1. CASE NotifyReceiver
        BY <3>1 DEF NotifyReceiver
    <3>2. CASE ResizeBuffer
        BY <3>2 DEF ResizeBuffer, receiver
    <3>3. CASE HandleNext
        BY <3>3 DEF HandleNext, Respond, receiver
    <3>4. CASE Poll
        BY <3>4 DEF Poll
    <3>5. CASE AskAgain
        BY <3>5 DEF AskAgain
    <3>6. CASE Lose
        BY <3>6 DEF Lose, receiver
    <3>7. CASE UNCHANGED pldmVars
        BY <3>7 DEF pldmVars, receiver
    <3>8. QED BY <1>5, <3>1, <3>2, <3>3, <3>4, <3>5, <3>6, <3>7
  <2>2. QED BY <2>1, LogStutters
<1>6. QED BY <1>1, <1>2, <1>3, <1>4, <1>5 DEF PldmNext, Terminus

\* Every behaviour of the ring, the handler and the receiver is one of the log:
\* whatever messages are lost or repeated, and however the receiver changes its
\* buffer, each event is received whole, once and in the order it was logged,
\* unless it was the oldest of a full ring when another one came.
THEOREM LogImplemented == PldmSpec => ImplementsLog
<1>1. PldmInit => Log!Init
    BY LogInit
<1>2. PldmInv /\ PldmInv' /\ [PldmNext]_pldmVars => [Log!Next]_Log!vars
    BY LogSteps
<1>3. QED BY <1>1, <1>2, PldmInvariant, PTL DEF PldmSpec, ImplementsLog, Log!Spec
=============================================================================
