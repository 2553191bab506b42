------------------------------ MODULE I2cProofs -------------------------------
(***************************************************************************)
(* What is proved of the I2C bus, for any number of requests and for a     *)
(* driver that completes transfers at once or not: as long as the          *)
(* framework has an event left, exactly one thing has a busy device        *)
(* continue, a client is told of success only when its buffer was filled,  *)
(* and the bus serves its requests as I2cService promises.                 *)
(***************************************************************************)
EXTENDS I2c, SeqLemmas, FiniteSetTheorems

\* The queue holds requests only.
NoOther(q) == \A i \in DOMAIN q : q[i].type = "request"

\* The queue holds requests and one event e at place k.
OtherAt(q, e, k) ==
    /\ k \in DOMAIN q /\ q[k] = e
    /\ \A i \in DOMAIN q \ {k} : q[i].type = "request"

OneOther(q, e) == \E k \in DOMAIN q : OtherAt(q, e, k)

-----------------------------------------------------------------------------
(* The inductive invariant: what is under way, by the place of the handler.*)

\* The state names the next transfer of the request being served.
StateServes ==
    /\ request \in Requests
    /\ state \in {"TX", "RX", "TX_RX"}
    /\ state = "TX" => todo[request] = <<"TX">>
    /\ state = "RX" => todo[request] \in {<<"RX">>, <<"TX", "RX">>}
    /\ state = "TX_RX" => todo[request] = <<"TX", "RX">>

\* The transfers made before and after the one the state names.
Before == IF state = "RX" /\ todo[request] = <<"TX", "RX">> THEN <<"TX">> ELSE <<>>
After == IF state = "TX_RX" THEN <<"TX">> ELSE todo[request]

\* Nothing is under way.
Quiet == bus = "idle" /\ isrQueue = <<>> /\ NoOther(queue)

\* The controller makes the transfer the state names.
Running ==
    /\ bus = Direction /\ isrQueue = <<>> /\ NoOther(queue)
    /\ made = Before
    /\ bus = "RX" => reading = request

\* The transfer is over with status s, and its report is on its way.
Outcome(s) == IF s = "SUCCESS"
              THEN made = After /\ (state = "RX" => request \in filled)
              ELSE made = Before

Reported(s) ==
    /\ bus = "idle" /\ Outcome(s)
    /\ \/ isrQueue = <<s>> /\ NoOther(queue)
       \/ isrQueue = <<>> /\ OneOther(queue, Completed(s))

UnderWay == Running \/ \E s \in Results : Reported(s)

\* The client being served waits in the framework, or in the handler's hands.
HeldFits == IF caller = "request" THEN held = <<>>
                                  ELSE held # <<>> /\ Head(held) = request

AtLoop ==
    pc = "loop" =>
        \/ state = "IDLE" /\ Quiet /\ held = <<>> /\ made = <<>>
        \/ StateServes /\ UnderWay /\ held # <<>> /\ Head(held) = request
        \/ /\ state = "RELOAD" /\ bus = "idle" /\ isrQueue = <<>>
           /\ OneOther(queue, Reload) /\ held # <<>> /\ made = <<>>

AtCall == pc = "call" => StateServes /\ Quiet /\ made = Before /\ HeldFits

AtHold == pc = "hold" => StateServes /\ UnderWay /\ held = <<>> /\ caller = "request"

AtRespond ==
    pc = "respond" =>
        /\ StateServes /\ Quiet /\ HeldFits
        /\ drvStatus = "SUCCESS" => /\ state # "TX_RX" /\ made = todo[request]
                                    /\ state = "RX" => request \in filled

AtNext ==
    pc = "next" =>
        Quiet /\ made = <<>> /\ state \in {"TX", "RX", "TX_RX", "RELOAD"}

IInv == /\ TypeOK /\ DataBeforeSuccess
        /\ AtLoop /\ AtCall /\ AtHold /\ AtRespond /\ AtNext

-----------------------------------------------------------------------------
(* What the queue's operations do to the requests queued.                 *)

\* What an event is.
LEMMA EventFacts ==
    /\ \A e \in Events : e.type = "request" => e.req \in Requests
    /\ Reload \in Events /\ Reload.type = "reload"
    /\ \A r \in Requests : /\ RequestEvent(r) \in Events
                           /\ RequestEvent(r).type = "request"
                           /\ RequestEvent(r).req = r
    /\ \A s \in Results : /\ Completed(s) \in Events
                          /\ Completed(s).type = "completed"
                          /\ Completed(s).status = s
    <1>1. /\ Reload.type = "reload"
          /\ \A r : RequestEvent(r).type = "request" /\ RequestEvent(r).req = r
          /\ \A s : Completed(s).type = "completed" /\ Completed(s).status = s
        BY DEF Reload, RequestEvent, Completed
    <1>2. \A e \in Events : \/ e = Reload
                            \/ \E r \in Requests : e = RequestEvent(r)
                            \/ \E s \in Results : e = Completed(s)
        BY Zenon DEF Events
    <1>3. /\ Reload \in Events
          /\ \A r \in Requests : RequestEvent(r) \in Events
          /\ \A s \in Results : Completed(s) \in Events
        BY Zenon DEF Events
    <1>4. ASSUME NEW e \in Events, e.type = "request" PROVE e.req \in Requests
        <2>1. CASE e = Reload
            BY <1>1, <1>4, <2>1
        <2>2. CASE \E r \in Requests : e = RequestEvent(r)
            BY <1>1, <2>2
        <2>3. CASE \E s \in Results : e = Completed(s)
            BY <1>1, <1>4, <2>3
        <2> QED BY <1>2, <2>1, <2>2, <2>3
    <1> QED BY <1>1, <1>3, <1>4

LEMMA EventKinds ==
    \A e \in Events :
        /\ e.type \in {"request", "reload", "completed"}
        /\ e.type = "request" => e = RequestEvent(e.req)
        /\ e.type = "reload" => e = Reload
        /\ e.type = "completed" => e.status \in Results /\ e = Completed(e.status)
    <1>1. /\ Reload.type = "reload"
          /\ \A r : RequestEvent(r).type = "request" /\ RequestEvent(r).req = r
          /\ \A s : Completed(s).type = "completed" /\ Completed(s).status = s
        BY DEF Reload, RequestEvent, Completed
    <1> SUFFICES ASSUME NEW e \in Events
                 PROVE  /\ e.type \in {"request", "reload", "completed"}
                        /\ e.type = "request" => e = RequestEvent(e.req)
                        /\ e.type = "reload" => e = Reload
                        /\ e.type = "completed" =>
                              e.status \in Results /\ e = Completed(e.status)
        OBVIOUS
    <1>2. \/ e = Reload
          \/ \E r \in Requests : e = RequestEvent(r)
          \/ \E s \in Results : e = Completed(s)
        BY Zenon DEF Events
    <1>3. CASE e = Reload
        BY <1>1, <1>3
    <1>4. CASE \E r \in Requests : e = RequestEvent(r)
        BY <1>1, <1>4
    <1>5. CASE \E s \in Results : e = Completed(s)
        BY <1>1, <1>5
    <1> QED BY <1>2, <1>3, <1>4, <1>5

\* The requests queued, when nothing else is.
LEMMA QueuedAll ==
    ASSUME NEW q \in Seq(Events), NoOther(q)
    PROVE  /\ Queued(q) \in Seq(Requests)
           /\ Len(Queued(q)) = Len(q)
           /\ \A i \in 1 .. Len(q) : Queued(q)[i] = q[i].req
    <1>1. Len(q) \in Nat /\ DOMAIN q = 1 .. Len(q) /\ \A i \in 1 .. Len(q) : q[i] \in Events
        BY LenProperties, ElementOfSeq
    <1> DEFINE P(k) == k \in 1 .. Len(q) + 1
                       /\ \A i \in DOMAIN q : q[i].type = "request" <=> i # k
    <1>2. P(Len(q) + 1)
        BY <1>1 DEF NoOther
    <1>3. \A k : P(k) => k = Len(q) + 1
        BY <1>1 DEF NoOther
    <1>4. Other(q) = Len(q) + 1
        BY <1>2, <1>3 DEF Other
    <1>5. Queued(q) = [i \in 1 .. Len(q) |-> q[IF i < Len(q) + 1 THEN i ELSE i + 1].req]
        <2>1. Queued(q) = [i \in 1 .. (IF Other(q) > Len(q) THEN Len(q) ELSE Len(q) - 1) |->
                              q[IF i < Other(q) THEN i ELSE i + 1].req]
            BY Zenon DEF Queued
        <2>2. Other(q) > Len(q)
            BY <1>1, <1>4
        <2> QED BY <2>1, <2>2, <1>4, Zenon
    <1>6. \A i \in 1 .. Len(q) : q[i].req \in Requests
        BY <1>1, EventFacts DEF NoOther
    <1>7. \A i \in 1 .. Len(q) : (IF i < Len(q) + 1 THEN i ELSE i + 1) = i
        BY <1>1
    <1>8. Queued(q) = [i \in 1 .. Len(q) |-> q[i].req]
        BY <1>5, <1>7
    <1> QED BY <1>1, <1>6, <1>8

\* The requests queued around another event.
LEMMA QueuedAround ==
    ASSUME NEW q \in Seq(Events), NEW e, NEW k, OtherAt(q, e, k), e.type # "request"
    PROVE  /\ Queued(q) \in Seq(Requests)
           /\ Len(Queued(q)) = Len(q) - 1
           /\ \A i \in 1 .. Len(q) - 1 :
                 Queued(q)[i] = q[IF i < k THEN i ELSE i + 1].req
    <1>1. /\ Len(q) \in Nat /\ DOMAIN q = 1 .. Len(q) /\ k \in 1 .. Len(q)
          /\ \A i \in 1 .. Len(q) : q[i] \in Events
        BY LenProperties, ElementOfSeq DEF OtherAt
    <1> DEFINE P(j) == j \in 1 .. Len(q) + 1
                       /\ \A i \in DOMAIN q : q[i].type = "request" <=> i # j
    <1>2. P(k)
        BY <1>1 DEF OtherAt
    <1>3. \A j : P(j) => j = k
        BY <1>1, <1>2
    <1>4. Other(q) = k
        BY <1>2, <1>3 DEF Other
    <1>5. Queued(q) = [i \in 1 .. Len(q) - 1 |-> q[IF i < k THEN i ELSE i + 1].req]
        <2>1. Queued(q) = [i \in 1 .. (IF Other(q) > Len(q) THEN Len(q) ELSE Len(q) - 1) |->
                              q[IF i < Other(q) THEN i ELSE i + 1].req]
            BY Zenon DEF Queued
        <2>2. ~(Other(q) > Len(q))
            BY <1>1, <1>4
        <2> QED BY <2>1, <2>2, <1>4, Zenon
    <1>6. ASSUME NEW i \in 1 .. Len(q) - 1
          PROVE  q[IF i < k THEN i ELSE i + 1].req \in Requests
        <2> DEFINE j == IF i < k THEN i ELSE i + 1
        <2>1. j \in DOMAIN q \ {k} /\ j \in 1 .. Len(q)
            BY <1>1
        <2> HIDE DEF j
        <2>2. q[j].type = "request" /\ q[j] \in Events
            BY <1>1, <2>1 DEF OtherAt
        <2>3. q[j].req \in Requests
            BY <2>2, EventFacts
        <2> QED BY <2>3 DEF j
    <1> QED BY <1>1, <1>5, <1>6

\* A request's event joins the queue: its request is the last one queued.
LEMMA AppendRequest ==
    ASSUME NEW q \in Seq(Events), NEW r \in Requests
    PROVE  /\ NoOther(q) =>
                /\ NoOther(Append(q, RequestEvent(r)))
                /\ Queued(Append(q, RequestEvent(r))) = Append(Queued(q), r)
           /\ \A e : e.type # "request" /\ OneOther(q, e) =>
                /\ OneOther(Append(q, RequestEvent(r)), e)
                /\ Queued(Append(q, RequestEvent(r))) = Append(Queued(q), r)
    <1> DEFINE a == Append(q, RequestEvent(r))
    <1>0. RequestEvent(r) \in Events /\ RequestEvent(r).type = "request"
          /\ RequestEvent(r).req = r
        BY EventFacts
    <1>1. /\ Len(q) \in Nat /\ DOMAIN q = 1 .. Len(q)
          /\ a \in Seq(Events) /\ Len(a) = Len(q) + 1 /\ DOMAIN a = 1 .. Len(q) + 1
          /\ \A i \in 1 .. Len(q) : a[i] = q[i]
          /\ a[Len(q) + 1] = RequestEvent(r)
        BY <1>0, LenProperties, AppendProperties
    <1> HIDE DEF a
    <1>2. ASSUME NoOther(q) PROVE NoOther(a) /\ Queued(a) = Append(Queued(q), r)
        <2>1. NoOther(a)
            BY <1>0, <1>1, <1>2 DEF NoOther
        <2>2. /\ Queued(q) \in Seq(Requests) /\ Len(Queued(q)) = Len(q)
              /\ \A i \in 1 .. Len(q) : Queued(q)[i] = q[i].req
            BY <1>2, QueuedAll
        <2>3. /\ Queued(a) \in Seq(Requests) /\ Len(Queued(a)) = Len(q) + 1
              /\ \A i \in 1 .. Len(q) + 1 : Queued(a)[i] = a[i].req
            BY <1>1, <2>1, QueuedAll
        <2>4. /\ Append(Queued(q), r) \in Seq(Requests)
              /\ Len(Append(Queued(q), r)) = Len(q) + 1
              /\ \A i \in 1 .. Len(q) : Append(Queued(q), r)[i] = Queued(q)[i]
              /\ Append(Queued(q), r)[Len(q) + 1] = r
            BY <2>2, AppendProperties
        <2>5. \A i \in 1 .. Len(q) + 1 : Queued(a)[i] = Append(Queued(q), r)[i]
            BY <1>0, <1>1, <2>2, <2>3, <2>4
        <2>6. Queued(a) = Append(Queued(q), r)
            BY <2>3, <2>4, <2>5, SeqEqual
        <2> QED BY <2>1, <2>6
    <1>3. ASSUME NEW e, e.type # "request", OneOther(q, e)
          PROVE  OneOther(a, e) /\ Queued(a) = Append(Queued(q), r)
        <2>1. PICK k \in DOMAIN q : OtherAt(q, e, k)
            BY <1>3 DEF OneOther
        <2>2. OtherAt(a, e, k) /\ k \in DOMAIN a /\ k \in 1 .. Len(q)
            BY <1>0, <1>1, <2>1 DEF OtherAt
        <2>3. /\ Queued(q) \in Seq(Requests) /\ Len(Queued(q)) = Len(q) - 1
              /\ \A i \in 1 .. Len(q) - 1 : Queued(q)[i] = q[IF i < k THEN i ELSE i + 1].req
            BY <1>3, <2>1, QueuedAround
        <2>4. /\ Queued(a) \in Seq(Requests) /\ Len(Queued(a)) = Len(a) - 1
              /\ \A i \in 1 .. Len(a) - 1 : Queued(a)[i] = a[IF i < k THEN i ELSE i + 1].req
            BY <1>1, <1>3, <2>2, QueuedAround
        <2>5. /\ Append(Queued(q), r) \in Seq(Requests)
              /\ Len(Append(Queued(q), r)) = Len(q)
              /\ \A i \in 1 .. Len(q) - 1 : Append(Queued(q), r)[i] = Queued(q)[i]
              /\ Append(Queued(q), r)[Len(q)] = r
            <3>1. (Len(q) - 1) + 1 = Len(q)
                BY <1>1
            <3> QED BY <2>3, <3>1, AppendProperties
        <2>6. ASSUME NEW i \in 1 .. Len(q) PROVE Queued(a)[i] = Append(Queued(q), r)[i]
            <3>1. CASE i = Len(q)
                <4>1. Queued(a)[i] = a[Len(q) + 1].req
                    BY <1>1, <2>2, <2>4, <3>1
                <4> QED BY <1>0, <1>1, <2>5, <3>1, <4>1
            <3>2. CASE i # Len(q)
                <4> DEFINE j == IF i < k THEN i ELSE i + 1
                <4>1. i \in 1 .. Len(q) - 1 /\ i \in 1 .. Len(a) - 1 /\ j \in 1 .. Len(q)
                    <5>1. Len(q) \in Nat /\ Len(a) = Len(q) + 1 /\ i \in 1 .. Len(q) /\ i # Len(q)
                        BY <1>1, <2>6, <3>2
                    <5>2. i \in 1 .. Len(q) - 1 /\ Len(a) - 1 = Len(q)
                        BY ONLY <5>1
                    <5> QED BY <1>1, <2>2, <5>2
                <4>2. Queued(a)[i] = a[j].req /\ Queued(q)[i] = q[j].req
                    BY <2>3, <2>4, <4>1
                <4> HIDE DEF j
                <4> QED BY <1>1, <2>5, <4>1, <4>2
            <3> QED BY <3>1, <3>2
        <2>7. Len(Queued(a)) = Len(q)
            BY <1>1, <2>4
        <2>8. Queued(a) = Append(Queued(q), r)
            BY <2>4, <2>5, <2>6, <2>7, SeqEqual
        <2> QED BY <2>2, <2>8 DEF OneOther
    <1> QED BY <1>2, <1>3 DEF a

\* The first event taken is a request's: it was the first one queued.
LEMMA TakeRequestFacts ==
    ASSUME NEW q \in Seq(Events), q # <<>>, Head(q).type = "request"
    PROVE  /\ NoOther(q) =>
                /\ NoOther(Tail(q))
                /\ Queued(q) # <<>> /\ Head(Queued(q)) = Head(q).req
                /\ Tail(Queued(q)) = Queued(Tail(q))
           /\ \A e : e.type # "request" /\ OneOther(q, e) =>
                /\ OneOther(Tail(q), e)
                /\ Queued(q) # <<>> /\ Head(Queued(q)) = Head(q).req
                /\ Tail(Queued(q)) = Queued(Tail(q))
    <1> DEFINE b == Tail(q)
    <1>1. /\ Len(q) \in Nat \ {0} /\ DOMAIN q = 1 .. Len(q) /\ Head(q) = q[1]
          /\ b \in Seq(Events) /\ Len(b) = Len(q) - 1 /\ DOMAIN b = 1 .. Len(q) - 1
          /\ \A i \in 1 .. Len(q) - 1 : b[i] = q[i + 1]
        BY EmptySeq, LenProperties, HeadTailProperties
    <1> HIDE DEF b
    <1>2. ASSUME NEW u \in Seq(Requests), NEW v \in Seq(Requests), NEW n \in Nat,
                 Len(u) = n + 1, Len(v) = n, u[1] = Head(q).req,
                 \A i \in 1 .. n : u[i + 1] = v[i]
          PROVE  u # <<>> /\ Head(u) = Head(q).req /\ Tail(u) = v
        <2>1. u # <<>>
            BY <1>2
        <2>2. Tail(u) \in Seq(Requests) /\ Len(Tail(u)) = n
              /\ \A i \in 1 .. n : Tail(u)[i] = v[i]
            <3>1. Len(u) - 1 = n
                BY <1>2
            <3> QED BY <1>2, <2>1, <3>1, HeadTailProperties
        <2>3. Tail(u) = v
            BY <1>2, <2>2, SeqEqual
        <2> QED BY <1>2, <2>1, <2>3
    <1>3. ASSUME NoOther(q)
          PROVE  NoOther(b) /\ Queued(q) # <<>> /\ Head(Queued(q)) = Head(q).req
                 /\ Tail(Queued(q)) = Queued(b)
        <2>1. NoOther(b)
            BY <1>1, <1>3 DEF NoOther
        <2>2. /\ Queued(q) \in Seq(Requests) /\ Len(Queued(q)) = Len(q)
              /\ \A i \in 1 .. Len(q) : Queued(q)[i] = q[i].req
            BY <1>3, QueuedAll
        <2>3. /\ Queued(b) \in Seq(Requests) /\ Len(Queued(b)) = Len(q) - 1
              /\ \A i \in 1 .. Len(q) - 1 : Queued(b)[i] = b[i].req
            BY <1>1, <2>1, QueuedAll
        <2>4. /\ Len(q) - 1 \in Nat /\ Len(Queued(q)) = (Len(q) - 1) + 1
              /\ Queued(q)[1] = Head(q).req
              /\ \A i \in 1 .. Len(q) - 1 : Queued(q)[i + 1] = Queued(b)[i]
            BY <1>1, <2>2, <2>3, SMTT(30)
        <2>5. Queued(q) # <<>> /\ Head(Queued(q)) = Head(q).req
              /\ Tail(Queued(q)) = Queued(b)
            BY <1>2, <2>2, <2>3, <2>4
        <2> QED BY <2>1, <2>5
    <1>4. ASSUME NEW e, e.type # "request", OneOther(q, e)
          PROVE  OneOther(b, e) /\ Queued(q) # <<>> /\ Head(Queued(q)) = Head(q).req
                 /\ Tail(Queued(q)) = Queued(b)
        <2>1. PICK k \in DOMAIN q : OtherAt(q, e, k)
            BY <1>4 DEF OneOther
        <2>2. k \in 2 .. Len(q)
            BY <1>1, <1>4, <2>1 DEF OtherAt
        <2>3. OtherAt(b, e, k - 1) /\ k - 1 \in DOMAIN b
            <3>1. k - 1 \in 1 .. Len(q) - 1 /\ (k - 1) + 1 = k
                BY <1>1, <2>2
            <3>2. b[k - 1] = e
                BY <1>1, <2>1, <3>1 DEF OtherAt
            <3>3. ASSUME NEW i \in DOMAIN b \ {k - 1} PROVE b[i].type = "request"
                <4>1. i + 1 \in DOMAIN q \ {k} /\ i \in 1 .. Len(q) - 1
                    BY <1>1, <2>2, <3>3
                <4> QED BY <1>1, <2>1, <4>1 DEF OtherAt
            <3> QED BY <1>1, <3>1, <3>2, <3>3 DEF OtherAt
        <2>4. /\ Queued(q) \in Seq(Requests) /\ Len(Queued(q)) = Len(q) - 1
              /\ \A i \in 1 .. Len(q) - 1 : Queued(q)[i] = q[IF i < k THEN i ELSE i + 1].req
            BY <1>4, <2>1, QueuedAround
        <2>5. /\ Queued(b) \in Seq(Requests) /\ Len(Queued(b)) = Len(b) - 1
              /\ \A i \in 1 .. Len(b) - 1 :
                    Queued(b)[i] = b[IF i < k - 1 THEN i ELSE i + 1].req
            BY <1>1, <1>4, <2>3, QueuedAround
        <2>6. /\ Len(b) - 1 \in Nat /\ Len(Queued(q)) = (Len(b) - 1) + 1
              /\ Queued(q)[1] = Head(q).req
            BY <1>1, <2>2, <2>4
        <2>7. ASSUME NEW i \in 1 .. Len(b) - 1 PROVE Queued(q)[i + 1] = Queued(b)[i]
            <3>1. /\ i + 1 \in 1 .. Len(q) - 1
                  /\ (IF i < k - 1 THEN i ELSE i + 1) \in 1 .. Len(q) - 1
                  /\ (IF i < k - 1 THEN i ELSE i + 1) + 1 = IF i + 1 < k THEN i + 1 ELSE (i + 1) + 1
                BY <1>1, <2>2
            <3>2. b[IF i < k - 1 THEN i ELSE i + 1] = q[IF i + 1 < k THEN i + 1 ELSE (i + 1) + 1]
                BY <1>1, <3>1
            <3> QED BY <2>4, <2>5, <3>1, <3>2
        <2>8. Queued(q) # <<>> /\ Head(Queued(q)) = Head(q).req
              /\ Tail(Queued(q)) = Queued(b)
            BY <1>2, <2>4, <2>5, <2>6, <2>7
        <2> QED BY <2>3, <2>8 DEF OneOther
    <1> QED BY <1>3, <1>4 DEF b

\* The first event taken is no request's: it is the one other event.
LEMMA TakeOther ==
    ASSUME NEW q \in Seq(Events), NEW e, e.type # "request", OneOther(q, e),
           Head(q).type # "request"
    PROVE  Head(q) = e /\ NoOther(Tail(q)) /\ Queued(Tail(q)) = Queued(q)
    <1> DEFINE b == Tail(q)
    <1>1. PICK k \in DOMAIN q : OtherAt(q, e, k)
        BY DEF OneOther
    <1>2. q # <<>>
        BY <1>1, LenProperties, EmptySeq
    <1>3. /\ Len(q) \in Nat \ {0} /\ DOMAIN q = 1 .. Len(q) /\ Head(q) = q[1]
          /\ b \in Seq(Events) /\ Len(b) = Len(q) - 1 /\ DOMAIN b = 1 .. Len(q) - 1
          /\ \A i \in 1 .. Len(q) - 1 : b[i] = q[i + 1]
        BY <1>2, EmptySeq, LenProperties, HeadTailProperties
    <1> HIDE DEF b
    <1>4. k = 1
        BY <1>1, <1>3 DEF OtherAt
    <1>5. Head(q) = e
        BY <1>1, <1>3, <1>4 DEF OtherAt
    <1>6. NoOther(b)
        <2>1. ASSUME NEW i \in DOMAIN b PROVE b[i].type = "request"
            <3>1. i + 1 \in DOMAIN q \ {k} /\ i \in 1 .. Len(q) - 1
                BY <1>3, <1>4, <2>1
            <3> QED BY <1>1, <1>3, <3>1 DEF OtherAt
        <2> QED BY <2>1 DEF NoOther
    <1>7. /\ Queued(q) \in Seq(Requests) /\ Len(Queued(q)) = Len(q) - 1
          /\ \A i \in 1 .. Len(q) - 1 : Queued(q)[i] = q[IF i < k THEN i ELSE i + 1].req
        BY <1>1, QueuedAround
    <1>8. /\ Queued(b) \in Seq(Requests) /\ Len(Queued(b)) = Len(q) - 1
          /\ \A i \in 1 .. Len(q) - 1 : Queued(b)[i] = b[i].req
        BY <1>3, <1>6, QueuedAll
    <1>9. \A i \in 1 .. Len(q) - 1 : Queued(b)[i] = Queued(q)[i]
        <2>1. \A i \in 1 .. Len(q) - 1 : (IF i < k THEN i ELSE i + 1) = i + 1
            BY <1>3, <1>4
        <2> QED BY <1>3, <1>7, <1>8, <2>1
    <1>10. Queued(b) = Queued(q)
        BY <1>7, <1>8, <1>9, SeqEqual
    <1> QED BY <1>5, <1>6, <1>10 DEF b

\* An event that is no request's joins a queue of requests.
LEMMA AppendOther ==
    ASSUME NEW q \in Seq(Events), NEW e \in Events, e.type # "request", NoOther(q)
    PROVE  OneOther(Append(q, e), e) /\ Queued(Append(q, e)) = Queued(q)
    <1> DEFINE a == Append(q, e)
               k == Len(q) + 1
    <1>1. /\ Len(q) \in Nat /\ DOMAIN q = 1 .. Len(q)
          /\ a \in Seq(Events) /\ Len(a) = Len(q) + 1 /\ DOMAIN a = 1 .. Len(q) + 1
          /\ \A i \in 1 .. Len(q) : a[i] = q[i]
          /\ a[k] = e
        BY LenProperties, AppendProperties
    <1> HIDE DEF a
    <1>2. OtherAt(a, e, k) /\ k \in DOMAIN a
        BY <1>1 DEF OtherAt, NoOther
    <1>3. /\ Queued(a) \in Seq(Requests) /\ Len(Queued(a)) = Len(a) - 1
          /\ \A i \in 1 .. Len(a) - 1 : Queued(a)[i] = a[IF i < k THEN i ELSE i + 1].req
        BY <1>1, <1>2, QueuedAround
    <1>4. /\ Queued(q) \in Seq(Requests) /\ Len(Queued(q)) = Len(q)
          /\ \A i \in 1 .. Len(q) : Queued(q)[i] = q[i].req
        BY QueuedAll
    <1>5. /\ Len(a) - 1 = Len(q)
          /\ \A i \in 1 .. Len(q) : (IF i < k THEN i ELSE i + 1) = i
        BY <1>1
    <1>6. \A i \in 1 .. Len(q) : Queued(a)[i] = Queued(q)[i]
        BY <1>1, <1>3, <1>4, <1>5
    <1>7. Queued(a) = Queued(q)
        BY <1>3, <1>4, <1>5, <1>6, SeqEqual
    <1> QED BY <1>2, <1>7 DEF OneOther, a

-----------------------------------------------------------------------------
(* The invariant holds at first and every step keeps it.                   *)

\* Three kinds of request, and what a transfer adds to those made.
LEMMA TransferFacts ==
    /\ <<"TX">> # <<"TX", "RX">> /\ <<"RX">> # <<"TX", "RX">> /\ <<"TX">> # <<"RX">>
    /\ <<>> \notin Transfers
    /\ Append(<<>>, "TX") = <<"TX">> /\ Append(<<>>, "RX") = <<"RX">>
    /\ Append(<<"TX">>, "RX") = <<"TX", "RX">>
    /\ ~Contains(<<"TX">>, "RX")
    /\ \A x : Append(<<>>, x) = <<x>>
    <1>1. <<"TX">> # <<"TX", "RX">> /\ <<"RX">> # <<"TX", "RX">> /\ <<"TX">> # <<"RX">>
        OBVIOUS
    <1>2. <<>> \notin Transfers
        BY DEF Transfers
    <1>3. \A x : Append(<<>>, x) = <<x>>
        OBVIOUS
    <1>4. Append(<<"TX">>, "RX") = <<"TX", "RX">>
        <2> DEFINE s == <<"TX">>
                   t == <<"TX", "RX">>
                   u == Append(s, "RX")
        <2>1. /\ s \in Seq({"TX", "RX"}) /\ Len(s) = 1 /\ s[1] = "TX"
              /\ t \in Seq({"TX", "RX"}) /\ Len(t) = 2 /\ t[1] = "TX" /\ t[2] = "RX"
            OBVIOUS
        <2>2. /\ u \in Seq({"TX", "RX"}) /\ Len(u) = Len(s) + 1
              /\ \A i \in 1 .. Len(s) : u[i] = s[i]
              /\ u[Len(s) + 1] = "RX"
            BY <2>1, AppendProperties
        <2> HIDE DEF s, t, u
        <2>3. Len(u) = 2 /\ u[1] = "TX" /\ u[2] = "RX"
            BY <2>1, <2>2
        <2>4. u = t
            BY <2>1, <2>2, <2>3, SeqEqual
        <2> QED BY <2>4 DEF s, t, u
    <1>5. ~Contains(<<"TX">>, "RX")
        BY DEF Contains
    <1> QED BY <1>1, <1>2, <1>3, <1>4, <1>5

\* The transfer the state names leads from those before it to those after it.
LEMMA Progress ==
    ASSUME TypeOK, StateServes
    PROVE  /\ Append(Before, Direction) = After
           /\ Before \in {<<>>, <<"TX">>} /\ After \in Transfers
           /\ state = "TX_RX" => After = <<"TX">>
           /\ state # "TX_RX" => After = todo[request]
           /\ state = "TX" => ~Contains(todo[request], "RX")
    <1>1. CASE state = "TX"
        BY <1>1, TransferFacts DEF StateServes, Before, After, Direction, Transfers
    <1>2. CASE state = "TX_RX"
        BY <1>2, TransferFacts DEF StateServes, Before, After, Direction, Transfers
    <1>3. CASE state = "RX" /\ todo[request] = <<"RX">>
        BY <1>3, TransferFacts DEF StateServes, Before, After, Direction, Transfers
    <1>4. CASE state = "RX" /\ todo[request] = <<"TX", "RX">>
        BY <1>4, TransferFacts DEF StateServes, Before, After, Direction, Transfers
    <1> QED BY <1>1, <1>2, <1>3, <1>4 DEF StateServes

LEMMA InitInv == Init => IInv
    <1> SUFFICES ASSUME Init PROVE IInv
        OBVIOUS
    <1>1. TypeOK
        BY DEF Init, TypeOK, States, Results
    <1>2. NoOther(queue)
        BY DEF Init, NoOther
    <1>3. DataBeforeSuccess
        BY DEF Init, DataBeforeSuccess
    <1>4. AtLoop
        BY <1>2 DEF Init, AtLoop, Quiet
    <1>5. AtCall /\ AtHold /\ AtRespond /\ AtNext
        BY DEF Init, AtCall, AtHold, AtRespond, AtNext
    <1> QED BY <1>1, <1>3, <1>4, <1>5 DEF IInv

\* The interrupt comes for a transfer the state names.
LEMMA IsrFinds ==
    ASSUME IInv, bus # "idle"
    PROVE  Running /\ StateServes /\ pc \in {"loop", "hold"}
    BY DEF IInv, TypeOK, AtLoop, AtCall, AtHold, AtRespond, AtNext, Quiet, UnderWay, Reported

\* Every step keeps the types.
LEMMA TypeStep == IInv /\ [Next]_vars => TypeOK'
    <1> SUFFICES ASSUME IInv, [Next]_vars PROVE TypeOK'
        OBVIOUS
    <1>0. TypeOK
        BY DEF IInv
    <1> USE DEF TypeOK
    <1>1. ASSUME NEW r \in Requests, MakeRequest(r) PROVE TypeOK'
        <2>1. Append(queue, RequestEvent(r)) \in Seq(Events)
            BY <1>0, EventFacts, AppendProperties
        <2> QED BY <1>0, <1>1, <2>1 DEF MakeRequest, device, handler, driver, history
    <1>2. ASSUME TakeRequest PROVE TypeOK'
        <2> DEFINE r == Head(queue).req
        <2>1. r \in Requests /\ Tail(queue) \in Seq(Events)
            BY <1>0, <1>2, HeadTailProperties, EventFacts DEF TakeRequest
        <2>2. CASE AnswerPanic(r)
            BY <1>0, <1>2, <2>1, <2>2 DEF TakeRequest, AnswerPanic, device, handler, driver
        <2>3. CASE Wait(r)
            <3>1. Append(held, r) \in Seq(Requests)
                BY <1>0, <2>1, AppendProperties
            <3> QED BY <1>0, <1>2, <2>1, <2>3, <3>1
                DEF TakeRequest, Wait, handler, driver, history
        <2>4. CASE StartAtOnce(r)
            <3>1. FirstState(r) \in States
                BY <1>0, <2>1 DEF FirstState, States, Transfers
            <3> QED BY <1>0, <1>2, <2>1, <2>4, <3>1
                DEF TakeRequest, StartAtOnce, Start, driver, history
        <2> QED BY <1>2, <2>2, <2>3, <2>4 DEF TakeRequest
    <1>3. ASSUME CallDriver PROVE TypeOK'
        <2>1. CASE TransferStarts
            BY <1>0, <1>3, <2>1 DEF CallDriver, TransferStarts, Direction, RecordRead, history
        <2>2. CASE TransferRefused
            BY <1>0, <1>3, <2>2 DEF CallDriver, TransferRefused, RecordRead, history, Results
        <2>3. CASE TransferMadeAtOnce
            <3>1. StateServes /\ made = Before
                BY <1>3 DEF IInv, AtCall, CallDriver
            <3>2. made' \in Transfers
                BY <1>0, <2>3, <3>1, Progress DEF TransferMadeAtOnce
            <3>3. filled' \subseteq Requests
                BY <1>0, <2>3, <3>1 DEF TransferMadeAtOnce, StateServes
            <3>4. state' \in States /\ drvStatus' \in Results /\ pc' \in {"call", "respond"}
                BY <1>0, <1>3, <2>3 DEF TransferMadeAtOnce, CallDriver, States, Results
            <3> QED BY <1>0, <1>3, <2>3, <3>2, <3>3, <3>4
                DEF CallDriver, TransferMadeAtOnce, driver
        <2> QED BY <1>3, <2>1, <2>2, <2>3 DEF CallDriver
    <1>4. ASSUME DelayResponse PROVE TypeOK'
        <2>1. request \in Requests
            BY <1>4 DEF IInv, AtHold, DelayResponse, StateServes
        <2>2. Append(held, request) \in Seq(Requests)
            BY <1>0, <2>1, AppendProperties
        <2> QED BY <1>0, <1>4, <2>2 DEF DelayResponse, driver, history
    <1>5. ASSUME Respond PROVE TypeOK'
        <2>1. CASE RespondAtOnce
            BY <1>0, <1>5, <2>1 DEF Respond, RespondAtOnce, Tell, driver, States
        <2>2. CASE RespondToCaller
            <3>1. held # <<>> => Tail(held) \in Seq(Requests)
                BY <1>0, HeadTailProperties
            <3> QED BY <1>0, <1>5, <2>2, <3>1
                DEF Respond, RespondToCaller, Panic, Tell, driver, States
        <2>3. CASE RespondAndReload
            <3>1. held # <<>>
                BY <1>5, <2>3 DEF Respond, RespondAndReload, IInv, AtRespond, HeldFits
            <3>2. Tail(held) \in Seq(Requests) /\ Append(queue, Reload) \in Seq(Events)
                BY <1>0, <3>1, HeadTailProperties, EventFacts, AppendProperties
            <3> QED BY <1>0, <1>5, <2>3, <3>2
                DEF Respond, RespondAndReload, PutReload, Tell, driver, States
        <2> QED BY <1>5, <2>1, <2>2, <2>3 DEF Respond
    <1>6. ASSUME ProcessNext PROVE TypeOK'
        <2>1. held # <<>> => Head(held) \in Requests /\ FirstState(Head(held)) \in States
            BY <1>0, HeadTailProperties DEF FirstState, States, Transfers
        <2> QED BY <1>0, <1>6, <2>1 DEF ProcessNext, Start, driver, history, States
    <1>7. ASSUME TakeReload PROVE TypeOK'
        <2>1. Tail(queue) \in Seq(Events)
            BY <1>0, <1>7, HeadTailProperties DEF TakeReload
        <2> QED BY <1>0, <1>7, <2>1 DEF TakeReload, device, driver, history
    <1>8. ASSUME TakeCompleted PROVE TypeOK'
        <2>1. Tail(queue) \in Seq(Events) /\ Head(queue) \in Events
            BY <1>0, <1>8, HeadTailProperties DEF TakeCompleted
        <2>2. Head(queue).status \in Results
            BY <1>8, <2>1, EventKinds DEF TakeCompleted
        <2> QED BY <1>0, <1>8, <2>1, <2>2
            DEF TakeCompleted, AfterCompletion, Panic, driver, history, States
    <1>9. ASSUME TakeIsrEvent PROVE TypeOK'
        <2>1. Head(isrQueue) \in Results /\ Tail(isrQueue) \in Seq(Results)
            BY <1>0, <1>9, HeadTailProperties DEF TakeIsrEvent
        <2>2. <<Completed(Head(isrQueue))>> \in Seq(Events)
            BY <2>1, EventFacts
        <2> QED BY <1>0, <1>9, <2>1, <2>2 DEF TakeIsrEvent, device, handler, driver, history
    <1>10. ASSUME I2cIsr PROVE TypeOK'
        <2>1. isrQueue' \in Seq(Results)
            <3>1. \A s \in Results : Append(isrQueue, s) \in Seq(Results)
                BY <1>0, AppendProperties
            <3> QED BY <1>0, <1>10, <3>1 DEF I2cIsr, Report, Results
        <2>2. made' \in {<<>>} \cup Transfers
            <3>1. bus = Direction /\ StateServes /\ made = Before
                BY <1>10, IsrFinds DEF I2cIsr, Running
            <3> QED BY <1>0, <1>10, <3>1, Progress DEF I2cIsr, TransferSucceeds, TransferAborts
        <2>3. filled' \subseteq Requests /\ reading' \in Requests \cup {NoRequest}
            BY <1>0, <1>10 DEF I2cIsr, TransferSucceeds, TransferAborts
        <2> QED BY <1>0, <1>10, <2>1, <2>2, <2>3 DEF I2cIsr, device, handler
    <1>11. ASSUME UNCHANGED vars PROVE TypeOK'
        BY <1>0, <1>11 DEF vars, device, handler, driver, history
    <1> QED BY <1>1, <1>2, <1>3, <1>4, <1>5, <1>6, <1>7, <1>8, <1>9, <1>10, <1>11
        DEF Next, Thread

\* The places of the handler other than the loop.
Elsewhere == AtCall /\ AtHold /\ AtRespond /\ AtNext

\* A step that only adds or takes a request's event leaves what is under way.
LEMMA RequestsOnly ==
    ASSUME TypeOK, UNCHANGED <<todo, state, request, isrQueue, driver, made, filled>>,
           NoOther(queue) => NoOther(queue'),
           \A e : e.type # "request" /\ OneOther(queue, e) => OneOther(queue', e)
    PROVE  /\ Quiet => Quiet'
           /\ StateServes => StateServes'
           /\ UnderWay => UnderWay'
    <1> USE DEF driver
    <1>1. Quiet => Quiet'
        BY DEF Quiet
    <1>2. StateServes => StateServes'
        BY DEF StateServes
    <1>3. Running => Running'
        BY DEF Running, Direction, Before
    <1>4. ASSUME NEW s \in Results, Reported(s) PROVE Reported(s)'
        <2>1. OneOther(queue, Completed(s)) => OneOther(queue', Completed(s))
            BY EventFacts
        <2>2. Outcome(s)'
            BY <1>4 DEF Reported, Outcome, Before, After
        <2> QED BY <1>4, <2>1, <2>2 DEF Reported
    <1>5. Results' = Results
        BY DEF Results
    <1> QED BY <1>1, <1>2, <1>3, <1>4, <1>5 DEF UnderWay

LEMMA MakeRequestStep ==
    ASSUME IInv, NEW r \in Requests, MakeRequest(r)
    PROVE  AtLoop' /\ Elsewhere'
    <1>0. TypeOK /\ pc = "loop" /\ pc' = "loop"
        BY DEF IInv, MakeRequest, handler
    <1>1. /\ NoOther(queue) => NoOther(queue')
          /\ \A e : e.type # "request" /\ OneOther(queue, e) => OneOther(queue', e)
        BY <1>0, AppendRequest DEF MakeRequest, TypeOK
    <1>2. UNCHANGED <<todo, state, request, isrQueue, driver, made, filled, held>>
        BY DEF MakeRequest, device, history
    <1>3. /\ Quiet => Quiet'
          /\ StateServes => StateServes'
          /\ UnderWay => UnderWay'
        BY <1>0, <1>1, <1>2, RequestsOnly
    <1>4. AtLoop'
        BY <1>0, <1>1, <1>2, <1>3, EventFacts DEF IInv, AtLoop, driver
    <1> QED BY <1>0, <1>4 DEF Elsewhere, AtCall, AtHold, AtRespond, AtNext

LEMMA TakeRequestStep ==
    ASSUME IInv, ~PoolMayBeEmpty, TakeRequest
    PROVE  AtLoop' /\ Elsewhere'
    <1> DEFINE r == Head(queue).req
    <1>0. /\ TypeOK /\ pc = "loop" /\ queue # <<>> /\ Head(queue).type = "request"
          /\ queue' = Tail(queue)
          /\ UNCHANGED <<todo, isrQueue, driver>>
        BY DEF IInv, TakeRequest
    <1>1. r \in Requests
        BY <1>0, HeadTailProperties, EventFacts DEF TypeOK
    <1>2. /\ NoOther(queue) => NoOther(queue')
          /\ \A e : e.type # "request" /\ OneOther(queue, e) => OneOther(queue', e)
        BY <1>0, TakeRequestFacts DEF TypeOK
    <1>3. state # "PANIC"
        BY <1>0 DEF IInv, AtLoop, StateServes
    <1>4. CASE Wait(r)
        <2>1. /\ UNCHANGED <<state, request, made, filled>> /\ pc' = "loop"
              /\ state \notin {"IDLE", "PANIC"} /\ held' = Append(held, r)
            BY <1>0, <1>4 DEF Wait, handler, history
        <2>2. /\ Quiet => Quiet'
              /\ StateServes => StateServes'
              /\ UnderWay => UnderWay'
            BY <1>0, <1>2, <2>1, RequestsOnly
        <2>3. held' # <<>> /\ (held # <<>> => Head(held') = Head(held))
            BY <1>0, <1>1, <2>1, AppendProperties, HeadTailAppend DEF TypeOK
        <2>4. AtLoop'
            BY <1>0, <1>2, <2>1, <2>2, <2>3, EventFacts DEF IInv, AtLoop, driver
        <2> QED BY <2>1, <2>4 DEF Elsewhere, AtCall, AtHold, AtRespond, AtNext
    <1>5. CASE StartAtOnce(r)
        <2>1. /\ state = "IDLE" /\ state' = FirstState(r) /\ request' = r
              /\ pc' = "call" /\ caller' = "request" /\ UNCHANGED <<held, made>>
            BY <1>5 DEF StartAtOnce, Start, history
        <2>2. Quiet /\ held = <<>> /\ made = <<>>
            BY <1>0, <2>1 DEF IInv, AtLoop, StateServes
        <2>3. Quiet'
            BY <1>0, <1>2, <2>2 DEF Quiet, driver
        <2>4. todo[r] \in Transfers
            BY <1>0, <1>1 DEF TypeOK
        <2>5. StateServes' /\ Before' = <<>>
            <3>1. todo' = todo
                BY <1>0
            <3>2. CASE todo[r] = <<"TX">>
                BY <1>1, <2>1, <3>1, <3>2, TransferFacts DEF FirstState, StateServes, Before
            <3>3. CASE todo[r] = <<"RX">>
                BY <1>1, <2>1, <3>1, <3>3, TransferFacts DEF FirstState, StateServes, Before
            <3>4. CASE todo[r] = <<"TX", "RX">>
                BY <1>1, <2>1, <3>1, <3>4, TransferFacts DEF FirstState, StateServes, Before
            <3> QED BY <2>4, <3>2, <3>3, <3>4 DEF Transfers
        <2> QED BY <2>1, <2>2, <2>3, <2>5
            DEF Elsewhere, AtLoop, AtCall, AtHold, AtRespond, AtNext, HeldFits
    <1> QED BY <1>3, <1>4, <1>5 DEF TakeRequest, AnswerPanic

LEMMA CallDriverStep ==
    ASSUME IInv, CallDriver
    PROVE  AtLoop' /\ Elsewhere'
    <1>0. /\ TypeOK /\ pc = "call" /\ StateServes /\ Quiet /\ made = Before /\ HeldFits
          /\ UNCHANGED <<todo, request, queue, isrQueue, held, caller>>
        BY DEF IInv, AtCall, CallDriver
    <1>1. CASE TransferStarts
        <2>1. /\ bus' = Direction /\ UNCHANGED <<state, made, filled>>
              /\ Direction = "RX" => reading' = request
              /\ pc' = IF caller = "request" THEN "hold" ELSE "loop"
            BY <1>1 DEF TransferStarts, RecordRead, history
        <2>2. StateServes' /\ Running'
            BY <1>0, <2>1 DEF StateServes, Running, Quiet, NoOther, Direction, Before
        <2> QED BY <1>0, <2>1, <2>2
            DEF Elsewhere, AtLoop, AtCall, AtHold, AtRespond, AtNext, HeldFits, UnderWay
    <1>2. CASE TransferRefused
        <2>1. /\ drvStatus' = "E_DEVICE" /\ pc' = "respond" /\ UNCHANGED <<state, bus>>
            BY <1>2 DEF TransferRefused
        <2>2. StateServes' /\ Quiet' /\ HeldFits'
            BY <1>0, <2>1 DEF StateServes, Quiet, NoOther, HeldFits
        <2> QED BY <2>1, <2>2 DEF Elsewhere, AtLoop, AtCall, AtHold, AtRespond, AtNext
    <1>3. CASE TransferMadeAtOnce
        <2>1. /\ made' = Append(made, Direction) /\ UNCHANGED driver
              /\ Direction = "RX" => filled' = filled \cup {request}
              /\ IF state = "TX_RX"
                 THEN state' = "RX" /\ UNCHANGED <<pc, drvStatus>>
                 ELSE drvStatus' = "SUCCESS" /\ pc' = "respond" /\ UNCHANGED state
            BY <1>3 DEF TransferMadeAtOnce
        <2>2. made' = After
            BY <1>0, <2>1, Progress
        <2>3. Quiet' /\ HeldFits'
            BY <1>0, <2>1 DEF Quiet, NoOther, HeldFits, driver
        <2>4. CASE state = "TX_RX"
            <3>1. StateServes' /\ made' = Before' /\ pc' = "call"
                BY <1>0, <2>1, <2>2, <2>4 DEF StateServes, Before, After
            <3> QED BY <2>3, <3>1 DEF Elsewhere, AtLoop, AtCall, AtHold, AtRespond, AtNext
        <2>5. CASE state # "TX_RX"
            <3>1. StateServes' /\ pc' = "respond" /\ state' = state
                BY <1>0, <2>1, <2>5 DEF StateServes
            <3>2. made' = todo'[request']
                BY <1>0, <2>2, <2>5 DEF After
            <3>3. state' = "RX" => request' \in filled'
                BY <1>0, <2>1, <3>1 DEF Direction
            <3> QED BY <2>3, <2>5, <3>1, <3>2, <3>3
                DEF Elsewhere, AtLoop, AtCall, AtHold, AtRespond, AtNext
        <2> QED BY <2>4, <2>5
    <1> QED BY <1>1, <1>2, <1>3 DEF CallDriver

LEMMA DelayResponseStep ==
    ASSUME IInv, ~PoolMayBeEmpty, DelayResponse
    PROVE  AtLoop' /\ Elsewhere'
    <1>0. /\ TypeOK /\ pc = "hold" /\ StateServes /\ UnderWay /\ held = <<>>
          /\ held' = Append(held, request) /\ pc' = "loop"
          /\ UNCHANGED <<todo, state, request, queue, isrQueue, driver, history>>
        BY DEF IInv, AtHold, DelayResponse
    <1>1. held' # <<>> /\ Head(held') = request'
        BY <1>0, AppendProperties, HeadTailAppend DEF TypeOK, StateServes
    <1>2. StateServes' /\ UnderWay'
        <2>1. NoOther(queue) => NoOther(queue')
            BY <1>0
        <2>2. \A e : OneOther(queue, e) => OneOther(queue', e)
            BY <1>0
        <2> QED BY <1>0, <2>1, <2>2, RequestsOnly DEF history
    <1> QED BY <1>0, <1>1, <1>2 DEF Elsewhere, AtLoop, AtCall, AtHold, AtRespond, AtNext

LEMMA RespondStep ==
    ASSUME IInv, ~PoolMayBeEmpty, Respond
    PROVE  AtLoop' /\ Elsewhere'
    <1>0. /\ TypeOK /\ pc = "respond" /\ StateServes /\ Quiet /\ HeldFits
          /\ UNCHANGED <<todo, request, isrQueue, caller, drvStatus, driver, filled>>
        BY DEF IInv, AtRespond, Respond
    <1>1. CASE RespondAtOnce
        <2>1. /\ made' = <<>> /\ state' = "IDLE" /\ pc' = "loop" /\ UNCHANGED <<queue, held>>
              /\ held = <<>>
            BY <1>0, <1>1 DEF RespondAtOnce, Tell, HeldFits
        <2>2. Quiet'
            BY <1>0, <2>1 DEF Quiet, NoOther, driver
        <2> QED BY <2>1, <2>2 DEF Elsewhere, AtLoop, AtCall, AtHold, AtRespond, AtNext
    <1>2. CASE RespondToCaller
        <2>1. /\ made' = <<>> /\ pc' = "next" /\ UNCHANGED <<queue, state>>
            BY <1>0, <1>2 DEF RespondToCaller, Tell, HeldFits
        <2>2. Quiet'
            BY <1>0, <2>1 DEF Quiet, NoOther, driver
        <2> QED BY <1>0, <2>1, <2>2
            DEF Elsewhere, AtLoop, AtCall, AtHold, AtRespond, AtNext, StateServes
    <1>3. CASE RespondAndReload
        <2>1. made' = <<>> /\ pc' = "loop" /\ held' = Tail(held)
            BY <1>3 DEF RespondAndReload, Tell
        <2>2. CASE Tail(held) = <<>>
            <3>1. state' = "IDLE" /\ queue' = queue
                BY <1>3, <2>2 DEF RespondAndReload
            <3>2. Quiet'
                BY <1>0, <3>1 DEF Quiet, NoOther, driver
            <3> QED BY <2>1, <2>2, <3>1, <3>2
                DEF Elsewhere, AtLoop, AtCall, AtHold, AtRespond, AtNext
        <2>3. CASE Tail(held) # <<>>
            <3>1. state' = "RELOAD" /\ queue' = Append(queue, Reload)
                BY <1>3, <2>3 DEF RespondAndReload, PutReload
            <3>2. OneOther(queue', Reload)
                BY <1>0, <3>1, AppendOther, EventFacts DEF Quiet, TypeOK
            <3>3. bus' = "idle" /\ isrQueue' = <<>>
                BY <1>0 DEF Quiet, driver
            <3> QED BY <2>1, <2>3, <3>1, <3>2, <3>3
                DEF Elsewhere, AtLoop, AtCall, AtHold, AtRespond, AtNext
        <2> QED BY <2>2, <2>3
    <1> QED BY <1>1, <1>2, <1>3 DEF Respond

LEMMA ProcessNextStep ==
    ASSUME IInv, ProcessNext
    PROVE  AtLoop' /\ Elsewhere'
    <1>0. /\ TypeOK /\ pc = "next" /\ Quiet /\ made = <<>>
          /\ UNCHANGED <<todo, queue, isrQueue, held, drvStatus, driver, history>>
        BY DEF IInv, AtNext, ProcessNext
    <1>1. Quiet' /\ made' = <<>>
        BY <1>0 DEF Quiet, NoOther, driver, history
    <1>2. CASE held = <<>>
        BY <1>0, <1>1, <1>2
        DEF ProcessNext, Elsewhere, AtLoop, AtCall, AtHold, AtRespond, AtNext
    <1>3. CASE held # <<>>
        <2> DEFINE r == Head(held)
        <2>1. state' = FirstState(r) /\ request' = r /\ pc' = "call" /\ caller' = "next"
            BY <1>3 DEF ProcessNext, Start
        <2>2. r \in Requests /\ todo[r] \in Transfers /\ todo' = todo
            BY <1>0, <1>3, HeadTailProperties DEF TypeOK
        <2>3. StateServes' /\ Before' = <<>>
            <3>1. CASE todo[r] = <<"TX">>
                BY <2>1, <2>2, <3>1, TransferFacts DEF FirstState, StateServes, Before
            <3>2. CASE todo[r] = <<"RX">>
                BY <2>1, <2>2, <3>2, TransferFacts DEF FirstState, StateServes, Before
            <3>3. CASE todo[r] = <<"TX", "RX">>
                BY <2>1, <2>2, <3>3, TransferFacts DEF FirstState, StateServes, Before
            <3> QED BY <2>2, <3>1, <3>2, <3>3 DEF Transfers
        <2>4. HeldFits'
            BY <1>0, <1>3, <2>1 DEF HeldFits
        <2> QED BY <1>1, <2>1, <2>3, <2>4
            DEF Elsewhere, AtLoop, AtCall, AtHold, AtRespond, AtNext
    <1> QED BY <1>2, <1>3

LEMMA TakeReloadStep ==
    ASSUME IInv, TakeReload
    PROVE  AtLoop' /\ Elsewhere'
    <1>0. /\ TypeOK /\ pc = "loop" /\ queue # <<>> /\ Head(queue).type = "reload"
          /\ queue' = Tail(queue) /\ pc' = "next"
          /\ UNCHANGED <<todo, device, isrQueue, caller, drvStatus, driver, history>>
        BY DEF IInv, TakeReload
    <1>1. ~NoOther(queue)
        <2>1. 1 \in DOMAIN queue /\ Head(queue) = queue[1]
            BY <1>0, EmptySeq, LenProperties DEF TypeOK
        <2> QED BY <1>0, <2>1 DEF NoOther
    <1>2. \A s \in Results : ~OneOther(queue, Completed(s))
        BY <1>0, TakeOther, EventFacts DEF TypeOK
    <1>3. /\ state = "RELOAD" /\ bus = "idle" /\ isrQueue = <<>>
          /\ OneOther(queue, Reload) /\ made = <<>>
        BY <1>0, <1>1, <1>2 DEF IInv, AtLoop, Quiet, UnderWay, Running, Reported
    <1>4. NoOther(queue')
        BY <1>0, <1>3, TakeOther, EventFacts DEF TypeOK
    <1> QED BY <1>0, <1>3, <1>4
        DEF Elsewhere, AtLoop, AtCall, AtHold, AtRespond, AtNext, Quiet, device, driver, history

\* A report that is taken tells how the transfer under way ended.
LEMMA CompletedFinds ==
    ASSUME IInv, pc = "loop", queue # <<>>, Head(queue).type = "completed"
    PROVE  /\ StateServes /\ held # <<>> /\ Head(held) = request
           /\ bus = "idle" /\ isrQueue = <<>> /\ NoOther(Tail(queue))
           /\ Queued(Tail(queue)) = Queued(queue)
           /\ Outcome(Head(queue).status)
    <1>0. TypeOK
        BY DEF IInv
    <1>1. ~NoOther(queue)
        <2>1. 1 \in DOMAIN queue /\ Head(queue) = queue[1]
            BY <1>0, EmptySeq, LenProperties DEF TypeOK
        <2> QED BY <2>1 DEF NoOther
    <1>2. ~OneOther(queue, Reload)
        BY <1>0, TakeOther, EventFacts DEF TypeOK
    <1>3. /\ StateServes /\ held # <<>> /\ Head(held) = request
          /\ \E s \in Results : Reported(s)
        BY <1>1, <1>2 DEF IInv, AtLoop, Quiet, UnderWay, Running
    <1>4. PICK s \in Results : Reported(s)
        BY <1>3
    <1>5. bus = "idle" /\ isrQueue = <<>> /\ Outcome(s) /\ OneOther(queue, Completed(s))
        BY <1>1, <1>4 DEF Reported
    <1>6. Head(queue) = Completed(s) /\ NoOther(Tail(queue)) /\ Queued(Tail(queue)) = Queued(queue)
        BY <1>0, <1>5, TakeOther, EventFacts DEF TypeOK
    <1>7. Head(queue).status = s
        BY <1>6, EventFacts
    <1> QED BY <1>3, <1>5, <1>6, <1>7

LEMMA TakeCompletedStep ==
    ASSUME IInv, TakeCompleted
    PROVE  AtLoop' /\ Elsewhere'
    <1> DEFINE s == Head(queue).status
    <1>0. /\ TypeOK /\ pc = "loop" /\ queue # <<>> /\ Head(queue).type = "completed"
          /\ queue' = Tail(queue) /\ caller' = "completed" /\ AfterCompletion(s)
          /\ UNCHANGED <<todo, request, isrQueue, held, driver, history>>
        BY DEF IInv, TakeCompleted
    <1>1. /\ StateServes /\ held # <<>> /\ Head(held) = request
          /\ bus = "idle" /\ isrQueue = <<>> /\ NoOther(Tail(queue))
          /\ Outcome(s)
        BY <1>0, CompletedFinds
    <1>2. Quiet' /\ HeldFits'
        BY <1>0, <1>1 DEF Quiet, HeldFits, driver
    <1>3. CASE state \in {"TX", "RX"} \/ (state = "TX_RX" /\ s # "SUCCESS")
        <2>1. pc' = "respond" /\ drvStatus' = s /\ state' = state
            BY <1>0, <1>3 DEF AfterCompletion
        <2>2. StateServes'
            BY <1>0, <1>1, <2>1 DEF StateServes
        <2>3. ASSUME s = "SUCCESS"
              PROVE  state # "TX_RX" /\ made = todo[request] /\ (state = "RX" => request \in filled)
            BY <1>1, <1>3, <2>3 DEF Outcome, After
        <2>4. drvStatus' = "SUCCESS" => /\ state' # "TX_RX" /\ made' = todo'[request']
                                        /\ state' = "RX" => request' \in filled'
            BY <1>0, <2>1, <2>3 DEF history
        <2> QED BY <1>2, <2>1, <2>2, <2>4
            DEF Elsewhere, AtLoop, AtCall, AtHold, AtRespond, AtNext
    <1>4. CASE state = "TX_RX" /\ s = "SUCCESS"
        <2>1. state' = "RX" /\ pc' = "call"
            BY <1>0, <1>4 DEF AfterCompletion
        <2>2. StateServes' /\ made' = Before'
            BY <1>0, <1>1, <1>4, <2>1 DEF StateServes, Outcome, After, Before, history
        <2> QED BY <1>2, <2>1, <2>2
            DEF Elsewhere, AtLoop, AtCall, AtHold, AtRespond, AtNext
    <1> QED BY <1>1, <1>3, <1>4 DEF StateServes

LEMMA TakeIsrEventStep ==
    ASSUME IInv, TakeIsrEvent
    PROVE  AtLoop' /\ Elsewhere' /\ Queued(queue') = Queued(queue)
    <1>0. /\ TypeOK /\ pc = "loop" /\ queue = <<>> /\ isrQueue # <<>>
          /\ queue' = <<Completed(Head(isrQueue))>> /\ isrQueue' = Tail(isrQueue)
          /\ UNCHANGED <<todo, device, handler, driver, history>>
        BY DEF IInv, TakeIsrEvent
    <1>1. NoOther(queue) /\ \A e : ~OneOther(queue, e)
        BY <1>0 DEF NoOther, OneOther
    <1>2. StateServes /\ held # <<>> /\ Head(held) = request /\ \E s \in Results : Reported(s)
        BY <1>0, <1>1 DEF IInv, AtLoop, Quiet, UnderWay, Running
    <1>3. PICK s \in Results : Reported(s)
        BY <1>2
    <1>4. bus = "idle" /\ Outcome(s) /\ isrQueue = <<s>>
        BY <1>1, <1>3 DEF Reported
    <1>5. Head(isrQueue) = s /\ isrQueue' = <<>> /\ queue' = <<Completed(s)>>
        BY <1>0, <1>4
    <1>6. queue' = Append(queue, Completed(s))
        BY <1>0, <1>5, TransferFacts
    <1>7. OneOther(queue', Completed(s)) /\ Queued(queue') = Queued(queue)
        <2>1. Completed(s) \in Events /\ Completed(s).type # "request"
            BY EventFacts
        <2>2. queue \in Seq(Events)
            BY <1>0 DEF TypeOK
        <2> HIDE <1>0
        <2> QED BY <1>1, <1>6, <2>1, <2>2, AppendOther
    <1>8. StateServes' /\ Outcome(s)' /\ bus' = "idle"
        BY <1>0, <1>2, <1>4 DEF StateServes, Outcome, Before, After, device, driver, history
    <1>9. UnderWay'
        BY <1>3, <1>5, <1>7, <1>8 DEF UnderWay, Reported, Results
    <1> QED BY <1>0, <1>2, <1>7, <1>8, <1>9
        DEF Elsewhere, AtLoop, AtCall, AtHold, AtRespond, AtNext, device, handler

LEMMA I2cIsrStep ==
    ASSUME IInv, ~PoolMayBeEmpty, I2cIsr
    PROVE  AtLoop' /\ Elsewhere'
    <1>0. /\ TypeOK /\ bus # "idle" /\ bus' = "idle"
          /\ \/ TransferSucceeds /\ Report("SUCCESS")
             \/ TransferAborts /\ Report("E_DEVICE")
          /\ UNCHANGED <<todo, device, queue, handler, answer>>
        BY DEF IInv, I2cIsr
    <1>1. Running /\ StateServes /\ pc \in {"loop", "hold"}
        BY <1>0, IsrFinds
    <1>2. /\ pc = "loop" => held # <<>> /\ Head(held) = request
          /\ pc = "hold" => held = <<>> /\ caller = "request"
        BY <1>0, <1>1 DEF IInv, AtLoop, AtHold, StateServes, Quiet
    <1>3. StateServes'
        BY <1>0, <1>1 DEF StateServes, device
    <1>4. isrQueue = <<>> /\ NoOther(queue) /\ NoOther(queue')
        BY <1>0, <1>1 DEF Running, NoOther
    <1>5. CASE TransferSucceeds /\ Report("SUCCESS")
        <2>1. isrQueue' = <<"SUCCESS">>
            BY <1>4, <1>5, TransferFacts DEF Report
        <2>2. made' = After'
            <3>1. made' = After
                BY <1>0, <1>1, <1>5, Progress DEF TransferSucceeds, Running
            <3> QED BY <1>0, <3>1 DEF After, device
        <2>3. state' = "RX" => request' \in filled'
            BY <1>0, <1>1, <1>5, I2cAssumption
            DEF TransferSucceeds, Running, Direction, StateServes, device
        <2>4. Reported("SUCCESS")'
            BY <1>0, <1>4, <2>1, <2>2, <2>3 DEF Reported, Outcome
        <2> QED BY <1>0, <1>1, <1>2, <1>3, <2>4
            DEF Elsewhere, AtLoop, AtCall, AtHold, AtRespond, AtNext, UnderWay, Results,
                device, handler
    <1>6. CASE TransferAborts /\ Report("E_DEVICE")
        <2>1. isrQueue' = <<"E_DEVICE">>
            BY <1>4, <1>6, TransferFacts DEF Report
        <2>2. made' = Before'
            BY <1>0, <1>1, <1>6 DEF TransferAborts, Running, Before, device
        <2>3. Reported("E_DEVICE")'
            BY <1>0, <1>4, <2>1, <2>2 DEF Reported, Outcome
        <2> QED BY <1>0, <1>1, <1>2, <1>3, <2>3
            DEF Elsewhere, AtLoop, AtCall, AtHold, AtRespond, AtNext, UnderWay, Results,
                device, handler
    <1> QED BY <1>0, <1>5, <1>6

\* A client is told how its transfers went in three places, and in each the
\* buffer was filled if they went well.
LEMMA DataStep ==
    ASSUME IInv, ~PoolMayBeEmpty, [Next]_vars
    PROVE  DataBeforeSuccess'
    <1>0. TypeOK /\ DataBeforeSuccess
        BY DEF IInv
    <1>1. todo' = todo /\ filled \subseteq filled'
        BY DEF Next, Thread, MakeRequest, TakeRequest, AnswerPanic, Wait, StartAtOnce, CallDriver,
               TransferStarts, TransferRefused, TransferMadeAtOnce, DelayResponse, Respond,
               ProcessNext, TakeReload, TakeCompleted, TakeIsrEvent, I2cIsr,
               TransferSucceeds, TransferAborts, vars, history
    <1>2. CASE answer' = answer
        BY <1>0, <1>1, <1>2 DEF DataBeforeSuccess
    <1>3. CASE Respond
        <2>1. /\ StateServes /\ HeldFits
              /\ drvStatus = "SUCCESS" => /\ state # "TX_RX" /\ made = todo[request]
                                          /\ state = "RX" => request \in filled
            BY <1>3 DEF IInv, AtRespond, Respond
        <2>2. answer' = [answer EXCEPT ![request] = drvStatus] \/ answer' = answer
            BY <1>3, <2>1 DEF Respond, RespondAtOnce, RespondToCaller, RespondAndReload, Tell, HeldFits
        <2>3. drvStatus = "SUCCESS" => state \in {"TX", "RX"}
            BY <2>1 DEF StateServes
        <2>4. drvStatus = "SUCCESS" /\ Contains(todo[request], "RX") => request \in filled
            BY <1>0, <2>1, <2>3, Progress
        <2>5. answer \in [Requests -> Results \cup {"none", "E_PANIC"}]
            BY <1>0 DEF TypeOK
        <2>6. CASE answer' = [answer EXCEPT ![request] = drvStatus]
            BY <1>0, <1>1, <2>4, <2>5, <2>6 DEF DataBeforeSuccess
        <2> QED BY <1>2, <2>2, <2>6
    <1>4. CASE TakeRequest
        <2>1. state # "PANIC"
            BY <1>4 DEF IInv, AtLoop, StateServes, TakeRequest
        <2> QED BY <1>2, <1>4, <2>1 DEF TakeRequest, AnswerPanic, Wait, StartAtOnce, history
    <1> QED BY <1>2, <1>3, <1>4
        DEF Next, Thread, MakeRequest, CallDriver, TransferStarts, TransferRefused,
            TransferMadeAtOnce, DelayResponse, ProcessNext, TakeReload, TakeCompleted,
            TakeIsrEvent, I2cIsr, vars, history

LEMMA StepInv == IInv /\ ~PoolMayBeEmpty /\ [Next]_vars => IInv'
    <1> SUFFICES ASSUME IInv, ~PoolMayBeEmpty, [Next]_vars PROVE IInv'
        OBVIOUS
    <1>1. TypeOK' /\ DataBeforeSuccess'
        BY TypeStep, DataStep
    <1>2. AtLoop' /\ Elsewhere'
        <2>1. CASE UNCHANGED vars
            <3>1. AtLoop' <=> AtLoop
                BY <2>1 DEF vars, device, handler, driver, history, AtLoop, Quiet, StateServes,
                            UnderWay, Running, Reported, Outcome, Before, After, Direction,
                            NoOther, OneOther, Results
            <3>2. Elsewhere' <=> Elsewhere
                BY <2>1 DEF vars, device, handler, driver, history, Elsewhere, AtCall, AtHold,
                            AtRespond, AtNext, Quiet, StateServes, HeldFits,
                            UnderWay, Running, Reported, Outcome, Before, After, Direction,
                            NoOther, OneOther, Results
            <3> QED BY <3>1, <3>2 DEF IInv, Elsewhere
        <2>2. CASE Next
            BY <2>2, MakeRequestStep, TakeRequestStep, CallDriverStep, DelayResponseStep,
               RespondStep, ProcessNextStep, TakeReloadStep, TakeCompletedStep,
               TakeIsrEventStep, I2cIsrStep DEF Next, Thread
        <2> QED BY <2>1, <2>2
    <1> QED BY <1>1, <1>2 DEF IInv, Elsewhere

LEMMA Invariance == ASSUME ~PoolMayBeEmpty PROVE Spec => []IInv
    BY InitInv, StepInv, PTL DEF Spec

-----------------------------------------------------------------------------
(* The properties.                                                         *)

\* The reports in the queue, by the events that are no request's.
LEMMA ReportCount ==
    ASSUME TypeOK
    PROVE  /\ NoOther(queue) => Cardinality(Reports) = 0 /\ ~Contains(queue, Reload)
           /\ \A s \in Results : OneOther(queue, Completed(s)) =>
                 Cardinality(Reports) = 1 /\ ~Contains(queue, Reload)
           /\ OneOther(queue, Reload) => Cardinality(Reports) = 0 /\ Contains(queue, Reload)
    <1>0. DOMAIN queue = 1 .. Len(queue)
        BY LenProperties DEF TypeOK
    <1>1. ASSUME NoOther(queue) PROVE Cardinality(Reports) = 0 /\ ~Contains(queue, Reload)
        <2>1. Reports = {}
            BY <1>1 DEF NoOther, Reports
        <2> QED BY <1>0, <1>1, <2>1, FS_EmptySet, EventFacts DEF Contains, NoOther
    <1>2. ASSUME NEW s \in Results, OneOther(queue, Completed(s))
          PROVE  Cardinality(Reports) = 1 /\ ~Contains(queue, Reload)
        <2>1. PICK k \in DOMAIN queue : OtherAt(queue, Completed(s), k)
            BY <1>2 DEF OneOther
        <2>2. Reports = {k}
            BY <2>1, EventFacts DEF OtherAt, Reports
        <2>3. ~Contains(queue, Reload)
            <3>1. \A i \in DOMAIN queue : queue[i].type # "reload"
                BY <2>1, EventFacts DEF OtherAt
            <3> QED BY <1>0, <3>1, EventFacts DEF Contains
        <2> QED BY <2>2, <2>3, FS_Singleton
    <1>3. ASSUME OneOther(queue, Reload)
          PROVE  Cardinality(Reports) = 0 /\ Contains(queue, Reload)
        <2>1. PICK k \in DOMAIN queue : OtherAt(queue, Reload, k)
            BY <1>3 DEF OneOther
        <2>2. Reports = {}
            BY <2>1, EventFacts DEF OtherAt, Reports
        <2> QED BY <1>0, <2>1, <2>2, FS_EmptySet DEF OtherAt, Contains
    <1> QED BY <1>1, <1>2, <1>3

LEMMA InvImpliesOne == IInv => OneInFlight
    <1> SUFFICES ASSUME IInv PROVE OneInFlight
        OBVIOUS
    <1> DEFINE transfers == (IF bus = "idle" THEN 0 ELSE 1) + Len(isrQueue) + Cardinality(Reports)
    <1>0. TypeOK
        BY DEF IInv
    <1>1. state # "PANIC"
        BY <1>0 DEF IInv, TypeOK, AtLoop, AtCall, AtHold, AtRespond, AtNext, StateServes
    <1>2. ASSUME pc = "loop"
          PROVE  /\ transfers = IF state \in {"TX", "RX", "TX_RX"} THEN 1 ELSE 0
                 /\ Contains(queue, Reload) <=> (state = "RELOAD")
                 /\ (held = <<>>) <=> (state = "IDLE")
        <2>1. CASE state = "IDLE" /\ Quiet /\ held = <<>> /\ made = <<>>
            BY <1>0, <2>1, ReportCount DEF Quiet
        <2>2. CASE StateServes /\ UnderWay /\ held # <<>> /\ Head(held) = request
            <3>1. state \in {"TX", "RX", "TX_RX"}
                BY <2>2 DEF StateServes
            <3>2. CASE Running
                <4>1. bus # "idle" /\ isrQueue = <<>>
                    BY <3>2 DEF Running, Direction
                <4>2. Cardinality(Reports) = 0 /\ ~Contains(queue, Reload)
                    BY <1>0, <3>2, ReportCount DEF Running
                <4> QED BY <2>2, <3>1, <4>1, <4>2
            <3>3. ASSUME NEW s \in Results, Reported(s)
                  PROVE  transfers = 1 /\ ~Contains(queue, Reload)
                <4>1. CASE isrQueue = <<s>> /\ NoOther(queue)
                    <5>1. Len(isrQueue) = 1 /\ Cardinality(Reports) = 0 /\ ~Contains(queue, Reload)
                        BY <1>0, <4>1, ReportCount
                    <5> QED BY <3>3, <5>1 DEF Reported
                <4>2. CASE isrQueue = <<>> /\ OneOther(queue, Completed(s))
                    <5>1. Len(isrQueue) = 0 /\ Cardinality(Reports) = 1 /\ ~Contains(queue, Reload)
                        BY <1>0, <4>2, ReportCount
                    <5> QED BY <3>3, <5>1 DEF Reported
                <4> QED BY <3>3, <4>1, <4>2 DEF Reported
            <3>4. transfers = 1 /\ ~Contains(queue, Reload)
                BY <2>2, <3>2, <3>3, <3>1 DEF UnderWay
            <3> QED BY <2>2, <3>1, <3>4
        <2>3. CASE /\ state = "RELOAD" /\ bus = "idle" /\ isrQueue = <<>>
                   /\ OneOther(queue, Reload) /\ held # <<>> /\ made = <<>>
            BY <1>0, <2>3, ReportCount
        <2> QED BY <1>2, <2>1, <2>2, <2>3 DEF IInv, AtLoop
    <1> QED BY <1>0, <1>1, <1>2 DEF OneInFlight

\* Between two events exactly one thing will have a busy device continue, and
\* nothing an idle one, for any number of requests.
THEOREM DeviceContinues ==
    ASSUME ~PoolMayBeEmpty
    PROVE  Spec => []OneInFlight
    BY Invariance, InvImpliesOne, PTL

\* No client is told of success before its buffer was filled.
THEOREM SuccessHasData ==
    ASSUME ~PoolMayBeEmpty
    PROVE  Spec => []DataBeforeSuccess
    <1>1. IInv => DataBeforeSuccess
        BY DEF IInv
    <1> QED BY <1>1, Invariance, PTL

-----------------------------------------------------------------------------
(* The bus serves its requests as I2cService promises.                     *)

\* The requests to serve, as Service sees them.
Waiting == InHand \o held \o Queued(queue)

\* The queue of the requests' events is a queue of requests, and so are the
\* three parts of what waits.
LEMMA WaitingParts ==
    ASSUME IInv
    PROVE  /\ Queued(queue) \in Seq(Requests) /\ held \in Seq(Requests)
           /\ InHand \in Seq(Requests) /\ InHand \o held \in Seq(Requests)
           /\ NoOther(queue) \/ \E e \in Events : e.type # "request" /\ OneOther(queue, e)
    <1>0. TypeOK
        BY DEF IInv
    <1>1. NoOther(queue) \/ \E e \in Events : e.type # "request" /\ OneOther(queue, e)
        <2>1. CASE pc \in {"call", "respond", "next"}
            BY <2>1 DEF IInv, AtCall, AtRespond, AtNext, Quiet
        <2>2. CASE UnderWay
            BY <2>2, EventFacts DEF UnderWay, Running, Reported
        <2>3. CASE pc = "hold"
            BY <2>2, <2>3 DEF IInv, AtHold
        <2>4. CASE pc = "loop"
            BY <2>2, <2>4, EventFacts DEF IInv, AtLoop, Quiet
        <2> QED BY <1>0, <2>1, <2>3, <2>4 DEF TypeOK
    <1>2. Queued(queue) \in Seq(Requests)
        <2>1. CASE NoOther(queue)
            BY <1>0, <2>1, QueuedAll DEF TypeOK
        <2>2. ASSUME NEW e \in Events, e.type # "request", OneOther(queue, e)
              PROVE  Queued(queue) \in Seq(Requests)
            BY <1>0, <2>2, QueuedAround DEF OneOther, TypeOK
        <2> QED BY <1>1, <2>1, <2>2
    <1>3. InHand \in Seq(Requests)
        <2>1. CASE pc \in {"call", "hold", "respond"}
            <3>1. request \in Requests
                BY <2>1 DEF IInv, AtCall, AtHold, AtRespond, StateServes
            <3> QED BY <3>1 DEF InHand
        <2>2. CASE ~(pc \in {"call", "hold", "respond"})
            BY <2>2 DEF InHand
        <2> QED BY <2>1, <2>2
    <1>4. held \in Seq(Requests)
        BY <1>0 DEF TypeOK
    <1> QED BY <1>1, <1>2, <1>3, <1>4, ConcatProperties

\* While the device serves a request, that request is the oldest waiting one.
LEMMA HeadWaits ==
    ASSUME IInv, StateServes,
           \/ pc \in {"call", "respond"}
           \/ pc = "hold"
           \/ pc = "loop" /\ held # <<>> /\ Head(held) = request
    PROVE  Waiting # <<>> /\ Head(Waiting) = request
    <1>0. /\ Queued(queue) \in Seq(Requests) /\ held \in Seq(Requests)
          /\ InHand \in Seq(Requests) /\ InHand \o held \in Seq(Requests)
        BY WaitingParts
    <1>1. InHand \o held # <<>> /\ Head(InHand \o held) = request
        <2>1. CASE InHand = <<request>>
            <3>1. InHand # <<>> /\ Head(InHand) = request
                BY <2>1
            <3> QED BY <1>0, <3>1, ConcatHeadTail
        <2>2. CASE InHand = <<>> /\ held # <<>> /\ Head(held) = request
            BY <1>0, <2>2, ConcatEmptySeq
        <2>3. CASE pc = "hold"
            BY <2>1, <2>3 DEF IInv, AtHold, InHand
        <2>4. CASE pc \in {"call", "respond"}
            BY <2>1, <2>2, <2>4 DEF IInv, AtCall, AtRespond, HeldFits, InHand
        <2>5. CASE pc = "loop"
            BY <2>2, <2>5 DEF InHand
        <2> QED BY <2>3, <2>4, <2>5
    <1> QED BY <1>0, <1>1, ConcatHeadTail DEF Waiting

LEMMA NotInConcat ==
    ASSUME NEW S, NEW s \in Seq(S), NEW t \in Seq(S), NEW x,
           ~Contains(s, x), ~Contains(t, x)
    PROVE  ~Contains(s \o t, x)
    <1>1. /\ Len(s) \in Nat /\ Len(t) \in Nat /\ Len(s \o t) = Len(s) + Len(t)
          /\ \A i \in 1 .. Len(s) + Len(t) :
                (s \o t)[i] = IF i <= Len(s) THEN s[i] ELSE t[i - Len(s)]
        BY ConcatProperties, LenProperties
    <1> DEFINE z == s \o t
    <1> HIDE DEF z
    <1>2. ASSUME NEW i \in 1 .. Len(z) PROVE z[i] # x
        <2>1. i \in 1 .. Len(s) + Len(t) /\ z[i] = IF i <= Len(s) THEN s[i] ELSE t[i - Len(s)]
            BY <1>1, <1>2 DEF z
        <2>2. CASE i <= Len(s)
            BY <1>1, <2>1, <2>2 DEF Contains
        <2>3. CASE ~(i <= Len(s))
            <3>1. i - Len(s) \in 1 .. Len(t)
                BY <1>1, <2>1, <2>3
            <3> QED BY <2>1, <2>3, <3>1 DEF Contains
        <2> QED BY <2>2, <2>3
    <1> QED BY <1>2 DEF z, Contains

\* A request that is not asked yet does not wait.
LEMMA UnaskedDoesNotWait ==
    ASSUME IInv, NEW r \in Requests, Unasked(r), pc = "loop"
    PROVE  ~Contains(Waiting, r)
    <1>0. TypeOK
        BY DEF IInv
    <1>1. /\ Queued(queue) \in Seq(Requests) /\ held \in Seq(Requests)
          /\ InHand \in Seq(Requests) /\ InHand \o held \in Seq(Requests)
          /\ NoOther(queue) \/ \E e \in Events : e.type # "request" /\ OneOther(queue, e)
        BY WaitingParts
    <1>2. ~Contains(InHand, r)
        BY DEF InHand, Contains
    <1>3. Len(queue) \in Nat /\ DOMAIN queue = 1 .. Len(queue)
          /\ \A i \in 1 .. Len(queue) : queue[i] \in Events
        BY <1>0, LenProperties, ElementOfSeq DEF TypeOK
    <1>4. \A i \in 1 .. Len(queue) : queue[i].type = "request" => queue[i].req # r
        BY <1>3, EventKinds DEF Unasked, Contains
    <1>5. ~Contains(Queued(queue), r)
        <2>1. CASE NoOther(queue)
            BY <1>0, <1>3, <1>4, <2>1, QueuedAll DEF Contains, NoOther, TypeOK
        <2>2. ASSUME NEW e \in Events, e.type # "request", OneOther(queue, e)
              PROVE  ~Contains(Queued(queue), r)
            <3>1. PICK k \in DOMAIN queue : OtherAt(queue, e, k)
                BY <2>2 DEF OneOther
            <3>2. /\ Len(Queued(queue)) = Len(queue) - 1
                  /\ \A i \in 1 .. Len(queue) - 1 :
                        Queued(queue)[i] = queue[IF i < k THEN i ELSE i + 1].req
                BY <1>0, <2>2, <3>1, QueuedAround DEF TypeOK
            <3>3. ASSUME NEW i \in 1 .. Len(queue) - 1 PROVE Queued(queue)[i] # r
                <4> DEFINE j == IF i < k THEN i ELSE i + 1
                <4>1. j \in DOMAIN queue \ {k} /\ j \in 1 .. Len(queue)
                    BY <1>3
                <4>2. Queued(queue)[i] = queue[j].req
                    BY <3>2
                <4> HIDE DEF j
                <4>3. queue[j].type = "request"
                    BY <3>1, <4>1 DEF OtherAt
                <4> QED BY <1>4, <4>1, <4>2, <4>3
            <3> QED BY <3>2, <3>3 DEF Contains
        <2> QED BY <1>1, <2>1, <2>2
    <1>6. ~Contains(held, r)
        BY DEF Unasked
    <1> QED BY <1>1, <1>2, <1>5, <1>6, NotInConcat DEF Waiting

\* The transfers made are a prefix of those asked for, which grows by one.
LEMMA NextTransfer ==
    ASSUME TypeOK, StateServes
    PROVE  After = SubSeq(todo[request], 1, Len(Before) + 1) /\ Before # todo[request]
    <1> DEFINE S == {"TX", "RX"}
               one == <<"TX">>
               two == <<"RX">>
               both == <<"TX", "RX">>
    <1>1. /\ one \in Seq(S) /\ Len(one) = 1 /\ one[1] = "TX"
          /\ two \in Seq(S) /\ Len(two) = 1 /\ two[1] = "RX"
          /\ both \in Seq(S) /\ Len(both) = 2 /\ both[1] = "TX" /\ both[2] = "RX"
          /\ Len(<<>>) = 0
        OBVIOUS
    <1>2. Before # todo[request]
        BY TransferFacts DEF StateServes, Before
    <1> HIDE DEF one, two, both
    <1>3. ASSUME NEW s \in Seq(S), NEW n \in 1 .. Len(s)
          PROVE  /\ SubSeq(s, 1, n) \in Seq(S) /\ Len(SubSeq(s, 1, n)) = n
                 /\ \A i \in 1 .. n : SubSeq(s, 1, n)[i] = s[i]
        BY SubSeqProperties, LenProperties
    <1>4. SubSeq(one, 1, 1) = one /\ SubSeq(two, 1, 1) = two
        BY <1>1, <1>3, SeqEqual
    <1>5. SubSeq(both, 1, 1) = one
        <2>1. /\ SubSeq(both, 1, 1) \in Seq(S) /\ Len(SubSeq(both, 1, 1)) = 1
              /\ SubSeq(both, 1, 1)[1] = "TX"
            BY <1>1, <1>3
        <2> QED BY <1>1, <2>1, SeqEqual
    <1>6. SubSeq(both, 1, 2) = both
        BY <1>1, <1>3, SeqEqual
    <1>7. /\ state = "TX" => todo[request] = one /\ Before = <<>> /\ After = one
          /\ state = "TX_RX" => todo[request] = both /\ Before = <<>> /\ After = one
          /\ state = "RX" => \/ todo[request] = two /\ Before = <<>> /\ After = two
                             \/ todo[request] = both /\ Before = one /\ After = both
        BY TransferFacts DEF StateServes, Before, After, one, two, both
    <1>8. state \in {"TX", "RX", "TX_RX"}
        BY DEF StateServes
    <1> HIDE DEF S
    <1>9. Len(<<>>) + 1 = 1 /\ Len(one) + 1 = 2
        BY <1>1
    <1>10. After = SubSeq(todo[request], 1, Len(Before) + 1)
        <2>1. CASE Before = <<>>
            BY <1>1, <1>4, <1>5, <1>7, <1>8, <1>9, <2>1
        <2>2. CASE Before # <<>>
            BY <1>6, <1>7, <1>8, <1>9, <2>2
        <2> QED BY <2>1, <2>2
    <1> QED BY <1>2, <1>10

\* The transfer the state names, once made, is the next one of the request
\* that has waited longest.
LEMMA TransferIsNext ==
    ASSUME IInv, StateServes, made = Before, made' = After, UNCHANGED <<todo, answer>>,
           Waiting' = Waiting, Waiting # <<>>, Head(Waiting) = request
    PROVE  Service!Transfer
    <1>1. TypeOK
        BY DEF IInv
    <1>2. made' = SubSeq(todo[request], 1, Len(made) + 1) /\ made # todo[request]
        BY <1>1, NextTransfer
    <1> QED BY <1>2 DEF Service!Transfer, Waiting

LEMMA RefineInit == Init => Service!Init
    <1> SUFFICES ASSUME Init PROVE Service!Init
        OBVIOUS
    <1>1. queue \in Seq(Events) /\ NoOther(queue) /\ Len(queue) = 0
        BY DEF Init, NoOther
    <1>2. Queued(queue) \in Seq(Requests) /\ Len(Queued(queue)) = 0
        BY <1>1, QueuedAll
    <1>3. Queued(queue) = <<>>
        BY <1>2, EmptySeq
    <1>4. InHand = <<>> /\ held = <<>>
        BY DEF Init, InHand
    <1>5. Waiting = <<>>
        BY <1>3, <1>4 DEF Waiting
    <1> QED BY <1>5 DEF Init, Service!Init, Transfers, Service!Transfers, Waiting

\* A client's call is the request asked.
LEMMA RefineMakeRequest ==
    ASSUME IInv, NEW r \in Requests, MakeRequest(r)
    PROVE  Service!Ask(r)
    <1>0. TypeOK /\ pc = "loop" /\ Unasked(r)
        BY DEF IInv, MakeRequest
    <1>1. /\ Queued(queue) \in Seq(Requests) /\ held \in Seq(Requests)
          /\ InHand \in Seq(Requests) /\ InHand \o held \in Seq(Requests)
          /\ NoOther(queue) \/ \E e \in Events : e.type # "request" /\ OneOther(queue, e)
        BY WaitingParts
    <1>2. Queued(queue') = Append(Queued(queue), r)
        BY <1>0, <1>1, AppendRequest DEF MakeRequest, TypeOK
    <1>3. InHand' = InHand /\ held' = held
        BY DEF MakeRequest, InHand, device, handler
    <1>4. Waiting' = Append(Waiting, r)
        BY <1>1, <1>2, <1>3, ConcatAppend, SMTT(30) DEF Waiting
    <1>5. ~Contains(Waiting, r)
        BY <1>0, UnaskedDoesNotWait
    <1>6. answer[r] = "none" /\ UNCHANGED <<todo, made, answer>>
        BY <1>0 DEF MakeRequest, Unasked, history
    <1> QED BY <1>4, <1>5, <1>6 DEF Service!Ask, Service!Contains, Contains, Waiting

\* A request that is taken keeps its place among those that wait.
LEMMA RefineTakeRequest ==
    ASSUME IInv, ~PoolMayBeEmpty, TakeRequest
    PROVE  UNCHANGED <<todo, Waiting, made, answer>>
    <1> DEFINE r == Head(queue).req
    <1>0. /\ TypeOK /\ pc = "loop" /\ queue # <<>> /\ Head(queue).type = "request"
          /\ queue' = Tail(queue) /\ todo' = todo
        BY DEF IInv, TakeRequest
    <1>1. /\ Queued(queue) \in Seq(Requests) /\ held \in Seq(Requests)
          /\ NoOther(queue) \/ \E e \in Events : e.type # "request" /\ OneOther(queue, e)
        BY WaitingParts
    <1>2. Queued(queue) # <<>> /\ Head(Queued(queue)) = r /\ Tail(Queued(queue)) = Queued(queue')
        BY <1>0, <1>1, TakeRequestFacts DEF TypeOK
    <1>3. InHand = <<>>
        BY <1>0 DEF InHand
    <1>4. Append(held, r) \o Queued(queue') = held \o Queued(queue)
        BY <1>1, <1>2, ConcatMove
    <1>5. InHand \o held = held
        BY <1>1, <1>3, ConcatEmptySeq
    <1>6. state # "PANIC"
        BY <1>0 DEF IInv, AtLoop, StateServes
    <1>7. r \in Requests /\ Append(held, r) \in Seq(Requests)
        BY <1>0, <1>1, HeadTailProperties, EventFacts, AppendProperties DEF TypeOK
    <1>8. CASE Wait(r)
        <2>1. held' = Append(held, r) /\ UNCHANGED <<made, answer>> /\ InHand' = <<>>
            BY <1>0, <1>8 DEF Wait, history, handler, InHand
        <2>2. InHand' \o held' = held'
            BY <1>7, <2>1, ConcatEmptySeq
        <2>3. Waiting' = Waiting
            BY <1>4, <1>5, <2>1, <2>2 DEF Waiting
        <2> QED BY <1>0, <2>1, <2>3
    <1>9. CASE StartAtOnce(r)
        <2>1. held' = held /\ UNCHANGED <<made, answer>> /\ InHand' = <<r>>
            BY <1>9 DEF StartAtOnce, Start, history, InHand
        <2>2. held = <<>>
            BY <1>0, <1>9 DEF StartAtOnce, IInv, AtLoop, StateServes
        <2>3. InHand' \o held' = Append(held, r)
            <3>1. <<r>> \in Seq(Requests) /\ Append(held, r) = <<r>>
                BY <1>7, <2>2, TransferFacts
            <3> QED BY <2>1, <2>2, <3>1, ConcatEmptySeq
        <2>4. Waiting' = Waiting
            BY <1>4, <1>5, <2>3 DEF Waiting
        <2> QED BY <1>0, <2>1, <2>4
    <1> QED BY <1>6, <1>8, <1>9 DEF TakeRequest, AnswerPanic

\* A driver that completes at once makes the transfer; any other has yet to.
LEMMA RefineCallDriver ==
    ASSUME IInv, CallDriver
    PROVE  Service!Transfer \/ UNCHANGED <<todo, Waiting, made, answer>>
    <1>0. /\ TypeOK /\ pc = "call" /\ StateServes /\ made = Before
          /\ UNCHANGED <<todo, request, queue, isrQueue, held, caller>>
        BY DEF IInv, AtCall, CallDriver
    <1>1. InHand' = InHand
        BY <1>0 DEF CallDriver, TransferStarts, TransferRefused, TransferMadeAtOnce, InHand
    <1>2. Waiting' = Waiting
        BY <1>0, <1>1 DEF Waiting
    <1>3. CASE TransferMadeAtOnce
        <2>1. made' = After /\ answer' = answer
            BY <1>0, <1>3, Progress DEF TransferMadeAtOnce
        <2>2. Waiting # <<>> /\ Head(Waiting) = request
            BY <1>0, HeadWaits
        <2> QED BY <1>0, <1>2, <2>1, <2>2, TransferIsNext
    <1>4. CASE TransferStarts \/ TransferRefused
        BY <1>0, <1>2, <1>4 DEF TransferStarts, TransferRefused, history
    <1> QED BY <1>3, <1>4 DEF CallDriver

\* The response that is delayed is that of the only request served.
LEMMA RefineDelayResponse ==
    ASSUME IInv, ~PoolMayBeEmpty, DelayResponse
    PROVE  UNCHANGED <<todo, Waiting, made, answer>>
    <1>0. /\ pc = "hold" /\ held = <<>> /\ caller = "request" /\ request \in Requests
          /\ held' = Append(held, request) /\ pc' = "loop"
          /\ UNCHANGED <<todo, queue, made, answer>>
        BY DEF IInv, AtHold, StateServes, DelayResponse, history
    <1>1. InHand = <<request>> /\ InHand' = <<>> /\ held' = <<request>>
        BY <1>0, TransferFacts DEF InHand
    <1>2. <<request>> \in Seq(Requests)
        BY <1>0
    <1>3. InHand' \o held' = InHand \o held
        BY <1>0, <1>1, <1>2, ConcatEmptySeq
    <1> QED BY <1>0, <1>3 DEF Waiting

\* An answer goes to the request that has waited longest.
LEMMA RefineRespond ==
    ASSUME IInv, ~PoolMayBeEmpty, Respond
    PROVE  Service!Answer(drvStatus) /\ drvStatus \in Results
    <1>0. /\ TypeOK /\ pc = "respond" /\ StateServes /\ Quiet /\ HeldFits
          /\ drvStatus = "SUCCESS" => made = todo[request]
          /\ UNCHANGED <<todo, request, caller>>
        BY DEF IInv, AtRespond, Respond
    <1>1. /\ Queued(queue) \in Seq(Requests) /\ held \in Seq(Requests)
          /\ InHand \in Seq(Requests) /\ InHand \o held \in Seq(Requests)
        BY WaitingParts
    <1>2. Waiting # <<>> /\ Head(Waiting) = request
        BY <1>0, HeadWaits
    <1>3. answer' = [answer EXCEPT ![request] = drvStatus] /\ made' = <<>>
        BY <1>0 DEF Respond, RespondAtOnce, RespondToCaller, RespondAndReload, Tell, HeldFits
    <1>4. CASE RespondAtOnce
        <2>1. /\ InHand = <<request>> /\ held = <<>> /\ InHand' = <<>>
              /\ held' = held /\ queue' = queue
            BY <1>0, <1>4 DEF RespondAtOnce, HeldFits, InHand
        <2>2. /\ InHand \o held # <<>> /\ Tail(InHand \o held) = Tail(InHand) \o held
              /\ Tail(InHand) = <<>>
            <3>1. InHand # <<>> /\ Tail(InHand) = <<>>
                BY <2>1
            <3> QED BY <1>1, <3>1, ConcatHeadTail
        <2>3. Tail(Waiting) = Tail(InHand \o held) \o Queued(queue)
            BY <1>1, <2>2, ConcatHeadTail, ZenonT(30) DEF Waiting
        <2>4. Waiting' = Tail(Waiting)
            BY <2>1, <2>2, <2>3 DEF Waiting
        <2> QED BY <1>0, <1>2, <1>3, <2>4 DEF Service!Answer, Waiting, TypeOK
    <1>5. CASE RespondToCaller \/ RespondAndReload
        <2>1. /\ InHand = <<>> /\ held # <<>> /\ InHand' = <<>> /\ held' = Tail(held)
            BY <1>0, <1>5 DEF RespondToCaller, RespondAndReload, HeldFits, InHand
        <2>2. Queued(queue') = Queued(queue)
            <3>1. queue' = queue \/ queue' = Append(queue, Reload)
                BY <1>5 DEF RespondToCaller, RespondAndReload, PutReload
            <3>2. Queued(Append(queue, Reload)) = Queued(queue)
                BY <1>0, AppendOther, EventFacts DEF Quiet, TypeOK
            <3> QED BY <3>1, <3>2
        <2>3. InHand \o held = held /\ InHand' \o held' = Tail(held) /\ Tail(held) \in Seq(Requests)
            BY <1>1, <2>1, ConcatEmptySeq, HeadTailProperties
        <2>4. Tail(Waiting) = Tail(held) \o Queued(queue)
            BY <1>1, <2>1, <2>3, ConcatHeadTail DEF Waiting
        <2>5. Waiting' = Tail(Waiting)
            BY <2>2, <2>3, <2>4 DEF Waiting
        <2> QED BY <1>0, <1>2, <1>3, <2>5 DEF Service!Answer, Waiting, TypeOK
    <1> QED BY <1>4, <1>5 DEF Respond

\* The interrupt makes the transfer, unless it was aborted.
LEMMA RefineI2cIsr ==
    ASSUME IInv, I2cIsr
    PROVE  Service!Transfer \/ UNCHANGED <<todo, Waiting, made, answer>>
    <1>0. /\ TypeOK /\ bus # "idle" /\ (TransferSucceeds \/ TransferAborts)
          /\ UNCHANGED <<todo, device, queue, handler, answer>>
        BY DEF IInv, I2cIsr
    <1>1. Running /\ StateServes /\ pc \in {"loop", "hold"}
        BY <1>0, IsrFinds
    <1>2. Waiting' = Waiting
        BY <1>0 DEF Waiting, InHand, device, handler
    <1>3. CASE TransferSucceeds
        <2>1. made = Before /\ made' = After
            BY <1>0, <1>1, <1>3, Progress DEF TransferSucceeds, Running
        <2>2. pc = "loop" => held # <<>> /\ Head(held) = request
            BY <1>0, <1>1 DEF IInv, AtLoop, StateServes, Quiet
        <2>3. Waiting # <<>> /\ Head(Waiting) = request
            BY <1>1, <2>2, HeadWaits
        <2> QED BY <1>0, <1>1, <1>2, <2>1, <2>3, TransferIsNext
    <1>4. CASE TransferAborts
        BY <1>0, <1>2, <1>4 DEF TransferAborts
    <1> QED BY <1>0, <1>3, <1>4

\* The other steps change nothing that the service shows.
LEMMA RefineOthers ==
    ASSUME IInv, ProcessNext \/ TakeReload \/ TakeCompleted \/ TakeIsrEvent
    PROVE  UNCHANGED <<todo, Waiting, made, answer>>
    <1>0. TypeOK /\ UNCHANGED <<todo, held, made, answer>>
        BY DEF IInv, ProcessNext, TakeReload, TakeCompleted, TakeIsrEvent, history, device
    <1>1. InHand = <<>> /\ InHand' = <<>>
        BY DEF ProcessNext, Start, TakeReload, TakeCompleted, TakeIsrEvent, handler, InHand
    <1>2. Queued(queue') = Queued(queue)
        <2>1. CASE ProcessNext
            BY <2>1 DEF ProcessNext
        <2>2. CASE TakeIsrEvent
            BY <2>2, TakeIsrEventStep
        <2>3. CASE TakeCompleted
            BY <2>3, CompletedFinds DEF TakeCompleted
        <2>4. CASE TakeReload
            <3>1. NoOther(queue) \/ \E e \in Events : e.type # "request" /\ OneOther(queue, e)
                BY WaitingParts
            <3>2. ~NoOther(queue)
                <4>1. queue # <<>> /\ Head(queue).type # "request"
                    BY <2>4 DEF TakeReload
                <4>2. 1 \in DOMAIN queue /\ Head(queue) = queue[1]
                    BY <1>0, <4>1, EmptySeq, LenProperties DEF TypeOK
                <4> QED BY <4>1, <4>2 DEF NoOther
            <3> QED BY <1>0, <2>4, <3>1, <3>2, TakeOther DEF TakeReload, TypeOK
        <2> QED BY <2>1, <2>2, <2>3, <2>4
    <1> QED BY <1>0, <1>1, <1>2 DEF Waiting

LEMMA RefineStep ==
    ASSUME IInv, ~PoolMayBeEmpty, [Next]_vars
    PROVE  [Service!Next]_(Service!vars)
    <1>1. ASSUME UNCHANGED <<todo, Waiting, made, answer>>
          PROVE  [Service!Next]_(Service!vars)
        BY <1>1 DEF Service!vars, Waiting
    <1>2. CASE UNCHANGED vars
        <2>1. UNCHANGED <<todo, Waiting, made, answer>>
            BY <1>2 DEF vars, device, handler, driver, history, Waiting, InHand
        <2> QED BY <1>1, <2>1
    <1>3. ASSUME NEW r \in Requests, MakeRequest(r) PROVE [Service!Next]_(Service!vars)
        BY <1>3, RefineMakeRequest DEF Service!Next
    <1>4. CASE TakeRequest \/ DelayResponse
        BY <1>1, <1>4, RefineTakeRequest, RefineDelayResponse
    <1>5. CASE CallDriver \/ I2cIsr
        BY <1>1, <1>5, RefineCallDriver, RefineI2cIsr DEF Service!Next
    <1>6. CASE Respond
        BY <1>6, RefineRespond DEF Service!Next, Results
    <1>7. CASE ProcessNext \/ TakeReload \/ TakeCompleted \/ TakeIsrEvent
        BY <1>1, <1>7, RefineOthers
    <1> QED BY <1>2, <1>3, <1>4, <1>5, <1>6, <1>7 DEF Next, Thread

\* The bus serves the requests one at a time, in the order they were made,
\* each by the transfers it names, and answers each once: the "Concurrent
\* accesses" of i2c/doc, for any number of requests.
THEOREM BusServes ==
    ASSUME ~PoolMayBeEmpty
    PROVE  Spec => ImplementsService
    <1>1. IInv /\ [Next]_vars => [Service!Next]_(Service!vars)
        BY RefineStep
    <1> QED BY <1>1, RefineInit, Invariance, PTL DEF Spec, ImplementsService, Service!Spec

===============================================================================
