----------------------------- MODULE PldmEvents -----------------------------
(***************************************************************************)
(* The log of platform events of the management processor and its delivery *)
(* by the PLDM for platform monitoring protocol (module/pldm_fw/src/mcp.c  *)
(* and mod_pldm_fw.c).                                                     *)
(*                                                                         *)
(* Termini log events, which wait in a ring that discards the oldest one   *)
(* when it is full.  The receiver polls: it asks for the first part of the *)
(* next event, then for the other parts, and acknowledges the event, which *)
(* stays in the static variables of the handler until then.  Each handler  *)
(* is one action: the transport calls it for a message and sends what it   *)
(* returns.                                                                *)
(*                                                                         *)
(* The receiver and the transport are external: a request, its reply or    *)
(* the notice to poll may be lost, and a receiver that waits too long asks *)
(* again, once the reply cannot come any more.  Nobody repeats a notice.   *)
(* A byte is its event and its place in it.                                *)
(***************************************************************************)
EXTENDS Naturals, SequencesExt

CONSTANTS
    QueueSize,     \* EVENT_QUEUE_SIZE
    ReservedId,    \* 0xffff, which the ids of events do not reach
    ChecksumSize,  \* sizeof(checksum)
    TerminusMax,   \* event_terminus_max_buffer_size
    Sizes,         \* The sizes of events.
    Buffers,       \* The sizes of buffer the receiver may have.
    Preset,        \* How many events mcp_init logs.
    MaxEvents,     \* Bound: how many events are logged.
    MaxResizes,    \* Bound: how many times the receiver changes its buffer.
    MaxLosses      \* Bound: how many messages and notices are lost.

ASSUME PldmEventsAssumption ==
    /\ QueueSize \in Nat \ {0} /\ ReservedId \in Nat /\ ReservedId > QueueSize + 2
    /\ ChecksumSize \in Nat \ {0} /\ TerminusMax \in Nat
    /\ Sizes \subseteq Nat \ {0} /\ Sizes # {} /\ IsFiniteSet(Sizes) /\ Buffers \subseteq Nat
    /\ Preset \in 0 .. QueueSize /\ MaxEvents \in Nat /\ Preset <= MaxEvents
    /\ MaxResizes \in Nat /\ MaxLosses \in Nat

\* A part may hold the checksum.  With a smaller buffer the last part never
\* comes.
ASSUME BufferAssumption == \A b \in Buffers \cup {TerminusMax} : b >= ChecksumSize

VARIABLES
    ring,     \* pldm_fw_mcp_ctx.event_queue
    nextId,   \* event_queue_put's event_id
    event,    \* the handler's event_id, event_data and event_size
    bufferSize, \* event_receiver_max_buffer_size
    logged,   \* how many events have been logged
    notices,  \* framework events that tell the receiver to poll, to be handled
    requests, replies, \* the messages under way
    asked,    \* the receiver: the request it waits a reply for
    part,     \* the receiver: the bytes it has of an event
    got,      \* the receiver: the events it has received
    wake,     \* the receiver: whether it has been told to poll
    losses, resizes  \* bounds

receiver == <<asked, part, got, wake>>
pldmVars == <<ring, nextId, event, bufferSize, logged, notices, requests, replies,
              receiver, losses, resizes>>

Slots == 0 .. QueueSize - 1
NoEvent == [n |-> 0, id |-> 0, size |-> 0]
Event == [n: 0 .. MaxEvents, id: 0 .. ReservedId - 1, size: Sizes \cup {0}]

Request(op, handle, id) == [op |-> op, handle |-> handle, id |-> id]
Idle == Request("none", 0, 0)
First == Request("first", 0, 0)
Bytes == (1 .. MaxEvents) \X (1 .. Max(Sizes))

PldmTypeOK ==
    /\ ring \in [events: [Slots -> Event], head: Slots, tail: Slots,
                 length: 0 .. QueueSize]
    /\ nextId \in 1 .. ReservedId - 1
    /\ event \in Event
    /\ bufferSize \in Buffers \cup {TerminusMax}
    /\ logged \in 0 .. MaxEvents /\ notices \in Nat
    /\ Len(requests) + Len(replies) <= 1
    /\ asked.op \in {"none", "first", "next", "ack"}
    /\ part \in Seq(Bytes) /\ got \in Seq(Seq(Bytes))
    /\ wake \in BOOLEAN /\ losses \in 0 .. MaxLosses /\ resizes \in 0 .. MaxResizes

PldmInit ==
    /\ \E size \in [Slots -> Sizes] :
           ring = [events |-> [s \in Slots |->
                        IF s < Preset
                        THEN [n |-> s + 1, id |-> s + 1, size |-> size[s]]
                        ELSE NoEvent],
                    head |-> 0, tail |-> Preset % QueueSize, length |-> Preset]
    /\ nextId = Preset + 1
    /\ event = NoEvent
    /\ bufferSize = TerminusMax
    /\ logged = Preset /\ notices = 0
    /\ requests = <<>> /\ replies = <<>>
    /\ asked = Idle /\ part = <<>> /\ got = <<>>
    /\ wake = TRUE  \* the receiver polls when it finds the terminus
    /\ losses = 0 /\ resizes = 0

-----------------------------------------------------------------------------
Drop == losses < MaxLosses /\ losses' = losses + 1

\* event_queue_put: the ring and the ids.  The ids skip 0, for no event.
AfterId(id) == IF id + 1 = ReservedId THEN 1 ELSE id + 1

\* Variant: the newest event replaces the oldest one, which stays the first.
PutKeepHead(q, e) ==
    [events |-> [q.events EXCEPT ![q.tail] = e],
     head |-> q.head,
     tail |-> (q.tail + 1) % QueueSize,
     length |-> IF q.tail = q.head /\ q.length > 0 THEN q.length ELSE q.length + 1]

Put(q, e) ==
    LET full == q.tail = q.head /\ q.length > 0
    IN [events |-> [q.events EXCEPT ![q.tail] = e],
        head |-> IF full THEN (q.tail + 1) % QueueSize ELSE q.head,
        tail |-> (q.tail + 1) % QueueSize,
        length |-> IF full THEN q.length ELSE q.length + 1]

\* handle_pldm_platform_event_message_req: the event is logged and the
\* receiver is to be told, unless fwk_put_event finds no event structure.
LogEvent ==
    /\ logged < MaxEvents
    /\ \E s \in Sizes :
           ring' = Put(ring, [n |-> logged + 1, id |-> nextId, size |-> s])
    /\ nextId' = AfterId(nextId)
    /\ logged' = logged + 1
    /\ \/ notices' = notices + 1 /\ UNCHANGED losses
       \/ Drop /\ UNCHANGED notices
    /\ UNCHANGED <<event, bufferSize, requests, replies, receiver, resizes>>

\* pldm_fw_process_event sends the request to poll, which nobody answers, with
\* no look at the result: the transport may refuse or lose it.
NotifyReceiver ==
    /\ notices > 0
    /\ notices' = notices - 1
    /\ \/ wake' = TRUE /\ UNCHANGED losses
       \/ Drop /\ UNCHANGED wake
    /\ UNCHANGED <<ring, nextId, event, bufferSize, logged, requests, replies,
                   asked, part, got, resizes>>

\* handle_pldm_event_message_buffer_req
ResizeBuffer ==
    /\ resizes < MaxResizes
    /\ resizes' = resizes + 1
    /\ bufferSize' \in Buffers
    /\ UNCHANGED <<ring, nextId, event, logged, notices, requests, replies,
                   receiver, losses>>

-----------------------------------------------------------------------------
\* handle_pldm_poll_for_platform_event_message
MaxTransfer == Min({TerminusMax, bufferSize})

Reply(id, next, flag, bytes) ==
    [id |-> id, next |-> next, flag |-> flag, bytes |-> bytes]

BytesOf(e, from, size) == [i \in 1 .. size |-> <<e.n, from + i>>]

Respond(reply) ==
    /\ requests' = Tail(requests)
    /\ replies' = Append(replies, reply)
    /\ UNCHANGED <<nextId, bufferSize, logged, notices, receiver, losses, resizes>>

Handle(op) == requests # <<>> /\ Head(requests).op = op

FirstPart(e) ==
    CASE e.id = 0 -> Reply(0, 0, "start", <<>>)
      [] e.id # 0 /\ e.size >= MaxTransfer ->
             Reply(e.id, MaxTransfer, "start", BytesOf(e, 0, MaxTransfer))
      [] OTHER -> Reply(e.id, e.size, "start_and_end", BytesOf(e, 0, e.size))

\* event_queue_get, unless an event waits to be acknowledged
\* Variant: each poll for a first part takes the next event.
NextEventAlways ==
    IF ring.length = 0
    THEN event' = NoEvent /\ UNCHANGED ring
    ELSE /\ event' = ring.events[ring.head]
         /\ ring' = [ring EXCEPT !.head = (@ + 1) % QueueSize, !.length = @ - 1]

NextEvent ==
    IF event.id # 0
    THEN UNCHANGED <<event, ring>>
    ELSE IF ring.length = 0
    THEN event' = NoEvent /\ UNCHANGED ring
    ELSE /\ event' = ring.events[ring.head]
         /\ ring' = [ring EXCEPT !.head = (@ + 1) % QueueSize, !.length = @ - 1]

HandleFirst ==
    /\ Handle("first")
    /\ NextEvent
    /\ Respond(FirstPart(event'))

HandleNext ==
    /\ Handle("next")
    /\ LET handle == Head(requests).handle
           size == Min({event.size - handle, MaxTransfer})
       IN Respond(IF event.id = 0 \/ handle > event.size
                  THEN Reply(event.id, 0, "error", <<>>)
                  ELSE Reply(event.id, handle + size,
                             IF size + ChecksumSize <= MaxTransfer
                             THEN "end" ELSE "middle",
                             BytesOf(event, handle, size)))
    /\ UNCHANGED <<ring, event>>

\* The reply tells whether there is more to poll for.  The completion code, by
\* which a repeated acknowledgement is not valid, changes nothing for a receiver
\* that asks again.
\* Variant: the receiver is told of what comes later only.
MoreNever == 0

More == IF ring.length > 0 THEN ReservedId ELSE 0

HandleAck ==
    /\ Handle("ack")
    /\ event' = IF event.id = Head(requests).id THEN [event EXCEPT !.id = 0]
                                                ELSE event
    /\ Respond(Reply(More, 0, "start", <<>>))
    /\ UNCHANGED ring

-----------------------------------------------------------------------------
\* The receiver.
Ask(request) == asked' = request /\ requests' = Append(requests, request)

Poll ==
    /\ asked = Idle /\ wake
    /\ wake' = FALSE
    /\ Ask(First)
    /\ UNCHANGED <<ring, nextId, event, bufferSize, logged, notices, replies,
                   part, got, losses, resizes>>

\* A part of an event: the last one completes it.
TakePart(reply) ==
    LET bytes == (IF asked = First THEN <<>> ELSE part) \o reply.bytes
    IN IF reply.flag \in {"end", "start_and_end"}
       THEN /\ got' = Append(got, bytes) /\ part' = <<>>
            /\ Ask(Request("ack", 0, reply.id))
       ELSE /\ part' = bytes /\ UNCHANGED got
            /\ Ask(Request("next", reply.next, ReservedId))

Stop == asked' = Idle /\ UNCHANGED <<requests, part, got>>

TakeReply ==
    /\ replies # <<>>
    /\ replies' = Tail(replies)
    /\ LET reply == Head(replies)
       IN CASE asked.op \in {"first", "ack"} /\ reply.id = 0 -> Stop
            [] asked.op = "ack" /\ reply.id # 0 ->
                   Ask(First) /\ UNCHANGED <<part, got>>
            [] asked.op = "next" /\ reply.flag = "error" ->
                   Ask(First) /\ UNCHANGED <<part, got>>
            [] OTHER -> TakePart(reply)
    /\ UNCHANGED <<ring, nextId, event, bufferSize, logged, notices, wake, losses,
                   resizes>>

AskAgain ==
    /\ asked # Idle /\ requests = <<>> /\ replies = <<>>
    /\ Ask(asked)
    /\ UNCHANGED <<ring, nextId, event, bufferSize, logged, notices, replies,
                   part, got, wake, losses, resizes>>

Lose ==
    /\ Drop
    /\ \/ requests # <<>> /\ requests' = Tail(requests) /\ UNCHANGED replies
       \/ replies # <<>> /\ replies' = Tail(replies) /\ UNCHANGED requests
    /\ UNCHANGED <<ring, nextId, event, bufferSize, logged, notices, receiver,
                   resizes>>

-----------------------------------------------------------------------------
Terminus == HandleFirst \/ HandleNext \/ HandleAck

PldmNext == LogEvent \/ NotifyReceiver \/ ResizeBuffer \/ Terminus
            \/ Poll \/ TakeReply \/ AskAgain \/ Lose

PldmSpec == PldmInit /\ [][PldmNext]_pldmVars

\* The main loop handles messages and events, and the receiver keeps asking.
PldmFairSpec ==
    /\ PldmSpec
    /\ WF_pldmVars(Terminus) /\ WF_pldmVars(NotifyReceiver)
    /\ WF_pldmVars(Poll) /\ WF_pldmVars(TakeReply) /\ WF_pldmVars(AskAgain)

-----------------------------------------------------------------------------
Queued == [i \in 1 .. ring.length |->
              ring.events[(ring.head + i - 1) % QueueSize]]

\* The receiver gets the events whole, once and in order, although requests and
\* replies are lost and repeated and the ring drops its oldest event: one that
\* is being received stays with the handler until it is acknowledged.
Log == INSTANCE EventLog WITH
    Capacity <- QueueSize,
    backlog <- [i \in 1 .. ring.length |-> [n |-> Queued[i].n,
                                             size |-> Queued[i].size]],
    offered <- [n |-> IF event.id = 0 THEN 0 ELSE event.n,
                size |-> IF event.id = 0 THEN 0 ELSE event.size],
    given <- event.id # 0 /\ BytesOf(event, 0, event.size) \in Range(got),
    received <- got

ImplementsLog == Log!Spec

InLog(n) == n \in {Queued[i].n : i \in 1 .. ring.length}

\* One notice that reaches the receiver, or one event it is receiving, is enough
\* for all that is logged by then to be received or discarded, although it polls
\* only when it was told, is told nothing of the events that mcp_init logs, and
\* any other notice is lost: the reply to an acknowledgement has it poll again.
DeliveredOnceTold ==
    \A n \in 1 .. MaxEvents : InLog(n) /\ (wake \/ event.id # 0) ~> ~InLog(n)

\* Every event that is logged is received or discarded.  The code does not keep
\* this: it tells the receiver once, over a transport that may lose the notice.
EventuallyDelivered == \A n \in 1 .. MaxEvents : InLog(n) ~> ~InLog(n)
=============================================================================
