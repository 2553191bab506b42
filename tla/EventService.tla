----------------------------- MODULE EventService -----------------------------
(***************************************************************************)
(* What the framework promises the modules that exchange events, without   *)
(* event structures, cookies or the steps of put_event: a message raised   *)
(* by the thread or by an interrupt handler is delivered once, in the      *)
(* order of its queue, one message being served at a time; a message that  *)
(* asks for a response gets at most one, at once or later from the entity  *)
(* that was asked; and a response is lost only when Capacity messages are  *)
(* already in the service.                                                 *)
(*                                                                         *)
(* FwkCore implements it with Capacity event structures.                   *)
(***************************************************************************)
EXTENDS Naturals, SequencesExt

CONSTANTS
    Entities,  \* The modules and elements that exchange messages.
    Capacity,  \* How many messages the service can hold.
    None       \* No message.

VARIABLES
    queue,     \* messages to serve, oldest first
    isrQueue,  \* messages from interrupt handlers, oldest first
    serving,   \* the message being served, or None
    settled,   \* whether the message being served has got its response
    posting,   \* the message the thread is putting in the queue, or None
    owed       \* owed[e]: responses entity e has still to give, oldest first

vars == <<queue, isrQueue, serving, settled, posting, owed>>

Message == [source: Entities, target: Entities, isResponse: BOOLEAN,
            responseRequested: BOOLEAN]

Answer(m) == [source |-> m.target, target |-> m.source, isResponse |-> TRUE,
              responseRequested |-> FALSE]

Count(m) == IF m = None THEN 0 ELSE 1

\* The responses entities have still to give, each by its place.
Owed == UNION {{e} \X DOMAIN owed[e] : e \in Entities}

\* The messages in the service.
Load == Len(queue) + Len(isrQueue) + Count(serving) + Count(posting)
        + Cardinality(Owed)

Init ==
    /\ queue = <<>>
    /\ isrQueue = <<>>
    /\ serving = None
    /\ settled = FALSE
    /\ posting = None
    /\ owed = [e \in Entities |-> <<>>]

\* The thread raises a message on behalf of an entity: the target of the
\* message being served, if there is one.
Raise(m) ==
    /\ posting = None /\ Load < Capacity /\ ~settled
    /\ ~m.isResponse
    /\ serving # None => m.source = serving.target
    /\ posting' = m
    /\ UNCHANGED <<queue, isrQueue, serving, settled, owed>>

Post ==
    /\ posting # None
    /\ queue' = Append(queue, posting)
    /\ posting' = None
    /\ UNCHANGED <<isrQueue, serving, settled, owed>>

\* A light message is queued in one step.
RaiseAndPost(m) ==
    /\ posting = None /\ Load < Capacity /\ ~settled
    /\ ~m.isResponse
    /\ serving # None => m.source = serving.target
    /\ queue' = Append(queue, m)
    /\ UNCHANGED <<isrQueue, serving, settled, posting, owed>>

RaiseFromIsr(m) ==
    /\ Load < Capacity
    /\ ~m.isResponse /\ ~m.responseRequested
    /\ isrQueue' = Append(isrQueue, m)
    /\ UNCHANGED <<queue, serving, settled, posting, owed>>

\* An interrupt handler's message is moved when no thread message waits.
Transfer ==
    /\ queue = <<>> /\ isrQueue # <<>> /\ serving = None
    /\ queue' = <<Head(isrQueue)>>
    /\ isrQueue' = Tail(isrQueue)
    /\ UNCHANGED <<serving, settled, posting, owed>>

Serve ==
    /\ serving = None /\ queue # <<>>
    /\ serving' = Head(queue)
    /\ queue' = Tail(queue)
    /\ UNCHANGED <<isrQueue, settled, posting, owed>>

\* The response: none when none was asked for, posted, kept for later, or
\* lost when the service is full.
Settle ==
    /\ serving # None /\ ~settled /\ posting = None
    /\ settled' = TRUE
    /\ \/ /\ ~serving.responseRequested
          /\ UNCHANGED <<posting, owed>>
       \/ /\ serving.responseRequested /\ Load < Capacity
          /\ posting' = Answer(serving)
          /\ UNCHANGED owed
       \/ /\ serving.responseRequested /\ Load < Capacity
          /\ owed' = [owed EXCEPT ![serving.target] = Append(@, Answer(serving))]
          /\ UNCHANGED posting
       \/ /\ serving.responseRequested /\ Load = Capacity
          /\ UNCHANGED <<posting, owed>>
    /\ UNCHANGED <<queue, isrQueue, serving>>

\* An entity gives one of the responses it owes while it is being served.
GiveOwed ==
    /\ posting = None /\ serving # None /\ ~settled
    /\ \E i \in DOMAIN owed[serving.target] :
           /\ posting' = owed[serving.target][i]
           /\ owed' = [owed EXCEPT ![serving.target] = RemoveAt(@, i)]
    /\ UNCHANGED <<queue, isrQueue, serving, settled>>

Finish ==
    /\ settled /\ posting = None
    /\ serving' = None
    /\ settled' = FALSE
    /\ UNCHANGED <<queue, isrQueue, posting, owed>>

Next ==
    \/ \E m \in Message : Raise(m) \/ RaiseAndPost(m) \/ RaiseFromIsr(m)
    \/ Post \/ Transfer \/ Serve \/ Settle \/ GiveOwed \/ Finish

Spec == Init /\ [][Next]_vars

=============================================================================
