------------------------------ MODULE Transport -------------------------------
(***************************************************************************)
(* The completer's end of out-band transport channels                      *)
(* (module/transport/src/mod_transport.c), between the doorbells of an MHU *)
(* (module/mhu/src/mod_mhu.c) and the SCMI service                         *)
(* (module/scmi/src/mod_scmi.c).                                           *)
(*                                                                         *)
(* An agent on another processor writes a request in the shared mailbox    *)
(* and rings; the MHU's handler copies it and has the service signalled by *)
(* an event; the service, in the thread, answers at once or later.  A      *)
(* request of an impossible length is answered by the handler itself.      *)
(* Three actors interleave: the agents at any moment, the handler between  *)
(* any two steps of the thread, the thread when the handler is not active. *)
(*                                                                         *)
(* The agents, which are not part of this repository, keep to the          *)
(* mailbox's protocol: one writes only in a mailbox it owns.               *)
(***************************************************************************)
EXTENDS Integers, SequencesExt

CONSTANTS
    Channels,       \* The channels, named by their MHU slots.
    NoChannel,      \* No channel.
    IrqAgents,      \* The channels whose agent may ask for an interrupt on
                    \* completion.
    PollAgents,     \* The channels whose agent may poll the mailbox instead.
    BadLengths,     \* Whether agents may send a message whose length is wrong.
    Spurious,       \* Whether a doorbell may ring without a message.
    PoolMayBeFull   \* Whether the pool of events may be empty when the
                    \* handler signals the service.

ASSUME TransportAssumption ==
    /\ Channels \subseteq Nat /\ IsFiniteSet(Channels)
    /\ NoChannel \notin Channels
    /\ IrqAgents \cup PollAgents = Channels
    /\ BadLengths \in BOOLEAN /\ Spurious \in BOOLEAN
    /\ PoolMayBeFull \in BOOLEAN

VARIABLES
    mailbox,    \* mailbox[c]: the shared memory of channel c
    ready,      \* ready[c]: channel_ctx->out_band_mailbox_ready
    locked,     \* locked[c]: channel_ctx->locked
    in,         \* in[c]: the token of the message in the read buffer
    out,        \* out[c]: header, flags and status in the write buffer
    stat,       \* the slots whose doorbell is set in the MHU's STAT register
    queue,      \* the service's events, in order, each named by its channel
    deferred,   \* the channels whose answer a protocol module gives later
    result,     \* result[c]: the payload of the answer to give
    pc,         \* pc[a]: where the thread, or the interrupt handler, is
    subject,    \* subject[a]: the channel it is dealing with
    agent,      \* agent[c]: where the agent of channel c is
    asked,      \* asked[c]: the last request it made
    bell,       \* the channels whose agent has an interrupt pending
    discarded   \* history: the channels whose last rung request the handler
                \* discarded because the mailbox was not marked ready yet

channelVars == <<ready, locked, in, out>>
serviceVars == <<queue, deferred, result>>
actorVars == <<pc, subject>>
agentVars == <<agent, asked>>
vars == <<mailbox, channelVars, stat, serviceVars, actorVars, agentVars, bell,
          discarded>>

-----------------------------------------------------------------------------
Tokens == {0, 1}                    \* Bound: consecutive requests differ.
NoToken == 2
ProtocolError == 3                  \* SCMI_PROTOCOL_ERROR, as a payload
Payloads == Tokens \cup {NoToken, ProtocolError}

\* struct mod_transport_buffer: the status's FREE and ERROR bits, the flags'
\* IENABLED, whether the length is within limits, the header's token; and the
\* payload, named by the token of the request that is, or that it answers.
Buffer == [free : BOOLEAN, error : BOOLEAN, irq : BOOLEAN, fits : BOOLEAN,
           token : Tokens \cup {NoToken}, payload : Payloads]

\* The part of a buffer that goes through the write buffer.
Header == [error : BOOLEAN, irq : BOOLEAN, token : Tokens \cup {NoToken}]

Request == [token : Tokens, irq : BOOLEAN, fits : BOOLEAN]

Actors == {"thread", "isr"}
ThreadPCs == {"idle", "init", "copy", "free", "raise"}
IsrPCs == {"idle", "scan", "signal", "copy", "free", "raise", "clear"}

\* No channel has two events in the queue.
TypeOK ==
    /\ mailbox \in [Channels -> Buffer]
    /\ ready \in [Channels -> BOOLEAN]
    /\ locked \in [Channels -> BOOLEAN]
    /\ in \in [Channels -> Tokens \cup {NoToken}]
    /\ out \in [Channels -> Header]
    /\ stat \in SUBSET Channels
    /\ queue \in Seq(Channels)
    /\ IsInjective(queue)
    /\ deferred \in SUBSET Channels
    /\ result \in [Channels -> Payloads]
    /\ pc \in [Actors -> ThreadPCs \cup IsrPCs]
    /\ pc["thread"] \in ThreadPCs /\ pc["isr"] \in IsrPCs
    /\ subject \in [Actors -> Channels \cup {NoChannel}]
    /\ \A a \in Actors : pc[a] \in {"idle", "scan"} <=> subject[a] = NoChannel
    /\ agent \in [Channels -> {"idle", "posted", "waiting"}]
    /\ asked \in [Channels -> Request]
    /\ bell \in SUBSET Channels
    /\ discarded \in SUBSET Channels

\* Out of reset every status reads as busy: the agents wait.
Init ==
    /\ mailbox = [c \in Channels |->
                    [free |-> FALSE, error |-> FALSE, irq |-> FALSE,
                     fits |-> TRUE, token |-> NoToken, payload |-> NoToken]]
    /\ ready = [c \in Channels |-> FALSE]
    /\ locked = [c \in Channels |-> FALSE]
    /\ in = [c \in Channels |-> NoToken]
    /\ out = [c \in Channels |->
                [error |-> FALSE, irq |-> FALSE, token |-> NoToken]]
    /\ stat = {}
    /\ queue = <<>>
    /\ deferred = {}
    /\ result = [c \in Channels |-> NoToken]
    /\ pc = [a \in Actors |-> "idle"]
    /\ subject = [a \in Actors |-> NoChannel]
    /\ agent = [c \in Channels |-> "idle"]
    /\ asked = [c \in Channels |->
                  [token |-> 0, irq |-> FALSE, fits |-> TRUE]]
    /\ bell = {}
    /\ discarded = {}

-----------------------------------------------------------------------------
(* The actors.                                                             *)

\* The thread runs only while no interrupt handler does.
ThreadRuns == pc["isr"] = "idle"

\* The thread is between two events.
ThreadIdle == ThreadRuns /\ pc["thread"] = "idle"

Go(a, where, c) ==
    /\ pc' = [pc EXCEPT ![a] = where]
    /\ subject' = [subject EXCEPT ![a] = c]

\* Where an actor goes when it has answered: the thread's event is done, the
\* handler has yet to acknowledge the doorbell.
Answered(a, c) ==
    IF a = "thread" THEN Go(a, "idle", NoChannel) ELSE Go(a, "clear", c)

\* transport_mailbox_init, once the channel waits for no notification, gives
\* the mailbox to the agent, which may use it from here on.
InitMailbox(c) ==
    /\ ThreadIdle
    /\ ~ready[c]
    /\ mailbox' = [mailbox EXCEPT ![c] =
                     [free |-> TRUE, error |-> FALSE, irq |-> FALSE,
                      fits |-> TRUE, token |-> NoToken, payload |-> NoToken]]
    /\ Go("thread", "init", c)
    /\ UNCHANGED <<channelVars, stat, serviceVars, agentVars, bell, discarded>>

\* Only then does it let transport_signal_message take messages.
MailboxReady ==
    /\ ThreadRuns
    /\ pc["thread"] = "init"
    /\ ready' = [ready EXCEPT ![subject["thread"]] = TRUE]
    /\ Go("thread", "idle", NoChannel)
    /\ UNCHANGED <<mailbox, locked, in, out, stat, serviceVars, agentVars,
                   bell,
                   discarded>>

-----------------------------------------------------------------------------
(* The MHU's interrupt handler.                                            *)

\* A doorbell interrupts the thread.
IsrEnters ==
    /\ pc["isr"] = "idle"
    /\ stat # {}
    /\ pc' = [pc EXCEPT !["isr"] = "scan"]
    /\ UNCHANGED <<mailbox, channelVars, stat, serviceVars, subject, agentVars,
                   bell, discarded>>

\* mhu_isr's loop finds the lowest slot that is set, or none.
IsrScans ==
    /\ pc["isr"] = "scan"
    /\ \/ \E c \in stat : /\ \A d \in stat : c <= d
                          /\ Go("isr", "signal", c)
       \/ stat = {} /\ Go("isr", "idle", NoChannel)
    /\ UNCHANGED <<mailbox, channelVars, stat, serviceVars, agentVars, bell,
                   discarded>>

\* Mutant: it does not check the mailbox's status.
AcceptsUnowned(c) == ready[c] /\ ~locked[c]

\* transport_signal_message discards what comes before the mailbox is ready,
\* and transport_message_handler what comes while the channel is locked or the
\* mailbox is the agent's.
Accepts(c) == ready[c] /\ ~locked[c] /\ ~mailbox[c].free

\* The first of the two forgets a request written and rung between InitMailbox
\* and MailboxReady, and reports success.
Discard(c) ==
    discarded' = IF ~ready[c] /\ agent[c] = "waiting" THEN discarded \cup {c}
                 ELSE discarded \ {c}

IsrRefuses(c) ==
    /\ ~Accepts(c)
    /\ Go("isr", "clear", c)
    /\ UNCHANGED <<channelVars, serviceVars>>

\* Mutant: the write buffer is not mirrored from the read buffer.
LockAndCopyUnmirrored(c, error) ==
    /\ Accepts(c)
    /\ locked' = [locked EXCEPT ![c] = TRUE]
    /\ in' = [in EXCEPT ![c] = mailbox[c].token]
    /\ out' = [out EXCEPT ![c].error = error]
    /\ UNCHANGED ready

\* The channel is locked and the message is in both buffers.
LockAndCopy(c, error) ==
    /\ Accepts(c)
    /\ locked' = [locked EXCEPT ![c] = TRUE]
    /\ in' = [in EXCEPT ![c] = mailbox[c].token]
    /\ out' = [out EXCEPT ![c] = [error |-> error, irq |-> mailbox[c].irq,
                                  token |-> mailbox[c].token]]
    /\ UNCHANGED ready

\* A wrong length: the service's signal_error responds within the handler.
IsrSignalsError(c) ==
    /\ ~mailbox[c].fits
    /\ LockAndCopy(c, TRUE)
    /\ result' = [result EXCEPT ![c] = ProtocolError]
    /\ Go("isr", "copy", c)
    /\ UNCHANGED <<queue, deferred>>

\* The service's signal_message puts an event for the thread.
IsrSignalsMessage(c) ==
    /\ mailbox[c].fits
    /\ LockAndCopy(c, FALSE)
    /\ queue' = Append(queue, c)
    /\ Go("isr", "clear", c)
    /\ UNCHANGED <<deferred, result>>

\* signal_message's event finds no structure: the handler gives the message up,
\* and leaves the channel locked.
IsrFindsPoolFull(c) ==
    /\ PoolMayBeFull
    /\ mailbox[c].fits
    /\ LockAndCopy(c, FALSE)
    /\ Go("isr", "clear", c)
    /\ UNCHANGED serviceVars

IsrSignals ==
    /\ pc["isr"] = "signal"
    /\ \E c \in {subject["isr"]} :
         \/ IsrRefuses(c)
         \/ IsrSignalsError(c)
         \/ IsrSignalsMessage(c)
         \/ IsrFindsPoolFull(c)
    /\ Discard(subject["isr"])
    /\ UNCHANGED <<mailbox, stat, agentVars, bell>>

\* Mutant: all the doorbells that are set are acknowledged.
AcknowledgeAll(c) == stat' = {}

\* reg->CLEAR: the doorbell of this slot, whoever rang it last.
Acknowledge(c) == stat' = stat \ {c}

\* The slot is dealt with, and the loop goes on.
IsrClears ==
    /\ pc["isr"] = "clear"
    /\ Acknowledge(subject["isr"])
    /\ Go("isr", "scan", NoChannel)
    /\ UNCHANGED <<mailbox, channelVars, serviceVars, agentVars, bell,
                   discarded>>

-----------------------------------------------------------------------------
(* The service.                                                            *)

\* scmi_process_event, if the channel is locked: a protocol module answers
\* within the event, or leaves the answer for a later one.
Serve ==
    /\ ThreadIdle
    /\ queue # <<>>
    /\ \E c \in {Head(queue)}, now \in BOOLEAN :
         /\ queue' = Tail(queue)
         /\ result' = [result EXCEPT ![c] = in[c]]
         /\ deferred' = IF locked[c] /\ ~now THEN deferred \cup {c}
                        ELSE deferred
         /\ IF locked[c] /\ now THEN Go("thread", "copy", c)
            ELSE UNCHANGED actorVars
    /\ UNCHANGED <<mailbox, channelVars, stat, agentVars, bell, discarded>>

\* A later event lets the protocol module respond.
AnswerDeferred(c) ==
    /\ ThreadIdle
    /\ c \in deferred
    /\ deferred' = deferred \ {c}
    /\ Go("thread", "copy", c)
    /\ UNCHANGED <<mailbox, channelVars, stat, queue, result, agentVars, bell,
                   discarded>>

-----------------------------------------------------------------------------
(* transport_respond, called in the thread or in the handler.              *)

Responding(a, where) == pc[a] = where /\ (a = "thread" => ThreadRuns)

\* The write buffer and the payload are copied to the mailbox, whose status
\* stays busy.
CopyResponse(a) ==
    /\ Responding(a, "copy")
    /\ \E c \in {subject[a]} :
         /\ mailbox' = [mailbox EXCEPT ![c] =
                          [free |-> FALSE, error |-> out[c].error,
                           irq |-> out[c].irq, fits |-> @.fits,
                           token |-> out[c].token, payload |-> result[c]]]
         /\ Go(a, "free", c)
    /\ UNCHANGED <<channelVars, stat, serviceVars, agentVars, bell, discarded>>

\* Mutant: the channel is not unlocked.
KeepLocked(c) == UNCHANGED locked

Unlock(c) == locked' = [locked EXCEPT ![c] = FALSE]

\* Mutant: the FREE bit is not set.
GiveBackLengthOnly(c) == mailbox' = [mailbox EXCEPT ![c].fits = TRUE]

\* The length and the FREE bit.
GiveBack(c) ==
    mailbox' = [mailbox EXCEPT ![c].free = TRUE, ![c].fits = TRUE]

\* With interrupts disabled, the channel is unlocked and the mailbox is given
\* back to the agent.
FreeMailbox(a) ==
    /\ Responding(a, "free")
    /\ \E c \in {subject[a]} :
         /\ Unlock(c)
         /\ GiveBack(c)
         /\ Go(a, "raise", c)
    /\ UNCHANGED <<ready, in, out, stat, serviceVars, agentVars, bell,
                   discarded>>

\* The flags of the mailbox, which may hold another message by now, say
\* whether the agent is interrupted.
RaiseInterrupt(a) ==
    /\ Responding(a, "raise")
    /\ \E c \in {subject[a]} :
         /\ bell' = IF mailbox[c].irq THEN bell \cup {c} ELSE bell
         /\ Answered(a, c)
    /\ UNCHANGED <<mailbox, channelVars, stat, serviceVars, agentVars,
                   discarded>>

-----------------------------------------------------------------------------
(* The agents.                                                             *)

\* The agent writes a request in the mailbox it owns, its status last.
AgentPosts(c) ==
    /\ agent[c] = "idle"
    /\ mailbox[c].free
    /\ \E irq \in BOOLEAN, fits \in {TRUE, ~BadLengths} :
         LET token == 1 - asked[c].token IN
         /\ c \in (IF irq THEN IrqAgents ELSE PollAgents)
         /\ asked' = [asked EXCEPT ![c] =
                        [token |-> token, irq |-> irq, fits |-> fits]]
         /\ mailbox' = [mailbox EXCEPT ![c] =
                          [free |-> FALSE, error |-> FALSE, irq |-> irq,
                           fits |-> fits, token |-> token, payload |-> token]]
    /\ agent' = [agent EXCEPT ![c] = "posted"]
    /\ UNCHANGED <<channelVars, stat, serviceVars, actorVars, bell, discarded>>

\* It rings the doorbell.
AgentRings(c) ==
    /\ agent[c] = "posted"
    /\ stat' = stat \cup {c}
    /\ agent' = [agent EXCEPT ![c] = "waiting"]
    /\ UNCHANGED <<mailbox, channelVars, serviceVars, actorVars, asked, bell,
                   discarded>>

\* It takes the answer when it finds the mailbox its own, which it looks at when
\* interrupted or all the time, as it asked.
AgentCollects(c) ==
    /\ agent[c] = "waiting"
    /\ mailbox[c].free
    /\ asked[c].irq => c \in bell
    /\ agent' = [agent EXCEPT ![c] = "idle"]
    /\ bell' = bell \ {c}
    /\ UNCHANGED <<mailbox, channelVars, stat, serviceVars, actorVars, asked,
                   discarded>>

\* It is interrupted and finds the mailbox the completer's, or nothing to take.
AgentIgnores(c) ==
    /\ c \in bell
    /\ agent[c] = "waiting" => ~mailbox[c].free
    /\ bell' = bell \ {c}
    /\ UNCHANGED <<mailbox, channelVars, stat, serviceVars, actorVars,
                   agentVars, discarded>>

\* A doorbell rings that nobody meant.
DoorbellGlitch(c) ==
    /\ Spurious
    /\ stat' = stat \cup {c}
    /\ UNCHANGED <<mailbox, channelVars, serviceVars, actorVars, agentVars,
                   bell, discarded>>

-----------------------------------------------------------------------------
Respond(a) == CopyResponse(a) \/ FreeMailbox(a) \/ RaiseInterrupt(a)

Isr == IsrEnters \/ IsrScans \/ IsrSignals \/ IsrClears \/ Respond("isr")

Thread ==
    \/ \E c \in Channels : InitMailbox(c) \/ AnswerDeferred(c)
    \/ MailboxReady
    \/ Serve
    \/ Respond("thread")

Agents ==
    \E c \in Channels :
        \/ AgentPosts(c)
        \/ AgentRings(c)
        \/ AgentCollects(c)
        \/ AgentIgnores(c)
        \/ DoorbellGlitch(c)

Next == Isr \/ Thread \/ Agents

Spec == Init /\ [][Next]_vars

\* The handler, once entered, runs to its end, and a doorbell that is set
\* interrupts the thread.  The thread runs on whenever handlers let it, and takes
\* events in their order, so that an answer left for later is given.  Agents
\* ring, and take their answers.  Nothing makes them ask.
Fairness ==
    /\ WF_vars(Isr)
    /\ SF_vars(MailboxReady) /\ SF_vars(Serve) /\ SF_vars(Respond("thread"))
    /\ \A c \in Channels :
         /\ SF_vars(InitMailbox(c))
         /\ SF_vars(AnswerDeferred(c))
         /\ WF_vars(AgentRings(c))
         /\ WF_vars(AgentCollects(c))

FairSpec == Spec /\ Fairness

-----------------------------------------------------------------------------
(* Properties.                                                             *)

\* The service still has to answer on channel c: an event is queued, a protocol
\* module owes an answer, or a transport_respond has not unlocked it yet.
InService(c) ==
    \/ c \in Range(queue)
    \/ c \in deferred
    \/ \E a \in Actors : subject[a] = c /\ pc[a] \in {"copy", "free"}

\* Who is to answer on a channel has it locked, and the mailbox is then the
\* completer's.
LockHeld ==
    \A c \in Channels :
        /\ InService(c) => locked[c]
        /\ locked[c] => ready[c] /\ ~mailbox[c].free

\* A channel is locked only until the bound service completes processing its
\* message (mod_transport.c:663-667).
LockReleased == \A c \in Channels : locked[c] => InService(c)

\* A channel is locked exactly while a message is in service on it: no second
\* message gets in, none is left behind (transport_message_handler,
\* transport_respond).
LockMatchesService == LockHeld /\ LockReleased

\* A request whose doorbell was rung is not forgotten: the doorbell is still
\* set for the handler to see, or the channel is locked for it (mhu_isr's STAT
\* and CLEAR against transport_message_handler).  The one exception is a request
\* that transport_signal_message discarded between the two steps of
\* transport_mailbox_init.
NoLostDoorbell ==
    \A c \in Channels :
        agent[c] = "waiting" /\ ~mailbox[c].free /\ c \notin discarded =>
            \/ locked[c]
            \/ c \in stat /\ ~(subject["isr"] = c /\ pc["isr"] \in {"raise", "clear"})

\* An agent that keeps to one way of waiting is interrupted only when the
\* mailbox is its own again (the order of transport_respond's steps).
InterruptMeansDone ==
    [][\A c \in Channels : c \in bell' \ bell => mailbox[c].free]_vars

\* Every request that was rung is answered, and its agent learns of it, unless
\* the channel was not marked ready when the handler looked.
EveryRequestAnswered ==
    \A c \in Channels :
        agent[c] = "waiting" ~> agent[c] = "idle" \/ c \in discarded

\* No request is discarded: an agent that owns its mailbox may use it.  The code
\* does not keep this: it gives the mailbox to the agent before it marks the
\* channel ready (transport_mailbox_init).
NothingDiscarded == discarded = {}

-----------------------------------------------------------------------------
\* The reply an agent finds in its mailbox, and the one a request deserves.
ReplyIn(c) == [token |-> mailbox[c].token, payload |-> mailbox[c].payload,
               error |-> mailbox[c].error]

BlankReply == [token |-> NoToken, payload |-> NoToken, error |-> FALSE]

ReplyTo(r) == [token |-> r.token, error |-> ~r.fits,
               payload |-> IF r.fits THEN r.token ELSE ProtocolError]

\* The agent of channel c was given its mailbox.
Opened(c) ==
    ready[c] \/ (pc["thread"] = "init" /\ subject["thread"] = c)

\* What the mailbox of channel c is to its agent, and what it holds for it.
Phase(c) ==
    IF ~Opened(c) THEN "closed"
    ELSE IF mailbox[c].free THEN "free"
    ELSE IF locked[c] THEN "taken" ELSE "asked"

Reply(c) == IF Opened(c) /\ mailbox[c].free THEN ReplyIn(c) ELSE BlankReply

Service == INSTANCE Mailbox WITH
    Requests <- Request,
    Answers <- [r \in Request |-> ReplyTo(r)],
    Blank <- BlankReply,
    phase <- [c \in Channels |-> Phase(c)],
    request <- asked,
    reply <- [c \in Channels |-> Reply(c)]

\* Whatever the interleaving, and from the moment the agent owns the mailbox,
\* each request is taken at most once and the mailbox comes back with the answer
\* to it (transport_mailbox_init, transport_message_handler, transport_respond).
ImplementsMailbox == Service!Spec

===============================================================================
