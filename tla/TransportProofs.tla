--------------------------- MODULE TransportProofs ----------------------------
(***************************************************************************)
(* Theorems about Transport, for any set of channels and any agents that   *)
(* keep to the mailbox's protocol.                                         *)
(***************************************************************************)
EXTENDS Transport, SeqLemmas

-----------------------------------------------------------------------------
(* Type correctness and the lock.  Neither is inductive alone: that no     *)
(* channel has two events in the queue follows from the lock, and that     *)
(* unlocking is right from there being one answer to give.                 *)

AnsweredBy(a, c) == subject[a] = c /\ pc[a] \in {"copy", "free"}

\* A message in service is in one place: the queue, a protocol module's hands,
\* or the hands of one actor.
OnceInv ==
    \A c \in Channels :
        /\ c \in Range(queue) =>
             c \notin deferred /\ \A a \in Actors : ~AnsweredBy(a, c)
        /\ c \in deferred => \A a \in Actors : ~AnsweredBy(a, c)
        /\ ~(AnsweredBy("thread", c) /\ AnsweredBy("isr", c))

Released == PoolMayBeFull \/ LockReleased

IInv == TypeOK /\ LockHeld /\ Released /\ OnceInv

\* Out of reset nothing is locked and nothing is in service.
LEMMA InitInv == Init => IInv
    <1> SUFFICES ASSUME Init PROVE IInv
        OBVIOUS
    <1> USE DEF Init
    <1>1. queue \in Seq(Channels) /\ Range(queue) = {} /\ IsInjective(queue)
        BY EmptySeq, SeqBasics, ZenonT(30) DEF IsInjective
    <1>2. TypeOK
        BY <1>1, TransportAssumption
           DEF TypeOK, Buffer, Header, Request, Tokens, NoToken, Payloads,
               ProtocolError, Actors, IsrPCs, ThreadPCs
    <1>3. \A c \in Channels : ~InService(c)
        BY <1>1, TransportAssumption DEF InService, Actors
    <1>4. LockHeld /\ LockReleased
        BY <1>3 DEF LockHeld, LockReleased
    <1>5. OnceInv
        BY <1>1, TransportAssumption DEF OnceInv, AnsweredBy, Actors
    <1> QED BY <1>2, <1>4, <1>5 DEF IInv, Released

\* The actors' part of TypeOK.
ActorsType ==
    /\ pc \in [Actors -> ThreadPCs \cup IsrPCs]
    /\ pc["thread"] \in ThreadPCs /\ pc["isr"] \in IsrPCs
    /\ subject \in [Actors -> Channels \cup {NoChannel}]
    /\ \A a \in Actors : pc[a] \in {"idle", "scan"} <=> subject[a] = NoChannel

\* What a step that moves an actor does to the actors.
LEMMA GoFacts ==
    ASSUME TypeOK, NEW a \in Actors, NEW w \in ThreadPCs \cup IsrPCs,
           a = "thread" => w \in ThreadPCs, a = "isr" => w \in IsrPCs,
           NEW c \in Channels \cup {NoChannel},
           w \in {"idle", "scan"} <=> c = NoChannel,
           Go(a, w, c)
    PROVE  /\ ActorsType'
           /\ pc'[a] = w /\ subject'[a] = c
           /\ \A b \in Actors \ {a} : pc'[b] = pc[b] /\ subject'[b] = subject[b]
    BY DEF TypeOK, Go, Actors, ActorsType

\* An actor that is doing something does it for a channel.
LEMMA BusyActor ==
    ASSUME TypeOK, NEW a \in Actors, pc[a] \notin {"idle", "scan"}
    PROVE  subject[a] \in Channels /\ subject[a] # NoChannel
    BY TransportAssumption DEF TypeOK

\* A message that is accepted is in the buffers, its channel locked.
LEMMA LockAndCopyFacts ==
    ASSUME TypeOK, NEW c \in Channels, NEW e \in BOOLEAN, LockAndCopy(c, e)
    PROVE  /\ ready' = ready
           /\ ready[c] /\ ~locked[c] /\ ~mailbox[c].free
           /\ locked' = [locked EXCEPT ![c] = TRUE]
           /\ locked' \in [Channels -> BOOLEAN]
           /\ in' \in [Channels -> Tokens \cup {NoToken}]
           /\ out' \in [Channels -> Header]
    <1>1. mailbox[c] \in Buffer
        BY DEF TypeOK
    <1> QED BY <1>1 DEF TypeOK, LockAndCopy, Accepts, Buffer, Header

\* A step that leaves the lock, the queue and the answers owed as they are, and
\* does not give a locked mailbox away, keeps the invariant.
LEMMA Quiet ==
    ASSUME IInv, TypeOK', UNCHANGED <<locked, queue, deferred>>,
           \A a \in Actors, c \in Channels :
              AnsweredBy(a, c)' <=> AnsweredBy(a, c),
           \A c \in Channels :
              locked[c] => ready'[c] /\ ~mailbox'[c].free
    PROVE  IInv'
    <1>1. \A c \in Channels : InService(c)' <=> InService(c)
        BY DEF InService, AnsweredBy
    <1>2. LockHeld' /\ Released'
        BY <1>1 DEF IInv, LockHeld, Released, LockReleased
    <1>3. OnceInv'
        BY DEF IInv, OnceInv, Actors
    <1> QED BY <1>2, <1>3 DEF IInv

\* The same, when the actors are as they were too.
LEMMA QuietStill ==
    ASSUME IInv, TypeOK', UNCHANGED <<locked, queue, deferred, pc, subject>>,
           \A c \in Channels :
              locked[c] => ready'[c] /\ ~mailbox'[c].free
    PROVE  IInv'
    <1>1. \A a \in Actors, c \in Channels :
              AnsweredBy(a, c)' <=> AnsweredBy(a, c)
        BY DEF AnsweredBy
    <1> QED BY <1>1, Quiet

\* The steps of the MHU's loop.
LEMMA LoopInv ==
    ASSUME IInv, IsrEnters \/ IsrScans \/ IsrClears
    PROVE  IInv'
    <1> USE DEF channelVars, serviceVars, agentVars
    <1>1. "isr" \in Actors /\ {"scan", "idle", "signal", "clear"} \subseteq IsrPCs
        BY DEF Actors, IsrPCs
    <1>2. TypeOK /\ LockHeld
        BY DEF IInv
    <1>3. \E w \in {"scan", "idle", "signal"}, c \in Channels \cup {NoChannel} :
              /\ w \in {"idle", "scan"} <=> c = NoChannel
              /\ Go("isr", w, c)
              /\ pc["isr"] \in {"idle", "scan", "clear"}
        <2>1. CASE IsrEnters
            BY <2>1, <1>2 DEF IsrEnters, Go, TypeOK, Actors
        <2>2. CASE IsrScans
            BY <2>2, <1>2, TransportAssumption DEF IsrScans, TypeOK
        <2>3. CASE IsrClears
            BY <2>3 DEF IsrClears
        <2> QED BY <2>1, <2>2, <2>3
    <1>4. /\ ActorsType'
          /\ pc'["isr"] \in {"scan", "idle", "signal"}
          /\ \A b \in Actors \ {"isr"} : pc'[b] = pc[b] /\ subject'[b] = subject[b]
        BY <1>1, <1>2, <1>3, GoFacts
    <1>5. /\ stat' \in SUBSET Channels
          /\ UNCHANGED <<mailbox, ready, locked, in, out, queue, deferred,
                         result, agent, asked, bell, discarded>>
        BY <1>2 DEF IsrEnters, IsrScans, IsrClears, Acknowledge, TypeOK
    <1>6. TypeOK'
        BY <1>2, <1>4, <1>5 DEF TypeOK, ActorsType
    <1>7. \A a \in Actors, c \in Channels :
              AnsweredBy(a, c)' <=> AnsweredBy(a, c)
        BY <1>3, <1>4 DEF AnsweredBy
    <1>8. \A c \in Channels : locked[c] => ready'[c] /\ ~mailbox'[c].free
        BY <1>2, <1>5 DEF LockHeld
    <1> QED BY <1>5, <1>6, <1>7, <1>8, Quiet

\* The steps of the agents, and the doorbell that nobody meant.
LEMMA AgentsInv ==
    ASSUME IInv, Agents
    PROVE  IInv'
    <1> USE DEF channelVars, serviceVars, actorVars, agentVars
    <1>1. TypeOK /\ LockHeld
        BY DEF IInv
    <1>2. PICK c \in Channels :
              \/ AgentPosts(c)
              \/ AgentRings(c)
              \/ AgentCollects(c)
              \/ AgentIgnores(c)
              \/ DoorbellGlitch(c)
        BY DEF Agents
    <1>3. UNCHANGED <<ready, locked, in, out, queue, deferred, result, pc, subject,
                      discarded>>
        BY <1>2 DEF AgentPosts, AgentRings, AgentCollects, AgentIgnores,
                    DoorbellGlitch
    <1>4. /\ mailbox' \in [Channels -> Buffer]
          /\ asked' \in [Channels -> Request]
          /\ \A d \in Channels : locked[d] => ~mailbox'[d].free
        <2>1. CASE AgentPosts(c)
            <3>1. PICK irq \in BOOLEAN, fits \in {TRUE, ~BadLengths} :
                    LET token == 1 - asked[c].token IN
                    /\ asked' = [asked EXCEPT ![c] =
                                   [token |-> token, irq |-> irq, fits |-> fits]]
                    /\ mailbox' = [mailbox EXCEPT ![c] =
                                     [free |-> FALSE, error |-> FALSE,
                                      irq |-> irq, fits |-> fits,
                                      token |-> token, payload |-> token]]
                BY <2>1 DEF AgentPosts
            <3>2. 1 - asked[c].token \in Tokens /\ fits \in BOOLEAN
                <4>1. asked[c] \in Request
                    BY <1>1 DEF TypeOK
                <4>2. asked[c].token \in {0, 1}
                    BY <4>1 DEF Request, Tokens
                <4>3. 1 - asked[c].token \in Tokens
                    BY <4>2 DEF Tokens
                <4> QED BY <4>3, TransportAssumption
            <3>3. [token |-> 1 - asked[c].token, irq |-> irq, fits |-> fits] \in Request
                BY <3>2 DEF Request
            <3>4. [free |-> FALSE, error |-> FALSE, irq |-> irq, fits |-> fits,
                   token |-> 1 - asked[c].token,
                   payload |-> 1 - asked[c].token] \in Buffer
                BY <3>2 DEF Buffer, Payloads
            <3> HIDE DEF Buffer, Request
            <3>5. \A d \in Channels : locked[d] => ~mailbox'[d].free
                BY <3>1, <1>1 DEF LockHeld, TypeOK
            <3> QED BY <3>1, <3>3, <3>4, <3>5, <1>1 DEF TypeOK
        <2>2. CASE ~AgentPosts(c)
            BY <1>1, <1>2, <2>2
               DEF AgentRings, AgentCollects, AgentIgnores, DoorbellGlitch,
                   TypeOK, LockHeld
        <2> QED BY <2>1, <2>2
    <1>5. /\ stat' \in SUBSET Channels
          /\ bell' \in SUBSET Channels
          /\ agent' \in [Channels -> {"idle", "posted", "waiting"}]
        BY <1>1, <1>2 DEF AgentPosts, AgentRings, AgentCollects, AgentIgnores,
                          DoorbellGlitch, TypeOK
    <1>6. TypeOK'
        BY <1>1, <1>3, <1>4, <1>5 DEF TypeOK
    <1>7. \A d \in Channels : locked[d] => ready'[d] /\ ~mailbox'[d].free
        BY <1>1, <1>3, <1>4 DEF LockHeld
    <1> QED BY <1>3, <1>6, <1>7, QuietStill

\* The mailbox is given to the agent while its channel is not locked.
LEMMA InitMailboxInv ==
    ASSUME IInv, NEW c \in Channels, InitMailbox(c)
    PROVE  IInv'
    <1> USE DEF channelVars, serviceVars, agentVars
    <1>1. TypeOK /\ LockHeld
        BY DEF IInv
    <1>2. [free |-> TRUE, error |-> FALSE, irq |-> FALSE, fits |-> TRUE,
           token |-> NoToken, payload |-> NoToken] \in Buffer
        BY DEF Buffer, Payloads
    <1>3. /\ ActorsType'
          /\ pc["thread"] = "idle" /\ pc'["thread"] = "init"
          /\ pc'["isr"] = pc["isr"] /\ subject'["isr"] = subject["isr"]
        <2>1. /\ "thread" \in Actors /\ "isr" \in Actors /\ c # NoChannel
              /\ "init" \in ThreadPCs
            BY TransportAssumption DEF Actors, ThreadPCs
        <2>2. Go("thread", "init", c) /\ pc["thread"] = "idle"
            BY DEF InitMailbox, ThreadIdle
        <2> QED BY <1>1, <2>1, <2>2, GoFacts
    <1>4. mailbox' = [mailbox EXCEPT ![c] =
                        [free |-> TRUE, error |-> FALSE, irq |-> FALSE, fits |-> TRUE,
                         token |-> NoToken, payload |-> NoToken]]
          /\ UNCHANGED <<ready, locked, in, out, stat, queue, deferred, result,
                         agent, asked, bell, discarded>> /\ ~ready[c]
        BY DEF InitMailbox
    <1>5. TypeOK'
        BY <1>1, <1>2, <1>3, <1>4 DEF TypeOK, ActorsType
    <1>6. \A d \in Channels : locked[d] => ready'[d] /\ ~mailbox'[d].free
        BY <1>1, <1>4 DEF LockHeld, TypeOK
    <1>7. \A a \in Actors, d \in Channels : AnsweredBy(a, d)' <=> AnsweredBy(a, d)
        BY <1>3 DEF AnsweredBy, Actors
    <1> QED BY <1>4, <1>5, <1>6, <1>7, Quiet

\* Then the channel is marked ready.
LEMMA MailboxReadyInv ==
    ASSUME IInv, MailboxReady
    PROVE  IInv'
    <1> USE DEF serviceVars, agentVars
    <1>1. TypeOK /\ LockHeld
        BY DEF IInv
    <1>2. /\ ActorsType'
          /\ pc["thread"] = "init" /\ pc'["thread"] = "idle"
          /\ pc'["isr"] = pc["isr"] /\ subject'["isr"] = subject["isr"]
        <2>1. "thread" \in Actors /\ "isr" \in Actors /\ "idle" \in ThreadPCs
            BY DEF Actors, ThreadPCs
        <2>2. Go("thread", "idle", NoChannel) /\ pc["thread"] = "init"
            BY DEF MailboxReady
        <2> QED BY <1>1, <2>1, <2>2, GoFacts
    <1>3. /\ ready' = [ready EXCEPT ![subject["thread"]] = TRUE]
          /\ UNCHANGED <<mailbox, locked, in, out, stat, queue, deferred, result,
                         agent, asked, bell, discarded>>
        BY DEF MailboxReady
    <1>4. TypeOK'
        BY <1>1, <1>2, <1>3 DEF TypeOK, ActorsType
    <1>5. \A d \in Channels : locked[d] => ready'[d] /\ ~mailbox'[d].free
        BY <1>1, <1>3 DEF LockHeld, TypeOK
    <1>6. \A a \in Actors, d \in Channels : AnsweredBy(a, d)' <=> AnsweredBy(a, d)
        BY <1>2 DEF AnsweredBy, Actors
    <1> QED BY <1>3, <1>4, <1>5, <1>6, Quiet

\* The steps of transport_respond but for the one that unlocks.
LEMMA CopyInv ==
    ASSUME IInv, NEW a \in Actors, CopyResponse(a)
    PROVE  IInv'
    <1> USE DEF channelVars, serviceVars, agentVars
    <1>1. TypeOK /\ LockHeld
        BY DEF IInv
    <1> DEFINE c == subject[a]
    <1>2. c \in Channels /\ c # NoChannel /\ pc[a] = "copy"
        BY <1>1, BusyActor DEF CopyResponse, Responding
    <1>3. /\ ActorsType'
          /\ pc'[a] = "free" /\ subject'[a] = c
          /\ \A b \in Actors \ {a} : pc'[b] = pc[b] /\ subject'[b] = subject[b]
        <2>1. Go(a, "free", c)
            BY DEF CopyResponse
        <2> QED BY <2>1, <1>1, <1>2, GoFacts DEF IsrPCs, ThreadPCs
    <1>4. /\ mailbox' \in [Channels -> Buffer]
          /\ ~mailbox'[c].free
          /\ \A d \in Channels \ {c} : mailbox'[d] = mailbox[d]
        <2>1. mailbox[c] \in Buffer /\ out[c] \in Header /\ result[c] \in Payloads
            BY <1>1, <1>2 DEF TypeOK
        <2>2. [free |-> FALSE, error |-> out[c].error, irq |-> out[c].irq,
               fits |-> mailbox[c].fits, token |-> out[c].token,
               payload |-> result[c]] \in Buffer
            BY <2>1 DEF Buffer, Header
        <2>3. mailbox' = [mailbox EXCEPT ![c] =
                            [free |-> FALSE, error |-> out[c].error,
                             irq |-> out[c].irq, fits |-> mailbox[c].fits,
                             token |-> out[c].token, payload |-> result[c]]]
            BY <1>1, <1>2 DEF CopyResponse, TypeOK
        <2> HIDE DEF c
        <2> QED BY <2>2, <2>3, <1>1, <1>2 DEF TypeOK
    <1>5. UNCHANGED <<ready, locked, in, out, stat, queue, deferred, result,
                      agent, asked, bell, discarded>>
        BY DEF CopyResponse
    <1>6. TypeOK'
        BY <1>1, <1>3, <1>4, <1>5 DEF TypeOK, ActorsType
    <1>7. \A b \in Actors, d \in Channels :
              AnsweredBy(b, d)' <=> AnsweredBy(b, d)
        BY <1>2, <1>3 DEF AnsweredBy
    <1>8. \A d \in Channels : locked[d] => ready'[d] /\ ~mailbox'[d].free
        BY <1>1, <1>4, <1>5 DEF LockHeld
    <1> QED BY <1>5, <1>6, <1>7, <1>8, Quiet

\* The last step of transport_respond owes no answer any more.
LEMMA RaiseInv ==
    ASSUME IInv, NEW a \in Actors, RaiseInterrupt(a)
    PROVE  IInv'
    <1> USE DEF channelVars, serviceVars, agentVars
    <1>1. TypeOK /\ LockHeld
        BY DEF IInv
    <1> DEFINE c == subject[a]
    <1>2. c \in Channels /\ c # NoChannel /\ pc[a] = "raise"
        BY <1>1, BusyActor DEF RaiseInterrupt, Responding
    <1>3. /\ ActorsType'
          /\ pc'[a] \in {"idle", "clear"}
          /\ \A b \in Actors \ {a} : pc'[b] = pc[b] /\ subject'[b] = subject[b]
        <2>1. Answered(a, c)
            BY DEF RaiseInterrupt
        <2>2. CASE a = "thread"
            BY <2>1, <2>2, <1>1, GoFacts DEF Answered, IsrPCs, ThreadPCs
        <2>3. CASE a # "thread"
            BY <2>1, <2>3, <1>1, <1>2, GoFacts DEF Answered, IsrPCs, ThreadPCs, Actors
        <2> QED BY <2>2, <2>3
    <1>4. /\ UNCHANGED <<mailbox, ready, locked, in, out, stat, queue, deferred,
                         result, agent, asked, discarded>>
          /\ bell' \in SUBSET Channels
        BY <1>1, <1>2 DEF RaiseInterrupt, TypeOK
    <1>5. TypeOK'
        BY <1>1, <1>3, <1>4 DEF TypeOK, ActorsType
    <1>6. \A b \in Actors, d \in Channels :
              AnsweredBy(b, d)' <=> AnsweredBy(b, d)
        BY <1>2, <1>3 DEF AnsweredBy
    <1>7. \A d \in Channels : locked[d] => ready'[d] /\ ~mailbox'[d].free
        BY <1>1, <1>4 DEF LockHeld
    <1> QED BY <1>4, <1>5, <1>6, <1>7, Quiet

\* The handler's look at a message: it refuses it, or locks the channel for it
\* and answers or signals the service, or fails to.
LEMMA SignalInv ==
    ASSUME IInv, IsrSignals
    PROVE  IInv'
    <1> USE DEF channelVars, serviceVars, agentVars
    <1>1. TypeOK /\ LockHeld /\ OnceInv
        BY DEF IInv
    <1>2. /\ "isr" \in Actors /\ "thread" \in Actors
          /\ {"copy", "clear"} \subseteq IsrPCs
        BY DEF Actors, IsrPCs
    <1>3. PICK c \in Channels :
              c = subject["isr"] /\ c # NoChannel /\ pc["isr"] = "signal"
        BY <1>1, <1>2, BusyActor DEF IsrSignals
    <1>4. UNCHANGED <<mailbox, stat, agent, asked, bell>> /\ discarded' \in SUBSET Channels
        BY <1>1, <1>3 DEF IsrSignals, Discard, TypeOK
    <1>5. ASSUME NEW w \in {"copy", "clear"}, Go("isr", w, c)
          PROVE  /\ ActorsType'
                 /\ pc'["isr"] = w /\ subject'["isr"] = c
                 /\ pc'["thread"] = pc["thread"]
                 /\ subject'["thread"] = subject["thread"]
        BY <1>1, <1>2, <1>3, <1>5, GoFacts
    <1>6. CASE IsrRefuses(c)
        <2>1. Go("isr", "clear", c)
            BY <1>6 DEF IsrRefuses
        <2>2. UNCHANGED <<ready, locked, in, out, queue, deferred, result>>
            BY <1>6 DEF IsrRefuses
        <2>3. TypeOK'
            BY <1>1, <1>4, <1>5, <2>1, <2>2 DEF TypeOK, ActorsType
        <2>4. \A a \in Actors, d \in Channels :
                  AnsweredBy(a, d)' <=> AnsweredBy(a, d)
            BY <1>3, <1>5, <2>1 DEF AnsweredBy, Actors
        <2>5. \A d \in Channels : locked[d] => ready'[d] /\ ~mailbox'[d].free
            BY <1>1, <1>4, <2>2 DEF LockHeld
        <2> QED BY <2>2, <2>3, <2>4, <2>5, Quiet
    <1> DEFINE Taken ==
              /\ ready' = ready
              /\ ready[c] /\ ~locked[c] /\ ~mailbox[c].free
              /\ locked' \in [Channels -> BOOLEAN]
              /\ \A d \in Channels : locked'[d] <=> locked[d] \/ d = c
              /\ in' \in [Channels -> Tokens \cup {NoToken}]
              /\ out' \in [Channels -> Header]
              /\ c \notin Range(queue) /\ c \notin deferred
              /\ \A a \in Actors : ~AnsweredBy(a, c)
    <1>7. ASSUME NEW e \in BOOLEAN, LockAndCopy(c, e)
          PROVE  Taken
        <2>1. /\ ready' = ready
              /\ ready[c] /\ ~locked[c] /\ ~mailbox[c].free
              /\ locked' \in [Channels -> BOOLEAN]
              /\ \A d \in Channels : locked'[d] <=> locked[d] \/ d = c
              /\ in' \in [Channels -> Tokens \cup {NoToken}]
              /\ out' \in [Channels -> Header]
            <3>1. /\ ready' = ready
                  /\ ready[c] /\ ~locked[c] /\ ~mailbox[c].free
                  /\ locked' = [locked EXCEPT ![c] = TRUE]
                  /\ locked' \in [Channels -> BOOLEAN]
                  /\ in' \in [Channels -> Tokens \cup {NoToken}]
                  /\ out' \in [Channels -> Header]
                BY <1>1, <1>7, LockAndCopyFacts
            <3> QED BY <3>1, <1>1 DEF TypeOK
        <2>2. ~InService(c)
            BY <1>1, <1>3, <2>1 DEF LockHeld
        <2> QED BY <2>1, <2>2 DEF InService, AnsweredBy
    <1>8. CASE IsrSignalsError(c)
        <2>1. Go("isr", "copy", c) /\ Taken
            <3>1. LockAndCopy(c, TRUE)
                BY <1>8 DEF IsrSignalsError
            <3>2. Taken
                BY <3>1, <1>7
            <3> QED BY <3>2, <1>8 DEF IsrSignalsError
        <2>2. UNCHANGED <<queue, deferred>> /\ result' \in [Channels -> Payloads]
            BY <1>1, <1>8 DEF IsrSignalsError, TypeOK, Payloads
        <2>3. TypeOK'
            BY <1>1, <1>4, <1>5, <2>1, <2>2 DEF TypeOK, ActorsType
        <2>4. \A a \in Actors, d \in Channels :
                  AnsweredBy(a, d)' <=> AnsweredBy(a, d) \/ (a = "isr" /\ d = c)
            BY <1>3, <1>5, <2>1 DEF AnsweredBy, Actors
        <2>5. \A d \in Channels : InService(d)' <=> InService(d) \/ d = c
            BY <2>2, <2>4, <1>2 DEF InService, AnsweredBy
        <2>6. LockHeld' /\ Released'
            <3>1. LockHeld'
                BY <1>1, <1>4, <2>1, <2>5 DEF LockHeld
            <3>2. Released'
                BY <1>1, <2>1, <2>5
                   DEF IInv, Released, LockReleased
            <3> QED BY <3>1, <3>2
        <2>7. OnceInv'
            BY <1>1, <1>2, <2>1, <2>2, <2>4 DEF OnceInv
        <2> QED BY <2>3, <2>6, <2>7 DEF IInv
    <1>9. CASE IsrSignalsMessage(c)
        <2>1. Go("isr", "clear", c) /\ Taken
            <3>1. LockAndCopy(c, FALSE)
                BY <1>9 DEF IsrSignalsMessage
            <3>2. Taken
                BY <3>1, <1>7
            <3> QED BY <3>2, <1>9 DEF IsrSignalsMessage
        <2>2. UNCHANGED <<deferred, result>> /\ queue' = Append(queue, c)
            BY <1>9 DEF IsrSignalsMessage
        <2>3. /\ queue' \in Seq(Channels)
              /\ Range(queue') = Range(queue) \cup {c}
              /\ IsInjective(queue')
            <3>1. queue \in Seq(Channels) /\ IsInjective(queue)
                BY <1>1 DEF TypeOK
            <3> QED BY <3>1, <2>1, <2>2, AppendFacts
        <2>4. TypeOK'
            BY <1>1, <1>4, <1>5, <2>1, <2>2, <2>3 DEF TypeOK, ActorsType
        <2>5. \A a \in Actors, d \in Channels :
                  AnsweredBy(a, d)' <=> AnsweredBy(a, d)
            BY <1>3, <1>5, <2>1 DEF AnsweredBy, Actors
        <2>6. \A d \in Channels : InService(d)' <=> InService(d) \/ d = c
            BY <2>2, <2>3, <2>5 DEF InService, AnsweredBy
        <2>7. LockHeld' /\ Released'
            <3>1. LockHeld'
                BY <1>1, <1>4, <2>1, <2>6 DEF LockHeld
            <3>2. Released'
                BY <1>1, <2>1, <2>6
                   DEF IInv, Released, LockReleased
            <3> QED BY <3>1, <3>2
        <2>8. OnceInv'
            BY <1>1, <1>2, <2>1, <2>2, <2>3, <2>5 DEF OnceInv
        <2> QED BY <2>4, <2>7, <2>8 DEF IInv
    <1>10. CASE IsrFindsPoolFull(c)
        <2>1. Go("isr", "clear", c) /\ Taken /\ PoolMayBeFull
            <3>1. LockAndCopy(c, FALSE)
                BY <1>10 DEF IsrFindsPoolFull
            <3>2. Taken
                BY <3>1, <1>7
            <3> QED BY <3>2, <1>10 DEF IsrFindsPoolFull
        <2>2. UNCHANGED <<queue, deferred, result>>
            BY <1>10 DEF IsrFindsPoolFull
        <2>3. TypeOK'
            BY <1>1, <1>4, <1>5, <2>1, <2>2 DEF TypeOK, ActorsType
        <2>4. \A a \in Actors, d \in Channels :
                  AnsweredBy(a, d)' <=> AnsweredBy(a, d)
            BY <1>3, <1>5, <2>1 DEF AnsweredBy, Actors
        <2>5. \A d \in Channels : InService(d)' <=> InService(d)
            BY <2>2, <2>4 DEF InService, AnsweredBy
        <2>6. LockHeld' /\ Released'
            BY <1>1, <1>4, <2>1, <2>5
               DEF LockHeld, Released
        <2>7. OnceInv'
            BY <1>1, <1>2, <2>2, <2>4 DEF OnceInv
        <2> QED BY <2>3, <2>6, <2>7 DEF IInv
    <1> QED BY <1>3, <1>6, <1>8, <1>9, <1>10 DEF IsrSignals

\* The thread takes an answer up.
LEMMA ThreadGoes ==
    ASSUME TypeOK, ThreadIdle, NEW c \in Channels, Go("thread", "copy", c)
    PROVE  /\ ActorsType'
           /\ \A a \in Actors, d \in Channels :
                 AnsweredBy(a, d)' <=>
                    AnsweredBy(a, d) \/ (a = "thread" /\ d = c)
           /\ ~AnsweredBy("isr", c)
    <1>1. /\ "thread" \in Actors /\ "isr" \in Actors
          /\ "copy" \in IsrPCs /\ "copy" \in ThreadPCs /\ c # NoChannel
        BY TransportAssumption DEF Actors, IsrPCs, ThreadPCs
    <1>2. /\ ActorsType'
          /\ pc'["thread"] = "copy" /\ subject'["thread"] = c
          /\ pc'["isr"] = pc["isr"] /\ subject'["isr"] = subject["isr"]
        BY <1>1, GoFacts
    <1>3. pc["thread"] = "idle" /\ pc["isr"] = "idle"
        BY DEF ThreadIdle, ThreadRuns
    <1> QED BY <1>2, <1>3 DEF AnsweredBy, Actors

\* The service takes an event off the queue and answers, or owes the answer.
LEMMA ServeInv ==
    ASSUME IInv, Serve
    PROVE  IInv'
    <1> USE DEF channelVars, agentVars, actorVars
    <1>1. TypeOK /\ LockHeld /\ OnceInv
        BY DEF IInv
    <1>2. "thread" \in Actors /\ "isr" \in Actors
        BY DEF Actors
    <1>3. queue \in Seq(Channels) /\ queue # <<>> /\ IsInjective(queue) /\ ThreadIdle
        BY <1>1 DEF Serve, TypeOK
    <1>4. PICK c \in Channels : c = Head(queue)
        BY <1>3, TailFacts
    <1>5. /\ Tail(queue) \in Seq(Channels)
          /\ Range(queue) = Range(Tail(queue)) \cup {c}
          /\ IsInjective(Tail(queue))
          /\ c \notin Range(Tail(queue))
        BY <1>3, <1>4, TailFacts
    <1>6. InService(c) /\ locked[c]
        BY <1>1, <1>5 DEF InService, LockHeld
    <1>7. c \notin deferred /\ \A a \in Actors : ~AnsweredBy(a, c)
        BY <1>1, <1>5 DEF OnceInv
    <1>8. /\ queue' = Tail(queue)
          /\ result' = [result EXCEPT ![c] = in[c]]
          /\ UNCHANGED <<mailbox, ready, locked, in, out, stat, agent, asked, bell,
                         discarded>>
        BY <1>4 DEF Serve
    <1>9. \/ deferred' = deferred \cup {c} /\ UNCHANGED <<pc, subject>>
          \/ deferred' = deferred /\ Go("thread", "copy", c)
        BY <1>4, <1>6 DEF Serve
    <1>10. result' \in [Channels -> Payloads]
        BY <1>1, <1>8 DEF TypeOK, Payloads
    <1>11. /\ ActorsType'
           /\ deferred' \in SUBSET Channels
           /\ \/ /\ deferred' = deferred \cup {c}
                 /\ \A a \in Actors, d \in Channels :
                       AnsweredBy(a, d)' <=> AnsweredBy(a, d)
              \/ /\ deferred' = deferred
                 /\ \A a \in Actors, d \in Channels :
                       AnsweredBy(a, d)' <=>
                          AnsweredBy(a, d) \/ (a = "thread" /\ d = c)
        <2>1. CASE deferred' = deferred \cup {c} /\ UNCHANGED <<pc, subject>>
            BY <2>1, <1>1 DEF TypeOK, ActorsType, AnsweredBy
        <2>2. CASE deferred' = deferred /\ Go("thread", "copy", c)
            <3>1. deferred' \in SUBSET Channels
                BY <2>2, <1>1 DEF TypeOK
            <3> QED BY <2>2, <3>1, <1>1, <1>3, ThreadGoes
        <2> QED BY <1>9, <2>1, <2>2
    <1>12. TypeOK'
        BY <1>1, <1>5, <1>8, <1>10, <1>11 DEF TypeOK, ActorsType
    <1>13. \A d \in Channels : InService(d)' <=> InService(d)
        BY <1>2, <1>5, <1>8, <1>11 DEF InService, AnsweredBy
    <1>14. LockHeld' /\ Released'
        <2>1. LockHeld'
            BY <1>1, <1>8, <1>13 DEF LockHeld
        <2>2. Released'
            BY <1>8, <1>13 DEF IInv, Released, LockReleased
        <2> QED BY <2>1, <2>2
    <1>15. OnceInv'
        BY <1>1, <1>2, <1>5, <1>7, <1>8, <1>11 DEF OnceInv
    <1> QED BY <1>12, <1>14, <1>15 DEF IInv

\* An answer that was owed is taken up by the thread alone.
LEMMA DeferredInv ==
    ASSUME IInv, NEW c \in Channels, AnswerDeferred(c)
    PROVE  IInv'
    <1> USE DEF channelVars, agentVars
    <1>1. TypeOK /\ LockHeld /\ OnceInv
        BY DEF IInv
    <1>2. "thread" \in Actors /\ "isr" \in Actors
        BY DEF Actors
    <1>3. /\ c \in deferred /\ deferred' = deferred \ {c}
          /\ UNCHANGED <<mailbox, ready, locked, in, out, stat, queue, result,
                         agent, asked, bell, discarded>>
        BY DEF AnswerDeferred
    <1>4. /\ ActorsType'
          /\ \A a \in Actors, d \in Channels :
                AnsweredBy(a, d)' <=>
                   AnsweredBy(a, d) \/ (a = "thread" /\ d = c)
          /\ ~AnsweredBy("isr", c)
        BY <1>1, ThreadGoes DEF AnswerDeferred
    <1>5. TypeOK'
        BY <1>1, <1>3, <1>4 DEF TypeOK, ActorsType
    <1>6. \A d \in Channels : InService(d)' <=> InService(d)
        BY <1>2, <1>3, <1>4 DEF InService, AnsweredBy
    <1>7. LockHeld' /\ Released'
        <2>1. LockHeld'
            BY <1>1, <1>3, <1>6 DEF LockHeld
        <2>2. Released'
            BY <1>3, <1>6 DEF IInv, Released, LockReleased
        <2> QED BY <2>1, <2>2
    <1>8. OnceInv'
        BY <1>1, <1>2, <1>3, <1>4 DEF OnceInv
    <1> QED BY <1>5, <1>7, <1>8 DEF IInv

\* Unlocking is right because nobody else has an answer to give.
LEMMA FreeInv ==
    ASSUME IInv, NEW a \in Actors, FreeMailbox(a)
    PROVE  IInv'
    <1> USE DEF channelVars, serviceVars, agentVars
    <1>1. TypeOK /\ LockHeld /\ OnceInv
        BY DEF IInv
    <1>2. PICK c \in Channels :
              c = subject[a] /\ c # NoChannel /\ pc[a] = "free"
        BY <1>1, BusyActor DEF FreeMailbox, Responding
    <1>3. /\ locked' = [locked EXCEPT ![c] = FALSE]
          /\ mailbox' = [mailbox EXCEPT ![c].free = TRUE, ![c].fits = TRUE]
          /\ Go(a, "raise", c)
          /\ UNCHANGED <<ready, in, out, stat, queue, deferred, result, agent,
                         asked, bell, discarded>>
        BY <1>2 DEF FreeMailbox, Unlock, GiveBack
    <1>4. /\ ActorsType'
          /\ pc'[a] = "raise" /\ subject'[a] = c
          /\ \A b \in Actors \ {a} : pc'[b] = pc[b] /\ subject'[b] = subject[b]
        BY <1>1, <1>2, <1>3, GoFacts DEF IsrPCs, ThreadPCs
    <1>5. /\ AnsweredBy(a, c) /\ ~AnsweredBy(a, c)'
          /\ \A b \in Actors, d \in Channels :
                ~(a = b /\ c = d) => (AnsweredBy(b, d)' <=> AnsweredBy(b, d))
        BY <1>2, <1>4 DEF AnsweredBy
    <1>6. /\ c \notin Range(queue) /\ c \notin deferred
          /\ \A b \in Actors : AnsweredBy(b, c) => b = a
        BY <1>1, <1>5 DEF OnceInv, Actors
    <1>7. /\ mailbox' \in [Channels -> Buffer]
          /\ \A d \in Channels \ {c} : mailbox'[d] = mailbox[d]
        <2>1. mailbox[c] \in Buffer
            BY <1>1 DEF TypeOK
        <2>2. [mailbox[c] EXCEPT !.free = TRUE, !.fits = TRUE] \in Buffer
            BY <2>1 DEF Buffer
        <2>3. mailbox' = [mailbox EXCEPT ![c] =
                            [mailbox[c] EXCEPT !.free = TRUE, !.fits = TRUE]]
            BY <1>1, <1>3 DEF TypeOK
        <2> QED BY <1>1, <2>2, <2>3 DEF TypeOK
    <1>8. /\ locked' \in [Channels -> BOOLEAN]
          /\ \A d \in Channels : locked'[d] <=> locked[d] /\ d # c
        BY <1>1, <1>3 DEF TypeOK
    <1>9. TypeOK'
        BY <1>1, <1>3, <1>4, <1>7, <1>8 DEF TypeOK, ActorsType
    <1>10. \A d \in Channels : InService(d)' <=> InService(d) /\ d # c
        BY <1>3, <1>5, <1>6 DEF InService, AnsweredBy
    <1>11. LockHeld' /\ Released'
        <2>1. LockHeld'
            BY <1>1, <1>3, <1>7, <1>8, <1>10 DEF LockHeld
        <2>2. Released'
            BY <1>8, <1>10 DEF IInv, Released, LockReleased
        <2> QED BY <2>1, <2>2
    <1>12. OnceInv'
        <2>1. \A b \in Actors, d \in Channels : AnsweredBy(b, d)' => AnsweredBy(b, d)
            BY <1>5
        <2> QED BY <1>1, <1>3, <2>1 DEF OnceInv, Actors
    <1> QED BY <1>9, <1>11, <1>12 DEF IInv

\* Each step keeps the invariant.
LEMMA NextInv == IInv /\ [Next]_vars => IInv'
    <1> SUFFICES ASSUME IInv, [Next]_vars PROVE IInv'
        OBVIOUS
    <1>1. "thread" \in Actors /\ "isr" \in Actors
        BY DEF Actors
    <1>2. ASSUME NEW a \in Actors, Respond(a) PROVE IInv'
        BY <1>2, CopyInv, FreeInv, RaiseInv DEF Respond
    <1>3. CASE Isr
        BY <1>1, <1>2, <1>3, LoopInv, SignalInv DEF Isr
    <1>4. CASE Thread
        BY <1>1, <1>2, <1>4, InitMailboxInv, MailboxReadyInv, DeferredInv, ServeInv DEF Thread
    <1>5. CASE Agents
        BY <1>5, AgentsInv
    <1>6. CASE UNCHANGED vars
        <2> USE DEF vars, channelVars, serviceVars, actorVars, agentVars
        <2>1. TypeOK'
            BY <1>6 DEF IInv, TypeOK
        <2>2. \A c \in Channels : locked[c] => ready'[c] /\ ~mailbox'[c].free
            BY <1>6 DEF IInv, LockHeld
        <2> QED BY <1>6, <2>1, <2>2, QuietStill
    <1> QED BY <1>3, <1>4, <1>5, <1>6 DEF Next

\* The invariant of the lock and of the messages in service
\* (transport_message_handler, scmi_process_event, transport_respond).
THEOREM Invariance == Spec => []IInv
    BY InitInv, NextInv, PTL DEF Spec

\* Every variable has its type, no channel has two events in the queue, and an
\* actor deals with a channel exactly where its next step needs one.
THEOREM TransportTypeCorrect == Spec => []TypeOK
    BY Invariance, PTL DEF IInv

\* While a channel's answer is owed the channel is locked and the mailbox is not
\* the agent's, even if signals to the service are lost.
THEOREM NoSecondMessage == Spec => []LockHeld
    BY Invariance, PTL DEF IInv

\* When the pool of events is never empty, a channel is locked exactly while a
\* message is in service.
THEOREM LockCorrect ==
    ASSUME ~PoolMayBeFull
    PROVE  Spec => []LockMatchesService
    <1>1. IInv => LockMatchesService
        BY DEF IInv, Released, LockMatchesService
    <1> QED BY <1>1, Invariance, PTL

-----------------------------------------------------------------------------
(* Which mailboxes are open.                                               *)

\* A step of one actor that is not in transport_mailbox_init, and stays out.
LEMMA OpenedGo ==
    ASSUME TypeOK, NEW a \in Actors, NEW w, NEW d, Go(a, w, d), ready' = ready,
           w # "init", a = "thread" => pc["thread"] # "init",
           NEW c \in Channels
    PROVE  Opened(c)' <=> Opened(c)
    BY DEF TypeOK, Go, Opened, Actors

\* Only transport_mailbox_init opens a mailbox, and nothing closes one.
LEMMA OpenedKept ==
    ASSUME TypeOK, NEW c \in Channels,
           \/ Isr \/ Agents \/ Serve \/ MailboxReady \/ UNCHANGED vars
           \/ \E d \in Channels : AnswerDeferred(d)
           \/ \E a \in Actors : Respond(a)
    PROVE  Opened(c)' <=> Opened(c)
    <1> USE DEF channelVars, serviceVars, actorVars, agentVars
    <1>0. "isr" \in Actors /\ "thread" \in Actors
        BY DEF Actors
    <1>1. ASSUME NEW a \in Actors, Respond(a) PROVE Opened(c)' <=> Opened(c)
        <2>1. ready' = ready /\ pc[a] \in {"copy", "free", "raise"}
            BY <1>1 DEF Respond, CopyResponse, FreeMailbox, RaiseInterrupt, Responding
        <2>2. \E w \in {"free", "raise", "idle", "clear"} : \E d : Go(a, w, d)
            BY <1>1 DEF Respond, CopyResponse, FreeMailbox, RaiseInterrupt, Answered
        <2> QED BY <2>1, <2>2, OpenedGo
    <1>2. CASE Isr
        <2>1. CASE Respond("isr")
            BY <1>0, <1>1, <2>1
        <2>2. CASE IsrEnters
            BY <2>2 DEF IsrEnters, Opened, TypeOK
        <2>3. CASE IsrScans \/ IsrClears
            <3>1. ready' = ready /\ \E w \in {"signal", "idle", "scan"} : \E d : Go("isr", w, d)
                BY <2>3 DEF IsrScans, IsrClears
            <3> QED BY <1>0, <3>1, OpenedGo
        <2>4. CASE IsrSignals
            <3>1. ready' = ready /\ \E w \in {"copy", "clear"} : \E d : Go("isr", w, d)
                BY <2>4 DEF IsrSignals, IsrRefuses, IsrSignalsError, IsrSignalsMessage,
                            IsrFindsPoolFull, LockAndCopy
            <3> QED BY <1>0, <3>1, OpenedGo
        <2> QED BY <1>2, <2>1, <2>2, <2>3, <2>4 DEF Isr
    <1>3. CASE Agents \/ UNCHANGED vars
        BY <1>3 DEF Agents, AgentPosts, AgentRings, AgentCollects, AgentIgnores,
                    DoorbellGlitch, Opened, vars
    <1>4. CASE Serve \/ \E d \in Channels : AnswerDeferred(d)
        <2>1. ready' = ready /\ pc["thread"] = "idle"
            BY <1>4 DEF Serve, AnswerDeferred, ThreadIdle
        <2>2. UNCHANGED <<pc, subject>> \/ \E d : Go("thread", "copy", d)
            BY <1>4 DEF Serve, AnswerDeferred
        <2>3. CASE UNCHANGED <<pc, subject>>
            BY <2>1, <2>3 DEF Opened
        <2> QED BY <1>0, <2>1, <2>2, <2>3, OpenedGo
    <1>5. CASE MailboxReady
        <2>1. /\ pc["thread"] = "init" /\ pc' = [pc EXCEPT !["thread"] = "idle"]
              /\ ready' = [ready EXCEPT ![subject["thread"]] = TRUE]
            BY <1>5 DEF MailboxReady, Go
        <2>2. /\ pc'["thread"] = "idle"
              /\ ready'[c] <=> ready[c] \/ c = subject["thread"]
            BY <1>0, <2>1 DEF TypeOK
        <2> QED BY <2>1, <2>2 DEF Opened
    <1> QED BY <1>1, <1>2, <1>3, <1>4, <1>5

\* What transport_mailbox_init does first.
LEMMA OpensOne ==
    ASSUME TypeOK, NEW c \in Channels, InitMailbox(c)
    PROVE  /\ ~Opened(c) /\ Opened(c)'
           /\ \A d \in Channels \ {c} : Opened(d)' <=> Opened(d)
    BY DEF InitMailbox, ThreadIdle, Go, Opened, TypeOK, Actors, channelVars

-----------------------------------------------------------------------------
(* No doorbell is lost, when lengths are right and doorbells are meant: a  *)
(* doorbell that is set stands for the one request in its mailbox, until   *)
(* the handler has locked the channel for it, or discarded it because the  *)
(* channel was not marked ready, and acknowledges it.                      *)

DoorbellAt(c) ==
    /\ mailbox[c].fits
    /\ mailbox[c].free \/ agent[c] # "idle" => Opened(c)
    /\ agent[c] = "posted" => ~mailbox[c].free
    /\ locked[c] => agent[c] = "waiting" /\ c \notin discarded
    /\ c \in discarded => agent[c] = "waiting" /\ ~mailbox[c].free
    /\ agent[c] = "waiting" /\ ~mailbox[c].free =>
         locked[c] \/ c \in discarded \/ c \in stat
    /\ c \in stat =>
         /\ agent[c] = "waiting" /\ ~mailbox[c].free
         /\ locked[c] \/ c \in discarded <=>
               (subject["isr"] = c /\ pc["isr"] = "clear")
    /\ subject["isr"] = c => c \in stat

DoorbellInv ==
    /\ pc["isr"] \in {"idle", "scan", "signal", "clear"}
    /\ \A c \in Channels : DoorbellAt(c)

\* Out of reset no doorbell is set and every agent waits.
LEMMA InitDoorbell == Init => DoorbellInv
    <1> SUFFICES ASSUME Init PROVE DoorbellInv
        OBVIOUS
    <1> QED BY TransportAssumption DEF Init, DoorbellInv, DoorbellAt, Actors, Opened

\* The handler acknowledges a doorbell only once its channel is locked, or its
\* request discarded.
LEMMA IsrDoorbell ==
    ASSUME IInv, DoorbellInv, ~BadLengths, Isr
    PROVE  DoorbellInv'
    <1> USE DEF channelVars, serviceVars, agentVars, DoorbellAt
    <1>1. TypeOK /\ LockHeld
        BY DEF IInv
    <1>2. "isr" \in Actors
        BY DEF Actors
    <1>3. ASSUME NEW w \in IsrPCs, NEW c \in Channels \cup {NoChannel},
                 w \in {"idle", "scan"} <=> c = NoChannel, Go("isr", w, c)
          PROVE  pc'["isr"] = w /\ subject'["isr"] = c
        BY <1>1, <1>2, <1>3, GoFacts
    <1>4. /\ pc["isr"] \in {"idle", "scan"} <=> subject["isr"] = NoChannel
          /\ \A c \in Channels : Opened(c)' <=> Opened(c)
        BY <1>1, <1>2, OpenedKept DEF TypeOK
    <1>5. ~Respond("isr")
        BY DEF Respond, CopyResponse, FreeMailbox, RaiseInterrupt, Responding,
               DoorbellInv
    <1>6. CASE IsrEnters
        <2>1. pc'["isr"] = "scan" /\ pc["isr"] = "idle"
            BY <1>1, <1>2, <1>6 DEF IsrEnters, TypeOK
        <2> QED BY <1>4, <1>6, <2>1, TransportAssumption DEF IsrEnters, DoorbellInv
    <1>7. CASE IsrScans
        <2>1. CASE stat = {} /\ Go("isr", "idle", NoChannel)
            <3>1. pc'["isr"] = "idle" /\ subject'["isr"] = NoChannel
                BY <2>1, <1>3 DEF IsrPCs
            <3> QED BY <1>4, <1>7, <2>1, <3>1, TransportAssumption
                    DEF IsrScans, DoorbellInv
        <2>2. ASSUME NEW c \in stat, Go("isr", "signal", c)
              PROVE  DoorbellInv'
            <3>1. c \in Channels /\ c # NoChannel
                BY <1>1, TransportAssumption DEF TypeOK
            <3>2. pc'["isr"] = "signal" /\ subject'["isr"] = c
                BY <2>2, <3>1, <1>3 DEF IsrPCs
            <3>3. pc["isr"] = "scan"
                BY <1>7 DEF IsrScans
            <3> QED BY <1>4, <1>7, <3>1, <3>2, <3>3 DEF IsrScans, DoorbellInv
        <2> QED BY <1>7, <2>1, <2>2 DEF IsrScans
    <1>8. CASE IsrSignals
        <2>1. PICK c \in Channels : c = subject["isr"] /\ c # NoChannel
            BY <1>1, <1>2, <1>8, BusyActor DEF IsrSignals
        <2>2. pc["isr"] = "signal"
            BY <1>8 DEF IsrSignals
        <2>3. /\ c \in stat /\ ~locked[c] /\ ~mailbox[c].free /\ mailbox[c].fits
              /\ c \notin discarded /\ agent[c] = "waiting"
            BY <2>1, <2>2 DEF DoorbellInv
        <2>4. ~IsrSignalsError(c) /\ (IsrRefuses(c) => ~ready[c])
            BY <2>3 DEF IsrRefuses, Accepts, IsrSignalsError
        <2>5. /\ Go("isr", "clear", c)
              /\ \/ ~ready[c] /\ locked' = locked
                 \/ LockAndCopy(c, FALSE)
            BY <1>8, <2>1, <2>4
               DEF IsrSignals, IsrRefuses, IsrSignalsMessage, IsrFindsPoolFull
        <2>6. pc'["isr"] = "clear" /\ subject'["isr"] = c
            BY <2>1, <2>5, <1>3 DEF IsrPCs
        <2>7. /\ \A d \in Channels \ {c} : locked'[d] <=> locked[d]
              /\ ready[c] => locked'[c]
              /\ ~ready[c] => ~locked'[c]
            BY <2>3, <2>5, <1>1 DEF LockAndCopy, Accepts, TypeOK
        <2>8. /\ UNCHANGED <<mailbox, stat, agent>>
              /\ \A d \in Channels \ {c} : d \in discarded' <=> d \in discarded
              /\ c \in discarded' <=> ~ready[c]
            BY <1>8, <2>1, <2>3 DEF IsrSignals, Discard
        <2> QED BY <1>4, <2>1, <2>2, <2>3, <2>6, <2>7, <2>8 DEF DoorbellInv
    <1>9. CASE IsrClears
        <2>1. PICK c \in Channels : c = subject["isr"] /\ c # NoChannel
            BY <1>1, <1>2, <1>9, BusyActor DEF IsrClears
        <2>2. pc["isr"] = "clear"
            BY <1>9 DEF IsrClears
        <2>3. c \in stat /\ (locked[c] \/ c \in discarded)
            BY <2>1, <2>2 DEF DoorbellInv
        <2>4. pc'["isr"] = "scan" /\ subject'["isr"] = NoChannel
            BY <1>9, <1>3 DEF IsrClears, IsrPCs
        <2>5. UNCHANGED <<mailbox, locked, agent, discarded>> /\ stat' = stat \ {c}
            BY <1>9, <2>1 DEF IsrClears, Acknowledge
        <2> QED BY <1>4, <2>1, <2>2, <2>3, <2>4, <2>5, TransportAssumption DEF DoorbellInv
    <1> QED BY <1>5, <1>6, <1>7, <1>8, <1>9 DEF Isr

\* The thread gives a mailbox back only after its doorbell was acknowledged.
LEMMA ThreadDoorbell ==
    ASSUME IInv, DoorbellInv, Thread
    PROVE  DoorbellInv'
    <1> USE DEF channelVars, serviceVars, agentVars, actorVars
    <1>1. TypeOK /\ LockHeld
        BY DEF IInv
    <1>2. "isr" \in Actors /\ "thread" \in Actors
        BY DEF Actors
    <1>3. pc["isr"] = "idle" /\ subject["isr"] = NoChannel
        <2>1. pc["isr"] = "idle"
            BY DEF Thread, InitMailbox, MailboxReady, AnswerDeferred, Serve,
                   Respond, CopyResponse, FreeMailbox, RaiseInterrupt,
                   Responding, ThreadIdle, ThreadRuns
        <2> QED BY <2>1, <1>1, <1>2 DEF TypeOK
    <1>4. UNCHANGED <<stat, agent, discarded>>
        BY DEF Thread, InitMailbox, MailboxReady, AnswerDeferred, Serve,
               Respond, CopyResponse, FreeMailbox, RaiseInterrupt
    <1>5. pc'["isr"] = "idle" /\ subject'["isr"] = NoChannel
        <2>1. \/ UNCHANGED <<pc, subject>>
              \/ \E w \in {"idle", "init", "copy", "free", "raise"}, c \in Channels \cup {NoChannel} :
                     Go("thread", w, c)
            <3>1. CASE MailboxReady \/ \E c \in Channels : InitMailbox(c)
                BY <3>1 DEF InitMailbox, MailboxReady
            <3>2. CASE \E c \in Channels : AnswerDeferred(c)
                BY <3>2 DEF AnswerDeferred
            <3>3. CASE Serve
                <4>1. Head(queue) \in Channels
                    BY <3>3, <1>1, TailFacts DEF Serve, TypeOK
                <4> QED BY <3>3, <4>1 DEF Serve
            <3>4. CASE Respond("thread")
                <4>1. subject["thread"] \in Channels \cup {NoChannel}
                    BY <1>1, <1>2 DEF TypeOK
                <4> QED BY <3>4, <4>1
                        DEF Respond, CopyResponse, FreeMailbox, RaiseInterrupt,
                            Answered
            <3> QED BY <3>1, <3>2, <3>3, <3>4 DEF Thread
        <2> QED BY <2>1, <1>1, <1>2, <1>3 DEF Go, TypeOK
    \* The step gives a locked mailbox back, opens one, or changes neither.
    <1>6. ASSUME NEW c \in Channels,
                 \/ locked[c] /\ ~locked'[c] /\ mailbox'[c].free /\ Opened(c)'
                 \/ ~Opened(c) /\ ~locked'[c] /\ mailbox'[c].free /\ Opened(c)'
                 \/ /\ locked'[c] <=> locked[c]
                    /\ Opened(c)' <=> Opened(c)
                    /\ mailbox'[c].free <=> mailbox[c].free,
                 mailbox'[c].fits
          PROVE  DoorbellAt(c)'
        <2>1. DoorbellAt(c) /\ subject'["isr"] # c
            BY <1>5, TransportAssumption DEF DoorbellInv
        <2>2. CASE locked[c] /\ ~locked'[c] /\ mailbox'[c].free /\ Opened(c)'
            BY <1>3, <1>4, <1>6, <2>1, <2>2 DEF DoorbellAt
        <2>3. CASE ~Opened(c) /\ ~locked'[c] /\ mailbox'[c].free /\ Opened(c)'
            BY <1>3, <1>4, <1>6, <2>1, <2>3 DEF DoorbellAt
        <2>4. CASE /\ locked'[c] <=> locked[c]
                   /\ Opened(c)' <=> Opened(c)
                   /\ mailbox'[c].free <=> mailbox[c].free
            BY <1>3, <1>4, <1>5, <1>6, <2>1, <2>4 DEF DoorbellAt
        <2> QED BY <1>6, <2>2, <2>3, <2>4
    <1>7. ASSUME NEW c \in Channels
          PROVE  DoorbellAt(c)'
        <2>1. mailbox[c].fits /\ mailbox[c] \in Buffer
            BY <1>1 DEF DoorbellInv, DoorbellAt, TypeOK
        <2>2. CASE \/ Serve \/ RaiseInterrupt("thread") \/ MailboxReady
                   \/ \E d \in Channels : AnswerDeferred(d)
            <3>1. UNCHANGED <<mailbox, locked>>
                BY <2>2 DEF Serve, AnswerDeferred, RaiseInterrupt, MailboxReady
            <3>2. Opened(c)' <=> Opened(c)
                BY <1>1, <1>2, <2>2, OpenedKept DEF Respond
            <3> QED BY <2>1, <3>1, <3>2, <1>6
        <2>3. ASSUME NEW d \in Channels, InitMailbox(d)
              PROVE  DoorbellAt(c)'
            <3>1. ~locked[d] /\ locked' = locked
                BY <2>3, <1>1 DEF InitMailbox, LockHeld
            <3>2. /\ ~Opened(d) /\ Opened(d)'
                  /\ d # c => (Opened(c)' <=> Opened(c))
                BY <2>3, <1>1, OpensOne
            <3>3. /\ d = c => mailbox'[c].free /\ mailbox'[c].fits
                  /\ d # c => mailbox'[c] = mailbox[c]
                BY <2>3, <1>1 DEF InitMailbox, TypeOK
            <3> QED BY <2>1, <3>1, <3>2, <3>3, <1>6
        <2>4. CASE CopyResponse("thread")
            <3>1. PICK d \in Channels : d = subject["thread"] /\ pc["thread"] = "copy"
                BY <2>4, <1>1, <1>2, BusyActor DEF CopyResponse, Responding
            <3>2. AnsweredBy("thread", d) /\ ~mailbox[d].free
                BY <3>1, <1>1, <1>2 DEF AnsweredBy, InService, LockHeld
            <3>3. /\ d = c => ~mailbox'[c].free /\ mailbox'[c].fits = mailbox[c].fits
                  /\ d # c => mailbox'[c] = mailbox[c]
                BY <2>4, <3>1, <1>1 DEF CopyResponse, TypeOK
            <3>4. mailbox'[c].free <=> mailbox[c].free
                BY <3>2, <3>3
            <3>5. locked' = locked /\ (Opened(c)' <=> Opened(c))
                BY <1>1, <1>2, <2>4, OpenedKept DEF CopyResponse, Respond
            <3> QED BY <2>1, <3>3, <3>4, <3>5, <1>6
        <2>5. CASE FreeMailbox("thread")
            <3>1. PICK d \in Channels : d = subject["thread"] /\ pc["thread"] = "free"
                BY <2>5, <1>1, <1>2, BusyActor DEF FreeMailbox, Responding
            <3>2. AnsweredBy("thread", d) /\ locked[d] /\ ready[d]
                BY <3>1, <1>1, <1>2 DEF AnsweredBy, InService, LockHeld
            <3>3. /\ d = c => mailbox'[c].free /\ mailbox'[c].fits /\ ~locked'[c]
                  /\ d # c => mailbox'[c] = mailbox[c] /\ locked'[c] = locked[c]
                <4>1. /\ locked' = [locked EXCEPT ![d] = FALSE]
                      /\ mailbox' = [mailbox EXCEPT ![d].free = TRUE, ![d].fits = TRUE]
                    BY <2>5, <3>1 DEF FreeMailbox, Unlock, GiveBack
                <4>2. mailbox[d] \in Buffer
                    BY <1>1 DEF TypeOK
                <4>3. mailbox' = [mailbox EXCEPT ![d] =
                                    [mailbox[d] EXCEPT !.free = TRUE, !.fits = TRUE]]
                    BY <4>1, <1>1 DEF TypeOK
                <4>4. /\ [mailbox[d] EXCEPT !.free = TRUE, !.fits = TRUE].free
                      /\ [mailbox[d] EXCEPT !.free = TRUE, !.fits = TRUE].fits
                    BY <4>2 DEF Buffer
                <4> QED BY <4>1, <4>3, <4>4, <1>1 DEF TypeOK
            <3>4. (Opened(c)' <=> Opened(c)) /\ Opened(d)
                BY <1>1, <1>2, <2>5, <3>2, OpenedKept DEF Respond, Opened
            <3> QED BY <2>1, <3>2, <3>3, <3>4, <1>6
        <2> QED BY <2>2, <2>3, <2>4, <2>5 DEF Thread, Respond
    <1> QED BY <1>5, <1>7 DEF DoorbellInv

\* An agent rings for the request that is in its mailbox.
LEMMA AgentsDoorbell ==
    ASSUME IInv, DoorbellInv, ~BadLengths, ~Spurious, Agents
    PROVE  DoorbellInv'
    <1> USE DEF channelVars, serviceVars, agentVars, actorVars
    <1>1. TypeOK /\ LockHeld
        BY DEF IInv
    <1>2. PICK d \in Channels :
              \/ AgentPosts(d)
              \/ AgentRings(d)
              \/ AgentCollects(d)
              \/ AgentIgnores(d)
        BY DEF Agents, DoorbellGlitch
    <1>3. UNCHANGED <<locked, discarded, pc, subject>>
          /\ \A c \in Channels : Opened(c)' <=> Opened(c)
        BY <1>1, <1>2, OpenedKept DEF AgentPosts, AgentRings, AgentCollects, AgentIgnores
    <1>4. DoorbellAt(d) /\ (locked[d] => ~mailbox[d].free)
        BY <1>1 DEF DoorbellInv, LockHeld
    <1>5. ASSUME NEW c \in Channels \ {d}
          PROVE  DoorbellAt(c)'
        <2>1. /\ mailbox'[c] = mailbox[c] /\ agent'[c] = agent[c]
              /\ c \in stat' <=> c \in stat
            BY <1>1, <1>2 DEF AgentPosts, AgentRings, AgentCollects, AgentIgnores, TypeOK
        <2>2. DoorbellAt(c)
            BY DEF DoorbellInv
        <2> QED BY <1>3, <2>1, <2>2 DEF DoorbellAt
    <1>6. DoorbellAt(d)'
        <2>1. CASE AgentPosts(d)
            <3>1. /\ agent[d] = "idle" /\ mailbox[d].free
                  /\ agent'[d] = "posted" /\ ~mailbox'[d].free /\ mailbox'[d].fits
                  /\ stat' = stat
                <4>1. PICK irq \in BOOLEAN, fits \in {TRUE, ~BadLengths} :
                        mailbox' = [mailbox EXCEPT ![d] =
                                     [free |-> FALSE, error |-> FALSE,
                                      irq |-> irq, fits |-> fits,
                                      token |-> 1 - asked[d].token,
                                      payload |-> 1 - asked[d].token]]
                    BY <2>1 DEF AgentPosts
                <4>2. ~mailbox'[d].free /\ mailbox'[d].fits
                    BY <4>1, <1>1 DEF TypeOK
                <4>3. /\ agent[d] = "idle" /\ mailbox[d].free
                      /\ agent'[d] = "posted" /\ stat' = stat
                    BY <2>1, <1>1 DEF AgentPosts, TypeOK
                <4> QED BY <4>2, <4>3
            <3> QED BY <1>3, <1>4, <3>1 DEF DoorbellAt
        <2>2. CASE AgentRings(d)
            <3>1. /\ agent[d] = "posted" /\ agent'[d] = "waiting"
                  /\ mailbox' = mailbox /\ stat' = stat \cup {d}
                BY <2>2, <1>1 DEF AgentRings, TypeOK
            <3> QED BY <1>3, <1>4, <3>1 DEF DoorbellAt
        <2>3. CASE AgentCollects(d)
            <3>1. /\ mailbox[d].free /\ agent'[d] = "idle"
                  /\ mailbox' = mailbox /\ stat' = stat
                BY <2>3, <1>1 DEF AgentCollects, TypeOK
            <3> QED BY <1>3, <1>4, <3>1 DEF DoorbellAt
        <2>4. CASE AgentIgnores(d)
            BY <1>3, <1>4, <2>4 DEF AgentIgnores, DoorbellAt
        <2> QED BY <1>2, <2>1, <2>2, <2>3, <2>4
    <1> QED BY <1>3, <1>5, <1>6 DEF DoorbellInv

\* No rung doorbell is forgotten when messages have possible lengths and
\* doorbells come from agents, but for those that transport_signal_message
\* discards between the two steps of transport_mailbox_init.
THEOREM NoDoorbellLost ==
    ASSUME ~BadLengths, ~Spurious
    PROVE  Spec => []NoLostDoorbell
    <1>1. IInv /\ DoorbellInv /\ [Next]_vars => DoorbellInv'
        <2> SUFFICES ASSUME IInv, DoorbellInv, [Next]_vars PROVE DoorbellInv'
            OBVIOUS
        <2>1. CASE UNCHANGED vars
            BY <2>1, OpenedKept DEF vars, channelVars, actorVars, agentVars,
                        DoorbellInv, DoorbellAt, IInv
        <2> QED BY <2>1, IsrDoorbell, ThreadDoorbell, AgentsDoorbell DEF Next
    <1>2. DoorbellInv => NoLostDoorbell
        BY DEF DoorbellInv, DoorbellAt, NoLostDoorbell
    <1> QED BY <1>1, <1>2, InitDoorbell, Invariance, PTL DEF Spec

-----------------------------------------------------------------------------
(* An agent that keeps to one way of waiting is interrupted only when the  *)
(* mailbox is its own: the one that waits for the interrupt asks nothing   *)
(* more before it comes, and the one that polls is never interrupted.      *)

RaisedBy(a, c) == subject[a] = c /\ pc[a] = "raise"

BellAt(c) ==
    /\ c \notin IrqAgents => ~mailbox[c].irq /\ ~out[c].irq
    /\ c \in IrqAgents =>
         /\ agent[c] = "idle" => c \notin bell
         /\ agent[c] # "idle" => asked[c].irq
         /\ Opened(c) /\ ~mailbox[c].free => agent[c] # "idle" /\ c \notin bell
         /\ \A a \in Actors : RaisedBy(a, c) =>
               mailbox[c].free /\ agent[c] # "idle" /\ c \notin bell
         /\ ~(RaisedBy("thread", c) /\ RaisedBy("isr", c))

BellInv == \A c \in Channels : BellAt(c)

\* Out of reset no agent has an interrupt pending.
LEMMA InitBell == Init => BellInv
    <1> SUFFICES ASSUME Init PROVE BellInv
        OBVIOUS
    <1> QED BY TransportAssumption DEF Init, BellInv, BellAt, RaisedBy, Actors, Opened

\* A step that leaves a channel's agent and bell alone, and makes nobody raise
\* its interrupt, keeps what is known of it.
LEMMA SameBell ==
    ASSUME NEW c \in Channels, BellAt(c), UNCHANGED <<agent, asked>>,
           bell' \subseteq bell,
           Opened(c)' /\ ~mailbox'[c].free => Opened(c) /\ ~mailbox[c].free,
           c \notin IrqAgents => ~mailbox'[c].irq /\ ~out'[c].irq,
           mailbox[c].free => mailbox'[c].free,
           \A a \in Actors : RaisedBy(a, c)' => RaisedBy(a, c)
    PROVE  BellAt(c)'
    BY DEF BellAt, Actors

\* transport_respond gives the mailbox back, then raises the interrupt.
LEMMA RespondBell ==
    ASSUME IInv, NEW a \in Actors, Respond(a), NEW c \in Channels, BellAt(c)
    PROVE  BellAt(c)'
    <1> DEFINE d == subject[a]
    <1> USE DEF channelVars, serviceVars, agentVars
    <1>0. TypeOK /\ LockHeld
        BY DEF IInv
    <1>1. pc[a] \in {"copy", "free", "raise"}
        BY DEF Respond, CopyResponse, FreeMailbox, RaiseInterrupt, Responding
    <1>2. d \in Channels /\ d # NoChannel
        BY <1>0, <1>1, BusyActor
    <1>3. /\ pc[a] # "raise" => locked[d] /\ Opened(d) /\ ~mailbox[d].free
          /\ Opened(c)' <=> Opened(c)
        BY <1>0, <1>1, <1>2, OpenedKept DEF LockHeld, InService, Opened
    <1>4. CASE CopyResponse(a)
        <2>1. /\ pc[a] = "copy" /\ Go(a, "free", d)
              /\ mailbox' = [mailbox EXCEPT ![d] =
                               [free |-> FALSE, error |-> out[d].error,
                                irq |-> out[d].irq, fits |-> @.fits,
                                token |-> out[d].token, payload |-> result[d]]]
              /\ UNCHANGED <<out, agent, asked, bell>>
            BY <1>4 DEF CopyResponse, Responding
        <2>2. pc'[a] = "free" /\ \A b \in Actors \ {a} : pc'[b] = pc[b] /\ subject'[b] = subject[b]
            BY <1>0, <1>2, <2>1, GoFacts DEF IsrPCs, ThreadPCs
        <2>3. \A b \in Actors : RaisedBy(b, c)' => RaisedBy(b, c)
            BY <2>2 DEF RaisedBy
        <2>4. mailbox \in [Channels -> Buffer]
            BY <1>0 DEF TypeOK
        <2>5. CASE c = d
            <3>1. mailbox'[c].irq = out[c].irq /\ ~mailbox[c].free /\ Opened(c)
                BY <1>3, <2>1, <2>4, <2>5
            <3> QED BY <1>3, <2>1, <2>3, <3>1, SameBell DEF BellAt
        <2>6. CASE c # d
            <3>1. mailbox'[c] = mailbox[c]
                BY <2>1, <2>4, <2>6
            <3> QED BY <1>3, <2>1, <2>3, <3>1, SameBell DEF BellAt
        <2> QED BY <2>5, <2>6
    <1>5. CASE FreeMailbox(a)
        <2>1. /\ pc[a] = "free" /\ Go(a, "raise", d)
              /\ mailbox' = [mailbox EXCEPT ![d].free = TRUE, ![d].fits = TRUE]
              /\ UNCHANGED <<out, agent, asked, bell>>
            BY <1>5 DEF FreeMailbox, Responding, GiveBack
        <2>2. /\ pc'[a] = "raise" /\ subject'[a] = d
              /\ \A b \in Actors \ {a} : pc'[b] = pc[b] /\ subject'[b] = subject[b]
            BY <1>0, <1>2, <2>1, GoFacts DEF IsrPCs, ThreadPCs
        <2>3. mailbox \in [Channels -> Buffer]
            BY <1>0 DEF TypeOK
        <2>4. CASE c = d
            <3>1. mailbox'[c].irq = mailbox[c].irq /\ mailbox'[c].free = TRUE
                BY <2>1, <2>3, <2>4 DEF Buffer
            <3>2. Opened(c) /\ ~mailbox[c].free
                BY <1>3, <2>1, <2>4
            <3>3. c \in IrqAgents => \A b \in Actors : ~RaisedBy(b, c)
                BY <3>2 DEF BellAt
            <3>4. c \in IrqAgents => \A b \in Actors \ {a} : ~RaisedBy(b, c)'
                BY <2>2, <3>3 DEF RaisedBy
            <3>5. c \in IrqAgents => ~(RaisedBy("thread", c)' /\ RaisedBy("isr", c)')
                BY <3>4 DEF Actors
            <3> QED BY <1>3, <2>1, <3>1, <3>2, <3>5 DEF BellAt
        <2>5. CASE c # d
            <3>1. mailbox'[c] = mailbox[c]
                BY <2>1, <2>3, <2>5
            <3>2. \A b \in Actors : RaisedBy(b, c)' => RaisedBy(b, c)
                BY <2>2, <2>5 DEF RaisedBy
            <3> QED BY <1>3, <2>1, <3>1, <3>2, SameBell DEF BellAt
        <2> QED BY <2>4, <2>5
    <1>6. CASE RaiseInterrupt(a)
        <2>1. /\ pc[a] = "raise" /\ Answered(a, d)
              /\ bell' = IF mailbox[d].irq THEN bell \cup {d} ELSE bell
              /\ UNCHANGED <<mailbox, out, agent, asked>>
            BY <1>6 DEF RaiseInterrupt, Responding
        <2>2. /\ pc'[a] # "raise"
              /\ \A b \in Actors \ {a} : pc'[b] = pc[b] /\ subject'[b] = subject[b]
            <3>1. CASE a = "thread"
                BY <1>0, <2>1, <3>1, GoFacts DEF Answered, IsrPCs, ThreadPCs, Actors
            <3>2. CASE a # "thread"
                BY <1>0, <1>2, <2>1, <3>2, GoFacts DEF Answered, IsrPCs, ThreadPCs, Actors
            <3> QED BY <3>1, <3>2
        <2>3. \A b \in Actors : RaisedBy(b, c)' => RaisedBy(b, c)
            BY <2>2 DEF RaisedBy
        <2>4. CASE c = d /\ c \in IrqAgents
            <3>1. mailbox[c].free /\ agent[c] # "idle"
                BY <2>1, <2>4 DEF BellAt, RaisedBy
            <3>2. \A b \in Actors : ~RaisedBy(b, c)'
                BY <2>1, <2>2, <2>4 DEF BellAt, RaisedBy, Actors
            <3>3. "thread" \in Actors /\ "isr" \in Actors
                BY DEF Actors
            <3> QED BY <1>3, <2>1, <2>4, <3>1, <3>2, <3>3 DEF BellAt
        <2>5. CASE ~(c = d /\ c \in IrqAgents)
            <3>1. c \in IrqAgents => (c \in bell' => c \in bell)
                BY <2>1, <2>5
            <3> QED BY <1>3, <2>1, <2>3, <2>5, <3>1 DEF BellAt, Actors
        <2> QED BY <2>4, <2>5
    <1> QED BY <1>4, <1>5, <1>6 DEF Respond

\* The handler and the thread do nothing else to an agent.
LEMMA CompleterBell ==
    ASSUME IInv, Isr \/ Thread, NEW c \in Channels, BellAt(c)
    PROVE  BellAt(c)'
    <1> USE DEF channelVars, serviceVars, agentVars
    <1>0. TypeOK /\ "isr" \in Actors /\ "thread" \in Actors
        BY DEF IInv, Actors
    <1>1. ASSUME NEW a \in Actors, NEW w \in {"idle", "init", "scan", "signal", "clear", "copy"},
                 NEW d \in Channels \cup {NoChannel}, Go(a, w, d)
          PROVE  \A b \in Actors : RaisedBy(b, c)' => RaisedBy(b, c)
        BY <1>0, <1>1 DEF RaisedBy, Go, TypeOK
    <1>2. CASE \E a \in Actors : Respond(a)
        BY <1>2, RespondBell
    <1>3. ASSUME NEW d \in Channels, InitMailbox(d) PROVE BellAt(c)'
        <2>1. /\ mailbox' = [mailbox EXCEPT ![d] =
                     [free |-> TRUE, error |-> FALSE, irq |-> FALSE,
                      fits |-> TRUE, token |-> NoToken, payload |-> NoToken]]
              /\ Go("thread", "init", d)
              /\ UNCHANGED <<out, agent, asked, bell>>
            BY <1>3 DEF InitMailbox
        <2>2. mailbox \in [Channels -> Buffer]
            BY <1>0 DEF TypeOK
        <2>3. IF c = d THEN mailbox'[c].free /\ ~mailbox'[c].irq
                       ELSE mailbox'[c] = mailbox[c] /\ (Opened(c)' <=> Opened(c))
            BY <1>0, <1>3, <2>1, <2>2, OpensOne
        <2>4. \A b \in Actors : RaisedBy(b, c)' => RaisedBy(b, c)
            BY <1>0, <1>1, <2>1
        <2> QED BY <2>1, <2>3, <2>4, SameBell DEF BellAt
    <1>4. CASE IsrEnters \/ IsrScans \/ IsrClears
        <2>1. \A b \in Actors : RaisedBy(b, c)' => RaisedBy(b, c)
            <3>1. CASE IsrEnters
                BY <1>0, <3>1 DEF IsrEnters, RaisedBy, TypeOK
            <3>2. CASE IsrScans \/ IsrClears
                BY <1>0, <1>1, <3>2 DEF IsrScans, IsrClears, TypeOK
            <3> QED BY <1>4, <3>1, <3>2
        <2>2. UNCHANGED <<mailbox, out, agent, asked, bell>> /\ (Opened(c)' <=> Opened(c))
            BY <1>0, <1>4, OpenedKept DEF IsrEnters, IsrScans, IsrClears, Isr
        <2> QED BY <2>1, <2>2, SameBell DEF BellAt
    <1>5. CASE IsrSignals
        <2>1. subject["isr"] \in Channels
            BY <1>0, <1>5, BusyActor DEF IsrSignals
        <2>2. \A b \in Actors : RaisedBy(b, c)' => RaisedBy(b, c)
            BY <1>0, <1>1, <1>5, <2>1
               DEF IsrSignals, IsrRefuses, IsrSignalsError, IsrSignalsMessage, IsrFindsPoolFull
        <2>3. UNCHANGED <<mailbox, agent, asked, bell>> /\ (Opened(c)' <=> Opened(c))
            BY <1>0, <1>5, OpenedKept DEF IsrSignals, Isr
        <2>4. out'[c].irq \in {out[c].irq, mailbox[c].irq}
            <3>1. \/ out' = out
                  \/ \E e \in BOOLEAN : LockAndCopy(subject["isr"], e)
                BY <1>5 DEF IsrSignals, IsrRefuses, IsrSignalsError, IsrSignalsMessage,
                            IsrFindsPoolFull
            <3>2. out \in [Channels -> Header]
                BY <1>0 DEF TypeOK
            <3>3. ASSUME NEW d, NEW e \in BOOLEAN, LockAndCopy(d, e)
                  PROVE  out'[c].irq \in {out[c].irq, mailbox[c].irq}
                <4>1. out'[c] = IF c = d THEN [error |-> e, irq |-> mailbox[d].irq,
                                               token |-> mailbox[d].token]
                                         ELSE out[c]
                    BY <3>2, <3>3 DEF LockAndCopy
                <4> QED BY <4>1
            <3> QED BY <3>1, <3>3
        <2> QED BY <2>2, <2>3, <2>4, SameBell DEF BellAt
    <1>6. ASSUME Serve \/ MailboxReady \/ \E d \in Channels : AnswerDeferred(d)
          PROVE  BellAt(c)'
        <2>1. UNCHANGED <<mailbox, out, agent, asked, bell>> /\ (Opened(c)' <=> Opened(c))
            BY <1>0, <1>6, OpenedKept DEF Serve, MailboxReady, AnswerDeferred
        <2>2. \A b \in Actors : RaisedBy(b, c)' => RaisedBy(b, c)
            <3>1. CASE Serve
                <4>1. UNCHANGED <<pc, subject>> \/ Go("thread", "copy", Head(queue))
                    BY <3>1 DEF Serve, actorVars
                <4>2. Head(queue) \in Channels
                    BY <1>0, <3>1, TailFacts DEF Serve, TypeOK
                <4> QED BY <1>0, <1>1, <4>1, <4>2 DEF RaisedBy
            <3>2. CASE \E d \in Channels : AnswerDeferred(d)
                BY <1>0, <1>1, <3>2 DEF AnswerDeferred
            <3>3. CASE MailboxReady
                BY <1>0, <1>1, <3>3 DEF MailboxReady
            <3> QED BY <1>6, <3>1, <3>2, <3>3
        <2> QED BY <2>1, <2>2, SameBell DEF BellAt
    <1> QED BY <1>0, <1>2, <1>3, <1>4, <1>5, <1>6 DEF Isr, Thread

\* An agent asks again only when it has been interrupted, if it asked to be.
LEMMA AgentsBell ==
    ASSUME IInv, IrqAgents \cap PollAgents = {}, Agents, NEW c \in Channels, BellAt(c)
    PROVE  BellAt(c)'
    <1> USE DEF channelVars, serviceVars, actorVars, agentVars
    <1>0. TypeOK
        BY DEF IInv
    <1>1. PICK d \in Channels : \/ AgentPosts(d) \/ AgentRings(d) \/ AgentCollects(d)
                                \/ AgentIgnores(d) \/ DoorbellGlitch(d)
        BY DEF Agents
    <1>2. UNCHANGED <<out, pc, subject>> /\ (Opened(c)' <=> Opened(c))
        BY <1>0, <1>1, OpenedKept
           DEF AgentPosts, AgentRings, AgentCollects, AgentIgnores, DoorbellGlitch
    <1>3. \A a \in Actors : RaisedBy(a, c)' <=> RaisedBy(a, c)
        BY <1>2 DEF RaisedBy
    <1>4. /\ mailbox \in [Channels -> Buffer] /\ agent \in [Channels -> {"idle", "posted", "waiting"}]
          /\ asked \in [Channels -> Request]
        BY <1>0 DEF TypeOK
    <1>5. CASE AgentPosts(d)
        <2>1. PICK irq \in BOOLEAN, fits \in {TRUE, ~BadLengths} :
                 LET token == 1 - asked[d].token IN
                 /\ d \in (IF irq THEN IrqAgents ELSE PollAgents)
                 /\ asked' = [asked EXCEPT ![d] = [token |-> token, irq |-> irq, fits |-> fits]]
                 /\ mailbox' = [mailbox EXCEPT ![d] =
                          [free |-> FALSE, error |-> FALSE, irq |-> irq,
                           fits |-> fits, token |-> token, payload |-> token]]
            BY <1>5 DEF AgentPosts
        <2>2. agent[d] = "idle" /\ agent' = [agent EXCEPT ![d] = "posted"] /\ bell' = bell
            BY <1>5 DEF AgentPosts
        <2>3. CASE c = d
            <3>1. agent'[c] = "posted" /\ asked'[c].irq = irq /\ mailbox'[c].irq = irq
                BY <1>4, <2>1, <2>2, <2>3
            <3>2. irq <=> c \in IrqAgents
                BY <2>1, <2>3
            <3>3. c \in IrqAgents => \A a \in Actors : ~RaisedBy(a, c)
                BY <2>2, <2>3 DEF BellAt
            <3> QED BY <1>2, <1>3, <2>2, <2>3, <3>1, <3>2, <3>3 DEF BellAt, Actors
        <2>4. CASE c # d
            <3>1. mailbox'[c] = mailbox[c] /\ agent'[c] = agent[c] /\ asked'[c] = asked[c]
                BY <1>4, <2>1, <2>2, <2>4
            <3> QED BY <1>2, <1>3, <2>2, <3>1 DEF BellAt, Actors
        <2> QED BY <2>3, <2>4
    <1>6. CASE AgentRings(d)
        <2>1. agent[d] = "posted" /\ agent' = [agent EXCEPT ![d] = "waiting"]
              /\ UNCHANGED <<mailbox, asked, bell>>
            BY <1>6 DEF AgentRings
        <2>2. agent'[c] = "idle" <=> agent[c] = "idle"
            BY <1>4, <2>1
        <2> QED BY <1>2, <1>3, <2>1, <2>2 DEF BellAt, Actors
    <1>7. CASE AgentCollects(d)
        <2>1. /\ agent[d] = "waiting" /\ mailbox[d].free /\ (asked[d].irq => d \in bell)
              /\ agent' = [agent EXCEPT ![d] = "idle"] /\ bell' = bell \ {d}
              /\ UNCHANGED <<mailbox, asked>>
            BY <1>7 DEF AgentCollects
        <2>2. CASE c = d
            <3>1. c \in IrqAgents => \A a \in Actors : ~RaisedBy(a, c)
                BY <2>1, <2>2 DEF BellAt
            <3>2. agent'[c] = "idle" /\ c \notin bell'
                BY <1>4, <2>1, <2>2
            <3> QED BY <1>2, <1>3, <2>1, <2>2, <3>1, <3>2 DEF BellAt, Actors
        <2>3. CASE c # d
            <3>1. agent'[c] = agent[c] /\ (c \in bell' <=> c \in bell)
                BY <1>4, <2>1, <2>3
            <3> QED BY <1>2, <1>3, <2>1, <3>1 DEF BellAt, Actors
        <2> QED BY <2>2, <2>3
    <1>8. CASE AgentIgnores(d) \/ DoorbellGlitch(d)
        <2>1. bell' \subseteq bell /\ UNCHANGED <<mailbox, agent, asked>>
            BY <1>8 DEF AgentIgnores, DoorbellGlitch
        <2> QED BY <1>2, <1>3, <2>1, SameBell DEF BellAt
    <1> QED BY <1>1, <1>5, <1>6, <1>7, <1>8

LEMMA NextBell ==
    ASSUME IrqAgents \cap PollAgents = {}
    PROVE  IInv /\ BellInv /\ [Next]_vars => BellInv'
    <1> SUFFICES ASSUME IInv, BellInv, [Next]_vars PROVE BellInv'
        OBVIOUS
    <1>1. CASE UNCHANGED vars
        BY <1>1, OpenedKept
           DEF vars, channelVars, actorVars, agentVars, BellInv, BellAt, RaisedBy, IInv
    <1>2. CASE Next
        BY <1>2, CompleterBell, AgentsBell DEF Next, BellInv
    <1> QED BY <1>1, <1>2

\* An interrupt of one that keeps to one way of waiting means the answer is in
\* its mailbox, whatever doorbells ring and whatever lengths are.
THEOREM InterruptedWhenDone ==
    ASSUME IrqAgents \cap PollAgents = {}
    PROVE  Spec => InterruptMeansDone
    <1>1. ASSUME IInv, BellInv, [Next]_vars
          PROVE  [\A c \in Channels : c \in bell' \ bell => mailbox[c].free]_vars
        <2> SUFFICES ASSUME Next, NEW c \in Channels, c \in bell' \ bell PROVE mailbox[c].free
            BY <1>1
        <2>1. PICK a \in Actors : RaiseInterrupt(a)
            BY DEF Next, Isr, Thread, Agents, Respond, InitMailbox, MailboxReady,
                   AnswerDeferred, Serve,
                   IsrEnters, IsrScans, IsrSignals, IsrClears, CopyResponse, FreeMailbox,
                   AgentPosts, AgentRings, AgentCollects, AgentIgnores, DoorbellGlitch,
                   Actors, agentVars, channelVars
        <2>2. c = subject[a] /\ mailbox[c].irq /\ pc[a] = "raise"
            BY <2>1 DEF RaiseInterrupt, Responding
        <2> QED BY <1>1, <2>2 DEF BellInv, BellAt, RaisedBy
    <1> QED BY <1>1, InitBell, NextBell, Invariance, PTL DEF Spec, InterruptMeansDone

-----------------------------------------------------------------------------
(* Transport implements Mailbox: whatever the interleaving, a mailbox      *)
(* comes back with the answer to the request that was left in it.          *)

(* The request stays as it was asked wherever it is copied, and so does    *)
(* its answer.                                                             *)

AnswersAt(c) ==
    /\ mailbox[c].free => Opened(c)
    /\ Opened(c) /\ ~mailbox[c].free =>
         /\ mailbox[c].token = asked[c].token
         /\ mailbox[c].fits <=> asked[c].fits
    /\ locked[c] =>
         /\ out[c].token = asked[c].token
         /\ out[c].error <=> ~asked[c].fits
         /\ in[c] = asked[c].token
    /\ c \in Range(queue) => asked[c].fits
    /\ c \in deferred => result[c] = ReplyTo(asked[c]).payload
    /\ \A a \in Actors : AnsweredBy(a, c) =>
         /\ result[c] = ReplyTo(asked[c]).payload
         /\ pc[a] = "free" =>
              /\ mailbox[c].token = asked[c].token
              /\ mailbox[c].payload = ReplyTo(asked[c]).payload
              /\ mailbox[c].error <=> ~asked[c].fits

AnswersInv == \A c \in Channels : AnswersAt(c)

\* A step that leaves a channel and its service alone leaves its answer alone.
LEMMA SameAnswer ==
    ASSUME NEW c \in Channels, AnswersAt(c),
           /\ mailbox'[c] = mailbox[c] /\ (Opened(c)' <=> Opened(c))
           /\ locked'[c] = locked[c] /\ out'[c] = out[c] /\ in'[c] = in[c]
           /\ asked'[c] = asked[c] /\ result'[c] = result[c],
           /\ c \in Range(queue') => c \in Range(queue)
           /\ c \in deferred' => c \in deferred,
           \A a \in Actors : AnsweredBy(a, c)' =>
              AnsweredBy(a, c) /\ pc'[a] = pc[a]
    PROVE  AnswersAt(c)'
    BY DEF AnswersAt, ReplyTo

\* Out of reset there is nothing to answer.
LEMMA InitAnswers == Init => AnswersInv
    <1> SUFFICES ASSUME Init, NEW c \in Channels PROVE AnswersAt(c)
        BY DEF AnswersInv
    <1>1. Range(queue) = {}
        BY SeqBasics, EmptySeq DEF Init
    <1> QED BY <1>1, TransportAssumption DEF Init, AnswersAt, AnsweredBy, Actors, Opened

\* What the moves of one actor mean for who answers what.
LEMMA OthersStill ==
    ASSUME TypeOK, NEW a \in Actors, NEW w, NEW c, Go(a, w, c)
    PROVE  /\ pc'[a] = w /\ subject'[a] = c
           /\ \A b \in Actors \ {a} : pc'[b] = pc[b] /\ subject'[b] = subject[b]
    BY DEF TypeOK, Go

\* The steps of the MHU's loop leave the answers alone.
LEMMA LoopAnswers ==
    ASSUME IInv, AnswersInv, IsrEnters \/ IsrScans \/ IsrClears
    PROVE  AnswersInv'
    <1> USE DEF channelVars, serviceVars, agentVars
    <1>1. TypeOK
        BY DEF IInv
    <1>0. \A d \in Channels : Opened(d)' <=> Opened(d)
        BY <1>1, OpenedKept DEF Isr
    <1>2. "isr" \in Actors /\ {"scan", "idle", "signal"} \subseteq IsrPCs
        BY DEF Actors, IsrPCs
    <1>3. /\ pc'["isr"] \in {"scan", "idle", "signal"}
          /\ \A b \in Actors \ {"isr"} : pc'[b] = pc[b] /\ subject'[b] = subject[b]
        <2>1. \E w \in {"scan", "idle", "signal"}, c \in Channels \cup {NoChannel} :
                  Go("isr", w, c)
            <3>1. CASE IsrEnters
                BY <3>1, <1>1, <1>2 DEF IsrEnters, Go, TypeOK
            <3>2. CASE IsrScans
                BY <3>2, <1>1 DEF IsrScans, TypeOK
            <3>3. CASE IsrClears
                BY <3>3 DEF IsrClears
            <3> QED BY <3>1, <3>2, <3>3
        <2> QED BY <2>1, <1>1, <1>2, OthersStill
    <1>4. UNCHANGED <<mailbox, ready, locked, in, out, asked, queue, deferred, result>>
        BY DEF IsrEnters, IsrScans, IsrClears
    <1>5. ASSUME NEW c \in Channels PROVE AnswersAt(c)'
        <2>1. \A a \in Actors : AnsweredBy(a, c)' => AnsweredBy(a, c) /\ pc'[a] = pc[a]
            BY <1>3 DEF AnsweredBy
        <2>2. AnswersAt(c)
            BY DEF AnswersInv
        <2> QED BY <1>0, <1>4, <2>1, <2>2, SameAnswer
    <1> QED BY <1>5 DEF AnswersInv

\* So does the interrupt raised for the agent.
LEMMA RaiseAnswers ==
    ASSUME IInv, AnswersInv, NEW a \in Actors, RaiseInterrupt(a)
    PROVE  AnswersInv'
    <1> USE DEF channelVars, serviceVars, agentVars
    <1>1. TypeOK
        BY DEF IInv
    <1>0. \A d \in Channels : Opened(d)' <=> Opened(d)
        BY <1>1, OpenedKept DEF Respond
    <1>2. /\ pc'[a] \in {"idle", "clear"}
          /\ \A b \in Actors \ {a} : pc'[b] = pc[b] /\ subject'[b] = subject[b]
        <2>1. Answered(a, subject[a])
            BY DEF RaiseInterrupt
        <2> QED BY <2>1, <1>1, OthersStill DEF Answered, IsrPCs
    <1>3. UNCHANGED <<mailbox, ready, locked, in, out, asked, queue, deferred, result>>
        BY DEF RaiseInterrupt
    <1>4. ASSUME NEW c \in Channels PROVE AnswersAt(c)'
        <2>1. \A b \in Actors : AnsweredBy(b, c)' => AnsweredBy(b, c) /\ pc'[b] = pc[b]
            BY <1>2 DEF AnsweredBy
        <2>2. AnswersAt(c)
            BY DEF AnswersInv
        <2> QED BY <1>0, <1>3, <2>1, <2>2, SameAnswer
    <1> QED BY <1>4 DEF AnswersInv

\* What is copied to the mailbox is the answer to its request.
LEMMA CopyAnswers ==
    ASSUME IInv, AnswersInv, NEW a \in Actors, CopyResponse(a)
    PROVE  AnswersInv'
    <1> USE DEF channelVars, serviceVars, agentVars
    <1>1. TypeOK /\ LockHeld /\ OnceInv
        BY DEF IInv
    <1>0. \A d \in Channels : Opened(d)' <=> Opened(d)
        BY <1>1, OpenedKept DEF Respond
    <1>2. PICK c \in Channels : c = subject[a] /\ pc[a] = "copy"
        BY <1>1, BusyActor DEF CopyResponse, Responding
    <1>3. /\ pc'[a] = "free" /\ subject'[a] = c
          /\ \A b \in Actors \ {a} : pc'[b] = pc[b] /\ subject'[b] = subject[b]
        <2>1. Go(a, "free", c)
            BY <1>2 DEF CopyResponse
        <2> QED BY <2>1, <1>1, OthersStill DEF IsrPCs
    <1>4. UNCHANGED <<ready, locked, in, out, asked, queue, deferred, result>>
        BY DEF CopyResponse
    <1>5. /\ \A d \in Channels \ {c} : mailbox'[d] = mailbox[d]
          /\ ~mailbox'[c].free /\ mailbox'[c].token = out[c].token
          /\ mailbox'[c].payload = result[c]
          /\ mailbox'[c].error = out[c].error
          /\ mailbox'[c].fits = mailbox[c].fits
        BY <1>1, <1>2 DEF CopyResponse, TypeOK
    <1>6. AnsweredBy(a, c) /\ locked[c] /\ ready[c] /\ ~mailbox[c].free
        BY <1>1, <1>2 DEF AnsweredBy, LockHeld, InService
    <1>7. \A b \in Actors : AnsweredBy(b, c) => b = a
        BY <1>1, <1>6 DEF OnceInv, Actors
    <1>8. AnswersAt(c)'
        <2>1. AnswersAt(c)
            BY DEF AnswersInv
        <2>2. \A b \in Actors : AnsweredBy(b, c)' => b = a
            BY <1>3, <1>7 DEF AnsweredBy
        <2> QED BY <1>0, <1>3, <1>4, <1>5, <1>6, <2>1, <2>2 DEF AnswersAt, ReplyTo, Opened
    <1>9. ASSUME NEW d \in Channels \ {c} PROVE AnswersAt(d)'
        <2>1. \A b \in Actors : AnsweredBy(b, d)' => AnsweredBy(b, d) /\ pc'[b] = pc[b]
            BY <1>3 DEF AnsweredBy
        <2>2. AnswersAt(d)
            BY DEF AnswersInv
        <2> QED BY <1>0, <1>4, <1>5, <2>1, <2>2, SameAnswer
    <1> QED BY <1>8, <1>9 DEF AnswersInv

\* What transport_respond does to the mailbox it gives back.
LEMMA FreeFacts ==
    ASSUME IInv, NEW a \in Actors, FreeMailbox(a)
    PROVE  \E c \in Channels :
              /\ c = subject[a] /\ pc[a] = "free" /\ AnsweredBy(a, c)
              /\ locked[c] /\ ready[c] /\ ~mailbox[c].free
              /\ pc'[a] = "raise" /\ subject'[a] = c
              /\ \A b \in Actors \ {a} : pc'[b] = pc[b] /\ subject'[b] = subject[b]
              /\ ~locked'[c]
              /\ \A d \in Channels \ {c} : locked'[d] = locked[d]
              /\ mailbox'[c].free
              /\ mailbox'[c].token = mailbox[c].token
              /\ mailbox'[c].payload = mailbox[c].payload
              /\ mailbox'[c].error = mailbox[c].error
              /\ \A d \in Channels \ {c} : mailbox'[d] = mailbox[d]
    <1>1. TypeOK /\ LockHeld
        BY DEF IInv
    <1>2. PICK c \in Channels : c = subject[a] /\ pc[a] = "free"
        BY <1>1, BusyActor DEF FreeMailbox, Responding
    <1>3. /\ locked' = [locked EXCEPT ![c] = FALSE]
          /\ mailbox' = [mailbox EXCEPT ![c].free = TRUE, ![c].fits = TRUE]
          /\ Go(a, "raise", c)
        BY <1>2 DEF FreeMailbox, Unlock, GiveBack
    <1>4. /\ pc'[a] = "raise" /\ subject'[a] = c
          /\ \A b \in Actors \ {a} : pc'[b] = pc[b] /\ subject'[b] = subject[b]
        BY <1>1, <1>3, OthersStill DEF IsrPCs
    <1>5. AnsweredBy(a, c) /\ locked[c] /\ ready[c] /\ ~mailbox[c].free
        BY <1>1, <1>2 DEF AnsweredBy, LockHeld, InService
    <1> DEFINE given == [mailbox[c] EXCEPT !.free = TRUE, !.fits = TRUE]
    <1>6. mailbox' = [mailbox EXCEPT ![c] = given]
        BY <1>1, <1>3 DEF TypeOK
    <1>7. /\ given.free /\ given.token = mailbox[c].token
          /\ given.payload = mailbox[c].payload
          /\ given.error = mailbox[c].error
        <2>1. mailbox[c] \in Buffer
            BY <1>1 DEF TypeOK
        <2> QED BY <2>1 DEF Buffer
    <1> HIDE DEF given
    <1>8. /\ mailbox'[c] = given
          /\ \A d \in Channels \ {c} : mailbox'[d] = mailbox[d]
        BY <1>1, <1>6 DEF TypeOK
    <1>9. ~locked'[c] /\ \A d \in Channels \ {c} : locked'[d] = locked[d]
        BY <1>1, <1>3 DEF TypeOK
    <1> QED BY <1>2, <1>4, <1>5, <1>7, <1>8, <1>9

\* The mailbox given back is no longer in service.
LEMMA FreeAnswers ==
    ASSUME IInv, AnswersInv, NEW a \in Actors, FreeMailbox(a)
    PROVE  AnswersInv'
    <1> USE DEF serviceVars, agentVars
    <1>1. TypeOK /\ OnceInv
        BY DEF IInv
    <1>0. \A d \in Channels : Opened(d)' <=> Opened(d)
        BY <1>1, OpenedKept DEF Respond
    <1>2. PICK c \in Channels :
              /\ c = subject[a] /\ pc[a] = "free" /\ AnsweredBy(a, c)
              /\ locked[c] /\ ready[c] /\ ~mailbox[c].free
              /\ pc'[a] = "raise" /\ subject'[a] = c
              /\ \A b \in Actors \ {a} : pc'[b] = pc[b] /\ subject'[b] = subject[b]
              /\ ~locked'[c]
              /\ \A d \in Channels \ {c} : locked'[d] = locked[d]
              /\ mailbox'[c].free
              /\ \A d \in Channels \ {c} : mailbox'[d] = mailbox[d]
        BY FreeFacts
    <1>3. UNCHANGED <<ready, in, out, asked, queue, deferred, result>>
        BY DEF FreeMailbox
    <1>4. AnswersAt(c)'
        <2>1. c \notin Range(queue) /\ c \notin deferred
            BY <1>1, <1>2 DEF OnceInv
        <2>2. \A b \in Actors : AnsweredBy(b, c) => b = a
            BY <1>1, <1>2 DEF OnceInv, Actors
        <2>3. \A b \in Actors : ~AnsweredBy(b, c)'
            BY <1>2, <2>2 DEF AnsweredBy
        <2> QED BY <1>0, <1>2, <1>3, <2>1, <2>3 DEF AnswersAt, Opened
    <1>5. ASSUME NEW d \in Channels \ {c} PROVE AnswersAt(d)'
        <2>1. \A b \in Actors : AnsweredBy(b, d)' => AnsweredBy(b, d) /\ pc'[b] = pc[b]
            BY <1>2 DEF AnsweredBy
        <2>2. AnswersAt(d)
            BY DEF AnswersInv
        <2> QED BY <1>0, <1>2, <1>3, <2>1, <2>2, SameAnswer
    <1> QED BY <1>4, <1>5 DEF AnswersInv

\* A mailbox that is opened has nothing in service.
LEMMA OpenAnswers ==
    ASSUME IInv, AnswersInv, NEW c \in Channels, InitMailbox(c)
    PROVE  AnswersInv'
    <1> USE DEF channelVars, serviceVars, agentVars
    <1>1. TypeOK /\ LockHeld
        BY DEF IInv
    <1>2. UNCHANGED <<ready, locked, in, out, asked, queue, deferred, result>>
        BY DEF InitMailbox
    <1>3. /\ Opened(c)' /\ mailbox'[c].free
          /\ \A d \in Channels \ {c} :
                (Opened(d)' <=> Opened(d)) /\ mailbox'[d] = mailbox[d]
        BY <1>1, OpensOne DEF InitMailbox, TypeOK
    <1>4. ~locked[c] /\ ~InService(c)
        BY <1>1 DEF InitMailbox, LockHeld
    <1>5. \A a \in Actors, d \in Channels :
              AnsweredBy(a, d)' => AnsweredBy(a, d) /\ pc'[a] = pc[a]
        <2>1. Go("thread", "init", c) /\ "thread" \in Actors
            BY DEF InitMailbox, Actors
        <2> QED BY <1>1, <2>1, OthersStill DEF AnsweredBy
    <1>6. AnswersAt(c)'
        <2>1. \A a \in Actors : ~AnsweredBy(a, c)'
            BY <1>4, <1>5 DEF InService, AnsweredBy
        <2> QED BY <1>2, <1>3, <1>4, <2>1 DEF AnswersAt, InService
    <1>7. ASSUME NEW d \in Channels \ {c} PROVE AnswersAt(d)'
        <2>1. AnswersAt(d)
            BY DEF AnswersInv
        <2> QED BY <1>2, <1>3, <1>5, <2>1, SameAnswer
    <1> QED BY <1>6, <1>7 DEF AnswersInv

\* Marking the channel ready changes no answer.
LEMMA ReadyAnswers ==
    ASSUME IInv, AnswersInv, MailboxReady
    PROVE  AnswersInv'
    <1> USE DEF serviceVars, agentVars
    <1>1. TypeOK
        BY DEF IInv
    <1>2. \A d \in Channels : Opened(d)' <=> Opened(d)
        BY <1>1, OpenedKept
    <1>3. UNCHANGED <<mailbox, locked, in, out, asked, queue, deferred, result>>
        BY DEF MailboxReady
    <1>4. \A a \in Actors, d \in Channels :
              AnsweredBy(a, d)' => AnsweredBy(a, d) /\ pc'[a] = pc[a]
        <2>1. Go("thread", "idle", NoChannel) /\ "thread" \in Actors
            BY DEF MailboxReady, Actors
        <2> QED BY <1>1, <2>1, OthersStill DEF AnsweredBy
    <1>5. ASSUME NEW d \in Channels PROVE AnswersAt(d)'
        <2>1. AnswersAt(d)
            BY DEF AnswersInv
        <2> QED BY <1>2, <1>3, <1>4, <2>1, SameAnswer
    <1> QED BY <1>5 DEF AnswersInv

\* The answer the service computes is the request's.
LEMMA ServeAnswers ==
    ASSUME IInv, AnswersInv, Serve
    PROVE  AnswersInv'
    <1> USE DEF channelVars, actorVars, agentVars
    <1>1. TypeOK /\ LockHeld /\ OnceInv
        BY DEF IInv
    <1>0. \A d \in Channels : Opened(d)' <=> Opened(d)
        BY <1>1, OpenedKept
    <1>2. queue \in Seq(Channels) /\ queue # <<>> /\ IsInjective(queue) /\ ThreadIdle
        BY <1>1 DEF Serve, TypeOK
    <1>3. PICK c \in Channels : c = Head(queue)
        BY <1>2, TailFacts
    <1>4. /\ Range(queue) = Range(Tail(queue)) \cup {c}
          /\ c \notin Range(Tail(queue))
        BY <1>2, <1>3, TailFacts
    <1>5. locked[c] /\ ready[c] /\ ~mailbox[c].free
        BY <1>1, <1>4 DEF InService, LockHeld
    <1>6. \A a \in Actors : ~AnsweredBy(a, c)
        BY <1>1, <1>4 DEF OnceInv
    <1>7. /\ queue' = Tail(queue)
          /\ result' = [result EXCEPT ![c] = in[c]]
          /\ UNCHANGED <<mailbox, ready, locked, in, out, asked>>
        BY <1>3 DEF Serve
    <1>8. \/ deferred' = deferred \cup {c} /\ UNCHANGED <<pc, subject>>
          \/ deferred' = deferred /\ Go("thread", "copy", c)
        BY <1>3, <1>5 DEF Serve
    <1>9. /\ \A d \in deferred' : d \in deferred \/ d = c
          /\ \A a \in Actors, d \in Channels :
                AnsweredBy(a, d)' =>
                   \/ AnsweredBy(a, d) /\ pc'[a] = pc[a]
                   \/ d = c /\ pc'[a] # "free"
        <2>1. CASE deferred' = deferred \cup {c} /\ UNCHANGED <<pc, subject>>
            BY <2>1 DEF AnsweredBy
        <2>2. CASE deferred' = deferred /\ Go("thread", "copy", c)
            BY <2>2, <1>1, OthersStill DEF AnsweredBy, Actors, IsrPCs
        <2> QED BY <1>8, <2>1, <2>2
    <1>10. AnswersAt(c)'
        <2>1. AnswersAt(c)
            BY DEF AnswersInv
        <2>2. result'[c] = in[c] /\ in[c] = asked[c].token /\ asked[c].fits
            BY <1>1, <1>4, <1>5, <1>7, <2>1 DEF AnswersAt, TypeOK
        <2>3. \A a \in Actors : AnsweredBy(a, c)' => pc'[a] # "free"
            BY <1>6, <1>9
        <2> QED BY <1>0, <1>4, <1>5, <1>7, <2>1, <2>2, <2>3 DEF AnswersAt, ReplyTo, Opened
    <1>11. ASSUME NEW d \in Channels \ {c} PROVE AnswersAt(d)'
        <2>1. \A a \in Actors : AnsweredBy(a, d)' => AnsweredBy(a, d) /\ pc'[a] = pc[a]
            BY <1>9
        <2>2. AnswersAt(d) /\ result'[d] = result[d]
            BY <1>1, <1>7 DEF AnswersInv, TypeOK
        <2>3. /\ d \in Range(queue') => d \in Range(queue)
              /\ d \in deferred' => d \in deferred
            BY <1>4, <1>7, <1>9
        <2> QED BY <1>0, <1>7, <2>1, <2>2, <2>3, SameAnswer
    <1> QED BY <1>10, <1>11 DEF AnswersInv

\* An answer given late is still the one owed.
LEMMA DeferredAnswers ==
    ASSUME IInv, AnswersInv, NEW c \in Channels, AnswerDeferred(c)
    PROVE  AnswersInv'
    <1> USE DEF channelVars, agentVars
    <1>1. TypeOK /\ OnceInv
        BY DEF IInv
    <1>0. \A d \in Channels : Opened(d)' <=> Opened(d)
        BY <1>1, OpenedKept
    <1>2. /\ c \in deferred /\ deferred' = deferred \ {c}
          /\ Go("thread", "copy", c)
          /\ UNCHANGED <<mailbox, ready, locked, in, out, asked, queue, result>>
        BY DEF AnswerDeferred
    <1>3. \A a \in Actors, d \in Channels :
              AnsweredBy(a, d)' =>
                 \/ AnsweredBy(a, d) /\ pc'[a] = pc[a]
                 \/ d = c /\ pc'[a] # "free"
        BY <1>1, <1>2, OthersStill DEF AnsweredBy, Actors, IsrPCs
    <1>4. AnswersAt(c)'
        <2>1. AnswersAt(c) /\ \A a \in Actors : ~AnsweredBy(a, c)
            BY <1>1, <1>2 DEF AnswersInv, OnceInv
        <2> QED BY <1>0, <1>2, <1>3, <2>1 DEF AnswersAt, ReplyTo
    <1>5. ASSUME NEW d \in Channels \ {c} PROVE AnswersAt(d)'
        <2>1. AnswersAt(d)
            BY DEF AnswersInv
        <2> QED BY <1>0, <1>2, <1>3, <2>1, SameAnswer
    <1> QED BY <1>4, <1>5 DEF AnswersInv

\* What the handler makes of a message it accepts is the request that was asked.
LEMMA SignalAnswers ==
    ASSUME IInv, AnswersInv, IsrSignals
    PROVE  AnswersInv'
    <1> USE DEF channelVars, serviceVars, agentVars
    <1>1. TypeOK /\ LockHeld
        BY DEF IInv
    <1>0. \A d \in Channels : Opened(d)' <=> Opened(d)
        BY <1>1, OpenedKept DEF Isr
    <1>2. "isr" \in Actors /\ "copy" \in IsrPCs /\ "clear" \in IsrPCs
        BY DEF Actors, IsrPCs
    <1>3. PICK c \in Channels : c = subject["isr"] /\ pc["isr"] = "signal"
        BY <1>1, <1>2, BusyActor DEF IsrSignals
    <1>4. UNCHANGED <<mailbox, asked>>
        BY DEF IsrSignals
    <1>5. ASSUME NEW w \in {"copy", "clear"}, Go("isr", w, c)
          PROVE  \A a \in Actors, d \in Channels :
                    AnsweredBy(a, d)' =>
                       \/ AnsweredBy(a, d) /\ pc'[a] = pc[a]
                       \/ a = "isr" /\ d = c /\ w = "copy" /\ pc'[a] # "free"
        BY <1>1, <1>2, <1>5, OthersStill DEF AnsweredBy
    <1>6. CASE IsrRefuses(c)
        <2>1. \A a \in Actors, d \in Channels :
                  AnsweredBy(a, d)' => AnsweredBy(a, d) /\ pc'[a] = pc[a]
            BY <1>5, <1>6 DEF IsrRefuses
        <2>2. UNCHANGED <<ready, locked, in, out, queue, deferred, result>>
            BY <1>6 DEF IsrRefuses
        <2>3. ASSUME NEW d \in Channels PROVE AnswersAt(d)'
            <3>1. AnswersAt(d)
                BY DEF AnswersInv
            <3> QED BY <1>0, <1>4, <2>1, <2>2, <3>1, SameAnswer
        <2> QED BY <2>3 DEF AnswersInv
    \* The channel is locked, and signalled or answered or neither.
    <1>7. ASSUME NEW e \in BOOLEAN, LockAndCopy(c, e), e <=> ~mailbox[c].fits,
                 NEW w \in {"copy", "clear"}, Go("isr", w, c),
                 w = "copy" => result'[c] = ProtocolError /\ e,
                 \A d \in Channels \ {c} : result'[d] = result[d],
                 \A d \in Channels : d \in Range(queue') => d \in Range(queue) \/ (d = c /\ ~e),
                 deferred' = deferred
          PROVE  AnswersInv'
        <2>1. /\ ready' = ready
              /\ ready[c] /\ ~locked[c] /\ ~mailbox[c].free
            BY <1>1, <1>7, LockAndCopyFacts
        <2>2. /\ locked'[c] /\ in'[c] = mailbox[c].token
              /\ out'[c].token = mailbox[c].token /\ out'[c].error = e
              /\ \A d \in Channels \ {c} :
                    locked'[d] = locked[d] /\ in'[d] = in[d] /\ out'[d] = out[d]
            BY <1>1, <1>7 DEF LockAndCopy, TypeOK
        <2>3. ~InService(c)
            BY <1>1, <2>1 DEF LockHeld
        <2>4. AnswersAt(c) /\ c \notin Range(queue) /\ c \notin deferred
              /\ \A a \in Actors : ~AnsweredBy(a, c)
            BY <2>3 DEF AnswersInv, InService, AnsweredBy
        <2>5. \A a \in Actors : AnsweredBy(a, c)' => w = "copy" /\ pc'[a] # "free"
            BY <1>5, <1>7, <2>4
        <2>6. /\ mailbox[c].token = asked[c].token
              /\ mailbox[c].fits <=> asked[c].fits
            BY <2>1, <2>4 DEF AnswersAt, Opened
        <2>7. AnswersAt(c)'
            BY <1>0, <1>4, <1>7, <2>1, <2>2, <2>4, <2>5, <2>6 DEF AnswersAt, ReplyTo, Opened
        <2>8. ASSUME NEW d \in Channels \ {c} PROVE AnswersAt(d)'
            <3>1. AnswersAt(d)
                BY DEF AnswersInv
            <3>2. \A a \in Actors : AnsweredBy(a, d)' => AnsweredBy(a, d) /\ pc'[a] = pc[a]
                BY <1>5, <1>7
            <3> QED BY <1>0, <1>4, <1>7, <2>1, <2>2, <3>1, <3>2, SameAnswer
        <2> QED BY <2>7, <2>8 DEF AnswersInv
    <1>8. CASE IsrSignalsError(c)
        <2>1. /\ LockAndCopy(c, TRUE) /\ ~mailbox[c].fits /\ Go("isr", "copy", c)
              /\ result' = [result EXCEPT ![c] = ProtocolError]
              /\ queue' = queue /\ deferred' = deferred
            BY <1>8 DEF IsrSignalsError
        <2>2. /\ result'[c] = ProtocolError
              /\ \A d \in Channels \ {c} : result'[d] = result[d]
            BY <1>1, <2>1 DEF TypeOK
        <2>3. TRUE \in BOOLEAN /\ "copy" \in {"copy", "clear"}
            OBVIOUS
        <2> QED BY <1>7, <2>1, <2>2, <2>3
    <1>9. CASE IsrSignalsMessage(c) \/ IsrFindsPoolFull(c)
        <2>1. /\ LockAndCopy(c, FALSE) /\ mailbox[c].fits /\ Go("isr", "clear", c)
              /\ result' = result /\ deferred' = deferred
              /\ queue' = queue \/ queue' = Append(queue, c)
            BY <1>9 DEF IsrSignalsMessage, IsrFindsPoolFull
        <2>2. \A d \in Channels : d \in Range(queue') => d \in Range(queue) \/ d = c
            <3>1. queue \in Seq(Channels)
                BY <1>1 DEF TypeOK
            <3>2. Range(Append(queue, c)) = Range(queue) \cup {c}
                BY <3>1, AppendFacts
            <3> QED BY <2>1, <3>2
        <2>3. FALSE \in BOOLEAN /\ "clear" \in {"copy", "clear"}
            OBVIOUS
        <2> QED BY <1>7, <2>1, <2>2, <2>3
    <1> QED BY <1>3, <1>6, <1>8, <1>9 DEF IsrSignals

\* An agent asks only where nothing is in service.
LEMMA AgentsAnswers ==
    ASSUME IInv, AnswersInv, Agents
    PROVE  AnswersInv'
    <1> USE DEF channelVars, serviceVars, agentVars, actorVars
    <1>1. TypeOK /\ LockHeld
        BY DEF IInv
    <1>0. \A d \in Channels : Opened(d)' <=> Opened(d)
        BY <1>1, OpenedKept
    <1>2. PICK c \in Channels :
              \/ AgentPosts(c)
              \/ AgentRings(c)
              \/ AgentCollects(c)
              \/ AgentIgnores(c)
              \/ DoorbellGlitch(c)
        BY DEF Agents
    <1>3. UNCHANGED <<ready, locked, in, out, queue, deferred, result, pc, subject>>
        BY <1>2 DEF AgentPosts, AgentRings, AgentCollects, AgentIgnores,
                    DoorbellGlitch
    <1>4. \A a \in Actors, d \in Channels :
              AnsweredBy(a, d)' <=> AnsweredBy(a, d)
        BY <1>3 DEF AnsweredBy
    <1>5. ASSUME NEW d \in Channels, mailbox'[d] = mailbox[d], asked'[d] = asked[d]
          PROVE  AnswersAt(d)'
        <2>1. AnswersAt(d)
            BY DEF AnswersInv
        <2> QED BY <1>0, <1>3, <1>4, <1>5, <2>1, SameAnswer
    <1>6. CASE AgentPosts(c)
        <2>1. mailbox[c].free /\ ~locked[c] /\ ~InService(c)
            BY <1>1, <1>6 DEF AgentPosts, LockHeld
        <2>2. /\ \A d \in Channels \ {c} : mailbox'[d] = mailbox[d] /\ asked'[d] = asked[d]
              /\ mailbox'[c].token = asked'[c].token
              /\ mailbox'[c].fits = asked'[c].fits
              /\ ~mailbox'[c].free
            BY <1>1, <1>6 DEF AgentPosts, TypeOK
        <2>3. AnswersAt(c)'
            BY <1>3, <1>4, <2>1, <2>2 DEF AnswersAt, InService, AnsweredBy
        <2> QED BY <1>5, <2>2, <2>3 DEF AnswersInv
    <1>7. CASE ~AgentPosts(c)
        <2>1. mailbox' = mailbox /\ asked' = asked
            BY <1>2, <1>7 DEF AgentRings, AgentCollects, AgentIgnores, DoorbellGlitch
        <2> QED BY <1>5, <2>1 DEF AnswersInv
    <1> QED BY <1>6, <1>7

\* Each step keeps the answers those of the requests.
LEMMA NextAnswers == IInv /\ AnswersInv /\ [Next]_vars => AnswersInv'
    <1> SUFFICES ASSUME IInv, AnswersInv, [Next]_vars PROVE AnswersInv'
        OBVIOUS
    <1>1. "thread" \in Actors /\ "isr" \in Actors
        BY DEF Actors
    <1>2. ASSUME NEW a \in Actors, Respond(a) PROVE AnswersInv'
        BY <1>2, CopyAnswers, FreeAnswers, RaiseAnswers DEF Respond
    <1>3. CASE Isr
        BY <1>1, <1>2, <1>3, LoopAnswers, SignalAnswers DEF Isr
    <1>4. CASE Thread
        BY <1>1, <1>2, <1>4, OpenAnswers, ReadyAnswers, DeferredAnswers, ServeAnswers DEF Thread
    <1>5. CASE Agents
        BY <1>5, AgentsAnswers
    <1>6. CASE UNCHANGED vars
        <2>1. ASSUME NEW c \in Channels PROVE AnswersAt(c)'
            <3>1. AnswersAt(c) /\ (Opened(c)' <=> Opened(c))
                BY <1>6, OpenedKept DEF AnswersInv, IInv
            <3> QED BY <1>6, <3>1, SameAnswer
                    DEF vars, channelVars, serviceVars, actorVars, agentVars,
                        AnsweredBy
        <2> QED BY <2>1 DEF AnswersInv
    <1> QED BY <1>3, <1>4, <1>5, <1>6 DEF Next

-----------------------------------------------------------------------------
(* Each step is a step of the mailbox, or none.                            *)

\* A step that does not touch what the agent can tell is none.
LEMMA Stutters ==
    ASSUME \A c \in Channels : Phase(c)' = Phase(c) /\ Reply(c)' = Reply(c),
           asked' = asked
    PROVE  UNCHANGED Service!vars
    BY DEF Service!vars

\* A step that changes only where actors and the service are is none.
LEMMA Hidden ==
    ASSUME UNCHANGED <<mailbox, locked, asked>>,
           \A c \in Channels : Opened(c)' <=> Opened(c)
    PROVE  UNCHANGED Service!vars
    <1>1. \A c \in Channels : Phase(c)' = Phase(c) /\ Reply(c)' = Reply(c)
        BY DEF Phase, Reply, ReplyIn, BlankReply
    <1> QED BY <1>1, Stutters

\* Every mailbox starts closed.
LEMMA InitMaps == Init => Service!Init
    <1> SUFFICES ASSUME Init PROVE Service!Init
        OBVIOUS
    <1>1. asked \in [Channels -> Request]
        BY InitInv DEF IInv, TypeOK
    <1>2. \A c \in Channels : Phase(c) = "closed" /\ Reply(c) = BlankReply
        BY DEF Init, Phase, Reply, Opened, Actors
    <1> QED BY <1>1, <1>2 DEF Service!Init

\* transport_mailbox_init opens the mailbox.
LEMMA OpenMaps ==
    ASSUME IInv, AnswersInv, NEW c \in Channels, InitMailbox(c)
    PROVE  Service!Open(c)
    <1>1. TypeOK
        BY DEF IInv
    <1>2. asked' = asked /\ locked' = locked
        BY DEF InitMailbox, agentVars, channelVars
    <1>3. /\ ~Opened(c) /\ Opened(c)' /\ mailbox'[c].free
          /\ mailbox'[c].token = NoToken /\ mailbox'[c].payload = NoToken
          /\ mailbox'[c].error = FALSE
          /\ \A d \in Channels \ {c} :
                (Opened(d)' <=> Opened(d)) /\ mailbox'[d] = mailbox[d]
        BY <1>1, OpensOne DEF InitMailbox, TypeOK
    <1>4. /\ Phase(c) = "closed" /\ Phase(c)' = "free"
          /\ \A d \in Channels \ {c} : Phase(d)' = Phase(d)
        BY <1>2, <1>3 DEF Phase
    <1>5. \A d \in Channels : Reply(d)' = Reply(d)
        BY <1>2, <1>3 DEF Reply, ReplyIn, BlankReply
    <1> QED BY <1>2, <1>4, <1>5 DEF Service!Open

\* An agent that writes its request asks.
LEMMA AskMaps ==
    ASSUME IInv, AnswersInv, NEW c \in Channels, AgentPosts(c)
    PROVE  Service!Ask(c)
    <1>1. TypeOK /\ TypeOK' /\ LockHeld
        BY AgentsInv DEF IInv, Agents
    <1>2. /\ locked' = locked
          /\ \A d \in Channels : Opened(d)' <=> Opened(d)
        BY <1>1, OpenedKept DEF AgentPosts, Agents, channelVars
    <1>3. /\ mailbox[c].free /\ Opened(c) /\ ~locked[c]
          /\ ~mailbox'[c].free
          /\ \A d \in Channels \ {c} : mailbox'[d] = mailbox[d]
        BY <1>1 DEF AgentPosts, AnswersInv, AnswersAt, LockHeld, TypeOK
    <1>4. \E r \in Request : asked' = [asked EXCEPT ![c] = r]
        <2>1. asked' = [asked EXCEPT ![c] = asked'[c]]
            BY <1>1 DEF AgentPosts, TypeOK
        <2>2. asked'[c] \in Request
            BY <1>1 DEF TypeOK
        <2> QED BY <2>1, <2>2
    <1>5. /\ Phase(c) = "free" /\ Phase(c)' = "asked"
          /\ \A d \in Channels \ {c} : Phase(d)' = Phase(d)
        BY <1>2, <1>3 DEF Phase
    <1>6. /\ Reply(c)' = BlankReply
          /\ \A d \in Channels \ {c} : Reply(d)' = Reply(d)
        BY <1>2, <1>3 DEF Reply, ReplyIn, BlankReply
    <1> QED BY <1>4, <1>5, <1>6 DEF Service!Ask

\* A channel that is locked for a message has its request taken.
LEMMA TakeMaps ==
    ASSUME IInv, AnswersInv, NEW c \in Channels, NEW e \in BOOLEAN,
           LockAndCopy(c, e), UNCHANGED <<mailbox, asked>>,
           \A d \in Channels : Opened(d)' <=> Opened(d)
    PROVE  Service!Take(c)
    <1>1. TypeOK
        BY DEF IInv
    <1>2. /\ Opened(c) /\ ~locked[c] /\ ~mailbox[c].free
          /\ locked' = [locked EXCEPT ![c] = TRUE]
        BY <1>1, LockAndCopyFacts DEF Opened
    <1>3. /\ locked'[c]
          /\ \A d \in Channels \ {c} : locked'[d] = locked[d]
        BY <1>1, <1>2 DEF TypeOK
    <1>4. /\ Phase(c) = "asked" /\ Phase(c)' = "taken"
          /\ \A d \in Channels \ {c} : Phase(d)' = Phase(d)
        BY <1>2, <1>3 DEF Phase
    <1>5. \A d \in Channels : Reply(d)' = Reply(d)
        BY <1>2 DEF Reply, ReplyIn, BlankReply
    <1> QED BY <1>4, <1>5 DEF Service!Take

\* The mailbox given back holds the answer.
LEMMA AnswerMaps ==
    ASSUME IInv, AnswersInv, NEW a \in Actors, FreeMailbox(a)
    PROVE  \E c \in Channels : Service!Answer(c)
    <1>1. TypeOK
        BY DEF IInv
    <1>2. PICK c \in Channels :
              /\ c = subject[a] /\ pc[a] = "free" /\ AnsweredBy(a, c)
              /\ locked[c] /\ Opened(c) /\ ~mailbox[c].free
              /\ ~locked'[c]
              /\ \A d \in Channels \ {c} : locked'[d] = locked[d]
              /\ mailbox'[c].free
              /\ mailbox'[c].token = mailbox[c].token
              /\ mailbox'[c].payload = mailbox[c].payload
              /\ mailbox'[c].error = mailbox[c].error
              /\ \A d \in Channels \ {c} : mailbox'[d] = mailbox[d]
        BY FreeFacts DEF Opened
    <1>3. /\ asked' = asked
          /\ \A d \in Channels : Opened(d)' <=> Opened(d)
        BY <1>1, OpenedKept DEF FreeMailbox, Respond, agentVars
    <1>4. /\ Phase(c) = "taken" /\ Phase(c)' = "free"
          /\ \A d \in Channels \ {c} : Phase(d)' = Phase(d)
        BY <1>2, <1>3 DEF Phase
    <1>5. asked[c] \in Request
        BY <1>1 DEF TypeOK
    <1>6. Reply(c)' = ReplyTo(asked[c])
        <2>1. /\ mailbox[c].token = asked[c].token
              /\ mailbox[c].payload = ReplyTo(asked[c]).payload
              /\ mailbox[c].error <=> ~asked[c].fits
            BY <1>2 DEF AnswersInv, AnswersAt
        <2>2. mailbox[c].error \in BOOLEAN /\ asked[c].fits \in BOOLEAN
            BY <1>1, <1>5 DEF TypeOK, Buffer, Request
        <2>3. mailbox[c].error = ~asked[c].fits
            BY <2>1, <2>2
        <2> QED BY <1>2, <1>3, <2>1, <2>3 DEF Reply, ReplyIn, ReplyTo
    <1>7. \A d \in Channels \ {c} : Reply(d)' = Reply(d)
        BY <1>2, <1>3 DEF Reply, ReplyIn, BlankReply
    <1>8. [r \in Request |-> ReplyTo(r)][asked[c]] = ReplyTo(asked[c])
        BY <1>5
    <1>9. Service!Answer(c)
        BY <1>3, <1>4, <1>6, <1>7, <1>8 DEF Service!Answer
    <1> QED BY <1>9

\* Every step maps to a step of the mailbox or to a stutter.
LEMMA StepMaps ==
    IInv /\ AnswersInv /\ [Next]_vars => [Service!Next]_(Service!vars)
    <1> SUFFICES ASSUME IInv, AnswersInv, [Next]_vars
                 PROVE  Service!Next \/ UNCHANGED Service!vars
        OBVIOUS
    <1> USE DEF channelVars, serviceVars, actorVars, agentVars
    <1>1. TypeOK /\ "thread" \in Actors /\ "isr" \in Actors
        BY DEF Actors, IInv
    <1>2. ASSUME NEW a \in Actors, Respond(a)
          PROVE  Service!Next \/ UNCHANGED Service!vars
        <2>0. \A d \in Channels : Opened(d)' <=> Opened(d)
            BY <1>1, <1>2, OpenedKept
        <2>1. CASE FreeMailbox(a)
            BY <2>1, AnswerMaps DEF Service!Next
        <2>2. CASE RaiseInterrupt(a)
            BY <2>0, <2>2, Hidden DEF RaiseInterrupt
        <2>3. CASE CopyResponse(a)
            <3>1. TypeOK /\ LockHeld
                BY DEF IInv
            <3>2. PICK c \in Channels : c = subject[a] /\ pc[a] = "copy"
                BY <2>3, <3>1, BusyActor DEF CopyResponse, Responding
            <3>3. ~mailbox[c].free
                BY <3>1, <3>2 DEF AnsweredBy, InService, LockHeld
            <3>4. /\ ~mailbox'[c].free
                  /\ \A d \in Channels \ {c} : mailbox'[d] = mailbox[d]
                  /\ UNCHANGED <<locked, asked>>
                BY <2>3, <3>1, <3>2 DEF CopyResponse, TypeOK
            <3>5. \A d \in Channels : Phase(d)' = Phase(d) /\ Reply(d)' = Reply(d)
                BY <2>0, <3>3, <3>4 DEF Phase, Reply, ReplyIn, BlankReply
            <3> QED BY <3>4, <3>5, Stutters
        <2> QED BY <1>2, <2>1, <2>2, <2>3 DEF Respond
    <1>3. CASE IsrEnters \/ IsrScans \/ IsrClears \/ Serve \/ MailboxReady
        <2>1. \A d \in Channels : Opened(d)' <=> Opened(d)
            BY <1>1, <1>3, OpenedKept DEF Isr
        <2> QED BY <1>3, <2>1, Hidden
                DEF IsrEnters, IsrScans, IsrClears, Serve, MailboxReady
    <1>4. CASE IsrSignals
        <2>1. PICK c \in {subject["isr"]} :
                  \/ IsrRefuses(c)
                  \/ \E e \in BOOLEAN : LockAndCopy(c, e)
            BY <1>4 DEF IsrSignals, IsrSignalsError, IsrSignalsMessage, IsrFindsPoolFull
        <2>2. UNCHANGED <<mailbox, asked>>
            BY <1>4 DEF IsrSignals
        <2>0. \A d \in Channels : Opened(d)' <=> Opened(d)
            BY <1>1, <1>4, OpenedKept DEF Isr
        <2>3. c \in Channels
            BY <1>1, <1>4, BusyActor DEF IsrSignals, IInv
        <2>4. CASE IsrRefuses(c)
            BY <2>0, <2>2, <2>4, Hidden DEF IsrRefuses
        <2>5. CASE \E e \in BOOLEAN : LockAndCopy(c, e)
            BY <2>0, <2>2, <2>3, <2>5, TakeMaps DEF Service!Next
        <2> QED BY <2>1, <2>4, <2>5
    <1>5. ASSUME NEW c \in Channels, InitMailbox(c)
          PROVE  Service!Next
        BY <1>5, OpenMaps DEF Service!Next
    <1>6. ASSUME NEW c \in Channels, AnswerDeferred(c)
          PROVE  UNCHANGED Service!vars
        BY <1>1, <1>6, OpenedKept, Hidden DEF AnswerDeferred
    <1>7. CASE Agents
        <2>1. ASSUME NEW c \in Channels, AgentPosts(c)
              PROVE  Service!Next
            BY <2>1, AskMaps DEF Service!Next
        <2>2. ASSUME NEW c \in Channels,
                     AgentRings(c) \/ AgentCollects(c) \/ AgentIgnores(c) \/ DoorbellGlitch(c)
              PROVE  UNCHANGED Service!vars
            BY <1>1, <1>7, <2>2, OpenedKept, Hidden
               DEF AgentRings, AgentCollects, AgentIgnores, DoorbellGlitch
        <2> QED BY <1>7, <2>1, <2>2 DEF Agents
    <1>8. CASE UNCHANGED vars
        BY <1>1, <1>8, OpenedKept, Hidden DEF vars
    <1> QED BY <1>1, <1>2, <1>3, <1>4, <1>5, <1>6, <1>7, <1>8
            DEF Next, Isr, Thread

\* Every behaviour of the channels is one of the abstract mailboxes: each request
\* is taken once, and answered with its own answer, even when the pool is empty,
\* lengths are wrong and doorbells ring for nothing.
THEOREM TransportImplementsMailbox == Spec => ImplementsMailbox
    BY Invariance, InitAnswers, NextAnswers, InitMaps, StepMaps, PTL
       DEF Spec, ImplementsMailbox, Service!Spec

===============================================================================
