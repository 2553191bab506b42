------------------------------ MODULE ClockTree ------------------------------
(***************************************************************************)
(* The tree of clocks (module/clock, BUILD_HAS_CLOCK_TREE_MGMT): a client  *)
(* starts and stops a clock, and the clocks above it are started first and *)
(* stopped last.  A clock counts who needs it, its running children and    *)
(* its client, and speaks to its parent and children by events, which the  *)
(* framework serves one at a time, oldest first.                           *)
(*                                                                         *)
(* Drivers are synchronous, as the module asks of them.  A clock with      *)
(* neither parent nor children makes no use of this code.  The event that  *)
(* only has the framework hold the answer of a request is not kept: it     *)
(* comes just before the first event of the request.                       *)
(***************************************************************************)
EXTENDS Integers, SequencesExt, Clock

CONSTANTS
    Clocks,     \* The clocks, numbered as in dev_ctx_table.
    Parent,     \* Parent[c]: the parent of clock c, None for a root.
    BootStates, \* The sets of clocks that may run when the module starts.
    Rates,      \* The rates clocks are given.
    Client,     \* The source of the events of a client's call.
    Fails,      \* What drivers may refuse: "start", "stop", "read", "rate".
    Overlap,    \* Whether clients call a clock that has an event to serve.
    StopUnheld, \* Whether clients stop clocks they have not started.
    Rounds,     \* Whether a driver may give another rate than it is asked.
    Width,      \* How many values ref_count takes (2^32).
    Plans       \* Bound: the pairs of how many calls of set_state and how many
                \* of set_rate clients make.

Children(c) == {d \in Clocks : Parent[d] = c}

ASSUME ClockTreeAssumption ==
    /\ Clocks \subseteq Nat /\ IsFiniteSet(Clocks)
    /\ None \notin Clocks /\ None \notin States /\ Client \notin Clocks \cup {None}
    /\ Parent \in [Clocks -> Clocks \cup {None}]
    /\ \A c \in Clocks : Parent[c] # None => Parent[c] < c
    /\ \A c \in Clocks : Parent[c] = None => Children(c) # {}
    /\ BootStates \subseteq SUBSET Clocks
    /\ \A b \in BootStates : \A c \in b : Parent[c] \in b \cup {None}
    /\ Fails \subseteq {"start", "stop", "read", "rate"}
    /\ Overlap \in BOOLEAN /\ StopUnheld \in BOOLEAN /\ Rounds \in BOOLEAN
    /\ Width \in Nat \ {0} /\ Plans \subseteq Nat \X Nat

VARIABLES
    clk,     \* the contexts of the clocks
    running, \* the clocks whose hardware runs
    queue,   \* the module's events, oldest first
    rate,    \* rate[c]: the rate clock c has
    input,   \* input[c]: the rate the driver of c believes its parent has
    want,    \* want[c]: what the client of c is waiting for, or None
    holds,   \* history: how often the client of c was told it runs, less the
             \* times it was told it stopped
    missed,  \* history: how many stops of its children clock c missed, its
             \* driver being unable to tell whether it ran
    asks,    \* the number of calls of set_state still to come
    sets     \* the number of calls of set_rate still to come

vars == <<clk, running, queue, rate, input, want, holds, missed, asks, sets>>

Context == [ref: 0 .. Width - 1,                  \* ref_count
            waits: BOOLEAN,                       \* state WAIT_PARENT, or IDLE
            caller: Clocks \cup {Client, None},   \* caller_id
            initiator: BOOLEAN]                   \* is_transition_initiator

Statuses == {"success", "busy", "device"}

Events == [kind: {"state"}, to: Clocks, from: Clocks \cup {Client},
           target: States, status: Statuses]
          \cup [kind: {"response"}, to: Clocks, target: States, status: Statuses]
          \cup [kind: {"rate"}, to: Clocks, rate: Rates]

\* The types; and a client waits as long as its clock's transition or an answer
\* on its way is its own.
TypeOK ==
    /\ clk \in [Clocks -> Context]
    /\ running \subseteq Clocks
    /\ queue \in Seq(Events)
    /\ rate \in [Clocks -> Rates] /\ input \in [Clocks -> Rates]
    /\ want \in [Clocks -> States \cup {None}]
    /\ holds \in [Clocks -> Nat] /\ missed \in [Clocks -> Nat]
    /\ asks \in Nat /\ sets \in Nat
    /\ \A c \in Clocks :
          want[c] # None <=> \/ clk[c].initiator
                            \/ \E i \in DOMAIN queue : queue[i].kind = "response"
                                                       /\ queue[i].to = c

\* clock_connect_tree
Init ==
    /\ running \in BootStates
    /\ clk = [c \in Clocks |->
                [ref |-> Cardinality(Children(c) \cap running),
                 waits |-> FALSE, caller |-> None, initiator |-> FALSE]]
    /\ queue = << >>
    /\ \E r \in Rates : rate = [c \in Clocks |-> r]
    /\ input = rate
    /\ want = [c \in Clocks |-> None] /\ holds = [c \in Clocks |-> 0]
    /\ missed = [c \in Clocks |-> 0]
    /\ \E plan \in Plans : asks = plan[1] /\ sets = plan[2]

-----------------------------------------------------------------------------
\* clk_mgmt_send_event_set.  One for a client is no answer that clients wait for.
Send(to, from, target, status) ==
    IF to \notin Clocks THEN << >>
    ELSE <<[kind |-> "state", to |-> to, from |-> from, target |-> target,
            status |-> status]>>

\* clk_mgmt_complete_response: the events of clock c's answer, to its client
\* when it is the initiator, to "caller" otherwise.
Answer(c, caller, target, status) ==
    IF clk[c].initiator
    THEN <<[kind |-> "response", to |-> c, target |-> target, status |-> status]>>
    ELSE IF target = "STOPPED" THEN << >>
    ELSE Send(caller, c, target, status)

\* Clock c is idle again, needed by "ref".
Complete(c, caller, ref) ==
    clk' = [clk EXCEPT ![c] = [ref |-> ref % Width, waits |-> FALSE,
                               caller |-> caller, initiator |-> FALSE]]

\* The head of the queue is served, and the events of "sent" follow.
Serve(sent) == queue' = Tail(queue) \o sent

\* The event served.
event == Head(queue)

IsState(c, target) ==
    /\ queue # << >> /\ event.kind = "state" /\ event.to = c /\ event.target = target
    /\ UNCHANGED <<rate, input, want, holds, asks, sets>>

Outcomes(call) == {"success"} \cup (IF call \in Fails THEN {"device"} ELSE {})

-----------------------------------------------------------------------------
\* clock_set_state of a clock of the tree.
SetState(c, target) ==
    /\ asks > 0 /\ want[c] = None /\ ~clk[c].waits
    /\ target = "STOPPED" => holds[c] > 0 \/ StopUnheld
    /\ ~Overlap => \A i \in DOMAIN queue :
                     ~(queue[i].kind = "state" /\ queue[i].to = c)
    /\ want' = [want EXCEPT ![c] = target]
    /\ clk' = [clk EXCEPT ![c].initiator = TRUE]
    /\ queue' = queue \o Send(c, Client, target, "success")
    /\ asks' = asks - 1
    /\ UNCHANGED <<running, rate, input, holds, missed, sets>>

\* clock_management_process_state, IDLE: the driver cannot tell the state.
ReadFails(c) ==
    \E target \in States :
        /\ IsState(c, target) /\ ~clk[c].waits /\ "read" \in Fails
        /\ Serve(Answer(c, event.from, target, "device"))
        /\ Complete(c, event.from, clk[c].ref)
        /\ missed' = IF target = "STOPPED" /\ event.from # Client
                     THEN [missed EXCEPT ![c] = @ + 1] ELSE missed
        /\ UNCHANGED running

\* Variant: one more is not counted.
OneMoreUncounted(c) ==
    /\ IsState(c, "RUNNING") /\ ~clk[c].waits /\ c \in running
    /\ Serve(Answer(c, event.from, "RUNNING", event.status))
    /\ Complete(c, event.from, clk[c].ref)
    /\ UNCHANGED running

\* IDLE, RUNNING: one more needs a clock that runs.
OneMore(c) ==
    /\ IsState(c, "RUNNING") /\ ~clk[c].waits /\ c \in running
    /\ Serve(Answer(c, event.from, "RUNNING", event.status))
    /\ Complete(c, event.from, clk[c].ref + 1)
    /\ UNCHANGED running

\* IDLE, RUNNING: a root is started.
RootStarts(c) ==
    /\ IsState(c, "RUNNING") /\ ~clk[c].waits /\ c \notin running /\ Parent[c] = None
    /\ \E result \in Outcomes("start") :
           /\ Serve(Answer(c, event.from, "RUNNING", result))
           /\ IF result = "success"
              THEN Complete(c, event.from, clk[c].ref + 1) /\ running' = running \cup {c}
              ELSE Complete(c, event.from, clk[c].ref) /\ UNCHANGED running

\* IDLE, RUNNING: the parent is asked first.
AskParent(c) ==
    /\ IsState(c, "RUNNING") /\ ~clk[c].waits /\ c \notin running /\ Parent[c] # None
    /\ Serve(Send(Parent[c], c, "RUNNING", event.status))
    /\ clk' = [clk EXCEPT ![c].caller = event.from, ![c].waits = TRUE]
    /\ UNCHANGED running

\* IDLE, STOPPED: others still need the clock.
OneLess(c) ==
    /\ IsState(c, "STOPPED") /\ ~clk[c].waits /\ clk[c].ref # 1
    /\ Serve(Answer(c, event.from, "STOPPED", event.status))
    /\ Complete(c, event.from, clk[c].ref - 1)
    /\ UNCHANGED running

\* IDLE, STOPPED: nobody needs the clock, which stops, and its parent is told,
\* whether or not the driver could stop it.
LastStops(c) ==
    /\ IsState(c, "STOPPED") /\ ~clk[c].waits /\ clk[c].ref = 1
    /\ Complete(c, event.from, 0)
    /\ \E result \in Outcomes("stop") :
           /\ Serve(Answer(c, event.from, "STOPPED", result)
                    \o Send(Parent[c], c, "STOPPED", result))
           /\ running' = IF result = "success" THEN running \ {c} ELSE running

\* Variant: it gets no answer.
TurnAwaySilently(c) ==
    \E target \in States :
        /\ IsState(c, target) /\ clk[c].waits /\ event.from # Parent[c]
        /\ Serve(<< >>)
        /\ UNCHANGED <<clk, running>>

\* WAIT_PARENT: another than the parent is turned away.
TurnAway(c) ==
    \E target \in States :
        /\ IsState(c, target) /\ clk[c].waits /\ event.from # Parent[c]
        /\ Serve(Send(event.from, c, target, "busy"))
        /\ UNCHANGED <<clk, running>>

FromParent(c) ==
    /\ \E target \in States : IsState(c, target)
    /\ clk[c].waits /\ event.from = Parent[c]

\* Variant: the parent of one that cannot be started is left running.
ParentRunsOn(c) ==
    /\ FromParent(c) /\ event.status = "success"
    /\ \/ /\ Serve(Answer(c, clk[c].caller, "RUNNING", "success"))
          /\ Complete(c, clk[c].caller, clk[c].ref + 1)
          /\ running' = running \cup {c}
       \/ /\ "start" \in Fails
          /\ Serve(Answer(c, clk[c].caller, "RUNNING", "device"))
          /\ Complete(c, clk[c].caller, clk[c].ref)
          /\ UNCHANGED running

\* WAIT_PARENT: the parent runs, and so does the clock now.  When it cannot be
\* started the parent is told that it is not needed.
ParentRuns(c) ==
    /\ FromParent(c) /\ event.status = "success"
    /\ \/ /\ Serve(Answer(c, clk[c].caller, "RUNNING", "success"))
          /\ Complete(c, clk[c].caller, clk[c].ref + 1)
          /\ running' = running \cup {c}
       \/ /\ "start" \in Fails
          /\ Serve(Send(Parent[c], c, "STOPPED", "device")
                   \o Answer(c, clk[c].caller, "RUNNING", "device"))
          /\ Complete(c, clk[c].caller, clk[c].ref)
          /\ UNCHANGED running

\* WAIT_PARENT: the parent could not be started.
ParentFails(c) ==
    /\ FromParent(c) /\ event.status # "success"
    /\ Serve(Answer(c, clk[c].caller, event.target, event.status))
    /\ Complete(c, clk[c].caller, clk[c].ref)
    /\ UNCHANGED running

\* clock_request_complete, process_response_event: the client gets its answer.
Respond(c) ==
    /\ queue # << >> /\ event.kind = "response" /\ event.to = c
    /\ Serve(<< >>)
    /\ want' = [want EXCEPT ![c] = None]
    /\ holds' = IF event.status # "success" THEN holds
                ELSE IF event.target = "RUNNING" THEN [holds EXCEPT ![c] = @ + 1]
                ELSE [holds EXCEPT ![c] = IF @ > 0 THEN @ - 1 ELSE @]
    /\ UNCHANGED <<clk, running, rate, input, missed, asks, sets>>

-----------------------------------------------------------------------------
RateEvent(c, r) == [kind |-> "rate", to |-> c, rate |-> r]

\* clock_set_rate of a clock of the tree: whatever the driver made of it, the
\* clock is to tell its children the rate that was asked for.
SetRate(c, r) ==
    /\ sets > 0 /\ want[c] = None
    /\ \E new \in {r} \cup (IF Rounds THEN Rates ELSE {})
                      \cup (IF "rate" \in Fails THEN {rate[c]} ELSE {}) :
           rate' = [rate EXCEPT ![c] = new]
    /\ queue' = Append(queue, RateEvent(c, r))
    /\ sets' = sets - 1
    /\ UNCHANGED <<clk, running, input, want, holds, missed, asks>>

\* The clocks of "told" as they come in dev_ctx_table: there is one such order.
Orders(told) == {order \in [1 .. Cardinality(told) -> told] :
                   \A i, j \in 1 .. Cardinality(told) : i < j => order[i] < order[j]}

\* Variant: the grandchildren are told the rate of their grandparent.
TellInput(told, r, out) ==
    /\ input' = [d \in Clocks |-> IF d \in told THEN r ELSE input[d]]
    /\ rate' = [d \in Clocks |-> IF d \in told THEN out[d] ELSE rate[d]]
    /\ \E order \in Orders(told) :
          Serve([i \in 1 .. Cardinality(told) |-> RateEvent(order[i], r)])

\* The children "told" of rate "r" make the rates "out" of it and are to tell
\* their own children.
Tell(told, r, out) ==
    /\ input' = [d \in Clocks |-> IF d \in told THEN r ELSE input[d]]
    /\ rate' = [d \in Clocks |-> IF d \in told THEN out[d] ELSE rate[d]]
    /\ \E order \in Orders(told) :
          Serve([i \in 1 .. Cardinality(told) |-> RateEvent(order[i], out[order[i]])])

\* clock_management_process_rate: all children, or those before one that fails.
TellChildren(c) ==
    /\ queue # << >> /\ event.kind = "rate" /\ event.to = c
    /\ \E told \in SUBSET Children(c), out \in [Children(c) -> Rates] :
           /\ \A d \in told, e \in Children(c) : e < d => e \in told
           /\ "rate" \in Fails \/ told = Children(c)
           /\ Tell(told, event.rate, out)
    /\ UNCHANGED <<clk, running, want, holds, missed, asks, sets>>

-----------------------------------------------------------------------------
ProcessState(c) ==
    \/ ReadFails(c)
    \/ /\ UNCHANGED missed
       /\ \/ OneMore(c)
          \/ RootStarts(c)
          \/ AskParent(c)
          \/ OneLess(c)
          \/ LastStops(c)
          \/ TurnAway(c)
          \/ ParentRuns(c)
          \/ ParentFails(c)

Process(c) == ProcessState(c) \/ Respond(c) \/ TellChildren(c)

Next ==
    \/ \E c \in Clocks, s \in States : SetState(c, s)
    \/ \E c \in Clocks, r \in Rates : SetRate(c, r)
    \/ \E c \in Clocks : Process(c)

Spec == Init /\ [][Next]_vars

\* The framework serves its events.
FairSpec == Spec /\ WF_vars(\E c \in Clocks : Process(c))

-----------------------------------------------------------------------------
\* A clock that is needed runs: the parent of a running clock does
\* (clock_management_framework.md, rules for setting state), and a clock whose
\* client was told that it runs does until that client asks for its stop.
\* Counts, roll-backs and events in flight never let it stop too early, nor a
\* child start before its parent.
NeededRuns ==
    \A c \in Clocks :
        (Children(c) \cap running # {} \/ (holds[c] > 0 /\ want[c] # "STOPPED"))
            => c \in running

\* When nothing is under way a clock counts its running children and the holds
\* of its client, and what it missed: failed starts took back what they had
\* counted on the way.
RefsAgree ==
    /\ TypeOK
    /\ queue = << >> =>
           \A c \in Clocks :
               /\ clk[c].ref = Cardinality(Children(c) \cap running)
                              + holds[c] + missed[c]
               /\ ~clk[c].waits /\ ~clk[c].initiator

\* A child knows its parent's rate, or will be told it and nothing else
\* afterwards.
RatesAgree ==
    \A c \in Clocks :
        Parent[c] # None /\ input[c] # rate[Parent[c]] =>
            \E i \in DOMAIN queue :
                /\ queue[i] = RateEvent(Parent[c], rate[Parent[c]])
                /\ \A j \in DOMAIN queue :
                      j > i => ~(queue[j].kind = "rate" /\ queue[j].to = Parent[c])

\* Every client gets its answer.
EveryoneAnswered == \A c \in Clocks : want[c] # None ~> want[c] = None
=============================================================================
