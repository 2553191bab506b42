------------------------------- MODULE Mailbox --------------------------------
(***************************************************************************)
(* What the completer's end of an out-band transport channel promises to   *)
(* the agent at the other end: a mailbox is opened once, then changes      *)
(* hands.  The agent asks only while the mailbox is its own; the completer *)
(* takes each request exactly once, and gives the mailbox back with the    *)
(* answer to that very request in it.                                      *)
(***************************************************************************)
CONSTANTS
    Channels,   \* The channels, each with its mailbox.
    Requests,   \* What an agent may ask.
    Answers,    \* Answers[r]: the answer to request r.
    Blank       \* What is in a mailbox that is just open, or not the agent's.

VARIABLES
    phase,      \* phase[c]: "closed"; "free", the agent's; "asked", holding a
                \* request; or "taken", with its request taken up
    request,    \* request[c]: the last request asked
    reply       \* reply[c]: what is in the mailbox for the agent

vars == <<phase, request, reply>>

Init ==
    /\ phase = [c \in Channels |-> "closed"]
    /\ request \in [Channels -> Requests]
    /\ reply = [c \in Channels |-> Blank]

\* The completer opens the mailbox.
Open(c) ==
    /\ phase[c] = "closed"
    /\ phase' = [phase EXCEPT ![c] = "free"]
    /\ UNCHANGED <<request, reply>>

\* The agent leaves a request in the mailbox.
Ask(c) ==
    /\ phase[c] = "free"
    /\ phase' = [phase EXCEPT ![c] = "asked"]
    /\ \E r \in Requests : request' = [request EXCEPT ![c] = r]
    /\ reply' = [reply EXCEPT ![c] = Blank]

\* The completer takes the request up.
Take(c) ==
    /\ phase[c] = "asked"
    /\ phase' = [phase EXCEPT ![c] = "taken"]
    /\ UNCHANGED <<request, reply>>

\* The completer gives the mailbox back with the answer.
Answer(c) ==
    /\ phase[c] = "taken"
    /\ phase' = [phase EXCEPT ![c] = "free"]
    /\ reply' = [reply EXCEPT ![c] = Answers[request[c]]]
    /\ UNCHANGED request

Next == \E c \in Channels : Open(c) \/ Ask(c) \/ Take(c) \/ Answer(c)

Spec == Init /\ [][Next]_vars

===============================================================================
