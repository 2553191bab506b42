------------------------------- MODULE EventLog -------------------------------
(***************************************************************************)
(* What the log of platform events promises its receiver: every event is   *)
(* received whole, once and in the order it was logged, unless it was the  *)
(* oldest of a full log when another one came.  An event that is offered   *)
(* to the receiver is out of the log and is not lost any more.             *)
(***************************************************************************)
EXTENDS Naturals, Sequences

CONSTANTS
    Capacity,  \* How many events the log holds, at least one.
    Sizes      \* The sizes of events.

VARIABLES
    logged,   \* how many events have been logged
    backlog,  \* the events in the log, oldest first
    offered,  \* the event being received, or NoEvent
    given,    \* whether the receiver has it
    received  \* the contents of the events received

vars == <<logged, backlog, offered, given, received>>

\* An event has a number and a size; its contents tell its bytes apart.
NoEvent == [n |-> 0, size |-> 0]
Contents(e) == [i \in 1 .. e.size |-> <<e.n, i>>]

Init == /\ logged \in 0 .. Capacity
        /\ backlog \in [1 .. logged -> [n : 1 .. logged, size : Sizes]]
        /\ \A i \in 1 .. logged : backlog[i].n = i
        /\ offered = NoEvent /\ given = FALSE /\ received = <<>>

Log == /\ logged' = logged + 1
       /\ \E s \in Sizes :
              backlog' = Append(IF Len(backlog) = Capacity THEN Tail(backlog)
                                ELSE backlog, [n |-> logged', size |-> s])
       /\ UNCHANGED <<offered, given, received>>

Offer == /\ offered = NoEvent /\ backlog # <<>>
         /\ offered' = Head(backlog) /\ backlog' = Tail(backlog)
         /\ UNCHANGED <<logged, given, received>>

Give == /\ offered # NoEvent /\ ~given
        /\ given' = TRUE /\ received' = Append(received, Contents(offered))
        /\ UNCHANGED <<logged, backlog, offered>>

Release == /\ given
           /\ offered' = NoEvent /\ given' = FALSE
           /\ UNCHANGED <<logged, backlog, received>>

Next == Log \/ Offer \/ Give \/ Release

Spec == Init /\ [][Next]_vars
===============================================================================
