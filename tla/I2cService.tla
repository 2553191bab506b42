------------------------------ MODULE I2cService ------------------------------
(***************************************************************************)
(* What the I2C HAL promises its clients (i2c/doc, "Concurrent accesses"): *)
(* requests are served one at a time in the order they were made; a        *)
(* request is served by the transfers it names, a transmission before a    *)
(* reception; its client gets one answer, and is told of success only      *)
(* when all its transfers were made.                                       *)
(*                                                                         *)
(* I2c implements it as long as the event pool is not empty.               *)
(***************************************************************************)
EXTENDS Naturals, SequencesExt

CONSTANT Requests  \* The requests clients may make, each at most once.

Transfers == {<<"TX">>, <<"RX">>, <<"TX", "RX">>}

VARIABLES
    todo,     \* todo[r]: the transfers request r asks for
    waiting,  \* the requests to serve, oldest first
    made,     \* the transfers made so far for the oldest one
    answer    \* answer[r]: what the client of r was told, "none" at first

vars == <<todo, waiting, made, answer>>

Init ==
    /\ todo \in [Requests -> Transfers]
    /\ waiting = <<>>
    /\ made = <<>>
    /\ answer = [r \in Requests |-> "none"]

Ask(r) ==
    /\ answer[r] = "none" /\ ~Contains(waiting, r)
    /\ waiting' = Append(waiting, r)
    /\ UNCHANGED <<todo, made, answer>>

\* The next transfer of the oldest request is made.
Transfer ==
    /\ waiting # <<>>
    /\ made # todo[Head(waiting)]
    /\ made' = SubSeq(todo[Head(waiting)], 1, Len(made) + 1)
    /\ UNCHANGED <<todo, waiting, answer>>

Answer(status) ==
    /\ waiting # <<>>
    /\ status = "SUCCESS" => made = todo[Head(waiting)]
    /\ answer' = [answer EXCEPT ![Head(waiting)] = status]
    /\ waiting' = Tail(waiting)
    /\ made' = <<>>
    /\ UNCHANGED todo

Next ==
    \/ \E r \in Requests : Ask(r)
    \/ Transfer
    \/ \E status \in {"SUCCESS", "E_DEVICE"} : Answer(status)

Spec == Init /\ [][Next]_vars
===============================================================================
