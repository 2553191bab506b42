----------------------------- MODULE ClockProofs -----------------------------
(***************************************************************************)
(* Theorems about clocks.  First of ClockTree, for any tree: a clock that  *)
(* is needed runs, the counts agree with the clocks' users, and a clock    *)
(* knows its parent's rate or is about to be told.  Then of ScmiClock, for *)
(* any number of agents: the count agrees with the agents' states whatever *)
(* fails; one thing is under way for the agent on record; and the clock    *)
(* runs for those who were told so.                                        *)
(***************************************************************************)
EXTENDS ClockTree, ScmiClock, SeqLemmas, FiniteSetTheorems

-----------------------------------------------------------------------------
(* The events of the module.                                               *)

\* The clocks that have a parent.
Below == {d \in Clocks : Parent[d] # None}

\* Clock d asks its parent to run, is answered, and needs it no longer.
Ask(d) == [kind |-> "state", to |-> Parent[d], from |-> d, target |-> "RUNNING",
           status |-> "success"]
Reply(d, s) == [kind |-> "state", to |-> d, from |-> Parent[d], target |-> "RUNNING",
                status |-> s]
Give(d, s) == [kind |-> "state", to |-> Parent[d], from |-> d, target |-> "STOPPED",
               status |-> s]

\* The client of clock c calls, and is answered.
Call(c, t) == [kind |-> "state", to |-> c, from |-> Client, target |-> t,
               status |-> "success"]
Response(c, t, s) == [kind |-> "response", to |-> c, target |-> t, status |-> s]

Exchange(d) == {Ask(d)} \cup {Reply(d, s) : s \in Statuses}
Gives(d) == {Give(d, s) : s \in Statuses}
CallsOf(c) == {Call(c, t) : t \in States}
ResponsesOf(c) == {Response(c, t, s) : t \in States, s \in Statuses}

\* Two events that differ in more than their data.
LEMMA Distinct ==
    /\ \A d, e \in Below : Ask(d) = Ask(e) => d = e
    /\ \A d, e \in Below, s \in Statuses : Ask(d) # Reply(e, s) /\ Ask(d) # Give(e, s)
    /\ \A d \in Below, c \in Clocks, t \in States : Ask(d) # Call(c, t)
    /\ \A d \in Below, c \in Clocks, t \in States, s \in Statuses :
           Ask(d) # Response(c, t, s)
    /\ \A d, e \in Below, s, t \in Statuses : Reply(d, s) = Reply(e, t) => d = e /\ s = t
    /\ \A d, e \in Below, s, t \in Statuses : Reply(d, s) # Give(e, t)
    /\ \A d \in Below, c \in Clocks, s \in Statuses, t \in States : Reply(d, s) # Call(c, t)
    /\ \A d \in Below, c \in Clocks, s, r \in Statuses, t \in States :
           Reply(d, s) # Response(c, t, r)
    /\ \A d, e \in Below, s, t \in Statuses : Give(d, s) = Give(e, t) => d = e /\ s = t
    /\ \A d \in Below, c \in Clocks, s \in Statuses, t \in States : Give(d, s) # Call(c, t)
    /\ \A d \in Below, c \in Clocks, s, r \in Statuses, t \in States :
           Give(d, s) # Response(c, t, r)
    /\ \A c, b \in Clocks, t, u \in States : Call(c, t) = Call(b, u) => c = b /\ t = u
    /\ \A c, b \in Clocks, t, u \in States, s \in Statuses : Call(c, t) # Response(b, u, s)
    /\ \A c, b \in Clocks, t, u \in States, s, r \in Statuses :
           Response(c, t, s) = Response(b, u, r) => c = b /\ t = u /\ s = r
    <1>1. /\ \A d \in Below : d \in Clocks /\ Parent[d] \in Clocks /\ Parent[d] < d
          /\ Clocks \subseteq Nat /\ Client \notin Clocks
        BY ClockTreeAssumption DEF Below
    <1>2. \A d, e \in Below : Ask(d) = Ask(e) => d = e
        BY <1>1 DEF Ask
    <1>3. \A d, e \in Below, s \in Statuses : Ask(d) # Reply(e, s) /\ Ask(d) # Give(e, s)
        <2>1. ASSUME NEW d \in Below, NEW e \in Below, NEW s \in Statuses, Ask(d) = Reply(e, s)
              PROVE  FALSE
            <3>1. Parent[d] = e /\ Parent[e] = d
                BY <2>1 DEF Ask, Reply
            <3>2. d \in Nat /\ e \in Nat /\ Parent[d] < d /\ Parent[e] < e
                BY <1>1
            <3> QED BY <3>1, <3>2
        <2>2. \A d, e \in Below, s \in Statuses : Ask(d) # Give(e, s)
            BY DEF Ask, Give
        <2> QED BY <2>1, <2>2
    <1>4. \A d \in Below, c \in Clocks, t \in States : Ask(d) # Call(c, t)
        BY <1>1 DEF Ask, Call
    <1>5. \A d \in Below, c \in Clocks, t \in States, s \in Statuses :
               Ask(d) # Response(c, t, s)
        BY <1>1 DEF Ask, Response
    <1>6. \A d, e \in Below, s, t \in Statuses : Reply(d, s) = Reply(e, t) => d = e /\ s = t
        BY <1>1 DEF Reply
    <1>7. \A d, e \in Below, s, t \in Statuses : Reply(d, s) # Give(e, t)
        BY <1>1 DEF Reply, Give
    <1>8. \A d \in Below, c \in Clocks, s \in Statuses, t \in States : Reply(d, s) # Call(c, t)
        BY <1>1 DEF Reply, Call
    <1>9. \A d \in Below, c \in Clocks, s, r \in Statuses, t \in States :
               Reply(d, s) # Response(c, t, r)
        BY <1>1 DEF Reply, Response
    <1>10. \A d, e \in Below, s, t \in Statuses : Give(d, s) = Give(e, t) => d = e /\ s = t
        BY <1>1 DEF Give
    <1>11. \A d \in Below, c \in Clocks, s \in Statuses, t \in States : Give(d, s) # Call(c, t)
        BY <1>1 DEF Give, Call
    <1>12. \A d \in Below, c \in Clocks, s, r \in Statuses, t \in States :
               Give(d, s) # Response(c, t, r)
        BY <1>1 DEF Give, Response
    <1>13. \A c, b \in Clocks, t, u \in States : Call(c, t) = Call(b, u) => c = b /\ t = u
        BY <1>1 DEF Call
    <1>14. \A c, b \in Clocks, t, u \in States, s \in Statuses : Call(c, t) # Response(b, u, s)
        BY <1>1 DEF Call, Response
    <1>15. \A c, b \in Clocks, t, u \in States, s, r \in Statuses :
               Response(c, t, s) = Response(b, u, r) => c = b /\ t = u /\ s = r
        BY <1>1 DEF Response
    <1> QED BY <1>2, <1>3, <1>4, <1>5, <1>6, <1>7, <1>8, <1>9, <1>10, <1>11, <1>12, <1>13, <1>14, <1>15

-----------------------------------------------------------------------------
(* The events that wait, and the order they wait in.                       *)

MessagesOf(q) == {e \in Range(q) : e.kind # "rate"}

\* A clock speaks with its parent about one thing at a time: there is one
\* event of an exchange, one that gives the parent up, which comes before the
\* next exchange, and one to or from the client, whose call comes before all
\* that others send to the clock afterwards.
Precedes(x, y) ==
    \A d \in Clocks :
        /\ x \in Exchange(d) => y \notin Exchange(d)
        /\ x \in Gives(d) \cup {Ask(d)} => y \notin Gives(d)
        /\ x \in CallsOf(d) \cup ResponsesOf(d) => y \notin CallsOf(d) \cup ResponsesOf(d)
        /\ x.kind = "state" /\ x.to = d => y \notin CallsOf(d)

InOrder(q) ==
    \A i, j \in DOMAIN q :
        i < j /\ q[i].kind # "rate" /\ q[j].kind # "rate" => Precedes(q[i], q[j])

Known(e) ==
    \/ \E d \in Below : e \in Exchange(d) \cup Gives(d)
    \/ \E c \in Clocks : e \in CallsOf(c) \cup ResponsesOf(c)

\* What the module sends.
LEMMA KnownEvents ==
    /\ \A d \in Below : Ask(d) \in Events
    /\ \A d \in Below, s \in Statuses : Reply(d, s) \in Events /\ Give(d, s) \in Events
    /\ \A c \in Clocks, t \in States : Call(c, t) \in Events
    /\ \A c \in Clocks, t \in States, s \in Statuses : Response(c, t, s) \in Events
    <1>1. \A d \in Below : d \in Clocks /\ Parent[d] \in Clocks
        BY ClockTreeAssumption DEF Below
    <1>2. "success" \in Statuses /\ {"RUNNING", "STOPPED"} = States
        BY DEF Statuses, States
    <1>3. \A d \in Below : Ask(d) \in Events
        BY <1>1, <1>2 DEF Ask, Events
    <1>4. \A d \in Below, s \in Statuses : Reply(d, s) \in Events /\ Give(d, s) \in Events
        BY <1>1, <1>2 DEF Reply, Give, Events
    <1>5. \A c \in Clocks, t \in States : Call(c, t) \in Events
        BY <1>2 DEF Call, Events
    <1>6. \A c \in Clocks, t \in States, s \in Statuses : Response(c, t, s) \in Events
        BY DEF Response, Events
    <1> QED BY <1>3, <1>4, <1>5, <1>6

\* No event comes twice.
LEMMA NotTwice == \A e : Known(e) => ~Precedes(e, e)
    <1> SUFFICES ASSUME NEW e, Known(e), Precedes(e, e) PROVE FALSE
        OBVIOUS
    <1>1. CASE \E d \in Below : e \in Exchange(d) \cup Gives(d)
        BY <1>1 DEF Precedes, Below
    <1>2. CASE \E c \in Clocks : e \in CallsOf(c) \cup ResponsesOf(c)
        BY <1>2 DEF Precedes
    <1> QED BY <1>1, <1>2 DEF Known

\* The head is served.
LEMMA MessageServed ==
    ASSUME NEW q \in Seq(Events), q # <<>>, InOrder(q),
           Head(q).kind # "rate" => Known(Head(q))
    PROVE  /\ Tail(q) \in Seq(Events) /\ InOrder(Tail(q))
           /\ Head(q).kind = "rate" => MessagesOf(Tail(q)) = MessagesOf(q)
           /\ Head(q).kind # "rate" =>
                 /\ Head(q) \in MessagesOf(q)
                 /\ MessagesOf(Tail(q)) = MessagesOf(q) \ {Head(q)}
                 /\ \A y \in MessagesOf(q) \ {Head(q)} : Precedes(Head(q), y)
    <1> DEFINE t == Tail(q)
               h == Head(q)
    <1>1. /\ h = q[1] /\ t \in Seq(Events) /\ Len(t) = Len(q) - 1 /\ Len(q) \in Nat
          /\ Len(q) >= 1 /\ DOMAIN q = 1 .. Len(q) /\ DOMAIN t = 1 .. Len(q) - 1
          /\ \A i \in 1 .. Len(q) - 1 : t[i] = q[i + 1]
        BY HeadTailProperties, LenProperties
    <1>2. Range(q) = {q[i] : i \in 1 .. Len(q)} /\ Range(t) = {t[i] : i \in 1 .. Len(q) - 1}
        BY <1>1 DEF Range
    <1> HIDE DEF t, h
    <1>3. Range(q) = Range(t) \cup {h}
        <2>1. ASSUME NEW x \in Range(q) PROVE x \in Range(t) \cup {h}
            <3>1. PICK i \in 1 .. Len(q) : x = q[i]
                BY <1>2
            <3>2. CASE i = 1
                BY <1>1, <3>1, <3>2
            <3>3. CASE i # 1
                <4>1. i - 1 \in 1 .. Len(q) - 1 /\ t[i - 1] = q[i]
                    BY <1>1, <3>1, <3>3
                <4> QED BY <1>2, <3>1, <4>1
            <3> QED BY <3>2, <3>3
        <2>2. ASSUME NEW x \in Range(t) PROVE x \in Range(q)
            <3>1. PICK i \in 1 .. Len(q) - 1 : x = t[i]
                BY <1>2
            <3>2. i + 1 \in 1 .. Len(q) /\ q[i + 1] = x
                BY <1>1, <3>1
            <3> QED BY <1>2, <3>2
        <2>3. h \in Range(q)
            BY <1>1, <1>2
        <2> QED BY <2>1, <2>2, <2>3
    <1>4. InOrder(t)
        <2> SUFFICES ASSUME NEW i \in DOMAIN t, NEW j \in DOMAIN t, i < j,
                            t[i].kind # "rate", t[j].kind # "rate"
                     PROVE  Precedes(t[i], t[j])
            BY DEF InOrder
        <2>1. /\ i + 1 \in DOMAIN q /\ j + 1 \in DOMAIN q /\ i + 1 < j + 1
              /\ t[i] = q[i + 1] /\ t[j] = q[j + 1]
            BY <1>1
        <2> QED BY <2>1 DEF InOrder
    <1>5. ASSUME h.kind # "rate"
          PROVE  \A y \in MessagesOf(t) : Precedes(h, y)
        <2> SUFFICES ASSUME NEW i \in 1 .. Len(q) - 1, t[i].kind # "rate"
                     PROVE  Precedes(h, t[i])
            BY <1>2 DEF MessagesOf
        <2>1. 1 \in DOMAIN q /\ i + 1 \in DOMAIN q /\ 1 < i + 1 /\ t[i] = q[i + 1]
            BY <1>1
        <2> QED BY <1>1, <1>5, <2>1 DEF InOrder
    <1>6. h.kind # "rate" => h \notin MessagesOf(t)
        BY <1>5, NotTwice DEF h
    <1>7. h.kind = "rate" => MessagesOf(t) = MessagesOf(q)
        BY <1>3 DEF MessagesOf
    <1>8. h.kind # "rate" => h \in MessagesOf(q) /\ MessagesOf(t) = MessagesOf(q) \ {h}
        BY <1>3, <1>6 DEF MessagesOf
    <1> QED BY <1>1, <1>4, <1>5, <1>7, <1>8 DEF t, h

\* An event is sent.
LEMMA MessageSent ==
    ASSUME NEW q \in Seq(Events), InOrder(q), NEW y \in Events,
           y.kind # "rate" => \A x \in MessagesOf(q) : Precedes(x, y)
    PROVE  /\ Append(q, y) \in Seq(Events) /\ InOrder(Append(q, y))
           /\ MessagesOf(Append(q, y))
              = MessagesOf(q) \cup IF y.kind = "rate" THEN {} ELSE {y}
    <1> DEFINE t == Append(q, y)
    <1>1. /\ t \in Seq(Events) /\ Len(t) = Len(q) + 1 /\ Len(q) \in Nat
          /\ DOMAIN q = 1 .. Len(q) /\ DOMAIN t = 1 .. Len(q) + 1
          /\ t[Len(q) + 1] = y /\ \A i \in 1 .. Len(q) : t[i] = q[i]
        BY AppendProperties, LenProperties
    <1>2. Range(t) = Range(q) \cup {y} /\ Range(q) = {q[i] : i \in 1 .. Len(q)}
        BY AppendFacts, SeqBasics
    <1> HIDE DEF t
    <1>3. InOrder(t)
        <2> SUFFICES ASSUME NEW i \in DOMAIN t, NEW j \in DOMAIN t, i < j,
                            t[i].kind # "rate", t[j].kind # "rate"
                     PROVE  Precedes(t[i], t[j])
            BY DEF InOrder
        <2>1. i \in DOMAIN q /\ t[i] = q[i]
            BY <1>1
        <2>2. CASE j \in DOMAIN q
            BY <1>1, <2>1, <2>2 DEF InOrder
        <2>3. CASE j = Len(q) + 1
            <3>1. q[i] \in MessagesOf(q)
                BY <1>1, <1>2, <2>1 DEF MessagesOf
            <3> QED BY <1>1, <2>1, <2>3, <3>1
        <2> QED BY <1>1, <2>2, <2>3
    <1>4. MessagesOf(t) = MessagesOf(q) \cup IF y.kind = "rate" THEN {} ELSE {y}
        BY <1>2 DEF MessagesOf
    <1> QED BY <1>1, <1>3, <1>4 DEF t

-----------------------------------------------------------------------------
(* The inductive invariant.                                                *)

Messages == MessagesOf(queue)

Asking(d) == Ask(d) \in Messages
Replied(d) == \E s \in Statuses : Reply(d, s) \in Messages
Giving(d) == \E s \in Statuses : Give(d, s) \in Messages
Called(c) == \E t \in States : Call(c, t) \in Messages
Responded(c) == \E t \in States, s \in Statuses : Response(c, t, s) \in Messages

\* The parent of d has to be started first.
Above(d) == clk[Parent[d]].waits /\ clk[Parent[d]].caller = d

Typed ==
    /\ clk \in [Clocks -> Context]
    /\ running \subseteq Clocks
    /\ queue \in Seq(Events)
    /\ rate \in [Clocks -> Rates] /\ input \in [Clocks -> Rates]
    /\ want \in [Clocks -> States \cup {None}]
    /\ holds \in [Clocks -> Nat] /\ missed \in [Clocks -> Nat]
    /\ asks \in Nat /\ sets \in Nat

\* A clock that waits does not run, and what it waits for is in one place; one
\* that has given its parent up does not run, and the parent has not just been
\* granted to it again.
Waiting ==
    /\ \A d \in Clocks : clk[d].waits => d \in Below /\ d \notin running
    /\ \A d \in Below : clk[d].waits <=> Asking(d) \/ Replied(d) \/ Above(d)
    /\ \A d \in Below : Above(d) => ~Asking(d) /\ ~Replied(d)
    /\ \A d \in Below : Giving(d) => d \notin running /\ ~Replied(d)

\* The client whose call a clock works on is the one who waits for it.
Clients ==
    \A c \in Clocks :
        /\ clk[c].waits => IF clk[c].initiator THEN clk[c].caller = Client
                                               ELSE clk[c].caller \in Children(c)
        /\ Called(c) <=> clk[c].initiator /\ ~clk[c].waits
        /\ \A t \in States : Call(c, t) \in Messages => want[c] = t
        /\ \A t \in States, s \in Statuses :
               Response(c, t, s) \in Messages => ~clk[c].initiator /\ want[c] = t
        /\ want[c] # None <=> clk[c].initiator \/ Responded(c)
        /\ clk[c].waits /\ clk[c].initiator => want[c] = "RUNNING"
        /\ want[c] = "STOPPED" => holds[c] > 0

\* A clock counts each child that runs, that was just told it may, or that has
\* stopped and not been heard yet; its client's holds, with the answer that is on
\* its way; and the stops it missed.  It runs if it counts anything.
Counts(d) == d \in running \/ Reply(d, "success") \in Messages \/ Giving(d)
Counted(c) == {d \in Children(c) : Counts(d)}

ClientRefs(c) ==
    holds[c] + (IF Response(c, "RUNNING", "success") \in Messages THEN 1 ELSE 0)
             - (IF Response(c, "STOPPED", "success") \in Messages THEN 1 ELSE 0)

Refs ==
    \A c \in Clocks :
        /\ clk[c].ref = Cardinality(Counted(c)) + ClientRefs(c) + missed[c]
        /\ clk[c].ref > 0 => c \in running

TreeInv ==
    /\ Typed
    /\ InOrder(queue) /\ \A e \in Messages : Known(e)
    /\ Waiting /\ Clients /\ Refs

\* The counter of no clock is about to overflow.
NotWrapped == \A c \in Clocks : clk[c].ref < Width - 1

-----------------------------------------------------------------------------
(* What an event is, from what its receiver looks at.                      *)

LEMMA ConstantFacts ==
    /\ Clocks \subseteq Nat /\ IsFiniteSet(Clocks) /\ None \notin Clocks
    /\ Client \notin Clocks /\ Client # None
    /\ \A d \in Below : d \in Clocks /\ Parent[d] \in Clocks /\ Parent[d] < d
    /\ \A d \in Clocks : Parent[d] = None <=> d \notin Below
    /\ \A c \in Clocks : Children(c) = {d \in Below : Parent[d] = c}
    /\ \A c \in Clocks : c \notin Children(c) /\ Parent[c] \notin Children(c)
    /\ None \notin States /\ States = {"RUNNING", "STOPPED"}
    /\ Statuses = {"success", "busy", "device"}
    /\ Width \in Nat \ {0}
    <1>1. /\ Clocks \subseteq Nat /\ IsFiniteSet(Clocks) /\ None \notin Clocks
          /\ Client \notin Clocks /\ Client # None
          /\ None \notin States /\ Width \in Nat \ {0}
        BY ClockTreeAssumption
    <1>2. /\ \A d \in Below : d \in Clocks /\ Parent[d] \in Clocks /\ Parent[d] < d
          /\ \A d \in Clocks : Parent[d] = None <=> d \notin Below
        BY ClockTreeAssumption DEF Below
    <1>3. \A c \in Clocks : Children(c) = {d \in Below : Parent[d] = c}
        BY <1>1 DEF Children, Below
    <1>4. ASSUME NEW c \in Clocks
          PROVE  c \notin Children(c) /\ Parent[c] \notin Children(c)
        <2>1. ASSUME NEW d \in Children(c) PROVE d \in Nat /\ c < d
            <3>1. d \in Below /\ Parent[d] = c
                BY <1>1, <2>1 DEF Children, Below
            <3> QED BY <1>1, <1>2, <3>1
        <2>2. c \notin Children(c)
            BY <2>1
        <2>3. ASSUME Parent[c] \in Children(c) PROVE FALSE
            <3>1. Parent[c] \in Clocks /\ c < Parent[c] /\ c \in Nat
                BY <2>1, <2>3, <1>1, <1>3 DEF Below
            <3>2. Parent[c] < c /\ Parent[c] \in Nat
                BY <3>1, <1>1, <1>2
            <3> QED BY <3>1, <3>2
        <2> QED BY <2>2, <2>3
    <1> QED BY <1>1, <1>2, <1>3, <1>4 DEF States, Statuses

\* The counts of clock c are those of its children and of its client.
LEMMA CountType ==
    ASSUME TreeInv, NEW c \in Clocks
    PROVE  /\ IsFiniteSet(Counted(c)) /\ Cardinality(Counted(c)) \in Nat
           /\ ClientRefs(c) \in Nat /\ missed[c] \in Nat /\ clk[c].ref \in 0 .. Width - 1
           /\ \A d \in Children(c) : Counts(d) => c \in running /\ ~clk[c].waits
    <1>1. IsFiniteSet(Children(c)) /\ Counted(c) \subseteq Children(c)
        <2>1. Children(c) \subseteq Clocks
            BY ConstantFacts DEF Below
        <2> QED BY <2>1, ConstantFacts, FS_Subset DEF Counted
    <1>2. IsFiniteSet(Counted(c)) /\ Cardinality(Counted(c)) \in Nat
        BY <1>1, FS_Subset, FS_CardinalityType
    <1>3. ClientRefs(c) \in Nat
        <2>1. holds[c] \in Nat
            BY DEF TreeInv, Typed
        <2>2. Response(c, "STOPPED", "success") \in Messages => holds[c] > 0
            BY ConstantFacts DEF TreeInv, Clients
        <2> QED BY <2>1, <2>2 DEF ClientRefs
    <1>4. missed[c] \in Nat /\ clk[c].ref \in 0 .. Width - 1
        BY DEF TreeInv, Typed, Context
    <1>5. ASSUME NEW d \in Children(c), Counts(d)
          PROVE  c \in running /\ ~clk[c].waits
        <2>1. Counted(c) # {}
            BY <1>5 DEF Counted
        <2>2. Cardinality(Counted(c)) # 0
            BY <1>2, <2>1, FS_EmptySet
        <2>3. clk[c].ref > 0
            BY <1>2, <1>3, <1>4, <2>2 DEF TreeInv, Refs
        <2> QED BY <2>3 DEF TreeInv, Refs, Waiting
    <1> QED BY <1>2, <1>3, <1>4, <1>5

\* Who uses clock c, and how it is asked and answered.
Users(c) == Children(c) \cup {Client}
RequestOf(c, w) == IF w = Client THEN Call(c, "RUNNING") ELSE Ask(w)
Release(c, w, s) == IF w = Client THEN Call(c, "STOPPED") ELSE Give(w, s)
Result(c, w, s) == IF w = Client THEN Response(c, "RUNNING", s) ELSE Reply(w, s)

\* The event that is served comes before all others.
LEMMA EventFirst ==
    ASSUME TreeInv, queue # <<>>, event.kind # "rate"
    PROVE  /\ event \in Messages /\ Known(event)
           /\ \A y \in Messages \ {event} : Precedes(event, y)
    <1>1. event \in Messages
        BY TailFacts DEF TreeInv, Typed, Messages, MessagesOf, event
    <1>2. Known(event)
        BY <1>1 DEF TreeInv
    <1> QED BY <1>1, <1>2, MessageServed DEF TreeInv, Typed, Messages, event

LEMMA RunRequested ==
    ASSUME TreeInv, NEW c \in Clocks, IsState(c, "RUNNING"), ~clk[c].waits
    PROVE  \E w \in Users(c) :
              /\ event = RequestOf(c, w) /\ event.from = w /\ event.status = "success"
              /\ clk[c].initiator <=> w = Client
              /\ w = Client => want[c] = "RUNNING"
    <1>1. /\ queue # <<>> /\ event.kind = "state" /\ event.to = c
          /\ event.target = "RUNNING"
        BY DEF IsState
    <1>2. /\ event \in Messages /\ Known(event)
          /\ \A y \in Messages \ {event} : Precedes(event, y)
        BY <1>1, EventFirst
    <1>3. ASSUME NEW d \in Below, event = Ask(d)
          PROVE  d \in Children(c) /\ event.from = d /\ event.status = "success"
                 /\ ~clk[c].initiator
        <2>1. d \in Children(c) /\ event.from = d /\ event.status = "success"
            BY <1>1, <1>3, ConstantFacts DEF Ask
        <2>2. ASSUME NEW t \in States, Call(c, t) \in Messages PROVE FALSE
            <3>1. Call(c, t) # event
                BY <1>3, Distinct
            <3>2. Precedes(event, Call(c, t))
                BY <1>2, <2>2, <3>1
            <3> QED BY <1>1, <3>2 DEF Precedes, CallsOf
        <2>3. ~clk[c].initiator
            BY <2>2 DEF TreeInv, Clients, Called
        <2> QED BY <2>1, <2>3
    <1>4. ASSUME NEW d \in Below, NEW s \in Statuses, event = Reply(d, s) PROVE FALSE
        <2>1. d = c
            BY <1>1, <1>4 DEF Reply
        <2> QED BY <1>2, <1>4, <2>1 DEF TreeInv, Waiting, Replied
    <1>5. ASSUME NEW d \in Below, NEW s \in Statuses PROVE event # Give(d, s)
        BY <1>1 DEF Give
    <1>6. ASSUME NEW b \in Clocks, NEW t \in States, event = Call(b, t)
          PROVE  /\ event = Call(c, "RUNNING") /\ event.from = Client
                 /\ event.status = "success" /\ clk[c].initiator /\ want[c] = "RUNNING"
        <2>1. b = c /\ t = "RUNNING" /\ event.from = Client /\ event.status = "success"
            BY <1>1, <1>6 DEF Call
        <2> QED BY <1>2, <1>6, <2>1 DEF TreeInv, Clients, Called
    <1>7. ASSUME NEW b \in Clocks, NEW t \in States, NEW s \in Statuses
          PROVE  event # Response(b, t, s)
        BY <1>1 DEF Response
    <1>8. CASE \E d \in Below : event = Ask(d)
        <2>1. PICK d \in Below : event = Ask(d)
            BY <1>8
        <2>2. d \in Users(c) /\ d # Client /\ event = RequestOf(c, d)
            BY <1>3, <2>1, ConstantFacts DEF Users, RequestOf
        <2> QED BY <1>3, <2>1, <2>2
    <1>9. CASE \E b \in Clocks, t \in States : event = Call(b, t)
        <2>1. Client \in Users(c) /\ event = RequestOf(c, Client)
            BY <1>6, <1>9 DEF Users, RequestOf
        <2> QED BY <1>6, <1>9, <2>1
    <1> QED BY <1>2, <1>4, <1>5, <1>7, <1>8, <1>9
            DEF Known, Exchange, Gives, CallsOf, ResponsesOf

LEMMA ReleaseRequested ==
    ASSUME TreeInv, NEW c \in Clocks, IsState(c, "STOPPED")
    PROVE  /\ ~clk[c].waits
           /\ \E w \in Users(c), s \in Statuses :
                 /\ event = Release(c, w, s) /\ event.from = w
                 /\ clk[c].initiator <=> w = Client
                 /\ w = Client => want[c] = "STOPPED" /\ event.status = "success"
    <1>1. /\ queue # <<>> /\ event.kind = "state" /\ event.to = c
          /\ event.target = "STOPPED"
        BY DEF IsState
    <1>2. /\ event \in Messages /\ Known(event)
          /\ \A y \in Messages \ {event} : Precedes(event, y)
        BY <1>1, EventFirst
    <1>3. /\ \A d \in Below : event # Ask(d)
          /\ \A d \in Below, s \in Statuses : event # Reply(d, s)
        BY <1>1 DEF Ask, Reply
    <1>4. ASSUME NEW d \in Below, NEW s \in Statuses, event = Give(d, s)
          PROVE  /\ d \in Children(c) /\ event.from = d
                 /\ ~clk[c].initiator /\ ~clk[c].waits
        <2>1. d \in Children(c) /\ event.from = d
            BY <1>1, <1>4, ConstantFacts DEF Give
        <2>2. ASSUME NEW t \in States, Call(c, t) \in Messages PROVE FALSE
            <3>1. Call(c, t) # event
                BY <1>4, Distinct
            <3>2. Precedes(event, Call(c, t))
                BY <1>2, <2>2, <3>1
            <3> QED BY <1>1, <3>2 DEF Precedes, CallsOf
        <2>3. ~clk[c].waits
            <3>1. Counts(d)
                BY <1>2, <1>4 DEF Counts, Giving
            <3> QED BY <2>1, <3>1, CountType
        <2>4. ~clk[c].initiator
            BY <2>2, <2>3 DEF TreeInv, Clients, Called
        <2> QED BY <2>1, <2>3, <2>4
    <1>5. ASSUME NEW b \in Clocks, NEW t \in States, event = Call(b, t)
          PROVE  /\ event = Call(c, "STOPPED") /\ event.from = Client
                 /\ event.status = "success" /\ clk[c].initiator /\ want[c] = "STOPPED"
                 /\ ~clk[c].waits
        <2>1. b = c /\ t = "STOPPED" /\ event.from = Client /\ event.status = "success"
            BY <1>1, <1>5 DEF Call
        <2> QED BY <1>2, <1>5, <2>1 DEF TreeInv, Clients, Called
    <1>6. ASSUME NEW b \in Clocks, NEW t \in States, NEW s \in Statuses
          PROVE  event # Response(b, t, s)
        BY <1>1 DEF Response
    <1>7. CASE \E d \in Below, s \in Statuses : event = Give(d, s)
        <2>1. PICK d \in Below, s \in Statuses : event = Give(d, s)
            BY <1>7
        <2>2. d \in Users(c) /\ d # Client /\ event = Release(c, d, s)
            BY <1>4, <2>1, ConstantFacts DEF Users, Release
        <2> QED BY <1>4, <2>1, <2>2
    <1>8. CASE \E b \in Clocks, t \in States : event = Call(b, t)
        <2>1. Client \in Users(c) /\ event = Release(c, Client, "success")
              /\ "success" \in Statuses
            BY <1>5, <1>8, ConstantFacts DEF Users, Release
        <2> QED BY <1>5, <1>8, <2>1
    <1> QED BY <1>2, <1>3, <1>6, <1>7, <1>8
            DEF Known, Exchange, Gives, CallsOf, ResponsesOf

\* What comes to a clock that waits: its parent's answer, or another child.
LEMMA WhileWaiting ==
    ASSUME TreeInv, NEW c \in Clocks, clk[c].waits, NEW t \in States, IsState(c, t)
    PROVE  /\ t = "RUNNING" /\ c \in Below
           /\ event.from = Parent[c] =>
                 event.status \in Statuses /\ event = Reply(c, event.status)
           /\ event.from # Parent[c] =>
                 \E d \in Children(c) : event = Ask(d) /\ event.from = d
    <1>1. /\ queue # <<>> /\ event.kind = "state" /\ event.to = c /\ event.target = t
        BY DEF IsState
    <1>2. event \in Messages /\ Known(event)
        BY <1>1, EventFirst
    <1>3. c \in Below
        BY DEF TreeInv, Waiting
    <1>4. t = "RUNNING"
        <2>1. t # "STOPPED"
            BY ReleaseRequested
        <2> QED BY <2>1 DEF States
    <1>5. ASSUME NEW d \in Below, NEW s \in Statuses
          PROVE  event # Give(d, s)
        BY <1>1, <1>4 DEF Give
    <1>6. /\ \A b \in Clocks, u \in States : event # Call(b, u)
          /\ \A b \in Clocks, u \in States, s \in Statuses : event # Response(b, u, s)
        <2>1. ASSUME NEW b \in Clocks, NEW u \in States, event = Call(b, u) PROVE FALSE
            <3>1. b = c
                BY <1>1, <2>1 DEF Call
            <3> QED BY <1>2, <2>1, <3>1 DEF TreeInv, Clients, Called
        <2>2. \A b \in Clocks, u \in States, s \in Statuses : event # Response(b, u, s)
            BY <1>1 DEF Response
        <2> QED BY <2>1, <2>2
    <1>7. ASSUME NEW d \in Below, event = Ask(d)
          PROVE  d \in Children(c) /\ event.from = d /\ event.from # Parent[c]
        <2>1. d \in Children(c) /\ event.from = d
            BY <1>1, <1>7, ConstantFacts DEF Ask
        <2> QED BY <2>1, ConstantFacts
    <1>8. ASSUME NEW d \in Below, NEW s \in Statuses, event = Reply(d, s)
          PROVE  /\ event = Reply(c, event.status) /\ event.status \in Statuses
                 /\ event.from = Parent[c]
        <2>1. d = c /\ event.status = s /\ event.from = Parent[d]
            BY <1>1, <1>8 DEF Reply
        <2> QED BY <1>8, <2>1
    <1>9. \/ \E d \in Below : event = Ask(d)
          \/ \E d \in Below, s \in Statuses : event = Reply(d, s)
        BY <1>2, <1>5, <1>6 DEF Known, Exchange, Gives, CallsOf, ResponsesOf
    <1> QED BY <1>3, <1>4, <1>7, <1>8, <1>9

-----------------------------------------------------------------------------
(* What a step does to the events that wait.                               *)

\* Whose exchange, and whose call, an event is part of.
LEMMA Kinds ==
    ASSUME NEW e \in Clocks
    PROVE  /\ \A d \in Below : /\ Ask(d) \in Exchange(e) <=> d = e
                               /\ Ask(d) \notin Gives(e)
                               /\ Ask(d) \notin CallsOf(e) \cup ResponsesOf(e)
           /\ \A d \in Below, s \in Statuses :
                 /\ Reply(d, s) \in Exchange(e) <=> d = e
                 /\ Reply(d, s) \notin Gives(e)
                 /\ Reply(d, s) \notin CallsOf(e) \cup ResponsesOf(e)
           /\ \A d \in Below, s \in Statuses :
                 /\ Give(d, s) \notin Exchange(e)
                 /\ Give(d, s) \in Gives(e) <=> d = e
                 /\ Give(d, s) \notin CallsOf(e) \cup ResponsesOf(e)
           /\ \A c \in Clocks, t \in States :
                 /\ Call(c, t) \notin Exchange(e) \cup Gives(e)
                 /\ Call(c, t) \in CallsOf(e) <=> c = e
                 /\ Call(c, t) \notin ResponsesOf(e)
           /\ \A c \in Clocks, t \in States, s \in Statuses :
                 /\ Response(c, t, s) \notin Exchange(e) \cup Gives(e)
                 /\ Response(c, t, s) \notin CallsOf(e)
                 /\ Response(c, t, s) \in ResponsesOf(e) <=> c = e
    <1> USE DEF Exchange, Gives, CallsOf, ResponsesOf
    <1>1. /\ Clocks \subseteq Nat /\ None \notin Clocks /\ Client \notin Clocks
          /\ Client # None
          /\ \A d \in Below : d \in Clocks /\ Parent[d] \in Clocks
          /\ \A d \in Clocks : Parent[d] = None <=> d \notin Below
          /\ Parent[e] \in Clocks \cup {None}
        BY ConstantFacts, ClockTreeAssumption
    <1>2. ASSUME NEW d \in Below
          PROVE  /\ Ask(d) \in Exchange(e) <=> d = e
                 /\ Ask(d) \notin Gives(e)
                 /\ Ask(d) \notin CallsOf(e) \cup ResponsesOf(e)
        <2>1. \A s \in Statuses : Ask(d) = Reply(e, s) => FALSE
            <3> SUFFICES ASSUME NEW s \in Statuses, Ask(d) = Reply(e, s) PROVE FALSE
                OBVIOUS
            <3>1. Parent[d] = e /\ d = Parent[e]
                BY DEF Ask, Reply
            <3>2. e \in Below
                BY <1>1, <3>1
            <3> QED BY <3>2, Distinct
        <2>2. Ask(d) = Ask(e) => d = e
            BY DEF Ask
        <2>3. \A s \in Statuses : Ask(d) # Give(e, s)
            BY DEF Ask, Give
        <2>4. \A t \in States : Ask(d) # Call(e, t)
            BY Distinct
        <2>5. \A t \in States, s \in Statuses : Ask(d) # Response(e, t, s)
            BY Distinct
        <2> QED BY <2>1, <2>2, <2>3, <2>4, <2>5
    <1>3. ASSUME NEW d \in Below, NEW r \in Statuses
          PROVE  /\ Reply(d, r) \in Exchange(e) <=> d = e
                 /\ Reply(d, r) \notin Gives(e)
                 /\ Reply(d, r) \notin CallsOf(e) \cup ResponsesOf(e)
        <2>1. Reply(d, r) # Ask(e)
            <3> SUFFICES ASSUME Ask(e) = Reply(d, r) PROVE FALSE
                OBVIOUS
            <3>1. Parent[e] = d
                BY DEF Ask, Reply
            <3>2. e \in Below
                BY <1>1, <3>1
            <3> QED BY <3>2, Distinct
        <2>2. \A s \in Statuses : Reply(d, r) = Reply(e, s) => d = e
            BY DEF Reply
        <2>3. \A s \in Statuses : Reply(d, r) # Give(e, s)
            BY DEF Reply, Give
        <2>4. \A t \in States : Reply(d, r) # Call(e, t)
            BY Distinct
        <2>5. \A t \in States, s \in Statuses : Reply(d, r) # Response(e, t, s)
            BY Distinct
        <2> QED BY <2>1, <2>2, <2>3, <2>4, <2>5
    <1>4. ASSUME NEW d \in Below, NEW r \in Statuses
          PROVE  /\ Give(d, r) \notin Exchange(e)
                 /\ Give(d, r) \in Gives(e) <=> d = e
                 /\ Give(d, r) \notin CallsOf(e) \cup ResponsesOf(e)
        <2>1. Give(d, r) # Ask(e) /\ \A s \in Statuses : Give(d, r) # Reply(e, s)
            BY DEF Give, Ask, Reply
        <2>2. \A s \in Statuses : Give(d, r) = Give(e, s) => d = e
            BY DEF Give
        <2>3. \A t \in States : Give(d, r) # Call(e, t)
            BY Distinct
        <2>4. \A t \in States, s \in Statuses : Give(d, r) # Response(e, t, s)
            BY Distinct
        <2> QED BY <2>1, <2>2, <2>3, <2>4
    <1>5. ASSUME NEW c \in Clocks, NEW u \in States
          PROVE  /\ Call(c, u) \notin Exchange(e) \cup Gives(e)
                 /\ Call(c, u) \in CallsOf(e) <=> c = e
                 /\ Call(c, u) \notin ResponsesOf(e)
        <2>1. Call(c, u) # Ask(e) /\ \A s \in Statuses : Call(c, u) # Give(e, s)
            BY <1>1 DEF Call, Ask, Give
        <2>2. \A s \in Statuses : Call(c, u) # Reply(e, s)
            BY <1>1 DEF Call, Reply
        <2>3. \A t \in States : Call(c, u) = Call(e, t) => c = e
            BY Distinct
        <2>4. \A t \in States, s \in Statuses : Call(c, u) # Response(e, t, s)
            BY Distinct
        <2> QED BY <2>1, <2>2, <2>3, <2>4
    <1>6. ASSUME NEW c \in Clocks, NEW u \in States, NEW r \in Statuses
          PROVE  /\ Response(c, u, r) \notin Exchange(e) \cup Gives(e)
                 /\ Response(c, u, r) \notin CallsOf(e)
                 /\ Response(c, u, r) \in ResponsesOf(e) <=> c = e
        <2>1. /\ Response(c, u, r) # Ask(e) /\ \A s \in Statuses : Response(c, u, r) # Give(e, s)
              /\ \A s \in Statuses : Response(c, u, r) # Reply(e, s)
            BY DEF Response, Ask, Give, Reply
        <2>2. \A t \in States : Response(c, u, r) # Call(e, t)
            BY Distinct
        <2>3. \A t \in States, s \in Statuses : Response(c, u, r) = Response(e, t, s) => c = e
            BY Distinct
        <2> QED BY <2>1, <2>2, <2>3
    <1> HIDE DEF Exchange, Gives, CallsOf, ResponsesOf
    <1> QED BY <1>2, <1>3, <1>4, <1>5, <1>6

\* An event may be sent when nothing of the same exchange or call waits.
LEMMA Orderly ==
    ASSUME NEW x
    PROVE  /\ \A d \in Below : x \notin Exchange(d) => Precedes(x, Ask(d))
           /\ \A d \in Below, s \in Statuses :
                 /\ x \notin Exchange(d) => Precedes(x, Reply(d, s))
                 /\ x \notin Gives(d) \cup {Ask(d)} => Precedes(x, Give(d, s))
           /\ \A c \in Clocks, t \in States, s \in Statuses :
                 x \notin CallsOf(c) \cup ResponsesOf(c) => Precedes(x, Response(c, t, s))
           /\ \A c \in Clocks, t \in States :
                 /\ x \notin CallsOf(c) \cup ResponsesOf(c)
                 /\ ~(x.kind = "state" /\ x.to = c)
                 => Precedes(x, Call(c, t))
    <1>1. \A d \in Below : x \notin Exchange(d) => Precedes(x, Ask(d))
        BY Kinds DEF Precedes
    <1>2. \A d \in Below, s \in Statuses : x \notin Exchange(d) => Precedes(x, Reply(d, s))
        BY Kinds DEF Precedes
    <1>3. \A d \in Below, s \in Statuses :
              x \notin Gives(d) \cup {Ask(d)} => Precedes(x, Give(d, s))
        BY Kinds DEF Precedes
    <1>4. \A c \in Clocks, t \in States, s \in Statuses :
                 x \notin CallsOf(c) \cup ResponsesOf(c) => Precedes(x, Response(c, t, s))
        BY Kinds DEF Precedes
    <1>5. \A c \in Clocks, t \in States :
                 /\ x \notin CallsOf(c) \cup ResponsesOf(c)
                 /\ ~(x.kind = "state" /\ x.to = c)
                 => Precedes(x, Call(c, t))
        BY Kinds DEF Precedes
    <1> QED BY <1>1, <1>2, <1>3, <1>4, <1>5

\* The event at the head is served and those of S are sent.
Moves(S) ==
    /\ queue' \in Seq(Events) /\ InOrder(queue')
    /\ Messages' = (Messages \ {event}) \cup S
    /\ \A e \in Messages' : Known(e)

LEMMA ServeNone ==
    ASSUME TreeInv, queue # <<>>, event.kind # "rate", Serve(<<>>)
    PROVE  Moves({})
    <1>1. queue \in Seq(Events) /\ InOrder(queue) /\ Known(event)
        BY EventFirst DEF TreeInv, Typed
    <1>2. /\ Tail(queue) \in Seq(Events) /\ InOrder(Tail(queue))
          /\ MessagesOf(Tail(queue)) = Messages \ {event}
        BY <1>1, MessageServed DEF event, Messages
    <1>3. queue' = Tail(queue)
        BY <1>2, ConcatEmptySeq DEF Serve
    <1> QED BY <1>2, <1>3 DEF Moves, Messages, TreeInv

LEMMA ServeOne ==
    ASSUME TreeInv, queue # <<>>, event.kind # "rate", NEW y \in Events, Known(y),
           y.kind # "rate", Serve(<<y>>), \A x \in Messages \ {event} : Precedes(x, y)
    PROVE  Moves({y})
    <1>1. queue \in Seq(Events) /\ InOrder(queue) /\ Known(event)
        BY EventFirst DEF TreeInv, Typed
    <1>2. /\ Tail(queue) \in Seq(Events) /\ InOrder(Tail(queue))
          /\ MessagesOf(Tail(queue)) = Messages \ {event}
        BY <1>1, MessageServed DEF event, Messages
    <1>3. queue' = Append(Tail(queue), y)
        BY <1>2, AppendIsConcat DEF Serve
    <1>4. /\ queue' \in Seq(Events) /\ InOrder(queue')
          /\ MessagesOf(queue') = MessagesOf(Tail(queue)) \cup {y}
        BY <1>2, <1>3, MessageSent
    <1> QED BY <1>2, <1>4 DEF Moves, Messages, TreeInv

LEMMA ServeTwo ==
    ASSUME TreeInv, queue # <<>>, event.kind # "rate", NEW y \in Events, NEW z \in Events,
           Known(y), Known(z), y.kind # "rate", z.kind # "rate", Serve(<<y>> \o <<z>>),
           \A x \in Messages \ {event} : Precedes(x, y) /\ Precedes(x, z), Precedes(y, z)
    PROVE  Moves({y, z})
    <1>1. queue \in Seq(Events) /\ InOrder(queue) /\ Known(event)
        BY EventFirst DEF TreeInv, Typed
    <1>2. /\ Tail(queue) \in Seq(Events) /\ InOrder(Tail(queue))
          /\ MessagesOf(Tail(queue)) = Messages \ {event}
        BY <1>1, MessageServed DEF event, Messages
    <1> DEFINE q == Append(Tail(queue), y)
    <1>3. /\ q \in Seq(Events) /\ InOrder(q)
          /\ MessagesOf(q) = MessagesOf(Tail(queue)) \cup {y}
        BY <1>2, MessageSent
    <1>4. queue' = Append(q, z)
        <2>1. <<y>> \in Seq(Events) /\ <<z>> \in Seq(Events)
            OBVIOUS
        <2>2. queue' = (Tail(queue) \o <<y>>) \o <<z>>
            BY <1>2, <2>1, ConcatAssociative DEF Serve
        <2> QED BY <1>2, <1>3, <2>2, AppendIsConcat, ZenonT(30)
    <1> HIDE DEF q
    <1>5. /\ queue' \in Seq(Events) /\ InOrder(queue')
          /\ MessagesOf(queue') = MessagesOf(q) \cup {z}
        BY <1>2, <1>3, <1>4, MessageSent, ZenonT(30)
    <1>6. Messages' = (Messages \ {event}) \cup {y, z}
        BY <1>2, <1>3, <1>5 DEF Messages
    <1> QED BY <1>5, <1>6 DEF Moves, TreeInv

\* Of two events one comes first.
LEMMA OnceOnly ==
    ASSUME TreeInv
    PROVE  /\ \A d \in Below : ~(Asking(d) /\ Replied(d))
           /\ \A d \in Below, s, t \in Statuses :
                 Reply(d, s) \in Messages /\ Reply(d, t) \in Messages => s = t
           /\ \A d \in Below, s, t \in Statuses :
                 Give(d, s) \in Messages /\ Give(d, t) \in Messages => s = t
           /\ \A c \in Clocks : ~(Called(c) /\ Responded(c))
           /\ \A c \in Clocks, t, u \in States, s, r \in Statuses :
                 Response(c, t, s) \in Messages /\ Response(c, u, r) \in Messages
                 => t = u /\ s = r
    <1>1. \A x, y \in Messages : x = y \/ Precedes(x, y) \/ Precedes(y, x)
        <2> SUFFICES ASSUME NEW x \in Messages, NEW y \in Messages
                     PROVE  x = y \/ Precedes(x, y) \/ Precedes(y, x)
            OBVIOUS
        <2>1. queue \in Seq(Events) /\ InOrder(queue)
            BY DEF TreeInv, Typed
        <2>2. PICK i \in 1 .. Len(queue), j \in 1 .. Len(queue) : x = queue[i] /\ y = queue[j]
            BY <2>1, SeqBasics DEF Messages, MessagesOf
        <2>3. x.kind # "rate" /\ y.kind # "rate"
            BY DEF Messages, MessagesOf
        <2>4. i \in Nat /\ j \in Nat /\ i \in DOMAIN queue /\ j \in DOMAIN queue
            BY <2>1, SeqBasics
        <2>5. CASE i = j
            BY <2>2, <2>5
        <2>6. CASE i < j
            BY <2>1, <2>2, <2>3, <2>4, <2>6 DEF InOrder
        <2>7. CASE j < i
            BY <2>1, <2>2, <2>3, <2>4, <2>7 DEF InOrder
        <2> QED BY <2>4, <2>5, <2>6, <2>7
    <1>2. ASSUME NEW d \in Clocks, NEW x \in Messages, NEW y \in Messages,
                 \/ x \in Exchange(d) /\ y \in Exchange(d)
                 \/ x \in Gives(d) /\ y \in Gives(d)
                 \/ x \in CallsOf(d) \cup ResponsesOf(d) /\ y \in CallsOf(d) \cup ResponsesOf(d)
          PROVE  x = y
        BY <1>1, <1>2 DEF Precedes
    <1>3. \A d \in Below : d \in Clocks
        BY ConstantFacts
    <1>4. ASSUME NEW d \in Below, Asking(d), Replied(d) PROVE FALSE
        <2>1. PICK s \in Statuses : Reply(d, s) \in Messages
            BY <1>4 DEF Replied
        <2>2. Ask(d) = Reply(d, s)
            BY <1>2, <1>3, <1>4, <2>1, Kinds DEF Asking
        <2> QED BY <2>2, Distinct
    <1>5. ASSUME NEW d \in Below, NEW s \in Statuses, NEW t \in Statuses,
                 Reply(d, s) \in Messages, Reply(d, t) \in Messages
          PROVE  s = t
        <2>1. Reply(d, s) = Reply(d, t)
            BY <1>2, <1>3, <1>5, Kinds
        <2> QED BY <2>1, Distinct
    <1>6. ASSUME NEW d \in Below, NEW s \in Statuses, NEW t \in Statuses,
                 Give(d, s) \in Messages, Give(d, t) \in Messages
          PROVE  s = t
        <2>1. Give(d, s) = Give(d, t)
            BY <1>2, <1>3, <1>6, Kinds
        <2> QED BY <2>1, Distinct
    <1>7. ASSUME NEW c \in Clocks, Called(c), Responded(c) PROVE FALSE
        <2>1. PICK t \in States : Call(c, t) \in Messages
            BY <1>7 DEF Called
        <2>2. PICK u \in States, s \in Statuses : Response(c, u, s) \in Messages
            BY <1>7 DEF Responded
        <2>3. Call(c, t) = Response(c, u, s)
            BY <1>2, <2>1, <2>2, Kinds
        <2> QED BY <2>3, Distinct
    <1>8. ASSUME NEW c \in Clocks, NEW t \in States, NEW u \in States,
                 NEW s \in Statuses, NEW r \in Statuses,
                 Response(c, t, s) \in Messages, Response(c, u, r) \in Messages
          PROVE  t = u /\ s = r
        <2>1. Response(c, t, s) = Response(c, u, r)
            BY <1>2, <1>8, Kinds
        <2> QED BY <2>1, Distinct
    <1> QED BY <1>4, <1>5, <1>6, <1>7, <1>8

-----------------------------------------------------------------------------
(* A request to run is answered.                                           *)

\* Clock c answers "r" to its user w who asked it to run, and counts it on
\* success.  "back": the parent had been started for it, and is given up.
Answered(c, w, r, back) ==
    /\ clk' = [clk EXCEPT ![c] =
                 [ref |-> clk[c].ref + IF r = "success" THEN 1 ELSE 0,
                  waits |-> FALSE, caller |-> w, initiator |-> FALSE]]
    /\ running' = IF r = "success" THEN running \cup {c} ELSE running
    /\ UNCHANGED <<want, holds, missed>>
    /\ \A d \in Below : Ask(d) \in Messages' <=> d # w /\ Ask(d) \in Messages
    /\ \A d \in Below, s \in Statuses :
          /\ Reply(d, s) \in Messages' <=>
                (d = w /\ s = r) \/ (d # c /\ Reply(d, s) \in Messages)
          /\ Give(d, s) \in Messages' <=>
                (back /\ d = c /\ s = "device") \/ Give(d, s) \in Messages
    /\ \A b \in Clocks, t \in States : Call(b, t) \in Messages' <=> b # c /\ Call(b, t) \in Messages
    /\ \A b \in Clocks, t \in States, s \in Statuses :
          Response(b, t, s) \in Messages' <=>
             (w = Client /\ b = c /\ t = "RUNNING" /\ s = r) \/ Response(b, t, s) \in Messages

LEMMA RunAnswered ==
    ASSUME TreeInv, NotWrapped, NEW c \in Clocks, NEW w \in Users(c), NEW r \in Statuses,
           NEW back \in BOOLEAN, Answered(c, w, r, back),
           clk[c].initiator <=> w = Client,
           w = Client => want[c] = "RUNNING",
           w # Client => ~Giving(w) /\ (Asking(w) \/ Above(w)),
           clk[c].waits => clk[c].caller = w /\ Replied(c),
           back => clk[c].waits /\ r # "success" /\ Reply(c, "success") \in Messages,
           Reply(c, "success") \in Messages => r = "success" \/ back,
           r = "success" =>
               c \in running \/ c \notin Below \/ Reply(c, "success") \in Messages
    PROVE  /\ clk' \in [Clocks -> Context] /\ running' \subseteq Clocks
           /\ Waiting' /\ Clients' /\ Refs'
    <1>1. /\ clk \in [Clocks -> Context] /\ running \subseteq Clocks
          /\ clk[c].ref \in 0 .. Width - 1 /\ clk[c].ref < Width - 1
          /\ w \in Clocks \cup {Client} /\ r \in {"success", "busy", "device"}
          /\ \A d \in Below : d \in Clocks /\ Parent[d] \in Clocks /\ d # Client
          /\ w # Client => w \in Below /\ Parent[w] = c /\ w # c
        BY ConstantFacts DEF TreeInv, Typed, Context, NotWrapped, Users
    <1>2. /\ clk' \in [Clocks -> Context] /\ running' \subseteq Clocks
          /\ ~clk[c]'.waits /\ ~clk[c]'.initiator /\ clk[c]'.caller = w
          /\ clk[c]'.ref = clk[c].ref + IF r = "success" THEN 1 ELSE 0
          /\ \A b \in Clocks \ {c} : clk[b]' = clk[b]
        <2>1. clk[c].ref + (IF r = "success" THEN 1 ELSE 0) \in 0 .. Width - 1
            BY <1>1, ConstantFacts
        <2> QED BY <1>1, <2>1 DEF Answered, Context
    <1>3. c \in Below => ~Asking(c) /\ ~Above(c)
        <2>1. c \in Below /\ ~clk[c].waits => ~Asking(c) /\ ~Above(c)
            BY DEF TreeInv, Waiting
        <2>2. c \in Below /\ Replied(c) => ~Asking(c) /\ ~Above(c)
            BY OnceOnly DEF TreeInv, Waiting
        <2> QED BY <2>1, <2>2
    <1>4. w # Client => clk[w].waits /\ w \notin running /\ ~Replied(w)
        BY <1>1, OnceOnly DEF TreeInv, Waiting
    <1>5. \A d \in Below :
              /\ Asking(d)' <=> d # w /\ Asking(d)
              /\ Replied(d)' <=> d = w \/ (d # c /\ Replied(d))
              /\ Giving(d)' <=> (back /\ d = c) \/ Giving(d)
              /\ Above(d)' <=> Parent[d] # c /\ Above(d)
        <2>1. "device" \in Statuses
            BY DEF Statuses
        <2> SUFFICES ASSUME NEW d \in Below
                     PROVE  /\ Asking(d)' <=> d # w /\ Asking(d)
                            /\ Replied(d)' <=> d = w \/ (d # c /\ Replied(d))
                            /\ Giving(d)' <=> (back /\ d = c) \/ Giving(d)
                            /\ Above(d)' <=> Parent[d] # c /\ Above(d)
            OBVIOUS
        <2>2. Asking(d)' <=> d # w /\ Asking(d)
            BY DEF Answered, Asking
        <2>3. Replied(d)' <=> d = w \/ (d # c /\ Replied(d))
            BY DEF Answered, Replied
        <2>4. Giving(d)' <=> (back /\ d = c) \/ Giving(d)
            BY <2>1 DEF Answered, Giving
        <2>5. Above(d)' <=> Parent[d] # c /\ Above(d)
            BY <1>1, <1>2 DEF Above
        <2> QED BY <2>2, <2>3, <2>4, <2>5
    <1>6. \A b \in Clocks : /\ Called(b)' <=> b # c /\ Called(b)
                            /\ Responded(b)' <=> (b = c /\ w = Client) \/ Responded(b)
        <2>1. "RUNNING" \in States
            BY DEF States
        <2>2. \A b \in Clocks : Called(b)' <=> b # c /\ Called(b)
            BY DEF Answered, Called
        <2>3. \A b \in Clocks : Responded(b)' <=> (b = c /\ w = Client) \/ Responded(b)
            BY <2>1 DEF Answered, Responded
        <2> QED BY <2>2, <2>3
    <1>7. Waiting'
        <2>1. \A d \in Clocks : clk[d]'.waits => d \in Below /\ d \notin running'
            BY <1>1, <1>2 DEF TreeInv, Waiting, Answered
        <2>2. ASSUME NEW d \in Below
              PROVE  clk[d]'.waits <=> Asking(d)' \/ Replied(d)' \/ Above(d)'
            <3>1. CASE d = c
                BY <1>1, <1>2, <1>3, <1>5, <3>1
            <3>2. CASE d = w
                BY <1>1, <1>2, <1>4, <1>5, <3>2
            <3>3. CASE d # c /\ d # w
                <4>1. clk[d]' = clk[d]
                    BY <1>1, <1>2, <3>3
                <4>2. Parent[d] = c => ~Above(d)
                    BY <3>3 DEF Above
                <4> QED BY <1>5, <3>3, <4>1, <4>2 DEF TreeInv, Waiting
            <3> QED BY <3>1, <3>2, <3>3
        <2>3. \A d \in Below : Above(d)' => ~Asking(d)' /\ ~Replied(d)'
            BY <1>1, <1>5 DEF TreeInv, Waiting
        <2>4. ASSUME NEW d \in Below, Giving(d)'
              PROVE  d \notin running' /\ ~Replied(d)'
            <3>1. CASE back /\ d = c
                <4>1. c \notin running
                    BY <3>1 DEF TreeInv, Waiting
                <4> QED BY <1>1, <1>5, <3>1, <4>1 DEF Answered
            <3>2. CASE Giving(d)
                <4>1. d \notin running /\ ~Replied(d) /\ d # w
                    BY <1>1, <3>2 DEF TreeInv, Waiting
                <4>2. d = c => r # "success"
                    BY <3>2, <4>1 DEF Replied, Statuses
                <4> QED BY <1>5, <4>1, <4>2 DEF Answered
            <3> QED BY <1>5, <2>4, <3>1, <3>2
        <2> QED BY <2>1, <2>2, <2>3, <2>4 DEF Waiting
    <1>8. Clients'
        <2> SUFFICES ASSUME NEW b \in Clocks
                     PROVE  /\ clk[b]'.waits =>
                                  IF clk[b]'.initiator THEN clk[b]'.caller = Client
                                                       ELSE clk[b]'.caller \in Children(b)
                            /\ Called(b)' <=> clk[b]'.initiator /\ ~clk[b]'.waits
                            /\ \A t \in States : Call(b, t) \in Messages' => want[b]' = t
                            /\ \A t \in States, s \in Statuses :
                                   Response(b, t, s) \in Messages' =>
                                       ~clk[b]'.initiator /\ want[b]' = t
                            /\ want[b]' # None <=> clk[b]'.initiator \/ Responded(b)'
                            /\ clk[b]'.waits /\ clk[b]'.initiator => want[b]' = "RUNNING"
                            /\ want[b]' = "STOPPED" => holds[b]' > 0
            BY DEF Clients, Children
        <2>1. /\ want' = want /\ holds' = holds
              /\ \A t \in States : Call(b, t) \in Messages' => Call(b, t) \in Messages
              /\ \A t \in States, s \in Statuses : Response(b, t, s) \in Messages' =>
                    (b = c /\ w = Client /\ t = "RUNNING") \/ Response(b, t, s) \in Messages
            BY DEF Answered
        <2>2. CASE b = c
            <3>1. ~clk[b]'.waits /\ ~clk[b]'.initiator /\ ~Called(b)'
                BY <1>2, <1>6, <2>2
            <3>2. want[b]' # None <=> Responded(b)'
                BY <1>6, <2>1, <2>2, ConstantFacts DEF TreeInv, Clients
            <3> QED BY <2>1, <2>2, <3>1, <3>2 DEF TreeInv, Clients
        <2>3. CASE b # c
            BY <1>2, <1>6, <2>1, <2>3 DEF TreeInv, Clients
        <2> QED BY <2>2, <2>3
    <1>9. \A d \in Below : Counts(d)' <=> Counts(d) \/ (d = w /\ r = "success")
        <2> SUFFICES ASSUME NEW d \in Below
                     PROVE  Counts(d)' <=> Counts(d) \/ (d = w /\ r = "success")
            OBVIOUS
        <2>1. /\ Reply(d, "success") \in Messages' <=>
                    (d = w /\ r = "success") \/ (d # c /\ Reply(d, "success") \in Messages)
              /\ d \in running' <=> d \in running \/ (d = c /\ r = "success")
            BY DEF Answered, Statuses
        <2>2. CASE d = c
            <3>1. c \in running => Reply(c, "success") \notin Messages
                BY <2>2 DEF TreeInv, Waiting, Replied, Statuses
            <3>2. Giving(c) => Reply(c, "success") \notin Messages
                BY <2>2 DEF TreeInv, Waiting, Replied, Statuses
            <3> QED BY <1>1, <1>5, <2>1, <2>2 DEF Counts
        <2>3. CASE d # c
            BY <1>5, <2>1, <2>3 DEF Counts
        <2> QED BY <2>2, <2>3
    <1>10. Refs'
        <2> SUFFICES ASSUME NEW b \in Clocks
                     PROVE  /\ clk[b]'.ref = Cardinality(Counted(b)') + ClientRefs(b)' + missed[b]'
                            /\ clk[b]'.ref > 0 => b \in running'
            BY DEF Refs
        <2>1. missed' = missed /\ holds' = holds
            BY DEF Answered
        <2>2. /\ IsFiniteSet(Counted(b)) /\ Cardinality(Counted(b)) \in Nat
              /\ ClientRefs(b) \in Nat /\ missed[b] \in Nat /\ clk[b].ref \in Nat
              /\ clk[b].ref = Cardinality(Counted(b)) + ClientRefs(b) + missed[b]
              /\ clk[b].ref > 0 => b \in running
            BY CountType DEF TreeInv, Refs
        <2>3. Counted(b)' = IF b = c /\ w # Client /\ r = "success"
                            THEN Counted(b) \cup {w} ELSE Counted(b)
            BY <1>1, <1>9, ConstantFacts DEF Counted, Users
        <2>4. w # Client => ~Counts(w)
            BY <1>4 DEF Counts, Replied, Statuses
        <2>5. ClientRefs(b)' = IF b = c /\ w = Client /\ r = "success"
                               THEN ClientRefs(b) + 1 ELSE ClientRefs(b)
            <3>1. "success" \in Statuses /\ "RUNNING" \in States /\ "STOPPED" \in States
                BY DEF Statuses, States
            <3>2. b = c /\ w = Client => \A t \in States, s \in Statuses :
                                             Response(b, t, s) \notin Messages
                BY DEF TreeInv, Clients
            <3>3. /\ Response(b, "STOPPED", "success") \in Messages'
                     <=> Response(b, "STOPPED", "success") \in Messages
                  /\ Response(b, "RUNNING", "success") \in Messages'
                     <=> (w = Client /\ b = c /\ r = "success")
                         \/ Response(b, "RUNNING", "success") \in Messages
                BY <3>1 DEF Answered
            <3>4. holds[b] \in Nat
                BY DEF TreeInv, Typed
            <3> QED BY <2>1, <3>1, <3>2, <3>3, <3>4 DEF ClientRefs
        <2>6. CASE b # c
            BY <1>2, <2>1, <2>2, <2>3, <2>5, <2>6 DEF Answered
        <2>7. CASE b = c /\ r # "success"
            BY <1>2, <2>1, <2>2, <2>3, <2>5, <2>7 DEF Answered
        <2>8. CASE b = c /\ r = "success" /\ w = Client
            BY <1>2, <2>1, <2>2, <2>3, <2>5, <2>8 DEF Answered
        <2>9. CASE b = c /\ r = "success" /\ w # Client
            <3>1. Cardinality(Counted(b)') = Cardinality(Counted(b)) + 1
                <4>1. w \notin Counted(b)
                    BY <2>4, <2>9 DEF Counted
                <4>2. Cardinality(Counted(b) \cup {w}) = Cardinality(Counted(b)) + 1
                    BY <2>2, <4>1, FS_AddElement
                <4>3. Counted(b)' = Counted(b) \cup {w}
                    BY <2>3, <2>9
                <4> QED BY <4>2, <4>3
            <3> QED BY <1>2, <2>1, <2>2, <2>5, <2>9, <3>1 DEF Answered
        <2> QED BY <2>6, <2>7, <2>8, <2>9
    <1> QED BY <1>2, <1>7, <1>8, <1>10

\* Clock c asks its parent, for its user w.
Asked(c, w) ==
    /\ clk' = [clk EXCEPT ![c].caller = w, ![c].waits = TRUE]
    /\ UNCHANGED <<running, want, holds, missed>>
    /\ \A d \in Below : Ask(d) \in Messages' <=> d = c \/ (d # w /\ Ask(d) \in Messages)
    /\ \A d \in Below, s \in Statuses :
          /\ Reply(d, s) \in Messages' <=> Reply(d, s) \in Messages
          /\ Give(d, s) \in Messages' <=> Give(d, s) \in Messages
    /\ \A b \in Clocks, t \in States : Call(b, t) \in Messages' <=> b # c /\ Call(b, t) \in Messages
    /\ \A b \in Clocks, t \in States, s \in Statuses :
          Response(b, t, s) \in Messages' <=> Response(b, t, s) \in Messages

LEMMA ParentAsked ==
    ASSUME TreeInv, NEW c \in Below, NEW w \in Users(c), Asked(c, w),
           ~clk[c].waits, c \notin running,
           clk[c].initiator <=> w = Client,
           w = Client => want[c] = "RUNNING",
           w # Client => Asking(w)
    PROVE  /\ clk' \in [Clocks -> Context] /\ running' \subseteq Clocks
           /\ Waiting' /\ Clients' /\ Refs'
    <1> c \in Clocks
        BY ConstantFacts
    <1>1. /\ clk \in [Clocks -> Context] /\ running \subseteq Clocks /\ c \in Clocks
          /\ w \in Clocks \cup {Client}
          /\ \A d \in Below : d \in Clocks /\ Parent[d] \in Clocks /\ d # Client
          /\ w # Client => w \in Below /\ Parent[w] = c /\ w # c /\ w \in Children(c)
        <2>1. w # Client => w \in Children(c)
            BY DEF Users
        <2>2. w # Client => w \in Below /\ Parent[w] = c /\ w # c
            BY <2>1, ConstantFacts
        <2>3. \A d \in Below : d \in Clocks /\ Parent[d] \in Clocks /\ d # Client
            BY ConstantFacts
        <2> QED BY <2>1, <2>2, <2>3 DEF TreeInv, Typed
    <1>2. /\ clk' \in [Clocks -> Context]
          /\ clk[c]'.waits /\ clk[c]'.caller = w
          /\ clk[c]'.initiator = clk[c].initiator /\ clk[c]'.ref = clk[c].ref
          /\ \A b \in Clocks \ {c} : clk[b]' = clk[b]
        BY <1>1 DEF Asked, Context
    <1>3. w # Client => clk[w].waits /\ ~Replied(w)
        BY <1>1, OnceOnly DEF TreeInv, Waiting
    <1>4. ~Asking(c) /\ ~Above(c) /\ ~Replied(c)
        BY DEF TreeInv, Waiting
    <1>5. \A d \in Below :
              /\ Asking(d)' <=> d = c \/ (d # w /\ Asking(d))
              /\ Replied(d)' <=> Replied(d)
              /\ Giving(d)' <=> Giving(d)
              /\ Above(d)' <=> d = w \/ (Parent[d] # c /\ Above(d))
        <2> SUFFICES ASSUME NEW d \in Below
                     PROVE  /\ Asking(d)' <=> d = c \/ (d # w /\ Asking(d))
                            /\ Replied(d)' <=> Replied(d)
                            /\ Giving(d)' <=> Giving(d)
                            /\ Above(d)' <=> d = w \/ (Parent[d] # c /\ Above(d))
            OBVIOUS
        <2>1. Asking(d)' <=> d = c \/ (d # w /\ Asking(d))
            BY DEF Asked, Asking
        <2>2. Replied(d)' <=> Replied(d)
            BY DEF Asked, Replied
        <2>3. Giving(d)' <=> Giving(d)
            BY DEF Asked, Giving
        <2>4. Above(d)' <=> d = w \/ (Parent[d] # c /\ Above(d))
            BY <1>1, <1>2 DEF Above
        <2> QED BY <2>1, <2>2, <2>3, <2>4
    <1>6. \A b \in Clocks : /\ Called(b)' <=> b # c /\ Called(b)
                            /\ Responded(b)' <=> Responded(b)
        BY DEF Asked, Called, Responded
    <1>7. Waiting'
        <2>1. \A d \in Clocks : clk[d]'.waits => d \in Below /\ d \notin running'
            BY <1>1, <1>2 DEF TreeInv, Waiting, Asked
        <2>2. ASSUME NEW d \in Below
              PROVE  clk[d]'.waits <=> Asking(d)' \/ Replied(d)' \/ Above(d)'
            <3>1. CASE d = c
                BY <1>2, <1>5, <3>1
            <3>2. CASE d = w
                BY <1>1, <1>2, <1>3, <1>5, <3>2
            <3>3. CASE d # c /\ d # w
                <4>1. clk[d]' = clk[d]
                    BY <1>1, <1>2, <3>3
                <4>2. Parent[d] = c => ~Above(d)
                    BY DEF Above
                <4> QED BY <1>5, <3>3, <4>1, <4>2 DEF TreeInv, Waiting
            <3> QED BY <3>1, <3>2, <3>3
        <2>3. \A d \in Below : Above(d)' => ~Asking(d)' /\ ~Replied(d)'
            BY <1>1, <1>3, <1>4, <1>5 DEF TreeInv, Waiting
        <2>4. \A d \in Below : Giving(d)' => d \notin running' /\ ~Replied(d)'
            BY <1>5 DEF TreeInv, Waiting, Asked
        <2> QED BY <2>1, <2>2, <2>3, <2>4 DEF Waiting
    <1>8. Clients'
        <2> SUFFICES ASSUME NEW b \in Clocks
                     PROVE  /\ clk[b]'.waits =>
                                  IF clk[b]'.initiator THEN clk[b]'.caller = Client
                                                       ELSE clk[b]'.caller \in Children(b)
                            /\ Called(b)' <=> clk[b]'.initiator /\ ~clk[b]'.waits
                            /\ \A t \in States : Call(b, t) \in Messages' => want[b]' = t
                            /\ \A t \in States, s \in Statuses :
                                   Response(b, t, s) \in Messages' =>
                                       ~clk[b]'.initiator /\ want[b]' = t
                            /\ want[b]' # None <=> clk[b]'.initiator \/ Responded(b)'
                            /\ clk[b]'.waits /\ clk[b]'.initiator => want[b]' = "RUNNING"
                            /\ want[b]' = "STOPPED" => holds[b]' > 0
            BY DEF Clients, Children
        <2>1. /\ want' = want /\ holds' = holds
              /\ \A t \in States : Call(b, t) \in Messages' => Call(b, t) \in Messages
              /\ \A t \in States, s \in Statuses : Response(b, t, s) \in Messages' =>
                    Response(b, t, s) \in Messages
            BY DEF Asked
        <2>2. CASE b = c
            BY <1>1, <1>2, <1>6, <2>1, <2>2 DEF TreeInv, Clients
        <2>3. CASE b # c
            BY <1>2, <1>6, <2>1, <2>3 DEF TreeInv, Clients
        <2> QED BY <2>2, <2>3
    <1>9. Refs'
        <2>1. \A d \in Below : Counts(d)' <=> Counts(d)
            <3>1. \A d \in Below : Reply(d, "success") \in Messages'
                                   <=> Reply(d, "success") \in Messages
                BY DEF Asked, Statuses
            <3> QED BY <1>5, <3>1 DEF Counts, Asked
        <2>2. \A b \in Clocks : Counted(b)' = Counted(b)
            BY <2>1, ConstantFacts DEF Counted
        <2>3. \A b \in Clocks : ClientRefs(b)' = ClientRefs(b)
            <3>1. "success" \in Statuses /\ "RUNNING" \in States /\ "STOPPED" \in States
                BY DEF Statuses, States
            <3> QED BY <3>1 DEF Asked, ClientRefs
        <2>4. \A b \in Clocks : clk[b]'.ref = clk[b].ref
            BY <1>2
        <2> QED BY <2>2, <2>3, <2>4 DEF Asked, TreeInv, Refs
    <1> QED BY <1>1, <1>2, <1>7, <1>8, <1>9 DEF Asked

\* Child w of a clock that waits is turned away.
TurnedAway(w) ==
    /\ UNCHANGED <<clk, running, want, holds, missed>>
    /\ \A d \in Below : Ask(d) \in Messages' <=> d # w /\ Ask(d) \in Messages
    /\ \A d \in Below, s \in Statuses :
          /\ Reply(d, s) \in Messages' <=> (d = w /\ s = "busy") \/ Reply(d, s) \in Messages
          /\ Give(d, s) \in Messages' <=> Give(d, s) \in Messages
    /\ \A b \in Clocks, t \in States : Call(b, t) \in Messages' <=> Call(b, t) \in Messages
    /\ \A b \in Clocks, t \in States, s \in Statuses :
          Response(b, t, s) \in Messages' <=> Response(b, t, s) \in Messages

LEMMA ChildTurnedAway ==
    ASSUME TreeInv, NEW w \in Below, TurnedAway(w), Asking(w), ~Giving(w)
    PROVE  Waiting' /\ Clients' /\ Refs'
    <1>1. \A d \in Below :
              /\ Asking(d)' <=> d # w /\ Asking(d)
              /\ Replied(d)' <=> d = w \/ Replied(d)
              /\ Giving(d)' <=> Giving(d)
              /\ Above(d)' <=> Above(d)
        <2>1. \A d \in Below : Asking(d)' <=> d # w /\ Asking(d)
            BY DEF TurnedAway, Asking
        <2>2. \A d \in Below : Replied(d)' <=> d = w \/ Replied(d)
            BY DEF TurnedAway, Replied, Statuses
        <2>3. \A d \in Below : Giving(d)' <=> Giving(d)
            BY DEF TurnedAway, Giving
        <2>4. \A d \in Below : Above(d)' <=> Above(d)
            BY DEF TurnedAway, Above
        <2> QED BY <2>1, <2>2, <2>3, <2>4
    <1>2. \A b \in Clocks : /\ Called(b)' <=> Called(b)
                            /\ Responded(b)' <=> Responded(b)
        BY DEF TurnedAway, Called, Responded
    <1>3. Waiting'
        <2>1. ~Above(w)
            BY DEF TreeInv, Waiting
        <2> QED BY <1>1, <2>1 DEF TurnedAway, TreeInv, Waiting
    <1>4. Clients'
        BY <1>2 DEF TurnedAway, TreeInv, Clients, Children
    <1>5. Refs'
        <2>1. \A d \in Below : Counts(d)' <=> Counts(d)
            <3>1. \A d \in Below : Reply(d, "success") \in Messages'
                                   <=> Reply(d, "success") \in Messages
                BY DEF TurnedAway, Statuses
            <3> QED BY <1>1, <3>1 DEF Counts, TurnedAway
        <2>2. \A b \in Clocks : Counted(b)' = Counted(b)
            BY <2>1, ConstantFacts DEF Counted
        <2>3. \A b \in Clocks : ClientRefs(b)' = ClientRefs(b)
            <3>1. "success" \in Statuses /\ "RUNNING" \in States /\ "STOPPED" \in States
                BY DEF Statuses, States
            <3> QED BY <3>1 DEF TurnedAway, ClientRefs
        <2> QED BY <2>2, <2>3 DEF TurnedAway, TreeInv, Refs
    <1> QED BY <1>3, <1>4, <1>5

-----------------------------------------------------------------------------
(* A clock is no longer needed by one of its users.                        *)

\* Clock c has its user w give it up, with result r, and stops for the last one.
Released(c, w, r, stops) ==
    /\ clk' = [clk EXCEPT ![c] =
                 [ref |-> clk[c].ref - IF r = "success" THEN 1 ELSE 0,
                  waits |-> FALSE, caller |-> w, initiator |-> FALSE]]
    /\ running' = IF stops THEN running \ {c} ELSE running
    /\ missed' = IF r # "success" /\ w # Client THEN [missed EXCEPT ![c] = @ + 1] ELSE missed
    /\ UNCHANGED <<want, holds>>
    /\ \A d \in Below : Ask(d) \in Messages' <=> Ask(d) \in Messages
    /\ \A d \in Below, s \in Statuses :
          /\ Reply(d, s) \in Messages' <=> Reply(d, s) \in Messages
          /\ Give(d, s) \in Messages' <=>
                (stops /\ d = c /\ s = "success") \/ (d # w /\ Give(d, s) \in Messages)
    /\ \A b \in Clocks, t \in States : Call(b, t) \in Messages' <=> b # c /\ Call(b, t) \in Messages
    /\ \A b \in Clocks, t \in States, s \in Statuses :
          Response(b, t, s) \in Messages' <=>
             (w = Client /\ b = c /\ t = "STOPPED" /\ s = r) \/ Response(b, t, s) \in Messages

\* A clock that is given up is counted by somebody.
LEMMA IsCounted ==
    ASSUME TreeInv, NEW c \in Clocks, NEW w \in Users(c),
           w = Client => clk[c].initiator /\ want[c] = "STOPPED",
           w # Client => Giving(w)
    PROVE  clk[c].ref > 0 /\ c \in running
    <1>1. /\ IsFiniteSet(Counted(c)) /\ Cardinality(Counted(c)) \in Nat
          /\ ClientRefs(c) \in Nat /\ missed[c] \in Nat /\ clk[c].ref \in Nat
          /\ clk[c].ref = Cardinality(Counted(c)) + ClientRefs(c) + missed[c]
          /\ clk[c].ref > 0 => c \in running
        BY CountType DEF TreeInv, Refs
    <1>2. CASE w = Client
        <2>1. \A t \in States, s \in Statuses : Response(c, t, s) \notin Messages
            BY <1>2 DEF TreeInv, Clients
        <2>2. ClientRefs(c) = holds[c] /\ holds[c] > 0
            <3>1. "success" \in Statuses /\ "RUNNING" \in States /\ "STOPPED" \in States
                BY DEF Statuses, States
            <3>2. holds[c] \in Nat /\ holds[c] > 0
                BY <1>2 DEF TreeInv, Typed, Clients
            <3> QED BY <2>1, <3>1, <3>2 DEF ClientRefs
        <2> QED BY <1>1, <2>2
    <1>3. CASE w # Client
        <2>1. w \in Counted(c)
            BY <1>3 DEF Users, Counted, Counts
        <2>2. Cardinality(Counted(c)) # 0
            BY <1>1, <2>1, FS_EmptySet
        <2> QED BY <1>1, <2>2
    <1> QED BY <1>2, <1>3

LEMMA UserReleases ==
    ASSUME TreeInv, NEW c \in Clocks, NEW w \in Users(c), NEW r \in Statuses,
           NEW stops \in BOOLEAN, Released(c, w, r, stops), ~clk[c].waits,
           clk[c].initiator <=> w = Client,
           w = Client => want[c] = "STOPPED",
           w # Client => Giving(w),
           stops <=> r = "success" /\ clk[c].ref = 1
    PROVE  /\ clk' \in [Clocks -> Context] /\ running' \subseteq Clocks
           /\ missed' \in [Clocks -> Nat]
           /\ Waiting' /\ Clients' /\ Refs'
    <1>1. /\ clk \in [Clocks -> Context] /\ running \subseteq Clocks
          /\ clk[c].ref \in 0 .. Width - 1 /\ clk[c].ref > 0 /\ c \in running
          /\ w \in Clocks \cup {Client} /\ missed \in [Clocks -> Nat]
        BY ConstantFacts, IsCounted DEF TreeInv, Typed, Context, Users
    <1>2. /\ \A d \in Below : d \in Clocks /\ Parent[d] \in Clocks /\ d # Client
          /\ w # Client => w \in Below /\ Parent[w] = c /\ w # c
        BY ConstantFacts DEF Users
    <1>3. /\ clk' \in [Clocks -> Context]
          /\ ~clk[c]'.waits /\ ~clk[c]'.initiator /\ clk[c]'.caller = w
          /\ clk[c]'.ref = clk[c].ref - IF r = "success" THEN 1 ELSE 0
          /\ \A b \in Clocks \ {c} : clk[b]' = clk[b]
        <2>1. clk[c].ref - (IF r = "success" THEN 1 ELSE 0) \in 0 .. Width - 1
            BY <1>1, ConstantFacts
        <2> QED BY <1>1, <2>1 DEF Released, Context
    <1>4. /\ missed' \in [Clocks -> Nat] /\ running' \subseteq Clocks
          /\ \A b \in Clocks : missed[b]' = IF b = c /\ r # "success" /\ w # Client
                                            THEN missed[b] + 1 ELSE missed[b]
        BY <1>1 DEF Released
    <1>5. w # Client => w \notin running /\ ~Replied(w)
        BY <1>2 DEF TreeInv, Waiting
    <1>6. c \in Below => ~Asking(c) /\ ~Above(c) /\ ~Replied(c)
        BY DEF TreeInv, Waiting
    <1>7. \A d \in Below :
              /\ Asking(d)' <=> Asking(d)
              /\ Replied(d)' <=> Replied(d)
              /\ Giving(d)' <=> (stops /\ d = c) \/ (d # w /\ Giving(d))
              /\ Above(d)' <=> Above(d)
        <2>1. "success" \in Statuses
            BY DEF Statuses
        <2> SUFFICES ASSUME NEW d \in Below
                     PROVE  /\ Asking(d)' <=> Asking(d)
                            /\ Replied(d)' <=> Replied(d)
                            /\ Giving(d)' <=> (stops /\ d = c) \/ (d # w /\ Giving(d))
                            /\ Above(d)' <=> Above(d)
            OBVIOUS
        <2>2. Asking(d)' <=> Asking(d)
            BY DEF Released, Asking
        <2>3. Replied(d)' <=> Replied(d)
            BY DEF Released, Replied
        <2>4. Giving(d)' <=> (stops /\ d = c) \/ (d # w /\ Giving(d))
            BY <2>1 DEF Released, Giving
        <2>5. Above(d)' <=> Above(d)
            BY <1>2, <1>3 DEF Above
        <2> QED BY <2>2, <2>3, <2>4, <2>5
    <1>8. \A b \in Clocks : /\ Called(b)' <=> b # c /\ Called(b)
                            /\ Responded(b)' <=> (b = c /\ w = Client) \/ Responded(b)
        <2>1. "STOPPED" \in States
            BY DEF States
        <2>2. \A b \in Clocks : Called(b)' <=> b # c /\ Called(b)
            BY DEF Released, Called
        <2>3. \A b \in Clocks : Responded(b)' <=> (b = c /\ w = Client) \/ Responded(b)
            BY <2>1 DEF Released, Responded
        <2> QED BY <2>2, <2>3
    <1>9. Waiting'
        <2>1. \A d \in Clocks : clk[d]'.waits => d \in Below /\ d \notin running'
            BY <1>1, <1>3 DEF TreeInv, Waiting, Released
        <2>2. ASSUME NEW d \in Below
              PROVE  clk[d]'.waits <=> Asking(d)' \/ Replied(d)' \/ Above(d)'
            <3>1. clk[d]'.waits <=> clk[d].waits
                BY <1>2, <1>3
            <3> QED BY <1>7, <3>1 DEF TreeInv, Waiting
        <2>3. \A d \in Below : Above(d)' => ~Asking(d)' /\ ~Replied(d)'
            BY <1>7 DEF TreeInv, Waiting
        <2>4. ASSUME NEW d \in Below, Giving(d)'
              PROVE  d \notin running' /\ ~Replied(d)'
            <3>1. CASE stops /\ d = c
                BY <1>6, <1>7, <3>1 DEF Released
            <3>2. CASE Giving(d)
                BY <1>7, <3>2 DEF TreeInv, Waiting, Released
            <3> QED BY <1>7, <2>4, <3>1, <3>2
        <2> QED BY <2>1, <2>2, <2>3, <2>4 DEF Waiting
    <1>10. Clients'
        <2> SUFFICES ASSUME NEW b \in Clocks
                     PROVE  /\ clk[b]'.waits =>
                                  IF clk[b]'.initiator THEN clk[b]'.caller = Client
                                                       ELSE clk[b]'.caller \in Children(b)
                            /\ Called(b)' <=> clk[b]'.initiator /\ ~clk[b]'.waits
                            /\ \A t \in States : Call(b, t) \in Messages' => want[b]' = t
                            /\ \A t \in States, s \in Statuses :
                                   Response(b, t, s) \in Messages' =>
                                       ~clk[b]'.initiator /\ want[b]' = t
                            /\ want[b]' # None <=> clk[b]'.initiator \/ Responded(b)'
                            /\ clk[b]'.waits /\ clk[b]'.initiator => want[b]' = "RUNNING"
                            /\ want[b]' = "STOPPED" => holds[b]' > 0
            BY DEF Clients, Children
        <2>1. /\ want' = want /\ holds' = holds
              /\ \A t \in States : Call(b, t) \in Messages' => Call(b, t) \in Messages
              /\ \A t \in States, s \in Statuses : Response(b, t, s) \in Messages' =>
                    (b = c /\ w = Client /\ t = "STOPPED") \/ Response(b, t, s) \in Messages
            BY DEF Released
        <2>2. CASE b = c
            <3>1. ~clk[b]'.waits /\ ~clk[b]'.initiator /\ ~Called(b)'
                BY <1>3, <1>8, <2>2
            <3>2. want[b]' # None <=> Responded(b)'
                BY <1>8, <2>1, <2>2, ConstantFacts DEF TreeInv, Clients
            <3> QED BY <2>1, <2>2, <3>1, <3>2 DEF TreeInv, Clients
        <2>3. CASE b # c
            BY <1>3, <1>8, <2>1, <2>3 DEF TreeInv, Clients
        <2> QED BY <2>2, <2>3
    <1>11. \A d \in Below : Counts(d)' <=> Counts(d) /\ d # w
        <2> SUFFICES ASSUME NEW d \in Below
                     PROVE  Counts(d)' <=> Counts(d) /\ d # w
            OBVIOUS
        <2>1. /\ Reply(d, "success") \in Messages' <=> Reply(d, "success") \in Messages
              /\ d \in running' <=> d \in running /\ ~(d = c /\ stops)
            BY DEF Released, Statuses
        <2>2. d = w => d \notin running /\ Reply(d, "success") \notin Messages /\ d # c
            BY <1>2, <1>5 DEF Replied, Statuses
        <2> QED BY <1>1, <1>7, <2>1, <2>2 DEF Counts
    <1>12. Refs'
        <2> SUFFICES ASSUME NEW b \in Clocks
                     PROVE  /\ clk[b]'.ref = Cardinality(Counted(b)') + ClientRefs(b)' + missed[b]'
                            /\ clk[b]'.ref > 0 => b \in running'
            BY DEF Refs
        <2>1. holds' = holds
            BY DEF Released
        <2>2. /\ IsFiniteSet(Counted(b)) /\ Cardinality(Counted(b)) \in Nat
              /\ ClientRefs(b) \in Nat /\ missed[b] \in Nat /\ clk[b].ref \in Nat
              /\ clk[b].ref = Cardinality(Counted(b)) + ClientRefs(b) + missed[b]
              /\ clk[b].ref > 0 => b \in running
            BY CountType DEF TreeInv, Refs
        <2>3. Counted(b)' = IF b = c /\ w # Client THEN Counted(b) \ {w} ELSE Counted(b)
            BY <1>2, <1>11, ConstantFacts DEF Counted, Users
        <2>4. ClientRefs(b)' = IF b = c /\ w = Client /\ r = "success"
                               THEN ClientRefs(b) - 1 ELSE ClientRefs(b)
            <3>1. "success" \in Statuses /\ "RUNNING" \in States /\ "STOPPED" \in States
                BY DEF Statuses, States
            <3>2. b = c /\ w = Client => \A t \in States, s \in Statuses :
                                             Response(b, t, s) \notin Messages
                BY DEF TreeInv, Clients
            <3>3. /\ Response(b, "RUNNING", "success") \in Messages'
                     <=> Response(b, "RUNNING", "success") \in Messages
                  /\ Response(b, "STOPPED", "success") \in Messages'
                     <=> (w = Client /\ b = c /\ r = "success")
                         \/ Response(b, "STOPPED", "success") \in Messages
                BY <3>1 DEF Released
            <3>4. holds[b] \in Nat
                BY DEF TreeInv, Typed
            <3> QED BY <2>1, <3>1, <3>2, <3>3, <3>4 DEF ClientRefs
        <2>5. b = c /\ w # Client => Cardinality(Counted(b)') = Cardinality(Counted(b)) - 1
            <3> SUFFICES ASSUME b = c, w # Client
                         PROVE  Cardinality(Counted(b)') = Cardinality(Counted(b)) - 1
                OBVIOUS
            <3>1. w \in Counted(b)
                BY DEF Users, Counted, Counts
            <3>2. Cardinality(Counted(b) \ {w}) = Cardinality(Counted(b)) - 1
                BY <2>2, <3>1, FS_RemoveElement
            <3>3. Counted(b)' = Counted(b) \ {w}
                BY <2>3
            <3> QED BY <3>2, <3>3
        <2>6. clk[b]'.ref = Cardinality(Counted(b)') + ClientRefs(b)' + missed[b]'
            <3>1. CASE b # c
                BY <1>3, <1>4, <2>2, <2>3, <2>4, <3>1
            <3>2. CASE b = c /\ w = Client
                BY <1>3, <1>4, <2>2, <2>3, <2>4, <3>2
            <3>3. CASE b = c /\ w # Client
                BY <1>3, <1>4, <2>2, <2>4, <2>5, <3>3
            <3> QED BY <3>1, <3>2, <3>3
        <2>7. clk[b]'.ref > 0 => b \in running'
            <3>1. CASE b # c
                BY <1>3, <2>2, <3>1 DEF Released
            <3>2. CASE b = c
                BY <1>1, <1>3, <3>2 DEF Released
            <3> QED BY <3>1, <3>2
        <2> QED BY <2>6, <2>7
    <1> QED BY <1>3, <1>4, <1>9, <1>10, <1>12

-----------------------------------------------------------------------------
(* A client calls, and is answered.                                        *)

Kept ==
    /\ \A d \in Below : Ask(d) \in Messages' <=> Ask(d) \in Messages
    /\ \A d \in Below, s \in Statuses :
          /\ Reply(d, s) \in Messages' <=> Reply(d, s) \in Messages
          /\ Give(d, s) \in Messages' <=> Give(d, s) \in Messages

LEMMA KeptBelow ==
    ASSUME Kept
    PROVE  \A d \in Below : /\ Asking(d)' <=> Asking(d)
                            /\ Replied(d)' <=> Replied(d)
                            /\ Giving(d)' <=> Giving(d)
                            /\ Reply(d, "success") \in Messages'
                               <=> Reply(d, "success") \in Messages
    <1>1. \A d \in Below : Asking(d)' <=> Asking(d)
        BY DEF Kept, Asking
    <1>2. \A d \in Below : Replied(d)' <=> Replied(d)
        BY DEF Kept, Replied
    <1>3. \A d \in Below : Giving(d)' <=> Giving(d)
        BY DEF Kept, Giving
    <1>4. \A d \in Below : Reply(d, "success") \in Messages'
                           <=> Reply(d, "success") \in Messages
        BY DEF Kept, Statuses
    <1> QED BY <1>1, <1>2, <1>3, <1>4

\* The client of clock c calls clk_set_state.
Calling(c, t) ==
    /\ want' = [want EXCEPT ![c] = t]
    /\ clk' = [clk EXCEPT ![c].initiator = TRUE]
    /\ UNCHANGED <<running, holds, missed>>
    /\ Kept
    /\ \A b \in Clocks, u \in States :
          Call(b, u) \in Messages' <=> (b = c /\ u = t) \/ Call(b, u) \in Messages
    /\ \A b \in Clocks, u \in States, s \in Statuses :
          Response(b, u, s) \in Messages' <=> Response(b, u, s) \in Messages

LEMMA ClientCalls ==
    ASSUME TreeInv, NEW c \in Clocks, NEW t \in States,
           want[c] = None, ~clk[c].waits, t = "STOPPED" => holds[c] > 0,
           Calling(c, t)
    PROVE  /\ clk' \in [Clocks -> Context] /\ want' \in [Clocks -> States \cup {None}]
           /\ Waiting' /\ Clients' /\ Refs'
    <1> /\ want' = [want EXCEPT ![c] = t]
        /\ clk' = [clk EXCEPT ![c].initiator = TRUE]
        /\ UNCHANGED <<running, holds, missed>> /\ Kept
        /\ \A b \in Clocks, u \in States :
              Call(b, u) \in Messages' <=> (b = c /\ u = t) \/ Call(b, u) \in Messages
        /\ \A b \in Clocks, u \in States, s \in Statuses :
              Response(b, u, s) \in Messages' <=> Response(b, u, s) \in Messages
        BY DEF Calling
    <1>1. clk \in [Clocks -> Context] /\ want \in [Clocks -> States \cup {None}]
        BY DEF TreeInv, Typed
    <1>2. /\ clk' \in [Clocks -> Context] /\ want' \in [Clocks -> States \cup {None}]
          /\ \A b \in Clocks : /\ clk[b]'.waits = clk[b].waits
                               /\ clk[b]'.caller = clk[b].caller /\ clk[b]'.ref = clk[b].ref
          /\ clk[c]'.initiator /\ want[c]' = t
          /\ \A b \in Clocks \ {c} : clk[b]' = clk[b] /\ want[b]' = want[b]
        BY <1>1 DEF Context
    <1>3. ~clk[c].initiator /\ ~Responded(c) /\ ~Called(c)
        BY DEF TreeInv, Clients
    <1>4. \A b \in Clocks : /\ Called(b)' <=> b = c \/ Called(b)
                            /\ Responded(b)' <=> Responded(b)
        BY DEF Called, Responded
    <1>5. \A d \in Below : Above(d)' <=> Above(d)
        BY <1>2, ConstantFacts DEF Above
    <1>6. Waiting'
        BY <1>2, <1>5, KeptBelow, ConstantFacts DEF TreeInv, Waiting
    <1>7. Clients'
        <2> SUFFICES ASSUME NEW b \in Clocks
                     PROVE  /\ clk[b]'.waits =>
                                  IF clk[b]'.initiator THEN clk[b]'.caller = Client
                                                       ELSE clk[b]'.caller \in Children(b)
                            /\ Called(b)' <=> clk[b]'.initiator /\ ~clk[b]'.waits
                            /\ \A u \in States : Call(b, u) \in Messages' => want[b]' = u
                            /\ \A u \in States, s \in Statuses :
                                   Response(b, u, s) \in Messages' =>
                                       ~clk[b]'.initiator /\ want[b]' = u
                            /\ want[b]' # None <=> clk[b]'.initiator \/ Responded(b)'
                            /\ clk[b]'.waits /\ clk[b]'.initiator => want[b]' = "RUNNING"
                            /\ want[b]' = "STOPPED" => holds[b]' > 0
            BY DEF Clients, Children
        <2>1. CASE b = c
            <3>1. /\ ~clk[b]'.waits /\ clk[b]'.initiator /\ Called(b)' /\ want[b]' = t
                  /\ t # None
                BY <1>2, <1>4, <2>1, ConstantFacts
            <3>2. \A u \in States : Call(b, u) \in Messages' => u = t
                BY <1>3, <2>1 DEF Called
            <3>3. \A u \in States, s \in Statuses : Response(b, u, s) \notin Messages'
                BY <1>3, <2>1 DEF Responded
            <3> QED BY <2>1, <3>1, <3>2, <3>3
        <2>2. CASE b # c
            BY <1>2, <1>4, <2>2 DEF TreeInv, Clients
        <2> QED BY <2>1, <2>2
    <1>8. Refs'
        <2>1. \A d \in Below : Counts(d)' <=> Counts(d)
            BY KeptBelow DEF Counts
        <2>2. \A b \in Clocks : Counted(b)' = Counted(b)
            BY <2>1, ConstantFacts DEF Counted
        <2>3. \A b \in Clocks : ClientRefs(b)' = ClientRefs(b)
            <3>1. "success" \in Statuses /\ "RUNNING" \in States /\ "STOPPED" \in States
                BY DEF Statuses, States
            <3> QED BY <3>1 DEF ClientRefs
        <2> QED BY <1>2, <2>2, <2>3 DEF TreeInv, Refs
    <1> QED BY <1>2, <1>6, <1>7, <1>8

\* The client of clock c gets its answer.
Told(c, t, s) ==
    /\ want' = [want EXCEPT ![c] = None]
    /\ holds' = IF s # "success" THEN holds
                ELSE IF t = "RUNNING" THEN [holds EXCEPT ![c] = @ + 1]
                ELSE [holds EXCEPT ![c] = IF @ > 0 THEN @ - 1 ELSE @]
    /\ UNCHANGED <<clk, running, missed>>
    /\ Kept
    /\ \A b \in Clocks, u \in States : Call(b, u) \in Messages' <=> Call(b, u) \in Messages
    /\ \A b \in Clocks, u \in States, r \in Statuses :
          Response(b, u, r) \in Messages' <=>
              ~(b = c /\ u = t /\ r = s) /\ Response(b, u, r) \in Messages

LEMMA ClientAnswered ==
    ASSUME TreeInv, NEW c \in Clocks, NEW t \in States, NEW s \in Statuses,
           Response(c, t, s) \in Messages, Told(c, t, s)
    PROVE  /\ want' \in [Clocks -> States \cup {None}] /\ holds' \in [Clocks -> Nat]
           /\ Waiting' /\ Clients' /\ Refs'
    <1> /\ want' = [want EXCEPT ![c] = None]
        /\ holds' = IF s # "success" THEN holds
                    ELSE IF t = "RUNNING" THEN [holds EXCEPT ![c] = @ + 1]
                    ELSE [holds EXCEPT ![c] = IF @ > 0 THEN @ - 1 ELSE @]
        /\ UNCHANGED <<clk, running, missed>> /\ Kept
        /\ \A b \in Clocks, u \in States : Call(b, u) \in Messages' <=> Call(b, u) \in Messages
        /\ \A b \in Clocks, u \in States, r \in Statuses :
              Response(b, u, r) \in Messages' <=>
                  ~(b = c /\ u = t /\ r = s) /\ Response(b, u, r) \in Messages
        BY DEF Told
    <1>1. want \in [Clocks -> States \cup {None}] /\ holds \in [Clocks -> Nat]
        BY DEF TreeInv, Typed
    <1>2. want[c] = t /\ ~clk[c].initiator /\ Responded(c)
        BY DEF TreeInv, Clients, Responded
    <1>3. t = "STOPPED" => holds[c] > 0
        BY <1>2 DEF TreeInv, Clients
    <1>4. /\ want' \in [Clocks -> States \cup {None}] /\ holds' \in [Clocks -> Nat]
          /\ want[c]' = None
          /\ holds[c]' = holds[c] + IF s # "success" THEN 0 ELSE IF t = "RUNNING" THEN 1 ELSE -1
          /\ \A b \in Clocks \ {c} : holds[b]' = holds[b] /\ want[b]' = want[b]
        BY <1>1, <1>3 DEF States
    <1>5. \A u \in States, r \in Statuses : Response(c, u, r) \notin Messages'
        BY OnceOnly
    <1>6. \A b \in Clocks : /\ Called(b)' <=> Called(b)
                            /\ Responded(b)' <=> b # c /\ Responded(b)
        <2>1. \A b \in Clocks : Called(b)' <=> Called(b)
            BY DEF Called
        <2>2. \A b \in Clocks : Responded(b)' <=> b # c /\ Responded(b)
            BY <1>5 DEF Responded
        <2> QED BY <2>1, <2>2
    <1>7. \A d \in Below : Above(d)' <=> Above(d)
        BY DEF Above
    <1>8. Waiting'
        BY <1>7, KeptBelow DEF TreeInv, Waiting
    <1>9. Clients'
        <2> SUFFICES ASSUME NEW b \in Clocks
                     PROVE  /\ clk[b]'.waits =>
                                  IF clk[b]'.initiator THEN clk[b]'.caller = Client
                                                       ELSE clk[b]'.caller \in Children(b)
                            /\ Called(b)' <=> clk[b]'.initiator /\ ~clk[b]'.waits
                            /\ \A u \in States : Call(b, u) \in Messages' => want[b]' = u
                            /\ \A u \in States, r \in Statuses :
                                   Response(b, u, r) \in Messages' =>
                                       ~clk[b]'.initiator /\ want[b]' = u
                            /\ want[b]' # None <=> clk[b]'.initiator \/ Responded(b)'
                            /\ clk[b]'.waits /\ clk[b]'.initiator => want[b]' = "RUNNING"
                            /\ want[b]' = "STOPPED" => holds[b]' > 0
            BY DEF Clients, Children
        <2>1. CASE b = c
            <3>1. ~Called(c) /\ \A u \in States : Call(c, u) \notin Messages'
                <4>1. ~Called(c)
                    BY <1>2, OnceOnly
                <4> QED BY <4>1 DEF Called
            <3>2. want[b]' = None /\ None # "STOPPED"
                BY <1>4, <2>1, ConstantFacts
            <3>3. clk' = clk
                OBVIOUS
            <3> QED BY <1>2, <1>5, <1>6, <2>1, <3>1, <3>2, <3>3 DEF TreeInv, Clients
        <2>2. CASE b # c
            BY <1>4, <1>6, <2>2 DEF TreeInv, Clients
        <2> QED BY <2>1, <2>2
    <1>10. Refs'
        <2>1. \A d \in Below : Counts(d)' <=> Counts(d)
            BY KeptBelow DEF Counts
        <2>2. \A b \in Clocks : Counted(b)' = Counted(b)
            BY <2>1, ConstantFacts DEF Counted
        <2>3. "success" \in Statuses /\ "RUNNING" \in States /\ "STOPPED" \in States
            BY DEF Statuses, States
        <2>4. ASSUME NEW b \in Clocks PROVE ClientRefs(b)' = ClientRefs(b)
            <3>1. CASE b # c
                BY <1>4, <2>3, <3>1 DEF ClientRefs
            <3>2. CASE b = c
                <4>1. /\ Response(c, "RUNNING", "success") \in Messages
                         <=> t = "RUNNING" /\ s = "success"
                      /\ Response(c, "STOPPED", "success") \in Messages
                         <=> t = "STOPPED" /\ s = "success"
                    BY <2>3, OnceOnly
                <4>2. /\ Response(c, "RUNNING", "success") \notin Messages'
                      /\ Response(c, "STOPPED", "success") \notin Messages'
                    BY <1>5, <2>3
                <4>3. holds[c] \in Nat /\ t \in {"RUNNING", "STOPPED"}
                    BY <1>1 DEF States
                <4> QED BY <1>4, <3>2, <4>1, <4>2, <4>3 DEF ClientRefs
            <3> QED BY <3>1, <3>2
        <2> QED BY <2>2, <2>4 DEF TreeInv, Refs
    <1> QED BY <1>4, <1>8, <1>9, <1>10

-----------------------------------------------------------------------------
(* The actions.                                                            *)

\* Nothing of the same kind is behind the event that is served.
LEMMA NoneBehind ==
    ASSUME TreeInv, queue # <<>>, event.kind # "rate"
    PROVE  \A y \in Messages \ {event}, d \in Clocks :
              /\ event \in Exchange(d) => y \notin Exchange(d)
              /\ event \in Gives(d) \cup {Ask(d)} => y \notin Gives(d)
              /\ event \in CallsOf(d) \cup ResponsesOf(d) => y \notin CallsOf(d) \cup ResponsesOf(d)
    BY EventFirst DEF Precedes

\* What a clock sends to the user whose request it has dealt with.
LEMMA AnswerSent ==
    ASSUME TreeInv, NEW c \in Clocks, NEW w \in Users(c), NEW r \in Statuses,
           clk[c].initiator <=> w = Client
    PROVE  /\ Answer(c, w, "RUNNING", r) = <<Result(c, w, r)>>
           /\ Answer(c, w, "STOPPED", r)
              = IF w = Client THEN <<Response(c, "STOPPED", r)>> ELSE <<>>
    <1>1. w # Client => w \in Clocks /\ Parent[w] = c
        BY ConstantFacts DEF Users, Children
    <1>2. Answer(c, w, "STOPPED", r) = IF w = Client THEN <<Response(c, "STOPPED", r)>> ELSE <<>>
        BY DEF Answer, Response
    <1>3. CASE w = Client
        BY <1>2, <1>3 DEF Answer, Response, Result
    <1>4. CASE w # Client
        BY <1>1, <1>2, <1>4 DEF Answer, Send, Reply, Result
    <1> QED BY <1>3, <1>4, <1>2

LEMMA ParentSent ==
    ASSUME NEW c \in Clocks, NEW s \in Statuses
    PROVE  /\ Send(Parent[c], c, "STOPPED", s) = IF c \in Below THEN <<Give(c, s)>> ELSE <<>>
           /\ c \in Below => Send(Parent[c], c, "RUNNING", "success") = <<Ask(c)>>
    <1>1. Parent[c] \in Clocks <=> c \in Below
        BY ConstantFacts, ClockTreeAssumption DEF Below
    <1> QED BY <1>1 DEF Send, Give, Ask

\* The message of the user whose request is answered, and the answer.
LEMMA RunMoves ==
    ASSUME TreeInv, queue # <<>>, event.kind # "rate", NEW c \in Clocks,
           NEW w \in Users(c), NEW r \in Statuses, NEW back \in BOOLEAN,
           clk[c].initiator <=> w = Client,
           back => clk[c].waits,
           \/ ~clk[c].waits /\ event = RequestOf(c, w)
           \/ clk[c].waits /\ clk[c].caller = w /\ \E s \in Statuses : event = Reply(c, s),
           Moves({Result(c, w, r)} \cup IF back THEN {Give(c, "device")} ELSE {}),
           clk' = [clk EXCEPT ![c] =
                     [ref |-> clk[c].ref + IF r = "success" THEN 1 ELSE 0,
                      waits |-> FALSE, caller |-> w, initiator |-> FALSE]],
           running' = IF r = "success" THEN running \cup {c} ELSE running,
           UNCHANGED <<want, holds, missed>>
    PROVE  Answered(c, w, r, back)
    <1> DEFINE S == {Result(c, w, r)} \cup IF back THEN {Give(c, "device")} ELSE {}
    <1>1. /\ Messages' = (Messages \ {event}) \cup S
          /\ event \in Messages
        BY EventFirst DEF Moves
    <1>2. /\ w # Client => w \in Below /\ Parent[w] = c
          /\ clk[c].waits => c \in Below
          /\ \A d \in Below : d # Client /\ d \in Clocks
          /\ "RUNNING" \in States /\ "device" \in Statuses
        <2>1. w # Client => w \in Children(c)
            BY DEF Users
        <2> QED BY <2>1, ConstantFacts DEF TreeInv, Waiting
    <1>3. ASSUME NEW d \in Below
          PROVE  Ask(d) \in Messages' <=> d # w /\ Ask(d) \in Messages
        <2>1. Ask(d) \notin S
            BY <1>2, Distinct DEF Result
        <2>2. CASE clk[c].waits
            <3>1. Ask(d) # event
                BY <1>2, <2>2, Distinct
            <3>2. w # Client => Ask(w) \notin Messages
                BY <1>2, <2>2 DEF TreeInv, Waiting, Above, Asking
            <3> QED BY <1>1, <1>2, <2>1, <3>1, <3>2
        <2>3. CASE ~clk[c].waits
            <3>1. Ask(d) = event <=> d = w
                BY <1>2, <2>3, Distinct DEF RequestOf
            <3> QED BY <1>1, <2>1, <3>1
        <2> QED BY <2>2, <2>3
    <1>4. ASSUME NEW d \in Below, NEW s \in Statuses
          PROVE  Reply(d, s) \in Messages' <=>
                     (d = w /\ s = r) \/ (d # c /\ Reply(d, s) \in Messages)
        <2>1. Reply(d, s) \in S <=> d = w /\ s = r
            BY <1>2, Distinct DEF Result
        <2>2. CASE clk[c].waits
            <3>1. Reply(d, s) \in Messages => (Reply(d, s) = event <=> d = c)
                BY <1>1, <1>2, <2>2, Distinct, OnceOnly
            <3> QED BY <1>1, <2>1, <3>1
        <2>3. CASE ~clk[c].waits
            <3>1. Reply(d, s) # event
                BY <1>2, <2>3, Distinct DEF RequestOf
            <3>2. d = c => Reply(d, s) \notin Messages
                BY <2>3 DEF TreeInv, Waiting, Replied
            <3> QED BY <1>1, <2>1, <3>1, <3>2
        <2> QED BY <2>2, <2>3
    <1>5. ASSUME NEW d \in Below, NEW s \in Statuses
          PROVE  Give(d, s) \in Messages' <=>
                     (back /\ d = c /\ s = "device") \/ Give(d, s) \in Messages
        <2>1. Give(d, s) # Result(c, w, r)
            BY <1>2, Distinct DEF Result
        <2>2. Give(d, s) # event
            BY <1>2, Distinct DEF RequestOf
        <2>3. back => (Give(d, s) = Give(c, "device") <=> d = c /\ s = "device")
            BY <1>2, Distinct
        <2> QED BY <1>1, <2>1, <2>2, <2>3
    <1>6. ASSUME NEW b \in Clocks, NEW t \in States
          PROVE  Call(b, t) \in Messages' <=> b # c /\ Call(b, t) \in Messages
        <2>1. Call(b, t) \notin S
            BY <1>2, Distinct DEF Result
        <2>2. b # c => Call(b, t) # event
            BY <1>2, Distinct DEF RequestOf
        <2>3. b = c => Call(b, t) \notin Messages \ {event}
            <3>1. CASE clk[c].waits \/ w # Client
                BY <3>1 DEF TreeInv, Clients, Called
            <3>2. CASE ~clk[c].waits /\ w = Client
                BY <1>2, <3>2, NoneBehind, Kinds DEF RequestOf
            <3> QED BY <3>1, <3>2
        <2> QED BY <1>1, <2>1, <2>2, <2>3
    <1>7. ASSUME NEW b \in Clocks, NEW t \in States, NEW s \in Statuses
          PROVE  Response(b, t, s) \in Messages' <=>
                     (w = Client /\ b = c /\ t = "RUNNING" /\ s = r)
                     \/ Response(b, t, s) \in Messages
        <2>1. Response(b, t, s) # event
            BY <1>2, Distinct DEF RequestOf
        <2>2. Response(b, t, s) = Result(c, w, r) <=> w = Client /\ b = c /\ t = "RUNNING" /\ s = r
            BY <1>2, Distinct DEF Result
        <2>3. back => Response(b, t, s) # Give(c, "device")
            BY <1>2, Distinct
        <2> QED BY <1>1, <2>1, <2>2, <2>3
    <1> HIDE DEF S
    <1> QED BY <1>3, <1>4, <1>5, <1>6, <1>7 DEF Answered

\* What the events are made of is known, and they are not about rates.
LEMMA AllKnown ==
    /\ \A d \in Below : Known(Ask(d)) /\ Ask(d).kind # "rate"
    /\ \A d \in Below, s \in Statuses :
          /\ Known(Reply(d, s)) /\ Reply(d, s).kind # "rate"
          /\ Known(Give(d, s)) /\ Give(d, s).kind # "rate"
    /\ \A c \in Clocks, t \in States : Known(Call(c, t)) /\ Call(c, t).kind # "rate"
    /\ \A c \in Clocks, t \in States, s \in Statuses :
          Known(Response(c, t, s)) /\ Response(c, t, s).kind # "rate"
    <1>1. \A d \in Below : Known(Ask(d)) /\ Ask(d).kind # "rate"
        BY DEF Known, Exchange, Ask
    <1>2. \A d \in Below, s \in Statuses : Known(Reply(d, s)) /\ Reply(d, s).kind # "rate"
        BY DEF Known, Exchange, Reply
    <1>3. \A d \in Below, s \in Statuses : Known(Give(d, s)) /\ Give(d, s).kind # "rate"
        BY DEF Known, Gives, Give
    <1>4. \A c \in Clocks, t \in States : Known(Call(c, t)) /\ Call(c, t).kind # "rate"
        BY DEF Known, CallsOf, Call
    <1>5. \A c \in Clocks, t \in States, s \in Statuses :
              Known(Response(c, t, s)) /\ Response(c, t, s).kind # "rate"
        <2> SUFFICES ASSUME NEW c \in Clocks, NEW t \in States, NEW s \in Statuses
                     PROVE  Known(Response(c, t, s)) /\ Response(c, t, s).kind # "rate"
            OBVIOUS
        <2>1. Response(c, t, s) \in ResponsesOf(c)
            BY DEF ResponsesOf
        <2>2. Response(c, t, s).kind # "rate"
            BY DEF Response
        <2> QED BY <2>1, <2>2 DEF Known
    <1> QED BY <1>1, <1>2, <1>3, <1>4, <1>5

\* Only clocks with a parent are answered by it.
LEMMA RepliesBelow ==
    ASSUME NEW c \in Clocks, NEW s \in Statuses, Known(Reply(c, s))
    PROVE  c \in Below
    <1> SUFFICES ASSUME c \notin Below PROVE FALSE
        OBVIOUS
    <1>1. Parent[c] = None
        BY ConstantFacts
    <1>2. Reply(c, s).kind = "state" /\ Reply(c, s).from = None
        BY <1>1 DEF Reply
    <1>3. \A d \in Below : d # None /\ Parent[d] # None
        BY ConstantFacts
    <1>4. \A d \in Below : Reply(c, s) # Ask(d)
        BY <1>2, <1>3 DEF Ask
    <1>5. \A d \in Below, r \in Statuses : Reply(c, s) # Reply(d, r) /\ Reply(c, s) # Give(d, r)
        <2>1. \A d \in Below, r \in Statuses : Reply(c, s) # Reply(d, r)
            <3> SUFFICES ASSUME NEW d \in Below, NEW r \in Statuses, Reply(c, s) = Reply(d, r)
                         PROVE  FALSE
                OBVIOUS
            <3>1. Reply(d, r).from = Parent[d]
                BY DEF Reply
            <3> QED BY <1>2, <1>3, <3>1
        <2>2. \A d \in Below, r \in Statuses : Reply(c, s) # Give(d, r)
            BY <1>2, <1>3 DEF Give
        <2> QED BY <2>1, <2>2
    <1>6. \A b \in Clocks, t \in States : Reply(c, s) # Call(b, t)
        BY <1>2, ConstantFacts DEF Call
    <1>7. \A b \in Clocks, t \in States, r \in Statuses : Reply(c, s) # Response(b, t, r)
        BY <1>2 DEF Response
    <1> QED BY <1>4, <1>5, <1>6, <1>7 DEF Known, Exchange, Gives, CallsOf, ResponsesOf

LEMMA RunDone ==
    ASSUME TreeInv, NotWrapped, queue # <<>>, event.kind # "rate", NEW c \in Clocks,
           NEW w \in Users(c), NEW r \in Statuses, NEW back \in BOOLEAN,
           clk[c].initiator <=> w = Client,
           w = Client => want[c] = "RUNNING",
           back => r # "success",
           \/ /\ ~clk[c].waits /\ ~back /\ event = RequestOf(c, w)
              /\ r = "success" => c \in running \/ c \notin Below
           \/ /\ clk[c].waits /\ clk[c].caller = w
              /\ \E s \in Statuses : /\ event = Reply(c, s)
                                     /\ s = "success" <=> r = "success" \/ back,
           Serve(IF back THEN <<Give(c, "device")>> \o <<Result(c, w, r)>>
                 ELSE <<Result(c, w, r)>>),
           Complete(c, w, clk[c].ref + IF r = "success" THEN 1 ELSE 0),
           running' = IF r = "success" THEN running \cup {c} ELSE running,
           UNCHANGED <<rate, input, want, holds, missed, asks, sets>>
    PROVE  TreeInv'
    <1>1. /\ w # Client => w \in Below /\ Parent[w] = c /\ w \in Clocks
          /\ clk[c].waits => c \in Below /\ c \notin running
          /\ "device" \in Statuses /\ "success" \in Statuses /\ "RUNNING" \in States
        <2>1. w # Client => w \in Children(c)
            BY DEF Users
        <2> QED BY <2>1, ConstantFacts DEF TreeInv, Waiting
    <1>2. event \in Messages
        BY EventFirst
    <1>3. ASSUME w # Client
          PROVE  ~Giving(w) /\ (Asking(w) \/ Above(w))
        <2>1. CASE clk[c].waits
            <3>1. Above(w)
                BY <1>1, <1>3, <2>1 DEF Above
            <3>2. w \in Children(c)
                BY <1>3 DEF Users
            <3> QED BY <2>1, <3>1, <3>2, CountType DEF Counts
        <2>2. CASE ~clk[c].waits
            <3>1. event = Ask(w)
                BY <1>3, <2>2 DEF RequestOf
            <3>2. \A s \in Statuses : Give(w, s) \notin Messages
                BY <1>1, <1>3, <3>1, NoneBehind, Kinds, Distinct
            <3> QED BY <1>2, <3>1, <3>2 DEF Asking, Giving
        <2> QED BY <2>1, <2>2
    <1>4. clk[c].waits => Replied(c)
        BY <1>2 DEF Replied
    <1>5. c \in Below /\ Reply(c, "success") \in Messages => r = "success" \/ back
        <2> SUFFICES ASSUME c \in Below, Reply(c, "success") \in Messages
                     PROVE  r = "success" \/ back
            OBVIOUS
        <2>1. clk[c].waits
            BY <1>1 DEF TreeInv, Waiting, Replied
        <2> QED BY <1>1, <1>2, <2>1, OnceOnly
    <1>6. clk[c].waits /\ (r = "success" \/ back) => Reply(c, "success") \in Messages
        BY <1>2
    <1>7. \A x \in Messages \ {event} : Precedes(x, Result(c, w, r))
        <2> SUFFICES ASSUME NEW x \in Messages \ {event} PROVE Precedes(x, Result(c, w, r))
            OBVIOUS
        <2>1. CASE w # Client
            <3>1. x \notin Exchange(w)
                <4>1. CASE clk[c].waits
                    <5>1. ~Asking(w) /\ ~Replied(w)
                        BY <1>1, <2>1, <4>1 DEF TreeInv, Waiting, Above
                    <5> QED BY <5>1 DEF Exchange, Asking, Replied
                <4>2. CASE ~clk[c].waits
                    BY <1>1, <2>1, <4>2, NoneBehind, Kinds DEF RequestOf
                <4> QED BY <4>1, <4>2
            <3> QED BY <1>1, <2>1, <3>1, Orderly DEF Result
        <2>2. CASE w = Client
            <3>1. x \notin CallsOf(c) \cup ResponsesOf(c)
                <4>1. CASE clk[c].waits
                    <5>1. ~Called(c) /\ \A t \in States, s \in Statuses :
                                            Response(c, t, s) \notin Messages
                        BY <2>2, <4>1 DEF TreeInv, Clients
                    <5> QED BY <5>1 DEF CallsOf, ResponsesOf, Called
                <4>2. CASE ~clk[c].waits
                    BY <1>1, <2>2, <4>2, NoneBehind, Kinds DEF RequestOf
                <4> QED BY <4>1, <4>2
            <3> QED BY <1>1, <2>2, <3>1, Orderly DEF Result
        <2> QED BY <2>1, <2>2
    <1>8. ASSUME back
          PROVE  /\ \A x \in Messages \ {event} : Precedes(x, Give(c, "device"))
                 /\ Precedes(Give(c, "device"), Result(c, w, r))
        <2>1. clk[c].waits /\ Replied(c) /\ c \in Below
            BY <1>1, <1>4, <1>8
        <2>2. ~Giving(c) /\ ~Asking(c)
            BY <2>1, OnceOnly DEF TreeInv, Waiting
        <2>3. \A x \in Messages \ {event} : Precedes(x, Give(c, "device"))
            <3> SUFFICES ASSUME NEW x \in Messages \ {event}
                         PROVE  Precedes(x, Give(c, "device"))
                OBVIOUS
            <3>1. x \notin Gives(c) \cup {Ask(c)}
                BY <2>2 DEF Giving, Asking, Gives
            <3> QED BY <1>1, <2>1, <3>1, Orderly
        <2>4. w # Client => Give(c, "device") \notin Exchange(w)
            BY <1>1, <2>1, Kinds
        <2>5. Give(c, "device") \notin CallsOf(c) \cup ResponsesOf(c)
            BY <1>1, <2>1, Kinds
        <2>6. Precedes(Give(c, "device"), Result(c, w, r))
            BY <1>1, <2>4, <2>5, Orderly DEF Result
        <2> QED BY <2>3, <2>6
    <1>9. Known(Result(c, w, r)) /\ Result(c, w, r).kind # "rate" /\ Result(c, w, r) \in Events
        BY <1>1, AllKnown, KnownEvents DEF Result
    <1>10. back => /\ Known(Give(c, "device")) /\ Give(c, "device").kind # "rate"
                   /\ Give(c, "device") \in Events
        BY <1>1, AllKnown, KnownEvents
    <1>11. Moves({Result(c, w, r)} \cup IF back THEN {Give(c, "device")} ELSE {})
        <2>1. CASE back
            <3>1. Moves({Give(c, "device"), Result(c, w, r)})
                BY <1>7, <1>8, <1>9, <1>10, <2>1, ServeTwo
            <3>2. {Give(c, "device"), Result(c, w, r)}
                  = {Result(c, w, r)} \cup IF back THEN {Give(c, "device")} ELSE {}
                BY <2>1
            <3> QED BY <3>1, <3>2
        <2>2. CASE ~back
            <3>1. Moves({Result(c, w, r)})
                BY <1>7, <1>9, <2>2, ServeOne
            <3>2. {Result(c, w, r)}
                  = {Result(c, w, r)} \cup IF back THEN {Give(c, "device")} ELSE {}
                BY <2>2
            <3> QED BY <3>1, <3>2
        <2> QED BY <2>1, <2>2
    <1>12. clk' = [clk EXCEPT ![c] =
                    [ref |-> clk[c].ref + IF r = "success" THEN 1 ELSE 0,
                     waits |-> FALSE, caller |-> w, initiator |-> FALSE]]
        <2>1. clk[c].ref \in 0 .. Width - 1 /\ clk[c].ref < Width - 1 /\ Width \in Nat \ {0}
            BY ConstantFacts DEF TreeInv, Typed, Context, NotWrapped
        <2> DEFINE n == clk[c].ref + IF r = "success" THEN 1 ELSE 0
        <2>2. n \in 0 .. Width - 1
            BY <2>1
        <2> HIDE DEF n
        <2>3. n % Width = n
            BY <2>1, <2>2
        <2>4. clk' = [clk EXCEPT ![c] = [ref |-> n % Width, waits |-> FALSE,
                                         caller |-> w, initiator |-> FALSE]]
            BY DEF Complete, n
        <2> QED BY <2>3, <2>4 DEF n
    <1>13. Answered(c, w, r, back)
        BY <1>11, <1>12, RunMoves
    <1>14. /\ clk' \in [Clocks -> Context] /\ running' \subseteq Clocks
           /\ Waiting' /\ Clients' /\ Refs'
        <2>1. c \notin Below => Reply(c, "success") \notin Messages
            <3> SUFFICES ASSUME c \notin Below, Reply(c, "success") \in Messages PROVE FALSE
                OBVIOUS
            <3>1. Known(Reply(c, "success"))
                BY DEF TreeInv
            <3> QED BY <1>1, <3>1, RepliesBelow
        <2> QED BY <1>1, <1>3, <1>4, <1>5, <1>6, <1>13, <2>1, RunAnswered
    <1> QED BY <1>11, <1>14 DEF Moves, TreeInv, Typed

-----------------------------------------------------------------------------
(* A clock is given up by one of its users.                                *)

LEMMA ReleaseMoves ==
    ASSUME TreeInv, queue # <<>>, event.kind # "rate", NEW c \in Clocks,
           NEW w \in Users(c), NEW r \in Statuses, NEW v \in Statuses, NEW stops \in BOOLEAN,
           clk[c].initiator <=> w = Client,
           ~clk[c].waits, event = Release(c, w, v),
           Moves((IF w = Client THEN {Response(c, "STOPPED", r)} ELSE {})
                 \cup IF stops /\ c \in Below THEN {Give(c, "success")} ELSE {}),
           clk' = [clk EXCEPT ![c] =
                     [ref |-> clk[c].ref - IF r = "success" THEN 1 ELSE 0,
                      waits |-> FALSE, caller |-> w, initiator |-> FALSE]],
           running' = IF stops THEN running \ {c} ELSE running,
           missed' = IF r # "success" /\ w # Client THEN [missed EXCEPT ![c] = @ + 1]
                     ELSE missed,
           UNCHANGED <<want, holds>>
    PROVE  Released(c, w, r, stops)
    <1> DEFINE S == (IF w = Client THEN {Response(c, "STOPPED", r)} ELSE {})
                    \cup IF stops /\ c \in Below THEN {Give(c, "success")} ELSE {}
    <1>1. /\ Messages' = (Messages \ {event}) \cup S
          /\ event \in Messages
        BY EventFirst DEF Moves
    <1>2. /\ w # Client => w \in Below /\ Parent[w] = c
          /\ \A d \in Below : d # Client /\ d \in Clocks
          /\ "STOPPED" \in States /\ "success" \in Statuses
        <2>1. w # Client => w \in Children(c)
            BY DEF Users
        <2> QED BY <2>1, ConstantFacts
    <1>3. ASSUME NEW d \in Below
          PROVE  Ask(d) \in Messages' <=> Ask(d) \in Messages
        <2>1. Ask(d) \notin S
            BY <1>2, Distinct
        <2>2. Ask(d) # event
            BY <1>2, Distinct DEF Release
        <2> QED BY <1>1, <2>1, <2>2
    <1>4. ASSUME NEW d \in Below, NEW s \in Statuses
          PROVE  Reply(d, s) \in Messages' <=> Reply(d, s) \in Messages
        <2>1. Reply(d, s) \notin S
            BY <1>2, Distinct
        <2>2. Reply(d, s) # event
            BY <1>2, Distinct DEF Release
        <2> QED BY <1>1, <2>1, <2>2
    <1>5. ASSUME NEW d \in Below, NEW s \in Statuses
          PROVE  Give(d, s) \in Messages' <=>
                    (stops /\ d = c /\ s = "success") \/ (d # w /\ Give(d, s) \in Messages)
        <2>1. Give(d, s) \in S <=> stops /\ d = c /\ s = "success"
            <3>1. Give(d, s) # Response(c, "STOPPED", r)
                BY <1>2, Distinct
            <3>2. c \in Below => (Give(d, s) = Give(c, "success") <=> d = c /\ s = "success")
                BY <1>2, Distinct
            <3> QED BY <3>1, <3>2
        <2>2. CASE w = Client
            <3>1. Give(d, s) # event
                BY <1>2, <2>2, Distinct DEF Release
            <3> QED BY <1>1, <1>2, <2>1, <2>2, <3>1
        <2>3. CASE w # Client
            <3>1. event = Give(w, v) /\ w \in Below /\ w \in Clocks
                BY <1>2, <2>3 DEF Release
            <3>2. d = w => Give(d, s) \notin Messages \ {event}
                <4>1. d = w => event \in Gives(d) \cup {Ask(d)} /\ Give(d, s) \in Gives(d)
                    BY <3>1, Kinds
                <4> QED BY <1>2, <4>1, NoneBehind
            <3>3. d # w => Give(d, s) # event
                BY <3>1, Distinct
            <3> QED BY <1>1, <2>1, <3>2, <3>3
        <2> QED BY <2>2, <2>3
    <1>6. ASSUME NEW b \in Clocks, NEW t \in States
          PROVE  Call(b, t) \in Messages' <=> b # c /\ Call(b, t) \in Messages
        <2>1. Call(b, t) \notin S
            BY <1>2, Distinct
        <2>2. b # c => Call(b, t) # event
            BY <1>2, Distinct DEF Release
        <2>3. b = c => Call(b, t) \notin Messages \ {event}
            <3>1. CASE w # Client
                BY <3>1 DEF TreeInv, Clients, Called
            <3>2. CASE w = Client
                BY <1>2, <3>2, NoneBehind, Kinds DEF Release
            <3> QED BY <3>1, <3>2
        <2> QED BY <1>1, <2>1, <2>2, <2>3
    <1>7. ASSUME NEW b \in Clocks, NEW t \in States, NEW s \in Statuses
          PROVE  Response(b, t, s) \in Messages' <=>
                     (w = Client /\ b = c /\ t = "STOPPED" /\ s = r)
                     \/ Response(b, t, s) \in Messages
        <2>1. Response(b, t, s) # event
            BY <1>2, Distinct DEF Release
        <2>2. Response(b, t, s) = Response(c, "STOPPED", r) <=> b = c /\ t = "STOPPED" /\ s = r
            BY <1>2, Distinct
        <2>3. c \in Below => Response(b, t, s) # Give(c, "success")
            BY <1>2, Distinct
        <2> QED BY <1>1, <2>1, <2>2, <2>3
    <1> HIDE DEF S
    <1> QED BY <1>3, <1>4, <1>5, <1>6, <1>7 DEF Released

LEMMA ReleaseDone ==
    ASSUME TreeInv, queue # <<>>, event.kind # "rate", NEW c \in Clocks,
           NEW w \in Users(c), NEW r \in Statuses, NEW v \in Statuses, NEW stops \in BOOLEAN,
           clk[c].initiator <=> w = Client,
           w = Client => want[c] = "STOPPED",
           ~clk[c].waits, event = Release(c, w, v),
           stops <=> r = "success" /\ clk[c].ref = 1,
           Serve((IF w = Client THEN <<Response(c, "STOPPED", r)>> ELSE <<>>)
                 \o IF stops /\ c \in Below THEN <<Give(c, "success")>> ELSE <<>>),
           Complete(c, w, clk[c].ref - IF r = "success" THEN 1 ELSE 0),
           running' = IF stops THEN running \ {c} ELSE running,
           missed' = IF r # "success" /\ w # Client THEN [missed EXCEPT ![c] = @ + 1]
                     ELSE missed,
           UNCHANGED <<rate, input, want, holds, asks, sets>>
    PROVE  TreeInv'
    <1>1. /\ w # Client => w \in Below /\ Parent[w] = c /\ w \in Clocks
          /\ "success" \in Statuses /\ "STOPPED" \in States
        <2>1. w # Client => w \in Children(c)
            BY DEF Users
        <2> QED BY <2>1, ConstantFacts
    <1>2. event \in Messages
        BY EventFirst
    <1>3. w # Client => Giving(w)
        BY <1>2 DEF Giving, Release
    <1>4. clk[c].ref > 0 /\ c \in running
        BY <1>3, IsCounted
    <1>5. ASSUME c \in Below
          PROVE  ~Giving(c) /\ ~Asking(c)
        BY <1>4, <1>5 DEF TreeInv, Waiting
    <1>6. ASSUME w = Client
          PROVE  \A x \in Messages \ {event} : Precedes(x, Response(c, "STOPPED", r))
        <2> SUFFICES ASSUME NEW x \in Messages \ {event}
                     PROVE  Precedes(x, Response(c, "STOPPED", r))
            OBVIOUS
        <2>1. event \in CallsOf(c)
            BY <1>1, <1>6, Kinds DEF Release
        <2>2. x \notin CallsOf(c) \cup ResponsesOf(c)
            BY <2>1, NoneBehind
        <2> QED BY <1>1, <2>2, Orderly
    <1>7. ASSUME c \in Below
          PROVE  /\ \A x \in Messages \ {event} : Precedes(x, Give(c, "success"))
                 /\ Precedes(Response(c, "STOPPED", r), Give(c, "success"))
        <2>1. \A x \in Messages \ {event} : Precedes(x, Give(c, "success"))
            <3> SUFFICES ASSUME NEW x \in Messages \ {event}
                         PROVE  Precedes(x, Give(c, "success"))
                OBVIOUS
            <3>1. x \notin Gives(c) \cup {Ask(c)}
                BY <1>5, <1>7 DEF Giving, Asking, Gives
            <3> QED BY <1>1, <1>7, <3>1, Orderly
        <2>2. Response(c, "STOPPED", r) \notin Gives(c) \cup {Ask(c)}
            BY <1>1, <1>7, Kinds, Distinct
        <2> QED BY <1>1, <1>7, <2>1, <2>2, Orderly
    <1>8. /\ Known(Response(c, "STOPPED", r)) /\ Response(c, "STOPPED", r).kind # "rate"
          /\ Response(c, "STOPPED", r) \in Events
          /\ c \in Below => /\ Known(Give(c, "success")) /\ Give(c, "success").kind # "rate"
                            /\ Give(c, "success") \in Events
        BY <1>1, AllKnown, KnownEvents
    <1> DEFINE S == (IF w = Client THEN {Response(c, "STOPPED", r)} ELSE {})
                    \cup IF stops /\ c \in Below THEN {Give(c, "success")} ELSE {}
    <1>9. Moves(S)
        <2>1. CASE w = Client /\ stops /\ c \in Below
            <3>1. Serve(<<Response(c, "STOPPED", r)>> \o <<Give(c, "success")>>)
                BY <2>1
            <3>2. Moves({Response(c, "STOPPED", r), Give(c, "success")})
                BY <1>6, <1>7, <1>8, <2>1, <3>1, ServeTwo
            <3>3. S = {Response(c, "STOPPED", r), Give(c, "success")}
                BY <2>1
            <3> QED BY <3>2, <3>3
        <2>2. CASE w = Client /\ ~(stops /\ c \in Below)
            <3>1. <<Response(c, "STOPPED", r)>> \o <<>> = <<Response(c, "STOPPED", r)>>
                BY <1>8, ConcatEmptySeq
            <3>2. Serve(<<Response(c, "STOPPED", r)>>)
                BY <2>2, <3>1
            <3>3. Moves({Response(c, "STOPPED", r)})
                BY <1>6, <1>8, <2>2, <3>2, ServeOne
            <3>4. S = {Response(c, "STOPPED", r)}
                BY <2>2
            <3> QED BY <3>3, <3>4
        <2>3. CASE w # Client /\ stops /\ c \in Below
            <3>1. <<>> \o <<Give(c, "success")>> = <<Give(c, "success")>>
                BY <1>8, ConcatEmptySeq
            <3>2. Serve(<<Give(c, "success")>>)
                BY <2>3, <3>1
            <3>3. Moves({Give(c, "success")})
                BY <1>7, <1>8, <2>3, <3>2, ServeOne
            <3>4. S = {Give(c, "success")}
                BY <2>3
            <3> QED BY <3>3, <3>4
        <2>4. CASE w # Client /\ ~(stops /\ c \in Below)
            <3>1. <<>> \o <<>> = <<>>
                OBVIOUS
            <3>2. Serve(<<>>)
                BY <2>4, <3>1
            <3>3. Moves({})
                BY <3>2, ServeNone
            <3>4. S = {}
                BY <2>4
            <3> QED BY <3>3, <3>4
        <2> QED BY <2>1, <2>2, <2>3, <2>4
    <1>10. clk' = [clk EXCEPT ![c] =
                    [ref |-> clk[c].ref - IF r = "success" THEN 1 ELSE 0,
                     waits |-> FALSE, caller |-> w, initiator |-> FALSE]]
        <2>1. clk[c].ref \in 0 .. Width - 1 /\ Width \in Nat \ {0}
            BY ConstantFacts DEF TreeInv, Typed, Context
        <2> DEFINE n == clk[c].ref - IF r = "success" THEN 1 ELSE 0
        <2>2. n \in 0 .. Width - 1
            BY <1>4, <2>1
        <2> HIDE DEF n
        <2>3. n % Width = n
            BY <2>1, <2>2
        <2>4. clk' = [clk EXCEPT ![c] = [ref |-> n % Width, waits |-> FALSE,
                                         caller |-> w, initiator |-> FALSE]]
            BY DEF Complete, n
        <2> QED BY <2>3, <2>4 DEF n
    <1>11. Released(c, w, r, stops)
        BY <1>9, <1>10, ReleaseMoves
    <1>12. /\ clk' \in [Clocks -> Context] /\ running' \subseteq Clocks
           /\ missed' \in [Clocks -> Nat]
           /\ Waiting' /\ Clients' /\ Refs'
        BY <1>3, <1>11, UserReleases
    <1> HIDE DEF S
    <1> QED BY <1>9, <1>12 DEF Moves, TreeInv, Typed

-----------------------------------------------------------------------------
(* The parent is asked, a child is turned away, and a client is answered.  *)

LEMMA AskDone ==
    ASSUME TreeInv, queue # <<>>, event.kind # "rate", NEW c \in Below, NEW w \in Users(c),
           clk[c].initiator <=> w = Client,
           w = Client => want[c] = "RUNNING",
           ~clk[c].waits, c \notin running, event = RequestOf(c, w),
           Serve(<<Ask(c)>>),
           clk' = [clk EXCEPT ![c].caller = w, ![c].waits = TRUE],
           UNCHANGED <<running, rate, input, want, holds, missed, asks, sets>>
    PROVE  TreeInv'
    <1>1. /\ w # Client => w \in Below /\ Parent[w] = c /\ w \in Clocks
          /\ c \in Clocks /\ "RUNNING" \in States
          /\ \A d \in Below : d # Client /\ d \in Clocks
        <2>1. w # Client => w \in Children(c)
            BY DEF Users
        <2> QED BY <2>1, ConstantFacts
    <1>2. event \in Messages
        BY EventFirst
    <1>3. w # Client => Asking(w)
        BY <1>2 DEF Asking, RequestOf
    <1>4. ~Asking(c) /\ ~Replied(c)
        BY DEF TreeInv, Waiting
    <1>5. \A x \in Messages \ {event} : Precedes(x, Ask(c))
        <2> SUFFICES ASSUME NEW x \in Messages \ {event} PROVE Precedes(x, Ask(c))
            OBVIOUS
        <2>1. x \notin Exchange(c)
            BY <1>4 DEF Asking, Replied, Exchange
        <2> QED BY <2>1, Orderly
    <1>6. Moves({Ask(c)})
        BY <1>5, AllKnown, KnownEvents, ServeOne
    <1>7. Asked(c, w)
        <2>1. Messages' = (Messages \ {event}) \cup {Ask(c)}
            BY <1>6 DEF Moves
        <2>2. ASSUME NEW d \in Below
              PROVE  Ask(d) \in Messages' <=> d = c \/ (d # w /\ Ask(d) \in Messages)
            <3>1. Ask(d) = Ask(c) <=> d = c
                BY Distinct
            <3>2. Ask(d) = event <=> d = w
                BY <1>1, Distinct DEF RequestOf
            <3> QED BY <2>1, <3>1, <3>2
        <2>3. ASSUME NEW d \in Below, NEW s \in Statuses
              PROVE  /\ Reply(d, s) \in Messages' <=> Reply(d, s) \in Messages
                     /\ Give(d, s) \in Messages' <=> Give(d, s) \in Messages
            <3>1. Reply(d, s) # Ask(c) /\ Give(d, s) # Ask(c)
                BY Distinct
            <3>2. Reply(d, s) # event /\ Give(d, s) # event
                BY <1>1, Distinct DEF RequestOf
            <3> QED BY <2>1, <3>1, <3>2
        <2>4. ASSUME NEW b \in Clocks, NEW t \in States
              PROVE  Call(b, t) \in Messages' <=> b # c /\ Call(b, t) \in Messages
            <3>1. Call(b, t) # Ask(c)
                BY Distinct
            <3>2. b # c => Call(b, t) # event
                BY <1>1, Distinct DEF RequestOf
            <3>3. b = c => Call(b, t) \notin Messages \ {event}
                <4>1. CASE w # Client
                    BY <4>1 DEF TreeInv, Clients, Called
                <4>2. CASE w = Client
                    BY <1>1, <4>2, NoneBehind, Kinds DEF RequestOf
                <4> QED BY <4>1, <4>2
            <3> QED BY <2>1, <3>1, <3>2, <3>3
        <2>5. ASSUME NEW b \in Clocks, NEW t \in States, NEW s \in Statuses
              PROVE  Response(b, t, s) \in Messages' <=> Response(b, t, s) \in Messages
            <3>1. Response(b, t, s) # Ask(c)
                BY Distinct
            <3>2. Response(b, t, s) # event
                BY <1>1, Distinct DEF RequestOf
            <3> QED BY <2>1, <3>1, <3>2
        <2> QED BY <2>2, <2>3, <2>4, <2>5 DEF Asked
    <1>8. /\ clk' \in [Clocks -> Context] /\ running' \subseteq Clocks
          /\ Waiting' /\ Clients' /\ Refs'
        BY <1>3, <1>7, ParentAsked
    <1> QED BY <1>6, <1>8 DEF Moves, TreeInv, Typed

LEMMA TurnAwayDone ==
    ASSUME TreeInv, queue # <<>>, event.kind # "rate", NEW w \in Below, event = Ask(w),
           clk[Parent[w]].waits, Serve(<<Reply(w, "busy")>>),
           UNCHANGED <<clk, running, rate, input, want, holds, missed, asks, sets>>
    PROVE  TreeInv'
    <1>1. /\ w \in Clocks /\ Parent[w] \in Clocks /\ w \in Children(Parent[w])
          /\ "busy" \in Statuses
        BY ConstantFacts
    <1>2. event \in Messages
        BY EventFirst
    <1>3. Asking(w)
        BY <1>2 DEF Asking
    <1>4. ~Giving(w)
        BY <1>1, CountType DEF Counts
    <1>5. \A x \in Messages \ {event} : Precedes(x, Reply(w, "busy"))
        <2> SUFFICES ASSUME NEW x \in Messages \ {event} PROVE Precedes(x, Reply(w, "busy"))
            OBVIOUS
        <2>1. x \notin Exchange(w)
            BY <1>1, NoneBehind, Kinds
        <2> QED BY <1>1, <2>1, Orderly
    <1>6. Moves({Reply(w, "busy")})
        BY <1>1, <1>5, AllKnown, KnownEvents, ServeOne
    <1>7. TurnedAway(w)
        <2>1. Messages' = (Messages \ {event}) \cup {Reply(w, "busy")}
            BY <1>6 DEF Moves
        <2>2. ASSUME NEW d \in Below
              PROVE  Ask(d) \in Messages' <=> d # w /\ Ask(d) \in Messages
            <3>1. Ask(d) # Reply(w, "busy") /\ (Ask(d) = Ask(w) <=> d = w)
                BY <1>1, Distinct
            <3> QED BY <2>1, <3>1
        <2>3. ASSUME NEW d \in Below, NEW s \in Statuses
              PROVE  /\ Reply(d, s) \in Messages'
                           <=> (d = w /\ s = "busy") \/ Reply(d, s) \in Messages
                     /\ Give(d, s) \in Messages' <=> Give(d, s) \in Messages
            <3>1. /\ Reply(d, s) = Reply(w, "busy") <=> d = w /\ s = "busy"
                  /\ Give(d, s) # Reply(w, "busy")
                BY <1>1, Distinct
            <3>2. Reply(d, s) # event /\ Give(d, s) # event
                BY Distinct
            <3> QED BY <2>1, <3>1, <3>2
        <2>4. ASSUME NEW b \in Clocks, NEW t \in States
              PROVE  Call(b, t) \in Messages' <=> Call(b, t) \in Messages
            BY <1>1, <2>1, Distinct
        <2>5. ASSUME NEW b \in Clocks, NEW t \in States, NEW s \in Statuses
              PROVE  Response(b, t, s) \in Messages' <=> Response(b, t, s) \in Messages
            BY <1>1, <2>1, Distinct
        <2> QED BY <2>2, <2>3, <2>4, <2>5 DEF TurnedAway
    <1>8. Waiting' /\ Clients' /\ Refs'
        BY <1>3, <1>4, <1>7, ChildTurnedAway
    <1> QED BY <1>6, <1>8 DEF Moves, TreeInv, Typed

LEMMA RespondDone ==
    ASSUME TreeInv, NEW c \in Clocks, Respond(c)
    PROVE  TreeInv'
    <1>1. /\ queue # <<>> /\ event.kind = "response" /\ event.to = c /\ event.kind # "rate"
          /\ Serve(<<>>)
          /\ want' = [want EXCEPT ![c] = None]
          /\ UNCHANGED <<clk, running, rate, input, missed, asks, sets>>
        BY DEF Respond
    <1>2. event \in Messages /\ Known(event)
        BY <1>1, EventFirst
    <1>3. PICK t \in States, s \in Statuses : event = Response(c, t, s)
        <2>1. \A d \in Below, s \in Statuses :
                  event # Ask(d) /\ event # Reply(d, s) /\ event # Give(d, s)
            <3>1. \A d \in Below : event # Ask(d)
                BY <1>1 DEF Ask
            <3>2. \A d \in Below, s \in Statuses : event # Reply(d, s)
                BY <1>1 DEF Reply
            <3>3. \A d \in Below, s \in Statuses : event # Give(d, s)
                BY <1>1 DEF Give
            <3> QED BY <3>1, <3>2, <3>3
        <2>2. \A b \in Clocks, t \in States : event # Call(b, t)
            BY <1>1 DEF Call
        <2>3. PICK b \in Clocks : event \in ResponsesOf(b)
            BY <1>2, <2>1, <2>2, ConstantFacts DEF Known, Exchange, Gives, CallsOf
        <2>4. PICK t \in States, s \in Statuses : event = Response(b, t, s)
            BY <2>3 DEF ResponsesOf
        <2>5. b = c
            BY <1>1, <2>4 DEF Response
        <2> QED BY <2>4, <2>5
    <1>4. Moves({})
        BY <1>1, ServeNone
    <1>5. Messages' = Messages \ {event}
        BY <1>4 DEF Moves
    <1>6. Kept
        BY <1>3, <1>5, Distinct DEF Kept
    <1>7. \A b \in Clocks, u \in States : Call(b, u) \in Messages' <=> Call(b, u) \in Messages
        BY <1>3, <1>5, Distinct
    <1>8. \A b \in Clocks, u \in States, r \in Statuses :
              Response(b, u, r) \in Messages' <=>
                  ~(b = c /\ u = t /\ r = s) /\ Response(b, u, r) \in Messages
        BY <1>3, <1>5, Distinct
    <1>9. holds' = IF s # "success" THEN holds
                   ELSE IF t = "RUNNING" THEN [holds EXCEPT ![c] = @ + 1]
                   ELSE [holds EXCEPT ![c] = IF @ > 0 THEN @ - 1 ELSE @]
        BY <1>3 DEF Respond, Response
    <1>10. Told(c, t, s)
        BY <1>1, <1>6, <1>7, <1>8, <1>9 DEF Told
    <1>11. Response(c, t, s) \in Messages
        BY <1>2, <1>3
    <1>12. /\ want' \in [Clocks -> States \cup {None}] /\ holds' \in [Clocks -> Nat]
           /\ Waiting' /\ Clients' /\ Refs'
        BY <1>10, <1>11, ClientAnswered
    <1> QED BY <1>1, <1>4, <1>12 DEF Moves, TreeInv, Typed

\* clk_set_state, of a clock that has no event to serve.
LEMMA CallDone ==
    ASSUME TreeInv, ~Overlap, ~StopUnheld, NEW c \in Clocks, NEW t \in States,
           SetState(c, t)
    PROVE  TreeInv'
    <1>1. /\ want[c] = None /\ ~clk[c].waits
          /\ t = "STOPPED" => holds[c] > 0
          /\ \A i \in DOMAIN queue : ~(queue[i].kind = "state" /\ queue[i].to = c)
          /\ want' = [want EXCEPT ![c] = t]
          /\ clk' = [clk EXCEPT ![c].initiator = TRUE]
          /\ queue' = queue \o Send(c, Client, t, "success")
          /\ asks > 0 /\ asks' = asks - 1
          /\ UNCHANGED <<running, rate, input, holds, missed, sets>>
        BY DEF SetState
    <1>2. queue \in Seq(Events) /\ InOrder(queue) /\ asks \in Nat
        BY DEF TreeInv, Typed
    <1>3. ~clk[c].initiator /\ ~Responded(c) /\ ~Called(c)
        BY <1>1 DEF TreeInv, Clients
    <1>4. /\ Known(Call(c, t)) /\ Call(c, t).kind # "rate" /\ Call(c, t) \in Events
        BY AllKnown, KnownEvents
    <1>5. \A x \in Messages : Precedes(x, Call(c, t))
        <2> SUFFICES ASSUME NEW x \in Messages PROVE Precedes(x, Call(c, t))
            OBVIOUS
        <2>1. x \notin CallsOf(c) \cup ResponsesOf(c)
            BY <1>3 DEF Called, Responded, CallsOf, ResponsesOf
        <2>2. PICK i \in DOMAIN queue : x = queue[i]
            BY <1>2, SeqBasics DEF Messages, MessagesOf
        <2>3. ~(x.kind = "state" /\ x.to = c)
            BY <1>1, <2>2
        <2>4. "success" \in Statuses
            BY DEF Statuses
        <2> QED BY <2>1, <2>3, <2>4, Orderly
    <1>6. queue' = Append(queue, Call(c, t))
        BY <1>1, <1>2, <1>4, AppendIsConcat DEF Send, Call
    <1>7. /\ queue' \in Seq(Events) /\ InOrder(queue')
          /\ MessagesOf(queue') = MessagesOf(queue) \cup {Call(c, t)}
        BY <1>2, <1>4, <1>5, <1>6, MessageSent DEF Messages
    <1>8. Messages' = Messages \cup {Call(c, t)}
        BY <1>7 DEF Messages
    <1>9. Calling(c, t)
        <2>1. Kept
            BY <1>8, Distinct DEF Kept
        <2>2. \A b \in Clocks, u \in States :
                  Call(b, u) \in Messages' <=> (b = c /\ u = t) \/ Call(b, u) \in Messages
            BY <1>8, Distinct
        <2>3. \A b \in Clocks, u \in States, s \in Statuses :
                  Response(b, u, s) \in Messages' <=> Response(b, u, s) \in Messages
            BY <1>8, Distinct
        <2> QED BY <1>1, <2>1, <2>2, <2>3 DEF Calling
    <1>10. /\ clk' \in [Clocks -> Context] /\ want' \in [Clocks -> States \cup {None}]
           /\ Waiting' /\ Clients' /\ Refs'
        BY <1>1, <1>9, ClientCalls
    <1>11. \A e \in Messages' : Known(e)
        BY <1>4, <1>8 DEF TreeInv
    <1> QED BY <1>1, <1>2, <1>7, <1>10, <1>11 DEF TreeInv, Typed

\* What is said of rates concerns no state.
LEMMA RatesApart ==
    ASSUME TreeInv, UNCHANGED <<clk, running, want, holds, missed>>,
           queue' \in Seq(Events), InOrder(queue'), Messages' = Messages,
           rate' \in [Clocks -> Rates], input' \in [Clocks -> Rates],
           asks' \in Nat, sets' \in Nat
    PROVE  TreeInv'
    <1>1. Typed'
        BY DEF TreeInv, Typed
    <1>2. Waiting'
        BY DEF TreeInv, Waiting, Asking, Replied, Above, Giving
    <1>3. Clients'
        BY DEF TreeInv, Clients, Called, Responded
    <1>4. Refs'
        <2>1. \A d \in Clocks : Counts(d)' <=> Counts(d)
            BY DEF Counts, Giving
        <2>2. \A c \in Clocks : Counted(c)' = Counted(c)
            BY <2>1 DEF Counted, Children
        <2>3. \A c \in Clocks : ClientRefs(c)' = ClientRefs(c)
            BY DEF ClientRefs
        <2> QED BY <2>2, <2>3 DEF TreeInv, Refs
    <1> QED BY <1>1, <1>2, <1>3, <1>4 DEF TreeInv

\* Events about rates are sent.
LEMMA RatesSent ==
    ASSUME NEW q \in Seq(Events), NEW s \in Seq(Events),
           \A i \in DOMAIN s : s[i].kind = "rate"
    PROVE  /\ q \o s \in Seq(Events)
           /\ MessagesOf(q \o s) = MessagesOf(q)
           /\ InOrder(q) => InOrder(q \o s)
    <1> DEFINE z == q \o s
    <1>1. /\ Len(q) \in Nat /\ Len(s) \in Nat /\ z \in Seq(Events)
          /\ DOMAIN q = 1 .. Len(q) /\ DOMAIN s = 1 .. Len(s)
          /\ DOMAIN z = 1 .. Len(q) + Len(s)
          /\ \A i \in 1 .. Len(q) + Len(s) :
                z[i] = IF i <= Len(q) THEN q[i] ELSE s[i - Len(q)]
        BY LenProperties, ConcatProperties
    <1>2. Range(z) = {z[i] : i \in 1 .. Len(q) + Len(s)} /\ Range(q) = {q[i] : i \in 1 .. Len(q)}
        BY <1>1 DEF Range
    <1> HIDE DEF z
    <1>3. \A i \in DOMAIN z : z[i].kind # "rate" => i \in DOMAIN q /\ z[i] = q[i]
        <2> SUFFICES ASSUME NEW i \in DOMAIN z, z[i].kind # "rate"
                     PROVE  i \in DOMAIN q /\ z[i] = q[i]
            OBVIOUS
        <2>1. CASE i <= Len(q)
            BY <1>1, <2>1
        <2>2. CASE i > Len(q)
            <3>1. i - Len(q) \in DOMAIN s /\ z[i] = s[i - Len(q)]
                BY <1>1, <2>2
            <3> QED BY <3>1
        <2> QED BY <1>1, <2>1, <2>2
    <1>4. MessagesOf(z) = MessagesOf(q)
        <2>1. \A x \in MessagesOf(z) : x \in MessagesOf(q)
            BY <1>1, <1>2, <1>3 DEF MessagesOf
        <2>2. \A i \in 1 .. Len(q) : i \in 1 .. Len(q) + Len(s) /\ z[i] = q[i]
            BY <1>1
        <2>3. \A x \in MessagesOf(q) : x \in MessagesOf(z)
            BY <1>2, <2>2 DEF MessagesOf
        <2> QED BY <2>1, <2>3
    <1>5. InOrder(q) => InOrder(z)
        BY <1>3 DEF InOrder
    <1> QED BY <1>1, <1>4, <1>5 DEF z

\* The events clocks get about rates.
LEMMA RateEvents ==
    /\ \A e \in Events : e.kind = "rate" =>
           \E c \in Clocks, r \in Rates : e = RateEvent(c, r)
    /\ \A c \in Clocks, r \in Rates :
           /\ RateEvent(c, r) \in Events
           /\ RateEvent(c, r).kind = "rate" /\ RateEvent(c, r).to = c
           /\ RateEvent(c, r).rate = r
    <1>1. \A e \in Events : e.kind = "rate" =>
              \E c \in Clocks, r \in Rates : e = RateEvent(c, r)
        BY DEF Events, RateEvent
    <1>2. \A c \in Clocks, r \in Rates :
              /\ RateEvent(c, r) \in Events
              /\ RateEvent(c, r).kind = "rate" /\ RateEvent(c, r).to = c
              /\ RateEvent(c, r).rate = r
        BY DEF Events, RateEvent
    <1> QED BY <1>1, <1>2

\* What the clocks "kin" are to tell, having made the rates "out" of theirs.
ToTell(kin, order, out) ==
    [i \in 1 .. Cardinality(kin) |-> RateEvent(order[i], out[order[i]])]

ToldBy(kin, out) ==
    \E s \in Seq(Events), order \in Orders(kin) :
        /\ s = ToTell(kin, order, out)
        /\ Len(s) = Cardinality(kin) /\ DOMAIN s = 1 .. Cardinality(kin)
        /\ \A i \in DOMAIN s : s[i].kind = "rate"
        /\ queue' = Tail(queue) \o s

\* Clock c tells its children "kin" of rate r.
LEMMA ToldTypes ==
    ASSUME rate \in [Clocks -> Rates], input \in [Clocks -> Rates], queue \in Seq(Events),
           queue # <<>>, NEW c \in Clocks, NEW kin \in SUBSET Children(c), NEW r \in Rates,
           NEW out \in [Children(c) -> Rates], Tell(kin, r, out)
    PROVE  /\ rate' \in [Clocks -> Rates] /\ input' \in [Clocks -> Rates]
           /\ ToldBy(kin, out)
    <1>1. kin \subseteq Clocks /\ IsFiniteSet(kin) /\ Cardinality(kin) \in Nat
        <2>1. kin \subseteq Clocks
            BY DEF Children
        <2> QED BY <2>1, ConstantFacts, FS_Subset, FS_CardinalityType
    <1>2. rate' \in [Clocks -> Rates] /\ input' \in [Clocks -> Rates]
        BY DEF Tell
    <1>3. PICK order \in Orders(kin) :
              Serve([i \in 1 .. Cardinality(kin) |-> RateEvent(order[i], out[order[i]])])
        BY DEF Tell
    <1> DEFINE s == ToTell(kin, order, out)
    <1>4. \A i \in 1 .. Cardinality(kin) : order[i] \in Clocks /\ out[order[i]] \in Rates
        BY <1>1 DEF Orders
    <1>5. \A i \in 1 .. Cardinality(kin) : s[i] \in Events /\ s[i].kind = "rate"
        BY <1>4, RateEvents DEF ToTell
    <1>6. s \in Seq(Events) /\ Len(s) = Cardinality(kin) /\ DOMAIN s = 1 .. Cardinality(kin)
        BY <1>1, <1>5, IsASeq, LenProperties DEF ToTell
    <1>7. queue' = Tail(queue) \o s
        BY <1>3 DEF Serve, ToTell
    <1> HIDE DEF s
    <1>8. s = ToTell(kin, order, out)
        BY DEF s
    <1> QED BY <1>8, <1>2, <1>5, <1>6, <1>7 DEF ToldBy

-----------------------------------------------------------------------------
(* Every action keeps the invariant.                                       *)

LEMMA OneMoreKeeps ==
    ASSUME TreeInv, NotWrapped, NEW c \in Clocks, OneMore(c), UNCHANGED missed
    PROVE  TreeInv'
    <1>1. /\ IsState(c, "RUNNING") /\ ~clk[c].waits /\ c \in running
          /\ Serve(Answer(c, event.from, "RUNNING", event.status))
          /\ Complete(c, event.from, clk[c].ref + 1)
          /\ running' = running \cup {c}
          /\ queue # <<>> /\ event.kind # "rate"
          /\ UNCHANGED <<rate, input, want, holds, missed, asks, sets>>
        BY DEF OneMore, IsState
    <1>2. PICK w \in Users(c) :
             /\ event = RequestOf(c, w) /\ event.from = w /\ event.status = "success"
             /\ clk[c].initiator <=> w = Client
             /\ w = Client => want[c] = "RUNNING"
        BY <1>1, RunRequested
    <1>3. "success" \in Statuses /\ FALSE \in BOOLEAN
        BY DEF Statuses
    <1>4. Serve(<<Result(c, w, "success")>>)
        BY <1>1, <1>2, <1>3, AnswerSent
    <1> QED BY <1>1, <1>2, <1>3, <1>4, RunDone

LEMMA RootStartsKeeps ==
    ASSUME TreeInv, NotWrapped, NEW c \in Clocks, RootStarts(c), UNCHANGED missed
    PROVE  TreeInv'
    <1>1. /\ IsState(c, "RUNNING") /\ ~clk[c].waits /\ c \notin Below
          /\ queue # <<>> /\ event.kind # "rate"
          /\ UNCHANGED <<rate, input, want, holds, missed, asks, sets>>
        BY DEF RootStarts, IsState, Below
    <1>2. PICK r \in Statuses :
             /\ Serve(Answer(c, event.from, "RUNNING", r))
             /\ Complete(c, event.from, clk[c].ref + IF r = "success" THEN 1 ELSE 0)
             /\ running' = IF r = "success" THEN running \cup {c} ELSE running
        <2>1. PICK r \in Outcomes("start") :
                 /\ Serve(Answer(c, event.from, "RUNNING", r))
                 /\ IF r = "success"
                    THEN Complete(c, event.from, clk[c].ref + 1) /\ running' = running \cup {c}
                    ELSE Complete(c, event.from, clk[c].ref) /\ UNCHANGED running
            BY DEF RootStarts
        <2>2. r \in Statuses /\ clk[c].ref + 0 = clk[c].ref
            BY CountType DEF Outcomes, Statuses
        <2> QED BY <2>1, <2>2
    <1>3. PICK w \in Users(c) :
             /\ event = RequestOf(c, w) /\ event.from = w
             /\ clk[c].initiator <=> w = Client
             /\ w = Client => want[c] = "RUNNING"
        BY <1>1, RunRequested
    <1>4. Serve(<<Result(c, w, r)>>)
        BY <1>2, <1>3, AnswerSent
    <1> QED BY <1>1, <1>2, <1>3, <1>4, RunDone

LEMMA AskParentKeeps ==
    ASSUME TreeInv, NEW c \in Clocks, AskParent(c), UNCHANGED missed
    PROVE  TreeInv'
    <1>1. /\ IsState(c, "RUNNING") /\ ~clk[c].waits /\ c \in Below /\ c \notin running
          /\ queue # <<>> /\ event.kind # "rate"
          /\ Serve(Send(Parent[c], c, "RUNNING", event.status))
          /\ clk' = [clk EXCEPT ![c].caller = event.from, ![c].waits = TRUE]
          /\ UNCHANGED <<running, rate, input, want, holds, missed, asks, sets>>
        BY DEF AskParent, IsState, Below
    <1>2. PICK w \in Users(c) :
             /\ event = RequestOf(c, w) /\ event.from = w /\ event.status = "success"
             /\ clk[c].initiator <=> w = Client
             /\ w = Client => want[c] = "RUNNING"
        BY <1>1, RunRequested
    <1>3. Serve(<<Ask(c)>>)
        <2>1. "success" \in Statuses
            BY DEF Statuses
        <2> QED BY <1>1, <1>2, <2>1, ParentSent
    <1> QED BY <1>1, <1>2, <1>3, AskDone

LEMMA OneLessKeeps ==
    ASSUME TreeInv, NEW c \in Clocks, OneLess(c), UNCHANGED missed
    PROVE  TreeInv'
    <1>1. /\ IsState(c, "STOPPED") /\ ~clk[c].waits /\ clk[c].ref # 1
          /\ queue # <<>> /\ event.kind # "rate"
          /\ Serve(Answer(c, event.from, "STOPPED", event.status))
          /\ Complete(c, event.from, clk[c].ref - 1)
          /\ UNCHANGED <<running, rate, input, want, holds, missed, asks, sets>>
        BY DEF OneLess, IsState
    <1>2. PICK w \in Users(c), v \in Statuses :
             /\ event = Release(c, w, v) /\ event.from = w
             /\ clk[c].initiator <=> w = Client
             /\ w = Client => want[c] = "STOPPED" /\ event.status = "success"
        BY <1>1, ReleaseRequested
    <1>3. "success" \in Statuses /\ FALSE \in BOOLEAN
        BY DEF Statuses
    <1> DEFINE answer == IF w = Client THEN <<Response(c, "STOPPED", "success")>> ELSE <<>>
    <1>4. answer \in Seq(Events) /\ answer \o <<>> = answer
        <2>1. Response(c, "STOPPED", "success") \in Events
            BY <1>3, KnownEvents DEF States
        <2>2. answer \in Seq(Events)
            BY <2>1
        <2> QED BY <2>2, ConcatEmptySeq
    <1>5. Serve(answer)
        <2>1. event.status \in Statuses
            <3>1. CASE w = Client
                BY <1>2, <1>3, <3>1
            <3>2. CASE w # Client
                BY <1>2, <3>2 DEF Release, Give
            <3> QED BY <3>1, <3>2
        <2>2. Answer(c, w, "STOPPED", event.status)
              = IF w = Client THEN <<Response(c, "STOPPED", event.status)>> ELSE <<>>
            BY <1>2, <2>1, AnswerSent
        <2> QED BY <1>1, <1>2, <2>2
    <1>6. Serve((IF w = Client THEN <<Response(c, "STOPPED", "success")>> ELSE <<>>)
                \o IF FALSE /\ c \in Below THEN <<Give(c, "success")>> ELSE <<>>)
        BY <1>4, <1>5
    <1> QED BY <1>1, <1>2, <1>3, <1>6, ReleaseDone

LEMMA LastStopsKeeps ==
    ASSUME TreeInv, "stop" \notin Fails, NEW c \in Clocks, LastStops(c), UNCHANGED missed
    PROVE  TreeInv'
    <1>1. /\ IsState(c, "STOPPED") /\ ~clk[c].waits /\ clk[c].ref = 1
          /\ queue # <<>> /\ event.kind # "rate"
          /\ Serve(Answer(c, event.from, "STOPPED", "success")
                   \o Send(Parent[c], c, "STOPPED", "success"))
          /\ Complete(c, event.from, clk[c].ref - 1)
          /\ running' = running \ {c}
          /\ UNCHANGED <<rate, input, want, holds, missed, asks, sets>>
        <2>1. Outcomes("stop") = {"success"}
            BY DEF Outcomes
        <2>2. clk[c].ref = 1 => clk[c].ref - 1 = 0
            OBVIOUS
        <2> QED BY <2>1, <2>2 DEF LastStops, IsState
    <1>2. PICK w \in Users(c), v \in Statuses :
             /\ event = Release(c, w, v) /\ event.from = w
             /\ clk[c].initiator <=> w = Client
             /\ w = Client => want[c] = "STOPPED"
        BY <1>1, ReleaseRequested
    <1>3. "success" \in Statuses /\ TRUE \in BOOLEAN
        BY DEF Statuses
    <1>4. Serve((IF w = Client THEN <<Response(c, "STOPPED", "success")>> ELSE <<>>)
                \o IF TRUE /\ c \in Below THEN <<Give(c, "success")>> ELSE <<>>)
        BY <1>1, <1>2, <1>3, AnswerSent, ParentSent
    <1> QED BY <1>1, <1>2, <1>3, <1>4, ReleaseDone

LEMMA ReadFailsKeeps ==
    ASSUME TreeInv, NotWrapped, NEW c \in Clocks, ReadFails(c)
    PROVE  TreeInv'
    <1>1. PICK t \in States :
             /\ IsState(c, t) /\ ~clk[c].waits
             /\ Serve(Answer(c, event.from, t, "device"))
             /\ Complete(c, event.from, clk[c].ref)
             /\ missed' = IF t = "STOPPED" /\ event.from # Client
                          THEN [missed EXCEPT ![c] = @ + 1] ELSE missed
             /\ UNCHANGED running
        BY DEF ReadFails
    <1>2. /\ queue # <<>> /\ event.kind # "rate"
          /\ UNCHANGED <<rate, input, want, holds, asks, sets>>
        BY <1>1 DEF IsState
    <1>3. /\ "device" \in Statuses /\ "device" # "success" /\ FALSE \in BOOLEAN
          /\ clk[c].ref + 0 = clk[c].ref /\ clk[c].ref - 0 = clk[c].ref
        BY CountType DEF Statuses
    <1>4. CASE t = "RUNNING"
        <2>1. PICK w \in Users(c) :
                 /\ event = RequestOf(c, w) /\ event.from = w
                 /\ clk[c].initiator <=> w = Client
                 /\ w = Client => want[c] = "RUNNING"
            BY <1>1, <1>4, RunRequested
        <2>2. Serve(<<Result(c, w, "device")>>)
            BY <1>1, <1>3, <1>4, <2>1, AnswerSent
        <2>3. UNCHANGED missed
            BY <1>1, <1>4
        <2>4. Complete(c, w, clk[c].ref + IF "device" = "success" THEN 1 ELSE 0)
            BY <1>1, <1>3, <2>1
        <2> QED BY <1>1, <1>2, <1>3, <2>1, <2>2, <2>3, <2>4, RunDone
    <1>5. CASE t = "STOPPED"
        <2>1. PICK w \in Users(c), v \in Statuses :
                 /\ event = Release(c, w, v) /\ event.from = w
                 /\ clk[c].initiator <=> w = Client
                 /\ w = Client => want[c] = "STOPPED"
            BY <1>1, <1>5, ReleaseRequested
        <2> DEFINE answer == IF w = Client THEN <<Response(c, "STOPPED", "device")>> ELSE <<>>
        <2>2. answer \in Seq(Events) /\ answer \o <<>> = answer
            <3>1. Response(c, "STOPPED", "device") \in Events
                BY <1>3, KnownEvents DEF States
            <3>2. answer \in Seq(Events)
                BY <3>1
            <3> QED BY <3>2, ConcatEmptySeq
        <2>3. Serve(answer)
            BY <1>1, <1>3, <1>5, <2>1, AnswerSent
        <2>4. Serve((IF w = Client THEN <<Response(c, "STOPPED", "device")>> ELSE <<>>)
                    \o IF FALSE /\ c \in Below THEN <<Give(c, "success")>> ELSE <<>>)
            BY <2>2, <2>3
        <2>5. Complete(c, w, clk[c].ref - IF "device" = "success" THEN 1 ELSE 0)
            BY <1>1, <1>3, <2>1
        <2>6. missed' = IF "device" # "success" /\ w # Client
                        THEN [missed EXCEPT ![c] = @ + 1] ELSE missed
            BY <1>1, <1>5, <2>1
        <2> QED BY <1>1, <1>2, <1>3, <2>1, <2>4, <2>5, <2>6, ReleaseDone
    <1> QED BY <1>4, <1>5 DEF States

LEMMA TurnAwayKeeps ==
    ASSUME TreeInv, NEW c \in Clocks, TurnAway(c), UNCHANGED missed
    PROVE  TreeInv'
    <1>1. PICK t \in States :
             /\ IsState(c, t) /\ clk[c].waits /\ event.from # Parent[c]
             /\ Serve(Send(event.from, c, t, "busy"))
             /\ UNCHANGED <<clk, running>>
        BY DEF TurnAway
    <1>2. /\ queue # <<>> /\ event.kind # "rate"
          /\ UNCHANGED <<rate, input, want, holds, asks, sets>>
        BY <1>1 DEF IsState
    <1>3. PICK d \in Children(c) : event = Ask(d) /\ event.from = d
        BY <1>1, WhileWaiting
    <1>4. t = "RUNNING" /\ d \in Below /\ d \in Clocks /\ Parent[d] = c
        BY <1>1, <1>3, WhileWaiting, ConstantFacts
    <1>5. Serve(<<Reply(d, "busy")>>)
        BY <1>1, <1>3, <1>4 DEF Send, Reply
    <1> QED BY <1>1, <1>2, <1>3, <1>4, <1>5, TurnAwayDone

\* What a clock's parent answers, and for whom it had been asked.
LEMMA ParentAnswers ==
    ASSUME TreeInv, NEW c \in Clocks, FromParent(c)
    PROVE  /\ c \in Below /\ clk[c].waits
           /\ event = Reply(c, event.status) /\ event.status \in Statuses
           /\ event.target = "RUNNING"
           /\ clk[c].caller \in Users(c)
           /\ clk[c].initiator <=> clk[c].caller = Client
           /\ clk[c].caller = Client => want[c] = "RUNNING"
           /\ queue # <<>> /\ event.kind # "rate"
           /\ UNCHANGED <<rate, input, want, holds, asks, sets>>
    <1>1. PICK t \in States : IsState(c, t)
        BY DEF FromParent
    <1>2. clk[c].waits /\ event.from = Parent[c]
        BY DEF FromParent
    <1>3. /\ t = "RUNNING" /\ c \in Below
          /\ event = Reply(c, event.status) /\ event.status \in Statuses
        BY <1>1, <1>2, WhileWaiting
    <1>4. /\ event.target = "RUNNING" /\ queue # <<>> /\ event.kind # "rate"
          /\ UNCHANGED <<rate, input, want, holds, asks, sets>>
        BY <1>1, <1>3 DEF IsState
    <1>5. /\ clk[c].caller \in Users(c)
          /\ clk[c].initiator <=> clk[c].caller = Client
          /\ clk[c].caller = Client => want[c] = "RUNNING"
        <2>1. IF clk[c].initiator THEN clk[c].caller = Client
                                  ELSE clk[c].caller \in Children(c)
            BY <1>2 DEF TreeInv, Clients
        <2>2. Client \notin Children(c)
            BY ConstantFacts
        <2>3. clk[c].initiator => want[c] = "RUNNING"
            BY <1>2 DEF TreeInv, Clients
        <2> QED BY <2>1, <2>2, <2>3 DEF Users
    <1> QED BY <1>2, <1>3, <1>4, <1>5

LEMMA ParentRunsKeeps ==
    ASSUME TreeInv, NotWrapped, NEW c \in Clocks, ParentRuns(c), UNCHANGED missed
    PROVE  TreeInv'
    <1> DEFINE w == clk[c].caller
    <1>1. FromParent(c) /\ event.status = "success"
        BY DEF ParentRuns
    <1>2. /\ c \in Below /\ clk[c].waits /\ event = Reply(c, "success")
          /\ w \in Users(c) /\ (clk[c].initiator <=> w = Client)
          /\ w = Client => want[c] = "RUNNING"
          /\ queue # <<>> /\ event.kind # "rate"
          /\ UNCHANGED <<rate, input, want, holds, asks, sets>>
        BY <1>1, ParentAnswers
    <1>3. /\ "success" \in Statuses /\ "device" \in Statuses /\ "device" # "success"
          /\ TRUE \in BOOLEAN /\ FALSE \in BOOLEAN
          /\ clk[c].ref + 0 = clk[c].ref
        BY CountType DEF Statuses
    <1> HIDE DEF w
    <1>4. CASE /\ Serve(Answer(c, w, "RUNNING", "success"))
               /\ Complete(c, w, clk[c].ref + 1)
               /\ running' = running \cup {c}
        <2>1. Serve(<<Result(c, w, "success")>>)
            BY <1>2, <1>3, <1>4, AnswerSent
        <2> QED BY <1>2, <1>3, <1>4, <2>1, RunDone DEF w
    <1>5. CASE /\ Serve(Send(Parent[c], c, "STOPPED", "device")
                        \o Answer(c, w, "RUNNING", "device"))
               /\ Complete(c, w, clk[c].ref)
               /\ UNCHANGED running
        <2>1. Serve(<<Give(c, "device")>> \o <<Result(c, w, "device")>>)
            BY <1>2, <1>3, <1>5, AnswerSent, ParentSent
        <2>2. Complete(c, w, clk[c].ref + IF "device" = "success" THEN 1 ELSE 0)
            BY <1>3, <1>5
        <2> QED BY <1>2, <1>3, <1>5, <2>1, <2>2, RunDone DEF w
    <1> QED BY <1>4, <1>5 DEF ParentRuns, w

LEMMA ParentFailsKeeps ==
    ASSUME TreeInv, NotWrapped, NEW c \in Clocks, ParentFails(c), UNCHANGED missed
    PROVE  TreeInv'
    <1> DEFINE w == clk[c].caller
               r == event.status
    <1>1. /\ FromParent(c) /\ r # "success"
          /\ Serve(Answer(c, w, event.target, r))
          /\ Complete(c, w, clk[c].ref)
          /\ UNCHANGED running
        BY DEF ParentFails
    <1>2. /\ c \in Below /\ clk[c].waits /\ event = Reply(c, r) /\ r \in Statuses
          /\ event.target = "RUNNING"
          /\ w \in Users(c) /\ (clk[c].initiator <=> w = Client)
          /\ w = Client => want[c] = "RUNNING"
          /\ queue # <<>> /\ event.kind # "rate"
          /\ UNCHANGED <<rate, input, want, holds, asks, sets>>
        BY <1>1, ParentAnswers
    <1>3. FALSE \in BOOLEAN /\ clk[c].ref + 0 = clk[c].ref
        BY CountType
    <1>4. clk[c].waits /\ clk[c].caller = w
        BY <1>2
    <1> HIDE DEF w, r
    <1>5. Serve(<<Result(c, w, r)>>)
        BY <1>1, <1>2, AnswerSent
    <1>6. Complete(c, w, clk[c].ref + IF r = "success" THEN 1 ELSE 0)
        BY <1>1, <1>3
    <1>7. running' = IF r = "success" THEN running \cup {c} ELSE running
        BY <1>1
    <1> QED BY <1>1, <1>2, <1>3, <1>4, <1>5, <1>6, <1>7, RunDone

LEMMA SetRateKeeps ==
    ASSUME TreeInv, NEW c \in Clocks, NEW r \in Rates, SetRate(c, r)
    PROVE  TreeInv'
    <1>1. /\ queue \in Seq(Events) /\ InOrder(queue) /\ sets \in Nat /\ asks \in Nat
          /\ rate \in [Clocks -> Rates] /\ input \in [Clocks -> Rates]
        BY DEF TreeInv, Typed
    <1>2. /\ sets > 0 /\ sets' = sets - 1
          /\ queue' = Append(queue, RateEvent(c, r))
          /\ UNCHANGED <<clk, running, input, want, holds, missed, asks>>
        BY DEF SetRate
    <1>3. rate' \in [Clocks -> Rates]
        BY <1>1 DEF SetRate
    <1>4. RateEvent(c, r) \in Events /\ RateEvent(c, r).kind = "rate"
        BY RateEvents
    <1>5. queue' \in Seq(Events) /\ InOrder(queue') /\ MessagesOf(queue') = MessagesOf(queue)
        BY <1>1, <1>2, <1>4, MessageSent, ZenonT(30)
    <1>6. Messages' = Messages
        BY <1>5 DEF Messages
    <1> QED BY <1>1, <1>2, <1>3, <1>5, <1>6, RatesApart

LEMMA TellChildrenKeeps ==
    ASSUME TreeInv, NEW c \in Clocks, TellChildren(c)
    PROVE  TreeInv'
    <1>1. /\ queue \in Seq(Events) /\ InOrder(queue) /\ sets \in Nat /\ asks \in Nat
          /\ rate \in [Clocks -> Rates] /\ input \in [Clocks -> Rates]
        BY DEF TreeInv, Typed
    <1>2. /\ queue # <<>> /\ event.kind = "rate"
          /\ UNCHANGED <<clk, running, want, holds, missed, asks, sets>>
        BY DEF TellChildren
    <1>3. event.rate \in Rates
        <2>1. event \in Events
            BY <1>1, <1>2, TailFacts DEF event
        <2> QED BY <1>2, <2>1, RateEvents, SMTT(30)
    <1>4. PICK kin \in SUBSET Children(c), out \in [Children(c) -> Rates] :
              Tell(kin, event.rate, out)
        BY DEF TellChildren
    <1>5. /\ rate' \in [Clocks -> Rates] /\ input' \in [Clocks -> Rates]
          /\ ToldBy(kin, out)
        BY <1>1, <1>2, <1>3, <1>4, ToldTypes
    <1>6. PICK s \in Seq(Events) : /\ \A i \in DOMAIN s : s[i].kind = "rate"
                                   /\ queue' = Tail(queue) \o s
        BY <1>5 DEF ToldBy
    <1>7. /\ Tail(queue) \in Seq(Events) /\ InOrder(Tail(queue))
          /\ MessagesOf(Tail(queue)) = MessagesOf(queue)
        BY <1>1, <1>2, MessageServed DEF event
    <1>8. queue' \in Seq(Events) /\ InOrder(queue') /\ MessagesOf(queue') = MessagesOf(queue)
        BY <1>6, <1>7, RatesSent
    <1>9. Messages' = Messages
        BY <1>8 DEF Messages
    <1> QED BY <1>1, <1>2, <1>5, <1>8, <1>9, RatesApart

LEMMA StutterKeeps ==
    ASSUME TreeInv, UNCHANGED vars
    PROVE  TreeInv'
    <1>1. /\ UNCHANGED <<clk, running, queue, rate, input, want, holds, missed, asks, sets>>
        BY DEF vars
    <1>2. Messages' = Messages /\ InOrder(queue')
        BY <1>1 DEF Messages, TreeInv
    <1>3. /\ queue' \in Seq(Events) /\ rate' \in [Clocks -> Rates]
          /\ input' \in [Clocks -> Rates] /\ asks' \in Nat /\ sets' \in Nat
        BY <1>1 DEF TreeInv, Typed
    <1> QED BY <1>1, <1>2, <1>3, RatesApart

\* The clocks that run when the module starts are closed upwards, and counted.
LEMMA InitTree ==
    ASSUME Init, NotWrapped
    PROVE  TreeInv
    <1>1. /\ running \subseteq Clocks /\ queue = <<>>
          /\ \A d \in Below : d \in running => Parent[d] \in running
          /\ \A c \in Clocks :
                /\ clk[c].ref = Cardinality(Children(c) \cap running)
                /\ clk[c].waits = FALSE /\ clk[c].caller = None /\ clk[c].initiator = FALSE
                /\ want[c] = None /\ holds[c] = 0 /\ missed[c] = 0
        <2>1. running \in BootStates
            BY DEF Init
        <2>2. \A d \in running : Parent[d] \in running \cup {None}
            BY <2>1, ClockTreeAssumption
        <2>3. running \subseteq Clocks
            BY <2>1, ClockTreeAssumption
        <2>4. \A d \in Below : d \in running => Parent[d] \in running
            BY <2>2, ConstantFacts DEF Below
        <2>5. \A c \in Clocks :
                /\ clk[c].ref = Cardinality(Children(c) \cap running)
                /\ clk[c].waits = FALSE /\ clk[c].caller = None /\ clk[c].initiator = FALSE
            BY DEF Init
        <2>6. \A c \in Clocks : want[c] = None /\ holds[c] = 0 /\ missed[c] = 0
            BY DEF Init
        <2> QED BY <2>3, <2>4, <2>5, <2>6 DEF Init
    <1>2. \A c \in Clocks : /\ IsFiniteSet(Children(c) \cap running)
                            /\ Cardinality(Children(c) \cap running) \in Nat
        <2>1. \A c \in Clocks : Children(c) \cap running \subseteq Clocks
            BY DEF Children
        <2> QED BY <2>1, ConstantFacts, FS_Subset, FS_CardinalityType
    <1>3. clk \in [Clocks -> Context]
        <2>1. ASSUME NEW c \in Clocks
              PROVE  Cardinality(Children(c) \cap running) \in 0 .. Width - 1
            <3> DEFINE n == Cardinality(Children(c) \cap running)
            <3>1. n \in Nat /\ n < Width - 1 /\ Width \in Nat
                BY <1>1, <1>2, ConstantFacts DEF NotWrapped
            <3> HIDE DEF n
            <3>2. n \in 0 .. Width - 1
                BY <3>1
            <3> QED BY <3>2 DEF n
        <2> QED BY <2>1 DEF Init, Context
    <1>4. Typed
        <2>1. rate \in [Clocks -> Rates] /\ input \in [Clocks -> Rates]
            BY DEF Init
        <2>2. asks \in Nat /\ sets \in Nat
            <3>1. PICK plan \in Plans : asks = plan[1] /\ sets = plan[2]
                BY DEF Init
            <3>2. plan \in Nat \X Nat
                BY <3>1, ClockTreeAssumption
            <3> QED BY <3>1, <3>2
        <2>3. queue \in Seq(Events)
            BY <1>1
        <2>4. /\ want \in [Clocks -> States \cup {None}]
              /\ holds \in [Clocks -> Nat] /\ missed \in [Clocks -> Nat]
            BY DEF Init
        <2> QED BY <1>1, <1>3, <2>1, <2>2, <2>3, <2>4 DEF Typed
    <1>5. Messages = {} /\ InOrder(queue)
        <2>1. queue = <<>> /\ queue \in Seq(Events)
            BY <1>1, <1>4 DEF Typed
        <2>2. Range(queue) = {} /\ DOMAIN queue = 1 .. Len(queue) /\ Len(queue) = 0
            BY <2>1, SeqBasics
        <2>3. DOMAIN queue = {}
            BY <2>2
        <2> QED BY <2>2, <2>3 DEF Messages, MessagesOf, InOrder
    <1>6. /\ \A d \in Below : ~Asking(d) /\ ~Replied(d) /\ ~Giving(d) /\ ~Above(d)
          /\ \A c \in Clocks : ~Called(c) /\ ~Responded(c)
        <2>1. \A d \in Below : Parent[d] \in Clocks
            BY ConstantFacts
        <2> QED BY <1>1, <1>5, <2>1 DEF Asking, Replied, Giving, Above, Called, Responded
    <1>7. Waiting
        BY <1>1, <1>6 DEF Waiting, Below
    <1>8. Clients
        <2>1. None # "STOPPED"
            BY ConstantFacts
        <2> QED BY <1>1, <1>5, <1>6, <2>1 DEF Clients
    <1>9. Refs
        <2> SUFFICES ASSUME NEW c \in Clocks
                     PROVE  /\ clk[c].ref = Cardinality(Counted(c)) + ClientRefs(c) + missed[c]
                            /\ clk[c].ref > 0 => c \in running
            BY DEF Refs
        <2>1. Counted(c) = Children(c) \cap running
            <3>1. \A d \in Children(c) : Counts(d) <=> d \in running
                BY <1>5, <1>6, ConstantFacts DEF Counts
            <3> QED BY <3>1 DEF Counted
        <2>2. ClientRefs(c) = 0 /\ missed[c] = 0
            <3>1. Response(c, "RUNNING", "success") \notin Messages
                  /\ Response(c, "STOPPED", "success") \notin Messages
                BY <1>5
            <3>2. holds[c] = 0 /\ missed[c] = 0
                BY <1>1
            <3> QED BY <3>1, <3>2 DEF ClientRefs
        <2>3. clk[c].ref = Cardinality(Counted(c)) /\ Cardinality(Counted(c)) \in Nat
            BY <1>1, <1>2, <2>1
        <2>4. ASSUME clk[c].ref > 0 PROVE c \in running
            <3>1. Children(c) \cap running # {}
                BY <1>2, <2>1, <2>3, <2>4, FS_EmptySet
            <3> QED BY <1>1, <3>1, ConstantFacts
        <2> QED BY <2>2, <2>3, <2>4
    <1> QED BY <1>4, <1>5, <1>7, <1>8, <1>9 DEF TreeInv

\* Clients call one at a time and stop what they have started, and drivers stop
\* clocks when they are told to.
WellUsed == ~Overlap /\ ~StopUnheld /\ "stop" \notin Fails

LEMMA TreeKept ==
    ASSUME TreeInv, NotWrapped, WellUsed, [Next]_vars
    PROVE  TreeInv'
    <1>1. ~Overlap /\ ~StopUnheld /\ "stop" \notin Fails
        BY DEF WellUsed
    <1>2. CASE \E c \in Clocks, s \in States : SetState(c, s)
        BY <1>1, <1>2, CallDone
    <1>3. CASE \E c \in Clocks, r \in Rates : SetRate(c, r)
        BY <1>3, SetRateKeeps
    <1>4. CASE \E c \in Clocks : Process(c)
        <2>1. PICK c \in Clocks : Process(c)
            BY <1>4
        <2>2. CASE ReadFails(c)
            BY <2>2, ReadFailsKeeps
        <2>3. CASE UNCHANGED missed /\ OneMore(c)
            BY <2>3, OneMoreKeeps
        <2>4. CASE UNCHANGED missed /\ RootStarts(c)
            BY <2>4, RootStartsKeeps
        <2>5. CASE UNCHANGED missed /\ AskParent(c)
            BY <2>5, AskParentKeeps
        <2>6. CASE UNCHANGED missed /\ OneLess(c)
            BY <2>6, OneLessKeeps
        <2>7. CASE UNCHANGED missed /\ LastStops(c)
            BY <1>1, <2>7, LastStopsKeeps
        <2>8. CASE UNCHANGED missed /\ TurnAway(c)
            BY <2>8, TurnAwayKeeps
        <2>9. CASE UNCHANGED missed /\ ParentRuns(c)
            BY <2>9, ParentRunsKeeps
        <2>10. CASE UNCHANGED missed /\ ParentFails(c)
            BY <2>10, ParentFailsKeeps
        <2>11. CASE Respond(c)
            BY <2>11, RespondDone
        <2>12. CASE TellChildren(c)
            BY <2>12, TellChildrenKeeps
        <2> QED BY <2>1, <2>2, <2>3, <2>4, <2>5, <2>6, <2>7, <2>8, <2>9, <2>10, <2>11, <2>12
                DEF Process, ProcessState
    <1>5. CASE UNCHANGED vars
        BY <1>5, StutterKeeps
    <1> QED BY <1>2, <1>3, <1>4, <1>5 DEF Next

\* What the invariant says of a clock that is needed.
LEMMA NeededByInv ==
    ASSUME TreeInv
    PROVE  NeededRuns
    <1> SUFFICES ASSUME NEW c \in Clocks,
                        Children(c) \cap running # {} \/ (holds[c] > 0 /\ want[c] # "STOPPED")
                 PROVE  c \in running
        BY DEF NeededRuns
    <1>1. CASE Children(c) \cap running # {}
        BY <1>1, CountType DEF Counts
    <1>2. CASE holds[c] > 0 /\ want[c] # "STOPPED"
        <2>1. "STOPPED" \in States /\ "success" \in Statuses /\ holds[c] \in Nat
            BY DEF States, Statuses, TreeInv, Typed
        <2>2. Response(c, "STOPPED", "success") \notin Messages
            BY <1>2, <2>1 DEF TreeInv, Clients
        <2>3. ClientRefs(c) > 0
            BY <1>2, <2>1, <2>2 DEF ClientRefs
        <2>4. /\ Cardinality(Counted(c)) \in Nat /\ missed[c] \in Nat /\ ClientRefs(c) \in Nat
              /\ clk[c].ref = Cardinality(Counted(c)) + ClientRefs(c) + missed[c]
            BY CountType DEF TreeInv, Refs
        <2> QED BY <2>3, <2>4 DEF TreeInv, Refs
    <1> QED BY <1>1, <1>2

\* A clock that waits has its parent's answer on the way, or its parent waits:
\* nothing waits when there are no events.
LEMMA NobodyWaits ==
    ASSUME TreeInv, Messages = {}, NEW c \in Clocks
    PROVE  ~clk[c].waits /\ ~clk[c].initiator
    <1> DEFINE W == {d \in Clocks : clk[d].waits}
    <1>1. W = {}
        <2> SUFFICES ASSUME W # {} PROVE FALSE
            OBVIOUS
        <2>1. W \subseteq Nat
            BY ConstantFacts
        <2>2. PICK m \in W : \A x \in W : m <= x
            <3> HIDE DEF W
            <3> QED BY <2>1, LeastNat
        <2>3. m \in Below /\ clk[m].waits
            BY <2>2 DEF TreeInv, Waiting
        <2>4. Above(m)
            BY <2>3 DEF TreeInv, Waiting, Asking, Replied
        <2>5. Parent[m] \in W /\ Parent[m] < m /\ m \in Nat /\ Parent[m] \in Nat
            BY <2>3, <2>4, ConstantFacts DEF Above
        <2> QED BY <2>2, <2>5
    <1>2. ~clk[c].waits
        BY <1>1
    <1>3. ~clk[c].initiator
        BY <1>2 DEF TreeInv, Clients, Called
    <1> QED BY <1>2, <1>3

LEMMA RefsByInv ==
    ASSUME TreeInv
    PROVE  RefsAgree
    <1>1. TypeOK
        <2>1. ASSUME NEW c \in Clocks
              PROVE  want[c] # None <=>
                        \/ clk[c].initiator
                        \/ \E i \in DOMAIN queue : queue[i].kind = "response"
                                                   /\ queue[i].to = c
            <3>1. queue \in Seq(Events)
                BY DEF TreeInv, Typed
            <3>2. Range(queue) = {queue[i] : i \in DOMAIN queue}
                BY <3>1, SeqBasics
            <3>3. Responded(c) => \E i \in DOMAIN queue : queue[i].kind = "response"
                                                          /\ queue[i].to = c
                <4> SUFFICES ASSUME NEW t \in States, NEW s \in Statuses,
                                    Response(c, t, s) \in Messages
                             PROVE  \E i \in DOMAIN queue : queue[i].kind = "response"
                                                            /\ queue[i].to = c
                    BY DEF Responded
                <4>1. PICK i \in DOMAIN queue : queue[i] = Response(c, t, s)
                    BY <3>2 DEF Messages, MessagesOf
                <4> QED BY <4>1 DEF Response
            <3>4. ASSUME NEW i \in DOMAIN queue, queue[i].kind = "response", queue[i].to = c
                  PROVE  Responded(c)
                <4>1. queue[i] \in Messages /\ queue[i] \in Events
                    BY <3>1, <3>2, <3>4, SeqBasics DEF Messages, MessagesOf
                <4>2. \E t \in States, s \in Statuses : queue[i] = Response(c, t, s)
                    BY <3>4, <4>1 DEF Events, Response
                <4> QED BY <4>1, <4>2 DEF Responded
            <3> QED BY <3>3, <3>4 DEF TreeInv, Clients
        <2> QED BY <2>1 DEF TreeInv, Typed, TypeOK
    <1>2. ASSUME queue = <<>>, NEW c \in Clocks
          PROVE  /\ clk[c].ref = Cardinality(Children(c) \cap running) + holds[c] + missed[c]
                 /\ ~clk[c].waits /\ ~clk[c].initiator
        <2>1. Messages = {}
            <3>1. Range(queue) = {}
                BY <1>2, SeqBasics DEF TreeInv, Typed
            <3> QED BY <3>1 DEF Messages, MessagesOf
        <2>2. Counted(c) = Children(c) \cap running
            BY <2>1 DEF Counted, Counts, Giving
        <2>3. ClientRefs(c) = holds[c]
            BY <2>1 DEF ClientRefs, TreeInv, Typed
        <2>4. ~clk[c].waits /\ ~clk[c].initiator
            BY <2>1, NobodyWaits
        <2> QED BY <2>2, <2>3, <2>4 DEF TreeInv, Refs
    <1> QED BY <1>1, <1>2 DEF RefsAgree

LEMMA TreeAlways ==
    ASSUME WellUsed
    PROVE  Spec /\ []NotWrapped => []TreeInv
    <1>1. Init /\ NotWrapped => TreeInv
        BY InitTree
    <1>2. TreeInv /\ NotWrapped /\ [Next]_vars => TreeInv'
        BY TreeKept
    <1> QED BY <1>1, <1>2, PTL DEF Spec

-----------------------------------------------------------------------------
(* Rates.                                                                  *)

\* What clock p is yet to tell its children.
IsRate(e, p) == e.kind = "rate" /\ e.to = p
Unsaid(q, p) == \A i \in DOMAIN q : ~IsRate(q[i], p)
LastSaid(q, p, r) ==
    \E i \in DOMAIN q : /\ q[i] = RateEvent(p, r)
                        /\ \A j \in DOMAIN q : j > i => ~IsRate(q[j], p)

RateTyped ==
    /\ queue \in Seq(Events)
    /\ rate \in [Clocks -> Rates] /\ input \in [Clocks -> Rates]

\* A clock has told its rate to all its children, or the last thing it is to
\* tell them is that.
RateInv ==
    /\ RateTyped
    /\ \A p \in Clocks :
          \/ Unsaid(queue, p) /\ \A d \in Children(p) : input[d] = rate[p]
          \/ LastSaid(queue, p, rate[p])

LEMMA SaidServed ==
    ASSUME NEW q \in Seq(Events), q # <<>>, NEW p \in Clocks, NEW r \in Rates
    PROVE  /\ Unsaid(q, p) => Unsaid(Tail(q), p) /\ ~IsRate(Head(q), p)
           /\ LastSaid(q, p, r) => \/ LastSaid(Tail(q), p, r)
                                   \/ Head(q) = RateEvent(p, r) /\ Unsaid(Tail(q), p)
    <1> DEFINE t == Tail(q)
    <1>1. /\ Head(q) = q[1] /\ t \in Seq(Events) /\ Len(q) \in Nat /\ Len(q) >= 1
          /\ DOMAIN q = 1 .. Len(q) /\ DOMAIN t = 1 .. Len(q) - 1
          /\ \A i \in 1 .. Len(q) - 1 : t[i] = q[i + 1]
        BY HeadTailProperties, LenProperties
    <1> HIDE DEF t
    <1>2. \A i \in DOMAIN t : i + 1 \in DOMAIN q /\ t[i] = q[i + 1] /\ i + 1 > 1
        BY <1>1
    <1>3. Unsaid(q, p) => Unsaid(t, p) /\ ~IsRate(Head(q), p)
        BY <1>1, <1>2 DEF Unsaid
    <1>4. ASSUME LastSaid(q, p, r)
          PROVE  LastSaid(t, p, r) \/ (Head(q) = RateEvent(p, r) /\ Unsaid(t, p))
        <2>1. PICK i \in DOMAIN q : /\ q[i] = RateEvent(p, r)
                                    /\ \A j \in DOMAIN q : j > i => ~IsRate(q[j], p)
            BY <1>4 DEF LastSaid
        <2>2. CASE i = 1
            BY <1>1, <1>2, <2>1, <2>2 DEF Unsaid
        <2>3. CASE i # 1
            <3>1. i - 1 \in DOMAIN t /\ t[i - 1] = q[i]
                BY <1>1, <2>3
            <3>2. \A j \in DOMAIN t : j > i - 1 => j + 1 > i
                BY <1>1
            <3>3. \A j \in DOMAIN t : j > i - 1 => ~IsRate(t[j], p)
                BY <1>2, <2>1, <3>2
            <3> QED BY <2>1, <3>1, <3>3 DEF LastSaid
        <2> QED BY <2>2, <2>3
    <1> QED BY <1>3, <1>4 DEF t

LEMMA SaidSent ==
    ASSUME NEW q \in Seq(Events), NEW s \in Seq(Events), NEW p \in Clocks
    PROVE  /\ Unsaid(q, p) /\ Unsaid(s, p) => Unsaid(q \o s, p)
           /\ \A r \in Rates : LastSaid(q, p, r) /\ Unsaid(s, p) => LastSaid(q \o s, p, r)
           /\ \A r \in Rates : LastSaid(s, p, r) => LastSaid(q \o s, p, r)
    <1> DEFINE z == q \o s
    <1>1. /\ Len(q) \in Nat /\ Len(s) \in Nat
          /\ DOMAIN q = 1 .. Len(q) /\ DOMAIN s = 1 .. Len(s)
          /\ DOMAIN z = 1 .. Len(q) + Len(s)
          /\ \A i \in 1 .. Len(q) + Len(s) :
                z[i] = IF i <= Len(q) THEN q[i] ELSE s[i - Len(q)]
        BY LenProperties, ConcatProperties
    <1> HIDE DEF z
    <1>2. \A i \in DOMAIN z : \/ i \in DOMAIN q /\ z[i] = q[i]
                              \/ i - Len(q) \in DOMAIN s /\ z[i] = s[i - Len(q)] /\ i > Len(q)
        BY <1>1
    <1>3. \A i \in DOMAIN q : i \in DOMAIN z /\ z[i] = q[i]
        BY <1>1
    <1>4. \A i \in DOMAIN s : i + Len(q) \in DOMAIN z /\ z[i + Len(q)] = s[i]
        <2> SUFFICES ASSUME NEW i \in DOMAIN s
                     PROVE  i + Len(q) \in DOMAIN z /\ z[i + Len(q)] = s[i]
            OBVIOUS
        <2>1. i + Len(q) \in 1 .. Len(q) + Len(s) /\ i + Len(q) > Len(q)
              /\ (i + Len(q)) - Len(q) = i
            BY <1>1
        <2> QED BY <1>1, <2>1
    <1>5. Unsaid(q, p) /\ Unsaid(s, p) => Unsaid(z, p)
        BY <1>2 DEF Unsaid
    <1>6. ASSUME NEW r \in Rates, LastSaid(q, p, r), Unsaid(s, p)
          PROVE  LastSaid(z, p, r)
        <2>1. PICK i \in DOMAIN q : /\ q[i] = RateEvent(p, r)
                                    /\ \A j \in DOMAIN q : j > i => ~IsRate(q[j], p)
            BY <1>6 DEF LastSaid
        <2>2. \A j \in DOMAIN z : j > i => ~IsRate(z[j], p)
            BY <1>2, <1>6, <2>1 DEF Unsaid
        <2> QED BY <1>3, <2>1, <2>2 DEF LastSaid
    <1>7. ASSUME NEW r \in Rates, LastSaid(s, p, r)
          PROVE  LastSaid(z, p, r)
        <2>1. PICK i \in DOMAIN s : /\ s[i] = RateEvent(p, r)
                                    /\ \A j \in DOMAIN s : j > i => ~IsRate(s[j], p)
            BY <1>7 DEF LastSaid
        <2>2. ASSUME NEW j \in DOMAIN z, j > i + Len(q) PROVE ~IsRate(z[j], p)
            <3>1. j - Len(q) \in DOMAIN s /\ z[j] = s[j - Len(q)] /\ j - Len(q) > i
                BY <1>1, <2>2
            <3> QED BY <2>1, <3>1
        <2>3. i + Len(q) \in DOMAIN z /\ z[i + Len(q)] = RateEvent(p, r)
            BY <1>4, <2>1
        <2> QED BY <2>2, <2>3 DEF LastSaid
    <1> QED BY <1>5, <1>6, <1>7 DEF z

\* Events that are about states.
OfStates(s) == s \in Seq(Events) /\ \A i \in DOMAIN s : s[i].kind # "rate"

LEMMA OfStatesSent ==
    /\ OfStates(<<>>)
    /\ \A e \in Events : e.kind # "rate" => OfStates(<<e>>)
    /\ \A s, t : OfStates(s) /\ OfStates(t) => OfStates(s \o t)
    /\ \A s, p : OfStates(s) => Unsaid(s, p)
    <1>1. OfStates(<<>>)
        BY DEF OfStates
    <1>2. \A e \in Events : e.kind # "rate" => OfStates(<<e>>)
        BY DEF OfStates
    <1>3. ASSUME NEW s, NEW t, OfStates(s), OfStates(t) PROVE OfStates(s \o t)
        <2>1. s \in Seq(Events) /\ t \in Seq(Events)
            BY <1>3 DEF OfStates
        <2>2. /\ s \o t \in Seq(Events) /\ Len(s) \in Nat /\ Len(t) \in Nat
              /\ DOMAIN s = 1 .. Len(s) /\ DOMAIN t = 1 .. Len(t)
              /\ DOMAIN (s \o t) = 1 .. Len(s) + Len(t)
              /\ \A i \in 1 .. Len(s) + Len(t) :
                    (s \o t)[i] = IF i <= Len(s) THEN s[i] ELSE t[i - Len(s)]
            BY <2>1, LenProperties, ConcatProperties
        <2>3. ASSUME NEW i \in DOMAIN (s \o t) PROVE (s \o t)[i].kind # "rate"
            <3>1. CASE i <= Len(s)
                <4>1. i \in DOMAIN s /\ (s \o t)[i] = s[i]
                    BY <2>2, <3>1
                <4> QED BY <1>3, <4>1 DEF OfStates
            <3>2. CASE i > Len(s)
                <4>1. i - Len(s) \in DOMAIN t /\ (s \o t)[i] = t[i - Len(s)]
                    BY <2>2, <3>2
                <4> QED BY <1>3, <4>1 DEF OfStates
            <3> QED BY <2>2, <3>1, <3>2
        <2> QED BY <2>2, <2>3 DEF OfStates
    <1>4. \A s, p : OfStates(s) => Unsaid(s, p)
        BY DEF OfStates, Unsaid, IsRate
    <1> QED BY <1>1, <1>2, <1>3, <1>4

LEMMA StatesSent ==
    ASSUME NEW c \in Clocks, NEW x, NEW t \in States, NEW s \in Statuses
    PROVE  /\ \A f \in Clocks \cup {Client} : OfStates(Send(x, f, t, s))
           /\ OfStates(Answer(c, x, t, s))
    <1>1. \A f \in Clocks \cup {Client} : OfStates(Send(x, f, t, s))
        <2> SUFFICES ASSUME NEW f \in Clocks \cup {Client} PROVE OfStates(Send(x, f, t, s))
            OBVIOUS
        <2>1. CASE x \notin Clocks
            BY <2>1, OfStatesSent DEF Send
        <2>2. CASE x \in Clocks
            <3> DEFINE e == [kind |-> "state", to |-> x, from |-> f, target |-> t,
                             status |-> s]
            <3>1. e \in Events /\ e.kind # "rate"
                BY <2>2 DEF Events
            <3>2. OfStates(<<e>>)
                BY <3>1, OfStatesSent
            <3> QED BY <2>2, <3>2 DEF Send
        <2> QED BY <2>1, <2>2
    <1>2. OfStates(Answer(c, x, t, s))
        <2> DEFINE e == [kind |-> "response", to |-> c, target |-> t, status |-> s]
        <2>1. e \in Events /\ e.kind # "rate"
            BY DEF Events
        <2>2. OfStates(<<e>>)
            BY <2>1, OfStatesSent
        <2> HIDE DEF e
        <2>3. OfStates(Send(x, c, t, s)) /\ OfStates(<<>>)
            BY <1>1, OfStatesSent
        <2> QED BY <2>2, <2>3 DEF Answer, e
    <1> QED BY <1>1, <1>2

\* Events about states come and go.
LEMMA StatesApart ==
    ASSUME RateInv, UNCHANGED <<rate, input>>, NEW s, OfStates(s),
           \/ queue # <<>> /\ event.kind # "rate" /\ Serve(s)
           \/ queue' = queue \o s
    PROVE  RateInv'
    <1>1. /\ queue \in Seq(Events) /\ s \in Seq(Events)
          /\ rate \in [Clocks -> Rates] /\ input \in [Clocks -> Rates]
        BY DEF RateInv, RateTyped, OfStates
    <1>2. PICK q \in Seq(Events) :
             /\ queue' = q \o s
             /\ \A p \in Clocks : Unsaid(queue, p) => Unsaid(q, p)
             /\ \A p \in Clocks, r \in Rates : LastSaid(queue, p, r) => LastSaid(q, p, r)
        <2>1. CASE queue # <<>> /\ event.kind # "rate" /\ Serve(s)
            <3>1. Tail(queue) \in Seq(Events) /\ queue' = Tail(queue) \o s
                BY <1>1, <2>1, TailFacts DEF Serve
            <3>2. ASSUME NEW p \in Clocks, NEW r \in Rates, LastSaid(queue, p, r)
                  PROVE  LastSaid(Tail(queue), p, r)
                <4>1. Head(queue) # RateEvent(p, r)
                    BY <2>1, RateEvents DEF event
                <4> QED BY <1>1, <2>1, <3>2, <4>1, SaidServed
            <3>3. \A p \in Clocks : Unsaid(queue, p) => Unsaid(Tail(queue), p)
                <4> SUFFICES ASSUME NEW p \in Clocks, Unsaid(queue, p)
                             PROVE  Unsaid(Tail(queue), p)
                    OBVIOUS
                <4>1. rate[p] \in Rates
                    BY <1>1
                <4> QED BY <1>1, <2>1, <4>1, SaidServed
            <3> QED BY <3>1, <3>2, <3>3
        <2>2. CASE queue' = queue \o s
            BY <1>1, <2>2
        <2> QED BY <2>1, <2>2
    <1>3. queue' \in Seq(Events)
        BY <1>1, <1>2, ConcatProperties
    <1>4. ASSUME NEW p \in Clocks
          PROVE  \/ Unsaid(queue', p) /\ \A d \in Children(p) : input'[d] = rate'[p]
                 \/ LastSaid(queue', p, rate'[p])
        <2>1. Unsaid(s, p) /\ rate[p] \in Rates /\ rate' = rate /\ input' = input
            BY <1>1, OfStatesSent
        <2>2. /\ Unsaid(queue, p) => Unsaid(queue', p)
              /\ LastSaid(queue, p, rate[p]) => LastSaid(queue', p, rate[p])
            BY <1>1, <1>2, <2>1, SaidSent
        <2> QED BY <2>1, <2>2 DEF RateInv
    <1>5. RateTyped'
        BY <1>1, <1>3 DEF RateTyped
    <1> QED BY <1>4, <1>5 DEF RateInv, Unsaid, LastSaid, Children

LEMMA StateEvent ==
    ASSUME queue \in Seq(Events), NEW c \in Clocks, NEW t \in States, IsState(c, t)
    PROVE  /\ queue # <<>> /\ event.kind # "rate" /\ UNCHANGED <<rate, input>>
           /\ event.from \in Clocks \cup {Client} /\ event.status \in Statuses
           /\ event.target = t
    <1>1. queue # <<>> /\ event.kind = "state" /\ event.target = t /\ UNCHANGED <<rate, input>>
        BY DEF IsState
    <1>2. event \in Events
        BY <1>1, TailFacts DEF event
    <1> QED BY <1>1, <1>2 DEF Events

\* The events a clock sends when it serves one about states.
LEMMA ProcessSends ==
    ASSUME queue \in Seq(Events), NEW c \in Clocks, ProcessState(c)
    PROVE  /\ queue # <<>> /\ event.kind # "rate" /\ UNCHANGED <<rate, input>>
           /\ \E s : OfStates(s) /\ Serve(s)
    <1>1. /\ "RUNNING" \in States /\ "STOPPED" \in States
          /\ {"success", "busy", "device"} \subseteq Statuses
          /\ Outcomes("start") \subseteq Statuses /\ Outcomes("stop") \subseteq Statuses
        BY DEF States, Statuses, Outcomes
    <1>2. ASSUME NEW x, NEW t \in States, NEW s \in Statuses
          PROVE  OfStates(Answer(c, x, t, s)) /\ OfStates(Send(x, c, t, s))
        BY <1>2, StatesSent
    <1>3. CASE ReadFails(c)
        <2>1. PICK t \in States : /\ IsState(c, t)
                                  /\ Serve(Answer(c, event.from, t, "device"))
            BY <1>3 DEF ReadFails
        <2> QED BY <1>1, <1>2, <2>1, StateEvent
    <1>4. CASE OneMore(c)
        <2>1. IsState(c, "RUNNING") /\ Serve(Answer(c, event.from, "RUNNING", event.status))
            BY <1>4 DEF OneMore
        <2> QED BY <1>1, <1>2, <2>1, StateEvent
    <1>5. CASE RootStarts(c)
        <2>1. PICK r \in Outcomes("start") : /\ IsState(c, "RUNNING")
                                             /\ Serve(Answer(c, event.from, "RUNNING", r))
            BY <1>5 DEF RootStarts
        <2> QED BY <1>1, <1>2, <2>1, StateEvent
    <1>6. CASE AskParent(c)
        <2>1. IsState(c, "RUNNING") /\ Serve(Send(Parent[c], c, "RUNNING", event.status))
            BY <1>6 DEF AskParent
        <2> QED BY <1>1, <1>2, <2>1, StateEvent
    <1>7. CASE OneLess(c)
        <2>1. IsState(c, "STOPPED") /\ Serve(Answer(c, event.from, "STOPPED", event.status))
            BY <1>7 DEF OneLess
        <2> QED BY <1>1, <1>2, <2>1, StateEvent
    <1>8. CASE LastStops(c)
        <2>1. PICK r \in Outcomes("stop") :
                 /\ IsState(c, "STOPPED")
                 /\ Serve(Answer(c, event.from, "STOPPED", r)
                          \o Send(Parent[c], c, "STOPPED", r))
            BY <1>8 DEF LastStops
        <2>2. OfStates(Answer(c, event.from, "STOPPED", r)
                       \o Send(Parent[c], c, "STOPPED", r))
            BY <1>1, <1>2, OfStatesSent
        <2> QED BY <1>1, <2>1, <2>2, StateEvent
    <1>9. CASE TurnAway(c)
        <2>1. PICK t \in States : IsState(c, t) /\ Serve(Send(event.from, c, t, "busy"))
            BY <1>9 DEF TurnAway
        <2> QED BY <1>1, <1>2, <2>1, StateEvent
    <1>10. CASE ParentRuns(c)
        <2>1. PICK t \in States : IsState(c, t)
            BY <1>10 DEF ParentRuns, FromParent
        <2>2. \/ Serve(Answer(c, clk[c].caller, "RUNNING", "success"))
              \/ Serve(Send(Parent[c], c, "STOPPED", "device")
                       \o Answer(c, clk[c].caller, "RUNNING", "device"))
            BY <1>10 DEF ParentRuns
        <2>3. /\ OfStates(Answer(c, clk[c].caller, "RUNNING", "success"))
              /\ OfStates(Send(Parent[c], c, "STOPPED", "device")
                          \o Answer(c, clk[c].caller, "RUNNING", "device"))
            BY <1>1, <1>2, OfStatesSent
        <2> QED BY <2>1, <2>2, <2>3, StateEvent
    <1>11. CASE ParentFails(c)
        <2>1. PICK t \in States : IsState(c, t)
            BY <1>11 DEF ParentFails, FromParent
        <2>2. Serve(Answer(c, clk[c].caller, event.target, event.status))
            BY <1>11 DEF ParentFails
        <2>3. event.target \in States /\ event.status \in Statuses
            BY <2>1, StateEvent
        <2> QED BY <1>2, <2>1, <2>2, <2>3, StateEvent
    <1> QED BY <1>3, <1>4, <1>5, <1>6, <1>7, <1>8, <1>9, <1>10, <1>11 DEF ProcessState

LEMMA RateSet ==
    ASSUME RateInv, "rate" \notin Fails, ~Rounds, NEW c \in Clocks, NEW r \in Rates,
           SetRate(c, r)
    PROVE  RateInv'
    <1>1. /\ queue \in Seq(Events)
          /\ rate \in [Clocks -> Rates] /\ input \in [Clocks -> Rates]
        BY DEF RateInv, RateTyped
    <1>2. rate' = [rate EXCEPT ![c] = r] /\ input' = input
        BY DEF SetRate
    <1> DEFINE s == <<RateEvent(c, r)>>
    <1>3. RateEvent(c, r) \in Events /\ s \in Seq(Events) /\ Len(s) = 1 /\ DOMAIN s = {1}
          /\ s[1] = RateEvent(c, r)
        BY RateEvents
    <1>4. queue' = queue \o s
        BY <1>1, <1>3, AppendIsConcat DEF SetRate
    <1> HIDE DEF s
    <1>5. /\ LastSaid(s, c, r)
          /\ \A p \in Clocks : p # c => Unsaid(s, p)
        <2>1. \A j \in DOMAIN s : ~(j > 1)
            BY <1>3
        <2>2. LastSaid(s, c, r)
            BY <1>3, <2>1 DEF LastSaid
        <2>3. \A i \in DOMAIN s : s[i].to = c
            <3>1. RateEvent(c, r).to = c
                BY RateEvents
            <3> QED BY <1>3, <3>1
        <2> QED BY <2>2, <2>3 DEF Unsaid, IsRate
    <1>6. s \in Seq(Events)
        BY <1>3
    <1>7. queue' \in Seq(Events) /\ rate' \in [Clocks -> Rates]
        BY <1>1, <1>2, <1>4, <1>6, ConcatProperties
    <1>8. ASSUME NEW p \in Clocks
          PROVE  \/ Unsaid(queue', p) /\ \A d \in Children(p) : input'[d] = rate'[p]
                 \/ LastSaid(queue', p, rate'[p])
        <2>1. CASE p = c
            <3>1. rate'[p] = r
                BY <1>1, <1>2, <2>1
            <3>2. LastSaid(queue', p, r)
                BY <1>1, <1>4, <1>5, <1>6, <2>1, SaidSent
            <3> QED BY <3>1, <3>2
        <2>2. CASE p # c
            <3>1. rate'[p] = rate[p] /\ rate[p] \in Rates /\ Unsaid(s, p)
                BY <1>1, <1>2, <1>5, <2>2
            <3>2. /\ Unsaid(queue, p) => Unsaid(queue', p)
                  /\ LastSaid(queue, p, rate[p]) => LastSaid(queue', p, rate[p])
                BY <1>1, <1>4, <1>6, <3>1, SaidSent
            <3> QED BY <1>2, <3>1, <3>2 DEF RateInv
        <2> QED BY <2>1, <2>2
    <1> QED BY <1>1, <1>2, <1>7, <1>8 DEF RateInv, RateTyped, Unsaid, LastSaid, Children

\* An order of the clocks told has each of them once.
LEMMA OrderedOnce ==
    ASSUME NEW kin, IsFiniteSet(kin), NEW order \in Orders(kin), kin \subseteq Nat
    PROVE  \A d \in kin : \E i \in 1 .. Cardinality(kin) :
              order[i] = d /\ \A j \in 1 .. Cardinality(kin) : j # i => order[j] # d
    <1> DEFINE n == Cardinality(kin)
    <1>1. /\ n \in Nat /\ order \in [1 .. n -> kin]
          /\ \A i, j \in 1 .. n : i < j => order[i] < order[j]
        BY FS_CardinalityType DEF Orders
    <1>2. \A i \in 1 .. n : order[i] \in Nat
        BY <1>1
    <1> HIDE DEF n
    <1>3. \A i, j \in 1 .. n : i # j => order[i] # order[j]
        <2> SUFFICES ASSUME NEW i \in 1 .. n, NEW j \in 1 .. n, i # j
                     PROVE  order[i] # order[j]
            OBVIOUS
        <2>1. CASE i < j
            BY <1>1, <1>2, <2>1
        <2>2. CASE j < i
            BY <1>1, <1>2, <2>2
        <2> QED BY <1>1, <2>1, <2>2
    <1>4. ASSUME NEW d \in kin PROVE \E i \in 1 .. n : order[i] = d
        <2> SUFFICES ASSUME \A i \in 1 .. n : order[i] # d PROVE FALSE
            OBVIOUS
        <2>1. order \in [1 .. n -> kin \ {d}]
            BY <1>1
        <2>2. IsFiniteSet(kin \ {d}) /\ Cardinality(kin \ {d}) = n - 1
            BY FS_RemoveElement DEF n
        <2>3. n # 0
            BY FS_EmptySet DEF n
        <2>4. IsFiniteSet(1 .. n) /\ Cardinality(1 .. n) = n
            BY <1>1, <2>3, FS_Interval
        <2>5. Cardinality(kin \ {d}) < Cardinality(1 .. n)
            BY <1>1, <2>2, <2>4
        <2>6. \E x, y \in 1 .. n : x # y /\ order[x] = order[y]
            <3> DEFINE S == 1 .. n
                       T == kin \ {d}
            <3>1. /\ IsFiniteSet(S) /\ IsFiniteSet(T) /\ Cardinality(T) < Cardinality(S)
                  /\ order \in [S -> T]
                BY <2>1, <2>2, <2>4, <2>5
            <3> HIDE DEF S, T
            <3>2. \E x, y \in S : x # y /\ order[x] = order[y]
                BY <3>1, FS_PigeonHole
            <3> QED BY <3>2 DEF S
        <2> QED BY <1>3, <2>6
    <1> QED BY <1>3, <1>4 DEF n

LEMMA RateTold ==
    ASSUME RateInv, "rate" \notin Fails, NEW c \in Clocks, TellChildren(c)
    PROVE  RateInv'
    <1>1. /\ queue \in Seq(Events) /\ queue # <<>> /\ event.kind = "rate" /\ event.to = c
          /\ rate \in [Clocks -> Rates] /\ input \in [Clocks -> Rates]
        BY DEF RateInv, RateTyped, TellChildren
    <1>2. event \in Events /\ event.rate \in Rates /\ event = RateEvent(c, event.rate)
        <2>1. event \in Events
            BY <1>1, TailFacts DEF event
        <2>2. PICK b \in Clocks, v \in Rates : event = RateEvent(b, v)
            BY <1>1, <2>1, RateEvents
        <2>3. event.to = b /\ event.rate = v
            BY <2>2, RateEvents
        <2> QED BY <1>1, <2>1, <2>2, <2>3
    <1> DEFINE kids == Children(c)
               r == event.rate
    <1>3. PICK out \in [kids -> Rates] : Tell(kids, r, out)
        BY DEF TellChildren
    <1>4. kids \in SUBSET kids /\ kids \subseteq Nat /\ IsFiniteSet(kids)
          /\ Cardinality(kids) \in Nat /\ kids \subseteq Clocks /\ c \notin kids
        <2>1. kids \subseteq Clocks
            BY DEF Children
        <2>2. kids \subseteq Nat /\ IsFiniteSet(kids)
            BY <2>1, ConstantFacts, FS_Subset
        <2> QED BY <2>1, <2>2, ConstantFacts, FS_CardinalityType
    <1>5. /\ rate' \in [Clocks -> Rates] /\ input' \in [Clocks -> Rates]
          /\ ToldBy(kids, out)
        <2>1. kids \in SUBSET Children(c) /\ out \in [Children(c) -> Rates] /\ r \in Rates
            BY <1>2
        <2>2. queue # <<>>
            BY <1>1
        <2> HIDE DEF kids, r
        <2> QED BY <1>1, <1>3, <2>1, <2>2, ToldTypes
    <1>6. PICK s \in Seq(Events), order \in Orders(kids) :
             /\ s = ToTell(kids, order, out)
             /\ DOMAIN s = 1 .. Cardinality(kids)
             /\ queue' = Tail(queue) \o s
        BY <1>5 DEF ToldBy
    <1>7. /\ \A d \in Clocks : d \in kids => input'[d] = r /\ rate'[d] = out[d]
          /\ \A d \in Clocks : d \notin kids => input'[d] = input[d] /\ rate'[d] = rate[d]
        BY <1>3 DEF Tell
    <1>8. \A d \in Children(c) : d \in kids
        OBVIOUS
    <1>9. \A p \in Clocks : p # c => \A d \in Children(p) : d \in Clocks /\ d \notin kids
        BY DEF Children
    <1>10. \A i \in 1 .. Cardinality(kids) :
              /\ order[i] \in kids /\ out[order[i]] \in Rates
              /\ s[i] = RateEvent(order[i], out[order[i]])
        BY <1>6 DEF Orders, ToTell
    <1>11. \A d \in kids : \E i \in 1 .. Cardinality(kids) :
              order[i] = d /\ \A j \in 1 .. Cardinality(kids) : j # i => order[j] # d
        BY <1>4, OrderedOnce
    <1>12. \A d \in kids : out[d] \in Rates
        OBVIOUS
    <1> HIDE DEF kids
    <1>13. \A p \in Clocks : p \notin kids => Unsaid(s, p)
        <2> SUFFICES ASSUME NEW p \in Clocks, p \notin kids, NEW i \in 1 .. Cardinality(kids)
                     PROVE  ~IsRate(s[i], p)
            BY <1>6 DEF Unsaid
        <2>1. order[i] # p /\ s[i].to = order[i]
            <3>1. order[i] \in kids /\ order[i] \in Clocks /\ out[order[i]] \in Rates
                BY <1>4, <1>10
            <3>2. s[i] = RateEvent(order[i], out[order[i]])
                BY <1>10
            <3>3. s[i].to = order[i]
                <4>1. RateEvent(order[i], out[order[i]]).to = order[i]
                    BY DEF RateEvent
                <4> QED BY <3>2, <4>1
            <3> QED BY <3>1, <3>3
        <2> QED BY <2>1 DEF IsRate
    <1>14. \A p \in kids : LastSaid(s, p, out[p])
        <2> SUFFICES ASSUME NEW p \in kids PROVE LastSaid(s, p, out[p])
            OBVIOUS
        <2>1. PICK i \in 1 .. Cardinality(kids) :
                 order[i] = p /\ \A j \in 1 .. Cardinality(kids) : j # i => order[j] # p
            BY <1>11
        <2>2. s[i] = RateEvent(p, out[p])
            BY <1>10, <2>1
        <2>3. ASSUME NEW j \in 1 .. Cardinality(kids), j > i PROVE ~IsRate(s[j], p)
            <3>1. j # i
                BY <1>4, <2>3
            <3>2. order[j] # p /\ s[j].to = order[j]
                <4>1. order[j] \in Clocks /\ out[order[j]] \in Rates
                    BY <1>4, <1>10
                <4>2. s[j] = RateEvent(order[j], out[order[j]])
                    BY <1>10
                <4>3. s[j].to = order[j]
                    <5>1. RateEvent(order[j], out[order[j]]).to = order[j]
                        BY DEF RateEvent
                    <5> QED BY <4>2, <5>1
                <4> QED BY <2>1, <3>1, <4>3
            <3> QED BY <3>2 DEF IsRate
        <2> QED BY <1>6, <2>2, <2>3 DEF LastSaid
    <1>15. Tail(queue) \in Seq(Events) /\ queue' \in Seq(Events)
        <2>1. Tail(queue) \in Seq(Events)
            BY <1>1, TailFacts
        <2> QED BY <1>6, <2>1, ConcatProperties
    <1>16. ASSUME NEW p \in Clocks
           PROVE  \/ Unsaid(queue', p) /\ \A d \in Children(p) : input'[d] = rate'[p]
                  \/ LastSaid(queue', p, rate'[p])
        <2>1. rate[p] \in Rates
            BY <1>1
        <2>2. CASE p \in kids
            <3>1. rate'[p] = out[p] /\ out[p] \in Rates /\ LastSaid(s, p, out[p])
                BY <1>7, <1>12, <1>14, <2>2
            <3> QED BY <1>6, <1>15, <3>1, SaidSent
        <2>3. CASE p = c
            <3>1. Unsaid(s, c) /\ rate'[c] = rate[c]
                BY <1>4, <1>7, <1>13
            <3>2. IsRate(event, c)
                BY <1>1 DEF IsRate
            <3>3. LastSaid(queue, c, rate[c])
                <4>1. ~Unsaid(queue, c)
                    BY <1>1, <2>1, <2>3, <3>2, SaidServed DEF event
                <4> QED BY <4>1 DEF RateInv
            <3>4. CASE LastSaid(Tail(queue), c, rate[c])
                <4>1. LastSaid(queue', c, rate[c])
                    BY <1>6, <1>15, <2>1, <2>3, <3>1, <3>4, SaidSent
                <4> QED BY <2>3, <3>1, <4>1
            <3>5. CASE event = RateEvent(c, rate[c]) /\ Unsaid(Tail(queue), c)
                <4>1. Unsaid(queue', c)
                    BY <1>6, <1>15, <3>1, <3>5, SaidSent
                <4>2. r = rate[c]
                    BY <2>1, <2>3, <3>5, RateEvents
                <4>3. \A d \in Children(c) : input'[d] = rate'[c]
                    BY <1>4, <1>7, <1>8, <3>1, <4>2
                <4> QED BY <2>3, <4>1, <4>3
            <3> QED BY <1>1, <2>1, <2>3, <3>3, <3>4, <3>5, SaidServed DEF event
        <2>4. CASE p \notin kids /\ p # c
            <3>1. Unsaid(s, p) /\ rate'[p] = rate[p]
                BY <1>7, <1>13, <2>4
            <3>2. event # RateEvent(p, rate[p])
                <4>1. RateEvent(p, rate[p]).to = p
                    BY <2>1, RateEvents
                <4> QED BY <1>1, <2>4, <4>1
            <3>3. /\ Unsaid(queue, p) => Unsaid(queue', p)
                  /\ LastSaid(queue, p, rate[p]) => LastSaid(queue', p, rate[p])
                <4>1. /\ Unsaid(queue, p) => Unsaid(Tail(queue), p)
                      /\ LastSaid(queue, p, rate[p]) => LastSaid(Tail(queue), p, rate[p])
                    BY <1>1, <2>1, <3>2, SaidServed DEF event
                <4> QED BY <1>6, <1>15, <2>1, <3>1, <4>1, SaidSent
            <3>4. \A d \in Children(p) : input'[d] = input[d]
                BY <1>7, <1>9, <2>4
            <3> QED BY <3>1, <3>3, <3>4 DEF RateInv
        <2> QED BY <2>2, <2>3, <2>4
    <1> QED BY <1>5, <1>15, <1>16 DEF RateInv, RateTyped, Unsaid, LastSaid, Children

LEMMA RateKept ==
    ASSUME RateInv, "rate" \notin Fails, ~Rounds, [Next]_vars
    PROVE  RateInv'
    <1>1. queue \in Seq(Events)
        BY DEF RateInv, RateTyped
    <1>2. CASE \E c \in Clocks, t \in States : SetState(c, t)
        <2>1. PICK c \in Clocks, t \in States : SetState(c, t)
            BY <1>2
        <2>2. queue' = queue \o Send(c, Client, t, "success") /\ UNCHANGED <<rate, input>>
            BY <2>1 DEF SetState
        <2>3. OfStates(Send(c, Client, t, "success"))
            BY StatesSent DEF Statuses
        <2> QED BY <2>2, <2>3, StatesApart
    <1>3. CASE \E c \in Clocks, r \in Rates : SetRate(c, r)
        BY <1>3, RateSet
    <1>4. CASE \E c \in Clocks : ProcessState(c)
        BY <1>1, <1>4, ProcessSends, StatesApart
    <1>5. CASE \E c \in Clocks : Respond(c)
        <2>1. /\ queue # <<>> /\ event.kind # "rate" /\ Serve(<<>>)
              /\ UNCHANGED <<rate, input>>
            BY <1>5 DEF Respond
        <2> QED BY <2>1, OfStatesSent, StatesApart
    <1>6. CASE \E c \in Clocks : TellChildren(c)
        BY <1>6, RateTold
    <1>7. CASE UNCHANGED vars
        BY <1>7 DEF vars, RateInv, RateTyped, Unsaid, LastSaid, Children
    <1> QED BY <1>2, <1>3, <1>4, <1>5, <1>6, <1>7 DEF Next, Process

LEMMA InitRates == Init => RateInv
    <1> SUFFICES ASSUME Init PROVE RateInv
        OBVIOUS
    <1>1. /\ queue = <<>> /\ queue \in Seq(Events) /\ input = rate
          /\ \E r \in Rates : rate = [c \in Clocks |-> r]
        BY DEF Init
    <1>2. RateTyped
        BY <1>1 DEF RateTyped
    <1>3. DOMAIN queue = {}
        <2>1. DOMAIN queue = 1 .. Len(queue) /\ Len(queue) = 0
            BY <1>1, SeqBasics
        <2> QED BY <2>1
    <1>4. \A p \in Clocks, d \in Clocks : input[d] = rate[p]
        BY <1>1
    <1> QED BY <1>2, <1>3, <1>4 DEF RateInv, Unsaid, Children

LEMMA RatesByInv ==
    ASSUME RateInv
    PROVE  RatesAgree
    <1> SUFFICES ASSUME NEW c \in Clocks, Parent[c] # None, input[c] # rate[Parent[c]]
                 PROVE  \E i \in DOMAIN queue :
                           /\ queue[i] = RateEvent(Parent[c], rate[Parent[c]])
                           /\ \A j \in DOMAIN queue :
                                 j > i => ~(queue[j].kind = "rate" /\ queue[j].to = Parent[c])
        BY DEF RatesAgree
    <1>1. Parent[c] \in Clocks /\ c \in Children(Parent[c])
        BY ConstantFacts DEF Below
    <1>2. LastSaid(queue, Parent[c], rate[Parent[c]])
        BY <1>1 DEF RateInv
    <1> QED BY <1>2 DEF LastSaid, IsRate

-----------------------------------------------------------------------------
\* A clock that a client was told runs, or whose child runs, is running: no
\* order of calls and events of the tree stops it early, when clients call one
\* at a time and stop only what they have started, drivers stop clocks when
\* told to, and no counter is about to overflow
\* (clock_management_process_state).
THEOREM NeededClocksRun ==
    ASSUME ~Overlap, ~StopUnheld, "stop" \notin Fails
    PROVE  Spec /\ []NotWrapped => []NeededRuns
    <1>1. Spec /\ []NotWrapped => []TreeInv
        BY TreeAlways DEF WellUsed
    <1>2. TreeInv => NeededRuns
        BY NeededByInv
    <1> QED BY <1>1, <1>2, PTL

\* When no event waits, ref_count of a clock is the number of its users: its
\* running children, and its client as often as it holds the clock; nobody is
\* counted twice or forgotten, under the same conditions.
THEOREM CountsMatchUsers ==
    ASSUME ~Overlap, ~StopUnheld, "stop" \notin Fails
    PROVE  Spec /\ []NotWrapped => []RefsAgree
    <1>1. Spec /\ []NotWrapped => []TreeInv
        BY TreeAlways DEF WellUsed
    <1>2. TreeInv => RefsAgree
        BY RefsByInv
    <1> QED BY <1>1, <1>2, PTL

\* The driver of a clock believes of its parent the rate that it has, or the
\* last event about the parent's rate is still to tell it
\* (clock_management_process_rate), when drivers give the rates they are asked
\* for and refuse none, whoever starts and stops clocks meanwhile.
THEOREM ChildrenKnowRates ==
    ASSUME "rate" \notin Fails, ~Rounds
    PROVE  Spec => []RatesAgree
    <1>1. Init => RateInv
        BY InitRates
    <1>2. RateInv /\ [Next]_vars => RateInv'
        BY RateKept
    <1>3. RateInv => RatesAgree
        BY RatesByInv
    <1> QED BY <1>1, <1>2, <1>3, PTL DEF Spec

-----------------------------------------------------------------------------
(* The clock that agents share.                                            *)

ScmiInv == ScmiTypeOK /\ CountAgrees

-----------------------------------------------------------------------------
\* The agents that have the clock running, by their count.
LEMMA CountFacts ==
    ASSUME NEW st \in [Agents -> States]
    PROVE  /\ IsFiniteSet(Running(st)) /\ Cardinality(Running(st)) \in Nat
           /\ Cardinality(Running(st)) <= Cardinality(Agents)
           /\ Cardinality(Running(st)) = 0 => \A a \in Agents : st[a] = "STOPPED"
           /\ Cardinality(Running(st)) = 1 =>
                  \A a, b \in Agents : st[a] = "RUNNING" /\ st[b] = "RUNNING" => a = b
           /\ \A a \in Agents : st[a] = "RUNNING" => Cardinality(Running(st)) > 0
    <1> DEFINE R == Running(st)
    <1>1. R \in SUBSET Agents
        BY DEF Running
    <1>2. IsFiniteSet(R) /\ Cardinality(R) <= Cardinality(Agents)
        BY <1>1, FS_Subset, ScmiClockAssumption
    <1>3. Cardinality(R) \in Nat
        BY <1>2, FS_CardinalityType
    <1>4. Cardinality(R) = 0 => R = {}
        BY <1>2, FS_EmptySet
    <1>5. Cardinality(R) = 1 => \E x : R = {x}
        BY <1>2, FS_Singleton
    <1>6. \A a \in Agents : st[a] = "RUNNING" <=> a \in R
        BY DEF Running
    <1>7. \A a \in Agents : st[a] = "RUNNING" \/ st[a] = "STOPPED"
        BY DEF States
    <1>8. R # {} => Cardinality(R) > 0
        BY <1>2, <1>3, <1>4
    <1> HIDE DEF R
    <1>9. Cardinality(R) = 0 => \A a \in Agents : st[a] = "STOPPED"
        BY <1>4, <1>6, <1>7
    <1>10. Cardinality(R) = 1 =>
               \A a, b \in Agents : st[a] = "RUNNING" /\ st[b] = "RUNNING" => a = b
        BY <1>5, <1>6
    <1>11. \A a \in Agents : st[a] = "RUNNING" => Cardinality(R) > 0
        BY <1>6, <1>8
    <1> QED BY <1>2, <1>3, <1>9, <1>10, <1>11 DEF R

\* What one agent's change does to the agents that have the clock running.
LEMMA OneChanges ==
    ASSUME NEW st \in [Agents -> States], NEW a \in Agents, NEW s \in States, st[a] # s
    PROVE  Cardinality(Running([st EXCEPT ![a] = s]))
           = IF s = "RUNNING" THEN Cardinality(Running(st)) + 1
                              ELSE Cardinality(Running(st)) - 1
    <1>1. IsFiniteSet(Running(st))
        BY CountFacts
    <1>2. CASE s = "RUNNING"
        <2>1. Running([st EXCEPT ![a] = s]) = Running(st) \cup {a}
            BY <1>2 DEF Running
        <2>2. a \notin Running(st)
            BY <1>2 DEF Running
        <2> QED BY <1>1, <1>2, <2>1, <2>2, FS_AddElement
    <1>3. CASE s = "STOPPED"
        <2>1. Running([st EXCEPT ![a] = s]) = Running(st) \ {a}
            BY <1>3 DEF Running
        <2>2. a \in Running(st)
            BY <1>3 DEF Running, States
        <2> QED BY <1>1, <1>3, <2>1, <2>2, FS_RemoveElement
    <1> QED BY <1>2, <1>3 DEF States

\* mod_scmi_clock_state_update keeps the count.
LEMMA UpdateCounts ==
    ASSUME ScmiInv, NEW a \in Agents, NEW s \in States, StateUpdate(a, s)
    PROVE  /\ set' \in [Agents -> States] /\ CountAgrees'
           /\ count' \in 0 .. Cardinality(Agents)
           /\ set' = [set EXCEPT ![a] = s]
           /\ count' = count \/ (s = "RUNNING" /\ count' = count + 1)
                             \/ (s = "STOPPED" /\ count' = count - 1)
    <1>1. set \in [Agents -> States] /\ count = Cardinality(Running(set))
        BY DEF ScmiInv, ScmiTypeOK, CountAgrees
    <1>2. set' = [set EXCEPT ![a] = s]
        BY <1>1 DEF StateUpdate
    <1>3. set' \in [Agents -> States]
        BY <1>1, <1>2
    <1>4. count' = Cardinality(Running(set'))
        <2>1. CASE set[a] = s
            BY <1>1, <2>1 DEF StateUpdate, Running
        <2>2. CASE set[a] # s
            BY <1>1, <1>2, <2>2, OneChanges DEF StateUpdate
        <2> QED BY <2>1, <2>2
    <1>5. Cardinality(Agents) \in Nat
        BY FS_CardinalityType, ScmiClockAssumption
    <1>6. count' \in 0 .. Cardinality(Agents)
        BY <1>3, <1>4, <1>5, CountFacts
    <1>7. count' = count \/ (s = "RUNNING" /\ count' = count + 1)
                         \/ (s = "STOPPED" /\ count' = count - 1)
        BY DEF StateUpdate, States
    <1> QED BY <1>2, <1>3, <1>4, <1>6, <1>7 DEF CountAgrees

LEMMA OpsUpdateCounts ==
    ASSUME ScmiInv, NEW r, NEW ok, UpdateOps(r, ok)
    PROVE  set' \in [Agents -> States] /\ CountAgrees' /\ count' \in 0 .. Cardinality(Agents)
    <1>1. CASE ok /\ r \in States /\ ops.of \in States /\ ops.service # None
        <2>1. ops.service \in Agents /\ StateUpdate(ops.service, ops.of)
            BY <1>1 DEF UpdateOps, ScmiInv, ScmiTypeOK
        <2> QED BY <1>1, <2>1, UpdateCounts
    <1>2. CASE ~(ok /\ r \in States /\ ops.of \in States /\ ops.service # None)
        BY <1>2 DEF UpdateOps, ScmiInv, ScmiTypeOK, CountAgrees, Running
    <1> QED BY <1>1, <1>2

\* An answer leaves the agents' sides well typed.
LEMMA RespondTypes ==
    ASSUME ScmiInv, NEW a, NEW r, NEW ok, ScmiRespond(a, r, ok)
    PROVE  /\ asked' \in [Agents -> Requests \cup {None}]
           /\ told' \in [Agents -> States] /\ stray' \in BOOLEAN
    BY ZenonT(30) DEF ScmiRespond, ScmiInv, ScmiTypeOK, States

\* Events of the two modules.
LEMMA EventTypes ==
    /\ \A r \in Requests : [kind |-> "request", of |-> r] \in ScmiEvents
    /\ \A c \in Calls : [kind |-> "call", of |-> c] \in ScmiEvents
    /\ \A c \in Calls, ok \in BOOLEAN :
          /\ [kind |-> "response", of |-> c, ok |-> ok] \in ScmiEvents
          /\ [kind |-> "reply", of |-> c, ok |-> ok] \in ScmiEvents
    BY DEF ScmiEvents

LEMMA QueueTypes ==
    ASSUME NEW q \in Seq(ScmiEvents), NEW e \in ScmiEvents
    PROVE  /\ Append(q, e) \in Seq(ScmiEvents)
           /\ q # << >> => /\ Tail(q) \in Seq(ScmiEvents) /\ Head(q) \in ScmiEvents
                           /\ Append(Tail(q), e) \in Seq(ScmiEvents)
    OBVIOUS

-----------------------------------------------------------------------------
LEMMA InitCounts == ScmiInit => ScmiInv
    <1> SUFFICES ASSUME ScmiInit PROVE ScmiInv
        OBVIOUS
    <1>1. count = Cardinality(Running(set)) /\ set \in [Agents -> States]
        BY DEF ScmiInit
    <1>2. count \in 0 .. Cardinality(Agents)
        BY <1>1, CountFacts, FS_CardinalityType, ScmiClockAssumption
    <1>3. hw \in States /\ ops \in [service: Agents \cup {None}, of: Requests \cup {None}]
        BY DEF ScmiInit, States
    <1>4. events \in Seq(ScmiEvents) /\ asked \in [Agents -> Requests \cup {None}]
        BY DEF ScmiInit
    <1>5. told = set /\ driver = None /\ ongoing = FALSE /\ stray = FALSE
        BY DEF ScmiInit
    <1>6. ScmiTypeOK
        BY <1>1, <1>2, <1>3, <1>4, <1>5 DEF ScmiTypeOK
    <1> QED BY <1>1, <1>6 DEF ScmiInv, CountAgrees

LEMMA SkipCounts ==
    ASSUME ScmiInv, NEW a \in Agents, NEW s \in States, SkipSetState(a, s) PROVE ScmiInv'
    <1>1. set' \in [Agents -> States] /\ CountAgrees' /\ count' \in 0 .. Cardinality(Agents)
        BY UpdateCounts DEF SkipSetState
    <1> QED BY <1>1 DEF SkipSetState, ScmiInv, ScmiTypeOK

LEMMA CreateCounts ==
    ASSUME ScmiInv, NEW a \in Agents, NEW r \in Requests, CreateRequest(a, r) PROVE ScmiInv'
    <1>1. events' \in Seq(ScmiEvents)
        BY EventTypes, QueueTypes DEF CreateRequest, ScmiInv, ScmiTypeOK
    <1>2. asked' \in [Agents -> Requests \cup {None}]
        BY DEF CreateRequest, ScmiInv, ScmiTypeOK
    <1>3. ops' \in [service: Agents \cup {None}, of: Requests \cup {None}]
        BY DEF CreateRequest
    <1> QED BY <1>1, <1>2, <1>3 DEF CreateRequest, ScmiInv, ScmiTypeOK, CountAgrees, Running

LEMMA AtOnceCounts ==
    ASSUME ScmiInv, NEW r \in Requests, ServeAtOnce(r) PROVE ScmiInv'
    <1>1. PICK ok \in BOOLEAN : /\ DoneAtOnce(r, ok)
                                /\ hw' = IF ok /\ r \in States THEN r ELSE hw
        BY DEF ServeAtOnce
    <1>2. set' \in [Agents -> States] /\ CountAgrees' /\ count' \in 0 .. Cardinality(Agents)
        BY <1>1, OpsUpdateCounts DEF DoneAtOnce
    <1>3. /\ asked' \in [Agents -> Requests \cup {None}]
          /\ told' \in [Agents -> States] /\ stray' \in BOOLEAN
        BY <1>1, RespondTypes DEF DoneAtOnce
    <1>4. ops' \in [service: Agents \cup {None}, of: Requests \cup {None}]
        BY <1>1 DEF DoneAtOnce, Available, ScmiInv, ScmiTypeOK
    <1>5. events' \in Seq(ScmiEvents)
        BY DEF ServeAtOnce, AtOnce, Request, IsEvent, ScmiInv, ScmiTypeOK
    <1> QED BY <1>1, <1>2, <1>3, <1>4, <1>5 DEF ServeAtOnce, AtOnce, ScmiInv, ScmiTypeOK

LEMMA LaterCounts ==
    ASSUME ScmiInv, Later
    PROVE  /\ set' \in [Agents -> States] /\ CountAgrees'
           /\ count' \in 0 .. Cardinality(Agents)
           /\ ops' \in [service: Agents \cup {None}, of: Requests \cup {None}]
           /\ asked' \in [Agents -> Requests \cup {None}]
           /\ told' \in [Agents -> States] /\ stray' \in BOOLEAN
    BY DEF Later, NoAnswer, ScmiInv, ScmiTypeOK, CountAgrees, Running

LEMMA ServeLaterCounts ==
    ASSUME ScmiInv, NEW r \in Requests, ServeLater(r) PROVE ScmiInv'
    <1>1. r \in Calls
        BY DEF ServeLater, Calls
    <1>2. events' \in Seq(ScmiEvents)
        BY <1>1, EventTypes, QueueTypes
           DEF ServeLater, Pending, Request, IsEvent, ScmiInv, ScmiTypeOK
    <1> QED BY <1>1, <1>2, LaterCounts DEF ServeLater, Pending, ScmiInv, ScmiTypeOK

LEMMA HoldCounts ==
    ASSUME ScmiInv, HoldResponse PROVE ScmiInv'
    <1>1. events' \in Seq(ScmiEvents)
        BY DEF HoldResponse, AtOnce, IsEvent, ScmiInv, ScmiTypeOK
    <1> QED BY <1>1, LaterCounts DEF HoldResponse, AtOnce, ScmiInv, ScmiTypeOK

LEMMA CompleteCounts ==
    ASSUME ScmiInv, RequestComplete PROVE ScmiInv'
    <1>1. PICK ok \in BOOLEAN :
              /\ events' = Append(events, [kind |-> "response", of |-> driver, ok |-> ok])
              /\ hw' = IF ok /\ driver \in States THEN driver ELSE hw
        BY DEF RequestComplete
    <1>2. driver \in Calls
        BY DEF RequestComplete, ScmiInv, ScmiTypeOK
    <1>3. events' \in Seq(ScmiEvents)
        BY <1>1, <1>2, EventTypes, QueueTypes DEF ScmiInv, ScmiTypeOK
    <1> QED BY <1>1, <1>3, LaterCounts DEF RequestComplete, ScmiInv, ScmiTypeOK

\* A response becomes the reply with the same contents.
LEMMA ReplyOf ==
    ASSUME NEW e \in ScmiEvents, e.kind = "response"
    PROVE  /\ e = [kind |-> "response", of |-> e.of, ok |-> e.ok]
           /\ [e EXCEPT !.kind = "reply"] = [kind |-> "reply", of |-> e.of, ok |-> e.ok]
           /\ [e EXCEPT !.kind = "reply"] \in ScmiEvents
           /\ e.of \in Calls /\ e.ok \in BOOLEAN
    <1>1. e \in [kind: {"response", "reply"}, of: Calls, ok: BOOLEAN]
        BY DEF ScmiEvents
    <1>2. [e EXCEPT !.kind = "reply"] \in [kind: {"response", "reply"}, of: Calls, ok: BOOLEAN]
        BY <1>1
    <1> QED BY <1>1, <1>2 DEF ScmiEvents

LEMMA ForwardCounts ==
    ASSUME ScmiInv, ForwardResponse PROVE ScmiInv'
    <1>1. Head(events) \in ScmiEvents /\ Head(events).kind = "response" /\ events # << >>
        BY DEF ForwardResponse, IsEvent, ScmiInv, ScmiTypeOK
    <1>2. [Head(events) EXCEPT !.kind = "reply"] \in ScmiEvents
        BY <1>1, ReplyOf
    <1>3. events' \in Seq(ScmiEvents)
        BY <1>1, <1>2, QueueTypes DEF ForwardResponse, ScmiInv, ScmiTypeOK
    <1> QED BY <1>3, LaterCounts DEF ForwardResponse, ScmiInv, ScmiTypeOK

LEMMA ReplyCounts ==
    ASSUME ScmiInv, TakeReply PROVE ScmiInv'
    <1>1. set' \in [Agents -> States] /\ CountAgrees' /\ count' \in 0 .. Cardinality(Agents)
        BY OpsUpdateCounts DEF TakeReply
    <1>2. /\ asked' \in [Agents -> Requests \cup {None}]
          /\ told' \in [Agents -> States] /\ stray' \in BOOLEAN
        BY RespondTypes DEF TakeReply
    <1>3. ops' \in [service: Agents \cup {None}, of: Requests \cup {None}]
        BY DEF TakeReply, Available, ScmiInv, ScmiTypeOK
    <1>4. events' \in Seq(ScmiEvents)
        BY DEF TakeReply, AtOnce, IsEvent, ScmiInv, ScmiTypeOK
    <1> QED BY <1>1, <1>2, <1>3, <1>4 DEF TakeReply, AtOnce, ScmiInv, ScmiTypeOK

LEMMA NextCounts == ScmiInv /\ [ScmiNext]_scmiVars => ScmiInv'
    <1> SUFFICES ASSUME ScmiInv, [ScmiNext]_scmiVars PROVE ScmiInv'
        OBVIOUS
    <1>1. CASE UNCHANGED scmiVars
        BY <1>1 DEF scmiVars, ScmiInv, ScmiTypeOK, CountAgrees, Running
    <1>2. CASE ScmiNext
        BY <1>2, SkipCounts, CreateCounts, AtOnceCounts, ServeLaterCounts, HoldCounts,
           CompleteCounts, ForwardCounts, ReplyCounts DEF ScmiNext, ProcessEvent
    <1> QED BY <1>1, <1>2

\* The types, and the count of the agents that have the clock running: it never
\* passes zero, whatever fails and whoever starts or stops the clock meanwhile
\* (mod_scmi_clock_state_update).
THEOREM CountCorrect == ScmiSpec => [](ScmiTypeOK /\ CountAgrees)
    BY InitCounts, NextCounts, PTL DEF ScmiSpec, ScmiInv

-----------------------------------------------------------------------------
\* The stages of the operation on record, one of which holds when there is one:
\* the protocol's event, the driver with the HAL's event that has the framework
\* hold the answer, the HAL's answer, the protocol's.
At(q, d, o) == events = q /\ driver = d /\ ongoing = o

HeldCall == [kind |-> "call", of |-> ops.of]
HalResponse(ok) == [kind |-> "response", of |-> ops.of, ok |-> ok]
HeldReply(ok) == [kind |-> "reply", of |-> ops.of, ok |-> ok]

Requested == At(<<[kind |-> "request", of |-> ops.of]>>, None, FALSE)
AtDriver == \/ At(<<HeldCall>>, ops.of, TRUE)
            \/ At(<< >>, ops.of, TRUE)
HalResponded(ok) == \/ At(<<HeldCall, HalResponse(ok)>>, None, TRUE)
                    \/ At(<<HalResponse(ok)>>, None, TRUE)
HalReplied(ok) == At(<<HeldReply(ok)>>, None, FALSE)

Stage == \/ Requested
         \/ ops.of \in Calls /\ AtDriver
         \/ \E ok \in BOOLEAN : ops.of \in Calls /\ (HalResponded(ok) \/ HalReplied(ok))

Phase ==
    /\ ~stray
    /\ ops.service = None => At(<< >>, None, FALSE)
    /\ ops.service # None =>
           ops.of \in Requests /\ asked[ops.service] = ops.of /\ Stage

-----------------------------------------------------------------------------
\* Short queues.
LEMMA Shorts ==
    ASSUME NEW x, NEW y
    PROVE  /\ <<x>> # << >> /\ Head(<<x>>) = x /\ Tail(<<x>>) = << >>
           /\ <<x, y>> # << >> /\ Head(<<x, y>>) = x /\ Tail(<<x, y>>) = <<y>>
           /\ Append(<< >>, x) = <<x>> /\ Append(<<x>>, y) = <<x, y>>
    <1> DEFINE S == {x, y}
               s == Append(<<x>>, y)
               t == <<x, y>>
    <1>1. <<x>> \in Seq(S) /\ Len(<<x>>) = 1 /\ <<x>>[1] = x
        OBVIOUS
    <1>2. s \in Seq(S) /\ Len(s) = 2 /\ s[1] = x /\ s[2] = y
        BY <1>1, AppendProperties
    <1>3. t \in Seq(S) /\ Len(t) = 2 /\ t[1] = x /\ t[2] = y
        OBVIOUS
    <1> HIDE DEF S, s, t
    <1>4. \A i \in 1 .. Len(s) : s[i] = t[i]
        <2> TAKE i \in 1 .. Len(s)
        <2>1. i = 1 \/ i = 2
            BY <1>2
        <2> QED BY <1>2, <1>3, <2>1
    <1>5. s = t
        BY <1>2, <1>3, <1>4, SeqEqual
    <1>6. Append(<<x>>, y) = <<x, y>>
        BY <1>5 DEF s, t
    <1> QED BY <1>6

\* What the first event of the queue says of the operation on record.
LEMMA HeadStage ==
    ASSUME ScmiInv, Phase, events # << >>
    PROVE  /\ ops.service \in Agents /\ asked[ops.service] = ops.of /\ ops.of \in Requests
           /\ Head(events).kind = "request" => Requested /\ Head(events).of = ops.of
           /\ Head(events).kind = "call" =>
                  /\ ops.of \in Calls
                  /\ \/ At(<<HeldCall>>, ops.of, TRUE)
                     \/ \E ok \in BOOLEAN : At(<<HeldCall, HalResponse(ok)>>, None, TRUE)
           /\ Head(events).kind = "response" =>
                  /\ ops.of \in Calls
                  /\ \E ok \in BOOLEAN : At(<<HalResponse(ok)>>, None, TRUE)
           /\ Head(events).kind = "reply" =>
                  /\ ops.of \in Calls
                  /\ \E ok \in BOOLEAN : HalReplied(ok)
    <1>1. /\ ops.service # None /\ asked[ops.service] = ops.of /\ Stage
          /\ ops.of \in Requests
        BY DEF Phase, At
    <1>2. ops.service \in Agents
        BY <1>1 DEF ScmiInv, ScmiTypeOK
    <1>4. CASE Requested
        <2>1. Head(events) = [kind |-> "request", of |-> ops.of]
            BY <1>4, Shorts DEF Requested, At
        <2>2. Head(events).kind = "request" /\ Head(events).of = ops.of
            BY <2>1
        <2> QED BY <1>1, <1>2, <1>4, <2>2
    <1>5. CASE ops.of \in Calls /\ AtDriver
        <2>1. At(<<HeldCall>>, ops.of, TRUE)
            BY <1>5 DEF AtDriver, At
        <2>2. Head(events) = HeldCall
            BY <2>1, Shorts DEF At
        <2>3. Head(events).kind = "call"
            BY <2>2 DEF HeldCall
        <2> QED BY <1>1, <1>2, <1>5, <2>1, <2>3
    <1>6. CASE \E ok \in BOOLEAN : ops.of \in Calls /\ (HalResponded(ok) \/ HalReplied(ok))
        <2>1. PICK ok \in BOOLEAN : ops.of \in Calls /\ (HalResponded(ok) \/ HalReplied(ok))
            BY <1>6
        <2>2. CASE At(<<HeldCall, HalResponse(ok)>>, None, TRUE)
            <3>1. Head(events) = HeldCall
                BY <2>2, Shorts DEF At
            <3>2. Head(events).kind = "call"
                BY <3>1 DEF HeldCall
            <3> QED BY <1>1, <1>2, <2>1, <2>2, <3>2
        <2>3. CASE At(<<HalResponse(ok)>>, None, TRUE)
            <3>1. Head(events) = HalResponse(ok)
                BY <2>3, Shorts DEF At
            <3>2. Head(events).kind = "response"
                BY <3>1 DEF HalResponse
            <3> QED BY <1>1, <1>2, <2>1, <2>3, <3>2
        <2>4. CASE HalReplied(ok)
            <3>1. Head(events) = HeldReply(ok)
                BY <2>4, Shorts DEF HalReplied, At
            <3>2. Head(events).kind = "reply"
                BY <3>1 DEF HeldReply
            <3> QED BY <1>1, <1>2, <2>1, <2>4, <3>2
        <2> QED BY <2>1, <2>2, <2>3, <2>4 DEF HalResponded
    <1> QED BY <1>1, <1>4, <1>5, <1>6 DEF Stage

\* The driver has something to do only for the operation on record.
LEMMA DriverStage ==
    ASSUME ScmiInv, Phase, driver # None
    PROVE  /\ ops.service \in Agents /\ asked[ops.service] = ops.of
           /\ ops.of \in Calls /\ AtDriver
    <1>1. ops.service # None /\ asked[ops.service] = ops.of /\ Stage
        BY DEF Phase, At
    <1>2. ops.of \in Calls /\ AtDriver
        BY <1>1 DEF Stage, Requested, HalResponded, HalReplied, At
    <1> QED BY <1>1, <1>2 DEF ScmiInv, ScmiTypeOK

-----------------------------------------------------------------------------
LEMMA InitPhase == ScmiInit => Phase
    BY DEF ScmiInit, Phase, At

LEMMA StagesKept ==
    ASSUME Phase, UNCHANGED <<ops, ongoing, events, driver, asked, stray>>
    PROVE  Phase'
    BY DEF Phase, Stage, Requested, AtDriver, HalResponded, HalReplied, At, HeldCall, HalResponse, HeldReply

LEMMA CreatePhase ==
    ASSUME ScmiInv, Phase, NEW a \in Agents, NEW r \in Requests, CreateRequest(a, r)
    PROVE  Phase'
    <1>1. At(<< >>, None, FALSE) /\ ~stray /\ a # None
        BY ScmiClockAssumption DEF CreateRequest, Phase
    <1>2. asked'[a] = r /\ ops'.service = a /\ ops'.of = r
        BY DEF CreateRequest, ScmiInv, ScmiTypeOK
    <1>3. events' = <<[kind |-> "request", of |-> r]>>
        BY <1>1, Shorts DEF CreateRequest, At
    <1>4. Requested'
        BY <1>1, <1>2, <1>3 DEF CreateRequest, Requested, At
    <1> QED BY <1>1, <1>2, <1>4 DEF CreateRequest, Phase, Stage

\* An answer to the service on record of what is on record is not astray.
LEMMA RespondsToService ==
    ASSUME ScmiInv, Phase, events # << >>, NEW ok, ScmiRespond(ops.service, ops.of, ok)
    PROVE  UNCHANGED stray
           /\ asked' = [asked EXCEPT ![ops.service] = None]
           /\ told' = IF ops.of \in States /\ ok
                      THEN [told EXCEPT ![ops.service] = ops.of] ELSE told
    BY HeadStage DEF ScmiRespond

LEMMA AtOncePhase ==
    ASSUME ~GetMayFail, ScmiInv, Phase, NEW r \in Requests, ServeAtOnce(r)
    PROVE  /\ Phase' /\ r = ops.of /\ ops'.service = None
           /\ \E ok \in BOOLEAN : /\ ScmiRespond(ops.service, ops.of, ok)
                                  /\ UpdateOps(ops.of, ok)
                                  /\ hw' = IF ok /\ ops.of \in States THEN ops.of ELSE hw
    <1>1. events # << >> /\ Head(events).kind = "request" /\ Head(events).of = r
        BY DEF ServeAtOnce, Request, IsEvent
    <1>2. Requested /\ r = ops.of /\ ops.service \in Agents
        BY <1>1, HeadStage
    <1>3. PICK ok \in BOOLEAN :
              /\ r = "get" => ok
              /\ DoneAtOnce(r, ok)
              /\ hw' = IF ok /\ r \in States THEN r ELSE hw
        BY <1>2 DEF ServeAtOnce, Requested, At
    <1>4. ScmiRespond(ops.service, ops.of, ok) /\ UpdateOps(ops.of, ok) /\ Available
        BY <1>2, <1>3 DEF DoneAtOnce
    <1>5. ops'.service = None
        BY <1>4 DEF Available, ScmiInv, ScmiTypeOK
    <1>6. UNCHANGED stray
        BY <1>1, <1>4, RespondsToService
    <1>7. At(<< >>, None, FALSE)'
        BY <1>2, Shorts DEF ServeAtOnce, AtOnce, Requested, At
    <1> QED BY <1>2, <1>3, <1>4, <1>5, <1>6, <1>7 DEF Phase

LEMMA ServeLaterPhase ==
    ASSUME ScmiInv, Phase, NEW r \in Requests, ServeLater(r)
    PROVE  Phase' /\ Requested /\ AtDriver'
    <1>1. events # << >> /\ Head(events).kind = "request" /\ Head(events).of = r
        BY DEF ServeLater, Request, IsEvent
    <1>2. Requested /\ r = ops.of /\ asked[ops.service] = ops.of
        BY <1>1, HeadStage
    <1>3. UNCHANGED <<ops, asked, stray>> /\ r \in Calls
        BY DEF ServeLater, Later, NoAnswer, Calls
    <1>4. events' = <<[kind |-> "call", of |-> r]>>
        BY <1>2, Shorts DEF ServeLater, Pending, Requested, At
    <1>5. At(<<HeldCall>>, ops.of, TRUE)'
        BY <1>2, <1>3, <1>4 DEF ServeLater, Pending, At, HeldCall
    <1>6. ops.service # None
        BY <1>1, HeadStage, ScmiClockAssumption
    <1>7. AtDriver'
        BY <1>5 DEF AtDriver
    <1> QED BY <1>2, <1>3, <1>6, <1>7 DEF Phase, Stage

LEMMA HoldPhase ==
    ASSUME ScmiInv, Phase, HoldResponse
    PROVE  /\ Phase' /\ UNCHANGED ops
           /\ \/ AtDriver /\ AtDriver'
              \/ \E ok \in BOOLEAN : HalResponded(ok) /\ HalResponded(ok)'
    <1>1. events # << >> /\ Head(events).kind = "call"
        BY DEF HoldResponse, IsEvent
    <1>2. /\ UNCHANGED <<ops, asked, stray, ongoing, driver>> /\ events' = Tail(events)
        BY DEF HoldResponse, AtOnce, Later, NoAnswer
    <1>3. /\ ops.service # None /\ asked[ops.service] = ops.of /\ ops.of \in Calls
          /\ \/ At(<<HeldCall>>, ops.of, TRUE)
             \/ \E ok \in BOOLEAN : At(<<HeldCall, HalResponse(ok)>>, None, TRUE)
        BY <1>1, HeadStage, ScmiClockAssumption
    <1>4. CASE At(<<HeldCall>>, ops.of, TRUE)
        <2>1. At(<< >>, ops.of, TRUE)'
            BY <1>2, <1>4, Shorts DEF At
        <2>2. AtDriver /\ AtDriver'
            BY <1>4, <2>1 DEF AtDriver
        <2> QED BY <1>2, <1>3, <2>2 DEF Phase, Stage
    <1>5. ASSUME NEW ok \in BOOLEAN, At(<<HeldCall, HalResponse(ok)>>, None, TRUE)
          PROVE  Phase' /\ HalResponded(ok) /\ HalResponded(ok)'
        <2>1. events' = <<HalResponse(ok)>>
            BY <1>2, <1>5, Shorts DEF At
        <2>2. At(<<HalResponse(ok)>>, None, TRUE)'
            BY <1>2, <1>5, <2>1 DEF At, HalResponse
        <2>3. HalResponded(ok) /\ HalResponded(ok)'
            BY <1>5, <2>2 DEF HalResponded
        <2> QED BY <1>2, <1>3, <2>3 DEF Phase, Stage
    <1> QED BY <1>2, <1>3, <1>4, <1>5

LEMMA CompletePhase ==
    ASSUME ScmiInv, Phase, RequestComplete
    PROVE  /\ Phase' /\ AtDriver
           /\ \E ok \in BOOLEAN :
                 /\ HalResponded(ok)'
                 /\ hw' = IF ok /\ ops.of \in States THEN ops.of ELSE hw
    <1>1. /\ ops.service \in Agents /\ asked[ops.service] = ops.of
          /\ ops.of \in Calls /\ AtDriver
        BY DriverStage DEF RequestComplete
    <1>2. driver = ops.of /\ ongoing = TRUE
        BY <1>1 DEF AtDriver, At
    <1>3. PICK ok \in BOOLEAN :
              /\ events' = Append(events, [kind |-> "response", of |-> driver, ok |-> ok])
              /\ hw' = IF ok /\ driver \in States THEN driver ELSE hw
        BY DEF RequestComplete
    <1>4. UNCHANGED <<ops, asked, stray, ongoing>> /\ driver' = None
        BY DEF RequestComplete, Later, NoAnswer
    <1>5. events' = Append(events, HalResponse(ok)) /\ (HalResponse(ok))' = HalResponse(ok) /\ HeldCall' = HeldCall
        BY <1>2, <1>3, <1>4 DEF HalResponse, HeldCall
    <1>6. events' = <<HeldCall, HalResponse(ok)>> \/ events' = <<HalResponse(ok)>>
        BY <1>1, <1>5, Shorts, ZenonT(30) DEF AtDriver, At
    <1>7. HalResponded(ok)'
        BY <1>2, <1>4, <1>5, <1>6 DEF HalResponded, At
    <1>8. ops.service # None
        BY <1>1, ScmiClockAssumption
    <1> QED BY <1>1, <1>2, <1>3, <1>4, <1>7, <1>8 DEF Phase, Stage

LEMMA ForwardPhase ==
    ASSUME ScmiInv, Phase, ForwardResponse
    PROVE  Phase' /\ \E ok \in BOOLEAN : HalResponded(ok) /\ HalReplied(ok)'
    <1>1. events # << >> /\ Head(events).kind = "response"
        BY DEF ForwardResponse, IsEvent
    <1>2. /\ ops.service # None /\ asked[ops.service] = ops.of /\ ops.of \in Calls
          /\ \E ok \in BOOLEAN : At(<<HalResponse(ok)>>, None, TRUE)
        BY <1>1, HeadStage, ScmiClockAssumption
    <1>3. PICK ok \in BOOLEAN : At(<<HalResponse(ok)>>, None, TRUE)
        BY <1>2
    <1>4. UNCHANGED <<ops, asked, stray, driver>> /\ ongoing' = FALSE
        BY DEF ForwardResponse, Later, NoAnswer
    <1>5. Head(events) = HalResponse(ok) /\ Tail(events) = << >>
        BY <1>3, Shorts DEF At
    <1>6. [Head(events) EXCEPT !.kind = "reply"] = HeldReply(ok)
        BY <1>5 DEF HalResponse, HeldReply
    <1>7. events' = <<HeldReply(ok)>>
        BY <1>5, <1>6, Shorts DEF ForwardResponse
    <1>8. HalReplied(ok)'
        BY <1>3, <1>4, <1>7 DEF HalReplied, HeldReply, At
    <1>9. HalResponded(ok)
        BY <1>3 DEF HalResponded
    <1> QED BY <1>2, <1>4, <1>8, <1>9 DEF Phase, Stage

LEMMA ReplyPhase ==
    ASSUME ScmiInv, Phase, TakeReply
    PROVE  /\ Phase' /\ ops'.service = None /\ UNCHANGED hw
           /\ \E ok \in BOOLEAN : /\ HalReplied(ok)
                                  /\ ScmiRespond(ops.service, ops.of, ok)
                                  /\ UpdateOps(ops.of, ok)
    <1>1. events # << >> /\ Head(events).kind = "reply"
        BY DEF TakeReply, IsEvent
    <1>2. PICK ok \in BOOLEAN : HalReplied(ok)
        BY <1>1, HeadStage
    <1>3. Head(events) = HeldReply(ok) /\ Tail(events) = << >>
        BY <1>2, Shorts DEF HalReplied, At
    <1>4. Head(events).of = ops.of /\ Head(events).ok = ok
        BY <1>3 DEF HeldReply
    <1>5. ScmiRespond(ops.service, ops.of, ok) /\ UpdateOps(ops.of, ok)
        BY <1>4 DEF TakeReply
    <1>6. UNCHANGED stray
        BY <1>1, <1>5, RespondsToService
    <1>7. ops'.service = None
        BY DEF TakeReply, Available, ScmiInv, ScmiTypeOK
    <1>8. At(<< >>, None, FALSE)'
        BY <1>2, <1>3 DEF TakeReply, AtOnce, HalReplied, At
    <1>9. UNCHANGED hw
        BY DEF TakeReply
    <1> QED BY <1>2, <1>5, <1>6, <1>7, <1>8, <1>9 DEF Phase

LEMMA NextPhase == ~GetMayFail /\ ScmiInv /\ Phase /\ [ScmiNext]_scmiVars => Phase'
    <1> SUFFICES ASSUME ~GetMayFail, ScmiInv, Phase, [ScmiNext]_scmiVars PROVE Phase'
        OBVIOUS
    <1>1. CASE UNCHANGED scmiVars
        BY <1>1, StagesKept DEF scmiVars
    <1>2. ASSUME NEW a \in Agents, NEW s \in States, SkipSetState(a, s) PROVE Phase'
        BY <1>2, StagesKept DEF SkipSetState
    <1>3. CASE ScmiNext
        BY <1>2, <1>3, CreatePhase, AtOncePhase, ServeLaterPhase, HoldPhase,
           CompletePhase, ForwardPhase, ReplyPhase DEF ScmiNext, ProcessEvent
    <1> QED BY <1>1, <1>3

\* The events of a stage but those that only hold an answer.
LEMMA StageCounts ==
    ASSUME ScmiInv, Phase
    PROVE  OneUnderWay
    <1> DEFINE E == {i \in DOMAIN events : events[i].kind # "call"}
    <1>1. CASE At(<< >>, None, FALSE) /\ ops.service = None
        <2>1. E = {}
            BY <1>1 DEF At
        <2> QED BY <1>1, <2>1, FS_EmptySet DEF OneUnderWay, At, Phase, ScmiInv
    <1>2. CASE ops.service # None
        <2>1. asked[ops.service] = ops.of /\ Stage /\ ~stray
            BY <1>2 DEF Phase
        <2>2. CASE Requested
            <3>1. E = {1}
                BY <2>2 DEF Requested, At
            <3>2. driver = None
                BY <2>2 DEF Requested, At
            <3>3. Cardinality(E) = 1
                BY <3>1, FS_Singleton
            <3> QED BY <1>2, <2>1, <3>2, <3>3 DEF OneUnderWay, ScmiInv
        <2>3. CASE ops.of \in Calls /\ AtDriver
            <3>1. E = {}
                BY <2>3 DEF AtDriver, At, HeldCall
            <3>2. driver # None
                BY <2>3, ScmiClockAssumption DEF AtDriver, At, Calls
            <3> QED BY <1>2, <2>1, <3>1, <3>2, FS_EmptySet DEF OneUnderWay, ScmiInv
        <2>4. ASSUME NEW ok \in BOOLEAN, HalResponded(ok) \/ HalReplied(ok)
              PROVE  OneUnderWay
            <3>1. driver = None
                BY <2>4 DEF HalResponded, HalReplied, At
            <3>2. E = {1} \/ E = {2}
                BY <2>4 DEF HalResponded, HalReplied, At, HeldCall, HalResponse, HeldReply
            <3>3. Cardinality(E) = 1
                BY <3>2, FS_Singleton
            <3> QED BY <1>2, <2>1, <3>1, <3>3 DEF OneUnderWay, ScmiInv
        <2> QED BY <2>1, <2>2, <2>3, <2>4 DEF Stage
    <1> QED BY <1>1, <1>2 DEF Phase

\* As long as the driver can tell its state and rate, one thing is under way for
\* the agent on record, who waits for what is on record: everyone is answered
\* once (create_event_request, process_request_event, process_response_event).
THEOREM OneAtATime ==
    ASSUME ~GetMayFail
    PROVE  ScmiSpec => []OneUnderWay
    <1>1. ScmiInit => ScmiInv /\ Phase
        BY InitCounts, InitPhase
    <1>2. ScmiInv /\ Phase /\ [ScmiNext]_scmiVars => (ScmiInv /\ Phase)'
        BY NextCounts, NextPhase
    <1>3. ScmiInv /\ Phase => OneUnderWay
        BY StageCounts
    <1> QED BY <1>1, <1>2, <1>3, PTL DEF ScmiSpec

-----------------------------------------------------------------------------
\* What the clock is to do with the operation on record: a start is the first
\* holder's, a stop the last one's, and the driver has carried out what it has
\* reported done.
Done == HalResponded(TRUE) \/ HalReplied(TRUE)

Starting == ops.of = "RUNNING" => count = 0 /\ (Done => hw = "RUNNING")
Stopping == ops.of = "STOPPED" =>
                count = 1 /\ set[ops.service] = "RUNNING" /\ (Done \/ hw = "RUNNING")
Others == ops.of \notin States => (count > 0 => hw = "RUNNING")

HwInv ==
    /\ told = set
    /\ ops.service = None => (count > 0 => hw = "RUNNING")
    /\ ops.service # None => Starting /\ Stopping /\ Others

\* A good answer says that the driver has carried out what is on record.
LEMMA AnswerEnds ==
    ASSUME ScmiInv, Phase, HwInv, events # << >>, NEW ok \in BOOLEAN,
           ScmiRespond(ops.service, ops.of, ok), UpdateOps(ops.of, ok), ops'.service = None,
           ok => /\ ops.of = "RUNNING" => hw' = "RUNNING"
                 /\ ops.of \notin States => hw' = hw,
           ~ok => hw' = hw /\ (ops.of = "STOPPED" => hw = "RUNNING")
    PROVE  HwInv'
    <1>1. ops.service \in Agents /\ ops.of \in Requests /\ ops.service # None
        BY HeadStage, ScmiClockAssumption
    <1>2. told = set /\ Starting /\ Stopping /\ Others
        BY <1>1 DEF HwInv
    <1>3. /\ set \in [Agents -> States] /\ told \in [Agents -> States]
          /\ count = Cardinality(Running(set))
        BY DEF ScmiInv, ScmiTypeOK, CountAgrees
    <1>4. told' = IF ops.of \in States /\ ok
                  THEN [told EXCEPT ![ops.service] = ops.of] ELSE told
        BY RespondsToService
    <1>5. CASE ops.of \in States /\ ok
        <2>1. StateUpdate(ops.service, ops.of) /\ set' = [set EXCEPT ![ops.service] = ops.of]
            BY <1>1, <1>5, UpdateCounts DEF UpdateOps
        <2>2. told' = set'
            BY <1>2, <1>4, <1>5, <2>1
        <2>3. CASE ops.of = "RUNNING"
            BY <1>5, <2>2, <2>3 DEF HwInv
        <2>4. CASE ops.of = "STOPPED"
            <3>1. count = 1 /\ set[ops.service] = "RUNNING"
                BY <1>2, <2>4 DEF Stopping
            <3>2. count' = 0
                BY <2>1, <2>4, <3>1 DEF StateUpdate
            <3> QED BY <2>2, <3>2 DEF HwInv
        <2> QED BY <1>5, <2>3, <2>4 DEF States
    <1>6. CASE ~(ops.of \in States /\ ok)
        <2>1. UNCHANGED <<set, count, told>>
            BY <1>4, <1>6 DEF UpdateOps
        <2>2. hw' = hw
            BY <1>6
        <2>3. count > 0 => hw = "RUNNING"
            <3>1. CASE ops.of = "RUNNING"
                BY <1>2, <3>1 DEF Starting
            <3>2. CASE ops.of = "STOPPED"
                BY <1>6, <3>2 DEF States
            <3>3. CASE ops.of \notin States
                BY <1>2, <3>3 DEF Others
            <3> QED BY <3>1, <3>2, <3>3 DEF States
        <2> QED BY <1>2, <2>1, <2>2, <2>3 DEF HwInv
    <1> QED BY <1>5, <1>6

-----------------------------------------------------------------------------
LEMMA InitHw == ScmiInit => HwInv
    <1> SUFFICES ASSUME ScmiInit PROVE HwInv
        OBVIOUS
    <1>1. told = set /\ ops.service = None
        BY DEF ScmiInit
    <1>2. count > 0 => hw = "RUNNING"
        BY DEF ScmiInit
    <1> QED BY <1>1, <1>2 DEF HwInv

\* An agent that needs no change of the clock.
LEMMA SkipHw ==
    ASSUME ~StartsMeanwhile, ScmiInv, Phase, HwInv, NEW a \in Agents, NEW s \in States,
           SkipSetState(a, s)
    PROVE  HwInv'
    <1>1. /\ set \in [Agents -> States] /\ told = set
          /\ count = Cardinality(Running(set)) /\ count \in Nat
        BY CountFacts DEF ScmiInv, ScmiTypeOK, CountAgrees, HwInv
    <1>2. StateUpdate(a, s) /\ asked[a] = None /\ ~Execute(a, s)
        BY DEF SkipSetState
    <1>3. UNCHANGED <<ops, ongoing, events, driver, hw>> /\ told' = [told EXCEPT ![a] = s]
        BY DEF SkipSetState
    <1>4. /\ set' = [set EXCEPT ![a] = s]
          /\ \/ count' = count
             \/ s = "RUNNING" /\ count' = count + 1
             \/ s = "STOPPED" /\ count' = count - 1
        BY <1>2, UpdateCounts
    <1>5. told' = set'
        BY <1>1, <1>3, <1>4
    <1>6. set[a] = s => UNCHANGED <<set, count>>
        BY <1>2 DEF StateUpdate
    <1>7. set[a] # s => (s = "RUNNING" => count # 0) /\ (s = "STOPPED" => count # 1)
        BY <1>2 DEF Execute
    <1>8. set[a] # s /\ s = "STOPPED" => set[a] = "RUNNING"
        BY <1>1 DEF States
    <1>9. set[a] = "RUNNING" => count > 0
        BY <1>1, CountFacts
    <1>10. count' > 0 => count > 0
        BY <1>1, <1>4, <1>6, <1>7 DEF States
    <1>11. CASE ops.service = None
        BY <1>3, <1>5, <1>10, <1>11 DEF HwInv
    <1>12. CASE ops.service # None
        <2>1. Starting /\ Stopping /\ Others
            BY <1>12 DEF HwInv
        <2>2. /\ ops.service \in Agents /\ ops.of \in Requests
              /\ asked[ops.service] = ops.of /\ a # ops.service
            BY <1>2, <1>12, ScmiClockAssumption DEF Phase, ScmiInv, ScmiTypeOK
        <2>3. UNCHANGED <<Done, ops, hw>>
            BY <1>3 DEF Done, HalResponded, HalReplied, At, HeldCall, HalResponse, HeldReply
        <2>4. CASE ops.of = "RUNNING"
            <3>1. count = 0
                BY <2>1, <2>4 DEF Starting
            <3>2. UNCHANGED count
                BY <1>6, <1>7, <1>8, <1>9, <3>1 DEF States
            <3> QED BY <1>5, <2>1, <2>3, <2>4, <3>2
                DEF HwInv, Starting, Stopping, Others, States
        <2>5. CASE ops.of = "STOPPED"
            <3>1. s # "RUNNING"
                BY <1>12, <2>5 DEF SkipSetState
            <3>2. count = 1
                BY <2>1, <2>5 DEF Stopping
            <3>3. UNCHANGED <<set, count>>
                BY <1>6, <1>7, <3>1, <3>2 DEF States
            <3> QED BY <1>5, <2>1, <2>3, <2>5, <3>3
                DEF HwInv, Starting, Stopping, Others, States
        <2>6. CASE ops.of \notin States
            BY <1>5, <1>10, <2>1, <2>3, <2>6 DEF HwInv, Starting, Stopping, Others, States
        <2> QED BY <2>4, <2>5, <2>6 DEF States
    <1> QED BY <1>11, <1>12

\* A request that becomes the operation on record.
LEMMA CreateHw ==
    ASSUME ScmiInv, Phase, HwInv, NEW a \in Agents, NEW r \in Requests, CreateRequest(a, r)
    PROVE  HwInv'
    <1>1. /\ ops'.service = a /\ ops'.of = r /\ a # None
          /\ UNCHANGED <<set, count, hw, told>> /\ ops.service = None
        BY ScmiClockAssumption DEF CreateRequest, ScmiInv, ScmiTypeOK
    <1>2. told = set /\ (count > 0 => hw = "RUNNING")
        BY <1>1 DEF HwInv
    <1>3. r \in States => set[a] # r /\ count = IF r = "RUNNING" THEN 0 ELSE 1
        BY DEF CreateRequest, Execute
    <1>4. set \in [Agents -> States]
        BY DEF ScmiInv, ScmiTypeOK
    <1>5. ~Done'
        <2>1. At(<< >>, None, FALSE)
            BY <1>1 DEF Phase
        <2>2. events' = <<[kind |-> "request", of |-> r]>> /\ ongoing' = FALSE
            BY <2>1, Shorts DEF CreateRequest, At
        <2> QED BY <2>2 DEF Done, HalResponded, HalReplied, At, HeldReply
    <1>6. Starting'
        BY <1>1, <1>3, <1>5 DEF Starting, States
    <1>7. Stopping'
        <2>1. r = "STOPPED" => set[a] = "RUNNING" /\ count = 1
            BY <1>3, <1>4 DEF States
        <2> QED BY <1>1, <1>2, <2>1 DEF Stopping
    <1>8. Others'
        BY <1>1, <1>2 DEF Others
    <1> QED BY <1>1, <1>2, <1>6, <1>7, <1>8 DEF HwInv

LEMMA AtOnceHw ==
    ASSUME ~GetMayFail, ScmiInv, Phase, HwInv, NEW r \in Requests, ServeAtOnce(r)
    PROVE  HwInv'
    <1>1. PICK ok \in BOOLEAN :
              /\ ScmiRespond(ops.service, ops.of, ok) /\ UpdateOps(ops.of, ok)
              /\ hw' = IF ok /\ ops.of \in States THEN ops.of ELSE hw
        BY AtOncePhase
    <1>2. ops'.service = None
        BY AtOncePhase
    <1>3. events # << >> /\ Head(events).kind = "request"
        BY DEF ServeAtOnce, Request, IsEvent
    <1>4. Requested /\ ops.service # None
        BY <1>3, HeadStage, ScmiClockAssumption
    <1>5. ~Done
        BY <1>4, Shorts DEF Requested, Done, HalResponded, HalReplied, At, HeldReply
    <1>6. ops.of = "STOPPED" => hw = "RUNNING"
        BY <1>4, <1>5 DEF HwInv, Stopping
    <1>7. ops.of = "RUNNING" => ops.of \in States
        BY DEF States
    <1> QED BY <1>1, <1>2, <1>3, <1>6, <1>7, AnswerEnds


\* Whether the operation is done, by its stage.
LEMMA DoneNotYet ==
    /\ Requested \/ AtDriver => ~Done
    /\ (Requested \/ AtDriver)' => ~Done'
    <1>1. Requested \/ AtDriver => ~Done
        BY DEF Requested, AtDriver, Done, HalResponded, HalReplied, At, HeldCall, HalResponse, HeldReply
    <1>2. (Requested \/ AtDriver)' => ~Done'
        BY DEF Requested, AtDriver, Done, HalResponded, HalReplied, At, HeldCall, HalResponse, HeldReply
    <1> QED BY <1>1, <1>2

LEMMA DoneIfGood ==
    ASSUME NEW ok \in BOOLEAN
    PROVE  /\ HalResponded(ok) \/ HalReplied(ok) => (Done <=> ok)
           /\ (HalResponded(ok) \/ HalReplied(ok))' => (Done' <=> ok)
    <1>1. HalResponded(ok) \/ HalReplied(ok) => (Done <=> ok)
        BY DEF Done, HalResponded, HalReplied, At, HeldCall, HalResponse, HeldReply
    <1>2. (HalResponded(ok) \/ HalReplied(ok))' => (Done' <=> ok)
        BY DEF Done, HalResponded, HalReplied, At, HeldCall, HalResponse, HeldReply
    <1> QED BY <1>1, <1>2

\* The operation goes on: what the driver has done is what will be told.
LEMMA GoesOn ==
    ASSUME HwInv, UNCHANGED <<set, count, told, ops>>,
           \/ UNCHANGED hw /\ (Done' <=> Done)
           \/ ~Done /\ Done' /\ hw' = (IF ops.of \in States THEN ops.of ELSE hw)
              /\ ops.service # None
    PROVE  HwInv'
    <1>1. CASE UNCHANGED hw /\ (Done' <=> Done)
        BY <1>1 DEF HwInv, Starting, Stopping, Others
    <1>2. CASE ~Done /\ Done' /\ hw' = (IF ops.of \in States THEN ops.of ELSE hw)
               /\ ops.service # None
        BY <1>2 DEF HwInv, Starting, Stopping, Others, States
    <1> QED BY <1>1, <1>2

LEMMA ServeLaterHw ==
    ASSUME ScmiInv, Phase, HwInv, NEW r \in Requests, ServeLater(r) PROVE HwInv'
    <1>1. ~Done /\ ~Done'
        BY ServeLaterPhase, DoneNotYet
    <1>2. UNCHANGED <<set, count, told, ops, hw>>
        BY DEF ServeLater, Later, NoAnswer
    <1> QED BY <1>1, <1>2, GoesOn

LEMMA HoldHw ==
    ASSUME ScmiInv, Phase, HwInv, HoldResponse PROVE HwInv'
    <1>1. \/ AtDriver /\ AtDriver'
          \/ \E ok \in BOOLEAN : HalResponded(ok) /\ HalResponded(ok)'
        BY HoldPhase
    <1>2. Done' <=> Done
        BY <1>1, DoneNotYet, DoneIfGood
    <1>3. UNCHANGED <<set, count, told, ops, hw>>
        BY DEF HoldResponse, Later, NoAnswer
    <1> QED BY <1>2, <1>3, GoesOn

LEMMA CompleteHw ==
    ASSUME ScmiInv, Phase, HwInv, RequestComplete PROVE HwInv'
    <1>1. PICK ok \in BOOLEAN :
              /\ HalResponded(ok)'
              /\ hw' = IF ok /\ ops.of \in States THEN ops.of ELSE hw
        BY CompletePhase
    <1>2. ~Done /\ (Done' <=> ok)
        BY <1>1, CompletePhase, DoneNotYet, DoneIfGood
    <1>3. UNCHANGED <<set, count, told, ops>>
        BY DEF RequestComplete, Later, NoAnswer
    <1>4. ops.service # None
        BY DriverStage, ScmiClockAssumption DEF RequestComplete
    <1> QED BY <1>1, <1>2, <1>3, <1>4, GoesOn

LEMMA ForwardHw ==
    ASSUME ScmiInv, Phase, HwInv, ForwardResponse PROVE HwInv'
    <1>1. PICK ok \in BOOLEAN : HalResponded(ok) /\ HalReplied(ok)'
        BY ForwardPhase
    <1>2. Done' <=> Done
        BY <1>1, DoneIfGood
    <1>3. UNCHANGED <<set, count, told, ops, hw>>
        BY DEF ForwardResponse, Later, NoAnswer
    <1> QED BY <1>2, <1>3, GoesOn

LEMMA ReplyHw ==
    ASSUME ScmiInv, Phase, HwInv, TakeReply PROVE HwInv'
    <1>1. PICK ok \in BOOLEAN : /\ HalReplied(ok)
                                /\ ScmiRespond(ops.service, ops.of, ok)
                                /\ UpdateOps(ops.of, ok)
        BY ReplyPhase
    <1>2. ops'.service = None /\ UNCHANGED hw
        BY ReplyPhase
    <1>3. events # << >>
        BY DEF TakeReply, IsEvent
    <1>4. ops.service # None
        BY <1>3, HeadStage, ScmiClockAssumption
    <1>5. Done <=> ok
        BY <1>1, DoneIfGood
    <1>6. ~ok => (ops.of = "STOPPED" => hw = "RUNNING")
        BY <1>4, <1>5 DEF HwInv, Stopping
    <1>7. ok => (ops.of = "RUNNING" => hw = "RUNNING")
        BY <1>4, <1>5 DEF HwInv, Starting
    <1> QED BY <1>1, <1>2, <1>3, <1>6, <1>7, AnswerEnds

LEMMA NextHw ==
    ~GetMayFail /\ ~StartsMeanwhile /\ ScmiInv /\ Phase /\ HwInv /\ [ScmiNext]_scmiVars
        => HwInv'
    <1> SUFFICES ASSUME ~GetMayFail, ~StartsMeanwhile, ScmiInv, Phase, HwInv,
                        [ScmiNext]_scmiVars
                 PROVE  HwInv'
        OBVIOUS
    <1>1. CASE UNCHANGED scmiVars
        BY <1>1
            DEF scmiVars, HwInv, Starting, Stopping, Others, Done, HalResponded,
                HalReplied, At,
                    HeldCall, HalResponse, HeldReply
    <1>2. CASE ScmiNext
        BY <1>2, SkipHw, CreateHw, AtOnceHw, ServeLaterHw, HoldHw, CompleteHw, ForwardHw,
           ReplyHw DEF ScmiNext, ProcessEvent
    <1> QED BY <1>1, <1>2

\* The clock may stop only for its last holder, who then waits for the answer.
LEMMA HwTold ==
    ASSUME ScmiInv, Phase, HwInv
    PROVE  ToldRuns
    <1>1. /\ set \in [Agents -> States] /\ told = set /\ count = Cardinality(Running(set))
        BY DEF ScmiInv, ScmiTypeOK, CountAgrees, HwInv
    <1> SUFFICES ASSUME NEW a \in Agents, told[a] = "RUNNING", asked[a] # "STOPPED"
                 PROVE  hw = "RUNNING"
        BY DEF ToldRuns
    <1>2. set[a] = "RUNNING" /\ count > 0
        BY <1>1, CountFacts
    <1>3. CASE ops.service = None
        BY <1>2, <1>3 DEF HwInv
    <1>4. CASE ops.service # None
        <2>1. ops.service \in Agents /\ asked[ops.service] = ops.of
            BY <1>4 DEF Phase, ScmiInv, ScmiTypeOK
        <2>2. Starting /\ Stopping /\ Others
            BY <1>4 DEF HwInv
        <2>3. ops.of # "RUNNING"
            BY <1>2, <2>2 DEF Starting
        <2>4. CASE ops.of = "STOPPED"
            <3>1. count = 1 /\ set[ops.service] = "RUNNING"
                BY <2>2, <2>4 DEF Stopping
            <3>2. a = ops.service
                BY <1>1, <1>2, <2>1, <3>1, CountFacts
            <3> QED BY <2>1, <2>4, <3>2
        <2>5. CASE ops.of \notin States
            BY <1>2, <2>2, <2>5 DEF Others
        <2> QED BY <2>3, <2>4, <2>5 DEF States
    <1> QED BY <1>3, <1>4

\* When moreover nobody starts the clock while the stop of its last holder is
\* under way, the clock runs for every agent that was told so
\* (mod_scmi_clock_request_state_check and mod_scmi_clock_state_update).
THEOREM RunsForHolders ==
    ASSUME ~GetMayFail, ~StartsMeanwhile
    PROVE  ScmiSpec => []ToldRuns
    <1>1. ScmiInit => ScmiInv /\ Phase /\ HwInv
        BY InitCounts, InitPhase, InitHw
    <1>2. ScmiInv /\ Phase /\ HwInv /\ [ScmiNext]_scmiVars => (ScmiInv /\ Phase /\ HwInv)'
        BY NextCounts, NextPhase, NextHw
    <1>3. ScmiInv /\ Phase /\ HwInv => ToldRuns
        BY HwTold
    <1> QED BY <1>1, <1>2, <1>3, PTL DEF ScmiSpec
==============================================================================
