---------------------------- MODULE FwkCoreProofs ----------------------------
(***************************************************************************)
(* Theorems about FwkCore, for every pool, set of entities, cookie width   *)
(* and bound.                                                              *)
(***************************************************************************)
EXTENDS FwkCore, SeqLemmas, FiniteSetTheorems, FunctionTheorems

-----------------------------------------------------------------------------
(* Type correctness.  TypeOK is not inductive alone: that a step reads the *)
(* structure it needs follows from where the thread is.                    *)

\* The thread holds an event structure exactly where its next step uses it.
HandsInv ==
    /\ pc \in {"handle", "respond", "free"} <=> current # NoSlot
    /\ pc = "push" <=> moving # NoSlot
    /\ stage # "none" <=> new # NoSlot
    /\ stage # "none" => pc \in {"start", "handle", "respond"}

\* The structures of the initial pool are events.
LEMMA BlankType == Blank \in Event
    <1>1. \E x \in Entities : TRUE
        BY EntitiesAssumption
    <1>2. (CHOOSE x \in Entities : TRUE) \in Entities
        BY <1>1
    <1> QED BY <1>2 DEF Blank, Request, Event

\* duplicate_event makes an event.
LEMMA RequestType ==
    ASSUME NEW s \in Entities, NEW t \in Entities, NEW rr \in BOOLEAN,
           NEW l \in BOOLEAN
    PROVE  Request(s, t, rr, l) \in Event
    BY DEF Request, Event

\* So does the response process_next_event fills in.
LEMMA ResponseType ==
    ASSUME NEW e \in Event, NEW d \in BOOLEAN
    PROVE  Response(e, d) \in Event
    BY DEF Response, Event

\* The counter stays a cookie when it wraps.
LEMMA NextCookieType ==
    ASSUME NEW c \in Cookies
    PROVE  NextCookie(c) \in Cookies
    <1>1. c + 1 \in Int /\ CookieMod \in Nat /\ CookieMod > 0
        BY CookieAssumption DEF Cookies
    <1> QED BY <1>1 DEF NextCookie, Cookies

\* The counter starts as a cookie.
LEMMA ZeroCookie == 0 \in Cookies
    BY CookieAssumption DEF Cookies

\* What a step that allocates an event structure does to pool and contents.
LEMMA AllocateType ==
    ASSUME TypeOK, NEW e \in Event, Allocate(e)
    PROVE  /\ Head(free) \in Slots
           /\ free' \in Seq(Slots)
           /\ event' \in [Slots -> Event]
    BY TailFacts DEF TypeOK, Allocate

\* The entities a thread call may name as source are entities.
LEMMA RaiserType ==
    ASSUME TypeOK
    PROVE  Raiser \subseteq Entities
    <1>1. CASE current = NoSlot
        BY <1>1 DEF Raiser
    <1>2. CASE current # NoSlot
        <2>1. event[current] \in Event
            BY <1>2 DEF TypeOK
        <2> QED BY <1>2, <2>1 DEF Raiser, Event
    <1> QED BY <1>1, <1>2

\* The engine starts with its types and nothing in hand.
LEMMA InitType == Init => TypeOK /\ HandsInv
    <1> SUFFICES ASSUME Init PROVE TypeOK /\ HandsInv
        OBVIOUS
    <1> USE DEF Init
    <1>1. free \in Seq(Slots)
        <2>1. Cardinality(Slots) \in Nat
            BY SlotsAssumption, FS_CardinalityType
        <2> QED BY <2>1
    <1>2. event \in [Slots -> Event]
        BY BlankType
    <1>3. cookie \in [Slots -> Cookies] /\ counter \in Cookies /\ seen \in Cookies
        BY ZeroCookie
    <1>4. /\ queue \in Seq(Slots) /\ isrQueue \in Seq(Slots)
          /\ held \in [Entities -> Seq(Slots)]
        BY EmptySeq
    <1>5. TypeOK
        BY <1>1, <1>2, <1>3, <1>4 DEF TypeOK, PCs, Stages
    <1>6. HandsInv
        BY DEF HandsInv
    <1> QED BY <1>5, <1>6

\* Each step keeps the types, and what the thread has in hand.
LEMMA NextType == TypeOK /\ HandsInv /\ [Next]_vars => TypeOK' /\ HandsInv'
    <1> SUFFICES ASSUME TypeOK, HandsInv, [Next]_vars PROVE TypeOK' /\ HandsInv'
        OBVIOUS
    <1> USE DEF PCs, Stages
    <1>1. CASE RaiseEvent
        <2>1. PICK s \in Raiser, t \in Entities, rr \in BOOLEAN :
                  Allocate(Request(s, t, rr, FALSE))
            BY <1>1 DEF RaiseEvent
        <2>2. /\ Head(free) \in Slots /\ free' \in Seq(Slots)
              /\ event' \in [Slots -> Event]
            BY <2>1, RaiserType, RequestType, AllocateType
        <2>3. TypeOK'
            BY <1>1, <2>2 DEF RaiseEvent, TypeOK
        <2>4. HandsInv'
            BY <1>1, <2>2, SlotsAssumption
               DEF RaiseEvent, MayRaise, HandsInv
        <2> QED BY <2>3, <2>4
    <1>2. CASE RaiseLightEvent
        <2>1. PICK s \in Raiser, t \in Entities, rr \in BOOLEAN :
                  Allocate(Request(s, t, rr, TRUE))
            BY <1>2 DEF RaiseLightEvent
        <2>2. /\ Head(free) \in Slots /\ free' \in Seq(Slots)
              /\ event' \in [Slots -> Event]
            BY <2>1, RaiserType, RequestType, AllocateType
        <2>3. queue' \in Seq(Slots)
            BY <1>2, <2>2, AppendFacts DEF RaiseLightEvent, TypeOK
        <2>4. TypeOK'
            BY <1>2, <2>2, <2>3 DEF RaiseLightEvent, TypeOK, thread
        <2>5. HandsInv'
            BY <1>2 DEF RaiseLightEvent, HandsInv, thread
        <2> QED BY <2>4, <2>5
    <1>3. CASE RaiseDelayedResponse
        <2>1. PICK e \in Raiser : \E i \in DOMAIN held[e] :
                  /\ held' = [held EXCEPT ![e] = RemoveAt(@, i)]
                  /\ new' = held[e][i]
            BY <1>3 DEF RaiseDelayedResponse
        <2>2. PICK i \in DOMAIN held[e] :
                  /\ held' = [held EXCEPT ![e] = RemoveAt(@, i)]
                  /\ new' = held[e][i]
            BY <2>1
        <2>3. e \in Entities /\ held[e] \in Seq(Slots)
            BY RaiserType DEF TypeOK
        <2>4. held[e][i] \in Slots /\ RemoveAt(held[e], i) \in Seq(Slots)
            BY <2>3, RemoveAtFacts
        <2>5. TypeOK'
            BY <1>3, <2>2, <2>3, <2>4 DEF RaiseDelayedResponse, TypeOK
        <2>6. HandsInv'
            BY <1>3, <2>2, <2>4, SlotsAssumption
               DEF RaiseDelayedResponse, HandsInv
        <2> QED BY <2>5, <2>6
    <1>4. CASE LoadCounter
        BY <1>4 DEF LoadCounter, TypeOK, HandsInv, lists
    <1>5. CASE StoreAndQueue
        <2>1. new \in Slots
            BY <1>5 DEF StoreAndQueue, HandsInv, TypeOK
        <2>2. queue' \in Seq(Slots)
            BY <1>5, <2>1, AppendFacts DEF StoreAndQueue, TypeOK
        <2>3. counter' \in Cookies
            BY <1>5, NextCookieType DEF StoreAndQueue, TypeOK
        <2>4. TypeOK'
            BY <1>5, <2>1, <2>2, <2>3 DEF StoreAndQueue, TypeOK
        <2>5. HandsInv'
            BY <1>5 DEF StoreAndQueue, HandsInv
        <2> QED BY <2>4, <2>5
    <1>6. CASE EnterMainLoop
        BY <1>6 DEF EnterMainLoop, TypeOK, HandsInv, lists
    <1>7. CASE PopEvent
        <2>1. Head(queue) \in Slots /\ Tail(queue) \in Seq(Slots)
            BY <1>7, TailFacts DEF PopEvent, TypeOK
        <2>2. TypeOK'
            BY <1>7, <2>1 DEF PopEvent, TypeOK
        <2>3. HandsInv'
            BY <1>7, <2>1, SlotsAssumption DEF PopEvent, HandsInv
        <2> QED BY <2>2, <2>3
    <1>8. CASE HandlerReturns
        <2>1. current \in Slots
            BY <1>8 DEF HandlerReturns, HandsInv, TypeOK
        <2>2. PICK delay \in BOOLEAN :
                  event' = [event EXCEPT ![current].isDelayedResponse = delay]
            BY <1>8 DEF HandlerReturns
        <2>3. [event[current] EXCEPT !.isDelayedResponse = delay] \in Event
            BY <2>1 DEF TypeOK, Event
        <2>4. event' \in [Slots -> Event]
            BY <2>1, <2>2, <2>3 DEF TypeOK
        <2>5. TypeOK'
            BY <1>8, <2>4 DEF HandlerReturns, TypeOK, lists
        <2>6. HandsInv'
            BY <1>8 DEF HandlerReturns, HandsInv
        <2> QED BY <2>5, <2>6
    <1>9. CASE Respond
        <2>1. current \in Slots /\ event[current] \in Event
            BY <1>9 DEF Respond, HandsInv, TypeOK
        <2>2. CASE free # <<>>
            <3>1. Allocate(Response(event[current], FALSE))
                BY <1>9, <2>2 DEF Respond
            <3>2. /\ Head(free) \in Slots /\ free' \in Seq(Slots)
                  /\ event' \in [Slots -> Event]
                BY <3>1, <2>1, ResponseType, AllocateType
            <3>3. TypeOK'
                BY <1>9, <2>2, <3>2 DEF Respond, TypeOK
            <3>4. HandsInv'
                BY <1>9, <2>2, <3>2, SlotsAssumption DEF Respond, HandsInv
            <3> QED BY <3>3, <3>4
        <2>3. CASE free = <<>>
            <3>1. TypeOK'
                BY <1>9, <2>3 DEF Respond, TypeOK
            <3>2. HandsInv'
                BY <1>9, <2>3 DEF Respond, HandsInv
            <3> QED BY <3>1, <3>2
        <2> QED BY <2>2, <2>3
    <1>10. CASE HoldResponse
        <2>1. current \in Slots /\ event[current] \in Event
            BY <1>10 DEF HoldResponse, HandsInv, TypeOK
        <2>2. CASE free # <<>>
            <3>1. Allocate(Response(event[current], TRUE))
                BY <1>10, <2>2 DEF HoldResponse
            <3>2. /\ Head(free) \in Slots /\ free' \in Seq(Slots)
                  /\ event' \in [Slots -> Event]
                BY <3>1, <2>1, ResponseType, AllocateType
            <3>3. event[current].target \in Entities
                BY <2>1 DEF Event
            <3>4. Append(held[event[current].target], Head(free)) \in Seq(Slots)
                BY <3>2, <3>3, AppendFacts DEF TypeOK
            <3>5. held' \in [Entities -> Seq(Slots)]
                BY <1>10, <2>2, <3>3, <3>4 DEF HoldResponse, TypeOK
            <3>6. cookie' \in [Slots -> Cookies]
                BY <1>10, <2>1, <2>2, <3>2 DEF HoldResponse, TypeOK
            <3> QED
                BY <1>10, <2>2, <3>2, <3>5, <3>6
                   DEF HoldResponse, TypeOK, HandsInv
        <2>3. CASE free = <<>>
            BY <1>10, <2>3 DEF HoldResponse, TypeOK, HandsInv
        <2> QED BY <2>2, <2>3
    <1>11. CASE FreeEvent
        <2>1. current \in Slots
            BY <1>11 DEF FreeEvent, HandsInv, TypeOK
        <2>2. free' \in Seq(Slots)
            BY <1>11, <2>1, AppendFacts DEF FreeEvent, TypeOK
        <2>3. event' \in [Slots -> Event]
            BY <1>11, <2>1, BlankType DEF FreeEvent, TypeOK
        <2>4. TypeOK'
            BY <1>11, <2>2, <2>3 DEF FreeEvent, TypeOK
        <2>5. HandsInv'
            BY <1>11 DEF FreeEvent, HandsInv
        <2> QED BY <2>4, <2>5
    <1>12. CASE PopIsrEvent
        <2>1. CASE isrQueue # <<>>
            <3>1. Head(isrQueue) \in Slots /\ Tail(isrQueue) \in Seq(Slots)
                BY <2>1, TailFacts DEF TypeOK
            <3>2. TypeOK'
                BY <1>12, <2>1, <3>1 DEF PopIsrEvent, TypeOK
            <3>3. HandsInv'
                BY <1>12, <2>1, <3>1, SlotsAssumption DEF PopIsrEvent, HandsInv
            <3> QED BY <3>2, <3>3
        <2>2. CASE isrQueue = <<>>
            BY <1>12, <2>2 DEF PopIsrEvent, TypeOK, HandsInv
        <2> QED BY <2>1, <2>2
    <1>13. CASE PushIsrEvent
        <2>1. moving \in Slots
            BY <1>13 DEF PushIsrEvent, HandsInv, TypeOK
        <2>2. queue' \in Seq(Slots)
            BY <1>13, <2>1, AppendFacts DEF PushIsrEvent, TypeOK
        <2> QED
            BY <1>13, <2>2 DEF PushIsrEvent, TypeOK, HandsInv
    <1>14. CASE Unbuffer
        BY <1>14 DEF Unbuffer, TypeOK, HandsInv, lists
    <1>15. CASE Suspend
        BY <1>15 DEF Suspend, TypeOK, HandsInv, lists
    <1>16. CASE IsrRaisesEvent
        <2>1. PICK s \in Entities, t \in Entities :
                  Allocate(Request(s, t, FALSE, FALSE))
            BY <1>16 DEF IsrRaisesEvent
        <2>2. /\ Head(free) \in Slots /\ free' \in Seq(Slots)
              /\ event' \in [Slots -> Event]
            BY <2>1, RequestType, AllocateType
        <2>3. isrQueue' \in Seq(Slots)
            BY <1>16, <2>2, AppendFacts DEF IsrRaisesEvent, TypeOK
        <2>4. counter' \in Cookies /\ cookie' \in [Slots -> Cookies]
            BY <1>16, <2>2, NextCookieType DEF IsrRaisesEvent, TypeOK
        <2>5. TypeOK'
            BY <1>16, <2>2, <2>3, <2>4 DEF IsrRaisesEvent, TypeOK, thread
        <2>6. HandsInv'
            BY <1>16 DEF IsrRaisesEvent, HandsInv, thread
        <2> QED BY <2>5, <2>6
    <1>17. CASE IsrRaisesNothing
        BY <1>17 DEF IsrRaisesNothing, TypeOK, HandsInv, lists, thread
    <1>18. CASE UNCHANGED vars
        BY <1>18 DEF vars, TypeOK, HandsInv, lists, thread
    <1> QED
        BY <1>1, <1>2, <1>3, <1>4, <1>5, <1>6, <1>7, <1>8, <1>9, <1>10, <1>11,
           <1>12, <1>13, <1>14, <1>15, <1>16, <1>17, <1>18
           DEF Next, Raise, Loop, Isr

\* The engine is type correct, and in particular no step dereferences a NULL
\* event: wherever an action reads current, new or moving it is a structure.
THEOREM TypeCorrect == Spec => [](TypeOK /\ HandsInv)
    BY InitType, NextType, PTL DEF Spec

-----------------------------------------------------------------------------
(* Conservation.  With the lists as sets of event structures, each step    *)
(* takes one structure from one place and puts it in another.              *)

Inv == TypeOK /\ HandsInv /\ Conservation

HeldApart ==
    /\ \A e \in Entities : IsInjective(held[e])
    /\ \A d, e \in Entities : d # e => Range(held[d]) \cap Range(held[e]) = {}

\* A structure that is in no delayed-response list may be pushed to one.
LEMMA HeldPush ==
    ASSUME TypeOK, HeldApart, NEW e \in Entities,
           NEW x \in Slots, x \notin HeldSlots,
           held' = [held EXCEPT ![e] = Append(@, x)]
    PROVE  HeldApart' /\ HeldSlots' = HeldSlots \cup {x}
    <1>1. /\ held[e] \in Seq(Slots) /\ x \notin Range(held[e])
          /\ \A d \in Entities : x \notin Range(held[d])
        BY DEF TypeOK, HeldSlots
    <1>2. /\ Range(Append(held[e], x)) = Range(held[e]) \cup {x}
          /\ IsInjective(Append(held[e], x))
        BY <1>1, AppendFacts DEF HeldApart
    <1>3. \A d \in Entities :
              held'[d] = IF d = e THEN Append(held[e], x) ELSE held[d]
        BY DEF TypeOK
    <1>4. \A d \in Entities :
              Range(held'[d]) = IF d = e THEN Range(held[e]) \cup {x}
                                ELSE Range(held[d])
        <2>1. held'[e] = Append(held[e], x)
            BY <1>3
        <2>2. \A d \in Entities : d # e => held'[d] = held[d]
            BY <1>3
        <2>3. Range(held'[e]) = Range(held[e]) \cup {x}
            BY <2>1, <1>2, Zenon
        <2>4. \A d \in Entities : d # e => Range(held'[d]) = Range(held[d])
            BY <2>2
        <2> QED BY <2>3, <2>4
    <1>5. HeldApart'
        <2>1. \A d \in Entities : IsInjective(held'[d])
            BY <1>2, <1>3 DEF HeldApart
        <2>2. \A c, d \in Entities :
                  c # d => Range(held'[c]) \cap Range(held'[d]) = {}
            BY <1>1, <1>4, SMTT(30) DEF HeldApart
        <2> QED BY <2>1, <2>2 DEF HeldApart
    <1>6. HeldSlots' = HeldSlots \cup {x}
        BY <1>4 DEF HeldSlots
    <1> QED BY <1>5, <1>6

\* The structure removed from a delayed-response list is in none afterwards.
LEMMA HeldRemove ==
    ASSUME TypeOK, HeldApart, NEW e \in Entities, NEW i \in DOMAIN held[e],
           held' = [held EXCEPT ![e] = RemoveAt(@, i)]
    PROVE  /\ HeldApart'
           /\ held[e][i] \in HeldSlots
           /\ HeldSlots' = HeldSlots \ {held[e][i]}
    <1> DEFINE x == held[e][i]
    <1>1. held[e] \in Seq(Slots) /\ IsInjective(held[e])
        BY DEF TypeOK, HeldApart
    <1>2. /\ x \in Range(held[e])
          /\ Range(held[e]) = Range(RemoveAt(held[e], i)) \cup {x}
          /\ IsInjective(RemoveAt(held[e], i))
          /\ x \notin Range(RemoveAt(held[e], i))
        BY <1>1, RemoveAtFacts
    <1> HIDE DEF x
    <1>3. \A d \in Entities :
              held'[d] = IF d = e THEN RemoveAt(held[e], i) ELSE held[d]
        BY DEF TypeOK
    <1>4. \A d \in Entities :
              Range(held'[d]) = IF d = e THEN Range(held[e]) \ {x}
                                ELSE Range(held[d])
        BY <1>2, <1>3
    <1>5. HeldApart'
        <2>1. \A d \in Entities : IsInjective(held'[d])
            BY <1>2, <1>3 DEF HeldApart
        <2>2. \A c, d \in Entities :
                  c # d => Range(held'[c]) \cap Range(held'[d]) = {}
            BY <1>4 DEF HeldApart
        <2> QED BY <2>1, <2>2 DEF HeldApart
    <1>6. \A d \in Entities : d # e => x \notin Range(held[d])
        BY <1>2 DEF HeldApart
    <1>7. x \in HeldSlots
        BY <1>2 DEF HeldSlots
    <1>8. HeldSlots' = HeldSlots \ {x}
        BY <1>4, <1>6 DEF HeldSlots
    <1> QED BY <1>5, <1>7, <1>8 DEF x

\* Popping the pool, the event queue or the interrupt queue.
LEMMA PopFacts ==
    ASSUME TypeOK, NoDuplicates, NEW q \in {free, queue, isrQueue}, q # <<>>
    PROVE  /\ Head(q) \in Range(q)
           /\ Head(q) \in Slots
           /\ Range(Tail(q)) = Range(q) \ {Head(q)}
           /\ IsInjective(Tail(q))
    <1>1. q \in Seq(Slots) /\ IsInjective(q)
        BY DEF TypeOK, NoDuplicates
    <1> QED BY <1>1, TailFacts

\* Pushing to the pool, the event queue or the interrupt queue.
LEMMA PushFacts ==
    ASSUME TypeOK, NoDuplicates, NEW q \in {free, queue, isrQueue},
           NEW x \in Slots, x \notin Range(q)
    PROVE  /\ Range(Append(q, x)) = Range(q) \cup {x}
           /\ IsInjective(Append(q, x))
    <1>1. q \in Seq(Slots) /\ IsInjective(q)
        BY DEF TypeOK, NoDuplicates
    <1> QED BY <1>1, AppendFacts

\* A step that leaves the delayed responses alone leaves their places alone.
LEMMA HeldUnchanged ==
    ASSUME UNCHANGED held
    PROVE  HeldSlots' = HeldSlots /\ (HeldApart => HeldApart')
    BY DEF HeldSlots, HeldApart

\* Every structure starts in the free list, once.
LEMMA InitConservation == Init => Conservation
    <1> SUFFICES ASSUME Init PROVE Conservation
        OBVIOUS
    <1> DEFINE n == Cardinality(Slots)
    <1>1. n \in Nat /\ free \in [1 .. n -> Slots] /\ IsInjective(free)
        BY SlotsAssumption, FS_CardinalityType DEF Init
    <1>2. Range(free) = Slots
        <2>1. IsFiniteSet(1 .. n) /\ Cardinality(1 .. n) = n
            BY <1>1, FS_Interval
        <2>2. Range(free) \subseteq Slots
            BY <1>1 DEF Range
        <2>3. /\ free \in Surjection(1 .. n, Range(free))
              /\ free \in Injection(1 .. n, Range(free))
            BY <1>1 DEF IsInjective, Injection, Surjection, Range
        <2>4. IsFiniteSet(Range(free)) /\ Cardinality(Range(free)) = n
            BY <2>1, <2>3, FS_Surjection
        <2> QED BY <2>2, <2>4, SlotsAssumption, FS_Subset
    <1>3. /\ Range(queue) = {} /\ Range(isrQueue) = {} /\ HeldSlots = {}
          /\ InHand = {}
        BY DEF Init, Range, HeldSlots, InHand
    <1>4. NoDuplicates
        BY <1>1 DEF Init, NoDuplicates, IsInjective, Range
    <1>5. Disjoint
        BY <1>3 DEF Init, Disjoint
    <1>6. NoneLost
        BY <1>2, <1>3 DEF NoneLost
    <1> QED BY <1>4, <1>5, <1>6 DEF Conservation

\* Conservation as one statement about sets, the form each step is shown to
\* preserve: F, Q, I, H are the ranges of the lists; c, n, m what is in hand.
Partition(F, Q, I, H, c, n, m) ==
    /\ F \cap Q = {} /\ F \cap I = {} /\ F \cap H = {}
    /\ Q \cap I = {} /\ Q \cap H = {} /\ I \cap H = {}
    /\ c \notin F \cup Q \cup I \cup H
    /\ n \notin F \cup Q \cup I \cup H
    /\ m \notin F \cup Q \cup I \cup H
    /\ c = n => n = NoSlot
    /\ c = m => m = NoSlot
    /\ n = m => n = NoSlot
    /\ Slots = F \cup Q \cup I \cup H \cup (({c} \cup {n} \cup {m}) \ {NoSlot})

\* Each structure in one place is the invariant the runs check.
LEMMA PartitionIsConservation ==
    TypeOK => ( Disjoint /\ NoneLost <=>
                Partition(Range(free), Range(queue), Range(isrQueue), HeldSlots,
                          current, new, moving) )
    <1> SUFFICES ASSUME TypeOK
                 PROVE  Disjoint /\ NoneLost <=>
                            Partition(Range(free), Range(queue),
                                      Range(isrQueue), HeldSlots, current, new,
                                      moving)
        OBVIOUS
    <1>1. /\ Range(free) \subseteq Slots /\ Range(queue) \subseteq Slots
          /\ Range(isrQueue) \subseteq Slots
        BY SeqBasics DEF TypeOK
    <1>2. HeldSlots \subseteq Slots
        BY SeqBasics DEF TypeOK, HeldSlots
    <1>3. NoSlot \notin Range(free) \cup Range(queue) \cup Range(isrQueue)
                        \cup HeldSlots
        BY <1>1, <1>2, SlotsAssumption
    <1> QED BY <1>3 DEF Disjoint, NoneLost, InHand, Partition

\* The same of the next state.
LEMMA PartitionNext ==
    (TypeOK => ( Disjoint /\ NoneLost <=>
                 Partition(Range(free), Range(queue), Range(isrQueue), HeldSlots,
                           current, new, moving) ))'
    BY PartitionIsConservation, PTL

\* Each step moves at most one structure from one place to another.
LEMMA NextConservation == Inv /\ [Next]_vars => Conservation'
    <1> SUFFICES ASSUME Inv, [Next]_vars PROVE Conservation'
        OBVIOUS
    <1> DEFINE F == Range(free)
               Q == Range(queue)
               I == Range(isrQueue)
    <1>a. /\ TypeOK /\ HandsInv /\ NoDuplicates /\ HeldApart
          /\ Partition(F, Q, I, HeldSlots, current, new, moving)
          /\ IsInjective(free) /\ IsInjective(queue) /\ IsInjective(isrQueue)
        BY PartitionIsConservation
           DEF Inv, Conservation, NoDuplicates, HeldApart
    <1>b. TypeOK' /\ HandsInv'
        BY NextType DEF Inv
    <1>c. SUFFICES /\ HeldApart'
                   /\ IsInjective(free') /\ IsInjective(queue')
                   /\ IsInjective(isrQueue')
                   /\ Partition(F', Q', I', HeldSlots', current', new', moving')
        <2>1. TypeOK' => (Disjoint' /\ NoneLost' <=>
                  Partition(F', Q', I', HeldSlots', current', new', moving'))
            BY PartitionNext
        <2> QED BY <1>b, <2>1 DEF Conservation, NoDuplicates, HeldApart
    <1> HIDE DEF F, Q, I
    <1>pool. ASSUME free # <<>>
             PROVE  /\ Head(free) \in F /\ Head(free) \in Slots
                    /\ Head(free) # NoSlot
                    /\ Range(Tail(free)) = F \ {Head(free)}
                    /\ IsInjective(Tail(free))
        BY <1>a, <1>pool, PopFacts, SlotsAssumption DEF F
    <1>1. CASE RaiseEvent
        <2>1. free # <<>> /\ free' = Tail(free)
            BY <1>1 DEF RaiseEvent, Allocate
        <2>2. F' = F \ {Head(free)} /\ Q' = Q /\ I' = I
            BY <1>1, <2>1, <1>pool DEF RaiseEvent, F, Q, I
        <2>3. HeldSlots' = HeldSlots /\ HeldApart'
            BY <1>1, <1>a, HeldUnchanged DEF RaiseEvent
        <2>4. /\ new = NoSlot /\ new' = Head(free)
              /\ current' = current /\ moving' = moving
            BY <1>1, <1>a DEF RaiseEvent, MayRaise, HandsInv
        <2>5. Partition(F', Q', I', HeldSlots', current', new', moving')
            BY <2>1, <2>2, <2>3, <2>4, <1>a, <1>pool DEF Partition
        <2> QED BY <1>1, <2>1, <2>3, <2>5, <1>a, <1>pool DEF RaiseEvent
    <1>2. CASE RaiseLightEvent
        <2>1. /\ free # <<>> /\ free' = Tail(free)
              /\ queue' = Append(queue, Head(free))
            BY <1>2 DEF RaiseLightEvent, Allocate
        <2>2. Head(free) \notin Q
            BY <2>1, <1>pool, <1>a DEF Partition
        <2>3. Q' = Q \cup {Head(free)} /\ IsInjective(queue')
            BY <2>1, <2>2, <1>a, <1>pool, PushFacts DEF Q
        <2>4. F' = F \ {Head(free)} /\ I' = I
            BY <1>2, <2>1, <1>pool DEF RaiseLightEvent, F, I
        <2>5. HeldSlots' = HeldSlots /\ HeldApart'
            BY <1>2, <1>a, HeldUnchanged DEF RaiseLightEvent
        <2>6. UNCHANGED <<current, new, moving>>
            BY <1>2 DEF RaiseLightEvent, thread
        <2>7. Partition(F', Q', I', HeldSlots', current', new', moving')
            BY <2>1, <2>3, <2>4, <2>5, <2>6, <1>a, <1>pool DEF Partition
        <2> QED BY <1>2, <2>1, <2>3, <2>5, <2>7, <1>a, <1>pool
                   DEF RaiseLightEvent
    <1>3. CASE RaiseDelayedResponse
        <2>1. PICK e \in Raiser : \E i \in DOMAIN held[e] :
                  /\ held' = [held EXCEPT ![e] = RemoveAt(@, i)]
                  /\ new' = held[e][i]
            BY <1>3 DEF RaiseDelayedResponse
        <2>2. PICK i \in DOMAIN held[e] :
                  /\ held' = [held EXCEPT ![e] = RemoveAt(@, i)]
                  /\ new' = held[e][i]
            BY <2>1
        <2>3. e \in Entities
            BY <1>a, RaiserType
        <2>4. /\ HeldApart' /\ new' \in HeldSlots
              /\ HeldSlots' = HeldSlots \ {new'}
            BY <2>2, <2>3, <1>a, HeldRemove
        <2>5. F' = F /\ Q' = Q /\ I' = I
            BY <1>3 DEF RaiseDelayedResponse, F, Q, I
        <2>6. new = NoSlot /\ UNCHANGED <<current, moving>>
            BY <1>3, <1>a DEF RaiseDelayedResponse, HandsInv
        <2>7. new' # NoSlot
            BY <2>4, <1>a, <1>b, <1>3 DEF RaiseDelayedResponse, HandsInv
        <2>8. Partition(F', Q', I', HeldSlots', current', new', moving')
            BY <2>4, <2>5, <2>6, <2>7, <1>a DEF Partition
        <2> QED BY <1>3, <2>4, <2>8, <1>a DEF RaiseDelayedResponse
    <1>5. CASE StoreAndQueue
        <2>1. new \in Slots /\ new # NoSlot
            BY <1>5, <1>a, SlotsAssumption DEF StoreAndQueue, HandsInv, TypeOK
        <2>2. new \notin Q
            BY <1>a DEF Partition
        <2>3. Q' = Q \cup {new} /\ IsInjective(queue')
            BY <1>5, <2>1, <2>2, <1>a, PushFacts DEF StoreAndQueue, Q
        <2>4. F' = F /\ I' = I
            BY <1>5 DEF StoreAndQueue, F, I
        <2>5. HeldSlots' = HeldSlots /\ HeldApart'
            BY <1>5, <1>a, HeldUnchanged DEF StoreAndQueue
        <2>6. new' = NoSlot /\ UNCHANGED <<current, moving>>
            BY <1>5 DEF StoreAndQueue
        <2>7. Partition(F', Q', I', HeldSlots', current', new', moving')
            BY <2>1, <2>3, <2>4, <2>5, <2>6, <1>a, SlotsAssumption DEF Partition
        <2> QED BY <1>5, <2>3, <2>5, <2>7, <1>a DEF StoreAndQueue
    <1>7. CASE PopEvent
        <2>1. /\ Head(queue) \in Q /\ Head(queue) \in Slots
              /\ Range(Tail(queue)) = Q \ {Head(queue)}
              /\ IsInjective(Tail(queue))
            BY <1>7, <1>a, PopFacts DEF PopEvent, Q
        <2>2. Q' = Q \ {Head(queue)} /\ F' = F /\ I' = I
            BY <1>7, <2>1 DEF PopEvent, F, Q, I
        <2>3. HeldSlots' = HeldSlots /\ HeldApart'
            BY <1>7, <1>a, HeldUnchanged DEF PopEvent
        <2>4. /\ current = NoSlot /\ current' = Head(queue)
              /\ UNCHANGED <<new, moving>>
            BY <1>7, <1>a DEF PopEvent, HandsInv
        <2>5. Partition(F', Q', I', HeldSlots', current', new', moving')
            BY <2>1, <2>2, <2>3, <2>4, <1>a, SlotsAssumption DEF Partition
        <2> QED BY <1>7, <2>1, <2>3, <2>5, <1>a DEF PopEvent
    <1>9. CASE Respond
        <2>1. CASE free # <<>>
            <3>1. free' = Tail(free) /\ new' = Head(free)
                BY <1>9, <2>1 DEF Respond, Allocate
            <3>2. F' = F \ {Head(free)} /\ Q' = Q /\ I' = I
                BY <1>9, <2>1, <3>1, <1>pool DEF Respond, F, Q, I
            <3>3. HeldSlots' = HeldSlots /\ HeldApart'
                BY <1>9, <1>a, HeldUnchanged DEF Respond
            <3>4. new = NoSlot /\ UNCHANGED <<current, moving>>
                BY <1>9, <1>a DEF Respond, HandsInv
            <3>5. Partition(F', Q', I', HeldSlots', current', new', moving')
                BY <2>1, <3>1, <3>2, <3>3, <3>4, <1>a, <1>pool DEF Partition
            <3> QED BY <1>9, <2>1, <3>1, <3>3, <3>5, <1>a, <1>pool DEF Respond
        <2>2. CASE free = <<>>
            <3>1. UNCHANGED <<lists, current, new, moving>>
                BY <1>9, <2>2 DEF Respond, lists
            <3>2. F' = F /\ Q' = Q /\ I' = I /\ HeldSlots' = HeldSlots /\ HeldApart'
                BY <3>1, <1>a, HeldUnchanged DEF lists, F, Q, I
            <3> QED BY <3>1, <3>2, <1>a DEF lists
        <2> QED BY <2>1, <2>2
    <1>10. CASE HoldResponse
        <2>1. CASE free # <<>>
            <3>1. /\ free' = Tail(free)
                  /\ held' = [held EXCEPT ![event[current].target] =
                                  Append(@, Head(free))]
                BY <1>10, <2>1 DEF HoldResponse, Allocate
            <3>2. event[current].target \in Entities
                BY <1>10, <1>a DEF HoldResponse, HandsInv, TypeOK, Event
            <3>3. Head(free) \notin HeldSlots
                BY <2>1, <1>pool, <1>a DEF Partition
            <3>4. HeldApart' /\ HeldSlots' = HeldSlots \cup {Head(free)}
                BY <2>1, <3>1, <3>2, <3>3, <1>a, <1>pool, HeldPush
            <3>5. F' = F \ {Head(free)} /\ Q' = Q /\ I' = I
                BY <1>10, <2>1, <3>1, <1>pool DEF HoldResponse, F, Q, I
            <3>6. UNCHANGED <<current, new, moving>>
                BY <1>10 DEF HoldResponse
            <3>7. Partition(F', Q', I', HeldSlots', current', new', moving')
                BY <2>1, <3>4, <3>5, <3>6, <1>a, <1>pool DEF Partition
            <3> QED BY <1>10, <2>1, <3>1, <3>4, <3>7, <1>a, <1>pool
                       DEF HoldResponse
        <2>2. CASE free = <<>>
            <3>1. UNCHANGED <<lists, current, new, moving>>
                BY <1>10, <2>2 DEF HoldResponse, lists
            <3>2. F' = F /\ Q' = Q /\ I' = I /\ HeldSlots' = HeldSlots /\ HeldApart'
                BY <3>1, <1>a, HeldUnchanged DEF lists, F, Q, I
            <3> QED BY <3>1, <3>2, <1>a DEF lists
        <2> QED BY <2>1, <2>2
    <1>11. CASE FreeEvent
        <2>1. current \in Slots /\ current # NoSlot
            BY <1>11, <1>a, SlotsAssumption DEF FreeEvent, HandsInv, TypeOK
        <2>2. current \notin F
            BY <1>a DEF Partition
        <2>3. F' = F \cup {current} /\ IsInjective(free')
            BY <1>11, <2>1, <2>2, <1>a, PushFacts DEF FreeEvent, F
        <2>4. Q' = Q /\ I' = I
            BY <1>11 DEF FreeEvent, Q, I
        <2>5. HeldSlots' = HeldSlots /\ HeldApart'
            BY <1>11, <1>a, HeldUnchanged DEF FreeEvent
        <2>6. current' = NoSlot /\ UNCHANGED <<new, moving>>
            BY <1>11 DEF FreeEvent
        <2>7. Partition(F', Q', I', HeldSlots', current', new', moving')
            BY <2>1, <2>3, <2>4, <2>5, <2>6, <1>a, SlotsAssumption DEF Partition
        <2> QED BY <1>11, <2>3, <2>5, <2>7, <1>a DEF FreeEvent
    <1>12. CASE PopIsrEvent
        <2>1. CASE isrQueue # <<>>
            <3>1. /\ Head(isrQueue) \in I /\ Head(isrQueue) \in Slots
                  /\ Range(Tail(isrQueue)) = I \ {Head(isrQueue)}
                  /\ IsInjective(Tail(isrQueue))
                BY <2>1, <1>a, PopFacts DEF I
            <3>2. isrQueue' = Tail(isrQueue) /\ moving' = Head(isrQueue)
                BY <1>12, <2>1 DEF PopIsrEvent
            <3>3. I' = I \ {Head(isrQueue)} /\ F' = F /\ Q' = Q
                BY <1>12, <3>1, <3>2 DEF PopIsrEvent, F, Q, I
            <3>4. HeldSlots' = HeldSlots /\ HeldApart'
                BY <1>12, <1>a, HeldUnchanged DEF PopIsrEvent
            <3>5. moving = NoSlot /\ UNCHANGED <<current, new>>
                BY <1>12, <1>a DEF PopIsrEvent, HandsInv
            <3>6. Partition(F', Q', I', HeldSlots', current', new', moving')
                BY <3>1, <3>2, <3>3, <3>4, <3>5, <1>a, SlotsAssumption
                   DEF Partition
            <3> QED BY <1>12, <3>1, <3>2, <3>4, <3>6, <1>a DEF PopIsrEvent
        <2>2. CASE isrQueue = <<>>
            <3>1. UNCHANGED <<lists, current, new, moving>>
                BY <1>12, <2>2 DEF PopIsrEvent, lists
            <3>2. F' = F /\ Q' = Q /\ I' = I /\ HeldSlots' = HeldSlots /\ HeldApart'
                BY <3>1, <1>a, HeldUnchanged DEF lists, F, Q, I
            <3> QED BY <3>1, <3>2, <1>a DEF lists
        <2> QED BY <2>1, <2>2
    <1>13. CASE PushIsrEvent
        <2>1. moving \in Slots /\ moving # NoSlot
            BY <1>13, <1>a, SlotsAssumption DEF PushIsrEvent, HandsInv, TypeOK
        <2>2. moving \notin Q
            BY <1>a DEF Partition
        <2>3. Q' = Q \cup {moving} /\ IsInjective(queue')
            BY <1>13, <2>1, <2>2, <1>a, PushFacts DEF PushIsrEvent, Q
        <2>4. F' = F /\ I' = I
            BY <1>13 DEF PushIsrEvent, F, I
        <2>5. HeldSlots' = HeldSlots /\ HeldApart'
            BY <1>13, <1>a, HeldUnchanged DEF PushIsrEvent
        <2>6. moving' = NoSlot /\ UNCHANGED <<current, new>>
            BY <1>13 DEF PushIsrEvent
        <2>7. Partition(F', Q', I', HeldSlots', current', new', moving')
            BY <2>1, <2>3, <2>4, <2>5, <2>6, <1>a, SlotsAssumption DEF Partition
        <2> QED BY <1>13, <2>3, <2>5, <2>7, <1>a DEF PushIsrEvent
    <1>16. CASE IsrRaisesEvent
        <2>1. /\ free # <<>> /\ free' = Tail(free)
              /\ isrQueue' = Append(isrQueue, Head(free))
            BY <1>16 DEF IsrRaisesEvent, Allocate
        <2>2. Head(free) \notin I
            BY <2>1, <1>pool, <1>a DEF Partition
        <2>3. I' = I \cup {Head(free)} /\ IsInjective(isrQueue')
            BY <2>1, <2>2, <1>a, <1>pool, PushFacts DEF I
        <2>4. F' = F \ {Head(free)} /\ Q' = Q
            BY <1>16, <2>1, <1>pool DEF IsrRaisesEvent, F, Q
        <2>5. HeldSlots' = HeldSlots /\ HeldApart'
            BY <1>16, <1>a, HeldUnchanged DEF IsrRaisesEvent
        <2>6. UNCHANGED <<current, new, moving>>
            BY <1>16 DEF IsrRaisesEvent, thread
        <2>7. Partition(F', Q', I', HeldSlots', current', new', moving')
            BY <2>1, <2>3, <2>4, <2>5, <2>6, <1>a, <1>pool DEF Partition
        <2> QED BY <1>16, <2>1, <2>3, <2>5, <2>7, <1>a, <1>pool
                   DEF IsrRaisesEvent
    <1>17. CASE \/ LoadCounter \/ EnterMainLoop \/ HandlerReturns \/ Unbuffer
                \/ Suspend \/ IsrRaisesNothing \/ UNCHANGED vars
        <2>1. UNCHANGED <<lists, current, new, moving>>
            BY <1>17 DEF LoadCounter, EnterMainLoop, HandlerReturns, Unbuffer,
                         Suspend, IsrRaisesNothing, vars, lists, thread
        <2>2. F' = F /\ Q' = Q /\ I' = I /\ HeldSlots' = HeldSlots /\ HeldApart'
            BY <2>1, <1>a, HeldUnchanged DEF lists, F, Q, I
        <2> QED BY <2>1, <2>2, <1>a DEF lists
    <1> QED
        BY <1>1, <1>2, <1>3, <1>5, <1>7, <1>9, <1>10, <1>11, <1>12, <1>13,
           <1>16, <1>17
           DEF Next, Raise, Loop, Isr

\* No interleaving of the thread and the interrupt handlers leaks an event
\* structure, or puts one in two lists, for any size of the pool.
THEOREM PoolConserved == Spec => []Conservation
    <1>1. Init => Inv
        BY InitType, InitConservation DEF Inv
    <1>2. Inv /\ [Next]_vars => Inv'
        BY NextType, NextConservation DEF Inv
    <1>3. Inv => Conservation
        BY DEF Inv
    <1> QED BY <1>1, <1>2, <1>3, PTL DEF Spec

-----------------------------------------------------------------------------
(* The wfe at the end of the main loop. *)

\* From the last look at the interrupt queue on, an event in it means that an
\* interrupt has come since, and that has set the event register.
WakeInv == pc \in {"idle", "suspend"} /\ isrQueue # <<>> => wake

\* The main loop never sleeps while an interrupt handler's event waits to be
\* pulled, however the interrupts fall between its steps.
THEOREM NeverSleepsOverEvent == Spec => []NoLostWakeup
    <1>1. Init => WakeInv
        BY DEF Init, WakeInv
    <1>2. TypeOK /\ HandsInv /\ WakeInv /\ [Next]_vars => WakeInv'
        <2> SUFFICES ASSUME TypeOK, HandsInv, WakeInv, [Next]_vars
                     PROVE  WakeInv'
            OBVIOUS
        <2>1. CASE IsrRaisesEvent \/ IsrRaisesNothing
            BY <2>1 DEF IsrRaisesEvent, IsrRaisesNothing, WakeInv
        <2>2. CASE PopIsrEvent
            BY <2>2 DEF PopIsrEvent, WakeInv
        <2>3. CASE Unbuffer
            BY <2>3 DEF Unbuffer, WakeInv, lists
        <2>4. CASE Suspend \/ PushIsrEvent \/ FreeEvent \/ EnterMainLoop
                   \/ HandlerReturns \/ HoldResponse \/ Respond \/ PopEvent
            BY <2>4 DEF Suspend, PushIsrEvent, FreeEvent, EnterMainLoop,
                        HandlerReturns, HoldResponse, Respond, PopEvent, WakeInv
        <2>5. CASE StoreAndQueue
            BY <2>5 DEF StoreAndQueue, HandsInv, WakeInv
        <2>6. CASE RaiseEvent \/ RaiseLightEvent \/ RaiseDelayedResponse
                   \/ LoadCounter \/ UNCHANGED vars
            BY <2>6 DEF RaiseEvent, RaiseLightEvent, RaiseDelayedResponse,
                        LoadCounter, vars, lists, thread, WakeInv
        <2> QED
            BY <2>1, <2>2, <2>3, <2>4, <2>5, <2>6
               DEF Next, Raise, Loop, Isr
    <1>3. WakeInv => NoLostWakeup
        BY DEF WakeInv, NoLostWakeup
    <1> QED BY <1>1, <1>2, <1>3, TypeCorrect, PTL DEF Spec

-----------------------------------------------------------------------------
(* Delayed responses have cookies of their own, until the counter wraps.   *)
(* What keeps them apart is that the thread's own cookies only grow: the   *)
(* counter may be set back by the store of put_event, over what interrupt  *)
(* handlers have taken, but never to a value the thread has used, and      *)
(* handlers ask for no response.                                           *)

\* The event asks for a response that its target may delay.
Asks(s) == event[s].responseRequested /\ ~event[s].light

\* The structures whose cookies are, or may become, those of delayed responses.
Identified ==
    {s \in Range(queue) : Asks(s)} \cup HeldSlots
    \cup {s \in {current} \ {NoSlot} : Asks(s) /\ pc \in {"handle", "respond"}}

\* The cookie the thread gives next, at least.
Fresh == IF stage = "store" THEN seen ELSE counter

Distinct(A, c, n) ==
    /\ \A s, t \in A : c[s] = c[t] => s = t
    /\ \A s \in A : c[s] < n

IsrAsksNothing ==
    \A s \in Range(isrQueue) \cup ({moving} \ {NoSlot}) : ~event[s].responseRequested

CookieInv ==
    /\ Distinct(Identified, cookie, Fresh)
    /\ stage = "store" => seen <= counter
    /\ IsrAsksNothing
    /\ pc = "respond" /\ event[current].isDelayedResponse => Asks(current)

\* The counter does not come to its last value: 2^32 - 1 events in the code.
NotWrapped == counter < CookieMod - 1

\* Fewer structures, with the cookies they had, are as distinct.
LEMMA DistinctSubset ==
    ASSUME NEW A, NEW B, NEW c, NEW d, NEW m \in Nat, NEW n \in Nat,
           Distinct(A, c, m), B \subseteq A, m <= n,
           \A s \in B : d[s] = c[s] /\ c[s] \in Nat
    PROVE  Distinct(B, d, n)
    BY DEF Distinct

\* One more structure, with a cookie not given before, keeps them distinct.
LEMMA DistinctAdd ==
    ASSUME NEW A, NEW B, NEW c, NEW d, NEW m \in Nat, NEW n \in Nat, NEW x,
           Distinct(A, c, m), B \subseteq A \cup {x}, x \notin A,
           m <= d[x], d[x] < n, d[x] \in Nat,
           \A s \in A : d[s] = c[s] /\ c[s] \in Nat
    PROVE  Distinct(B, d, n)
    <1>1. \A s \in B : s # x => s \in A /\ d[s] = c[s] /\ c[s] \in Nat
        OBVIOUS
    <1>2. \A s \in B : d[s] < n
        BY <1>1 DEF Distinct
    <1>3. \A s \in B : s # x => d[s] # d[x]
        BY <1>1 DEF Distinct
    <1>4. \A s, t \in B : d[s] = d[t] => s = t
        BY <1>1, <1>3 DEF Distinct
    <1> QED BY <1>2, <1>4 DEF Distinct

\* A structure taken from the pool is in no other place.
LEMMA HeadApart ==
    ASSUME Inv, free # <<>>
    PROVE  /\ Head(free) \in Slots
           /\ Head(free) \notin Range(queue) \cup Range(isrQueue) \cup HeldSlots
           /\ Head(free) \notin {current, new, moving}
    <1>1. TypeOK /\ NoDuplicates /\ Disjoint
        BY DEF Inv, Conservation
    <1>2. Head(free) \in Range(free) /\ Head(free) \in Slots
        BY <1>1, PopFacts
    <1> QED BY <1>1, <1>2, SlotsAssumption DEF Disjoint, InHand

\* What a step that allocates leaves of the other structures.
LEMMA AllocateFrame ==
    ASSUME Inv, NEW e, Allocate(e)
    PROVE  /\ free # <<>>
           /\ event'[Head(free)] = e
           /\ \A s \in Slots : s # Head(free) => event'[s] = event[s]
    <1>1. Head(free) \in Slots
        BY HeadApart DEF Allocate
    <1> QED BY <1>1 DEF Inv, TypeOK, Allocate

\* The places a structure with a cookie that matters may be in.
LEMMA IdentifiedType ==
    ASSUME Inv
    PROVE  /\ Identified \subseteq Slots
           /\ Range(queue) \subseteq Slots /\ Range(isrQueue) \subseteq Slots
           /\ HeldSlots \subseteq Slots
           /\ \A s \in Slots : cookie[s] \in Nat
           /\ Fresh \in Nat /\ counter \in Nat /\ seen \in Nat
    <1>1. /\ Range(queue) \subseteq Slots /\ Range(isrQueue) \subseteq Slots
          /\ HeldSlots \subseteq Slots
        BY SeqBasics DEF Inv, TypeOK, HeldSlots
    <1>2. Cookies \subseteq Nat
        BY CookieAssumption DEF Cookies
    <1> QED BY <1>1, <1>2 DEF Inv, TypeOK, Identified, Fresh

\* The counter grows by one while it has not wrapped.
LEMMA NextCookieGrows ==
    ASSUME NEW c \in Nat, c < CookieMod - 1
    PROVE  NextCookie(c) = c + 1
    BY CookieAssumption DEF NextCookie

\* A step that gives no cookie, and at most forgets structures.
LEMMA NoCookieGiven ==
    ASSUME Inv, CookieInv, Identified' \subseteq Identified,
           \A s \in Identified' : cookie'[s] = cookie[s],
           Fresh' \in Nat, Fresh <= Fresh'
    PROVE  Distinct(Identified', cookie', Fresh')
    <1>1. \A s \in Identified' : cookie'[s] = cookie[s] /\ cookie[s] \in Nat
        BY IdentifiedType
    <1>2. Distinct(Identified, cookie, Fresh) /\ Fresh \in Nat
        BY IdentifiedType DEF CookieInv
    <1> QED BY <1>1, <1>2, DistinctSubset

\* No step of thread or interrupt handler repeats a cookie that matters.
LEMMA NextCookieInv ==
    ASSUME ~LightDelays, Inv, Inv', CookieInv, NotWrapped, [Next]_vars
    PROVE  CookieInv'
    <1>a. /\ TypeOK /\ HandsInv /\ NoDuplicates /\ Disjoint /\ HeldApart
          /\ Range(queue) \subseteq Slots /\ Range(isrQueue) \subseteq Slots
          /\ HeldSlots \subseteq Slots /\ Identified \subseteq Slots
          /\ \A s \in Slots : cookie[s] \in Nat
          /\ Fresh \in Nat /\ counter \in Nat /\ seen \in Nat
        BY IdentifiedType DEF Inv, Conservation, NoDuplicates, HeldApart
    <1>b. /\ Distinct(Identified, cookie, Fresh) /\ IsrAsksNothing
          /\ stage = "store" => seen <= counter
          /\ pc = "respond" /\ event[current].isDelayedResponse => Asks(current)
        BY DEF CookieInv
    <1>1. CASE RaiseEvent
        <2>1. PICK s \in Raiser, t \in Entities, rr \in BOOLEAN :
                  Allocate(Request(s, t, rr, FALSE))
            BY <1>1 DEF RaiseEvent
        <2>2. /\ Head(free) \notin Range(queue) \cup Range(isrQueue) \cup HeldSlots
              /\ Head(free) \notin {current, new, moving}
              /\ \A x \in Slots : x # Head(free) => event'[x] = event[x]
            BY <2>1, AllocateFrame, HeadApart
        <2>3. /\ UNCHANGED <<cookie, queue, isrQueue, current, moving, pc,
                             counter, seen>>
              /\ stage = "none" /\ stage' = "load" /\ HeldSlots' = HeldSlots
            BY <1>1, HeldUnchanged DEF RaiseEvent, MayRaise
        <2>4. current \in Slots \cup {NoSlot} /\ moving \in Slots \cup {NoSlot}
            BY <1>a DEF TypeOK
        <2>5. Identified' \subseteq Identified
            BY <2>2, <2>3, <2>4, <1>a DEF Identified, Asks
        <2>6. Distinct(Identified', cookie', Fresh')
            BY <2>3, <2>5, <1>a, NoCookieGiven DEF Fresh
        <2>7. IsrAsksNothing'
            BY <2>2, <2>3, <2>4, <1>a, <1>b DEF IsrAsksNothing
        <2>8. pc' # "respond"
            BY <1>1 DEF RaiseEvent, MayRaise
        <2> QED BY <2>3, <2>6, <2>7, <2>8 DEF CookieInv
    <1>2. CASE RaiseLightEvent
        <2>1. PICK s \in Raiser, t \in Entities, rr \in BOOLEAN :
                  Allocate(Request(s, t, rr, TRUE))
            BY <1>2 DEF RaiseLightEvent
        <2>2. /\ Head(free) \in Slots
              /\ Head(free) \notin Range(queue) \cup Range(isrQueue) \cup HeldSlots
              /\ Head(free) \notin {current, new, moving}
              /\ \A x \in Slots : x # Head(free) => event'[x] = event[x]
              /\ event'[Head(free)] = Request(s, t, rr, TRUE)
            BY <2>1, AllocateFrame, HeadApart
        <2>3. /\ UNCHANGED <<cookie, isrQueue, current, moving, pc,
                             counter, seen, stage>>
              /\ stage = "none" /\ HeldSlots' = HeldSlots /\ pc # "respond"
            BY <1>2, HeldUnchanged DEF RaiseLightEvent, MayRaise, thread
        <2>4. current \in Slots \cup {NoSlot} /\ moving \in Slots \cup {NoSlot}
            BY <1>a DEF TypeOK
        <2>5. Range(queue') = Range(queue) \cup {Head(free)}
            BY <1>2, <2>2, <1>a, PushFacts DEF RaiseLightEvent
        <2>6. event'[Head(free)].light
            BY <2>2 DEF Request
        <2>7. Identified' \subseteq Identified
            BY <2>2, <2>3, <2>4, <2>5, <2>6, <1>a DEF Identified, Asks
        <2>8. Distinct(Identified', cookie', Fresh')
            BY <2>3, <2>7, <1>a, NoCookieGiven DEF Fresh
        <2>9. IsrAsksNothing'
            BY <2>2, <2>3, <2>4, <1>a, <1>b DEF IsrAsksNothing
        <2> QED BY <2>3, <2>8, <2>9 DEF CookieInv
    <1>3. CASE RaiseDelayedResponse
        <2>1. PICK e \in Raiser : \E i \in DOMAIN held[e] :
                  held' = [held EXCEPT ![e] = RemoveAt(@, i)]
            BY <1>3 DEF RaiseDelayedResponse
        <2>2. PICK i \in DOMAIN held[e] :
                  held' = [held EXCEPT ![e] = RemoveAt(@, i)]
            BY <2>1
        <2>3. HeldSlots' \subseteq HeldSlots
            BY <2>2, <1>a, RaiserType, HeldRemove
        <2>4. /\ UNCHANGED <<event, cookie, queue, isrQueue, current, moving, pc,
                             counter, seen>>
              /\ stage = "none" /\ stage' = "load" /\ pc # "respond"
            BY <1>3 DEF RaiseDelayedResponse
        <2>5. Identified' \subseteq Identified
            BY <2>3, <2>4 DEF Identified, Asks
        <2>6. Distinct(Identified', cookie', Fresh')
            BY <2>4, <2>5, <1>a, NoCookieGiven DEF Fresh
        <2> QED BY <2>4, <2>6, <1>b DEF CookieInv, IsrAsksNothing
    <1>4. CASE LoadCounter
        <2>1. /\ UNCHANGED <<event, cookie, queue, isrQueue, current, moving, pc,
                             counter>>
              /\ stage = "load" /\ stage' = "store" /\ seen' = counter
              /\ HeldSlots' = HeldSlots
            BY <1>4, HeldUnchanged DEF LoadCounter, lists
        <2>2. Identified' = Identified
            BY <2>1 DEF Identified, Asks
        <2>3. Distinct(Identified', cookie', Fresh')
            BY <2>1, <2>2, <1>a, NoCookieGiven DEF Fresh
        <2> QED BY <2>1, <2>3, <1>a, <1>b DEF CookieInv, IsrAsksNothing, Asks
    <1>5. CASE StoreAndQueue
        <2>1. /\ UNCHANGED <<event, isrQueue, current, moving>>
              /\ counter' = NextCookie(seen) /\ stage = "store" /\ stage' = "none"
              /\ cookie' = [cookie EXCEPT ![new] = seen]
              /\ queue' = Append(queue, new)
              /\ pc' \in {"free", pc} /\ pc' # "respond" /\ HeldSlots' = HeldSlots
            BY <1>5, HeldUnchanged DEF StoreAndQueue
        <2>2. new \in Slots /\ new # NoSlot
            BY <2>1, <1>a, SlotsAssumption DEF HandsInv, TypeOK
        <2>3. new \notin Range(queue) \cup HeldSlots /\ new # current
            BY <2>2, <1>a DEF Disjoint, InHand
        <2>4. Range(queue') = Range(queue) \cup {new}
            BY <2>1, <2>2, <2>3, <1>a, PushFacts
        <2>5. Identified' \subseteq Identified \cup {new} /\ new \notin Identified
            BY <2>1, <2>3, <2>4 DEF Identified, Asks
        <2>6. counter' = seen + 1 /\ Fresh = seen /\ Fresh' = seen + 1
            <3>1. seen < CookieMod - 1
                BY <2>1, <1>a, <1>b, CookieAssumption DEF NotWrapped
            <3>2. counter' = seen + 1
                BY <2>1, <3>1, <1>a, NextCookieGrows
            <3> QED BY <2>1, <3>2 DEF Fresh
        <2>7. /\ \A s \in Identified : cookie'[s] = cookie[s] /\ cookie[s] \in Nat
              /\ cookie'[new] = seen
            BY <2>1, <2>2, <2>5, <1>a DEF TypeOK
        <2>8. Distinct(Identified', cookie', Fresh')
            <3>1. Distinct(Identified, cookie, seen)
                BY <2>6, <1>b
            <3>2. /\ seen <= cookie'[new] /\ cookie'[new] < seen + 1
                  /\ cookie'[new] \in Nat /\ seen + 1 \in Nat
                BY <2>7, <1>a
            <3>3. Distinct(Identified', cookie', seen + 1)
                BY <2>5, <2>7, <3>1, <3>2, <1>a, DistinctAdd
            <3> QED BY <2>6, <3>3
        <2> QED BY <2>1, <2>8, <1>b DEF CookieInv, IsrAsksNothing
    <1>7. CASE PopEvent
        <2>1. /\ UNCHANGED <<event, cookie, isrQueue, moving, counter, seen, stage>>
              /\ current' = Head(queue) /\ queue' = Tail(queue) /\ queue # <<>>
              /\ pc' = "handle" /\ HeldSlots' = HeldSlots
            BY <1>7, HeldUnchanged DEF PopEvent
        <2>2. Head(queue) \in Range(queue) /\ Range(queue') \subseteq Range(queue)
            BY <2>1, <1>a, PopFacts
        <2>3. Identified' \subseteq Identified
            BY <2>1, <2>2 DEF Identified, Asks
        <2>4. Distinct(Identified', cookie', Fresh')
            BY <2>1, <2>3, <1>a, NoCookieGiven DEF Fresh
        <2> QED BY <2>1, <2>4, <1>b DEF CookieInv, IsrAsksNothing
    <1>8. CASE HandlerReturns
        <2>1. PICK delay \in BOOLEAN :
                  /\ delay => /\ event[current].responseRequested
                              /\ event[current].light => LightDelays
                  /\ event' = [event EXCEPT ![current].isDelayedResponse = delay]
            BY <1>8 DEF HandlerReturns
        <2>2. /\ UNCHANGED <<cookie, queue, isrQueue, current, moving, counter,
                             seen, stage>>
              /\ pc = "handle" /\ HeldSlots' = HeldSlots
              /\ stage = "none"
            BY <1>8, HeldUnchanged DEF HandlerReturns, lists
        <2>3. current \in Slots
            BY <1>a, <2>2 DEF HandsInv, TypeOK
        <2>4. /\ \A s \in Slots : Asks(s)' = Asks(s)
              /\ \A s \in Slots : event'[s].responseRequested
                                      = event[s].responseRequested
              /\ event'[current].isDelayedResponse = delay
            <3>1. \A s \in Slots : event[s] \in Event
                BY <1>a DEF TypeOK
            <3>2. event'[current] = [event[current] EXCEPT !.isDelayedResponse = delay]
                BY <2>1, <2>3, <1>a DEF TypeOK
            <3>3. \A s \in Slots : s # current => event'[s] = event[s]
                BY <2>1, <1>a DEF TypeOK
            <3>4. /\ event'[current].responseRequested
                         = event[current].responseRequested
                  /\ event'[current].light = event[current].light
                  /\ event'[current].isDelayedResponse = delay
                BY <3>1, <3>2, <2>3 DEF Event
            <3>5. \A s \in Slots : /\ event'[s].responseRequested
                                          = event[s].responseRequested
                                   /\ event'[s].light = event[s].light
                BY <3>3, <3>4
            <3> QED BY <3>4, <3>5 DEF Asks
        <2>5. Identified' \subseteq Identified
            BY <2>2, <2>3, <2>4, <1>a DEF Identified
        <2>6. Distinct(Identified', cookie', Fresh')
            BY <2>2, <2>5, <1>a, NoCookieGiven DEF Fresh
        <2>7. moving \in Slots \cup {NoSlot}
            BY <1>a DEF TypeOK
        <2>8. IsrAsksNothing'
            BY <2>2, <2>4, <2>7, <1>a, <1>b DEF IsrAsksNothing
        <2>9. delay => Asks(current)
            BY <2>1 DEF Asks
        <2>10. delay => Asks(current)'
            BY <2>9, <2>4, <2>3, <2>2 DEF Asks
        <2> QED BY <2>2, <2>4, <2>6, <2>8, <2>10 DEF CookieInv
    <1>9. CASE Respond
        <2>1. CASE free # <<>>
            <3>1. Allocate(Response(event[current], FALSE))
                BY <1>9, <2>1 DEF Respond
            <3>2. /\ Head(free) \notin Range(queue) \cup Range(isrQueue) \cup HeldSlots
                  /\ Head(free) \notin {current, new, moving}
                  /\ \A x \in Slots : x # Head(free) => event'[x] = event[x]
                BY <3>1, AllocateFrame, HeadApart
            <3>3. /\ UNCHANGED <<cookie, queue, isrQueue, current, moving, pc,
                                 counter, seen>>
                  /\ stage = "none" /\ stage' = "load" /\ HeldSlots' = HeldSlots
                  /\ ~event[current].isDelayedResponse /\ pc = "respond"
                BY <1>9, <2>1, HeldUnchanged DEF Respond
            <3>4. current \in Slots /\ moving \in Slots \cup {NoSlot}
                BY <3>3, <1>a DEF TypeOK, HandsInv
            <3>5. Identified' \subseteq Identified
                BY <3>2, <3>3, <3>4, <1>a DEF Identified, Asks
            <3>6. Distinct(Identified', cookie', Fresh')
                BY <3>3, <3>5, <1>a, NoCookieGiven DEF Fresh
            <3>7. IsrAsksNothing'
                BY <3>2, <3>3, <3>4, <1>a, <1>b DEF IsrAsksNothing
            <3>8. ~event'[current].isDelayedResponse
                BY <3>2, <3>3, <3>4
            <3> QED BY <3>3, <3>6, <3>7, <3>8 DEF CookieInv
        <2>2. CASE free = <<>>
            <3>1. /\ UNCHANGED <<event, cookie, queue, isrQueue, current, moving,
                                 counter, seen, stage>>
                  /\ HeldSlots' = HeldSlots /\ pc' = "free"
                BY <1>9, <2>2, HeldUnchanged DEF Respond
            <3>2. Identified' \subseteq Identified
                BY <3>1 DEF Identified, Asks
            <3>3. Distinct(Identified', cookie', Fresh')
                BY <3>1, <3>2, <1>a, NoCookieGiven DEF Fresh
            <3> QED BY <3>1, <3>3, <1>b DEF CookieInv, IsrAsksNothing
        <2> QED BY <2>1, <2>2
    <1>10. CASE HoldResponse
        <2>1. /\ UNCHANGED <<queue, isrQueue, current, moving, counter, seen, stage>>
              /\ pc = "respond" /\ pc' = "free"
              /\ event[current].isDelayedResponse /\ stage = "none"
            BY <1>10 DEF HoldResponse
        <2>2. current \in Slots /\ current # NoSlot /\ moving \in Slots \cup {NoSlot}
            BY <2>1, <1>a, SlotsAssumption DEF TypeOK, HandsInv
        <2>3. current \in Identified
            BY <2>1, <2>2, <1>b DEF Identified
        <2>4. current \notin Range(queue) \cup HeldSlots
            BY <2>2, <1>a DEF Disjoint, InHand
        <2>5. CASE free # <<>>
            <3> DEFINE h == Head(free)
            <3>1. /\ Allocate(Response(event[current], TRUE))
                  /\ cookie' = [cookie EXCEPT ![h] = cookie[current]]
                  /\ held' = [held EXCEPT ![event[current].target] = Append(@, h)]
                BY <1>10, <2>5 DEF HoldResponse
            <3>2. /\ h \in Slots
                  /\ h \notin Range(queue) \cup Range(isrQueue) \cup HeldSlots
                  /\ h \notin {current, new, moving}
                  /\ \A x \in Slots : x # h => event'[x] = event[x]
                BY <3>1, AllocateFrame, HeadApart
            <3> HIDE DEF h
            <3>3. event[current].target \in Entities
                BY <2>2, <1>a DEF TypeOK, Event
            <3>4. HeldSlots' = HeldSlots \cup {h}
                BY <3>1, <3>2, <3>3, <1>a, HeldPush
            <3>5. /\ Identified' \subseteq (Identified \ {current}) \cup {h}
                  /\ h \notin Identified
                BY <2>1, <2>2, <2>4, <3>2, <3>4, <1>a DEF Identified, Asks
            <3>6. /\ \A s \in Identified : cookie'[s] = cookie[s]
                  /\ cookie'[h] = cookie[current]
                BY <3>1, <3>2, <3>5, <1>a DEF TypeOK
            <3>7. Fresh' = Fresh
                BY <2>1 DEF Fresh
            <3>8. \A s \in Identified' : cookie'[s] < Fresh'
                BY <3>5, <3>6, <3>7, <2>3, <1>b DEF Distinct
            <3>9. \A s, t \in Identified' : cookie'[s] = cookie'[t] => s = t
                <4>1. \A s \in Identified' :
                          s # h => s \in Identified /\ s # current
                    BY <3>5
                <4>2. \A s \in Identified' :
                          s # h => cookie'[s] # cookie'[h]
                    BY <4>1, <3>6, <2>3, <1>b DEF Distinct
                <4>3. \A s, t \in Identified :
                          cookie'[s] = cookie'[t] => s = t
                    BY <3>6, <1>b DEF Distinct
                <4> QED BY <4>1, <4>2, <4>3
            <3>10. IsrAsksNothing'
                BY <2>1, <2>2, <3>2, <1>a, <1>b DEF IsrAsksNothing
            <3> QED BY <2>1, <3>8, <3>9, <3>10 DEF CookieInv, Distinct
        <2>6. CASE free = <<>>
            <3>1. UNCHANGED <<event, cookie>> /\ HeldSlots' = HeldSlots
                BY <1>10, <2>6, HeldUnchanged DEF HoldResponse
            <3>2. Identified' \subseteq Identified
                BY <2>1, <3>1 DEF Identified, Asks
            <3>3. Distinct(Identified', cookie', Fresh')
                BY <2>1, <3>1, <3>2, <1>a, NoCookieGiven DEF Fresh
            <3> QED BY <2>1, <3>1, <3>3, <1>b DEF CookieInv, IsrAsksNothing
        <2> QED BY <2>5, <2>6
    <1>11. CASE FreeEvent
        <2>1. /\ UNCHANGED <<cookie, queue, isrQueue, moving, counter, seen, stage>>
              /\ event' = [event EXCEPT ![current] = Blank]
              /\ current' = NoSlot /\ pc = "free" /\ pc' = "check"
              /\ HeldSlots' = HeldSlots
            BY <1>11, HeldUnchanged DEF FreeEvent
        <2>2. current \in Slots /\ current # NoSlot /\ moving \in Slots \cup {NoSlot}
            BY <2>1, <1>a, SlotsAssumption DEF TypeOK, HandsInv
        <2>3. /\ current \notin Range(queue) \cup Range(isrQueue) \cup HeldSlots
              /\ current # moving
            BY <2>2, <1>a DEF Disjoint, InHand
        <2>4. \A x \in Slots : x # current => event'[x] = event[x]
            BY <2>1, <1>a DEF TypeOK
        <2>5. Identified' \subseteq Identified
            BY <2>1, <2>2, <2>3, <2>4, <1>a DEF Identified, Asks
        <2>6. Distinct(Identified', cookie', Fresh')
            BY <2>1, <2>5, <1>a, NoCookieGiven DEF Fresh
        <2>7. IsrAsksNothing'
            BY <2>1, <2>2, <2>3, <2>4, <1>a, <1>b DEF IsrAsksNothing
        <2> QED BY <2>1, <2>6, <2>7, <1>b DEF CookieInv
    <1>12. CASE PopIsrEvent
        <2>1. /\ UNCHANGED <<event, cookie, queue, current, counter, seen, stage>>
              /\ pc = "check" /\ pc' \in {"push", "idle"} /\ HeldSlots' = HeldSlots
            BY <1>12, HeldUnchanged DEF PopIsrEvent
        <2>2. Range(isrQueue') \cup ({moving'} \ {NoSlot})
                  \subseteq Range(isrQueue) \cup ({moving} \ {NoSlot})
            <3>1. CASE isrQueue # <<>>
                <4>1. isrQueue' = Tail(isrQueue) /\ moving' = Head(isrQueue)
                    BY <1>12, <3>1 DEF PopIsrEvent
                <4> QED BY <3>1, <4>1, <1>a, PopFacts
            <3>2. CASE isrQueue = <<>>
                BY <1>12, <3>2 DEF PopIsrEvent
            <3> QED BY <3>1, <3>2
        <2>3. Identified' \subseteq Identified
            BY <2>1 DEF Identified, Asks
        <2>4. Distinct(Identified', cookie', Fresh')
            BY <2>1, <2>3, <1>a, NoCookieGiven DEF Fresh
        <2>5. IsrAsksNothing'
            BY <2>1, <2>2, <1>b DEF IsrAsksNothing
        <2> QED BY <2>1, <2>4, <2>5, <1>b DEF CookieInv
    <1>13. CASE PushIsrEvent
        <2>1. /\ UNCHANGED <<event, cookie, isrQueue, current, counter, seen, stage>>
              /\ queue' = Append(queue, moving) /\ moving' = NoSlot
              /\ pc = "push" /\ pc' = "check" /\ HeldSlots' = HeldSlots
            BY <1>13, HeldUnchanged DEF PushIsrEvent
        <2>2. moving \in Slots /\ moving # NoSlot
            BY <2>1, <1>a, SlotsAssumption DEF TypeOK, HandsInv
        <2>3. moving \notin Range(queue)
            BY <2>2, <1>a DEF Disjoint, InHand
        <2>4. Range(queue') = Range(queue) \cup {moving}
            BY <2>1, <2>2, <2>3, <1>a, PushFacts
        <2>5. ~Asks(moving)
            BY <2>2, <1>b DEF IsrAsksNothing, Asks
        <2>6. Identified' \subseteq Identified
            BY <2>1, <2>4, <2>5 DEF Identified, Asks
        <2>7. Distinct(Identified', cookie', Fresh')
            BY <2>1, <2>6, <1>a, NoCookieGiven DEF Fresh
        <2> QED BY <2>1, <2>7, <1>b DEF CookieInv, IsrAsksNothing
    <1>16. CASE IsrRaisesEvent
        <2>1. PICK s \in Entities, t \in Entities :
                  Allocate(Request(s, t, FALSE, FALSE))
            BY <1>16 DEF IsrRaisesEvent
        <2>2. /\ Head(free) \in Slots
              /\ Head(free) \notin Range(queue) \cup Range(isrQueue) \cup HeldSlots
              /\ Head(free) \notin {current, new, moving}
              /\ \A x \in Slots : x # Head(free) => event'[x] = event[x]
              /\ event'[Head(free)] = Request(s, t, FALSE, FALSE)
            BY <2>1, AllocateFrame, HeadApart
        <2>3. /\ UNCHANGED <<queue, current, moving, pc, seen, stage>>
              /\ HeldSlots' = HeldSlots
              /\ isrQueue' = Append(isrQueue, Head(free))
              /\ cookie' = [cookie EXCEPT ![Head(free)] = counter]
              /\ counter' = counter + 1
            BY <1>16, <1>a, HeldUnchanged, NextCookieGrows
               DEF IsrRaisesEvent, thread, NotWrapped
        <2>4. current \in Slots \cup {NoSlot} /\ moving \in Slots \cup {NoSlot}
            BY <1>a DEF TypeOK
        <2>5. Range(isrQueue') = Range(isrQueue) \cup {Head(free)}
            BY <2>2, <2>3, <1>a, PushFacts
        <2>6. ~event'[Head(free)].responseRequested
            BY <2>2 DEF Request
        <2>7. Identified' \subseteq Identified /\ Head(free) \notin Identified
            BY <2>2, <2>3, <2>4, <1>a DEF Identified, Asks
        <2>8. \A x \in Identified' : cookie'[x] = cookie[x]
            BY <2>2, <2>3, <2>7, <1>a DEF TypeOK
        <2>9. Distinct(Identified', cookie', Fresh')
            BY <2>3, <2>7, <2>8, <1>a, NoCookieGiven DEF Fresh
        <2>10. IsrAsksNothing'
            BY <2>2, <2>3, <2>4, <2>5, <2>6, <1>a, <1>b DEF IsrAsksNothing
        <2>11. pc' = "respond" => current' = current /\ event'[current] = event[current]
            BY <2>2, <2>3, <2>4, <1>a DEF HandsInv
        <2> QED BY <2>3, <2>9, <2>10, <2>11, <1>a, <1>b DEF CookieInv, Asks
    <1>17. CASE \/ EnterMainLoop \/ Unbuffer \/ Suspend \/ IsrRaisesNothing
                \/ UNCHANGED vars
        <2>1. /\ UNCHANGED <<event, cookie, queue, isrQueue, current, moving,
                             counter, seen, stage>>
              /\ HeldSlots' = HeldSlots
              /\ pc' = pc \/ pc' \notin {"handle", "respond"}
            BY <1>17, HeldUnchanged
               DEF EnterMainLoop, Unbuffer, Suspend, IsrRaisesNothing, vars,
                   lists, thread
        <2>2. Identified' \subseteq Identified
            BY <2>1 DEF Identified, Asks
        <2>3. Distinct(Identified', cookie', Fresh')
            BY <2>1, <2>2, <1>a, NoCookieGiven DEF Fresh
        <2> QED BY <2>1, <2>3, <1>b DEF CookieInv, IsrAsksNothing, Asks
    <1> QED
        BY <1>1, <1>2, <1>3, <1>4, <1>5, <1>7, <1>8, <1>9, <1>10, <1>11, <1>12,
           <1>13, <1>16, <1>17
           DEF Next, Raise, Loop, Isr

\* The structures of a delayed-response list are among the identified ones.
LEMMA HeldCookies == Inv /\ CookieInv => DelayedCookiesUnique
    <1> SUFFICES ASSUME Inv, CookieInv, NEW e \in Entities,
                        NEW i \in DOMAIN held[e], NEW j \in DOMAIN held[e],
                        cookie[held[e][i]] = cookie[held[e][j]]
                 PROVE  i = j
        BY DEF DelayedCookiesUnique
    <1>1. held[e] \in Seq(Slots) /\ IsInjective(held[e])
        BY DEF Inv, TypeOK, Conservation, NoDuplicates
    <1>2. held[e][i] \in Range(held[e]) /\ held[e][j] \in Range(held[e])
        BY <1>1, RemoveAtFacts
    <1>3. held[e][i] \in Identified /\ held[e][j] \in Identified
        BY <1>2 DEF Identified, HeldSlots
    <1>4. held[e][i] = held[e][j]
        BY <1>3 DEF CookieInv, Distinct
    <1> QED BY <1>1, <1>4 DEF IsInjective

\* As long as handlers delay no response to a light event and the counter has
\* not wrapped, the cookie of a delayed response finds that response and no
\* other, although put_event loads and stores the counter with interrupts
\* enabled.
THEOREM DelayedResponsesFound ==
    ASSUME ~LightDelays
    PROVE  Spec /\ []NotWrapped => []DelayedCookiesUnique
    <1>1. Init => Inv
        BY InitType, InitConservation DEF Inv
    <1>2. Inv /\ [Next]_vars => Inv'
        BY NextType, NextConservation DEF Inv
    <1>3. Init => CookieInv
        <2> SUFFICES ASSUME Init PROVE CookieInv
            OBVIOUS
        <2>1. /\ Range(queue) = {} /\ HeldSlots = {} /\ Range(isrQueue) = {}
              /\ current = NoSlot /\ moving = NoSlot /\ stage = "none"
              /\ pc = "start"
            BY DEF Init, Range, HeldSlots
        <2>2. Identified = {}
            BY <2>1 DEF Identified
        <2> QED BY <2>1, <2>2 DEF CookieInv, Distinct, IsrAsksNothing
    <1>4. Inv /\ Inv' /\ CookieInv /\ NotWrapped /\ [Next]_vars => CookieInv'
        BY NextCookieInv
    <1>5. Inv /\ CookieInv => DelayedCookiesUnique
        BY HeldCookies
    <1> QED BY <1>1, <1>2, <1>3, <1>4, <1>5, PTL DEF Spec

-----------------------------------------------------------------------------
(* FwkCore implements EventService.  The abstract queues are the queues of *)
(* the code seen through the contents of the structures in them, and the   *)
(* abstract service is full exactly when the pool is empty.                *)

\* What the modules see of an event, and of all event structures.
Letter(e) == [source |-> e.source, target |-> e.target,
              isResponse |-> e.isResponse,
              responseRequested |-> e.responseRequested]

Letters(ev) == [s \in Slots |-> Letter(ev[s])]

\* An event of the engine is a message to the modules, and not NULL.
LEMMA LetterType ==
    ASSUME NEW e \in Event
    PROVE  Letter(e) \in Service!Message /\ Letter(e) # NoSlot
    <1>1. Letter(e) \in [source: Entities, target: Entities, isResponse: BOOLEAN,
                         responseRequested: BOOLEAN]
        BY DEF Event, Letter
    <1> QED BY <1>1, NoSlotAssumption DEF Service!Message

\* The contents of the structures of a queue do not matter elsewhere.
LEMMA ThroughStep ==
    ASSUME NEW q \in Seq(Slots), NEW f, NEW g,
           \A s \in Range(q) : Letters(g)[s] = Letters(f)[s]
    PROVE  /\ Through(q, Letters(g)) = Through(q, Letters(f))
           /\ \A x \in Slots : Through(Append(q, x), Letters(g))
                                   = Append(Through(q, Letters(f)), Letter(g[x]))
           /\ q # <<>> =>
                 /\ Head(Through(q, Letters(f))) = Letter(f[Head(q)])
                 /\ Through(Tail(q), Letters(g)) = Tail(Through(q, Letters(f)))
           /\ \A k \in DOMAIN q : Through(RemoveAt(q, k), Letters(g))
                                      = RemoveAt(Through(q, Letters(f)), k)
    <1>1. Through(q, Letters(g)) = Through(q, Letters(f))
        BY ThroughFrame
    <1>2. \A x \in Slots : Letters(g)[x] = Letter(g[x]) /\ Letters(f)[x] = Letter(f[x])
        BY DEF Letters
    <1>3. ASSUME NEW x \in Slots
          PROVE  Through(Append(q, x), Letters(g))
                     = Append(Through(q, Letters(f)), Letter(g[x]))
        <2>1. Through(Append(q, x), Letters(g))
                  = Append(Through(q, Letters(g)), Letters(g)[x])
            BY ThroughAppend
        <2> QED BY <2>1, <1>1, <1>2
    <1>4. ASSUME q # <<>>
          PROVE  /\ Head(Through(q, Letters(f))) = Letter(f[Head(q)])
                 /\ Through(Tail(q), Letters(g)) = Tail(Through(q, Letters(f)))
        <2>1. Head(q) \in Slots
            BY <1>4, TailFacts
        <2>2. Head(Through(q, Letters(f))) = Letters(f)[Head(q)]
            BY <1>4, ThroughTail
        <2>3. Tail(Through(q, Letters(g))) = Through(Tail(q), Letters(g))
            BY <1>4, ThroughTail
        <2> QED BY <2>1, <2>2, <2>3, <1>1, <1>2
    <1>5. ASSUME NEW k \in DOMAIN q
          PROVE  Through(RemoveAt(q, k), Letters(g))
                     = RemoveAt(Through(q, Letters(f)), k)
        <2>1. Through(RemoveAt(q, k), Letters(g)) = RemoveAt(Through(q, Letters(g)), k)
            BY ThroughRemoveAt
        <2> QED BY <2>1, <1>1
    <1> QED BY <1>1, <1>3, <1>4, <1>5

\* The number of structures in a list.
LEMMA ListSize ==
    ASSUME NEW q \in Seq(Slots), IsInjective(q)
    PROVE  IsFiniteSet(Range(q)) /\ Cardinality(Range(q)) = Len(q)
    <1>1. Len(q) \in Nat /\ DOMAIN q = 1 .. Len(q) /\ q \in [1 .. Len(q) -> Slots]
        BY LenProperties
    <1>2. IsFiniteSet(1 .. Len(q)) /\ Cardinality(1 .. Len(q)) = Len(q)
        BY <1>1, FS_Interval
    <1>3. q \in Surjection(1 .. Len(q), Range(q)) /\ q \in Injection(1 .. Len(q), Range(q))
        BY <1>1 DEF IsInjective, Injection, Surjection, Range
    <1> QED BY <1>2, <1>3, FS_Surjection

\* A structure the thread may have in hand besides.
LEMMA HandSize ==
    ASSUME NEW S, IsFiniteSet(S), NEW x, x \notin S
    PROVE  /\ IsFiniteSet(S \cup ({x} \ {NoSlot}))
           /\ Cardinality(S \cup ({x} \ {NoSlot}))
                  = Cardinality(S) + (IF x = NoSlot THEN 0 ELSE 1)
    <1>0. Cardinality(S) \in Nat
        BY FS_CardinalityType
    <1>1. CASE x = NoSlot
        <2>1. S \cup ({x} \ {NoSlot}) = S
            BY <1>1
        <2>2. /\ IsFiniteSet(S \cup ({x} \ {NoSlot}))
              /\ Cardinality(S \cup ({x} \ {NoSlot})) = Cardinality(S)
            BY <2>1, Zenon
        <2>3. Cardinality(S) = Cardinality(S) + (IF x = NoSlot THEN 0 ELSE 1)
            BY <1>0, <1>1
        <2> QED BY <2>2, <2>3, Zenon
    <1>2. CASE x # NoSlot
        <2>1. S \cup ({x} \ {NoSlot}) = S \cup {x}
            BY <1>2
        <2> QED BY <2>1, <1>0, <1>2, FS_AddElement
    <1> QED BY <1>1, <1>2

\* Two sets of structures in different places.
LEMMA UnionSize ==
    ASSUME NEW S, NEW T, IsFiniteSet(S), IsFiniteSet(T), S \cap T = {}
    PROVE  /\ IsFiniteSet(S \cup T)
           /\ Cardinality(S \cup T) = Cardinality(S) + Cardinality(T)
    <1>1. /\ IsFiniteSet(S \cup T)
          /\ Cardinality(S \cup T)
                 = Cardinality(S) + Cardinality(T) - Cardinality(S \cap T)
        BY FS_Union
    <1>2. Cardinality(S \cap T) = 0
        BY FS_EmptySet
    <1> QED BY <1>1, <1>2, FS_CardinalityType

\* The delayed responses, each by its entity and its place in the list.
HeldPlaces == UNION {{e} \X DOMAIN held[e] : e \in Entities}

\* There are as many places in the delayed-response lists as structures.
LEMMA HeldSize ==
    ASSUME Inv
    PROVE  /\ IsFiniteSet(HeldSlots)
           /\ Cardinality(HeldSlots) = Cardinality(HeldPlaces)
    <1> DEFINE f == [p \in HeldPlaces |-> held[p[1]][p[2]]]
    <1>1. /\ \A e \in Entities : held[e] \in Seq(Slots) /\ IsInjective(held[e])
          /\ \A d, e \in Entities :
                d # e => Range(held[d]) \cap Range(held[e]) = {}
        BY DEF Inv, TypeOK, Conservation, NoDuplicates
    <1>2. HeldSlots \subseteq Slots
        BY IdentifiedType
    <1>3. IsFiniteSet(HeldSlots)
        BY <1>2, SlotsAssumption, FS_Subset
    <1>4. \A p \in HeldPlaces : /\ p[1] \in Entities /\ p[2] \in DOMAIN held[p[1]]
                                /\ p = <<p[1], p[2]>>
        BY DEF HeldPlaces
    <1>5. \A p \in HeldPlaces : held[p[1]][p[2]] \in Range(held[p[1]])
        BY <1>1, <1>4, RemoveAtFacts
    <1>6. f \in [HeldPlaces -> HeldSlots]
        BY <1>4, <1>5 DEF HeldSlots
    <1>7. \A p, r \in HeldPlaces : f[p] = f[r] => p = r
        <2> SUFFICES ASSUME NEW p \in HeldPlaces, NEW r \in HeldPlaces,
                            held[p[1]][p[2]] = held[r[1]][r[2]]
                     PROVE  p = r
            OBVIOUS
        <2>1. p[1] = r[1]
            BY <1>1, <1>4, <1>5
        <2>2. p[2] = r[2]
            BY <2>1, <1>1, <1>4 DEF IsInjective
        <2> QED BY <2>1, <2>2, <1>4
    <1>8. \A x \in HeldSlots : \E p \in HeldPlaces : f[p] = x
        <2> SUFFICES ASSUME NEW x \in HeldSlots PROVE \E p \in HeldPlaces : f[p] = x
            OBVIOUS
        <2>1. PICK e \in Entities : x \in Range(held[e])
            BY DEF HeldSlots
        <2>2. PICK i \in DOMAIN held[e] : held[e][i] = x
            BY <2>1 DEF Range
        <2>3. <<e, i>> \in HeldPlaces
            BY DEF HeldPlaces
        <2>4. f[<<e, i>>] = x
            BY <2>2, <2>3
        <2> QED BY <2>3, <2>4
    <1>9. f \in Injection(HeldPlaces, HeldSlots)
        BY <1>6, <1>7, Fun_IsInj
    <1>10. f \in Surjection(HeldPlaces, HeldSlots)
        BY <1>6, <1>8, Fun_IsSurj
    <1> QED BY <1>3, <1>9, <1>10, FS_Injection

\* The structures that are not free are the load of the service.
LEMMA NotFree ==
    ASSUME Inv
    PROVE  Cardinality(Slots)
               = Len(free) + Len(queue) + Len(isrQueue) + Cardinality(HeldPlaces)
                 + (IF current = NoSlot THEN 0 ELSE 1)
                 + (IF new = NoSlot THEN 0 ELSE 1)
                 + (IF moving = NoSlot THEN 0 ELSE 1)
    <1> DEFINE F == Range(free)
               Q == Range(queue)
               I == Range(isrQueue)
    <1>1. /\ TypeOK /\ NoDuplicates
          /\ Partition(F, Q, I, HeldSlots, current, new, moving)
        BY PartitionIsConservation DEF Inv, Conservation
    <1>2. /\ IsFiniteSet(F) /\ Cardinality(F) = Len(free)
          /\ IsFiniteSet(Q) /\ Cardinality(Q) = Len(queue)
          /\ IsFiniteSet(I) /\ Cardinality(I) = Len(isrQueue)
        BY <1>1, ListSize DEF TypeOK, NoDuplicates
    <1>3. IsFiniteSet(HeldSlots) /\ Cardinality(HeldSlots) = Cardinality(HeldPlaces)
        BY HeldSize
    <1> HIDE DEF F, Q, I
    <1> DEFINE A == (F \cup Q) \cup (I \cup HeldSlots)
    <1>4. /\ IsFiniteSet(F \cup Q) /\ Cardinality(F \cup Q) = Len(free) + Len(queue)
          /\ IsFiniteSet(I \cup HeldSlots)
          /\ Cardinality(I \cup HeldSlots) = Len(isrQueue) + Cardinality(HeldPlaces)
        <2>1. F \cap Q = {} /\ I \cap HeldSlots = {}
            BY <1>1 DEF Partition
        <2>2. /\ IsFiniteSet(F \cup Q)
              /\ Cardinality(F \cup Q) = Cardinality(F) + Cardinality(Q)
            BY <2>1, <1>2, UnionSize
        <2>3. /\ IsFiniteSet(I \cup HeldSlots)
              /\ Cardinality(I \cup HeldSlots)
                     = Cardinality(I) + Cardinality(HeldSlots)
            BY <2>1, <1>2, <1>3, UnionSize
        <2> QED BY <2>2, <2>3, <1>2, <1>3
    <1>5. (F \cup Q) \cap (I \cup HeldSlots) = {}
        BY <1>1 DEF Partition
    <1>6. /\ IsFiniteSet(A)
          /\ Cardinality(A) = Len(free) + Len(queue)
                              + (Len(isrQueue) + Cardinality(HeldPlaces))
        BY <1>4, <1>5, UnionSize, SMTT(30)
    <1>7. /\ current \notin A /\ new \notin A /\ moving \notin A
          /\ Slots = A \cup (({current} \cup {new} \cup {moving}) \ {NoSlot})
          /\ NoSlot \notin A
        BY <1>1, SlotsAssumption DEF Partition
    <1> HIDE DEF A
    <1> DEFINE B == A \cup ({current} \ {NoSlot})
               C == B \cup ({new} \ {NoSlot})
               D == C \cup ({moving} \ {NoSlot})
    <1>8. /\ IsFiniteSet(B)
          /\ Cardinality(B) = Cardinality(A) + (IF current = NoSlot THEN 0 ELSE 1)
        BY <1>6, <1>7, HandSize
    <1>9. new \notin B /\ moving \notin C
        BY <1>1, <1>7 DEF Partition
    <1>10. D = Slots
        BY <1>7
    <1> HIDE DEF B
    <1>11. /\ IsFiniteSet(C)
           /\ Cardinality(C) = Cardinality(B) + (IF new = NoSlot THEN 0 ELSE 1)
        BY <1>8, <1>9, HandSize
    <1> HIDE DEF C
    <1>12. Cardinality(D) = Cardinality(C) + (IF moving = NoSlot THEN 0 ELSE 1)
        BY <1>9, <1>11, HandSize
    <1> HIDE DEF D
    <1>13. /\ Len(free) \in Nat /\ Len(queue) \in Nat /\ Len(isrQueue) \in Nat
           /\ Cardinality(HeldPlaces) \in Nat
        BY <1>2, <1>3, FS_CardinalityType
    <1> QED BY <1>6, <1>8, <1>10, <1>11, <1>12, <1>13

\* The abstract queues are the queues seen through the contents.
LEMMA MessagesThrough ==
    TypeOK => /\ Messages(queue) = Through(queue, Letters(event))
              /\ Messages(isrQueue) = Through(isrQueue, Letters(event))
              /\ HeldMessages = [e \in Entities |-> Through(held[e], Letters(event))]
    <1> SUFFICES ASSUME TypeOK
                 PROVE  /\ Messages(queue) = Through(queue, Letters(event))
                        /\ Messages(isrQueue) = Through(isrQueue, Letters(event))
                        /\ HeldMessages = [e \in Entities |->
                                               Through(held[e], Letters(event))]
        OBVIOUS
    <1>1. ASSUME NEW q \in Seq(Slots)
          PROVE  Messages(q) = Through(q, Letters(event))
        <2>1. \A i \in DOMAIN q : q[i] \in Slots
            BY SeqBasics
        <2>2. \A i \in DOMAIN q : Letters(event)[q[i]] = Message(q[i])
            BY <2>1 DEF Letters, Letter, Message
        <2> QED BY <2>2 DEF Messages, Through
    <1>2. /\ queue \in Seq(Slots) /\ isrQueue \in Seq(Slots)
          /\ \A e \in Entities : held[e] \in Seq(Slots)
        BY DEF TypeOK
    <1>3. \A e \in Entities : Messages(held[e]) = Through(held[e], Letters(event))
        BY <1>1, <1>2
    <1> QED BY <1>1, <1>2, <1>3 DEF HeldMessages

\* The same of the next state.
LEMMA MessagesThroughNext ==
    (TypeOK => /\ Messages(queue) = Through(queue, Letters(event))
               /\ Messages(isrQueue) = Through(isrQueue, Letters(event))
               /\ HeldMessages = [e \in Entities |-> Through(held[e], Letters(event))])'
    BY MessagesThrough, PTL

Kept(A) == \A s \in A \ {NoSlot} : Letter(event'[s]) = Letter(event[s])

\* What a step that keeps the queued messages makes of the event queue.
LEMMA QueueStep ==
    ASSUME Inv, TypeOK', Kept(Range(queue))
    PROVE  /\ queue' = queue => Messages(queue)' = Messages(queue)
           /\ \A x \in Slots : queue' = Append(queue, x) =>
                  Messages(queue)' = Append(Messages(queue), Letter(event'[x]))
           /\ queue # <<>> =>
                  /\ Messages(queue) # <<>>
                  /\ Head(Messages(queue)) = Letter(event[Head(queue)])
                  /\ queue' = Tail(queue) => Messages(queue)' = Tail(Messages(queue))
    <1>1. queue \in Seq(Slots) /\ Range(queue) \subseteq Slots
        BY IdentifiedType DEF Inv, TypeOK
    <1>2. \A s \in Range(queue) : Letters(event')[s] = Letters(event)[s]
        BY <1>1, SlotsAssumption DEF Kept, Letters
    <1> DEFINE q == Through(queue, Letters(event))
    <1>3. Messages(queue) = q /\ Messages(queue)' = Through(queue', Letters(event'))
        BY MessagesThrough, MessagesThroughNext DEF Inv
    <1>4. /\ Through(queue, Letters(event')) = q
          /\ \A x \in Slots : Through(Append(queue, x), Letters(event'))
                                  = Append(q, Letter(event'[x]))
          /\ queue # <<>> => /\ Head(q) = Letter(event[Head(queue)])
                             /\ Through(Tail(queue), Letters(event')) = Tail(q)
        BY <1>1, <1>2, ThroughStep
    <1>5. queue # <<>> => q # <<>>
        <2>1. q \in Seq(Contents(Slots, Letters(event)))
            BY <1>1, ThroughType
        <2> QED BY <2>1, <1>1, ThroughType
    <1> HIDE DEF q
    <1> QED BY <1>3, <1>4, <1>5

\* And of the interrupt queue, with the event between the two queues.
LEMMA IsrQueueStep ==
    ASSUME Inv, TypeOK', Kept(Range(isrQueue)), Kept({moving})
    PROVE  /\ isrQueue' = isrQueue /\ moving' = moving => IsrMessages' = IsrMessages
           /\ \A x \in Slots : isrQueue' = Append(isrQueue, x) /\ moving' = moving =>
                  IsrMessages' = Append(IsrMessages, Letter(event'[x]))
           /\ isrQueue # <<>> /\ isrQueue' = Tail(isrQueue) /\ moving = NoSlot
              /\ moving' = Head(isrQueue) => IsrMessages' = IsrMessages
           /\ moving # NoSlot /\ moving' = NoSlot /\ isrQueue' = isrQueue =>
                  /\ IsrMessages # <<>>
                  /\ Head(IsrMessages) = Letter(event[moving])
                  /\ IsrMessages' = Tail(IsrMessages)
    <1>1. /\ isrQueue \in Seq(Slots) /\ Range(isrQueue) \subseteq Slots
          /\ moving \in Slots \cup {NoSlot}
        BY IdentifiedType DEF Inv, TypeOK
    <1>2. \A s \in Range(isrQueue) : Letters(event')[s] = Letters(event)[s]
        BY <1>1, SlotsAssumption DEF Kept, Letters
    <1> DEFINE q == Through(isrQueue, Letters(event))
               T == Contents(Slots, Letters(event)) \cup
                    {Letter(event[s]) : s \in Slots} \cup {Letter(event'[s]) : s \in Slots}
    <1>3. /\ Messages(isrQueue) = q
          /\ Messages(isrQueue)' = Through(isrQueue', Letters(event'))
        BY MessagesThrough, MessagesThroughNext DEF Inv
    <1>4. /\ Through(isrQueue, Letters(event')) = q
          /\ \A x \in Slots : Through(Append(isrQueue, x), Letters(event'))
                                  = Append(q, Letter(event'[x]))
          /\ isrQueue # <<>> => /\ Head(q) = Letter(event[Head(isrQueue)])
                                /\ Through(Tail(isrQueue), Letters(event')) = Tail(q)
        BY <1>1, <1>2, ThroughStep
    <1>5. q \in Seq(T)
        <2>1. q \in Seq(Contents(Slots, Letters(event)))
            BY <1>1, ThroughType
        <2> QED BY <2>1, SeqMonotonic
    <1>6. isrQueue # <<>> => q # <<>>
        <2>1. q \in Seq(Contents(Slots, Letters(event)))
            BY <1>1, ThroughType
        <2> QED BY <2>1, <1>1, ThroughType
    <1>7. /\ moving = NoSlot => IsrMessages = q
          /\ moving # NoSlot => IsrMessages = <<Letter(event[moving])>> \o q
          /\ moving' = NoSlot => IsrMessages' = Messages(isrQueue)'
          /\ moving' # NoSlot =>
                IsrMessages' = <<Letter(event'[moving'])>> \o Messages(isrQueue)'
        BY <1>3 DEF IsrMessages, Message, Letter
    <1>8. /\ \A s \in Slots : Letter(event[s]) \in T /\ Letter(event'[s]) \in T
          /\ moving # NoSlot => Letter(event'[moving]) = Letter(event[moving])
        BY DEF Kept
    <1>9. ASSUME NEW m \in T
          PROVE  /\ <<m>> \in Seq(T) /\ <<m>> # <<>> /\ Head(<<m>>) = m
                 /\ Tail(<<m>>) = <<>>
        OBVIOUS
    <1> HIDE DEF q, T
    <1>10. ASSUME isrQueue' = isrQueue, moving' = moving
           PROVE  IsrMessages' = IsrMessages
        BY <1>10, <1>3, <1>4, <1>7, <1>8
    <1>11. ASSUME NEW x \in Slots, isrQueue' = Append(isrQueue, x), moving' = moving
           PROVE  IsrMessages' = Append(IsrMessages, Letter(event'[x]))
        <2>1. Messages(isrQueue)' = Append(q, Letter(event'[x]))
            BY <1>11, <1>3, <1>4
        <2>2. CASE moving = NoSlot
            BY <2>1, <2>2, <1>7, <1>11
        <2>3. CASE moving # NoSlot
            <3>1. <<Letter(event[moving])>> \in Seq(T) /\ Letter(event'[x]) \in T
                BY <2>3, <1>1, <1>8, <1>9
            <3>2. <<Letter(event[moving])>> \o Append(q, Letter(event'[x]))
                      = Append(<<Letter(event[moving])>> \o q, Letter(event'[x]))
                BY <3>1, <1>5, ConcatAppend
            <3> QED BY <2>1, <2>3, <3>2, <1>7, <1>8, <1>11
        <2> QED BY <2>2, <2>3
    <1>12. ASSUME isrQueue # <<>>, isrQueue' = Tail(isrQueue), moving = NoSlot,
                  moving' = Head(isrQueue)
           PROVE  IsrMessages' = IsrMessages
        <2>1. Head(isrQueue) \in Range(isrQueue)
            BY <1>12, <1>1, TailFacts
        <2>2. moving' # NoSlot /\ Letter(event'[moving']) = Letter(event[Head(isrQueue)])
            BY <2>1, <1>1, <1>12, SlotsAssumption DEF Kept
        <2>3. IsrMessages' = <<Head(q)>> \o Tail(q)
            BY <2>2, <1>3, <1>4, <1>7, <1>12
        <2>4. q = <<Head(q)>> \o Tail(q)
            <3>1. q # <<>>
                BY <1>6, <1>12
            <3>2. <<>> \in Seq(T) /\ Append(<<>>, Head(q)) = <<Head(q)>>
                OBVIOUS
            <3>3. Append(<<>>, Head(q)) \o Tail(q) = <<>> \o q
                BY <3>1, <3>2, <1>5, ConcatMove
            <3>4. <<>> \o q = q
                BY <1>5, ConcatEmptySeq
            <3> QED BY <3>2, <3>3, <3>4
        <2> QED BY <2>3, <2>4, <1>7, <1>12
    <1>13. ASSUME moving # NoSlot, moving' = NoSlot, isrQueue' = isrQueue
           PROVE  /\ IsrMessages # <<>>
                  /\ Head(IsrMessages) = Letter(event[moving])
                  /\ IsrMessages' = Tail(IsrMessages)
        <2> DEFINE m == Letter(event[moving])
        <2>1. m \in T
            BY <1>13, <1>1, <1>8
        <2>2. <<m>> \in Seq(T) /\ <<m>> # <<>> /\ Head(<<m>>) = m /\ Tail(<<m>>) = <<>>
            BY <2>1, <1>9
        <2>3. /\ <<m>> \o q # <<>> /\ Head(<<m>> \o q) = m
              /\ Tail(<<m>> \o q) = <<>> \o q
            BY <2>2, <1>5, ConcatHeadTail
        <2>4. <<>> \o q = q
            BY <1>5, ConcatEmptySeq
        <2>5. IsrMessages' = q
            BY <1>3, <1>4, <1>7, <1>13
        <2>6. IsrMessages = <<m>> \o q
            BY <1>7, <1>13
        <2> QED BY <2>3, <2>4, <2>5, <2>6
    <1> QED BY <1>10, <1>11, <1>12, <1>13

\* And of the delayed responses.
LEMMA HeldStep ==
    ASSUME Inv, TypeOK', Kept(HeldSlots)
    PROVE  /\ held' = held => HeldMessages' = HeldMessages
           /\ \A e \in Entities, x \in Slots :
                  held' = [held EXCEPT ![e] = Append(@, x)] =>
                      HeldMessages' = [HeldMessages EXCEPT ![e] =
                                           Append(@, Letter(event'[x]))]
           /\ \A e \in Entities : \A i \in DOMAIN held[e] :
                  /\ i \in DOMAIN HeldMessages[e]
                  /\ HeldMessages[e][i] = Letter(event[held[e][i]])
                  /\ held' = [held EXCEPT ![e] = RemoveAt(@, i)] =>
                         HeldMessages' = [HeldMessages EXCEPT ![e] = RemoveAt(@, i)]
    <1>1. /\ \A e \in Entities : held[e] \in Seq(Slots)
          /\ held \in [Entities -> Seq(Slots)] /\ HeldSlots \subseteq Slots
        BY IdentifiedType DEF Inv, TypeOK
    <1>2. ASSUME NEW e \in Entities
          PROVE  \A s \in Range(held[e]) : Letters(event')[s] = Letters(event)[s]
        BY <1>1, SlotsAssumption DEF Kept, Letters, HeldSlots
    <1> DEFINE m == [e \in Entities |-> Through(held[e], Letters(event))]
    <1>3. /\ HeldMessages = m
          /\ HeldMessages' = [e \in Entities |-> Through(held'[e], Letters(event'))]
        BY MessagesThrough, MessagesThroughNext DEF Inv
    <1>4. \A e \in Entities : Through(held[e], Letters(event')) = m[e]
        BY <1>1, <1>2, ThroughStep
    <1>5. ASSUME NEW e \in Entities, NEW x \in Slots
          PROVE  Through(Append(held[e], x), Letters(event'))
                     = Append(m[e], Letter(event'[x]))
        <2>1. /\ held[e] \in Seq(Slots)
              /\ \A s \in Range(held[e]) : Letters(event')[s] = Letters(event)[s]
              /\ m[e] = Through(held[e], Letters(event))
            BY <1>1, <1>2
        <2> HIDE DEF m
        <2>2. Through(Append(held[e], x), Letters(event'))
                  = Append(Through(held[e], Letters(event)), Letter(event'[x]))
            BY <2>1, ThroughStep
        <2> QED BY <2>1, <2>2
    <1>6. ASSUME NEW e \in Entities, NEW i \in DOMAIN held[e]
          PROVE  /\ i \in DOMAIN m[e]
                 /\ m[e][i] = Letter(event[held[e][i]])
                 /\ Through(RemoveAt(held[e], i), Letters(event')) = RemoveAt(m[e], i)
        <2>1. Through(RemoveAt(held[e], i), Letters(event')) = RemoveAt(m[e], i)
            BY <1>1, <1>2, ThroughStep
        <2>2. held[e][i] \in Slots
            BY <1>1, RemoveAtFacts
        <2>3. i \in DOMAIN m[e] /\ m[e][i] = Letters(event)[held[e][i]]
            BY DEF Through
        <2> QED BY <2>1, <2>2, <2>3 DEF Letters
    <1>7. DOMAIN m = Entities
        OBVIOUS
    <1>8. m = [e \in Entities |-> m[e]]
        OBVIOUS
    <1> HIDE DEF m
    <1>9. ASSUME held' = held
          PROVE  HeldMessages' = HeldMessages
        BY <1>9, <1>3, <1>4, <1>8
    <1>10. ASSUME NEW e \in Entities, NEW x \in Slots,
                  held' = [held EXCEPT ![e] = Append(@, x)]
           PROVE  HeldMessages' = [HeldMessages EXCEPT ![e] =
                                       Append(@, Letter(event'[x]))]
        <2>1. \A d \in Entities :
                  held'[d] = IF d = e THEN Append(held[e], x) ELSE held[d]
            BY <1>1, <1>10
        <2>2. \A d \in Entities : Through(held'[d], Letters(event'))
                  = IF d = e THEN Append(m[e], Letter(event'[x])) ELSE m[d]
            BY <2>1, <1>4, <1>5
        <2>3. HeldMessages' = [d \in Entities |->
                  IF d = e THEN Append(m[e], Letter(event'[x])) ELSE m[d]]
            BY <2>2, <1>3
        <2>4. [m EXCEPT ![e] = Append(@, Letter(event'[x]))]
                  = [d \in Entities |->
                         IF d = e THEN Append(m[e], Letter(event'[x])) ELSE m[d]]
            BY <1>7, <1>8
        <2> QED BY <2>3, <2>4, <1>3
    <1>11. ASSUME NEW e \in Entities, NEW i \in DOMAIN held[e],
                  held' = [held EXCEPT ![e] = RemoveAt(@, i)]
           PROVE  HeldMessages' = [HeldMessages EXCEPT ![e] = RemoveAt(@, i)]
        <2>1. \A d \in Entities :
                  held'[d] = IF d = e THEN RemoveAt(held[e], i) ELSE held[d]
            BY <1>1, <1>11
        <2>2. \A d \in Entities : Through(held'[d], Letters(event'))
                  = IF d = e THEN RemoveAt(m[e], i) ELSE m[d]
            BY <2>1, <1>4, <1>6
        <2>3. HeldMessages' = [d \in Entities |->
                  IF d = e THEN RemoveAt(m[e], i) ELSE m[d]]
            BY <2>2, <1>3
        <2>4. [m EXCEPT ![e] = RemoveAt(@, i)]
                  = [d \in Entities |-> IF d = e THEN RemoveAt(m[e], i) ELSE m[d]]
            BY <1>7, <1>8
        <2> QED BY <2>3, <2>4, <1>3
    <1> QED BY <1>3, <1>6, <1>9, <1>10, <1>11

\* And of what the thread has in hand.
LEMMA HandStep ==
    ASSUME Inv
    PROVE  /\ current' = current /\ Kept({current}) =>
                  MessageOrNone(current)' = MessageOrNone(current)
           /\ new' = new /\ Kept({new}) => MessageOrNone(new)' = MessageOrNone(new)
           /\ current = NoSlot <=> MessageOrNone(current) = NoSlot
           /\ new = NoSlot <=> MessageOrNone(new) = NoSlot
           /\ current # NoSlot => MessageOrNone(current) = Letter(event[current])
           /\ new # NoSlot => MessageOrNone(new) = Letter(event[new])
           /\ current' = NoSlot => MessageOrNone(current)' = NoSlot
           /\ new' = NoSlot => MessageOrNone(new)' = NoSlot
           /\ current' # NoSlot => MessageOrNone(current)' = Letter(event'[current'])
           /\ new' # NoSlot => MessageOrNone(new)' = Letter(event'[new'])
    <1>1. \A s \in Slots : event[s] \in Event
        BY DEF Inv, TypeOK
    <1>2. \A s \in Slots : Letter(event[s]) # NoSlot
        BY <1>1, LetterType
    <1>3. current \in Slots \cup {NoSlot} /\ new \in Slots \cup {NoSlot}
        BY DEF Inv, TypeOK
    <1>4. /\ \A s : MessageOrNone(s) = IF s = NoSlot THEN NoSlot ELSE Letter(event[s])
          /\ MessageOrNone(current)'
                 = IF current' = NoSlot THEN NoSlot ELSE Letter(event'[current'])
          /\ MessageOrNone(new)'
                 = IF new' = NoSlot THEN NoSlot ELSE Letter(event'[new'])
        BY DEF MessageOrNone, Message, Letter
    <1> QED BY <1>2, <1>3, <1>4 DEF Kept

\* The service is full exactly when the pool is empty.
LEMMA LoadIs ==
    ASSUME Inv
    PROVE  /\ Service!Load = Cardinality(Slots) - Len(free)
           /\ free # <<>> => Service!Load < Cardinality(Slots)
           /\ free = <<>> => Service!Load = Cardinality(Slots)
    <1>1. /\ queue \in Seq(Slots) /\ isrQueue \in Seq(Slots) /\ free \in Seq(Slots)
          /\ \A e \in Entities : held[e] \in Seq(Slots)
        BY DEF Inv, TypeOK
    <1>2. Len(Messages(queue)) = Len(queue)
        <2>1. Messages(queue) = Through(queue, Letters(event))
            BY MessagesThrough DEF Inv
        <2>2. Through(queue, Letters(event)) \in Seq(Contents(Slots, Letters(event)))
            BY <1>1, ThroughType
        <2> QED BY <2>1, <2>2, <1>1, ThroughType
    <1>3. Len(IsrMessages) = Len(isrQueue) + (IF moving = NoSlot THEN 0 ELSE 1)
        <2> DEFINE q == Through(isrQueue, Letters(event))
                   T == Contents(Slots, Letters(event)) \cup {Message(moving)}
        <2>1. Messages(isrQueue) = q
            BY MessagesThrough DEF Inv
        <2>2. q \in Seq(Contents(Slots, Letters(event)))
            BY <1>1, ThroughType
        <2>3. Len(q) = Len(isrQueue)
            BY <2>2, <1>1, ThroughType
        <2>4. q \in Seq(T) /\ <<Message(moving)>> \in Seq(T)
              /\ Len(<<Message(moving)>>) = 1
            BY <2>2, SeqMonotonic
        <2> HIDE DEF q, T
        <2>5. Len(<<Message(moving)>> \o q) = 1 + Len(q)
            BY <2>4, ConcatProperties
        <2>6. Len(isrQueue) \in Nat
            BY <1>1, LenProperties
        <2> QED BY <2>1, <2>3, <2>5, <2>6 DEF IsrMessages
    <1>4. Service!Owed = HeldPlaces
        <2>1. \A e \in Entities : DOMAIN HeldMessages[e] = DOMAIN held[e]
            BY DEF HeldMessages, Messages
        <2> QED BY <2>1 DEF Service!Owed, HeldPlaces
    <1>5. Service!Cardinality(Service!Owed) = Cardinality(Service!Owed)
        BY Zenon DEF Service!Cardinality, Cardinality
    <1>6. /\ Service!Count(MessageOrNone(current)) = IF current = NoSlot THEN 0 ELSE 1
          /\ Service!Count(MessageOrNone(new)) = IF new = NoSlot THEN 0 ELSE 1
        BY HandStep DEF Service!Count
    <1>7. Service!Load = Len(queue) + (Len(isrQueue) + (IF moving = NoSlot THEN 0 ELSE 1))
                         + (IF current = NoSlot THEN 0 ELSE 1)
                         + (IF new = NoSlot THEN 0 ELSE 1) + Cardinality(HeldPlaces)
        BY <1>2, <1>3, <1>4, <1>5, <1>6 DEF Service!Load
    <1>8. /\ Len(queue) \in Nat /\ Len(isrQueue) \in Nat /\ Len(free) \in Nat
          /\ Cardinality(HeldPlaces) \in Nat
        <2>1. Cardinality(HeldPlaces) \in Nat
            BY HeldSize, FS_CardinalityType
        <2> QED BY <2>1, <1>1, LenProperties
    <1>9. Service!Load = Cardinality(Slots) - Len(free)
        <2> DEFINE c == IF current = NoSlot THEN 0 ELSE 1
                   n == IF new = NoSlot THEN 0 ELSE 1
                   m == IF moving = NoSlot THEN 0 ELSE 1
        <2>1. c \in Nat /\ n \in Nat /\ m \in Nat
            OBVIOUS
        <2>2. Service!Load = Len(queue) + (Len(isrQueue) + m) + c + n
                             + Cardinality(HeldPlaces)
            BY <1>7
        <2>3. Cardinality(Slots) = Len(free) + Len(queue) + Len(isrQueue)
                                   + Cardinality(HeldPlaces) + c + n + m
            BY NotFree
        <2> HIDE DEF c, n, m
        <2> QED BY <2>1, <2>2, <2>3, <1>8
    <1>10. /\ free # <<>> => Len(free) > 0
           /\ free = <<>> => Len(free) = 0
        BY <1>1, <1>8, EmptySeq
    <1>11. Cardinality(Slots) \in Nat
        BY SlotsAssumption, FS_CardinalityType
    <1> QED BY <1>8, <1>9, <1>10, <1>11

\* Where the thread is says what the message it serves is owed, and that
\* process_isr moves an event when the event queue is empty.
ServeInv ==
    /\ pc = "respond" => event[current].responseRequested
    /\ pc = "push" => queue = <<>>

\* A step that allocates keeps the contents of every structure in use.
LEMMA AllocateKept ==
    ASSUME Inv, NEW e, Allocate(e)
    PROVE  /\ Kept(Range(queue)) /\ Kept(Range(isrQueue)) /\ Kept(HeldSlots)
           /\ Kept({current}) /\ Kept({new}) /\ Kept({moving})
           /\ free # <<>> /\ event'[Head(free)] = e
           /\ Head(free) \in Slots /\ Head(free) # NoSlot
    <1>1. /\ Head(free) \in Slots
          /\ Head(free) \notin Range(queue) \cup Range(isrQueue) \cup HeldSlots
          /\ Head(free) \notin {current, new, moving}
          /\ \A s \in Slots : s # Head(free) => event'[s] = event[s]
          /\ free # <<>> /\ event'[Head(free)] = e
        BY AllocateFrame, HeadApart
    <1>2. /\ Range(queue) \subseteq Slots /\ Range(isrQueue) \subseteq Slots
          /\ HeldSlots \subseteq Slots
          /\ {current, new, moving} \subseteq Slots \cup {NoSlot}
        BY IdentifiedType DEF Inv, TypeOK
    <1> QED BY <1>1, <1>2, SlotsAssumption DEF Kept

\* So does one that writes no structure.
LEMMA UnchangedKept ==
    ASSUME NEW A, event' = event
    PROVE  Kept(A)
    BY DEF Kept

\* The thread serves what it says it serves.
LEMMA NextServeInv ==
    ASSUME Inv, Inv', ServeInv, [Next]_vars
    PROVE  ServeInv'
    <1>a. TypeOK /\ HandsInv /\ TypeOK' /\ HandsInv'
        BY DEF Inv
    <1>1. CASE HandlerReturns
        <2>1. PICK delay \in BOOLEAN :
                  event' = [event EXCEPT ![current].isDelayedResponse = delay]
            BY <1>1 DEF HandlerReturns
        <2>2. current \in Slots
            BY <1>1, <1>a DEF HandlerReturns, HandsInv, TypeOK
        <2>3. event[current] \in Event
            BY <2>2, <1>a DEF TypeOK
        <2>4. event'[current] = [event[current] EXCEPT !.isDelayedResponse = delay]
            BY <2>1, <2>2, <1>a DEF TypeOK
        <2>5. event'[current].responseRequested = event[current].responseRequested
            BY <2>3, <2>4 DEF Event
        <2> QED BY <1>1, <2>5 DEF HandlerReturns, ServeInv
    <1>2. CASE Respond
        <2>1. CASE free # <<>>
            <3>1. Allocate(Response(event[current], FALSE))
                BY <1>2, <2>1 DEF Respond
            <3>2. current \in Slots /\ current # Head(free)
                BY <1>2, <1>a, <2>1, HeadApart DEF Respond, HandsInv, TypeOK
            <3>3. event'[current] = event[current]
                BY <3>1, <3>2, AllocateFrame
            <3> QED BY <1>2, <3>3 DEF Respond, ServeInv
        <2>2. CASE free = <<>>
            BY <1>2, <2>2 DEF Respond, ServeInv
        <2> QED BY <2>1, <2>2
    <1>3. CASE IsrRaisesEvent
        <2>1. PICK s \in Entities, t \in Entities :
                  Allocate(Request(s, t, FALSE, FALSE))
            BY <1>3 DEF IsrRaisesEvent
        <2>2. UNCHANGED <<current, pc, queue>>
            BY <1>3 DEF IsrRaisesEvent, thread
        <2>3. pc = "respond" => event'[current] = event[current]
            BY <2>1, <1>a, AllocateFrame, HeadApart DEF HandsInv, TypeOK
        <2> QED BY <2>2, <2>3 DEF ServeInv
    <1>4. CASE StoreAndQueue
        BY <1>4, <1>a DEF StoreAndQueue, HandsInv, ServeInv
    <1>5. CASE RaiseEvent \/ RaiseLightEvent \/ RaiseDelayedResponse
        <2>1. pc' \in {"start", "handle"}
            BY <1>5 DEF RaiseEvent, RaiseLightEvent, RaiseDelayedResponse,
                        MayRaise, thread
        <2> QED BY <2>1 DEF ServeInv
    <1>6. CASE EnterMainLoop \/ PopEvent \/ HoldResponse \/ FreeEvent
               \/ PushIsrEvent \/ Unbuffer \/ Suspend
        <2>1. pc' \notin {"respond", "push"}
            BY <1>6 DEF EnterMainLoop, PopEvent, HoldResponse, FreeEvent,
                        PushIsrEvent, Unbuffer, Suspend
        <2> QED BY <2>1 DEF ServeInv
    <1>7. CASE PopIsrEvent
        BY <1>7 DEF PopIsrEvent, ServeInv
    <1>8. CASE LoadCounter \/ IsrRaisesNothing \/ UNCHANGED vars
        BY <1>8 DEF LoadCounter, IsrRaisesNothing, vars, lists, thread, ServeInv
    <1> QED
        BY <1>1, <1>2, <1>3, <1>4, <1>5, <1>6, <1>7, <1>8
           DEF Next, Raise, Loop, Isr

\* The initial pool is an empty service.
LEMMA InitService == Init => Service!Init
    <1> SUFFICES ASSUME Init PROVE Service!Init
        OBVIOUS
    <1>1. /\ Messages(queue) = <<>> /\ Messages(isrQueue) = <<>>
          /\ HeldMessages = [e \in Entities |-> <<>>]
        BY DEF Init, Messages, HeldMessages
    <1>2. IsrMessages = <<>>
        BY <1>1 DEF Init, IsrMessages
    <1> QED BY <1>1, <1>2 DEF Service!Init, Init, MessageOrNone, Settled

\* Each step of the engine is a step of the service, or none that the modules
\* can see.
LEMMA NextService ==
    ASSUME Inv, Inv', ServeInv, [Next]_vars
    PROVE  [Service!Next]_(Service!vars)
    <1>a. /\ TypeOK /\ HandsInv /\ TypeOK' /\ HandsInv'
          /\ \A s \in Slots : event[s] \in Event
          /\ pc = "respond" => event[current].responseRequested
          /\ pc = "push" => queue = <<>>
        BY DEF Inv, TypeOK, ServeInv
    <1>b. /\ current = NoSlot <=> MessageOrNone(current) = NoSlot
          /\ new = NoSlot <=> MessageOrNone(new) = NoSlot
          /\ current # NoSlot => MessageOrNone(current) = Letter(event[current])
          /\ new # NoSlot => MessageOrNone(new) = Letter(event[new])
        BY HandStep
    <1>c. /\ free # <<>> => Service!Load < Cardinality(Slots)
          /\ free = <<>> => Service!Load = Cardinality(Slots)
        BY LoadIs
    <1>d. ASSUME UNCHANGED <<queue, isrQueue, held, current, new, moving>>,
                 Kept(Range(queue)), Kept(Range(isrQueue)), Kept(HeldSlots),
                 Kept({current}), Kept({new}), Kept({moving})
          PROVE  /\ Messages(queue)' = Messages(queue) /\ IsrMessages' = IsrMessages
                 /\ HeldMessages' = HeldMessages
                 /\ MessageOrNone(current)' = MessageOrNone(current)
                 /\ MessageOrNone(new)' = MessageOrNone(new)
        BY <1>d, <1>a, QueueStep, IsrQueueStep, HeldStep, HandStep
    <1>1. CASE RaiseEvent
        <2>1. PICK s \in Raiser, t \in Entities, rr \in BOOLEAN :
                  Allocate(Request(s, t, rr, FALSE))
            BY <1>1 DEF RaiseEvent
        <2> DEFINE m == Letter(Request(s, t, rr, FALSE))
        <2>2. /\ Kept(Range(queue)) /\ Kept(Range(isrQueue)) /\ Kept(HeldSlots)
              /\ Kept({current}) /\ Kept({moving})
              /\ free # <<>> /\ Letter(event'[Head(free)]) = m
              /\ Head(free) \in Slots /\ Head(free) # NoSlot
            BY <2>1, AllocateKept
        <2>3. m \in Service!Message /\ ~m.isResponse /\ m.source = s
            BY RaiserType, RequestType, LetterType, <1>a DEF Letter, Request
        <2>4. /\ UNCHANGED <<queue, isrQueue, held, current, moving, pc>>
              /\ new = NoSlot /\ new' = Head(free) /\ stage = "none"
              /\ pc \in {"start", "handle"}
            BY <1>1, <1>a DEF RaiseEvent, MayRaise, HandsInv
        <2>5. /\ Messages(queue)' = Messages(queue) /\ IsrMessages' = IsrMessages
              /\ HeldMessages' = HeldMessages
            BY <2>2, <2>4, <1>a, QueueStep, IsrQueueStep, HeldStep
        <2>6. /\ MessageOrNone(current)' = MessageOrNone(current)
              /\ MessageOrNone(new)' = m
            BY <2>2, <2>4, HandStep
        <2>7. Settled' = Settled /\ ~Settled
            BY <2>4 DEF Settled
        <2>8. MessageOrNone(current) # NoSlot => s = MessageOrNone(current).target
            BY <1>b DEF Raiser, Letter
        <2> HIDE DEF m
        <2>9. Service!Raise(m)
            BY <2>2, <2>3, <2>4, <2>5, <2>6, <2>7, <2>8, <1>b, <1>c
               DEF Service!Raise
        <2> QED BY <2>3, <2>9 DEF Service!Next
    <1>2. CASE RaiseLightEvent
        <2>1. PICK s \in Raiser, t \in Entities, rr \in BOOLEAN :
                  Allocate(Request(s, t, rr, TRUE))
            BY <1>2 DEF RaiseLightEvent
        <2> DEFINE m == Letter(Request(s, t, rr, TRUE))
        <2>2. /\ Kept(Range(queue)) /\ Kept(Range(isrQueue)) /\ Kept(HeldSlots)
              /\ Kept({current}) /\ Kept({new}) /\ Kept({moving})
              /\ free # <<>> /\ Letter(event'[Head(free)]) = m
              /\ Head(free) \in Slots
            BY <2>1, AllocateKept
        <2>3. m \in Service!Message /\ ~m.isResponse /\ m.source = s
            BY RaiserType, RequestType, LetterType, <1>a DEF Letter, Request
        <2>4. /\ UNCHANGED <<isrQueue, held, current, new, moving, pc, stage>>
              /\ queue' = Append(queue, Head(free))
              /\ new = NoSlot /\ stage = "none" /\ pc \in {"start", "handle"}
            BY <1>2, <1>a DEF RaiseLightEvent, MayRaise, HandsInv, thread
        <2>5. /\ Messages(queue)' = Append(Messages(queue), m)
              /\ IsrMessages' = IsrMessages /\ HeldMessages' = HeldMessages
            <3>1. Messages(queue)' = Append(Messages(queue), Letter(event'[Head(free)]))
                BY <2>2, <2>4, <1>a, QueueStep
            <3> QED BY <3>1, <2>2, <2>4, <1>a, IsrQueueStep, HeldStep
        <2>6. /\ MessageOrNone(current)' = MessageOrNone(current)
              /\ MessageOrNone(new)' = MessageOrNone(new)
            BY <2>2, <2>4, HandStep
        <2>7. Settled' = Settled /\ ~Settled
            BY <2>4 DEF Settled
        <2>8. MessageOrNone(current) # NoSlot => s = MessageOrNone(current).target
            BY <1>b DEF Raiser, Letter
        <2> HIDE DEF m
        <2>9. Service!RaiseAndPost(m)
            BY <2>2, <2>3, <2>4, <2>5, <2>6, <2>7, <2>8, <1>b, <1>c
               DEF Service!RaiseAndPost
        <2> QED BY <2>3, <2>9 DEF Service!Next
    <1>3. CASE RaiseDelayedResponse
        <2>1. PICK e \in Raiser : \E i \in DOMAIN held[e] :
                  /\ held' = [held EXCEPT ![e] = RemoveAt(@, i)]
                  /\ new' = held[e][i]
            BY <1>3 DEF RaiseDelayedResponse
        <2>2. PICK i \in DOMAIN held[e] :
                  /\ held' = [held EXCEPT ![e] = RemoveAt(@, i)]
                  /\ new' = held[e][i]
            BY <2>1
        <2>3. /\ UNCHANGED <<event, queue, isrQueue, current, moving, pc>>
              /\ new = NoSlot /\ stage = "none" /\ pc = "handle" /\ current # NoSlot
            BY <1>3, <1>a DEF RaiseDelayedResponse, HandsInv
        <2>4. e \in Entities /\ e = MessageOrNone(current).target
            BY <2>3, <1>a, <1>b, RaiserType DEF Raiser, Letter
        <2>5. \A A : Kept(A)
            BY <2>3, UnchangedKept
        <2>6. /\ i \in DOMAIN HeldMessages[e]
              /\ HeldMessages[e][i] = Letter(event[held[e][i]])
              /\ HeldMessages' = [HeldMessages EXCEPT ![e] = RemoveAt(@, i)]
            BY <2>2, <2>4, <2>5, <1>a, HeldStep
        <2>7. Messages(queue)' = Messages(queue) /\ IsrMessages' = IsrMessages
            BY <2>3, <2>5, <1>a, QueueStep, IsrQueueStep
        <2>8. held[e][i] # NoSlot
            BY <2>2, <2>4, <1>a, RemoveAtFacts, SlotsAssumption DEF TypeOK
        <2>9. /\ MessageOrNone(current)' = MessageOrNone(current)
              /\ MessageOrNone(new)' = HeldMessages[e][i]
            BY <2>2, <2>3, <2>5, <2>6, <2>8, HandStep
        <2>10. Settled' = Settled /\ ~Settled
            BY <2>3 DEF Settled
        <2>11. Service!GiveOwed
            BY <2>3, <2>4, <2>6, <2>7, <2>9, <2>10, <1>b
               DEF Service!GiveOwed, Service!RemoveAt, RemoveAt
        <2> QED BY <2>11 DEF Service!Next
    <1>5. CASE StoreAndQueue
        <2>1. /\ UNCHANGED <<event, isrQueue, held, current, moving>>
              /\ queue' = Append(queue, new) /\ new' = NoSlot
              /\ stage = "store" /\ stage' = "none"
              /\ pc' = IF pc = "respond" THEN "free" ELSE pc
            BY <1>5 DEF StoreAndQueue
        <2>2. new \in Slots /\ new # NoSlot /\ pc \in {"start", "handle", "respond"}
            BY <2>1, <1>a, SlotsAssumption DEF HandsInv, TypeOK
        <2>3. \A A : Kept(A)
            BY <2>1, UnchangedKept
        <2>4. /\ Messages(queue)' = Append(Messages(queue), MessageOrNone(new))
              /\ IsrMessages' = IsrMessages /\ HeldMessages' = HeldMessages
            BY <2>1, <2>2, <2>3, <1>a, <1>b, QueueStep, IsrQueueStep, HeldStep
        <2>5. /\ MessageOrNone(current)' = MessageOrNone(current)
              /\ MessageOrNone(new)' = NoSlot
            BY <2>1, <2>3, HandStep
        <2>6. Settled' = Settled
            BY <2>1, <2>2 DEF Settled
        <2>7. Service!Post
            BY <2>2, <2>4, <2>5, <2>6, <1>b DEF Service!Post
        <2> QED BY <2>7 DEF Service!Next
    <1>7. CASE PopEvent
        <2>1. /\ UNCHANGED <<event, isrQueue, held, new, moving, stage>>
              /\ current' = Head(queue) /\ queue' = Tail(queue) /\ queue # <<>>
              /\ pc = "check" /\ pc' = "handle" /\ current = NoSlot
            BY <1>7, <1>a DEF PopEvent, HandsInv
        <2>2. \A A : Kept(A)
            BY <2>1, UnchangedKept
        <2>3. Head(queue) \in Slots /\ Head(queue) # NoSlot
            BY <2>1, <1>a, TailFacts, SlotsAssumption DEF TypeOK
        <2>4. /\ Messages(queue) # <<>>
              /\ Head(Messages(queue)) = Letter(event[Head(queue)])
              /\ Messages(queue)' = Tail(Messages(queue))
              /\ IsrMessages' = IsrMessages /\ HeldMessages' = HeldMessages
            BY <2>1, <2>2, <1>a, QueueStep, IsrQueueStep, HeldStep
        <2>5. /\ MessageOrNone(current)' = Head(Messages(queue))
              /\ MessageOrNone(new)' = MessageOrNone(new)
            BY <2>1, <2>2, <2>3, <2>4, HandStep
        <2>6. Settled' = Settled
            BY <2>1 DEF Settled
        <2>7. Service!Serve
            BY <2>1, <2>4, <2>5, <2>6, <1>b DEF Service!Serve
        <2> QED BY <2>7 DEF Service!Next
    <1>8. CASE HandlerReturns
        <2>1. PICK delay \in BOOLEAN :
                  event' = [event EXCEPT ![current].isDelayedResponse = delay]
            BY <1>8 DEF HandlerReturns
        <2>2. /\ UNCHANGED <<queue, isrQueue, held, current, new, moving, stage>>
              /\ pc = "handle" /\ stage = "none"
              /\ pc' = IF event[current].responseRequested THEN "respond" ELSE "free"
              /\ current # NoSlot /\ current \in Slots /\ new = NoSlot
            BY <1>8, <1>a DEF HandlerReturns, HandsInv, lists, TypeOK
        <2>3. event'[current] = [event[current] EXCEPT !.isDelayedResponse = delay]
            BY <2>1, <2>2, <1>a DEF TypeOK
        <2>4. Letter(event'[current]) = Letter(event[current])
            BY <2>2, <2>3, <1>a DEF Event, Letter
        <2>5. \A s \in Slots : Letter(event'[s]) = Letter(event[s])
            BY <2>1, <2>4, <1>a DEF TypeOK
        <2>6. /\ Kept(Range(queue)) /\ Kept(Range(isrQueue)) /\ Kept(HeldSlots)
              /\ Kept({current}) /\ Kept({new}) /\ Kept({moving})
            <3>1. /\ Range(queue) \subseteq Slots /\ Range(isrQueue) \subseteq Slots
                  /\ HeldSlots \subseteq Slots
                  /\ {current, new, moving} \subseteq Slots \cup {NoSlot}
                BY IdentifiedType, <1>a DEF TypeOK
            <3> QED BY <2>5, <3>1 DEF Kept
        <2>7. /\ Messages(queue)' = Messages(queue) /\ IsrMessages' = IsrMessages
              /\ HeldMessages' = HeldMessages
              /\ MessageOrNone(current)' = MessageOrNone(current)
              /\ MessageOrNone(new)' = MessageOrNone(new)
            BY <2>2, <2>6, <1>d
        <2>8. CASE event[current].responseRequested
            <3>1. Settled' = Settled
                BY <2>2, <2>8 DEF Settled
            <3> QED BY <2>7, <3>1 DEF Service!vars
        <2>9. CASE ~event[current].responseRequested
            <3>1. Settled' = TRUE /\ ~Settled
                BY <2>2, <2>9 DEF Settled
            <3>2. /\ MessageOrNone(current) # NoSlot /\ MessageOrNone(new) = NoSlot
                  /\ ~MessageOrNone(current).responseRequested
                BY <2>2, <2>9, <1>b DEF Letter
            <3>3. Service!Settle
                BY <2>7, <3>1, <3>2 DEF Service!Settle
            <3> QED BY <3>3 DEF Service!Next
        <2> QED BY <2>8, <2>9
    <1>9. CASE Respond
        <2>1. /\ UNCHANGED <<queue, isrQueue, held, current, moving>>
              /\ pc = "respond" /\ stage = "none"
              /\ current # NoSlot /\ current \in Slots /\ new = NoSlot
            BY <1>9, <1>a DEF Respond, HandsInv, TypeOK
        <2>2. /\ MessageOrNone(current) = Letter(event[current])
              /\ MessageOrNone(current).responseRequested
              /\ MessageOrNone(current) # NoSlot /\ MessageOrNone(new) = NoSlot
            BY <2>1, <1>a, <1>b DEF Letter
        <2>3. ~Settled
            BY <2>1 DEF Settled
        <2>4. CASE free # <<>>
            <3>1. /\ Allocate(Response(event[current], FALSE))
                  /\ new' = Head(free) /\ stage' = "load" /\ pc' = "respond"
                BY <1>9, <2>4, <2>1 DEF Respond
            <3>2. /\ Kept(Range(queue)) /\ Kept(Range(isrQueue)) /\ Kept(HeldSlots)
                  /\ Kept({current}) /\ Kept({moving}) /\ new' # NoSlot
                  /\ event'[new'] = Response(event[current], FALSE)
                BY <3>1, AllocateKept
            <3>3. /\ Messages(queue)' = Messages(queue) /\ IsrMessages' = IsrMessages
                  /\ HeldMessages' = HeldMessages
                BY <2>1, <3>2, <1>a, QueueStep, IsrQueueStep, HeldStep
            <3>4. /\ MessageOrNone(current)' = MessageOrNone(current)
                  /\ MessageOrNone(new)' = Letter(Response(event[current], FALSE))
                BY <2>1, <3>2, HandStep
            <3>5. Letter(Response(event[current], FALSE))
                      = Service!Answer(MessageOrNone(current))
                BY <2>2 DEF Letter, Response, Service!Answer
            <3>6. Settled' = TRUE
                BY <3>1 DEF Settled
            <3>7. Service!Settle
                BY <2>2, <2>3, <2>4, <3>3, <3>4, <3>5, <3>6, <1>c DEF Service!Settle
            <3> QED BY <3>7 DEF Service!Next
        <2>5. CASE free = <<>>
            <3>1. event' = event /\ new' = new /\ pc' = "free"
                BY <1>9, <2>5 DEF Respond
            <3>2. \A A : Kept(A)
                BY <3>1, UnchangedKept
            <3>3. /\ Messages(queue)' = Messages(queue) /\ IsrMessages' = IsrMessages
                  /\ HeldMessages' = HeldMessages
                  /\ MessageOrNone(current)' = MessageOrNone(current)
                  /\ MessageOrNone(new)' = MessageOrNone(new)
                BY <2>1, <3>1, <3>2, <1>d
            <3>4. Settled' = TRUE
                BY <3>1 DEF Settled
            <3>5. Service!Settle
                BY <2>2, <2>3, <2>5, <3>3, <3>4, <1>c DEF Service!Settle
            <3> QED BY <3>5 DEF Service!Next
        <2> QED BY <2>4, <2>5
    <1>10. CASE HoldResponse
        <2>1. /\ UNCHANGED <<queue, isrQueue, current, new, moving>>
              /\ pc = "respond" /\ stage = "none" /\ pc' = "free"
              /\ current # NoSlot /\ current \in Slots /\ new = NoSlot
            BY <1>10, <1>a DEF HoldResponse, HandsInv, TypeOK
        <2>2. /\ MessageOrNone(current) = Letter(event[current])
              /\ MessageOrNone(current).responseRequested
              /\ MessageOrNone(current).target = event[current].target
              /\ MessageOrNone(current) # NoSlot /\ MessageOrNone(new) = NoSlot
            BY <2>1, <1>a, <1>b DEF Letter
        <2>3. ~Settled /\ Settled' = TRUE
            BY <2>1 DEF Settled
        <2>4. CASE free # <<>>
            <3> DEFINE t == event[current].target
                       a == Letter(Response(event[current], TRUE))
            <3>1. /\ Allocate(Response(event[current], TRUE))
                  /\ held' = [held EXCEPT ![t] = Append(@, Head(free))]
                BY <1>10, <2>4 DEF HoldResponse
            <3>2. /\ Kept(Range(queue)) /\ Kept(Range(isrQueue)) /\ Kept(HeldSlots)
                  /\ Kept({current}) /\ Kept({new}) /\ Kept({moving})
                  /\ Letter(event'[Head(free)]) = a
                  /\ Head(free) \in Slots
                BY <3>1, AllocateKept
            <3>3. t \in Entities
                BY <2>1, <1>a DEF Event
            <3> HIDE DEF t
            <3>4. HeldMessages' = [HeldMessages EXCEPT ![t] =
                                       Append(@, Letter(event'[Head(free)]))]
                BY <3>1, <3>2, <3>3, <1>a, HeldStep
            <3>5. Messages(queue)' = Messages(queue) /\ IsrMessages' = IsrMessages
                BY <2>1, <3>2, <1>a, QueueStep, IsrQueueStep
            <3>6. /\ MessageOrNone(current)' = MessageOrNone(current)
                  /\ MessageOrNone(new)' = MessageOrNone(new)
                BY <2>1, <3>2, HandStep
            <3>7. a = Service!Answer(MessageOrNone(current))
                BY <2>2 DEF Letter, Response, Service!Answer
            <3> HIDE DEF a
            <3>8. t = MessageOrNone(current).target
                BY <2>2 DEF t
            <3>9. HeldMessages' = [HeldMessages EXCEPT
                      ![MessageOrNone(current).target] =
                          Append(@, Service!Answer(MessageOrNone(current)))]
                BY <3>2, <3>4, <3>7, <3>8
            <3>10. Service!Settle
                BY <2>2, <2>3, <2>4, <3>5, <3>6, <3>9, <1>c DEF Service!Settle
            <3> QED BY <3>10 DEF Service!Next
        <2>5. CASE free = <<>>
            <3>1. event' = event /\ held' = held
                BY <1>10, <2>5 DEF HoldResponse
            <3>2. \A A : Kept(A)
                BY <3>1, UnchangedKept
            <3>3. /\ Messages(queue)' = Messages(queue) /\ IsrMessages' = IsrMessages
                  /\ HeldMessages' = HeldMessages
                  /\ MessageOrNone(current)' = MessageOrNone(current)
                  /\ MessageOrNone(new)' = MessageOrNone(new)
                BY <2>1, <3>1, <3>2, <1>d
            <3>4. Service!Settle
                BY <2>2, <2>3, <2>5, <3>3, <1>c DEF Service!Settle
            <3> QED BY <3>4 DEF Service!Next
        <2> QED BY <2>4, <2>5
    <1>11. CASE FreeEvent
        <2>1. /\ UNCHANGED <<queue, isrQueue, held, new, moving, stage>>
              /\ event' = [event EXCEPT ![current] = Blank]
              /\ current' = NoSlot /\ pc = "free" /\ pc' = "check"
              /\ current # NoSlot /\ current \in Slots /\ new = NoSlot
            BY <1>11, <1>a DEF FreeEvent, HandsInv, TypeOK
        <2>2. /\ Kept(Range(queue)) /\ Kept(Range(isrQueue)) /\ Kept(HeldSlots)
              /\ Kept({new}) /\ Kept({moving})
            <3>1. /\ Range(queue) \subseteq Slots /\ Range(isrQueue) \subseteq Slots
                  /\ HeldSlots \subseteq Slots
                  /\ {new, moving} \subseteq Slots \cup {NoSlot}
                BY IdentifiedType, <1>a DEF TypeOK
            <3>2. /\ current \notin Range(queue) \cup Range(isrQueue) \cup HeldSlots
                  /\ current \notin {new, moving}
                BY <2>1 DEF Inv, Conservation, Disjoint, InHand
            <3>3. \A s \in Slots : s # current => event'[s] = event[s]
                BY <2>1, <1>a DEF TypeOK
            <3> QED BY <3>1, <3>2, <3>3 DEF Kept
        <2>3. /\ Messages(queue)' = Messages(queue) /\ IsrMessages' = IsrMessages
              /\ HeldMessages' = HeldMessages
            BY <2>1, <2>2, <1>a, QueueStep, IsrQueueStep, HeldStep
        <2>4. /\ MessageOrNone(current)' = NoSlot
              /\ MessageOrNone(new)' = MessageOrNone(new)
              /\ MessageOrNone(new) = NoSlot
            BY <2>1, <2>2, <1>b, HandStep
        <2>5. Settled /\ Settled' = FALSE
            BY <2>1 DEF Settled
        <2>6. Service!Finish
            BY <2>3, <2>4, <2>5 DEF Service!Finish
        <2> QED BY <2>6 DEF Service!Next
    <1>12. CASE PopIsrEvent
        <2>1. /\ UNCHANGED <<event, queue, held, current, new, stage>>
              /\ moving = NoSlot /\ pc = "check" /\ pc' \in {"push", "idle"}
            BY <1>12, <1>a DEF PopIsrEvent, HandsInv
        <2>2. \A A : Kept(A)
            BY <2>1, UnchangedKept
        <2>3. IsrMessages' = IsrMessages
            <3>1. CASE isrQueue # <<>>
                <4>1. isrQueue' = Tail(isrQueue) /\ moving' = Head(isrQueue)
                    BY <1>12, <3>1 DEF PopIsrEvent
                <4> QED BY <2>1, <2>2, <3>1, <4>1, <1>a, IsrQueueStep
            <3>2. CASE isrQueue = <<>>
                <4>1. isrQueue' = isrQueue /\ moving' = moving
                    BY <1>12, <3>2 DEF PopIsrEvent
                <4> QED BY <2>2, <4>1, <1>a, IsrQueueStep
            <3> QED BY <3>1, <3>2
        <2>4. Messages(queue)' = Messages(queue) /\ HeldMessages' = HeldMessages
            BY <2>1, <2>2, <1>a, QueueStep, HeldStep
        <2>5. /\ MessageOrNone(current)' = MessageOrNone(current)
              /\ MessageOrNone(new)' = MessageOrNone(new)
            BY <2>1, <2>2, HandStep
        <2>6. Settled' = Settled
            BY <2>1 DEF Settled
        <2> QED BY <2>3, <2>4, <2>5, <2>6 DEF Service!vars
    <1>13. CASE PushIsrEvent
        <2>1. /\ UNCHANGED <<event, isrQueue, held, current, new, stage>>
              /\ queue' = Append(queue, moving) /\ moving' = NoSlot
              /\ pc = "push" /\ pc' = "check" /\ queue = <<>>
              /\ moving # NoSlot /\ moving \in Slots /\ current = NoSlot
            BY <1>13, <1>a DEF PushIsrEvent, HandsInv, TypeOK
        <2>2. \A A : Kept(A)
            BY <2>1, UnchangedKept
        <2>3. /\ Messages(queue) = <<>>
              /\ Messages(queue)' = Append(Messages(queue), Letter(event[moving]))
            <3>1. Messages(queue) = <<>>
                BY <2>1 DEF Messages
            <3> QED BY <3>1, <2>1, <2>2, <1>a, QueueStep
        <2>4. /\ IsrMessages # <<>> /\ Head(IsrMessages) = Letter(event[moving])
              /\ IsrMessages' = Tail(IsrMessages) /\ HeldMessages' = HeldMessages
            BY <2>1, <2>2, <1>a, IsrQueueStep, HeldStep
        <2>5. /\ MessageOrNone(current)' = MessageOrNone(current)
              /\ MessageOrNone(new)' = MessageOrNone(new)
              /\ MessageOrNone(current) = NoSlot
            BY <2>1, <2>2, <1>b, HandStep
        <2>6. Settled' = Settled
            BY <2>1 DEF Settled
        <2>7. Messages(queue)' = <<Head(IsrMessages)>>
            BY <2>3, <2>4
        <2>8. Service!Transfer
            BY <2>3, <2>4, <2>5, <2>6, <2>7 DEF Service!Transfer
        <2> QED BY <2>8 DEF Service!Next
    <1>16. CASE IsrRaisesEvent
        <2>1. PICK s \in Entities, t \in Entities :
                  Allocate(Request(s, t, FALSE, FALSE))
            BY <1>16 DEF IsrRaisesEvent
        <2> DEFINE m == Letter(Request(s, t, FALSE, FALSE))
        <2>2. /\ Kept(Range(queue)) /\ Kept(Range(isrQueue)) /\ Kept(HeldSlots)
              /\ Kept({current}) /\ Kept({new}) /\ Kept({moving})
              /\ free # <<>> /\ Letter(event'[Head(free)]) = m
              /\ Head(free) \in Slots
            BY <2>1, AllocateKept
        <2>3. m \in Service!Message /\ ~m.isResponse /\ ~m.responseRequested
            BY RequestType, LetterType DEF Letter, Request
        <2>4. /\ UNCHANGED <<queue, held, current, new, moving, pc, stage>>
              /\ isrQueue' = Append(isrQueue, Head(free))
            BY <1>16 DEF IsrRaisesEvent, thread
        <2>5. /\ Messages(queue)' = Messages(queue) /\ HeldMessages' = HeldMessages
            BY <2>2, <2>4, <1>a, QueueStep, HeldStep
        <2>6. IsrMessages' = Append(IsrMessages, m)
            BY <2>2, <2>4, <1>a, IsrQueueStep
        <2>7. /\ MessageOrNone(current)' = MessageOrNone(current)
              /\ MessageOrNone(new)' = MessageOrNone(new)
            BY <2>2, <2>4, HandStep
        <2>8. Settled' = Settled
            BY <2>4 DEF Settled
        <2> HIDE DEF m
        <2>9. Service!RaiseFromIsr(m)
            BY <2>2, <2>3, <2>5, <2>6, <2>7, <2>8, <1>c DEF Service!RaiseFromIsr
        <2> QED BY <2>3, <2>9 DEF Service!Next
    <1>17. CASE \/ LoadCounter \/ EnterMainLoop \/ Unbuffer \/ Suspend
                \/ IsrRaisesNothing \/ UNCHANGED vars
        <2>1. /\ UNCHANGED <<event, queue, isrQueue, held, current, new, moving>>
              /\ Settled' = Settled
            BY <1>17, <1>a
               DEF LoadCounter, EnterMainLoop, Unbuffer, Suspend,
                   IsrRaisesNothing, vars, lists, thread, Settled, HandsInv
        <2>2. \A A : Kept(A)
            BY <2>1, UnchangedKept
        <2>3. /\ Messages(queue)' = Messages(queue) /\ IsrMessages' = IsrMessages
              /\ HeldMessages' = HeldMessages
              /\ MessageOrNone(current)' = MessageOrNone(current)
              /\ MessageOrNone(new)' = MessageOrNone(new)
            BY <2>1, <2>2, <1>d
        <2> QED BY <2>1, <2>3 DEF Service!vars
    <1> QED
        BY <1>1, <1>2, <1>3, <1>5, <1>7, <1>8, <1>9, <1>10, <1>11, <1>12,
           <1>13, <1>16, <1>17
           DEF Next, Raise, Loop, Isr

\* For every pool, set of entities and cookie width, whatever the modules
\* raise and wherever interrupts fall, the engine delivers what EventService
\* promises: each message once, in the order of its queue, one at a time, and
\* at most one response to each request, lost only when the pool is empty.
THEOREM EngineServes == Spec => ImplementsService
    <1>1. Init => Inv /\ ServeInv /\ Service!Init
        BY InitType, InitConservation, InitService DEF Inv, Init, ServeInv
    <1>2. Inv /\ [Next]_vars => Inv'
        BY NextType, NextConservation DEF Inv
    <1>3. Inv /\ Inv' /\ ServeInv /\ [Next]_vars
              => ServeInv' /\ [Service!Next]_(Service!vars)
        BY NextServeInv, NextService
    <1> QED BY <1>1, <1>2, <1>3, PTL DEF Spec, ImplementsService, Service!Spec

=============================================================================
