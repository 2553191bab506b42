--------------------------- MODULE TimerPowerProofs ---------------------------
(***************************************************************************)
(* Timer: the list of active alarms and the device agree, for any set of   *)
(* alarms, delays and lateness, whatever the thread, the interrupt handler *)
(* and its callbacks do to them.                                           *)
(*                                                                         *)
(* PowerDomain: a domain and its parent are in states that go together at  *)
(* every moment of their transitions, for any tree and any tables.         *)
(***************************************************************************)
EXTENDS Timer, PowerDomain, SeqLemmas, FiniteSetTheorems

-----------------------------------------------------------------------------
(* The inductive invariant of the list and of the thread's calls.          *)

Sorted(q, d) == \A i, j \in DOMAIN q : i <= j => d[q[i]] <= d[q[j]]

\* The list holds the activated alarms, once each, in order.
InList ==
    /\ IsInjective(active)
    /\ Range(active) = {a \in Alarms : activated[a]}
    /\ Sorted(active, due)

\* The alarm a call is about to insert is not in the list yet, and nobody can
\* stop it under the call's hands: its own callback does not run, and a careful
\* client masks the others.
InCall ==
    /\ pc \notin {"idle", "queryLocked"} => subject \in Alarms
    /\ pc \in {"start", "startLock", "startLocked"} => ~activated[subject]
    /\ pc \in {"startLock", "startLocked"} => started[subject]
    /\ CrossStop /\ pc # "idle" => masked

\* The comparator is programmed for the head of the list, and for no earlier.
CompareFollows ==
    active # <<>> =>
        /\ due[Head(active)] <= compare
        /\ compare <= Max({MinDelay, due[Head(active)]})

IInv ==
    /\ TypeOK /\ InList /\ InCall /\ CompareFollows
    /\ StoppedDoesNotTrigger

-----------------------------------------------------------------------------
(* Lists in the order of their times.                                      *)

LEMMA MaxOfTwo ==
    ASSUME NEW m \in Int, NEW n \in Int
    PROVE  /\ Max({m, n}) \in Int
           /\ Max({m, n}) >= m /\ Max({m, n}) >= n
           /\ Max({m, n}) \in {m, n}
    <1>1. \E x \in {m, n} : \A y \in {m, n} : x >= y
        OBVIOUS
    <1> QED BY <1>1 DEF Max

LEMMA MinOfTwo ==
    ASSUME NEW m \in Nat, NEW n \in Nat
    PROVE  Min({m, n}) \in Nat /\ Min({m, n}) <= n
    <1>1. \E x \in {m, n} : \A y \in {m, n} : x <= y
        OBVIOUS
    <1> QED BY <1>1 DEF Min

\* The head of a list in order falls due first.
LEMMA HeadFirst ==
    ASSUME NEW q \in Seq(Alarms), q # <<>>, NEW d, Sorted(q, d)
    PROVE  \A a \in Range(q) : d[Head(q)] <= d[a]
    <1>1. Len(q) \in Nat \ {0} /\ DOMAIN q = 1 .. Len(q) /\ Head(q) = q[1]
        BY SeqBasics, EmptySeq
    <1> SUFFICES ASSUME NEW i \in 1 .. Len(q) PROVE d[q[1]] <= d[q[i]]
        BY <1>1, SeqBasics
    <1> QED BY <1>1 DEF Sorted

\* A list in order, some elements taken out, is in order.
LEMMA SublistSorted ==
    ASSUME NEW q, NEW d, Sorted(q, d), NEW r,
           \A i, j \in DOMAIN r : i <= j =>
               \E m, n \in DOMAIN q : m <= n /\ r[i] = q[m] /\ r[j] = q[n]
    PROVE  Sorted(r, d)
    <1> SUFFICES ASSUME NEW i \in DOMAIN r, NEW j \in DOMAIN r, i <= j
                 PROVE  d[r[i]] <= d[r[j]]
        BY DEF Sorted
    <1>1. PICK m \in DOMAIN q, n \in DOMAIN q : m <= n /\ r[i] = q[m] /\ r[j] = q[n]
        OBVIOUS
    <1> QED BY <1>1 DEF Sorted

\* What fwk_list_remove makes of a list in order.
LEMMA RemoveSorted ==
    ASSUME NEW q \in Seq(Alarms), NEW x, IsInjective(q), NEW d, Sorted(q, d)
    PROVE  /\ RemoveFirst(q, x) \in Seq(Alarms)
           /\ Range(RemoveFirst(q, x)) = Range(q) \ {x}
           /\ IsInjective(RemoveFirst(q, x))
           /\ Sorted(RemoveFirst(q, x), d)
    <1>1. /\ RemoveFirst(q, x) \in Seq(Alarms)
          /\ Range(RemoveFirst(q, x)) = Range(q) \ {x}
          /\ IsInjective(RemoveFirst(q, x))
          /\ \A i, j \in DOMAIN RemoveFirst(q, x) : i <= j =>
                \E m, n \in DOMAIN q : /\ m <= n
                                       /\ RemoveFirst(q, x)[i] = q[m]
                                       /\ RemoveFirst(q, x)[j] = q[n]
        BY RemoveFirstFacts
    <1> QED BY <1>1, SublistSorted

LEMMA TailSorted ==
    ASSUME NEW q \in Seq(Alarms), q # <<>>, NEW d, Sorted(q, d)
    PROVE  Sorted(Tail(q), d)
    <1>1. /\ Tail(q) \in Seq(Alarms) /\ Len(Tail(q)) = Len(q) - 1
          /\ \A i \in 1 .. Len(Tail(q)) : Tail(q)[i] = q[i + 1]
        BY HeadTailProperties
    <1>2. /\ Len(q) \in Nat /\ DOMAIN q = 1 .. Len(q)
          /\ DOMAIN Tail(q) = 1 .. Len(q) - 1
        BY <1>1, SeqBasics
    <1> SUFFICES ASSUME NEW i \in 1 .. Len(q) - 1, NEW j \in 1 .. Len(q) - 1, i <= j
                 PROVE  d[Tail(q)[i]] <= d[Tail(q)[j]]
        BY <1>2 DEF Sorted
    <1>3. i + 1 \in DOMAIN q /\ j + 1 \in DOMAIN q /\ i + 1 <= j + 1
        BY <1>2
    <1>4. d[q[i + 1]] <= d[q[j + 1]]
        BY <1>3 DEF Sorted
    <1> QED BY <1>1, <1>2, <1>4

\* Where _insert_alarm_ctx_into_active_queue puts an alarm.
LEMMA InsertPlace ==
    ASSUME NEW q \in Seq(Alarms), NEW a \in Alarms, NEW d \in [Alarms -> Int],
           Sorted(q, d)
    PROVE  \E k \in 1 .. Len(q) + 1 :
              /\ InsertByDue(q, a, d) \in Seq(Alarms)
              /\ Len(InsertByDue(q, a, d)) = Len(q) + 1
              /\ \A i \in 1 .. Len(q) + 1 :
                    InsertByDue(q, a, d)[i] = IF i < k THEN q[i]
                                              ELSE IF i = k THEN a ELSE q[i - 1]
              /\ \A i \in 1 .. Len(q) : IF i < k THEN d[q[i]] <= d[a] ELSE d[a] <= d[q[i]]
    <1> DEFINE later == {i \in DOMAIN q : d[a] <= d[q[i]]}
    <1>1. /\ Len(q) \in Nat /\ DOMAIN q = 1 .. Len(q)
          /\ \A i \in 1 .. Len(q) : q[i] \in Alarms
        BY SeqBasics
    <1>2. \A i \in 1 .. Len(q) : d[q[i]] \in Int /\ d[a] \in Int
        BY <1>1
    <1>3. CASE later = {}
        <2>1. InsertByDue(q, a, d) = Append(q, a)
            BY <1>3 DEF InsertByDue
        <2>2. \A i \in 1 .. Len(q) : d[q[i]] <= d[a]
            BY <1>1, <1>2, <1>3
        <2>3. /\ Append(q, a) \in Seq(Alarms) /\ Len(Append(q, a)) = Len(q) + 1
              /\ \A i \in 1 .. Len(q) : Append(q, a)[i] = q[i]
              /\ Append(q, a)[Len(q) + 1] = a
            BY AppendProperties
        <2> DEFINE z == Append(q, a)
                   k == Len(q) + 1
        <2>4. z \in Seq(Alarms) /\ Len(z) = Len(q) + 1
            BY <2>3
        <2>5. ASSUME NEW i \in 1 .. Len(q) + 1
              PROVE  z[i] = IF i < k THEN q[i] ELSE IF i = k THEN a ELSE q[i - 1]
            BY <2>3, <1>1
        <2>6. /\ k \in 1 .. Len(q) + 1
              /\ \A i \in 1 .. Len(q) : IF i < k THEN d[q[i]] <= d[a] ELSE d[a] <= d[q[i]]
            BY <2>2, <1>1
        <2>7. InsertByDue(q, a, d) = z
            BY <2>1
        <2> HIDE DEF z, k, later
        <2> QED BY <2>4, <2>5, <2>6, <2>7
    <1>4. CASE later # {}
        <2> DEFINE k == Min(later)
                   z == InsertAt(q, k, a)
        <2>0. later \subseteq Nat
            BY <1>1
        <2>1. k \in later /\ \A i \in later : k <= i
            <3> HIDE DEF later
            <3> QED BY <2>0, <1>4, MinFacts
        <2>2. InsertByDue(q, a, d) = z
            BY <1>4 DEF InsertByDue
        <2> HIDE DEF k
        <2>3. k \in 1 .. Len(q) + 1 /\ k \in DOMAIN q
            BY <2>1, <1>1
        <2>4. /\ z \in Seq(Alarms)
              /\ Len(z) = Len(q) + 1
              /\ \A i \in 1 .. Len(q) + 1 :
                     z[i] = IF i < k THEN q[i] ELSE IF i = k THEN a ELSE q[i - 1]
            <3> DEFINE P(s, m, x) ==
                    /\ InsertAt(s, m, x) \in Seq(Alarms)
                    /\ Len(InsertAt(s, m, x)) = Len(s) + 1
                    /\ \A i \in 1 .. Len(s) + 1 :
                          InsertAt(s, m, x)[i] = IF i < m THEN s[i]
                                                 ELSE IF i = m THEN x ELSE s[i - 1]
            <3>1. P(q, k, a)
                <4>1. \A s \in Seq(Alarms), x \in Alarms, m \in 1 .. Len(q) + 1 :
                          Len(s) = Len(q) => P(s, m, x)
                    BY InsertAtFacts
                <4> HIDE DEF P
                <4> QED BY <4>1, <2>3
            <3> QED BY <3>1
        <2>5. ASSUME NEW i \in 1 .. Len(q)
              PROVE  IF i < k THEN d[q[i]] <= d[a] ELSE d[a] <= d[q[i]]
            <3>1. CASE i < k
                <4>1. i \notin later
                    BY <2>1, <2>3, <3>1, <1>1
                <4> QED BY <4>1, <3>1, <1>1, <1>2
            <3>2. CASE ~(i < k)
                <4>1. d[q[k]] <= d[q[i]]
                    BY <3>2, <2>3, <1>1 DEF Sorted
                <4>2. d[a] <= d[q[k]]
                    BY <2>1
                <4>3. q[k] \in Alarms
                    BY <2>3, <1>1
                <4> QED BY <4>1, <4>2, <4>3, <3>2, <1>1
            <3> QED BY <3>1, <3>2
        <2> HIDE DEF z, later
        <2> QED BY <2>2, <2>3, <2>4, <2>5
    <1> QED BY <1>3, <1>4

\* What it makes of the list.
LEMMA InsertByDueFacts ==
    ASSUME NEW q \in Seq(Alarms), NEW a \in Alarms, NEW d \in [Alarms -> Int],
           Sorted(q, d), IsInjective(q), a \notin Range(q)
    PROVE  /\ InsertByDue(q, a, d) \in Seq(Alarms)
           /\ InsertByDue(q, a, d) # <<>>
           /\ IsInjective(InsertByDue(q, a, d))
           /\ Range(InsertByDue(q, a, d)) = Range(q) \cup {a}
           /\ Sorted(InsertByDue(q, a, d), d)
    <1> DEFINE z == InsertByDue(q, a, d)
    <1>1. PICK k \in 1 .. Len(q) + 1 :
              /\ z \in Seq(Alarms)
              /\ Len(z) = Len(q) + 1
              /\ \A i \in 1 .. Len(q) + 1 :
                    z[i] = IF i < k THEN q[i] ELSE IF i = k THEN a ELSE q[i - 1]
              /\ \A i \in 1 .. Len(q) : IF i < k THEN d[q[i]] <= d[a] ELSE d[a] <= d[q[i]]
        BY InsertPlace
    <1> HIDE DEF z
    <1>2. /\ Len(q) \in Nat /\ DOMAIN q = 1 .. Len(q)
          /\ Range(q) = {q[i] : i \in 1 .. Len(q)}
          /\ \A i \in 1 .. Len(q) : q[i] \in Alarms
          /\ DOMAIN z = 1 .. Len(q) + 1 /\ Range(z) = {z[i] : i \in 1 .. Len(q) + 1}
        BY <1>1, SeqBasics
    <1> DEFINE From(i) == IF i < k THEN i ELSE i - 1
    <1>3. \A i \in 1 .. Len(q) + 1 : i # k => From(i) \in 1 .. Len(q) /\ z[i] = q[From(i)]
        BY <1>1, <1>2
    <1>4. z[k] = a /\ k \in 1 .. Len(q) + 1
        BY <1>1, <1>2
    <1>5. \A i \in 1 .. Len(q) + 1 : i # k => z[i] # a
        BY <1>2, <1>3
    <1>6. z # <<>>
        BY <1>1, <1>2, EmptySeq
    <1>7. IsInjective(z)
        <2> SUFFICES ASSUME NEW i \in 1 .. Len(q) + 1, NEW j \in 1 .. Len(q) + 1,
                            z[i] = z[j]
                     PROVE  i = j
            BY <1>2 DEF IsInjective
        <2>1. CASE i = k \/ j = k
            BY <2>1, <1>4, <1>5
        <2>2. CASE i # k /\ j # k
            <3>1. From(i) = From(j)
                BY <2>2, <1>2, <1>3 DEF IsInjective
            <3> QED BY <3>1, <2>2, <1>2
        <2> QED BY <2>1, <2>2
    <1>8. Range(z) = Range(q) \cup {a}
        <2>1. Range(z) \subseteq Range(q) \cup {a}
            <3> SUFFICES ASSUME NEW i \in 1 .. Len(q) + 1, i # k PROVE z[i] \in Range(q)
                BY <1>2, <1>4
            <3> QED BY <1>2, <1>3
        <2>2. a \in Range(z)
            BY <1>2, <1>4
        <2>3. ASSUME NEW i \in 1 .. Len(q) PROVE q[i] \in Range(z)
            <3> DEFINE j == IF i < k THEN i ELSE i + 1
            <3>1. j \in 1 .. Len(q) + 1 /\ j # k /\ From(j) = i
                BY <1>2
            <3>2. z[j] = q[i]
                BY <3>1, <1>3
            <3> QED BY <3>1, <3>2, <1>2
        <2> QED BY <2>1, <2>2, <2>3, <1>2
    <1>9. Sorted(z, d)
        <2> SUFFICES ASSUME NEW i \in 1 .. Len(q) + 1, NEW j \in 1 .. Len(q) + 1, i <= j
                     PROVE  d[z[i]] <= d[z[j]]
            BY <1>2 DEF Sorted
        <2>1. CASE i = k /\ j = k
            BY <2>1, <1>4
        <2>2. CASE i = k /\ j # k
            <3>1. From(j) \in 1 .. Len(q) /\ z[j] = q[From(j)]
                BY <2>2, <1>3
            <3>2. ~(From(j) < k)
                BY <2>2, <1>2
            <3> QED BY <3>1, <3>2, <2>2, <1>1, <1>4
        <2>3. CASE i # k /\ j = k
            <3>1. From(i) \in 1 .. Len(q) /\ From(i) < k /\ z[i] = q[From(i)]
                BY <2>3, <1>2, <1>3
            <3> QED BY <3>1, <2>3, <1>1, <1>4
        <2>4. CASE i # k /\ j # k
            <3>1. /\ From(i) \in 1 .. Len(q) /\ z[i] = q[From(i)]
                  /\ From(j) \in 1 .. Len(q) /\ z[j] = q[From(j)]
                BY <2>4, <1>3
            <3>2. From(i) <= From(j)
                BY <2>4, <1>2
            <3> QED BY <3>1, <3>2, <1>2 DEF Sorted
        <2> QED BY <2>1, <2>2, <2>3, <2>4
    <1> QED BY <1>1, <1>6, <1>7, <1>8, <1>9 DEF z

-----------------------------------------------------------------------------
(* The steps preserve the invariant.                                       *)

\* Nothing but a client that masks interrupts lets callbacks stop the alarms of
\* others: else alarm_start may insert an alarm that was just stopped.
CallbacksKept == CrossStop => Careful

\* _configure_timer_with_next_alarm programs the head of the new list.
LEMMA ConfigureFacts ==
    ASSUME NEW on \in BOOLEAN, NEW latched \in BOOLEAN, ConfigureWithNext(on, latched),
           active' \in Seq(Alarms), due' \in [Alarms -> Int], compare \in Int
    PROVE  /\ enabled' \in BOOLEAN /\ compare' \in Int /\ pending' \in BOOLEAN
           /\ CompareFollows'
           /\ enabled' <=> (active' # <<>> \/ on)
           /\ pending' <=> (latched \/ (enabled' /\ compare' <= 0))
    <1>1. ASSUME active' # <<>>
          PROVE  /\ compare' \in Int /\ due'[Head(active')] \in Int
                 /\ due'[Head(active')] <= compare'
                 /\ compare' = Max({MinDelay, due'[Head(active')]})
        <2>1. Head(active') \in Alarms
            BY <1>1, HeadTailProperties
        <2>2. due'[Head(active')] \in Int /\ MinDelay \in Int
            BY <2>1, TimerAssumption
        <2>3. compare' = Max({MinDelay, due'[Head(active')]})
            BY <1>1 DEF ConfigureWithNext, Compare
        <2> QED BY <2>2, <2>3, MaxOfTwo
    <1>2. compare' \in Int
        BY <1>1 DEF ConfigureWithNext
    <1>3. CompareFollows'
        <2> SUFFICES ASSUME active' # <<>>
                     PROVE  /\ due'[Head(active')] <= compare'
                            /\ compare' <= Max({MinDelay, due'[Head(active')]})
            BY DEF CompareFollows
        <2> QED BY <1>1
    <1>4. /\ enabled' = (active' # <<>> \/ on)
          /\ pending' = (latched \/ (enabled' /\ compare' <= 0))
        BY DEF ConfigureWithNext, Asserted
    <1> QED BY <1>2, <1>3, <1>4, Zenon

\* A step that leaves the list and its times alone.
LEMMA SameList ==
    ASSUME InList, CompareFollows, UNCHANGED <<active, due, activated, compare>>
    PROVE  InList' /\ CompareFollows'
    BY DEF InList, Sorted, CompareFollows

LEMMA InitTimer == Init => IInv
    <1> SUFFICES ASSUME Init PROVE IInv
        OBVIOUS
    <1>1. TypeOK
        <2>1. active \in Seq(Alarms) /\ pc \in PCs /\ 0 \in 0 .. MaxDelay
            BY EmptySeq, TimerAssumption DEF Init, PCs
        <2>2. /\ started \in [Alarms -> BOOLEAN] /\ activated \in [Alarms -> BOOLEAN]
              /\ periodic \in [Alarms -> BOOLEAN] /\ rang \in [Alarms -> BOOLEAN]
              /\ due \in [Alarms -> Int] /\ period \in [Alarms -> 0 .. MaxDelay]
            BY <2>1 DEF Init
        <2>3. /\ enabled \in BOOLEAN /\ pending \in BOOLEAN
              /\ masked \in BOOLEAN /\ restart \in BOOLEAN /\ unexpected \in BOOLEAN
              /\ subject \in Alarms \cup {NoAlarm}
            BY Zenon DEF Init
        <2>4. compare \in Int
            BY DEF Init
        <2> QED BY <2>1, <2>2, <2>3, <2>4, Zenon DEF TypeOK
    <1>2. active = <<>> /\ DOMAIN active = {} /\ Range(active) = {}
        <2>1. active = <<>> /\ active \in Seq(Alarms) /\ Len(active) = 0
            BY <1>1, EmptySeq DEF Init, TypeOK
        <2>2. DOMAIN active = 1 .. 0 /\ Range(active) = {}
            BY <2>1, SeqBasics
        <2> QED BY <2>1, <2>2
    <1>3. InList
        BY <1>2 DEF Init, InList, IsInjective, Sorted
    <1> QED BY <1>1, <1>2, <1>3 DEF Init, IInv, InCall, CompareFollows, StoppedDoesNotTrigger

LEMMA CallTimer ==
    ASSUME CallbacksKept, IInv, Call
    PROVE  IInv'
    <1> USE DEF IInv, alarmVars, deviceVars
    <1>1. CASE CallQuery
        <2>1. TypeOK'
            BY <1>1 DEF CallQuery, Disable, TypeOK, PCs
        <2> QED BY <1>1, <2>1, SameList
               DEF CallQuery, InCall, StoppedDoesNotTrigger, CallbacksKept
    <1>2. ASSUME NEW a \in Alarms, CallStart(a) PROVE IInv'
        <2>1. masked' \in BOOLEAN /\ (CrossStop => masked')
            BY <1>2 DEF CallStart, CallMasked, CallbacksKept
        <2>2. TypeOK'
            BY <1>2, <2>1 DEF CallStart, TypeOK, PCs
        <2>3. InCall'
            BY <1>2, <2>1 DEF CallStart, InCall, StoppedDoesNotTrigger
        <2> QED BY <1>2, <2>2, <2>3, SameList DEF CallStart, StoppedDoesNotTrigger
    <1>3. ASSUME NEW a \in Alarms, CallStop(a) PROVE IInv'
        <2>1. masked' \in BOOLEAN /\ (CrossStop => masked')
            BY <1>3 DEF CallStop, CallMasked, CallbacksKept
        <2>2. TypeOK'
            BY <1>3, <2>1 DEF CallStop, TypeOK, PCs
        <2>3. InCall'
            BY <1>3, <2>1 DEF CallStop, InCall
        <2> QED BY <1>3, <2>2, <2>3, SameList DEF CallStop, StoppedDoesNotTrigger
    <1> QED BY <1>1, <1>2, <1>3 DEF Call

\* The steps of the calls that do not touch the list.
LEMMA StopNoneTimer ==
    ASSUME IInv, StopDisables \/ StopNotStarted \/ StartDisables \/ QueryEnables
    PROVE  IInv'
    <1> USE DEF IInv, alarmVars, deviceVars
    <1>1. pending' \in BOOLEAN /\ enabled' \in BOOLEAN
        BY DEF StopDisables, StopNotStarted, StartDisables, QueryEnables, Disable, Asserted,
               TypeOK
    <1>2. TypeOK'
        BY <1>1 DEF StopDisables, StopNotStarted, StartDisables, QueryEnables, Return, TypeOK,
               PCs
    <1>3. UNCHANGED <<active, due, activated, compare, started>>
        BY DEF StopDisables, StopNotStarted, StartDisables, QueryEnables
    <1>4. InCall'
        BY DEF StopDisables, StopNotStarted, StartDisables, QueryEnables, Return, InCall
    <1> QED BY <1>2, <1>3, <1>4, SameList DEF StoppedDoesNotTrigger

LEMMA StopFiredTimer ==
    ASSUME IInv, StopFired
    PROVE  IInv'
    <1> USE DEF IInv, alarmVars, deviceVars
    <1>1. TypeOK'
        BY DEF StopFired, StopReturns, Return, TypeOK, PCs
    <1>2. UNCHANGED <<active, due, activated, compare>>
        BY DEF StopFired
    <1>3. InCall'
        BY DEF StopFired, StopReturns, Return, InCall
    <1>4. StoppedDoesNotTrigger'
        BY DEF StopFired, StoppedDoesNotTrigger, TypeOK
    <1> QED BY <1>1, <1>2, <1>3, <1>4, SameList

LEMMA StopActiveTimer ==
    ASSUME IInv, StopActive
    PROVE  IInv'
    <1> USE DEF IInv, alarmVars, deviceVars
    <1>1. /\ TypeOK /\ InList /\ subject \in Alarms
          /\ active \in Seq(Alarms) /\ enabled \in BOOLEAN /\ compare \in Int
        BY DEF InCall, StopActive, TypeOK
    <1>2. /\ active' \in Seq(Alarms) /\ Range(active') = Range(active) \ {subject}
          /\ IsInjective(active') /\ Sorted(active', due)
        <2>1. active' = RemoveFirst(active, subject)
            BY DEF StopActive
        <2> QED BY <1>1, <2>1, RemoveSorted DEF InList
    <1>3. due' = due /\ due' \in [Alarms -> Int]
        BY <1>1 DEF StopActive, TypeOK
    <1>4. ConfigureWithNext(enabled, FALSE)
        BY DEF StopActive
    <1>5. enabled' \in BOOLEAN /\ compare' \in Int /\ pending' \in BOOLEAN /\ CompareFollows'
        BY <1>1, <1>2, <1>3, <1>4, ConfigureFacts
    <1>6. TypeOK'
        BY <1>2, <1>3, <1>5 DEF StopActive, StopReturns, Return, TypeOK, PCs
    <1>7. InList'
        <2>1. activated' = [activated EXCEPT ![subject] = FALSE]
            BY DEF StopActive
        <2> QED BY <1>1, <1>2, <1>3, <2>1 DEF InList, TypeOK
    <1>8. InCall' /\ StoppedDoesNotTrigger'
        BY <1>1 DEF StopActive, StopReturns, Return, InCall, StoppedDoesNotTrigger, TypeOK
    <1> QED BY <1>5, <1>6, <1>7, <1>8

LEMMA StartFillsTimer ==
    ASSUME IInv, StartFills
    PROVE  IInv'
    <1> USE DEF IInv, alarmVars, deviceVars
    <1>1. subject \in Alarms /\ ~activated[subject] /\ TypeOK
        BY DEF StartFills, InCall
    <1>2. PICK p \in BOOLEAN, d \in Delays :
              /\ periodic' = [periodic EXCEPT ![subject] = p]
              /\ period' = [period EXCEPT ![subject] = Capped(d)]
              /\ due' = [due EXCEPT ![subject] = Capped(d)]
        BY DEF StartFills
    <1>3. Capped(d) \in 0 .. MaxDelay
        BY TimerAssumption, MinOfTwo DEF Capped
    <1>4. TypeOK'
        BY <1>1, <1>2, <1>3, TimerAssumption DEF StartFills, TypeOK, PCs
    <1>5. \A i \in DOMAIN active : active[i] # subject /\ due'[active[i]] = due[active[i]]
        <2> SUFFICES ASSUME NEW i \in DOMAIN active
                     PROVE  active[i] # subject /\ due'[active[i]] = due[active[i]]
            OBVIOUS
        <2>1. active[i] \in Range(active)
            BY DEF Range
        <2>2. active[i] \in Alarms /\ activated[active[i]]
            BY <2>1 DEF InList
        <2> QED BY <1>1, <1>2, <2>2 DEF TypeOK
    <1>6. UNCHANGED <<active, activated, compare>>
        BY DEF StartFills
    <1>7. InList'
        BY <1>5, <1>6 DEF InList, Sorted
    <1>8. CompareFollows'
        <2>1. active # <<>> => 1 \in DOMAIN active /\ Head(active) = active[1]
            BY <1>1, SeqBasics, EmptySeq DEF TypeOK
        <2> QED BY <1>5, <1>6, <2>1 DEF CompareFollows
    <1>9. InCall' /\ StoppedDoesNotTrigger'
        BY <1>1 DEF StartFills, InCall, StoppedDoesNotTrigger, TypeOK
    <1> QED BY <1>4, <1>7, <1>8, <1>9

LEMMA StartInsertsTimer ==
    ASSUME IInv, StartInserts
    PROVE  IInv'
    <1> USE DEF IInv, alarmVars, deviceVars
    <1>1. /\ TypeOK /\ InList /\ subject \in Alarms /\ started[subject]
          /\ active \in Seq(Alarms) /\ enabled \in BOOLEAN /\ compare \in Int
          /\ pending \in BOOLEAN /\ due \in [Alarms -> Int]
        BY DEF InCall, StartInserts, TypeOK
    <1>2. subject \notin Range(active)
        BY DEF InCall, StartInserts, InList
    <1>3. /\ active' \in Seq(Alarms) /\ Range(active') = Range(active) \cup {subject}
          /\ IsInjective(active') /\ Sorted(active', due)
        <2>1. active' = InsertByDue(active, subject, due)
            BY DEF StartInserts
        <2> QED BY <1>1, <1>2, <2>1, InsertByDueFacts DEF InList
    <1>4. due' = due /\ ConfigureWithNext(enabled, pending)
        BY DEF StartInserts
    <1>5. enabled' \in BOOLEAN /\ compare' \in Int /\ pending' \in BOOLEAN /\ CompareFollows'
        BY <1>1, <1>3, <1>4, ConfigureFacts
    <1>6. TypeOK'
        BY <1>3, <1>5 DEF StartInserts, Return, TypeOK, PCs
    <1>7. InList'
        <2>1. activated' = [activated EXCEPT ![subject] = TRUE]
            BY DEF StartInserts
        <2> QED BY <1>1, <1>3, <1>4, <2>1 DEF InList, TypeOK
    <1>8. InCall' /\ StoppedDoesNotTrigger'
        BY <1>1 DEF StartInserts, Return, InCall, StoppedDoesNotTrigger, TypeOK
    <1> QED BY <1>5, <1>6, <1>7, <1>8

\* timer_isr takes the head out of the list, and its callback perhaps another;
\* a periodic alarm that was not stopped goes back.
LEMMA IsrFiresTimer ==
    ASSUME CallbacksKept, IInv, IsrFires
    PROVE  IInv'
    <1> USE DEF IInv
    <1> DEFINE a == Head(active)
    <1>1. PICK stop \in CallbackStops(a) :
              LET again == periodic[a] /\ a # stop /\ started[a]
                  rest == RemoveFirst(Tail(active), stop)
                  idle == stop # NoAlarm /\ ~started[stop]
              IN /\ started' = [b \in Alarms |-> started[b] /\ b # stop]
                 /\ activated' = [b \in Alarms |->
                        activated[b] /\ b # stop /\ (b = a => again)]
                 /\ due' = IF again THEN NextDue(a) ELSE due
                 /\ active' = IF again THEN InsertByDue(rest, a, due') ELSE rest
                 /\ ConfigureWithNext(idle, Asserted(idle, compare))
                 /\ rang' = [rang EXCEPT ![a] = TRUE]
        BY DEF IsrFires
    <1> DEFINE again == periodic[a] /\ a # stop /\ started[a]
               rest == RemoveFirst(Tail(active), stop)
               idle == stop # NoAlarm /\ ~started[stop]
    <1>2. /\ started' = [b \in Alarms |-> started[b] /\ b # stop]
          /\ activated' = [b \in Alarms |-> activated[b] /\ b # stop /\ (b = a => again)]
          /\ due' = IF again THEN NextDue(a) ELSE due
          /\ active' = IF again THEN InsertByDue(rest, a, due') ELSE rest
          /\ ConfigureWithNext(idle, Asserted(idle, compare))
          /\ rang' = [rang EXCEPT ![a] = TRUE]
          /\ UNCHANGED <<periodic, period, masked, pc, subject, restart, unexpected>>
        BY <1>1 DEF IsrFires, callVars
    <1>3. /\ TypeOK /\ InList /\ active \in Seq(Alarms) /\ active # <<>>
          /\ due \in [Alarms -> Int] /\ compare \in Int
        BY DEF IsrFires, TypeOK
    <1>4. /\ a \in Alarms /\ a \in Range(active) /\ Tail(active) \in Seq(Alarms)
          /\ Range(active) = Range(Tail(active)) \cup {a}
          /\ IsInjective(Tail(active)) /\ a \notin Range(Tail(active))
          /\ Sorted(Tail(active), due)
        BY <1>3, TailFacts, TailSorted DEF InList
    <1>5. /\ rest \in Seq(Alarms) /\ Range(rest) = Range(Tail(active)) \ {stop}
          /\ IsInjective(rest) /\ Sorted(rest, due)
        BY <1>4, RemoveSorted
    <1> HIDE DEF a, rest, again, idle
    <1>6. a \notin Range(rest) /\ Range(rest) = Range(active) \ {a, stop}
        BY <1>4, <1>5
    <1>7. due' \in [Alarms -> Int] /\ \A b \in Alarms \ {a} : due'[b] = due[b]
        BY <1>2, <1>3, <1>4 DEF NextDue, TypeOK
    <1>8. Sorted(rest, due')
        <2>1. \A i \in DOMAIN rest : rest[i] \in Range(rest)
            BY DEF Range
        <2>2. \A i \in DOMAIN rest : rest[i] \in Alarms \ {a}
            BY <2>1, <1>5, <1>6, SeqBasics
        <2> QED BY <2>2, <1>5, <1>7 DEF Sorted
    <1>9. /\ active' \in Seq(Alarms) /\ IsInjective(active') /\ Sorted(active', due')
          /\ Range(active') = IF again THEN Range(rest) \cup {a} ELSE Range(rest)
        <2>1. CASE again
            BY <2>1, <1>2, <1>4, <1>5, <1>6, <1>7, <1>8, InsertByDueFacts
        <2>2. CASE ~again
            BY <2>2, <1>2, <1>5, <1>8
        <2> QED BY <2>1, <2>2
    <1>10. /\ enabled' \in BOOLEAN /\ compare' \in Int /\ pending' \in BOOLEAN
           /\ CompareFollows'
        <2>1. idle \in BOOLEAN /\ Asserted(idle, compare) \in BOOLEAN
            BY DEF idle, Asserted
        <2> QED BY <1>2, <1>3, <1>7, <1>9, <2>1, ConfigureFacts
    <1>11. TypeOK'
        BY <1>2, <1>3, <1>7, <1>9, <1>10 DEF TypeOK
    <1>12. InList'
        <2>1. Range(active') = {b \in Alarms : activated'[b]}
            <3>1. \A b \in Alarms : activated'[b] <=>
                      activated[b] /\ b # stop /\ (b = a => again)
                BY <1>2
            <3>2. again => a # stop
                BY DEF again
            <3>3. Range(active) = {b \in Alarms : activated[b]}
                BY <1>3 DEF InList
            <3> QED BY <3>1, <3>2, <3>3, <1>4, <1>6, <1>9
        <2> QED BY <2>1, <1>9 DEF InList
    <1>13. StoppedDoesNotTrigger'
        BY <1>2 DEF StoppedDoesNotTrigger
    <1>14. InCall'
        <2>1. \A b \in Alarms : activated'[b] => activated[b]
            BY <1>2
        <2>2. ASSUME pc # "idle", subject \in Alarms, ~activated[subject]
              PROVE  subject # stop
            <3>1. ~CrossStop
                BY <2>2 DEF InCall, IsrFires
            <3>2. stop = NoAlarm \/ stop = a
                BY <1>1, <3>1 DEF CallbackStops, a
            <3>3. activated[a]
                BY <1>3, <1>4 DEF InList
            <3> QED BY <2>2, <3>2, <3>3, TimerAssumption
        <2> QED BY <1>2, <2>1, <2>2 DEF InCall
    <1> QED BY <1>10, <1>11, <1>12, <1>13, <1>14

LEMMA IsrFindsNoneTimer ==
    ASSUME IInv, IsrFindsNone
    PROVE  IInv'
    <1> USE DEF IInv, alarmVars, callVars
    <1>1. TypeOK'
        BY DEF IsrFindsNone, TypeOK
    <1>2. UNCHANGED <<active, due, activated, compare, started, pc, subject, masked>>
        BY DEF IsrFindsNone
    <1> QED BY <1>1, <1>2, SameList DEF InCall, StoppedDoesNotTrigger

\* The counter moves all times that matter alike, and those that are late
\* beyond the bound not at all: what was in order stays so.
LEMMA TickTimer ==
    ASSUME IInv, Tick
    PROVE  IInv'
    <1> USE DEF IInv, callVars
    <1>1. TypeOK /\ InList /\ active \in Seq(Alarms) /\ due \in [Alarms -> Int]
          /\ compare \in Int /\ MaxLate \in Int /\ MinDelay \in Int
        BY TimerAssumption DEF TypeOK
    <1>2. /\ \A t \in Int : Earlier(t) \in Int /\ Earlier(t) <= t
          /\ \A t, u \in Int : t <= u => Earlier(t) <= Earlier(u)
        BY <1>1 DEF Earlier
    <1>3. /\ UNCHANGED <<started, activated, periodic, period, active, enabled, unexpected,
                         rang, masked, pc, subject, restart>>
          /\ due' = [a \in Alarms |-> IF Timed(a) THEN Earlier(due[a]) ELSE due[a]]
          /\ compare' = Earlier(compare)
          /\ pending' \in BOOLEAN
        BY <1>1 DEF Tick, Asserted, TypeOK
    <1>4. TypeOK'
        BY <1>1, <1>2, <1>3 DEF TypeOK
    <1>5. \A i \in DOMAIN active :
              active[i] \in Alarms /\ due'[active[i]] = Earlier(due[active[i]])
        <2> SUFFICES ASSUME NEW i \in DOMAIN active
                     PROVE  active[i] \in Alarms /\ due'[active[i]] = Earlier(due[active[i]])
            OBVIOUS
        <2>1. active[i] \in Range(active)
            BY DEF Range
        <2>2. active[i] \in Alarms /\ activated[active[i]]
            BY <1>1, <2>1 DEF InList
        <2> QED BY <1>3, <2>2 DEF Timed
    <1>6. Sorted(active, due')
        <2> SUFFICES ASSUME NEW i \in DOMAIN active, NEW j \in DOMAIN active, i <= j
                     PROVE  due'[active[i]] <= due'[active[j]]
            BY DEF Sorted
        <2>1. due[active[i]] <= due[active[j]]
            BY <1>1 DEF InList, Sorted
        <2> QED BY <2>1, <1>1, <1>2, <1>5
    <1>7. InList'
        BY <1>1, <1>3, <1>6 DEF InList
    <1>8. CompareFollows'
        <2> SUFFICES ASSUME active # <<>>
                     PROVE  /\ due'[Head(active)] <= compare'
                            /\ compare' <= Max({MinDelay, due'[Head(active)]})
            BY <1>3 DEF CompareFollows
        <2> DEFINE d == due[Head(active)]
        <2>1. 1 \in DOMAIN active /\ Head(active) = active[1]
            BY <1>1, SeqBasics, EmptySeq
        <2>2. d \in Int /\ due'[Head(active)] = Earlier(d) /\ Earlier(d) \in Int
            BY <2>1, <1>1, <1>2, <1>5
        <2>3. d <= compare /\ compare <= Max({MinDelay, d})
            BY DEF CompareFollows
        <2> HIDE DEF d
        <2>4. Max({MinDelay, d}) \in {MinDelay, d}
            BY <1>1, <2>2, MaxOfTwo
        <2>5. /\ Max({MinDelay, Earlier(d)}) \in Int
              /\ Max({MinDelay, Earlier(d)}) >= MinDelay
              /\ Max({MinDelay, Earlier(d)}) >= Earlier(d)
            BY <1>1, <2>2, MaxOfTwo
        <2>6. compare <= MinDelay \/ compare <= d
            BY <2>3, <2>4
        <2>7. /\ Earlier(d) <= Earlier(compare)
              /\ Earlier(compare) <= MinDelay \/ Earlier(compare) <= Earlier(d)
              /\ Earlier(compare) \in Int
            BY <1>1, <1>2, <2>2, <2>3, <2>6
        <2> DEFINE e == Earlier(d)
                   c == Earlier(compare)
                   top == Max({MinDelay, e})
        <2>8. e <= c /\ c <= top
            <3> HIDE DEF e, c, top
            <3> QED BY <1>1, <2>2, <2>5, <2>7 DEF e, c, top
        <2> QED BY <1>3, <2>2, <2>8
    <1>9. InCall' /\ StoppedDoesNotTrigger'
        BY <1>3 DEF InCall, StoppedDoesNotTrigger
    <1> QED BY <1>4, <1>7, <1>8, <1>9

LEMMA NextTimer == CallbacksKept /\ IInv /\ [Next]_vars => IInv'
    <1> SUFFICES ASSUME CallbacksKept, IInv, [Next]_vars PROVE IInv'
        OBVIOUS
    <1>1. CASE UNCHANGED vars
        BY <1>1 DEF vars, alarmVars, deviceVars, callVars, IInv, TypeOK, InList, Sorted, InCall,
                    CompareFollows, StoppedDoesNotTrigger
    <1>2. CASE Next
        BY <1>2, CallTimer, StopNoneTimer, StopFiredTimer, StopActiveTimer, StartFillsTimer,
           StartInsertsTimer, IsrFiresTimer, IsrFindsNoneTimer, TickTimer
           DEF Next, Step, Isr
    <1> QED BY <1>1, <1>2

\* The list of active alarms holds exactly the alarms flagged activated, once
\* each and in order, whatever timer_isr and the thread's calls do between the
\* other's steps (mod_timer.c, alarm_start, alarm_stop and timer_isr).
THEOREM ListCorrect ==
    ASSUME CallbacksKept
    PROVE  Spec => []ListInv
    <1>1. IInv => ListInv
        BY DEF IInv, InList, Sorted, ListInv
    <1> QED BY InitTimer, NextTimer, <1>1, PTL DEF Spec

\* An alarm that was stopped is not going to ring, also when it is stopped by
\* its own callback or while its interrupt is on the way.
THEOREM StoppedStaysSilent ==
    ASSUME CallbacksKept
    PROVE  Spec => []StoppedDoesNotTrigger
    <1>1. IInv => StoppedDoesNotTrigger
        BY DEF IInv
    <1> QED BY InitTimer, NextTimer, <1>1, PTL DEF Spec

-----------------------------------------------------------------------------
(* With careful clients, and no interrupt taken after the device was       *)
(* disabled, the device follows the list.                                  *)

\* While the device is disabled by a call, its interrupt is not on the way or
\* will not be taken; it never interrupts without an alarm that is due.
InDevice ==
    /\ enabled => active # <<>>
    /\ pending => active # <<>> /\ due[Head(active)] <= 0
    /\ pc \in {"stopLocked", "startLocked", "queryLocked"} =>
           ~enabled /\ (masked \/ ~pending)
    /\ pc = "idle" /\ active # <<>> => enabled
    /\ ~unexpected

\* alarm_stop finds the alarm in the list, or is called by alarm_start.
InCarefulCall ==
    /\ pc \in {"stop", "stopLocked"} =>
           /\ started[subject]
           /\ restart \/ (masked /\ activated[subject])
    /\ pc # "idle" /\ ~masked => subject \notin SelfStop
    /\ pc = "queryLocked" => masked /\ active # <<>>

DeviceInv == IInv /\ InDevice /\ InCarefulCall

LEMMA InitDevice == Init => DeviceInv
    BY InitTimer DEF Init, DeviceInv, InDevice, InCarefulCall

\* Where the head is due no later than the comparator says, an interrupt that
\* the device asserts is due.
LEMMA AssertedIsDue ==
    ASSUME TypeOK, CompareFollows, active # <<>>, compare <= 0
    PROVE  due[Head(active)] <= 0
    <1>1. Head(active) \in Alarms
        BY HeadTailProperties DEF TypeOK
    <1>2. due[Head(active)] \in Int /\ compare \in Int /\ due[Head(active)] <= compare
        BY <1>1 DEF TypeOK, CompareFollows
    <1> QED BY <1>2

LEMMA CallDevice ==
    ASSUME Careful, ~LateIrq, DeviceInv, Call
    PROVE  InDevice' /\ InCarefulCall'
    <1> USE DEF DeviceInv, alarmVars, deviceVars
    <1>1. CASE CallQuery
        <2>1. /\ pc' = "queryLocked" /\ masked' /\ active # <<>> /\ ~enabled'
              /\ UNCHANGED <<active, due, pending, unexpected>>
            BY <1>1 DEF CallQuery, Disable
        <2> QED BY <2>1 DEF InDevice, InCarefulCall
    <1>2. ASSUME NEW a \in Alarms, CallStart(a) PROVE InDevice' /\ InCarefulCall'
        <2>1. /\ pc' = IF started[a] THEN "stop" ELSE "start"
              /\ subject' = a /\ restart' = started[a]
              /\ pc = "idle"
              /\ UNCHANGED <<active, due, started, activated, enabled, pending, unexpected>>
            BY <1>2 DEF CallStart
        <2>2. a \in SelfStop => masked'
            BY <1>2 DEF CallStart, CallMasked
        <2> QED BY <2>1, <2>2 DEF InDevice, InCarefulCall
    <1>3. ASSUME NEW a \in Alarms, CallStop(a) PROVE InDevice' /\ InCarefulCall'
        <2>1. /\ pc' = "stop" /\ subject' = a /\ pc = "idle" /\ masked' /\ activated[a]
              /\ UNCHANGED <<active, due, started, activated, enabled, pending, unexpected>>
            BY <1>3 DEF CallStop
        <2>2. started[a]
            BY <2>1 DEF IInv, StoppedDoesNotTrigger
        <2> QED BY <2>1, <2>2 DEF InDevice, InCarefulCall
    <1> QED BY <1>1, <1>2, <1>3 DEF Call

\* The device is disabled at a time its interrupt is masked or not on the way.
LEMMA DisablesDevice ==
    ASSUME Careful, ~LateIrq, DeviceInv, StopDisables \/ StartDisables
    PROVE  InDevice' /\ InCarefulCall'
    <1> USE DEF DeviceInv, alarmVars, deviceVars
    <1>1. /\ ~enabled' /\ (masked' \/ ~pending)
          /\ UNCHANGED <<active, due, started, activated, pending, unexpected, masked, subject,
                         restart>>
        BY DEF StopDisables, StartDisables, Disable
    <1>2. CASE StopDisables
        BY <1>1, <1>2 DEF StopDisables, InDevice, InCarefulCall
    <1>3. CASE StartDisables
        BY <1>1, <1>3 DEF StartDisables, InDevice, InCarefulCall
    <1> QED BY <1>2, <1>3

\* The alarm is never found stopped, and found fired only by alarm_start.
LEMMA StopDevice ==
    ASSUME Careful, ~LateIrq, DeviceInv, StopNotStarted \/ StopFired
    PROVE  InDevice' /\ InCarefulCall'
    <1> USE DEF DeviceInv, alarmVars, deviceVars
    <1>1. ~StopNotStarted
        BY DEF StopNotStarted, InCarefulCall
    <1>2. /\ pc = "stopLocked" /\ pc' = "start"
          /\ UNCHANGED <<active, due, enabled, pending, unexpected, masked, subject>>
        BY <1>1 DEF StopFired, StopReturns, InCarefulCall
    <1> QED BY <1>2 DEF InDevice, InCarefulCall

\* What was asserted for the alarm taken out is cleared.
LEMMA StopActiveDevice ==
    ASSUME Careful, ~LateIrq, DeviceInv, StopActive, IInv'
    PROVE  InDevice' /\ InCarefulCall'
    <1> USE DEF DeviceInv
    <1>1. ~enabled /\ pc = "stopLocked"
        BY DEF StopActive, InDevice
    <1>2. /\ enabled' = (active' # <<>> \/ enabled)
          /\ pending' = (FALSE \/ (enabled' /\ compare' <= 0))
        BY DEF StopActive, ConfigureWithNext, Asserted
    <1>3. enabled' => active' # <<>>
        BY <1>1, <1>2
    <1>4. pending' => active' # <<>> /\ due'[Head(active')] <= 0
        <2> SUFFICES ASSUME pending' PROVE active' # <<>> /\ due'[Head(active')] <= 0
            OBVIOUS
        <2>1. compare' <= 0 /\ active' # <<>>
            BY <1>2, <1>3
        <2>2. TypeOK' /\ CompareFollows'
            BY DEF IInv
        <2>3. Head(active') \in Alarms
            BY <2>1, <2>2, HeadTailProperties DEF TypeOK
        <2>4. due'[Head(active')] \in Int /\ compare' \in Int
              /\ due'[Head(active')] <= compare'
            BY <2>1, <2>2, <2>3 DEF TypeOK, CompareFollows
        <2> QED BY <2>1, <2>4
    <1>5. active' # <<>> => enabled'
        BY <1>2
    <1>6. pc' \in {"idle", "start"} /\ unexpected' = unexpected
          /\ (pc' = "start" => masked' = masked /\ subject' = subject)
        BY DEF StopActive, StopReturns, Return
    <1> QED BY <1>1, <1>3, <1>4, <1>5, <1>6 DEF InDevice, InCarefulCall

LEMMA StartFillsDevice ==
    ASSUME Careful, ~LateIrq, DeviceInv, StartFills
    PROVE  InDevice' /\ InCarefulCall'
    <1> USE DEF DeviceInv, deviceVars
    <1>1. /\ pc = "start" /\ pc' = "startLock"
          /\ UNCHANGED <<active, enabled, pending, unexpected, masked, subject>>
        BY DEF StartFills
    <1>2. active # <<>> => due'[Head(active)] = due[Head(active)]
        <2> SUFFICES ASSUME active # <<>> PROVE due'[Head(active)] = due[Head(active)]
            OBVIOUS
        <2>1. Head(active) \in Range(active)
            BY TailFacts DEF IInv, TypeOK
        <2>2. Head(active) \in Alarms /\ Head(active) # subject
            BY <2>1, <1>1 DEF IInv, InList, InCall
        <2> QED BY <2>2 DEF StartFills, IInv, TypeOK
    <1> QED BY <1>1, <1>2 DEF InDevice, InCarefulCall

\* The alarm inserted is due no later than the one it is put before.
LEMMA StartInsertsDevice ==
    ASSUME Careful, ~LateIrq, DeviceInv, StartInserts, IInv'
    PROVE  InDevice' /\ InCarefulCall'
    <1> USE DEF DeviceInv
    <1>1. /\ active' = InsertByDue(active, subject, due) /\ due' = due
          /\ enabled' = (active' # <<>> \/ enabled)
          /\ pending' = (pending \/ (enabled' /\ compare' <= 0))
          /\ pc' = "idle" /\ unexpected' = unexpected
        BY DEF StartInserts, ConfigureWithNext, Asserted, Return
    <1>2. /\ active' # <<>> /\ active' \in Seq(Alarms) /\ due \in [Alarms -> Int]
          /\ Range(active') = Range(active) \cup {subject} /\ Sorted(active', due)
          /\ active \in Seq(Alarms)
        BY <1>1, InsertByDueFacts DEF IInv, InList, InCall, StartInserts, TypeOK
    <1>3. ASSUME pending' PROVE due'[Head(active')] <= 0
        <2>1. CASE pending
            <3>1. Head(active) \in Range(active') /\ due[Head(active)] <= 0
                BY <2>1, <1>2, TailFacts DEF InDevice
            <3>2. due[Head(active')] <= due[Head(active)]
                BY <3>1, <1>2, HeadFirst
            <3>3. Head(active') \in Alarms /\ Head(active) \in Alarms
                BY <2>1, <1>2, HeadTailProperties DEF InDevice
            <3> QED BY <1>1, <1>2, <3>1, <3>2, <3>3
        <2>2. CASE compare' <= 0
            <3>1. TypeOK' /\ CompareFollows'
                BY DEF IInv
            <3>2. Head(active') \in Alarms
                BY <1>2, HeadTailProperties
            <3>3. due'[Head(active')] \in Int /\ compare' \in Int
                  /\ due'[Head(active')] <= compare'
                BY <1>2, <3>1, <3>2 DEF TypeOK, CompareFollows
            <3> QED BY <2>2, <3>3
        <2> QED BY <1>1, <1>3, <2>1, <2>2
    <1> QED BY <1>1, <1>2, <1>3 DEF InDevice, InCarefulCall

LEMMA QueryDevice ==
    ASSUME Careful, ~LateIrq, DeviceInv, QueryEnables
    PROVE  InDevice' /\ InCarefulCall'
    <1> USE DEF DeviceInv, alarmVars
    <1>1. /\ active # <<>> /\ enabled' /\ pc' = "idle"
          /\ pending' = (pending \/ compare <= 0)
          /\ UNCHANGED <<active, due, unexpected>>
        BY DEF QueryEnables, Return, Asserted, InCarefulCall
    <1>2. pending' => due[Head(active)] <= 0
        BY <1>1, AssertedIsDue DEF InDevice, IInv
    <1> QED BY <1>1, <1>2 DEF InDevice, InCarefulCall

\* No callback of a careful client enables a device without an alarm.
LEMMA IsrDevice ==
    ASSUME Careful, ~LateIrq, DeviceInv, Isr, IInv'
    PROVE  InDevice' /\ InCarefulCall'
    <1> USE DEF DeviceInv
    <1>1. ~IsrFindsNone /\ IsrFires
        BY DEF Isr, IsrFindsNone, InDevice
    <1> DEFINE a == Head(active)
    <1>2. PICK stop \in CallbackStops(a) :
              LET again == periodic[a] /\ a # stop /\ started[a]
                  idle == stop # NoAlarm /\ ~started[stop]
              IN /\ started' = [b \in Alarms |-> started[b] /\ b # stop]
                 /\ activated' = [b \in Alarms |->
                        activated[b] /\ b # stop /\ (b = a => again)]
                 /\ ConfigureWithNext(idle, Asserted(idle, compare))
        BY <1>1 DEF IsrFires
    <1>3. stop = NoAlarm \/ (stop \in Alarms /\ started[stop])
        BY <1>2 DEF CallbackStops
    <1>4. /\ UNCHANGED <<pc, subject, masked, restart, unexpected>>
          /\ ~masked /\ pending
        BY <1>1 DEF IsrFires, callVars
    <1>5. /\ enabled' <=> active' # <<>>
          /\ pending' => enabled' /\ compare' <= 0
        BY <1>2, <1>3 DEF ConfigureWithNext, Asserted
    <1>6. pc \notin {"stopLocked", "startLocked", "queryLocked"}
        BY <1>4 DEF InDevice
    <1>7. pending' => active' # <<>> /\ due'[Head(active')] <= 0
        <2> SUFFICES ASSUME pending' PROVE active' # <<>> /\ due'[Head(active')] <= 0
            OBVIOUS
        <2>1. compare' <= 0 /\ active' # <<>>
            BY <1>5
        <2>2. TypeOK' /\ CompareFollows'
            BY DEF IInv
        <2>3. Head(active') \in Alarms
            BY <2>1, <2>2, HeadTailProperties DEF TypeOK
        <2>4. due'[Head(active')] \in Int /\ compare' \in Int
              /\ due'[Head(active')] <= compare'
            BY <2>1, <2>2, <2>3 DEF TypeOK, CompareFollows
        <2> QED BY <2>1, <2>4
    <1>8. InDevice'
        BY <1>4, <1>5, <1>6, <1>7 DEF InDevice
    <1>9. ASSUME pc = "stop" PROVE started'[subject]
        <2>1. subject \in Alarms /\ started[subject] /\ ~CrossStop /\ subject \notin SelfStop
            BY <1>4, <1>9 DEF InCarefulCall, IInv, InCall
        <2>2. stop # subject
            BY <1>2, <2>1, TimerAssumption DEF CallbackStops
        <2> QED BY <1>2, <2>1, <2>2
    <1>10. InCarefulCall'
        BY <1>4, <1>6, <1>9 DEF InCarefulCall
    <1> QED BY <1>8, <1>10

LEMMA TickDevice ==
    ASSUME Careful, ~LateIrq, DeviceInv, Tick, IInv'
    PROVE  InDevice' /\ InCarefulCall'
    <1> USE DEF DeviceInv, callVars
    <1>1. /\ UNCHANGED <<started, activated, active, enabled, unexpected, masked, pc, subject,
                         restart>>
          /\ pending' = (pending \/ (enabled /\ compare' <= 0))
        BY DEF Tick, Asserted
    <1>2. ~enabled /\ ~pending => ~pending'
        BY <1>1
    <1>3. ASSUME pending' PROVE active # <<>> /\ due'[Head(active)] <= 0
        <2>1. active # <<>>
            BY <1>1, <1>3 DEF InDevice
        <2>2. Head(active) \in Alarms /\ due' \in [Alarms -> Int] /\ compare' \in Int
              /\ due \in [Alarms -> Int]
            BY <2>1, HeadTailProperties DEF IInv, TypeOK
        <2>3. CASE pending
            <3>1. due[Head(active)] <= 0 /\ due[Head(active)] \in Int /\ MaxLate \in Int
                BY <2>2, <2>3, TimerAssumption DEF InDevice
            <3>2. due'[Head(active)] <= due[Head(active)]
                BY <2>2, <3>1 DEF Tick, Earlier
            <3> QED BY <2>1, <2>2, <3>1, <3>2
        <2>4. CASE compare' <= 0
            <3>1. due'[Head(active)] <= compare' /\ due'[Head(active)] \in Int
                BY <1>1, <2>1, <2>2 DEF IInv, CompareFollows
            <3> QED BY <2>1, <2>2, <2>4, <3>1
        <2> QED BY <1>1, <1>3, <2>3, <2>4
    <1>4. InDevice'
        BY <1>1, <1>2, <1>3 DEF InDevice
    <1> QED BY <1>1, <1>4 DEF InCarefulCall

LEMMA NextDevice == Careful /\ ~LateIrq /\ DeviceInv /\ [Next]_vars => DeviceInv'
    <1> SUFFICES ASSUME Careful, ~LateIrq, DeviceInv, [Next]_vars PROVE DeviceInv'
        OBVIOUS
    <1>1. IInv'
        BY NextTimer DEF DeviceInv, CallbacksKept
    <1>2. CASE UNCHANGED vars
        BY <1>1, <1>2 DEF vars, alarmVars, deviceVars, callVars, DeviceInv, InDevice,
                          InCarefulCall
    <1>3. CASE Next
        <2>1. InDevice' /\ InCarefulCall'
            BY <1>1, <1>3, CallDevice, DisablesDevice, StopDevice, StopActiveDevice,
               StartFillsDevice, StartInsertsDevice, QueryDevice, IsrDevice, TickDevice
               DEF Next, Step
        <2> QED BY <1>1, <2>1 DEF DeviceInv
    <1> QED BY <1>2, <1>3

\* timer_isr fires the head without looking at its time, and calls an empty
\* list unexpected: with careful clients neither is ever wrong.
THEOREM FiresOnlyDue ==
    ASSUME Careful, ~LateIrq
    PROVE  Spec => []InterruptsAreDue
    <1>1. DeviceInv => InterruptsAreDue
        BY DEF DeviceInv, InDevice, InterruptsAreDue, NoEarlyAlarm, NoUnexpectedInterrupt
    <1> QED BY InitDevice, NextDevice, <1>1, PTL DEF Spec

\* Between calls the device is armed for the head of the list, whatever was
\* stopped, started or fired before (_configure_timer_with_next_alarm).
THEOREM ArmedForHead ==
    ASSUME Careful, ~LateIrq
    PROVE  Spec => []Armed
    <1>1. DeviceInv => Armed
        BY DEF DeviceInv, IInv, InDevice, CompareFollows, Armed
    <1> QED BY InitDevice, NextDevice, <1>1, PTL DEF Spec

-----------------------------------------------------------------------------
(* The tree of power domains: the invariant.                               *)

\* The domains a report of which is in a queue.
Reporting(q) == {q[i].domain : i \in {j \in DOMAIN q : q[j].kind = "report"}}

Quiet(w, R, d) ==
    /\ w.driver[d] = None /\ d \notin R /\ w.before[d] = 0
    /\ w.pd[d].requested = w.pd[d].toDriver

MayBe(w, h, d) == {h[d], w.driver[d]} \ {None}

\* What is asked of a domain goes with what is asked of its parent.
AsAsked(w) ==
    \A d \in Domains \ {Root} :
        w.pd[d].requested \in Allowed[d][w.pd[Parent[d]].requested]

\* A domain is in the state the module takes it to be in or in the one that is
\* asked for, and makes for no other.
KnownAt(w, h, R, d) ==
    /\ h[d] \in {w.pd[d].current, w.pd[d].requested}
    /\ w.driver[d] \in {None, w.pd[d].requested}
    /\ d \in R => h[d] = w.pd[d].requested /\ w.pd[d].toDriver = w.pd[d].requested
    /\ d \notin R /\ w.driver[d] = None => h[d] = w.pd[d].current

Known(w, h, R) == \A d \in Domains : KnownAt(w, h, R, d)

PairsSafe(w, h) ==
    \A d \in Domains \ {Root} :
        \A s \in MayBe(w, h, d), t \in MayBe(w, h, Parent[d]) : s \in Allowed[d][t]

Agreeable(ctx, d) == AllowedByParentAndChildren(ctx, d, ctx[d].requested)

\* A transition that waits for agreement to be started is still possible then.
AgreedAt(w, d) == w.before[d] > 0 /\ w.pd[d].pre.valid => Agreeable(w.pd, d)

Agreed(w) == \A d \in Domains : AgreedAt(w, d)

WalkType ==
    [pd: [Domains -> Context], before: [Domains -> Nat], after: [Domains -> Nat],
     driver: [Domains -> States \cup {None}], answer: [Ids -> Answers \cup {None}],
     heard: [Domains -> Nat], lost: BOOLEAN,
     charge: Domains \cup {None}, first: BOOLEAN, status: Answers, stop: BOOLEAN]

TypedAt(w, d) ==
    /\ w.heard[d] + w.before[d] <= Before[d] /\ w.after[d] <= After[d]
    /\ w.driver[d] # None => w.driver[d] = w.pd[d].toDriver

Typed(w) == w \in WalkType /\ \A d \in Domains : TypedAt(w, d)

\* A walk that keeps the tree safe, the hardware being in the states h and the
\* reports of R waiting.
SafeWalk(w, h, R) ==
    /\ Typed(w) /\ h \in [Domains -> States]
    /\ AsAsked(w) /\ Known(w, h, R) /\ PairsSafe(w, h) /\ Agreed(w)

\* Nothing a walk looks at differs outside D.
SameOutside(v, w, D) ==
    \A e \in Domains \ D :
        /\ v.pd[e].requested = w.pd[e].requested /\ v.pd[e].toDriver = w.pd[e].toDriver
        /\ v.pd[e].current = w.pd[e].current /\ v.pd[e].pre = w.pd[e].pre
        /\ v.driver[e] = w.driver[e] /\ v.before[e] = w.before[e]

-----------------------------------------------------------------------------
(* The tree.                                                               *)

LEMMA TreeFacts ==
    /\ Root \in Domains /\ Parent[Root] = None
    /\ \A d \in Domains \ {Root} : Parent[d] \in Domains /\ Parent[d] > d
    /\ \A d, c \in Domains : c \in Children(d) <=> c # Root /\ Parent[c] = d
    /\ \A d \in Domains : Children(d) \subseteq Domains /\ d \notin Children(d)
    /\ Domains \subseteq Nat /\ IsFiniteSet(Domains)
    <1>1. /\ Domains \subseteq Nat /\ IsFiniteSet(Domains) /\ None \notin Domains
          /\ Parent \in [Domains -> Domains \cup {None}]
          /\ \A d \in Domains : Parent[d] # None => d < Parent[d]
          /\ Cardinality(Children(None)) = 1
        BY PowerDomainAssumption
    <1>2. IsFiniteSet(Children(None))
        BY <1>1, FS_Subset DEF Children
    <1>3. PICK r : Children(None) = {r}
        BY <1>1, <1>2, FS_Singleton
    <1>4. r \in Domains /\ Parent[r] = None /\ \A d \in Domains : Parent[d] = None => d = r
        BY <1>3 DEF Children
    <1>5. Root = r
        BY <1>4 DEF Root
    <1>6. \A d \in Domains \ {Root} : Parent[d] \in Domains /\ Parent[d] > d
        BY <1>1, <1>4, <1>5
    <1>7. \A d \in Domains : d \notin Children(d)
        BY <1>1, <1>4, <1>5, <1>6 DEF Children
    <1>8. \A d, c \in Domains : c \in Children(d) <=> c # Root /\ Parent[c] = d
        BY <1>1, <1>4, <1>5 DEF Children
    <1> QED BY <1>1, <1>4, <1>5, <1>6, <1>7, <1>8 DEF Children

-----------------------------------------------------------------------------
(* The change of one domain.                                               *)

\* w becomes v, in domain d only, while the hardware goes from h to g and the
\* reports that wait from R to S.
Change(w, h, R, v, g, S, d) ==
    /\ SameOutside(v, w, {d})
    /\ \A e \in Domains \ {d} : g[e] = h[e] /\ (e \in S <=> e \in R)
    /\ d # Root => v.pd[d].requested \in Allowed[d][w.pd[Parent[d]].requested]
    /\ \A c \in Children(d) : w.pd[c].requested \in Allowed[c][v.pd[d].requested]
    /\ v.pd[d].current \in {w.pd[d].current, v.pd[d].requested}
    /\ KnownAt(v, g, S, d) /\ AgreedAt(v, d)
    /\ \A s \in MayBe(v, g, d) :
           s \in MayBe(w, h, d) \/ (s = v.pd[d].requested /\ Agreeable(v.pd, d))

LEMMA ChangeAsAsked ==
    ASSUME NEW w, NEW h, NEW R, NEW v, NEW g, NEW S, NEW d \in Domains,
           AsAsked(w), Change(w, h, R, v, g, S, d)
    PROVE  AsAsked(v)
    <1> SUFFICES ASSUME NEW e \in Domains \ {Root}
                 PROVE  v.pd[e].requested \in Allowed[e][v.pd[Parent[e]].requested]
        BY DEF AsAsked
    <1>1. Parent[e] \in Domains /\ Parent[e] # e
        BY TreeFacts
    <1>2. CASE e = d
        BY <1>1, <1>2 DEF Change, SameOutside
    <1>3. CASE Parent[e] = d
        <2>1. e \in Children(d) /\ e # d
            BY <1>3, <1>1, TreeFacts
        <2> QED BY <2>1, <1>3 DEF Change, SameOutside
    <1>4. CASE e # d /\ Parent[e] # d
        BY <1>1, <1>4 DEF Change, SameOutside, AsAsked
    <1> QED BY <1>2, <1>3, <1>4

LEMMA ChangePairs ==
    ASSUME NEW w, NEW h, NEW R, NEW v, NEW g, NEW S, NEW d \in Domains,
           AsAsked(w), Known(w, h, R), PairsSafe(w, h), Change(w, h, R, v, g, S, d)
    PROVE  PairsSafe(v, g)
    <1> SUFFICES ASSUME NEW e \in Domains \ {Root}, NEW s \in MayBe(v, g, e),
                        NEW t \in MayBe(v, g, Parent[e])
                 PROVE  s \in Allowed[e][t]
        BY DEF PairsSafe
    <1>1. Parent[e] \in Domains /\ Parent[e] # e
        BY TreeFacts
    <1>2. \A x \in Domains \ {d} : MayBe(v, g, x) = MayBe(w, h, x)
        BY DEF Change, SameOutside, MayBe
    <1>3. \A x \in Domains \ {d} : /\ MayBe(w, h, x) \subseteq {w.pd[x].current, w.pd[x].requested}
                                   /\ v.pd[x].current = w.pd[x].current
        BY DEF Known, KnownAt, MayBe, Change, SameOutside
    <1>4. CASE e = d
        <2>1. t \in MayBe(w, h, Parent[e]) /\ t \in {w.pd[Parent[e]].current, w.pd[Parent[e]].requested}
            BY <1>1, <1>2, <1>3, <1>4
        <2>2. CASE s \in MayBe(w, h, d)
            BY <2>1, <2>2, <1>4 DEF PairsSafe
        <2>3. CASE s = v.pd[d].requested /\ Agreeable(v.pd, d)
            <3>1. s \in Allowed[d][v.pd[Parent[d]].current]
                BY <2>3, <1>4 DEF Agreeable, AllowedByParentAndChildren
            <3>2. s \in Allowed[d][w.pd[Parent[d]].requested]
                BY <2>3, <1>4 DEF Change
            <3> QED BY <3>1, <3>2, <2>1, <1>1, <1>3, <1>4
        <2> QED BY <2>2, <2>3, <1>4 DEF Change
    <1>5. CASE Parent[e] = d
        <2>1. e \in Children(d) /\ e # d
            BY <1>5, <1>1, TreeFacts
        <2>2. s \in MayBe(w, h, e) /\ s \in {w.pd[e].current, w.pd[e].requested}
            BY <2>1, <1>2, <1>3
        <2>3. CASE t \in MayBe(w, h, d)
            BY <2>2, <2>3, <1>5 DEF PairsSafe
        <2>4. CASE t = v.pd[d].requested /\ Agreeable(v.pd, d)
            <3>1. v.pd[e].current \in Allowed[e][t]
                BY <2>4, <2>1 DEF Agreeable, AllowedByParentAndChildren
            <3>2. w.pd[e].requested \in Allowed[e][t]
                BY <2>4, <2>1 DEF Change
            <3> QED BY <3>1, <3>2, <2>1, <2>2, <1>3
        <2> QED BY <2>3, <2>4, <1>5 DEF Change
    <1>6. CASE e # d /\ Parent[e] # d
        BY <1>1, <1>2, <1>6 DEF PairsSafe
    <1> QED BY <1>4, <1>5, <1>6

LEMMA ChangeKnown ==
    ASSUME NEW w, NEW h, NEW R, NEW v, NEW g, NEW S, NEW d \in Domains,
           Known(w, h, R), Change(w, h, R, v, g, S, d)
    PROVE  Known(v, g, S)
    <1> SUFFICES ASSUME NEW e \in Domains PROVE KnownAt(v, g, S, e)
        BY DEF Known
    <1>1. CASE e = d
        BY <1>1 DEF Change
    <1>2. CASE e # d
        BY <1>2 DEF Known, KnownAt, Change, SameOutside
    <1> QED BY <1>1, <1>2

LEMMA ChangeAgreed ==
    ASSUME NEW w, NEW h, NEW R, NEW v, NEW g, NEW S, NEW d \in Domains,
           Agreed(w), AsAsked(w), Change(w, h, R, v, g, S, d)
    PROVE  Agreed(v)
    <1> SUFFICES ASSUME NEW e \in Domains, e # d PROVE AgreedAt(v, e)
        BY DEF Agreed, Change
    <1> SUFFICES ASSUME v.before[e] > 0, v.pd[e].pre.valid PROVE Agreeable(v.pd, e)
        BY DEF AgreedAt
    <1>1. /\ v.pd[e].requested = w.pd[e].requested
          /\ \A x \in Domains \ {d} : v.pd[x].current = w.pd[x].current
          /\ v.pd[d].current \in {w.pd[d].current, v.pd[d].requested}
        BY DEF Change, SameOutside
    <1>2. Agreeable(w.pd, e)
        BY DEF Agreed, AgreedAt, Change, SameOutside
    <1>3. ASSUME e # Root
          PROVE  v.pd[e].requested \in Allowed[e][v.pd[Parent[e]].current]
        <2>1. w.pd[e].requested \in Allowed[e][w.pd[Parent[e]].current] /\ Parent[e] \in Domains
            BY <1>2, <1>3, TreeFacts DEF Agreeable, AllowedByParentAndChildren
        <2>2. CASE Parent[e] # d
            BY <2>1, <2>2, <1>1
        <2>3. CASE Parent[e] = d
            <3>1. w.pd[e].requested \in Allowed[e][v.pd[d].requested]
                BY <2>3, <1>3, TreeFacts DEF Change
            <3> QED BY <3>1, <2>1, <2>3, <1>1
        <2> QED BY <2>2, <2>3
    <1>4. ASSUME NEW c \in Children(e)
          PROVE  v.pd[c].current \in Allowed[c][v.pd[e].requested]
        <2>1. w.pd[c].current \in Allowed[c][w.pd[e].requested] /\ c \in Domains
            BY <1>2, TreeFacts DEF Agreeable, AllowedByParentAndChildren
        <2>2. CASE c # d
            BY <2>1, <2>2, <1>1
        <2>3. CASE c = d
            <3>1. d # Root /\ Parent[d] = e
                BY <2>3, TreeFacts
            <3>2. v.pd[d].requested \in Allowed[d][w.pd[e].requested]
                BY <3>1 DEF Change
            <3> QED BY <3>2, <2>1, <2>3, <1>1
        <2> QED BY <2>2, <2>3
    <1> QED BY <1>3, <1>4 DEF Agreeable, AllowedByParentAndChildren

\* Every step of a walk, every report and the suspension are such changes.
LEMMA ChangeSafe ==
    ASSUME NEW w, NEW h, NEW R, NEW v, NEW g, NEW S, NEW d \in Domains,
           SafeWalk(w, h, R), Typed(v), g \in [Domains -> States],
           Change(w, h, R, v, g, S, d)
    PROVE  SafeWalk(v, g, S)
    BY ChangeAsAsked, ChangePairs, ChangeKnown, ChangeAgreed DEF SafeWalk

-----------------------------------------------------------------------------
(* The path from a domain to the root.                                     *)

PathStep(f, d) == IF d = Root THEN <<d>> ELSE <<d>> \o f[Parent[d]]

LEMMA PathExists == Path = [d \in Domains |-> PathStep(Path, d)]
    <1> DEFINE From(n) == {d \in Domains : d >= n}
               IsPath(f, n) == f = [d \in From(n) |-> PathStep(f, d)]
               top == Max(Domains) + 1
               Bad == {m \in 0 .. top : ~\E f : IsPath(f, top - m)}
    <1>1. /\ Domains # {} /\ Domains \subseteq Nat /\ IsFiniteSet(Domains)
          /\ \A d \in Domains : d \in Nat
        BY TreeFacts
    <1>2. Max(Domains) \in Nat /\ \A d \in Domains : d <= Max(Domains)
        BY <1>1, FiniteMax
    <1>3. top \in Nat /\ From(top) = {} /\ From(0) = Domains
        <2>1. top \in Nat /\ \A d \in Domains : ~(d >= top) /\ d >= 0
            <3> SUFFICES ASSUME NEW d \in Domains PROVE top \in Nat /\ ~(d >= top) /\ d >= 0
                BY <1>1, <1>2
            <3>1. d \in Nat /\ d <= Max(Domains) /\ Max(Domains) \in Nat
                BY <1>1, <1>2
            <3> QED BY <3>1
        <2> HIDE DEF top
        <2> QED BY <2>1
    <1> HIDE DEF top
    <1>4. \E f : IsPath(f, top)
        <2>1. IsPath([d \in {} |-> d], top)
            BY <1>3
        <2> QED BY <2>1
    <1>5. Bad = {}
        <2> SUFFICES ASSUME Bad # {} PROVE FALSE
            OBVIOUS
        <2>1. PICK m \in Bad : \A x \in Bad : m <= x
            <3>1. Bad \subseteq Nat
                BY <1>3
            <3> HIDE DEF Bad
            <3> QED BY <3>1, LeastNat
        <2>2. m # 0
            <3>1. top - 0 = top
                BY <1>3
            <3> QED BY <3>1, <1>4, ZenonT(30)
        <2>3. m \in 1 .. top /\ m - 1 \in 0 .. top /\ m - 1 \notin Bad
            <3>1. m \in 0 .. top /\ m \in Nat
                BY <1>3
            <3>2. m \in 1 .. top /\ m - 1 \in 0 .. top /\ ~(m <= m - 1)
                BY <3>1, <2>2, <1>3
            <3> HIDE DEF Bad
            <3> QED BY <3>2, <2>1
        <2>4. PICK f : IsPath(f, top - (m - 1))
            BY <2>3
        <2> DEFINE n == top - m
                   g == [d \in From(n) |->
                            IF d = n THEN PathStep(f, d) ELSE f[d]]
        <2>5. n \in Nat /\ top - (m - 1) = n + 1 /\ From(n + 1) \subseteq From(n)
              /\ \A d \in From(n) : d = n \/ d \in From(n + 1)
            <3>1. n \in Nat /\ top - (m - 1) = n + 1
                BY <2>3, <1>3
            <3> HIDE DEF n
            <3>2. \A d \in Domains : (d >= n => d = n \/ d >= n + 1) /\ (d >= n + 1 => d >= n)
                BY <3>1, <1>1
            <3> QED BY <3>1, <3>2
        <2>6. \A d \in From(n + 1) : f[d] = PathStep(f, d) /\ g[d] = f[d]
            BY <2>4, <2>5, <1>1
        <2>7. ASSUME NEW d \in From(n) PROVE PathStep(g, d) = PathStep(f, d)
            <3>1. d = Root \/ Parent[d] \in From(n + 1)
                <4> SUFFICES ASSUME d # Root PROVE Parent[d] \in From(n + 1)
                    OBVIOUS
                <4>1. /\ Parent[d] \in Domains /\ Parent[d] > d /\ d \in Nat
                      /\ Parent[d] \in Nat /\ d >= n
                    BY TreeFacts, <1>1
                <4> HIDE DEF n
                <4>2. Parent[d] >= n + 1
                    BY <4>1, <2>5
                <4> QED BY <4>1, <4>2
            <3> HIDE DEF g, From, n
            <3> QED BY <3>1, <2>6 DEF PathStep
        <2>8. \A d \in From(n) : g[d] = PathStep(g, d)
            <3> SUFFICES ASSUME NEW d \in From(n) PROVE g[d] = PathStep(g, d)
                OBVIOUS
            <3>1. CASE d = n
                <4>1. g[d] = PathStep(f, d)
                    BY <3>1
                <4> HIDE DEF g
                <4> QED BY <4>1, <2>7
            <3>2. CASE d # n
                <4>1. d \in From(n + 1)
                    BY <3>2, <2>5
                <4>2. g[d] = f[d] /\ f[d] = PathStep(f, d)
                    BY <4>1, <2>6
                <4> HIDE DEF g
                <4> QED BY <4>2, <2>7
            <3> QED BY <3>1, <3>2
        <2>9. g = [d \in From(n) |-> g[d]]
            OBVIOUS
        <2>10. IsPath(g, n)
            <3> HIDE DEF g
            <3> QED BY <2>8, <2>9
        <2> QED BY <2>10, <2>1
    <1>6. top \in 0 .. top /\ top - top = 0
        BY <1>3
    <1>7. \E f : IsPath(f, 0)
        <2>1. \E f : IsPath(f, top - top)
            BY <1>5, <1>6
        <2> QED BY <2>1, <1>6
    <1>8. \E f : f = [d \in Domains |-> PathStep(f, d)]
        <2> HIDE DEF From
        <2> QED BY <1>7, <1>3
    <1>9. \E f : f = [d \in Domains |-> IF d = Root THEN <<d>> ELSE <<d>> \o f[Parent[d]]]
        BY <1>8 DEF PathStep
    <1>10. Path = [d \in Domains |-> IF d = Root THEN <<d>> ELSE <<d>> \o Path[Parent[d]]]
        BY <1>9, Zenon DEF Path
    <1> QED BY <1>10 DEF PathStep

\* A path goes up, so that no domain is on it twice.
LEMMA PathFacts ==
    ASSUME NEW d \in Domains
    PROVE  /\ Path[d] \in Seq(Domains) /\ Path[d] # <<>> /\ Path[d][1] = d
           /\ \A i, j \in 1 .. Len(Path[d]) : i < j => Path[d][i] < Path[d][j]
    <1> DEFINE Good(e) == /\ Path[e] \in Seq(Domains) /\ Len(Path[e]) > 0 /\ Path[e][1] = e
                          /\ \A i \in 1 .. Len(Path[e]) : Path[e][i] >= e
                          /\ \A i, j \in 1 .. Len(Path[e]) : i < j => Path[e][i] < Path[e][j]
               Bad == {e \in Domains : ~Good(e)}
    <1>1. Domains \subseteq Nat /\ IsFiniteSet(Domains)
        BY TreeFacts
    <1>2. Bad = {}
        <2> SUFFICES ASSUME Bad # {} PROVE FALSE
            OBVIOUS
        <2>1. IsFiniteSet(Bad) /\ Bad \subseteq Nat
            BY <1>1, FS_Subset
        <2>2. PICK e \in Bad : \A x \in Bad : x <= e
            BY <2>1, FiniteMax
        <2>3. Path[e] = PathStep(Path, e)
            BY PathExists
        <2>4. CASE e = Root
            <3>1. Path[e] = <<e>>
                BY <2>3, <2>4 DEF PathStep
            <3>2. Len(<<e>>) = 1 /\ <<e>>[1] = e /\ <<e>> \in Seq(Domains)
                OBVIOUS
            <3>3. Good(e)
                BY <3>1, <3>2, <1>1
            <3> QED BY <3>3
        <2>5. CASE e # Root
            <3> DEFINE p == Parent[e]
                       s == Path[p]
            <3>1. p \in Domains /\ p > e
                BY <2>5, TreeFacts
            <3>2. p \notin Bad
                <4>1. p \in Nat /\ e \in Nat /\ p > e
                    BY <3>1, <1>1
                <4>2. ~(p <= e)
                    BY <4>1
                <4> HIDE DEF Bad
                <4> QED BY <4>2, <2>2
            <3>3. Good(p)
                BY <3>1, <3>2
            <3>4. Path[e] = <<e>> \o s
                BY <2>3, <2>5 DEF PathStep
            <3>5. /\ <<e>> \in Seq(Domains) /\ s \in Seq(Domains) /\ Len(<<e>>) = 1
                  /\ <<e>>[1] = e /\ Len(s) \in Nat
                BY <3>3
            <3>6. /\ <<e>> \o s \in Seq(Domains) /\ Len(<<e>> \o s) = 1 + Len(s)
                  /\ \A i \in 1 .. 1 + Len(s) :
                        (<<e>> \o s)[i] = IF i <= 1 THEN <<e>>[i] ELSE s[i - 1]
                BY <3>5, ConcatProperties
            <3>7. /\ \A i \in 1 .. Len(s) : s[i] \in Domains /\ s[i] >= p
                  /\ \A i, j \in 1 .. Len(s) : i < j => s[i] < s[j]
                BY <3>3, <3>5
            <3>8. /\ Path[e] \in Seq(Domains) /\ Len(Path[e]) = 1 + Len(s)
                  /\ Path[e][1] = e
                  /\ \A i \in 2 .. 1 + Len(s) : Path[e][i] = s[i - 1]
                BY <3>4, <3>5, <3>6
            <3> HIDE DEF s, p
            <3>9. \A i \in 2 .. 1 + Len(s) : i - 1 \in 1 .. Len(s)
                BY <3>5
            <3>10. \A i \in 1 .. Len(Path[e]) : Path[e][i] >= e
                <4> SUFFICES ASSUME NEW i \in 1 .. 1 + Len(s) PROVE Path[e][i] >= e
                    BY <3>8
                <4>0. e \in Nat /\ p \in Nat
                    BY <3>1, <1>1
                <4>1. CASE i = 1
                    BY <4>0, <4>1, <3>8
                <4>2. CASE i # 1
                    <5>1. i \in 2 .. 1 + Len(s) /\ i - 1 \in 1 .. Len(s)
                        BY <4>2, <3>5
                    <5>2. Path[e][i] = s[i - 1] /\ s[i - 1] >= p /\ s[i - 1] \in Nat
                        BY <5>1, <3>7, <3>8, <1>1
                    <5> QED BY <5>2, <3>1, <4>0
                <4> QED BY <4>1, <4>2
            <3>11. \A i, j \in 1 .. Len(Path[e]) : i < j => Path[e][i] < Path[e][j]
                <4> SUFFICES ASSUME NEW i \in 1 .. 1 + Len(s), NEW j \in 1 .. 1 + Len(s), i < j
                             PROVE  Path[e][i] < Path[e][j]
                    BY <3>8
                <4>1. j \in 2 .. 1 + Len(s) /\ Path[e][j] = s[j - 1] /\ j - 1 \in 1 .. Len(s)
                    BY <3>5, <3>8
                <4>2. CASE i = 1
                    <5>1. s[j - 1] >= p /\ s[j - 1] \in Nat /\ e \in Nat /\ p \in Nat
                        BY <4>1, <3>1, <3>7, <1>1
                    <5> QED BY <5>1, <4>1, <4>2, <3>1, <3>8
                <4>3. CASE i # 1
                    <5>1. Path[e][i] = s[i - 1] /\ i - 1 \in 1 .. Len(s) /\ i - 1 < j - 1
                        BY <4>3, <3>5, <3>8, SMTT(30)
                    <5> QED BY <5>1, <4>1, <3>7
                <4> QED BY <4>2, <4>3
            <3>12. Good(e)
                BY <3>8, <3>10, <3>11, <3>5
            <3> QED BY <3>12
        <2> QED BY <2>4, <2>5
    <1>3. Good(d)
        BY <1>2
    <1>4. Path[d] # <<>>
        BY <1>3
    <1> QED BY <1>3, <1>4

-----------------------------------------------------------------------------
(* The steps of a walk.                                                    *)

\* What a step does not change for the others, and for the loops.
Frame(v, w, d) ==
    /\ SameOutside(v, w, {d})
    /\ \A e \in Domains \ {d} : v.heard[e] = w.heard[e] /\ v.after[e] = w.after[e]

LEMMA WalkFields ==
    ASSUME NEW w \in WalkType
    PROVE  /\ w.pd \in [Domains -> Context] /\ w.before \in [Domains -> Nat]
           /\ w.after \in [Domains -> Nat] /\ w.heard \in [Domains -> Nat]
           /\ w.driver \in [Domains -> States \cup {None}]
           /\ w.answer \in [Ids -> Answers \cup {None}]
           /\ w.charge \in Domains \cup {None} /\ w.status \in Answers
           /\ w.lost \in BOOLEAN /\ w.first \in BOOLEAN /\ w.stop \in BOOLEAN
    BY DEF WalkType

LEMMA ContextFields ==
    ASSUME NEW c \in Context
    PROVE  /\ c.requested \in States /\ c.toDriver \in States /\ c.current \in States
           /\ c.driverState \in States /\ c.response \in Ids \cup {None}
           /\ c.pre \in [state: States, ok: BOOLEAN, valid: BOOLEAN]
           /\ c.post \in [state: States, previous: States]
    BY DEF Context

LEMMA RespondFacts ==
    ASSUME NEW w \in WalkType, NEW d \in Domains, NEW a \in Answers
    PROVE  LET v == Respond(w, d, a)
           IN /\ v \in WalkType
              /\ v.before = w.before /\ v.after = w.after /\ v.driver = w.driver
              /\ v.heard = w.heard /\ v.charge = w.charge /\ v.first = w.first
              /\ v.status = w.status /\ v.stop = w.stop
              /\ \A e \in Domains :
                    /\ v.pd[e].requested = w.pd[e].requested
                    /\ v.pd[e].toDriver = w.pd[e].toDriver
                    /\ v.pd[e].current = w.pd[e].current
                    /\ v.pd[e].driverState = w.pd[e].driverState
                    /\ v.pd[e].pre = w.pd[e].pre /\ v.pd[e].post = w.pd[e].post
    <1> DEFINE v == Respond(w, d, a)
               c == w.pd[d]
               c1 == [c EXCEPT !.response = None]
               r == w.pd[d].response
    <1>1. c \in Context /\ c.response \in Ids \cup {None}
        BY WalkFields, ContextFields
    <1>2. /\ c1 \in Context /\ c1.requested = c.requested /\ c1.toDriver = c.toDriver
          /\ c1.current = c.current /\ c1.driverState = c.driverState
          /\ c1.pre = c.pre /\ c1.post = c.post
        BY <1>1 DEF Context
    <1>3. CASE r = None
        BY <1>3 DEF Respond
    <1>4. CASE r # None
        <2>1. r \in Ids
            BY <1>1, <1>4
        <2>2. v = [w EXCEPT !.answer = [w.answer EXCEPT ![r] = a],
                            !.pd = [w.pd EXCEPT ![d] = c1]]
            BY <1>4 DEF Respond, WalkType
        <2>3. /\ [w.answer EXCEPT ![r] = a] \in [Ids -> Answers \cup {None}]
              /\ [w.pd EXCEPT ![d] = c1] \in [Domains -> Context]
            BY <2>1, <1>2, WalkFields
        <2>4. /\ v \in WalkType /\ v.pd = [w.pd EXCEPT ![d] = c1]
              /\ v.before = w.before /\ v.after = w.after /\ v.driver = w.driver
              /\ v.heard = w.heard /\ v.charge = w.charge /\ v.first = w.first
              /\ v.status = w.status /\ v.stop = w.stop
            BY <2>2, <2>3 DEF WalkType
        <2>5. \A e \in Domains : v.pd[e] = IF e = d THEN c1 ELSE w.pd[e]
            BY <2>4, WalkFields
        <2> HIDE DEF c1
        <2> QED BY <2>4, <2>5, <1>2
    <1> QED BY <1>3, <1>4

LEMMA InitiateFacts ==
    ASSUME NEW w \in WalkType, NEW d \in Domains
    PROVE  LET v == Initiate(w, d)
           IN /\ v \in WalkType
              /\ Frame(v, w, d)
              /\ v.before = w.before /\ v.after = w.after /\ v.heard[d] = 0
              /\ v.driver[d] = w.pd[d].requested
              /\ v.pd[d].requested = w.pd[d].requested
              /\ v.pd[d].toDriver = w.pd[d].requested
              /\ v.pd[d].current = w.pd[d].current /\ v.pd[d].pre = w.pd[d].pre
              /\ v.charge = w.charge /\ v.first = w.first /\ v.stop = w.stop
              /\ v.status = w.status
    <1> DEFINE v == Initiate(w, d)
               c == w.pd[d]
               s == c.requested
               c1 == [c EXCEPT !.driverState = s, !.toDriver = s]
    <1>1. c \in Context /\ s \in States
        BY WalkFields, ContextFields
    <1>2. /\ c1 \in Context /\ c1.requested = s /\ c1.toDriver = s
          /\ c1.current = c.current /\ c1.pre = c.pre
        BY <1>1 DEF Context
    <1>3. v = [w EXCEPT !.driver = [w.driver EXCEPT ![d] = s],
                        !.pd = [w.pd EXCEPT ![d] = c1],
                        !.heard = [w.heard EXCEPT ![d] = 0]]
        BY WalkFields, ZenonT(30) DEF Initiate, WalkType
    <1>4. /\ [w.driver EXCEPT ![d] = s] \in [Domains -> States \cup {None}]
          /\ [w.pd EXCEPT ![d] = c1] \in [Domains -> Context]
          /\ [w.heard EXCEPT ![d] = 0] \in [Domains -> Nat]
        BY <1>1, <1>2, WalkFields
    <1>5. /\ v \in WalkType /\ v.pd = [w.pd EXCEPT ![d] = c1]
          /\ v.driver = [w.driver EXCEPT ![d] = s] /\ v.heard = [w.heard EXCEPT ![d] = 0]
          /\ v.before = w.before /\ v.after = w.after /\ v.charge = w.charge
          /\ v.first = w.first /\ v.status = w.status /\ v.stop = w.stop
        BY <1>3, <1>4 DEF WalkType
    <1>6. \A e \in Domains : /\ v.pd[e] = IF e = d THEN c1 ELSE w.pd[e]
                             /\ v.driver[e] = IF e = d THEN s ELSE w.driver[e]
                             /\ v.heard[e] = IF e = d THEN 0 ELSE w.heard[e]
        BY <1>5, WalkFields
    <1> HIDE DEF c1
    <1> QED BY <1>2, <1>5, <1>6 DEF Frame, SameOutside

LEMMA TellFacts ==
    ASSUME NEW w \in WalkType, NEW d \in Domains
    PROVE  LET told == Tell(w, d)
               v == told.walk
           IN /\ told.waits \in BOOLEAN
              /\ v \in WalkType /\ Frame(v, w, d)
              /\ v.after = w.after /\ v.driver = w.driver
              /\ v.pd[d].requested = w.pd[d].requested
              /\ v.pd[d].toDriver = w.pd[d].toDriver
              /\ v.pd[d].current = w.pd[d].current
              /\ v.charge = w.charge /\ v.first = w.first /\ v.stop = w.stop
              /\ v.status = w.status
              /\ \/ v = w /\ (told.waits \/ w.pd[d].pre.valid)
                 \/ /\ v.before[d] = Before[d] /\ v.heard[d] = 0
                    /\ told.waits <=> Before[d] # 0
    <1> DEFINE told == Tell(w, d)
               v == told.walk
               c == w.pd[d]
               s == c.requested
               p == [state |-> s, ok |-> TRUE, valid |-> TRUE]
               c1 == [c EXCEPT !.pre = p]
               u == [w EXCEPT !.before[d] = Before[d], !.heard[d] = 0, !.pd[d].pre = p]
    <1>1. c \in Context /\ s \in States /\ Before[d] \in Nat
        BY WalkFields, ContextFields, PowerDomainAssumption
    <1>2. /\ c1 \in Context /\ c1.requested = s /\ c1.toDriver = c.toDriver
          /\ c1.current = c.current /\ c1.pre = p
        BY <1>1 DEF Context
    <1>3. CASE told = [walk |-> w, waits |-> FALSE] /\ c.pre.valid
        BY <1>3 DEF Frame, SameOutside
    <1>4. CASE told = [walk |-> w, waits |-> TRUE]
        BY <1>4 DEF Frame, SameOutside
    <1>5. CASE told = [walk |-> u, waits |-> Before[d] # 0]
        <2>1. u = [w EXCEPT !.before = [w.before EXCEPT ![d] = Before[d]],
                            !.heard = [w.heard EXCEPT ![d] = 0],
                            !.pd = [w.pd EXCEPT ![d] = c1]]
            BY WalkFields DEF WalkType
        <2>2. /\ [w.before EXCEPT ![d] = Before[d]] \in [Domains -> Nat]
              /\ [w.pd EXCEPT ![d] = c1] \in [Domains -> Context]
              /\ [w.heard EXCEPT ![d] = 0] \in [Domains -> Nat]
            BY <1>1, <1>2, WalkFields
        <2>3. /\ u \in WalkType /\ u.pd = [w.pd EXCEPT ![d] = c1]
              /\ u.before = [w.before EXCEPT ![d] = Before[d]]
              /\ u.heard = [w.heard EXCEPT ![d] = 0]
              /\ u.driver = w.driver /\ u.after = w.after /\ u.charge = w.charge
              /\ u.first = w.first /\ u.status = w.status /\ u.stop = w.stop
            BY <2>1, <2>2 DEF WalkType
        <2>4. \A e \in Domains : /\ u.pd[e] = IF e = d THEN c1 ELSE w.pd[e]
                                 /\ u.before[e] = IF e = d THEN Before[d] ELSE w.before[e]
                                 /\ u.heard[e] = IF e = d THEN 0 ELSE w.heard[e]
            BY <2>3, WalkFields
        <2>5. v = u /\ told.waits = (Before[d] # 0)
            BY <1>5
        <2> HIDE DEF u, c1
        <2> QED BY <1>2, <2>3, <2>4, <2>5 DEF Frame, SameOutside
    <1>6. \/ told = [walk |-> w, waits |-> FALSE] /\ c.pre.valid
          \/ told = [walk |-> w, waits |-> TRUE]
          \/ told = [walk |-> u, waits |-> Before[d] # 0]
        BY DEF Tell
    <1> HIDE DEF u, c1
    <1> QED BY <1>3, <1>4, <1>5, <1>6

LEMMA RequestFacts ==
    ASSUME NEW w \in WalkType, NEW d \in Domains, NEW s \in States
    PROVE  LET v == Request(w, d, s)
           IN /\ v \in WalkType /\ Frame(v, w, d)
              /\ v.before = w.before /\ v.after = w.after /\ v.driver = w.driver
              /\ v.heard = w.heard /\ v.charge = w.charge /\ v.first = w.first
              /\ v.status = w.status /\ v.stop = w.stop
              /\ v.pd[d].requested = s /\ v.pd[d].toDriver = w.pd[d].toDriver
              /\ v.pd[d].current = w.pd[d].current /\ ~v.pd[d].pre.valid
    <1> DEFINE u == [w EXCEPT !.pd[d].requested = s, !.pd[d].pre.valid = FALSE]
               c == w.pd[d]
               p == [c.pre EXCEPT !.valid = FALSE]
               c1 == [c EXCEPT !.requested = s, !.pre = p]
    <1>1. c \in Context /\ c.pre \in [state: States, ok: BOOLEAN, valid: BOOLEAN]
        BY WalkFields, ContextFields
    <1>2. p \in [state: States, ok: BOOLEAN, valid: BOOLEAN] /\ ~p.valid
        BY <1>1
    <1>3. /\ c1 \in Context /\ c1.requested = s /\ c1.toDriver = c.toDriver
          /\ c1.current = c.current /\ c1.pre = p
        BY <1>1, <1>2 DEF Context
    <1>4. u = [w EXCEPT !.pd = [w.pd EXCEPT ![d] = c1]]
        BY WalkFields, <1>1 DEF WalkType, Context
    <1>5. [w.pd EXCEPT ![d] = c1] \in [Domains -> Context]
        BY <1>3, WalkFields
    <1> HIDE DEF u, c1, p
    <1>6. /\ u \in WalkType /\ u.pd = [w.pd EXCEPT ![d] = c1]
          /\ u.before = w.before /\ u.after = w.after /\ u.driver = w.driver
          /\ u.heard = w.heard /\ u.charge = w.charge /\ u.first = w.first
          /\ u.status = w.status /\ u.stop = w.stop
        BY <1>4, <1>5 DEF WalkType
    <1>7. \A e \in Domains : u.pd[e] = IF e = d THEN c1 ELSE w.pd[e]
        BY <1>6, WalkFields
    <1>8. Request(w, d, s) = Respond(u, d, "overwritten") /\ "overwritten" \in Answers
        BY DEF Request, Answers, u
    <1> DEFINE v == Request(w, d, s)
    <1>9. /\ v \in WalkType
          /\ v.before = u.before /\ v.after = u.after /\ v.driver = u.driver
          /\ v.heard = u.heard /\ v.charge = u.charge /\ v.first = u.first
          /\ v.status = u.status /\ v.stop = u.stop
          /\ \A e \in Domains : /\ v.pd[e].requested = u.pd[e].requested
                               /\ v.pd[e].toDriver = u.pd[e].toDriver
                               /\ v.pd[e].current = u.pd[e].current
                               /\ v.pd[e].pre = u.pd[e].pre
        <2>1. v = Respond(u, d, "overwritten") /\ "overwritten" \in Answers /\ u \in WalkType
            BY <1>6, <1>8
        <2> HIDE DEF v
        <2> QED BY <2>1, RespondFacts
    <1>10. /\ u.pd[d].requested = s /\ u.pd[d].toDriver = c.toDriver
           /\ u.pd[d].current = c.current /\ ~u.pd[d].pre.valid
        BY <1>2, <1>3, <1>7
    <1>11. /\ v.pd[d].requested = s /\ v.pd[d].toDriver = w.pd[d].toDriver
           /\ v.pd[d].current = w.pd[d].current /\ ~v.pd[d].pre.valid
        BY <1>9, <1>10
    <1>12. Frame(v, w, d)
        BY <1>6, <1>7, <1>9 DEF Frame, SameOutside
    <1> QED BY <1>6, <1>9, <1>11, <1>12

LEMMA FrameTrans ==
    ASSUME NEW w, NEW u, NEW v, NEW d, Frame(u, w, d), Frame(v, u, d)
    PROVE  Frame(v, w, d)
    BY DEF Frame, SameOutside

LEMMA SafeFields ==
    ASSUME NEW w, NEW h, NEW R, NEW v, SafeWalk(w, h, R), v \in WalkType,
           v.pd = w.pd, v.before = w.before, v.after = w.after,
           v.heard = w.heard, v.driver = w.driver
    PROVE  SafeWalk(v, h, R) /\ \A d : Frame(v, w, d)
    <1>1. Typed(v)
        BY DEF SafeWalk, Typed, TypedAt
    <1>2. AsAsked(v) /\ Agreed(v)
        BY DEF SafeWalk, AsAsked, Agreed, AgreedAt
    <1>3. Known(v, h, R) /\ PairsSafe(v, h)
        BY DEF SafeWalk, Known, KnownAt, PairsSafe, MayBe
    <1> QED BY <1>1, <1>2, <1>3 DEF SafeWalk, Frame, SameOutside

\* Who waits for a response plays no part.
LEMMA SafeContexts ==
    ASSUME NEW w, NEW h, NEW R, NEW v, SafeWalk(w, h, R), v \in WalkType,
           v.before = w.before, v.after = w.after, v.heard = w.heard,
           v.driver = w.driver,
           \A e \in Domains :
               /\ v.pd[e].requested = w.pd[e].requested
               /\ v.pd[e].toDriver = w.pd[e].toDriver
               /\ v.pd[e].current = w.pd[e].current /\ v.pd[e].pre = w.pd[e].pre
    PROVE  SafeWalk(v, h, R)
    <1>1. Typed(v)
        BY DEF SafeWalk, Typed, TypedAt
    <1>2. AsAsked(v)
        BY TreeFacts DEF SafeWalk, AsAsked
    <1>3. Known(v, h, R)
        BY DEF SafeWalk, Known, KnownAt
    <1>4. PairsSafe(v, h)
        BY DEF SafeWalk, PairsSafe, MayBe
    <1>5. Agreed(v)
        <2> SUFFICES ASSUME NEW e \in Domains, AgreedAt(w, e) PROVE AgreedAt(v, e)
            BY DEF SafeWalk, Agreed
        <2>1. /\ \A c \in Children(e) : c \in Domains
              /\ e # Root => Parent[e] \in Domains
            BY TreeFacts
        <2> QED BY <2>1 DEF AgreedAt, Agreeable, AllowedByParentAndChildren
    <1> QED BY <1>1, <1>2, <1>3, <1>4, <1>5 DEF SafeWalk

\* The loops' own variables play no part.
LEMMA LoopSafe ==
    ASSUME NEW w, NEW h, NEW R, NEW c \in Domains \cup {None}, NEW b \in BOOLEAN,
           NEW a \in Answers, SafeWalk(w, h, R)
    PROVE  \A v \in {[w EXCEPT !.charge = c], [w EXCEPT !.first = b],
                     [w EXCEPT !.status = a], [w EXCEPT !.stop = b],
                     [w EXCEPT !.lost = b]} :
              SafeWalk(v, h, R) /\ \A d : Frame(v, w, d)
    <1> SUFFICES ASSUME NEW v \in {[w EXCEPT !.charge = c], [w EXCEPT !.first = b],
                                   [w EXCEPT !.status = a], [w EXCEPT !.stop = b],
                                   [w EXCEPT !.lost = b]}
                 PROVE  SafeWalk(v, h, R) /\ \A d : Frame(v, w, d)
        OBVIOUS
    <1>1. w \in WalkType
        BY DEF SafeWalk, Typed
    <1>2. /\ v \in WalkType /\ v.pd = w.pd /\ v.before = w.before /\ v.after = w.after
          /\ v.heard = w.heard /\ v.driver = w.driver
        BY <1>1 DEF WalkType
    <1> QED BY <1>2, SafeFields

LEMMA AgreeableFrame ==
    ASSUME NEW w, NEW v, NEW d \in Domains, Frame(v, w, d), Agreeable(w.pd, d),
           v.pd[d].requested = w.pd[d].requested
    PROVE  Agreeable(v.pd, d)
    <1>1. d # Root => Parent[d] \in Domains /\ Parent[d] # d
        BY TreeFacts
    <1>2. \A c \in Children(d) : c \in Domains /\ c # d
        BY TreeFacts
    <1> QED BY <1>1, <1>2 DEF Agreeable, AllowedByParentAndChildren, Frame, SameOutside

LEMMA InitiateSafe ==
    ASSUME NEW w, NEW h, NEW R, NEW d \in Domains, SafeWalk(w, h, R), Agreeable(w.pd, d)
    PROVE  SafeWalk(Initiate(w, d), h, R) /\ Frame(Initiate(w, d), w, d)
    <1> DEFINE v == Initiate(w, d)
    <1>1. w \in WalkType /\ Typed(w) /\ h \in [Domains -> States]
        BY DEF SafeWalk, Typed
    <1>2. /\ v \in WalkType /\ Frame(v, w, d) /\ v.before = w.before /\ v.after = w.after
          /\ v.heard[d] = 0 /\ v.driver[d] = w.pd[d].requested
          /\ v.pd[d].requested = w.pd[d].requested
          /\ v.pd[d].toDriver = w.pd[d].requested
          /\ v.pd[d].current = w.pd[d].current /\ v.pd[d].pre = w.pd[d].pre
        BY <1>1, InitiateFacts
    <1> HIDE DEF v
    <1>3. w.pd[d].requested \in States /\ None \notin States
        BY <1>1, WalkFields, ContextFields, PowerDomainAssumption
    <1>4. Typed(v)
        <2> SUFFICES ASSUME NEW e \in Domains PROVE TypedAt(v, e)
            BY <1>2 DEF Typed
        <2>1. TypedAt(w, e)
            BY <1>1 DEF Typed
        <2>2. CASE e = d
            <3>1. w.heard[d] \in Nat /\ w.before[d] \in Nat /\ Before[d] \in Nat
                BY <1>1, WalkFields, PowerDomainAssumption
            <3>2. v.heard[d] + v.before[d] <= Before[d]
                BY <3>1, <2>1, <2>2, <1>2 DEF TypedAt
            <3> QED BY <3>2, <2>1, <2>2, <1>2 DEF TypedAt
        <2>3. CASE e # d
            BY <2>1, <2>3, <1>2 DEF TypedAt, Frame, SameOutside
        <2> QED BY <2>2, <2>3
    <1>5. Agreeable(v.pd, d)
        BY <1>2, AgreeableFrame
    <1>6. KnownAt(w, h, R, d)
        BY DEF SafeWalk, Known
    <1>7. KnownAt(v, h, R, d)
        BY <1>2, <1>3, <1>6 DEF KnownAt
    <1>8. \A s \in MayBe(v, h, d) : s \in MayBe(w, h, d) \/ s = v.pd[d].requested
        BY <1>2 DEF MayBe
    <1>9. d # Root => v.pd[d].requested \in Allowed[d][w.pd[Parent[d]].requested]
        BY <1>2 DEF SafeWalk, AsAsked
    <1>10. \A c \in Children(d) : w.pd[c].requested \in Allowed[c][v.pd[d].requested]
        <2>1. \A c \in Children(d) : c \in Domains \ {Root} /\ Parent[c] = d
            BY TreeFacts
        <2> QED BY <1>2, <2>1 DEF SafeWalk, AsAsked
    <1>11. Change(w, h, R, v, h, R, d)
        BY <1>2, <1>5, <1>7, <1>8, <1>9, <1>10 DEF Change, Frame, AgreedAt
    <1>12. SafeWalk(v, h, R)
        BY <1>1, <1>4, <1>11, ChangeSafe
    <1> QED BY <1>2, <1>12 DEF v

LEMMA InitiateLaterSafe ==
    ASSUME NEW w, NEW h, NEW R, NEW d \in Domains, NEW fails, SafeWalk(w, h, R),
           Agreeable(w.pd, d)
    PROVE  /\ SafeWalk(InitiateLater(w, d, fails), h, R)
           /\ Frame(InitiateLater(w, d, fails), w, d)
    <1>1. CASE d \in fails
        <2> DEFINE v == [w EXCEPT !.lost = TRUE]
        <2>1. InitiateLater(w, d, fails) = v
            BY <1>1 DEF InitiateLater
        <2>2. "success" \in Answers
            BY DEF Answers
        <2>3. SafeWalk(v, h, R) /\ Frame(v, w, d)
            BY <2>2, LoopSafe
        <2> HIDE DEF v
        <2> QED BY <2>1, <2>3
    <1>2. CASE d \notin fails
        BY <1>2, InitiateSafe DEF InitiateLater
    <1> QED BY <1>1, <1>2

LEMMA TellSafe ==
    ASSUME NEW w, NEW h, NEW R, NEW d \in Domains, SafeWalk(w, h, R), Agreeable(w.pd, d)
    PROVE  /\ SafeWalk(Tell(w, d).walk, h, R) /\ Frame(Tell(w, d).walk, w, d)
           /\ Agreeable(Tell(w, d).walk.pd, d)
    <1> DEFINE told == Tell(w, d)
               v == told.walk
    <1>1. w \in WalkType /\ Typed(w) /\ h \in [Domains -> States]
        BY DEF SafeWalk, Typed
    <1>2. /\ v \in WalkType /\ Frame(v, w, d) /\ v.after = w.after /\ v.driver = w.driver
          /\ v.pd[d].requested = w.pd[d].requested
          /\ v.pd[d].toDriver = w.pd[d].toDriver /\ v.pd[d].current = w.pd[d].current
        BY <1>1, TellFacts
    <1>3. v = w \/ (v.before[d] = Before[d] /\ v.heard[d] = 0)
        BY <1>1, TellFacts
    <1> HIDE DEF v
    <1>4. Typed(v)
        <2> SUFFICES ASSUME NEW e \in Domains PROVE TypedAt(v, e)
            BY <1>2 DEF Typed
        <2>1. TypedAt(w, e)
            BY <1>1 DEF Typed
        <2>2. CASE e = d
            <3>1. Before[d] \in Nat
                BY PowerDomainAssumption
            <3>2. v.heard[d] + v.before[d] <= Before[d]
                BY <3>1, <2>1, <2>2, <1>3 DEF TypedAt
            <3> QED BY <3>2, <2>1, <2>2, <1>2 DEF TypedAt
        <2>3. CASE e # d
            BY <2>1, <2>3, <1>2 DEF TypedAt, Frame, SameOutside
        <2> QED BY <2>2, <2>3
    <1>5. Agreeable(v.pd, d)
        BY <1>2, AgreeableFrame
    <1>6. KnownAt(v, h, R, d)
        BY <1>2 DEF SafeWalk, Known, KnownAt
    <1>8. \A s \in MayBe(v, h, d) : s \in MayBe(w, h, d)
        BY <1>2 DEF MayBe
    <1>9. d # Root => v.pd[d].requested \in Allowed[d][w.pd[Parent[d]].requested]
        BY <1>2 DEF SafeWalk, AsAsked
    <1>10. \A c \in Children(d) : w.pd[c].requested \in Allowed[c][v.pd[d].requested]
        <2>1. \A c \in Children(d) : c \in Domains \ {Root} /\ Parent[c] = d
            BY TreeFacts
        <2> QED BY <1>2, <2>1 DEF SafeWalk, AsAsked
    <1>11. Change(w, h, R, v, h, R, d)
        BY <1>2, <1>5, <1>6, <1>8, <1>9, <1>10 DEF Change, Frame, AgreedAt
    <1>12. SafeWalk(v, h, R)
        BY <1>1, <1>4, <1>11, ChangeSafe
    <1> QED BY <1>2, <1>5, <1>12 DEF v

LEMMA StartSafe ==
    ASSUME NEW w, NEW h, NEW R, NEW d \in Domains, NEW fails, SafeWalk(w, h, R),
           Agreeable(w.pd, d)
    PROVE  SafeWalk(Start(w, d, fails), h, R) /\ Frame(Start(w, d, fails), w, d)
    <1> DEFINE u == Tell(w, d).walk
    <1>1. SafeWalk(u, h, R) /\ Frame(u, w, d) /\ Agreeable(u.pd, d)
        BY TellSafe
    <1>2. Start(w, d, fails) = u \/ Start(w, d, fails) = InitiateLater(u, d, fails)
        BY DEF Start
    <1> HIDE DEF u
    <1>3. /\ SafeWalk(InitiateLater(u, d, fails), h, R)
          /\ Frame(InitiateLater(u, d, fails), u, d)
        BY <1>1, InitiateLaterSafe
    <1> QED BY <1>1, <1>2, <1>3, FrameTrans

\* A domain that is quiet is asked for a state that goes with what is asked of
\* its neighbours.
LEMMA RequestSafe ==
    ASSUME NEW w, NEW h, NEW R, NEW d \in Domains, NEW s \in States,
           SafeWalk(w, h, R), Quiet(w, R, d),
           d # Root => s \in Allowed[d][w.pd[Parent[d]].requested],
           AllowedByChildren(w.pd, d, s)
    PROVE  SafeWalk(Request(w, d, s), h, R) /\ Frame(Request(w, d, s), w, d)
    <1> DEFINE v == Request(w, d, s)
    <1>1. w \in WalkType /\ Typed(w) /\ h \in [Domains -> States]
        BY DEF SafeWalk, Typed
    <1>2. /\ v \in WalkType /\ Frame(v, w, d) /\ v.before = w.before /\ v.after = w.after
          /\ v.driver = w.driver /\ v.heard = w.heard /\ v.pd[d].requested = s
          /\ v.pd[d].current = w.pd[d].current
        BY <1>1, RequestFacts
    <1> HIDE DEF v
    <1>3. Typed(v)
        <2> SUFFICES ASSUME NEW e \in Domains PROVE TypedAt(v, e)
            BY <1>2 DEF Typed
        <2>1. TypedAt(w, e)
            BY <1>1 DEF Typed
        <2>2. CASE e = d
            BY <2>1, <2>2, <1>2 DEF TypedAt, Quiet
        <2>3. CASE e # d
            BY <2>1, <2>3, <1>2 DEF TypedAt, Frame, SameOutside
        <2> QED BY <2>2, <2>3
    <1>4. KnownAt(v, h, R, d)
        BY <1>2 DEF SafeWalk, Known, KnownAt, Quiet
    <1>5. AgreedAt(v, d)
        BY <1>2 DEF AgreedAt, Quiet
    <1>6. \A x \in MayBe(v, h, d) : x \in MayBe(w, h, d)
        BY <1>2 DEF MayBe
    <1>7. Change(w, h, R, v, h, R, d)
        BY <1>2, <1>4, <1>5, <1>6 DEF Change, Frame, AllowedByChildren
    <1>8. SafeWalk(v, h, R)
        BY <1>1, <1>3, <1>7, ChangeSafe
    <1> QED BY <1>2, <1>8 DEF v

\* A driver that refuses leaves the domain as it was asked to be before.
LEMMA RefusedSafe ==
    ASSUME NEW w, NEW h, NEW R, NEW d \in Domains, NEW u,
           SafeWalk(w, h, R), Quiet(w, R, d),
           u \in WalkType, Frame(u, w, d), u.driver = w.driver, u.after = w.after,
           u.pd[d].toDriver = w.pd[d].toDriver, u.pd[d].current = w.pd[d].current,
           u.before[d] = 0, u.heard[d] = 0
    PROVE  LET v == [u EXCEPT !.charge = None, !.pd[d].requested = w.pd[d].requested,
                              !.status = "device"]
           IN SafeWalk(v, h, R) /\ Frame(v, w, d)
    <1> DEFINE old == w.pd[d].requested
               v == [u EXCEPT !.charge = None, !.pd[d].requested = old, !.status = "device"]
               c == u.pd[d]
               c1 == [c EXCEPT !.requested = old]
    <1>1. w \in WalkType /\ Typed(w) /\ h \in [Domains -> States]
        BY DEF SafeWalk, Typed
    <1>2. old \in States /\ c \in Context /\ "device" \in Answers
        BY <1>1, WalkFields, ContextFields DEF Answers
    <1>3. /\ c1 \in Context /\ c1.requested = old /\ c1.toDriver = c.toDriver
          /\ c1.current = c.current /\ c1.pre = c.pre
        BY <1>2 DEF Context
    <1>4. v = [u EXCEPT !.charge = None, !.pd = [u.pd EXCEPT ![d] = c1], !.status = "device"]
        BY WalkFields DEF WalkType
    <1>5. [u.pd EXCEPT ![d] = c1] \in [Domains -> Context]
        BY <1>3, WalkFields
    <1> HIDE DEF v
    <1>6. /\ v \in WalkType /\ v.pd = [u.pd EXCEPT ![d] = c1] /\ v.before = u.before
          /\ v.after = u.after /\ v.heard = u.heard /\ v.driver = u.driver
        BY <1>2, <1>4, <1>5 DEF WalkType
    <1>7. \A e \in Domains : v.pd[e] = IF e = d THEN c1 ELSE u.pd[e]
        BY <1>6, WalkFields
    <1> HIDE DEF c1
    <1>8. /\ Frame(v, w, d)
          /\ v.pd[d].requested = w.pd[d].requested
          /\ v.pd[d].toDriver = w.pd[d].toDriver /\ v.pd[d].current = w.pd[d].current
        BY <1>3, <1>6, <1>7 DEF Frame, SameOutside
    <1>9. /\ v.driver = w.driver /\ v.after = w.after
          /\ v.before[d] = 0 /\ v.heard[d] = 0 /\ v \in WalkType
        BY <1>6
    <1> HIDE <1>4, <1>6, <1>7
    <1>10. Typed(v)
        <2> SUFFICES ASSUME NEW e \in Domains PROVE TypedAt(v, e)
            BY <1>9 DEF Typed
        <2>1. TypedAt(w, e) /\ Before[d] \in Nat
            BY <1>1, PowerDomainAssumption DEF Typed
        <2>2. CASE e = d
            BY <2>1, <2>2, <1>8, <1>9 DEF TypedAt
        <2>3. CASE e # d
            BY <2>1, <2>3, <1>8, <1>9 DEF TypedAt, Frame, SameOutside
        <2> QED BY <2>2, <2>3
    <1>11. KnownAt(v, h, R, d)
        BY <1>8, <1>9 DEF SafeWalk, Known, KnownAt
    <1>12. AgreedAt(v, d)
        BY <1>9 DEF AgreedAt
    <1>13. \A x \in MayBe(v, h, d) : x \in MayBe(w, h, d)
        BY <1>9 DEF MayBe
    <1>14. d # Root => v.pd[d].requested \in Allowed[d][w.pd[Parent[d]].requested]
        BY <1>8 DEF SafeWalk, AsAsked
    <1>15. \A x \in Children(d) : w.pd[x].requested \in Allowed[x][v.pd[d].requested]
        <2>1. \A x \in Children(d) : x \in Domains \ {Root} /\ Parent[x] = d
            BY TreeFacts
        <2> QED BY <1>8, <2>1 DEF SafeWalk, AsAsked
    <1>16. Change(w, h, R, v, h, R, d)
        BY <1>8, <1>11, <1>12, <1>13, <1>14, <1>15 DEF Change, Frame
    <1>17. SafeWalk(v, h, R)
        BY <1>1, <1>10, <1>16, ChangeSafe
    <1> QED BY <1>8, <1>17 DEF v

LEMMA TransitionSafe ==
    ASSUME NEW w, NEW h, NEW R, NEW d \in Domains, NEW s \in States, NEW fails,
           SafeWalk(w, h, R), Quiet(w, R, d),
           SafeWalk(Request(w, d, s), h, R), Agreeable(Request(w, d, s).pd, d)
    PROVE  LET v == Transition(Request(w, d, s), d, w.pd[d].requested, fails)
           IN SafeWalk(v, h, R) /\ Frame(v, w, d)
    <1> DEFINE r == Request(w, d, s)
               a == [r EXCEPT !.charge = d]
               told == Tell(a, d)
               u == told.walk
               old == w.pd[d].requested
               v == Transition(r, d, old, fails)
               x == [u EXCEPT !.charge = None, !.pd[d].requested = old, !.status = "device"]
               y == [Initiate(u, d) EXCEPT !.first = TRUE]
    <1>1. w \in WalkType /\ "success" \in Answers
        BY DEF SafeWalk, Typed, Answers
    <1>2. /\ r \in WalkType /\ Frame(r, w, d)
          /\ r.before = w.before /\ r.after = w.after /\ r.driver = w.driver
          /\ r.pd[d].toDriver = w.pd[d].toDriver
          /\ r.pd[d].current = w.pd[d].current /\ ~r.pd[d].pre.valid
        BY <1>1, RequestFacts
    <1>3. SafeWalk(r, h, R) /\ Agreeable(r.pd, d)
        OBVIOUS
    <1> HIDE DEF r
    <1>4. SafeWalk(a, h, R) /\ Frame(a, r, d)
        BY <1>1, <1>3, LoopSafe
    <1>5. a \in WalkType /\ a.pd = r.pd /\ a.driver = r.driver /\ a.after = r.after
        BY <1>2 DEF WalkType
    <1> HIDE DEF a
    <1>6. SafeWalk(u, h, R) /\ Frame(u, a, d) /\ Agreeable(u.pd, d)
        BY <1>3, <1>4, <1>5, TellSafe
    <1>7. /\ told.waits \in BOOLEAN /\ u \in WalkType
          /\ u.after = a.after /\ u.driver = a.driver
          /\ u.pd[d].toDriver = a.pd[d].toDriver /\ u.pd[d].current = a.pd[d].current
          /\ \/ u = a /\ (told.waits \/ a.pd[d].pre.valid)
             \/ u.before[d] = Before[d] /\ u.heard[d] = 0 /\ (told.waits <=> Before[d] # 0)
        BY <1>5, TellFacts
    <1>8. v = IF told.waits THEN u ELSE IF d \in fails THEN x ELSE y
        BY DEF Transition, a
    <1>9. Frame(u, w, d)
        BY <1>2, <1>4, <1>6, FrameTrans
    <1>10. CASE told.waits
        <2>1. v = u
            BY <1>8, <1>10
        <2> HIDE DEF u, v
        <2>2. SafeWalk(v, h, R) /\ Frame(v, w, d)
            BY <2>1, <1>6, <1>9
        <2> QED BY <2>2 DEF v, r
    <1>11. CASE ~told.waits /\ d \in fails
        <2>1. u.before[d] = 0 /\ u.heard[d] = 0
            BY <1>2, <1>5, <1>7, <1>11
        <2>2. /\ u.driver = w.driver /\ u.after = w.after
              /\ u.pd[d].toDriver = w.pd[d].toDriver /\ u.pd[d].current = w.pd[d].current
            BY <1>2, <1>5, <1>7
        <2>3. v = x
            BY <1>8, <1>11
        <2> HIDE DEF u, v
        <2>4. SafeWalk(x, h, R) /\ Frame(x, w, d)
            BY <1>7, <1>9, <2>1, <2>2, RefusedSafe
        <2> HIDE DEF x
        <2>5. SafeWalk(v, h, R) /\ Frame(v, w, d)
            BY <2>3, <2>4
        <2> QED BY <2>5 DEF v, r
    <1>12. CASE ~told.waits /\ d \notin fails
        <2>1. v = y
            BY <1>8, <1>12
        <2> HIDE DEF u
        <2>2. SafeWalk(Initiate(u, d), h, R) /\ Frame(Initiate(u, d), u, d)
            BY <1>6, InitiateSafe
        <2>3. SafeWalk(y, h, R) /\ Frame(y, Initiate(u, d), d)
            BY <1>1, <2>2, LoopSafe
        <2>4. Frame(y, w, d)
            BY <1>9, <2>2, <2>3, FrameTrans
        <2> HIDE DEF y, v
        <2>5. SafeWalk(v, h, R) /\ Frame(v, w, d)
            BY <2>1, <2>3, <2>4
        <2> QED BY <2>5 DEF v, r
    <1>13. told.waits \/ (~told.waits /\ d \in fails) \/ (~told.waits /\ d \notin fails)
        OBVIOUS
    <1> QED BY <1>10, <1>11, <1>12, <1>13 DEF r

\* A level of a composite request.
LEMMA LevelSafe ==
    ASSUME NEW w, NEW h, NEW R, NEW d \in Domains, NEW s \in States, NEW fails,
           SafeWalk(w, h, R), s = w.pd[d].requested \/ Quiet(w, R, d)
    PROVE  SafeWalk(SetLevel(w, d, s, fails), h, R) /\ Frame(SetLevel(w, d, s, fails), w, d)
    <1> DEFINE v == SetLevel(w, d, s, fails)
               r == Request(w, d, s)
               x == [w EXCEPT !.status = "pwrstate"]
               y == [r EXCEPT !.charge = d]
               z == Transition(r, d, w.pd[d].requested, fails)
    <1>1. w \in WalkType /\ {"success", "pwrstate"} \subseteq Answers
        BY DEF SafeWalk, Typed, Answers
    <1>2. Frame(w, w, d)
        BY DEF Frame, SameOutside
    <1>3. CASE v = w
        BY <1>2, <1>3
    <1>4. CASE v = x
        <2>1. SafeWalk(x, h, R) /\ Frame(x, w, d)
            BY <1>1, LoopSafe
        <2> HIDE DEF x, v
        <2> QED BY <1>4, <2>1 DEF v
    <1>5. CASE /\ s # w.pd[d].requested
               /\ d # Root => s \in Allowed[d][w.pd[Parent[d]].requested]
               /\ AllowedByChildren(w.pd, d, s)
               /\ \/ v = r \/ v = y
                  \/ AllowedByParentAndChildren(r.pd, d, s) /\ v = z
        <2>1. Quiet(w, R, d)
            BY <1>5
        <2>2. SafeWalk(r, h, R) /\ Frame(r, w, d)
            BY <2>1, <1>5, RequestSafe
        <2>3. r.pd[d].requested = s
            BY <1>1, RequestFacts
        <2>4. CASE v = r
            BY <2>2, <2>4
        <2>5. CASE v = y
            <3> HIDE DEF r
            <3>1. SafeWalk(y, h, R) /\ Frame(y, r, d)
                BY <1>1, <2>2, LoopSafe
            <3>2. Frame(y, w, d)
                BY <2>2, <3>1, FrameTrans
            <3> HIDE DEF y, v
            <3> QED BY <2>5, <3>1, <3>2 DEF v
        <2>6. CASE AllowedByParentAndChildren(r.pd, d, s) /\ v = z
            <3>1. Agreeable(r.pd, d)
                BY <2>3, <2>6 DEF Agreeable
            <3>2. SafeWalk(z, h, R) /\ Frame(z, w, d)
                BY <2>1, <2>2, <3>1, TransitionSafe
            <3> HIDE DEF z, v
            <3> QED BY <2>6, <3>2 DEF v
        <2> QED BY <1>5, <2>4, <2>5, <2>6
    <1>6. \/ v = w \/ v = x
          \/ /\ s # w.pd[d].requested
             /\ d # Root => s \in Allowed[d][w.pd[Parent[d]].requested]
             /\ AllowedByChildren(w.pd, d, s)
             /\ \/ v = r \/ v = y
                \/ AllowedByParentAndChildren(r.pd, d, s) /\ v = z
        <2> HIDE DEF r, x, y, z
        <2> QED BY DEF SetLevel, r, x, y, z
    <1> QED BY <1>3, <1>4, <1>5, <1>6

-----------------------------------------------------------------------------
(* The levels of a composite request.                                      *)

LEMMA WalkedFacts ==
    ASSUME NEW w, NEW d, NEW states \in Seq(States)
    PROVE  LET o == Walked(w, d, states)
           IN /\ Len(o) = Len(states) /\ Len(states) \in Nat
              /\ \A i \in 1 .. Len(states) : o[i] \in 1 .. Len(states)
              /\ \A i, j \in 1 .. Len(states) : i # j => o[i] # o[j]
    <1> DEFINE N == Len(states)
               up == [k \in 1 .. N |-> k]
               o == Walked(w, d, states)
    <1>1. N \in Nat /\ DOMAIN states = 1 .. N
        OBVIOUS
    <1>2. o = up \/ o = Reverse(up)
        BY <1>1 DEF Walked
    <1>3. Len(up) = N
        BY <1>1
    <1>4. Reverse(up) = [i \in 1 .. N |-> up[(N - i) + 1]]
        BY <1>3 DEF Reverse
    <1>5. \A i \in 1 .. N : (N - i) + 1 \in 1 .. N
        BY <1>1
    <1>6. \A i \in 1 .. N : up[(N - i) + 1] = (N - i) + 1
        BY <1>5
    <1>7. Reverse(up) = [i \in 1 .. N |-> (N - i) + 1]
        BY <1>4, <1>6
    <1>8. Len(Reverse(up)) = N
        BY <1>7, <1>1
    <1>9. CASE o = up
        BY <1>9, <1>3, <1>1
    <1>10. CASE o = Reverse(up)
        <2>1. \A i \in 1 .. N : o[i] = (N - i) + 1
            BY <1>7, <1>10
        <2>2. Len(o) = N
            BY <1>8, <1>10
        <2> HIDE DEF o
        <2>3. \A i, j \in 1 .. N : i # j => (N - i) + 1 # (N - j) + 1
            BY <1>1
        <2>4. /\ \A i \in 1 .. N : o[i] \in 1 .. N
              /\ \A i, j \in 1 .. N : i # j => o[i] # o[j]
            BY <2>1, <2>3, <1>5
        <2> QED BY <2>2, <2>4, <1>1 DEF o
    <1> QED BY <1>2, <1>9, <1>10

LevelStep(v, d, states, o, n, fails) ==
    SetLevel(v, Path[d][o[n]], states[o[n]], fails)

\* The walk after each number of levels.
IsLevels(f, N, w, d, states, o, fails) ==
    f = [n \in 0 .. N |->
            IF n = 0 THEN w ELSE LevelStep(f[n - 1], d, states, o, n, fails)]

LEMMA LevelsExist ==
    ASSUME NEW w, NEW d, NEW states, NEW o, NEW fails, NEW N \in Nat
    PROVE  \E f : IsLevels(f, N, w, d, states, o, fails)
    <1> DEFINE P(m) == \E f : IsLevels(f, m, w, d, states, o, fails)
               Bad == {m \in 0 .. N : ~P(m)}
    <1>1. P(0)
        <2> DEFINE g == [n \in 0 .. 0 |-> w]
        <2>1. g = [n \in 0 .. 0 |->
                      IF n = 0 THEN w ELSE LevelStep(g[n - 1], d, states, o, n, fails)]
            OBVIOUS
        <2> QED BY <2>1 DEF IsLevels
    <1>2. Bad = {}
        <2> SUFFICES ASSUME Bad # {} PROVE FALSE
            OBVIOUS
        <2>1. Bad \subseteq Nat
            OBVIOUS
        <2>2. PICK m \in Bad : \A x \in Bad : m <= x
            <3> HIDE DEF Bad
            <3> QED BY <2>1, LeastNat
        <2>3. m # 0 /\ m \in 0 .. N
            BY <1>1, <2>2
        <2>4. m - 1 \in 0 .. N /\ ~(m <= m - 1)
            BY <2>3
        <2>5. P(m - 1)
            <3>1. m - 1 \notin Bad
                <4> HIDE DEF Bad
                <4> QED BY <2>2, <2>4
            <3> QED BY <3>1, <2>4
        <2>6. PICK f : IsLevels(f, m - 1, w, d, states, o, fails)
            BY <2>5
        <2> DEFINE g == [n \in 0 .. m |->
                            IF n = m THEN LevelStep(f[m - 1], d, states, o, m, fails)
                            ELSE f[n]]
        <2>7. \A n \in 0 .. m - 1 :
                 f[n] = IF n = 0 THEN w ELSE LevelStep(f[n - 1], d, states, o, n, fails)
            BY <2>6 DEF IsLevels
        <2>8. \A n \in 0 .. m :
                 g[n] = IF n = 0 THEN w ELSE LevelStep(g[n - 1], d, states, o, n, fails)
            <3> SUFFICES ASSUME NEW n \in 0 .. m
                         PROVE  g[n] = IF n = 0 THEN w
                                       ELSE LevelStep(g[n - 1], d, states, o, n, fails)
                OBVIOUS
            <3>1. CASE n = m
                <4>1. n - 1 \in 0 .. m /\ n - 1 # m /\ n # 0
                    BY <3>1, <2>3
                <4>2. g[n - 1] = f[n - 1]
                    BY <4>1
                <4>3. g[n] = LevelStep(f[m - 1], d, states, o, m, fails)
                    BY <3>1
                <4> HIDE DEF g
                <4> QED BY <4>1, <4>2, <4>3, <3>1
            <3>2. CASE n # m
                <4>1. n \in 0 .. m - 1 /\ g[n] = f[n]
                    BY <3>2, <2>3
                <4>2. n # 0 => n - 1 \in 0 .. m /\ n - 1 # m
                    BY <3>2, <2>3
                <4>3. n # 0 => g[n - 1] = f[n - 1]
                    BY <4>2
                <4> HIDE DEF g
                <4> QED BY <4>1, <4>3, <2>7
            <3> QED BY <3>1, <3>2
        <2>9. g = [n \in 0 .. m |-> g[n]]
            OBVIOUS
        <2>10. IsLevels(g, m, w, d, states, o, fails)
            <3> HIDE DEF g
            <3> QED BY <2>8, <2>9 DEF IsLevels
        <2>11. P(m)
            BY <2>10
        <2> HIDE DEF P
        <2> QED BY <2>11, <2>2
    <1>3. N \in 0 .. N
        OBVIOUS
    <1> HIDE DEF P
    <1>4. P(N)
        BY <1>2, <1>3
    <1> QED BY <1>4 DEF P

\* f leads from walk w to v through the levels in the order o.
Leads(f, w, v, o, d, states, fails) ==
    /\ v = f[Len(o)] /\ f[0] = w
    /\ \A n \in 1 .. Len(o) :
          f[n] = SetLevel(f[n - 1], Path[d][o[n]], states[o[n]], fails)

LEMMA LevelsWalk ==
    ASSUME NEW w, NEW d, NEW states \in Seq(States), NEW fails
    PROVE  \E f : Leads(f, w, SetLevels(w, d, states, fails), Walked(w, d, states),
                       d, states, fails)
    <1> DEFINE o == Walked(w, d, states)
               N == Len(o)
               Is(f) == IsLevels(f, N, w, d, states, o, fails)
               level == CHOOSE f : Is(f)
    <1>1. N \in Nat
        BY WalkedFacts
    <1>2. SetLevels(w, d, states, fails) = level[N]
        BY DEF SetLevels, IsLevels, LevelStep
    <1>3. \E f : Is(f)
        <2> HIDE DEF o, N
        <2> QED BY <1>1, LevelsExist
    <1> HIDE DEF o
    <1>4. Is(level)
        <2> HIDE DEF Is
        <2> QED BY <1>3
    <1> HIDE DEF level, N
    <1>5. level[0] = w
        BY <1>1, <1>4 DEF IsLevels
    <1>6. \A n \in 1 .. N :
             level[n] = SetLevel(level[n - 1], Path[d][o[n]], states[o[n]], fails)
        <2> SUFFICES ASSUME NEW n \in 1 .. N
                     PROVE  level[n] = SetLevel(level[n - 1], Path[d][o[n]], states[o[n]], fails)
            OBVIOUS
        <2>1. n \in 0 .. N /\ n # 0
            BY <1>1
        <2> QED BY <2>1, <1>4 DEF IsLevels, LevelStep
    <1>7. Leads(level, w, SetLevels(w, d, states, fails), o, d, states, fails)
        BY <1>2, <1>5, <1>6 DEF Leads, N
    <1> QED BY <1>7 DEF o

\* Domains that are quiet, or already asked for the state, are asked for states.
LEMMA LevelsSafe ==
    ASSUME NEW w, NEW h, NEW R, NEW d \in Domains, NEW states \in Seq(States), NEW fails,
           SafeWalk(w, h, R), Len(states) <= Len(Path[d]),
           \A k \in 1 .. Len(states) :
               states[k] = w.pd[Path[d][k]].requested \/ Quiet(w, R, Path[d][k])
    PROVE  LET v == SetLevels(w, d, states, fails)
           IN /\ SafeWalk(v, h, R)
              /\ SameOutside(v, w, {Path[d][k] : k \in 1 .. Len(states)})
    <1> DEFINE o == Walked(w, d, states)
               N == Len(states)
               at(k) == Path[d][k]
               All == {at(k) : k \in 1 .. N}
               v == SetLevels(w, d, states, fails)
    <1>1. /\ Len(o) = N /\ N \in Nat
          /\ \A i \in 1 .. N : o[i] \in 1 .. N
          /\ \A i, j \in 1 .. N : i # j => o[i] # o[j]
        BY WalkedFacts
    <1>0. PICK f : Leads(f, w, v, o, d, states, fails)
        BY LevelsWalk
    <1> HIDE DEF o, v
    <1>2. /\ v = f[N] /\ f[0] = w
          /\ \A n \in 1 .. N : f[n] = SetLevel(f[n - 1], at(o[n]), states[o[n]], fails)
        BY <1>0, <1>1 DEF Leads, at
    <1>3. /\ \A k \in 1 .. N : at(k) \in Domains /\ states[k] \in States
          /\ \A i, j \in 1 .. N : i # j => at(i) # at(j)
        <2>1. /\ Path[d] \in Seq(Domains) /\ Len(Path[d]) \in Nat
              /\ \A i, j \in 1 .. Len(Path[d]) : i < j => Path[d][i] < Path[d][j]
            BY PathFacts
        <2>2. \A k \in 1 .. N : k \in 1 .. Len(Path[d]) /\ k \in Nat
            BY <2>1, <1>1
        <2>3. \A k \in 1 .. N : at(k) \in Domains /\ at(k) \in Nat /\ states[k] \in States
            <3> SUFFICES ASSUME NEW k \in 1 .. N
                         PROVE  at(k) \in Domains /\ at(k) \in Nat /\ states[k] \in States
                OBVIOUS
            <3>1. Path[d][k] \in Domains
                BY <2>1, <2>2
            <3>2. states[k] \in States
                OBVIOUS
            <3> QED BY <3>1, <3>2, TreeFacts
        <2>4. ASSUME NEW i \in 1 .. N, NEW j \in 1 .. N, i # j PROVE at(i) # at(j)
            <3>1. at(i) \in Nat /\ at(j) \in Nat /\ i \in Nat /\ j \in Nat
                BY <2>2, <2>3
            <3>2. i < j \/ j < i
                BY <2>4, <3>1
            <3>3. at(i) < at(j) \/ at(j) < at(i)
                BY <3>2, <2>1, <2>2
            <3> QED BY <3>1, <3>3
        <2> QED BY <2>3, <2>4
    <1> HIDE DEF at
    <1> DEFINE Did(n) == {at(o[i]) : i \in 1 .. n}
               P(n) == SafeWalk(f[n], h, R) /\ SameOutside(f[n], w, Did(n))
               Bad == {n \in 0 .. N : ~P(n)}
    <1>4. P(0)
        BY <1>2 DEF SameOutside
    <1>5. ASSUME NEW n \in 1 .. N, P(n - 1) PROVE P(n)
        <2> DEFINE u == f[n - 1]
                   e == at(o[n])
                   s == states[o[n]]
        <2>1. f[n] = SetLevel(u, e, s, fails)
            BY <1>2
        <2>2. n \in 1 .. N /\ o[n] \in 1 .. N /\ e \in Domains /\ s \in States
            BY <1>1, <1>3
        <2>3. e \notin Did(n - 1)
            <3> SUFFICES ASSUME NEW i \in 1 .. n - 1 PROVE at(o[i]) # at(o[n])
                OBVIOUS
            <3>1. i \in 1 .. N /\ i # n
                BY <1>1
            <3>2. o[i] \in 1 .. N /\ o[n] \in 1 .. N /\ o[i] # o[n]
                BY <3>1, <1>1
            <3> QED BY <3>2, <1>3
        <2>4. SafeWalk(u, h, R) /\ SameOutside(u, w, Did(n - 1))
            BY <1>5
        <2>5. s = w.pd[e].requested \/ Quiet(w, R, e)
            BY <2>2 DEF at
        <2> HIDE DEF u, e, s, Did
        <2>6. s = u.pd[e].requested \/ Quiet(u, R, e)
            BY <2>2, <2>3, <2>4, <2>5 DEF SameOutside, Quiet
        <2>7. SafeWalk(f[n], h, R) /\ Frame(f[n], u, e)
            BY <2>1, <2>2, <2>4, <2>6, LevelSafe
        <2>8. Did(n - 1) \cup {e} \subseteq Did(n)
            <3>1. n \in 1 .. n /\ \A i \in 1 .. n - 1 : i \in 1 .. n
                BY <1>1
            <3> QED BY <3>1 DEF Did, e
        <2>9. SameOutside(f[n], w, Did(n))
            BY <2>4, <2>7, <2>8 DEF Frame, SameOutside
        <2> QED BY <2>7, <2>9
    <1> HIDE DEF P
    <1>6. Bad = {}
        <2> SUFFICES ASSUME Bad # {} PROVE FALSE
            OBVIOUS
        <2>1. Bad \subseteq Nat
            BY <1>1
        <2>2. PICK m \in Bad : \A x \in Bad : m <= x
            <3> HIDE DEF Bad
            <3> QED BY <2>1, LeastNat
        <2>3. m \in 1 .. N
            BY <1>4, <2>2, <1>1
        <2>4. m - 1 \in 0 .. N /\ ~(m <= m - 1)
            BY <2>3, <1>1
        <2>5. m - 1 \notin Bad
            <3> HIDE DEF Bad
            <3> QED BY <2>2, <2>4
        <2>6. P(m - 1)
            BY <2>4, <2>5
        <2> QED BY <2>2, <2>3, <2>6, <1>5
    <1>7. N \in 0 .. N
        BY <1>1
    <1>8. P(N)
        BY <1>6, <1>7
    <1>9. Did(N) \subseteq All
        BY <1>1
    <1>10. SafeWalk(v, h, R) /\ SameOutside(v, w, All)
        BY <1>2, <1>8, <1>9 DEF P, SameOutside
    <1> QED BY <1>10 DEF v, at

LEMMA SetStatesSafe ==
    ASSUME NEW w, NEW h, NEW R, NEW d \in Domains, NEW states \in Seq(States), NEW fails,
           NEW id \in Ids \cup {None},
           SafeWalk(w, h, R), Len(states) <= Len(Path[d]),
           \A k \in 1 .. Len(states) :
               states[k] = w.pd[Path[d][k]].requested \/ Quiet(w, R, Path[d][k])
    PROVE  LET v == SetStates(w, d, states, id, fails)
           IN /\ SafeWalk(v, h, R)
              /\ SameOutside(v, w, {Path[d][k] : k \in 1 .. Len(states)})
    <1> DEFINE v == SetStates(w, d, states, id, fails)
               u == SetLevels(w, d, states, fails)
               D == {Path[d][k] : k \in 1 .. Len(states)}
               x == [u EXCEPT !.pd[u.charge].response = id]
               y == [u EXCEPT !.answer[id] = u.status]
    <1>1. SafeWalk(u, h, R) /\ SameOutside(u, w, D)
        BY LevelsSafe
    <1>2. u \in WalkType
        BY <1>1 DEF SafeWalk, Typed
    <1>3. \/ v = u \/ (id # None /\ u.charge # None /\ v = x)
          \/ (id # None /\ v = y)
        BY DEF SetStates
    <1> HIDE DEF u, v
    <1>4. CASE v = u
        BY <1>1, <1>4 DEF v
    <1>5. CASE id # None /\ u.charge # None /\ v = x
        <2> DEFINE c == u.pd[u.charge]
                   c1 == [c EXCEPT !.response = id]
        <2>1. u.charge \in Domains /\ c \in Context
            BY <1>2, <1>5, WalkFields
        <2>2. /\ c1 \in Context /\ c1.requested = c.requested /\ c1.toDriver = c.toDriver
              /\ c1.current = c.current /\ c1.pre = c.pre
            BY <2>1 DEF Context
        <2>3. v = [u EXCEPT !.pd = [u.pd EXCEPT ![u.charge] = c1]]
            BY <1>2, <1>5 DEF WalkType
        <2>4. [u.pd EXCEPT ![u.charge] = c1] \in [Domains -> Context]
            BY <1>2, <2>2, WalkFields
        <2>5. /\ v \in WalkType /\ v.pd = [u.pd EXCEPT ![u.charge] = c1]
              /\ v.before = u.before /\ v.after = u.after /\ v.heard = u.heard
              /\ v.driver = u.driver
            BY <1>2, <2>3, <2>4 DEF WalkType
        <2>6. \A e \in Domains : v.pd[e] = IF e = u.charge THEN c1 ELSE u.pd[e]
            BY <1>2, <2>5, WalkFields
        <2> HIDE DEF c1
        <2>7. \A e \in Domains :
                 /\ v.pd[e].requested = u.pd[e].requested
                 /\ v.pd[e].toDriver = u.pd[e].toDriver
                 /\ v.pd[e].current = u.pd[e].current /\ v.pd[e].pre = u.pd[e].pre
            BY <2>2, <2>6
        <2>8. SafeWalk(v, h, R)
            BY <1>1, <2>5, <2>7, SafeContexts
        <2>9. SameOutside(v, w, D)
            BY <1>1, <2>5, <2>7 DEF SameOutside
        <2> QED BY <2>8, <2>9 DEF v
    <1>6. CASE id # None /\ v = y
        <2>1. [u.answer EXCEPT ![id] = u.status] \in [Ids -> Answers \cup {None}]
            BY <1>2, <1>6, WalkFields
        <2>2. v = [u EXCEPT !.answer = [u.answer EXCEPT ![id] = u.status]]
            BY <1>6, <1>2 DEF WalkType
        <2>3. /\ v \in WalkType /\ v.pd = u.pd /\ v.before = u.before
              /\ v.after = u.after /\ v.heard = u.heard /\ v.driver = u.driver
            BY <1>2, <2>1, <2>2 DEF WalkType
        <2>4. SafeWalk(v, h, R) /\ \A e : Frame(v, u, e)
            BY <1>1, <2>3, SafeFields
        <2>5. SameOutside(v, w, D)
            BY <1>1, <2>3 DEF SameOutside
        <2> QED BY <2>4, <2>5 DEF v
    <1> QED BY <1>3, <1>4, <1>5, <1>6

-----------------------------------------------------------------------------
(* The walks that start transitions that had to wait.                      *)

\* A walk that asks nothing new: what is quiet remains so, and a driver that is
\* at work remains at work.
Keeps(v, w, R) ==
    \A e \in Domains :
        /\ v.pd[e].requested = w.pd[e].requested
        /\ w.driver[e] # None => v.driver[e] # None
        /\ Quiet(w, R, e) => Quiet(v, R, e)

LEMMA FrameKeeps ==
    ASSUME NEW v, NEW u, NEW w, NEW R, NEW d \in Domains, Keeps(u, w, R),
           Frame(v, u, d), ~Quiet(w, R, d),
           v.pd[d].requested = u.pd[d].requested,
           u.driver[d] # None => v.driver[d] # None
    PROVE  Keeps(v, w, R)
    <1> SUFFICES ASSUME NEW e \in Domains
                 PROVE  /\ v.pd[e].requested = w.pd[e].requested
                        /\ w.driver[e] # None => v.driver[e] # None
                        /\ Quiet(w, R, e) => Quiet(v, R, e)
        BY DEF Keeps
    <1>1. CASE e = d
        BY <1>1 DEF Keeps
    <1>2. CASE e # d
        BY <1>2 DEF Frame, SameOutside, Quiet, Keeps
    <1> QED BY <1>1, <1>2

LEMMA InitiateLaterFacts ==
    ASSUME NEW w \in WalkType, NEW d \in Domains, NEW fails
    PROVE  LET v == InitiateLater(w, d, fails)
           IN /\ v.pd[d].requested = w.pd[d].requested
              /\ w.driver[d] # None => v.driver[d] # None
    <1> DEFINE v == InitiateLater(w, d, fails)
               u == [w EXCEPT !.lost = TRUE]
    <1>1. CASE d \in fails
        <2>1. u.pd = w.pd /\ u.driver = w.driver
            BY DEF WalkType
        <2>2. v = u
            BY <1>1 DEF InitiateLater
        <2> HIDE DEF v, u
        <2>3. v.pd[d].requested = w.pd[d].requested /\ (w.driver[d] # None => v.driver[d] # None)
            BY <2>1, <2>2
        <2> QED BY <2>3 DEF v
    <1>2. CASE d \notin fails
        <2> DEFINE i == Initiate(w, d)
        <2>1. i.driver[d] = w.pd[d].requested /\ i.pd[d].requested = w.pd[d].requested
            BY InitiateFacts
        <2>2. w.pd[d].requested \in States /\ None \notin States
            BY WalkFields, ContextFields, PowerDomainAssumption
        <2>3. v = i
            BY <1>2 DEF InitiateLater
        <2> HIDE DEF v, i
        <2>4. v.pd[d].requested = w.pd[d].requested /\ (w.driver[d] # None => v.driver[d] # None)
            BY <2>1, <2>2, <2>3
        <2> QED BY <2>4 DEF v
    <1> QED BY <1>1, <1>2

LEMMA StartKeeps ==
    ASSUME NEW u, NEW w, NEW h, NEW R, NEW d \in Domains, NEW fails,
           SafeWalk(u, h, R), Keeps(u, w, R), Agreeable(u.pd, d), ~Quiet(w, R, d)
    PROVE  SafeWalk(Start(u, d, fails), h, R) /\ Keeps(Start(u, d, fails), w, R)
    <1> DEFINE v == Start(u, d, fails)
               t == Tell(u, d).walk
               x == InitiateLater(t, d, fails)
    <1>1. SafeWalk(v, h, R) /\ Frame(v, u, d)
        BY StartSafe
    <1>2. u \in WalkType
        BY DEF SafeWalk, Typed
    <1>3. t \in WalkType /\ t.pd[d].requested = u.pd[d].requested /\ t.driver = u.driver
        BY <1>2, TellFacts
    <1>4. v = t \/ v = x
        BY DEF Start
    <1> HIDE DEF v, t
    <1>5. x.pd[d].requested = t.pd[d].requested /\ (t.driver[d] # None => x.driver[d] # None)
        BY <1>3, InitiateLaterFacts
    <1> HIDE DEF x
    <1>6. v.pd[d].requested = u.pd[d].requested /\ (u.driver[d] # None => v.driver[d] # None)
        BY <1>3, <1>4, <1>5
    <1>7. Keeps(v, w, R)
        BY <1>1, <1>6, FrameKeeps
    <1> QED BY <1>1, <1>7 DEF v

LEMMA StartParentSafe ==
    ASSUME NEW w, NEW h, NEW R, NEW d \in Domains, NEW fails, SafeWalk(w, h, R)
    PROVE  LET v == StartParent(w, d, fails) IN SafeWalk(v, h, R) /\ Keeps(v, w, R)
    <1> DEFINE v == StartParent(w, d, fails)
               p == Parent[d]
    <1>1. CASE v = w
        BY <1>1 DEF Keeps
    <1>2. CASE /\ d # Root /\ w.pd[p].toDriver # w.pd[p].requested
               /\ Agreeable(w.pd, p) /\ v = Start(w, p, fails)
        <2>1. p \in Domains
            BY <1>2, TreeFacts
        <2>2. ~Quiet(w, R, p)
            BY <1>2 DEF Quiet
        <2> HIDE DEF v, p
        <2>3. Keeps(w, w, R)
            BY DEF Keeps
        <2>4. SafeWalk(v, h, R) /\ Keeps(v, w, R)
            BY <1>2, <2>1, <2>2, <2>3, StartKeeps
        <2> QED BY <2>4 DEF v
    <1> QED BY <1>1, <1>2 DEF StartParent, Agreeable

\* What the loop over the children makes of the walk.
ChildStep(v, waiting, n, fails) ==
    IF n - 1 \in waiting THEN StartChild(v, n - 1, fails) ELSE v

IsBelow(f, N, w, waiting, fails) ==
    f = [n \in 0 .. N |-> IF n = 0 THEN w ELSE ChildStep(f[n - 1], waiting, n, fails)]

LEMMA BelowExist ==
    ASSUME NEW w, NEW waiting, NEW fails, NEW N \in Nat
    PROVE  \E f : IsBelow(f, N, w, waiting, fails)
    <1> DEFINE P(m) == \E f : IsBelow(f, m, w, waiting, fails)
               Bad == {m \in 0 .. N : ~P(m)}
    <1>1. P(0)
        <2> DEFINE g == [n \in 0 .. 0 |-> w]
        <2>1. g = [n \in 0 .. 0 |-> IF n = 0 THEN w ELSE ChildStep(g[n - 1], waiting, n, fails)]
            OBVIOUS
        <2> QED BY <2>1 DEF IsBelow
    <1>2. Bad = {}
        <2> SUFFICES ASSUME Bad # {} PROVE FALSE
            OBVIOUS
        <2>1. Bad \subseteq Nat
            OBVIOUS
        <2>2. PICK m \in Bad : \A x \in Bad : m <= x
            <3> HIDE DEF Bad
            <3> QED BY <2>1, LeastNat
        <2>3. m # 0 /\ m \in 0 .. N
            BY <1>1, <2>2
        <2>4. m - 1 \in 0 .. N /\ ~(m <= m - 1)
            BY <2>3
        <2>5. P(m - 1)
            <3>1. m - 1 \notin Bad
                <4> HIDE DEF Bad
                <4> QED BY <2>2, <2>4
            <3> QED BY <3>1, <2>4
        <2>6. PICK f : IsBelow(f, m - 1, w, waiting, fails)
            BY <2>5
        <2> DEFINE g == [n \in 0 .. m |->
                            IF n = m THEN ChildStep(f[m - 1], waiting, m, fails) ELSE f[n]]
        <2>7. \A n \in 0 .. m - 1 :
                 f[n] = IF n = 0 THEN w ELSE ChildStep(f[n - 1], waiting, n, fails)
            BY <2>6 DEF IsBelow
        <2>8. \A n \in 0 .. m :
                 g[n] = IF n = 0 THEN w ELSE ChildStep(g[n - 1], waiting, n, fails)
            <3> SUFFICES ASSUME NEW n \in 0 .. m
                         PROVE  g[n] = IF n = 0 THEN w ELSE ChildStep(g[n - 1], waiting, n, fails)
                OBVIOUS
            <3>1. CASE n = m
                <4>1. n - 1 \in 0 .. m /\ n - 1 # m /\ n # 0
                    BY <3>1, <2>3
                <4>2. g[n - 1] = f[n - 1]
                    BY <4>1
                <4>3. g[n] = ChildStep(f[m - 1], waiting, m, fails)
                    BY <3>1
                <4> HIDE DEF g
                <4> QED BY <4>1, <4>2, <4>3, <3>1
            <3>2. CASE n # m
                <4>1. n \in 0 .. m - 1 /\ g[n] = f[n]
                    BY <3>2, <2>3
                <4>2. n # 0 => n - 1 \in 0 .. m /\ n - 1 # m
                    BY <3>2, <2>3
                <4>3. n # 0 => g[n - 1] = f[n - 1]
                    BY <4>2
                <4> HIDE DEF g
                <4> QED BY <4>1, <4>3, <2>7
            <3> QED BY <3>1, <3>2
        <2>9. g = [n \in 0 .. m |-> g[n]]
            OBVIOUS
        <2>10. IsBelow(g, m, w, waiting, fails)
            <3> HIDE DEF g
            <3> QED BY <2>8, <2>9 DEF IsBelow
        <2>11. P(m)
            BY <2>10
        <2> HIDE DEF P
        <2> QED BY <2>11, <2>2
    <1>3. N \in 0 .. N
        OBVIOUS
    <1> HIDE DEF P
    <1>4. P(N)
        BY <1>2, <1>3
    <1> QED BY <1>4 DEF P

LEMMA StartChildSafe ==
    ASSUME NEW w, NEW u, NEW h, NEW R, NEW c \in Domains, NEW fails,
           SafeWalk(u, h, R), Keeps(u, w, R), ~Quiet(w, R, c)
    PROVE  LET v == StartChild(u, c, fails) IN SafeWalk(v, h, R) /\ Keeps(v, w, R)
    <1> DEFINE v == StartChild(u, c, fails)
               s == [u EXCEPT !.stop = TRUE]
               x == Start(u, c, fails)
    <1>1. v = s \/ (Agreeable(u.pd, c) /\ v = x)
        BY DEF StartChild, Agreeable
    <1>2. "success" \in Answers
        BY DEF Answers
    <1>3. SafeWalk(s, h, R) /\ \A e : Frame(s, u, e)
        BY <1>2, LoopSafe
    <1>4. s.pd = u.pd /\ s.driver = u.driver /\ s.before = u.before
        BY DEF SafeWalk, Typed, WalkType
    <1> HIDE DEF s, v
    <1>5. CASE v = s
        <2>1. Keeps(v, w, R)
            BY <1>4, <1>5 DEF Keeps, Quiet
        <2> QED BY <2>1, <1>3, <1>5 DEF v
    <1>6. CASE Agreeable(u.pd, c) /\ v = x
        <2>1. SafeWalk(x, h, R) /\ Keeps(x, w, R)
            BY <1>6, StartKeeps
        <2> HIDE DEF x
        <2> QED BY <2>1, <1>6 DEF v
    <1> QED BY <1>1, <1>5, <1>6

LEMMA StartChildrenSafe ==
    ASSUME NEW w, NEW h, NEW R, NEW d \in Domains, NEW fails, SafeWalk(w, h, R)
    PROVE  LET v == StartChildren(w, d, fails) IN SafeWalk(v, h, R) /\ Keeps(v, w, R)
    <1> DEFINE waiting == {c \in Children(d) : w.pd[c].toDriver # w.pd[c].requested}
               N == Max(Domains) + 1
               Is(f) == IsBelow(f, N, w, waiting, fails)
               below == CHOOSE f : Is(f)
               v == StartChildren(w, d, fails)
    <1>1. N \in Nat
        <2>1. Domains # {} /\ Domains \subseteq Nat /\ IsFiniteSet(Domains)
            BY TreeFacts
        <2>2. Max(Domains) \in Nat
            BY <2>1, FiniteMax
        <2> QED BY <2>2
    <1>2. v = below[N]
        BY DEF StartChildren, IsBelow, ChildStep
    <1>3. \A c \in waiting : c \in Domains /\ ~Quiet(w, R, c)
        BY TreeFacts DEF Quiet
    <1> HIDE DEF waiting, N, v
    <1>4. \E f : Is(f)
        BY <1>1, BelowExist
    <1>5. Is(below)
        <2> HIDE DEF Is
        <2> QED BY <1>4
    <1> HIDE DEF below
    <1>6. below[0] = w
        BY <1>1, <1>5 DEF IsBelow
    <1>7. \A n \in 1 .. N : below[n] = ChildStep(below[n - 1], waiting, n, fails)
        <2> SUFFICES ASSUME NEW n \in 1 .. N
                     PROVE  below[n] = ChildStep(below[n - 1], waiting, n, fails)
            OBVIOUS
        <2>1. n \in 0 .. N /\ n # 0
            BY <1>1
        <2> QED BY <2>1, <1>5 DEF IsBelow
    <1> HIDE DEF Is
    <1> DEFINE P(n) == SafeWalk(below[n], h, R) /\ Keeps(below[n], w, R)
               Bad == {n \in 0 .. N : ~P(n)}
    <1>8. P(0)
        BY <1>6 DEF Keeps
    <1>9. ASSUME NEW n \in 1 .. N, P(n - 1) PROVE P(n)
        <2> DEFINE u == below[n - 1]
                   x == below[n]
                   c == n - 1
        <2>1. x = ChildStep(u, waiting, n, fails)
            BY <1>7
        <2>2. SafeWalk(u, h, R) /\ Keeps(u, w, R)
            BY <1>9
        <2> HIDE DEF u, x
        <2>3. CASE c \in waiting
            <3>1. x = StartChild(u, c, fails)
                BY <2>1, <2>3 DEF ChildStep
            <3>2. c \in Domains /\ ~Quiet(w, R, c)
                BY <2>3, <1>3
            <3> HIDE DEF c
            <3>3. SafeWalk(x, h, R) /\ Keeps(x, w, R)
                BY <2>2, <3>1, <3>2, StartChildSafe
            <3> QED BY <3>3 DEF x
        <2>4. CASE c \notin waiting
            <3>1. x = u
                BY <2>1, <2>4 DEF ChildStep
            <3> QED BY <3>1, <2>2 DEF x
        <2> QED BY <2>3, <2>4
    <1> HIDE DEF P
    <1>10. Bad = {}
        <2> SUFFICES ASSUME Bad # {} PROVE FALSE
            OBVIOUS
        <2>1. Bad \subseteq Nat
            BY <1>1
        <2>2. PICK m \in Bad : \A x \in Bad : m <= x
            <3> HIDE DEF Bad
            <3> QED BY <2>1, LeastNat
        <2>3. m \in 1 .. N
            BY <1>8, <2>2, <1>1
        <2>4. m - 1 \in 0 .. N /\ ~(m <= m - 1)
            BY <2>3, <1>1
        <2>5. m - 1 \notin Bad
            <3> HIDE DEF Bad
            <3> QED BY <2>2, <2>4
        <2>6. P(m - 1)
            BY <2>4, <2>5
        <2> QED BY <2>2, <2>3, <2>6, <1>9
    <1>11. N \in 0 .. N
        BY <1>1
    <1>12. P(N)
        BY <1>10, <1>11
    <1> QED BY <1>2, <1>12 DEF P, v

LEMMA PropagateSafe ==
    ASSUME NEW w, NEW h, NEW R, NEW d \in Domains, NEW new, NEW previous, NEW fails,
           SafeWalk(w, h, R)
    PROVE  LET v == Propagate(w, d, new, previous, fails)
           IN SafeWalk(v, h, R) /\ Keeps(v, w, R)
    <1> DEFINE v == Propagate(w, d, new, previous, fails)
               up == StartParent(w, d, fails)
               down == StartChildren(w, d, fails)
    <1>1. SafeWalk(up, h, R) /\ Keeps(up, w, R)
        BY StartParentSafe
    <1>2. SafeWalk(down, h, R) /\ Keeps(down, w, R)
        BY StartChildrenSafe
    <1>3. Keeps(w, w, R)
        BY DEF Keeps
    <1>4. v \in {up, down, w}
        BY DEF Propagate
    <1> HIDE DEF up, down, v
    <1> QED BY <1>1, <1>2, <1>3, <1>4 DEF v

-----------------------------------------------------------------------------
(* The module's events.                                                    *)

Calls(q, kind) == {i \in DOMAIN q : q[i].kind = kind}

\* The levels of the requests that wait are quiet, and each waits in one only.
RequestsQuiet(w, q) ==
    /\ \A i \in Calls(q, "set") :
           /\ Valid(q[i].request[1], q[i].request[2])
           /\ \A d \in Levels(q[i].request) : Quiet(w, Reporting(q), d)
    /\ \A i, j \in Calls(q, "set") :
           i # j => Levels(q[i].request) \cap Levels(q[j].request) = {}

\* A suspension waits alone, and then all domains are quiet but the last core.
SuspendQuiet(w, q, s) ==
    /\ \A i \in Calls(q, "suspend") :
           /\ Len(q) = 1 /\ ~s.ongoing
           /\ \A d \in Domains : Quiet(w, Reporting(q), d)
    /\ s.ongoing =>
           /\ s.core \in Cores /\ w.pd[s.core].requested = "OFF"
           /\ w.driver[s.core] # None \/ s.core \in Reporting(q)
           /\ \A d \in Domains \ {s.core} : Quiet(w, Reporting(q), d)
           /\ Calls(q, "set") = {}

PdInv ==
    /\ SafeWalk(Walk, hw, Reporting(queue))
    /\ queue \in Seq(Events) /\ asks \in 0 .. MaxAsks
    /\ suspend \in [ongoing: BOOLEAN, core: Cores \cup {None}, state: States]
    /\ RequestsQuiet(Walk, queue)
    /\ SuspendQuiet(Walk, queue, suspend)

LEMMA EventFacts ==
    ASSUME NEW e \in Events
    PROVE  /\ e.kind \in {"set", "report", "suspend"}
           /\ e.kind = "set" => e.request \in Requests /\ e.id \in Ids
           /\ e.kind = "report" => e.domain \in Domains /\ e.state \in States
           /\ e.kind = "suspend" => e.state \in States
    BY DEF Events

LEMMA QueueTail ==
    ASSUME NEW q \in Seq(Events), q # <<>>
    PROVE  /\ Head(q) \in Events /\ Tail(q) \in Seq(Events)
           /\ 1 \in DOMAIN q /\ Head(q) = q[1] /\ Len(Tail(q)) = Len(q) - 1
           /\ \A j \in DOMAIN Tail(q) :
                 j \in Nat /\ j + 1 \in DOMAIN q /\ j + 1 # 1 /\ Tail(q)[j] = q[j + 1]
           /\ \A j \in DOMAIN q : j # 1 => j - 1 \in DOMAIN Tail(q) /\ q[j] = Tail(q)[j - 1]
    <1>1. /\ Len(q) \in Nat \ {0} /\ DOMAIN q = 1 .. Len(q) /\ Head(q) = q[1]
          /\ Tail(q) \in Seq(Events) /\ Len(Tail(q)) = Len(q) - 1
          /\ \A i \in 1 .. Len(q) - 1 : Tail(q)[i] = q[i + 1]
        BY EmptySeq, LenProperties, HeadTailProperties
    <1>2. DOMAIN Tail(q) = 1 .. Len(q) - 1
        BY <1>1
    <1>3. Head(q) \in Events
        BY <1>1
    <1>4. \A j \in DOMAIN Tail(q) :
             j \in Nat /\ j + 1 \in DOMAIN q /\ j + 1 # 1 /\ Tail(q)[j] = q[j + 1]
        BY <1>1, <1>2
    <1>5. \A j \in DOMAIN q : j # 1 => j - 1 \in DOMAIN Tail(q) /\ q[j] = Tail(q)[j - 1]
        <2> SUFFICES ASSUME NEW j \in DOMAIN q, j # 1
                     PROVE  j - 1 \in DOMAIN Tail(q) /\ q[j] = Tail(q)[j - 1]
            OBVIOUS
        <2>1. j - 1 \in 1 .. Len(q) - 1 /\ (j - 1) + 1 = j
            BY <1>1
        <2> QED BY <2>1, <1>1, <1>2
    <1> QED BY <1>1, <1>3, <1>4, <1>5

LEMMA ReportingTail ==
    ASSUME NEW q \in Seq(Events), q # <<>>
    PROVE  /\ Reporting(Tail(q)) \subseteq Reporting(q)
           /\ Head(q).kind # "report" => Reporting(Tail(q)) = Reporting(q)
           /\ Head(q).kind = "report" =>
                 /\ Head(q).domain \in Reporting(q)
                 /\ \A e : e # Head(q).domain => (e \in Reporting(Tail(q)) <=> e \in Reporting(q))
    <1>1. /\ 1 \in DOMAIN q /\ Head(q) = q[1]
          /\ \A j \in DOMAIN Tail(q) : j + 1 \in DOMAIN q /\ Tail(q)[j] = q[j + 1]
          /\ \A j \in DOMAIN q : j # 1 => j - 1 \in DOMAIN Tail(q) /\ q[j] = Tail(q)[j - 1]
        BY QueueTail
    <1>2. Reporting(Tail(q)) \subseteq Reporting(q)
        <2> SUFFICES ASSUME NEW j \in DOMAIN Tail(q), Tail(q)[j].kind = "report"
                     PROVE  Tail(q)[j].domain \in Reporting(q)
            BY DEF Reporting
        <2> QED BY <1>1 DEF Reporting
    <1>3. \A e \in Reporting(q) :
             e \in Reporting(Tail(q)) \/ (Head(q).kind = "report" /\ e = Head(q).domain)
        <2> SUFFICES ASSUME NEW j \in DOMAIN q, q[j].kind = "report"
                     PROVE  \/ q[j].domain \in Reporting(Tail(q))
                            \/ Head(q).kind = "report" /\ q[j].domain = Head(q).domain
            BY DEF Reporting
        <2>1. CASE j = 1
            BY <2>1, <1>1
        <2>2. CASE j # 1
            BY <2>2, <1>1 DEF Reporting
        <2> QED BY <2>1, <2>2
    <1>4. Head(q).kind = "report" => Head(q).domain \in Reporting(q)
        BY <1>1 DEF Reporting
    <1> QED BY <1>2, <1>3, <1>4

LEMMA QueueAppend ==
    ASSUME NEW q \in Seq(Events), NEW x \in Events
    PROVE  LET p == Append(q, x)
           IN /\ p \in Seq(Events) /\ Len(p) = Len(q) + 1 /\ Len(q) \in Nat
              /\ DOMAIN p = 1 .. Len(q) + 1 /\ DOMAIN q = 1 .. Len(q)
              /\ \A j \in DOMAIN q : j \in DOMAIN p /\ p[j] = q[j] /\ j # Len(q) + 1
              /\ Len(q) + 1 \in DOMAIN p /\ p[Len(q) + 1] = x
              /\ \A j \in DOMAIN p : j \in DOMAIN q \/ j = Len(q) + 1
              /\ Reporting(p) = Reporting(q) \cup
                                (IF x.kind = "report" THEN {x.domain} ELSE {})
    <1> DEFINE p == Append(q, x)
    <1>1. /\ p \in Seq(Events) /\ Len(p) = Len(q) + 1
          /\ \A i \in 1 .. Len(q) : p[i] = q[i]
          /\ p[Len(q) + 1] = x
        BY AppendProperties
    <1>2. Len(q) \in Nat /\ DOMAIN q = 1 .. Len(q)
        BY LenProperties
    <1> HIDE DEF p
    <1>3. DOMAIN p = 1 .. Len(q) + 1
        BY <1>1, <1>2
    <1>4. \A j \in DOMAIN q : j \in DOMAIN p /\ p[j] = q[j] /\ j # Len(q) + 1
        BY <1>1, <1>2, <1>3
    <1>5. \A j \in DOMAIN p : j \in DOMAIN q \/ j = Len(q) + 1
        BY <1>2, <1>3
    <1>6. Len(q) + 1 \in DOMAIN p
        BY <1>2, <1>3
    <1>7. Reporting(p) = Reporting(q) \cup (IF x.kind = "report" THEN {x.domain} ELSE {})
        <2>1. ASSUME NEW j \in DOMAIN p, p[j].kind = "report"
              PROVE  p[j].domain \in Reporting(q) \cup (IF x.kind = "report" THEN {x.domain} ELSE {})
            <3>1. CASE j \in DOMAIN q
                BY <2>1, <3>1, <1>4 DEF Reporting
            <3>2. CASE j = Len(q) + 1
                BY <2>1, <3>2, <1>1
            <3> QED BY <3>1, <3>2, <1>5
        <2>2. ASSUME NEW j \in DOMAIN q, q[j].kind = "report"
              PROVE  q[j].domain \in Reporting(p)
            BY <2>2, <1>4 DEF Reporting
        <2>3. x.kind = "report" => x.domain \in Reporting(p)
            BY <1>1, <1>6 DEF Reporting
        <2>4. Reporting(p) \subseteq Reporting(q) \cup (IF x.kind = "report" THEN {x.domain} ELSE {})
            BY <2>1 DEF Reporting
        <2>5. Reporting(q) \subseteq Reporting(p)
            BY <2>2 DEF Reporting
        <2> QED BY <2>3, <2>4, <2>5
    <1> QED BY <1>1, <1>2, <1>3, <1>4, <1>5, <1>6, <1>7 DEF p

LEMMA RequestLevels ==
    ASSUME NEW r \in Requests, Valid(r[1], r[2])
    PROVE  /\ r[1] \in Domains /\ r[2] \in Seq(States) /\ Len(r[2]) <= Len(Path[r[1]])
           /\ Levels(r) = {Path[r[1]][k] : k \in 1 .. Len(r[2])}
           /\ Levels(r) \subseteq Domains /\ Levels(r) # {}
    <1>1. r[1] \in Domains /\ r[2] \in Seq(States)
        BY PowerDomainAssumption
    <1>2. /\ Path[r[1]] \in Seq(Domains) /\ Len(Path[r[1]]) \in Nat
        BY <1>1, PathFacts
    <1>3. /\ Len(r[2]) \in 1 .. Len(Path[r[1]]) /\ DOMAIN r[2] = 1 .. Len(r[2])
          /\ Len(r[2]) \in Nat
        BY <1>1, <1>2 DEF Valid
    <1>4. \A k \in 1 .. Len(r[2]) : k \in 1 .. Len(Path[r[1]])
        BY <1>2, <1>3
    <1>5. \A k \in 1 .. Len(r[2]) : Path[r[1]][k] \in Domains
        BY <1>2, <1>4
    <1>6. 1 \in DOMAIN r[2]
        BY <1>3
    <1> QED BY <1>1, <1>2, <1>3, <1>5, <1>6 DEF Levels

\* The oldest event is taken: what was quiet remains so, but for a set D in which
\* no other request has a level.
LEMMA TailQuiet ==
    ASSUME NEW w, NEW v, NEW q \in Seq(Events), q # <<>>, NEW D,
           RequestsQuiet(w, q),
           \A i \in Calls(q, "set") : i # 1 => Levels(q[i].request) \cap D = {},
           \A e \in Domains \ D : Quiet(w, Reporting(q), e) => Quiet(v, Reporting(Tail(q)), e)
    PROVE  RequestsQuiet(v, Tail(q))
    <1>1. \A j \in Calls(Tail(q), "set") :
             /\ j \in Nat /\ j + 1 \in Calls(q, "set") /\ j + 1 # 1 /\ Tail(q)[j] = q[j + 1]
             /\ q[j + 1] \in Events
        <2>1. \A j \in DOMAIN Tail(q) :
                 j \in Nat /\ j + 1 \in DOMAIN q /\ j + 1 # 1 /\ Tail(q)[j] = q[j + 1]
            BY QueueTail
        <2> QED BY <2>1 DEF Calls
    <1>2. ASSUME NEW j \in Calls(Tail(q), "set")
          PROVE  /\ Valid(Tail(q)[j].request[1], Tail(q)[j].request[2])
                 /\ \A d \in Levels(Tail(q)[j].request) : Quiet(v, Reporting(Tail(q)), d)
        <2> DEFINE r == q[j + 1].request
        <2>1. j + 1 \in Calls(q, "set") /\ j + 1 # 1 /\ Tail(q)[j].request = r
            BY <1>1
        <2>2. Valid(r[1], r[2]) /\ \A d \in Levels(r) : Quiet(w, Reporting(q), d)
            BY <2>1 DEF RequestsQuiet
        <2>3. r \in Requests
            <3>1. q[j + 1] \in Events /\ q[j + 1].kind = "set"
                BY <1>1 DEF Calls
            <3> QED BY <3>1, EventFacts
        <2>4. Levels(r) \cap D = {}
            BY <2>1
        <2> HIDE DEF r
        <2>5. Levels(r) \subseteq Domains
            BY <2>2, <2>3, RequestLevels
        <2> QED BY <2>1, <2>2, <2>4, <2>5
    <1>3. ASSUME NEW i \in Calls(Tail(q), "set"), NEW j \in Calls(Tail(q), "set"), i # j
          PROVE  Levels(Tail(q)[i].request) \cap Levels(Tail(q)[j].request) = {}
        <2>1. /\ i + 1 \in Calls(q, "set") /\ j + 1 \in Calls(q, "set") /\ i + 1 # j + 1
              /\ Tail(q)[i] = q[i + 1] /\ Tail(q)[j] = q[j + 1]
            <3>1. i \in Nat /\ j \in Nat
                BY <1>1
            <3>2. i + 1 # j + 1
                BY <3>1, <1>3
            <3> QED BY <3>2, <1>1
        <2> QED BY <2>1 DEF RequestsQuiet
    <1> QED BY <1>2, <1>3 DEF RequestsQuiet

\* Nothing is taken.
LEMMA KeepsQuiet ==
    ASSUME NEW w, NEW v, NEW q \in Seq(Events), NEW s,
           s \in [ongoing: BOOLEAN, core: Cores \cup {None}, state: States],
           Keeps(v, w, Reporting(q)), RequestsQuiet(w, q), SuspendQuiet(w, q, s)
    PROVE  RequestsQuiet(v, q) /\ SuspendQuiet(v, q, s)
    <1>1. \A e \in Domains : Quiet(w, Reporting(q), e) => Quiet(v, Reporting(q), e)
        BY DEF Keeps
    <1>2. \A i \in Calls(q, "set") : Levels(q[i].request) \subseteq Domains
        <2> SUFFICES ASSUME NEW i \in Calls(q, "set")
                     PROVE  Levels(q[i].request) \subseteq Domains
            OBVIOUS
        <2>1. q[i] \in Events /\ q[i].kind = "set"
            BY DEF Calls
        <2>2. q[i].request \in Requests /\ Valid(q[i].request[1], q[i].request[2])
            BY <2>1, EventFacts DEF RequestsQuiet
        <2> QED BY <2>2, RequestLevels
    <1>3. RequestsQuiet(v, q)
        BY <1>1, <1>2 DEF RequestsQuiet
    <1>4. s.ongoing => s.core \in Domains
        BY PowerDomainAssumption DEF SuspendQuiet
    <1>5. SuspendQuiet(v, q, s)
        BY <1>1, <1>4 DEF SuspendQuiet, Keeps
    <1> QED BY <1>3, <1>5

-----------------------------------------------------------------------------
(* The state, as a walk.                                                   *)

LEMMA DoneSafe ==
    ASSUME NEW v, NEW h, NEW R, SafeWalk(v, h, R), Done(v)
    PROVE  /\ SafeWalk(Walk', h, R)
           /\ Walk'.pd = v.pd /\ Walk'.driver = v.driver /\ Walk'.before = v.before
    <1>1. v \in WalkType
        BY DEF SafeWalk, Typed
    <1>2. /\ Walk'.pd = v.pd /\ Walk'.before = v.before /\ Walk'.after = v.after
          /\ Walk'.heard = v.heard /\ Walk'.driver = v.driver
        BY DEF Done, Walk
    <1>3. "success" \in Answers
        BY DEF Answers
    <1>4. /\ v.pd \in [Domains -> Context] /\ v.before \in [Domains -> Nat]
          /\ v.after \in [Domains -> Nat] /\ v.heard \in [Domains -> Nat]
          /\ v.driver \in [Domains -> States \cup {None}]
          /\ v.answer \in [Ids -> Answers \cup {None}] /\ v.lost \in BOOLEAN
        BY <1>1, WalkFields
    <1>5. Walk' \in WalkType
        BY <1>3, <1>4 DEF Walk, Done, WalkType
    <1>6. PICK x : x = Walk'
        OBVIOUS
    <1>7. SafeWalk(x, h, R)
        BY <1>2, <1>5, <1>6, SafeFields
    <1> QED BY <1>2, <1>6, <1>7

\* The invariant says that the tree is safe.
LEMMA PdInvSafe ==
    ASSUME PdInv
    PROVE  TreeSafe
    <1>1. /\ Typed(Walk) /\ PairsSafe(Walk, hw) /\ hw \in [Domains -> States]
          /\ Walk \in WalkType
        BY DEF PdInv, SafeWalk, Typed
    <1>2. /\ Walk.pd = pd /\ Walk.before = before /\ Walk.after = after /\ Walk.driver = driver
          /\ Walk.answer = answer /\ Walk.heard = heard /\ Walk.lost = lost
        BY DEF Walk
    <1>3. /\ pd \in [Domains -> Context] /\ before \in [Domains -> Nat]
          /\ after \in [Domains -> Nat] /\ heard \in [Domains -> Nat]
          /\ driver \in [Domains -> States \cup {None}]
          /\ answer \in [Ids -> Answers \cup {None}] /\ lost \in BOOLEAN
        <2> DEFINE w == Walk
        <2>1. /\ w.pd \in [Domains -> Context] /\ w.before \in [Domains -> Nat]
              /\ w.after \in [Domains -> Nat] /\ w.heard \in [Domains -> Nat]
              /\ w.driver \in [Domains -> States \cup {None}]
              /\ w.answer \in [Ids -> Answers \cup {None}] /\ w.lost \in BOOLEAN
            BY <1>1, WalkFields
        <2> QED BY <2>1, <1>2
    <1>4. ASSUME NEW d \in Domains
          PROVE  /\ before[d] \in 0 .. Before[d] /\ after[d] \in 0 .. After[d]
                 /\ heard[d] \in 0 .. Before[d]
                 /\ driver[d] # None => driver[d] = pd[d].toDriver
        <2>1. TypedAt(Walk, d)
            BY <1>1 DEF Typed
        <2>2. /\ heard[d] + before[d] <= Before[d] /\ after[d] <= After[d]
              /\ driver[d] # None => driver[d] = pd[d].toDriver
            BY <2>1, <1>2 DEF TypedAt
        <2>3. /\ before[d] \in Nat /\ after[d] \in Nat /\ heard[d] \in Nat
              /\ Before[d] \in Nat /\ After[d] \in Nat
            BY <1>3, PowerDomainAssumption
        <2> QED BY <2>2, <2>3
    <1>5. \A i \in DOMAIN queue : queue[i] \in Events
        BY DEF PdInv
    <1>6. PdTypeOK
        BY <1>1, <1>3, <1>4, <1>5 DEF PdTypeOK, PdInv
    <1>7. \A d \in Domains \ {Root} :
             \A s \in May(d), t \in May(Parent[d]) : s \in Allowed[d][t]
        BY <1>1, <1>2 DEF PairsSafe, MayBe, May
    <1> QED BY <1>6, <1>7 DEF TreeSafe

LEMMA PdInitInv ==
    ASSUME PdInit
    PROVE  PdInv
    <1> DEFINE on == {d \in Domains : hw[d] # "OFF"}
               reports == {[kind |-> "report", domain |-> d, state |-> hw[d]] : d \in on}
               context(d) == [requested |-> hw[d], toDriver |-> hw[d], current |-> "OFF",
                              driverState |-> "OFF", response |-> None,
                              pre |-> [state |-> "OFF", ok |-> TRUE, valid |-> FALSE],
                              post |-> [state |-> "OFF", previous |-> "OFF"]]
    <1>1. /\ hw \in [Domains -> States] /\ "OFF" \in States /\ None \notin States
          /\ Before \in [Domains -> Nat] /\ After \in [Domains -> Nat] /\ MaxAsks \in Nat
          /\ \A d \in Domains \ {Root} : hw[d] \in Allowed[d][hw[Parent[d]]]
        BY PowerDomainAssumption DEF PdInit
    <1>2. /\ pd = [d \in Domains |-> context(d)]
          /\ before = [d \in Domains |-> 0] /\ after = before /\ heard = before
          /\ driver = [d \in Domains |-> None] /\ asks = 0
          /\ answer = [r \in Ids |-> None] /\ lost = FALSE
          /\ suspend = [ongoing |-> FALSE, core |-> None, state |-> "OFF"]
          /\ queue \in [1 .. Cardinality(on) -> reports] /\ Range(queue) = reports
        BY DEF PdInit
    <1>3. \A d \in Domains : context(d) \in Context
        BY <1>1 DEF Context
    <1>4. /\ Walk.pd = pd /\ Walk.before = before /\ Walk.after = after /\ Walk.driver = driver
          /\ Walk.heard = heard
        BY DEF Walk
    <1>5. Walk \in WalkType
        <2>1. pd \in [Domains -> Context]
            BY <1>2, <1>3
        <2>2. "success" \in Answers
            BY DEF Answers
        <2> QED BY <1>2, <2>1, <2>2 DEF WalkType, Walk
    <1>6. \A d \in Domains :
             /\ pd[d].requested = hw[d] /\ pd[d].toDriver = hw[d] /\ pd[d].current = "OFF"
             /\ before[d] = 0 /\ heard[d] = 0 /\ after[d] = 0 /\ driver[d] = None
        BY <1>2
    <1>7. queue \in Seq(reports) /\ queue \in Seq(Events)
        <2>1. IsFiniteSet(on)
            BY TreeFacts, FS_Subset
        <2>2. Cardinality(on) \in Nat
            <3> HIDE DEF on
            <3> QED BY <2>1, FS_CardinalityType
        <2>3. reports \subseteq Events
            BY <1>1 DEF Events
        <2> HIDE DEF on, reports
        <2>4. queue \in [1 .. Cardinality(on) -> reports]
            BY <1>2
        <2>5. queue \in [1 .. Cardinality(on) -> Events]
            BY <2>3, <2>4
        <2> QED BY <2>2, <2>4, <2>5, SeqDef
    <1>8. \A i \in DOMAIN queue : queue[i].kind = "report"
        BY <1>7
    <1>9. Reporting(queue) = on
        <2>1. ASSUME NEW i \in DOMAIN queue PROVE queue[i].domain \in on
            BY <1>7
        <2>2. ASSUME NEW d \in on PROVE \E i \in DOMAIN queue : queue[i].domain = d
            <3> DEFINE x == [kind |-> "report", domain |-> d, state |-> hw[d]]
            <3>1. x \in reports
                OBVIOUS
            <3>2. x \in Range(queue)
                <4> HIDE DEF x, reports
                <4> QED BY <3>1, <1>2
            <3>3. PICK i \in DOMAIN queue : queue[i] = x
                <4> HIDE DEF x
                <4> QED BY <3>2 DEF Range
            <3> QED BY <3>3
        <2> HIDE DEF on, reports
        <2> QED BY <2>1, <2>2, <1>8 DEF Reporting
    <1> DEFINE R == Reporting(queue)
    <1>10. Typed(Walk)
        <2>1. \A d \in Domains : TypedAt(Walk, d)
            BY <1>1, <1>4, <1>6 DEF TypedAt
        <2> QED BY <2>1, <1>5 DEF Typed
    <1>11. AsAsked(Walk)
        BY <1>1, <1>4, <1>6, TreeFacts DEF AsAsked
    <1>12. Known(Walk, hw, R)
        BY <1>4, <1>6, <1>9 DEF Known, KnownAt
    <1>13. PairsSafe(Walk, hw)
        <2>1. \A d \in Domains : MayBe(Walk, hw, d) \subseteq {hw[d]}
            BY <1>4, <1>6 DEF MayBe
        <2>2. \A d \in Domains \ {Root} : Parent[d] \in Domains
            BY TreeFacts
        <2> QED BY <2>1, <2>2, <1>1 DEF PairsSafe
    <1>14. Agreed(Walk)
        BY <1>4, <1>6 DEF Agreed, AgreedAt
    <1>15. SafeWalk(Walk, hw, R)
        BY <1>1, <1>10, <1>11, <1>12, <1>13, <1>14 DEF SafeWalk
    <1>16. Calls(queue, "set") = {} /\ Calls(queue, "suspend") = {}
        BY <1>8 DEF Calls
    <1>17. suspend \in [ongoing: BOOLEAN, core: Cores \cup {None}, state: States] /\ ~suspend.ongoing
        BY <1>1, <1>2
    <1>18. asks \in 0 .. MaxAsks
        BY <1>1, <1>2
    <1> QED BY <1>7, <1>15, <1>16, <1>17, <1>18 DEF PdInv, RequestsQuiet, SuspendQuiet

-----------------------------------------------------------------------------
(* Clients, and the drivers.                                               *)

LEMMA AtRestFacts ==
    ASSUME NEW d \in Domains, AtRest(d)
    PROVE  /\ Quiet(Walk, Reporting(queue), d) /\ Calls(queue, "suspend") = {}
           /\ \A i \in Calls(queue, "set") : d \notin Levels(queue[i].request)
    <1>1. d \notin Reporting(queue)
        BY DEF AtRest, Reporting
    <1>2. /\ driver[d] = None /\ before[d] = 0 /\ pd[d].requested = pd[d].toDriver
        BY DEF AtRest
    <1>3. Quiet(Walk, Reporting(queue), d)
        BY <1>1, <1>2 DEF Quiet, Walk
    <1>4. Calls(queue, "suspend") = {}
        BY DEF AtRest, Calls
    <1>5. \A i \in Calls(queue, "set") : d \notin Levels(queue[i].request)
        BY DEF AtRest, Calls
    <1> QED BY <1>3, <1>4, <1>5

LEMMA SetStateInv ==
    ASSUME ~Overlap, PdInv, SetState
    PROVE  PdInv'
    <1>1. PICK r \in Requests :
             /\ Valid(r[1], r[2])
             /\ ~suspend.ongoing /\ \A d \in Near(Levels(r)) : AtRest(d)
             /\ queue' = Append(queue, [kind |-> "set", request |-> r, id |-> asks + 1])
        BY DEF SetState
    <1> DEFINE x == [kind |-> "set", request |-> r, id |-> asks + 1]
               N == Len(queue) + 1
    <1>2. /\ asks' = asks + 1 /\ asks < MaxAsks
          /\ Walk' = Walk /\ hw' = hw /\ suspend' = suspend
        BY DEF SetState, Walk
    <1>3. asks + 1 \in Ids /\ asks' \in 0 .. MaxAsks
        BY <1>2, PowerDomainAssumption DEF PdInv, Ids
    <1>4. x \in Events /\ x.kind = "set" /\ x.request = r
        BY <1>3 DEF Events
    <1> HIDE DEF x
    <1>5. queue' = Append(queue, x) /\ queue \in Seq(Events)
        BY <1>1 DEF x, PdInv
    <1>6. /\ queue' \in Seq(Events) /\ Reporting(queue') = Reporting(queue)
          /\ \A j \in DOMAIN queue : queue'[j] = queue[j] /\ j # N
          /\ queue'[N] = x
          /\ \A j \in DOMAIN queue' : j \in DOMAIN queue \/ j = N
        <2> DEFINE p == Append(queue, x)
        <2>1. /\ p \in Seq(Events)
              /\ \A j \in DOMAIN queue : p[j] = queue[j] /\ j # N
              /\ p[N] = x
              /\ \A j \in DOMAIN p : j \in DOMAIN queue \/ j = N
              /\ Reporting(p) = Reporting(queue) \cup
                                (IF x.kind = "report" THEN {x.domain} ELSE {})
            BY <1>4, <1>5, QueueAppend
        <2>2. queue' = p
            BY <1>5
        <2> HIDE DEF p
        <2>3. Reporting(p) = Reporting(queue)
            BY <2>1, <1>4
        <2> QED BY <2>1, <2>2, <2>3
    <1> HIDE DEF N
    <1>7. Levels(r) \subseteq Domains /\ Levels(r) # {}
        BY <1>1, RequestLevels
    <1>8. \A d \in Levels(r) : AtRest(d)
        BY <1>1, <1>7 DEF Near
    <1>9. /\ \A d \in Levels(r) : Quiet(Walk, Reporting(queue), d)
          /\ Calls(queue, "suspend") = {}
          /\ \A i \in Calls(queue, "set") : Levels(queue[i].request) \cap Levels(r) = {}
        BY <1>7, <1>8, AtRestFacts
    <1>10. \A i \in Calls(queue', "set") :
              \/ i \in Calls(queue, "set") /\ queue'[i] = queue[i] /\ i # N
              \/ i = N /\ queue'[i].request = r
        BY <1>4, <1>6 DEF Calls
    <1>11. RequestsQuiet(Walk, queue')
        <2>1. RequestsQuiet(Walk, queue)
            BY DEF PdInv
        <2>2. ASSUME NEW i \in Calls(queue', "set")
              PROVE  /\ Valid(queue'[i].request[1], queue'[i].request[2])
                     /\ \A d \in Levels(queue'[i].request) : Quiet(Walk, Reporting(queue'), d)
            BY <2>1, <1>1, <1>6, <1>9, <1>10 DEF RequestsQuiet
        <2>3. ASSUME NEW i \in Calls(queue', "set"), NEW j \in Calls(queue', "set"), i # j
              PROVE  Levels(queue'[i].request) \cap Levels(queue'[j].request) = {}
            BY <2>1, <2>3, <1>9, <1>10 DEF RequestsQuiet
        <2> QED BY <2>2, <2>3 DEF RequestsQuiet
    <1>12. SuspendQuiet(Walk, queue', suspend)
        <2>1. Calls(queue', "suspend") = {}
            BY <1>4, <1>6, <1>9 DEF Calls
        <2> QED BY <2>1, <1>1 DEF SuspendQuiet
    <1>13. SafeWalk(Walk, hw, Reporting(queue'))
        BY <1>6 DEF PdInv
    <1> QED BY <1>2, <1>3, <1>6, <1>11, <1>12, <1>13 DEF PdInv

LEMMA SystemSuspendInv ==
    ASSUME ~Overlap, PdInv, SystemSuspend
    PROVE  PdInv'
    <1>1. PICK s \in States : queue' = Append(queue, [kind |-> "suspend", state |-> s])
        BY DEF SystemSuspend
    <1> DEFINE x == [kind |-> "suspend", state |-> s]
    <1>2. /\ asks' = asks + 1 /\ asks < MaxAsks /\ \A d \in Domains : AtRest(d)
          /\ Walk' = Walk /\ hw' = hw /\ suspend' = suspend
        BY DEF SystemSuspend, Walk
    <1>3. asks' \in 0 .. MaxAsks
        BY <1>2, PowerDomainAssumption DEF PdInv
    <1>4. /\ \A d \in Domains : Quiet(Walk, Reporting(queue), d)
          /\ \A d \in Domains : \A i \in Calls(queue, "set") : d \notin Levels(queue[i].request)
        BY <1>2, AtRestFacts
    <1>5. queue \in Seq(Events) /\ RequestsQuiet(Walk, queue) /\ SuspendQuiet(Walk, queue, suspend)
        BY DEF PdInv
    <1>6. queue = <<>>
        <2> SUFFICES ASSUME queue # <<>> PROVE FALSE
            OBVIOUS
        <2>1. 1 \in DOMAIN queue /\ queue[1] \in Events
            BY <1>5, QueueTail
        <2>2. queue[1].kind \in {"set", "report", "suspend"}
            BY <2>1, EventFacts
        <2>3. CASE queue[1].kind = "set"
            <3>1. 1 \in Calls(queue, "set")
                BY <2>1, <2>3 DEF Calls
            <3>2. queue[1].request \in Requests /\ Valid(queue[1].request[1], queue[1].request[2])
                BY <3>1, <2>1, <2>3, <1>5, EventFacts DEF RequestsQuiet
            <3> QED BY <3>1, <3>2, <1>4, RequestLevels
        <2>4. CASE queue[1].kind = "report"
            <3>1. queue[1].domain \in Domains /\ queue[1].domain \in Reporting(queue)
                BY <2>1, <2>4, EventFacts DEF Reporting
            <3> QED BY <3>1, <1>4 DEF Quiet
        <2>5. CASE queue[1].kind = "suspend"
            <3>1. Root \in Domains
                BY TreeFacts
            <3>2. Calls(queue, "suspend") = {}
                BY <3>1, <1>2, AtRestFacts
            <3> QED BY <3>2, <2>1, <2>5 DEF Calls
        <2> QED BY <2>2, <2>3, <2>4, <2>5
    <1>7. ~suspend.ongoing
        BY <1>4, <1>5, PowerDomainAssumption DEF SuspendQuiet, Quiet
    <1>8. x \in Events /\ x.kind = "suspend"
        BY DEF Events
    <1> HIDE DEF x
    <1>9. queue' = Append(queue, x)
        BY <1>1 DEF x
    <1>10. /\ queue' \in Seq(Events) /\ Len(queue') = 1 /\ Reporting(queue') = Reporting(queue)
           /\ \A j \in DOMAIN queue' : queue'[j] = x
        <2>1. /\ queue' \in Seq(Events) /\ Len(queue') = Len(queue) + 1
              /\ Reporting(queue') = Reporting(queue)
              /\ DOMAIN queue' = 1 .. Len(queue) + 1 /\ queue'[Len(queue) + 1] = x
            <3> DEFINE p == Append(queue, x)
            <3>1. /\ p \in Seq(Events) /\ Len(p) = Len(queue) + 1
                  /\ DOMAIN p = 1 .. Len(queue) + 1 /\ p[Len(queue) + 1] = x
                  /\ Reporting(p) = Reporting(queue) \cup
                                    (IF x.kind = "report" THEN {x.domain} ELSE {})
                BY <1>5, <1>8, QueueAppend
            <3>2. queue' = p
                BY <1>9
            <3> HIDE DEF p
            <3>3. Reporting(p) = Reporting(queue)
                BY <3>1, <1>8
            <3> QED BY <3>1, <3>2, <3>3
        <2>2. Len(queue) = 0
            BY <1>6
        <2> QED BY <2>1, <2>2
    <1>11. Calls(queue', "set") = {}
        BY <1>8, <1>10 DEF Calls
    <1>12. RequestsQuiet(Walk, queue')
        BY <1>11 DEF RequestsQuiet
    <1>13. SuspendQuiet(Walk, queue', suspend)
        BY <1>4, <1>7, <1>10 DEF SuspendQuiet
    <1>14. SafeWalk(Walk, hw, Reporting(queue'))
        BY <1>10 DEF PdInv
    <1> QED BY <1>2, <1>3, <1>10, <1>12, <1>13, <1>14 DEF PdInv

LEMMA WalkIs ==
    /\ Walk.pd = pd /\ Walk.before = before /\ Walk.after = after /\ Walk.driver = driver
    /\ Walk.answer = answer /\ Walk.heard = heard /\ Walk.lost = lost
    BY DEF Walk

\* A domain that changes for a reason of its own stays as it is asked to be: the
\* tree around it does not notice.
LEMMA AsideSafe ==
    ASSUME NEW w, NEW h, NEW R, NEW v, NEW g, NEW S, NEW d \in Domains,
           SafeWalk(w, h, R), Typed(v), g \in [Domains -> States],
           SameOutside(v, w, {d}),
           \A e \in Domains \ {d} : g[e] = h[e] /\ (e \in S <=> e \in R),
           v.pd[d].requested = w.pd[d].requested,
           v.pd[d].current \in {w.pd[d].current, w.pd[d].requested},
           v.before[d] > 0 /\ v.pd[d].pre.valid => w.before[d] > 0 /\ w.pd[d].pre.valid,
           KnownAt(v, g, S, d), MayBe(v, g, d) \subseteq MayBe(w, h, d)
    PROVE  SafeWalk(v, g, S)
    <1>1. d # Root => v.pd[d].requested \in Allowed[d][w.pd[Parent[d]].requested]
        BY DEF SafeWalk, AsAsked
    <1>2. \A c \in Children(d) : w.pd[c].requested \in Allowed[c][v.pd[d].requested]
        <2>1. \A c \in Children(d) : c \in Domains \ {Root} /\ Parent[c] = d
            BY TreeFacts
        <2> QED BY <2>1 DEF SafeWalk, AsAsked
    <1>3. AgreedAt(v, d)
        <2> SUFFICES ASSUME v.before[d] > 0, v.pd[d].pre.valid PROVE Agreeable(v.pd, d)
            BY DEF AgreedAt
        <2>1. Agreeable(w.pd, d)
            BY DEF SafeWalk, Agreed, AgreedAt
        <2>2. d # Root => Parent[d] \in Domains /\ Parent[d] # d
            BY TreeFacts
        <2>3. \A c \in Children(d) : c \in Domains /\ c # d
            BY TreeFacts
        <2> QED BY <2>1, <2>2, <2>3 DEF Agreeable, AllowedByParentAndChildren, SameOutside
    <1>4. Change(w, h, R, v, g, S, d)
        BY <1>1, <1>2, <1>3 DEF Change
    <1> QED BY <1>4, ChangeSafe

\* The driver of domain d reports the transition it made.
LEMMA ReportInv ==
    ASSUME PdInv, NEW d \in Domains, Report(d)
    PROVE  PdInv'
    <1> DEFINE x == [kind |-> "report", domain |-> d, state |-> driver[d]]
               R == Reporting(queue)
               S == Reporting(queue) \cup {d}
    <1>1. PICK w : w = Walk
        OBVIOUS
    <1>2. PICK v : v = Walk'
        OBVIOUS
    <1>3. PICK g : g = hw'
        OBVIOUS
    <1>4. SafeWalk(w, hw, R) /\ Typed(w) /\ w \in WalkType /\ KnownAt(w, hw, R, d)
          /\ TypedAt(w, d) /\ hw \in [Domains -> States]
        BY <1>1 DEF PdInv, SafeWalk, Typed, Known
    <1>5. /\ v.pd = w.pd /\ v.before = w.before /\ v.after = w.after /\ v.heard = w.heard
          /\ v.driver = [w.driver EXCEPT ![d] = None]
          /\ g = [hw EXCEPT ![d] = w.driver[d]]
          /\ w.driver[d] # None
        BY <1>1, <1>2, <1>3 DEF Report, Walk
    <1>6. w.driver[d] \in States /\ w.driver[d] = driver[d]
        BY <1>1, <1>4, <1>5, WalkFields, WalkIs
    <1>7. /\ g \in [Domains -> States] /\ g[d] = w.driver[d]
          /\ \A e \in Domains \ {d} : g[e] = hw[e]
        BY <1>4, <1>5, <1>6
    <1>8. /\ v.driver[d] = None /\ \A e \in Domains \ {d} : v.driver[e] = w.driver[e]
        BY <1>4, <1>5, WalkFields
    <1>9. v \in WalkType
        <2>1. [w.driver EXCEPT ![d] = None] \in [Domains -> States \cup {None}]
            BY <1>4, WalkFields
        <2>2. /\ pd' = w.pd /\ before' = w.before /\ after' = w.after
              /\ answer' = w.answer /\ heard' = w.heard /\ lost' = w.lost
              /\ driver' = [w.driver EXCEPT ![d] = None]
            BY <1>1 DEF Report, Walk
        <2>3. /\ w.pd \in [Domains -> Context] /\ w.before \in [Domains -> Nat]
              /\ w.after \in [Domains -> Nat] /\ w.heard \in [Domains -> Nat]
              /\ w.answer \in [Ids -> Answers \cup {None}] /\ w.lost \in BOOLEAN
            BY <1>4, WalkFields
        <2>4. "success" \in Answers
            BY DEF Answers
        <2>5. Walk' \in WalkType
            BY <2>1, <2>2, <2>3, <2>4 DEF WalkType, Walk
        <2> QED BY <2>5, <1>2
    <1>10. Typed(v)
        <2> SUFFICES ASSUME NEW e \in Domains PROVE TypedAt(v, e)
            BY <1>9 DEF Typed
        <2>1. TypedAt(w, e)
            BY <1>4 DEF Typed
        <2> QED BY <2>1, <1>5, <1>8 DEF TypedAt
    <1>11. SameOutside(v, w, {d})
        BY <1>5, <1>8 DEF SameOutside
    <1>12. w.driver[d] = w.pd[d].requested /\ w.pd[d].toDriver = w.pd[d].requested
        BY <1>4, <1>5 DEF KnownAt, TypedAt
    <1>13. KnownAt(v, g, S, d)
        BY <1>5, <1>7, <1>8, <1>12 DEF KnownAt
    <1>14. MayBe(v, g, d) \subseteq MayBe(w, hw, d)
        BY <1>5, <1>7, <1>8 DEF MayBe
    <1>15. SafeWalk(v, g, S)
        <2>1. \A e \in Domains \ {d} : g[e] = hw[e] /\ (e \in S <=> e \in R)
            BY <1>7
        <2>2. /\ v.pd[d].requested = w.pd[d].requested
              /\ v.pd[d].current \in {w.pd[d].current, w.pd[d].requested}
              /\ v.before[d] > 0 /\ v.pd[d].pre.valid => w.before[d] > 0 /\ w.pd[d].pre.valid
            BY <1>5
        <2> HIDE DEF R, S
        <2> QED BY <2>1, <2>2, <1>4, <1>7, <1>10, <1>11, <1>13, <1>14, AsideSafe
    <1>16. x \in Events /\ x.kind = "report" /\ x.domain = d
        BY <1>6 DEF Events
    <1>17. queue' = Append(queue, x) /\ queue \in Seq(Events)
           /\ asks' = asks /\ suspend' = suspend
        BY DEF Report, PdInv
    <1> HIDE DEF x
    <1>18. /\ queue' \in Seq(Events) /\ Reporting(queue') = S
           /\ \A j \in DOMAIN queue : queue'[j] = queue[j]
           /\ \A j \in DOMAIN queue' : j \in DOMAIN queue \/ queue'[j] = x
        <2> DEFINE p == Append(queue, x)
        <2>1. /\ p \in Seq(Events)
              /\ \A j \in DOMAIN queue : p[j] = queue[j]
              /\ p[Len(queue) + 1] = x
              /\ \A j \in DOMAIN p : j \in DOMAIN queue \/ j = Len(queue) + 1
              /\ Reporting(p) = Reporting(queue) \cup
                                (IF x.kind = "report" THEN {x.domain} ELSE {})
            BY <1>16, <1>17, QueueAppend
        <2>2. queue' = p
            BY <1>17
        <2> HIDE DEF p
        <2>3. Reporting(p) = S
            BY <2>1, <1>16
        <2> QED BY <2>1, <2>2, <2>3
    <1>19. \A e \in Domains : Quiet(w, R, e) => e # d /\ Quiet(v, S, e)
        BY <1>5, <1>8 DEF Quiet
    <1>20. RequestsQuiet(w, queue) /\ SuspendQuiet(w, queue, suspend)
        BY <1>1 DEF PdInv
    <1>21. \A i \in Calls(queue', "set") : i \in Calls(queue, "set") /\ queue'[i] = queue[i]
        BY <1>16, <1>18 DEF Calls
    <1>22. \A i \in Calls(queue, "set") :
              Levels(queue[i].request) \subseteq Domains
        <2> SUFFICES ASSUME NEW i \in Calls(queue, "set")
                     PROVE  Levels(queue[i].request) \subseteq Domains
            OBVIOUS
        <2>1. queue[i] \in Events /\ queue[i].kind = "set"
            BY <1>17 DEF Calls
        <2>2. queue[i].request \in Requests /\ Valid(queue[i].request[1], queue[i].request[2])
            BY <2>1, <1>20, EventFacts DEF RequestsQuiet
        <2> QED BY <2>2, RequestLevels
    <1>23. RequestsQuiet(v, queue')
        BY <1>18, <1>19, <1>20, <1>21, <1>22 DEF RequestsQuiet
    <1>24. Calls(queue, "suspend") = {}
        BY <1>5, <1>20 DEF SuspendQuiet, Quiet
    <1>25. Calls(queue', "suspend") = {}
        BY <1>16, <1>18, <1>24 DEF Calls
    <1>26. suspend.ongoing => suspend.core \in Domains
        BY <1>20, PowerDomainAssumption DEF SuspendQuiet
    <1>27. Calls(queue, "set") = {} => Calls(queue', "set") = {}
        BY <1>21
    <1>28. SuspendQuiet(v, queue', suspend)
        BY <1>5, <1>8, <1>18, <1>19, <1>20, <1>25, <1>26, <1>27 DEF SuspendQuiet
    <1>29. SafeWalk(v, g, Reporting(queue'))
        BY <1>15, <1>18
    <1>30. /\ asks' \in 0 .. MaxAsks
           /\ suspend' \in [ongoing: BOOLEAN, core: Cores \cup {None}, state: States]
        BY <1>17 DEF PdInv
    <1> QED BY <1>2, <1>3, <1>17, <1>18, <1>23, <1>28, <1>29, <1>30 DEF PdInv

\* What a walk that asks nothing new leaves, no event being taken.
LEMMA KeepsInv ==
    ASSUME PdInv, NEW v, SafeWalk(v, hw, Reporting(queue)),
           Keeps(v, Walk, Reporting(queue)), Done(v),
           suspend' = suspend, queue' = queue, hw' = hw, asks' = asks
    PROVE  PdInv'
    <1>1. PICK x : x = Walk'
        OBVIOUS
    <1>2. SafeWalk(x, hw, Reporting(queue)) /\ x.pd = v.pd /\ x.driver = v.driver
          /\ x.before = v.before
        BY <1>1, DoneSafe
    <1>3. Keeps(x, Walk, Reporting(queue))
        BY <1>2 DEF Keeps, Quiet
    <1>4. RequestsQuiet(x, queue) /\ SuspendQuiet(x, queue, suspend)
        BY <1>3, KeepsQuiet DEF PdInv
    <1> QED BY <1>1, <1>2, <1>4 DEF PdInv

-----------------------------------------------------------------------------
(* The answers of the entities that are told.                              *)

LEMMA AnswerBeforeInv ==
    ASSUME PdInv, NEW d \in Domains, AnswerBefore(d)
    PROVE  PdInv'
    <1> DEFINE R == Reporting(queue)
    <1> DEFINE Answered(ok, fails) ==
           LET w == [Walk EXCEPT !.before[d] = @ - 1, !.pd[d].pre.ok = @ /\ ok,
                                 !.heard[d] = IF ok THEN @ + 1 ELSE @]
               pre == w.pd[d].pre
               last == w.before[d] = 0
           IN Done(CASE last /\ pre.valid ->
                            IF pre.ok THEN InitiateLater(w, d, fails)
                            ELSE [w EXCEPT !.lost = TRUE]
                     [] /\ last /\ ~pre.valid
                        /\ pd[d].requested # pd[d].toDriver
                        /\ AllowedByParentAndChildren(pd, d, pd[d].requested) ->
                            Start(w, d, fails)
                     [] OTHER -> w)
    <1>1. PICK ok \in BOOLEAN, fails \in Failures : Answered(ok, fails)
        <2>1. \E ok \in IF MayFail THEN BOOLEAN ELSE {TRUE}, fails \in Failures :
                 Answered(ok, fails)
            BY DEF AnswerBefore
        <2>2. (IF MayFail THEN BOOLEAN ELSE {TRUE}) \subseteq BOOLEAN
            OBVIOUS
        <2> HIDE DEF Answered
        <2> QED BY <2>1, <2>2
    <1>2. before[d] > 0 /\ suspend' = suspend /\ queue' = queue /\ hw' = hw /\ asks' = asks
        BY DEF AnswerBefore
    <1>3. PICK u : u = Walk
        OBVIOUS
    <1> DEFINE w == [u EXCEPT !.before[d] = @ - 1, !.pd[d].pre.ok = @ /\ ok,
                              !.heard[d] = IF ok THEN @ + 1 ELSE @]
               later == InitiateLater(w, d, fails)
               lose == [w EXCEPT !.lost = TRUE]
               start == Start(w, d, fails)
    <1>4. SafeWalk(u, hw, R) /\ Typed(u) /\ u \in WalkType /\ KnownAt(u, hw, R, d)
          /\ TypedAt(u, d) /\ hw \in [Domains -> States] /\ AgreedAt(u, d)
        BY <1>3 DEF PdInv, SafeWalk, Typed, Known, Agreed
    <1>5. u.before[d] > 0 /\ u.pd = pd
        BY <1>2, <1>3, WalkIs
    <1>6. \E v : /\ Done(v)
                 /\ \/ v = later /\ w.pd[d].pre.valid
                    \/ v = lose \/ v = w
                    \/ v = start /\ Agreeable(u.pd, d)
        <2>1. Done(CASE w.before[d] = 0 /\ w.pd[d].pre.valid ->
                            IF w.pd[d].pre.ok THEN later ELSE lose
                     [] /\ w.before[d] = 0 /\ ~w.pd[d].pre.valid
                        /\ pd[d].requested # pd[d].toDriver
                        /\ AllowedByParentAndChildren(pd, d, pd[d].requested) -> start
                     [] OTHER -> w)
            BY <1>1, <1>3
        <2> HIDE DEF w, later, lose, start
        <2> QED BY <2>1, <1>5 DEF Agreeable
    <1>7. PICK v : /\ Done(v)
                   /\ \/ v = later /\ w.pd[d].pre.valid
                      \/ v = lose \/ v = w
                      \/ v = start /\ Agreeable(u.pd, d)
        <2> HIDE DEF w, later, lose, start
        <2> QED BY <1>6
    <1> DEFINE c == u.pd[d]
               c1 == [c EXCEPT !.pre = [c.pre EXCEPT !.ok = @ /\ ok]]
    <1>8. c \in Context /\ c.pre \in [state: States, ok: BOOLEAN, valid: BOOLEAN]
        BY <1>4, WalkFields, ContextFields
    <1>9. /\ c1 \in Context /\ c1.requested = c.requested /\ c1.toDriver = c.toDriver
          /\ c1.current = c.current /\ c1.pre.valid = c.pre.valid
        BY <1>8 DEF Context
    <1>10. u.before[d] \in Nat /\ u.heard[d] \in Nat /\ u.before[d] - 1 \in Nat
        BY <1>4, <1>5, WalkFields
    <1> DEFINE more == IF ok THEN u.heard[d] + 1 ELSE u.heard[d]
    <1>11. w = [u EXCEPT !.before = [u.before EXCEPT ![d] = u.before[d] - 1],
                         !.pd = [u.pd EXCEPT ![d] = c1],
                         !.heard = [u.heard EXCEPT ![d] = more]]
        BY <1>4 DEF WalkType
    <1>12. /\ [u.before EXCEPT ![d] = u.before[d] - 1] \in [Domains -> Nat]
           /\ [u.pd EXCEPT ![d] = c1] \in [Domains -> Context]
           /\ [u.heard EXCEPT ![d] = more] \in [Domains -> Nat]
        BY <1>4, <1>9, <1>10, WalkFields
    <1>13. /\ w \in WalkType /\ w.driver = u.driver /\ w.after = u.after
           /\ w.before = [u.before EXCEPT ![d] = u.before[d] - 1]
           /\ w.pd = [u.pd EXCEPT ![d] = c1] /\ w.heard = [u.heard EXCEPT ![d] = more]
        BY <1>4, <1>11, <1>12 DEF WalkType
    <1> HIDE DEF w
    <1>14. /\ w.before[d] = u.before[d] - 1 /\ w.pd[d] = c1 /\ w.heard[d] = more
           /\ \A e \in Domains \ {d} : /\ w.before[e] = u.before[e] /\ w.pd[e] = u.pd[e]
                                       /\ w.heard[e] = u.heard[e]
        BY <1>4, <1>13, WalkFields
    <1> HIDE DEF c1
    <1>15. Frame(w, u, d)
        BY <1>13, <1>14 DEF Frame, SameOutside
    <1>16. Typed(w)
        <2> SUFFICES ASSUME NEW e \in Domains PROVE TypedAt(w, e)
            BY <1>13 DEF Typed
        <2>1. TypedAt(u, e)
            BY <1>4 DEF Typed
        <2>2. CASE e = d
            <3>1. Before[d] \in Nat
                BY PowerDomainAssumption
            <3>2. w.heard[d] + w.before[d] <= Before[d]
                BY <3>1, <2>1, <2>2, <1>10, <1>14 DEF TypedAt
            <3> QED BY <3>2, <2>1, <2>2, <1>9, <1>13, <1>14 DEF TypedAt
        <2>3. CASE e # d
            BY <2>1, <2>3, <1>13, <1>14 DEF TypedAt
        <2> QED BY <2>2, <2>3
    <1>17. KnownAt(w, hw, R, d)
        BY <1>4, <1>9, <1>13, <1>14 DEF KnownAt
    <1>18. MayBe(w, hw, d) = MayBe(u, hw, d)
        BY <1>13 DEF MayBe
    <1>19. SafeWalk(w, hw, R)
        BY <1>4, <1>5, <1>9, <1>14, <1>15, <1>16, <1>17, <1>18, AsideSafe DEF Frame
    <1>20. ~Quiet(u, R, d) /\ Keeps(u, u, R)
        BY <1>5 DEF Quiet, Keeps
    <1>21. Keeps(w, u, R)
        BY <1>9, <1>13, <1>14, <1>15, <1>20, FrameKeeps
    <1>22. (w.pd[d].pre.valid \/ Agreeable(u.pd, d)) => Agreeable(w.pd, d)
        <2>1. w.pd[d].pre.valid => Agreeable(u.pd, d)
            BY <1>4, <1>5, <1>9, <1>14 DEF AgreedAt
        <2> QED BY <2>1, <1>9, <1>14, <1>15, AgreeableFrame
    <1>23. CASE v = later /\ w.pd[d].pre.valid
        <2>1. SafeWalk(later, hw, R) /\ Frame(later, w, d)
            BY <1>19, <1>22, <1>23, InitiateLaterSafe
        <2>2. later.pd[d].requested = w.pd[d].requested /\ (w.driver[d] # None => later.driver[d] # None)
            <3>1. w \in WalkType
                BY <1>13
            <3> QED BY <3>1, InitiateLaterFacts
        <2>3. Keeps(later, u, R)
            <3> HIDE DEF later
            <3> QED BY <2>1, <2>2, <1>20, <1>21, FrameKeeps
        <2> HIDE DEF later
        <2> QED BY <2>1, <2>3, <1>2, <1>3, <1>7, <1>23, KeepsInv
    <1>24. CASE v = lose
        <2>1. "success" \in Answers
            BY DEF Answers
        <2>2. SafeWalk(lose, hw, R)
            BY <2>1, <1>19, LoopSafe
        <2>3. lose.pd = w.pd /\ lose.driver = w.driver /\ lose.before = w.before
            BY <1>13 DEF WalkType
        <2> HIDE DEF lose
        <2>4. Keeps(lose, u, R)
            BY <2>3, <1>21 DEF Keeps, Quiet
        <2> QED BY <2>2, <2>4, <1>2, <1>3, <1>7, <1>24, KeepsInv
    <1>25. CASE v = w
        BY <1>19, <1>21, <1>2, <1>3, <1>7, <1>25, KeepsInv
    <1>26. CASE v = start /\ Agreeable(u.pd, d)
        <2>1. SafeWalk(start, hw, R) /\ Keeps(start, u, R)
            BY <1>19, <1>20, <1>21, <1>22, <1>26, StartKeeps
        <2> HIDE DEF start
        <2> QED BY <2>1, <1>2, <1>3, <1>7, <1>26, KeepsInv
    <1> HIDE DEF later, lose, start
    <1> QED BY <1>7, <1>23, <1>24, <1>25, <1>26

\* The answers due after a transition, and what is noted of it, play no part.
LEMMA PostSafe ==
    ASSUME NEW w, NEW h, NEW R, NEW d \in Domains, NEW s \in States, NEW t \in States,
           NEW n \in 0 .. After[d], SafeWalk(w, h, R)
    PROVE  \A v \in {[w EXCEPT !.after[d] = n],
                     [w EXCEPT !.after[d] = n, !.pd[d].post.previous = t],
                     [w EXCEPT !.after[d] = n, !.pd[d].post.state = s]} :
              SafeWalk(v, h, R) /\ Keeps(v, w, R)
    <1> SUFFICES ASSUME NEW v \in {[w EXCEPT !.after[d] = n],
                                   [w EXCEPT !.after[d] = n, !.pd[d].post.previous = t],
                                   [w EXCEPT !.after[d] = n, !.pd[d].post.state = s]}
                 PROVE  SafeWalk(v, h, R) /\ Keeps(v, w, R)
        OBVIOUS
    <1> DEFINE c == w.pd[d]
               p == c.post
               a == [c EXCEPT !.post = [p EXCEPT !.previous = t]]
               b == [c EXCEPT !.post = [p EXCEPT !.state = s]]
    <1>1. w \in WalkType /\ Typed(w) /\ c \in Context /\ p \in [state: States, previous: States]
        BY WalkFields, ContextFields DEF SafeWalk, Typed
    <1>2. \A x \in {a, b} :
             /\ x \in Context /\ x.requested = c.requested /\ x.toDriver = c.toDriver
             /\ x.current = c.current /\ x.pre = c.pre
        BY <1>1 DEF Context
    <1>3. n \in Nat /\ After[d] \in Nat /\ n <= After[d]
        BY PowerDomainAssumption
    <1>4. \E x \in {a, b, c} :
             v = [w EXCEPT !.after = [w.after EXCEPT ![d] = n], !.pd = [w.pd EXCEPT ![d] = x]]
        <2>1. c = w.pd[d] /\ w.pd = [w.pd EXCEPT ![d] = c]
            BY <1>1, WalkFields
        <2>2. CASE v = [w EXCEPT !.after[d] = n]
            <3>1. v = [w EXCEPT !.after = [w.after EXCEPT ![d] = n],
                                !.pd = [w.pd EXCEPT ![d] = c]]
                BY <2>1, <2>2, <1>1 DEF WalkType
            <3> QED BY <3>1
        <2>3. CASE v = [w EXCEPT !.after[d] = n, !.pd[d].post.previous = t]
            <3>1. v = [w EXCEPT !.after = [w.after EXCEPT ![d] = n],
                                !.pd = [w.pd EXCEPT ![d] = a]]
                BY <2>3, <1>1 DEF WalkType
            <3> QED BY <3>1
        <2>4. CASE v = [w EXCEPT !.after[d] = n, !.pd[d].post.state = s]
            <3>1. v = [w EXCEPT !.after = [w.after EXCEPT ![d] = n],
                                !.pd = [w.pd EXCEPT ![d] = b]]
                BY <2>4, <1>1 DEF WalkType
            <3> QED BY <3>1
        <2> QED BY <2>2, <2>3, <2>4
    <1>5. \A x \in {a, b, c} :
             /\ x \in Context /\ x.requested = c.requested /\ x.toDriver = c.toDriver
             /\ x.current = c.current /\ x.pre = c.pre
        BY <1>1, <1>2
    <1> HIDE DEF a, b
    <1>6. PICK x \in {a, b, c} :
             v = [w EXCEPT !.after = [w.after EXCEPT ![d] = n], !.pd = [w.pd EXCEPT ![d] = x]]
        BY <1>4
    <1>7. /\ [w.after EXCEPT ![d] = n] \in [Domains -> Nat]
          /\ [w.pd EXCEPT ![d] = x] \in [Domains -> Context]
        BY <1>1, <1>3, <1>5, WalkFields
    <1>8. /\ v \in WalkType /\ v.before = w.before /\ v.heard = w.heard /\ v.driver = w.driver
          /\ v.after = [w.after EXCEPT ![d] = n] /\ v.pd = [w.pd EXCEPT ![d] = x]
        BY <1>1, <1>6, <1>7 DEF WalkType
    <1>9. /\ v.after[d] = n /\ v.pd[d] = x
          /\ \A e \in Domains \ {d} : v.after[e] = w.after[e] /\ v.pd[e] = w.pd[e]
        BY <1>1, <1>8, WalkFields
    <1>10. \A e \in Domains :
             /\ v.pd[e].requested = w.pd[e].requested /\ v.pd[e].toDriver = w.pd[e].toDriver
             /\ v.pd[e].current = w.pd[e].current /\ v.pd[e].pre = w.pd[e].pre
        BY <1>5, <1>9
    <1>11. Typed(v)
        <2> SUFFICES ASSUME NEW e \in Domains PROVE TypedAt(v, e)
            BY <1>8 DEF Typed
        <2>1. TypedAt(w, e)
            BY <1>1 DEF Typed
        <2> QED BY <2>1, <1>3, <1>8, <1>9, <1>10 DEF TypedAt
    <1>12. AsAsked(v)
        BY <1>10, TreeFacts DEF SafeWalk, AsAsked
    <1>13. Known(v, h, R)
        BY <1>8, <1>10 DEF SafeWalk, Known, KnownAt
    <1>14. PairsSafe(v, h)
        BY <1>8 DEF SafeWalk, PairsSafe, MayBe
    <1>15. Agreed(v)
        <2> SUFFICES ASSUME NEW e \in Domains PROVE AgreedAt(v, e)
            BY DEF Agreed
        <2>1. AgreedAt(w, e)
            BY DEF SafeWalk, Agreed
        <2>2. e # Root => Parent[e] \in Domains
            BY TreeFacts
        <2>3. \A f \in Children(e) : f \in Domains
            BY TreeFacts
        <2> QED BY <2>1, <2>2, <2>3, <1>8, <1>10
            DEF AgreedAt, Agreeable, AllowedByParentAndChildren
    <1>16. SafeWalk(v, h, R)
        BY <1>11, <1>12, <1>13, <1>14, <1>15 DEF SafeWalk
    <1>17. Keeps(v, w, R)
        BY <1>8, <1>10 DEF Keeps, Quiet
    <1> QED BY <1>16, <1>17

LEMMA AnswerAfterInv ==
    ASSUME PdInv, NEW d \in Domains, AnswerAfter(d)
    PROVE  PdInv'
    <1> DEFINE R == Reporting(queue)
               current == pd[d].current
    <1>1. PICK u : u = Walk
        OBVIOUS
    <1> DEFINE w == [u EXCEPT !.after[d] = @ - 1]
               noted == [w EXCEPT !.pd[d].post.previous = current]
               again == [w EXCEPT !.pd[d].post.state = current, !.after[d] = After[d]]
               on(fails) == Propagate(noted, d, current, w.pd[d].post.previous, fails)
    <1>2. PICK fails \in Failures :
             Done(CASE w.after[d] # 0 -> w
                    [] w.after[d] = 0 /\ w.pd[d].post.state = current -> on(fails)
                    [] OTHER -> again)
        BY <1>1 DEF AnswerAfter
    <1>3. /\ after[d] > 0
          /\ suspend' = suspend /\ queue' = queue /\ hw' = hw /\ asks' = asks
        BY DEF AnswerAfter
    <1>4. SafeWalk(u, hw, R) /\ Typed(u) /\ u \in WalkType /\ TypedAt(u, d)
        BY <1>1 DEF PdInv, SafeWalk, Typed
    <1>5. u.after[d] > 0 /\ u.pd = pd
        BY <1>1, <1>3, WalkIs
    <1>6. current \in States /\ After[d] \in Nat /\ u.after[d] \in Nat
        BY <1>4, <1>5, WalkFields, ContextFields, PowerDomainAssumption
    <1>7. u.after[d] - 1 \in 0 .. After[d] /\ After[d] \in 0 .. After[d]
        BY <1>4, <1>5, <1>6 DEF TypedAt
    <1> DEFINE n == u.after[d] - 1
    <1>8. w = [u EXCEPT !.after[d] = n]
        OBVIOUS
    <1>9. noted = [u EXCEPT !.after[d] = n, !.pd[d].post.previous = current]
        BY <1>4 DEF WalkType
    <1>10. again = [u EXCEPT !.after[d] = After[d], !.pd[d].post.state = current]
        <2>1. [[u.after EXCEPT ![d] = n] EXCEPT ![d] = After[d]] = [u.after EXCEPT ![d] = After[d]]
            BY <1>4, WalkFields
        <2> QED BY <2>1, <1>4 DEF WalkType
    <1> HIDE DEF w, noted, again, current, n
    <1>11. /\ SafeWalk(w, hw, R) /\ Keeps(w, u, R)
           /\ SafeWalk(noted, hw, R) /\ Keeps(noted, u, R)
        BY <1>4, <1>6, <1>7, <1>8, <1>9, PostSafe DEF n
    <1>12. SafeWalk(again, hw, R) /\ Keeps(again, u, R)
        BY <1>4, <1>6, <1>7, <1>10, PostSafe
    <1>13. SafeWalk(on(fails), hw, R) /\ Keeps(on(fails), noted, R)
        BY <1>11, PropagateSafe
    <1> DEFINE x == on(fails)
    <1> HIDE DEF on
    <1>14. Keeps(x, u, R)
        BY <1>11, <1>13 DEF Keeps
    <1>15. PICK v : Done(v) /\ v \in {w, x, again}
        BY <1>2
    <1> HIDE DEF x
    <1>16. SafeWalk(v, hw, R) /\ Keeps(v, Walk, R)
        BY <1>1, <1>11, <1>12, <1>13, <1>14, <1>15 DEF x
    <1> QED BY <1>3, <1>15, <1>16, KeepsInv

-----------------------------------------------------------------------------
(* The events.                                                             *)

LEMMA TakeFacts ==
    ASSUME PdInv, NEW kind, Take(kind)
    PROVE  /\ queue \in Seq(Events) /\ queue # <<>> /\ queue' = Tail(queue)
           /\ queue' \in Seq(Events) /\ Head(queue) \in Events /\ Head(queue).kind = kind
           /\ 1 \in Calls(queue, kind) /\ Head(queue) = queue[1]
           /\ RequestsQuiet(Walk, queue) /\ SuspendQuiet(Walk, queue, suspend)
    <1>1. queue \in Seq(Events) /\ queue # <<>> /\ queue' = Tail(queue) /\ Head(queue).kind = kind
        BY DEF Take, PdInv
    <1> QED BY <1>1, QueueTail DEF PdInv, Calls

LEMMA ProcessSetStateInv ==
    ASSUME PdInv, ProcessSetState
    PROVE  PdInv'
    <1> DEFINE R == Reporting(queue)
               r == Head(queue).request
               id == Head(queue).id
    <1>1. PICK u : u = Walk
        OBVIOUS
    <1>2. PICK fails \in Failures : Done(SetStates(u, r[1], r[2], id, fails))
        BY <1>1 DEF ProcessSetState
    <1>3. /\ Take("set") /\ hw' = hw /\ asks' = asks
          /\ suspend' = [suspend EXCEPT !.ongoing = FALSE]
        BY DEF ProcessSetState
    <1>4. /\ queue \in Seq(Events) /\ queue # <<>> /\ queue' = Tail(queue)
          /\ queue' \in Seq(Events) /\ Head(queue) \in Events /\ Head(queue).kind = "set"
          /\ 1 \in Calls(queue, "set") /\ Head(queue) = queue[1]
          /\ RequestsQuiet(Walk, queue) /\ SuspendQuiet(Walk, queue, suspend)
        BY <1>3, TakeFacts
    <1>5. /\ r \in Requests /\ id \in Ids /\ Valid(r[1], r[2])
          /\ \A d \in Levels(r) : Quiet(u, R, d)
        BY <1>1, <1>4, EventFacts DEF RequestsQuiet
    <1>6. Reporting(queue') = R
        <2>1. Head(queue).kind # "report"
            BY <1>4
        <2> QED BY <2>1, <1>4, ReportingTail
    <1> HIDE DEF r, id
    <1>7. /\ r[1] \in Domains /\ r[2] \in Seq(States) /\ Len(r[2]) <= Len(Path[r[1]])
          /\ Levels(r) = {Path[r[1]][k] : k \in 1 .. Len(r[2])}
          /\ Levels(r) \subseteq Domains
        BY <1>5, RequestLevels
    <1> DEFINE v == SetStates(u, r[1], r[2], id, fails)
    <1>8. SafeWalk(v, hw, R) /\ SameOutside(v, u, Levels(r))
        <2> DEFINE d == r[1]
                   states == r[2]
        <2>1. SafeWalk(u, hw, R)
            BY <1>1 DEF PdInv
        <2>2. \A k \in 1 .. Len(states) :
                 states[k] = u.pd[Path[d][k]].requested \/ Quiet(u, R, Path[d][k])
            BY <1>5, <1>7
        <2>3. d \in Domains /\ states \in Seq(States) /\ id \in Ids \cup {None}
              /\ Len(states) <= Len(Path[d])
            BY <1>5, <1>7
        <2>4. Levels(r) = {Path[d][k] : k \in 1 .. Len(states)}
            BY <1>7
        <2> HIDE DEF d, states, R
        <2>5. LET x == SetStates(u, d, states, id, fails)
              IN /\ SafeWalk(x, hw, R)
                 /\ SameOutside(x, u, {Path[d][k] : k \in 1 .. Len(states)})
            BY <2>1, <2>2, <2>3, SetStatesSafe
        <2> QED BY <2>4, <2>5 DEF d, states
    <1> HIDE DEF v
    <1>9. Done(v)
        BY <1>2 DEF v
    <1>10. PICK x : x = Walk'
        OBVIOUS
    <1>11. SafeWalk(x, hw, R) /\ x.pd = v.pd /\ x.driver = v.driver /\ x.before = v.before
        BY <1>8, <1>9, <1>10, DoneSafe
    <1>12. \A e \in Domains \ Levels(r) : Quiet(u, R, e) => Quiet(x, R, e)
        BY <1>8, <1>11 DEF SameOutside, Quiet
    <1>13. RequestsQuiet(x, queue')
        <2>1. \A i \in Calls(queue, "set") : i # 1 => Levels(queue[i].request) \cap Levels(r) = {}
            BY <1>4 DEF RequestsQuiet, r
        <2>2. \A e \in Domains \ Levels(r) :
                 Quiet(u, Reporting(queue), e) => Quiet(x, Reporting(Tail(queue)), e)
            BY <1>4, <1>6, <1>12
        <2>3. RequestsQuiet(u, queue)
            BY <1>1, <1>4
        <2> QED BY <2>1, <2>2, <2>3, <1>4, TailQuiet
    <1>14. Calls(queue', "suspend") = {}
        <2> SUFFICES ASSUME NEW j \in DOMAIN Tail(queue), Tail(queue)[j].kind = "suspend"
                     PROVE  FALSE
            BY <1>4 DEF Calls
        <2>1. j + 1 \in Calls(queue, "suspend") /\ Len(Tail(queue)) = Len(queue) - 1
            BY <1>4, QueueTail DEF Calls
        <2>2. Len(queue) = 1
            BY <2>1, <1>4 DEF SuspendQuiet
        <2>3. Len(Tail(queue)) = 0
            BY <2>1, <2>2
        <2>4. DOMAIN Tail(queue) = 1 .. Len(Tail(queue))
            BY <1>4, LenProperties
        <2>5. DOMAIN Tail(queue) = {}
            BY <2>3, <2>4, SMTT(30)
        <2> QED BY <2>5
    <1>15. /\ ~suspend'.ongoing
           /\ suspend' \in [ongoing: BOOLEAN, core: Cores \cup {None}, state: States]
        BY <1>3 DEF PdInv
    <1>16. SuspendQuiet(x, queue', suspend')
        BY <1>14, <1>15 DEF SuspendQuiet
    <1>17. SafeWalk(x, hw', Reporting(queue')) /\ asks' \in 0 .. MaxAsks
        BY <1>3, <1>6, <1>11 DEF PdInv
    <1> QED BY <1>4, <1>10, <1>13, <1>15, <1>16, <1>17 DEF PdInv

LEMMA ProcessSuspendInv ==
    ASSUME PdInv, ProcessSuspend
    PROVE  PdInv'
    <1>1. Take("suspend") /\ hw' = hw /\ asks' = asks
        BY DEF ProcessSuspend
    <1>2. /\ queue \in Seq(Events) /\ queue # <<>> /\ queue' = Tail(queue)
          /\ queue' \in Seq(Events) /\ Head(queue) \in Events
          /\ Head(queue).kind = "suspend" /\ 1 \in Calls(queue, "suspend")
          /\ RequestsQuiet(Walk, queue) /\ SuspendQuiet(Walk, queue, suspend)
        BY <1>1, TakeFacts
    <1>3. PICK w : w = Walk
        OBVIOUS
    <1> DEFINE R == Reporting(queue)
    <1>4. ~suspend.ongoing /\ Len(queue) = 1 /\ \A d \in Domains : Quiet(w, R, d)
        BY <1>2, <1>3 DEF SuspendQuiet
    <1>5. Reporting(queue') = R
        <2>1. Head(queue).kind # "report"
            BY <1>2
        <2> QED BY <2>1, <1>2, ReportingTail
    <1>6. Calls(queue', "set") = {} /\ Calls(queue', "suspend") = {}
        <2>1. Len(Tail(queue)) = 0
            BY <1>2, <1>4, QueueTail
        <2>2. DOMAIN Tail(queue) = 1 .. Len(Tail(queue))
            BY <1>2, LenProperties
        <2> QED BY <2>1, <2>2, <1>2 DEF Calls
    <1>7. asks' \in 0 .. MaxAsks
        BY <1>1 DEF PdInv
    <1>8. SafeWalk(w, hw, R)
        BY <1>3 DEF PdInv
    <1>9. CASE UNCHANGED <<pd, before, after, driver, answer, heard, lost, suspend>>
        <2>1. Walk' = w
            BY <1>3, <1>9 DEF Walk
        <2>2. RequestsQuiet(w, queue')
            BY <1>6 DEF RequestsQuiet
        <2>3. SuspendQuiet(w, queue', suspend')
            BY <1>4, <1>6, <1>9 DEF SuspendQuiet
        <2>4. SafeWalk(w, hw', Reporting(queue'))
            BY <1>1, <1>5, <1>8
        <2> QED BY <2>1, <2>2, <2>3, <2>4, <1>2, <1>7, <1>9 DEF PdInv
    <1> DEFINE busy == {d \in Domains : pd[d].requested # "OFF" \/ pd[d].current # "OFF"}
               core == Min(busy \cap Cores)
    <1>10. CASE /\ busy \cap Cores # {}
                /\ suspend' = [ongoing |-> TRUE, core |-> core, state |-> Head(queue).state]
                /\ pd' = [pd EXCEPT ![core].requested = "OFF", ![core].toDriver = "OFF"]
                /\ driver' = [driver EXCEPT ![core] = "OFF"]
                /\ UNCHANGED <<before, after, answer, heard, lost>>
        <2>1. core \in Cores /\ core \in Domains \ {Root}
            <3> DEFINE S == busy \cap Cores
            <3>1. S \subseteq Nat /\ S # {} /\ S \subseteq Cores /\ Cores \subseteq Domains \ {Root}
                BY <1>10, TreeFacts, PowerDomainAssumption
            <3> HIDE DEF S
            <3>2. Min(S) \in S
                BY <3>1, MinFacts
            <3> QED BY <3>1, <3>2 DEF S
        <2> HIDE DEF core
        <2>2. PICK k \in Cores : k = core
            BY <2>1
        <2>3. /\ k \in Domains /\ k # Root /\ Children(k) = {} /\ Parent[k] \in Domains
              /\ Parent[k] # k
            BY <2>1, <2>2, CoreAssumption, TreeFacts
        <2>4. PICK v : v = Walk'
            OBVIOUS
        <2> DEFINE c == w.pd[k]
                   c1 == [c EXCEPT !.requested = "OFF", !.toDriver = "OFF"]
        <2>5. w \in WalkType /\ Typed(w) /\ c \in Context /\ "OFF" \in States /\ None \notin States
              /\ hw \in [Domains -> States]
            BY <1>8, <2>3, WalkFields, ContextFields, PowerDomainAssumption DEF SafeWalk, Typed
        <2>6. /\ c1 \in Context /\ c1.requested = "OFF" /\ c1.toDriver = "OFF"
              /\ c1.current = c.current /\ c1.pre = c.pre
            BY <2>5 DEF Context
        <2>7. /\ pd' = [w.pd EXCEPT ![k] = c1] /\ driver' = [w.driver EXCEPT ![k] = "OFF"]
              /\ before' = w.before /\ after' = w.after /\ heard' = w.heard
              /\ answer' = w.answer /\ lost' = w.lost
            BY <1>3, <1>10, <2>2 DEF Walk
        <2> HIDE DEF c1
        <2>8. /\ w.pd \in [Domains -> Context] /\ w.before \in [Domains -> Nat]
              /\ w.after \in [Domains -> Nat] /\ w.heard \in [Domains -> Nat]
              /\ w.driver \in [Domains -> States \cup {None}]
              /\ w.answer \in [Ids -> Answers \cup {None}] /\ w.lost \in BOOLEAN
            BY <2>5, WalkFields
        <2>9. /\ [w.pd EXCEPT ![k] = c1] \in [Domains -> Context]
              /\ [w.driver EXCEPT ![k] = "OFF"] \in [Domains -> States \cup {None}]
            BY <2>3, <2>5, <2>6, <2>8
        <2>10. "success" \in Answers
            BY DEF Answers
        <2>11. v \in WalkType
            <3>1. Walk' \in WalkType
                BY <2>7, <2>8, <2>9, <2>10 DEF Walk, WalkType
            <3> QED BY <3>1, <2>4
        <2>12. /\ v.pd = [w.pd EXCEPT ![k] = c1] /\ v.driver = [w.driver EXCEPT ![k] = "OFF"]
               /\ v.before = w.before /\ v.after = w.after /\ v.heard = w.heard
            BY <2>4, <2>7 DEF Walk
        <2>13. /\ v.pd[k] = c1 /\ v.driver[k] = "OFF"
               /\ \A e \in Domains \ {k} : v.pd[e] = w.pd[e] /\ v.driver[e] = w.driver[e]
            BY <2>3, <2>8, <2>12
        <2>14. Typed(v)
            <3> SUFFICES ASSUME NEW e \in Domains PROVE TypedAt(v, e)
                BY <2>11 DEF Typed
            <3>1. TypedAt(w, e)
                BY <2>5 DEF Typed
            <3> QED BY <3>1, <2>6, <2>12, <2>13 DEF TypedAt
        <2>15. SameOutside(v, w, {k})
            BY <2>12, <2>13 DEF SameOutside
        <2>16. \A d \in Domains : w.driver[d] = None /\ d \notin R /\ hw[d] = w.pd[d].current
            BY <1>4, <1>8 DEF Quiet, SafeWalk, Known, KnownAt
        <2>17. "OFF" \in Allowed[k][w.pd[Parent[k]].requested]
            <3>1. w.pd[k].requested \in Allowed[k][w.pd[Parent[k]].requested]
                BY <1>8, <2>3 DEF SafeWalk, AsAsked
            <3>2. w.pd[Parent[k]].requested \in States
                BY <2>3, <2>8, ContextFields
            <3> QED BY <3>1, <3>2, CoreAssumption
        <2>18. "OFF" \in Allowed[k][w.pd[Parent[k]].current]
            <3>1. hw[k] \in MayBe(w, hw, k) /\ hw[Parent[k]] \in MayBe(w, hw, Parent[k])
                BY <2>3, <2>5 DEF MayBe
            <3>2. hw[k] \in Allowed[k][hw[Parent[k]]]
                BY <3>1, <1>8, <2>3 DEF SafeWalk, PairsSafe
            <3>3. hw[Parent[k]] \in States /\ hw[Parent[k]] = w.pd[Parent[k]].current
                BY <2>3, <2>5, <2>16
            <3> QED BY <3>2, <3>3, CoreAssumption
        <2>19. Agreeable(v.pd, k)
            BY <2>3, <2>6, <2>13, <2>18 DEF Agreeable, AllowedByParentAndChildren
        <2>20. KnownAt(v, hw, R, k)
            BY <2>3, <2>5, <2>6, <2>13, <2>16 DEF KnownAt
        <2>21. \A s \in MayBe(v, hw, k) : s \in MayBe(w, hw, k) \/ s = v.pd[k].requested
            BY <2>6, <2>13 DEF MayBe
        <2>22. Change(w, hw, R, v, hw, R, k)
            BY <2>3, <2>6, <2>13, <2>15, <2>17, <2>19, <2>20, <2>21 DEF Change, AgreedAt
        <2>23. SafeWalk(v, hw, R)
            BY <1>8, <2>3, <2>5, <2>14, <2>22, ChangeSafe
        <2>24. RequestsQuiet(v, queue')
            BY <1>6 DEF RequestsQuiet
        <2>25. /\ suspend' \in [ongoing: BOOLEAN, core: Cores \cup {None}, state: States]
               /\ suspend'.core = k
            BY <1>2, <1>10, <2>1, <2>2, EventFacts
        <2>26. \A d \in Domains \ {k} : Quiet(v, R, d)
            BY <1>4, <2>12, <2>13 DEF Quiet
        <2>27. v.driver[k] # None /\ v.pd[k].requested = "OFF"
            BY <2>5, <2>6, <2>13
        <2>28. SuspendQuiet(v, queue', suspend')
            BY <1>5, <1>6, <2>25, <2>26, <2>27 DEF SuspendQuiet
        <2>29. SafeWalk(v, hw', Reporting(queue'))
            BY <1>1, <1>5, <2>23
        <2> QED BY <1>2, <1>7, <2>4, <2>24, <2>25, <2>28, <2>29 DEF PdInv
    <1> QED BY <1>9, <1>10 DEF ProcessSuspend

\* The report of domain d: it is in the state that was asked for, and a driver
\* that reports it has nothing left to do.
LEMMA ReportedSafe ==
    ASSUME NEW h, NEW R, NEW S, NEW d \in Domains, NEW s \in States,
           SafeWalk(Walk, h, R), d \in R, \A e : e # d => (e \in S <=> e \in R)
    PROVE  LET v == Reported(d, s)
           IN /\ SafeWalk(v, h, S) /\ SameOutside(v, Walk, {d})
              /\ v.pd[d].requested = pd[d].requested
              /\ v.pd[d].toDriver = v.pd[d].requested
              /\ v.before = before /\ v.after[d] <= After[d]
    <1> DEFINE u == IF s = pd[d].driverState THEN Respond(Walk, d, "success") ELSE Walk
               c == u.pd[d]
               v == Reported(d, s)
    <1>1. PICK w : w = Walk
        OBVIOUS
    <1>2. SafeWalk(w, h, R) /\ Typed(w) /\ w \in WalkType /\ KnownAt(w, h, R, d)
          /\ h \in [Domains -> States]
        BY <1>1 DEF SafeWalk, Typed, Known
    <1>3. /\ u \in WalkType /\ u.before = w.before /\ u.after = w.after
          /\ u.driver = w.driver /\ u.heard = w.heard
          /\ \A e \in Domains :
                /\ u.pd[e].requested = w.pd[e].requested
                /\ u.pd[e].toDriver = w.pd[e].toDriver
                /\ u.pd[e].current = w.pd[e].current /\ u.pd[e].pre = w.pd[e].pre
        <2>1. "success" \in Answers
            BY DEF Answers
        <2>2. CASE s = pd[d].driverState
            <3>1. u = Respond(w, d, "success")
                BY <1>1, <2>2
            <3> HIDE DEF u
            <3>2. LET x == Respond(w, d, "success")
                  IN /\ x \in WalkType /\ x.before = w.before /\ x.after = w.after
                     /\ x.driver = w.driver /\ x.heard = w.heard
                     /\ \A e \in Domains :
                           /\ x.pd[e].requested = w.pd[e].requested
                           /\ x.pd[e].toDriver = w.pd[e].toDriver
                           /\ x.pd[e].current = w.pd[e].current /\ x.pd[e].pre = w.pd[e].pre
                BY <1>2, <2>1, RespondFacts
            <3> QED BY <3>1, <3>2
        <2>3. CASE s # pd[d].driverState
            BY <1>1, <1>2, <2>3
        <2> QED BY <2>2, <2>3
    <1> DEFINE p == [c.post EXCEPT !.state = IF after[d] = 0 THEN s ELSE @]
               c1 == [c EXCEPT !.current = w.pd[d].requested, !.post = p]
               n == IF u.after[d] = 0 THEN After[d] ELSE u.after[d]
    <1>4. c \in Context /\ w.pd[d].requested \in States /\ After[d] \in Nat
        BY <1>2, <1>3, WalkFields, ContextFields, PowerDomainAssumption
    <1>5. p \in [state: States, previous: States]
        BY <1>4 DEF Context
    <1> HIDE DEF p, u
    <1>6. /\ c1 \in Context /\ c1.requested = c.requested /\ c1.toDriver = c.toDriver
          /\ c1.current = w.pd[d].requested /\ c1.pre = c.pre
        BY <1>4, <1>5 DEF Context
    <1>7. v = [u EXCEPT !.pd[d] = [@ EXCEPT !.current = u.pd[d].requested, !.post = p],
                        !.after[d] = IF @ = 0 THEN After[d] ELSE @]
        BY DEF Reported, u, p
    <1>8. u.pd[d].requested = w.pd[d].requested
        BY <1>3
    <1> HIDE DEF v
    <1>9. v = [u EXCEPT !.pd = [u.pd EXCEPT ![d] = c1], !.after = [u.after EXCEPT ![d] = n]]
        <2> HIDE DEF p
        <2>1. v = [u EXCEPT !.pd = [u.pd EXCEPT ![d] = [c EXCEPT !.current = u.pd[d].requested,
                                                                 !.post = p]],
                            !.after = [u.after EXCEPT ![d] = n]]
            BY <1>3, <1>7 DEF WalkType
        <2> QED BY <2>1, <1>8
    <1>10. u.after[d] \in Nat /\ u.pd \in [Domains -> Context] /\ u.after \in [Domains -> Nat]
           /\ u.driver \in [Domains -> States \cup {None}]
        BY <1>3, WalkFields
    <1>11. [u.pd EXCEPT ![d] = c1] \in [Domains -> Context]
           /\ [u.after EXCEPT ![d] = n] \in [Domains -> Nat]
        BY <1>4, <1>6, <1>10
    <1> HIDE DEF c1
    <1>12. /\ v \in WalkType /\ v.before = u.before /\ v.heard = u.heard
           /\ v.driver = u.driver
           /\ v.pd = [u.pd EXCEPT ![d] = c1] /\ v.after = [u.after EXCEPT ![d] = n]
        BY <1>3, <1>9, <1>11 DEF WalkType
    <1>13. /\ v.pd[d] = c1 /\ v.after[d] = n
           /\ \A e \in Domains \ {d} : v.pd[e] = u.pd[e] /\ v.after[e] = u.after[e]
        BY <1>10, <1>12
    <1>14. TypedAt(w, d)
        BY <1>2 DEF Typed
    <1>15. n <= After[d]
        BY <1>3, <1>4, <1>14 DEF TypedAt
    <1> HIDE DEF n
    <1>16. SameOutside(v, w, {d})
        BY <1>3, <1>12, <1>13 DEF SameOutside
    <1>17. /\ v.pd[d].requested = w.pd[d].requested /\ v.pd[d].toDriver = w.pd[d].toDriver
           /\ v.pd[d].current = w.pd[d].requested /\ v.pd[d].pre = w.pd[d].pre
           /\ v.driver = w.driver /\ v.before = w.before /\ v.heard = w.heard
        BY <1>3, <1>6, <1>12, <1>13
    <1>18. Typed(v)
        <2> SUFFICES ASSUME NEW e \in Domains PROVE TypedAt(v, e)
            BY <1>12 DEF Typed
        <2>1. TypedAt(w, e)
            BY <1>2 DEF Typed
        <2>2. CASE e = d
            BY <2>1, <2>2, <1>13, <1>15, <1>17 DEF TypedAt
        <2>3. CASE e # d
            BY <2>1, <2>3, <1>3, <1>13, <1>17 DEF TypedAt
        <2> QED BY <2>2, <2>3
    <1>19. h[d] = w.pd[d].requested /\ w.pd[d].toDriver = w.pd[d].requested
        BY <1>2 DEF KnownAt
    <1>20. KnownAt(v, h, S, d)
        BY <1>2, <1>17, <1>19 DEF KnownAt
    <1>21. MayBe(v, h, d) \subseteq MayBe(w, h, d)
        BY <1>17 DEF MayBe
    <1>22. SafeWalk(v, h, S)
        <2>1. \A e \in Domains \ {d} : h[e] = h[e] /\ (e \in S <=> e \in R)
            OBVIOUS
        <2>2. /\ v.pd[d].requested = w.pd[d].requested
              /\ v.pd[d].current \in {w.pd[d].current, w.pd[d].requested}
              /\ v.before[d] > 0 /\ v.pd[d].pre.valid => w.before[d] > 0 /\ w.pd[d].pre.valid
            BY <1>17
        <2> QED BY <2>1, <2>2, <1>2, <1>16, <1>18, <1>20, <1>21, AsideSafe
    <1>23. /\ v.pd[d].requested = pd[d].requested /\ v.pd[d].toDriver = v.pd[d].requested
           /\ v.before = before /\ v.after[d] <= After[d]
        BY <1>1, <1>13, <1>15, <1>17, <1>19, WalkIs
    <1> QED BY <1>1, <1>16, <1>22, <1>23 DEF v

\* What a walk from a report leaves, the suspension not being finished by it.
LEMMA ReportTaken ==
    ASSUME PdInv, Take("report"), NEW v, SafeWalk(v, hw, Reporting(Tail(queue))), Done(v),
           \A e \in Domains :
               Quiet(Walk, Reporting(queue), e) => Quiet(v, Reporting(Tail(queue)), e),
           ~suspend'.ongoing,
           suspend' \in [ongoing: BOOLEAN, core: Cores \cup {None}, state: States],
           hw' = hw, asks' = asks
    PROVE  PdInv'
    <1>1. /\ queue \in Seq(Events) /\ queue # <<>> /\ queue' = Tail(queue)
          /\ queue' \in Seq(Events) /\ Head(queue) \in Events
          /\ Head(queue).kind = "report" /\ 1 \in Calls(queue, "report")
          /\ Head(queue) = queue[1]
          /\ RequestsQuiet(Walk, queue) /\ SuspendQuiet(Walk, queue, suspend)
        BY TakeFacts
    <1>2. PICK u : u = Walk
        OBVIOUS
    <1>3. PICK x : x = Walk'
        OBVIOUS
    <1>4. SafeWalk(x, hw, Reporting(Tail(queue))) /\ x.pd = v.pd /\ x.driver = v.driver
          /\ x.before = v.before
        BY <1>3, DoneSafe
    <1>5. \A e \in Domains \ {} :
             Quiet(u, Reporting(queue), e) => Quiet(x, Reporting(Tail(queue)), e)
        BY <1>2, <1>4 DEF Quiet
    <1>6. RequestsQuiet(x, Tail(queue))
        <2>1. RequestsQuiet(u, queue)
            BY <1>1, <1>2
        <2>2. \A i \in Calls(queue, "set") : i # 1 => Levels(queue[i].request) \cap {} = {}
            OBVIOUS
        <2> QED BY <2>1, <2>2, <1>1, <1>5, TailQuiet
    <1>7. Calls(queue, "suspend") = {}
        <2>1. Head(queue).domain \in Domains /\ Head(queue).domain \in Reporting(queue)
            BY <1>1, EventFacts, ReportingTail
        <2> QED BY <2>1, <1>1 DEF SuspendQuiet, Quiet
    <1>8. Calls(Tail(queue), "suspend") = {}
        <2>1. \A j \in DOMAIN Tail(queue) : j + 1 \in DOMAIN queue /\ Tail(queue)[j] = queue[j + 1]
            BY <1>1, QueueTail
        <2> QED BY <2>1, <1>7 DEF Calls
    <1>9. SuspendQuiet(x, queue', suspend')
        BY <1>1, <1>8 DEF SuspendQuiet
    <1>10. asks' \in 0 .. MaxAsks
        BY DEF PdInv
    <1> QED BY <1>1, <1>3, <1>4, <1>6, <1>9, <1>10 DEF PdInv

\* Notes in the context of a domain that a walk does not look at.
LEMMA NoteSafe ==
    ASSUME NEW w, NEW h, NEW R, NEW d \in Domains, NEW c \in Context, SafeWalk(w, h, R),
           c.requested = w.pd[d].requested, c.toDriver = w.pd[d].toDriver,
           c.current = w.pd[d].current, c.pre = w.pd[d].pre
    PROVE  LET v == [w EXCEPT !.pd[d] = c] IN SafeWalk(v, h, R) /\ Keeps(v, w, R)
    <1> DEFINE v == [w EXCEPT !.pd[d] = c]
    <1>1. w \in WalkType /\ w.pd \in [Domains -> Context]
        BY WalkFields DEF SafeWalk, Typed
    <1>2. [w.pd EXCEPT ![d] = c] \in [Domains -> Context]
        BY <1>1
    <1>3. /\ v \in WalkType /\ v.pd = [w.pd EXCEPT ![d] = c] /\ v.before = w.before
          /\ v.after = w.after /\ v.heard = w.heard /\ v.driver = w.driver
        BY <1>1, <1>2 DEF WalkType
    <1> HIDE DEF v
    <1>4. \A e \in Domains :
             /\ v.pd[e].requested = w.pd[e].requested /\ v.pd[e].toDriver = w.pd[e].toDriver
             /\ v.pd[e].current = w.pd[e].current /\ v.pd[e].pre = w.pd[e].pre
        BY <1>1, <1>3
    <1>5. SafeWalk(v, h, R)
        BY <1>3, <1>4, SafeContexts
    <1>6. Keeps(v, w, R)
        BY <1>3, <1>4 DEF Keeps, Quiet
    <1> QED BY <1>5, <1>6 DEF v

\* The last core is off, and so are the domains that the suspension asks.
LEMMA CompleteSuspendSafe ==
    ASSUME NEW w, NEW h, NEW R, NEW d \in Cores, NEW state \in States, NEW fails,
           SafeWalk(w, h, R), w.pd[d].requested = "OFF",
           \A e \in Domains \ {d} : Quiet(w, R, e)
    PROVE  SafeWalk(CompleteSuspend(w, d, state, fails), h, R)
    <1> DEFINE N == Len(Path[d])
               states == [k \in 1 .. N |-> IF Path[d][k] = Root THEN state ELSE "OFF"]
    <1>1. d \in Domains /\ d # Root /\ "OFF" \in States
        BY PowerDomainAssumption
    <1>2. /\ Path[d] \in Seq(Domains) /\ N \in Nat /\ N >= 1 /\ Path[d][1] = d
          /\ \A i, j \in 1 .. N : i < j => Path[d][i] < Path[d][j]
        BY <1>1, PathFacts
    <1>3. states \in Seq(States) /\ Len(states) = N
        BY <1>1, <1>2
    <1>4. \A k \in 1 .. Len(states) :
             states[k] = w.pd[Path[d][k]].requested \/ Quiet(w, R, Path[d][k])
        <2> SUFFICES ASSUME NEW k \in 1 .. N
                     PROVE  states[k] = w.pd[Path[d][k]].requested \/ Quiet(w, R, Path[d][k])
            BY <1>3
        <2>1. CASE k = 1
            BY <2>1, <1>1, <1>2
        <2>2. CASE k # 1
            <3>1. 1 \in 1 .. N /\ 1 < k
                BY <2>2, <1>2
            <3>2. Path[d][1] < Path[d][k] /\ Path[d][k] \in Domains
                BY <3>1, <1>2
            <3>3. d \in Nat /\ Path[d][k] \in Nat
                BY <3>2, <1>1, TreeFacts
            <3>4. Path[d][k] # d
                BY <3>2, <3>3, <1>2
            <3> QED BY <3>2, <3>4
        <2> QED BY <2>1, <2>2
    <1>5. CompleteSuspend(w, d, state, fails) = SetStates(w, d, states, None, fails)
        BY DEF CompleteSuspend
    <1>6. Len(states) <= Len(Path[d])
        BY <1>2, <1>3
    <1> HIDE DEF states, N
    <1>7. SafeWalk(SetStates(w, d, states, None, fails), h, R)
        BY <1>1, <1>3, <1>4, <1>6, SetStatesSafe
    <1> QED BY <1>5, <1>7

LEMMA ProcessReportInv ==
    ASSUME PdInv, ProcessReport
    PROVE  PdInv'
    <1> DEFINE d == Head(queue).domain
               s == Head(queue).state
               w == Reported(d, s)
               previous == pd[d].current
               last == suspend.ongoing /\ suspend.core = d
               settled == [w EXCEPT !.pd[d].toDriver = w.pd[d].requested]
               noted == [w EXCEPT !.pd[d].post.previous = previous]
               off(fails) == CompleteSuspend(w, d, suspend.state, fails)
               on(fails) == Propagate(settled, d, s, previous, fails)
               R == Reporting(queue)
               S == Reporting(Tail(queue))
    <1>1. /\ Take("report") /\ hw' = hw /\ asks' = asks
          /\ suspend' = IF last THEN [suspend EXCEPT !.ongoing = FALSE] ELSE suspend
        BY DEF ProcessReport
    <1>2. PICK fails \in Failures :
             Done(CASE last -> off(fails)
                    [] ~last /\ w.after[d] > 0 -> noted
                    [] OTHER -> on(fails))
        BY DEF ProcessReport
    <1>3. /\ queue \in Seq(Events) /\ queue # <<>> /\ queue' = Tail(queue)
          /\ Head(queue) \in Events /\ Head(queue).kind = "report"
          /\ SuspendQuiet(Walk, queue, suspend)
        BY <1>1, TakeFacts
    <1>4. d \in Domains /\ s \in States
        BY <1>3, EventFacts
    <1>5. d \in R /\ S \subseteq R /\ \A e : e # d => (e \in S <=> e \in R)
        BY <1>3, ReportingTail
    <1>6. PICK u : u = Walk
        OBVIOUS
    <1>7. SafeWalk(u, hw, R) /\ u.pd = pd
        BY <1>6, WalkIs DEF PdInv
    <1> HIDE DEF d, s, w, R, S
    <1>8. /\ SafeWalk(w, hw, S) /\ SameOutside(w, u, {d})
          /\ w.pd[d].requested = pd[d].requested /\ w.pd[d].toDriver = w.pd[d].requested
        <2>1. SafeWalk(Walk, hw, R)
            BY <1>6, <1>7
        <2>2. LET v == Reported(d, s)
              IN /\ SafeWalk(v, hw, S) /\ SameOutside(v, Walk, {d})
                 /\ v.pd[d].requested = pd[d].requested
                 /\ v.pd[d].toDriver = v.pd[d].requested
                 /\ v.before = before /\ v.after[d] <= After[d]
            BY <2>1, <1>4, <1>5, ReportedSafe
        <2> QED BY <2>2, <1>6 DEF w
    <1>9. w \in WalkType /\ w.pd[d] \in Context /\ previous \in States
        <2>1. u \in WalkType /\ w \in WalkType
            BY <1>7, <1>8 DEF SafeWalk, Typed
        <2> QED BY <2>1, <1>4, <1>7, WalkFields, ContextFields
    <1>10. \A e \in Domains : Quiet(u, R, e) => Quiet(w, S, e)
        BY <1>5, <1>8 DEF SameOutside, Quiet
    <1>11. suspend.ongoing => last
        BY <1>3, <1>4, <1>5 DEF SuspendQuiet, Quiet, R
    <1>12. /\ ~suspend'.ongoing
           /\ suspend \in [ongoing: BOOLEAN, core: Cores \cup {None}, state: States]
           /\ suspend' \in [ongoing: BOOLEAN, core: Cores \cup {None}, state: States]
        <2>1. suspend \in [ongoing: BOOLEAN, core: Cores \cup {None}, state: States]
            BY DEF PdInv
        <2> QED BY <2>1, <1>1, <1>11
    \* A walk that keeps what is quiet leaves the invariant.
    <1>13. ASSUME NEW v, SafeWalk(v, hw, S), Done(v), Keeps(v, w, S)
           PROVE  PdInv'
        <2>1. \A e \in Domains : Quiet(Walk, R, e) => Quiet(v, S, e)
            BY <1>6, <1>10, <1>13 DEF Keeps
        <2> QED BY <2>1, <1>1, <1>12, <1>13, ReportTaken DEF R, S
    <1>14. CASE last
        <2> DEFINE v == off(fails)
        <2>1. Done(v)
            BY <1>2, <1>14
        <2>2. /\ d \in Cores /\ w.pd[d].requested = "OFF"
              /\ \A e \in Domains \ {d} : Quiet(u, R, e)
              /\ Calls(queue, "set") = {}
            BY <1>3, <1>6, <1>7, <1>8, <1>14 DEF SuspendQuiet, R
        <2>3. \A e \in Domains \ {d} : Quiet(w, S, e)
            BY <2>2, <1>10
        <2>4. SafeWalk(v, hw, S)
            BY <2>2, <2>3, <1>8, <1>12, CompleteSuspendSafe
        <2> HIDE DEF v
        <2>5. PICK x : x = Walk'
            OBVIOUS
        <2>6. SafeWalk(x, hw, S)
            BY <2>1, <2>4, <2>5, DoneSafe
        <2>7. queue' \in Seq(Events)
            BY <1>3, QueueTail
        <2>8. Calls(queue', "set") = {} /\ Calls(queue', "suspend") = {}
            <3>1. \A j \in DOMAIN Tail(queue) :
                     j + 1 \in DOMAIN queue /\ Tail(queue)[j] = queue[j + 1]
                BY <1>3, QueueTail
            <3>2. Calls(queue, "suspend") = {}
                BY <1>3, <1>14 DEF SuspendQuiet
            <3> QED BY <3>1, <3>2, <2>2, <1>3 DEF Calls
        <2>9. RequestsQuiet(x, queue') /\ SuspendQuiet(x, queue', suspend')
            BY <2>8, <1>12 DEF RequestsQuiet, SuspendQuiet
        <2>10. SafeWalk(x, hw', Reporting(queue')) /\ asks' \in 0 .. MaxAsks
            BY <2>6, <1>1, <1>3 DEF PdInv, S
        <2> QED BY <2>5, <2>7, <2>9, <2>10, <1>12 DEF PdInv
    <1>15. CASE ~last /\ w.after[d] > 0
        <2> DEFINE c == [w.pd[d] EXCEPT !.post = [w.pd[d].post EXCEPT !.previous = previous]]
        <2>1. /\ c \in Context /\ c.requested = w.pd[d].requested
              /\ c.toDriver = w.pd[d].toDriver /\ c.current = w.pd[d].current
              /\ c.pre = w.pd[d].pre
            BY <1>9 DEF Context
        <2>2. noted = [w EXCEPT !.pd[d] = c]
            OBVIOUS
        <2>3. Done(noted)
            BY <1>2, <1>15
        <2> HIDE DEF c, noted
        <2>4. SafeWalk(noted, hw, S) /\ Keeps(noted, w, S)
            BY <2>1, <2>2, <1>4, <1>8, NoteSafe
        <2> QED BY <2>3, <2>4, <1>13
    <1>16. CASE ~last /\ ~(w.after[d] > 0)
        <2> DEFINE c == [w.pd[d] EXCEPT !.toDriver = w.pd[d].requested]
        <2>1. /\ c \in Context /\ c.requested = w.pd[d].requested
              /\ c.toDriver = w.pd[d].toDriver /\ c.current = w.pd[d].current
              /\ c.pre = w.pd[d].pre
            <3>1. w.pd[d].requested \in States
                BY <1>9, ContextFields
            <3> QED BY <3>1, <1>8, <1>9 DEF Context
        <2>2. settled = [w EXCEPT !.pd[d] = c]
            OBVIOUS
        <2> DEFINE v == on(fails)
        <2>3. Done(v)
            BY <1>2, <1>16
        <2> HIDE DEF c, settled
        <2>4. SafeWalk(settled, hw, S) /\ Keeps(settled, w, S)
            BY <2>1, <2>2, <1>4, <1>8, NoteSafe
        <2>5. SafeWalk(v, hw, S) /\ Keeps(v, settled, S)
            BY <2>4, <1>4, PropagateSafe
        <2> HIDE DEF v
        <2>6. Keeps(v, w, S)
            BY <2>4, <2>5 DEF Keeps
        <2> QED BY <2>3, <2>5, <2>6, <1>13
    <1> QED BY <1>14, <1>15, <1>16

-----------------------------------------------------------------------------
(* The tree is safe.                                                       *)

\* The invariant is kept by every step, when clients leave alone the domains
\* that are on the move.
LEMMA PdInvStep ==
    ASSUME ~Overlap, PdInv, [PdNext]_pdVars
    PROVE  PdInv'
    <1>1. CASE SetState
        BY <1>1, SetStateInv
    <1>2. CASE SystemSuspend
        BY <1>2, SystemSuspendInv
    <1>3. CASE Process
        BY <1>3, ProcessSetStateInv, ProcessReportInv, ProcessSuspendInv DEF Process
    <1>4. CASE \E d \in Domains : Report(d) \/ AnswerBefore(d) \/ AnswerAfter(d)
        BY <1>4, ReportInv, AnswerBeforeInv, AnswerAfterInv
    <1>5. CASE UNCHANGED pdVars
        <2>1. /\ Walk' = Walk /\ hw' = hw /\ queue' = queue /\ asks' = asks
              /\ suspend' = suspend
            BY <1>5 DEF pdVars, Walk
        <2> QED BY <2>1 DEF PdInv
    <1> QED BY <1>1, <1>2, <1>3, <1>4, <1>5 DEF PdNext

\* A domain is never in a state that the state of its parent does not allow, at
\* any moment of their transitions, whatever the tree, the tables of the states
\* that parents allow and what entities are told, as long as clients make no
\* request for domains on the move (mod_power_domain.h).
THEOREM PdTreeSafe ==
    ASSUME ~Overlap
    PROVE  PdSpec => []TreeSafe
    <1>1. PdInit => PdInv
        BY PdInitInv
    <1>2. PdInv /\ [PdNext]_pdVars => PdInv'
        BY PdInvStep
    <1>3. PdInv => TreeSafe
        BY PdInvSafe
    <1> QED BY <1>1, <1>2, <1>3, PTL DEF PdSpec

\* Under the same condition the module knows in which state the hardware is of
\* every domain whose driver does not work and has no report to be processed
\* (current_state), and what it asks of a domain goes with what it asks of the
\* parent, refused transitions and requests taken in part included.
THEOREM PdStatesKnown ==
    ASSUME ~Overlap
    PROVE  PdSpec => []\A d \in Domains :
               /\ driver[d] = None /\ d \notin Reporting(queue) => hw[d] = pd[d].current
               /\ d # Root => pd[d].requested \in Allowed[d][pd[Parent[d]].requested]
    <1> DEFINE StatesKnown ==
            \A d \in Domains :
               /\ driver[d] = None /\ d \notin Reporting(queue) => hw[d] = pd[d].current
               /\ d # Root => pd[d].requested \in Allowed[d][pd[Parent[d]].requested]
    <1>1. PdInit => PdInv
        BY PdInitInv
    <1>2. PdInv /\ [PdNext]_pdVars => PdInv'
        BY PdInvStep
    <1>3. PdInv => StatesKnown
        <2> SUFFICES ASSUME PdInv PROVE StatesKnown
            OBVIOUS
        <2>1. Known(Walk, hw, Reporting(queue)) /\ AsAsked(Walk)
            BY DEF PdInv, SafeWalk
        <2>2. Walk.pd = pd /\ Walk.driver = driver
            BY WalkIs
        <2> QED BY <2>1, <2>2 DEF Known, KnownAt, AsAsked
    <1> HIDE DEF StatesKnown
    <1>4. PdSpec => []StatesKnown
        BY <1>1, <1>2, <1>3, PTL DEF PdSpec
    <1> QED BY <1>4 DEF StatesKnown
=============================================================================
