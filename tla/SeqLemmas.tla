------------------------------ MODULE SeqLemmas ------------------------------
(***************************************************************************)
(* What the list operations of the framework (push at the tail, pop of the *)
(* head, removal from the middle) do to the set of elements of a sequence  *)
(* without duplicates.  The proofs about the modules that keep intrusive   *)
(* lists rest on these facts.                                              *)
(***************************************************************************)
EXTENDS Integers, SequencesExt, SequenceTheorems, WellFoundedInduction, TLAPS

\* A sequence is a function on 1 .. Len, and its range its elements.
LEMMA SeqBasics ==
    ASSUME NEW S, NEW s \in Seq(S)
    PROVE  /\ Len(s) \in Nat
           /\ DOMAIN s = 1 .. Len(s)
           /\ Range(s) \in SUBSET S
           /\ Range(s) = {s[i] : i \in 1 .. Len(s)}
           /\ \A i \in 1 .. Len(s) : s[i] \in S
           /\ s = <<>> <=> Range(s) = {}
    <1>1. Len(s) \in Nat /\ DOMAIN s = 1 .. Len(s)
        BY LenProperties
    <1>2. \A i \in 1 .. Len(s) : s[i] \in S
        BY ElementOfSeq
    <1>3. Range(s) = {s[i] : i \in 1 .. Len(s)}
        BY <1>1 DEF Range
    <1>4. s # <<>> => s[1] \in Range(s)
        BY <1>1, <1>3, EmptySeq
    <1>5. s = <<>> => Range(s) = {}
        BY <1>3
    <1> QED
        BY <1>1, <1>2, <1>3, <1>4, <1>5

\* fwk_list_push_tail adds the element to the range and nothing else.
LEMMA AppendFacts ==
    ASSUME NEW S, NEW s \in Seq(S), NEW x \in S
    PROVE  /\ Append(s, x) \in Seq(S)
           /\ Range(Append(s, x)) = Range(s) \cup {x}
           /\ IsInjective(s) /\ x \notin Range(s) => IsInjective(Append(s, x))
    <1> DEFINE t == Append(s, x)
    <1>1. /\ t \in Seq(S)
          /\ Len(t) = Len(s) + 1
          /\ \A i \in 1 .. Len(s) : t[i] = s[i]
          /\ t[Len(s) + 1] = x
        BY AppendProperties
    <1>2. /\ Len(s) \in Nat /\ DOMAIN s = 1 .. Len(s)
          /\ Range(s) = {s[i] : i \in 1 .. Len(s)}
        BY SeqBasics
    <1> HIDE DEF t
    <1>3. DOMAIN t = 1 .. Len(s) + 1 /\ Range(t) = {t[i] : i \in 1 .. Len(s) + 1}
        BY <1>1, SeqBasics
    <1>4. Range(t) = Range(s) \cup {x}
        <2>1. ASSUME NEW y \in Range(t) PROVE y \in Range(s) \cup {x}
            <3>1. PICK i \in 1 .. Len(s) + 1 : y = t[i]
                BY <1>3
            <3> QED BY <3>1, <1>1, <1>2
        <2>2. ASSUME NEW y \in Range(s) \cup {x} PROVE y \in Range(t)
            <3>1. CASE y = x
                BY <3>1, <1>1, <1>2, <1>3
            <3>2. CASE y \in Range(s)
                <4>1. PICK i \in 1 .. Len(s) : y = s[i]
                    BY <3>2, <1>2
                <4>2. i \in 1 .. Len(s) + 1 /\ t[i] = y
                    BY <4>1, <1>1, <1>2
                <4> QED BY <4>2, <1>3
            <3> QED BY <3>1, <3>2
        <2> QED BY <2>1, <2>2
    <1>5. ASSUME IsInjective(s), x \notin Range(s),
                 NEW i \in DOMAIN t, NEW j \in DOMAIN t, t[i] = t[j]
          PROVE  i = j
        <2>1. CASE i \in 1 .. Len(s) /\ j \in 1 .. Len(s)
            BY <2>1, <1>5, <1>1, <1>2 DEF IsInjective
        <2>2. CASE i = Len(s) + 1 /\ j \in 1 .. Len(s)
            BY <2>2, <1>5, <1>1, <1>2
        <2>3. CASE j = Len(s) + 1 /\ i \in 1 .. Len(s)
            BY <2>3, <1>5, <1>1, <1>2
        <2>4. CASE i = Len(s) + 1 /\ j = Len(s) + 1
            BY <2>4
        <2> QED BY <2>1, <2>2, <2>3, <2>4, <1>2, <1>3
    <1>6. IsInjective(s) /\ x \notin Range(s) => IsInjective(t)
        BY <1>5 DEF IsInjective
    <1> QED
        BY <1>1, <1>4, <1>6 DEF t

\* fwk_list_pop_head takes the head out of the range and nothing else.
LEMMA TailFacts ==
    ASSUME NEW S, NEW s \in Seq(S), s # <<>>
    PROVE  /\ Head(s) \in S
           /\ Head(s) \in Range(s)
           /\ Tail(s) \in Seq(S)
           /\ Range(s) = Range(Tail(s)) \cup {Head(s)}
           /\ IsInjective(s) => /\ IsInjective(Tail(s))
                                /\ Head(s) \notin Range(Tail(s))
    <1> DEFINE t == Tail(s)
    <1>1. /\ Head(s) \in S
          /\ t \in Seq(S)
          /\ Len(t) = Len(s) - 1
          /\ \A i \in 1 .. Len(t) : t[i] = s[i + 1]
        BY HeadTailProperties
    <1>2. /\ Len(s) \in Nat \ {0} /\ DOMAIN s = 1 .. Len(s)
          /\ Range(s) = {s[i] : i \in 1 .. Len(s)}
          /\ Head(s) = s[1]
        BY SeqBasics, EmptySeq
    <1> HIDE DEF t
    <1>3. DOMAIN t = 1 .. Len(s) - 1 /\ Range(t) = {t[i] : i \in 1 .. Len(s) - 1}
        BY <1>1, SeqBasics
    <1>4. Head(s) \in Range(s)
        BY <1>2
    <1>5. Range(t) \subseteq Range(s)
        <2> SUFFICES ASSUME NEW i \in 1 .. Len(s) - 1 PROVE t[i] \in Range(s)
            BY <1>3
        <2>1. t[i] = s[i + 1] /\ i + 1 \in 1 .. Len(s)
            BY <1>1, <1>2
        <2> QED BY <2>1, <1>2
    <1>6. Range(s) \subseteq Range(t) \cup {Head(s)}
        <2> SUFFICES ASSUME NEW i \in 1 .. Len(s), i # 1 PROVE s[i] \in Range(t)
            BY <1>2
        <2>1. i - 1 \in 1 .. Len(s) - 1 /\ t[i - 1] = s[i]
            BY <1>1, <1>2
        <2> QED BY <2>1, <1>3
    <1>7. ASSUME IsInjective(s) PROVE IsInjective(t)
        <2> SUFFICES ASSUME NEW i \in 1 .. Len(s) - 1, NEW j \in 1 .. Len(s) - 1,
                            t[i] = t[j]
                     PROVE  i = j
            BY <1>3 DEF IsInjective
        <2>1. s[i + 1] = s[j + 1] /\ i + 1 \in 1 .. Len(s) /\ j + 1 \in 1 .. Len(s)
            BY <1>1, <1>2
        <2>2. i + 1 = j + 1
            BY <2>1, <1>2, <1>7 DEF IsInjective
        <2> QED BY <2>2
    <1>8. ASSUME IsInjective(s), Head(s) \in Range(t) PROVE FALSE
        <2>1. PICK i \in 1 .. Len(s) - 1 : t[i] = s[1]
            BY <1>8, <1>2, <1>3
        <2>2. s[i + 1] = s[1] /\ i + 1 \in 1 .. Len(s) /\ 1 \in 1 .. Len(s)
            BY <2>1, <1>1, <1>2
        <2>3. i + 1 = 1
            BY <2>2, <1>2, <1>8 DEF IsInjective
        <2> QED BY <2>3
    <1> QED
        BY <1>1, <1>4, <1>5, <1>6, <1>7, <1>8 DEF t

\* fwk_list_remove takes the element out of the range and nothing else.
LEMMA RemoveAtFacts ==
    ASSUME NEW S, NEW s \in Seq(S), NEW k \in DOMAIN s
    PROVE  /\ s[k] \in S
           /\ s[k] \in Range(s)
           /\ RemoveAt(s, k) \in Seq(S)
           /\ Range(s) = Range(RemoveAt(s, k)) \cup {s[k]}
           /\ IsInjective(s) => /\ IsInjective(RemoveAt(s, k))
                                /\ s[k] \notin Range(RemoveAt(s, k))
    <1> DEFINE t == RemoveAt(s, k)
    <1>0. /\ Len(s) \in Nat /\ DOMAIN s = 1 .. Len(s) /\ k \in 1 .. Len(s)
          /\ Range(s) = {s[i] : i \in 1 .. Len(s)}
          /\ \A i \in 1 .. Len(s) : s[i] \in S
        BY SeqBasics
    <1>1. /\ SubSeq(s, 1, k - 1) \in Seq(S)
          /\ Len(SubSeq(s, 1, k - 1)) = k - 1
          /\ \A i \in 1 .. k - 1 : SubSeq(s, 1, k - 1)[i] = s[i]
        <2>1. \A i \in 1 .. k - 1 : s[i] \in S
            BY <1>0
        <2> QED BY <2>1, <1>0, SubSeqProperties
    <1>2. /\ SubSeq(s, k + 1, Len(s)) \in Seq(S)
          /\ Len(SubSeq(s, k + 1, Len(s))) = Len(s) - k
          /\ \A i \in 1 .. Len(s) - k :
                 SubSeq(s, k + 1, Len(s))[i] = s[i + k]
        <2>1. \A i \in k + 1 .. Len(s) : s[i] \in S
            BY <1>0
        <2>2. k + 1 \in Int /\ Len(s) \in Int
            BY <1>0
        <2>3. /\ SubSeq(s, k + 1, Len(s)) \in Seq(S)
              /\ Len(SubSeq(s, k + 1, Len(s))) =
                     IF k + 1 <= Len(s) THEN Len(s) - (k + 1) + 1 ELSE 0
              /\ \A i \in 1 .. Len(s) - (k + 1) + 1 :
                     SubSeq(s, k + 1, Len(s))[i] = s[k + 1 + i - 1]
            BY <2>1, <2>2, SubSeqProperties
        <2> QED BY <2>3, <1>0
    <1>3. /\ t \in Seq(S)
          /\ Len(t) = Len(s) - 1
          /\ \A i \in 1 .. Len(s) - 1 : t[i] = IF i < k THEN s[i] ELSE s[i + 1]
        <2>1. /\ t \in Seq(S)
              /\ Len(t) = (k - 1) + (Len(s) - k)
              /\ \A i \in 1 .. (k - 1) + (Len(s) - k) :
                    t[i] = IF i <= k - 1 THEN SubSeq(s, 1, k - 1)[i]
                           ELSE SubSeq(s, k + 1, Len(s))[i - (k - 1)]
            BY <1>1, <1>2, ConcatProperties DEF RemoveAt
        <2>2. ASSUME NEW i \in 1 .. Len(s) - 1
              PROVE  t[i] = IF i < k THEN s[i] ELSE s[i + 1]
            <3>1. CASE i < k
                BY <3>1, <2>1, <1>0, <1>1
            <3>2. CASE ~(i < k)
                <4>1. i - (k - 1) \in 1 .. Len(s) - k
                    BY <3>2, <1>0
                <4>2. SubSeq(s, k + 1, Len(s))[i - (k - 1)] = s[(i - (k - 1)) + k]
                    BY <4>1, <1>2
                <4>3. (i - (k - 1)) + k = i + 1
                    BY <1>0
                <4>4. t[i] = SubSeq(s, k + 1, Len(s))[i - (k - 1)]
                    BY <3>2, <2>1, <1>0
                <4> QED BY <4>2, <4>3, <4>4, <3>2
            <3> QED BY <3>1, <3>2
        <2> QED BY <2>1, <2>2, <1>0
    <1>4. DOMAIN t = 1 .. Len(s) - 1 /\ Range(t) = {t[i] : i \in 1 .. Len(s) - 1}
        BY <1>3, SeqBasics
    <1> HIDE DEF t
    <1>5. s[k] \in Range(s) /\ s[k] \in S
        BY <1>0
    <1>6. Range(t) \subseteq Range(s)
        BY <1>0, <1>3, <1>4
    <1>7. Range(s) \subseteq Range(t) \cup {s[k]}
        <2> SUFFICES ASSUME NEW i \in 1 .. Len(s), i # k PROVE s[i] \in Range(t)
            BY <1>0
        <2>1. CASE i < k
            <3>1. i \in 1 .. Len(s) - 1 /\ t[i] = s[i]
                BY <2>1, <1>0, <1>3
            <3> QED BY <3>1, <1>4
        <2>2. CASE i > k
            <3>1. i - 1 \in 1 .. Len(s) - 1 /\ ~(i - 1 < k) /\ (i - 1) + 1 = i
                BY <2>2, <1>0
            <3>2. t[i - 1] = s[(i - 1) + 1]
                BY <3>1, <1>3
            <3> QED BY <3>1, <3>2, <1>4
        <2> QED BY <2>1, <2>2, <1>0
    <1>8. ASSUME IsInjective(s) PROVE IsInjective(t) /\ s[k] \notin Range(t)
        <2>1. ASSUME NEW i \in 1 .. Len(s) - 1
              PROVE  \E m \in 1 .. Len(s) :
                        /\ t[i] = s[m] /\ m # k
                        /\ m = IF i < k THEN i ELSE i + 1
            BY <1>0, <1>3
        <2>2. ASSUME NEW i \in 1 .. Len(s) - 1, NEW j \in 1 .. Len(s) - 1,
                     t[i] = t[j]
              PROVE  i = j
            <3>1. PICK m \in 1 .. Len(s) :
                      t[i] = s[m] /\ m = IF i < k THEN i ELSE i + 1
                BY <2>1
            <3>2. PICK n \in 1 .. Len(s) :
                      t[j] = s[n] /\ n = IF j < k THEN j ELSE j + 1
                BY <2>1
            <3>3. m = n
                BY <3>1, <3>2, <2>2, <1>0, <1>8 DEF IsInjective
            <3> QED BY <3>1, <3>2, <3>3, <1>0
        <2>3. s[k] \notin Range(t)
            BY <2>1, <1>0, <1>4, <1>8 DEF IsInjective
        <2> QED BY <2>2, <2>3, <1>4 DEF IsInjective
    <1> QED
        BY <1>3, <1>5, <1>6, <1>7, <1>8 DEF t

\* What is left by fwk_list_remove is in the order it was in.
LEMMA RemoveAtOrder ==
    ASSUME NEW S, NEW s \in Seq(S), NEW k \in DOMAIN s
    PROVE  /\ Len(RemoveAt(s, k)) = Len(s) - 1
           /\ \A i \in 1 .. Len(s) - 1 :
                 RemoveAt(s, k)[i] = IF i < k THEN s[i] ELSE s[i + 1]
    <1>1. /\ Len(s) \in Nat /\ DOMAIN s = 1 .. Len(s) /\ k \in 1 .. Len(s)
          /\ \A i \in 1 .. Len(s) : s[i] \in S
        BY SeqBasics
    <1> DEFINE u == SubSeq(s, 1, k - 1)
               v == SubSeq(s, k + 1, Len(s))
    <1>2. /\ u \in Seq(S) /\ Len(u) = k - 1
          /\ \A i \in 1 .. k - 1 : u[i] = s[i]
        <2>1. \A i \in 1 .. k - 1 : s[i] \in S
            BY <1>1
        <2> QED BY <2>1, <1>1, SubSeqProperties
    <1>3. /\ v \in Seq(S) /\ Len(v) = Len(s) - k
          /\ \A i \in 1 .. Len(s) - k : v[i] = s[i + k]
        <2>1. \A i \in k + 1 .. Len(s) : s[i] \in S
            BY <1>1
        <2>2. /\ v \in Seq(S)
              /\ Len(v) = IF k + 1 <= Len(s) THEN Len(s) - (k + 1) + 1 ELSE 0
              /\ \A i \in 1 .. Len(s) - (k + 1) + 1 : v[i] = s[k + 1 + i - 1]
            BY <2>1, <1>1, SubSeqProperties
        <2> QED BY <2>2, <1>1
    <1> HIDE DEF u, v
    <1> DEFINE z == u \o v
    <1>4. /\ Len(z) = Len(u) + Len(v)
          /\ \A i \in 1 .. Len(u) + Len(v) :
                z[i] = IF i <= Len(u) THEN u[i] ELSE v[i - Len(u)]
        BY <1>2, <1>3, ConcatProperties
    <1>5. RemoveAt(s, k) = z
        BY DEF RemoveAt, u, v
    <1> HIDE DEF z
    <1>6. ASSUME NEW i \in 1 .. Len(s) - 1
          PROVE  z[i] = IF i < k THEN s[i] ELSE s[i + 1]
        <2>1. CASE i < k
            BY <2>1, <1>1, <1>2, <1>3, <1>4
        <2>2. CASE ~(i < k)
            <3>1. i - (k - 1) \in 1 .. Len(s) - k /\ (i - (k - 1)) + k = i + 1
                BY <2>2, <1>1
            <3>2. z[i] = v[i - (k - 1)]
                BY <2>2, <1>1, <1>2, <1>3, <1>4
            <3> QED BY <2>2, <3>1, <3>2, <1>3
        <2> QED BY <2>1, <2>2
    <1>7. Len(z) = Len(s) - 1
        BY <1>1, <1>2, <1>3, <1>4
    <1> QED BY <1>5, <1>6, <1>7

\* fwk_list_insert puts the element at its place and moves the rest back.
LEMMA InsertAtFacts ==
    ASSUME NEW S, NEW s \in Seq(S), NEW x \in S, NEW k \in 1 .. Len(s) + 1
    PROVE  /\ InsertAt(s, k, x) \in Seq(S)
           /\ Len(InsertAt(s, k, x)) = Len(s) + 1
           /\ \A i \in 1 .. Len(s) + 1 :
                 InsertAt(s, k, x)[i] = IF i < k THEN s[i]
                                        ELSE IF i = k THEN x ELSE s[i - 1]
    <1>1. /\ Len(s) \in Nat /\ \A i \in 1 .. Len(s) : s[i] \in S
        BY SeqBasics
    <1> DEFINE u == SubSeq(s, 1, k - 1)
               v == SubSeq(s, k, Len(s))
    <1>2. /\ u \in Seq(S) /\ Len(u) = k - 1
          /\ \A i \in 1 .. k - 1 : u[i] = s[i]
        <2>1. \A i \in 1 .. k - 1 : s[i] \in S
            BY <1>1
        <2>2. /\ u \in Seq(S) /\ Len(u) = IF 1 <= k - 1 THEN (k - 1) - 1 + 1 ELSE 0
              /\ \A i \in 1 .. (k - 1) - 1 + 1 : u[i] = s[1 + i - 1]
            BY <2>1, <1>1, SubSeqProperties
        <2> QED BY <2>2, <1>1
    <1>3. /\ v \in Seq(S) /\ Len(v) = Len(s) - k + 1
          /\ \A i \in 1 .. Len(s) - k + 1 : v[i] = s[k + i - 1]
        <2>1. \A i \in k .. Len(s) : s[i] \in S
            BY <1>1
        <2>2. /\ v \in Seq(S)
              /\ Len(v) = IF k <= Len(s) THEN Len(s) - k + 1 ELSE 0
              /\ \A i \in 1 .. Len(s) - k + 1 : v[i] = s[k + i - 1]
            BY <2>1, <1>1, SubSeqProperties
        <2> QED BY <2>2, <1>1
    <1>4. InsertAt(s, k, x) = (u \o <<x>>) \o v
        BY DEF InsertAt, u, v
    <1> HIDE DEF u, v
    <1> DEFINE w == u \o <<x>>
    <1>5. /\ w \in Seq(S) /\ Len(w) = k
          /\ \A i \in 1 .. k : w[i] = IF i < k THEN s[i] ELSE x
        <2>1. <<x>> \in Seq(S) /\ Len(<<x>>) = 1 /\ <<x>>[1] = x
            OBVIOUS
        <2>2. /\ w \in Seq(S) /\ Len(w) = Len(u) + 1
              /\ \A i \in 1 .. Len(u) + 1 :
                    w[i] = IF i <= Len(u) THEN u[i] ELSE <<x>>[i - Len(u)]
            BY <2>1, <1>2, ConcatProperties
        <2>3. k - (k - 1) = 1
            BY <1>1
        <2> HIDE DEF w
        <2>4. ASSUME NEW i \in 1 .. k PROVE w[i] = IF i < k THEN s[i] ELSE x
            <3>1. CASE i < k
                BY <3>1, <2>2, <1>2, <1>1
            <3>2. CASE i = k
                <4>1. w[i] = <<x>>[k - (k - 1)]
                    BY <3>2, <2>2, <1>2, <1>1
                <4> QED BY <4>1, <3>2, <2>1, <2>3
            <3> QED BY <3>1, <3>2, <1>1
        <2> QED BY <2>2, <2>4, <1>2, <1>1
    <1> HIDE DEF w
    <1> DEFINE z == w \o v
    <1>6. /\ z \in Seq(S) /\ Len(z) = Len(w) + Len(v)
          /\ \A i \in 1 .. Len(w) + Len(v) :
                z[i] = IF i <= Len(w) THEN w[i] ELSE v[i - Len(w)]
        BY <1>5, <1>3, ConcatProperties
    <1>8. InsertAt(s, k, x) = z
        BY <1>4 DEF z, w
    <1> HIDE DEF z
    <1>7. ASSUME NEW i \in 1 .. Len(s) + 1
          PROVE  z[i] = IF i < k THEN s[i] ELSE IF i = k THEN x ELSE s[i - 1]
        <2>1. CASE i <= k
            BY <2>1, <1>1, <1>3, <1>5, <1>6
        <2>2. CASE i > k
            <3>1. i - k \in 1 .. Len(s) - k + 1 /\ k + (i - k) - 1 = i - 1
                BY <2>2, <1>1
            <3>2. z[i] = v[i - k]
                BY <2>2, <1>1, <1>3, <1>5, <1>6
            <3>3. v[i - k] = s[k + (i - k) - 1]
                BY <3>1, <1>3
            <3> QED BY <2>2, <3>1, <3>2, <3>3, <1>1
        <2> QED BY <2>1, <2>2, <1>1
    <1>9. z \in Seq(S) /\ Len(z) = Len(s) + 1
        BY <1>1, <1>3, <1>5, <1>6
    <1> QED BY <1>7, <1>8, <1>9

-----------------------------------------------------------------------------
\* A set of natural numbers that is not empty has a least element: the form of
\* induction that needs no operator as a parameter.
LEMMA LeastNat ==
    ASSUME NEW S, S \subseteq Nat, S # {}
    PROVE  \E m \in S : \A x \in S : m <= x
    <1> DEFINE R == {ss \in Nat \X Nat : ss[1] < ss[2]}
    <1>1. IsWellFoundedOn(R, Nat)
        BY NatLessThanWellFounded DEF OpToRel
    <1> HIDE DEF R
    <1>2. PICK m \in S : \A y \in S : <<y, m>> \notin R
        BY <1>1, WFMin
    <1>3. ASSUME NEW y \in S PROVE m <= y
        <2>1. <<y, m>> \notin R /\ <<y, m>> \in Nat \X Nat
            BY <1>2
        <2>2. ~(y < m)
            BY <2>1 DEF R
        <2> QED BY <2>2
    <1> QED BY <1>3

LEMMA MinFacts ==
    ASSUME NEW S, S \subseteq Nat, S # {}
    PROVE  Min(S) \in S /\ \A x \in S : Min(S) <= x
    BY LeastNat DEF Min

\* A finite set of natural numbers has a greatest element.
LEMMA FiniteMax ==
    ASSUME NEW S, S \subseteq Nat, S # {}, IsFiniteSet(S)
    PROVE  Max(S) \in S /\ \A x \in S : x <= Max(S)
    <1>1. PICK s \in Seq(S) : \A x \in S : \E n \in 1 .. Len(s) : s[n] = x
        BY DEF IsFiniteSet
    <1>2. Len(s) \in Nat /\ \A n \in 1 .. Len(s) : s[n] \in S
        BY SeqBasics
    <1> DEFINE Above(k) == \E m \in S : \A n \in 1 .. k : s[n] <= m
               Bad == {k \in 0 .. Len(s) : ~Above(k)}
    <1>3. Bad = {}
        <2> SUFFICES ASSUME Bad # {} PROVE FALSE
            OBVIOUS
        <2>1. PICK k \in Bad : \A j \in Bad : k <= j
            <3>1. Bad \subseteq Nat
                BY <1>2
            <3> HIDE DEF Bad
            <3> QED BY <3>1, LeastNat
        <2>2. k # 0
            <3>1. Above(0)
                <4>1. PICK m \in S : TRUE
                    OBVIOUS
                <4>2. \A n \in 1 .. 0 : s[n] <= m
                    OBVIOUS
                <4> QED BY <4>1, <4>2
            <3> QED BY <3>1, <2>1
        <2>3. Above(k - 1)
            <3>1. k - 1 \in 0 .. Len(s) /\ ~(k <= k - 1)
                BY <2>1, <2>2, <1>2
            <3> QED BY <3>1, <2>1
        <2>4. PICK m \in S : \A n \in 1 .. k - 1 : s[n] <= m
            BY <2>3
        <2>5. k \in 1 .. Len(s) /\ s[k] \in S
            BY <2>1, <2>2, <1>2
        <2>6. CASE s[k] <= m
            BY <2>1, <2>4, <2>5, <2>6, <1>2
        <2>7. CASE ~(s[k] <= m)
            <3>1. ASSUME NEW n \in 1 .. k PROVE s[n] <= s[k]
                <4>0. s[k] \in Nat /\ m \in Nat
                    BY <2>4, <2>5
                <4>1. s[k] \in Nat /\ m \in Nat /\ m <= s[k]
                    BY <4>0, <2>7
                <4>2. CASE n = k
                    BY <4>1, <4>2
                <4>3. CASE n # k
                    <5>1. n \in 1 .. k - 1 /\ n \in 1 .. Len(s)
                        BY <4>3, <2>5, <1>2
                    <5>2. s[n] <= m /\ s[n] \in Nat
                        BY <5>1, <2>4, <1>2
                    <5> QED BY <5>2, <4>1
                <4> QED BY <4>2, <4>3
            <3> QED BY <3>1, <2>5, <2>1
        <2> QED BY <2>6, <2>7
    <1>4. Above(Len(s))
        BY <1>2, <1>3
    <1>5. PICK m \in S : \A x \in S : x <= m
        <2>1. PICK m \in S : \A n \in 1 .. Len(s) : s[n] <= m
            BY <1>4
        <2> QED BY <2>1, <1>1
    <1> QED BY <1>5 DEF Max

\* fwk_list_remove of an element that may be in the list.
LEMMA RemoveFirstFacts ==
    ASSUME NEW S, NEW s \in Seq(S), NEW x, IsInjective(s)
    PROVE  /\ RemoveFirst(s, x) \in Seq(S)
           /\ Range(RemoveFirst(s, x)) = Range(s) \ {x}
           /\ IsInjective(RemoveFirst(s, x))
           /\ \A i, j \in DOMAIN RemoveFirst(s, x) : i <= j =>
                 \E m, n \in DOMAIN s : /\ m <= n
                                        /\ RemoveFirst(s, x)[i] = s[m]
                                        /\ RemoveFirst(s, x)[j] = s[n]
    <1>1. /\ Len(s) \in Nat /\ DOMAIN s = 1 .. Len(s)
          /\ Range(s) = {s[i] : i \in 1 .. Len(s)}
        BY SeqBasics
    <1>2. CASE \E i \in 1 .. Len(s) : s[i] = x
        <2> DEFINE I == {i \in 1 .. Len(s) : s[i] = x}
                   k == Min(I)
                   t == RemoveAt(s, k)
        <2>1. k \in 1 .. Len(s) /\ s[k] = x
            <3>1. I # {} /\ I \subseteq Nat
                BY <1>2, <1>1
            <3>2. k \in I
                BY <3>1, MinFacts
            <3> QED BY <3>2
        <2>2. RemoveFirst(s, x) = t
            <3>1. I # {}
                BY <1>2
            <3>2. SelectInSeq(s, LAMBDA v : v = x) = k
                BY <3>1, Zenon DEF SelectInSeq
            <3> QED BY <1>2, <3>2, Zenon DEF RemoveFirst
        <2> HIDE DEF k
        <2>3. /\ t \in Seq(S) /\ Range(s) = Range(t) \cup {x}
              /\ IsInjective(t) /\ x \notin Range(t)
            BY <2>1, <1>1, RemoveAtFacts
        <2>4. /\ Len(t) = Len(s) - 1
              /\ \A i \in 1 .. Len(s) - 1 : t[i] = IF i < k THEN s[i] ELSE s[i + 1]
            BY <2>1, <1>1, RemoveAtOrder
        <2>5. DOMAIN t = 1 .. Len(s) - 1
            BY <2>3, <2>4, LenProperties
        <2> HIDE DEF t
        <2>6. ASSUME NEW i \in DOMAIN t, NEW j \in DOMAIN t, i <= j
              PROVE  \E m, n \in DOMAIN s : m <= n /\ t[i] = s[m] /\ t[j] = s[n]
            <3> DEFINE m == IF i < k THEN i ELSE i + 1
                       n == IF j < k THEN j ELSE j + 1
            <3>1. m \in DOMAIN s /\ n \in DOMAIN s /\ m <= n
                BY <1>1, <2>1, <2>5, <2>6
            <3>2. t[i] = s[m] /\ t[j] = s[n]
                BY <2>4, <2>5
            <3> QED BY <3>1, <3>2
        <2> QED BY <2>2, <2>3, <2>6
    <1>3. CASE ~ \E i \in 1 .. Len(s) : s[i] = x
        <2>1. RemoveFirst(s, x) = s
            BY <1>3 DEF RemoveFirst
        <2>2. x \notin Range(s)
            BY <1>1, <1>3
        <2> QED BY <2>1, <2>2
    <1> QED BY <1>2, <1>3

-----------------------------------------------------------------------------
\* One queue behind another: what is appended, taken or moved over.
LEMMA ConcatAppend ==
    ASSUME NEW S, NEW s \in Seq(S), NEW t \in Seq(S), NEW x \in S
    PROVE  s \o Append(t, x) = Append(s \o t, x)
    <1>1. Append(t, x) = t \o <<x>> /\ <<x>> \in Seq(S)
        BY AppendIsConcat
    <1>2. s \o t \in Seq(S)
        BY ConcatProperties
    <1>3. Append(s \o t, x) = (s \o t) \o <<x>>
        BY <1>2, AppendIsConcat
    <1> QED BY <1>1, <1>3, ConcatAssociative

LEMMA ConcatHeadTail ==
    ASSUME NEW S, NEW s \in Seq(S), NEW t \in Seq(S), s # <<>>
    PROVE  /\ s \o t \in Seq(S) /\ s \o t # <<>>
           /\ Head(s \o t) = Head(s)
           /\ Tail(s \o t) = Tail(s) \o t
    <1> DEFINE z == s \o t
               w == Tail(s) \o t
    <1>1. /\ Len(s) \in Nat \ {0} /\ Len(t) \in Nat
          /\ Tail(s) \in Seq(S) /\ Len(Tail(s)) = Len(s) - 1
          /\ \A i \in 1 .. Len(s) - 1 : Tail(s)[i] = s[i + 1]
        BY EmptySeq, LenProperties, HeadTailProperties
    <1>2. /\ z \in Seq(S) /\ Len(z) = Len(s) + Len(t)
          /\ \A i \in 1 .. Len(s) + Len(t) : z[i] = IF i <= Len(s) THEN s[i] ELSE t[i - Len(s)]
        BY ConcatProperties
    <1>3. /\ w \in Seq(S) /\ Len(w) = Len(s) - 1 + Len(t)
          /\ \A i \in 1 .. Len(s) - 1 + Len(t) :
                w[i] = IF i <= Len(s) - 1 THEN Tail(s)[i] ELSE t[i - (Len(s) - 1)]
        BY <1>1, ConcatProperties
    <1> HIDE DEF z, w
    <1>4. z # <<>>
        BY <1>1, <1>2, EmptySeq
    <1>5. /\ Tail(z) \in Seq(S) /\ Len(Tail(z)) = Len(z) - 1
          /\ \A i \in 1 .. Len(z) - 1 : Tail(z)[i] = z[i + 1]
        BY <1>2, <1>4, HeadTailProperties
    <1>6. Head(z) = z[1] /\ Head(s) = s[1] /\ z[1] = s[1]
        BY <1>1, <1>2, <1>4
    <1>7. ASSUME NEW i \in 1 .. Len(s) - 1 + Len(t) PROVE Tail(z)[i] = w[i]
        <2>1. i \in 1 .. Len(z) - 1 /\ i + 1 \in 1 .. Len(s) + Len(t)
            BY <1>1, <1>2
        <2>2. Tail(z)[i] = z[i + 1]
            BY <1>5, <2>1
        <2>3. z[i + 1] = IF i + 1 <= Len(s) THEN s[i + 1] ELSE t[(i + 1) - Len(s)]
            BY <1>2, <2>1
        <2>4. CASE i <= Len(s) - 1
            <3>1. i \in 1 .. Len(s) - 1 /\ i + 1 <= Len(s)
                BY <2>4, <1>1
            <3>2. w[i] = Tail(s)[i] /\ Tail(s)[i] = s[i + 1]
                BY <3>1, <2>4, <1>1, <1>3
            <3> QED BY <2>2, <2>3, <3>1, <3>2
        <2>5. CASE ~(i <= Len(s) - 1)
            <3>1. (i + 1) - Len(s) = i - (Len(s) - 1) /\ ~(i + 1 <= Len(s))
                BY <2>5, <1>1
            <3> QED BY <2>2, <2>3, <2>5, <3>1, <1>3
        <2> QED BY <2>4, <2>5
    <1>8. Len(Tail(z)) = Len(w) /\ Len(w) = Len(s) - 1 + Len(t)
        BY <1>1, <1>2, <1>3, <1>5
    <1>9. Tail(z) = w
        BY <1>3, <1>5, <1>7, <1>8, SeqEqual
    <1> QED BY <1>2, <1>4, <1>6, <1>9 DEF z, w

LEMMA HeadTailEqual ==
    ASSUME NEW S, NEW s \in Seq(S), NEW t \in Seq(S), s # <<>>, t # <<>>,
           Head(s) = Head(t), Tail(s) = Tail(t)
    PROVE  s = t
    <1>1. /\ Len(s) \in Nat \ {0} /\ Len(t) \in Nat \ {0}
          /\ Head(s) = s[1] /\ Head(t) = t[1]
        BY EmptySeq
    <1>2. /\ Len(Tail(s)) = Len(s) - 1 /\ Len(Tail(t)) = Len(t) - 1
          /\ \A i \in 1 .. Len(s) - 1 : Tail(s)[i] = s[i + 1]
          /\ \A i \in 1 .. Len(t) - 1 : Tail(t)[i] = t[i + 1]
        BY HeadTailProperties
    <1>3. Len(s) = Len(t)
        <2>1. Len(s) - 1 = Len(t) - 1
            BY ONLY <1>2, Tail(s) = Tail(t)
        <2> QED BY ONLY <1>1, <2>1
    <1>4. ASSUME NEW i \in 1 .. Len(s) PROVE s[i] = t[i]
        <2>1. CASE i = 1
            BY <2>1, <1>1
        <2>2. CASE i # 1
            <3>1. i - 1 \in 1 .. Len(s) - 1 /\ (i - 1) + 1 = i
                BY <2>2, <1>1
            <3>2. Tail(s)[i - 1] = s[(i - 1) + 1] /\ Tail(t)[i - 1] = t[(i - 1) + 1]
                BY <3>1, <1>2, <1>3
            <3> QED BY <3>1, <3>2
        <2> QED BY <2>1, <2>2
    <1> QED BY <1>3, <1>4, SeqEqual

\* The head of the second queue becomes the last of the first.
LEMMA ConcatMove ==
    ASSUME NEW S, NEW s \in Seq(S), NEW t \in Seq(S), t # <<>>
    PROVE  Append(s, Head(t)) \o Tail(t) = s \o t
    <1>1. Head(t) \in S /\ Tail(t) \in Seq(S)
        BY HeadTailProperties
    <1>2. <<Head(t)>> \in Seq(S) /\ <<Head(t)>> # <<>>
          /\ Head(<<Head(t)>>) = Head(t) /\ Tail(<<Head(t)>>) = <<>>
        BY <1>1
    <1>3. <<Head(t)>> \o Tail(t) = t
        <2> DEFINE u == <<Head(t)>> \o Tail(t)
        <2>1. u \in Seq(S) /\ u # <<>> /\ Head(u) = Head(t) /\ Tail(u) = <<>> \o Tail(t)
            BY <1>1, <1>2, ConcatHeadTail
        <2>2. Tail(u) = Tail(t)
            BY <1>1, <2>1, ConcatEmptySeq
        <2> HIDE DEF u
        <2>3. u = t
            BY <2>1, <2>2, HeadTailEqual
        <2> QED BY <2>3 DEF u
    <1>4. Append(s, Head(t)) = s \o <<Head(t)>>
        BY <1>1, AppendIsConcat
    <1>5. (s \o <<Head(t)>>) \o Tail(t) = s \o (<<Head(t)>> \o Tail(t))
        BY <1>1, <1>2, ConcatAssociative
    <1> QED BY <1>3, <1>4, <1>5

-----------------------------------------------------------------------------
(* A list of structures seen through their contents: the abstract queue a   *)
(* refinement mapping makes of a queue of structures.                       *)

Through(q, f) == [i \in DOMAIN q |-> f[q[i]]]

Contents(S, f) == {f[x] : x \in S}

\* It is a sequence of contents, one for each structure.
LEMMA ThroughType ==
    ASSUME NEW S, NEW f, NEW q \in Seq(S)
    PROVE  /\ Through(q, f) \in Seq(Contents(S, f))
           /\ Len(Through(q, f)) = Len(q)
           /\ DOMAIN Through(q, f) = 1 .. Len(q)
           /\ \A i \in 1 .. Len(q) : Through(q, f)[i] = f[q[i]]
           /\ Through(q, f) = <<>> <=> q = <<>>
    <1>1. /\ Len(q) \in Nat /\ DOMAIN q = 1 .. Len(q)
          /\ \A i \in 1 .. Len(q) : q[i] \in S
        BY SeqBasics
    <1> DEFINE t == Through(q, f)
    <1>2. t = [i \in 1 .. Len(q) |-> f[q[i]]]
        BY <1>1 DEF Through
    <1>3. t \in [1 .. Len(q) -> Contents(S, f)]
        BY <1>1, <1>2 DEF Contents
    <1>4. t \in Seq(Contents(S, f))
        BY <1>1, <1>3 DEF Seq
    <1>5. Len(t) = Len(q)
        <2>1. DOMAIN t = 1 .. Len(q) /\ DOMAIN t = 1 .. Len(t) /\ Len(t) \in Nat
            BY <1>2, <1>4, LenProperties
        <2> QED BY <2>1, <1>1
    <1>6. t = <<>> <=> q = <<>>
        BY <1>4, <1>5, EmptySeq
    <1> QED BY <1>2, <1>4, <1>5, <1>6

\* It depends on the contents of the structures in the list alone.
LEMMA ThroughFrame ==
    ASSUME NEW S, NEW q \in Seq(S), NEW f, NEW g,
           \A x \in Range(q) : f[x] = g[x]
    PROVE  Through(q, f) = Through(q, g)
    <1>1. DOMAIN q = 1 .. Len(q) /\ Range(q) = {q[i] : i \in 1 .. Len(q)}
        BY SeqBasics
    <1> QED BY <1>1 DEF Through

\* A push, seen through the contents, is a push.
LEMMA ThroughAppend ==
    ASSUME NEW S, NEW f, NEW q \in Seq(S), NEW x \in S
    PROVE  Through(Append(q, x), f) = Append(Through(q, f), f[x])
    <1> DEFINE u == Through(Append(q, x), f)
               v == Append(Through(q, f), f[x])
    <1>1. /\ Append(q, x) \in Seq(S) /\ Len(Append(q, x)) = Len(q) + 1
          /\ \A i \in 1 .. Len(q) : Append(q, x)[i] = q[i]
          /\ Append(q, x)[Len(q) + 1] = x /\ Len(q) \in Nat
        BY AppendProperties, SeqBasics
    <1>2. /\ Through(q, f) \in Seq(Contents(S, f)) /\ Len(Through(q, f)) = Len(q)
          /\ \A i \in 1 .. Len(q) : Through(q, f)[i] = f[q[i]]
        <2>1. Through(q, f) \in Seq(Contents(S, f))
            BY ThroughType
        <2> QED BY <2>1, ThroughType
    <1>3. /\ u \in Seq(Contents(S, f)) /\ Len(u) = Len(q) + 1
          /\ \A i \in 1 .. Len(q) + 1 : u[i] = f[Append(q, x)[i]]
        <2> DEFINE a == Append(q, x)
        <2>1. a \in Seq(S) /\ Len(a) = Len(q) + 1
            BY <1>1
        <2> HIDE DEF a
        <2>2. /\ Through(a, f) \in Seq(Contents(S, f)) /\ Len(Through(a, f)) = Len(a)
              /\ \A i \in 1 .. Len(a) : Through(a, f)[i] = f[a[i]]
            <3>1. Through(a, f) \in Seq(Contents(S, f))
                BY <2>1, ThroughType
            <3> QED BY <2>1, <3>1, ThroughType
        <2> QED BY <2>1, <2>2 DEF a
    <1>4. /\ v \in Seq(Contents(S, f)) /\ Len(v) = Len(q) + 1
          /\ \A i \in 1 .. Len(q) : v[i] = Through(q, f)[i]
          /\ v[Len(q) + 1] = f[x]
        <2>1. f[x] \in Contents(S, f)
            BY DEF Contents
        <2> QED BY <2>1, <1>2, AppendProperties
    <1> HIDE DEF u, v
    <1>5. \A i \in 1 .. Len(u) : u[i] = v[i]
        <2> SUFFICES ASSUME NEW i \in 1 .. Len(q) + 1 PROVE u[i] = v[i]
            BY <1>3
        <2>1. CASE i = Len(q) + 1
            BY <2>1, <1>1, <1>3, <1>4
        <2>2. CASE i \in 1 .. Len(q)
            BY <2>2, <1>1, <1>2, <1>3, <1>4
        <2> QED BY <2>1, <2>2, <1>1
    <1>6. u = v
        BY <1>3, <1>4, <1>5, SeqEqual
    <1> QED BY <1>6 DEF u, v

\* A pop, seen through the contents, is a pop.
LEMMA ThroughTail ==
    ASSUME NEW S, NEW f, NEW q \in Seq(S), q # <<>>
    PROVE  /\ Head(Through(q, f)) = f[Head(q)]
           /\ Tail(Through(q, f)) = Through(Tail(q), f)
    <1> DEFINE w == Through(q, f)
               u == Tail(w)
               v == Through(Tail(q), f)
    <1>1. /\ Tail(q) \in Seq(S) /\ Len(Tail(q)) = Len(q) - 1
          /\ \A i \in 1 .. Len(q) - 1 : Tail(q)[i] = q[i + 1]
          /\ Len(q) \in Nat \ {0}
        BY HeadTailProperties, EmptySeq
    <1>2. /\ w \in Seq(Contents(S, f)) /\ Len(w) = Len(q) /\ w # <<>>
          /\ \A i \in 1 .. Len(q) : w[i] = f[q[i]]
        <2>1. w \in Seq(Contents(S, f))
            BY ThroughType
        <2> QED BY <2>1, ThroughType
    <1>3. /\ v \in Seq(Contents(S, f)) /\ Len(v) = Len(q) - 1
          /\ \A i \in 1 .. Len(q) - 1 : v[i] = f[Tail(q)[i]]
        <2> DEFINE a == Tail(q)
        <2>1. a \in Seq(S) /\ Len(a) = Len(q) - 1
            BY <1>1
        <2> HIDE DEF a
        <2>2. /\ Through(a, f) \in Seq(Contents(S, f)) /\ Len(Through(a, f)) = Len(a)
              /\ \A i \in 1 .. Len(a) : Through(a, f)[i] = f[a[i]]
            <3>1. Through(a, f) \in Seq(Contents(S, f))
                BY <2>1, ThroughType
            <3> QED BY <2>1, <3>1, ThroughType
        <2> QED BY <2>1, <2>2 DEF a
    <1>4. Head(w) = w[1] /\ Head(q) = q[1]
        BY <1>1, <1>2
    <1> HIDE DEF w, v
    <1>5. /\ u \in Seq(Contents(S, f)) /\ Len(u) = Len(q) - 1
          /\ \A i \in 1 .. Len(q) - 1 : u[i] = w[i + 1]
        BY <1>2, HeadTailProperties
    <1> HIDE DEF u
    <1>6. \A i \in 1 .. Len(u) : u[i] = v[i]
        <2> SUFFICES ASSUME NEW i \in 1 .. Len(q) - 1 PROVE u[i] = v[i]
            BY <1>5
        <2>1. i + 1 \in 1 .. Len(q)
            BY <1>1
        <2> QED BY <2>1, <1>1, <1>2, <1>3, <1>5
    <1>7. u = v
        BY <1>3, <1>5, <1>6, SeqEqual
    <1>8. Head(w) = f[Head(q)]
        BY <1>1, <1>2, <1>4
    <1> QED BY <1>7, <1>8 DEF u, v, w

\* So is a removal from the middle.
LEMMA ThroughRemoveAt ==
    ASSUME NEW S, NEW f, NEW q \in Seq(S), NEW k \in DOMAIN q
    PROVE  Through(RemoveAt(q, k), f) = RemoveAt(Through(q, f), k)
    <1> DEFINE w == Through(q, f)
               u == Through(RemoveAt(q, k), f)
               v == RemoveAt(w, k)
    <1>1. /\ RemoveAt(q, k) \in Seq(S) /\ Len(RemoveAt(q, k)) = Len(q) - 1
          /\ \A i \in 1 .. Len(q) - 1 :
                RemoveAt(q, k)[i] = IF i < k THEN q[i] ELSE q[i + 1]
          /\ Len(q) \in Nat /\ k \in 1 .. Len(q) /\ DOMAIN q = 1 .. Len(q)
        BY RemoveAtFacts, RemoveAtOrder, SeqBasics
    <1>2. /\ w \in Seq(Contents(S, f)) /\ Len(w) = Len(q) /\ DOMAIN w = 1 .. Len(q)
          /\ \A i \in 1 .. Len(q) : w[i] = f[q[i]]
        <2>1. w \in Seq(Contents(S, f))
            BY ThroughType
        <2> QED BY <2>1, ThroughType
    <1>3. /\ u \in Seq(Contents(S, f)) /\ Len(u) = Len(q) - 1
          /\ \A i \in 1 .. Len(q) - 1 : u[i] = f[RemoveAt(q, k)[i]]
        <2> DEFINE a == RemoveAt(q, k)
        <2>1. a \in Seq(S) /\ Len(a) = Len(q) - 1
            BY <1>1
        <2> HIDE DEF a
        <2>2. /\ Through(a, f) \in Seq(Contents(S, f)) /\ Len(Through(a, f)) = Len(a)
              /\ \A i \in 1 .. Len(a) : Through(a, f)[i] = f[a[i]]
            <3>1. Through(a, f) \in Seq(Contents(S, f))
                BY <2>1, ThroughType
            <3> QED BY <2>1, <3>1, ThroughType
        <2> QED BY <2>1, <2>2 DEF a
    <1> HIDE DEF w, u
    <1>4. /\ v \in Seq(Contents(S, f)) /\ Len(v) = Len(q) - 1
          /\ \A i \in 1 .. Len(q) - 1 :
                v[i] = IF i < k THEN w[i] ELSE w[i + 1]
        <2>1. k \in DOMAIN w
            BY <1>1, <1>2
        <2>2. RemoveAt(w, k) \in Seq(Contents(S, f))
            BY <2>1, <1>2, RemoveAtFacts
        <2>3. /\ Len(RemoveAt(w, k)) = Len(w) - 1
              /\ \A i \in 1 .. Len(w) - 1 :
                    RemoveAt(w, k)[i] = IF i < k THEN w[i] ELSE w[i + 1]
            BY <2>1, <1>2, RemoveAtOrder
        <2> QED BY <2>2, <2>3, <1>2
    <1> HIDE DEF v
    <1>5. \A i \in 1 .. Len(u) : u[i] = v[i]
        <2> SUFFICES ASSUME NEW i \in 1 .. Len(q) - 1 PROVE u[i] = v[i]
            BY <1>3
        <2>1. i \in 1 .. Len(q) /\ i + 1 \in 1 .. Len(q)
            BY <1>1
        <2>2. CASE i < k
            BY <2>1, <2>2, <1>1, <1>2, <1>3, <1>4
        <2>3. CASE ~(i < k)
            BY <2>1, <2>3, <1>1, <1>2, <1>3, <1>4
        <2> QED BY <2>2, <2>3
    <1>6. u = v
        BY <1>3, <1>4, <1>5, SeqEqual
    <1> QED BY <1>6 DEF u, v, w

=============================================================================
