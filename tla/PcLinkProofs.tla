--------------------------- MODULE PcLinkProofs ----------------------------
(***************************************************************************)
(* Proofs about PcLink for every number of retries, commands, events and   *)
(* faults, in both modes: the answers under way, and the events on their   *)
(* way from the slot of the MCU to the screen.                             *)
(***************************************************************************)
EXTENDS PcLink, SequenceTheorems, FiniteSetTheorems, WellFoundedInduction, TLAPS

(* The numbers of the events in a queue; a queue whose events are in order *)
(* and a queue that holds nothing for a command other than c.              *)
Told(q)    == {q[i].n : i \in EventsAt(q)}
InOrder(q) == \A i, j \in EventsAt(q) : i < j => q[i].n < q[j].n
Fits(p, c) == p.kind \in {"cmd", "reply"} /\ p.n # 0 => p.n = c
OnlyFor(q, c) == \A i \in DOMAIN q : Fits(q[i], c)

Before(S, T) == \A d \in S, e \in T : d < e

(* What may be in any of the queues.                                       *)
Any == [kind : {"cmd", "poll", "bad", "nack", "ack", "reply", "event"}, n : Nat]
-----------------------------------------------------------------------------
(* The largest of finitely many positions.                                 *)
LEMMA MaxOf ==
  ASSUME NEW n \in Nat, NEW S \in SUBSET (1 .. n), S # {}
  PROVE  Max(S) \in S /\ \A i \in S : i <= Max(S)
<1> DEFINE Above(i) == {j \in S : j > i}
           Aboves   == {Above(i) : i \in S}
<1>1. FiniteSubsetsOf(S) = SUBSET S
  <2>1. IsFiniteSet(1 .. n)
    BY FS_Interval
  <2>2. IsFiniteSet(S)
    BY <2>1, FS_Subset
  <2> QED BY <2>2, FS_FiniteSubsetsOfFinite
<1>2. PICK x \in Aboves : \A y \in Aboves : ~(<<y, x>> \in StrictSubsetOrdering(S))
  <2>1. Aboves \subseteq SUBSET S /\ Aboves # {}
    OBVIOUS
  <2>2. IsWellFoundedOn(StrictSubsetOrdering(S), SUBSET S)
    BY <1>1, FS_StrictSubsetOrderingWellFounded
  <2> HIDE DEF Aboves
  <2> QED BY <2>1, <2>2, WFMin, Zenon
<1>3. PICK m \in S : x = Above(m)
  BY <1>2
<1>4. \A i \in S : i <= m
  <2> SUFFICES ASSUME NEW i \in S, i > m PROVE FALSE
    OBVIOUS
  <2>1. i \in Int /\ m \in Int /\ S \subseteq Int
    OBVIOUS
  <2>2. i \in x /\ i \notin Above(i)
    BY <1>3, <2>1
  <2>3. Above(i) \subseteq x
    <3>1. \A j \in S : j > i => j > m
      BY <2>1
    <3>2. Above(i) \subseteq Above(m)
      BY <3>1
    <3> QED BY <1>3, <3>2
  <2>4. Above(i) \in Aboves /\ x \in SUBSET S /\ Above(i) \in SUBSET S
    BY <1>3
  <2> HIDE DEF Aboves, Above
  <2>5. <<Above(i), x>> \in StrictSubsetOrdering(S)
    BY <2>2, <2>3, <2>4 DEF StrictSubsetOrdering
  <2> QED BY <1>2, <2>4, <2>5
<1>5. \E k \in S : \A i \in S : k >= i
  BY <1>4
<1> QED BY <1>5 DEF Max

(* A queue is what it begins with and the rest.                            *)
LEMMA Pieces ==
  ASSUME NEW T, NEW q \in Seq(T)
  PROVE  /\ \A p \in T : Append(q, p) = q \o <<p>>
         /\ q # <<>> => /\ q = <<Head(q)>> \o Tail(q)
                        /\ Head(q) \in T /\ Tail(q) \in Seq(T)
         /\ \A k \in 0 .. Len(q) :
              /\ q = SubSeq(q, 1, k) \o SubSeq(q, k + 1, Len(q))
              /\ SubSeq(q, 1, k) \in Seq(T) /\ SubSeq(q, k + 1, Len(q)) \in Seq(T)
<1>1. \A p \in T : Append(q, p) = q \o <<p>>
  BY AppendIsConcat
<1>2. ASSUME q # <<>> PROVE /\ q = <<Head(q)>> \o Tail(q)
                            /\ Head(q) \in T /\ Tail(q) \in Seq(T)
  BY <1>2
<1>3. ASSUME NEW k \in 0 .. Len(q)
      PROVE  /\ q = SubSeq(q, 1, k) \o SubSeq(q, k + 1, Len(q))
             /\ SubSeq(q, 1, k) \in Seq(T) /\ SubSeq(q, k + 1, Len(q)) \in Seq(T)
  <2>1. Len(q) \in Nat /\ \A i \in 1 .. Len(q) : q[i] \in T
    OBVIOUS
  <2>2. SubSeq(q, 1, k) \o SubSeq(q, k + 1, Len(q)) = SubSeq(q, 1, Len(q))
    <3>1. 1 \in 1 .. Len(q) + 1 /\ k \in 1 - 1 .. Len(q) /\ Len(q) \in k .. Len(q)
      BY <2>1
    <3> QED BY <3>1, ConcatAdjacentSubSeq
  <2>3. SubSeq(q, 1, Len(q)) = q
    BY SubSeqFull
  <2>4. SubSeq(q, 1, k) \in Seq(T)
    BY <2>1
  <2>5. SubSeq(q, k + 1, Len(q)) \in Seq(T)
    BY <2>1
  <2> QED BY <2>2, <2>3, <2>4, <2>5
<1> QED BY <1>1, <1>2, <1>3

(* Where a queue made of two holds the packets of a set S.                 *)
At(q, S) == {i \in DOMAIN q : q[i] \in S}

LEMMA Joined ==
  ASSUME NEW T, NEW a \in Seq(T), NEW b \in Seq(T), NEW S
  PROVE  /\ Len(a) \in Nat /\ At(a, S) \in SUBSET (1 .. Len(a)) /\ At(b, S) \in SUBSET Nat
         /\ At(a \o b, S) = At(a, S) \cup {Len(a) + j : j \in At(b, S)}
         /\ \A i \in At(a, S) : (a \o b)[i] = a[i]
         /\ \A j \in At(b, S) : j > 0 /\ (a \o b)[Len(a) + j] = b[j]
<1> DEFINE c == a \o b
           B == {Len(a) + j : j \in At(b, S)}
<1>1. /\ Len(a) \in Nat /\ Len(b) \in Nat
      /\ DOMAIN a = 1 .. Len(a) /\ DOMAIN b = 1 .. Len(b)
      /\ DOMAIN c = 1 .. Len(a) + Len(b)
      /\ \A i \in 1 .. Len(a) : c[i] = a[i]
      /\ \A j \in 1 .. Len(b) : c[Len(a) + j] = b[j]
  OBVIOUS
<1> HIDE DEF c
<1>2. /\ At(a, S) \in SUBSET (1 .. Len(a)) /\ At(b, S) \in SUBSET (1 .. Len(b))
      /\ \A i \in At(a, S) : c[i] = a[i]
      /\ \A j \in At(b, S) : c[Len(a) + j] = b[j]
  BY <1>1 DEF At
<1>3. ASSUME NEW i \in At(c, S) PROVE i \in At(a, S) \cup B
  <2>1. CASE i \in 1 .. Len(a)
    BY <1>1, <1>3, <2>1 DEF At
  <2>2. CASE i \notin 1 .. Len(a)
    <3>1. i - Len(a) \in 1 .. Len(b) /\ Len(a) + (i - Len(a)) = i
      BY <1>1, <1>3, <2>2 DEF At
    <3>2. i - Len(a) \in At(b, S)
      BY <1>1, <1>3, <3>1 DEF At
    <3> QED BY <3>1, <3>2
  <2> QED BY <2>1, <2>2
<1>4. ASSUME NEW i \in At(a, S) PROVE i \in At(c, S)
  BY <1>1, <1>4 DEF At
<1>5. ASSUME NEW j \in At(b, S) PROVE Len(a) + j \in At(c, S)
  BY <1>1, <1>5 DEF At
<1>6. At(c, S) = At(a, S) \cup B
  BY <1>3, <1>4, <1>5
<1> QED BY <1>1, <1>2, <1>6 DEF c
-----------------------------------------------------------------------------
(* How many answers a queue holds.                                         *)
Answering == {p \in Any : IsAnswer(p)}

LEMMA AnswersType ==
  ASSUME NEW q \in Seq(Any)
  PROVE  /\ IsFiniteSet(At(q, Answering))
         /\ Answers(q) = Cardinality(At(q, Answering)) /\ Answers(q) \in Nat
<1>1. DOMAIN q = 1 .. Len(q) /\ Len(q) \in Nat /\ \A i \in DOMAIN q : q[i] \in Any
  OBVIOUS
<1>2. IsFiniteSet(1 .. Len(q))
  BY <1>1, FS_Interval
<1>3. At(q, Answering) \in SUBSET (1 .. Len(q))
  BY <1>1 DEF At
<1>4. IsFiniteSet(At(q, Answering))
  BY <1>2, <1>3, FS_Subset
<1>5. At(q, Answering) = {i \in DOMAIN q : IsAnswer(q[i])}
  BY <1>1 DEF At, Answering
<1>6. Answers(q) = Cardinality(At(q, Answering))
  BY <1>5 DEF Answers
<1> QED BY <1>4, <1>6, FS_CardinalityType

LEMMA AnswersJoined ==
  ASSUME NEW a \in Seq(Any), NEW b \in Seq(Any)
  PROVE  Answers(a \o b) = Answers(a) + Answers(b)
<1> DEFINE A == At(a, Answering)
           B == At(b, Answering)
           C == {Len(a) + j : j \in B}
           f == [j \in B |-> Len(a) + j]
<1>1. /\ At(a \o b, Answering) = A \cup C
      /\ A \in SUBSET (1 .. Len(a)) /\ B \subseteq Nat /\ Len(a) \in Nat
      /\ \A j \in B : j > 0
  BY Joined
<1>2. /\ IsFiniteSet(A) /\ Cardinality(A) = Answers(a) /\ Answers(a) \in Nat
      /\ IsFiniteSet(B) /\ Cardinality(B) = Answers(b) /\ Answers(b) \in Nat
      /\ Answers(a \o b) = Cardinality(At(a \o b, Answering))
  <2>1. a \o b \in Seq(Any)
    OBVIOUS
  <2> QED BY <2>1, AnswersType
<1> HIDE DEF A, B
<1>3. A \cap C = {}
  BY <1>1
<1>4. IsFiniteSet(C) /\ Cardinality(C) = Cardinality(B)
  <2>1. f \in [B -> C] /\ (\A i, j \in B : f[i] = f[j] => i = j)
    BY <1>1
  <2>2. \A c \in C : \E j \in B : f[j] = c
    OBVIOUS
  <2> HIDE DEF C, f
  <2>3. f \in Bijection(B, C)
    BY <2>1, <2>2 DEF Bijection, Injection, Surjection, IsInjective
  <2>4. ExistsBijection(B, C)
    BY <2>3 DEF ExistsBijection
  <2> QED BY <1>2, <2>4, FS_Bijection
<1> HIDE DEF C
<1>5. Cardinality(A \cap C) = 0
  BY <1>3, FS_EmptySet
<1>6. Cardinality(A \cup C) = Cardinality(A) + Cardinality(C) - Cardinality(A \cap C)
  BY <1>2, <1>4, FS_Union
<1> QED BY <1>1, <1>2, <1>4, <1>5, <1>6

LEMMA AnswersOne ==
  ASSUME NEW p \in Any
  PROVE  /\ Answers(<<p>>) = IF IsAnswer(p) THEN 1 ELSE 0
         /\ Answers(<<>>) = 0
<1>1. /\ At(<<>>, Answering) = {}
      /\ At(<<p>>, Answering) = IF IsAnswer(p) THEN {1} ELSE {}
  BY DEF At, Answering
<1>2. <<>> \in Seq(Any) /\ <<p>> \in Seq(Any)
  OBVIOUS
<1>3. /\ Answers(<<>>) = Cardinality(At(<<>>, Answering))
      /\ Answers(<<p>>) = Cardinality(At(<<p>>, Answering))
  BY <1>2, AnswersType
<1> QED BY <1>1, <1>3, FS_EmptySet, FS_Singleton

LEMMA NoAnswers ==
  ASSUME NEW q \in Seq(Any), Answers(q) = 0, NEW c
  PROVE  OnlyFor(q, c)
<1>1. At(q, Answering) = {}
  BY AnswersType, FS_EmptySet
<1>2. \A i \in DOMAIN q : q[i] \in Any
  OBVIOUS
<1> QED BY <1>1, <1>2 DEF At, Answering, OnlyFor, Fits, IsAnswer
-----------------------------------------------------------------------------
LEMMA FitsJoined ==
  ASSUME NEW a \in Seq(Any), NEW b \in Seq(Any), NEW c
  PROVE  OnlyFor(a \o b, c) <=> OnlyFor(a, c) /\ OnlyFor(b, c)
<1> DEFINE S == {p \in Any : ~Fits(p, c)}
<1>1. ASSUME NEW q \in Seq(Any) PROVE OnlyFor(q, c) <=> At(q, S) = {}
  BY DEF OnlyFor, At
<1>2. a \o b \in Seq(Any)
  OBVIOUS
<1> HIDE DEF S
<1>3. At(a \o b, S) = At(a, S) \cup {Len(a) + j : j \in At(b, S)}
  BY Joined
<1> QED BY <1>1, <1>2, <1>3

LEMMA FitsOne ==
  ASSUME NEW p, NEW c PROVE (OnlyFor(<<p>>, c) <=> Fits(p, c)) /\ OnlyFor(<<>>, c)
BY DEF OnlyFor
-----------------------------------------------------------------------------
Telling == {p \in Any : IsEvent(p)}

LEMMA ToldJoined ==
  ASSUME NEW a \in Seq(Any), NEW b \in Seq(Any)
  PROVE  /\ Told(a \o b) = Told(a) \cup Told(b)
         /\ InOrder(a \o b) <=> InOrder(a) /\ InOrder(b) /\ Before(Told(a), Told(b))
<1> DEFINE c == a \o b
<1>0. ASSUME NEW q \in Seq(Any) PROVE EventsAt(q) = At(q, Telling)
  BY DEF EventsAt, At, Telling
<1>1. /\ EventsAt(c) = EventsAt(a) \cup {Len(a) + j : j \in EventsAt(b)}
      /\ Len(a) \in Nat /\ EventsAt(b) \subseteq Nat
      /\ \A i \in EventsAt(a) : i \in 1 .. Len(a) /\ c[i] = a[i]
      /\ \A j \in EventsAt(b) : j > 0 /\ c[Len(a) + j] = b[j]
  <2>1. c \in Seq(Any)
    OBVIOUS
  <2>2. EventsAt(c) = At(c, Telling) /\ EventsAt(a) = At(a, Telling) /\ EventsAt(b) = At(b, Telling)
    BY <1>0, <2>1
  <2>3. /\ At(c, Telling) = At(a, Telling) \cup {Len(a) + j : j \in At(b, Telling)}
        /\ Len(a) \in Nat
        /\ At(a, Telling) \in SUBSET (1 .. Len(a)) /\ At(b, Telling) \in SUBSET Nat
        /\ \A i \in At(a, Telling) : c[i] = a[i]
        /\ \A j \in At(b, Telling) : j > 0 /\ c[Len(a) + j] = b[j]
    BY Joined
  <2> HIDE DEF c
  <2> QED BY <2>2, <2>3
<1> HIDE DEF c
<1>3. Told(c) = Told(a) \cup Told(b)
  <2>1. ASSUME NEW i \in EventsAt(c) PROVE c[i].n \in Told(a) \cup Told(b)
    BY <1>1, <2>1 DEF Told
  <2>2. ASSUME NEW i \in EventsAt(a) PROVE a[i].n \in Told(c)
    BY <1>1, <2>2 DEF Told
  <2>3. ASSUME NEW j \in EventsAt(b) PROVE b[j].n \in Told(c)
    BY <1>1, <2>3 DEF Told
  <2> QED BY <2>1, <2>2, <2>3 DEF Told
<1>4. ASSUME InOrder(c) PROVE InOrder(a) /\ InOrder(b) /\ Before(Told(a), Told(b))
  <2>1. InOrder(a)
    BY <1>1, <1>4 DEF InOrder
  <2>2. InOrder(b)
    <3> SUFFICES ASSUME NEW i \in EventsAt(b), NEW j \in EventsAt(b), i < j
                 PROVE  b[i].n < b[j].n
      BY DEF InOrder
    <3>1. Len(a) + i < Len(a) + j
      BY <1>1
    <3> QED BY <1>1, <1>4, <3>1 DEF InOrder
  <2>3. Before(Told(a), Told(b))
    <3> SUFFICES ASSUME NEW i \in EventsAt(a), NEW j \in EventsAt(b)
                 PROVE  a[i].n < b[j].n
      BY DEF Told, Before
    <3>1. i < Len(a) + j
      BY <1>1
    <3> QED BY <1>1, <1>4, <3>1 DEF InOrder
  <2> QED BY <2>1, <2>2, <2>3
<1>5. ASSUME InOrder(a), InOrder(b), Before(Told(a), Told(b)) PROVE InOrder(c)
  <2> SUFFICES ASSUME NEW i \in EventsAt(c), NEW j \in EventsAt(c), i < j
               PROVE  c[i].n < c[j].n
    BY DEF InOrder
  <2>1. CASE i \in EventsAt(a) /\ j \in EventsAt(a)
    BY <1>1, <1>5, <2>1 DEF InOrder
  <2>2. ASSUME i \in EventsAt(a), NEW l \in EventsAt(b), j = Len(a) + l
        PROVE  c[i].n < c[j].n
    BY <1>1, <1>5, <2>2 DEF Before, Told
  <2>3. ASSUME NEW k \in EventsAt(b), i = Len(a) + k, j \in EventsAt(a)
        PROVE  FALSE
    BY <1>1, <2>3
  <2>4. ASSUME NEW k \in EventsAt(b), i = Len(a) + k, NEW l \in EventsAt(b), j = Len(a) + l
        PROVE  c[i].n < c[j].n
    <3>1. k < l
      BY <1>1, <2>4
    <3> QED BY <1>1, <1>5, <2>4, <3>1 DEF InOrder
  <2> QED BY <1>1, <2>1, <2>2, <2>3, <2>4
<1> QED BY <1>3, <1>4, <1>5 DEF c

LEMMA ToldOne ==
  ASSUME NEW p
  PROVE  /\ Told(<<p>>) = (IF IsEvent(p) THEN {p.n} ELSE {}) /\ InOrder(<<p>>)
         /\ Told(<<>>) = {} /\ InOrder(<<>>)
<1>1. EventsAt(<<>>) = {} /\ EventsAt(<<p>>) = IF IsEvent(p) THEN {1} ELSE {}
  BY DEF EventsAt
<1> QED BY <1>1 DEF Told, InOrder

(* The latest event of a queue in order is the last of those it tells.     *)
LEMMA LatestTold ==
  ASSUME NEW T, NEW q \in Seq(T), InOrder(q)
  PROVE  /\ Told(q) = {} => Latest(q) = seen
         /\ Told(q) # {} => /\ Latest(q) \in Told(q)
                            /\ \A e \in Told(q) : e = Latest(q) \/ e < Latest(q)
<1>1. Told(q) = {} <=> EventsAt(q) = {}
  BY DEF Told
<1>2. CASE EventsAt(q) = {}
  BY <1>1, <1>2 DEF Latest
<1>3. CASE EventsAt(q) # {}
  <2> DEFINE m == Max(EventsAt(q))
  <2>1. Len(q) \in Nat /\ EventsAt(q) \in SUBSET (1 .. Len(q))
    BY DEF EventsAt
  <2>2. m \in EventsAt(q) /\ \A i \in EventsAt(q) : i <= m
    BY <1>3, <2>1, MaxOf
  <2> HIDE DEF m
  <2>3. Latest(q) = q[m].n
    BY <1>3 DEF Latest, m
  <2>4. \A i \in EventsAt(q) : i = m \/ i < m
    BY <2>1, <2>2
  <2> QED BY <1>1, <1>3, <2>2, <2>3, <2>4 DEF Told, InOrder
<1> QED BY <1>2, <1>3
-----------------------------------------------------------------------------
(* What one packet more, at the end or in front, does to a queue.          *)
One(p)  == IF IsAnswer(p) THEN 1 ELSE 0
News(p) == IF IsEvent(p) THEN {p.n} ELSE {}

LEMMA Appended ==
  ASSUME NEW q \in Seq(Any), NEW p \in Any
  PROVE  /\ Answers(Append(q, p)) = Answers(q) + One(p)
         /\ \A c : OnlyFor(Append(q, p), c) <=> OnlyFor(q, c) /\ Fits(p, c)
         /\ Told(Append(q, p)) = Told(q) \cup News(p)
         /\ InOrder(Append(q, p)) <=> InOrder(q) /\ Before(Told(q), News(p))
<1>1. Append(q, p) = q \o <<p>> /\ <<p>> \in Seq(Any)
  BY AppendIsConcat
<1>2. Answers(q \o <<p>>) = Answers(q) + One(p)
  BY <1>1, AnswersJoined, AnswersOne DEF One
<1>3. \A c : OnlyFor(q \o <<p>>, c) <=> OnlyFor(q, c) /\ Fits(p, c)
  BY <1>1, FitsJoined, FitsOne
<1>4. /\ Told(q \o <<p>>) = Told(q) \cup News(p)
      /\ InOrder(q \o <<p>>) <=> InOrder(q) /\ Before(Told(q), News(p))
  <2>1. Told(<<p>>) = News(p) /\ InOrder(<<p>>)
    BY ToldOne DEF News
  <2> QED BY <1>1, <2>1, ToldJoined
<1> QED BY <1>1, <1>2, <1>3, <1>4

LEMMA Begun ==
  ASSUME NEW q \in Seq(Any), NEW p \in Any
  PROVE  /\ <<p>> \o q \in Seq(Any)
         /\ Answers(<<p>> \o q) = One(p) + Answers(q)
         /\ \A c : OnlyFor(<<p>> \o q, c) <=> Fits(p, c) /\ OnlyFor(q, c)
         /\ Told(<<p>> \o q) = News(p) \cup Told(q)
         /\ InOrder(<<p>> \o q) <=> InOrder(q) /\ Before(News(p), Told(q))
<1>1. <<p>> \in Seq(Any) /\ <<p>> \o q \in Seq(Any)
  OBVIOUS
<1>2. Answers(<<p>> \o q) = One(p) + Answers(q)
  BY <1>1, AnswersJoined, AnswersOne DEF One
<1>3. \A c : OnlyFor(<<p>> \o q, c) <=> Fits(p, c) /\ OnlyFor(q, c)
  BY <1>1, FitsJoined, FitsOne
<1>4. /\ Told(<<p>> \o q) = News(p) \cup Told(q)
      /\ InOrder(<<p>> \o q) <=> InOrder(q) /\ Before(News(p), Told(q))
  <2>1. Told(<<p>>) = News(p) /\ InOrder(<<p>>)
    BY ToldOne DEF News
  <2> QED BY <1>1, <2>1, ToldJoined
<1> QED BY <1>1, <1>2, <1>3, <1>4

LEMMA Parted ==
  ASSUME NEW q \in Seq(Any), q # <<>>
  PROVE  /\ Head(q) \in Any /\ Tail(q) \in Seq(Any)
         /\ Answers(q) = One(Head(q)) + Answers(Tail(q))
         /\ \A c : OnlyFor(q, c) <=> Fits(Head(q), c) /\ OnlyFor(Tail(q), c)
         /\ Told(q) = News(Head(q)) \cup Told(Tail(q))
         /\ InOrder(q) <=> InOrder(Tail(q)) /\ Before(News(Head(q)), Told(Tail(q)))
<1> DEFINE p == Head(q)
           t == Tail(q)
<1>1. q = <<p>> \o t /\ p \in Any /\ t \in Seq(Any)
  BY Pieces
<1> HIDE DEF p, t
<1>2. /\ Answers(<<p>> \o t) = One(p) + Answers(t)
      /\ \A c : OnlyFor(<<p>> \o t, c) <=> Fits(p, c) /\ OnlyFor(t, c)
      /\ Told(<<p>> \o t) = News(p) \cup Told(t)
      /\ InOrder(<<p>> \o t) <=> InOrder(t) /\ Before(News(p), Told(t))
  BY <1>1, Begun
<1> QED BY <1>1, <1>2, Zenon DEF p, t

(* The latest event of one packet.                                         *)
LEMMA LatestOne ==
  ASSUME NEW p \in Any
  PROVE  Latest(<<p>>) = IF IsEvent(p) THEN p.n ELSE seen
<1>1. <<p>> \in Seq(Any)
  OBVIOUS
<1> QED BY <1>1, ToldOne, LatestTold
-----------------------------------------------------------------------------
(* The invariant.  No thread runs before start(), and nothing is routed.   *)
ReaderInv == running => errors < MaxErrors
StartInv  == phase \in {"ping", "drain", "drained"}
               => threads = {} /\ responses = <<>> /\ events = <<>>

(* The answers under way.                                                  *)
MatchInv == /\ Outstanding + Len(responses) <= Waiting + surplus
            /\ surplus = 0 => /\ OnlyFor(toMcu, cmd) /\ OnlyFor(toPc, cmd)
                              /\ OnlyFor(responses, cmd)

(* The events under way, queue by queue.                                   *)
Awaited  == Told(events) \cup Told(toPc)
OrderInv == /\ InOrder(events) /\ InOrder(toPc) /\ Before(Told(events), Told(toPc))
            /\ \A e \in Awaited : e \in seen + 1 .. raised /\ e # slot
            /\ slot # 0 => slot = raised /\ seen < slot
            /\ ~hurt => \A e \in seen + 1 .. raised : e \in Awaited \/ e = slot

IInv == TypeOK /\ ReaderInv /\ StartInv /\ MatchInv /\ OrderInv

LEMMA Bounds ==
  /\ MaxRetries \in Nat \ {0} /\ MaxErrors \in Nat \ {0} /\ MaxCommands \in Nat \ {0}
  /\ MaxEvents \in Nat \ {0} /\ MaxPolls \in Nat /\ MaxFaults \in Nat
BY PcAssumption

LEMMA PacketTypes ==
  /\ Requests \subseteq Any /\ Replies \subseteq Any /\ Events \subseteq Any
  /\ Poll \in Any /\ Bad \in Any /\ Nack \in Any /\ Clean \in Any
BY Bounds DEF Any, Requests, Replies, Events, Poll, Bad, Nack, Clean, Packet

Downward == Replies \cup Events \cup {Nack, Clean}

LEMMA QueueTypes ==
  ASSUME TypeOK
  PROVE  /\ toMcu \in Seq(Any) /\ toPc \in Seq(Any)
         /\ responses \in Seq(Any) /\ events \in Seq(Any)
<1>1. /\ toMcu \in Seq(Requests) /\ toPc \in Seq(Downward)
      /\ responses \in Seq(Replies \cup {Nack}) /\ events \in Seq(Events)
  BY DEF TypeOK, Downward
<1>2. /\ Requests \subseteq Any /\ Downward \subseteq Any
      /\ Replies \cup {Nack} \subseteq Any /\ Events \subseteq Any
  BY PacketTypes DEF Downward
<1>3. ASSUME NEW S, NEW T, S \subseteq T, NEW q \in Seq(S) PROVE q \in Seq(T)
  BY <1>3
<1> QED BY <1>1, <1>2, <1>3

LEMMA InitIInv == Init => IInv
<1> SUFFICES ASSUME Init PROVE IInv
  OBVIOUS
<1>0. /\ Packet("cmd", 1) \in Any /\ Packet("cmd", 1) \in Requests
  BY Bounds DEF Any, Packet, Requests
<1>1. TypeOK
  <2>1. toMcu \in Seq(Requests)
    BY <1>0 DEF Init
  <2>2. /\ toPc \in Seq(Downward) /\ responses \in Seq(Replies \cup {Nack})
        /\ events \in Seq(Events)
    BY EmptySeq DEF Init
  <2>3. uart_idle \in BOOLEAN
    BY PcAssumption DEF Init
  <2>4. /\ cmd \in 1 .. MaxCommands /\ attempt \in 0 .. MaxRetries + MaxPolls
        /\ errors \in 0 .. MaxErrors /\ faults \in 0 .. MaxFaults /\ surplus \in Nat
        /\ slot \in 0 .. raised /\ raised \in 0 .. MaxEvents /\ seen \in 0 .. raised
    BY Bounds DEF Init
  <2>5. /\ running \in BOOLEAN /\ hurt \in BOOLEAN /\ phase = "ping"
        /\ threads \subseteq Daemons
    BY DEF Init
  <2> QED BY <2>1, <2>2, <2>3, <2>4, <2>5 DEF TypeOK, Downward
<1>2. ReaderInv /\ StartInv
  BY Bounds DEF Init, ReaderInv, StartInv
<1>3. MatchInv
  <2>1. Answers(toMcu) = 1 /\ Answers(toPc) = 0
    BY <1>0, AnswersOne DEF Init, IsAnswer, Packet
  <2>2. OnlyFor(toMcu, cmd) /\ OnlyFor(toPc, cmd) /\ OnlyFor(responses, cmd)
    BY FitsOne DEF Init, Fits, Packet
  <2> QED BY <2>1, <2>2 DEF MatchInv, Init, Outstanding, Waiting
<1>4. OrderInv
  <2>1. /\ Told(toPc) = {} /\ Told(events) = {} /\ Awaited = {}
        /\ InOrder(toPc) /\ InOrder(events)
    BY ToldOne DEF Init, Awaited
  <2>2. /\ slot # 0 => slot = raised /\ seen < slot
        /\ \A e \in seen + 1 .. raised : e = slot
    BY DEF Init
  <2> QED BY <2>1, <2>2 DEF OrderInv, Before
<1> QED BY <1>1, <1>2, <1>3, <1>4 DEF IInv
-----------------------------------------------------------------------------
(* What has been seen after reading the front of a queue of events.        *)
LEMMA SeenStep ==
  ASSUME NEW q \in Seq(Any), InOrder(q), raised \in Nat, seen \in 0 .. raised,
         \A e \in Told(q) : e \in seen + 1 .. raised
  PROVE  /\ Latest(q) \in seen .. raised
         /\ \A e \in Told(q) : e <= Latest(q)
         /\ Latest(q) = seen \/ Latest(q) \in Told(q)
<1>1. CASE Told(q) = {}
  BY <1>1, LatestTold
<1>2. CASE Told(q) # {}
  <2>1. Latest(q) \in Told(q) /\ \A e \in Told(q) : e = Latest(q) \/ e < Latest(q)
    BY <1>2, LatestTold
  <2> QED BY <2>1
<1> QED BY <1>1, <1>2

(* Where the receiver puts a packet.                                       *)
LEMMA Routed ==
  ASSUME NEW p, Route(p)
  PROVE  /\ p.kind = "event" => events' = Append(events, p) /\ responses' = responses
         /\ p.kind = "ack" => events' = events /\ responses' = responses
         /\ p.kind \notin {"event", "ack"}
              => responses' = Append(responses, p) /\ events' = events
BY DEF Route, queueVars

(* What the startup reads and what it leaves: some packets, the front of   *)
(* the rest of which may be misread.                                       *)
LEMMA EchoSplit ==
  ASSUME TypeOK, Echo
  PROVE  \E q \in Seq(Any), r \in Seq(Any) :
           /\ toPc = q \o r /\ seen' = Latest(q)
           /\ \/ toPc' = r /\ hurt' = hurt
              \/ /\ r # <<>>
                 /\ \E p \in Misread : toPc' = <<p>> \o Tail(r)
                 /\ hurt' = (hurt \/ Head(r).kind = "event")
<1>1. PICK k \in 0 .. Len(toPc) :
        /\ seen' = Latest(SubSeq(toPc, 1, k))
        /\ LET rest == SubSeq(toPc, k + 1, Len(toPc))
           IN  \/ toPc' = rest /\ UNCHANGED hurt
               \/ /\ rest # <<>>
                  /\ \E p \in Misread : toPc' = <<p>> \o Tail(rest)
                  /\ hurt' = (hurt \/ Head(rest).kind = "event")
  BY DEF Echo
<1> DEFINE q == SubSeq(toPc, 1, k)
           r == SubSeq(toPc, k + 1, Len(toPc))
<1>2. toPc = q \o r /\ q \in Seq(Any) /\ r \in Seq(Any)
  BY QueueTypes, Pieces
<1>3. /\ seen' = Latest(q)
      /\ \/ toPc' = r /\ hurt' = hurt
         \/ /\ r # <<>>
            /\ \E p \in Misread : toPc' = <<p>> \o Tail(r)
            /\ hurt' = (hurt \/ Head(r).kind = "event")
  BY <1>1
<1> HIDE DEF q, r
<1> QED BY <1>2, <1>3

LEMMA MisreadTypes == \A p \in Misread : p \in Any /\ ~IsEvent(p) /\ \A c : Fits(p, c)
BY DEF Misread, Any, IsEvent, Fits, Packet, Nack, Clean

LEMMA EchoTypes ==
  ASSUME TypeOK, Echo
  PROVE  toPc' \in Seq(Downward) /\ toPc' \in Seq(Any) /\ hurt' \in BOOLEAN
<1>1. PICK k \in 0 .. Len(toPc) :
        LET rest == SubSeq(toPc, k + 1, Len(toPc))
        IN  \/ toPc' = rest /\ UNCHANGED hurt
            \/ /\ rest # <<>>
               /\ \E p \in Misread : toPc' = <<p>> \o Tail(rest)
               /\ hurt' = (hurt \/ Head(rest).kind = "event")
  BY DEF Echo
<1> DEFINE r == SubSeq(toPc, k + 1, Len(toPc))
<1>2. r \in Seq(Downward)
  <2>1. toPc \in Seq(Downward)
    BY DEF TypeOK, Downward
  <2> QED BY <2>1, Pieces
<1>3. \/ toPc' = r
      \/ r # <<>> /\ \E p \in Misread : toPc' = <<p>> \o Tail(r)
  BY <1>1
<1>4. hurt' \in BOOLEAN
  <2>1. hurt' = hurt \/ \E x \in BOOLEAN : hurt' = (hurt \/ x)
    BY <1>1
  <2> QED BY <2>1 DEF TypeOK
<1> HIDE DEF r
<1>5. \A p \in Misread : p \in Downward
  BY Bounds DEF Misread, Downward, Replies, Events
<1>6. toPc' \in Seq(Downward)
  <2>1. r # <<>> => Tail(r) \in Seq(Downward)
    BY <1>2
  <2>2. ASSUME NEW p \in Misread, r # <<>>, toPc' = <<p>> \o Tail(r)
        PROVE  toPc' \in Seq(Downward)
    <3>1. <<p>> \in Seq(Downward)
      BY <1>5
    <3> QED BY <2>1, <2>2, <3>1
  <2> QED BY <1>2, <1>3, <2>2
<1>7. Downward \subseteq Any
  BY PacketTypes DEF Downward
<1> QED BY <1>4, <1>6, <1>7

LEMMA TypesStep == IInv /\ [Next]_vars => TypeOK'
<1> SUFFICES ASSUME IInv, [Next]_vars PROVE TypeOK'
  OBVIOUS
<1> USE DEF mainVars, lineVars, queueVars, eventVars
<1>0. TypeOK /\ ReaderInv /\ StartInv /\ MatchInv /\ OrderInv
  BY DEF IInv
<1>t. /\ toMcu # <<>> => Head(toMcu) \in Requests /\ Tail(toMcu) \in Seq(Requests)
      /\ toPc # <<>> => Head(toPc) \in Downward /\ Tail(toPc) \in Seq(Downward)
      /\ responses # <<>> => Tail(responses) \in Seq(Replies \cup {Nack})
      /\ events # <<>> => Head(events) \in Events /\ Tail(events) \in Seq(Events)
  BY <1>0 DEF TypeOK, Downward
<1>k. \A c \in 1 .. MaxCommands : Packet("cmd", c) \in Requests
  BY DEF Requests
<1>1. CASE McuEvent
  <2>1. slot' \in 0 .. raised' /\ raised' \in 0 .. MaxEvents /\ seen \in 0 .. raised'
    BY <1>0, <1>1, Bounds DEF McuEvent, Raise, Raisable, TypeOK
  <2> QED BY <1>0, <1>1, <2>1 DEF McuEvent, TypeOK, Daemons
<1>2. CASE McuFlush
  <2>1. Append(toPc, Packet("event", slot)) \in Seq(Downward)
    BY <1>0, Bounds DEF TypeOK, Downward, Events
  <2> QED BY <1>0, <1>2, <2>1 DEF McuFlush, TypeOK, Downward, Daemons
<1>3. CASE McuAnswer
  <2> DEFINE p == Head(toMcu)
  <2>1. p \in Requests
    BY <1>t, <1>3 DEF McuAnswer
  <2>2. toPc' \in Seq(Downward)
    <3>1. p.kind = "cmd" => p.n \in 0 .. MaxCommands
      BY <2>1, Bounds DEF Requests, Packet, Poll, Bad
    <3>2. Packet("event", slot) \in Events
      BY <1>0, Bounds DEF TypeOK, Events
    <3>3. \E d \in Downward : toPc' = Append(toPc, d)
      BY <1>3, <3>1, <3>2 DEF McuAnswer, Downward, Replies
    <3> QED BY <1>0, <3>3 DEF TypeOK, Downward
  <2>3. slot' \in 0 .. raised' /\ raised' \in 0 .. MaxEvents /\ seen \in 0 .. raised'
    BY <1>0, <1>3, Bounds DEF McuAnswer, Raise, Raisable, TypeOK
  <2> QED BY <1>0, <1>3, <1>t, <2>2, <2>3 DEF McuAnswer, TypeOK, Downward, Daemons
<1>4. CASE DamageRequest
  <2>1. <<Bad>> \o Tail(toMcu) \in Seq(Requests)
    BY <1>4, <1>t DEF DamageRequest, Requests
  <2>2. toMcu' \in Seq(Requests)
    BY <1>4, <1>t, <2>1 DEF DamageRequest
  <2>3. surplus' \in Nat /\ faults' \in 0 .. MaxFaults
    BY <1>0, <1>4, Bounds DEF DamageRequest, TypeOK
  <2> QED BY <1>0, <1>4, <2>2, <2>3 DEF DamageRequest, TypeOK, Daemons
<1>5. CASE DamageReply
  <2>1. \A p \in Misread : p \in Downward
    BY Bounds DEF Misread, Downward, Replies, Events
  <2>2. \A p \in Downward : <<p>> \o Tail(toPc) \in Seq(Downward)
    BY <1>5, <1>t DEF DamageReply
  <2>3. toPc' \in Seq(Downward)
    BY <1>5, <1>t, <2>1, <2>2 DEF DamageReply
  <2>4. surplus' \in Nat
    <3>1. surplus' = surplus \/ surplus' = surplus + 1
      BY <1>5 DEF DamageReply
    <3> QED BY <1>0, <3>1 DEF TypeOK
  <2> QED BY <1>0, <1>5, <2>3, <2>4, Bounds DEF DamageReply, TypeOK, Downward, Daemons
<1>6. CASE Echo
  <2>1. PICK q \in Seq(Any), r \in Seq(Any) : toPc = q \o r /\ seen' = Latest(q)
    BY <1>0, <1>6, EchoSplit
  <2>2. toPc' \in Seq(Downward) /\ toPc' \in Seq(Any) /\ hurt' \in BOOLEAN
    BY <1>0, <1>6, EchoTypes
  <2>3. surplus' \in Nat
    <3>1. toMcu \in Seq(Any) /\ toPc' \in Seq(Any)
      BY <1>0, <2>2, QueueTypes
    <3>2. Answers(toMcu) \in Nat /\ Answers(toPc') \in Nat
      BY <3>1, AnswersType
    <3>3. surplus' = Answers(toMcu) + Answers(toPc')
      BY <1>6 DEF Echo
    <3> QED BY <3>2, <3>3
  <2>4. seen' \in 0 .. raised
    <3>1. InOrder(q) /\ Told(q) \subseteq Told(toPc)
      BY <1>0, <2>1, ToldJoined DEF OrderInv
    <3>2. Latest(q) \in seen .. raised
      BY <1>0, <3>1, SeenStep DEF OrderInv, Awaited, TypeOK
    <3> QED BY <1>0, <2>1, <3>2 DEF TypeOK
  <2> QED BY <1>0, <1>6, <2>2, <2>3, <2>4 DEF Echo, TypeOK, Downward, Daemons
<1>7. CASE DrainPoll
  <2>1. Append(toMcu, Poll) \in Seq(Requests)
    BY <1>0 DEF TypeOK, Requests
  <2> QED BY <1>0, <1>7, <2>1 DEF DrainPoll, TypeOK, Downward, Daemons
<1>h. ASSUME NEW q \in {toPc, events}, q # <<>>
      PROVE  Latest(<<Head(q)>>) \in 0 .. raised
  <2>1. q \in Seq(Any) /\ \A e \in Told(q) : e \in seen + 1 .. raised
    BY <1>0, QueueTypes DEF OrderInv, Awaited
  <2>2. Head(q) \in Any /\ News(Head(q)) \subseteq Told(q)
    BY <1>h, <2>1, Parted
  <2> QED BY <1>0, <2>1, <2>2, LatestOne DEF News, TypeOK
<1>8. CASE DrainEvent
  <2>1. seen' \in 0 .. raised
    BY <1>8, <1>h DEF DrainEvent
  <2>2. attempt' \in 0 .. MaxRetries + MaxPolls
    BY <1>0, <1>8, Bounds DEF DrainEvent, TypeOK
  <2> QED BY <1>0, <1>8, <1>t, <2>1, <2>2 DEF DrainEvent, TypeOK, Downward, Daemons
<1>9. CASE DrainEnd
  <2>1. phase \in {"drain", "drained"}
    BY <1>9 DEF DrainEnd, Draining
  <2>2. surplus' \in Nat
    <3>1. CASE surplus' = surplus
      BY <1>0, <3>1 DEF TypeOK
    <3>2. CASE toPc # <<>> /\ IsAnswer(Head(toPc)) /\ surplus' = surplus - 1
      <4>1. Answers(toPc) = 1 + Answers(Tail(toPc)) /\ Tail(toPc) \in Seq(Any)
        BY <1>0, <3>2, QueueTypes, Parted DEF One
      <4>2. Answers(toMcu) \in Nat /\ Answers(Tail(toPc)) \in Nat /\ Len(responses) \in Nat
        <5>1. toMcu \in Seq(Any) /\ responses \in Seq(Any)
          BY <1>0, QueueTypes
        <5>2. Len(responses) \in Nat
          BY <5>1
        <5> QED BY <4>1, <5>1, <5>2, AnswersType
      <4>3. Answers(toMcu) + Answers(toPc) + Len(responses) <= surplus
        BY <1>0, <2>1 DEF MatchInv, Outstanding, Waiting, TypeOK
      <4> QED BY <1>0, <3>2, <4>1, <4>2, <4>3 DEF TypeOK
    <3> QED BY <1>9, <3>1, <3>2 DEF DrainEnd
  <2>3. toPc' \in Seq(Downward)
    BY <1>0, <1>9, <1>t DEF DrainEnd, TypeOK, Downward
  <2>4. threads' = Daemons' /\ phase' = "prompt" /\ attempt' = 0
    BY <1>9 DEF DrainEnd, StartThreads, Daemons
  <2>5. UNCHANGED <<uart_idle, cmd, running, errors, toMcu, queueVars, eventVars, faults>>
    BY <1>9 DEF DrainEnd
  <2> QED BY <1>0, <2>2, <2>3, <2>4, <2>5, Bounds DEF TypeOK, Downward
<1>10. CASE Type
  <2>1. cmd' \in 1 .. MaxCommands /\ Append(toMcu, Packet("cmd", cmd + 1)) \in Seq(Requests)
    BY <1>0, <1>10, <1>k, Bounds DEF Type, TypeOK
  <2>2. attempt' \in 0 .. MaxRetries + MaxPolls /\ attempt' \in 1 .. MaxRetries
    BY <1>10, Bounds DEF Type
  <2> QED BY <1>0, <1>10, <2>1, <2>2 DEF Type, TypeOK, Downward, Daemons
<1>11. ASSUME phase = "wait", NextAttempt
       PROVE  /\ toMcu' \in Seq(Requests) /\ phase' \in {"prompt", "wait"}
              /\ attempt' \in 0 .. MaxRetries + MaxPolls
              /\ phase' = "wait" => attempt' \in 1 .. MaxRetries
  <2>1. Append(toMcu, Packet("cmd", cmd)) \in Seq(Requests)
    BY <1>0, <1>k DEF TypeOK
  <2>2. CASE attempt < MaxRetries
    <3>1. attempt \in Nat \ {0}
      BY <1>0, <1>11, Bounds DEF TypeOK
    <3>2. attempt + 1 \in 1 .. MaxRetries /\ attempt + 1 \in 0 .. MaxRetries + MaxPolls
      BY <2>2, <3>1, Bounds
    <3> QED BY <1>11, <2>1, <2>2, <3>2 DEF NextAttempt
  <2>3. CASE ~(attempt < MaxRetries)
    BY <1>0, <1>11, <2>3, Bounds DEF NextAttempt, TypeOK
  <2> QED BY <2>2, <2>3
<1>12. CASE Nacked
  BY <1>0, <1>11, <1>12, <1>t DEF Nacked, TypeOK, Downward, Daemons
<1>13. CASE Acked
  BY <1>0, <1>13, <1>t, Bounds DEF Acked, TypeOK, Downward, Daemons
<1>14. CASE Timeout
  <2>1. surplus' \in Nat
    BY <1>0, <1>14 DEF Timeout, TypeOK
  <2> QED BY <1>0, <1>11, <1>14, <2>1 DEF Timeout, TypeOK, Downward, Daemons
<1>15. CASE Exit
  BY <1>0, <1>15 DEF Exit, TypeOK, Downward, Daemons
<1>16. CASE RxPacket
  <2>1. Head(toPc) \in Downward /\ Tail(toPc) \in Seq(Downward)
    BY <1>16, <1>t DEF RxPacket
  <2>2. responses' \in Seq(Replies \cup {Nack}) /\ events' \in Seq(Events)
    <3>0. Route(Head(toPc)) /\ responses \in Seq(Replies \cup {Nack}) /\ events \in Seq(Events)
      BY <1>0, <1>16 DEF RxPacket, TypeOK
    <3>1. CASE Head(toPc).kind = "event"
      <4>1. Head(toPc) \in Events
        BY <2>1, <3>1 DEF Downward, Replies, Nack, Clean, Packet
      <4>2. events' = Append(events, Head(toPc)) /\ responses' = responses
        BY <3>0, <3>1, Routed
      <4> QED BY <3>0, <4>1, <4>2
    <3>2. CASE Head(toPc).kind = "ack"
      BY <3>0, <3>2, Routed
    <3>3. CASE Head(toPc).kind \notin {"event", "ack"}
      <4>1. Head(toPc) \in Replies \cup {Nack}
        BY <2>1, <3>3 DEF Downward, Events, Clean, Packet
      <4>2. responses' = Append(responses, Head(toPc)) /\ events' = events
        BY <3>0, <3>3, Routed
      <4> QED BY <3>0, <4>1, <4>2
    <3> QED BY <3>1, <3>2, <3>3
  <2>3. UNCHANGED <<uart_idle, mainVars, running, threads, toMcu, eventVars, surplus, faults>>
          /\ toPc' = Tail(toPc) /\ errors' = 0
    BY <1>16 DEF RxPacket
  <2> QED BY <1>0, <2>1, <2>2, <2>3, Bounds DEF TypeOK, Downward, Daemons
<1>17. CASE RxNothing
  BY <1>0, <1>17, Bounds DEF RxNothing, TypeOK, Downward, Daemons
<1>18. CASE RxError
  <2>1. errors' \in 0 .. MaxErrors /\ running' \in BOOLEAN
    BY <1>0, <1>18, Bounds DEF RxError, Alive, ReaderInv, TypeOK
  <2> QED BY <1>0, <1>18, <2>1 DEF RxError, TypeOK, Downward, Daemons
<1>19. CASE Listen
  <2>1. seen' \in 0 .. raised
    BY <1>19, <1>h DEF Listen
  <2> QED BY <1>0, <1>19, <1>t, <2>1 DEF Listen, TypeOK, Downward, Daemons
<1>20. CASE SendPoll
  <2>1. Append(toMcu, Poll) \in Seq(Requests)
    BY <1>0 DEF TypeOK, Requests
  <2> QED BY <1>0, <1>20, <2>1 DEF SendPoll, TypeOK, Downward, Daemons
<1>21. CASE Ending
  BY <1>0, <1>21 DEF Ending, ThreadEnds, TypeOK, Downward, Daemons
<1>22. CASE UNCHANGED vars
  BY <1>0, <1>22 DEF vars, TypeOK, Downward, Daemons
<1>23. CASE Unplugged
  <2>1. /\ toMcu' \in Seq(Requests) /\ toPc' \in Seq(Downward)
        /\ responses' \in Seq(Replies \cup {Nack}) /\ events' \in Seq(Events)
    BY <1>23, EmptySeq DEF Unplugged
  <2> QED BY <1>0, <1>23, <2>1 DEF Unplugged, TypeOK, Downward
<1> QED BY <1>1, <1>2, <1>3, <1>4, <1>5, <1>6, <1>7, <1>8, <1>9, <1>10, <1>12, <1>13,
           <1>14, <1>15, <1>16, <1>17, <1>18, <1>19, <1>20, <1>21, <1>22, <1>23
        DEF Next, Mcu, Line, Startup, Await, Receive
-----------------------------------------------------------------------------
LEMMA StartStep == IInv /\ [Next]_vars => ReaderInv' /\ StartInv'
<1> SUFFICES ASSUME IInv, [Next]_vars PROVE ReaderInv' /\ StartInv'
  OBVIOUS
<1> USE DEF mainVars, lineVars, queueVars, eventVars, ReaderInv, StartInv
<1>0. TypeOK /\ ReaderInv /\ StartInv
  BY DEF IInv
<1>1. CASE McuEvent \/ Mcu \/ Line
  BY <1>0, <1>1 DEF McuEvent, Mcu, McuFlush, McuAnswer, Line, DamageRequest, DamageReply
<1>2. CASE Echo \/ DrainPoll \/ DrainEvent
  BY <1>0, <1>2 DEF Echo, DrainPoll, DrainEvent, Draining
<1>3. CASE DrainEnd
  BY <1>0, <1>3 DEF DrainEnd, StartThreads
<1>4. CASE Type \/ Await \/ Exit
  BY <1>0, <1>4 DEF Type, Await, Nacked, Acked, Timeout, NextAttempt, Exit
<1>5. CASE RxPacket
  <2>1. phase \notin {"ping", "drain", "drained"} /\ errors' = 0 /\ UNCHANGED <<phase, running>>
    BY <1>0, <1>5 DEF RxPacket, Alive
  <2> QED BY <1>0, <2>1, Bounds
<1>6. CASE RxNothing
  BY <1>0, <1>6, Bounds DEF RxNothing
<1>7. CASE RxError
  BY <1>0, <1>7 DEF RxError, Alive
<1>8. CASE Listen \/ SendPoll
  BY <1>0, <1>8 DEF Listen, SendPoll, Alive
<1>9. CASE Ending
  BY <1>0, <1>9 DEF Ending, ThreadEnds
<1>10. CASE UNCHANGED vars
  BY <1>0, <1>10 DEF vars
<1>11. CASE Unplugged
  BY <1>0, <1>11 DEF Unplugged
<1> QED BY <1>1, <1>2, <1>3, <1>4, <1>5, <1>6, <1>7, <1>8, <1>9, <1>10, <1>11
        DEF Next, Startup, Receive
-----------------------------------------------------------------------------
(* Without an answer under way nothing is for anyone.                      *)
LEMMA NothingUnderWay ==
  ASSUME NEW m \in Seq(Any), NEW p \in Seq(Any), NEW r \in Seq(Any),
         Answers(m) + Answers(p) + Len(r) <= 0, NEW c
  PROVE  OnlyFor(m, c) /\ OnlyFor(p, c) /\ OnlyFor(r, c)
<1>1. Answers(m) \in Nat /\ Answers(p) \in Nat
  BY AnswersType
<1>2. Len(r) \in Nat
  OBVIOUS
<1>3. Answers(m) = 0 /\ Answers(p) = 0 /\ Len(r) = 0
  BY <1>1, <1>2
<1>4. r = <<>>
  BY <1>3
<1> QED BY <1>3, <1>4, NoAnswers, FitsOne

(* The invariant, with Outstanding spelled out.                            *)
LEMMA MatchFrom ==
  ASSUME Answers(toMcu') + Answers(toPc') + Len(responses') <= Waiting' + surplus',
         surplus' = 0 => /\ OnlyFor(toMcu', cmd') /\ OnlyFor(toPc', cmd')
                         /\ OnlyFor(responses', cmd')
  PROVE  MatchInv'
BY DEF MatchInv, Outstanding

LEMMA MatchTypes ==
  ASSUME IInv
  PROVE  /\ toMcu \in Seq(Any) /\ toPc \in Seq(Any) /\ responses \in Seq(Any)
         /\ Answers(toMcu) \in Nat /\ Answers(toPc) \in Nat
         /\ Len(responses) \in Nat /\ surplus \in Nat /\ Waiting \in {0, 1}
         /\ Answers(toMcu) + Answers(toPc) + Len(responses) <= Waiting + surplus
<1>1. toMcu \in Seq(Any) /\ toPc \in Seq(Any) /\ responses \in Seq(Any)
  BY QueueTypes DEF IInv
<1>2. Answers(toMcu) \in Nat /\ Answers(toPc) \in Nat
  BY <1>1, AnswersType
<1>3. Len(responses) \in Nat
  BY <1>1
<1> QED BY <1>1, <1>2, <1>3 DEF IInv, TypeOK, MatchInv, Outstanding, Waiting

(* The MCU and the line: an answer becomes an answer, or one too many.     *)
LEMMA MatchAnswer == IInv /\ McuAnswer => MatchInv'
<1> SUFFICES ASSUME IInv, McuAnswer PROVE MatchInv'
  OBVIOUS
<1> DEFINE p == Head(toMcu)
<1>1. /\ toMcu # <<>> /\ toMcu' = Tail(toMcu)
      /\ UNCHANGED <<responses, phase, cmd, surplus>>
  BY DEF McuAnswer, mainVars, queueVars
<1>2. /\ p \in Any /\ Tail(toMcu) \in Seq(Any)
      /\ Answers(toMcu) = One(p) + Answers(Tail(toMcu))
      /\ OnlyFor(toMcu, cmd) <=> Fits(p, cmd) /\ OnlyFor(Tail(toMcu), cmd)
  BY <1>1, MatchTypes, Parted
<1>3. PICK d \in Any : /\ toPc' = Append(toPc, d) /\ One(d) = One(p)
                       /\ Fits(p, cmd) => Fits(d, cmd)
  <2>1. slot \in Nat
    BY Bounds DEF IInv, TypeOK
  <2>2. \A n \in Nat : Packet("reply", n) \in Any /\ Packet("event", n) \in Any
    BY DEF Packet, Any
  <2>3. CASE p.kind = "cmd" /\ toPc' = Append(toPc, Packet("reply", p.n))
    <3>1. Packet("reply", p.n) \in Any
      BY <1>2, <2>2 DEF Any
    <3> QED BY <2>3, <3>1 DEF One, IsAnswer, Fits, Packet
  <2>4. CASE p.kind = "bad" /\ toPc' = Append(toPc, Nack)
    BY <2>4, PacketTypes DEF One, IsAnswer, Fits, Packet, Nack
  <2>5. CASE p.kind = "poll" /\ toPc' = Append(toPc, Clean)
    BY <2>5, PacketTypes DEF One, IsAnswer, Fits, Packet, Clean
  <2>6. CASE p.kind = "poll" /\ toPc' = Append(toPc, Packet("event", slot))
    BY <2>1, <2>2, <2>6 DEF One, IsAnswer, Fits, Packet
  <2> QED BY <2>3, <2>4, <2>5, <2>6 DEF McuAnswer
<1>4. /\ Answers(toPc') = Answers(toPc) + One(d)
      /\ OnlyFor(toPc', cmd) <=> OnlyFor(toPc, cmd) /\ Fits(d, cmd)
  BY <1>3, MatchTypes, Appended
<1> HIDE DEF p
<1>5. Waiting' = Waiting
  BY <1>1 DEF Waiting
<1>6. One(p) \in Nat /\ Answers(Tail(toMcu)) \in Nat
  BY <1>2, AnswersType DEF One
<1>7. Answers(toMcu') + Answers(toPc') = Answers(toMcu) + Answers(toPc)
  BY <1>1, <1>2, <1>3, <1>4, <1>6, MatchTypes
<1>8. surplus = 0 => /\ OnlyFor(toMcu, cmd) /\ OnlyFor(toPc, cmd)
                     /\ OnlyFor(responses, cmd)
  BY DEF IInv, MatchInv
<1> QED BY <1>1, <1>2, <1>3, <1>4, <1>5, <1>7, <1>8, MatchTypes, MatchFrom

LEMMA MatchFlush == IInv /\ McuFlush => MatchInv'
<1> SUFFICES ASSUME IInv, McuFlush PROVE MatchInv'
  OBVIOUS
<1> DEFINE d == Packet("event", slot)
<1>1. d \in Any /\ One(d) = 0 /\ Fits(d, cmd)
  BY Bounds DEF IInv, TypeOK, Any, One, IsAnswer, Fits, Packet
<1>2. toPc' = Append(toPc, d) /\ UNCHANGED <<toMcu, responses, phase, cmd, surplus>>
  BY DEF McuFlush, mainVars, queueVars
<1> HIDE DEF d
<1>3. /\ Answers(toPc') = Answers(toPc)
      /\ OnlyFor(toPc', cmd) <=> OnlyFor(toPc, cmd)
  BY <1>1, <1>2, MatchTypes, Appended
<1>4. Waiting' = Waiting
  BY <1>2 DEF Waiting
<1>5. surplus = 0 => /\ OnlyFor(toMcu, cmd) /\ OnlyFor(toPc, cmd)
                     /\ OnlyFor(responses, cmd)
  BY DEF IInv, MatchInv
<1> QED BY <1>2, <1>3, <1>4, <1>5, MatchTypes, MatchFrom

LEMMA MatchDamage == IInv /\ Line => MatchInv'
<1> SUFFICES ASSUME IInv, Line PROVE MatchInv'
  OBVIOUS
<1>1. /\ UNCHANGED <<responses, phase, cmd>> /\ Waiting' = Waiting
      /\ surplus = 0 => /\ OnlyFor(toMcu, cmd) /\ OnlyFor(toPc, cmd)
                        /\ OnlyFor(responses, cmd)
  BY DEF Line, DamageRequest, DamageReply, mainVars, queueVars, Waiting, IInv, MatchInv
<1>2. ASSUME NEW q \in {toMcu, toPc}, q # <<>>
      PROVE  /\ Head(q) \in Any /\ Tail(q) \in Seq(Any)
             /\ One(Head(q)) \in Nat /\ Answers(Tail(q)) \in Nat
             /\ Answers(q) = One(Head(q)) + Answers(Tail(q))
             /\ OnlyFor(q, cmd) => OnlyFor(Tail(q), cmd)
             /\ \A d \in Any :
                  /\ Answers(<<d>> \o Tail(q)) = One(d) + Answers(Tail(q))
                  /\ Fits(d, cmd) /\ OnlyFor(q, cmd) => OnlyFor(<<d>> \o Tail(q), cmd)
  <2>1. q \in Seq(Any)
    BY MatchTypes
  <2>2. /\ Head(q) \in Any /\ Tail(q) \in Seq(Any)
        /\ Answers(q) = One(Head(q)) + Answers(Tail(q))
        /\ OnlyFor(q, cmd) <=> Fits(Head(q), cmd) /\ OnlyFor(Tail(q), cmd)
    BY <1>2, <2>1, Parted
  <2>3. \A d \in Any :
          /\ Answers(<<d>> \o Tail(q)) = One(d) + Answers(Tail(q))
          /\ OnlyFor(<<d>> \o Tail(q), cmd) <=> Fits(d, cmd) /\ OnlyFor(Tail(q), cmd)
    BY <2>2, Begun
  <2>4. One(Head(q)) \in Nat /\ Answers(Tail(q)) \in Nat
    BY <2>2, AnswersType DEF One
  <2> QED BY <2>2, <2>3, <2>4
<1>3. CASE DamageRequest
  <2> DEFINE p == Head(toMcu)
             t == Tail(toMcu)
  <2>1. toMcu # <<>> /\ toPc' = toPc
    BY <1>3 DEF DamageRequest
  <2>2. CASE toMcu' = t /\ surplus' = surplus
    BY <1>1, <1>2, <2>1, <2>2, MatchTypes, MatchFrom
  <2>3. CASE toMcu' = <<Bad>> \o t
             /\ surplus' = IF p.kind = "poll" THEN surplus + 1 ELSE surplus
    <3>1. Bad \in Any /\ One(Bad) = 1 /\ Fits(Bad, cmd)
      BY PacketTypes DEF One, IsAnswer, Fits, Bad, Packet
    <3>2. One(p) = IF p.kind = "poll" THEN 0 ELSE 1
      <4>1. p \in Requests
        BY <2>1 DEF IInv, TypeOK
      <4> QED BY <4>1 DEF Requests, One, IsAnswer, Poll, Bad, Packet
    <3>3. Answers(toMcu') = 1 + Answers(t) /\ (surplus' = 0 => OnlyFor(toMcu', cmd))
      BY <1>1, <1>2, <2>1, <2>3, <3>1, MatchTypes
    <3>4. Answers(toMcu) = One(p) + Answers(t) /\ Answers(t) \in Nat
      BY <1>2, <2>1
    <3> HIDE DEF p, t
    <3>5. Answers(toMcu') + Answers(toPc') + Len(responses') <= Waiting' + surplus'
      BY <1>1, <2>1, <2>3, <3>2, <3>3, <3>4, MatchTypes
    <3>6. surplus' = 0 => surplus = 0
      BY <2>3, MatchTypes
    <3> QED BY <1>1, <2>1, <3>3, <3>5, <3>6, MatchFrom
  <2> QED BY <1>3, <2>2, <2>3 DEF DamageRequest
<1>4. CASE DamageReply
  <2> DEFINE p == Head(toPc)
             t == Tail(toPc)
  <2>1. toPc # <<>> /\ toMcu' = toMcu
    BY <1>4 DEF DamageReply
  <2>2. CASE toPc' = t /\ surplus' = surplus
    BY <1>1, <1>2, <2>1, <2>2, MatchTypes, MatchFrom
  <2>3. ASSUME NEW d \in Misread,
               toPc' = <<d>> \o t,
               surplus' = IF IsAnswer(d) /\ ~IsAnswer(p) THEN surplus + 1 ELSE surplus
        PROVE  MatchInv'
    <3>1. d \in Any /\ Fits(d, cmd)
      BY MisreadTypes
    <3>2. Answers(toPc') = One(d) + Answers(t) /\ (surplus = 0 => OnlyFor(toPc', cmd))
      BY <1>1, <1>2, <2>1, <2>3, <3>1
    <3>3. Answers(toPc) = One(p) + Answers(t) /\ Answers(t) \in Nat
      BY <1>2, <2>1
    <3>4. One(d) + surplus <= One(p) + surplus' /\ surplus' >= surplus
          /\ One(d) \in Nat /\ One(p) \in Nat /\ surplus' \in Nat
      BY <2>3, MatchTypes DEF One
    <3> HIDE DEF p, t
    <3>5. Answers(toMcu') + Answers(toPc') + Len(responses') <= Waiting' + surplus'
      <4>1. Answers(toMcu) + (One(d) + Answers(t)) + Len(responses) <= Waiting + surplus'
        <5>1. \A m, r, w, s, n, x, y, a \in Nat :
                x + s <= y + n /\ m + (y + a) + r <= w + s => m + (x + a) + r <= w + n
          OBVIOUS
        <5>2. Answers(toMcu) + (One(p) + Answers(t)) + Len(responses) <= Waiting + surplus
          BY <3>3, MatchTypes
        <5> HIDE DEF One, Waiting
        <5>3. Waiting \in Nat
          BY MatchTypes
        <5> QED BY <3>3, <3>4, <5>1, <5>2, <5>3, MatchTypes
      <4> QED BY <1>1, <2>1, <3>2, <4>1, Zenon
    <3>6. surplus' = 0 => surplus = 0
      BY <3>4, MatchTypes
    <3> QED BY <1>1, <2>1, <3>2, <3>5, <3>6, MatchFrom
  <2> QED BY <1>4, <2>2, <2>3 DEF DamageReply
<1> QED BY <1>3, <1>4 DEF Line

(* At the start the thread takes what there is for its echo, and counts    *)
(* what is still to come as too much.                                      *)
LEMMA MatchStartup == IInv /\ Startup => MatchInv'
<1> SUFFICES ASSUME IInv, Startup PROVE MatchInv'
  OBVIOUS
<1>0. /\ surplus = 0 => /\ OnlyFor(toMcu, cmd) /\ OnlyFor(toPc, cmd)
                        /\ OnlyFor(responses, cmd)
      /\ UNCHANGED <<responses, cmd>>
      /\ phase \in {"ping", "drain", "drained"} => responses = <<>>
  BY DEF IInv, MatchInv, StartInv, Startup, Echo, DrainPoll, DrainEvent, DrainEnd, StartThreads,
         mainVars, queueVars
<1>1. CASE Echo
  <2>2. toPc' \in Seq(Any)
    BY <1>1, EchoTypes DEF IInv
  <2>3. toMcu' = toMcu /\ surplus' = Answers(toMcu) + Answers(toPc')
        /\ responses' = <<>> /\ Waiting' = 0
    BY <1>0, <1>1 DEF Echo, queueVars, Waiting
  <2>4. Answers(toPc') \in Nat /\ Len(responses') = 0 /\ responses' \in Seq(Any)
    BY <2>2, <2>3, AnswersType
  <2>5. Answers(toMcu') + Answers(toPc') + Len(responses') <= surplus'
    BY <2>3, <2>4, MatchTypes
  <2>6. surplus' = 0 => /\ OnlyFor(toMcu', cmd') /\ OnlyFor(toPc', cmd')
                        /\ OnlyFor(responses', cmd')
    BY <2>2, <2>3, <2>4, <2>5, MatchTypes, NothingUnderWay
  <2>7. Answers(toMcu') + Answers(toPc') + Len(responses') <= Waiting' + surplus'
    BY <2>3, <2>4, MatchTypes
  <2> QED BY <2>6, <2>7, MatchFrom
<1>2. CASE DrainPoll
  <2>1. Poll \in Any /\ One(Poll) = 0 /\ Fits(Poll, cmd)
    BY PacketTypes DEF One, IsAnswer, Fits, Poll, Packet
  <2>2. toMcu' = Append(toMcu, Poll) /\ toPc' = toPc /\ surplus' = surplus
        /\ Waiting' = 0 /\ Waiting = 0
    BY <1>2 DEF DrainPoll, Waiting
  <2>3. /\ Answers(toMcu') = Answers(toMcu)
        /\ OnlyFor(toMcu', cmd) <=> OnlyFor(toMcu, cmd)
    BY <2>1, <2>2, MatchTypes, Appended
  <2> QED BY <1>0, <2>2, <2>3, MatchTypes, MatchFrom
<1>3. ASSUME toPc # <<>>
      PROVE  /\ Tail(toPc) \in Seq(Any) /\ Answers(Tail(toPc)) \in Nat
             /\ Answers(toPc) = One(Head(toPc)) + Answers(Tail(toPc))
             /\ OnlyFor(toPc, cmd) => OnlyFor(Tail(toPc), cmd)
  <2>1. /\ Tail(toPc) \in Seq(Any)
        /\ Answers(toPc) = One(Head(toPc)) + Answers(Tail(toPc))
        /\ OnlyFor(toPc, cmd) <=> Fits(Head(toPc), cmd) /\ OnlyFor(Tail(toPc), cmd)
    BY <1>3, MatchTypes, Parted
  <2> QED BY <2>1, AnswersType
<1>4. CASE DrainEvent
  <2>1. toPc # <<>> /\ toPc' = Tail(toPc) /\ toMcu' = toMcu /\ surplus' = surplus
        /\ Waiting' = 0 /\ Waiting = 0 /\ One(Head(toPc)) = 0
    BY <1>4 DEF DrainEvent, Draining, Waiting, One, IsAnswer
  <2> QED BY <1>0, <1>3, <2>1, MatchTypes, MatchFrom
<1>5. CASE DrainEnd
  <2>1. toMcu' = toMcu /\ Waiting' = 0 /\ Waiting = 0
        /\ responses = <<>> /\ responses' = <<>>
    BY <1>0, <1>5 DEF DrainEnd, StartThreads, Draining, Waiting
  <2>2. CASE toPc' = toPc /\ surplus' = surplus
    BY <1>0, <2>1, <2>2, MatchTypes, MatchFrom
  <2>3. CASE toPc # <<>> /\ toPc' = Tail(toPc)
             /\ surplus' = IF IsAnswer(Head(toPc)) THEN surplus - 1 ELSE surplus
    <3>1. surplus' = surplus - One(Head(toPc)) /\ One(Head(toPc)) \in {0, 1}
      BY <2>3, MatchTypes DEF One
    <3>2. Answers(toMcu') + Answers(toPc') + Len(responses') <= Waiting' + surplus'
      BY <1>3, <2>1, <2>3, <3>1, MatchTypes
    <3>3. toPc' \in Seq(Any) /\ responses' \in Seq(Any)
      BY <1>3, <2>1, <2>3
    <3>4. surplus' = 0 => /\ OnlyFor(toMcu', cmd') /\ OnlyFor(toPc', cmd')
                          /\ OnlyFor(responses', cmd')
      <4>1. Answers(toMcu') + Answers(toPc') + Len(responses') <= surplus'
        BY <1>3, <2>1, <2>3, <3>1, MatchTypes
      <4> QED BY <2>1, <3>3, <4>1, MatchTypes, NothingUnderWay
    <3> QED BY <3>2, <3>4, MatchFrom
  <2> QED BY <1>5, <2>2, <2>3 DEF DrainEnd
<1> QED BY <1>1, <1>2, <1>4, <1>5 DEF Startup

(* The command thread: every attempt asks for one answer and every packet  *)
(* it reads is one.                                                        *)
LEMMA MatchThread == IInv /\ (Type \/ Await \/ Exit) => MatchInv'
<1> SUFFICES ASSUME IInv, Type \/ Await \/ Exit PROVE MatchInv'
  OBVIOUS
<1>0. /\ surplus = 0 => /\ OnlyFor(toMcu, cmd) /\ OnlyFor(toPc, cmd)
                        /\ OnlyFor(responses, cmd)
      /\ toPc' = toPc
  BY DEF IInv, MatchInv, Type, Await, Nacked, Acked, Timeout, Exit, lineVars
<1>1. ASSUME NEW c \in 1 .. MaxCommands
      PROVE  /\ Answers(Append(toMcu, Packet("cmd", c))) = Answers(toMcu) + 1
             /\ OnlyFor(Append(toMcu, Packet("cmd", c)), c) <=> OnlyFor(toMcu, c)
  <2>1. /\ Packet("cmd", c) \in Any /\ One(Packet("cmd", c)) = 1
        /\ Fits(Packet("cmd", c), c)
    BY Bounds DEF Any, One, IsAnswer, Fits, Packet
  <2> QED BY <2>1, MatchTypes, Appended
<1>2. cmd \in 1 .. MaxCommands /\ MaxCommands \in Nat
  BY Bounds DEF IInv, TypeOK
<1>3. ASSUME responses # <<>>
      PROVE  /\ Len(Tail(responses)) = Len(responses) - 1
             /\ Len(Tail(responses)) \in Nat
             /\ OnlyFor(responses, cmd) => OnlyFor(Tail(responses), cmd)
  <2>1. OnlyFor(responses, cmd) => OnlyFor(Tail(responses), cmd)
    BY <1>3, MatchTypes, Parted
  <2>2. responses \in Seq(Any)
    BY MatchTypes
  <2> QED BY <1>3, <2>1, <2>2
<1>4. CASE Type
  <2>1. /\ toMcu' = Append(toMcu, Packet("cmd", cmd')) /\ cmd' \in 1 .. MaxCommands
        /\ UNCHANGED <<responses, surplus>> /\ Waiting = 0 /\ Waiting' = 1
    BY <1>2, <1>4 DEF Type, Waiting, queueVars
  <2>2. Answers(toMcu') = Answers(toMcu) + 1
    BY <1>1, <2>1
  <2>3. Answers(toMcu') + Answers(toPc') + Len(responses') <= Waiting' + surplus'
    BY <1>0, <2>1, <2>2, MatchTypes
  <2>4. surplus = 0 => /\ OnlyFor(toMcu, cmd') /\ OnlyFor(toPc, cmd')
                       /\ OnlyFor(responses, cmd')
    <3>1. surplus = 0 => Answers(toMcu) + Answers(toPc) + Len(responses) <= 0
      BY <2>1, MatchTypes
    <3> QED BY <3>1, MatchTypes, NothingUnderWay
  <2>5. surplus' = 0 => /\ OnlyFor(toMcu', cmd') /\ OnlyFor(toPc', cmd')
                        /\ OnlyFor(responses', cmd')
    BY <1>0, <1>1, <2>1, <2>4
  <2> QED BY <2>3, <2>5, MatchFrom
<1>5. ASSUME NextAttempt, phase = "wait"
      PROVE  /\ Waiting = 1
             /\ \/ toMcu' = Append(toMcu, Packet("cmd", cmd)) /\ Waiting' = 1
                \/ toMcu' = toMcu /\ Waiting' = 0
  BY <1>5 DEF NextAttempt, Waiting
<1>6. CASE Nacked
  <2>1. /\ responses # <<>> /\ responses' = Tail(responses)
        /\ UNCHANGED <<cmd, surplus>> /\ NextAttempt /\ phase = "wait"
    BY <1>6 DEF Nacked
  <2>2. CASE toMcu' = Append(toMcu, Packet("cmd", cmd)) /\ Waiting' = 1
    <3>1. Answers(toMcu') = Answers(toMcu) + 1
          /\ (OnlyFor(toMcu', cmd) <=> OnlyFor(toMcu, cmd))
      BY <1>1, <1>2, <2>2
    <3>2. Answers(toMcu') + Answers(toPc') + Len(responses') <= Waiting' + surplus'
      BY <1>0, <1>3, <1>5, <2>1, <2>2, <3>1, MatchTypes
    <3> QED BY <1>0, <1>3, <2>1, <3>1, <3>2, MatchFrom
  <2>3. CASE toMcu' = toMcu /\ Waiting' = 0
    <3>1. Answers(toMcu') + Answers(toPc') + Len(responses') <= Waiting' + surplus'
      BY <1>0, <1>3, <1>5, <2>1, <2>3, MatchTypes
    <3> QED BY <1>0, <1>3, <2>1, <2>3, <3>1, MatchFrom
  <2> QED BY <1>5, <2>1, <2>2, <2>3
<1>7. CASE Acked
  <2>1. /\ responses # <<>> /\ responses' = Tail(responses) /\ toMcu' = toMcu
        /\ UNCHANGED <<cmd, surplus>> /\ Waiting = 1 /\ Waiting' = 0
    BY <1>7 DEF Acked, Waiting, lineVars
  <2>2. Answers(toMcu') + Answers(toPc') + Len(responses') <= Waiting' + surplus'
    BY <1>0, <1>3, <2>1, MatchTypes
  <2> QED BY <1>0, <1>3, <2>1, <2>2, MatchFrom
<1>8. CASE Timeout
  <2>1. /\ UNCHANGED <<cmd, responses>> /\ NextAttempt /\ phase = "wait"
        /\ Len(responses) = 0
    BY <1>8 DEF Timeout, queueVars
  <2>2. /\ Answers(toMcu) + Answers(toPc) + 1 <= 1 + surplus'
        /\ surplus' \in Nat /\ (surplus' = 0 => surplus = 0)
    <3>1. CASE Outstanding = 0 /\ surplus' = surplus
      BY <3>1, MatchTypes DEF Outstanding
    <3>2. CASE surplus' = surplus + 1
      BY <1>5, <2>1, <3>2, MatchTypes
    <3> QED BY <1>8, <3>1, <3>2 DEF Timeout
  <2>3. CASE toMcu' = Append(toMcu, Packet("cmd", cmd)) /\ Waiting' = 1
    <3>1. Answers(toMcu') = Answers(toMcu) + 1
          /\ (OnlyFor(toMcu', cmd) <=> OnlyFor(toMcu, cmd))
      BY <1>1, <1>2, <2>3
    <3>2. Answers(toMcu') + Answers(toPc') + Len(responses') <= Waiting' + surplus'
      BY <1>0, <2>1, <2>2, <2>3, <3>1, MatchTypes
    <3> QED BY <1>0, <2>1, <2>2, <3>1, <3>2, MatchFrom
  <2>4. CASE toMcu' = toMcu /\ Waiting' = 0
    <3>1. Answers(toMcu') + Answers(toPc') + Len(responses') <= Waiting' + surplus'
      BY <1>0, <2>1, <2>2, <2>4, MatchTypes
    <3> QED BY <1>0, <2>1, <2>2, <2>4, <3>1, MatchFrom
  <2> QED BY <1>5, <2>1, <2>3, <2>4
<1>9. CASE Exit
  <2>1. UNCHANGED <<toMcu, responses, cmd, surplus>> /\ Waiting' = Waiting
    BY <1>9 DEF Exit, lineVars, queueVars, Waiting
  <2> QED BY <1>0, <2>1, MatchTypes, MatchFrom
<1> QED BY <1>4, <1>6, <1>7, <1>8, <1>9 DEF Await

(* The daemon threads: an answer moves on, and a poll asks for none.       *)
LEMMA MatchDaemons == IInv /\ (RxPacket \/ SendPoll) => MatchInv'
<1> SUFFICES ASSUME IInv, RxPacket \/ SendPoll PROVE MatchInv'
  OBVIOUS
<1>0. /\ surplus = 0 => /\ OnlyFor(toMcu, cmd) /\ OnlyFor(toPc, cmd)
                        /\ OnlyFor(responses, cmd)
      /\ UNCHANGED <<cmd, surplus>> /\ Waiting' = Waiting
  BY DEF IInv, MatchInv, RxPacket, SendPoll, mainVars, Waiting
<1>1. CASE RxPacket
  <2> DEFINE p == Head(toPc)
             t == Tail(toPc)
  <2>1. toPc # <<>> /\ toPc' = t /\ toMcu' = toMcu /\ Route(p)
    BY <1>1 DEF RxPacket
  <2>2. /\ p \in Any /\ t \in Seq(Any)
        /\ Answers(toPc) = One(p) + Answers(t)
        /\ OnlyFor(toPc, cmd) <=> Fits(p, cmd) /\ OnlyFor(t, cmd)
    BY <2>1, MatchTypes, Parted
  <2>3. Answers(t) \in Nat
    BY <2>2, AnswersType
  <2>4. p.kind # "poll"
    <3>1. p \in Downward
      BY <2>1 DEF IInv, TypeOK, Downward
    <3> QED BY <3>1 DEF Downward, Replies, Events, Nack, Clean, Packet
  <2> HIDE DEF p, t
  <2>5. CASE p.kind \in {"event", "ack"}
    <3>1. One(p) = 0 /\ responses' = responses
      BY <2>1, <2>5, Routed DEF One, IsAnswer
    <3>2. Answers(toMcu') + Answers(toPc') + Len(responses') <= Waiting' + surplus'
      BY <1>0, <2>1, <2>2, <2>3, <3>1, MatchTypes
    <3> QED BY <1>0, <2>1, <2>2, <3>1, <3>2, MatchFrom
  <2>6. CASE p.kind \notin {"event", "ack"}
    <3>1. One(p) = 1
      BY <2>2, <2>4, <2>6 DEF One, IsAnswer, Any
    <3>2. responses' = Append(responses, p)
      BY <2>1, <2>6, Routed
    <3>3. /\ Len(Append(responses, p)) = Len(responses) + 1
          /\ OnlyFor(Append(responses, p), cmd) <=> OnlyFor(responses, cmd) /\ Fits(p, cmd)
      <4>1. Len(Append(responses, p)) = Len(responses) + 1
        BY <2>2, MatchTypes, AppendProperties
      <4> QED BY <2>2, <4>1, MatchTypes, Appended
    <3>4. Answers(toMcu') + Answers(toPc') + Len(responses') <= Waiting' + surplus'
      BY <1>0, <2>1, <2>2, <2>3, <3>1, <3>2, <3>3, MatchTypes
    <3> QED BY <1>0, <2>1, <2>2, <3>2, <3>3, <3>4, MatchFrom
  <2> QED BY <2>5, <2>6
<1>2. CASE SendPoll
  <2>1. Poll \in Any /\ One(Poll) = 0 /\ Fits(Poll, cmd)
    BY PacketTypes DEF One, IsAnswer, Fits, Poll, Packet
  <2>2. toMcu' = Append(toMcu, Poll) /\ UNCHANGED <<toPc, responses>>
    BY <1>2 DEF SendPoll, queueVars
  <2>3. /\ Answers(toMcu') = Answers(toMcu)
        /\ OnlyFor(toMcu', cmd) <=> OnlyFor(toMcu, cmd)
    BY <2>1, <2>2, MatchTypes, Appended
  <2> QED BY <1>0, <2>2, <2>3, MatchTypes, MatchFrom
<1> QED BY <1>1, <1>2

LEMMA MatchStep == IInv /\ [Next]_vars => MatchInv'
<1> SUFFICES ASSUME IInv, [Next]_vars PROVE MatchInv'
  OBVIOUS
<1>1. CASE McuEvent \/ RxNothing \/ RxError \/ Listen \/ Ending \/ UNCHANGED vars
  <2>1. UNCHANGED <<toMcu, toPc, responses, cmd, surplus, phase>>
    BY <1>1 DEF McuEvent, RxNothing, RxError, Listen, Ending, ThreadEnds, vars, mainVars,
                lineVars, queueVars
  <2>2. Waiting' = Waiting
    BY <2>1 DEF Waiting
  <2>3. surplus = 0 => /\ OnlyFor(toMcu, cmd) /\ OnlyFor(toPc, cmd)
                       /\ OnlyFor(responses, cmd)
    BY DEF IInv, MatchInv
  <2> QED BY <2>1, <2>2, <2>3, MatchTypes, MatchFrom
<1>2. CASE Mcu \/ Line \/ Startup
  BY <1>2, MatchAnswer, MatchFlush, MatchDamage, MatchStartup DEF Mcu
<1>3. CASE Type \/ Await \/ Exit \/ RxPacket \/ SendPoll
  BY <1>3, MatchThread, MatchDaemons
<1>4. CASE Unplugged
  <2>1. toMcu' = <<>> /\ toPc' = <<>> /\ responses' = <<>> /\ UNCHANGED surplus
        /\ Waiting' = 0
    BY <1>4 DEF Unplugged, Waiting
  <2>2. Answers(toMcu') = 0 /\ Answers(toPc') = 0 /\ Len(responses') = 0
    BY <2>1, PacketTypes, AnswersOne
  <2>3. Answers(toMcu') + Answers(toPc') + Len(responses') <= Waiting' + surplus'
    BY <2>1, <2>2, MatchTypes
  <2>4. OnlyFor(<<>>, cmd')
    BY FitsOne
  <2> QED BY <2>1, <2>3, <2>4, MatchFrom
<1> QED BY <1>1, <1>2, <1>3, <1>4 DEF Next, Receive
-----------------------------------------------------------------------------
(* The events under way, in terms of the numbers told by each queue.       *)
LEMMA OrderTypes ==
  ASSUME IInv
  PROVE  /\ toPc \in Seq(Any) /\ events \in Seq(Any)
         /\ slot \in Nat /\ raised \in Nat /\ seen \in Nat /\ slot <= raised /\ seen <= raised
         /\ \A e \in Awaited : e \in Nat /\ seen < e /\ e <= raised /\ e # slot
         /\ InOrder(events) /\ InOrder(toPc) /\ Before(Told(events), Told(toPc))
         /\ slot # 0 => slot = raised /\ seen < slot
         /\ ~hurt => \A e \in seen + 1 .. raised : e \in Awaited \/ e = slot
<1>1. toPc \in Seq(Any) /\ events \in Seq(Any)
  BY QueueTypes DEF IInv
<1>2. slot \in Nat /\ raised \in Nat /\ seen \in Nat /\ slot <= raised /\ seen <= raised
  BY Bounds DEF IInv, TypeOK
<1>3. OrderInv
  BY DEF IInv
<1>4. \A e \in Awaited : e \in Nat /\ seen < e /\ e <= raised /\ e # slot
  BY <1>2, <1>3 DEF OrderInv
<1> QED BY <1>1, <1>2, <1>3, <1>4 DEF OrderInv

(* Nothing told is moved; an event may be raised.                          *)
LEMMA OrderKept ==
  ASSUME IInv, UNCHANGED <<seen, hurt>>,
         Told(events') = Told(events), Told(toPc') = Told(toPc),
         InOrder(events'), InOrder(toPc'),
         Raise \/ UNCHANGED <<slot, raised>>
  PROVE  OrderInv'
<1>1. Awaited' = Awaited
  BY DEF Awaited
<1>2. Before(Told(events'), Told(toPc'))
  BY OrderTypes
<1>3. CASE Raise
  <2>1. slot = 0 /\ slot' = raised + 1 /\ raised' = raised + 1
    BY <1>3 DEF Raise, Raisable
  <2>2. \A e \in Awaited' : e \in seen' + 1 .. raised' /\ e # slot'
    BY <1>1, <2>1, OrderTypes
  <2>3. slot' = raised' /\ seen' < slot'
    BY <2>1, OrderTypes
  <2>4. ASSUME ~hurt', NEW e \in seen' + 1 .. raised' PROVE e \in Awaited' \/ e = slot'
    <3>1. e = raised + 1 \/ e \in seen + 1 .. raised
      BY <2>1, <2>4, OrderTypes
    <3>2. e \in seen + 1 .. raised => e \in Awaited \/ e = slot
      BY <2>4, OrderTypes
    <3>3. e \in seen + 1 .. raised => e # slot
      BY <2>1, OrderTypes
    <3> QED BY <1>1, <2>1, <3>1, <3>2, <3>3
  <2> QED BY <1>2, <2>2, <2>3, <2>4 DEF OrderInv
<1>4. CASE UNCHANGED <<slot, raised>>
  <2>1. \A e \in Awaited' : e \in seen' + 1 .. raised' /\ e # slot'
    BY <1>1, <1>4, OrderTypes
  <2> QED BY <1>1, <1>2, <1>4, <2>1, OrderTypes DEF OrderInv
<1> QED BY <1>3, <1>4

(* The MCU sends the event of its slot, which is behind all the others.    *)
LEMMA OrderSent ==
  ASSUME IInv, slot # 0, slot' = 0, UNCHANGED <<events, raised, seen, hurt>>,
         toPc' = Append(toPc, Packet("event", slot))
  PROVE  OrderInv'
<1> DEFINE p == Packet("event", slot)
<1>1. p \in Any /\ News(p) = {slot}
  BY OrderTypes DEF Any, Packet, News, IsEvent
<1>2. /\ Told(toPc') = Told(toPc) \cup {slot}
      /\ InOrder(toPc') <=> InOrder(toPc) /\ Before(Told(toPc), {slot})
  <2>1. toPc \in Seq(Any) /\ toPc' = Append(toPc, p)
    BY OrderTypes
  <2> HIDE DEF p
  <2>2. /\ Told(Append(toPc, p)) = Told(toPc) \cup News(p)
        /\ InOrder(Append(toPc, p)) <=> InOrder(toPc) /\ Before(Told(toPc), News(p))
    BY <1>1, <2>1, Appended
  <2> QED BY <1>1, <2>1, <2>2
<1>3. Awaited' = Awaited \cup {slot}
  BY <1>2 DEF Awaited
<1>4. \A e \in Awaited : e < slot
  BY OrderTypes
<1>5. InOrder(events') /\ InOrder(toPc') /\ Before(Told(events'), Told(toPc'))
  BY <1>2, <1>4, OrderTypes DEF Before, Awaited
<1>6. \A e \in Awaited' : e \in seen' + 1 .. raised' /\ e # slot'
  <2>1. slot \in seen + 1 .. raised /\ \A e \in Awaited : e \in seen + 1 .. raised /\ e # 0
    BY OrderTypes
  <2> QED BY <1>3, <2>1
<1>7. ~hurt' => \A e \in seen' + 1 .. raised' : e \in Awaited' \/ e = slot'
  BY <1>3, OrderTypes
<1> QED BY <1>5, <1>6, <1>7 DEF OrderInv

(* What is read, in order, is the front of what is under way.              *)
LEMMA OrderRead ==
  ASSUME IInv, NEW q \in Seq(Any), InOrder(q), seen' = Latest(q),
         Told(q) \cup Awaited' \subseteq Awaited, Before(Told(q), Awaited'),
         hurt' \/ (Awaited = Told(q) \cup Awaited' /\ hurt' = hurt),
         InOrder(events'), InOrder(toPc'), Before(Told(events'), Told(toPc')),
         UNCHANGED <<slot, raised>>
  PROVE  OrderInv'
<1>1. \A e \in Told(q) : e \in Awaited /\ e \in seen + 1 .. raised
  BY OrderTypes
<1>2. /\ seen' \in seen .. raised
      /\ \A e \in Told(q) : e <= seen'
      /\ seen' = seen \/ seen' \in Told(q)
  <2>1. seen \in 0 .. raised
    BY OrderTypes
  <2> QED BY <1>1, <2>1, OrderTypes, SeenStep
<1>3. ASSUME NEW e \in Awaited' PROVE e \in seen' + 1 .. raised' /\ e # slot'
  <2>1. e \in Nat /\ seen < e /\ e <= raised /\ e # slot
    BY OrderTypes
  <2>2. seen' < e
    BY <1>2, <2>1 DEF Before
  <2> QED BY <1>2, <2>1, <2>2, OrderTypes
<1>4. slot' # 0 => slot' = raised' /\ seen' < slot'
  <2>1. seen' # slot \/ slot = 0
    BY <1>1, <1>2, OrderTypes
  <2> QED BY <1>2, <2>1, OrderTypes
<1>5. ASSUME ~hurt', NEW e \in seen' + 1 .. raised' PROVE e \in Awaited' \/ e = slot'
  <2>1. e \in seen + 1 .. raised /\ seen' < e
    BY <1>2, <1>5, OrderTypes
  <2>2. e \in Awaited \/ e = slot
    BY <1>5, <2>1, OrderTypes
  <2>3. e \notin Told(q)
    BY <1>2, <2>1, OrderTypes
  <2>4. Awaited = Told(q) \cup Awaited'
    BY <1>5
  <2> QED BY <2>2, <2>3, <2>4
<1> QED BY <1>3, <1>4, <1>5 DEF OrderInv

LEMMA OrderMcu == IInv /\ (McuEvent \/ Mcu) => OrderInv'
<1> SUFFICES ASSUME IInv, McuEvent \/ Mcu PROVE OrderInv'
  OBVIOUS
<1>0. UNCHANGED <<events, seen, hurt>>
  BY DEF McuEvent, Mcu, McuFlush, McuAnswer, queueVars
<1>1. CASE McuEvent
  BY <1>0, <1>1, OrderTypes, OrderKept DEF McuEvent, lineVars
<1>2. CASE McuFlush
  BY <1>0, <1>2, OrderSent DEF McuFlush
<1>3. ASSUME NEW d \in Any, ~IsEvent(d), toPc' = Append(toPc, d),
             Raise \/ UNCHANGED <<slot, raised>>
      PROVE  OrderInv'
  <2>1. /\ Told(toPc') = Told(toPc) \cup News(d)
        /\ InOrder(toPc') <=> InOrder(toPc) /\ Before(Told(toPc), News(d))
    BY <1>3, OrderTypes, Appended
  <2>2. News(d) = {}
    BY <1>3 DEF News
  <2>3. InOrder(toPc') /\ Told(toPc') = Told(toPc)
    BY <2>1, <2>2, OrderTypes DEF Before
  <2> QED BY <1>0, <1>3, <2>3, OrderTypes, OrderKept
<1>4. CASE McuAnswer
  <2> DEFINE p == Head(toMcu)
  <2>1. CASE p.kind = "cmd" /\ toPc' = Append(toPc, Packet("reply", p.n))
             /\ UNCHANGED <<slot, raised>>
    <3>1. toMcu # <<>> /\ toMcu \in Seq(Any)
      BY <1>4, MatchTypes DEF McuAnswer
    <3>2. p \in Any
      BY <3>1
    <3>3. Packet("reply", p.n) \in Any /\ ~IsEvent(Packet("reply", p.n))
      BY <3>2 DEF Any, Packet, IsEvent
    <3> QED BY <1>3, <2>1, <3>3
  <2>2. CASE toPc' = Append(toPc, Nack) /\ (Raise \/ UNCHANGED <<slot, raised>>)
    <3>1. Nack \in Any /\ ~IsEvent(Nack)
      BY PacketTypes DEF Nack, Packet, IsEvent
    <3> QED BY <1>3, <2>2, <3>1
  <2>3. CASE slot = 0 /\ toPc' = Append(toPc, Clean) /\ slot' = 0 /\ UNCHANGED raised
    <3>1. Clean \in Any /\ ~IsEvent(Clean)
      BY PacketTypes DEF Clean, Packet, IsEvent
    <3> QED BY <1>3, <2>3, <3>1
  <2>4. CASE slot # 0 /\ toPc' = Append(toPc, Packet("event", slot)) /\ slot' = 0
             /\ UNCHANGED raised
    BY <1>0, <2>4, OrderSent
  <2> QED BY <1>4, <2>1, <2>2, <2>3, <2>4 DEF McuAnswer
<1> QED BY <1>1, <1>2, <1>4 DEF Mcu

(* On the line an event is lost, which is remembered, or nothing is.       *)
LEMMA OrderLine == IInv /\ Line => OrderInv'
<1> SUFFICES ASSUME IInv, Line PROVE OrderInv'
  OBVIOUS
<1>1. UNCHANGED <<events, slot, raised, seen>>
  BY DEF Line, DamageRequest, DamageReply, queueVars, eventVars
<1>2. CASE DamageRequest
  BY <1>1, <1>2, OrderTypes, OrderKept DEF DamageRequest, eventVars
<1>3. CASE DamageReply
  <2> DEFINE p == Head(toPc)
             t == Tail(toPc)
  <2>1. toPc # <<>> /\ hurt' = (hurt \/ p.kind = "event")
    BY <1>3 DEF DamageReply
  <2>2. /\ p \in Any /\ t \in Seq(Any)
        /\ Told(toPc) = News(p) \cup Told(t)
        /\ InOrder(toPc) <=> InOrder(t) /\ Before(News(p), Told(t))
    BY <2>1, OrderTypes, Parted
  <2>3. Told(toPc') = Told(t) /\ InOrder(toPc')
    <3>1. CASE toPc' = t
      BY <2>2, <3>1, OrderTypes
    <3>2. ASSUME NEW d \in Misread, toPc' = <<d>> \o t
          PROVE  Told(toPc') = Told(t) /\ InOrder(toPc')
      <4>1. d \in Any /\ News(d) = {}
        BY MisreadTypes DEF News
      <4>2. /\ Told(toPc') = News(d) \cup Told(t)
            /\ InOrder(toPc') <=> InOrder(t) /\ Before(News(d), Told(t))
        BY <2>2, <3>2, <4>1, Begun
      <4> QED BY <2>2, <4>1, <4>2, OrderTypes DEF Before
    <3> QED BY <1>3, <3>1, <3>2 DEF DamageReply
  <2> HIDE DEF p, t
  <2>4. CASE p.kind = "event"
    <3>1. Awaited' \subseteq Awaited /\ hurt'
      BY <1>1, <2>1, <2>2, <2>3, <2>4 DEF Awaited
    <3>2. Before(Told(events'), Told(toPc'))
      BY <1>1, <2>2, <2>3, OrderTypes DEF Before
    <3>3. \A e \in Awaited' : e \in seen' + 1 .. raised' /\ e # slot'
      BY <1>1, <3>1, OrderTypes
    <3> QED BY <1>1, <2>3, <3>1, <3>2, <3>3, OrderTypes DEF OrderInv
  <2>5. CASE p.kind # "event"
    <3>1. News(p) = {} /\ hurt' = hurt
      BY <2>1, <2>5 DEF News, IsEvent, IInv, TypeOK
    <3> QED BY <1>1, <2>2, <2>3, <3>1, OrderTypes, OrderKept
  <2> QED BY <2>4, <2>5
<1> QED BY <1>2, <1>3 DEF Line

(* The startup reads the front of toPc, before anything is routed.         *)
LEMMA OrderStartup == IInv /\ Startup => OrderInv'
<1> SUFFICES ASSUME IInv, Startup PROVE OrderInv'
  OBVIOUS
<1>1. events = <<>> /\ events' = <<>> /\ Told(<<>>) = {} /\ InOrder(<<>>)
      /\ UNCHANGED <<slot, raised>>
  <2>1. events = <<>>
    BY DEF IInv, StartInv, Startup, Echo, DrainPoll, DrainEvent, DrainEnd, Draining
  <2>2. UNCHANGED <<events, slot, raised>>
    BY DEF Startup, Echo, DrainPoll, DrainEvent, DrainEnd, queueVars, eventVars
  <2> QED BY <2>1, <2>2, ToldOne
<1>2. ASSUME NEW q \in Seq(Any), NEW r \in Seq(Any), toPc = q \o r, seen' = Latest(q),
             InOrder(r) => InOrder(toPc'), Told(toPc') \subseteq Told(r),
             hurt' \/ (Told(toPc') = Told(r) /\ hurt' = hurt)
      PROVE  OrderInv'
  <2>1. /\ Told(toPc) = Told(q) \cup Told(r)
        /\ InOrder(toPc) <=> InOrder(q) /\ InOrder(r) /\ Before(Told(q), Told(r))
    BY <1>2, ToldJoined
  <2>2. /\ Awaited = Told(q) \cup Told(r) /\ Awaited' = Told(toPc')
        /\ Told(q) \cup Awaited' \subseteq Awaited
        /\ hurt' \/ (Awaited = Told(q) \cup Awaited' /\ hurt' = hurt)
    BY <1>1, <1>2, <2>1 DEF Awaited
  <2>3. InOrder(q) /\ InOrder(toPc') /\ InOrder(events') /\ Before(Told(q), Awaited')
    BY <1>1, <1>2, <2>1, <2>2, OrderTypes DEF Before
  <2>4. Before(Told(events'), Told(toPc'))
    BY <1>1 DEF Before
  <2> QED BY <1>1, <1>2, <2>2, <2>3, <2>4, OrderRead
<1>3. CASE Echo
  <2>1. PICK q \in Seq(Any), r \in Seq(Any) :
          /\ toPc = q \o r /\ seen' = Latest(q)
          /\ \/ toPc' = r /\ hurt' = hurt
             \/ /\ r # <<>>
                /\ \E p \in Misread : toPc' = <<p>> \o Tail(r)
                /\ hurt' = (hurt \/ Head(r).kind = "event")
    BY <1>3, EchoSplit DEF IInv
  <2>2. CASE toPc' = r /\ hurt' = hurt
    BY <1>2, <2>1, <2>2
  <2>3. ASSUME NEW p \in Misread, r # <<>>, toPc' = <<p>> \o Tail(r),
               hurt' = (hurt \/ Head(r).kind = "event")
        PROVE  OrderInv'
    <3>1. /\ Head(r) \in Any /\ Tail(r) \in Seq(Any)
          /\ Told(r) = News(Head(r)) \cup Told(Tail(r))
          /\ InOrder(r) => InOrder(Tail(r))
      BY <2>3, Parted
    <3>2. p \in Any /\ News(p) = {}
      BY MisreadTypes DEF News
    <3>3. Told(toPc') = Told(Tail(r)) /\ (InOrder(Tail(r)) => InOrder(toPc'))
      <4>1. /\ Told(<<p>> \o Tail(r)) = News(p) \cup Told(Tail(r))
            /\ InOrder(<<p>> \o Tail(r))
                 <=> InOrder(Tail(r)) /\ Before(News(p), Told(Tail(r)))
        BY <3>1, <3>2, Begun
      <4> QED BY <2>3, <3>2, <4>1 DEF Before
    <3>4. hurt' \/ (News(Head(r)) = {} /\ hurt' = hurt)
      BY <2>3 DEF News, IsEvent, IInv, TypeOK
    <3>5. hurt' \/ (Told(toPc') = Told(r) /\ hurt' = hurt)
      BY <3>1, <3>3, <3>4
    <3> QED BY <1>2, <2>1, <3>1, <3>3, <3>5
  <2> QED BY <2>1, <2>2, <2>3
<1>4. CASE DrainPoll
  BY <1>1, <1>4, OrderTypes, OrderKept DEF DrainPoll, eventVars
<1>5. CASE DrainEvent
  <2>1. toPc # <<>> /\ toPc' = Tail(toPc) /\ seen' = Latest(<<Head(toPc)>>) /\ hurt' = hurt
    BY <1>5 DEF DrainEvent
  <2>2. toPc = <<Head(toPc)>> \o Tail(toPc) /\ Head(toPc) \in Any /\ Tail(toPc) \in Seq(Any)
    BY <2>1, OrderTypes, Pieces
  <2>3. <<Head(toPc)>> \in Seq(Any)
    BY <2>2
  <2> QED BY <1>2, <2>1, <2>2, <2>3
<1>6. CASE DrainEnd
  <2>1. seen' = seen /\ hurt' = hurt
    BY <1>6 DEF DrainEnd, eventVars
  <2>2. CASE toPc' = toPc
    BY <1>1, <2>1, <2>2, OrderTypes, OrderKept
  <2>3. CASE toPc # <<>> /\ Head(toPc).kind # "event" /\ toPc' = Tail(toPc)
    <3>1. /\ Told(toPc) = News(Head(toPc)) \cup Told(Tail(toPc))
          /\ InOrder(toPc) => InOrder(Tail(toPc))
      BY <2>3, OrderTypes, Parted
    <3>2. News(Head(toPc)) = {}
      BY <2>3 DEF News, IsEvent
    <3>3. Told(toPc') = Told(toPc) /\ InOrder(toPc')
      BY <2>3, <3>1, <3>2, OrderTypes
    <3> QED BY <1>1, <2>1, <3>3, OrderTypes, OrderKept
  <2> QED BY <1>6, <2>2, <2>3 DEF DrainEnd
<1> QED BY <1>3, <1>4, <1>5, <1>6 DEF Startup

(* The receiver moves an event from one queue to the end of the next; the  *)
(* listener takes one from the front of the last.                          *)
LEMMA OrderRx == IInv /\ RxPacket => OrderInv'
<1> SUFFICES ASSUME IInv, RxPacket PROVE OrderInv'
  OBVIOUS
<1> DEFINE p == Head(toPc)
           t == Tail(toPc)
<1>1. /\ toPc # <<>> /\ toPc' = t /\ Route(p)
      /\ UNCHANGED <<slot, raised, seen, hurt>>
  BY DEF RxPacket, eventVars
<1>2. /\ p \in Any /\ t \in Seq(Any)
      /\ Told(toPc) = News(p) \cup Told(t)
      /\ InOrder(toPc) <=> InOrder(t) /\ Before(News(p), Told(t))
  BY <1>1, OrderTypes, Parted
<1> HIDE DEF p, t
<1>3. CASE p.kind = "event"
  <2>1. events' = Append(events, p)
    BY <1>1, <1>3, Routed
  <2>2. /\ Told(events') = Told(events) \cup News(p)
        /\ InOrder(events') <=> InOrder(events) /\ Before(Told(events), News(p))
    BY <1>2, <2>1, OrderTypes, Appended
  <2>3. Awaited' = Awaited
    BY <1>1, <1>2, <2>2 DEF Awaited
  <2>4. InOrder(events') /\ InOrder(toPc') /\ Before(Told(events'), Told(toPc'))
    BY <1>1, <1>2, <2>2, OrderTypes DEF Before
  <2>5. \A e \in Awaited' : e \in seen' + 1 .. raised' /\ e # slot'
    BY <1>1, <2>3, OrderTypes
  <2> QED BY <1>1, <2>3, <2>4, <2>5, OrderTypes DEF OrderInv
<1>4. CASE p.kind # "event"
  <2>1. events' = events
    BY <1>1, <1>4, Routed
  <2>2. News(p) = {}
    BY <1>4 DEF News, IsEvent
  <2>3. Told(toPc') = Told(toPc) /\ InOrder(toPc')
    BY <1>1, <1>2, <2>2, OrderTypes
  <2> QED BY <1>1, <2>1, <2>3, OrderTypes, OrderKept
<1> QED BY <1>3, <1>4

LEMMA OrderListen == IInv /\ Listen => OrderInv'
<1> SUFFICES ASSUME IInv, Listen PROVE OrderInv'
  OBVIOUS
<1> DEFINE p == Head(events)
           t == Tail(events)
<1>1. /\ events # <<>> /\ events' = t /\ toPc' = toPc /\ seen' = Latest(<<p>>)
      /\ UNCHANGED <<slot, raised, hurt>>
  BY DEF Listen, lineVars
<1>2. /\ p \in Any /\ t \in Seq(Any)
      /\ Told(events) = News(p) \cup Told(t)
      /\ InOrder(events) <=> InOrder(t) /\ Before(News(p), Told(t))
  BY <1>1, OrderTypes, Parted
<1> HIDE DEF p, t
<1>3. <<p>> \in Seq(Any) /\ Told(<<p>>) = News(p) /\ InOrder(<<p>>)
  <2>1. <<p>> \in Seq(Any)
    BY <1>2
  <2>2. Told(<<p>>) = News(p) /\ InOrder(<<p>>)
    BY ToldOne DEF News
  <2> QED BY <2>1, <2>2
<1>4. Awaited = Told(<<p>>) \cup Awaited'
  BY <1>1, <1>2, <1>3 DEF Awaited
<1>5. /\ Before(Told(<<p>>), Awaited') /\ Before(Told(events'), Told(toPc'))
      /\ InOrder(events') /\ InOrder(toPc')
  BY <1>1, <1>2, <1>3, OrderTypes DEF Before, Awaited
<1> QED BY <1>1, <1>3, <1>4, <1>5, OrderRead

LEMMA OrderStep == IInv /\ [Next]_vars => OrderInv'
<1> SUFFICES ASSUME IInv, [Next]_vars PROVE OrderInv'
  OBVIOUS
<1>1. CASE Type \/ Await \/ Exit \/ RxNothing \/ RxError \/ SendPoll \/ Ending
           \/ UNCHANGED vars
  <2>1. UNCHANGED <<events, toPc, slot, raised, seen, hurt>>
    BY <1>1 DEF Type, Await, Nacked, Acked, Timeout, Exit, RxNothing, RxError, SendPoll, Ending,
                ThreadEnds, vars, lineVars, queueVars, eventVars
  <2> QED BY <2>1, OrderTypes, OrderKept
<1>2. CASE McuEvent \/ Mcu \/ Line \/ Startup
  BY <1>2, OrderMcu, OrderLine, OrderStartup
<1>3. CASE RxPacket \/ Listen
  BY <1>3, OrderRx, OrderListen
<1>4. CASE Unplugged
  <2>1. events' = <<>> /\ toPc' = <<>> /\ hurt' /\ UNCHANGED <<slot, raised, seen>>
    BY <1>4 DEF Unplugged
  <2>2. Told(events') = {} /\ Told(toPc') = {} /\ InOrder(events') /\ InOrder(toPc')
    BY <2>1, ToldOne
  <2> QED BY <2>1, <2>2, OrderTypes DEF OrderInv, Awaited, Before
<1> QED BY <1>1, <1>2, <1>3, <1>4 DEF Next, Receive
-----------------------------------------------------------------------------
LEMMA Invariance == Spec => []IInv
<1>1. IInv /\ [Next]_vars => IInv'
  BY TypesStep, StartStep, MatchStep, OrderStep DEF IInv
<1> QED BY <1>1, InitIInv, PTL DEF Spec

(* TypeOK: the threads, the queues of event.py and the line keep their     *)
(* types; no thread runs that start() did not start, and the receiver      *)
(* stops by its _RX_MAX_CONSECUTIVE_ERRORS-th error.                       *)
THEOREM TypeCorrect == Spec => []TypeOK
<1>1. IInv => TypeOK
  BY DEF IInv
<1> QED BY <1>1, Invariance, PTL

(* RepliesMatch: a reply in response_queue, or on its way there, is to the *)
(* command that _send_with_retry waits for, unless a late or unasked       *)
(* answer is on its way too; and those answers are all that can be there   *)
(* beside the one waited for.                                              *)
THEOREM RepliesToTheirCommand == Spec => []RepliesMatch
<1>1. IInv => RepliesMatch
  <2> SUFFICES ASSUME IInv PROVE RepliesMatch
    OBVIOUS
  <2>1. Outstanding + Len(responses) <= Waiting + surplus
    BY DEF IInv, MatchInv
  <2>2. ASSUME surplus = 0, NEW q \in {toPc, responses}, NEW i \in DOMAIN q,
               q[i].kind = "reply", q[i].n # 0
        PROVE  q[i].n = cmd
    <3>1. OnlyFor(q, cmd)
      BY <2>2 DEF IInv, MatchInv
    <3> QED BY <2>2, <3>1 DEF OnlyFor, Fits
  <2> QED BY <2>1, <2>2 DEF RepliesMatch
<1> QED BY <1>1, Invariance, PTL

(* EventsKept: from the slot of the MCU over the line and event_queue to   *)
(* the listener no event overtakes another or is told twice, and none is   *)
(* missing unless the line damaged one.                                    *)
THEOREM EventsInOrder == Spec => []EventsKept
<1>1. IInv => EventsKept
  <2> SUFFICES ASSUME IInv PROVE EventsKept
    OBVIOUS
  <2> DEFINE s == IF slot = 0 THEN <<>> ELSE <<Packet("event", slot)>>
             S == IF slot = 0 THEN {} ELSE {slot}
  <2>1. s \in Seq(Any) /\ Told(s) = S /\ InOrder(s)
    <3>1. CASE slot = 0
      <4>1. <<>> \in Seq(Any)
        OBVIOUS
      <4>2. Told(<<>>) = {} /\ InOrder(<<>>)
        BY ToldOne
      <4> QED BY <3>1, <4>1, <4>2
    <3>2. CASE slot # 0
      <4>1. Packet("event", slot) \in Any /\ IsEvent(Packet("event", slot))
            /\ Packet("event", slot).n = slot
        BY <3>2, OrderTypes DEF Any, Packet, IsEvent
      <4>2. <<Packet("event", slot)>> \in Seq(Any)
        BY <4>1
      <4> QED BY <3>2, <4>1, <4>2, ToldOne
    <3> QED BY <3>1, <3>2
  <2>2. Underway = events \o toPc \o s
    BY DEF Underway
  <2> HIDE DEF s
  <2>3. /\ events \o toPc \in Seq(Any)
        /\ Told(events \o toPc) = Awaited /\ InOrder(events \o toPc)
    BY OrderTypes, ToldJoined DEF Awaited
  <2>4. \A e \in Awaited, n \in S : e < n
    BY OrderTypes
  <2>5. Told(Underway) = Awaited \cup S /\ InOrder(Underway)
    <3>1. /\ Told((events \o toPc) \o s) = Told(events \o toPc) \cup Told(s)
          /\ InOrder((events \o toPc) \o s)
               <=> /\ InOrder(events \o toPc) /\ InOrder(s)
                   /\ Before(Told(events \o toPc), Told(s))
      BY <2>1, <2>3, ToldJoined
    <3> QED BY <2>1, <2>2, <2>3, <2>4, <3>1 DEF Before
  <2>6. \A n \in Told(Underway) : n \in seen + 1 .. raised
    BY <2>5, OrderTypes
  <2>7. ~hurt => \A e \in seen + 1 .. raised : e \in Told(Underway)
    <3>1. ASSUME ~hurt, NEW e \in seen + 1 .. raised PROVE e \in Awaited \cup S
      <4>1. e \in Awaited \/ e = slot
        BY <3>1, OrderTypes
      <4>2. e # 0
        BY OrderTypes
      <4> QED BY <4>1, <4>2
    <3> QED BY <2>5, <3>1
  <2> HIDE DEF S
  <2>8. \A i \in EventsAt(Underway) : Underway[i].n \in Told(Underway)
    BY DEF Told
  <2>9. \A e \in Told(Underway) : \E i \in EventsAt(Underway) : Underway[i].n = e
    BY DEF Told
  <2> QED BY <2>5, <2>6, <2>7, <2>8, <2>9 DEF EventsKept, InOrder
<1> QED BY <1>1, Invariance, PTL
=============================================================================
