--------------------------- MODULE L8Stream_proofs ---------------------------
(***************************************************************************)
(* Facts about beats, framed streams and registers that the proofs of the  *)
(* components share.                                                       *)
(***************************************************************************)
EXTENDS L8Stream, SequenceTheorems, FiniteSetTheorems, TLAPS

\* What a beat is made of.
LEMMA BeatFacts ==
    ASSUME NEW b \in Beats
    PROVE  b.pkt \in Packets /\ b.n \in 1..b.pkt.beats /\ b.pkt.beats \in Nat \ {0}
BY PacketsAssumption DEF Beats

\* A source of whole packets sends beats of packets.
LEMMA NextBeatsAreBeats ==
    ASSUME NEW s \in Seq(Beats), NEW b \in NextBeats(s)
    PROVE  b \in Beats
<1>1. CASE AtBoundary(s)
  <2>1. PICK p \in Packets : b = [pkt |-> p, n |-> 1]
    BY <1>1 DEF NextBeats
  <2>2. 1 \in 1..p.beats
    BY PacketsAssumption
  <2> QED BY <2>1, <2>2 DEF Beats
<1>2. CASE ~AtBoundary(s)
  <2>1. b = [pkt |-> Last(s).pkt, n |-> Last(s).n + 1] /\ ~Eop(Last(s)) /\ s # <<>>
    BY <1>2 DEF NextBeats, AtBoundary
  <2>2. Last(s) \in Beats
    BY <2>1 DEF Last
  <2>3. Last(s).n + 1 \in 1..Last(s).pkt.beats
    BY <2>1, <2>2, BeatFacts DEF Eop
  <2> QED BY <2>1, <2>2, <2>3, BeatFacts DEF Beats
<1> QED BY <1>1, <1>2

\* A register is empty or holds one beat.
LEMMA SlotFacts ==
    ASSUME NEW s \in Slot
    PROVE  /\ s \in Seq(Beats)
           /\ s = <<>> => Len(s) = 0
           /\ s # <<>> => Len(s) = 1
           /\ s # <<>> => s[1] \in Beats
<1>1. s \in Seq(Beats) /\ Len(s) <= 1
  BY DEF Slot
<1>2. Len(s) \in Nat
  BY <1>1
<1>3. CASE Len(s) = 0
  <2>1. s = <<>>
    BY <1>1, <1>3
  <2> QED BY <1>1, <1>3, <2>1
<1>4. CASE Len(s) = 1
  BY <1>1, <1>4
<1>5. \A n \in Nat : n <= 1 => n = 0 \/ n = 1
  OBVIOUS
<1>6. Len(s) = 0 \/ Len(s) = 1
  BY <1>1, <1>2, <1>5
<1> QED BY <1>3, <1>4, <1>6

\* A register stays a register.
LEMMA LatchSlot ==
    ASSUME NEW src \in Slot, NEW old \in Slot, NEW load, NEW left
    PROVE  Latch(load, src, left, old) \in Slot
BY DEF Latch, Slot

\* A sequence of at most one element.
LEMMA OneElement ==
    ASSUME NEW S, NEW s \in Seq(S), Len(s) <= 1, s # <<>>
    PROVE  \E e \in S : s = <<e>>
<1>1. Len(s) \in Nat /\ Len(s) # 0
  OBVIOUS
<1>2. \A n \in Nat : n <= 1 /\ n # 0 => n = 1
  OBVIOUS
<1>3. Len(s) = 1
  BY <1>1, <1>2
<1>4. s[1] \in S /\ s = <<s[1]>>
  BY <1>3
<1> QED BY <1>4

\* A register r and the one behind it, q, that hold consecutive elements of s,
\* still do after an invocation: r loads q, or is left empty, or keeps what it
\* has, and what comes next in r has the place e of s.
LEMMA RegisterMoves ==
    ASSUME NEW S, NEW s, NEW r \in Seq(S), Len(r) <= 1, NEW q \in Seq(S), Len(q) <= 1,
           NEW e \in Nat,
           r # <<>> => r[1] = s[e],
           q # <<>> => q[1] = s[e + Len(r)],
           NEW load \in BOOLEAN, NEW left \in BOOLEAN,
           left => r # <<>>,
           load => q # <<>> /\ (r = <<>> \/ left)
    PROVE  /\ Latch(load, q, left, r) # <<>>
                => Latch(load, q, left, r)[1] = s[e + (IF left THEN 1 ELSE 0)]
           /\ Len(Latch(load, q, left, r)) = Len(r) + (IF load THEN 1 ELSE 0) - (IF left THEN 1 ELSE 0)
<1>1. /\ r = <<>> => Len(r) = 0
      /\ r # <<>> => Len(r) = 1
      /\ q # <<>> => Len(q) = 1
  <2>1. Len(r) \in Nat /\ Len(q) \in Nat /\ (r # <<>> => Len(r) # 0) /\ (q # <<>> => Len(q) # 0)
    OBVIOUS
  <2>2. \A n \in Nat : n <= 1 /\ n # 0 => n = 1
    OBVIOUS
  <2>3. r = <<>> => Len(r) = 0
    OBVIOUS
  <2> QED BY <2>1, <2>2, <2>3
<1> DEFINE t == Latch(load, q, left, r)
           in == IF load THEN 1 ELSE 0
           gone == IF left THEN 1 ELSE 0
<1>2. CASE load
  <2>1. t = q /\ in = 1
    BY <1>2 DEF Latch
  <2>2. Len(r) = gone
    BY <1>1, <1>2
  <2> HIDE DEF t, in, gone
  <2>3. (t # <<>> => t[1] = s[e + gone]) /\ Len(t) = Len(r) + in - gone
    BY <1>1, <1>2, <2>1, <2>2
  <2> QED BY <2>3 DEF t, in, gone
<1>3. CASE ~load /\ left
  <2>1. t = <<>> /\ Len(<<>>) = 0 /\ in = 0 /\ gone = 1
    BY <1>3 DEF Latch
  <2> HIDE DEF t, in, gone
  <2>2. (t # <<>> => t[1] = s[e + gone]) /\ Len(t) = Len(r) + in - gone
    BY <1>1, <1>3, <2>1
  <2> QED BY <2>2 DEF t, in, gone
<1>4. CASE ~load /\ ~left
  <2>1. t = r /\ in = 0 /\ gone = 0
    BY <1>4 DEF Latch
  <2> HIDE DEF t, in, gone
  <2>2. (t # <<>> => t[1] = s[e + gone]) /\ Len(t) = Len(r) + in - gone
    BY <1>1, <1>4, <2>1
  <2> QED BY <2>2 DEF t, in, gone
<1> QED BY <1>2, <1>3, <1>4

\* Appending one element.
LEMMA AppendOne ==
    ASSUME NEW S, NEW s \in Seq(S), NEW e \in S
    PROVE  /\ s \o <<e>> \in Seq(S)
           /\ Len(s \o <<e>>) = Len(s) + 1
           /\ s \o <<e>> # <<>>
           /\ (s \o <<e>>)[Len(s) + 1] = e
           /\ \A i \in 1..Len(s) : (s \o <<e>>)[i] = s[i]
<1> DEFINE t == s \o <<e>>
<1>1. t \in Seq(S) /\ Len(t) = Len(s) + 1 /\ Len(s) \in Nat
      /\ t[Len(s) + 1] = e /\ \A i \in 1..Len(s) : t[i] = s[i]
  OBVIOUS
<1> HIDE DEF t
<1>2. Len(t) # 0
  BY <1>1
<1>3. t # <<>>
  BY <1>2
<1> QED BY <1>1, <1>3 DEF t

\* Concatenation can be regrouped.
LEMMA Regroup ==
    ASSUME NEW S, NEW s \in Seq(S), NEW t \in Seq(S), NEW u \in Seq(S)
    PROVE  s \o (t \o u) = (s \o t) \o u
BY ConcatAssociative

\* A beat that may come next keeps a stream framed.
LEMMA FramedAppend ==
    ASSUME NEW s \in Seq(Beats), Framed(s), NEW b \in Beats,
           s = <<>> => Sop(b), s # <<>> => Follows(Last(s), b)
    PROVE  Framed(s \o <<b>>)
<1> DEFINE t == s \o <<b>>
<1>1. /\ t \in Seq(Beats) /\ Len(t) = Len(s) + 1 /\ t # <<>> /\ Len(s) \in Nat
      /\ t[Len(s) + 1] = b /\ \A i \in 1..Len(s) : t[i] = s[i]
  BY AppendOne
<1>2. s = <<>> => Len(s) = 0
  OBVIOUS
<1> HIDE DEF t
<1>3. ASSUME NEW i \in 1..Len(t) - 1 PROVE Follows(t[i], t[i + 1])
  <2>1. CASE i < Len(s)
    BY <1>1, <2>1 DEF Framed, Contiguous
  <2>2. CASE i = Len(s)
    <3>1. s # <<>> /\ t[i] = Last(s) /\ t[i + 1] = b
      BY <1>1, <1>2, <2>2 DEF Last
    <3> QED BY <3>1
  <2> QED BY <1>1, <2>1, <2>2
<1>4. Sop(t[1])
  <2>1. CASE s = <<>>
    BY <1>1, <1>2, <2>1
  <2>2. CASE s # <<>>
    <3>1. Len(s) # 0 /\ Sop(s[1])
      BY <2>2 DEF Framed
    <3> QED BY <1>1, <3>1
  <2> QED BY <2>1, <2>2
<1>5. Framed(t)
  BY <1>3, <1>4 DEF Framed, Contiguous
<1> QED BY <1>5 DEF t

\* A source of whole packets keeps its stream framed.
LEMMA AppendFramed ==
    ASSUME NEW s \in Seq(Beats), Framed(s), NEW b \in NextBeats(s)
    PROVE  Framed(Append(s, b))
<1>1. b \in Beats
  BY NextBeatsAreBeats
<1>2. s # <<>> => Follows(Last(s), b)
  BY DEF NextBeats, AtBoundary, Follows, Sop
<1>3. s = <<>> => Sop(b)
  BY DEF NextBeats, AtBoundary, Sop
<1>4. Append(s, b) = s \o <<b>>
  BY <1>1
<1> QED BY <1>1, <1>2, <1>3, <1>4, FramedAppend

\* The second part of a concatenation.
LEMMA ConcatBeyond ==
    ASSUME NEW S, NEW s \in Seq(S), NEW t \in Seq(S),
           NEW i \in 1..Len(s \o t), i > Len(s)
    PROVE  i - Len(s) \in 1..Len(t) /\ (s \o t)[i] = t[i - Len(s)]
<1>1. Len(s) \in Nat /\ Len(t) \in Nat
  OBVIOUS
<1>2. Len(s \o t) = Len(s) + Len(t)
  OBVIOUS
<1>3. i \in 1..Len(s) + Len(t)
  BY <1>2
<1>4. \A c, d \in Nat : \A k \in 1..(c + d) : k > c => k - c \in 1..d
  OBVIOUS
<1>5. i - Len(s) \in 1..Len(t)
  BY <1>1, <1>3, <1>4
<1>6. (s \o t)[i] = t[i - Len(s)]
  BY <1>1, <1>3
<1> QED BY <1>5, <1>6
-----------------------------------------------------------------------------
(* A register s between a queue q and what has left, o: in a clock the     *)
(* receiver takes what is in the register, and the head of the queue moves *)
(* to it.                                                                  *)
Left(q, pop) == IF pop /\ q # <<>> THEN Tail(q) ELSE q
Moved(s, q, pop, ready) ==
    IF pop /\ q # <<>> THEN <<q[1]>> ELSE IF ready THEN <<>> ELSE s
Taken(o, s, ready) == IF ready THEN o \o s ELSE o
Whole(o, s, q) == o \o (s \o q)
Written(q, w) == q \o w

\* A clock displaces nothing, as long as the head moves to a free register.
LEMMA Forwards ==
    ASSUME NEW S, NEW o \in Seq(S), NEW s \in Seq(S), NEW q \in Seq(S),
           NEW pop, NEW ready, pop => s = <<>> \/ ready
    PROVE  /\ Taken(o, s, ready) \in Seq(S)
           /\ Moved(s, q, pop, ready) \in Seq(S)
           /\ Left(q, pop) \in Seq(S)
           /\ Whole(Taken(o, s, ready), Moved(s, q, pop, ready), Left(q, pop)) = Whole(o, s, q)
<1>1. <<>> \o q = q /\ o \o <<>> = o /\ s \o q \in Seq(S)
  OBVIOUS
<1>2. CASE pop /\ q # <<>>
  <2>1. Moved(s, q, pop, ready) = <<q[1]>> /\ Left(q, pop) = Tail(q)
    BY <1>2 DEF Moved, Left
  <2>2. q[1] \in S /\ Tail(q) \in Seq(S) /\ <<q[1]>> \o Tail(q) = q
    BY <1>2
  <2>3. CASE ready
    <3>1. (o \o s) \o q = o \o (s \o q)
      BY Regroup
    <3>2. o \o s \in Seq(S) /\ <<q[1]>> \in Seq(S)
      BY <2>2
    <3>3. Taken(o, s, ready) = o \o s
      BY <2>3 DEF Taken
    <3> QED BY <2>1, <2>2, <3>1, <3>2, <3>3 DEF Whole
  <2>4. CASE ~ready
    <3>1. s = <<>>
      BY <1>2, <2>4
    <3> QED BY <1>1, <2>1, <2>2, <2>4, <3>1 DEF Taken, Whole
  <2> QED BY <2>3, <2>4
<1>3. CASE ~(pop /\ q # <<>>)
  <2>1. Left(q, pop) = q /\ Moved(s, q, pop, ready) = IF ready THEN <<>> ELSE s
    BY <1>3 DEF Moved, Left
  <2>2. CASE ready
    <3>1. (o \o s) \o q = o \o (s \o q)
      BY Regroup
    <3>2. o \o s \in Seq(S) /\ <<>> \in Seq(S)
      OBVIOUS
    <3>3. Taken(o, s, ready) = o \o s /\ Moved(s, q, pop, ready) = <<>>
      BY <2>1, <2>2 DEF Taken
    <3> QED BY <1>1, <2>1, <3>1, <3>2, <3>3 DEF Whole
  <2>3. CASE ~ready
    BY <2>1, <2>3 DEF Taken, Whole
  <2> QED BY <2>2, <2>3
<1> QED BY <1>2, <1>3

\* What is added at the tail of the queue is added at the end of the whole.
LEMMA ForwardsWritten ==
    ASSUME NEW S, NEW o \in Seq(S), NEW s \in Seq(S), NEW q \in Seq(S), NEW w \in Seq(S)
    PROVE  Whole(o, s, Written(q, w)) = Written(Whole(o, s, q), w)
<1> DEFINE v == s \o q
<1>1. s \o (q \o w) = v \o w /\ v \in Seq(S)
  BY Regroup
<1> HIDE DEF v
<1>2. o \o (v \o w) = (o \o v) \o w
  BY <1>1, Regroup, SMTT(30)
<1> QED BY <1>1, <1>2 DEF v, Whole, Written

\* What the receiver takes from the register is what was sent next.
LEMMA TakenIsNext ==
    ASSUME NEW S, NEW o \in Seq(S), NEW e \in S, NEW q \in Seq(S)
    PROVE  /\ Len(o) < Len(Whole(o, <<e>>, q))
           /\ Whole(o, <<e>>, q)[Len(o) + 1] = e
<1> DEFINE t == <<e>> \o q
<1>1. t \in Seq(S) /\ Len(t) = Len(q) + 1 /\ Len(q) \in Nat /\ t[1] = e
  OBVIOUS
<1> HIDE DEF t
<1>2. Len(o) \in Nat /\ Len(t) \in Nat /\ Len(t) # 0 /\ Len(o \o t) = Len(o) + Len(t)
  BY <1>1
<1>3. Len(o) + 1 \in 1..Len(o) + Len(t) /\ ~(Len(o) + 1 <= Len(o)) /\ Len(o) + 1 - Len(o) = 1
  BY <1>2
<1>4. (o \o t)[Len(o) + 1] = t[1]
  BY <1>1, <1>2, <1>3
<1> QED BY <1>1, <1>2, <1>4 DEF t, Whole

-----------------------------------------------------------------------------
(* Counting the elements of a kind in a sequence.                          *)

\* Where in s an element of T stands, and how often one does.
Places(s, T) == {i \in 1..Len(s) : s[i] \in T}
Count(s, T) == Cardinality(Places(s, T))

\* A finite sequence has finitely many places, and they can be counted.
LEMMA PlacesFinite ==
    ASSUME NEW S, NEW s \in Seq(S), NEW T
    PROVE  /\ IsFiniteSet(Places(s, T))
           /\ Count(s, T) \in Nat
           /\ Count(s, T) <= Len(s)
           /\ (Count(s, T) = 0 <=> \A i \in 1..Len(s) : s[i] \notin T)
<1>1. Len(s) \in Nat
  OBVIOUS
<1>2. IsFiniteSet(1..Len(s)) /\ Cardinality(1..Len(s)) = Len(s)
  <2>1. IsFiniteSet(1..Len(s)) /\ Cardinality(1..Len(s)) = IF 1 > Len(s) THEN 0 ELSE Len(s) - 1 + 1
    BY <1>1, FS_Interval
  <2> QED BY <1>1, <2>1
<1>3. Places(s, T) \in SUBSET (1..Len(s))
  BY DEF Places
<1>4. IsFiniteSet(Places(s, T)) /\ Cardinality(Places(s, T)) <= Len(s)
  BY <1>2, <1>3, FS_Subset
<1>5. Cardinality(Places(s, T)) \in Nat
  BY <1>4, FS_CardinalityType
<1>6. Cardinality(Places(s, T)) = 0 <=> Places(s, T) = {}
  BY <1>4, FS_EmptySet
<1> QED BY <1>4, <1>5, <1>6 DEF Count, Places

\* An element that is appended counts if it is one of those counted.
LEMMA CountAppend ==
    ASSUME NEW S, NEW s \in Seq(S), NEW e \in S, NEW T
    PROVE  Count(s \o <<e>>, T) = IF e \in T THEN Count(s, T) + 1 ELSE Count(s, T)
<1> DEFINE t == s \o <<e>>
<1>1. Len(s) \in Nat /\ Len(t) = Len(s) + 1 /\ t[Len(s) + 1] = e /\ \A i \in 1..Len(s) : t[i] = s[i]
  OBVIOUS
<1> HIDE DEF t
<1>2. Len(s) + 1 \notin Places(s, T)
  BY <1>1 DEF Places
<1>3. \A i : i \in 1..Len(t) <=> i \in 1..Len(s) \/ i = Len(s) + 1
  BY <1>1
<1>4. Places(t, T) = IF e \in T THEN Places(s, T) \cup {Len(s) + 1} ELSE Places(s, T)
  BY <1>1, <1>3 DEF Places
<1>5. IsFiniteSet(Places(s, T))
  BY PlacesFinite
<1>6. Cardinality(Places(s, T) \cup {Len(s) + 1}) = Cardinality(Places(s, T)) + 1
  BY <1>2, <1>5, FS_AddElement
<1> QED BY <1>4, <1>6 DEF Count, t

\* So does the element that leaves at the head; the others move up by one place.
LEMMA CountTail ==
    ASSUME NEW S, NEW s \in Seq(S), s # <<>>, NEW T
    PROVE  Count(s, T) = IF s[1] \in T THEN Count(Tail(s), T) + 1 ELSE Count(Tail(s), T)
<1> DEFINE t == Tail(s)
<1>1. Len(s) \in Nat /\ Len(t) \in Nat /\ Len(s) = Len(t) + 1 /\ \A i \in 1..Len(t) : t[i] = s[i + 1]
  OBVIOUS
<1>2. t \in Seq(S)
  OBVIOUS
<1> HIDE DEF t
<1> DEFINE P == Places(t, T)
           Q == {i + 1 : i \in P}
           f == [i \in P |-> i + 1]
<1>3. IsFiniteSet(P)
  BY <1>2, PlacesFinite
<1>4. P \subseteq Nat \ {0}
  BY DEF Places
<1>5. f \in Bijection(P, Q)
  <2>1. f \in [P -> Q] /\ \A j \in Q : \E i \in P : f[i] = j
    OBVIOUS
  <2>2. \A i, j \in P : f[i] = f[j] => i = j
    BY <1>4
  <2> HIDE DEF f, P, Q
  <2> QED BY <2>1, <2>2 DEF Bijection, Injection, Surjection, IsInjective
<1>6. IsFiniteSet(Q) /\ Cardinality(Q) = Cardinality(P)
  <2> HIDE DEF f, P, Q
  <2>1. ExistsBijection(P, Q)
    BY <1>5 DEF ExistsBijection
  <2> QED BY <1>3, <2>1, FS_Bijection
<1>7. Places(s, T) = IF s[1] \in T THEN Q \cup {1} ELSE Q
  <2>1. ASSUME NEW i \in 1..Len(s), i # 1 PROVE i - 1 \in 1..Len(t) /\ s[i] = t[i - 1] /\ (i - 1) + 1 = i
    BY <1>1, <2>1
  <2>2. ASSUME NEW i \in 1..Len(t) PROVE i + 1 \in 1..Len(s) /\ s[i + 1] = t[i] /\ i + 1 # 1
    BY <1>1
  <2>3. 1 \in 1..Len(s)
    BY <1>1
  <2>4. ASSUME NEW i \in Places(s, T), i # 1 PROVE i \in Q
    BY <2>1, <2>4 DEF Places
  <2>5. ASSUME NEW j \in Q PROVE j \in Places(s, T) /\ j # 1
    BY <2>2 DEF Places
  <2>6. 1 \in Places(s, T) <=> s[1] \in T
    BY <2>3 DEF Places
  <2> HIDE DEF P, Q
  <2>7. Places(s, T) \ {1} = Q /\ 1 \notin Q
    BY <2>4, <2>5
  <2> QED BY <2>6, <2>7
<1>8. 1 \notin Q
  BY <1>4
<1> HIDE DEF P, Q
<1>9. Cardinality(Q \cup {1}) = Cardinality(Q) + 1
  BY <1>6, <1>8, FS_AddElement
<1> QED BY <1>6, <1>7, <1>9 DEF Count, P, t

-----------------------------------------------------------------------------
(* Numbering the places of a kind.                                         *)

\* How many of the places P come before i.
Ahead(P, i) == Cardinality({j \in P : j < i})

\* The places of a stream are numbered by how many come before them.
LEMMA AheadCounts ==
    ASSUME NEW n \in Nat, NEW P \in SUBSET (1..n)
    PROVE  /\ IsFiniteSet(P) /\ Cardinality(P) \in Nat
           /\ \A i \in Nat : Ahead(P, i) \in Nat
           /\ Ahead(P, 1) = 0
           /\ \A i \in Nat : Ahead(P, i + 1) = IF i \in P THEN Ahead(P, i) + 1 ELSE Ahead(P, i)
           /\ \A i \in P : Ahead(P, i) < Cardinality(P)
           /\ \A i, k \in P : Ahead(P, i) = Ahead(P, k) => i = k
<1> DEFINE Before(i) == {j \in P : j < i}
<1>0. \A j \in P : j \in Nat /\ j >= 1
  OBVIOUS
<1>1. IsFiniteSet(P) /\ Cardinality(P) \in Nat
  <2>1. IsFiniteSet(1..n)
    BY FS_Interval
  <2> QED BY <2>1, FS_Subset, FS_CardinalityType
<1>2. ASSUME NEW i PROVE IsFiniteSet(Before(i)) /\ Cardinality(Before(i)) \in Nat
  <2>1. Before(i) \in SUBSET P
    OBVIOUS
  <2> QED BY <1>1, <2>1, FS_Subset, FS_CardinalityType
<1>3. Cardinality(Before(1)) = 0
  <2>1. \A j \in P : ~(j < 1)
    BY <1>0
  <2>2. Before(1) = {}
    BY <2>1
  <2> QED BY <2>2, FS_EmptySet
<1>4. ASSUME NEW i \in Nat
      PROVE  Cardinality(Before(i + 1)) = IF i \in P THEN Cardinality(Before(i)) + 1 ELSE Cardinality(Before(i))
  <2>1. CASE i \in P
    <3>1. \A j \in P : j < i + 1 <=> j < i \/ j = i
      BY <1>0
    <3>2. ~(i < i)
      OBVIOUS
    <3>3. Before(i + 1) = Before(i) \cup {i} /\ i \notin Before(i)
      BY <2>1, <3>1, <3>2
    <3> HIDE DEF Before
    <3> QED BY <1>2, <2>1, <3>3, FS_AddElement
  <2>2. CASE i \notin P
    <3>1. \A j \in P : j < i + 1 <=> j < i
      BY <1>0, <2>2
    <3> QED BY <2>2, <3>1
  <2> QED BY <2>1, <2>2
<1>5. ASSUME NEW i \in P, NEW Q, Q \in SUBSET P, IsFiniteSet(Q), Before(i) \cup {i} \in SUBSET Q
      PROVE  Cardinality(Before(i)) < Cardinality(Q)
  <2>1. i \notin Before(i)
    OBVIOUS
  <2> HIDE DEF Before
  <2>2. Cardinality(Before(i) \cup {i}) = Cardinality(Before(i)) + 1 /\ Cardinality(Before(i)) \in Nat
    BY <1>2, <2>1, FS_AddElement
  <2>3. Cardinality(Before(i) \cup {i}) <= Cardinality(Q) /\ Cardinality(Q) \in Nat
    BY <1>5, FS_Subset, FS_CardinalityType
  <2> QED BY <2>2, <2>3
<1>6. ASSUME NEW i \in P PROVE Cardinality(Before(i)) < Cardinality(P)
  <2>1. Before(i) \cup {i} \in SUBSET P
    OBVIOUS
  <2> QED BY <1>1, <1>5, <2>1
<1>7. ASSUME NEW i \in P, NEW k \in P, i < k PROVE Cardinality(Before(i)) < Cardinality(Before(k))
  <2>0. \A j \in P : j < i => j < k
    BY <1>0, <1>7
  <2>1. Before(i) \cup {i} \in SUBSET Before(k) /\ Before(k) \in SUBSET P
    BY <1>7, <2>0
  <2> QED BY <1>2, <1>5, <2>1
<1>8. ASSUME NEW i \in P, NEW k \in P, Cardinality(Before(i)) = Cardinality(Before(k)) PROVE i = k
  <2>1. i < k \/ k < i \/ i = k
    BY <1>0
  <2>2. Cardinality(Before(i)) \in Nat /\ Cardinality(Before(k)) \in Nat
    BY <1>2
  <2> HIDE DEF Before
  <2> QED BY <1>7, <1>8, <2>1, <2>2
<1>9. \A i : Ahead(P, i) = Cardinality(Before(i))
  BY DEF Ahead
<1> HIDE DEF Before
<1> QED BY <1>1, <1>2, <1>3, <1>4, <1>6, <1>8, <1>9

\* A place behind the others changes none of their numbers.
LEMMA AheadBehind ==
    ASSUME NEW n \in Nat, NEW P \in SUBSET (1..n), NEW R, R = P \/ R = P \cup {n + 1},
           NEW i \in 1..(n + 1)
    PROVE  Ahead(R, i) = Ahead(P, i)
<1>1. {j \in R : j < i} = {j \in P : j < i}
  OBVIOUS
<1> QED BY <1>1 DEF Ahead
=============================================================================
