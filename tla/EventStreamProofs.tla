-------------------------- MODULE EventStreamProofs --------------------------
(***************************************************************************)
(* What happens to the events of a text when one more character of it, or  *)
(* one more end of a line, is known.  The line that is not ended yet, its  *)
(* name and its value, and what the lines so far tell of the event that is *)
(* going on, are told for the text before and after.                       *)
(***************************************************************************)
EXTENDS EventStream, FiniteSetTheorems, TLAPS

----------------------------------------------------------------------------
(* The places of a set, counted.                                           *)

\* Everything is about places up to some n.
LEMMA PlacesFinite ==
  ASSUME NEW n \in Nat, NEW P \in SUBSET (1..n)
  PROVE  IsFiniteSet(P) /\ Cardinality(P) \in Nat
<1>1. IsFiniteSet(1..n)
  BY FS_Interval
<1>. QED
  BY <1>1, FS_Subset, FS_CardinalityType

UpTo(P, i) == {j \in P : j <= i}

LEMMA RankBounds ==
  ASSUME NEW n \in Nat, NEW P \in SUBSET (1..n), NEW i \in P
  PROVE  Cardinality(UpTo(P, i)) \in 1..Cardinality(P) /\ IsFiniteSet(UpTo(P, i))
<1>1. IsFiniteSet(P) /\ Cardinality(P) \in Nat
  BY PlacesFinite
<1>2. UpTo(P, i) \in SUBSET P /\ i \in UpTo(P, i)
  BY DEF UpTo
<1>3. IsFiniteSet(UpTo(P, i)) /\ Cardinality(UpTo(P, i)) <= Cardinality(P)
  BY <1>1, <1>2, FS_Subset
<1>4. Cardinality(UpTo(P, i)) \in Nat /\ Cardinality(UpTo(P, i)) # 0
  BY <1>2, <1>3, FS_EmptySet, FS_CardinalityType
<1>. QED
  BY <1>1, <1>3, <1>4

LEMMA RankUnique ==
  ASSUME NEW n \in Nat, NEW P \in SUBSET (1..n), NEW i \in P, NEW j \in P,
         Cardinality(UpTo(P, i)) = Cardinality(UpTo(P, j))
  PROVE  i = j
<1>1. ASSUME NEW a \in P, NEW b \in P, a < b
      PROVE  Cardinality(UpTo(P, a)) # Cardinality(UpTo(P, b))
  <2>1. \A k \in P : k \in Int
    OBVIOUS
  <2>2. \A x \in UpTo(P, a) : x \in UpTo(P, b)
    <3>1. \A x \in P : x <= a => x <= b
      BY <1>1, <2>1
    <3>. QED
      BY <3>1 DEF UpTo
  <2>3. b \in UpTo(P, b) /\ b \notin UpTo(P, a)
    BY <1>1, <2>1 DEF UpTo
  <2>4. UpTo(P, a) # UpTo(P, b)
    BY <2>3
  <2>. QED
    BY <2>2, <2>4, RankBounds, FS_Subset
<1>2. i < j \/ j < i \/ i = j
  OBVIOUS
<1>. QED
  BY <1>1, <1>2

\* Every number from 1 to the size of a set is the rank of one of its members.
LEMMA NthIs ==
  ASSUME NEW n \in Nat, NEW P \in SUBSET (1..n), NEW k \in 1..Cardinality(P)
  PROVE  Nth(P, k) \in P /\ Cardinality(UpTo(P, Nth(P, k))) = k
<1>. DEFINE rank == [i \in P |-> Cardinality(UpTo(P, i))]
<1>1. IsFiniteSet(P) /\ Cardinality(P) \in Nat
  BY PlacesFinite
<1>4. rank \in Injection(P, 1..Cardinality(P))
  <2>1. rank \in [P -> 1..Cardinality(P)]
    BY RankBounds
  <2>2. \A i, j \in P : rank[i] = rank[j] => i = j
    BY RankUnique
  <2>. QED
    BY <2>1, <2>2 DEF Injection, IsInjective
<1>5. IsFiniteSet(1..Cardinality(P)) /\ Cardinality(1..Cardinality(P)) = Cardinality(P)
  BY <1>1, FS_Interval
<1>6. rank \in Surjection(P, 1..Cardinality(P))
  BY <1>4, <1>5, FS_Injection
<1>7. \E i \in P : Cardinality({j \in P : j <= i}) = k
  BY <1>6 DEF Surjection, UpTo
<1>. QED
  BY <1>7 DEF Nth, UpTo

\* Q has the members of P and a last one, m.
AddsLast(n, P, Q, m) ==
  /\ n \in Nat /\ P \in SUBSET (1..n) /\ m \in 1..n
  /\ Q = P \cup {m} /\ \A i \in P : i < m

RanksGoOn(P, Q, m, c) ==
  /\ Cardinality(P) = c /\ c \in Nat /\ Cardinality(Q) = c + 1
  /\ \A k \in 1..c : Nth(Q, k) = Nth(P, k)
  /\ Nth(Q, c + 1) = m

\* A number after all others comes last and leaves the others' ranks alone.
LEMMA NthAdd ==
  ASSUME NEW n, NEW P, NEW Q, NEW m, AddsLast(n, P, Q, m)
  PROVE  RanksGoOn(P, Q, m, Cardinality(P))
<1>a. /\ n \in Nat /\ P \in SUBSET (1..n) /\ m \in 1..n
      /\ Q = P \cup {m} /\ \A i \in P : i < m
  BY DEF AddsLast
<1>0. m \notin P /\ \A i \in P : i <= m
  BY <1>a
<1>1. IsFiniteSet(P) /\ Cardinality(P) \in Nat
  BY <1>a, PlacesFinite
<1>2. Cardinality(Q) = Cardinality(P) + 1
  BY <1>a, <1>0, <1>1, FS_AddElement
<1>3. \A i \in P : UpTo(Q, i) = UpTo(P, i)
  BY <1>a DEF UpTo
<1>4. UpTo(Q, m) = Q
  <2>1. \A j \in Q : j <= m
    BY <1>a, <1>0
  <2>. QED
    BY <2>1 DEF UpTo
<1>5. Q \in SUBSET (1..n)
  BY <1>a
<1>6. ASSUME NEW k \in 1..Cardinality(P)
      PROVE  Nth(Q, k) = Nth(P, k)
  <2>1. k \in 1..Cardinality(Q) /\ k # Cardinality(Q)
    BY <1>1, <1>2
  <2>2. Nth(Q, k) \in Q /\ Cardinality(UpTo(Q, Nth(Q, k))) = k
    BY <1>a, <1>5, <2>1, NthIs
  <2>3. Nth(Q, k) # m
    BY <1>4, <2>1, <2>2
  <2>4. Nth(Q, k) \in P
    BY <1>a, <2>2, <2>3
  <2>5. Cardinality(UpTo(P, Nth(Q, k))) = k
    BY <1>3, <2>2, <2>4
  <2>6. Nth(P, k) \in P /\ Cardinality(UpTo(P, Nth(P, k))) = k
    BY <1>a, NthIs
  <2>. QED
    BY <1>a, <2>4, <2>5, <2>6, RankUnique
<1>7. Nth(Q, Cardinality(P) + 1) = m
  <2>. DEFINE k == Cardinality(P) + 1
  <2>1. k \in 1..Cardinality(Q) /\ k = Cardinality(Q)
    BY <1>1, <1>2
  <2>2. Nth(Q, k) \in Q /\ Cardinality(UpTo(Q, Nth(Q, k))) = k
    BY <1>a, <1>5, <2>1, NthIs
  <2>3. m \in Q /\ Cardinality(UpTo(Q, m)) = k
    BY <1>a, <1>4, <2>1
  <2>. QED
    BY <1>a, <1>5, <2>2, <2>3, RankUnique
<1>. QED
  BY <1>1, <1>2, <1>6, <1>7 DEF RanksGoOn

----------------------------------------------------------------------------
(* The least and the greatest.                                             *)

LEMMA GreatestIs ==
  ASSUME NEW P \in SUBSET Int, NEW m \in P, \A i \in P : m >= i
  PROVE  Max(P) = m
<1>1. Max(P) \in P /\ \A i \in P : Max(P) >= i
  BY DEF Max
<1>2. Max(P) \in Int /\ m \in Int /\ Max(P) >= m /\ m >= Max(P)
  BY <1>1
<1>. QED
  BY <1>2

LEMMA LeastIs ==
  ASSUME NEW P \in SUBSET Int, NEW m \in P, \A i \in P : m <= i
  PROVE  Min(P) = m
<1>1. Min(P) \in P /\ \A i \in P : Min(P) <= i
  BY DEF Min
<1>2. Min(P) \in Int /\ m \in Int /\ Min(P) <= m /\ m <= Min(P)
  BY <1>1
<1>. QED
  BY <1>2

\* There are a last and a first place.
LEMMA LastPlace ==
  ASSUME NEW n \in Nat, NEW P \in SUBSET (1..n), P # {}
  PROVE  \E m \in P : \A i \in P : m >= i
<1>1. IsFiniteSet(P) /\ Cardinality(P) \in Nat /\ Cardinality(P) # 0
  BY PlacesFinite, FS_EmptySet
<1>2. Cardinality(P) \in 1..Cardinality(P)
  BY <1>1
<1>3. PICK m \in P : Cardinality(UpTo(P, m)) = Cardinality(P)
  BY <1>2, NthIs
<1>4. UpTo(P, m) \in SUBSET P
  BY DEF UpTo
<1>5. UpTo(P, m) = P
  BY <1>1, <1>3, <1>4, FS_Subset
<1>6. \A i \in P : i <= m
  BY <1>5 DEF UpTo
<1>7. \A i \in P : i \in Int
  OBVIOUS
<1>. QED
  BY <1>6, <1>7

LEMMA FirstPlace ==
  ASSUME NEW n \in Nat, NEW P \in SUBSET (1..n), P # {}
  PROVE  \E m \in P : \A i \in P : m <= i
<1>1. IsFiniteSet(P) /\ Cardinality(P) \in Nat /\ Cardinality(P) # 0
  BY PlacesFinite, FS_EmptySet
<1>2. 1 \in 1..Cardinality(P)
  BY <1>1
<1>3. PICK m \in P : Cardinality(UpTo(P, m)) = 1
  BY <1>2, NthIs
<1>4. PICK x : UpTo(P, m) = {x}
  BY <1>3, RankBounds, FS_Singleton
<1>5. \A i \in P : i \in Int
  OBVIOUS
<1>6. m \in UpTo(P, m)
  BY <1>5 DEF UpTo
<1>7. \A i \in P : i <= m => i = m
  BY <1>4, <1>6 DEF UpTo
<1>. QED
  BY <1>5, <1>7

----------------------------------------------------------------------------
(* The text at some places.                                                *)

\* As much of t as is in s is the same.
Extends(t, s) == Len(s) <= Len(t) /\ \A i \in 1..Len(s) : t[i] = s[i]

LEMMA TextType ==
  ASSUME NEW C, NEW s \in Seq(C), NEW P \in SUBSET (1..Len(s))
  PROVE  /\ TextAt(s, P) \in Seq(C)
         /\ Len(TextAt(s, P)) = Cardinality(P)
         /\ TextAt(s, P) = <<>> <=> P = {}
<1>1. Len(s) \in Nat /\ \A i \in 1..Len(s) : s[i] \in C
  OBVIOUS
<1>2. IsFiniteSet(P) /\ Cardinality(P) \in Nat
  BY <1>1, PlacesFinite
<1>3. \A k \in 1..Cardinality(P) : s[Nth(P, k)] \in C
  BY <1>1, NthIs
<1>4. TextAt(s, P) \in Seq(C) /\ Len(TextAt(s, P)) = Cardinality(P)
  BY <1>2, <1>3 DEF TextAt
<1>5. Cardinality(P) = 0 <=> P = {}
  BY <1>2, FS_EmptySet
<1>6. TextAt(s, P) = <<>> <=> Len(TextAt(s, P)) = 0
  BY <1>4
<1>. QED
  BY <1>4, <1>5, <1>6

LEMMA TextSame ==
  ASSUME NEW n \in Nat, NEW P \in SUBSET (1..n), NEW s, NEW t, \A i \in P : t[i] = s[i]
  PROVE  TextAt(t, P) = TextAt(s, P)
<1>1. \A k \in 1..Cardinality(P) : t[Nth(P, k)] = s[Nth(P, k)]
  BY NthIs
<1>. QED
  BY <1>1 DEF TextAt

LEMMA TextOfNone ==
  ASSUME NEW s
  PROVE  TextAt(s, {}) = <<>>
  BY FS_EmptySet DEF TextAt

LEMMA AppendIs ==
  ASSUME NEW D, NEW q \in Seq(D), NEW e \in D, NEW r, NEW c, Len(q) = c,
         r \in [1..c + 1 -> D], r[c + 1] = e, \A k \in 1..c : r[k] = q[k]
  PROVE  r = Append(q, e)
<1>. DEFINE p == Append(q, e)
<1>1. /\ p \in Seq(D) /\ Len(p) = c + 1 /\ c \in Nat /\ p[c + 1] = e
      /\ \A k \in 1..c : p[k] = q[k]
  OBVIOUS
<1>. HIDE DEF p
<1>2. p \in [1..c + 1 -> D]
  BY <1>1
<1>3. \A k \in 1..c + 1 : k = c + 1 \/ k \in 1..c
  BY <1>1
<1>4. \A k \in 1..c + 1 : r[k] = p[k]
  BY <1>1, <1>3
<1>. QED
  BY <1>2, <1>4 DEF p

\* One more place m, in a text that may be longer.
Adds(C, s, t, P, m) ==
  /\ s \in Seq(C) /\ t \in Seq(C) /\ Len(s) <= Len(t)
  /\ P \in SUBSET (1..Len(s)) /\ m \in 1..Len(t)
  /\ \A i \in P : t[i] = s[i] /\ i < m

LEMMA TextAdd ==
  ASSUME NEW C, NEW s, NEW t, NEW P, NEW m, Adds(C, s, t, P, m)
  PROVE  TextAt(t, P \cup {m}) = Append(TextAt(s, P), t[m])
<1>. DEFINE Q == P \cup {m}
            c == Cardinality(P)
<1>0. /\ s \in Seq(C) /\ t \in Seq(C) /\ P \in SUBSET (1..Len(s)) /\ m \in 1..Len(t)
      /\ \A i \in P : t[i] = s[i] /\ i < m
  BY DEF Adds
<1>1. P \in SUBSET (1..Len(t)) /\ Len(t) \in Nat /\ Q \in SUBSET (1..Len(t)) /\ Len(s) \in Nat
  BY DEF Adds
<1>2. /\ Cardinality(Q) = c + 1 /\ c \in Nat
      /\ \A k \in 1..c : Nth(Q, k) = Nth(P, k)
      /\ Nth(Q, c + 1) = m
  <2>1. AddsLast(Len(t), P, Q, m)
    BY <1>0, <1>1 DEF AddsLast
  <2>. HIDE DEF Q
  <2>2. RanksGoOn(P, Q, m, c)
    BY <2>1, NthAdd
  <2>. HIDE DEF c
  <2>. QED
    BY <2>2 DEF RanksGoOn
<1>3. TextAt(s, P) \in Seq(C) /\ Len(TextAt(s, P)) = c
  BY <1>0, TextType
<1>4. \A k \in 1..c : t[Nth(P, k)] = s[Nth(P, k)]
  BY <1>0, <1>1, NthIs
<1>5. \A k \in 1..c : TextAt(s, P)[k] = t[Nth(Q, k)]
  BY <1>2, <1>4 DEF TextAt
<1>6. TextAt(t, Q) = [k \in 1..c + 1 |-> t[Nth(Q, k)]]
  BY <1>2 DEF TextAt
<1>. HIDE DEF Q, c
<1>7. /\ TextAt(t, Q) \in [1..c + 1 -> C]
      /\ TextAt(t, Q)[c + 1] = t[m] /\ \A k \in 1..c : TextAt(t, Q)[k] = TextAt(s, P)[k]
  <2>1. TextAt(t, Q) \in Seq(C) /\ Len(TextAt(t, Q)) = c + 1
    BY <1>0, <1>1, <1>2, TextType
  <2>. QED
    BY <1>2, <1>5, <1>6, <2>1
<1>8. t[m] \in C
  BY <1>0
<1>9. TextAt(t, Q) = Append(TextAt(s, P), t[m])
  BY <1>3, <1>7, <1>8, AppendIs
<1>. QED
  BY <1>9 DEF Q

----------------------------------------------------------------------------
(* Lines.                                                                  *)

\* What a line is: its places are in the text, and its value after its beginning.
Placed(line, n) ==
  /\ line.first \in 1..n + 1 /\ line.last \in 0..n /\ line.first <= line.last + 1
  /\ line.value \in SUBSET (1..line.last) /\ \A i \in line.value : line.first < i

LEMMA ColonType ==
  ASSUME NEW s, NEW first \in Nat \ {0}, NEW last \in Nat, first <= last + 1
  PROVE  /\ Colon(s, first, last) \in first..last + 1
         /\ \A i \in first..last : s[i] = ":" => Colon(s, first, last) <= i
         /\ Colon(s, first, last) <= last => s[Colon(s, first, last)] = ":"
<1>. DEFINE P == {i \in first..last : s[i] = ":"} \cup {last + 1}
<1>1. P \in SUBSET (1..last + 1) /\ P # {} /\ last + 1 \in Nat /\ P \in SUBSET Int
  OBVIOUS
<1>. HIDE DEF P
<1>2. PICK m \in P : \A i \in P : m <= i
  BY <1>1, FirstPlace
<1>3. Min(P) = m
  BY <1>1, <1>2, LeastIs
<1>4. Colon(s, first, last) = m
  BY <1>3 DEF Colon, P
<1>. QED
  BY <1>2, <1>4 DEF P

\* The colon is the first one, or there is none.
LEMMA ColonIs ==
  ASSUME NEW s, NEW first \in Nat \ {0}, NEW last \in Nat, first <= last + 1,
         NEW c \in first..last + 1, \A i \in first..last : s[i] = ":" => c <= i,
         c <= last => s[c] = ":"
  PROVE  Colon(s, first, last) = c
<1>. DEFINE d == Colon(s, first, last)
<1>1. /\ d \in first..last + 1
      /\ \A i \in first..last : s[i] = ":" => d <= i
      /\ d <= last => s[d] = ":"
  BY ColonType
<1>. HIDE DEF d
<1>2. d <= last => c <= d
  BY <1>1
<1>3. c <= last => d <= c
  BY <1>1
<1>4. d = c
  BY <1>1, <1>2, <1>3
<1>. QED
  BY <1>4 DEF d

LEMMA LinePlaced ==
  ASSUME NEW s, NEW first \in Nat \ {0}, NEW last \in Nat, first <= last + 1, NEW n \in Nat, last <= n
  PROVE  /\ Placed(Line(s, first, last), n)
         /\ Line(s, first, last).first = first /\ Line(s, first, last).last = last
<1>. DEFINE c == Colon(s, first, last)
            v == {i \in c + 1..last : i = c + 1 => s[i] # Space}
<1>1. c \in first..last + 1
  BY ColonType
<1>2. /\ Line(s, first, last).first = first /\ Line(s, first, last).last = last
      /\ Line(s, first, last).value = v
  BY DEF Line
<1>. HIDE DEF c
<1>3. \A i \in v : i \in 1..last /\ first < i
  <2>1. \A i \in v : i \in c + 1..last
    OBVIOUS
  <2>. HIDE DEF v
  <2>2. \A i \in c + 1..last : i \in 1..last /\ first < i
    BY <1>1
  <2>. QED
    BY <2>1, <2>2
<1>. HIDE DEF v
<1>4. first \in 1..n + 1 /\ last \in 0..n
  OBVIOUS
<1>. QED
  BY <1>2, <1>3, <1>4 DEF Placed

LEMMA LineSame ==
  ASSUME NEW s, NEW t, NEW first \in Nat \ {0}, NEW last \in Nat, first <= last + 1,
         \A i \in first..last : t[i] = s[i]
  PROVE  Line(t, first, last) = Line(s, first, last)
<1>. DEFINE c == Colon(s, first, last)
<1>1. c \in first..last + 1
  BY ColonType
<1>2. Colon(t, first, last) = c
  <2>1. /\ \A i \in first..last : s[i] = ":" => c <= i
        /\ c <= last => s[c] = ":"
    BY ColonType
  <2>. HIDE DEF c
  <2>2. /\ \A i \in first..last : t[i] = ":" => c <= i
        /\ c <= last => t[c] = ":"
    BY <1>1, <2>1
  <2>. QED
    BY <1>1, <2>2, ColonIs
<1>3. TextAt(t, first..c - 1) = TextAt(s, first..c - 1)
  <2>1. first..c - 1 \in SUBSET (1..last) /\ \A i \in first..c - 1 : t[i] = s[i]
    BY <1>1
  <2>. QED
    BY <2>1, TextSame
<1>4. {i \in c + 1..last : i = c + 1 => t[i] # Space} = {i \in c + 1..last : i = c + 1 => s[i] # Space}
  <2>. HIDE DEF c
  <2>1. \A i \in c + 1..last : t[i] = s[i]
    BY <1>1
  <2>. QED
    BY <2>1
<1>. HIDE DEF c
<1>. QED
  BY <1>2, <1>3, <1>4 DEF Line, c

----------------------------------------------------------------------------
(* Line ends.                                                              *)

\* Where the line begins that has place p in it.
LEMMA BeginIs ==
  ASSUME NEW C, NEW s \in Seq(C), NEW p \in 1..Len(s) + 1
  PROVE  /\ Begin(s, p) \in 1..p
         /\ Begin(s, p) = 1 \/ Begin(s, p) - 1 \in LineEnds(s)
         /\ \A i \in LineEnds(s) : i < p => i < Begin(s, p)
<1>. DEFINE P == {i \in LineEnds(s) : i < p}
<1>1. P \in SUBSET (1..Len(s)) /\ Len(s) \in Nat
  BY DEF LineEnds
<1>2. PICK m \in {0} \cup P : \A i \in {0} \cup P : m >= i
  <2>1. CASE P = {}
    BY <2>1
  <2>2. CASE P # {}
    <3>1. PICK m \in P : \A i \in P : m >= i
      BY <1>1, <2>2, LastPlace
    <3>2. m >= 0
      BY <1>1
    <3>. QED
      BY <3>1, <3>2
  <2>. QED
    BY <2>1, <2>2
<1>3. {0} \cup P \in SUBSET Int
  BY <1>1
<1>4. Max({0} \cup P) = m
  BY <1>2, <1>3, GreatestIs
<1>5. Begin(s, p) = m + 1
  BY <1>4 DEF Begin
<1>6. m \in 0..p - 1 /\ (m = 0 \/ m \in LineEnds(s))
  BY <1>1
<1>7. \A i \in LineEnds(s) : i < p => i <= m
  BY <1>1, <1>2
<1>. QED
  BY <1>5, <1>6, <1>7 DEF LineEnds

LEMMA BeginSame ==
  ASSUME NEW s, NEW t, NEW p, \A i : i \in LineEnds(s) /\ i < p <=> i \in LineEnds(t) /\ i < p
  PROVE  Begin(t, p) = Begin(s, p)
<1>1. {i \in LineEnds(t) : i < p} = {i \in LineEnds(s) : i < p}
  OBVIOUS
<1>. QED
  BY <1>1 DEF Begin

\* The line that is not ended, which begins after the last end.
Unended(s) == Line(s, Begin(s, Len(s) + 1), Len(s))

LEMMA UnendedPlaced ==
  ASSUME NEW C, NEW s \in Seq(C)
  PROVE  /\ Placed(Unended(s), Len(s))
         /\ Unended(s).first = Begin(s, Len(s) + 1) /\ Unended(s).last = Len(s)
<1>1. Len(s) \in Nat /\ Begin(s, Len(s) + 1) \in 1..Len(s) + 1
  BY BeginIs
<1>. QED
  BY <1>1, LinePlaced DEF Unended

LEMMA LinesPlaced ==
  ASSUME NEW C, NEW s \in Seq(C), NEW l \in Lines(s)
  PROVE  /\ Placed(l, Len(s)) /\ l.first <= Len(s)
         /\ l.first < Begin(s, Len(s) + 1) /\ l.last < Begin(s, Len(s) + 1)
<1>1. PICK e \in LineEnds(s) : l = Line(s, Begin(s, e), IF Pair(s, e) THEN e - 2 ELSE e - 1)
  BY DEF Lines
<1>2. e \in 1..Len(s) /\ Len(s) \in Nat
  BY DEF LineEnds
<1>3. Begin(s, e) \in 1..e /\ Begin(s, Len(s) + 1) \in 1..Len(s) + 1 /\ e < Begin(s, Len(s) + 1)
  BY <1>2, BeginIs
<1>. DEFINE last == IF Pair(s, e) THEN e - 2 ELSE e - 1
<1>4. last \in Nat /\ Begin(s, e) <= last + 1 /\ last <= Len(s) /\ last < e
  BY <1>2, <1>3 DEF Pair
<1>. HIDE DEF last
<1>5. l = Line(s, Begin(s, e), last)
  BY <1>1 DEF last
<1>. QED
  BY <1>2, <1>3, <1>4, <1>5, LinePlaced

----------------------------------------------------------------------------
(* A text that goes on.                                                    *)

\* The place where a line ends tells which line it is.
LineTo(s, e) == Line(s, Begin(s, e), IF Pair(s, e) THEN e - 2 ELSE e - 1)

LEMMA LineToSame ==
  ASSUME NEW C, NEW s \in Seq(C), NEW t \in Seq(C), Extends(t, s),
         \A i \in 1..Len(s) : i \in LineEnds(s) <=> i \in LineEnds(t),
         NEW e \in LineEnds(s)
  PROVE  LineTo(t, e) = LineTo(s, e)
<1>1. e \in 1..Len(s) /\ Len(s) \in Nat /\ Len(t) \in Nat /\ Len(s) <= Len(t)
  BY DEF LineEnds, Extends
<1>2. \A i : i \in LineEnds(s) /\ i < e <=> i \in LineEnds(t) /\ i < e
  BY <1>1 DEF LineEnds
<1>3. Begin(t, e) = Begin(s, e)
  BY <1>2, BeginSame
<1>4. Begin(s, e) \in 1..e
  BY <1>1, BeginIs
<1>5. Pair(t, e) <=> Pair(s, e)
  BY <1>1, <1>3, <1>4 DEF Pair, Extends
<1>. DEFINE last == IF Pair(s, e) THEN e - 2 ELSE e - 1
<1>6. last \in Nat /\ Begin(s, e) <= last + 1 /\ last <= Len(s)
  BY <1>1, <1>4 DEF Pair
<1>7. (IF Pair(t, e) THEN e - 2 ELSE e - 1) = last
  BY <1>5
<1>. HIDE DEF last
<1>8. \A i \in Begin(s, e)..last : t[i] = s[i]
  BY <1>1, <1>4, <1>6 DEF Extends
<1>9. Line(t, Begin(s, e), last) = Line(s, Begin(s, e), last)
  BY <1>4, <1>6, <1>8, LineSame
<1>. QED
  BY <1>3, <1>7, <1>9 DEF LineTo, last

LEMMA LinesByEnds ==
  ASSUME NEW s
  PROVE  Lines(s) = {LineTo(s, e) : e \in LineEnds(s)}
  BY DEF Lines, LineTo

\* One more character, which is no line end.
LEMMA PlainEnds ==
  ASSUME NEW C, NEW s \in Seq(C), NEW c \in C, c \notin {LineFeed, CarriageReturn}
  PROVE  /\ Append(s, c) \in Seq(C) /\ Extends(Append(s, c), s) /\ LineEnds(Append(s, c)) = LineEnds(s)
<1>. DEFINE t == Append(s, c)
<1>1. /\ t \in Seq(C) /\ Len(s) \in Nat /\ Len(t) = Len(s) + 1 /\ t[Len(s) + 1] = c
      /\ \A i \in 1..Len(s) : t[i] = s[i]
  OBVIOUS
<1>2. DOMAIN s = 1..Len(s) /\ DOMAIN t = 1..Len(t)
  BY <1>1
<1>3. c # LineFeed /\ c # CarriageReturn
  OBVIOUS
<1>. HIDE DEF t
<1>4. \A i \in DOMAIN s : i \in LineEnds(t) <=> i \in LineEnds(s)
  BY <1>1, <1>2, <1>3 DEF LineEnds
<1>5. Len(s) + 1 \notin LineEnds(t)
  BY <1>1, <1>3 DEF LineEnds
<1>6. \A i \in LineEnds(t) : i \in DOMAIN s
  BY <1>1, <1>2, <1>5 DEF LineEnds
<1>7. \A i \in LineEnds(s) : i \in DOMAIN s
  BY DEF LineEnds
<1>8. LineEnds(t) = LineEnds(s)
  BY <1>4, <1>6, <1>7
<1>9. Extends(t, s)
  BY <1>1 DEF Extends
<1>. QED
  BY <1>1, <1>8, <1>9 DEF t

LEMMA PlainLines ==
  ASSUME NEW C, NEW s \in Seq(C), NEW c \in C, c \notin {LineFeed, CarriageReturn}
  PROVE  Lines(Append(s, c)) = Lines(s) /\ Begin(Append(s, c), Len(s) + 2) = Begin(s, Len(s) + 1)
<1>. DEFINE t == Append(s, c)
<1>1. t \in Seq(C) /\ Extends(t, s) /\ LineEnds(t) = LineEnds(s)
  BY PlainEnds
<1>. HIDE DEF t
<1>2. \A e \in LineEnds(s) : LineTo(t, e) = LineTo(s, e)
  BY <1>1, LineToSame
<1>3. Lines(t) = Lines(s)
  BY <1>1, <1>2, LinesByEnds
<1>4. {i \in LineEnds(t) : i < Len(s) + 2} = {i \in LineEnds(s) : i < Len(s) + 1}
  <2>1. \A i \in LineEnds(s) : i \in 1..Len(s) /\ Len(s) \in Nat
    BY DEF LineEnds
  <2>. QED
    BY <1>1, <2>1
<1>5. Begin(t, Len(s) + 2) = Begin(s, Len(s) + 1)
  BY <1>4 DEF Begin
<1>. QED
  BY <1>3, <1>5 DEF t

\* t goes on from s to the end of the line.  A \n after a \r would have been its pair.
EndsLine(t, s) ==
  /\ Extends(t, s)
  /\ \/ Len(t) = Len(s) + 1 /\ t[Len(t)] = CarriageReturn
     \/ Len(t) = Len(s) + 1 /\ t[Len(t)] = LineFeed /\ (Len(s) = 0 \/ s[Len(s)] # CarriageReturn)
     \/ Len(t) = Len(s) + 2 /\ t[Len(t) - 1] = CarriageReturn /\ t[Len(t)] = LineFeed

LEMMA FeedIsNoReturn == LineFeed # CarriageReturn
  BY DEF LineFeed, CarriageReturn

LEMMA EndMeans ==
  ASSUME NEW C, NEW s \in Seq(C), NEW i
  PROVE  i \in LineEnds(s) <=>
           /\ i \in 1..Len(s)
           /\ s[i] = LineFeed \/ (s[i] = CarriageReturn /\ (i = Len(s) \/ s[i + 1] # LineFeed))
<1>1. DOMAIN s = 1..Len(s)
  OBVIOUS
<1>. QED
  BY <1>1 DEF LineEnds

LEMMA EndedEnds ==
  ASSUME NEW C, NEW s \in Seq(C), NEW t \in Seq(C), EndsLine(t, s)
  PROVE  LineEnds(t) = LineEnds(s) \cup {Len(t)}
<1>. DEFINE n == Len(s)
            m == Len(t)
<1>1. n \in Nat /\ m \in Nat /\ (m = n + 1 \/ m = n + 2) /\ \A i \in 1..n : t[i] = s[i]
  BY DEF EndsLine, Extends
<1>2. /\ m = n + 1 => t[m] = CarriageReturn \/ (t[m] = LineFeed /\ (n = 0 \/ s[n] # CarriageReturn))
      /\ m = n + 2 => t[m - 1] = CarriageReturn /\ t[m] = LineFeed
  BY <1>1 DEF EndsLine
<1>. HIDE DEF n, m
<1>3. m \in LineEnds(t)
  <2>1. m \in 1..m /\ (t[m] = LineFeed \/ t[m] = CarriageReturn)
    BY <1>1, <1>2
  <2>. QED
    BY <2>1, EndMeans DEF m
<1>4. m = n + 2 => n + 1 \notin LineEnds(t)
  <2>1. m = n + 2 => t[n + 1] = CarriageReturn /\ n + 1 # m /\ t[n + 1 + 1] = LineFeed
    <3>1. m = n + 2 => m - 1 = n + 1 /\ n + 1 + 1 = m /\ n + 1 # m
      BY <1>1
    <3>. QED
      BY <1>2, <3>1
  <2>. QED
    BY <2>1, FeedIsNoReturn, EndMeans DEF m
<1>5. n \in 1..n /\ s[n] = CarriageReturn => t[n + 1] # LineFeed
  <2>1. m = n + 2 => t[n + 1] = CarriageReturn
    <3>1. m = n + 2 => m - 1 = n + 1
      BY <1>1
    <3>. QED
      BY <1>2, <3>1
  <2>2. n \in 1..n => n # 0
    BY <1>1
  <2>. QED
    BY <1>1, <1>2, <2>1, <2>2, FeedIsNoReturn
<1>6. \A i \in 1..n : i \in LineEnds(t) <=> i \in LineEnds(s)
  <2>. SUFFICES ASSUME NEW i \in 1..n PROVE i \in LineEnds(t) <=> i \in LineEnds(s)
    OBVIOUS
  <2>1. i \in 1..m /\ i # m /\ t[i] = s[i]
    BY <1>1
  <2>2. i \in LineEnds(t) <=> s[i] = LineFeed \/ (s[i] = CarriageReturn /\ t[i + 1] # LineFeed)
    BY <2>1, EndMeans DEF m
  <2>3. i \in LineEnds(s) <=> s[i] = LineFeed \/ (s[i] = CarriageReturn /\ (i = n \/ s[i + 1] # LineFeed))
    BY EndMeans DEF n
  <2>4. CASE i = n
    BY <1>5, <2>2, <2>3, <2>4
  <2>5. CASE i # n
    <3>1. i + 1 \in 1..n
      BY <1>1, <2>5
    <3>2. t[i + 1] = s[i + 1]
      BY <1>1, <3>1
    <3>. QED
      BY <2>2, <2>3, <2>5, <3>2
  <2>. QED
    BY <2>4, <2>5
<1>7. \A i \in LineEnds(t) : i \in 1..n \/ i = m
  <2>1. \A i \in 1..m : i \in 1..n \/ i = m \/ (m = n + 2 /\ i = n + 1)
    BY <1>1
  <2>. QED
    BY <1>4, <2>1, EndMeans DEF m
<1>8. \A i \in LineEnds(s) : i \in 1..n
  BY EndMeans DEF n
<1>. QED
  BY <1>3, <1>6, <1>7, <1>8 DEF m

LEMMA EndedLines ==
  ASSUME NEW C, NEW s \in Seq(C), NEW t \in Seq(C), EndsLine(t, s)
  PROVE  /\ Lines(t) = Lines(s) \cup {Unended(s)}
         /\ Begin(t, Len(t) + 1) = Len(t) + 1
<1>. DEFINE n == Len(s)
            B == Begin(s, n + 1)
<1>1. /\ n \in Nat /\ Len(t) \in {n + 1, n + 2} /\ Extends(t, s) /\ \A i \in 1..n : t[i] = s[i]
      /\ DOMAIN s = 1..n
  BY DEF EndsLine, Extends
<1>2. LineEnds(t) = LineEnds(s) \cup {Len(t)}
  BY EndedEnds
<1>3. LineEnds(s) \in SUBSET (1..n)
  BY <1>1 DEF LineEnds
<1>4. \A i \in 1..n : i \in LineEnds(s) <=> i \in LineEnds(t)
  BY <1>1, <1>2
<1>5. \A e \in LineEnds(s) : LineTo(t, e) = LineTo(s, e)
  BY <1>1, <1>4, LineToSame
<1>6. Begin(t, Len(t)) = B
  <2>1. {i \in LineEnds(t) : i < Len(t)} = {i \in LineEnds(s) : i < n + 1}
    BY <1>1, <1>2, <1>3
  <2>. QED
    BY <2>1 DEF Begin
<1>7. B \in 1..n + 1
  BY BeginIs
<1>8. (IF Pair(t, Len(t)) THEN Len(t) - 2 ELSE Len(t) - 1) = n
  <2>. HIDE DEF B
  <2>1. CASE Len(t) = n + 1
    <3>1. Pair(t, Len(t)) => t[Len(t)] = LineFeed /\ n >= 1 /\ t[n] = CarriageReturn
      BY <1>1, <1>6, <1>7, <2>1 DEF Pair
    <3>2. ~Pair(t, Len(t))
      BY <1>1, <2>1, <3>1, FeedIsNoReturn DEF EndsLine
    <3>. QED
      BY <1>1, <2>1, <3>2
  <2>2. CASE Len(t) = n + 2
    <3>1. Pair(t, Len(t))
      BY <1>1, <1>6, <1>7, <2>2 DEF Pair, EndsLine
    <3>. QED
      BY <1>1, <2>2, <3>1
  <2>. QED
    BY <1>1, <2>1, <2>2
<1>9. LineTo(t, Len(t)) = Unended(s)
  <2>1. LineTo(t, Len(t)) = Line(t, B, n)
    BY <1>6, <1>8 DEF LineTo
  <2>2. Line(t, B, n) = Line(s, B, n)
    <3>1. B \in Nat \ {0} /\ B <= n + 1 /\ \A i \in B..n : t[i] = s[i]
      BY <1>1, <1>7
    <3>. QED
      BY <1>1, <3>1, LineSame
  <2>. QED
    BY <2>1, <2>2 DEF Unended
<1>10. Lines(t) = Lines(s) \cup {Unended(s)}
  BY <1>2, <1>5, <1>9, LinesByEnds
<1>11. Begin(t, Len(t) + 1) = Len(t) + 1
  <2>1. /\ {0} \cup {i \in LineEnds(t) : i < Len(t) + 1} \in SUBSET Int
        /\ Len(t) \in {0} \cup {i \in LineEnds(t) : i < Len(t) + 1}
        /\ \A i \in {0} \cup {i \in LineEnds(t) : i < Len(t) + 1} : Len(t) >= i
    BY <1>1, <1>2, <1>3
  <2>. QED
    BY <2>1, GreatestIs DEF Begin
<1>. QED
  BY <1>10, <1>11

----------------------------------------------------------------------------
(* What lines say.                                                         *)

AllPlaced(lines, n) == \A l \in lines : Placed(l, n)

\* The lines that are counted, and the places they have values at.
Latest(lines) == {l \in lines : \A m \in lines : m.first <= l.first}
Values(lines) == UNION {l.value : l \in lines}
Joints(lines) == {l.first : l \in {l \in lines : \E m \in lines : m.first < l.first}}
JoinedText(s, lines) == [i \in DOMAIN s |-> IF i \in Joints(lines) THEN LineFeed ELSE s[i]]

LEMMA LastValueMeans ==
  ASSUME NEW s, NEW lines
  PROVE  LastValue(s, lines) = TextAt(s, Values(Latest(lines)))
  BY DEF LastValue, Latest, Values

LEMMA DataMeans ==
  ASSUME NEW s, NEW lines
  PROVE  Data(s, lines) = TextAt(JoinedText(s, lines), Joints(lines) \cup Values(lines))
  BY DEF Data, JoinedText, Joints, Values

LEMMA PlacesIn ==
  ASSUME NEW n \in Nat, NEW K, AllPlaced(K, n), \A l \in K : l.first <= n
  PROVE  /\ Values(K) \in SUBSET (1..n) /\ Values(Latest(K)) \in SUBSET (1..n)
         /\ Joints(K) \in SUBSET (1..n)
<1>1. \A l \in K : l.first \in 1..n /\ \A i \in l.value : i \in 1..n
  BY DEF AllPlaced, Placed
<1>. QED
  BY <1>1 DEF Values, Latest, Joints

LEMMA LastValueSame ==
  ASSUME NEW C, NEW s \in Seq(C), NEW t, Extends(t, s),
         NEW K, AllPlaced(K, Len(s)), \A l \in K : l.first <= Len(s)
  PROVE  LastValue(t, K) = LastValue(s, K)
<1>1. Len(s) \in Nat
  OBVIOUS
<1>2. Values(Latest(K)) \in SUBSET (1..Len(s))
  BY <1>1, PlacesIn
<1>3. \A i \in Values(Latest(K)) : t[i] = s[i]
  BY <1>2 DEF Extends
<1>. QED
  BY <1>1, <1>2, <1>3, TextSame, LastValueMeans

LEMMA JoinedIs ==
  ASSUME NEW C, NEW s \in Seq(C), NEW K, LineFeed \in C
  PROVE  /\ JoinedText(s, K) \in Seq(C) /\ Len(JoinedText(s, K)) = Len(s)
         /\ \A i \in 1..Len(s) : JoinedText(s, K)[i] = IF i \in Joints(K) THEN LineFeed ELSE s[i]
<1>1. DOMAIN s = 1..Len(s) /\ Len(s) \in Nat /\ \A i \in 1..Len(s) : s[i] \in C
  OBVIOUS
<1>. DEFINE t == [i \in 1..Len(s) |-> IF i \in Joints(K) THEN LineFeed ELSE s[i]]
<1>2. \A i \in 1..Len(s) : (IF i \in Joints(K) THEN LineFeed ELSE s[i]) \in C
  BY <1>1
<1>3. JoinedText(s, K) = t
  BY <1>1 DEF JoinedText
<1>4. t \in Seq(C) /\ Len(t) = Len(s)
  BY <1>1, <1>2
<1>. QED
  BY <1>3, <1>4

LEMMA DataSame ==
  ASSUME NEW C, LineFeed \in C, NEW s \in Seq(C), NEW t \in Seq(C), Extends(t, s),
         NEW K, AllPlaced(K, Len(s)), \A l \in K : l.first <= Len(s)
  PROVE  Data(t, K) = Data(s, K)
<1>. DEFINE P == Joints(K) \cup Values(K)
<1>1. Len(s) \in Nat /\ Len(t) \in Nat /\ Len(s) <= Len(t) /\ \A i \in 1..Len(s) : t[i] = s[i]
  BY DEF Extends
<1>2. P \in SUBSET (1..Len(s))
  BY <1>1, PlacesIn
<1>3. ASSUME NEW i \in 1..Len(s)
      PROVE  JoinedText(t, K)[i] = JoinedText(s, K)[i]
  <2>1. i \in 1..Len(t) /\ t[i] = s[i]
    BY <1>1
  <2>2. JoinedText(s, K)[i] = IF i \in Joints(K) THEN LineFeed ELSE s[i]
    BY JoinedIs
  <2>3. JoinedText(t, K)[i] = IF i \in Joints(K) THEN LineFeed ELSE t[i]
    BY <2>1, JoinedIs
  <2>. QED
    BY <2>1, <2>2, <2>3
<1>4. \A i \in P : JoinedText(t, K)[i] = JoinedText(s, K)[i]
  BY <1>2, <1>3
<1>. HIDE DEF P
<1>5. TextAt(JoinedText(t, K), P) = TextAt(JoinedText(s, K), P)
  BY <1>1, <1>2, <1>4, TextSame
<1>. QED
  BY <1>5, DataMeans DEF P

LEMMA IdentifyingSame ==
  ASSUME NEW s, NEW t, Extends(t, s), NEW K, AllPlaced(K, Len(s)), Len(s) \in Nat
  PROVE  Identifying(t, K) = Identifying(s, K)
<1>1. \A l \in K : \A i \in l.value : t[i] = s[i]
  BY DEF AllPlaced, Placed, Extends
<1>. QED
  BY <1>1 DEF Identifying, Named

LinesBefore(lines, place) == {l \in lines : l.first < place}

\* A line that follows says nothing about the events before it.
LEMMA SinceOlder ==
  ASSUME NEW K, NEW u, NEW f \in Int, u.first \in Int, u.first >= f
  PROVE  /\ Since(K \cup {u}, f) = Since(K, f)
         /\ LinesBefore(K \cup {u}, f) = LinesBefore(K, f)
<1>1. ~(u.first < f)
  OBVIOUS
<1>. QED
  BY <1>1 DEF Since, LinesBefore

LEMMA EventSame ==
  ASSUME NEW C, LineFeed \in C, NEW s \in Seq(C), NEW t \in Seq(C), Extends(t, s),
         NEW f \in Int, NEW K, AllPlaced(K, Len(s)), \A l \in K : l.first <= Len(s),
         NEW L, Since(L, f) = Since(K, f), LinesBefore(L, f) = LinesBefore(K, f)
  PROVE  Event(t, L, f) = Event(s, K, f)
<1>. DEFINE A == LinesBefore(K, f)
            R == Since(K, f)
<1>1. A \subseteq K /\ R \subseteq K
  BY DEF Since, LinesBefore
<1>. HIDE DEF A, R
<1>2. \A N : N \subseteq K => AllPlaced(N, Len(s)) /\ \A l \in N : l.first <= Len(s)
  BY DEF AllPlaced
<1>3. Identifying(t, A) = Identifying(s, A) /\ Identifying(s, A) \subseteq K
  <2>1. Len(s) \in Nat
    OBVIOUS
  <2>2. Identifying(s, A) \subseteq A
    BY DEF Identifying, Named
  <2>. QED
    BY <1>1, <1>2, <2>1, <2>2, IdentifyingSame
<1>4. Named(R, "event") \subseteq K /\ Named(R, "data") \subseteq K
  BY <1>1 DEF Named
<1>5. LastValue(t, Identifying(t, A)) = LastValue(s, Identifying(s, A))
  BY <1>2, <1>3, LastValueSame
<1>6. LastValue(t, Named(R, "event")) = LastValue(s, Named(R, "event"))
  BY <1>2, <1>4, LastValueSame
<1>7. Data(t, Named(R, "data")) = Data(s, Named(R, "data"))
  BY <1>2, <1>4, DataSame
<1>. QED
  BY <1>5, <1>6, <1>7 DEF Event, LinesBefore, A, R

----------------------------------------------------------------------------
(* The events of a text that goes on.                                      *)

LEMMA EventsLength ==
  ASSUME NEW C, NEW s \in Seq(C)
  PROVE  /\ EventEnds(Lines(s)) \in SUBSET (1..Len(s))
         /\ \A f \in EventEnds(Lines(s)) : f < Begin(s, Len(s) + 1)
         /\ Cardinality(EventEnds(Lines(s))) \in Nat
         /\ Len(Events(s)) = Cardinality(EventEnds(Lines(s)))
         /\ Events(s) \in Seq({Event(s, Lines(s), f) : f \in EventEnds(Lines(s))})
<1>. DEFINE E == EventEnds(Lines(s))
            c == Cardinality(E)
<1>1. \A l \in Lines(s) : l.first \in 1..Len(s) /\ l.first < Begin(s, Len(s) + 1)
  <2>1. \A l \in Lines(s) : Placed(l, Len(s)) /\ l.first <= Len(s) /\ l.first < Begin(s, Len(s) + 1)
    BY LinesPlaced
  <2>. QED
    BY <2>1 DEF Placed
<1>2. E \in SUBSET (1..Len(s)) /\ \A f \in E : f < Begin(s, Len(s) + 1)
  BY <1>1 DEF EventEnds
<1>3. Len(s) \in Nat /\ c \in Nat
  <2>1. Len(s) \in Nat
    OBVIOUS
  <2>. HIDE DEF E
  <2>. QED
    BY <1>2, <2>1, PlacesFinite
<1>4. \A k \in 1..c : Nth(E, k) \in E
  BY <1>2, <1>3, NthIs
<1>5. Events(s) = [k \in 1..c |-> Event(s, Lines(s), Nth(E, k))]
  BY DEF Events
<1>. HIDE DEF E, c
<1>6. /\ Events(s) \in Seq({Event(s, Lines(s), f) : f \in E})
      /\ Len(Events(s)) = c
  BY <1>3, <1>4, <1>5
<1>. QED
  BY <1>2, <1>3, <1>6 DEF E, c

LEMMA EventsKept ==
  ASSUME NEW C, NEW s \in Seq(C), NEW t \in Seq(C),
         EventEnds(Lines(t)) = EventEnds(Lines(s)),
         \A f \in EventEnds(Lines(s)) : Event(t, Lines(t), f) = Event(s, Lines(s), f)
  PROVE  Events(t) = Events(s)
<1>. DEFINE E == EventEnds(Lines(s))
<1>1. \A k \in 1..Cardinality(E) : Nth(E, k) \in E
  <2>1. E \in SUBSET (1..Len(s))
    BY EventsLength
  <2>2. Len(s) \in Nat
    OBVIOUS
  <2>. HIDE DEF E
  <2>. QED
    BY <2>1, <2>2, NthIs
<1>. QED
  BY <1>1 DEF Events

LEMMA EventsAdded ==
  ASSUME NEW C, NEW s \in Seq(C), NEW t \in Seq(C), NEW b \in 1..Len(t), NEW event,
         EventEnds(Lines(t)) = EventEnds(Lines(s)) \cup {b},
         \A f \in EventEnds(Lines(s)) : f < b /\ f \in 1..Len(t),
         \A f \in EventEnds(Lines(s)) : Event(t, Lines(t), f) = Event(s, Lines(s), f),
         Event(t, Lines(t), b) = event
  PROVE  Events(t) = Append(Events(s), event)
<1>. DEFINE E == EventEnds(Lines(s))
            F == E \cup {b}
            c == Cardinality(E)
<1>1. /\ c \in Nat /\ Len(Events(s)) = c /\ E \in SUBSET (1..Len(s)) /\ Len(s) \in Nat /\ Len(t) \in Nat
      /\ E \in SUBSET (1..Len(t))
  <2>1. c \in Nat /\ Len(Events(s)) = c /\ E \in SUBSET (1..Len(s))
    BY EventsLength
  <2>2. Len(s) \in Nat /\ Len(t) \in Nat /\ E \in SUBSET (1..Len(t))
    OBVIOUS
  <2>. QED
    BY <2>1, <2>2
<1>2. PICK D : Events(s) \in Seq(D) /\ event \in D
  <2>1. PICK D : Events(s) \in Seq(D)
    BY EventsLength
  <2>2. Events(s) \in Seq(D \cup {event})
    BY <2>1
  <2>. QED
    BY <2>2
<1>3. \A f \in E : f < b
  OBVIOUS
<1>4. Cardinality(F) = c + 1 /\ (\A k \in 1..c : Nth(F, k) = Nth(E, k)) /\ Nth(F, c + 1) = b
  <2>. HIDE DEF E
  <2>1. AddsLast(Len(t), E, F, b)
    BY <1>1, <1>3 DEF AddsLast
  <2>. HIDE DEF F
  <2>2. RanksGoOn(E, F, b, c)
    BY <2>1, NthAdd
  <2>. HIDE DEF c
  <2>. QED
    BY <2>2 DEF RanksGoOn
<1>5. \A k \in 1..c : Nth(E, k) \in E
  BY <1>1, NthIs
<1>6. Events(s) = [k \in 1..c |-> Event(s, Lines(s), Nth(E, k))]
  BY DEF Events
<1>7. Events(t) = [k \in 1..c + 1 |-> Event(t, Lines(t), Nth(F, k))]
  BY <1>4 DEF Events
<1>. HIDE DEF E, F, c
<1>8. \A k \in 1..c : Events(s)[k] = Event(t, Lines(t), Nth(F, k))
  <2>1. \A f \in E : Event(t, Lines(t), f) = Event(s, Lines(s), f)
    BY DEF E
  <2>. QED
    BY <1>4, <1>5, <1>6, <2>1
<1>9. Events(t)[c + 1] = event /\ \A k \in 1..c : Events(t)[k] = Events(s)[k]
  BY <1>1, <1>4, <1>7, <1>8
<1>10. Events(t) \in [1..c + 1 -> D]
  <2>1. \A k \in 1..c + 1 : k = c + 1 \/ k \in 1..c
    BY <1>1
  <2>2. \A k \in 1..c : Events(s)[k] \in D
    BY <1>1, <1>2
  <2>3. \A k \in 1..c + 1 : Events(t)[k] \in D
    BY <1>2, <1>9, <2>1, <2>2
  <2>. QED
    BY <1>7, <2>3
<1>. QED
  BY <1>1, <1>2, <1>9, <1>10, AppendIs

LEMMA EventsPlain ==
  ASSUME NEW C, LineFeed \in C, NEW s \in Seq(C), NEW c \in C, c \notin {LineFeed, CarriageReturn}
  PROVE  Events(Append(s, c)) = Events(s)
<1>. DEFINE t == Append(s, c)
<1>1. t \in Seq(C) /\ Extends(t, s) /\ Lines(t) = Lines(s)
  BY PlainEnds, PlainLines
<1>. HIDE DEF t
<1>2. AllPlaced(Lines(s), Len(s)) /\ \A l \in Lines(s) : l.first <= Len(s)
  BY LinesPlaced DEF AllPlaced
<1>3. \A f \in EventEnds(Lines(s)) : f \in Int
  <2>1. \A f \in EventEnds(Lines(s)) : f \in 1..Len(s)
    BY EventsLength
  <2>. QED
    BY <2>1
<1>4. \A f \in EventEnds(Lines(s)) : Event(t, Lines(t), f) = Event(s, Lines(s), f)
  BY <1>1, <1>2, <1>3, EventSame
<1>5. Events(t) = Events(s)
  BY <1>1, <1>4, EventsKept
<1>. QED
  BY <1>5 DEF t

\* The lines of the event that is going on.
Recent(s) == Since(Lines(s), Begin(s, Len(s) + 1))
Due(s) == Blank(Unended(s)) /\ Named(Recent(s), "data") # {}

LEMMA EndedEvents ==
  ASSUME NEW C, LineFeed \in C, NEW s \in Seq(C), NEW t \in Seq(C), EndsLine(t, s)
  PROVE  /\ EventEnds(Lines(t)) = EventEnds(Lines(s)) \cup (IF Due(s) THEN {Unended(s).first} ELSE {})
         /\ \A f \in EventEnds(Lines(s)) \cup {Unended(s).first} :
              Event(t, Lines(t), f) = Event(s, Lines(s), f)
<1>. DEFINE u == Unended(s)
<1>1. Lines(t) = Lines(s) \cup {u} /\ Extends(t, s)
  BY EndedLines DEF EndsLine
<1>2. /\ AllPlaced(Lines(s), Len(s))
      /\ \A l \in Lines(s) : l.first <= Len(s) /\ l.first < u.first /\ l.first \in Int
  BY LinesPlaced, UnendedPlaced DEF AllPlaced, Placed
<1>3. u.first = Begin(s, Len(s) + 1) /\ u.first \in Int
  BY UnendedPlaced, BeginIs
<1>. HIDE DEF u
<1>4. ASSUME NEW f \in Int, f <= u.first
      PROVE  /\ Since(Lines(t), f) = Since(Lines(s), f)
             /\ LinesBefore(Lines(t), f) = LinesBefore(Lines(s), f)
  <2>1. u.first \in Int /\ u.first >= f
    BY <1>3, <1>4
  <2>2. Since(Lines(s) \cup {u}, f) = Since(Lines(s), f) /\ LinesBefore(Lines(s) \cup {u}, f) = LinesBefore(Lines(s), f)
    BY <2>1, SinceOlder
  <2>. QED
    BY <1>1, <2>2
<1>5. \A l \in Lines(s) : l.first <= u.first /\ l.first \in Int
  BY <1>2, <1>3
<1>6. EventEnds(Lines(t)) = EventEnds(Lines(s)) \cup (IF Due(s) THEN {u.first} ELSE {})
  <2>1. \A l \in Lines(s) : Since(Lines(t), l.first) = Since(Lines(s), l.first)
    BY <1>4, <1>5
  <2>2. Since(Lines(t), u.first) = Recent(s)
    BY <1>3, <1>4 DEF Recent
  <2>. QED
    BY <1>1, <2>1, <2>2 DEF EventEnds, Due, u
<1>7. \A f \in EventEnds(Lines(s)) : f \in Int /\ f <= u.first
  BY <1>5 DEF EventEnds
<1>8. \A f \in EventEnds(Lines(s)) \cup {u.first} : f \in Int /\ f <= u.first
  BY <1>3, <1>7
<1>9. \A f \in EventEnds(Lines(s)) \cup {u.first} : Event(t, Lines(t), f) = Event(s, Lines(s), f)
  <2>. SUFFICES ASSUME NEW f \in EventEnds(Lines(s)) \cup {u.first}
                PROVE  Event(t, Lines(t), f) = Event(s, Lines(s), f)
    OBVIOUS
  <2>1. f \in Int /\ f <= u.first
    BY <1>8
  <2>2. \A l \in Lines(s) : l.first <= Len(s)
    BY <1>2
  <2>3. Since(Lines(t), f) = Since(Lines(s), f) /\ LinesBefore(Lines(t), f) = LinesBefore(Lines(s), f)
    BY <1>4, <2>1
  <2>. QED
    BY <1>1, <1>2, <2>1, <2>2, <2>3, EventSame
<1>. QED
  BY <1>6, <1>9 DEF u

\* A line that ends nothing but itself, and a blank one after data.
LEMMA EventsEnded ==
  ASSUME NEW C, LineFeed \in C, NEW s \in Seq(C), NEW t \in Seq(C), EndsLine(t, s)
  PROVE  Events(t) = IF Due(s) THEN Append(Events(s), Event(s, Lines(s), Unended(s).first)) ELSE Events(s)
<1>. DEFINE b == Unended(s).first
<1>1. CASE Due(s)
  <2>1. EventEnds(Lines(t)) = EventEnds(Lines(s)) \cup {b}
    BY <1>1, EndedEvents
  <2>2. \A f \in EventEnds(Lines(s)) \cup {b} : Event(t, Lines(t), f) = Event(s, Lines(s), f)
    BY EndedEvents
  <2>3. b \in 1..Len(t) /\ Len(s) <= Len(t)
    <3>1. b = Begin(s, Len(s) + 1) /\ Begin(s, Len(s) + 1) \in 1..Len(s) + 1
      BY UnendedPlaced, BeginIs
    <3>. QED
      BY <3>1 DEF EndsLine
  <2>4. \A f \in EventEnds(Lines(s)) : f < b /\ f \in 1..Len(t)
    <3>1. \A f \in EventEnds(Lines(s)) : f < b /\ f \in 1..Len(s)
      BY EventsLength, UnendedPlaced
    <3>. QED
      BY <2>3, <3>1
  <2>. HIDE DEF b
  <2>5. Events(t) = Append(Events(s), Event(s, Lines(s), b))
    BY <2>1, <2>2, <2>3, <2>4, EventsAdded
  <2>. QED
    BY <1>1, <2>5 DEF b
<1>2. CASE ~Due(s)
  <2>1. EventEnds(Lines(t)) = EventEnds(Lines(s))
    BY <1>2, EndedEvents
  <2>2. \A f \in EventEnds(Lines(s)) : Event(t, Lines(t), f) = Event(s, Lines(s), f)
    BY EndedEvents
  <2>. QED
    BY <1>2, <2>1, <2>2, EventsKept
<1>. QED
  BY <1>1, <1>2

----------------------------------------------------------------------------
(* The line that comes last among some.                                    *)

ComesAfter(u, lines) == \A l \in lines : l.first < u.first /\ l.first \in Int

LEMMA LatestIs ==
  ASSUME NEW K, NEW u, ComesAfter(u, K), u.first \in Int
  PROVE  Latest(K \cup {u}) = {u}
<1>1. \A l \in K : ~(u.first <= l.first)
  BY DEF ComesAfter
<1>2. \A l \in K \cup {u} : l.first <= u.first
  BY DEF ComesAfter
<1>. QED
  BY <1>1, <1>2 DEF Latest

LEMMA LastValueIs ==
  ASSUME NEW s, NEW K, NEW u, ComesAfter(u, K), u.first \in Int
  PROVE  LastValue(s, K \cup {u}) = TextAt(s, u.value)
<1>1. Values({u}) = u.value
  BY DEF Values
<1>. QED
  BY <1>1, LatestIs, LastValueMeans

LEMMA LastValueOfNone ==
  ASSUME NEW s
  PROVE  LastValue(s, {}) = <<>> /\ Data(s, {}) = <<>>
<1>1. Latest({}) = {} /\ Values({}) = {} /\ Joints({}) = {}
  BY DEF Latest, Values, Joints
<1>. QED
  BY <1>1, LastValueMeans, DataMeans, TextOfNone

\* A line with no value yet that is to have some data: the line feed after the others' data.
LEMMA DataOpened ==
  ASSUME NEW C, LineFeed \in C, NEW s \in Seq(C), NEW K, AllPlaced(K, Len(s)),
         NEW u, u.first \in 1..Len(s), u.value = {}, \A l \in K : l.first < u.first /\ l.last < u.first
  PROVE  /\ Data(s, K) \in Seq(C)
         /\ Data(s, K \cup {u}) = IF K = {} THEN <<>> ELSE Append(Data(s, K), LineFeed)
<1>. DEFINE P == Joints(K) \cup Values(K)
            L == K \cup {u}
            m == u.first
            old == JoinedText(s, K)
            new == JoinedText(s, L)
<1>1. /\ \A l \in K : l.first \in 1..Len(s) /\ l.first < m
      /\ \A l \in K : \A i \in l.value : i \in 1..Len(s) /\ i < m
      /\ m \in 1..Len(s) /\ Len(s) \in Nat
  BY DEF AllPlaced, Placed
<1>2. Values(L) = Values(K)
  BY DEF Values
<1>3. Joints(L) = Joints(K) \cup (IF K # {} THEN {m} ELSE {})
  <2>1. \A l \in K : ~(m < l.first)
    BY <1>1
  <2>2. \A l \in K : (\E k \in L : k.first < l.first) <=> (\E k \in K : k.first < l.first)
    BY <2>1
  <2>3. (\E k \in L : k.first < u.first) <=> K # {}
    BY <1>1
  <2>. QED
    BY <2>2, <2>3 DEF Joints
<1>4. P \in SUBSET (1..Len(s)) /\ \A i \in P : i < m
  BY <1>1 DEF Joints, Values
<1>5. /\ old \in Seq(C) /\ Len(old) = Len(s)
      /\ \A i \in 1..Len(s) : old[i] = IF i \in Joints(K) THEN LineFeed ELSE s[i]
  BY JoinedIs
<1>6. Data(s, K) = TextAt(old, P)
  BY DataMeans
<1>7. Data(s, K) \in Seq(C)
  <2>. HIDE DEF P, old
  <2>. QED
    BY <1>4, <1>5, <1>6, TextType
<1>8. CASE K = {}
  <2>1. Joints(L) = {} /\ Values(L) = {}
    BY <1>2, <1>3, <1>8 DEF Joints, Values
  <2>. QED
    BY <1>7, <1>8, <2>1, DataMeans, TextOfNone
<1>9. CASE K # {}
  <2>1. Joints(L) = Joints(K) \cup {m}
    BY <1>3, <1>9
  <2>2. \A i \in P : i # m
    BY <1>1, <1>4
  <2>3. Joints(L) \cup Values(L) = P \cup {m}
    BY <1>2, <2>1
  <2>4. /\ new \in Seq(C) /\ Len(new) = Len(s)
        /\ \A i \in 1..Len(s) : new[i] = IF i \in Joints(L) THEN LineFeed ELSE s[i]
    BY JoinedIs
  <2>5. Data(s, L) = TextAt(new, P \cup {m})
    BY <2>3, DataMeans
  <2>. HIDE DEF P, m, L, old, new
  <2>6. new[m] = LineFeed
    BY <1>1, <2>1, <2>4
  <2>7. \A i \in P : new[i] = old[i]
    BY <1>4, <1>5, <2>1, <2>2, <2>4
  <2>8. P \in SUBSET (1..Len(old)) /\ m \in 1..Len(new) /\ Len(old) <= Len(new)
    BY <1>1, <1>4, <1>5, <2>4
  <2>9. Adds(C, old, new, P, m)
    BY <1>4, <1>5, <2>4, <2>7, <2>8 DEF Adds
  <2>10. TextAt(new, P \cup {m}) = Append(TextAt(old, P), new[m])
    BY <2>9, TextAdd
  <2>. QED
    BY <1>6, <1>7, <1>9, <2>5, <2>6, <2>10 DEF L
<1>. QED
  BY <1>8, <1>9

\* A line after others, whose value goes on.
Grown(v, u, n) == v.first = u.first /\ u.first \in 1..n /\ v.value = u.value \cup {n + 1}
ValueMore(v, u, K, n) == Placed(u, n) /\ Grown(v, u, n) /\ AllPlaced(K, n) /\ ComesAfter(u, K)

OneLonger(C, t, s, c) ==
  /\ s \in Seq(C) /\ t \in Seq(C) /\ Len(t) = Len(s) + 1
  /\ t[Len(s) + 1] = c /\ \A i \in 1..Len(s) : t[i] = s[i]

LEMMA OneLongerIs ==
  ASSUME NEW C, NEW s \in Seq(C), NEW c \in C
  PROVE  OneLonger(C, Append(s, c), s, c)
  BY DEF OneLonger

LEMMA OneLongerMeans ==
  ASSUME NEW C, NEW c \in C, NEW s, NEW t, OneLonger(C, t, s, c)
  PROVE  t = Append(s, c)
<1>. DEFINE n == Len(s)
<1>1. n \in Nat /\ s \in Seq(C) /\ t \in Seq(C) /\ Len(t) = n + 1 /\ t[n + 1] = c /\ \A i \in 1..n : t[i] = s[i]
  BY DEF OneLonger
<1>2. t \in [1..n + 1 -> C]
  BY <1>1
<1>3. Len(s) = n
  OBVIOUS
<1>. HIDE DEF n
<1>. QED
  BY <1>1, <1>2, <1>3, AppendIs

LEMMA DataGrown ==
  ASSUME NEW C, LineFeed \in C, NEW s, NEW c \in C, NEW t, OneLonger(C, t, s, c), NEW K,
         NEW u, NEW v, ValueMore(v, u, K, Len(s))
  PROVE  OneLonger(C, Data(t, K \cup {v}), Data(s, K \cup {u}), c)
<1>. DEFINE m == Len(s) + 1
            P == Joints(K \cup {u}) \cup Values(K \cup {u})
<1>0. s \in Seq(C) /\ t \in Seq(C) /\ Len(s) \in Nat
  BY DEF OneLonger
<1>1. /\ \A l \in K : l.first \in 1..Len(s) /\ l.first < u.first
      /\ \A l \in K : \A i \in l.value : i \in 1..Len(s)
      /\ u.first \in 1..Len(s) /\ u.value \in SUBSET (1..Len(s)) /\ Len(s) \in Nat
  BY <1>0 DEF AllPlaced, Placed, Grown, ComesAfter, ValueMore
<1>2. /\ t \in Seq(C) /\ Len(t) = m /\ t[m] = c /\ \A i \in 1..Len(s) : t[i] = s[i]
      /\ m \in 1..Len(t) /\ m \notin 1..Len(s) /\ Len(s) <= Len(t) /\ \A i \in 1..Len(s) : i < m /\ i \in 1..Len(t)
  BY DEF OneLonger
<1>. HIDE DEF m
<1>3. Values(K \cup {v}) = Values(K \cup {u}) \cup {m}
  BY DEF Values, Grown, ValueMore, m
<1>4. Joints(K \cup {v}) = Joints(K \cup {u})
  <2>1. v.first = u.first /\ ~(u.first < u.first) /\ \A l \in K : ~(u.first < l.first)
    BY <1>1 DEF Grown, ValueMore
  <2>2. ASSUME NEW l, ~(u.first < l.first)
        PROVE  (\E k \in K \cup {u} : k.first < l.first) <=> (\E k \in K \cup {v} : k.first < l.first)
    BY <2>1, <2>2
  <2>. QED
    BY <2>1, <2>2 DEF Joints
<1>5. P \in SUBSET (1..Len(s)) /\ Joints(K \cup {u}) \in SUBSET (1..Len(s))
  BY <1>1 DEF Joints, Values
<1>. DEFINE old == JoinedText(s, K \cup {u})
            new == JoinedText(t, K \cup {v})
<1>6. /\ old \in Seq(C) /\ Len(old) = Len(s)
      /\ \A i \in 1..Len(s) : old[i] = IF i \in Joints(K \cup {u}) THEN LineFeed ELSE s[i]
  BY <1>0, JoinedIs
<1>7. /\ new \in Seq(C) /\ Len(new) = Len(t)
      /\ \A i \in 1..Len(t) : new[i] = IF i \in Joints(K \cup {v}) THEN LineFeed ELSE t[i]
  BY <1>0, JoinedIs
<1>8. Data(s, K \cup {u}) = TextAt(old, P) /\ Data(t, K \cup {v}) = TextAt(new, P \cup {m})
  <2>1. Joints(K \cup {v}) \cup Values(K \cup {v}) = P \cup {m}
    BY <1>3, <1>4
  <2>. QED
    BY <2>1, DataMeans
<1>9. \A i \in P : i < m
  BY <1>2, <1>5
<1>. HIDE DEF P, old, new
<1>10. new[m] = c
  BY <1>2, <1>4, <1>5, <1>7
<1>11. \A i \in P : new[i] = old[i]
  BY <1>2, <1>4, <1>5, <1>6, <1>7
<1>12. P \in SUBSET (1..Len(old)) /\ m \in 1..Len(new) /\ Len(old) <= Len(new)
  BY <1>2, <1>5, <1>6, <1>7
<1>13. TextAt(new, P \cup {m}) = Append(TextAt(old, P), new[m])
  <2>1. Adds(C, old, new, P, m)
    BY <1>6, <1>7, <1>9, <1>11, <1>12 DEF Adds
  <2>. QED
    BY <2>1, TextAdd
<1>14. TextAt(old, P) \in Seq(C)
  BY <1>6, <1>12, TextType
<1>15. OneLonger(C, TextAt(new, P \cup {m}), TextAt(old, P), c)
  BY <1>10, <1>13, <1>14, OneLongerIs
<1>. QED
  BY <1>8, <1>15

----------------------------------------------------------------------------
(* The unended line of a text that goes on.                                *)

\* Where its name ends.
Middle(s) == Colon(s, Begin(s, Len(s) + 1), Len(s))

LEMMA UnendedMeans ==
  ASSUME NEW C, NEW s \in Seq(C)
  PROVE  /\ Middle(s) \in Unended(s).first..Len(s) + 1
         /\ Unended(s).name = TextAt(s, Unended(s).first..Middle(s) - 1)
         /\ Unended(s).value = {i \in Middle(s) + 1..Len(s) : i = Middle(s) + 1 => s[i] # Space}
<1>1. Len(s) \in Nat /\ Begin(s, Len(s) + 1) \in 1..Len(s) + 1
  BY BeginIs
<1>2. Unended(s).first = Begin(s, Len(s) + 1)
  BY UnendedPlaced
<1>3. Middle(s) \in Unended(s).first..Len(s) + 1
  <2>. DEFINE b == Begin(s, Len(s) + 1)
  <2>1. b \in Nat \ {0} /\ b <= Len(s) + 1
    BY <1>1
  <2>. HIDE DEF b
  <2>2. Colon(s, b, Len(s)) \in b..Len(s) + 1
    BY <1>1, <2>1, ColonType
  <2>. QED
    BY <1>2, <2>2 DEF Middle, b
<1>. QED
  BY <1>2, <1>3 DEF Unended, Line, Middle

LEMMA NoValueYet ==
  ASSUME NEW C, NEW s \in Seq(C), Middle(s) >= Len(s)
  PROVE  Unended(s).value = {}
<1>1. Middle(s) \in Int /\ Len(s) \in Int
  <2>1. Middle(s) \in Unended(s).first..Len(s) + 1
    BY UnendedMeans
  <2>2. Unended(s).first \in 1..Len(s) + 1
    BY UnendedPlaced DEF Placed
  <2>. QED
    BY <2>1, <2>2
<1>2. \A i \in Middle(s) + 1..Len(s) : FALSE
  BY <1>1
<1>3. \A i \in Unended(s).value : i \in Middle(s) + 1..Len(s)
  BY UnendedMeans
<1>. QED
  BY <1>2, <1>3

\* A character stands in the text at some places if one of them has it.
LEMMA TextHas ==
  ASSUME NEW n \in Nat, NEW P \in SUBSET (1..n), NEW s, NEW x
  PROVE  x \in ToSet(TextAt(s, P)) <=> \E i \in P : s[i] = x
<1>1. \A k \in 1..Cardinality(P) : Nth(P, k) \in P
  BY NthIs
<1>2. ASSUME NEW i \in P
      PROVE  \E k \in 1..Cardinality(P) : Nth(P, k) = i
  <2>. DEFINE k == Cardinality(UpTo(P, i))
  <2>1. k \in 1..Cardinality(P)
    BY RankBounds
  <2>2. Nth(P, k) \in P /\ Cardinality(UpTo(P, Nth(P, k))) = k
    BY <2>1, NthIs
  <2>3. Nth(P, k) = i
    BY <2>2, RankUnique
  <2>. QED
    BY <2>1, <2>3
<1>. DEFINE q == TextAt(s, P)
<1>3. DOMAIN q = 1..Cardinality(P) /\ \A k \in 1..Cardinality(P) : q[k] = s[Nth(P, k)]
  BY DEF TextAt
<1>. HIDE DEF q
<1>4. x \in ToSet(q) <=> \E k \in 1..Cardinality(P) : s[Nth(P, k)] = x
  BY <1>3 DEF ToSet
<1>5. (\E k \in 1..Cardinality(P) : s[Nth(P, k)] = x) <=> \E i \in P : s[i] = x
  BY <1>1, <1>2
<1>. QED
  BY <1>4, <1>5 DEF q

LEMMA TextGrown ==
  ASSUME NEW C, NEW s \in Seq(C), NEW c \in C, NEW P \in SUBSET (1..Len(s))
  PROVE  TextAt(Append(s, c), P \cup {Len(s) + 1}) = Append(TextAt(s, P), c)
<1>. DEFINE t == Append(s, c)
            m == Len(s) + 1
<1>1. t \in Seq(C) /\ Len(t) = m /\ t[m] = c /\ Len(s) \in Nat /\ \A i \in 1..Len(s) : t[i] = s[i]
  OBVIOUS
<1>2. Adds(C, s, t, P, m)
  BY <1>1 DEF Adds
<1>. HIDE DEF t, m
<1>3. TextAt(t, P \cup {m}) = Append(TextAt(s, P), t[m])
  BY <1>2, TextAdd
<1>. QED
  BY <1>1, <1>3 DEF t, m

\* One more character, which ends no line, makes the unended line longer.
LEMMA LineGoesOn ==
  ASSUME NEW C, NEW s \in Seq(C), NEW c \in C, c \notin {LineFeed, CarriageReturn}
  PROVE  /\ Unended(Append(s, c)).first = Unended(s).first
         /\ Recent(Append(s, c)) = Recent(s)
         /\ Begin(Append(s, c), Len(s) + 2) = Begin(s, Len(s) + 1)
         /\ Len(Append(s, c)) = Len(s) + 1
<1>. DEFINE t == Append(s, c)
<1>1. Lines(t) = Lines(s) /\ Begin(t, Len(s) + 2) = Begin(s, Len(s) + 1)
  BY PlainLines
<1>2. t \in Seq(C) /\ Len(t) = Len(s) + 1 /\ Len(t) + 1 = Len(s) + 2 /\ Len(s) \in Nat
  OBVIOUS
<1>. HIDE DEF t
<1>3. Unended(t).first = Begin(t, Len(t) + 1) /\ Unended(s).first = Begin(s, Len(s) + 1)
  BY <1>2, UnendedPlaced
<1>. QED
  BY <1>1, <1>2, <1>3 DEF Recent, t

LEMMA MiddleGoesOn ==
  ASSUME NEW C, NEW s \in Seq(C), NEW c \in C, c \notin {LineFeed, CarriageReturn}
  PROVE  Middle(Append(s, c)) = IF Middle(s) <= Len(s) THEN Middle(s)
                                ELSE IF c = ":" THEN Len(s) + 1 ELSE Len(s) + 2
<1>. DEFINE t == Append(s, c)
            n == Len(s)
            b == Begin(s, Len(s) + 1)
            m == IF Middle(s) <= n THEN Middle(s) ELSE IF c = ":" THEN n + 1 ELSE n + 2
<1>1. n \in Nat /\ b \in 1..n + 1
  BY BeginIs
<1>2. Len(t) = n + 1 /\ t[n + 1] = c /\ \A i \in 1..n : t[i] = s[i]
  OBVIOUS
<1>3. Begin(t, Len(t) + 1) = b
  BY <1>1, <1>2, LineGoesOn
<1>. HIDE DEF t
<1>4. /\ Middle(s) \in b..n + 1
      /\ \A i \in b..n : s[i] = ":" => Middle(s) <= i
      /\ Middle(s) <= n => s[Middle(s)] = ":"
  <2>1. b \in Nat \ {0} /\ b <= n + 1
    BY <1>1
  <2>. HIDE DEF b, n
  <2>2. /\ Colon(s, b, n) \in b..n + 1
        /\ \A i \in b..n : s[i] = ":" => Colon(s, b, n) <= i
        /\ Colon(s, b, n) <= n => s[Colon(s, b, n)] = ":"
    BY <1>1, <2>1, ColonType
  <2>. QED
    BY <2>2 DEF Middle, b, n
<1>. HIDE DEF b, n
<1>5. m \in b..n + 2 /\ b \in Nat \ {0} /\ n + 1 \in Nat /\ b <= n + 2
  BY <1>1, <1>4
<1>6. \A i \in b..n + 1 : t[i] = ":" => m <= i
  <2>. SUFFICES ASSUME NEW i \in b..n + 1, t[i] = ":" PROVE m <= i
    OBVIOUS
  <2>1. CASE i = n + 1
    BY <1>1, <1>2, <1>4, <2>1
  <2>2. CASE i # n + 1
    <3>1. i \in b..n /\ i \in 1..n
      BY <1>1, <2>2
    <3>2. Middle(s) <= i
      BY <1>2, <1>4, <3>1
    <3>. QED
      BY <1>1, <1>4, <3>1, <3>2
  <2>. QED
    BY <2>1, <2>2
<1>7. m <= n + 1 => t[m] = ":"
  <2>1. CASE Middle(s) <= n
    <3>1. Middle(s) \in 1..n
      BY <1>1, <1>4, <2>1
    <3>. QED
      BY <1>2, <1>4, <2>1, <3>1
  <2>2. CASE ~(Middle(s) <= n)
    BY <1>1, <1>2, <2>2
  <2>. QED
    BY <2>1, <2>2
<1>. HIDE DEF m
<1>8. Colon(t, b, n + 1) = m
  <2>1. m \in b..(n + 1) + 1 /\ b <= (n + 1) + 1
    BY <1>1, <1>5
  <2>. QED
    BY <1>5, <1>6, <1>7, <2>1, ColonIs
<1>. QED
  BY <1>2, <1>3, <1>8 DEF Middle, t, m, n

\* What becomes of its name and its value.
LEMMA NameGrown ==
  ASSUME NEW C, NEW s \in Seq(C), NEW c \in C, c \notin {LineFeed, CarriageReturn, ":"}, Middle(s) = Len(s) + 1
  PROVE  /\ Middle(Append(s, c)) = Len(s) + 2
         /\ Unended(Append(s, c)).name = Append(Unended(s).name, c)
<1>. DEFINE t == Append(s, c)
            n == Len(s)
            b == Unended(s).first
<1>1. n \in Nat /\ t \in Seq(C) /\ Len(t) = n + 1 /\ t[n + 1] = c /\ \A i \in 1..n : t[i] = s[i]
  OBVIOUS
<1>2. Middle(t) = n + 2
  <2>1. c \notin {LineFeed, CarriageReturn} /\ c # ":" /\ ~(Middle(s) <= Len(s))
    BY <1>1
  <2>. QED
    BY <2>1, MiddleGoesOn
<1>3. b \in 1..n + 1 /\ Unended(t).first = b
  <2>1. Placed(Unended(s), Len(s))
    BY UnendedPlaced
  <2>. QED
    BY <2>1, LineGoesOn DEF Placed
<1>. HIDE DEF t
<1>4. Unended(t).name = TextAt(t, b..n + 1) /\ Unended(s).name = TextAt(s, b..n)
  <2>1. Unended(t).name = TextAt(t, Unended(t).first..Middle(t) - 1)
    BY <1>1, UnendedMeans
  <2>2. Unended(s).name = TextAt(s, Unended(s).first..Middle(s) - 1)
    BY UnendedMeans
  <2>3. Middle(t) - 1 = n + 1 /\ Middle(s) - 1 = n
    BY <1>1, <1>2
  <2>. QED
    BY <1>3, <2>1, <2>2, <2>3
<1>. DEFINE P == b..n
<1>5. b..n + 1 = P \cup {n + 1}
  BY <1>1, <1>3
<1>6. P \in SUBSET (1..Len(s))
  BY <1>1, <1>3
<1>. HIDE DEF b, P
<1>7. TextAt(t, P \cup {n + 1}) = Append(TextAt(s, P), c)
  BY Zenon, <1>6, TextGrown DEF t, n
<1>. HIDE DEF n
<1>. QED
  BY <1>2, <1>4, <1>5, <1>7 DEF t, n, P

LEMMA NameSame ==
  ASSUME NEW C, NEW s \in Seq(C), NEW c \in C, c \notin {LineFeed, CarriageReturn},
         Middle(s) <= Len(s) \/ c = ":"
  PROVE  Unended(Append(s, c)).name = Unended(s).name
<1>. DEFINE t == Append(s, c)
            n == Len(s)
            b == Unended(s).first
<1>1. n \in Nat /\ t \in Seq(C) /\ \A i \in 1..n : t[i] = s[i]
  OBVIOUS
<1>2. b \in 1..n + 1 /\ Unended(t).first = b /\ Middle(s) \in b..n + 1
  <2>1. Placed(Unended(s), Len(s)) /\ Middle(s) \in Unended(s).first..Len(s) + 1
    BY UnendedPlaced, UnendedMeans
  <2>. QED
    BY <2>1, LineGoesOn DEF Placed
<1>3. Middle(t) = Middle(s)
  <2>1. CASE Middle(s) <= n
    BY <2>1, MiddleGoesOn
  <2>2. CASE ~(Middle(s) <= n)
    <3>1. c = ":" /\ Middle(s) = n + 1
      BY <1>1, <1>2, <2>2
    <3>. QED
      BY <2>2, <3>1, MiddleGoesOn
  <2>. QED
    BY <2>1, <2>2
<1>. HIDE DEF t
<1>4. Unended(t).name = TextAt(t, b..Middle(s) - 1) /\ Unended(s).name = TextAt(s, b..Middle(s) - 1)
  BY <1>1, <1>2, <1>3, UnendedMeans
<1>. HIDE DEF b, n
<1>5. b..Middle(s) - 1 \in SUBSET (1..n) /\ \A i \in b..Middle(s) - 1 : t[i] = s[i]
  BY <1>1, <1>2
<1>6. TextAt(t, b..Middle(s) - 1) = TextAt(s, b..Middle(s) - 1)
  BY <1>1, <1>5, TextSame
<1>. QED
  BY <1>4, <1>6 DEF t

\* A value goes on with c.
Valued(s, c) == Middle(s) <= Len(s) /\ (Middle(s) = Len(s) => c # Space)

LEMMA ValueGrown ==
  ASSUME NEW C, NEW s \in Seq(C), NEW c \in C, c \notin {LineFeed, CarriageReturn}, Valued(s, c)
  PROVE  /\ Unended(Append(s, c)).value = Unended(s).value \cup {Len(s) + 1}
         /\ Middle(Append(s, c)) = Middle(s)
<1>. DEFINE t == Append(s, c)
            n == Len(s)
            m == Middle(s)
<1>1. n \in Nat /\ t \in Seq(C) /\ Len(t) = n + 1 /\ t[n + 1] = c /\ \A i \in 1..n : t[i] = s[i]
  OBVIOUS
<1>2. Middle(t) = m
  BY MiddleGoesOn DEF Valued
<1>3. m \in 1..n
  <2>1. Placed(Unended(s), Len(s)) /\ Middle(s) \in Unended(s).first..Len(s) + 1
    BY UnendedPlaced, UnendedMeans
  <2>2. Unended(s).first \in 1..n + 1
    BY <2>1 DEF Placed
  <2>3. m <= n /\ m \in Unended(s).first..n + 1
    BY <2>1 DEF Valued
  <2>. HIDE DEF m, n
  <2>. QED
    BY <1>1, <2>2, <2>3
<1>. HIDE DEF t
<1>4. /\ Unended(t).value = {i \in m + 1..n + 1 : i = m + 1 => t[i] # Space}
      /\ Unended(s).value = {i \in m + 1..n : i = m + 1 => s[i] # Space}
  <2>1. Unended(t).value = {i \in Middle(t) + 1..Len(t) : i = Middle(t) + 1 => t[i] # Space}
    BY <1>1, UnendedMeans
  <2>2. Unended(s).value = {i \in Middle(s) + 1..Len(s) : i = Middle(s) + 1 => s[i] # Space}
    BY UnendedMeans
  <2>. QED
    BY <1>1, <1>2, <2>1, <2>2
<1>0. m = n => c # Space
  BY DEF Valued
<1>. HIDE DEF m, n
<1>5. \A i \in m + 1..n : t[i] = s[i] /\ i # n + 1 /\ i \in m + 1..n + 1
  BY <1>1, <1>3
<1>6. \A i \in m + 1..n + 1 : i \in m + 1..n \/ i = n + 1
  BY <1>1, <1>3
<1>7. n + 1 \in m + 1..n + 1 /\ (n + 1 = m + 1 => t[n + 1] # Space)
  <2>1. n + 1 \in m + 1..n + 1 /\ (n + 1 = m + 1 => m = n)
    BY <1>1, <1>3
  <2>. QED
    BY <1>0, <1>1, <2>1
<1>. QED
  BY <1>2, <1>4, <1>5, <1>6, <1>7 DEF t, n, m

----------------------------------------------------------------------------
(* Data without the line feeds it begins with.                             *)

\* d begins with m - 1 line feeds and no more.
StartsAt(d, m) ==
  /\ m \in 1..Len(d) + 1 /\ \A i \in 1..m - 1 : d[i] = LineFeed
  /\ m <= Len(d) => d[m] # LineFeed

LEMMA StrippedIs ==
  ASSUME NEW C, NEW d \in Seq(C), NEW m, StartsAt(d, m)
  PROVE  Stripped(d) = SubSeq(d, m, Len(d))
<1>. DEFINE n == Len(d)
            P == {i \in DOMAIN d : d[i] # LineFeed} \cup {n + 1}
<1>1. n \in Nat /\ DOMAIN d = 1..n /\ m \in 1..n + 1
  BY DEF StartsAt
<1>2. \A i \in 1..n : d[i] # LineFeed => m <= i
  <2>. SUFFICES ASSUME NEW i \in 1..n, ~(m <= i) PROVE d[i] = LineFeed
    OBVIOUS
  <2>1. i \in 1..m - 1
    BY <1>1
  <2>. QED
    BY <2>1 DEF StartsAt
<1>3. m \in P
  BY <1>1 DEF StartsAt
<1>4. P \in SUBSET Int /\ \A i \in P : m <= i
  BY <1>1, <1>2
<1>. HIDE DEF P
<1>5. Min(P) = m
  BY <1>3, <1>4, LeastIs
<1>. QED
  BY <1>5 DEF Stripped, P

LEMMA StrippedHas ==
  ASSUME NEW C, NEW d \in Seq(C)
  PROVE  \E m : StartsAt(d, m)
<1>. DEFINE n == Len(d)
            P == {i \in 1..n : d[i] # LineFeed} \cup {n + 1}
<1>1. n \in Nat /\ n + 1 \in Nat
  OBVIOUS
<1>2. P \in SUBSET (1..n + 1) /\ P # {}
  BY <1>1
<1>. HIDE DEF P
<1>3. PICK m \in P : \A i \in P : m <= i
  BY <1>1, <1>2, FirstPlace
<1>4. m \in 1..n + 1 /\ (m <= n => d[m] # LineFeed)
  BY <1>1, <1>2 DEF P
<1>5. \A i \in 1..m - 1 : d[i] = LineFeed
  <2>. SUFFICES ASSUME NEW i \in 1..m - 1, d[i] # LineFeed PROVE FALSE
    OBVIOUS
  <2>1. i \in 1..n /\ i < m /\ ~(m <= i)
    BY <1>1, <1>4
  <2>2. i \in P
    BY <2>1 DEF P
  <2>. QED
    BY <1>3, <2>1, <2>2
<1>. QED
  BY <1>4, <1>5 DEF StartsAt

\* What is left, and what is left of one more character.
LEMMA EndOf ==
  ASSUME NEW C, NEW d \in Seq(C), NEW m \in 1..Len(d) + 1
  PROVE  /\ SubSeq(d, m, Len(d)) \in Seq(C) /\ Len(SubSeq(d, m, Len(d))) = Len(d) + 1 - m
         /\ m <= Len(d) => SubSeq(d, m, Len(d))[1] = d[m]
         /\ m = 1 => SubSeq(d, m, Len(d)) = d
         /\ SubSeq(d, m, Len(d)) = <<>> <=> m = Len(d) + 1
  OBVIOUS

LEMMA EndMore ==
  ASSUME NEW C, NEW d \in Seq(C), NEW c \in C, NEW m \in 1..Len(d) + 1
  PROVE  SubSeq(Append(d, c), m, Len(d) + 1) = Append(SubSeq(d, m, Len(d)), c)
  OBVIOUS

LEMMA StartsOn ==
  ASSUME NEW C, NEW d \in Seq(C), NEW c \in C, NEW m, StartsAt(d, m), m <= Len(d) \/ c # LineFeed
  PROVE  StartsAt(Append(d, c), m)
<1>. DEFINE t == Append(d, c)
            n == Len(d)
<1>1. Len(t) = n + 1 /\ t[n + 1] = c /\ n \in Nat /\ \A i \in 1..n : t[i] = d[i]
  OBVIOUS
<1>2. m \in 1..n + 1 /\ (\A i \in 1..m - 1 : d[i] = LineFeed) /\ (m <= n => d[m] # LineFeed)
  BY DEF StartsAt
<1>. HIDE DEF t, n
<1>3. m \in 1..Len(t) + 1 /\ \A i \in 1..m - 1 : t[i] = LineFeed
  BY <1>1, <1>2
<1>4. t[m] # LineFeed
  <2>1. CASE m <= n
    BY <1>1, <1>2, <2>1
  <2>2. CASE ~(m <= n)
    BY <1>1, <1>2, <2>2 DEF n
  <2>. QED
    BY <2>1, <2>2
<1>. QED
  BY <1>3, <1>4 DEF StartsAt, t

LEMMA StrippedType ==
  ASSUME NEW C, NEW d \in Seq(C)
  PROVE  Stripped(d) \in Seq(C) /\ Stripped(Stripped(d)) = Stripped(d)
<1>1. PICK m : StartsAt(d, m)
  BY StrippedHas
<1>. DEFINE r == SubSeq(d, m, Len(d))
<1>2. Stripped(d) = r
  BY <1>1, StrippedIs
<1>3. m \in 1..Len(d) + 1 /\ Len(d) \in Nat
  BY <1>1 DEF StartsAt
<1>4. /\ r \in Seq(C) /\ Len(r) = Len(d) + 1 - m
      /\ m <= Len(d) => r[1] = d[m]
  BY <1>3, EndOf
<1>. HIDE DEF r
<1>5. StartsAt(r, 1)
  BY <1>1, <1>3, <1>4 DEF StartsAt
<1>6. Stripped(r) = r
  <2>1. Stripped(r) = SubSeq(r, 1, Len(r))
    BY <1>4, <1>5, StrippedIs
  <2>2. SubSeq(r, 1, Len(r)) = r
    BY <1>4
  <2>. QED
    BY <2>1, <2>2
<1>. QED
  BY <1>2, <1>4, <1>6

LEMMA StrippedNone == Stripped(<<>>) = <<>>
<1>1. <<>> \in Seq({}) /\ Len(<<>>) = 0
  OBVIOUS
<1>2. StartsAt(<<>>, 1)
  BY <1>1 DEF StartsAt
<1>3. SubSeq(<<>>, 1, Len(<<>>)) = <<>>
  OBVIOUS
<1>. QED
  BY <1>1, <1>2, <1>3, StrippedIs

LEMMA StrippedMore ==
  ASSUME NEW C, NEW d \in Seq(C), NEW c \in C
  PROVE  Stripped(Append(d, c)) = IF Stripped(d) = <<>> /\ c = LineFeed THEN <<>> ELSE Append(Stripped(d), c)
<1>1. PICK m : StartsAt(d, m)
  BY StrippedHas
<1>. DEFINE t == Append(d, c)
            n == Len(d)
<1>2. n \in Nat /\ Len(t) = n + 1 /\ t \in Seq(C) /\ t[n + 1] = c /\ \A i \in 1..n : t[i] = d[i]
  OBVIOUS
<1>3. m \in 1..n + 1 /\ \A i \in 1..m - 1 : d[i] = LineFeed
  BY <1>1 DEF StartsAt
<1>4. Stripped(d) = SubSeq(d, m, n)
  BY <1>1, StrippedIs
<1>5. Stripped(d) = <<>> <=> m = n + 1
  BY <1>3, <1>4, EndOf
<1>6. CASE m <= n \/ c # LineFeed
  <2>1. StartsAt(t, m)
    BY <1>1, <1>6, StartsOn
  <2>2. Stripped(t) = SubSeq(t, m, n + 1)
    BY <1>2, <2>1, StrippedIs
  <2>3. SubSeq(t, m, n + 1) = Append(SubSeq(d, m, n), c)
    BY <1>3, EndMore
  <2>4. ~(Stripped(d) = <<>> /\ c = LineFeed)
    BY <1>2, <1>3, <1>5, <1>6
  <2>. QED
    BY <1>4, <2>2, <2>3, <2>4
<1>7. CASE ~(m <= n) /\ c = LineFeed
  <2>1. m = n + 1
    BY <1>2, <1>3, <1>7
  <2>. HIDE DEF t, n
  <2>2. StartsAt(t, n + 2)
    BY <1>2, <1>3, <1>7, <2>1 DEF StartsAt
  <2>3. Stripped(t) = SubSeq(t, n + 2, n + 1)
    BY <1>2, <2>2, StrippedIs
  <2>4. SubSeq(t, n + 2, n + 1) = <<>>
    BY <1>2
  <2>. QED
    BY <1>5, <1>7, <2>1, <2>3, <2>4 DEF t
<1>. QED
  BY <1>6, <1>7

----------------------------------------------------------------------------
(* The event that is going on, as the lines so far tell it.                *)

LastId(s) == LastValue(s, Identifying(s, Lines(s)))

Tells(e, some, s, lines) ==
  /\ e.event = LastValue(s, Named(lines, "event"))
  /\ e.data = Stripped(Data(s, Named(lines, "data")))
  /\ some <=> Named(lines, "data") # {}

\* Lines that are over.
Past(lines, n) == AllPlaced(lines, n) /\ \A l \in lines : l.first <= n

LEMMA PastSome ==
  ASSUME NEW n, NEW K, Past(K, n), NEW L, \A l \in L : l \in K
  PROVE  Past(L, n)
  BY DEF Past, AllPlaced

LEMMA LinesPast ==
  ASSUME NEW C, NEW s \in Seq(C)
  PROVE  /\ Past(Lines(s), Len(s)) /\ Past(Recent(s), Len(s))
         /\ ComesAfter(Unended(s), Lines(s)) /\ ComesAfter(Unended(s), Recent(s))
         /\ \A l \in Recent(s) : l.first < Unended(s).first /\ l.last < Unended(s).first
         /\ \A l \in Recent(s) : l \in Lines(s)
         /\ Unended(s).first \in 1..Len(s) + 1 /\ Unended(s).first \in Int
<1>1. Unended(s).first = Begin(s, Len(s) + 1) /\ Begin(s, Len(s) + 1) \in 1..Len(s) + 1
  BY UnendedPlaced, BeginIs
<1>2. \A l \in Recent(s) : l \in Lines(s)
  BY DEF Recent, Since
<1>3. \A l \in Lines(s) : /\ Placed(l, Len(s)) /\ l.first <= Len(s) /\ l.first \in Int
                          /\ l.first < Unended(s).first /\ l.last < Unended(s).first
  BY <1>1, LinesPlaced DEF Placed
<1>4. Past(Lines(s), Len(s)) /\ ComesAfter(Unended(s), Lines(s))
  BY <1>3 DEF Past, AllPlaced, ComesAfter
<1>5. Past(Recent(s), Len(s))
  BY <1>2, <1>4, PastSome
<1>6. ComesAfter(Unended(s), Recent(s))
  BY <1>2, <1>4 DEF ComesAfter
<1>. QED
  BY <1>1, <1>2, <1>3, <1>4, <1>5, <1>6

\* They go on telling the same.
LEMMA TellsOn ==
  ASSUME NEW C, LineFeed \in C, NEW s \in Seq(C), NEW t \in Seq(C), Extends(t, s),
         NEW K, Past(K, Len(s)), NEW e, NEW some
  PROVE  Tells(e, some, t, K) <=> Tells(e, some, s, K)
<1>1. \A n : \A l \in Named(K, n) : l \in K
  BY DEF Named
<1>2. /\ AllPlaced(Named(K, "event"), Len(s)) /\ \A l \in Named(K, "event") : l.first <= Len(s)
      /\ AllPlaced(Named(K, "data"), Len(s)) /\ \A l \in Named(K, "data") : l.first <= Len(s)
  BY <1>1, PastSome DEF Past
<1>3. LastValue(t, Named(K, "event")) = LastValue(s, Named(K, "event"))
  BY <1>2, LastValueSame
<1>4. Data(t, Named(K, "data")) = Data(s, Named(K, "data"))
  BY <1>2, DataSame
<1>. QED
  BY <1>3, <1>4 DEF Tells

\* A line of another name says nothing.
LEMMA TellsOther ==
  ASSUME NEW s, NEW K, NEW u, u.name \notin {<<"event">>, <<"data">>}, NEW e, NEW some
  PROVE  Tells(e, some, s, K \cup {u}) <=> Tells(e, some, s, K)
<1>1. Named(K \cup {u}, "event") = Named(K, "event") /\ Named(K \cup {u}, "data") = Named(K, "data")
  BY DEF Named
<1>. QED
  BY <1>1 DEF Tells

LEMMA NamedMore ==
  ASSUME NEW K, NEW u, NEW n
  PROVE  Named(K \cup {u}, n) = IF u.name = <<n>> THEN Named(K, n) \cup {u} ELSE Named(K, n)
  BY DEF Named

LEMMA NamesDiffer ==
  /\ <<"event">> # <<"data">> /\ <<"event">> # <<"id">> /\ <<"data">> # <<"id">>
  OBVIOUS

\* The last id there is.
LEMMA IdOn ==
  ASSUME NEW C, NEW s \in Seq(C), NEW t \in Seq(C), Extends(t, s), Lines(t) = Lines(s)
  PROVE  LastId(t) = LastId(s)
<1>1. Past(Lines(s), Len(s)) /\ Len(s) \in Nat
  BY LinesPast
<1>2. Identifying(t, Lines(s)) = Identifying(s, Lines(s))
  BY <1>1, IdentifyingSame DEF Past
<1>3. \A l \in Identifying(s, Lines(s)) : l \in Lines(s)
  BY DEF Identifying, Named
<1>4. Past(Identifying(s, Lines(s)), Len(s))
  BY <1>1, <1>3, PastSome
<1>5. LastValue(t, Identifying(s, Lines(s))) = LastValue(s, Identifying(s, Lines(s)))
  BY <1>4, LastValueSame DEF Past
<1>. QED
  BY <1>2, <1>5 DEF LastId

Identifies(s, u) == u.name = <<"id">> /\ \A i \in u.value : s[i] # NUL

LEMMA IdEnded ==
  ASSUME NEW C, NEW s \in Seq(C), NEW t \in Seq(C), EndsLine(t, s)
  PROVE  LastId(t) = IF Identifies(s, Unended(s)) THEN TextAt(s, Unended(s).value) ELSE LastId(s)
<1>. DEFINE u == Unended(s)
            L == Lines(s)
            I == Identifying(s, L)
<1>1. Lines(t) = L \cup {u} /\ Extends(t, s)
  BY EndedLines DEF EndsLine
<1>2. Past(L, Len(s)) /\ Len(s) \in Nat /\ ComesAfter(u, L) /\ u.first \in Int
  BY LinesPast
<1>3. u.value \in SUBSET (1..Len(s))
  <2>1. Placed(u, Len(s))
    BY UnendedPlaced
  <2>. QED
    BY <1>2, <2>1 DEF Placed
<1>4. \A i \in u.value : t[i] = s[i]
  BY <1>1, <1>3 DEF Extends
<1>. HIDE DEF u, L
<1>5. Identifying(t, L) = I
  BY <1>1, <1>2, IdentifyingSame DEF Past
<1>6. Identifying(t, L \cup {u}) = IF Identifies(s, u) THEN I \cup {u} ELSE I
  <2>1. Identifying(t, L \cup {u}) = Identifying(t, L) \cup (IF Identifies(t, u) THEN {u} ELSE {})
    BY DEF Identifying, Identifies, Named
  <2>2. Identifies(t, u) <=> Identifies(s, u)
    BY <1>4 DEF Identifies
  <2>. QED
    BY <1>5, <2>1, <2>2
<1>7. \A l \in I : l \in L
  BY DEF Identifying, Named
<1>8. Past(I, Len(s)) /\ ComesAfter(u, I)
  BY <1>2, <1>7, PastSome DEF ComesAfter
<1>. HIDE DEF I
<1>9. LastValue(t, I) = LastValue(s, I)
  BY <1>1, <1>8, LastValueSame DEF Past
<1>10. LastValue(t, I \cup {u}) = TextAt(t, u.value)
  BY <1>2, <1>8, LastValueIs
<1>11. TextAt(t, u.value) = TextAt(s, u.value)
  BY <1>2, <1>3, <1>4, TextSame
<1>12. LastId(t) = LastValue(t, Identifying(t, L \cup {u})) /\ LastId(s) = LastValue(s, I)
  BY <1>1 DEF LastId, I, L
<1>13. CASE Identifies(s, u)
  BY <1>6, <1>10, <1>11, <1>12, <1>13 DEF u
<1>14. CASE ~Identifies(s, u)
  BY <1>6, <1>9, <1>12, <1>14 DEF u
<1>. QED
  BY <1>13, <1>14

----------------------------------------------------------------------------
(* Where a line begins.                                                    *)

Fresh(s) == Middle(s) = Len(s) + 1 /\ Unended(s).name = <<>> /\ Begin(s, Len(s) + 1) = Len(s) + 1

LEMMA FreshIs ==
  ASSUME NEW C, NEW s \in Seq(C), Begin(s, Len(s) + 1) = Len(s) + 1
  PROVE  Fresh(s) /\ Blank(Unended(s)) /\ Unended(s).value = {}
<1>1. Len(s) \in Nat /\ Unended(s).first = Len(s) + 1 /\ Unended(s).last = Len(s)
  BY UnendedPlaced
<1>2. Middle(s) = Len(s) + 1
  <2>1. Middle(s) \in Unended(s).first..Len(s) + 1
    BY UnendedMeans
  <2>. QED
    BY <1>1, <2>1
<1>3. Unended(s).name = TextAt(s, (Len(s) + 1)..(Len(s) + 1 - 1))
  <2>1. Unended(s).name = TextAt(s, Unended(s).first..Middle(s) - 1)
    BY UnendedMeans
  <2>. QED
    BY <1>1, <1>2, <2>1
<1>4. (Len(s) + 1)..(Len(s) + 1 - 1) = {}
  BY <1>1
<1>5. Unended(s).name = <<>>
  BY <1>3, <1>4, TextOfNone
<1>6. Middle(s) >= Len(s)
  BY <1>1, <1>2
<1>. QED
  BY <1>1, <1>2, <1>5, <1>6, NoValueYet DEF Fresh, Blank

\* Before anything is written.
LEMMA ReadOfNone ==
  ASSUME NEW s, s = <<>>
  PROVE  Events(s) = <<>> /\ LastId(s) = <<>> /\ Fresh(s) /\ Recent(s) = {}
<1>1. s \in Seq({}) /\ Len(s) = 0 /\ LineEnds(s) = {}
  BY DEF LineEnds
<1>2. Lines(s) = {}
  BY <1>1 DEF Lines
<1>3. EventEnds(Lines(s)) = {} /\ Recent(s) = {}
  BY <1>2 DEF EventEnds, Recent, Since
<1>4. Events(s) = <<>>
  <2>1. Len(Events(s)) = Cardinality({}) /\ Events(s) \in Seq({Event(s, Lines(s), f) : f \in EventEnds(Lines(s))})
    BY <1>1, <1>3, EventsLength
  <2>2. Len(Events(s)) = 0
    BY <2>1, FS_EmptySet
  <2>. QED
    BY <2>1, <2>2
<1>5. LastId(s) = <<>>
  <2>1. Identifying(s, Lines(s)) = {}
    BY <1>2 DEF Identifying, Named
  <2>. QED
    BY <2>1, LastValueOfNone DEF LastId
<1>6. Fresh(s)
  <2>1. Begin(s, Len(s) + 1) = Len(s) + 1
    <3>1. 1 \in 1..Len(s) + 1
      BY <1>1
    <3>2. Begin(s, 1) \in 1..1
      BY Zenon, <1>1, <3>1, BeginIs
    <3>. QED
      BY <1>1, <3>2
  <2>. QED
    BY <1>1, <2>1, FreshIs
<1>. QED
  BY <1>3, <1>4, <1>5, <1>6

\* A line whose name is empty up to its end is blank.
LEMMA BlankIs ==
  ASSUME NEW C, NEW s \in Seq(C), Middle(s) = Len(s) + 1
  PROVE  Blank(Unended(s)) <=> Unended(s).name = <<>>
<1>. DEFINE f == Unended(s).first
            n == Len(s)
<1>1. n \in Nat /\ f \in 1..n + 1 /\ Unended(s).last = n
  <2>1. Placed(Unended(s), Len(s))
    BY UnendedPlaced
  <2>. QED
    BY <2>1, UnendedPlaced DEF Placed
<1>2. Unended(s).name = TextAt(s, f..n)
  <2>1. Unended(s).name = TextAt(s, f..Middle(s) - 1)
    BY UnendedMeans
  <2>2. Middle(s) - 1 = n
    BY <1>1
  <2>. QED
    BY <2>1, <2>2
<1>. HIDE DEF f
<1>3. f..n \in SUBSET (1..Len(s))
  BY <1>1
<1>4. TextAt(s, f..n) = <<>> <=> f..n = {}
  BY <1>3, TextType
<1>5. f..n = {} <=> n < f
  BY <1>1
<1>. QED
  BY <1>1, <1>2, <1>4, <1>5 DEF Blank, f

LEMMA RecentEnded ==
  ASSUME NEW C, NEW s \in Seq(C), NEW t \in Seq(C), EndsLine(t, s)
  PROVE  /\ Recent(t) = IF Blank(Unended(s)) THEN {} ELSE Recent(s) \cup {Unended(s)}
         /\ Fresh(t)
<1>. DEFINE u == Unended(s)
            L == Lines(s)
            f == Begin(s, Len(s) + 1)
            g == Begin(t, Len(t) + 1)
<1>1. Lines(t) = L \cup {u} /\ g = Len(t) + 1
  BY EndedLines
<1>2. u.first = f /\ f \in 1..Len(s) + 1 /\ Len(s) \in Nat /\ Len(t) \in Nat /\ Len(s) < Len(t)
  BY UnendedPlaced, BeginIs DEF EndsLine
<1>3. \A l \in L : l.first < u.first /\ l.first \in Int
  BY LinesPast DEF ComesAfter
<1>4. u.first \in Int /\ g \in Int /\ u.first < g
  BY <1>1, <1>2
<1>. HIDE DEF u, L, f, g
<1>5. \A l \in L : l.first < g /\ l.first < f
  BY <1>2, <1>3, <1>4
<1>6. Since(L \cup {u}, g) = IF Blank(u) THEN {} ELSE Since(L, f) \cup {u}
  <2>1. \A l \in L \cup {u} : l.first < g
    BY <1>4, <1>5
  <2>2. CASE Blank(u)
    <3>1. \A l \in L \cup {u} : ~(u.first < l.first)
      BY <1>3, <1>4
    <3>. QED
      BY <1>4, <2>2, <3>1 DEF Since
  <2>3. CASE ~Blank(u)
    <3>1. \A l \in L : l \in Since(L \cup {u}, g) <=> l \in Since(L, f)
      BY <1>5, <2>1, <2>3 DEF Since
    <3>2. u \in Since(L \cup {u}, g)
      BY <1>3, <1>4, <2>3 DEF Since
    <3>3. \A l \in Since(L \cup {u}, g) : l \in L \cup {u}
      BY DEF Since
    <3>4. \A l \in Since(L, f) : l \in L
      BY DEF Since
    <3>. QED
      BY <2>3, <3>1, <3>2, <3>3, <3>4
  <2>. QED
    BY <2>2, <2>3
<1>7. Recent(t) = Since(L \cup {u}, g) /\ Recent(s) = Since(L, f)
  BY <1>1 DEF Recent, L, f, g
<1>8. Fresh(t)
  BY <1>1, FreshIs DEF g
<1>. QED
  BY <1>6, <1>7, <1>8 DEF u

\* The event that a blank line ends, and what the lines tell of it.
LEMMA EventIs ==
  ASSUME NEW C, NEW s \in Seq(C)
  PROVE  Event(s, Lines(s), Unended(s).first)
           = [id |-> LastId(s), event |-> LastValue(s, Named(Recent(s), "event")),
              data |-> Data(s, Named(Recent(s), "data"))]
<1>1. Unended(s).first = Begin(s, Len(s) + 1)
  BY UnendedPlaced
<1>2. {l \in Lines(s) : l.first < Unended(s).first} = Lines(s)
  BY LinesPast DEF ComesAfter
<1>. QED
  BY <1>1, <1>2 DEF Event, LastId, Recent

LEMMA ShortIs ==
  ASSUME NEW i, NEW x, NEW d
  PROVE  Short([id |-> i, event |-> x, data |-> d]) = [id |-> i, event |-> x, data |-> Stripped(d)]
  BY DEF Short

LEMMA EventDue ==
  ASSUME NEW C, NEW s \in Seq(C), NEW e, NEW some,
         e = [id |-> e.id, event |-> e.event, data |-> e.data],
         e.id = LastId(s), Tells(e, some, s, Recent(s))
  PROVE  Short(Event(s, Lines(s), Unended(s).first)) = e
<1>. DEFINE d == Data(s, Named(Recent(s), "data"))
<1>1. Event(s, Lines(s), Unended(s).first) = [id |-> e.id, event |-> e.event, data |-> d]
  BY EventIs DEF Tells
<1>2. e.data = Stripped(d)
  BY DEF Tells
<1>. HIDE DEF d
<1>3. Short([id |-> e.id, event |-> e.event, data |-> d]) = [id |-> e.id, event |-> e.event, data |-> Stripped(d)]
  BY ShortIs
<1>. QED
  BY <1>1, <1>2, <1>3

----------------------------------------------------------------------------
(* A line that tells of the event while it is read.                        *)

\* The field that a name stands for.
Kind(n) == IF Len(n) = 1 /\ n[1] \in {"data", "event", "id"} THEN n[1] ELSE "skip"

LEMMA KindIs ==
  ASSUME NEW C, NEW n \in Seq(C)
  PROVE  /\ Kind(n) = "data" <=> n = <<"data">>
         /\ Kind(n) = "event" <=> n = <<"event">>
         /\ Kind(n) = "id" <=> n = <<"id">>
         /\ Kind(n) \in {"data", "event", "id", "skip"}
         /\ n = <<>> => Kind(n) = "skip"
<1>1. ASSUME NEW x
      PROVE  n = <<x>> <=> Len(n) = 1 /\ n[1] = x
  OBVIOUS
<1>2. n = <<>> => Len(n) # 1
  OBVIOUS
<1>3. /\ n = <<"data">> <=> Len(n) = 1 /\ n[1] = "data"
      /\ n = <<"event">> <=> Len(n) = 1 /\ n[1] = "event"
      /\ n = <<"id">> <=> Len(n) = 1 /\ n[1] = "id"
  BY Zenon, <1>1
<1>4. "skip" \notin {"data", "event", "id"}
  OBVIOUS
<1>. QED
  BY Zenon, <1>2, <1>3, <1>4 DEF Kind

LEMMA NamedKind ==
  ASSUME NEW C, NEW K, NEW u, u.name \in Seq(C)
  PROVE  /\ Named(K \cup {u}, "data") = IF Kind(u.name) = "data" THEN Named(K, "data") \cup {u} ELSE Named(K, "data")
         /\ Named(K \cup {u}, "event") = IF Kind(u.name) = "event" THEN Named(K, "event") \cup {u} ELSE Named(K, "event")
<1>. DEFINE n == u.name
<1>1. (Kind(n) = "data" <=> n = <<"data">>) /\ (Kind(n) = "event" <=> n = <<"event">>)
  BY KindIs
<1>2. /\ Named(K \cup {u}, "data") = IF n = <<"data">> THEN Named(K, "data") \cup {u} ELSE Named(K, "data")
      /\ Named(K \cup {u}, "event") = IF n = <<"event">> THEN Named(K, "event") \cup {u} ELSE Named(K, "event")
  BY Zenon, NamedMore
<1>. QED
  BY Zenon, <1>1, <1>2

\* What fields there are in an event.
Whole(e) == e = [id |-> e.id, event |-> e.event, data |-> e.data]

LEMMA Changed ==
  ASSUME NEW e, Whole(e), NEW x
  PROVE  /\ Whole([e EXCEPT !.event = x]) /\ Whole([e EXCEPT !.data = x]) /\ Whole([e EXCEPT !.id = x])
         /\ [e EXCEPT !.event = x].event = x /\ [e EXCEPT !.event = x].data = e.data
         /\ [e EXCEPT !.event = x].id = e.id
         /\ [e EXCEPT !.data = x].event = e.event /\ [e EXCEPT !.data = x].data = x
         /\ [e EXCEPT !.data = x].id = e.id
         /\ [e EXCEPT !.id = x].event = e.event /\ [e EXCEPT !.id = x].data = e.data
         /\ [e EXCEPT !.id = x].id = x
<1>1. DOMAIN e = {"id", "event", "data"}
  BY DEF Whole
<1>2. "id" # "event" /\ "id" # "data" /\ "event" # "data"
  OBVIOUS
<1>3. /\ [e EXCEPT !.event = x].event = x /\ [e EXCEPT !.event = x].data = e.data
      /\ [e EXCEPT !.event = x].id = e.id
      /\ [e EXCEPT !.data = x].event = e.event /\ [e EXCEPT !.data = x].data = x
      /\ [e EXCEPT !.data = x].id = e.id
      /\ [e EXCEPT !.id = x].event = e.event /\ [e EXCEPT !.id = x].data = e.data
      /\ [e EXCEPT !.id = x].id = x
  BY <1>1, <1>2
<1>4. /\ [e EXCEPT !.event = x] = [id |-> e.id, event |-> x, data |-> e.data]
      /\ [e EXCEPT !.data = x] = [id |-> e.id, event |-> e.event, data |-> x]
      /\ [e EXCEPT !.id = x] = [id |-> x, event |-> e.event, data |-> e.data]
  BY DEF Whole
<1>. QED
  BY <1>3, <1>4 DEF Whole

\* Before it has a value.
Opens(e, kind) ==
  CASE kind = "data" /\ e.data # <<>> -> [e EXCEPT !.data = Append(@, LineFeed)]
    [] kind = "event" -> [e EXCEPT !.event = <<>>]
    [] OTHER -> e

Opened(u, K, n) ==
  /\ u.first \in 1..n /\ u.value = {}
  /\ \A l \in K : l.first < u.first /\ l.last < u.first

Lettered(u, C) == u.name \in Seq(C)
NameKept(v, u) == v.name = u.name

LEMMA TellsOpened ==
  ASSUME NEW C, LineFeed \in C, NEW s \in Seq(C), NEW K, Past(K, Len(s)),
         NEW u, Opened(u, K, Len(s)), Lettered(u, C),
         NEW e, Whole(e), NEW some \in BOOLEAN, Tells(e, some, s, K)
  PROVE  Tells(Opens(e, Kind(u.name)), some \/ Kind(u.name) = "data", s, K \cup {u})
<1>. DEFINE kind == Kind(u.name)
            D == Named(K, "data")
            E == Named(K, "event")
<1>1. /\ Named(K \cup {u}, "data") = IF kind = "data" THEN D \cup {u} ELSE D
      /\ Named(K \cup {u}, "event") = IF kind = "event" THEN E \cup {u} ELSE E
  BY NamedKind DEF Lettered
<1>2. \A l \in D : l \in K
  BY DEF Named
<1>3. \A l \in E : l \in K
  BY DEF Named
<1>. HIDE DEF D, E, kind
<1>4. e.event = LastValue(s, E) /\ e.data = Stripped(Data(s, D)) /\ (some <=> D # {})
  BY DEF Tells, D, E
<1>5. CASE kind = "data"
  <2>1. AllPlaced(D, Len(s)) /\ \A l \in D : l.first < u.first /\ l.last < u.first
    BY <1>2, PastSome DEF Past, Opened
  <2>2. Stripped(Data(s, D \cup {u})) = IF e.data = <<>> THEN <<>> ELSE Append(e.data, LineFeed)
    <3>1. /\ Data(s, D) \in Seq(C)
          /\ Data(s, D \cup {u}) = IF D = {} THEN <<>> ELSE Append(Data(s, D), LineFeed)
      BY <2>1, DataOpened DEF Opened
    <3>2. CASE D = {}
      <4>1. Data(s, D) = <<>>
        BY <3>2, LastValueOfNone
      <4>. QED
        BY <1>4, <3>1, <3>2, <4>1, StrippedNone
    <3>3. CASE D # {}
      <4>1. Data(s, D \cup {u}) = Append(Data(s, D), LineFeed)
        BY <3>1, <3>3
      <4>2. Stripped(Append(Data(s, D), LineFeed))
              = IF Stripped(Data(s, D)) = <<>> /\ LineFeed = LineFeed THEN <<>> ELSE Append(Stripped(Data(s, D)), LineFeed)
        BY Zenon, <3>1, StrippedMore
      <4>. QED
        BY <1>4, <4>1, <4>2
    <3>. QED
      BY <3>2, <3>3
  <2>3. "data" # "event"
    OBVIOUS
  <2>4. CASE e.data = <<>>
    <3>1. Opens(e, kind) = e
      BY Zenon, <1>5, <2>3, <2>4 DEF Opens
    <3>. QED
      BY <1>1, <1>4, <1>5, <2>2, <2>3, <2>4, <3>1 DEF Tells, kind
  <2>5. CASE e.data # <<>>
    <3>1. Opens(e, kind) = [e EXCEPT !.data = Append(e.data, LineFeed)]
      BY Zenon, <1>5, <2>3, <2>5 DEF Opens
    <3>2. Opens(e, kind).event = e.event /\ Opens(e, kind).data = Append(e.data, LineFeed)
      BY <3>1, Changed
    <3>. QED
      BY <1>1, <1>4, <1>5, <2>2, <2>3, <2>5, <3>2 DEF Tells, kind
  <2>. QED
    BY <2>4, <2>5
<1>6. CASE kind = "event"
  <2>1. ComesAfter(u, E) /\ u.first \in Int
    <3>1. \A l \in E : Placed(l, Len(s)) /\ l.first < u.first
      BY <1>3 DEF Opened, Past, AllPlaced
    <3>. QED
      BY <3>1 DEF ComesAfter, Placed, Opened
  <2>2. LastValue(s, E \cup {u}) = <<>>
    <3>1. LastValue(s, E \cup {u}) = TextAt(s, u.value)
      BY <2>1, LastValueIs
    <3>. QED
      BY <3>1, TextOfNone DEF Opened
  <2>3. "data" # "event"
    OBVIOUS
  <2>4. Opens(e, kind) = [e EXCEPT !.event = <<>>]
    BY Zenon, <1>6, <2>3 DEF Opens
  <2>5. Opens(e, kind).event = <<>> /\ Opens(e, kind).data = e.data
    BY <2>4, Changed
  <2>. QED
    BY <1>1, <1>4, <1>6, <2>2, <2>3, <2>5 DEF Tells, kind
<1>7. CASE kind \notin {"data", "event"}
  <2>1. Opens(e, kind) = e
    BY Zenon, <1>7 DEF Opens
  <2>. QED
    BY <1>1, <1>4, <1>7, <2>1 DEF Tells, kind
<1>. QED
  BY <1>5, <1>6, <1>7

\* One more character of its value.
Grows(e, kind, c) ==
  IF kind \in {"data", "event"} THEN [e EXCEPT ![kind] = Append(@, c)] ELSE e

LEMMA TellsGrown ==
  ASSUME NEW C, LineFeed \in C, NEW s \in Seq(C), NEW c \in C, c # LineFeed, NEW K, Past(K, Len(s)),
         NEW u, NEW v, ValueMore(v, u, K, Len(s)),
         Lettered(u, C), Lettered(v, C), NameKept(v, u),
         NEW e, Whole(e), NEW some, Tells(e, some, s, K \cup {u})
  PROVE  Tells(Grows(e, Kind(u.name), c), some, Append(s, c), K \cup {v})
<1>. DEFINE t == Append(s, c)
            kind == Kind(u.name)
            D == Named(K, "data")
            E == Named(K, "event")
<1>1. /\ Named(K \cup {u}, "data") = IF kind = "data" THEN D \cup {u} ELSE D
      /\ Named(K \cup {u}, "event") = IF kind = "event" THEN E \cup {u} ELSE E
  BY NamedKind DEF Lettered
<1>2. /\ Named(K \cup {v}, "data") = IF kind = "data" THEN D \cup {v} ELSE D
      /\ Named(K \cup {v}, "event") = IF kind = "event" THEN E \cup {v} ELSE E
  <2>1. /\ Named(K \cup {v}, "data") = IF Kind(v.name) = "data" THEN D \cup {v} ELSE D
        /\ Named(K \cup {v}, "event") = IF Kind(v.name) = "event" THEN E \cup {v} ELSE E
    BY NamedKind DEF Lettered
  <2>2. Kind(v.name) = kind
    BY DEF NameKept
  <2>. QED
    BY <2>1, <2>2
<1>3. (\A l \in D : l \in K) /\ (\A l \in E : l \in K)
  BY DEF Named
<1>4. t \in Seq(C) /\ Extends(t, s)
  <2>1. t \in Seq(C) /\ Len(t) = Len(s) + 1 /\ Len(s) \in Nat /\ \A i \in 1..Len(s) : t[i] = s[i]
    OBVIOUS
  <2>. QED
    BY <2>1 DEF Extends
<1>5. Past(D, Len(s)) /\ Past(E, Len(s)) /\ ComesAfter(u, D) /\ ComesAfter(u, E)
  BY <1>3, PastSome DEF ComesAfter, ValueMore
<1>. HIDE DEF t, D, E, kind
<1>6. LastValue(t, E) = LastValue(s, E) /\ Data(t, D) = Data(s, D)
  BY <1>4, <1>5, LastValueSame, DataSame DEF Past
<1>7. CASE kind = "data"
  <2>1. "data" # "event"
    OBVIOUS
  <2>2. Stripped(Data(t, D \cup {v})) = Append(Stripped(Data(s, D \cup {u})), c)
    <3>1. ValueMore(v, u, D, Len(s))
      BY <1>5 DEF Past, ValueMore
    <3>2. OneLonger(C, t, s, c)
      BY OneLongerIs DEF t
    <3>3. OneLonger(C, Data(t, D \cup {v}), Data(s, D \cup {u}), c)
      BY <3>1, <3>2, DataGrown
    <3>4. Data(t, D \cup {v}) = Append(Data(s, D \cup {u}), c)
      BY <3>3, OneLongerMeans
    <3>5. Data(s, D \cup {u}) \in Seq(C)
      BY <3>3 DEF OneLonger
    <3>6. Stripped(Append(Data(s, D \cup {u}), c))
            = IF Stripped(Data(s, D \cup {u})) = <<>> /\ c = LineFeed THEN <<>>
              ELSE Append(Stripped(Data(s, D \cup {u})), c)
      BY Zenon, <3>5, StrippedMore
    <3>. QED
      BY <3>4, <3>6
  <2>3. Grows(e, kind, c) = [e EXCEPT !.data = Append(e.data, c)]
    BY <1>7 DEF Grows
  <2>4. Grows(e, kind, c).event = e.event /\ Grows(e, kind, c).data = Append(e.data, c)
    BY <2>3, Changed
  <2>5. e.event = LastValue(s, E) /\ e.data = Stripped(Data(s, D \cup {u})) /\ (some <=> D \cup {u} # {})
    BY <1>1, <1>7, <2>1 DEF Tells
  <2>6. Tells(Grows(e, kind, c), some, t, K \cup {v})
    BY <1>2, <1>6, <1>7, <2>1, <2>2, <2>4, <2>5 DEF Tells
  <2>. QED
    BY <2>6 DEF kind, t
<1>8. CASE kind = "event"
  <2>1. "data" # "event"
    OBVIOUS
  <2>2. LastValue(s, E \cup {u}) = TextAt(s, u.value) /\ LastValue(t, E \cup {v}) = TextAt(t, v.value)
    <3>1. u.first \in Int /\ v.first \in Int /\ v.first = u.first
      BY DEF Grown, ValueMore
    <3>2. ComesAfter(v, E)
      BY <1>5, <3>1 DEF ComesAfter
    <3>. QED
      BY <1>5, <3>1, <3>2, LastValueIs
  <2>3. TextAt(t, v.value) = Append(TextAt(s, u.value), c)
    <3>1. u.value \in SUBSET (1..Len(s))
      <4>1. Len(s) \in Nat
        OBVIOUS
      <4>. QED
        BY <4>1 DEF Placed, ValueMore
    <3>2. TextAt(t, u.value \cup {Len(s) + 1}) = Append(TextAt(s, u.value), c)
      BY Zenon, <3>1, TextGrown DEF t
    <3>. QED
      BY <3>2 DEF Grown, ValueMore
  <2>4. Grows(e, kind, c) = [e EXCEPT !.event = Append(e.event, c)]
    BY <1>8 DEF Grows
  <2>5. Grows(e, kind, c).event = Append(e.event, c) /\ Grows(e, kind, c).data = e.data
    BY <2>4, Changed
  <2>6. e.event = TextAt(s, u.value) /\ e.data = Stripped(Data(s, D)) /\ (some <=> D # {})
    BY <1>1, <1>8, <2>1, <2>2 DEF Tells
  <2>7. Tells(Grows(e, kind, c), some, t, K \cup {v})
    BY <1>2, <1>6, <1>8, <2>1, <2>2, <2>3, <2>5, <2>6 DEF Tells
  <2>. QED
    BY <2>7 DEF kind, t
<1>9. CASE kind \notin {"data", "event"}
  <2>1. Grows(e, kind, c) = e
    BY <1>9 DEF Grows
  <2>2. Tells(e, some, t, K \cup {v})
    BY <1>1, <1>2, <1>6, <1>9 DEF Tells
  <2>. QED
    BY <2>1, <2>2 DEF kind, t
<1>. QED
  BY <1>7, <1>8, <1>9
----------------------------------------------------------------------------
(* Events with shortened data.                                             *)

LEMMA ShortenedMore ==
  ASSUME NEW D, NEW q \in Seq(D), NEW e \in D
  PROVE  Shortened(Append(q, e)) = Append(Shortened(q), Short(e))
<1>. DEFINE n == Len(q)
            R == {Short(x) : x \in D}
            a == Shortened(q)
            r == Shortened(Append(q, e))
<1>1. n \in Nat /\ DOMAIN q = 1..n /\ \A k \in 1..n : q[k] \in D
  OBVIOUS
<1>2. DOMAIN Append(q, e) = 1..n + 1 /\ Append(q, e)[n + 1] = e /\ \A k \in 1..n : Append(q, e)[k] = q[k]
  OBVIOUS
<1>3. a = [k \in 1..n |-> Short(q[k])]
  BY <1>1 DEF Shortened
<1>4. r = [k \in 1..n + 1 |-> Short(Append(q, e)[k])]
  BY <1>2 DEF Shortened
<1>5. \A k \in 1..n : Short(q[k]) \in R
  BY <1>1
<1>6. Short(e) \in R
  OBVIOUS
<1>. HIDE DEF R, a, r, n
<1>7. a \in Seq(R) /\ Len(a) = n /\ \A k \in 1..n : a[k] = Short(q[k])
  BY <1>1, <1>3, <1>5
<1>8. r[n + 1] = Short(e) /\ \A k \in 1..n : r[k] = a[k]
  BY <1>1, <1>2, <1>4, <1>7
<1>9. r \in [1..n + 1 -> R]
  <2>1. \A k \in 1..n + 1 : k = n + 1 \/ k \in 1..n
    BY <1>1
  <2>2. \A k \in 1..n + 1 : r[k] \in R
    BY <1>5, <1>6, <1>7, <1>8, <2>1
  <2>. QED
    BY <1>4, <2>2
<1>10. r = Append(a, Short(e))
  BY <1>6, <1>7, <1>8, <1>9, AppendIs
<1>. QED
  BY <1>10 DEF a, r

LEMMA ShortenedLength ==
  ASSUME NEW D, NEW q \in Seq(D)
  PROVE  Len(Shortened(q)) = Len(q)
<1>1. DOMAIN q = 1..Len(q) /\ Len(q) \in Nat
  OBVIOUS
<1>2. Shortened(q) = [k \in 1..Len(q) |-> Short(q[k])]
  BY <1>1 DEF Shortened
<1>3. Shortened(q) \in Seq({Short(q[k]) : k \in 1..Len(q)})
  BY <1>1, <1>2
<1>. QED
  BY <1>1, <1>2, <1>3

LEMMA EventsWhole ==
  ASSUME NEW C, LineFeed \in C, NEW s \in Seq(C)
  PROVE  \A k \in DOMAIN Events(s) : Whole(Events(s)[k]) /\ Events(s)[k].data \in Seq(C)
<1>. SUFFICES ASSUME NEW k \in DOMAIN Events(s)
              PROVE  Whole(Events(s)[k]) /\ Events(s)[k].data \in Seq(C)
  OBVIOUS
<1>1. PICK f : Events(s)[k] = Event(s, Lines(s), f)
  <2>. DEFINE E == {Event(s, Lines(s), f) : f \in EventEnds(Lines(s))}
  <2>1. Events(s) \in Seq(E)
    BY EventsLength
  <2>. HIDE DEF E
  <2>2. Events(s)[k] \in E
    BY <2>1
  <2>. QED
    BY <2>2 DEF E
<1>. DEFINE D == Named(Since(Lines(s), f), "data")
<1>2. Event(s, Lines(s), f).data = Data(s, D) /\ Whole(Event(s, Lines(s), f))
  BY DEF Event, Whole
<1>3. Past(D, Len(s))
  <2>1. Past(Lines(s), Len(s)) /\ \A l \in D : l \in Lines(s)
    BY LinesPast DEF Named, Since
  <2>. QED
    BY <2>1, PastSome
<1>. HIDE DEF D
<1>4. Data(s, D) \in Seq(C)
  <2>. DEFINE P == Joints(D) \cup Values(D)
              j == JoinedText(s, D)
  <2>1. P \in SUBSET (1..Len(s))
    BY <1>3, PlacesIn DEF Past
  <2>2. j \in Seq(C) /\ Len(j) = Len(s)
    BY JoinedIs
  <2>3. Data(s, D) = TextAt(j, P)
    BY DataMeans
  <2>. HIDE DEF P, j
  <2>. QED
    BY <2>1, <2>2, <2>3, TextType
<1>. QED
  BY <1>1, <1>2, <1>4

\* Their data is as short as it gets.
LEMMA ShortenedTwice ==
  ASSUME NEW C, NEW q, \A k \in DOMAIN q : Whole(q[k]) /\ q[k].data \in Seq(C)
  PROVE  Shortened(Shortened(q)) = Shortened(q)
<1>. DEFINE r == Shortened(q)
<1>1. DOMAIN r = DOMAIN q /\ \A k \in DOMAIN q : r[k] = Short(q[k])
  BY DEF Shortened
<1>2. ASSUME NEW k \in DOMAIN q
      PROVE  Short(Short(q[k])) = Short(q[k])
  <2>. DEFINE e == q[k]
  <2>1. e = [id |-> e.id, event |-> e.event, data |-> e.data] /\ e.data \in Seq(C)
    BY DEF Whole
  <2>. HIDE DEF e
  <2>2. Short(e) = [id |-> e.id, event |-> e.event, data |-> Stripped(e.data)]
    BY <2>1, ShortIs
  <2>3. Stripped(Stripped(e.data)) = Stripped(e.data)
    BY <2>1, StrippedType
  <2>4. Short(Short(e)) = [id |-> e.id, event |-> e.event, data |-> Stripped(Stripped(e.data))]
    BY <2>2, ShortIs
  <2>. QED
    BY <2>2, <2>3, <2>4 DEF e
<1>. HIDE DEF r
<1>3. [k \in DOMAIN r |-> Short(r[k])] = [k \in DOMAIN q |-> Short(q[k])]
  BY <1>1, <1>2
<1>. QED
  BY <1>3 DEF Shortened, r
=============================================================================
