---------------------- MODULE RepeatedPtrFieldProofs ----------------------
(***************************************************************************)
(* Proofs about RepeatedPtrField, for any fields, parts and sizes: the     *)
(* inductive invariant FieldInv (the sizes are in order, every object has  *)
(* one owner, cleared objects are clear), that every operation keeps it,   *)
(* that arrays grow only for elements that do not fit in, and that callers *)
(* see the lists of ElementLists.                                          *)
(*                                                                         *)
(* First come lemmas about the sequences the arrays are: what an array     *)
(* holds, and that it holds no pointer twice, after each way to change it. *)
(***************************************************************************)
EXTENDS RepeatedPtrField, SequenceTheorems, FiniteSetTheorems, TLAPS

-----------------------------------------------------------------------------
(* Sequences without repetition, and the sets of what they hold.           *)

LEMMA Elements ==
  ASSUME NEW S, NEW s \in Seq(S)
  PROVE  /\ Len(s) \in Nat /\ DOMAIN s = 1..Len(s)
         /\ \A i \in 1..Len(s) : s[i] \in S /\ s[i] \in ToSet(s)
         /\ \A o \in ToSet(s) : \E i \in 1..Len(s) : s[i] = o
         /\ ToSet(s) \subseteq S
BY DEF ToSet

LEMMA Apart ==
  ASSUME NEW S, NEW s \in Seq(S)
  PROVE  IsInjective(s) <=> \A i, j \in 1..Len(s) : s[i] = s[j] => i = j
BY DEF IsInjective

\* A sequence over what it holds.
LEMMA OwnElements ==
  ASSUME NEW S, NEW s \in Seq(S), NEW T, ToSet(s) \subseteq T
  PROVE  s \in Seq(T)
<1>1. Len(s) \in Nat /\ s = [i \in 1..Len(s) |-> s[i]] /\ \A i \in 1..Len(s) : s[i] \in T
  BY Elements
<1> QED
  BY <1>1

LEMMA EmptyHolds == ToSet(<< >>) = {} /\ IsInjective(<< >>) /\ Len(<< >>) = 0
BY DEF ToSet, IsInjective

LEMMA SameSeq ==
  ASSUME NEW S, NEW s \in Seq(S), NEW t \in Seq(S), Len(s) = Len(t),
         \A i \in 1..Len(s) : s[i] = t[i]
  PROVE  s = t
OBVIOUS

\* The array grows by one object.
LEMMA AppendOne ==
  ASSUME NEW S, NEW s \in Seq(S), NEW e \in S
  PROVE  /\ Append(s, e) \in Seq(S)
         /\ Len(Append(s, e)) = Len(s) + 1
         /\ \A i \in 1..Len(s) : Append(s, e)[i] = s[i]
         /\ Append(s, e)[Len(s) + 1] = e
         /\ ToSet(Append(s, e)) = ToSet(s) \cup {e}
         /\ IsInjective(s) /\ e \notin ToSet(s) => IsInjective(Append(s, e))
<1> DEFINE t == Append(s, e)
<1>1. /\ t \in Seq(S) /\ Len(t) = Len(s) + 1
      /\ \A i \in 1..Len(s) : t[i] = s[i]
      /\ t[Len(s) + 1] = e
  OBVIOUS
<1> HIDE DEF t
<1>2. Len(s) \in Nat
  OBVIOUS
<1>3. ToSet(t) = ToSet(s) \cup {e}
  <2>1. ASSUME NEW o \in ToSet(t)  PROVE o \in ToSet(s) \cup {e}
    <3>1. PICK i \in 1..Len(t) : t[i] = o
      BY <1>1, Elements
    <3>2. CASE i \in 1..Len(s)
      BY <1>1, <3>1, <3>2, Elements
    <3>3. CASE i = Len(s) + 1
      BY <1>1, <3>1, <3>3
    <3> QED  BY <1>1, <1>2, <3>2, <3>3
  <2>2. ASSUME NEW o \in ToSet(s)  PROVE o \in ToSet(t)
    <3>1. PICK i \in 1..Len(s) : s[i] = o
      BY Elements
    <3>2. i \in 1..Len(t) /\ t[i] = o
      BY <1>1, <1>2, <3>1
    <3> QED  BY <1>1, <3>2, Elements
  <2>3. e \in ToSet(t)
    <3>1. Len(s) + 1 \in 1..Len(t)
      BY <1>1, <1>2
    <3> QED  BY <1>1, <3>1, Elements
  <2> QED  BY <2>1, <2>2, <2>3
<1>4. ASSUME IsInjective(s), e \notin ToSet(s)  PROVE IsInjective(t)
  <2>1. \A i, j \in 1..Len(s) : s[i] = s[j] => i = j
    BY <1>4, Apart
  <2>2. \A i \in 1..Len(s) : s[i] # e
    BY <1>4, Elements
  <2>3. \A i, j \in 1..Len(t) : t[i] = t[j] => i = j
    BY <1>1, <1>2, <2>1, <2>2
  <2> QED  BY <1>1, <2>3, Apart
<1> QED
  BY <1>1, <1>3, <1>4 DEF t

\* A part of it.
LEMMA Slice ==
  ASSUME NEW S, NEW s \in Seq(S), NEW b \in 0..Len(s), NEW first \in 1..b + 1
  PROVE  /\ SubSeq(s, first, b) \in Seq(S)
         /\ Len(SubSeq(s, first, b)) = b + 1 - first
         /\ \A i \in 1..(b + 1 - first) : SubSeq(s, first, b)[i] = s[first - 1 + i]
         /\ ToSet(SubSeq(s, first, b)) = {s[i] : i \in first..b}
         /\ IsInjective(s) => IsInjective(SubSeq(s, first, b))
<1> DEFINE t == SubSeq(s, first, b)
           a == first - 1
<1>0. a \in 0..b /\ first = a + 1
  OBVIOUS
<1>1. Len(s) \in Nat /\ \A i \in first..b : i \in 1..Len(s) /\ s[i] \in S
  BY Elements
<1>2. /\ t \in Seq(S)
      /\ Len(t) = IF first <= b THEN b - first + 1 ELSE 0
      /\ \A i \in 1..(b - first + 1) : t[i] = s[first + i - 1]
  BY <1>1, SubSeqProperties
<1>10. b + 1 - first = b - a
  OBVIOUS
<1> HIDE DEF t, a
<1>3. b - first + 1 = b - a /\ Len(t) = b - a
  BY <1>0, <1>1, <1>2
<1>4. \A i \in 1..(b - a) : t[i] = s[a + i] /\ first + i - 1 = a + i
  <2>1. \A i \in 1..(b - a) : t[i] = s[first + i - 1] /\ first + i - 1 = a + i
    BY <1>0, <1>2, <1>3
  <2> QED  BY <2>1
<1>5. ASSUME NEW o \in ToSet(t)  PROVE o \in {s[i] : i \in first..b}
  <2>1. PICK i \in 1..Len(t) : t[i] = o
    BY <1>2, Elements
  <2>2. i \in 1..(b - a) /\ a + i \in first..b
    BY <1>0, <1>3, <2>1
  <2>3. s[a + i] = o
    BY <1>4, <2>1, <2>2
  <2> QED  BY <2>2, <2>3
<1>6. ASSUME NEW i \in first..b  PROVE s[i] \in ToSet(t)
  <2>1. i - a \in 1..(b - a) /\ a + (i - a) = i
    BY <1>0
  <2>2. t[i - a] = s[i]
    BY <1>4, <2>1
  <2> QED  BY <1>2, <1>3, <2>1, <2>2, Elements
<1>7. ASSUME IsInjective(s)  PROVE IsInjective(t)
  <2>1. \A i, j \in 1..Len(s) : s[i] = s[j] => i = j
    BY <1>7, Apart
  <2>2. ASSUME NEW i \in 1..(b - a), NEW j \in 1..(b - a), t[i] = t[j]  PROVE i = j
    <3>1. a + i \in 1..Len(s) /\ a + j \in 1..Len(s) /\ s[a + i] = s[a + j]
      BY <1>0, <1>1, <1>4, <2>2
    <3>2. a + i = a + j
      BY <2>1, <3>1
    <3> QED  BY <1>0, <3>2
  <2> QED  BY <1>2, <1>3, <2>2, Apart
<1> QED
  BY <1>2, <1>3, <1>4, <1>5, <1>6, <1>7, <1>10 DEF t, a

\* It shrinks by the last one.
LEMMA WithoutLast ==
  ASSUME NEW S, NEW s \in Seq(S), s # << >>
  PROVE  /\ Front(s) \in Seq(S)
         /\ Len(s) \in Nat /\ Len(s) >= 1 /\ Len(Front(s)) = Len(s) - 1
         /\ \A i \in 1..Len(s) - 1 : Front(s)[i] = s[i]
         /\ Last(s) \in ToSet(s) /\ Last(s) \in S /\ Last(s) = s[Len(s)]
         /\ IsInjective(s) => /\ IsInjective(Front(s))
                              /\ ToSet(Front(s)) = ToSet(s) \ {Last(s)}
<1> DEFINE t == Front(s)
<1>1. Len(s) \in Nat /\ Len(s) >= 1
  OBVIOUS
<1>5. /\ t \in Seq(S) /\ Len(t) = Len(s) - 1
      /\ \A i \in 1..Len(s) - 1 : t[i] = s[i]
  <2> DEFINE n == Len(s) - 1
  <2>1. n \in 0..Len(s) /\ 1 \in 1..n + 1 /\ n + 1 - 1 = n
    BY <1>1
  <2>2. t = SubSeq(s, 1, n)
    BY DEF Front
  <2> HIDE DEF t, n
  <2>3. /\ SubSeq(s, 1, n) \in Seq(S) /\ Len(SubSeq(s, 1, n)) = n + 1 - 1
        /\ \A i \in 1..(n + 1 - 1) : SubSeq(s, 1, n)[i] = s[1 - 1 + i]
    BY <2>1, Slice
  <2>4. \A i \in 1..n : t[i] = s[i]
    <3> SUFFICES ASSUME NEW i \in 1..n  PROVE t[i] = s[i]
      OBVIOUS
    <3>1. 1 - 1 + i = i
      OBVIOUS
    <3>2. t[i] = s[1 - 1 + i]
      BY <2>1, <2>2, <2>3
    <3> QED  BY <3>1, <3>2
  <2>5. t \in Seq(S) /\ Len(t) = n
    BY <2>1, <2>2, <2>3
  <2> QED  BY <2>4, <2>5 DEF n
<1> HIDE DEF t
<1>2. Len(s) \in 1..Len(s) /\ Last(s) = s[Len(s)]
  BY <1>1 DEF Last
<1>3. Last(s) \in ToSet(s) /\ Last(s) \in S
  BY <1>2, Elements
<1>4. ASSUME IsInjective(s)
      PROVE  IsInjective(t) /\ ToSet(t) = ToSet(s) \ {Last(s)}
  <2>1. \A i, j \in 1..Len(s) : s[i] = s[j] => i = j
    BY <1>4, Apart
  <2>2. \A i, j \in 1..Len(t) : t[i] = t[j] => i = j
    BY <1>1, <1>5, <2>1
  <2>3. ASSUME NEW o \in ToSet(t)  PROVE o \in ToSet(s) /\ o # Last(s)
    <3>1. PICK i \in 1..Len(t) : t[i] = o
      BY <1>1, <1>5, Elements
    <3>2. i \in 1..Len(s) /\ i # Len(s) /\ s[i] = o
      BY <1>1, <1>5, <3>1
    <3>3. s[i] # s[Len(s)]
      BY <1>2, <2>1, <3>2
    <3> QED  BY <1>2, <3>2, <3>3, Elements
  <2>4. ASSUME NEW o \in ToSet(s), o # Last(s)  PROVE o \in ToSet(t)
    <3>1. PICK i \in 1..Len(s) : s[i] = o
      BY Elements
    <3>2. i \in 1..Len(t) /\ t[i] = o
      BY <1>1, <1>5, <1>2, <2>4, <3>1
    <3> QED  BY <1>1, <1>5, <3>2, Elements
  <2> QED  BY <1>1, <1>5, <2>2, <2>3, <2>4, Apart
<1> QED
  BY <1>1, <1>2, <1>3, <1>4, <1>5 DEF t

LEMMA SetOne ==
  ASSUME NEW S, NEW s \in Seq(S), NEW k \in 1..Len(s), NEW e \in S
  PROVE  /\ [s EXCEPT ![k] = e] \in Seq(S) /\ Len([s EXCEPT ![k] = e]) = Len(s)
         /\ \A i \in 1..Len(s) : [s EXCEPT ![k] = e][i] = IF i = k THEN e ELSE s[i]
OBVIOUS

\* One of its objects is replaced.
LEMMA Replaced ==
  ASSUME NEW S, NEW s \in Seq(S), NEW k \in 1..Len(s), NEW e \in S,
         IsInjective(s), e \notin ToSet(s)
  PROVE  /\ [s EXCEPT ![k] = e] \in Seq(S)
         /\ Len([s EXCEPT ![k] = e]) = Len(s)
         /\ \A i \in 1..Len(s) : [s EXCEPT ![k] = e][i] = IF i = k THEN e ELSE s[i]
         /\ ToSet([s EXCEPT ![k] = e]) = (ToSet(s) \ {s[k]}) \cup {e}
         /\ IsInjective([s EXCEPT ![k] = e])
<1> DEFINE t == [s EXCEPT ![k] = e]
<1>1. /\ t \in Seq(S) /\ Len(t) = Len(s)
      /\ \A i \in 1..Len(s) : t[i] = IF i = k THEN e ELSE s[i]
  OBVIOUS
<1> HIDE DEF t
<1>2. \A i, j \in 1..Len(s) : s[i] = s[j] => i = j
  BY Apart
<1>3. \A i \in 1..Len(s) : s[i] # e
  BY Elements
<1>4. IsInjective(t)
  <2>1. \A i, j \in 1..Len(t) : t[i] = t[j] => i = j
    BY <1>1, <1>2, <1>3
  <2> QED  BY <1>1, <2>1, Apart
<1>5. ASSUME NEW o \in ToSet(t)  PROVE o \in (ToSet(s) \ {s[k]}) \cup {e}
  <2>1. PICK i \in 1..Len(t) : t[i] = o
    BY <1>1, Elements
  <2>2. i = k \/ (i # k /\ s[i] = o /\ s[i] \in ToSet(s) /\ s[i] # s[k])
    BY <1>1, <1>2, <2>1, Elements
  <2> QED  BY <1>1, <2>1, <2>2
<1>6. ASSUME NEW o \in (ToSet(s) \ {s[k]}) \cup {e}  PROVE o \in ToSet(t)
  <2>1. CASE o = e
    <3>1. k \in 1..Len(t) /\ t[k] = e
      BY <1>1
    <3> QED  BY <1>1, <2>1, <3>1, Elements
  <2>2. CASE o # e
    <3>1. PICK i \in 1..Len(s) : s[i] = o
      BY <1>6, <2>2, Elements
    <3>2. i \in 1..Len(t) /\ t[i] = o
      BY <1>1, <1>6, <2>2, <3>1
    <3> QED  BY <1>1, <3>2, Elements
  <2> QED  BY <2>1, <2>2
<1>7. ToSet(t) = (ToSet(s) \ {s[k]}) \cup {e}
  BY <1>5, <1>6
<1> QED
  BY <1>1, <1>4, <1>7 DEF t

\* One sequence behind another one.
LEMMA Joined ==
  ASSUME NEW S, NEW s \in Seq(S), NEW t \in Seq(S)
  PROVE  /\ s \o t \in Seq(S) /\ Len(s \o t) = Len(s) + Len(t)
         /\ \A i \in 1..Len(s) : (s \o t)[i] = s[i]
         /\ \A i \in 1..Len(t) : (s \o t)[Len(s) + i] = t[i]
         /\ ToSet(s \o t) = ToSet(s) \cup ToSet(t)
         /\ IsInjective(s) /\ IsInjective(t) /\ ToSet(s) \cap ToSet(t) = {}
              => IsInjective(s \o t)
<1> DEFINE u == s \o t
<1>1. /\ u \in Seq(S) /\ Len(u) = Len(s) + Len(t)
      /\ \A i \in 1..Len(s) + Len(t) : u[i] = IF i <= Len(s) THEN s[i] ELSE t[i - Len(s)]
      /\ Len(s) \in Nat /\ Len(t) \in Nat
  BY ConcatProperties
<1> HIDE DEF u
<1>2. \A i \in 1..Len(s) : u[i] = s[i]
  BY <1>1
<1>3. ASSUME NEW i \in 1..Len(t)  PROVE u[Len(s) + i] = t[i]
  <2>1. /\ Len(s) + i \in 1..Len(s) + Len(t) /\ ~(Len(s) + i <= Len(s))
        /\ (Len(s) + i) - Len(s) = i
    BY <1>1
  <2> QED  BY <1>1, <2>1
<1>4. ASSUME NEW k \in 1..Len(u)
      PROVE  \/ k \in 1..Len(s) /\ u[k] = s[k]
             \/ k - Len(s) \in 1..Len(t) /\ u[k] = t[k - Len(s)] /\ k \notin 1..Len(s)
  BY <1>1
<1>5. ToSet(u) \subseteq ToSet(s) \cup ToSet(t)
  <2> SUFFICES ASSUME NEW o \in ToSet(u)  PROVE o \in ToSet(s) \cup ToSet(t)
    OBVIOUS
  <2>1. PICK k \in 1..Len(u) : u[k] = o
    BY <1>1, Elements
  <2> QED  BY <1>4, <2>1, Elements
<1>6. ToSet(s) \subseteq ToSet(u)
  <2> SUFFICES ASSUME NEW o \in ToSet(s)  PROVE o \in ToSet(u)
    OBVIOUS
  <2>1. PICK k \in 1..Len(s) : s[k] = o
    BY Elements
  <2>2. k \in 1..Len(u) /\ u[k] = o
    BY <1>1, <1>2, <2>1
  <2> QED  BY <1>1, <2>2, Elements
<1>7. ToSet(t) \subseteq ToSet(u)
  <2> SUFFICES ASSUME NEW o \in ToSet(t)  PROVE o \in ToSet(u)
    OBVIOUS
  <2>1. PICK k \in 1..Len(t) : t[k] = o
    BY Elements
  <2>2. Len(s) + k \in 1..Len(u) /\ u[Len(s) + k] = o
    BY <1>1, <1>3, <2>1
  <2> QED  BY <1>1, <2>2, Elements
<1>8. ASSUME IsInjective(s), IsInjective(t), ToSet(s) \cap ToSet(t) = {}
      PROVE  IsInjective(u)
  <2>1. /\ \A i, j \in 1..Len(s) : s[i] = s[j] => i = j
        /\ \A i, j \in 1..Len(t) : t[i] = t[j] => i = j
    BY <1>8, Apart
  <2>2. \A i \in 1..Len(s), j \in 1..Len(t) : s[i] # t[j]
    <3> SUFFICES ASSUME NEW i \in 1..Len(s), NEW j \in 1..Len(t)  PROVE s[i] # t[j]
      OBVIOUS
    <3>1. s[i] \in ToSet(s) /\ t[j] \in ToSet(t)
      BY Elements
    <3> QED  BY <1>8, <3>1
  <2>3. ASSUME NEW i \in 1..Len(u), NEW j \in 1..Len(u), u[i] = u[j]  PROVE i = j
    <3>1. CASE i \in 1..Len(s) /\ j \in 1..Len(s)
      BY <1>2, <2>1, <2>3, <3>1
    <3>2. CASE i \notin 1..Len(s) /\ j \notin 1..Len(s)
      <4>1. i - Len(s) \in 1..Len(t) /\ j - Len(s) \in 1..Len(t)
            /\ t[i - Len(s)] = t[j - Len(s)]
        BY <1>4, <2>3, <3>2
      <4>2. i - Len(s) = j - Len(s)
        BY <2>1, <4>1
      <4> QED  BY <1>1, <4>2
    <3>3. CASE i \in 1..Len(s) /\ j \notin 1..Len(s)
      BY <1>4, <2>2, <2>3, <3>3
    <3>4. CASE i \notin 1..Len(s) /\ j \in 1..Len(s)
      BY <1>4, <2>2, <2>3, <3>4
    <3> QED  BY <3>1, <3>2, <3>3, <3>4
  <2> QED  BY <1>1, <2>3, Apart
<1> QED
  BY <1>1, <1>2, <1>3, <1>5, <1>6, <1>7, <1>8 DEF u

\* Two of its objects change places.
LEMMA Rearranged ==
  ASSUME NEW S, NEW s \in Seq(S), NEW t \in Seq(S), Len(t) = Len(s), IsInjective(s),
         NEW i \in 1..Len(s), NEW j \in 1..Len(s),
         \A k \in 1..Len(s) : t[k] = IF k = j THEN s[i] ELSE IF k = i THEN s[j] ELSE s[k]
  PROVE  ToSet(t) = ToSet(s) /\ IsInjective(t)
<1>3. \A k, l \in 1..Len(s) : s[k] = s[l] => k = l
  BY Apart
<1>4. \A k, l \in 1..Len(t) : t[k] = t[l] => k = l
  BY <1>3
<1>5. ASSUME NEW o \in ToSet(t)  PROVE o \in ToSet(s)
  <2>1. PICK k \in 1..Len(t) : t[k] = o
    BY Elements
  <2>2. t[k] \in {s[i], s[j], s[k]} /\ k \in 1..Len(s)
    BY <2>1
  <2> QED  BY <2>1, <2>2, Elements
<1>6. ASSUME NEW o \in ToSet(s)  PROVE o \in ToSet(t)
  <2>1. PICK k \in 1..Len(s) : s[k] = o
    BY Elements
  <2>2. t[k] = s[k] \/ t[j] = s[k] \/ t[i] = s[k]
    BY <2>1
  <2> QED  BY <2>1, <2>2, Elements
<1> QED
  BY <1>4, <1>5, <1>6, Apart

LEMMA Exchanged ==
  ASSUME NEW S, NEW s \in Seq(S), NEW i \in 1..Len(s), NEW j \in 1..Len(s),
         IsInjective(s)
  PROVE  LET t == [s EXCEPT ![i] = s[j], ![j] = s[i]]
         IN  /\ t \in Seq(S) /\ Len(t) = Len(s)
             /\ \A k \in 1..Len(s) :
                  t[k] = IF k = j THEN s[i] ELSE IF k = i THEN s[j] ELSE s[k]
             /\ ToSet(t) = ToSet(s)
             /\ IsInjective(t)
<1> DEFINE t == [s EXCEPT ![i] = s[j], ![j] = s[i]]
<1>1. s[i] \in S /\ s[j] \in S
  BY Elements
<1>2. /\ t \in Seq(S) /\ Len(t) = Len(s)
      /\ \A k \in 1..Len(s) :
              t[k] = IF k = j THEN s[i] ELSE IF k = i THEN s[j] ELSE s[k]
  BY <1>1
<1> HIDE DEF t
<1>3. ToSet(t) = ToSet(s) /\ IsInjective(t)
  BY <1>2, Rearranged
<1> QED
  BY <1>2, <1>3 DEF t

\* A gap is closed.
Cut(s, start, num) == SubSeq(s, start + 1, start + num)
Closed(s, start, num) == SubSeq(s, 1, start) \o SubSeq(s, start + num + 1, Len(s))

Until(s, k) == SubSeq(s, 1, k)
From(s, k) == SubSeq(s, k + 1, Len(s))

\* A list is what comes before a part of it, the part, and what comes after it.
LEMMA Before ==
  ASSUME NEW S, NEW s \in Seq(S), NEW k \in 0..Len(s)
  PROVE  /\ Until(s, k) \in Seq(S) /\ Len(Until(s, k)) = k
         /\ \A i \in 1..k : Until(s, k)[i] = s[i]
         /\ IsInjective(s) => IsInjective(Until(s, k))
<1>1. 1 \in 1..k + 1
  OBVIOUS
<1>2. /\ SubSeq(s, 1, k) \in Seq(S) /\ Len(SubSeq(s, 1, k)) = k + 1 - 1
      /\ \A i \in 1..(k + 1 - 1) : SubSeq(s, 1, k)[i] = s[1 - 1 + i]
      /\ IsInjective(s) => IsInjective(SubSeq(s, 1, k))
  BY <1>1, Slice
<1>3. SubSeq(s, 1, k) = Until(s, k)
  BY DEF Until
<1>4. k + 1 - 1 = k
  OBVIOUS
<1>5. \A i \in 1..k : Until(s, k)[i] = s[i]
  <2> SUFFICES ASSUME NEW i \in 1..k  PROVE Until(s, k)[i] = s[i]
    OBVIOUS
  <2>1. i \in 1..(k + 1 - 1) /\ 1 - 1 + i = i
    OBVIOUS
  <2> QED  BY <1>2, <1>3, <2>1
<1> QED
  BY <1>2, <1>3, <1>4, <1>5

LEMMA Behind ==
  ASSUME NEW S, NEW s \in Seq(S), NEW k \in 0..Len(s)
  PROVE  /\ From(s, k) \in Seq(S) /\ Len(From(s, k)) = Len(s) - k
         /\ \A i \in 1..(Len(s) - k) : From(s, k)[i] = s[k + i]
         /\ IsInjective(s) => IsInjective(From(s, k))
<1> DEFINE n == Len(s)
           first == k + 1
<1>1. n \in 0..Len(s) /\ first \in 1..n + 1 /\ n + 1 - first = n - k /\ first - 1 = k
  OBVIOUS
<1>2. From(s, k) = SubSeq(s, first, n)
  BY DEF From
<1> HIDE DEF first, n
<1>3. /\ SubSeq(s, first, n) \in Seq(S) /\ Len(SubSeq(s, first, n)) = n + 1 - first
      /\ \A i \in 1..(n + 1 - first) : SubSeq(s, first, n)[i] = s[first - 1 + i]
      /\ IsInjective(s) => IsInjective(SubSeq(s, first, n))
  BY <1>1, Slice
<1> QED
  BY <1>1, <1>2, <1>3 DEF n

LEMMA Between ==
  ASSUME NEW S, NEW s \in Seq(S), NEW start \in Nat, NEW num \in Nat, start + num <= Len(s)
  PROVE  /\ Cut(s, start, num) \in Seq(S) /\ Len(Cut(s, start, num)) = num
         /\ \A i \in 1..num : Cut(s, start, num)[i] = s[start + i]
         /\ IsInjective(s) => IsInjective(Cut(s, start, num))
<1> DEFINE first == start + 1
           a == start + num
<1>1. a \in 0..Len(s) /\ first \in 1..a + 1 /\ a + 1 - first = num /\ first - 1 = start
  OBVIOUS
<1>2. Cut(s, start, num) = SubSeq(s, first, a)
  BY DEF Cut
<1> HIDE DEF a, first
<1>3. /\ SubSeq(s, first, a) \in Seq(S) /\ Len(SubSeq(s, first, a)) = a + 1 - first
      /\ \A i \in 1..(a + 1 - first) : SubSeq(s, first, a)[i] = s[first - 1 + i]
      /\ IsInjective(s) => IsInjective(SubSeq(s, first, a))
  BY <1>1, Slice
<1> QED
  BY <1>1, <1>2, <1>3

\* The list without a part of it, and the part.
LEMMA Cutting ==
  ASSUME NEW S, NEW s \in Seq(S), NEW start \in Nat, NEW num \in Nat, start + num <= Len(s)
  PROVE  /\ Closed(s, start, num) \in Seq(S) /\ Len(Closed(s, start, num)) = Len(s) - num
         /\ \A i \in 1..start : Closed(s, start, num)[i] = s[i]
         /\ \A i \in 1..(Len(s) - num - start) :
              Closed(s, start, num)[start + i] = s[start + num + i]
         /\ Cut(s, start, num) \in Seq(S) /\ Len(Cut(s, start, num)) = num
         /\ \A i \in 1..num : Cut(s, start, num)[i] = s[start + i]
<1> DEFINE a == start + num
           front == Until(s, start)
           back == From(s, a)
           n == Len(s)
           t == front \o back
<1>1. /\ front \in Seq(S) /\ Len(front) = start /\ \A i \in 1..start : front[i] = s[i]
      /\ back \in Seq(S) /\ Len(back) = n - a
      /\ \A i \in 1..(n - a) : back[i] = s[a + i]
  <2>1. start \in 0..Len(s) /\ a \in 0..Len(s)
    OBVIOUS
  <2> HIDE DEF a
  <2> QED  BY <2>1, Before, Behind
<1>2. /\ Cut(s, start, num) \in Seq(S) /\ Len(Cut(s, start, num)) = num
      /\ \A i \in 1..num : Cut(s, start, num)[i] = s[start + i]
  BY Between
<1>3. Closed(s, start, num) = t
  BY DEF Closed, Until, From
<1> HIDE DEF front, back
<1>4. /\ t \in Seq(S) /\ Len(t) = Len(front) + Len(back)
      /\ \A i \in 1..Len(front) : t[i] = front[i]
      /\ \A i \in 1..Len(back) : t[Len(front) + i] = back[i]
  BY <1>1, Joined
<1> HIDE DEF t
<1>5. n - a = n - num - start /\ start + (n - a) = n - num
  <2>1. n \in Nat
    OBVIOUS
  <2> HIDE DEF n
  <2> QED  BY <2>1
<1>6. Len(t) = n - num
  BY <1>1, <1>4, <1>5
<1>7. \A i \in 1..start : t[i] = s[i]
  BY <1>1, <1>4
<1>8. ASSUME NEW i \in 1..(n - num - start)  PROVE t[start + i] = s[start + num + i]
  <2>1. i \in 1..Len(back)
    BY <1>1, <1>5
  <2> QED  BY <1>1, <1>4, <2>1
<1> QED
  BY <1>2, <1>3, <1>4, <1>6, <1>7, <1>8

\* And if it repeats nothing.
LEMMA WithoutGap ==
  ASSUME NEW S, NEW s \in Seq(S), IsInjective(s),
         NEW start \in Nat, NEW num \in Nat, start + num <= Len(s)
  PROVE  /\ Closed(s, start, num) \in Seq(S) /\ Len(Closed(s, start, num)) = Len(s) - num
         /\ \A i \in 1..start : Closed(s, start, num)[i] = s[i]
         /\ \A i \in 1..(Len(s) - num - start) :
              Closed(s, start, num)[start + i] = s[start + num + i]
         /\ Cut(s, start, num) \in Seq(S) /\ Len(Cut(s, start, num)) = num
         /\ \A i \in 1..num : Cut(s, start, num)[i] = s[start + i]
         /\ IsInjective(Closed(s, start, num)) /\ IsInjective(Cut(s, start, num))
         /\ ToSet(Closed(s, start, num)) = ToSet(s) \ ToSet(Cut(s, start, num))
         /\ ToSet(Cut(s, start, num)) \subseteq ToSet(s)
<1> DEFINE a == start + num
           front == Until(s, start)
           back == From(s, a)
           gap == Cut(s, start, num)
           t == front \o back
           n == Len(s)
<1>0. Closed(s, start, num) = t
  BY DEF Closed, Until, From
<1>1. n \in Nat
  OBVIOUS
<1>2. /\ front \in Seq(S) /\ Len(front) = start /\ \A i \in 1..start : front[i] = s[i]
      /\ IsInjective(front)
  <2>1. start \in 0..Len(s)
    OBVIOUS
  <2> QED  BY <2>1, Before
<1>3. /\ gap \in Seq(S) /\ Len(gap) = num /\ \A i \in 1..num : gap[i] = s[start + i]
      /\ IsInjective(gap)
  BY Between
<1>4. /\ back \in Seq(S) /\ Len(back) = n - a /\ \A i \in 1..(n - a) : back[i] = s[a + i]
      /\ IsInjective(back)
  <2>1. a \in 0..Len(s)
    OBVIOUS
  <2> HIDE DEF a
  <2> QED  BY <2>1, Behind
<1> HIDE DEF front, back, gap
<1>5. Len(back) = n - (start + num) /\ \A i \in 1..Len(back) : back[i] = s[start + num + i]
  BY <1>4
<1>6. /\ ToSet(front) \cup ToSet(back) = ToSet(s) \ ToSet(gap)
      /\ ToSet(gap) \subseteq ToSet(s)
      /\ ToSet(front) \cap ToSet(back) = {}
  <2>1. n \in Nat /\ Len(back) \in Nat
    BY <1>1, <1>5, <1>2, <1>4, LenProperties
  <2>2. \A i, j \in 1..n : s[i] = s[j] => i = j
    BY Apart
  <2>3. ASSUME NEW o \in ToSet(front)  PROVE \E i \in 1..n : i <= start /\ s[i] = o
    <3>1. PICK i \in 1..Len(front) : front[i] = o
      BY <1>2, <1>3, <1>4, Elements
    <3>2. i \in 1..start /\ i \in 1..n
      BY <1>1, <1>2, <1>3, <1>5, <2>1
    <3> QED  BY <1>1, <1>2, <1>3, <1>5, <3>1, <3>2
  <2>4. ASSUME NEW o \in ToSet(gap)
        PROVE  \E i \in 1..n : start < i /\ i <= start + num /\ s[i] = o
    <3>1. PICK i \in 1..Len(gap) : gap[i] = o
      BY <1>2, <1>3, <1>4, Elements
    <3>2. start + i \in 1..n /\ start < start + i /\ start + i <= start + num
      BY <1>1, <1>2, <1>3, <1>5, <2>1
    <3> QED  BY <1>1, <1>2, <1>3, <1>5, <3>1, <3>2
  <2>5. ASSUME NEW o \in ToSet(back)  PROVE \E i \in 1..n : start + num < i /\ s[i] = o
    <3>1. PICK i \in 1..Len(back) : back[i] = o
      BY <1>2, <1>3, <1>4, Elements
    <3>2. start + num + i \in 1..n /\ start + num < start + num + i
      BY <1>1, <1>2, <1>3, <1>5, <2>1
    <3> QED  BY <1>1, <1>2, <1>3, <1>5, <3>1, <3>2
  <2>6. ASSUME NEW i \in 1..n
        PROVE  \/ i <= start /\ s[i] \in ToSet(front)
               \/ start < i /\ i <= start + num /\ s[i] \in ToSet(gap)
               \/ start + num < i /\ s[i] \in ToSet(back)
    <3>1. CASE i <= start
      <4>1. i \in 1..Len(front) /\ front[i] = s[i]
        BY <1>1, <1>2, <1>3, <1>5, <2>1, <3>1
      <4> QED  BY <1>2, <3>1, <4>1, Elements
    <3>2. CASE start < i /\ i <= start + num
      <4>1. i - start \in 1..num /\ start + (i - start) = i
        BY <1>1, <1>2, <1>3, <1>5, <3>2
      <4>2. i - start \in 1..Len(gap) /\ gap[i - start] = s[i]
        BY <1>1, <1>2, <1>3, <1>5, <4>1
      <4> QED  BY <1>3, <3>2, <4>2, Elements
    <3>3. CASE start + num < i
      <4>1. i - (start + num) \in 1..Len(back) /\ start + num + (i - (start + num)) = i
        BY <1>1, <1>2, <1>3, <1>5, <2>1, <3>3
      <4>2. back[i - (start + num)] = s[i]
        BY <1>1, <1>2, <1>3, <1>5, <4>1
      <4> QED  BY <1>4, <3>3, <4>1, <4>2, Elements
    <3> QED  BY <2>1, <3>1, <3>2, <3>3
  <2>7. ASSUME NEW o \in ToSet(s)  PROVE \E i \in 1..n : s[i] = o
    BY <1>2, <1>3, <1>4, Elements
  <2>8. ASSUME NEW i \in 1..n  PROVE s[i] \in ToSet(s)
    BY <1>2, <1>3, <1>4, Elements
  <2>9. ToSet(gap) \subseteq ToSet(s)
    BY <2>4, <2>8
  <2>10. ToSet(front) \cap ToSet(back) = {}
    <3> SUFFICES ASSUME NEW o \in ToSet(front), o \in ToSet(back)  PROVE FALSE
      OBVIOUS
    <3>1. PICK i \in 1..n : i <= start /\ s[i] = o
      BY <2>3
    <3>2. PICK j \in 1..n : start + num < j /\ s[j] = o
      BY <2>5
    <3>3. i = j
      BY <2>2, <3>1, <3>2
    <3> QED  BY <2>1, <3>1, <3>2, <3>3
  <2>11. ASSUME NEW o \in ToSet(front) \cup ToSet(back)  PROVE o \in ToSet(s) /\ o \notin ToSet(gap)
    <3>1. PICK i \in 1..n : s[i] = o /\ (i <= start \/ start + num < i)
      BY <2>3, <2>5, <2>11
    <3>2. ASSUME o \in ToSet(gap)  PROVE FALSE
      <4>1. PICK j \in 1..n : start < j /\ j <= start + num /\ s[j] = o
        BY <2>4, <3>2
      <4>2. i = j
        BY <2>2, <3>1, <4>1
      <4> QED  BY <2>1, <3>1, <4>1, <4>2
    <3> QED  BY <2>8, <3>1, <3>2
  <2>12. ASSUME NEW o \in ToSet(s), o \notin ToSet(gap)  PROVE o \in ToSet(front) \cup ToSet(back)
    BY <2>6, <2>7, <2>12
  <2> QED
    BY <2>9, <2>10, <2>11, <2>12
<1>7. /\ t \in Seq(S) /\ Len(t) = Len(front) + Len(back)
      /\ \A i \in 1..Len(front) : t[i] = front[i]
      /\ \A i \in 1..Len(back) : t[Len(front) + i] = back[i]
      /\ ToSet(t) = ToSet(front) \cup ToSet(back)
      /\ IsInjective(t)
  BY <1>2, <1>4, <1>6, Joined
<1> HIDE DEF t, a, n
<1>8. ASSUME NEW i \in 1..start  PROVE t[i] = s[i]
  BY <1>2, <1>7
<1>9. ASSUME NEW i \in 1..(n - num - start)  PROVE t[start + i] = s[start + num + i]
  <2>1. i \in 1..Len(back)
    BY <1>1, <1>5
  <2> QED  BY <1>2, <1>5, <1>7, <2>1
<1>10. Len(t) = n - num
  BY <1>1, <1>2, <1>5, <1>7
<1> QED
  BY <1>0, <1>3, <1>6, <1>7, <1>8, <1>9, <1>10 DEF n, gap

\* What the heap gives is new, and each object once.
LEMMA NewIsFresh ==
  ASSUME live \subseteq Objects, NEW n \in Nat, CanNew(n)
  PROVE  /\ New(n) \in Seq(Objects) /\ Len(New(n)) = n
         /\ IsInjective(New(n)) /\ ToSet(New(n)) \subseteq Objects \ live
<1> DEFINE S == Objects \ live
<1>1. IsFiniteSet(S)
  <2>1. MaxObjects \in Nat
    BY BoundAssumption
  <2>2. IsFiniteSet(Objects)
    BY <2>1, FS_Interval DEF Objects
  <2>3. S \in SUBSET Objects
    OBVIOUS
  <2> QED  BY <2>2, <2>3, FS_Subset
<1>2. Cardinality(S) \in Nat /\ n <= Cardinality(S) /\ ExistsBijection(1..Cardinality(S), S)
  BY <1>1, FS_CardinalityType DEF CanNew
<1>3. PICK b \in [1..Cardinality(S) -> S] :
        \A i, j \in 1..Cardinality(S) : b[i] = b[j] => i = j
  BY <1>2 DEF ExistsBijection, Bijection, Injection, IsInjective
<1> DEFINE k == Cardinality(S)
<1> HIDE DEF S, k
<1>4. \E fresh \in [1..n -> S] : IsInjective(fresh)
  <2> DEFINE fresh == [i \in 1..n |-> b[i]]
  <2>1. \A i \in 1..n : i \in 1..Cardinality(S)
    BY <1>2
  <2>2. fresh \in [1..n -> S]
    BY <1>3, <2>1
  <2>3. IsInjective(fresh)
    BY <1>3, <2>1 DEF IsInjective
  <2> QED  BY <2>2, <2>3
<1>5. New(n) \in [1..n -> S] /\ IsInjective(New(n))
  BY <1>4 DEF New, S
<1>6. New(n) \in Seq(S) /\ Len(New(n)) = n /\ DOMAIN New(n) = 1..n
  BY <1>5
<1>7. New(n) \in Seq(Objects) /\ ToSet(New(n)) \subseteq S
  <2>1. S \subseteq Objects
    BY DEF S
  <2>2. New(n) \in [1..n -> Objects]
    BY <1>5, <2>1
  <2> QED  BY <1>5, <1>6, <2>2 DEF ToSet
<1> QED
  BY <1>5, <1>6, <1>7 DEF S

-----------------------------------------------------------------------------
(* The invariant.                                                          *)

\* The types of TypeOK, without what OwnedOnce says of the pointers.
Shape ==
  /\ live \subseteq Objects /\ content \in [Objects -> SUBSET Parts]
  /\ own \in Seq(Objects) /\ Len(own) <= MaxOwn
  /\ elements \in [FieldNames -> Seq(Objects)]
  /\ current_size \in [FieldNames -> Nat] /\ total_size \in [FieldNames -> Nat]
  /\ \A f \in FieldNames :
       current_size[f] <= Len(elements[f]) /\ Len(elements[f]) <= total_size[f]

FieldInv == Shape /\ OwnedOnce /\ ClearedAreClear

LEMMA Bounded ==
  ASSUME NEW S, NEW n \in Nat, NEW s
  PROVE  s \in BoundedSeq(S, n) <=> s \in Seq(S) /\ Len(s) <= n
<1>1. ASSUME s \in BoundedSeq(S, n)  PROVE s \in Seq(S) /\ Len(s) <= n
  <2>1. PICK m \in 0..n : s \in [1..m -> S]
    BY <1>1 DEF BoundedSeq, SeqOf
  <2>2. m \in Nat
    OBVIOUS
  <2>3. s \in Seq(S) /\ Len(s) = m
    BY <2>1, <2>2
  <2> QED  BY <2>3
<1>2. ASSUME s \in Seq(S), Len(s) <= n  PROVE s \in BoundedSeq(S, n)
  <2>1. Len(s) \in 0..n
    BY <1>2
  <2>2. s \in [1..Len(s) -> S]
    BY <1>2
  <2> QED  BY <2>1, <2>2 DEF BoundedSeq, SeqOf
<1> QED
  BY <1>1, <1>2

LEMMA TypesFollow == FieldInv => TypeOK
<1> SUFFICES ASSUME FieldInv  PROVE TypeOK
  OBVIOUS
<1>1. own \in Seq(live)
  <2>1. own \in Seq(Objects) /\ ToSet(own) \subseteq live
    BY DEF FieldInv, Shape, OwnedOnce
  <2> QED  BY <2>1, OwnElements
<1>2. elements \in [FieldNames -> Seq(live)]
  <2> SUFFICES ASSUME NEW f \in FieldNames  PROVE elements[f] \in Seq(live)
    BY DEF FieldInv, Shape
  <2>1. elements[f] \in Seq(Objects) /\ ToSet(elements[f]) \subseteq live
    BY DEF FieldInv, Shape, OwnedOnce
  <2> QED  BY <2>1, OwnElements
<1>3. own \in BoundedSeq(live, MaxOwn)
  <2>1. MaxOwn \in Nat /\ Len(own) <= MaxOwn
    BY BoundAssumption DEF FieldInv, Shape
  <2> QED  BY <1>1, <2>1, Bounded
<1> QED
  BY <1>2, <1>3 DEF TypeOK, FieldInv, Shape, allocated_size

\* A step of f and the caller, who share out what both had, and new objects.
LEMMA FieldStep ==
  ASSUME FieldInv, NEW f \in FieldNames,
         NEW array \in Seq(Objects), NEW size \in Nat, NEW total \in Nat,
         elements' = [elements EXCEPT ![f] = array],
         current_size' = [current_size EXCEPT ![f] = size],
         total_size' = [total_size EXCEPT ![f] = total],
         size <= Len(array), Len(array) <= total,
         own' \in Seq(Objects), Len(own') <= MaxOwn,
         content' \in [Objects -> SUBSET Parts],
         IsInjective(array), IsInjective(own'), ToSet(array) \cap ToSet(own') = {},
         ToSet(array) \cup ToSet(own')
           \subseteq ToSet(elements[f]) \cup ToSet(own) \cup (Objects \ live),
         live' = (live \ (ToSet(elements[f]) \cup ToSet(own)))
                   \cup ToSet(array) \cup ToSet(own'),
         \A i \in size + 1..Len(array) : content'[array[i]] = {},
         \A o \in live : o \notin ToSet(elements[f]) \cup ToSet(own) =>
                           content'[o] = content[o]
  PROVE  FieldInv'
<1>1. /\ elements \in [FieldNames -> Seq(Objects)]
      /\ elements'[f] = array /\ \A g \in FieldNames : g # f => elements'[g] = elements[g]
      /\ elements' \in [FieldNames -> Seq(Objects)]
  BY DEF FieldInv, Shape
<1>2. Shape'
  <2>1. live' \subseteq Objects
    <3>1. ToSet(array) \subseteq Objects /\ ToSet(own') \subseteq Objects
      BY Elements
    <3> QED  BY <3>1 DEF FieldInv, Shape
  <2>2. /\ current_size' \in [FieldNames -> Nat] /\ total_size' \in [FieldNames -> Nat]
        /\ current_size'[f] = size /\ total_size'[f] = total
        /\ \A g \in FieldNames : g # f => /\ current_size'[g] = current_size[g]
                                          /\ total_size'[g] = total_size[g]
    BY DEF FieldInv, Shape
  <2>3. \A g \in FieldNames :
          current_size'[g] <= Len(elements'[g]) /\ Len(elements'[g]) <= total_size'[g]
    BY <1>1, <2>2 DEF FieldInv, Shape
  <2> QED  BY <1>1, <2>1, <2>2, <2>3 DEF Shape
<1> DEFINE before == ToSet(elements[f]) \cup ToSet(own)
           after == ToSet(array) \cup ToSet(own')
<1>3. \A g \in FieldNames : g # f => ToSet(elements[g]) \cap before = {}
                                     /\ ToSet(elements[g]) \subseteq live
  <2> SUFFICES ASSUME NEW g \in FieldNames, g # f
               PROVE  ToSet(elements[g]) \cap before = {} /\ ToSet(elements[g]) \subseteq live
    OBVIOUS
  <2>1. /\ ToSet(elements[g]) \cap ToSet(own) = {}
        /\ ToSet(elements[g]) \cap ToSet(elements[f]) = {}
    BY DEF FieldInv, OwnedOnce
  <2>2. ToSet(elements[g]) \subseteq live
    BY DEF FieldInv, OwnedOnce
  <2> QED  BY <2>1, <2>2
<1>4. before \subseteq live /\ live = before \cup UNION {ToSet(elements[g]) : g \in FieldNames}
  BY DEF FieldInv, OwnedOnce
<1>5. \A g \in FieldNames : g # f => ToSet(elements[g]) \cap after = {}
  BY <1>3, <1>4
<1>6. OwnedOnce'
  <2>1. \A g \in FieldNames : IsInjective(elements'[g]) /\ ToSet(elements'[g]) \cap ToSet(own') = {}
    BY <1>1, <1>5 DEF FieldInv, OwnedOnce
  <2>2. \A g, h \in FieldNames : g # h => ToSet(elements'[g]) \cap ToSet(elements'[h]) = {}
    BY <1>1, <1>5 DEF FieldInv, OwnedOnce
  <2>3. ASSUME NEW o \in live'
        PROVE  o \in ToSet(own') \cup UNION {ToSet(elements'[g]) : g \in FieldNames}
    <3>1. CASE o \in after
      BY <1>1, <3>1
    <3>2. CASE o \notin after
      <4>1. o \in live /\ o \notin before
        BY <2>3, <3>2
      <4>2. PICK g \in FieldNames : o \in ToSet(elements[g])
        BY <1>4, <4>1
      <4>3. g # f
        BY <4>1, <4>2
      <4> QED  BY <1>1, <4>2, <4>3
    <3> QED  BY <3>1, <3>2
  <2>4. \A g \in FieldNames : ToSet(elements'[g]) \subseteq live'
    <3> SUFFICES ASSUME NEW g \in FieldNames  PROVE ToSet(elements'[g]) \subseteq live'
      OBVIOUS
    <3>1. CASE g = f
      BY <1>1, <3>1
    <3>2. CASE g # f
      BY <1>1, <1>3, <3>2
    <3> QED  BY <3>1, <3>2
  <2>5. ToSet(own') \subseteq live'
    OBVIOUS
  <2>6. live' = ToSet(own') \cup UNION {ToSet(elements'[g]) : g \in FieldNames}
    <3> DEFINE all == ToSet(own') \cup UNION {ToSet(elements'[g]) : g \in FieldNames}
    <3>1. live' \subseteq all
      BY <2>3
    <3>2. ASSUME NEW o \in all  PROVE o \in live'
      <4>1. CASE o \in ToSet(own')
        BY <2>5, <4>1
      <4>2. CASE \E g \in FieldNames : o \in ToSet(elements'[g])
        BY <2>4, <4>2
      <4> QED  BY <4>1, <4>2
    <3> HIDE DEF all
    <3>3. all \subseteq live'
      BY <3>2
    <3>4. live' = all
      BY <3>1, <3>3
    <3> QED  BY <3>4 DEF all
  <2> QED  BY <2>1, <2>2, <2>6 DEF OwnedOnce
<1>7. ClearedAreClear'
  <2> SUFFICES ASSUME NEW g \in FieldNames,
                      NEW i \in current_size'[g] + 1..Len(elements'[g])
               PROVE  content'[elements'[g][i]] = {}
    BY DEF ClearedAreClear, allocated_size
  <2>1. CASE g = f
    <3>1. current_size'[f] = size
      BY DEF FieldInv, Shape
    <3> QED  BY <1>1, <2>1, <3>1
  <2>2. CASE g # f
    <3>1. /\ current_size'[g] = current_size[g] /\ elements'[g] = elements[g]
          /\ current_size[g] \in Nat /\ elements[g] \in Seq(Objects)
      BY <1>1, <2>2 DEF FieldInv, Shape
    <3>2. i \in current_size[g] + 1..Len(elements[g]) /\ i \in 1..Len(elements[g])
      BY <3>1
    <3>3. content[elements[g][i]] = {}
      BY <3>2 DEF FieldInv, ClearedAreClear, allocated_size
    <3>4. elements[g][i] \in ToSet(elements[g])
      BY <3>1, <3>2, Elements
    <3>5. elements[g][i] \in live /\ elements[g][i] \notin before
      BY <1>3, <2>2, <3>4
    <3> QED  BY <3>1, <3>3, <3>5
  <2> QED  BY <2>1, <2>2
<1> QED
  BY <1>2, <1>6, <1>7 DEF FieldInv

\* A step that changes f and the caller's objects only: what becomes of f, and that
\* the two share out what both had, and new objects.
OnlyOf(f) ==
  /\ elements' = [elements EXCEPT ![f] = elements'[f]]
  /\ current_size' = [current_size EXCEPT ![f] = current_size'[f]]
  /\ total_size' = [total_size EXCEPT ![f] = total_size'[f]]
SizesFit(f) ==
  /\ elements'[f] \in Seq(Objects) /\ current_size'[f] \in Nat /\ total_size'[f] \in Nat
  /\ current_size'[f] <= Len(elements'[f]) /\ Len(elements'[f]) <= total_size'[f]
  /\ own' \in Seq(Objects) /\ Len(own') <= MaxOwn
SharesOut(f) ==
  /\ IsInjective(elements'[f]) /\ IsInjective(own')
  /\ ToSet(elements'[f]) \cap ToSet(own') = {}
  /\ ToSet(elements'[f]) \cup ToSet(own')
       \subseteq ToSet(elements[f]) \cup ToSet(own) \cup (Objects \ live)
  /\ live' = (live \ (ToSet(elements[f]) \cup ToSet(own))) \cup ToSet(elements'[f]) \cup ToSet(own')
Contents(f) ==
  /\ content' \in [Objects -> SUBSET Parts]
  /\ \A i \in current_size'[f] + 1..Len(elements'[f]) : content'[elements'[f][i]] = {}
  /\ \A o \in live : o \notin ToSet(elements[f]) \cup ToSet(own) => content'[o] = content[o]

LEMMA FieldChange ==
  ASSUME FieldInv, NEW f \in FieldNames, OnlyOf(f), SizesFit(f), SharesOut(f), Contents(f)
  PROVE  FieldInv'
<1> DEFINE array == elements'[f]
           size == current_size'[f]
           total == total_size'[f]
<1>1. /\ elements' = [elements EXCEPT ![f] = array]
      /\ current_size' = [current_size EXCEPT ![f] = size]
      /\ total_size' = [total_size EXCEPT ![f] = total]
  BY DEF OnlyOf
<1>2. /\ array \in Seq(Objects) /\ size \in Nat /\ total \in Nat
      /\ size <= Len(array) /\ Len(array) <= total
      /\ own' \in Seq(Objects) /\ Len(own') <= MaxOwn
  BY DEF SizesFit
<1>3. /\ IsInjective(array) /\ IsInjective(own') /\ ToSet(array) \cap ToSet(own') = {}
      /\ ToSet(array) \cup ToSet(own')
           \subseteq ToSet(elements[f]) \cup ToSet(own) \cup (Objects \ live)
      /\ live' = (live \ (ToSet(elements[f]) \cup ToSet(own))) \cup ToSet(array) \cup ToSet(own')
  BY DEF SharesOut
<1>4. /\ content' \in [Objects -> SUBSET Parts]
      /\ \A i \in size + 1..Len(array) : content'[array[i]] = {}
      /\ \A o \in live : o \notin ToSet(elements[f]) \cup ToSet(own) => content'[o] = content[o]
  BY DEF Contents
<1> HIDE DEF array, size, total
<1> QED
  BY <1>1, <1>2, <1>3, <1>4, FieldStep

\* A step of the caller alone.
LEMMA CallerStep ==
  ASSUME FieldInv, UNCHANGED <<elements, current_size, total_size>>,
         own' \in Seq(Objects), Len(own') <= MaxOwn,
         content' \in [Objects -> SUBSET Parts],
         IsInjective(own'), ToSet(own') \subseteq ToSet(own) \cup (Objects \ live),
         live' = (live \ ToSet(own)) \cup ToSet(own'),
         \A o \in live : o \notin ToSet(own) => content'[o] = content[o]
  PROVE  FieldInv'
<1>1. Shape'
  <2>1. live' \subseteq Objects
    <3>1. ToSet(own') \subseteq Objects
      BY Elements
    <3> QED  BY <3>1 DEF FieldInv, Shape
  <2> QED  BY <2>1 DEF FieldInv, Shape
<1>2. \A g \in FieldNames : /\ ToSet(elements[g]) \subseteq live
                            /\ ToSet(elements[g]) \cap ToSet(own) = {}
                            /\ ToSet(elements[g]) \cap ToSet(own') = {}
  BY DEF FieldInv, OwnedOnce
<1>3. OwnedOnce'
  BY <1>2, SMTT(30) DEF FieldInv, OwnedOnce
<1>4. ClearedAreClear'
  <2> SUFFICES ASSUME NEW g \in FieldNames, NEW i \in current_size[g] + 1..Len(elements[g])
               PROVE  content'[elements[g][i]] = {}
    BY DEF ClearedAreClear, allocated_size
  <2>1. current_size[g] \in Nat /\ elements[g] \in Seq(Objects)
    BY DEF FieldInv, Shape
  <2>2. i \in 1..Len(elements[g]) /\ content[elements[g][i]] = {}
    BY <2>1 DEF FieldInv, ClearedAreClear, allocated_size
  <2>3. elements[g][i] \in live /\ elements[g][i] \notin ToSet(own)
    BY <1>2, <2>1, <2>2, Elements
  <2> QED  BY <2>2, <2>3
<1> QED
  BY <1>1, <1>3, <1>4 DEF FieldInv

\* What the invariant says of one field and the caller.
LEMMA Of ==
  ASSUME FieldInv, NEW f \in FieldNames
  PROVE  /\ elements[f] \in Seq(Objects) /\ Len(elements[f]) \in Nat
         /\ current_size[f] \in Nat /\ current_size[f] <= Len(elements[f])
         /\ total_size[f] \in Nat /\ Len(elements[f]) <= total_size[f]
         /\ IsInjective(elements[f]) /\ ToSet(elements[f]) \subseteq live
         /\ ToSet(elements[f]) \cap ToSet(own) = {}
         /\ \A i \in current_size[f] + 1..Len(elements[f]) : content[elements[f][i]] = {}
<1>1. /\ elements[f] \in Seq(Objects)
      /\ current_size[f] \in Nat /\ current_size[f] <= Len(elements[f])
      /\ total_size[f] \in Nat /\ Len(elements[f]) <= total_size[f]
  BY DEF FieldInv, Shape
<1>2. /\ IsInjective(elements[f]) /\ ToSet(elements[f]) \subseteq live
      /\ ToSet(elements[f]) \cap ToSet(own) = {}
  BY DEF FieldInv, OwnedOnce
<1>3. \A i \in current_size[f] + 1..Len(elements[f]) : content[elements[f][i]] = {}
  BY DEF FieldInv, ClearedAreClear, allocated_size
<1> QED
  BY <1>1, <1>2, <1>3, LenProperties

LEMMA OfCaller ==
  ASSUME FieldInv
  PROVE  /\ own \in Seq(Objects) /\ Len(own) \in Nat /\ Len(own) <= MaxOwn /\ MaxOwn \in Nat
         /\ IsInjective(own) /\ ToSet(own) \subseteq live /\ live \subseteq Objects
         /\ content \in [Objects -> SUBSET Parts]
<1>1. own \in Seq(Objects) /\ Len(own) \in Nat
  BY LenProperties DEF FieldInv, Shape
<1> QED
  BY <1>1, BoundAssumption DEF FieldInv, Shape, OwnedOnce

LEMMA ReservedFits ==
  ASSUME NEW total \in Nat, NEW size \in Nat
  PROVE  /\ Reserved(total, size) \in Nat
         /\ total <= Reserved(total, size) /\ size <= Reserved(total, size)
         /\ size <= total => Reserved(total, size) = total
<1>1. CASE total >= size
  BY <1>1 DEF Reserved
<1>2. CASE ~(total >= size)
  <2> DEFINE k == kMinRepeatedFieldAllocationSize
             S == {k, total * 2, size}
             m == Max(S)
  <2>1. k \in Nat /\ total * 2 \in Nat
    BY SizeAssumption
  <2>2. \E x \in S : \A y \in S : x >= y
    <3>1. CASE k >= total * 2 /\ k >= size
      BY <2>1, <3>1
    <3>2. CASE total * 2 >= k /\ total * 2 >= size
      BY <2>1, <3>2
    <3>3. CASE size >= k /\ size >= total * 2
      BY <2>1, <3>3
    <3> QED  BY <2>1, <3>1, <3>2, <3>3
  <2>3. m \in S /\ \A y \in S : m >= y
    BY <2>2 DEF Max
  <2>4. Reserved(total, size) = m
    BY <1>2 DEF Reserved
  <2> HIDE DEF m
  <2>5. m \in Nat /\ m >= size
    BY <2>1, <2>3
  <2> QED  BY <1>2, <2>4, <2>5
<1> QED
  BY <1>1, <1>2

-----------------------------------------------------------------------------
(* Every operation keeps it.                                               *)

\* Nothing moves.
LEMMA SamePointers ==
  ASSUME FieldInv, NEW f \in FieldNames, UNCHANGED <<elements, own, live>>
  PROVE  SharesOut(f)
<1>1. /\ IsInjective(elements[f]) /\ ToSet(elements[f]) \subseteq live
      /\ ToSet(elements[f]) \cap ToSet(own) = {}
  BY Of
<1>2. IsInjective(own) /\ ToSet(own) \subseteq live
  BY OfCaller
<1> QED
  BY <1>1, <1>2 DEF SharesOut

LEMMA ReserveKeeps ==
  ASSUME FieldInv, NEW f \in FieldNames, NEW n \in Nat, Reserve(f, n)
  PROVE  FieldInv'
<1> DEFINE total == Reserved(total_size[f], n)
<1>1. total \in Nat /\ total_size[f] \in Nat /\ total_size[f] <= total
  BY Of, ReservedFits
<1>2. /\ total_size' = [total_size EXCEPT ![f] = total]
      /\ UNCHANGED <<elements, current_size, live, own, content>>
  BY DEF Reserve
<1> HIDE DEF total
<1>3. OnlyOf(f) /\ total_size'[f] = total
  BY <1>2 DEF OnlyOf, FieldInv, Shape
<1>4. SizesFit(f)
  BY <1>1, <1>2, <1>3, Of, OfCaller DEF SizesFit
<1>5. SharesOut(f)
  BY <1>2, SamePointers
<1>6. Contents(f)
  BY <1>2, Of, OfCaller DEF Contents
<1> QED
  BY <1>3, <1>4, <1>5, <1>6, FieldChange

LEMMA RemoveLastKeeps ==
  ASSUME FieldInv, NEW f \in FieldNames, RemoveLast(f)
  PROVE  FieldInv'
<1> DEFINE s == elements[f]
           n == current_size[f]
<1>1. /\ s \in Seq(Objects) /\ Len(s) \in Nat /\ n \in Nat /\ n <= Len(s)
      /\ \A i \in n + 1..Len(s) : content[s[i]] = {}
  BY Of
<1>2. n \in 1..Len(s) /\ n - 1 \in Nat
  BY <1>1 DEF RemoveLast
<1>3. s[n] \in Objects /\ s[n] \in ToSet(s)
  BY <1>1, <1>2, Elements
<1>4. /\ content' = [content EXCEPT ![s[n]] = {}]
      /\ current_size' = [current_size EXCEPT ![f] = n - 1]
      /\ UNCHANGED <<elements, total_size, live, own>>
  BY DEF RemoveLast
<1>5. /\ content' \in [Objects -> SUBSET Parts] /\ content'[s[n]] = {}
      /\ \A o \in Objects : o # s[n] => content'[o] = content[o]
  BY <1>3, <1>4, OfCaller
<1>6. OnlyOf(f) /\ current_size'[f] = n - 1
  BY <1>4 DEF OnlyOf, FieldInv, Shape
<1>7. SizesFit(f)
  BY <1>1, <1>2, <1>4, <1>6, Of, OfCaller DEF SizesFit
<1>8. SharesOut(f)
  BY <1>4, SamePointers
<1>9. Contents(f)
  <2>1. ASSUME NEW i \in n..Len(s)  PROVE content'[s[i]] = {}
    <3>1. i \in 1..Len(s) /\ s[i] \in Objects
      BY <1>1, <1>2, Elements
    <3>2. CASE i = n
      BY <1>5, <3>2
    <3>3. CASE i # n
      <4>1. content[s[i]] = {}
        BY <1>1, <1>2, <3>3
      <4> QED  BY <1>5, <3>1, <4>1
    <3> QED  BY <3>2, <3>3
  <2>2. n - 1 + 1 = n /\ elements' = elements
    BY <1>2, <1>4
  <2>3. \A i \in current_size'[f] + 1..Len(elements'[f]) : content'[elements'[f][i]] = {}
    BY <1>6, <2>1, <2>2
  <2>4. \A o \in live : o \notin ToSet(s) \cup ToSet(own) => content'[o] = content[o]
    BY <1>3, <1>5, OfCaller
  <2> QED  BY <1>5, <2>3, <2>4 DEF Contents
<1> QED
  BY <1>6, <1>7, <1>8, <1>9, FieldChange

LEMMA ClearedContentOf ==
  ASSUME FieldInv, NEW f \in FieldNames
  PROVE  /\ ClearedContent(f) \in [Objects -> SUBSET Parts]
         /\ \A i \in 1..Len(elements[f]) : ClearedContent(f)[elements[f][i]] = {}
         /\ \A o \in Objects : o \notin ToSet(elements[f]) => ClearedContent(f)[o] = content[o]
<1> DEFINE s == elements[f]
           n == current_size[f]
           c == ClearedContent(f)
<1>1. /\ s \in Seq(Objects) /\ Len(s) \in Nat /\ n \in Nat /\ n <= Len(s)
      /\ \A i \in n + 1..Len(s) : content[s[i]] = {}
  BY Of
<1>2. content \in [Objects -> SUBSET Parts]
  BY OfCaller
<1>3. /\ c \in [Objects -> SUBSET Parts]
      /\ \A o \in Objects :
           c[o] = IF \E i \in 1..n : s[i] = o THEN {} ELSE content[o]
  BY <1>2 DEF ClearedContent
<1> HIDE DEF c
<1>4. ASSUME NEW i \in 1..Len(s)  PROVE c[s[i]] = {}
  <2>1. s[i] \in Objects
    BY <1>1, Elements
  <2>2. CASE i \in 1..n
    BY <1>3, <2>1, <2>2
  <2>3. CASE i \notin 1..n
    <3>1. i \in n + 1..Len(s)
      BY <1>1, <2>3
    <3>2. content[s[i]] = {}
      BY <1>1, <3>1
    <3> QED  BY <1>3, <2>1, <3>2
  <2> QED  BY <2>2, <2>3
<1>5. ASSUME NEW o \in Objects, o \notin ToSet(s)  PROVE c[o] = content[o]
  <2>1. \A i \in 1..n : i \in 1..Len(s)
    BY <1>1
  <2>2. \A i \in 1..n : s[i] # o
    BY <1>1, <1>5, <2>1, Elements
  <2> QED  BY <1>3, <2>2
<1> QED
  BY <1>3, <1>4, <1>5 DEF c

LEMMA ClearKeeps ==
  ASSUME FieldInv, NEW f \in FieldNames, Clear(f)
  PROVE  FieldInv'
<1> DEFINE s == elements[f]
<1>1. /\ content' = ClearedContent(f)
      /\ current_size' = [current_size EXCEPT ![f] = 0]
      /\ UNCHANGED <<elements, total_size, live, own>>
  BY DEF Clear
<1>2. /\ content' \in [Objects -> SUBSET Parts]
      /\ \A i \in 1..Len(s) : content'[s[i]] = {}
      /\ \A o \in Objects : o \notin ToSet(s) => content'[o] = content[o]
  BY <1>1, ClearedContentOf
<1>3. OnlyOf(f) /\ current_size'[f] = 0
  BY <1>1 DEF OnlyOf, FieldInv, Shape
<1>4. SizesFit(f)
  BY <1>1, <1>3, Of, OfCaller DEF SizesFit
<1>5. SharesOut(f)
  BY <1>1, SamePointers
<1>6. Contents(f)
  BY <1>1, <1>2, <1>3, OfCaller DEF Contents
<1> QED
  BY <1>3, <1>4, <1>5, <1>6, FieldChange

LEMMA OneIsFresh ==
  ASSUME live \subseteq Objects, CanNew(1)
  PROVE  New(1)[1] \in Objects /\ New(1)[1] \notin live
<1> DEFINE fresh == New(1)
<1>1. fresh \in Seq(Objects) /\ Len(fresh) = 1 /\ ToSet(fresh) \subseteq Objects \ live
  BY NewIsFresh
<1> HIDE DEF fresh
<1>2. fresh[1] \in ToSet(fresh)
  BY <1>1, Elements
<1>3. fresh[1] \in Objects \ live
  BY <1>1, <1>2
<1> QED
  BY <1>3 DEF fresh

LEMMA AddKeeps ==
  ASSUME FieldInv, NEW f \in FieldNames, Add(f)
  PROVE  FieldInv'
<1> DEFINE s == elements[f]
           n == current_size[f]
           o == New(1)[1]
<1>1. /\ s \in Seq(Objects) /\ Len(s) \in Nat /\ n \in Nat /\ n <= Len(s)
      /\ total_size[f] \in Nat /\ Len(s) <= total_size[f]
      /\ IsInjective(s) /\ ToSet(s) \subseteq live /\ ToSet(s) \cap ToSet(own) = {}
      /\ \A i \in n + 1..Len(s) : content[s[i]] = {}
  BY Of
<1>2. /\ own \in Seq(Objects) /\ Len(own) <= MaxOwn
      /\ IsInjective(own) /\ ToSet(own) \subseteq live /\ live \subseteq Objects
      /\ content \in [Objects -> SUBSET Parts]
  BY OfCaller
<1>3. current_size' = [current_size EXCEPT ![f] = n + 1] /\ own' = own
  BY DEF Add
<1>4. current_size'[f] = n + 1
  BY <1>3 DEF FieldInv, Shape
<1>5. CASE /\ n < Len(s) /\ UNCHANGED <<elements, total_size, live, content>>
  <2>1. OnlyOf(f)
    BY <1>3, <1>5 DEF OnlyOf, FieldInv, Shape
  <2>2. SizesFit(f)
    BY <1>1, <1>2, <1>3, <1>4, <1>5 DEF SizesFit
  <2>3. SharesOut(f)
    BY <1>3, <1>5, SamePointers
  <2>4. Contents(f)
    <3>1. \A i \in n + 1 + 1..Len(s) : i \in n + 1..Len(s)
      BY <1>1
    <3> QED  BY <1>1, <1>2, <1>4, <1>5, <3>1 DEF Contents
  <2> QED  BY <2>1, <2>2, <2>3, <2>4, FieldChange
<1>6. CASE /\ n = Len(s) /\ CanNew(1)
           /\ elements' = [elements EXCEPT ![f] = Append(s, o)]
           /\ live' = live \cup {o} /\ content' = [content EXCEPT ![o] = {}]
           /\ total_size' = IF Len(s) = total_size[f]
                            THEN [total_size EXCEPT ![f] = Reserved(@, @ + 1)] ELSE total_size
  <2>1. o \in Objects /\ o \notin live
    BY <1>2, <1>6, OneIsFresh
  <2> DEFINE t == Append(s, o)
             total == IF Len(s) = total_size[f] THEN Reserved(total_size[f], total_size[f] + 1)
                      ELSE total_size[f]
  <2> HIDE DEF o
  <2>2. t \in Seq(Objects) /\ Len(t) = Len(s) + 1 /\ ToSet(t) = ToSet(s) \cup {o} /\ IsInjective(t)
    <3>1. o \notin ToSet(s)
      BY <1>1, <2>1
    <3> QED  BY <1>1, <2>1, <3>1, AppendOne
  <2>3. total \in Nat /\ Len(s) + 1 <= total
    <3>1. CASE Len(s) = total_size[f]
      <4>1. total = Reserved(total_size[f], total_size[f] + 1) /\ total_size[f] + 1 \in Nat
        BY <1>1, <3>1
      <4> HIDE DEF total
      <4> QED  BY <1>1, <3>1, <4>1, ReservedFits
    <3>2. CASE Len(s) # total_size[f]
      BY <1>1, <3>2
    <3> QED  BY <3>1, <3>2
  <2>4. elements' = [elements EXCEPT ![f] = t] /\ total_size' = [total_size EXCEPT ![f] = total]
    <3>1. CASE Len(s) = total_size[f]
      BY <1>6, <3>1
    <3>2. CASE Len(s) # total_size[f]
      BY <1>6, <3>2 DEF FieldInv, Shape
    <3> QED  BY <3>1, <3>2
  <2> HIDE DEF t, total
  <2>5. OnlyOf(f) /\ elements'[f] = t /\ total_size'[f] = total
    BY <1>3, <1>4, <2>4 DEF OnlyOf, FieldInv, Shape
  <2>6. SizesFit(f)
    BY <1>1, <1>2, <1>3, <1>4, <1>6, <2>2, <2>3, <2>5 DEF SizesFit
  <2>7. SharesOut(f)
    BY <1>1, <1>2, <1>3, <1>6, <2>1, <2>2, <2>5 DEF SharesOut
  <2>8. Contents(f)
    <3>1. content' \in [Objects -> SUBSET Parts]
      BY <1>2, <1>6
    <3>2. \A p \in live : content'[p] = content[p]
      BY <1>2, <1>6, <2>1
    <3>3. n + 1 = Len(t)
      BY <1>6, <2>2
    <3>4. current_size'[f] + 1..Len(elements'[f]) = {}
      BY <1>1, <1>4, <2>5, <3>3
    <3> QED  BY <3>1, <3>2, <3>4 DEF Contents
  <2> QED  BY <2>5, <2>6, <2>7, <2>8, FieldChange
<1>7. QED
  BY <1>5, <1>6 DEF Add, allocated_size

LEMMA SwapElementsKeeps ==
  ASSUME FieldInv, NEW f \in FieldNames, NEW i \in 1..current_size[f],
         NEW j \in 1..current_size[f], SwapElements(f, i, j)
  PROVE  FieldInv'
<1> DEFINE s == elements[f]
           n == current_size[f]
           t == [s EXCEPT ![i] = s[j], ![j] = s[i]]
<1>1. /\ s \in Seq(Objects) /\ Len(s) \in Nat /\ n \in Nat /\ n <= Len(s)
      /\ IsInjective(s) /\ ToSet(s) \subseteq live /\ ToSet(s) \cap ToSet(own) = {}
      /\ \A k \in n + 1..Len(s) : content[s[k]] = {}
  BY Of
<1>2. i \in 1..Len(s) /\ j \in 1..Len(s)
  BY <1>1
<1>3. /\ t \in Seq(Objects) /\ Len(t) = Len(s) /\ ToSet(t) = ToSet(s) /\ IsInjective(t)
      /\ \A k \in 1..Len(s) : t[k] = IF k = j THEN s[i] ELSE IF k = i THEN s[j] ELSE s[k]
  BY <1>1, <1>2, Exchanged, SMTT(30)
<1>4. /\ elements' = [elements EXCEPT ![f] = t]
      /\ UNCHANGED <<current_size, total_size, live, content, own>>
  BY DEF SwapElements, FieldInv, Shape
<1> HIDE DEF t
<1>5. OnlyOf(f) /\ elements'[f] = t
  BY <1>4 DEF OnlyOf, FieldInv, Shape
<1>6. SizesFit(f)
  BY <1>3, <1>4, <1>5, Of, OfCaller DEF SizesFit
<1>7. SharesOut(f)
  BY <1>1, <1>3, <1>4, <1>5, OfCaller DEF SharesOut
<1>8. Contents(f)
  <2>1. ASSUME NEW k \in n + 1..Len(s)  PROVE content[t[k]] = {}
    <3>1. k \in 1..Len(s) /\ k # i /\ k # j
      BY <1>1
    <3>2. t[k] = s[k]
      BY <1>3, <3>1
    <3> QED  BY <1>1, <3>2
  <2> QED  BY <1>3, <1>4, <1>5, <2>1, OfCaller DEF Contents
<1> QED
  BY <1>5, <1>6, <1>7, <1>8, FieldChange

LEMMA GapCloses ==
  ASSUME FieldInv, NEW f \in FieldNames, NEW start \in Nat, NEW num \in Nat,
         start + num <= current_size[f], CloseGap(f, start, num)
  PROVE  /\ OnlyOf(f) /\ UNCHANGED <<total_size, content>>
         /\ elements'[f] \in Seq(Objects) /\ Len(elements'[f]) = Len(elements[f]) - num
         /\ current_size'[f] \in Nat /\ current_size'[f] <= Len(elements'[f])
         /\ Len(elements'[f]) <= total_size'[f] /\ total_size'[f] \in Nat
         /\ \A i \in current_size'[f] + 1..Len(elements'[f]) : content'[elements'[f][i]] = {}
         /\ Gap(f, start, num) \in Seq(Objects) /\ Len(Gap(f, start, num)) = num
         /\ IsInjective(elements'[f]) /\ IsInjective(Gap(f, start, num))
         /\ ToSet(elements'[f]) = ToSet(elements[f]) \ ToSet(Gap(f, start, num))
         /\ ToSet(Gap(f, start, num)) \subseteq ToSet(elements[f])
<1> DEFINE s == elements[f]
           n == current_size[f]
           len == Len(s)
           t == Closed(s, start, num)
           gap == Cut(s, start, num)
<1>1. /\ s \in Seq(Objects) /\ len \in Nat /\ n \in Nat /\ n <= len
      /\ total_size[f] \in Nat /\ len <= total_size[f] /\ IsInjective(s)
      /\ \A i \in n + 1..len : content[s[i]] = {}
  BY Of
<1>2. /\ t \in Seq(Objects) /\ Len(t) = len - num
      /\ \A i \in 1..(len - num - start) : t[start + i] = s[start + num + i]
      /\ gap \in Seq(Objects) /\ Len(gap) = num
      /\ IsInjective(t) /\ IsInjective(gap)
      /\ ToSet(t) = ToSet(s) \ ToSet(gap) /\ ToSet(gap) \subseteq ToSet(s)
  <2>1. s \in Seq(Objects) /\ IsInjective(s) /\ start + num <= Len(s)
    BY <1>1
  <2> HIDE DEF s
  <2>2. /\ Closed(s, start, num) \in Seq(Objects) /\ Len(Closed(s, start, num)) = Len(s) - num
        /\ \A i \in 1..start : Closed(s, start, num)[i] = s[i]
        /\ \A i \in 1..(Len(s) - num - start) :
             Closed(s, start, num)[start + i] = s[start + num + i]
        /\ Cut(s, start, num) \in Seq(Objects) /\ Len(Cut(s, start, num)) = num
        /\ \A i \in 1..num : Cut(s, start, num)[i] = s[start + i]
        /\ IsInjective(Closed(s, start, num)) /\ IsInjective(Cut(s, start, num))
        /\ ToSet(Closed(s, start, num)) = ToSet(s) \ ToSet(Cut(s, start, num))
        /\ ToSet(Cut(s, start, num)) \subseteq ToSet(s)
    BY <2>1, WithoutGap
  <2> QED  BY <2>2
<1>3. /\ elements' = [elements EXCEPT ![f] = t]
      /\ current_size' = [current_size EXCEPT ![f] = n - num]
      /\ UNCHANGED <<total_size, content>>
  BY DEF CloseGap, Closed
<1>4. Gap(f, start, num) = gap
  BY DEF Gap, Cut
<1> HIDE DEF t, gap
<1>5. OnlyOf(f) /\ elements'[f] = t /\ current_size'[f] = n - num
  BY <1>3 DEF OnlyOf, FieldInv, Shape
<1>6. n - num \in Nat /\ n - num <= len - num /\ len - num <= total_size[f]
  BY <1>1
<1>7. ASSUME NEW i \in n - num + 1..len - num  PROVE content[t[i]] = {}
  <2>1. i - start \in 1..(len - num - start) /\ i + num \in n + 1..len
    BY <1>1
  <2>2. start + (i - start) = i /\ start + num + (i - start) = i + num
    BY <1>1
  <2>3. t[i] = s[i + num]
    BY <1>2, <2>1, <2>2
  <2> QED  BY <1>1, <2>1, <2>3
<1> QED
  BY <1>2, <1>3, <1>4, <1>5, <1>6, <1>7, <1>1

LEMMA ExtractSubrangeKeeps ==
  ASSUME FieldInv, NEW f \in FieldNames, NEW start \in Nat, NEW num \in Nat,
         start + num <= current_size[f], ExtractSubrange(f, start, num)
  PROVE  FieldInv'
<1> DEFINE gap == Gap(f, start, num)
<1>1. /\ OnlyOf(f) /\ UNCHANGED <<total_size, content>>
      /\ elements'[f] \in Seq(Objects)
      /\ current_size'[f] \in Nat /\ current_size'[f] <= Len(elements'[f])
      /\ Len(elements'[f]) <= total_size'[f] /\ total_size'[f] \in Nat
      /\ \A i \in current_size'[f] + 1..Len(elements'[f]) : content'[elements'[f][i]] = {}
      /\ gap \in Seq(Objects) /\ Len(gap) = num
      /\ IsInjective(elements'[f]) /\ IsInjective(gap)
      /\ ToSet(elements'[f]) = ToSet(elements[f]) \ ToSet(gap)
      /\ ToSet(gap) \subseteq ToSet(elements[f])
  BY GapCloses DEF ExtractSubrange
<1>2. Len(own) + num <= MaxOwn /\ own' = own \o gap /\ live' = live
  BY DEF ExtractSubrange
<1>3. /\ own \in Seq(Objects) /\ IsInjective(own) /\ ToSet(own) \subseteq live
      /\ content \in [Objects -> SUBSET Parts]
  BY OfCaller
<1>4. ToSet(elements[f]) \subseteq live /\ ToSet(elements[f]) \cap ToSet(own) = {}
  BY Of
<1> HIDE DEF gap
<1>5. /\ own' \in Seq(Objects) /\ Len(own') = Len(own) + Len(gap)
      /\ ToSet(own') = ToSet(own) \cup ToSet(gap) /\ IsInjective(own')
  <2>1. ToSet(own) \cap ToSet(gap) = {}
    BY <1>1, <1>4
  <2> QED  BY <1>1, <1>2, <1>3, <2>1, Joined
<1>6. SizesFit(f)
  BY <1>1, <1>2, <1>5 DEF SizesFit
<1>7. SharesOut(f)
  BY <1>1, <1>2, <1>3, <1>4, <1>5 DEF SharesOut
<1>8. Contents(f)
  BY <1>1, <1>3 DEF Contents
<1> QED
  BY <1>1, <1>6, <1>7, <1>8, FieldChange

LEMMA DeleteSubrangeKeeps ==
  ASSUME FieldInv, NEW f \in FieldNames, NEW start \in Nat, NEW num \in Nat,
         start + num <= current_size[f], DeleteSubrange(f, start, num)
  PROVE  FieldInv'
<1> DEFINE gap == Gap(f, start, num)
<1>1. /\ OnlyOf(f) /\ UNCHANGED <<total_size, content>>
      /\ elements'[f] \in Seq(Objects)
      /\ current_size'[f] \in Nat /\ current_size'[f] <= Len(elements'[f])
      /\ Len(elements'[f]) <= total_size'[f] /\ total_size'[f] \in Nat
      /\ \A i \in current_size'[f] + 1..Len(elements'[f]) : content'[elements'[f][i]] = {}
      /\ IsInjective(elements'[f])
      /\ ToSet(elements'[f]) = ToSet(elements[f]) \ ToSet(gap)
      /\ ToSet(gap) \subseteq ToSet(elements[f])
  BY GapCloses DEF DeleteSubrange
<1>2. own' = own /\ live' = live \ ToSet(gap)
  BY DEF DeleteSubrange
<1>3. /\ own \in Seq(Objects) /\ IsInjective(own) /\ ToSet(own) \subseteq live
      /\ content \in [Objects -> SUBSET Parts] /\ Len(own) <= MaxOwn
  BY OfCaller
<1>4. ToSet(elements[f]) \subseteq live /\ ToSet(elements[f]) \cap ToSet(own) = {}
  BY Of
<1> HIDE DEF gap
<1>6. SizesFit(f)
  BY <1>1, <1>2, <1>3 DEF SizesFit
<1>7. SharesOut(f)
  BY <1>1, <1>2, <1>3, <1>4 DEF SharesOut
<1>8. Contents(f)
  BY <1>1, <1>3 DEF Contents
<1> QED
  BY <1>1, <1>6, <1>7, <1>8, FieldChange

\* The caller's last object, which the field takes.
LEMMA Taken ==
  ASSUME FieldInv, own # << >>, own' = Front(own), NEW f \in FieldNames
  PROVE  /\ own' \in Seq(Objects) /\ Len(own') <= MaxOwn /\ IsInjective(own')
         /\ Last(own) \in ToSet(own) /\ Last(own) \in Objects /\ Last(own) \in live
         /\ Last(own) \notin ToSet(elements[f])
         /\ ToSet(own') = ToSet(own) \ {Last(own)}
<1>1. own \in Seq(Objects) /\ Len(own) <= MaxOwn /\ MaxOwn \in Nat
      /\ IsInjective(own) /\ ToSet(own) \subseteq live
  BY OfCaller
<1>2. ToSet(elements[f]) \cap ToSet(own) = {}
  BY Of
<1>3. /\ own' \in Seq(Objects) /\ Len(own) \in Nat /\ Len(own') = Len(own) - 1
      /\ Last(own) \in ToSet(own) /\ Last(own) \in Objects
      /\ IsInjective(own') /\ ToSet(own') = ToSet(own) \ {Last(own)}
  BY <1>1, WithoutLast
<1> QED
  BY <1>1, <1>2, <1>3

\* What leaves f goes to the end of the caller's objects.
LEMMA Given ==
  ASSUME FieldInv, Len(own) < MaxOwn, NEW f \in FieldNames,
         NEW o \in ToSet(elements[f]), own' = Append(own, o)
  PROVE  /\ own' \in Seq(Objects) /\ Len(own') <= MaxOwn /\ IsInjective(own')
         /\ ToSet(own') = ToSet(own) \cup {o}
<1>1. own \in Seq(Objects) /\ Len(own) \in Nat /\ MaxOwn \in Nat /\ IsInjective(own)
  BY OfCaller
<1>2. /\ elements[f] \in Seq(Objects) /\ ToSet(elements[f]) \cap ToSet(own) = {}
  BY Of
<1>3. o \in Objects /\ o \notin ToSet(own)
  BY <1>2, Elements
<1>4. /\ own' \in Seq(Objects) /\ Len(own') = Len(own) + 1
      /\ ToSet(own') = ToSet(own) \cup {o} /\ IsInjective(own')
  BY <1>1, <1>3, AppendOne
<1> QED
  BY <1>1, <1>4

LEMMA AddClearedKeeps ==
  ASSUME FieldInv, NEW f \in FieldNames, AddCleared(f)
  PROVE  FieldInv'
<1> DEFINE s == elements[f]
           n == current_size[f]
           o == Last(own)
           t == Append(s, o)
           total == IF Len(s) = total_size[f] THEN Reserved(total_size[f], total_size[f] + 1)
                    ELSE total_size[f]
<1>1. /\ s \in Seq(Objects) /\ Len(s) \in Nat /\ n \in Nat /\ n <= Len(s)
      /\ total_size[f] \in Nat /\ Len(s) <= total_size[f]
      /\ IsInjective(s) /\ ToSet(s) \subseteq live /\ ToSet(s) \cap ToSet(own) = {}
      /\ \A i \in n + 1..Len(s) : content[s[i]] = {}
  BY Of
<1>2. /\ ToSet(own) \subseteq live /\ content \in [Objects -> SUBSET Parts]
  BY OfCaller
<1>3. /\ own' \in Seq(Objects) /\ Len(own') <= MaxOwn /\ IsInjective(own')
      /\ o \in ToSet(own) /\ o \in Objects /\ o \notin ToSet(s)
      /\ ToSet(own') = ToSet(own) \ {o}
  BY Taken DEF AddCleared
<1>4. /\ content[o] = {} /\ UNCHANGED <<current_size, live, content>>
      /\ elements' = [elements EXCEPT ![f] = t]
  BY DEF AddCleared
<1>5. total_size' = [total_size EXCEPT ![f] = total]
  <2>1. CASE Len(s) = total_size[f]
    BY <2>1 DEF AddCleared, allocated_size
  <2>2. CASE Len(s) # total_size[f]
    BY <2>2 DEF AddCleared, allocated_size, FieldInv, Shape
  <2> QED  BY <2>1, <2>2
<1>6. total \in Nat /\ Len(s) + 1 <= total
  <2>1. CASE Len(s) = total_size[f]
    <3>1. total = Reserved(total_size[f], total_size[f] + 1) /\ total_size[f] + 1 \in Nat
      BY <1>1, <2>1
    <3> HIDE DEF total
    <3> QED  BY <1>1, <2>1, <3>1, ReservedFits
  <2>2. CASE Len(s) # total_size[f]
    BY <1>1, <2>2
  <2> QED  BY <2>1, <2>2
<1> HIDE DEF o, total
<1>7. /\ t \in Seq(Objects) /\ Len(t) = Len(s) + 1 /\ ToSet(t) = ToSet(s) \cup {o}
      /\ IsInjective(t) /\ t[Len(s) + 1] = o /\ \A i \in 1..Len(s) : t[i] = s[i]
  BY <1>1, <1>3, AppendOne
<1> HIDE DEF t
<1>8. OnlyOf(f) /\ elements'[f] = t /\ total_size'[f] = total
  BY <1>4, <1>5 DEF OnlyOf, FieldInv, Shape
<1>9. SizesFit(f)
  BY <1>1, <1>3, <1>4, <1>6, <1>7, <1>8 DEF SizesFit
<1>10. SharesOut(f)
  BY <1>1, <1>2, <1>3, <1>4, <1>7, <1>8 DEF SharesOut
<1>11. Contents(f)
  <2>1. ASSUME NEW i \in n + 1..Len(s) + 1  PROVE content[t[i]] = {}
    <3>1. CASE i = Len(s) + 1
      BY <1>4, <1>7, <3>1
    <3>2. CASE i # Len(s) + 1
      <4>1. i \in n + 1..Len(s) /\ i \in 1..Len(s)
        BY <1>1, <3>2
      <4> QED  BY <1>1, <1>7, <4>1
    <3> QED  BY <3>1, <3>2
  <2> QED  BY <1>2, <1>4, <1>7, <1>8, <2>1 DEF Contents
<1> QED
  BY <1>8, <1>9, <1>10, <1>11, FieldChange

LEMMA ReleaseClearedKeeps ==
  ASSUME FieldInv, NEW f \in FieldNames, ReleaseCleared(f)
  PROVE  FieldInv'
<1> DEFINE s == elements[f]
           n == current_size[f]
           o == Last(s)
           t == Front(s)
<1>1. /\ s \in Seq(Objects) /\ Len(s) \in Nat /\ n \in Nat /\ n <= Len(s)
      /\ total_size[f] \in Nat /\ Len(s) <= total_size[f]
      /\ IsInjective(s) /\ ToSet(s) \subseteq live /\ ToSet(s) \cap ToSet(own) = {}
      /\ \A i \in n + 1..Len(s) : content[s[i]] = {}
  BY Of
<1>2. /\ ToSet(own) \subseteq live /\ content \in [Objects -> SUBSET Parts]
  BY OfCaller
<1>3. /\ n < Len(s) /\ Len(own) < MaxOwn /\ own' = Append(own, o)
      /\ elements' = [elements EXCEPT ![f] = t]
      /\ UNCHANGED <<current_size, total_size, live, content>>
  BY <1>1 DEF ReleaseCleared, allocated_size
<1>4. /\ t \in Seq(Objects) /\ Len(t) = Len(s) - 1 /\ \A i \in 1..Len(s) - 1 : t[i] = s[i]
      /\ o \in ToSet(s) /\ IsInjective(t) /\ ToSet(t) = ToSet(s) \ {o}
  <2>1. s # << >>
    BY <1>1, <1>3, EmptyHolds
  <2> QED  BY <1>1, <2>1, WithoutLast
<1>5. /\ own' \in Seq(Objects) /\ Len(own') <= MaxOwn /\ IsInjective(own')
      /\ ToSet(own') = ToSet(own) \cup {o}
  BY <1>3, <1>4, Given
<1> HIDE DEF o, t
<1>6. OnlyOf(f) /\ elements'[f] = t
  BY <1>3 DEF OnlyOf, FieldInv, Shape
<1>7. SizesFit(f)
  BY <1>1, <1>3, <1>4, <1>5, <1>6 DEF SizesFit
<1>8. SharesOut(f)
  BY <1>1, <1>2, <1>3, <1>4, <1>5, <1>6 DEF SharesOut
<1>9. Contents(f)
  <2>1. ASSUME NEW i \in n + 1..Len(s) - 1  PROVE content[t[i]] = {}
    <3>1. i \in n + 1..Len(s) /\ i \in 1..Len(s) - 1
      BY <1>1
    <3> QED  BY <1>1, <1>4, <3>1
  <2> QED  BY <1>2, <1>3, <1>4, <1>6, <2>1 DEF Contents
<1> QED
  BY <1>6, <1>7, <1>8, <1>9, FieldChange

LEMMA DestroyKeeps ==
  ASSUME FieldInv, NEW f \in FieldNames, Destroy(f)
  PROVE  FieldInv'
<1> DEFINE s == elements[f]
           t == << >>
<1>1. ToSet(s) \subseteq live /\ ToSet(s) \cap ToSet(own) = {}
  BY Of
<1>2. /\ own \in Seq(Objects) /\ Len(own) <= MaxOwn /\ IsInjective(own)
      /\ ToSet(own) \subseteq live /\ content \in [Objects -> SUBSET Parts]
  BY OfCaller
<1>3. /\ live' = live \ ToSet(s) /\ elements' = [elements EXCEPT ![f] = t]
      /\ current_size' = [current_size EXCEPT ![f] = 0]
      /\ total_size' = [total_size EXCEPT ![f] = 0]
      /\ UNCHANGED <<content, own>>
  BY DEF Destroy
<1>4. t \in Seq(Objects) /\ ToSet(t) = {} /\ IsInjective(t) /\ Len(t) = 0
  BY EmptyHolds
<1> HIDE DEF t
<1>5. OnlyOf(f) /\ elements'[f] = t /\ current_size'[f] = 0 /\ total_size'[f] = 0
  BY <1>3 DEF OnlyOf, FieldInv, Shape
<1>6. SizesFit(f)
  <2>1. elements'[f] \in Seq(Objects) /\ Len(elements'[f]) = 0
    BY <1>4, <1>5
  <2>2. current_size'[f] \in Nat /\ total_size'[f] \in Nat
    BY <1>5
  <2>3. current_size'[f] <= Len(elements'[f]) /\ Len(elements'[f]) <= total_size'[f]
    BY <1>5, <2>1
  <2> QED  BY <1>2, <1>3, <2>1, <2>2, <2>3 DEF SizesFit
<1>7. SharesOut(f)
  BY <1>1, <1>2, <1>3, <1>4, <1>5 DEF SharesOut
<1>8. Contents(f)
  BY <1>2, <1>3, <1>4, <1>5 DEF Contents
<1> QED
  BY <1>5, <1>6, <1>7, <1>8, FieldChange

LEMMA CallerNewKeeps ==
  ASSUME FieldInv, CallerNew
  PROVE  FieldInv'
<1> DEFINE o == New(1)[1]
<1>1. /\ own \in Seq(Objects) /\ Len(own) \in Nat /\ MaxOwn \in Nat /\ IsInjective(own)
      /\ ToSet(own) \subseteq live /\ live \subseteq Objects
      /\ content \in [Objects -> SUBSET Parts]
  BY OfCaller
<1>2. /\ Len(own) < MaxOwn /\ CanNew(1) /\ own' = Append(own, o) /\ live' = live \cup {o}
      /\ content' = [content EXCEPT ![o] = {}]
      /\ UNCHANGED <<elements, current_size, total_size>>
  BY DEF CallerNew
<1>3. o \in Objects /\ o \notin live
  BY <1>1, <1>2, OneIsFresh
<1> HIDE DEF o
<1>4. /\ own' \in Seq(Objects) /\ Len(own') = Len(own) + 1
      /\ ToSet(own') = ToSet(own) \cup {o} /\ IsInjective(own')
  <2>1. o \notin ToSet(own)
    BY <1>1, <1>3
  <2> QED  BY <1>1, <1>2, <1>3, <2>1, AppendOne
<1>5. /\ content' \in [Objects -> SUBSET Parts]
      /\ \A p \in live : content'[p] = content[p]
  BY <1>1, <1>2, <1>3
<1>6. /\ Len(own') <= MaxOwn /\ ToSet(own') \subseteq ToSet(own) \cup (Objects \ live)
      /\ live' = (live \ ToSet(own)) \cup ToSet(own')
  BY <1>1, <1>2, <1>3, <1>4
<1> QED
  BY <1>2, <1>4, <1>5, <1>6, CallerStep

LEMMA CallerDeleteKeeps ==
  ASSUME FieldInv, CallerDelete
  PROVE  FieldInv'
<1>1. /\ own \in Seq(Objects) /\ Len(own) \in Nat /\ Len(own) <= MaxOwn /\ MaxOwn \in Nat
      /\ IsInjective(own) /\ ToSet(own) \subseteq live
      /\ content \in [Objects -> SUBSET Parts]
  BY OfCaller
<1>2. /\ own # << >> /\ own' = Front(own) /\ live' = live \ {Last(own)}
      /\ UNCHANGED <<elements, current_size, total_size, content>>
  BY DEF CallerDelete
<1>3. /\ own' \in Seq(Objects) /\ Len(own') = Len(own) - 1 /\ Last(own) \in ToSet(own)
      /\ IsInjective(own') /\ ToSet(own') = ToSet(own) \ {Last(own)}
  BY <1>1, <1>2, WithoutLast
<1>4. /\ Len(own') <= MaxOwn /\ ToSet(own') \subseteq ToSet(own) \cup (Objects \ live)
      /\ live' = (live \ ToSet(own)) \cup ToSet(own')
  BY <1>1, <1>2, <1>3
<1> QED
  BY <1>1, <1>2, <1>3, <1>4, CallerStep

LEMMA MutableKeeps ==
  ASSUME FieldInv, Mutable
  PROVE  FieldInv'
<1>1. /\ own \in Seq(Objects) /\ Len(own) <= MaxOwn /\ IsInjective(own)
      /\ ToSet(own) \subseteq live /\ content \in [Objects -> SUBSET Parts]
  BY OfCaller
<1>2. UNCHANGED <<elements, current_size, total_size, live, own>>
  BY DEF Mutable
<1>3. CASE \E p \in Parts : \E i \in DOMAIN own : content' = [content EXCEPT ![own[i]] = @ \cup {p}]
  <2>1. PICK p \in Parts, i \in DOMAIN own : content' = [content EXCEPT ![own[i]] = @ \cup {p}]
    BY <1>3
  <2>2. own[i] \in ToSet(own) /\ own[i] \in Objects
    BY <1>1, Elements
  <2>3. /\ content' \in [Objects -> SUBSET Parts]
        /\ \A o \in live : o \notin ToSet(own) => content'[o] = content[o]
    <3>1. \A o \in Objects : content'[o] = IF o = own[i] THEN content[o] \cup {p} ELSE content[o]
      BY <1>1, <2>1, <2>2
    <3>2. content' \in [Objects -> SUBSET Parts]
      BY <1>1, <2>1, <2>2
    <3> QED  BY <2>2, <3>1, <3>2, OfCaller
  <2>4. live' = (live \ ToSet(own)) \cup ToSet(own')
    BY <1>1, <1>2
  <2> QED  BY <1>1, <1>2, <2>3, <2>4, CallerStep
<1>4. CASE \E p \in Parts : \E f \in FieldNames : \E i \in 1..current_size[f] :
             content' = [content EXCEPT ![elements[f][i]] = @ \cup {p}]
  <2>0. PICK p \in Parts, f \in FieldNames :
          \E i \in 1..current_size[f] : content' = [content EXCEPT ![elements[f][i]] = @ \cup {p}]
    BY <1>4
  <2>1. PICK i \in 1..current_size[f] : content' = [content EXCEPT ![elements[f][i]] = @ \cup {p}]
    BY <2>0
  <2> DEFINE s == elements[f]
             n == current_size[f]
  <2>2. /\ s \in Seq(Objects) /\ Len(s) \in Nat /\ n \in Nat /\ n <= Len(s) /\ IsInjective(s)
        /\ \A k \in n + 1..Len(s) : content[s[k]] = {}
    BY Of
  <2>3. i \in 1..Len(s) /\ s[i] \in ToSet(s) /\ s[i] \in Objects
    <3>1. i \in 1..Len(s)
      BY <2>2
    <3> QED  BY <2>2, <3>1, Elements
  <2>4. /\ content' \in [Objects -> SUBSET Parts]
        /\ \A o \in Objects : o # s[i] => content'[o] = content[o]
    BY <1>1, <2>1, <2>3
  <2>5. OnlyOf(f)
    BY <1>2 DEF OnlyOf, FieldInv, Shape
  <2>6. SizesFit(f)
    BY <1>2, Of, OfCaller DEF SizesFit
  <2>7. SharesOut(f)
    BY <1>2, SamePointers
  <2>8. Contents(f)
    <3>1. ASSUME NEW k \in n + 1..Len(s)  PROVE content'[s[k]] = {}
      <4>1. k \in 1..Len(s) /\ k # i
        BY <2>2
      <4>2. s[k] # s[i] /\ s[k] \in Objects
        <5>1. \A a, b \in 1..Len(s) : s[a] = s[b] => a = b
          BY <2>2, Apart
        <5> QED  BY <2>2, <2>3, <4>1, <5>1, Elements
      <4> QED  BY <2>2, <2>4, <4>2
    <3>2. \A o \in live : o \notin ToSet(s) \cup ToSet(own) => content'[o] = content[o]
      BY <2>3, <2>4, OfCaller
    <3> QED  BY <1>2, <2>4, <3>1, <3>2 DEF Contents
  <2> QED  BY <2>5, <2>6, <2>7, <2>8, FieldChange
<1> QED
  BY <1>3, <1>4 DEF Mutable

LEMMA SwapKeeps ==
  ASSUME FieldInv, NEW f \in FieldNames, NEW g \in FieldNames, Swap(f, g)
  PROVE  FieldInv'
<1>1. /\ f # g
      /\ elements' = [elements EXCEPT ![f] = elements[g], ![g] = elements[f]]
      /\ current_size' = [current_size EXCEPT ![f] = current_size[g], ![g] = current_size[f]]
      /\ total_size' = [total_size EXCEPT ![f] = total_size[g], ![g] = total_size[f]]
      /\ UNCHANGED <<live, content, own>>
  BY DEF Swap
<1> DEFINE from(h) == IF h = f THEN g ELSE IF h = g THEN f ELSE h
<1>2. \A h \in FieldNames : /\ from(h) \in FieldNames /\ from(from(h)) = h
                            /\ \A k \in FieldNames : h # k => from(h) # from(k)
  OBVIOUS
<1>3. \A h \in FieldNames : /\ elements'[h] = elements[from(h)]
                            /\ current_size'[h] = current_size[from(h)]
                            /\ total_size'[h] = total_size[from(h)]
  BY <1>1 DEF FieldInv, Shape
<1>4. Shape'
  <2>1. /\ elements' \in [FieldNames -> Seq(Objects)]
        /\ current_size' \in [FieldNames -> Nat] /\ total_size' \in [FieldNames -> Nat]
    BY <1>1 DEF FieldInv, Shape
  <2>2. \A h \in FieldNames :
          current_size'[h] <= Len(elements'[h]) /\ Len(elements'[h]) <= total_size'[h]
    BY <1>2, <1>3 DEF FieldInv, Shape
  <2> QED  BY <1>1, <2>1, <2>2 DEF FieldInv, Shape
<1> HIDE DEF from
<1>5. OwnedOnce'
  <2>1. \A h \in FieldNames : IsInjective(elements'[h]) /\ ToSet(elements'[h]) \cap ToSet(own) = {}
    BY <1>2, <1>3 DEF FieldInv, OwnedOnce
  <2>2. \A h, k \in FieldNames : h # k => ToSet(elements'[h]) \cap ToSet(elements'[k]) = {}
    BY <1>2, <1>3 DEF FieldInv, OwnedOnce
  <2> DEFINE all == UNION {ToSet(elements[h]) : h \in FieldNames}
             new == UNION {ToSet(elements'[h]) : h \in FieldNames}
  <2>3. ASSUME NEW o \in all  PROVE o \in new
    <3>1. PICK h \in FieldNames : o \in ToSet(elements[h])
      OBVIOUS
    <3>2. elements'[from(h)] = elements[h] /\ from(h) \in FieldNames
      BY <1>2, <1>3
    <3> QED  BY <3>1, <3>2
  <2>4. ASSUME NEW o \in new  PROVE o \in all
    <3>1. PICK h \in FieldNames : o \in ToSet(elements'[h])
      OBVIOUS
    <3> QED  BY <1>2, <1>3, <3>1
  <2>5. live = ToSet(own) \cup all
    BY DEF FieldInv, OwnedOnce
  <2> HIDE DEF all, new
  <2>6. live' = ToSet(own) \cup new
    BY <1>1, <2>3, <2>4, <2>5
  <2>7. live' = ToSet(own') \cup UNION {ToSet(elements'[h]) : h \in FieldNames}
    BY <1>1, <2>6 DEF new
  <2> QED  BY <1>1, <2>1, <2>2, <2>7 DEF FieldInv, OwnedOnce
<1>6. ClearedAreClear'
  <2> SUFFICES ASSUME NEW h \in FieldNames,
                      NEW i \in current_size'[h] + 1..Len(elements'[h])
               PROVE  content'[elements'[h][i]] = {}
    BY DEF ClearedAreClear, allocated_size
  <2>1. from(h) \in FieldNames /\ i \in current_size[from(h)] + 1..Len(elements[from(h)])
    BY <1>2, <1>3
  <2>2. content[elements[from(h)][i]] = {}
    BY <2>1, Of
  <2> QED  BY <1>1, <1>3, <2>2
<1> QED
  BY <1>4, <1>5, <1>6 DEF FieldInv

\* The last object takes the place of the k-th.
MoveLast(s, k) == Front([s EXCEPT ![k] = Last(s)])

LEMMA MovedLast ==
  ASSUME NEW S, NEW s \in Seq(S), IsInjective(s), NEW k \in 1..Len(s)
  PROVE  /\ MoveLast(s, k) \in Seq(S) /\ Len(MoveLast(s, k)) = Len(s) - 1
         /\ \A i \in 1..Len(s) - 1 : MoveLast(s, k)[i] = IF i = k THEN s[Len(s)] ELSE s[i]
         /\ IsInjective(MoveLast(s, k)) /\ ToSet(MoveLast(s, k)) = ToSet(s) \ {s[k]}
<1> DEFINE len == Len(s)
           u == [s EXCEPT ![k] = Last(s)]
           t == MoveLast(s, k)
<1>0. /\ t \in Seq(S) /\ Len(t) = Len(s) - 1
      /\ \A i \in 1..Len(s) - 1 : t[i] = IF i = k THEN s[Len(s)] ELSE s[i]
  <2>1. Last(s) = s[Len(s)] /\ s[Len(s)] \in S
    BY DEF Last
  <2>2. u \in Seq(S) /\ Len(u) = Len(s) /\ u # << >>
        /\ \A i \in 1..Len(s) : u[i] = IF i = k THEN s[Len(s)] ELSE s[i]
    BY <2>1
  <2> HIDE DEF u
  <2>3. Front(u) \in Seq(S) /\ Len(Front(u)) = Len(u) - 1
        /\ \A i \in 1..Len(u) - 1 : Front(u)[i] = u[i]
    BY <2>2, WithoutLast, SMTT(30)
  <2>4. t = Front(u)
    BY DEF MoveLast, u
  <2> HIDE DEF t
  <2>5. ASSUME NEW i \in 1..Len(s) - 1  PROVE t[i] = IF i = k THEN s[Len(s)] ELSE s[i]
    <3>1. i \in 1..Len(s) /\ i \in 1..Len(u) - 1
      BY <2>2
    <3> QED  BY <2>2, <2>3, <2>4, <3>1
  <2>6. t \in Seq(S) /\ Len(t) = Len(s) - 1
    BY <2>2, <2>3, <2>4
  <2> QED  BY <2>5, <2>6
<1> HIDE DEF t
<1>1. /\ len \in Nat /\ len >= 1 /\ k <= len /\ k >= 1 /\ Len(t) = len - 1
      /\ \A i, j \in 1..len : s[i] = s[j] => i = j
  BY <1>0, Apart
<1> DEFINE at(i) == IF i = k THEN len ELSE i
<1>2. \A i \in 1..Len(t) : t[i] = s[at(i)] /\ at(i) \in 1..len /\ at(i) # k /\ i \in 1..len /\ i # len
  BY <1>0, <1>1
<1>3. \A i, j \in 1..Len(t) : at(i) = at(j) => i = j
  BY <1>1
<1>4. \A j \in 1..len : j # k => \E i \in 1..Len(t) : t[i] = s[j]
  <2> SUFFICES ASSUME NEW j \in 1..len, j # k  PROVE \E i \in 1..Len(t) : t[i] = s[j]
    OBVIOUS
  <2>1. CASE j = len
    <3>1. k \in 1..Len(t)
      BY <1>1, <2>1
    <3> QED  BY <1>0, <2>1, <3>1
  <2>2. CASE j # len
    <3>1. j \in 1..Len(t)
      <4> HIDE DEF len
      <4> QED  BY <1>1, <2>2
    <3> QED  BY <1>0, <2>2, <3>1
  <2> QED  BY <2>1, <2>2
<1> HIDE DEF at, len
<1>5. IsInjective(t)
  <2>1. ASSUME NEW i \in 1..Len(t), NEW j \in 1..Len(t), t[i] = t[j]  PROVE i = j
    <3>1. /\ t[i] = s[at(i)] /\ at(i) \in 1..len /\ t[j] = s[at(j)] /\ at(j) \in 1..len
      BY <1>2
    <3>2. at(i) = at(j)
      BY <1>1, <2>1, <3>1
    <3> QED  BY <1>3, <3>2
  <2>2. \A i, j \in 1..Len(t) : t[i] = t[j] => i = j
    BY <2>1
  <2> QED  BY <1>0, <2>2, Apart
<1>6. ASSUME NEW o \in ToSet(t)  PROVE o \in ToSet(s) /\ o # s[k]
  <2>1. PICK i \in 1..Len(t) : t[i] = o
    BY <1>0, Elements
  <2>2. k \in 1..len
    BY DEF len
  <2>3. s[at(i)] \in ToSet(s)
    BY <1>2, Elements DEF len
  <2> QED  BY <1>1, <1>2, <2>1, <2>2, <2>3
<1>7. ASSUME NEW o \in ToSet(s), o # s[k]  PROVE o \in ToSet(t)
  <2>1. PICK j \in 1..len : s[j] = o
    BY Elements DEF len
  <2>2. PICK i \in 1..Len(t) : t[i] = s[j]
    BY <1>4, <1>7, <2>1
  <2> QED  BY <1>0, <2>1, <2>2, Elements
<1> QED
  BY <1>0, <1>5, <1>6, <1>7 DEF t

LEMMA ReleaseLastKeeps ==
  ASSUME FieldInv, NEW f \in FieldNames, ReleaseLast(f)
  PROVE  FieldInv'
<1> DEFINE s == elements[f]
           n == current_size[f]
           o == s[n]
           t == MoveLast(s, n)
<1>1. /\ s \in Seq(Objects) /\ Len(s) \in Nat /\ n \in Nat /\ n <= Len(s)
      /\ total_size[f] \in Nat /\ Len(s) <= total_size[f]
      /\ IsInjective(s) /\ ToSet(s) \subseteq live /\ ToSet(s) \cap ToSet(own) = {}
      /\ \A i \in n + 1..Len(s) : content[s[i]] = {}
  BY Of
<1>2. /\ ToSet(own) \subseteq live /\ content \in [Objects -> SUBSET Parts]
  BY OfCaller
<1>3. /\ n > 0 /\ Len(own) < MaxOwn /\ own' = Append(own, o)
      /\ elements' = [elements EXCEPT ![f] = t]
      /\ current_size' = [current_size EXCEPT ![f] = n - 1]
      /\ UNCHANGED <<total_size, live, content>>
  BY DEF ReleaseLast, MoveLast
<1>4. n \in 1..Len(s) /\ o \in ToSet(s)
  <2>1. n \in 1..Len(s)
    BY <1>1, <1>3
  <2> QED  BY <1>1, <2>1, Elements
<1>5. /\ t \in Seq(Objects) /\ Len(t) = Len(s) - 1
      /\ \A i \in 1..Len(s) - 1 : t[i] = IF i = n THEN s[Len(s)] ELSE s[i]
      /\ IsInjective(t) /\ ToSet(t) = ToSet(s) \ {o}
  <2>1. s \in Seq(Objects) /\ IsInjective(s) /\ n \in 1..Len(s)
    BY <1>1, <1>4
  <2> HIDE DEF s, n
  <2> QED  BY <2>1, MovedLast
<1>6. /\ own' \in Seq(Objects) /\ Len(own') <= MaxOwn /\ IsInjective(own')
      /\ ToSet(own') = ToSet(own) \cup {o}
  BY <1>3, <1>4, Given
<1> HIDE DEF t
<1> HIDE DEF o
<1>8. OnlyOf(f) /\ elements'[f] = t /\ current_size'[f] = n - 1
  BY <1>3 DEF OnlyOf, FieldInv, Shape
<1>9. SizesFit(f)
  BY <1>1, <1>3, <1>5, <1>6, <1>8 DEF SizesFit
<1>10. SharesOut(f)
  BY <1>1, <1>2, <1>3, <1>4, <1>5, <1>6, <1>8 DEF SharesOut
<1>11. Contents(f)
  <2>1. ASSUME NEW i \in n..Len(s) - 1  PROVE content[t[i]] = {}
    <3>1. i \in 1..Len(s) - 1
      BY <1>1, <1>3
    <3>2. CASE i = n
      <4>1. Len(s) \in n + 1..Len(s)
        BY <1>1, <3>2
      <4> QED  BY <1>1, <1>5, <3>1, <3>2, <4>1
    <3>3. CASE i # n
      <4>1. i \in n + 1..Len(s)
        BY <1>1, <3>3
      <4> QED  BY <1>1, <1>5, <3>1, <3>3, <4>1
    <3> QED  BY <3>2, <3>3
  <2>2. n - 1 + 1 = n
    BY <1>1
  <2>3. \A i \in current_size'[f] + 1..Len(elements'[f]) : content[elements'[f][i]] = {}
    BY <1>5, <1>8, <2>1, <2>2
  <2> QED  BY <1>2, <1>3, <2>3 DEF Contents
<1> QED
  BY <1>8, <1>9, <1>10, <1>11, FieldChange

\* The caller's object, and the cleared objects, in an array that keeps its size.
LEMMA AddAllocatedKeeps ==
  ASSUME FieldInv, NEW f \in FieldNames, AddAllocated(f)
  PROVE  FieldInv'
<1> DEFINE s == elements[f]
           n == current_size[f]
           o == Last(own)
           total == total_size[f]
<1>1. /\ s \in Seq(Objects) /\ Len(s) \in Nat /\ n \in Nat /\ n <= Len(s)
      /\ total \in Nat /\ Len(s) <= total
      /\ IsInjective(s) /\ ToSet(s) \subseteq live /\ ToSet(s) \cap ToSet(own) = {}
      /\ \A i \in n + 1..Len(s) : content[s[i]] = {}
  BY Of
<1>2. /\ ToSet(own) \subseteq live /\ content \in [Objects -> SUBSET Parts]
  BY OfCaller
<1>3. own # << >> /\ own' = Front(own) /\ content' = content
      /\ current_size' = [current_size EXCEPT ![f] = n + 1]
  BY DEF AddAllocated
<1>4. /\ own' \in Seq(Objects) /\ Len(own') <= MaxOwn /\ IsInjective(own')
      /\ o \in ToSet(own) /\ o \in Objects /\ o \notin ToSet(s)
      /\ ToSet(own') = ToSet(own) \ {o}
  BY <1>3, Taken
<1>5. current_size'[f] = n + 1
  BY <1>3 DEF FieldInv, Shape
<1>6. \/ /\ n = total
         /\ elements' = [elements EXCEPT ![f] = Append(s, o)]
         /\ total_size' = [total_size EXCEPT ![f] = Reserved(total, total + 1)]
         /\ UNCHANGED live
      \/ /\ n < total /\ Len(s) = total
         /\ elements' = [elements EXCEPT ![f] = [s EXCEPT ![n + 1] = o]]
         /\ live' = live \ {s[n + 1]}
         /\ UNCHANGED total_size
      \/ /\ n < Len(s) /\ Len(s) < total
         /\ elements' = [elements EXCEPT ![f] = Append([s EXCEPT ![n + 1] = o], s[n + 1])]
         /\ UNCHANGED <<total_size, live>>
      \/ /\ n = Len(s) /\ n < total
         /\ elements' = [elements EXCEPT ![f] = Append(s, o)]
         /\ UNCHANGED <<total_size, live>>
  BY DEF AddAllocated
<1> HIDE DEF o
<1>7. ASSUME n = Len(s), elements' = [elements EXCEPT ![f] = Append(s, o)], UNCHANGED live,
             NEW new \in Nat, Len(s) + 1 <= new, total_size' = [total_size EXCEPT ![f] = new]
      PROVE  FieldInv'
  <2> DEFINE t == Append(s, o)
  <2>1. /\ t \in Seq(Objects) /\ Len(t) = Len(s) + 1 /\ ToSet(t) = ToSet(s) \cup {o}
        /\ IsInjective(t)
    BY <1>1, <1>4, AppendOne
  <2>2. elements' = [elements EXCEPT ![f] = t]
    BY <1>7
  <2> HIDE DEF t
  <2>3. OnlyOf(f) /\ elements'[f] = t /\ total_size'[f] = new
    BY <1>3, <1>5, <1>7, <2>2 DEF OnlyOf, FieldInv, Shape
  <2>4. SizesFit(f)
    BY <1>1, <1>4, <1>5, <1>7, <2>1, <2>3 DEF SizesFit
  <2>5. SharesOut(f)
    BY <1>1, <1>2, <1>4, <1>7, <2>1, <2>3 DEF SharesOut
  <2>6. Contents(f)
    <3>1. current_size'[f] + 1..Len(elements'[f]) = {}
      BY <1>1, <1>5, <1>7, <2>1, <2>3
    <3> QED  BY <1>2, <1>3, <3>1 DEF Contents
  <2> QED  BY <2>3, <2>4, <2>5, <2>6, FieldChange
<1>8. CASE /\ n = total
           /\ elements' = [elements EXCEPT ![f] = Append(s, o)]
           /\ total_size' = [total_size EXCEPT ![f] = Reserved(total, total + 1)]
           /\ UNCHANGED live
  <2> DEFINE new == Reserved(total, total + 1)
  <2>1. new \in Nat /\ total + 1 <= new
    <3>1. total \in Nat /\ total + 1 \in Nat
      BY <1>1
    <3> HIDE DEF total
    <3> QED  BY <3>1, ReservedFits
  <2>2. n = Len(s)
    BY <1>1, <1>8
  <2>3. total_size' = [total_size EXCEPT ![f] = new]
    BY <1>8
  <2> HIDE DEF new
  <2> QED  BY <1>1, <1>7, <1>8, <2>1, <2>2, <2>3
<1>9. CASE /\ n = Len(s) /\ n < total
           /\ elements' = [elements EXCEPT ![f] = Append(s, o)]
           /\ UNCHANGED <<total_size, live>>
  <2> DEFINE new == total
  <2>1. total_size' = [total_size EXCEPT ![f] = new] /\ new \in Nat /\ Len(s) + 1 <= new
    BY <1>1, <1>9 DEF FieldInv, Shape
  <2> HIDE DEF new
  <2> QED  BY <1>7, <1>9, <2>1
<1> DEFINE u == [s EXCEPT ![n + 1] = o]
<1>10. ASSUME n < Len(s)
       PROVE  /\ n + 1 \in 1..Len(s) /\ s[n + 1] \in ToSet(s) /\ s[n + 1] \in Objects
              /\ content[s[n + 1]] = {}
              /\ u \in Seq(Objects) /\ Len(u) = Len(s) /\ IsInjective(u)
              /\ \A i \in 1..Len(s) : u[i] = IF i = n + 1 THEN o ELSE s[i]
              /\ ToSet(u) = (ToSet(s) \ {s[n + 1]}) \cup {o}
  <2>1. n + 1 \in 1..Len(s) /\ n + 1 \in n + 1..Len(s)
    BY <1>1, <1>10
  <2>2. s[n + 1] \in ToSet(s) /\ s[n + 1] \in Objects /\ content[s[n + 1]] = {}
    <3> DEFINE k == n + 1
    <3>1. k \in 1..Len(s) /\ k \in n + 1..Len(s)
      BY <2>1
    <3>2. content[s[k]] = {}
      BY <1>1, <3>1
    <3> HIDE DEF k
    <3>3. s[k] \in ToSet(s) /\ s[k] \in Objects
      BY <1>1, <3>1, Elements
    <3> QED  BY <3>2, <3>3 DEF k
  <2>3. /\ u \in Seq(Objects) /\ Len(u) = Len(s) /\ IsInjective(u)
        /\ \A i \in 1..Len(s) : u[i] = IF i = n + 1 THEN o ELSE s[i]
        /\ ToSet(u) = (ToSet(s) \ {s[n + 1]}) \cup {o}
    <3> DEFINE k == n + 1
    <3>1. k \in 1..Len(s)
      BY <2>1
    <3> HIDE DEF k
    <3>2. /\ [s EXCEPT ![k] = o] \in Seq(Objects) /\ Len([s EXCEPT ![k] = o]) = Len(s)
          /\ \A i \in 1..Len(s) : [s EXCEPT ![k] = o][i] = IF i = k THEN o ELSE s[i]
          /\ ToSet([s EXCEPT ![k] = o]) = (ToSet(s) \ {s[k]}) \cup {o}
          /\ IsInjective([s EXCEPT ![k] = o])
      BY <1>1, <1>4, <3>1, Replaced
    <3> QED  BY <3>2 DEF k
  <2> QED  BY <2>1, <2>2, <2>3
<1>11. CASE /\ n < total /\ Len(s) = total
            /\ elements' = [elements EXCEPT ![f] = u]
            /\ live' = live \ {s[n + 1]}
            /\ UNCHANGED total_size
  <2>1. /\ n + 1 \in 1..Len(s) /\ s[n + 1] \in ToSet(s)
        /\ u \in Seq(Objects) /\ Len(u) = Len(s) /\ IsInjective(u)
        /\ \A i \in 1..Len(s) : u[i] = IF i = n + 1 THEN o ELSE s[i]
        /\ ToSet(u) = (ToSet(s) \ {s[n + 1]}) \cup {o}
    BY <1>10, <1>11
  <2> HIDE DEF u
  <2>2. OnlyOf(f) /\ elements'[f] = u
    BY <1>3, <1>5, <1>11 DEF OnlyOf, FieldInv, Shape
  <2>3. SizesFit(f)
    BY <1>1, <1>4, <1>5, <1>11, <2>1, <2>2 DEF SizesFit
  <2>4. SharesOut(f)
    BY <1>1, <1>2, <1>4, <1>11, <2>1, <2>2 DEF SharesOut
  <2>5. Contents(f)
    <3>1. ASSUME NEW i \in n + 1 + 1..Len(s)  PROVE content[u[i]] = {}
      <4>1. i \in n + 1..Len(s) /\ i \in 1..Len(s) /\ i # n + 1
        BY <1>1
      <4> QED  BY <1>1, <2>1, <4>1
    <3> QED  BY <1>2, <1>3, <1>5, <2>1, <2>2, <3>1 DEF Contents
  <2> QED  BY <2>2, <2>3, <2>4, <2>5, FieldChange
<1>12. CASE /\ n < Len(s) /\ Len(s) < total
            /\ elements' = [elements EXCEPT ![f] = Append(u, s[n + 1])]
            /\ UNCHANGED <<total_size, live>>
  <2> DEFINE c == s[n + 1]
             t == Append(u, c)
  <2>1. /\ n + 1 \in 1..Len(s) /\ c \in ToSet(s) /\ c \in Objects /\ content[c] = {}
        /\ u \in Seq(Objects) /\ Len(u) = Len(s) /\ IsInjective(u)
        /\ \A i \in 1..Len(s) : u[i] = IF i = n + 1 THEN o ELSE s[i]
        /\ ToSet(u) = (ToSet(s) \ {c}) \cup {o}
    BY <1>10, <1>12
  <2> HIDE DEF u, c
  <2>2. c \notin ToSet(u)
    BY <1>4, <2>1
  <2>3. /\ t \in Seq(Objects) /\ Len(t) = Len(u) + 1 /\ ToSet(t) = ToSet(u) \cup {c}
        /\ IsInjective(t) /\ t[Len(u) + 1] = c /\ \A i \in 1..Len(u) : t[i] = u[i]
    BY <2>1, <2>2, AppendOne
  <2>4. elements' = [elements EXCEPT ![f] = t]
    BY <1>12 DEF c
  <2> HIDE DEF t
  <2>5. OnlyOf(f) /\ elements'[f] = t
    BY <1>3, <1>5, <1>12, <2>4 DEF OnlyOf, FieldInv, Shape
  <2>6. SizesFit(f)
    BY <1>1, <1>4, <1>5, <1>12, <2>1, <2>3, <2>5 DEF SizesFit
  <2>7. SharesOut(f)
    <3>1. ToSet(t) = ToSet(s) \cup {o}
      BY <2>1, <2>3
    <3> QED  BY <1>1, <1>2, <1>4, <1>12, <2>3, <2>5, <3>1, ZenonT(30) DEF SharesOut
  <2>8. Contents(f)
    <3>1. ASSUME NEW i \in n + 1 + 1..Len(s) + 1  PROVE content[t[i]] = {}
      <4>1. CASE i = Len(s) + 1
        BY <2>1, <2>3, <4>1
      <4>2. CASE i # Len(s) + 1
        <5>1. i \in n + 1..Len(s) /\ i \in 1..Len(s) /\ i # n + 1
          BY <1>1, <4>2
        <5>2. t[i] = u[i] /\ u[i] = s[i]
          BY <2>1, <2>3, <5>1
        <5> QED  BY <1>1, <5>1, <5>2
      <4> QED  BY <4>1, <4>2
    <3> QED  BY <1>2, <1>3, <1>5, <2>1, <2>3, <2>5, <3>1 DEF Contents
  <2> QED  BY <2>5, <2>6, <2>7, <2>8, FieldChange
<1> QED
  BY <1>6, <1>8, <1>9, <1>11, <1>12

\* What MergeFrom and CopyFrom hand to MergeInto.
Ready(f, g, size, before) ==
  /\ size \in Nat /\ size <= current_size[f]
  /\ before \in [Objects -> SUBSET Parts]
  /\ \A i \in size + current_size[g] + 1..Len(elements[f]) : before[elements[f][i]] = {}
  /\ \A o \in Objects : o \notin ToSet(elements[f]) => before[o] = content[o]

\* The array of f, with new objects where the elements of g do not fit in.
LEMMA MergeIntoKeeps ==
  ASSUME FieldInv, NEW f \in FieldNames, NEW g \in FieldNames, NEW size, NEW before,
         Ready(f, g, size, before), MergeInto(f, g, size, before)
  PROVE  FieldInv'
<1> DEFINE s == elements[f]
           n == current_size[g]
           need == size + n
           count == Missing(f, need)
           fresh == New(count)
           into == s \o fresh
           total == Reserved(total_size[f], need)
           old(o) == IF o \in live THEN before[o] ELSE {}
           at(o) == CHOOSE i \in 1..n : into[size + i] = o
           from(o) == before[elements[g][at(o)]]
<1>0. /\ size \in Nat /\ size <= current_size[f]
      /\ before \in [Objects -> SUBSET Parts]
      /\ \A i \in need + 1..Len(s) : before[s[i]] = {}
      /\ \A o \in Objects : o \notin ToSet(s) => before[o] = content[o]
  BY DEF Ready
<1>1. /\ s \in Seq(Objects) /\ Len(s) \in Nat
      /\ total_size[f] \in Nat /\ Len(s) <= total_size[f]
      /\ IsInjective(s) /\ ToSet(s) \subseteq live /\ ToSet(s) \cap ToSet(own) = {}
      /\ current_size[f] <= Len(s) /\ current_size[f] \in Nat
  BY Of
<1>2. /\ own \in Seq(Objects) /\ Len(own) <= MaxOwn /\ IsInjective(own)
      /\ ToSet(own) \subseteq live /\ live \subseteq Objects
  BY OfCaller
<1>3. /\ elements[g] \in Seq(Objects) /\ n \in Nat /\ n <= Len(elements[g])
      /\ Len(elements[g]) \in Nat
  BY Of
<1>4. /\ need \in Nat /\ count \in Nat
      /\ need <= Len(s) + count /\ (count # 0 => need = Len(s) + count)
  BY <1>0, <1>1, <1>3 DEF Missing, allocated_size
<1>5. /\ CanNew(count)
      /\ total_size' = [total_size EXCEPT ![f] = total]
      /\ elements' = [elements EXCEPT ![f] = into]
      /\ current_size' = [current_size EXCEPT ![f] = need]
      /\ live' = live \cup ToSet(fresh)
      /\ content' = Merged(into, size, g, before)
      /\ UNCHANGED own
  BY DEF MergeInto
<1> HIDE DEF count
<1>6. /\ fresh \in Seq(Objects) /\ Len(fresh) = count /\ IsInjective(fresh)
      /\ ToSet(fresh) \subseteq Objects \ live
  BY <1>2, <1>4, <1>5, NewIsFresh
<1> HIDE DEF fresh
<1>7. /\ into \in Seq(Objects) /\ Len(into) = Len(s) + count
      /\ \A i \in 1..Len(s) : into[i] = s[i]
      /\ ToSet(into) = ToSet(s) \cup ToSet(fresh) /\ IsInjective(into)
  <2>1. ToSet(s) \cap ToSet(fresh) = {}
    BY <1>1, <1>6
  <2>2. /\ into \in Seq(Objects) /\ Len(into) = Len(s) + Len(fresh)
        /\ \A i \in 1..Len(s) : into[i] = s[i]
        /\ \A i \in 1..Len(fresh) : into[Len(s) + i] = fresh[i]
        /\ ToSet(into) = ToSet(s) \cup ToSet(fresh) /\ IsInjective(into)
    <3>1. s \in Seq(Objects) /\ IsInjective(s) /\ fresh \in Seq(Objects) /\ IsInjective(fresh)
      BY <1>1, <1>6
    <3> HIDE DEF s
    <3> QED  BY <2>1, <3>1, Joined
  <2> QED  BY <1>6, <2>2
<1>8. total \in Nat /\ total_size[f] <= total /\ need <= total
  <2> HIDE DEF need
  <2> QED  BY <1>1, <1>4, ReservedFits
<1> HIDE DEF into, total, need
<1>9. /\ OnlyOf(f) /\ elements'[f] = into /\ current_size'[f] = need /\ total_size'[f] = total
  BY <1>5 DEF OnlyOf, FieldInv, Shape
<1>10. SizesFit(f)
  <2>1. Len(into) <= total
    BY <1>1, <1>4, <1>7, <1>8
  <2> QED  BY <1>2, <1>4, <1>5, <1>7, <1>8, <1>9, <2>1 DEF SizesFit
<1>11. SharesOut(f)
  BY <1>1, <1>2, <1>5, <1>6, <1>7, <1>9 DEF SharesOut
<1>15. content' = [o \in Objects |-> IF \E i \in 1..n : into[size + i] = o
                                     THEN old(o) \cup from(o) ELSE old(o)]
  BY <1>5 DEF Merged
<1>12. \A o \in Objects :
         content'[o] = IF \E i \in 1..n : into[size + i] = o THEN old(o) \cup from(o) ELSE old(o)
  BY <1>15
<1>13. content' \in [Objects -> SUBSET Parts]
  <2>1. ASSUME NEW o \in Objects, \E i \in 1..n : into[size + i] = o  PROVE from(o) \subseteq Parts
    <3>1. at(o) \in 1..n
      BY <2>1
    <3> HIDE DEF at
    <3>2. elements[g][at(o)] \in Objects
      BY <1>3, <3>1, Elements
    <3> QED  BY <1>0, <3>2
  <2>2. \A o \in Objects : old(o) \subseteq Parts
    BY <1>0
  <2> HIDE DEF old, from
  <2>3. \A o \in Objects : (IF \E i \in 1..n : into[size + i] = o THEN old(o) \cup from(o) ELSE old(o))
                             \in SUBSET Parts
    BY <2>1, <2>2
  <2> QED  BY <1>15, <2>3
<1>14. Contents(f)
  <2>1. ASSUME NEW i \in need + 1..Len(into)  PROVE content'[into[i]] = {}
    <3>1. count = 0 /\ i \in 1..Len(s) /\ i \in need + 1..Len(s) /\ i \in 1..Len(into)
      BY <1>1, <1>4, <1>7
    <3>2. into[i] = s[i] /\ s[i] \in Objects /\ s[i] \in live
      BY <1>1, <1>7, <3>1, Elements
    <3>3. before[s[i]] = {}
      BY <1>0, <3>1
    <3>4. ~ \E j \in 1..n : into[size + j] = into[i]
      <4> SUFFICES ASSUME NEW j \in 1..n, into[size + j] = into[i]  PROVE FALSE
        OBVIOUS
      <4>1. \A a, b \in 1..Len(into) : into[a] = into[b] => a = b
        BY <1>7, Apart
      <4>2. size + j \in 1..Len(into) /\ size + j < i
        BY <1>0, <1>1, <1>3, <1>4, <1>7, SMTT(30) DEF need
      <4> QED  BY <1>4, <3>1, <4>1, <4>2
    <3> QED  BY <1>12, <3>2, <3>3, <3>4
  <2>2. ASSUME NEW o \in live, o \notin ToSet(s)  PROVE content'[o] = content[o]
    <3>1. o \in Objects /\ o \notin ToSet(into)
      BY <1>2, <1>6, <1>7, <2>2
    <3>2. ~ \E j \in 1..n : into[size + j] = o
      <4> SUFFICES ASSUME NEW j \in 1..n, into[size + j] = o  PROVE FALSE
        OBVIOUS
      <4>1. size + j \in 1..Len(into)
        BY <1>0, <1>1, <1>3, <1>4, <1>7 DEF need
      <4>2. into[size + j] \in ToSet(into)
        BY <1>7, <4>1, Elements
      <4> QED  BY <3>1, <4>2
    <3>3. before[o] = content[o]
      BY <1>0, <2>2, <3>1
    <3> QED  BY <1>12, <3>1, <3>2, <3>3
  <2>3. \A i \in current_size'[f] + 1..Len(elements'[f]) : content'[elements'[f][i]] = {}
    BY <1>9, <2>1
  <2> QED  BY <1>13, <2>2, <2>3 DEF Contents
<1> QED
  BY <1>9, <1>10, <1>11, <1>14, FieldChange

LEMMA MergeFromKeeps ==
  ASSUME FieldInv, NEW f \in FieldNames, NEW g \in FieldNames, MergeFrom(f, g)
  PROVE  FieldInv'
<1> DEFINE size == current_size[f]
<1>1. size \in Nat /\ size <= current_size[f] /\ current_size[g] \in Nat
  BY Of
<1>2. content \in [Objects -> SUBSET Parts]
  BY OfCaller
<1>3. \A i \in size + current_size[g] + 1..Len(elements[f]) : content[elements[f][i]] = {}
  <2>1. \A i \in size + current_size[g] + 1..Len(elements[f]) : i \in size + 1..Len(elements[f])
    BY <1>1
  <2> QED  BY <2>1, Of
<1>4. MergeInto(f, g, size, content)
  BY DEF MergeFrom
<1>5. Ready(f, g, size, content)
  BY <1>1, <1>2, <1>3 DEF Ready
<1> HIDE DEF size
<1> QED
  BY <1>4, <1>5, MergeIntoKeeps

LEMMA CopyFromKeeps ==
  ASSUME FieldInv, NEW f \in FieldNames, NEW g \in FieldNames, CopyFrom(f, g)
  PROVE  FieldInv'
<1> DEFINE before == ClearedContent(f)
<1>1. 0 <= current_size[f] /\ current_size[g] \in Nat
  BY Of
<1>2. /\ before \in [Objects -> SUBSET Parts]
      /\ \A o \in Objects : o \notin ToSet(elements[f]) => before[o] = content[o]
      /\ \A i \in 1..Len(elements[f]) : before[elements[f][i]] = {}
  BY ClearedContentOf
<1>3. MergeInto(f, g, 0, before)
  BY DEF CopyFrom
<1> HIDE DEF before
<1>4. \A i \in 0 + current_size[g] + 1..Len(elements[f]) : before[elements[f][i]] = {}
  <2>1. \A i \in 0 + current_size[g] + 1..Len(elements[f]) : i \in 1..Len(elements[f])
    BY <1>1
  <2> QED  BY <1>2, <2>1
<1>5. Ready(f, g, 0, before)
  BY <1>1, <1>2, <1>4 DEF Ready
<1> QED
  BY <1>3, <1>5, MergeIntoKeeps

LEMMA InitInv == Init => FieldInv
<1> SUFFICES ASSUME Init  PROVE FieldInv
  OBVIOUS
<1> DEFINE none == << >>
<1>1. none \in Seq(Objects) /\ ToSet(none) = {} /\ IsInjective(none) /\ Len(none) = 0
  BY EmptyHolds
<1>2. /\ elements = [f \in FieldNames |-> none] /\ own = none /\ live = {}
      /\ current_size = [f \in FieldNames |-> 0] /\ total_size = [f \in FieldNames |-> 0]
      /\ content = [o \in Objects |-> {}]
  BY DEF Init
<1> HIDE DEF none
<1>3. Shape
  BY <1>1, <1>2, BoundAssumption DEF Shape
<1>4. OwnedOnce
  <2>1. \A f \in FieldNames : ToSet(elements[f]) = {} /\ IsInjective(elements[f])
    BY <1>1, <1>2
  <2>2. UNION {ToSet(elements[f]) : f \in FieldNames} = {}
    BY <2>1
  <2> QED  BY <1>1, <1>2, <2>1, <2>2 DEF OwnedOnce
<1>5. ClearedAreClear
  BY <1>1, <1>2 DEF ClearedAreClear, allocated_size
<1> QED
  BY <1>3, <1>4, <1>5 DEF FieldInv

\* The start and length of a range of the elements.
LEMMA RangeOf ==
  ASSUME FieldInv, NEW f \in FieldNames, NEW start \in 0..current_size[f],
         NEW num \in 1..current_size[f] - start
  PROVE  start \in Nat /\ num \in Nat /\ start + num <= current_size[f]
<1>1. current_size[f] \in Nat
  BY Of
<1> QED
  BY <1>1

LEMMA NextKeeps == FieldInv /\ [Next]_vars => FieldInv'
<1> SUFFICES ASSUME FieldInv, [Next]_vars  PROVE FieldInv'
  OBVIOUS
<1>1. CASE CallerNew \/ CallerDelete \/ Mutable
  BY <1>1, CallerNewKeeps, CallerDeleteKeeps, MutableKeeps
<1>2. ASSUME NEW f \in FieldNames, Add(f) \/ RemoveLast(f) \/ Clear(f) \/ Destroy(f)
      PROVE  FieldInv'
  BY <1>2, AddKeeps, RemoveLastKeeps, ClearKeeps, DestroyKeeps
<1>3. ASSUME NEW f \in FieldNames,
             AddAllocated(f) \/ ReleaseLast(f) \/ AddCleared(f) \/ ReleaseCleared(f)
      PROVE  FieldInv'
  BY <1>3, AddAllocatedKeeps, ReleaseLastKeeps, AddClearedKeeps, ReleaseClearedKeeps
<1>4. ASSUME NEW f \in FieldNames, NEW n \in 1..MaxReserve, Reserve(f, n)  PROVE FieldInv'
  <2>1. n \in Nat
    BY BoundAssumption
  <2> QED  BY <1>4, <2>1, ReserveKeeps
<1>5. ASSUME NEW f \in FieldNames, NEW g \in FieldNames,
             MergeFrom(f, g) \/ CopyFrom(f, g) \/ Swap(f, g)
      PROVE  FieldInv'
  BY <1>5, MergeFromKeeps, CopyFromKeeps, SwapKeeps
<1>6. ASSUME NEW f \in FieldNames, NEW i \in 1..current_size[f], NEW j \in 1..current_size[f],
             SwapElements(f, i, j)
      PROVE  FieldInv'
  BY <1>6, SwapElementsKeeps
<1>7. ASSUME NEW f \in FieldNames, NEW start \in 0..current_size[f],
             NEW num \in 1..current_size[f] - start,
             ExtractSubrange(f, start, num) \/ DeleteSubrange(f, start, num)
      PROVE  FieldInv'
  <2>1. start \in Nat /\ num \in Nat /\ start + num <= current_size[f]
    BY RangeOf
  <2> QED  BY <1>7, <2>1, ExtractSubrangeKeeps, DeleteSubrangeKeeps
<1>8. CASE UNCHANGED vars
  BY <1>8 DEF vars, FieldInv, Shape, OwnedOnce, ClearedAreClear, allocated_size
<1> QED
  BY <1>1, <1>2, <1>3, <1>4, <1>5, <1>6, <1>7, <1>8 DEF Next

\* The pointers, sizes and cleared objects of the fields stay as every operation of
\* repeated_field.h and of its CloseGap, Reserve and MergeFrom expects them.
THEOREM FieldInvariant == Spec => []FieldInv
<1>1. Init => FieldInv
  BY InitInv
<1>2. FieldInv /\ [Next]_vars => FieldInv'
  BY NextKeeps
<1> QED
  BY <1>1, <1>2, PTL DEF Spec

\* In every state current_size_ <= allocated_size_ <= total_size_ for every field, and
\* the arrays and the caller hold objects that exist.
THEOREM FieldTypes == Spec => []TypeOK
<1>1. FieldInv => TypeOK
  BY TypesFollow
<1> QED
  BY <1>1, FieldInvariant, PTL

\* In every state each object on the heap has one owner, a field or the caller: what
\* Add, AddAllocated, ReleaseLast, Swap and the destructor pass on is deleted once.
THEOREM Ownership == Spec => []OwnedOnce
<1>1. FieldInv => OwnedOnce
  BY DEF FieldInv
<1> QED
  BY <1>1, FieldInvariant, PTL

\* In every state the objects behind current_size_ are clear, so that Add may hand them
\* out as new: RemoveLast and Clear clear, and no operation leaves content there.
THEOREM ClearedReused == Spec => []ClearedAreClear
<1>1. FieldInv => ClearedAreClear
  BY DEF FieldInv
<1> QED
  BY <1>1, FieldInvariant, PTL

-----------------------------------------------------------------------------
Fits(f) ==
  (total_size'[f] > total_size[f] /\ current_size'[f] > current_size[f]) =>
    \/ current_size'[f] > total_size[f]
    \/ \E g \in FieldNames \ {f} : elements'[f] = elements[g]

\* Only the array of h grows, and only to hold its elements.
LEMMA GrowsForOne ==
  ASSUME FieldInv, NEW h \in FieldNames, NEW total, NEW size,
         total_size' = [total_size EXCEPT ![h] = total],
         current_size' = [current_size EXCEPT ![h] = size],
         total > total_size[h] => size > total_size[h]
  PROVE  \A f \in FieldNames : Fits(f)
<1>1. total_size'[h] = total /\ current_size'[h] = size
  BY DEF FieldInv, Shape
<1>2. \A f \in FieldNames : f # h => total_size'[f] = total_size[f] /\ total_size[f] \in Nat
  BY DEF FieldInv, Shape
<1>3. Fits(h)
  BY <1>1 DEF Fits
<1>4. ASSUME NEW f \in FieldNames, f # h  PROVE Fits(f)
  BY <1>2, <1>4 DEF Fits
<1> QED
  BY <1>3, <1>4

LEMMA NoGrowth ==
  ASSUME FieldInv, UNCHANGED total_size \/ UNCHANGED current_size
  PROVE  \A f \in FieldNames : Fits(f)
<1>1. \A f \in FieldNames : total_size[f] \in Nat /\ current_size[f] \in Nat
  BY Of
<1> QED
  BY <1>1 DEF Fits

LEMMA AddFits ==
  ASSUME FieldInv, NEW h \in FieldNames, Add(h)
  PROVE  \A f \in FieldNames : Fits(f)
<1>1. CASE UNCHANGED total_size
  BY <1>1, NoGrowth
<1>2. CASE ~ UNCHANGED total_size
  <2> DEFINE total == Reserved(total_size[h], total_size[h] + 1)
             size == current_size[h] + 1
  <2>1. /\ current_size[h] = total_size[h]
        /\ total_size' = [total_size EXCEPT ![h] = total]
        /\ current_size' = [current_size EXCEPT ![h] = size]
    BY <1>2 DEF Add, allocated_size
  <2>2. size > total_size[h]
    BY <2>1, Of
  <2> HIDE DEF total, size
  <2> QED  BY <2>1, <2>2, GrowsForOne
<1> QED
  BY <1>1, <1>2

LEMMA AddAllocatedFits ==
  ASSUME FieldInv, NEW h \in FieldNames, AddAllocated(h)
  PROVE  \A f \in FieldNames : Fits(f)
<1>1. CASE UNCHANGED total_size
  BY <1>1, NoGrowth
<1>2. CASE ~ UNCHANGED total_size
  <2> DEFINE total == Reserved(total_size[h], total_size[h] + 1)
             size == current_size[h] + 1
  <2>1. /\ current_size[h] = total_size[h]
        /\ total_size' = [total_size EXCEPT ![h] = total]
        /\ current_size' = [current_size EXCEPT ![h] = size]
    BY <1>2 DEF AddAllocated
  <2>2. size > total_size[h]
    BY <2>1, Of
  <2> HIDE DEF total, size
  <2> QED  BY <2>1, <2>2, GrowsForOne
<1> QED
  BY <1>1, <1>2

LEMMA MergeFits ==
  ASSUME FieldInv, NEW h \in FieldNames, NEW g \in FieldNames, NEW size \in Nat, NEW before,
         MergeInto(h, g, size, before)
  PROVE  \A f \in FieldNames : Fits(f)
<1> DEFINE need == size + current_size[g]
           total == Reserved(total_size[h], need)
<1>1. /\ total_size' = [total_size EXCEPT ![h] = total]
      /\ current_size' = [current_size EXCEPT ![h] = need]
  BY DEF MergeInto
<1>2. total_size[h] \in Nat /\ need \in Nat
  BY Of
<1>3. total > total_size[h] => need > total_size[h]
  <2>1. need <= total_size[h] => total = total_size[h]
    <3> HIDE DEF need
    <3> QED  BY <1>2, ReservedFits
  <2> HIDE DEF need, total
  <2> QED  BY <1>2, <2>1
<1> HIDE DEF need, total
<1> QED
  BY <1>1, <1>3, GrowsForOne

LEMMA SwapFits ==
  ASSUME FieldInv, NEW h \in FieldNames, NEW g \in FieldNames, Swap(h, g)
  PROVE  \A f \in FieldNames : Fits(f)
<1>1. /\ h # g /\ elements'[h] = elements[g] /\ elements'[g] = elements[h]
      /\ \A f \in FieldNames : f \notin {h, g} => total_size'[f] = total_size[f]
                                                  /\ total_size[f] \in Nat
  BY DEF Swap, FieldInv, Shape
<1>2. Fits(h) /\ Fits(g)
  BY <1>1 DEF Fits
<1>3. ASSUME NEW f \in FieldNames, f \notin {h, g}  PROVE Fits(f)
  BY <1>1, <1>3 DEF Fits
<1> QED
  BY <1>2, <1>3

LEMMA DestroyFits ==
  ASSUME FieldInv, NEW h \in FieldNames, Destroy(h)
  PROVE  \A f \in FieldNames : Fits(f)
<1>1. /\ total_size' = [total_size EXCEPT ![h] = 0]
      /\ current_size' = [current_size EXCEPT ![h] = 0]
  BY DEF Destroy
<1>2. ~ (0 > total_size[h])
  BY Of
<1> DEFINE none == 0
<1>3. none > total_size[h] => none > total_size[h]
  OBVIOUS
<1> QED
  BY <1>1, <1>2, GrowsForOne

LEMMA NextFits == FieldInv /\ [Next]_vars => \A f \in FieldNames : Fits(f)
<1> SUFFICES ASSUME FieldInv, [Next]_vars  PROVE \A f \in FieldNames : Fits(f)
  OBVIOUS
<1>1. CASE CallerNew \/ CallerDelete \/ Mutable \/ UNCHANGED vars
  BY <1>1, NoGrowth DEF CallerNew, CallerDelete, Mutable, vars
<1>2. ASSUME NEW h \in FieldNames,
             RemoveLast(h) \/ Clear(h) \/ ReleaseLast(h) \/ AddCleared(h) \/ ReleaseCleared(h)
      PROVE  \A f \in FieldNames : Fits(f)
  BY <1>2, NoGrowth DEF RemoveLast, Clear, ReleaseLast, AddCleared, ReleaseCleared
<1>3. ASSUME NEW h \in FieldNames, Add(h) \/ Destroy(h) \/ AddAllocated(h)
      PROVE  \A f \in FieldNames : Fits(f)
  BY <1>3, AddFits, DestroyFits, AddAllocatedFits
<1>4. ASSUME NEW h \in FieldNames, NEW n \in 1..MaxReserve, Reserve(h, n)
      PROVE  \A f \in FieldNames : Fits(f)
  BY <1>4, NoGrowth DEF Reserve
<1>5. ASSUME NEW h \in FieldNames, NEW g \in FieldNames,
             MergeFrom(h, g) \/ CopyFrom(h, g) \/ Swap(h, g)
      PROVE  \A f \in FieldNames : Fits(f)
  <2>1. CASE MergeFrom(h, g)
    <3>1. current_size[h] \in Nat /\ MergeInto(h, g, current_size[h], content)
      BY <2>1, Of DEF MergeFrom
    <3> QED  BY <3>1, MergeFits
  <2>2. CASE CopyFrom(h, g)
    <3>1. MergeInto(h, g, 0, ClearedContent(h))
      BY <2>2 DEF CopyFrom
    <3> QED  BY <3>1, MergeFits
  <2>3. CASE Swap(h, g)
    BY <2>3, SwapFits
  <2> QED  BY <1>5, <2>1, <2>2, <2>3
<1>6. ASSUME NEW h \in FieldNames, NEW i \in 1..current_size[h], NEW j \in 1..current_size[h],
             SwapElements(h, i, j)
      PROVE  \A f \in FieldNames : Fits(f)
  BY <1>6, NoGrowth DEF SwapElements
<1>7. ASSUME NEW h \in FieldNames, NEW start \in 0..current_size[h],
             NEW num \in 1..current_size[h] - start,
             ExtractSubrange(h, start, num) \/ DeleteSubrange(h, start, num)
      PROVE  \A f \in FieldNames : Fits(f)
  BY <1>7, NoGrowth DEF ExtractSubrange, DeleteSubrange, CloseGap
<1> QED
  BY <1>1, <1>2, <1>3, <1>4, <1>5, <1>6, <1>7 DEF Next

\* No step enlarges an array for elements that fit in it, however many cleared objects
\* fill it: AddAllocated deletes one of them rather than let the array grow.
THEOREM GrowthNeeded == Spec => GrowsWhenFull
<1>1. FieldInv /\ [Next]_vars =>
        [\A f \in FieldNames :
           (total_size'[f] > total_size[f] /\ current_size'[f] > current_size[f]) =>
             \/ current_size'[f] > total_size[f]
             \/ \E g \in FieldNames \ {f} : elements'[f] = elements[g]]_vars
  BY NextFits DEF Fits
<1> QED
  BY <1>1, FieldInvariant, PTL DEF Spec, GrowsWhenFull

-----------------------------------------------------------------------------
(* The fields implement lists of elements: what callers see of the arrays. *)
Shows(f) == [i \in 1..current_size[f] |-> content[elements[f][i]]]
ListOf == [f \in FieldNames |-> Shows(f)]
OwnOf == [i \in DOMAIN own |-> content[own[i]]]

LEMMA ShowsWhat ==
  ASSUME FieldInv, NEW f \in FieldNames
  PROVE  /\ Shows(f) \in Seq(SUBSET Parts) /\ Len(Shows(f)) = current_size[f]
         /\ \A i \in 1..current_size[f] : Shows(f)[i] = content[elements[f][i]]
<1>1. /\ elements[f] \in Seq(Objects) /\ current_size[f] \in Nat
      /\ current_size[f] <= Len(elements[f]) /\ Len(elements[f]) \in Nat
  BY Of
<1>2. content \in [Objects -> SUBSET Parts]
  BY OfCaller
<1>3. \A i \in 1..current_size[f] : content[elements[f][i]] \in SUBSET Parts
  <2> SUFFICES ASSUME NEW i \in 1..current_size[f]  PROVE content[elements[f][i]] \in SUBSET Parts
    OBVIOUS
  <2>1. i \in 1..Len(elements[f])
    BY <1>1
  <2>2. elements[f][i] \in Objects
    BY <1>1, <2>1, Elements
  <2> QED  BY <1>2, <2>2
<1> QED
  BY <1>1, <1>3 DEF Shows

LEMMA OwnWhat ==
  ASSUME FieldInv
  PROVE  /\ OwnOf \in Seq(SUBSET Parts) /\ Len(OwnOf) = Len(own) /\ Len(own) \in Nat
         /\ \A i \in 1..Len(own) : OwnOf[i] = content[own[i]]
<1>1. own \in Seq(Objects) /\ Len(own) \in Nat /\ content \in [Objects -> SUBSET Parts]
  BY OfCaller
<1>2. DOMAIN own = 1..Len(own) /\ \A i \in 1..Len(own) : own[i] \in Objects
  BY <1>1, Elements
<1>3. \A i \in 1..Len(own) : content[own[i]] \in SUBSET Parts
  BY <1>1, <1>2
<1> QED
  BY <1>1, <1>2, <1>3 DEF OwnOf

\* The same of the next state.
Whole ==
  /\ \A f \in FieldNames :
       /\ Shows(f) \in Seq(SUBSET Parts) /\ Len(Shows(f)) = current_size[f]
       /\ \A i \in 1..current_size[f] : Shows(f)[i] = content[elements[f][i]]
       /\ current_size[f] \in Nat
  /\ OwnOf \in Seq(SUBSET Parts) /\ Len(OwnOf) = Len(own)
  /\ \A i \in 1..Len(own) : OwnOf[i] = content[own[i]]

LEMMA WholeNext == FieldInv' => Whole'
<1>1. FieldInv => Whole
  BY ShowsWhat, OwnWhat, Of DEF Whole
<1> QED
  BY <1>1, PTL

LEMMA ShowsNext ==
  ASSUME FieldInv', NEW f \in FieldNames
  PROVE  /\ Shows(f)' \in Seq(SUBSET Parts) /\ Len(Shows(f)') = current_size'[f]
         /\ \A i \in 1..current_size'[f] : Shows(f)'[i] = content'[elements'[f][i]]
         /\ current_size'[f] \in Nat
<1>1. Whole'
  BY WholeNext
<1> QED
  BY <1>1 DEF Whole

LEMMA OwnNext ==
  ASSUME FieldInv'
  PROVE  /\ OwnOf' \in Seq(SUBSET Parts) /\ Len(OwnOf') = Len(own')
         /\ \A i \in 1..Len(own') : OwnOf'[i] = content'[own'[i]]
<1>1. Whole'
  BY WholeNext
<1> QED
  BY <1>1 DEF Whole

\* What is in a field or with the caller.
LEMMA InPlace ==
  ASSUME FieldInv, NEW f \in FieldNames, NEW i \in 1..current_size[f]
  PROVE  /\ i \in 1..Len(elements[f]) /\ elements[f][i] \in ToSet(elements[f])
         /\ elements[f][i] \in live /\ elements[f][i] \notin ToSet(own)
         /\ \A g \in FieldNames : g # f => elements[f][i] \notin ToSet(elements[g])
<1>1. /\ elements[f] \in Seq(Objects) /\ current_size[f] \in Nat
      /\ current_size[f] <= Len(elements[f]) /\ Len(elements[f]) \in Nat
      /\ ToSet(elements[f]) \subseteq live /\ ToSet(elements[f]) \cap ToSet(own) = {}
  BY Of
<1>2. i \in 1..Len(elements[f]) /\ elements[f][i] \in ToSet(elements[f])
  <2>1. i \in 1..Len(elements[f])
    BY <1>1
  <2> QED  BY <1>1, <2>1, Elements
<1>3. \A g \in FieldNames : g # f => ToSet(elements[f]) \cap ToSet(elements[g]) = {}
  BY DEF FieldInv, OwnedOnce
<1> QED
  BY <1>1, <1>2, <1>3

\* Other fields show what they showed.
LEMMA OthersShow ==
  ASSUME FieldInv, FieldInv', NEW f \in FieldNames, OnlyOf(f),
         \A o \in live : o \notin ToSet(elements[f]) \cup ToSet(own) => content'[o] = content[o]
  PROVE  ListOf' = [ListOf EXCEPT ![f] = Shows(f)']
<1>1. \A g \in FieldNames : g # f => /\ elements'[g] = elements[g]
                                     /\ current_size'[g] = current_size[g]
  BY DEF OnlyOf, FieldInv, Shape
<1>2. ASSUME NEW g \in FieldNames, g # f  PROVE Shows(g)' = Shows(g)
  <2>1. \A i \in 1..current_size[g] : content'[elements[g][i]] = content[elements[g][i]]
    BY <1>2, InPlace
  <2>2. Len(Shows(g)') = Len(Shows(g))
    BY <1>1, <1>2, ShowsNext, ShowsWhat
  <2>3. \A i \in 1..Len(Shows(g)') : Shows(g)'[i] = Shows(g)[i]
    BY <1>1, <1>2, <2>1, ShowsNext, ShowsWhat
  <2>4. Shows(g)' \in Seq(SUBSET Parts) /\ Shows(g) \in Seq(SUBSET Parts)
    BY ShowsNext, ShowsWhat
  <2> QED  BY <2>2, <2>3, <2>4, SameSeq
<1> QED
  BY <1>2 DEF ListOf

LEMMA OwnUnchanged ==
  ASSUME FieldInv, FieldInv', own' = own, \A o \in ToSet(own) : content'[o] = content[o]
  PROVE  OwnOf' = OwnOf
<1>1. own \in Seq(Objects) /\ \A i \in 1..Len(own) : own[i] \in ToSet(own)
  BY OfCaller, Elements
<1>2. Len(OwnOf') = Len(OwnOf) /\ \A i \in 1..Len(OwnOf') : OwnOf'[i] = OwnOf[i]
  BY <1>1, OwnWhat, OwnNext
<1>3. OwnOf' \in Seq(SUBSET Parts) /\ OwnOf \in Seq(SUBSET Parts)
  BY OwnWhat, OwnNext
<1> QED
  BY <1>2, <1>3, SameSeq

\* Once both are known.
LEMMA ShowsThat ==
  ASSUME FieldInv', NEW f \in FieldNames, NEW t \in Seq(SUBSET Parts),
         Len(t) = current_size'[f],
         \A i \in 1..Len(t) : t[i] = content'[elements'[f][i]]
  PROVE  Shows(f)' = t
<1>1. /\ Shows(f)' \in Seq(SUBSET Parts) /\ Len(Shows(f)') = Len(t)
      /\ \A i \in 1..Len(t) : Shows(f)'[i] = t[i]
  BY ShowsNext
<1> QED
  BY <1>1, SameSeq

LEMMA OwnThat ==
  ASSUME FieldInv', NEW t \in Seq(SUBSET Parts), Len(t) = Len(own'),
         \A i \in 1..Len(t) : t[i] = content'[own'[i]]
  PROVE  OwnOf' = t
<1>1. /\ OwnOf' \in Seq(SUBSET Parts) /\ Len(OwnOf') = Len(t)
      /\ \A i \in 1..Len(t) : OwnOf'[i] = t[i]
  BY OwnNext
<1> QED
  BY <1>1, SameSeq

\* An operation on one field, once its new list is known.
LEMMA ListStep ==
  ASSUME FieldInv, FieldInv', NEW f \in FieldNames, OnlyOf(f),
         \A o \in live : o \notin ToSet(elements[f]) \cup ToSet(own) => content'[o] = content[o],
         NEW t \in Seq(SUBSET Parts), Len(t) = current_size'[f],
         \A i \in 1..Len(t) : t[i] = content'[elements'[f][i]]
  PROVE  ListOf' = [ListOf EXCEPT ![f] = t]
<1>1. Shows(f)' = t
  BY ShowsThat
<1> QED
  BY <1>1, OthersShow

LEMMA ListAt ==
  ASSUME NEW f \in FieldNames
  PROVE  ListOf[f] = Shows(f)
BY DEF ListOf

LEMMA AddShows ==
  ASSUME FieldInv, FieldInv', NEW f \in FieldNames, Add(f)
  PROVE  ListOf' = [ListOf EXCEPT ![f] = Append(Shows(f), {})] /\ OwnOf' = OwnOf
<1> DEFINE s == elements[f]
           n == current_size[f]
           o == New(1)[1]
           t == Append(Shows(f), {})
<1>1. /\ s \in Seq(Objects) /\ Len(s) \in Nat /\ n \in Nat /\ n <= Len(s)
      /\ ToSet(s) \subseteq live /\ ToSet(s) \cap ToSet(own) = {}
      /\ \A i \in n + 1..Len(s) : content[s[i]] = {}
  BY Of
<1>2. content \in [Objects -> SUBSET Parts] /\ live \subseteq Objects /\ ToSet(own) \subseteq live
  BY OfCaller
<1>3. current_size'[f] = n + 1 /\ own' = own
  BY DEF Add, FieldInv, Shape
<1>4. /\ t \in Seq(SUBSET Parts) /\ Len(t) = n + 1 /\ t[n + 1] = {}
      /\ \A i \in 1..n : t[i] = content[s[i]]
  <2>1. /\ Shows(f) \in Seq(SUBSET Parts) /\ Len(Shows(f)) = n
        /\ \A i \in 1..n : Shows(f)[i] = content[s[i]]
    BY ShowsWhat
  <2>2. {} \in SUBSET Parts
    OBVIOUS
  <2> QED  BY <2>1, <2>2, AppendOne
<1> HIDE DEF t
<1>5. /\ OnlyOf(f) /\ \A p \in live : content'[p] = content[p]
      /\ \A i \in 1..n : elements'[f][i] = s[i]
      /\ content'[elements'[f][n + 1]] = {}
  <2>1. CASE /\ n < Len(s) /\ UNCHANGED <<elements, total_size, live, content>>
    <3>1. n + 1 \in n + 1..Len(s)
      BY <1>1, <2>1
    <3>2. OnlyOf(f)
      BY <2>1 DEF Add, OnlyOf, FieldInv, Shape
    <3> QED  BY <1>1, <2>1, <3>1, <3>2
  <2>2. CASE /\ n = Len(s) /\ CanNew(1)
             /\ elements' = [elements EXCEPT ![f] = Append(s, o)]
             /\ content' = [content EXCEPT ![o] = {}]
             /\ total_size' = IF Len(s) = total_size[f]
                              THEN [total_size EXCEPT ![f] = Reserved(@, @ + 1)] ELSE total_size
    <3>1. o \in Objects /\ o \notin live
      BY <1>2, <2>2, OneIsFresh
    <3> HIDE DEF o
    <3>2. \A p \in live : content'[p] = content[p]
      BY <1>2, <2>2, <3>1
    <3>3. elements'[f] = Append(s, o)
      BY <2>2 DEF FieldInv, Shape
    <3>4. (\A i \in 1..n : elements'[f][i] = s[i]) /\ elements'[f][n + 1] = o
      BY <1>1, <2>2, <3>1, <3>3, AppendOne
    <3>5. OnlyOf(f)
      <4>1. elements' = [elements EXCEPT ![f] = elements'[f]]
        BY <2>2 DEF FieldInv, Shape
      <4>2. total_size' = [total_size EXCEPT ![f] = total_size'[f]]
        BY <2>2 DEF FieldInv, Shape
      <4> QED  BY <4>1, <4>2 DEF Add, OnlyOf, FieldInv, Shape
    <3> QED  BY <1>2, <2>2, <3>1, <3>2, <3>4, <3>5
  <2> QED  BY <2>1, <2>2 DEF Add, allocated_size
<1>6. \A i \in 1..Len(t) : t[i] = content'[elements'[f][i]]
  <2>1. ASSUME NEW i \in 1..n  PROVE t[i] = content'[elements'[f][i]]
    BY <1>4, <1>5, <2>1, InPlace
  <2>2. \A i \in 1..n + 1 : i \in 1..n \/ i = n + 1
    BY <1>1
  <2> QED  BY <1>4, <1>5, <2>1, <2>2
<1>7. ListOf' = [ListOf EXCEPT ![f] = t]
  <2>1. \A p \in live : p \notin ToSet(s) \cup ToSet(own) => content'[p] = content[p]
    BY <1>5
  <2> QED  BY <1>3, <1>4, <1>5, <1>6, <2>1, ListStep
<1>8. OwnOf' = OwnOf
  BY <1>2, <1>3, <1>5, OwnUnchanged
<1> QED
  BY <1>7, <1>8 DEF t

LEMMA RemoveLastShows ==
  ASSUME FieldInv, FieldInv', NEW f \in FieldNames, RemoveLast(f)
  PROVE  /\ Shows(f) # << >> /\ ListOf' = [ListOf EXCEPT ![f] = Front(Shows(f))]
         /\ OwnOf' = OwnOf
<1> DEFINE s == elements[f]
           n == current_size[f]
           t == Front(Shows(f))
<1>1. /\ s \in Seq(Objects) /\ Len(s) \in Nat /\ n \in Nat /\ n <= Len(s) /\ n > 0
      /\ IsInjective(s) /\ ToSet(s) \cap ToSet(own) = {}
  BY Of DEF RemoveLast
<1>2. content \in [Objects -> SUBSET Parts] /\ live \subseteq Objects
  BY OfCaller
<1>3. /\ current_size'[f] = n - 1 /\ own' = own /\ elements' = elements
      /\ content' = [content EXCEPT ![s[n]] = {}] /\ OnlyOf(f)
  BY DEF RemoveLast, OnlyOf, FieldInv, Shape
<1>4. /\ Shows(f) \in Seq(SUBSET Parts) /\ Len(Shows(f)) = n
      /\ \A i \in 1..n : Shows(f)[i] = content[s[i]]
  BY ShowsWhat
<1>5. Shows(f) # << >>
  BY <1>1, <1>4
<1>6. /\ t \in Seq(SUBSET Parts) /\ Len(t) = n - 1
      /\ \A i \in 1..n - 1 : t[i] = Shows(f)[i]
  BY <1>4, <1>5, WithoutLast
<1> HIDE DEF t
<1>7. n \in 1..n /\ s[n] \in ToSet(s) /\ s[n] \in Objects
  <2>1. n \in 1..n /\ n \in 1..Len(s)
    BY <1>1
  <2> QED  BY <1>1, <2>1, Elements
<1>8. \A i \in 1..Len(t) : t[i] = content'[elements'[f][i]]
  <2>1. ASSUME NEW i \in 1..n - 1  PROVE t[i] = content'[s[i]]
    <3>1. i \in 1..n /\ i \in 1..Len(s) /\ n \in 1..Len(s) /\ i # n
      BY <1>1
    <3>2. s[i] # s[n] /\ s[i] \in Objects
      BY <1>1, <3>1, Apart, Elements
    <3> QED  BY <1>2, <1>3, <1>4, <1>6, <3>1, <3>2
  <2> QED  BY <1>3, <1>6, <2>1
<1>9. \A p \in live : p \notin ToSet(s) => content'[p] = content[p]
  BY <1>2, <1>3, <1>7
<1>10. ListOf' = [ListOf EXCEPT ![f] = t]
  BY <1>3, <1>6, <1>8, <1>9, ListStep
<1>11. OwnOf' = OwnOf
  <2>1. \A p \in ToSet(own) : content'[p] = content[p]
    BY <1>1, <1>9, OfCaller
  <2> QED  BY <1>3, <2>1, OwnUnchanged
<1> QED
  BY <1>5, <1>10, <1>11 DEF t

LEMMA EmptyShows ==
  ASSUME FieldInv, FieldInv', NEW f \in FieldNames, Clear(f) \/ Destroy(f)
  PROVE  ListOf' = [ListOf EXCEPT ![f] = << >>] /\ OwnOf' = OwnOf
<1>1. current_size'[f] = 0 /\ own' = own /\ OnlyOf(f)
  BY DEF Clear, Destroy, OnlyOf, FieldInv, Shape
<1>2. \A o \in live : o \notin ToSet(elements[f]) => content'[o] = content[o]
  <2>1. CASE Clear(f)
    BY <2>1, ClearedContentOf, OfCaller DEF Clear
  <2>2. CASE Destroy(f)
    BY <2>2 DEF Destroy
  <2> QED  BY <2>1, <2>2
<1>3. ToSet(elements[f]) \cap ToSet(own) = {} /\ ToSet(own) \subseteq live
  BY Of, OfCaller
<1> DEFINE t == << >>
<1>4. t \in Seq(SUBSET Parts) /\ Len(t) = 0 /\ \A i \in 1..Len(t) : t[i] = content'[elements'[f][i]]
  OBVIOUS
<1> HIDE DEF t
<1>5. ListOf' = [ListOf EXCEPT ![f] = t]
  BY <1>1, <1>2, <1>4, ListStep
<1>6. OwnOf' = OwnOf
  BY <1>1, <1>2, <1>3, OwnUnchanged
<1> QED
  BY <1>5, <1>6 DEF t

LEMMA SwapElementsShows ==
  ASSUME FieldInv, FieldInv', NEW f \in FieldNames, NEW i \in 1..current_size[f],
         NEW j \in 1..current_size[f], SwapElements(f, i, j)
  PROVE  /\ ListOf' = [ListOf EXCEPT ![f] =
                         [Shows(f) EXCEPT ![i] = Shows(f)[j], ![j] = Shows(f)[i]]]
         /\ OwnOf' = OwnOf
<1> DEFINE s == elements[f]
           n == current_size[f]
           v == Shows(f)
           t == [v EXCEPT ![i] = v[j], ![j] = v[i]]
           u == [s EXCEPT ![i] = s[j], ![j] = s[i]]
<1>1. /\ s \in Seq(Objects) /\ Len(s) \in Nat /\ n \in Nat /\ n <= Len(s)
  BY Of
<1>2. /\ v \in Seq(SUBSET Parts) /\ Len(v) = n /\ \A k \in 1..n : v[k] = content[s[k]]
  BY ShowsWhat
<1>3. /\ elements' = [elements EXCEPT ![f] = u]
      /\ UNCHANGED <<current_size, total_size, live, content, own>>
  BY DEF SwapElements, FieldInv, Shape
<1>4. OnlyOf(f) /\ elements'[f] = u
  <2> HIDE DEF u
  <2> QED  BY <1>3 DEF OnlyOf, FieldInv, Shape
<1>5. \A k \in 1..n : u[k] = IF k = j THEN s[i] ELSE IF k = i THEN s[j] ELSE s[k]
  <2> HIDE DEF s, n
  <2> QED  BY <1>1
<1>6. /\ t \in Seq(SUBSET Parts) /\ Len(t) = n
      /\ \A k \in 1..n : t[k] = IF k = j THEN v[i] ELSE IF k = i THEN v[j] ELSE v[k]
  <2>1. i \in 1..n /\ j \in 1..n
    OBVIOUS
  <2> HIDE DEF v, n
  <2> QED  BY <1>2, <2>1
<1> HIDE DEF t, u
<1>7. \A k \in 1..Len(t) : t[k] = content'[elements'[f][k]]
  BY <1>2, <1>3, <1>4, <1>5, <1>6
<1>8. ListOf' = [ListOf EXCEPT ![f] = t]
  BY <1>3, <1>4, <1>6, <1>7, ListStep
<1>9. OwnOf' = OwnOf
  BY <1>3, OwnUnchanged
<1> QED
  BY <1>8, <1>9 DEF t

LEMMA GapShows ==
  ASSUME FieldInv, FieldInv', NEW f \in FieldNames, NEW start \in Nat, NEW num \in Nat,
         start + num <= current_size[f], CloseGap(f, start, num)
  PROVE  ListOf' = [ListOf EXCEPT ![f] = Closed(Shows(f), start, num)]
<1> DEFINE s == elements[f]
           n == current_size[f]
           v == Shows(f)
           t == Closed(v, start, num)
           u == Closed(s, start, num)
<1>1. /\ s \in Seq(Objects) /\ Len(s) \in Nat /\ n \in Nat /\ n <= Len(s)
  BY Of
<1>2. /\ v \in Seq(SUBSET Parts) /\ Len(v) = n /\ \A k \in 1..n : v[k] = content[s[k]]
  BY ShowsWhat
<1>3. OnlyOf(f) /\ content' = content
  BY GapCloses
<1>4. elements'[f] = u /\ current_size'[f] = n - num
  BY DEF CloseGap, Closed, FieldInv, Shape
<1>5. /\ t \in Seq(SUBSET Parts) /\ Len(t) = n - num
      /\ \A i \in 1..start : t[i] = v[i]
      /\ \A i \in 1..(n - num - start) : t[start + i] = v[start + num + i]
  <2> DEFINE S == SUBSET Parts
  <2>1. v \in Seq(S) /\ start + num <= Len(v)
    BY <1>2
  <2> HIDE DEF v, S
  <2>2. /\ Closed(v, start, num) \in Seq(S) /\ Len(Closed(v, start, num)) = Len(v) - num
        /\ \A i \in 1..start : Closed(v, start, num)[i] = v[i]
        /\ \A i \in 1..(Len(v) - num - start) :
             Closed(v, start, num)[start + i] = v[start + num + i]
        /\ Cut(v, start, num) \in Seq(S) /\ Len(Cut(v, start, num)) = num
        /\ \A i \in 1..num : Cut(v, start, num)[i] = v[start + i]
    BY <2>1, Cutting
  <2> QED  BY <1>2, <2>2 DEF S
<1>6. /\ \A i \in 1..start : u[i] = s[i]
      /\ \A i \in 1..(Len(s) - num - start) : u[start + i] = s[start + num + i]
  <2>1. s \in Seq(Objects) /\ start + num <= Len(s)
    BY <1>1
  <2> HIDE DEF s
  <2>2. /\ Closed(s, start, num) \in Seq(Objects) /\ Len(Closed(s, start, num)) = Len(s) - num
        /\ \A i \in 1..start : Closed(s, start, num)[i] = s[i]
        /\ \A i \in 1..(Len(s) - num - start) :
             Closed(s, start, num)[start + i] = s[start + num + i]
        /\ Cut(s, start, num) \in Seq(Objects) /\ Len(Cut(s, start, num)) = num
        /\ \A i \in 1..num : Cut(s, start, num)[i] = s[start + i]
    BY <2>1, Cutting
  <2> QED  BY <1>1, <2>2
<1> HIDE DEF t, u
<1>7. \A i \in 1..Len(t) : t[i] = content'[elements'[f][i]]
  <2> SUFFICES ASSUME NEW i \in 1..n - num  PROVE t[i] = content[u[i]]
    BY <1>3, <1>4, <1>5
  <2>1. CASE i <= start
    <3>1. i \in 1..start /\ i \in 1..n
      BY <1>1, <2>1
    <3> QED  BY <1>2, <1>5, <1>6, <3>1
  <2>2. CASE i > start
    <3> DEFINE k == i - start
    <3>1. /\ k \in 1..(n - num - start) /\ k \in 1..(Len(s) - num - start)
          /\ start + k = i /\ start + num + k \in 1..n
      BY <1>1, <2>2, SMTT(30)
    <3> HIDE DEF k
    <3>2. t[i] = v[start + num + k]
      BY <1>5, <3>1
    <3>3. u[i] = s[start + num + k]
      BY <1>6, <3>1
    <3> QED  BY <1>2, <3>1, <3>2, <3>3
  <2>3. i <= start \/ i > start
    BY <1>1
  <2> QED  BY <2>1, <2>2, <2>3
<1>8. ListOf' = [ListOf EXCEPT ![f] = t]
  BY <1>3, <1>4, <1>5, <1>7, ListStep
<1> QED
  BY <1>8 DEF t

LEMMA DeleteSubrangeShows ==
  ASSUME FieldInv, FieldInv', NEW f \in FieldNames, NEW start \in Nat, NEW num \in Nat,
         start + num <= current_size[f], DeleteSubrange(f, start, num)
  PROVE  /\ ListOf' = [ListOf EXCEPT ![f] = Closed(Shows(f), start, num)]
         /\ OwnOf' = OwnOf
<1>1. CloseGap(f, start, num) /\ own' = own /\ content' = content
  BY DEF DeleteSubrange, CloseGap
<1> QED
  BY <1>1, GapShows, OwnUnchanged

LEMMA ExtractSubrangeShows ==
  ASSUME FieldInv, FieldInv', NEW f \in FieldNames, NEW start \in Nat, NEW num \in Nat,
         start + num <= current_size[f], ExtractSubrange(f, start, num)
  PROVE  /\ ListOf' = [ListOf EXCEPT ![f] = Closed(Shows(f), start, num)]
         /\ OwnOf' = OwnOf \o Cut(Shows(f), start, num)
<1> DEFINE s == elements[f]
           v == Shows(f)
           gap == Cut(s, start, num)
           shown == Cut(v, start, num)
           t == OwnOf \o shown
<1>1. CloseGap(f, start, num) /\ own' = own \o gap /\ content' = content
  BY DEF ExtractSubrange, CloseGap, Gap, Cut
<1>2. /\ s \in Seq(Objects) /\ Len(s) \in Nat /\ current_size[f] \in Nat
      /\ current_size[f] <= Len(s)
  BY Of
<1>3. /\ v \in Seq(SUBSET Parts) /\ Len(v) = current_size[f]
      /\ \A k \in 1..current_size[f] : v[k] = content[s[k]]
  BY ShowsWhat
<1>4. own \in Seq(Objects) /\ Len(own) \in Nat
  BY OfCaller
<1>5. /\ OwnOf \in Seq(SUBSET Parts) /\ Len(OwnOf) = Len(own)
      /\ \A i \in 1..Len(own) : OwnOf[i] = content[own[i]]
  BY OwnWhat
<1>6. /\ gap \in Seq(Objects) /\ Len(gap) = num /\ \A i \in 1..num : gap[i] = s[start + i]
  <2>1. s \in Seq(Objects) /\ start + num <= Len(s)
    BY <1>2
  <2> HIDE DEF s
  <2>2. /\ Closed(s, start, num) \in Seq(Objects) /\ Len(Closed(s, start, num)) = Len(s) - num
        /\ \A i \in 1..start : Closed(s, start, num)[i] = s[i]
        /\ \A i \in 1..(Len(s) - num - start) :
             Closed(s, start, num)[start + i] = s[start + num + i]
        /\ Cut(s, start, num) \in Seq(Objects) /\ Len(Cut(s, start, num)) = num
        /\ \A i \in 1..num : Cut(s, start, num)[i] = s[start + i]
    BY <2>1, Cutting
  <2> QED  BY <1>2, <2>2
<1>7. /\ shown \in Seq(SUBSET Parts) /\ Len(shown) = num
      /\ \A i \in 1..num : shown[i] = v[start + i]
  <2>1. start + num <= Len(v)
    BY <1>3
  <2> HIDE DEF v
  <2> QED  BY <1>3, <2>1, Cutting
<1> HIDE DEF gap, shown
<1>8. /\ t \in Seq(SUBSET Parts) /\ Len(t) = Len(own) + num
      /\ \A i \in 1..Len(own) : t[i] = content[own[i]]
      /\ \A i \in 1..num : t[Len(own) + i] = shown[i]
  <2>1. OwnOf \in Seq(SUBSET Parts) /\ shown \in Seq(SUBSET Parts)
    BY <1>5, <1>7
  <2>2. /\ t \in Seq(SUBSET Parts) /\ Len(t) = Len(OwnOf) + Len(shown)
        /\ \A i \in 1..Len(OwnOf) : t[i] = OwnOf[i]
        /\ \A i \in 1..Len(shown) : t[Len(OwnOf) + i] = shown[i]
    BY <2>1, Joined
  <2> HIDE DEF t
  <2> QED  BY <1>5, <1>7, <2>2
<1>9. /\ Len(own') = Len(own) + num
      /\ \A i \in 1..Len(own) : own'[i] = own[i]
      /\ \A i \in 1..num : own'[Len(own) + i] = gap[i]
  <2>1. own \in Seq(Objects) /\ gap \in Seq(Objects)
    BY <1>4, <1>6
  <2>2. /\ Len(own \o gap) = Len(own) + Len(gap)
        /\ \A i \in 1..Len(own) : (own \o gap)[i] = own[i]
        /\ \A i \in 1..Len(gap) : (own \o gap)[Len(own) + i] = gap[i]
    BY <2>1, Joined
  <2> QED  BY <1>1, <1>6, <2>2
<1> HIDE DEF t
<1>10. \A i \in 1..num : shown[i] = content[gap[i]]
  <2>1. \A i \in 1..num : start + i \in 1..current_size[f]
    BY <1>2
  <2> QED  BY <1>3, <1>6, <1>7, <2>1
<1>11. ASSUME NEW i \in 1..Len(t)  PROVE t[i] = content'[own'[i]]
  <2>1. CASE i <= Len(own)
    <3>1. i \in 1..Len(own)
      BY <1>4, <1>8, <2>1
    <3> QED  BY <1>1, <1>8, <1>9, <3>1
  <2>2. CASE i > Len(own)
    <3> DEFINE k == i - Len(own)
    <3>1. k \in 1..num /\ i = Len(own) + k
      BY <1>4, <1>8, <2>2
    <3> HIDE DEF k
    <3> QED  BY <1>1, <1>8, <1>9, <1>10, <3>1
  <2>3. i <= Len(own) \/ i > Len(own)
    BY <1>4
  <2> QED  BY <2>1, <2>2, <2>3
<1>12. OwnOf' = t
  BY <1>8, <1>9, <1>11, OwnThat
<1> QED
  BY <1>1, <1>12, GapShows DEF t, shown

\* The caller's list, after its last element has gone, or another one has come.
LEMMA OwnTaken ==
  ASSUME FieldInv, FieldInv', own # << >>, own' = Front(own),
         \A o \in ToSet(own) : content'[o] = content[o]
  PROVE  OwnOf # << >> /\ OwnOf' = Front(OwnOf) /\ Last(OwnOf) = content[Last(own)]
<1> DEFINE n == Len(own)
           t == Front(OwnOf)
<1>1. own \in Seq(Objects) /\ n \in Nat /\ \A i \in 1..n : own[i] \in ToSet(own)
  BY OfCaller, Elements
<1>2. n >= 1 /\ Len(own') = n - 1 /\ Last(own) = own[n] /\ \A i \in 1..n - 1 : own'[i] = own[i]
  BY <1>1, WithoutLast
<1>3. /\ OwnOf \in Seq(SUBSET Parts) /\ Len(OwnOf) = n
      /\ \A i \in 1..n : OwnOf[i] = content[own[i]]
  BY OwnWhat
<1> HIDE DEF n
<1>4. OwnOf # << >>
  BY <1>2, <1>3
<1>5. /\ t \in Seq(SUBSET Parts) /\ Len(t) = n - 1 /\ Last(OwnOf) = OwnOf[n]
      /\ \A i \in 1..n - 1 : t[i] = OwnOf[i]
  BY <1>3, <1>4, WithoutLast
<1> HIDE DEF t
<1>6. \A i \in 1..Len(t) : t[i] = content'[own'[i]]
  <2>1. \A i \in 1..n - 1 : i \in 1..n
    BY <1>1
  <2> QED  BY <1>1, <1>2, <1>3, <1>5, <2>1
<1>7. OwnOf' = t
  BY <1>2, <1>5, <1>6, OwnThat
<1>8. n \in 1..n
  BY <1>1, <1>2
<1> QED
  BY <1>2, <1>3, <1>4, <1>5, <1>7, <1>8 DEF t

LEMMA OwnGiven ==
  ASSUME FieldInv, FieldInv', NEW o \in Objects, own' = Append(own, o),
         \A p \in ToSet(own) : content'[p] = content[p]
  PROVE  OwnOf' = Append(OwnOf, content'[o])
<1> DEFINE n == Len(own)
           c == content'[o]
           t == Append(OwnOf, c)
<1>1. own \in Seq(Objects) /\ n \in Nat /\ \A i \in 1..n : own[i] \in ToSet(own)
  BY OfCaller, Elements
<1>2. Len(own') = n + 1 /\ own'[n + 1] = o /\ \A i \in 1..n : own'[i] = own[i]
  BY <1>1, AppendOne
<1>3. /\ OwnOf \in Seq(SUBSET Parts) /\ Len(OwnOf) = n
      /\ \A i \in 1..n : OwnOf[i] = content[own[i]]
  BY OwnWhat
<1>4. c \in SUBSET Parts
  BY DEF FieldInv, Shape
<1> HIDE DEF n, c
<1>5. /\ t \in Seq(SUBSET Parts) /\ Len(t) = n + 1 /\ t[n + 1] = c
      /\ \A i \in 1..n : t[i] = OwnOf[i]
  BY <1>3, <1>4, AppendOne
<1> HIDE DEF t
<1>6. \A i \in 1..Len(t) : t[i] = content'[own'[i]]
  <2>1. \A i \in 1..n + 1 : i \in 1..n \/ i = n + 1
    BY <1>1
  <2> QED  BY <1>1, <1>2, <1>3, <1>5, <2>1 DEF c
<1>7. OwnOf' = t
  BY <1>2, <1>5, <1>6, OwnThat
<1> QED
  BY <1>7 DEF t, c

\* An operation behind the last element of a field, or on the caller's objects.
LEMMA ListKept ==
  ASSUME FieldInv, FieldInv', NEW f \in FieldNames, OnlyOf(f),
         current_size'[f] = current_size[f],
         \A i \in 1..current_size[f] : elements'[f][i] = elements[f][i],
         \A o \in live : o \notin ToSet(own) => content'[o] = content[o]
  PROVE  ListOf' = ListOf
<1> DEFINE t == Shows(f)
<1>1. /\ t \in Seq(SUBSET Parts) /\ Len(t) = current_size[f]
      /\ \A i \in 1..current_size[f] : t[i] = content[elements[f][i]]
  BY ShowsWhat
<1>2. \A i \in 1..current_size[f] : elements[f][i] \in live /\ elements[f][i] \notin ToSet(own)
  BY InPlace
<1>3. ListOf[f] = t
  BY ListAt
<1> HIDE DEF t
<1>4. \A i \in 1..Len(t) : t[i] = content'[elements'[f][i]]
  BY <1>1, <1>2
<1>5. ListOf' = [ListOf EXCEPT ![f] = t]
  BY <1>1, <1>4, ListStep
<1> QED
  BY <1>3, <1>5 DEF ListOf

LEMMA AllKept ==
  ASSUME FieldInv, UNCHANGED <<elements, current_size>>,
         \A o \in live : o \notin ToSet(own) => content'[o] = content[o]
  PROVE  ListOf' = ListOf
<1>1. ASSUME NEW f \in FieldNames  PROVE Shows(f)' = Shows(f)
  <2>1. \A i \in 1..current_size[f] : content'[elements[f][i]] = content[elements[f][i]]
    BY InPlace
  <2> QED  BY <2>1 DEF Shows
<1> QED
  BY <1>1 DEF ListOf

LEMMA AddAllocatedShows ==
  ASSUME FieldInv, FieldInv', NEW f \in FieldNames, AddAllocated(f)
  PROVE  /\ OwnOf # << >> /\ ListOf' = [ListOf EXCEPT ![f] = Append(Shows(f), Last(OwnOf))]
         /\ OwnOf' = Front(OwnOf)
<1> DEFINE s == elements[f]
           n == current_size[f]
           o == Last(own)
           c == content[o]
           t == Append(Shows(f), c)
<1>1. s \in Seq(Objects) /\ Len(s) \in Nat /\ n \in Nat /\ n <= Len(s) /\ Len(s) <= total_size[f]
      /\ total_size[f] \in Nat
  BY Of
<1>2. /\ own # << >> /\ own' = Front(own) /\ content' = content /\ current_size'[f] = n + 1
      /\ current_size' = [current_size EXCEPT ![f] = current_size'[f]]
  BY DEF AddAllocated, FieldInv, Shape
<1>3. o \in Objects /\ content \in [Objects -> SUBSET Parts]
  BY <1>2, Taken, OfCaller
<1>4. \/ n = Len(s) /\ elements' = [elements EXCEPT ![f] = Append(s, o)]
      \/ n < Len(s) /\ elements' = [elements EXCEPT ![f] = [s EXCEPT ![n + 1] = o]]
      \/ n < Len(s) /\ elements' = [elements EXCEPT ![f] = Append([s EXCEPT ![n + 1] = o], s[n + 1])]
  BY <1>1 DEF AddAllocated
<1>5. total_size' = [total_size EXCEPT ![f] = total_size'[f]]
  BY DEF AddAllocated, FieldInv, Shape
<1>6. elements' = [elements EXCEPT ![f] = elements'[f]]
  <2>1. ASSUME NEW array, elements' = [elements EXCEPT ![f] = array]
        PROVE  elements' = [elements EXCEPT ![f] = elements'[f]]
    BY <2>1 DEF FieldInv, Shape
  <2> HIDE DEF o
  <2> QED  BY <1>4, <2>1
<1>7. OnlyOf(f)
  BY <1>2, <1>5, <1>6 DEF OnlyOf
<1> HIDE DEF o
<1>8. /\ \A i \in 1..n : elements'[f][i] = s[i]
      /\ elements'[f][n + 1] = o
  <2>1. CASE n = Len(s) /\ elements' = [elements EXCEPT ![f] = Append(s, o)]
    <3>1. elements'[f] = Append(s, o)
      BY <2>1 DEF FieldInv, Shape
    <3> QED  BY <1>1, <1>3, <2>1, <3>1, AppendOne
  <2> DEFINE u == [s EXCEPT ![n + 1] = o]
  <2>2. /\ n < Len(s) => /\ u \in Seq(Objects) /\ Len(u) = Len(s)
                         /\ (\A i \in 1..n : u[i] = s[i]) /\ u[n + 1] = o
                         /\ n + 1 \in 1..Len(s) /\ s[n + 1] \in Objects
    <3> HIDE DEF s, n
    <3> QED  BY <1>1, <1>3
  <2> HIDE DEF u
  <2>3. CASE n < Len(s) /\ elements' = [elements EXCEPT ![f] = u]
    <3>1. elements'[f] = u
      BY <2>3 DEF FieldInv, Shape
    <3> QED  BY <2>2, <2>3, <3>1
  <2>4. CASE n < Len(s) /\ elements' = [elements EXCEPT ![f] = Append(u, s[n + 1])]
    <3>1. elements'[f] = Append(u, s[n + 1])
      BY <2>4 DEF FieldInv, Shape
    <3>2. \A i \in 1..Len(u) : Append(u, s[n + 1])[i] = u[i]
      BY <2>2, <2>4, AppendOne
    <3>3. \A i \in 1..n : i \in 1..Len(u)
      BY <1>1, <2>2, <2>4
    <3> QED  BY <2>2, <2>4, <3>1, <3>2, <3>3
  <2> QED  BY <1>4, <2>1, <2>3, <2>4 DEF u
<1>9. /\ Shows(f) \in Seq(SUBSET Parts) /\ Len(Shows(f)) = n
      /\ \A i \in 1..n : Shows(f)[i] = content[s[i]]
  BY ShowsWhat
<1>10. c \in SUBSET Parts
  BY <1>3
<1>11. /\ t \in Seq(SUBSET Parts) /\ Len(t) = n + 1 /\ t[n + 1] = c
       /\ \A i \in 1..n : t[i] = Shows(f)[i]
  <2> HIDE DEF c
  <2> QED  BY <1>9, <1>10, AppendOne
<1> HIDE DEF t
<1>12. \A i \in 1..Len(t) : t[i] = content'[elements'[f][i]]
  <2>1. \A i \in 1..n + 1 : i \in 1..n \/ i = n + 1
    BY <1>1
  <2> QED  BY <1>2, <1>8, <1>9, <1>11, <2>1
<1>13. ListOf' = [ListOf EXCEPT ![f] = t]
  BY <1>2, <1>7, <1>11, <1>12, ListStep
<1>14. OwnOf # << >> /\ OwnOf' = Front(OwnOf) /\ Last(OwnOf) = c
  BY <1>2, OwnTaken DEF o
<1> QED
  BY <1>13, <1>14 DEF t

LEMMA AddClearedShows ==
  ASSUME FieldInv, FieldInv', NEW f \in FieldNames, AddCleared(f)
  PROVE  OwnOf # << >> /\ OwnOf' = Front(OwnOf) /\ ListOf' = ListOf
<1>1. /\ own # << >> /\ own' = Front(own) /\ content' = content
      /\ elements'[f] = Append(elements[f], Last(own))
      /\ current_size' = current_size /\ OnlyOf(f)
  BY DEF AddCleared, OnlyOf, FieldInv, Shape
<1>2. OwnOf # << >> /\ OwnOf' = Front(OwnOf)
  BY <1>1, OwnTaken
<1>3. \A i \in 1..current_size[f] : elements'[f][i] = elements[f][i]
  <2>1. Last(own) \in Objects /\ elements[f] \in Seq(Objects)
    BY <1>1, Taken, Of
  <2>2. \A i \in 1..Len(elements[f]) : Append(elements[f], Last(own))[i] = elements[f][i]
    BY <2>1, AppendOne
  <2> QED  BY <1>1, <2>2, InPlace
<1>4. ListOf' = ListOf
  BY <1>1, <1>3, ListKept
<1> QED
  BY <1>2, <1>4

LEMMA ReleaseClearedShows ==
  ASSUME FieldInv, FieldInv', NEW f \in FieldNames, ReleaseCleared(f)
  PROVE  OwnOf' = Append(OwnOf, {}) /\ ListOf' = ListOf
<1> DEFINE s == elements[f]
           n == current_size[f]
           o == Last(s)
<1>1. /\ own' = Append(own, o) /\ content' = content
      /\ elements'[f] = Front(s)
      /\ current_size' = current_size /\ OnlyOf(f) /\ n < Len(s)
  BY DEF ReleaseCleared, OnlyOf, FieldInv, Shape, allocated_size
<1>2. /\ s \in Seq(Objects) /\ Len(s) \in Nat /\ n \in Nat
      /\ \A i \in n + 1..Len(s) : content[s[i]] = {}
  BY Of
<1>3. /\ o \in Objects /\ o = s[Len(s)] /\ \A i \in 1..Len(s) - 1 : Front(s)[i] = s[i]
  <2>1. s # << >>
    BY <1>1, <1>2
  <2> HIDE DEF s
  <2> QED  BY <1>2, <2>1, WithoutLast DEF o
<1>4. content[o] = {}
  <2>1. Len(s) \in n + 1..Len(s)
    BY <1>1, <1>2
  <2> HIDE DEF o
  <2> QED  BY <1>2, <1>3, <2>1
<1> HIDE DEF o
<1>5. OwnOf' = Append(OwnOf, {})
  BY <1>1, <1>3, <1>4, OwnGiven
<1>6. \A i \in 1..n : elements'[f][i] = s[i]
  <2>1. \A i \in 1..n : i \in 1..Len(s) - 1
    BY <1>1, <1>2
  <2> QED  BY <1>1, <1>3, <2>1
<1>7. ListOf' = ListOf
  BY <1>1, <1>6, ListKept
<1> QED
  BY <1>5, <1>7

LEMMA CallerShows ==
  ASSUME FieldInv, FieldInv'
  PROVE  /\ CallerNew => OwnOf' = Append(OwnOf, {}) /\ ListOf' = ListOf
         /\ CallerDelete => OwnOf # << >> /\ OwnOf' = Front(OwnOf) /\ ListOf' = ListOf
<1>1. ASSUME CallerNew  PROVE OwnOf' = Append(OwnOf, {}) /\ ListOf' = ListOf
  <2> DEFINE o == New(1)[1]
  <2>1. /\ CanNew(1) /\ own' = Append(own, o) /\ content' = [content EXCEPT ![o] = {}]
        /\ UNCHANGED <<elements, current_size>>
    BY <1>1 DEF CallerNew
  <2>2. /\ content \in [Objects -> SUBSET Parts] /\ live \subseteq Objects
        /\ ToSet(own) \subseteq live
    BY OfCaller
  <2>3. o \in Objects /\ o \notin live
    BY <2>1, <2>2, OneIsFresh
  <2> HIDE DEF o
  <2>4. content'[o] = {} /\ \A p \in live : content'[p] = content[p]
    BY <2>1, <2>2, <2>3
  <2>5. ListOf' = ListOf
    BY <2>1, <2>4, AllKept
  <2>6. OwnOf' = Append(OwnOf, content'[o])
    BY <2>1, <2>2, <2>3, <2>4, OwnGiven
  <2> QED  BY <2>4, <2>5, <2>6
<1>2. ASSUME CallerDelete  PROVE OwnOf # << >> /\ OwnOf' = Front(OwnOf) /\ ListOf' = ListOf
  BY <1>2, OwnTaken, AllKept DEF CallerDelete
<1> QED
  BY <1>1, <1>2

LEMMA ReleaseLastShows ==
  ASSUME FieldInv, FieldInv', NEW f \in FieldNames, ReleaseLast(f)
  PROVE  LET last == current_size[f] - 1
         IN  /\ last \in Nat /\ last + 1 = current_size[f]
             /\ ListOf' = [ListOf EXCEPT ![f] = Closed(Shows(f), last, 1)]
             /\ OwnOf' = OwnOf \o Cut(Shows(f), last, 1)
<1> DEFINE s == elements[f]
           n == current_size[f]
           v == Shows(f)
           last == n - 1
           t == Closed(v, last, 1)
           gap == Cut(v, last, 1)
           S == SUBSET Parts
<1>1. /\ s \in Seq(Objects) /\ Len(s) \in Nat /\ n \in Nat /\ n <= Len(s) /\ n > 0
      /\ IsInjective(s)
  BY Of DEF ReleaseLast
<1>2. /\ own' = Append(own, s[n]) /\ content' = content
      /\ elements' = [elements EXCEPT ![f] = MoveLast(s, n)]
      /\ current_size'[f] = last /\ OnlyOf(f)
  BY DEF ReleaseLast, MoveLast, OnlyOf, FieldInv, Shape
<1>3. last \in Nat /\ last + 1 = n /\ n \in 1..n /\ n \in 1..Len(s) /\ last <= Len(s) - 1
  BY <1>1
<1>4. elements'[f] = MoveLast(s, n)
  BY <1>2 DEF FieldInv, Shape
<1>5. \A i \in 1..last : elements'[f][i] = s[i]
  <2>1. s \in Seq(Objects) /\ IsInjective(s) /\ n \in 1..Len(s)
    BY <1>1, <1>3
  <2>2. \A i \in 1..last : i \in 1..Len(s) - 1 /\ i # n
    BY <1>1
  <2> HIDE DEF s, n
  <2>3. \A i \in 1..Len(s) - 1 : MoveLast(s, n)[i] = IF i = n THEN s[Len(s)] ELSE s[i]
    BY <2>1, MovedLast
  <2> QED  BY <1>4, <2>2, <2>3
<1>6. /\ v \in Seq(S) /\ Len(v) = n /\ \A i \in 1..n : v[i] = content[s[i]]
  BY ShowsWhat
<1> HIDE DEF v, last
<1>7. /\ t \in Seq(S) /\ Len(t) = last /\ \A i \in 1..last : t[i] = v[i]
      /\ gap \in Seq(S) /\ Len(gap) = 1 /\ gap[1] = v[n]
  <2> DEFINE one == 1
  <2>0. v \in Seq(S) /\ last \in Nat /\ one \in Nat /\ last + one <= Len(v)
    BY <1>1, <1>3, <1>6
  <2>1. /\ Len(v) - one = last /\ last + one = n /\ 1 \in 1..one
    BY <1>1, <1>3, <1>6
  <2>2. one = 1 /\ t = Closed(v, last, one) /\ gap = Cut(v, last, one)
    OBVIOUS
  <2> HIDE DEF S, one, t, gap
  <2>3. /\ Closed(v, last, one) \in Seq(S) /\ Len(Closed(v, last, one)) = Len(v) - one
        /\ \A i \in 1..last : Closed(v, last, one)[i] = v[i]
        /\ \A i \in 1..(Len(v) - one - last) :
             Closed(v, last, one)[last + i] = v[last + one + i]
        /\ Cut(v, last, one) \in Seq(S) /\ Len(Cut(v, last, one)) = one
        /\ \A i \in 1..one : Cut(v, last, one)[i] = v[last + i]
    BY <2>0, Cutting, ZenonT(30)
  <2> QED  BY <2>1, <2>2, <2>3
<1> HIDE DEF t, gap
<1>8. \A i \in 1..Len(t) : t[i] = content'[elements'[f][i]]
  <2>1. \A i \in 1..last : i \in 1..n
    BY <1>1, <1>3
  <2> QED  BY <1>2, <1>5, <1>6, <1>7, <2>1
<1>9. ListOf' = [ListOf EXCEPT ![f] = t]
  BY <1>2, <1>7, <1>8, ListStep DEF S
<1>10. s[n] \in Objects
  BY <1>1, <1>3, Elements
<1>11. OwnOf' = Append(OwnOf, content[s[n]])
  <2> DEFINE o == s[n]
  <2>1. o \in Objects /\ own' = Append(own, o) /\ content' = content
    BY <1>2, <1>10
  <2> HIDE DEF o
  <2>2. OwnOf' = Append(OwnOf, content'[o])
    BY <2>1, OwnGiven
  <2> QED  BY <2>1, <2>2 DEF o
<1>12. gap = << content[s[n]] >>
  BY <1>3, <1>6, <1>7
<1>13. OwnOf' = OwnOf \o gap
  BY <1>11, <1>12, OwnWhat
<1> QED
  BY <1>3, <1>9, <1>13 DEF t, gap, last, v

LEMMA SwapShows ==
  ASSUME FieldInv, NEW f \in FieldNames, NEW g \in FieldNames, Swap(f, g)
  PROVE  ListOf' = [ListOf EXCEPT ![f] = Shows(g), ![g] = Shows(f)] /\ OwnOf' = OwnOf
<1>1. /\ f # g /\ elements'[f] = elements[g] /\ elements'[g] = elements[f]
      /\ current_size'[f] = current_size[g] /\ current_size'[g] = current_size[f]
      /\ \A h \in FieldNames : h \notin {f, g} => /\ elements'[h] = elements[h]
                                                  /\ current_size'[h] = current_size[h]
      /\ content' = content /\ own' = own
  BY DEF Swap, FieldInv, Shape
<1>2. Shows(f)' = Shows(g) /\ Shows(g)' = Shows(f)
  BY <1>1 DEF Shows
<1>3. \A h \in FieldNames : h \notin {f, g} => Shows(h)' = Shows(h)
  BY <1>1 DEF Shows
<1>4. OwnOf' = OwnOf
  BY <1>1 DEF OwnOf
<1> QED
  BY <1>1, <1>2, <1>3, <1>4 DEF ListOf

\* The caller fills an object of its own, or one of a field.
LEMMA MutableShows ==
  ASSUME FieldInv, FieldInv', Mutable
  PROVE  \/ /\ \E i \in DOMAIN OwnOf, p \in Parts : OwnOf' = [OwnOf EXCEPT ![i] = @ \cup {p}]
            /\ ListOf' = ListOf
         \/ /\ \E f \in FieldNames : \E i \in DOMAIN Shows(f), p \in Parts :
                 ListOf' = [ListOf EXCEPT ![f] = [Shows(f) EXCEPT ![i] = @ \cup {p}]]
            /\ OwnOf' = OwnOf
<1>1. /\ own \in Seq(Objects) /\ Len(own) \in Nat /\ IsInjective(own)
      /\ ToSet(own) \subseteq live /\ content \in [Objects -> SUBSET Parts]
      /\ live \subseteq Objects
  BY OfCaller
<1>2. UNCHANGED <<elements, current_size, total_size, live, own>>
  BY DEF Mutable
<1>3. ASSUME NEW p \in Parts, NEW i \in DOMAIN own,
             content' = [content EXCEPT ![own[i]] = @ \cup {p}]
      PROVE  i \in DOMAIN OwnOf /\ OwnOf' = [OwnOf EXCEPT ![i] = @ \cup {p}] /\ ListOf' = ListOf
  <2> DEFINE t == [OwnOf EXCEPT ![i] = @ \cup {p}]
             n == Len(own)
  <2>1. i \in 1..n /\ own[i] \in ToSet(own) /\ own[i] \in Objects
    BY <1>1, Elements
  <2>2. \A o \in Objects : content'[o] = IF o = own[i] THEN content[o] \cup {p} ELSE content[o]
    BY <1>1, <1>3, <2>1
  <2>3. /\ OwnOf \in Seq(SUBSET Parts) /\ Len(OwnOf) = n
        /\ \A k \in 1..n : OwnOf[k] = content[own[k]]
    BY OwnWhat
  <2>4. OwnOf[i] \cup {p} \in SUBSET Parts
    BY <1>1, <2>1, <2>3
  <2>5. /\ t \in Seq(SUBSET Parts) /\ Len(t) = n
        /\ \A k \in 1..n : t[k] = IF k = i THEN OwnOf[k] \cup {p} ELSE OwnOf[k]
    <3> DEFINE e == OwnOf[i] \cup {p}
               w == OwnOf
               S == SUBSET Parts
    <3>1. t = [w EXCEPT ![i] = e] /\ e = w[i] \cup {p}
      OBVIOUS
    <3>2. w \in Seq(S) /\ Len(w) = n /\ i \in 1..Len(w) /\ e \in S
      BY <2>1, <2>3, <2>4
    <3> HIDE DEF n, w, S, e, t
    <3>3. /\ t \in Seq(S) /\ Len(t) = n
          /\ \A k \in 1..n : t[k] = IF k = i THEN e ELSE w[k]
      BY <3>1, <3>2, SetOne
    <3> QED  BY <3>1, <3>3 DEF S, w
  <2> HIDE DEF t
  <2>6. ASSUME NEW k \in 1..n  PROVE t[k] = content'[own[k]]
    <3>1. own[k] = own[i] <=> k = i
      BY <1>1, <2>1, Apart
    <3>2. own[k] \in Objects
      BY <1>1, Elements
    <3> QED  BY <2>2, <2>3, <2>5, <3>1, <3>2
  <2>7. OwnOf' = t
    BY <1>2, <2>5, <2>6, OwnThat
  <2>8. \A o \in live : o \notin ToSet(own) => content'[o] = content[o]
    BY <1>1, <2>1, <2>2
  <2>9. ListOf' = ListOf
    BY <1>2, <2>8, AllKept
  <2>10. i \in DOMAIN OwnOf
    BY <2>1, <2>3
  <2> QED  BY <2>7, <2>9, <2>10 DEF t
<1>4. ASSUME NEW p \in Parts, NEW f \in FieldNames, NEW i \in 1..current_size[f],
             content' = [content EXCEPT ![elements[f][i]] = @ \cup {p}]
      PROVE  /\ i \in DOMAIN Shows(f)
             /\ ListOf' = [ListOf EXCEPT ![f] = [Shows(f) EXCEPT ![i] = @ \cup {p}]]
             /\ OwnOf' = OwnOf
  <2> DEFINE s == elements[f]
             n == current_size[f]
             v == Shows(f)
             t == [v EXCEPT ![i] = @ \cup {p}]
  <2>1. /\ s \in Seq(Objects) /\ Len(s) \in Nat /\ n \in Nat /\ n <= Len(s) /\ IsInjective(s)
        /\ ToSet(s) \cap ToSet(own) = {}
    BY Of
  <2>2. i \in 1..Len(s) /\ s[i] \in ToSet(s) /\ s[i] \in Objects
    BY <2>1, InPlace, Elements
  <2>3. \A o \in Objects : content'[o] = IF o = s[i] THEN content[o] \cup {p} ELSE content[o]
    BY <1>1, <1>4, <2>2
  <2>4. v \in Seq(SUBSET Parts) /\ Len(v) = n /\ \A k \in 1..n : v[k] = content[s[k]]
    BY ShowsWhat
  <2>5. i \in 1..n /\ v[i] \cup {p} \in SUBSET Parts
    BY <1>1, <2>2, <2>4
  <2> HIDE DEF v
  <2>6. /\ t \in Seq(SUBSET Parts) /\ Len(t) = n
        /\ \A k \in 1..n : t[k] = IF k = i THEN v[k] \cup {p} ELSE v[k]
    <3> DEFINE e == v[i] \cup {p}
               S == SUBSET Parts
    <3>1. t = [v EXCEPT ![i] = e] /\ e = v[i] \cup {p}
      OBVIOUS
    <3>2. v \in Seq(S) /\ Len(v) = n /\ i \in 1..Len(v) /\ e \in S
      BY <2>4, <2>5
    <3> HIDE DEF n, S, e, t
    <3>3. /\ t \in Seq(S) /\ Len(t) = n
          /\ \A k \in 1..n : t[k] = IF k = i THEN e ELSE v[k]
      BY <3>1, <3>2, SetOne
    <3> QED  BY <3>1, <3>3 DEF S
  <2> HIDE DEF t
  <2>7. ASSUME NEW k \in 1..n  PROVE t[k] = content'[s[k]]
    <3>1. k \in 1..Len(s)
      BY <2>1
    <3>2. s[k] = s[i] <=> k = i
      BY <2>1, <2>2, <3>1, Apart
    <3>3. s[k] \in Objects
      BY <2>1, <3>1, Elements
    <3> QED  BY <2>3, <2>4, <2>6, <3>2, <3>3
  <2>8. OnlyOf(f)
    BY <1>2 DEF OnlyOf, FieldInv, Shape
  <2>9. \A o \in live : o \notin ToSet(s) => content'[o] = content[o]
    BY <1>1, <2>2, <2>3
  <2>10. ListOf' = [ListOf EXCEPT ![f] = t]
    BY <1>2, <2>6, <2>7, <2>8, <2>9, ListStep
  <2>11. OwnOf' = OwnOf
    <3>1. \A o \in ToSet(own) : content'[o] = content[o]
      BY <1>1, <2>1, <2>9
    <3> QED  BY <1>2, <3>1, OwnUnchanged
  <2>12. i \in DOMAIN v
    BY <2>4, <2>5
  <2> QED  BY <2>10, <2>11, <2>12 DEF t, v
<1> QED
  BY <1>3, <1>4 DEF Mutable

\* The arrays of the next state.
Arrays ==
  \A f \in FieldNames :
    /\ elements[f] \in Seq(Objects) /\ Len(elements[f]) \in Nat /\ IsInjective(elements[f])
    /\ current_size[f] \in Nat /\ current_size[f] <= Len(elements[f])

LEMMA ArraysNext == FieldInv' => Arrays'
<1>1. FieldInv => Arrays
  BY Of DEF Arrays
<1> QED
  BY <1>1, PTL

\* The contents of f, and what Merged finds to merge into: elements that are kept, and
\* cleared ones.
Prepared(f, size, before) ==
  /\ \A i \in 1..size : before[elements[f][i]] = content[elements[f][i]]
  /\ \A i \in size + 1..Len(elements[f]) : before[elements[f][i]] = {}

\* The first elements of f, as a list.
First(kept, f, size) ==
  /\ kept \in Seq(SUBSET Parts) /\ Len(kept) = size
  /\ \A i \in 1..size : kept[i] = content[elements[f][i]]

LEMMA MergeIntoShows ==
  ASSUME FieldInv, FieldInv', NEW f \in FieldNames, NEW g \in FieldNames, f # g,
         NEW size, NEW before, Ready(f, g, size, before), Prepared(f, size, before),
         MergeInto(f, g, size, before), NEW kept, First(kept, f, size)
  PROVE  ListOf' = [ListOf EXCEPT ![f] = kept \o Shows(g)] /\ OwnOf' = OwnOf
<1> DEFINE s == elements[f]
           n == current_size[g]
           count == Missing(f, size + n)
           fresh == New(count)
           into == s \o fresh
           array == elements'[f]
           old(o) == IF o \in live THEN before[o] ELSE {}
           at(o) == CHOOSE i \in 1..n : array[size + i] = o
           v == Shows(g)
           t == kept \o v
<1>1. /\ size \in Nat /\ size <= current_size[f] /\ before \in [Objects -> SUBSET Parts]
      /\ \A o \in Objects : o \notin ToSet(s) => before[o] = content[o]
  BY DEF Ready
<1>2. /\ s \in Seq(Objects) /\ Len(s) \in Nat /\ IsInjective(s) /\ ToSet(s) \subseteq live
      /\ current_size[f] <= Len(s) /\ current_size[f] \in Nat
      /\ ToSet(s) \cap ToSet(own) = {}
  BY Of
<1>3. live \subseteq Objects /\ ToSet(own) \subseteq live
  BY OfCaller
<1>4. n \in Nat
  BY Of
<1>5. /\ CanNew(count) /\ elements' = [elements EXCEPT ![f] = into]
      /\ current_size' = [current_size EXCEPT ![f] = size + n]
      /\ total_size' = [total_size EXCEPT ![f] = Reserved(@, size + n)]
      /\ content' = Merged(into, size, g, before) /\ own' = own
  BY DEF MergeInto
<1>6. count \in Nat
  BY <1>1, <1>2, <1>4 DEF Missing, allocated_size
<1> HIDE DEF count
<1>7. /\ fresh \in Seq(Objects) /\ Len(fresh) = count /\ ToSet(fresh) \subseteq Objects \ live
  BY <1>3, <1>5, <1>6, NewIsFresh
<1> HIDE DEF fresh
<1>8. /\ array = into /\ current_size'[f] = size + n /\ OnlyOf(f)
  <2> DEFINE need == size + n
             total == Reserved(total_size[f], need)
  <2>1. /\ elements' = [elements EXCEPT ![f] = into]
        /\ current_size' = [current_size EXCEPT ![f] = need]
        /\ total_size' = [total_size EXCEPT ![f] = total]
    BY <1>5
  <2> HIDE DEF into, need, total
  <2>2. OnlyOf(f) /\ elements'[f] = into /\ current_size'[f] = need
    BY <2>1 DEF OnlyOf, FieldInv, Shape
  <2> QED  BY <2>2 DEF need
<1>9. /\ \A i \in 1..Len(s) : array[i] = s[i]
      /\ \A i \in 1..count : array[Len(s) + i] \in Objects \ live
      /\ Len(array) = Len(s) + count
  <2>1. /\ Len(into) = Len(s) + Len(fresh) /\ \A i \in 1..Len(s) : into[i] = s[i]
        /\ \A i \in 1..Len(fresh) : into[Len(s) + i] = fresh[i]
    <3>1. s \in Seq(Objects) /\ fresh \in Seq(Objects)
      BY <1>2, <1>7
    <3> HIDE DEF s
    <3> QED  BY <3>1, Joined
  <2>2. \A i \in 1..Len(fresh) : fresh[i] \in ToSet(fresh)
    BY <1>7, Elements
  <2> HIDE DEF into
  <2> QED  BY <1>7, <1>8, <2>1, <2>2
<1>10. /\ array \in Seq(Objects) /\ Len(array) \in Nat /\ size + n <= Len(array)
       /\ \A i, j \in 1..Len(array) : array[i] = array[j] => i = j
  BY <1>8, ArraysNext, Apart DEF Arrays
<1>11. \A o \in Objects :
         content'[o] = IF \E i \in 1..n : array[size + i] = o
                       THEN old(o) \cup before[elements[g][at(o)]] ELSE old(o)
  BY <1>5, <1>8 DEF Merged
<1> HIDE DEF array, into
<1>12. ASSUME NEW i \in 1..size  PROVE content'[array[i]] = kept[i]
  <2>1. i \in 1..Len(s) /\ i \in 1..Len(array)
    BY <1>1, <1>2, <1>9, <1>6
  <2>2. array[i] = s[i] /\ s[i] \in live /\ s[i] \in Objects
    BY <1>2, <1>3, <1>9, <2>1, Elements
  <2>3. ~ \E j \in 1..n : array[size + j] = s[i]
    <3> SUFFICES ASSUME NEW j \in 1..n, array[size + j] = s[i]  PROVE FALSE
      OBVIOUS
    <3>1. size + j \in 1..Len(array) /\ size + j # i
      BY <1>1, <1>4, <1>10
    <3> QED  BY <1>10, <2>1, <2>2, <3>1
  <2>4. content'[s[i]] = before[s[i]]
    <3> HIDE DEF at
    <3> QED  BY <1>11, <2>2, <2>3
  <2> QED  BY <2>2, <2>4 DEF Prepared, First
<1>13. ASSUME NEW i \in 1..n  PROVE content'[array[size + i]] = v[i]
  <2> DEFINE k == size + i
             o == array[k]
  <2>1. k \in 1..Len(array) /\ k \in size + 1..Len(array)
    BY <1>1, <1>4, <1>10
  <2>2. o \in Objects
    BY <1>10, <2>1, Elements
  <2>3. at(o) = i
    <3>1. \A j \in 1..n : array[size + j] = o => j = i
      <4> SUFFICES ASSUME NEW j \in 1..n, array[size + j] = o  PROVE j = i
        OBVIOUS
      <4>1. size + j \in 1..Len(array)
        BY <1>1, <1>4, <1>10
      <4>2. size + j = k
        BY <1>10, <2>1, <4>1
      <4> QED  BY <1>1, <4>2
    <3> QED  BY <3>1
  <2>4. content'[o] = old(o) \cup before[elements[g][i]]
    <3>1. \E j \in 1..n : array[size + j] = o
      OBVIOUS
    <3> HIDE DEF at, o, old
    <3> QED  BY <1>11, <2>2, <2>3, <3>1
  <2>5. old(o) = {}
    <3>1. CASE k <= Len(s)
      <4>1. k \in 1..Len(s) /\ k \in size + 1..Len(s)
        BY <2>1, <3>1, <1>2
      <4>2. o = s[k] /\ before[s[k]] = {}
        <5> HIDE DEF k
        <5> QED  BY <1>9, <4>1 DEF Prepared
      <4> HIDE DEF o
      <4> QED  BY <4>2
    <3>2. CASE k > Len(s)
      <4>1. k - Len(s) \in 1..count /\ Len(s) + (k - Len(s)) = k
        BY <1>2, <1>6, <1>9, <2>1, <3>2
      <4>2. o \notin live
        <5> HIDE DEF k
        <5>1. array[Len(s) + (k - Len(s))] \notin live
          BY <1>9, <4>1
        <5> QED  BY <4>1, <5>1
      <4> HIDE DEF o
      <4> QED  BY <4>2
    <3>3. k <= Len(s) \/ k > Len(s)
      BY <1>1, <1>2
    <3> QED  BY <3>1, <3>2, <3>3
  <2>6. before[elements[g][i]] = content[elements[g][i]]
    <3>1. elements[g][i] \notin ToSet(s) /\ elements[g][i] \in live
      BY InPlace
    <3> QED  BY <1>1, <1>3, <3>1
  <2>7. v[i] = content[elements[g][i]]
    BY ShowsWhat
  <2> HIDE DEF old, v
  <2> QED  BY <2>4, <2>5, <2>6, <2>7
<1>14. v \in Seq(SUBSET Parts) /\ Len(v) = n
  BY ShowsWhat
<1> HIDE DEF v
<1>15. /\ t \in Seq(SUBSET Parts) /\ Len(t) = size + n
       /\ \A i \in 1..size : t[i] = kept[i]
       /\ \A i \in 1..n : t[size + i] = v[i]
  <2> DEFINE S == SUBSET Parts
  <2>1. v \in Seq(S) /\ kept \in Seq(S)
    BY <1>14 DEF First
  <2> HIDE DEF S
  <2>2. /\ t \in Seq(S) /\ Len(t) = Len(kept) + Len(v)
        /\ \A i \in 1..Len(kept) : t[i] = kept[i]
        /\ \A i \in 1..Len(v) : t[Len(kept) + i] = v[i]
    BY <2>1, Joined
  <2>3. Len(v) = n /\ Len(kept) = size
    BY <1>14 DEF First
  <2> HIDE DEF t, n
  <2>4. /\ Len(t) = size + n /\ \A i \in 1..size : t[i] = kept[i]
        /\ \A i \in 1..n : t[size + i] = v[i]
    BY <2>2, <2>3
  <2>5. t \in Seq(SUBSET Parts)
    BY <2>2 DEF S
  <2> QED  BY <2>4, <2>5
<1> HIDE DEF t
<1>16. ASSUME NEW i \in 1..Len(t)  PROVE t[i] = content'[elements'[f][i]]
  <2>1. CASE i <= size
    <3>1. i \in 1..size
      BY <1>1, <1>15, <2>1
    <3> QED  BY <1>12, <1>15, <3>1 DEF array
  <2>2. CASE i > size
    <3> DEFINE k == i - size
    <3>1. k \in 1..n /\ i = size + k
      BY <1>1, <1>4, <1>15, <2>2
    <3> HIDE DEF k
    <3> QED  BY <1>13, <1>15, <3>1 DEF array
  <2>3. i <= size \/ i > size
    BY <1>1, <1>15, <1>4
  <2> QED  BY <2>1, <2>2, <2>3
<1>17. ASSUME NEW o \in live, o \notin ToSet(s)  PROVE content'[o] = content[o]
  <2>1. ~ \E i \in 1..n : array[size + i] = o
    <3> SUFFICES ASSUME NEW i \in 1..n, array[size + i] = o  PROVE FALSE
      OBVIOUS
    <3> DEFINE k == size + i
    <3>1. k \in 1..Len(array)
      BY <1>1, <1>4, <1>10
    <3>2. CASE k <= Len(s)
      <4>1. k \in 1..Len(s)
        BY <3>1, <3>2, <1>2
      <4>2. array[k] = s[k] /\ s[k] \in ToSet(s)
        <5> HIDE DEF k
        <5> QED  BY <1>2, <1>9, <4>1, Elements
      <4> QED  BY <1>17, <4>2
    <3>3. CASE k > Len(s)
      <4>1. k - Len(s) \in 1..count /\ Len(s) + (k - Len(s)) = k
        BY <1>2, <1>6, <1>9, <3>1, <3>3
      <4> HIDE DEF k
      <4>2. array[Len(s) + (k - Len(s))] \notin live
        BY <1>9, <4>1
      <4> QED  BY <1>17, <4>1, <4>2 DEF k
    <3>4. k <= Len(s) \/ k > Len(s)
      BY <1>1, <1>2, <1>4
    <3> QED  BY <3>2, <3>3, <3>4
  <2>2. o \in Objects
    BY <1>3
  <2> HIDE DEF at
  <2> QED  BY <1>1, <1>11, <1>17, <2>1, <2>2
<1>18. ListOf' = [ListOf EXCEPT ![f] = t]
  BY <1>8, <1>15, <1>16, <1>17, ListStep
<1>19. OwnOf' = OwnOf
  BY <1>2, <1>3, <1>5, <1>17, OwnUnchanged
<1> QED
  BY <1>18, <1>19 DEF t, v

LEMMA MergeFromShows ==
  ASSUME FieldInv, FieldInv', NEW f \in FieldNames, NEW g \in FieldNames, MergeFrom(f, g)
  PROVE  ListOf' = [ListOf EXCEPT ![f] = Shows(f) \o Shows(g)] /\ OwnOf' = OwnOf
<1> DEFINE size == current_size[f]
           kept == Shows(f)
<1>1. size \in Nat /\ size <= current_size[f] /\ current_size[g] \in Nat
  BY Of
<1>2. content \in [Objects -> SUBSET Parts]
  BY OfCaller
<1>3. \A i \in size + 1..Len(elements[f]) : content[elements[f][i]] = {}
  BY Of
<1>4. \A i \in size + current_size[g] + 1..Len(elements[f]) : i \in size + 1..Len(elements[f])
  BY <1>1
<1>5. Ready(f, g, size, content) /\ Prepared(f, size, content)
  BY <1>1, <1>2, <1>3, <1>4 DEF Ready, Prepared
<1>6. f # g /\ MergeInto(f, g, size, content)
  BY DEF MergeFrom
<1>7. First(kept, f, size)
  BY ShowsWhat DEF First
<1>8. kept \o Shows(g) = Shows(f) \o Shows(g)
  OBVIOUS
<1> HIDE DEF size, kept
<1>9. ListOf' = [ListOf EXCEPT ![f] = kept \o Shows(g)] /\ OwnOf' = OwnOf
  BY <1>5, <1>6, <1>7, MergeIntoShows
<1> QED
  BY <1>8, <1>9

LEMMA CopyFromShows ==
  ASSUME FieldInv, FieldInv', NEW f \in FieldNames, NEW g \in FieldNames, CopyFrom(f, g)
  PROVE  ListOf' = [ListOf EXCEPT ![f] = Shows(g)] /\ OwnOf' = OwnOf
<1> DEFINE before == ClearedContent(f)
           kept == << >>
<1>1. 0 <= current_size[f] /\ current_size[g] \in Nat
  BY Of
<1>2. /\ before \in [Objects -> SUBSET Parts]
      /\ \A o \in Objects : o \notin ToSet(elements[f]) => before[o] = content[o]
      /\ \A i \in 1..Len(elements[f]) : before[elements[f][i]] = {}
  BY ClearedContentOf
<1>3. f # g /\ MergeInto(f, g, 0, before)
  BY DEF CopyFrom
<1> HIDE DEF before
<1>4. \A i \in 0 + current_size[g] + 1..Len(elements[f]) : before[elements[f][i]] = {}
  <2>1. \A i \in 0 + current_size[g] + 1..Len(elements[f]) : i \in 1..Len(elements[f])
    BY <1>1
  <2> QED  BY <1>2, <2>1
<1>5. Ready(f, g, 0, before)
  BY <1>1, <1>2, <1>4 DEF Ready
<1>6. Prepared(f, 0, before)
  BY <1>2 DEF Prepared
<1>7. First(kept, f, 0)
  BY DEF First
<1>8. kept \o Shows(g) = Shows(g)
  BY ShowsWhat
<1> HIDE DEF kept
<1>9. ListOf' = [ListOf EXCEPT ![f] = kept \o Shows(g)] /\ OwnOf' = OwnOf
  BY <1>3, <1>5, <1>6, <1>7, MergeIntoShows
<1> QED
  BY <1>8, <1>9

\* The lists, as the abstract specification names them.
LEMMA FieldSteps ==
  ASSUME FieldInv, FieldInv', NEW f \in FieldNames
  PROVE  /\ Add(f) => Lists!AddElement(f)
         /\ RemoveLast(f) => Lists!RemoveElement(f)
         /\ Clear(f) \/ Destroy(f) => Lists!Empty(f)
         /\ AddAllocated(f) => Lists!Give(f)
         /\ AddCleared(f) => Lists!Discard
         /\ ReleaseCleared(f) => Lists!Obtain
<1>0. ListOf[f] = Shows(f)
  BY ListAt
<1>1. ASSUME Add(f)  PROVE Lists!AddElement(f)
  <2>1. ListOf' = [ListOf EXCEPT ![f] = Append(ListOf[f], {})] /\ OwnOf' = OwnOf
    BY <1>0, <1>1, AddShows
  <2> QED  BY <2>1 DEF Lists!AddElement, ListOf, Shows, OwnOf
<1>2. ASSUME RemoveLast(f)  PROVE Lists!RemoveElement(f)
  <2>1. /\ ListOf[f] # << >> /\ ListOf' = [ListOf EXCEPT ![f] = Front(ListOf[f])]
        /\ OwnOf' = OwnOf
    BY <1>0, <1>2, RemoveLastShows
  <2> QED  BY <2>1 DEF Lists!RemoveElement, Lists!Front, Front, ListOf, Shows, OwnOf
<1>3. ASSUME Clear(f) \/ Destroy(f)  PROVE Lists!Empty(f)
  <2>1. ListOf' = [ListOf EXCEPT ![f] = << >>] /\ OwnOf' = OwnOf
    BY <1>3, EmptyShows
  <2> QED  BY <2>1 DEF Lists!Empty, ListOf, Shows, OwnOf
<1>4. ASSUME AddAllocated(f)  PROVE Lists!Give(f)
  <2>1. /\ OwnOf # << >> /\ ListOf' = [ListOf EXCEPT ![f] = Append(ListOf[f], Last(OwnOf))]
        /\ OwnOf' = Front(OwnOf)
    BY <1>0, <1>4, AddAllocatedShows
  <2> QED  BY <2>1 DEF Lists!Give, Lists!Front, Front, Lists!Last, Last, ListOf, Shows, OwnOf
<1>5. ASSUME AddCleared(f)  PROVE Lists!Discard
  <2>1. OwnOf # << >> /\ OwnOf' = Front(OwnOf) /\ ListOf' = ListOf
    BY <1>5, AddClearedShows
  <2> QED  BY <2>1 DEF Lists!Discard, Lists!Front, Front, ListOf, Shows, OwnOf
<1>6. ASSUME ReleaseCleared(f)  PROVE Lists!Obtain
  <2>1. OwnOf' = Append(OwnOf, {}) /\ ListOf' = ListOf
    BY <1>6, ReleaseClearedShows
  <2> QED  BY <2>1 DEF Lists!Obtain, ListOf, Shows, OwnOf
<1> QED
  BY <1>1, <1>2, <1>3, <1>4, <1>5, <1>6

LEMMA TwoFieldSteps ==
  ASSUME FieldInv, FieldInv', NEW f \in FieldNames, NEW g \in FieldNames
  PROVE  /\ MergeFrom(f, g) => Lists!Merge(f, g)
         /\ CopyFrom(f, g) => Lists!Copy(f, g)
         /\ Swap(f, g) => Lists!Exchange(f, g)
<1>0. ListOf[f] = Shows(f) /\ ListOf[g] = Shows(g)
  BY ListAt
<1>1. ASSUME MergeFrom(f, g)  PROVE Lists!Merge(f, g)
  <2>1. ListOf' = [ListOf EXCEPT ![f] = ListOf[f] \o ListOf[g]] /\ OwnOf' = OwnOf
    BY <1>0, <1>1, MergeFromShows
  <2> QED  BY <2>1 DEF Lists!Merge, ListOf, Shows, OwnOf
<1>2. ASSUME CopyFrom(f, g)  PROVE Lists!Copy(f, g)
  <2>1. ListOf' = [ListOf EXCEPT ![f] = ListOf[g]] /\ OwnOf' = OwnOf
    BY <1>0, <1>2, CopyFromShows
  <2> QED  BY <2>1 DEF Lists!Copy, ListOf, Shows, OwnOf
<1>3. ASSUME Swap(f, g)  PROVE Lists!Exchange(f, g)
  <2>1. ListOf' = [ListOf EXCEPT ![f] = ListOf[g], ![g] = ListOf[f]] /\ OwnOf' = OwnOf
    BY <1>0, <1>3, SwapShows
  <2> QED  BY <2>1 DEF Lists!Exchange, ListOf, Shows, OwnOf
<1> QED
  BY <1>1, <1>2, <1>3

LEMMA RangeSteps ==
  ASSUME FieldInv, FieldInv', NEW f \in FieldNames, NEW start \in Nat, NEW num \in Nat,
         start + num <= current_size[f]
  PROVE  /\ ExtractSubrange(f, start, num) => Lists!Take(f, start, num)
         /\ DeleteSubrange(f, start, num) => Lists!Cut(f, start, num)
<1>0. ListOf[f] = Shows(f)
  BY ListAt
<1>1. ASSUME ExtractSubrange(f, start, num)  PROVE Lists!Take(f, start, num)
  <2>1. /\ ListOf' = [ListOf EXCEPT ![f] = Closed(ListOf[f], start, num)]
        /\ OwnOf' = OwnOf \o Cut(ListOf[f], start, num)
    BY <1>0, <1>1, ExtractSubrangeShows
  <2> QED  BY <2>1 DEF Lists!Take, Lists!Without, Closed, Cut, ListOf, Shows, OwnOf
<1>2. ASSUME DeleteSubrange(f, start, num)  PROVE Lists!Cut(f, start, num)
  <2>1. ListOf' = [ListOf EXCEPT ![f] = Closed(ListOf[f], start, num)] /\ OwnOf' = OwnOf
    BY <1>0, <1>2, DeleteSubrangeShows
  <2> QED  BY <2>1 DEF Lists!Cut, Lists!Without, Closed, ListOf, Shows, OwnOf
<1> QED
  BY <1>1, <1>2

LEMMA ReleaseLastStep ==
  ASSUME FieldInv, FieldInv', NEW f \in FieldNames, ReleaseLast(f)
  PROVE  \E start \in Nat, num \in Nat :
           num >= 1 /\ start + num <= current_size[f] /\ Lists!Take(f, start, num)
<1> DEFINE last == current_size[f] - 1
<1>0. ListOf[f] = Shows(f)
  BY ListAt
<1>1. /\ last \in Nat /\ last + 1 = current_size[f] /\ current_size[f] \in Nat
      /\ ListOf' = [ListOf EXCEPT ![f] = Closed(ListOf[f], last, 1)]
      /\ OwnOf' = OwnOf \o Cut(ListOf[f], last, 1)
  BY <1>0, ReleaseLastShows, Of
<1>2. PICK start \in Nat : start = last
  BY <1>1
<1>3. PICK num \in Nat : num = 1
  OBVIOUS
<1> HIDE DEF last
<1>4. /\ ListOf' = [ListOf EXCEPT ![f] = Closed(ListOf[f], start, num)]
      /\ OwnOf' = OwnOf \o Cut(ListOf[f], start, num)
      /\ num >= 1 /\ start + num <= current_size[f]
  BY <1>1, <1>2, <1>3
<1>5. Lists!Take(f, start, num)
  BY <1>4 DEF Lists!Take, Lists!Without, Closed, Cut, ListOf, Shows, OwnOf
<1> QED
  BY <1>4, <1>5

LEMMA SwapElementsStep ==
  ASSUME FieldInv, FieldInv', NEW f \in FieldNames, NEW i \in 1..current_size[f],
         NEW j \in 1..current_size[f], SwapElements(f, i, j)
  PROVE  Lists!ExchangeElements(f, i, j)
<1>0. ListOf[f] = Shows(f) /\ DOMAIN ListOf = FieldNames
  BY ListAt DEF ListOf
<1>1. /\ ListOf' = [ListOf EXCEPT ![f] =
                      [ListOf[f] EXCEPT ![i] = ListOf[f][j], ![j] = ListOf[f][i]]]
      /\ OwnOf' = OwnOf
  BY <1>0, SwapElementsShows
<1>2. ListOf' = [ListOf EXCEPT ![f][i] = ListOf[f][j], ![f][j] = ListOf[f][i]]
  <2> DEFINE l == ListOf
  <2>1. DOMAIN l = FieldNames /\ l = [h \in FieldNames |-> l[h]]
    BY DEF ListOf
  <2> HIDE DEF l
  <2>2. [l EXCEPT ![f] = [l[f] EXCEPT ![i] = l[f][j], ![j] = l[f][i]]]
          = [l EXCEPT ![f][i] = l[f][j], ![f][j] = l[f][i]]
    BY <2>1
  <2> QED  BY <1>1, <2>2 DEF l
<1> QED
  BY <1>1, <1>2 DEF Lists!ExchangeElements, ListOf, Shows, OwnOf

LEMMA CallerSteps ==
  ASSUME FieldInv, FieldInv'
  PROVE  /\ CallerNew => Lists!Obtain
         /\ CallerDelete => Lists!Discard
         /\ Mutable => Lists!Write
<1>1. ASSUME CallerNew  PROVE Lists!Obtain
  <2>1. OwnOf' = Append(OwnOf, {}) /\ ListOf' = ListOf
    BY <1>1, CallerShows
  <2> QED  BY <2>1 DEF Lists!Obtain, ListOf, Shows, OwnOf
<1>2. ASSUME CallerDelete  PROVE Lists!Discard
  <2>1. OwnOf # << >> /\ OwnOf' = Front(OwnOf) /\ ListOf' = ListOf
    BY <1>2, CallerShows
  <2> QED  BY <2>1 DEF Lists!Discard, Lists!Front, Front, ListOf, Shows, OwnOf
<1>3. ASSUME Mutable  PROVE Lists!Write
  <2>1. CASE /\ \E i \in DOMAIN OwnOf, p \in Parts : OwnOf' = [OwnOf EXCEPT ![i] = @ \cup {p}]
             /\ ListOf' = ListOf
    BY <2>1 DEF Lists!Write, Lists!SetIn, ListOf, Shows, OwnOf
  <2>2. CASE /\ \E f \in FieldNames : \E i \in DOMAIN Shows(f), p \in Parts :
                  ListOf' = [ListOf EXCEPT ![f] = [Shows(f) EXCEPT ![i] = @ \cup {p}]]
             /\ OwnOf' = OwnOf
    <3>1. PICK f \in FieldNames : \E i \in DOMAIN Shows(f), p \in Parts :
             ListOf' = [ListOf EXCEPT ![f] = [Shows(f) EXCEPT ![i] = @ \cup {p}]]
      BY <2>2
    <3>2. ListOf[f] = Shows(f) /\ DOMAIN ListOf = FieldNames
      BY ListAt DEF ListOf
    <3>3. /\ \E i \in DOMAIN ListOf[f], p \in Parts :
               ListOf'[f] = [ListOf[f] EXCEPT ![i] = @ \cup {p}]
          /\ ListOf' = [ListOf EXCEPT ![f] = ListOf'[f]]
      BY <3>1, <3>2
    <3> QED  BY <2>2, <3>3 DEF Lists!Write, Lists!SetIn, ListOf, Shows, OwnOf
  <2> QED  BY <1>3, <2>1, <2>2, MutableShows
<1> QED
  BY <1>1, <1>2, <1>3

\* The bounds of the indices.
LEMMA IndicesOf ==
  ASSUME FieldInv, NEW f \in FieldNames
  PROVE  /\ DOMAIN ListOf[f] = 1..current_size[f] /\ Len(ListOf[f]) = current_size[f]
         /\ current_size[f] \in Nat
<1>1. /\ Shows(f) \in Seq(SUBSET Parts) /\ Len(Shows(f)) = current_size[f]
      /\ current_size[f] \in Nat
  BY ShowsWhat, Of
<1> QED
  BY <1>1, ListAt

LEMMA StepImplements ==
  FieldInv /\ FieldInv' /\ [Next]_vars => [Lists!Next]_<<ListOf, OwnOf>>
<1> DEFINE Goal == Lists!Next \/ (ListOf' = ListOf /\ OwnOf' = OwnOf)
<1> SUFFICES ASSUME FieldInv, FieldInv', [Next]_vars  PROVE Goal
  OBVIOUS
<1>1. CASE UNCHANGED vars
  BY <1>1 DEF vars, ListOf, Shows, OwnOf
<1>2. CASE CallerNew \/ CallerDelete \/ Mutable
  BY <1>2, CallerSteps DEF Lists!Next
<1>3. ASSUME NEW f \in FieldNames,
             \/ Add(f) \/ RemoveLast(f) \/ Clear(f) \/ Destroy(f)
             \/ AddAllocated(f) \/ AddCleared(f) \/ ReleaseCleared(f)
      PROVE  Lists!Next
  <2>1. \/ Lists!AddElement(f) \/ Lists!RemoveElement(f) \/ Lists!Empty(f) \/ Lists!Give(f)
        \/ Lists!Discard \/ Lists!Obtain
    BY <1>3, FieldSteps
  <2> QED  BY <2>1 DEF Lists!Next
<1>4. ASSUME NEW f \in FieldNames, NEW n \in 1..MaxReserve, Reserve(f, n)
      PROVE  ListOf' = ListOf /\ OwnOf' = OwnOf
  BY <1>4 DEF Reserve, ListOf, Shows, OwnOf
<1>5. ASSUME NEW f \in FieldNames, NEW g \in FieldNames,
             MergeFrom(f, g) \/ CopyFrom(f, g) \/ Swap(f, g)
      PROVE  Lists!Next
  <2>1. Lists!Merge(f, g) \/ Lists!Copy(f, g) \/ Lists!Exchange(f, g)
    BY <1>5, TwoFieldSteps
  <2> QED  BY <2>1 DEF Lists!Next
<1>6. ASSUME NEW f \in FieldNames, NEW i \in 1..current_size[f], NEW j \in 1..current_size[f],
             SwapElements(f, i, j)
      PROVE  Lists!Next
  <2>1. Lists!ExchangeElements(f, i, j)
    BY <1>6, SwapElementsStep
  <2>2. i \in DOMAIN ListOf[f] /\ j \in DOMAIN ListOf[f]
    BY IndicesOf
  <2> QED  BY <2>1, <2>2 DEF Lists!Next, ListOf, Shows
<1>7. ASSUME NEW f \in FieldNames, NEW start \in Nat, NEW num \in Nat,
             num >= 1, start + num <= current_size[f],
             Lists!Take(f, start, num) \/ Lists!Cut(f, start, num)
      PROVE  Lists!Next
  <2>1. start \in 0..Len(ListOf[f]) /\ num \in 1..Len(ListOf[f]) - start
    BY <1>7, IndicesOf
  <2> QED  BY <1>7, <2>1 DEF Lists!Next, ListOf, Shows
<1>8. ASSUME NEW f \in FieldNames, NEW start \in 0..current_size[f],
             NEW num \in 1..current_size[f] - start,
             ExtractSubrange(f, start, num) \/ DeleteSubrange(f, start, num)
      PROVE  Lists!Next
  <2>1. start \in Nat /\ num \in Nat /\ start + num <= current_size[f] /\ num >= 1
    BY RangeOf
  <2>2. Lists!Take(f, start, num) \/ Lists!Cut(f, start, num)
    BY <1>8, <2>1, RangeSteps
  <2> QED  BY <1>7, <2>1, <2>2
<1>9. ASSUME NEW f \in FieldNames, ReleaseLast(f)  PROVE Lists!Next
  BY <1>7, <1>9, ReleaseLastStep
<1>10. CASE \E f \in FieldNames :
              \E start \in 0..current_size[f] : \E num \in 1..current_size[f] - start :
                ExtractSubrange(f, start, num) \/ DeleteSubrange(f, start, num)
  BY <1>8, <1>10
<1> QED
  BY <1>1, <1>2, <1>3, <1>4, <1>5, <1>6, <1>9, <1>10 DEF Next

LEMMA InitImplements == Init => Lists!Init
<1> SUFFICES ASSUME Init  PROVE Lists!Init
  OBVIOUS
<1>1. \A f \in FieldNames : Shows(f) = << >>
  BY DEF Init, Shows
<1>2. ListOf = [f \in FieldNames |-> << >>]
  BY <1>1 DEF ListOf
<1>3. OwnOf = << >>
  BY DEF Init, OwnOf
<1> QED
  BY <1>2, <1>3 DEF Lists!Init, ListOf, Shows, OwnOf

\* Whoever allocated an object, and however often it was cleared and used again, callers
\* see lists of elements: repeated fields implement ElementLists.
THEOREM ListsImplemented == Spec => ImplementsLists
<1>1. Init => Lists!Init
  BY InitImplements
<1>2. FieldInv /\ FieldInv' /\ [Next]_vars
        => [Lists!Next]_<<[f \in FieldNames |->
                             [i \in 1..current_size[f] |-> content[elements[f][i]]]],
                          [i \in DOMAIN own |-> content[own[i]]]>>
  BY StepImplements DEF ListOf, Shows, OwnOf
<1> QED
  BY <1>1, <1>2, FieldInvariant, PTL DEF Spec, ImplementsLists, Lists!Spec
=============================================================================
