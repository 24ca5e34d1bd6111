----------------------------- MODULE ListProofs -----------------------------
(***************************************************************************)
(* Lemmas about the kernel's linked lists as sequences: what taking a node *)
(* off a list and linking one into it do to the list's type, its elements  *)
(* and its head.                                                           *)
(***************************************************************************)
EXTENDS Integers, SequencesExt, SequenceTheorems, FiniteSetTheorems,
        WellFoundedInduction, TLAPS

----------------------------------------------------------------------------
(* Numbers.                                                                *)

\* The least-number principle: the bitmap search of OsTskHighestSet and the list
\* searches find something.  The intervals 0 .. x stand for the numbers x,
\* because strict inclusion of finite sets is well founded.
LEMMA MinOfNat ==
  ASSUME NEW S \in SUBSET Nat, S # {}
  PROVE  Min(S) \in S /\ \A y \in S : Min(S) <= y
<1> DEFINE T == {0 .. x : x \in S}
<1>1. T \subseteq FiniteSubsetsOf(Nat)
  <2> SUFFICES ASSUME NEW x \in S PROVE 0 .. x \in FiniteSubsetsOf(Nat)
    OBVIOUS
  <2>1. IsFiniteSet(0 .. x)
    BY FS_Interval
  <2> QED BY <2>1 DEF FiniteSubsetsOf
<1>2. T # {}
  OBVIOUS
<1>3. \E u \in T : \A v \in T : ~ (<<v, u>> \in StrictSubsetOrdering(Nat))
  <2> HIDE DEF T
  <2> QED BY <1>1, <1>2, WFMin, FS_StrictSubsetOrderingWellFounded
<1>4. PICK x \in S : \A y \in S : ~ (<<0 .. y, 0 .. x>> \in StrictSubsetOrdering(Nat))
  BY <1>3
<1>5. \A y \in S : x <= y
  <2> SUFFICES ASSUME NEW y \in S, y < x PROVE FALSE
    OBVIOUS
  <2>1. 0 .. y \subseteq 0 .. x /\ x \in 0 .. x /\ x \notin 0 .. y
    OBVIOUS
  <2>2. 0 .. y \in SUBSET Nat /\ 0 .. x \in SUBSET Nat
    OBVIOUS
  <2>3. <<0 .. y, 0 .. x>> \in StrictSubsetOrdering(Nat)
    BY <2>1, <2>2 DEF StrictSubsetOrdering
  <2> QED BY <2>3, <1>4
<1> QED BY <1>5 DEF Min

----------------------------------------------------------------------------
(* Lists.                                                                  *)

\* The elements of a list without its i-th one.
LEMMA RemoveAtFacts ==
  ASSUME NEW S, NEW s \in Seq(S), NEW i \in 1 .. Len(s)
  PROVE  /\ RemoveAt(s, i) \in Seq(S)
         /\ Len(RemoveAt(s, i)) = Len(s) - 1
         /\ \A j \in 1 .. Len(s) - 1 :
              RemoveAt(s, i)[j] = IF j < i THEN s[j] ELSE s[j + 1]
<1> DEFINE a == SubSeq(s, 1, i - 1)
           b == SubSeq(s, i + 1, Len(s))
<1>1. a \in Seq(S) /\ Len(a) = i - 1 /\ \A j \in 1 .. i - 1 : a[j] = s[j]
  OBVIOUS
<1>2. b \in Seq(S) /\ Len(b) = Len(s) - i /\ \A j \in 1 .. Len(s) - i : b[j] = s[i + j]
  OBVIOUS
<1> HIDE DEF a, b
<1>3. /\ a \o b \in Seq(S)
      /\ Len(a \o b) = Len(a) + Len(b)
      /\ \A j \in 1 .. Len(a) + Len(b) :
           (a \o b)[j] = IF j <= Len(a) THEN a[j] ELSE b[j - Len(a)]
  BY <1>1, <1>2, ConcatProperties
<1>4. ASSUME NEW j \in 1 .. Len(s) - 1
      PROVE  (a \o b)[j] = IF j < i THEN s[j] ELSE s[j + 1]
  <2>1. (a \o b)[j] = IF j <= i - 1 THEN a[j] ELSE b[j - (i - 1)]
    BY <1>1, <1>2, <1>3
  <2>2. CASE j < i
    BY <2>1, <2>2, <1>1
  <2>3. CASE ~(j < i)
    <3>1. j - (i - 1) \in 1 .. Len(s) - i /\ i + (j - (i - 1)) = j + 1
      BY <2>3
    <3>2. b[j - (i - 1)] = s[i + (j - (i - 1))]
      BY <3>1, <1>2
    <3>3. (a \o b)[j] = b[j - (i - 1)]
      BY <2>1, <2>3
    <3> QED BY <2>3, <3>1, <3>2, <3>3
  <2> QED BY <2>2, <2>3
<1>5. Len(a \o b) = Len(s) - 1
  BY <1>1, <1>2, <1>3
<1> QED BY <1>3, <1>4, <1>5 DEF RemoveAt, a, b

\* RemoveFirst is RemoveAt of a position that holds the element.
LEMMA RemoveFirstAt ==
  ASSUME NEW S, NEW s \in Seq(S), NEW e \in ToSet(s)
  PROVE  \E i \in 1 .. Len(s) : s[i] = e /\ RemoveFirst(s, e) = RemoveAt(s, i)
<1> DEFINE I == {j \in 1 .. Len(s) : s[j] = e}
<1>1. I # {} /\ I \in SUBSET Nat
  BY DEF ToSet
<1>2. Min(I) \in I
  <2> HIDE DEF I
  <2> QED BY <1>1, MinOfNat
<1>3. SelectInSeq(s, LAMBDA v : v = e) = Min(I)
  BY <1>1 DEF SelectInSeq
<1> QED BY <1>2, <1>3 DEF RemoveFirst

\* ListDelete: the list loses one node, keeps the others, and keeps its head
\* unless that was the node.
LEMMA RemoveFirstFacts ==
  ASSUME NEW S, NEW s \in Seq(S), NEW e
  PROVE  /\ RemoveFirst(s, e) \in Seq(S)
         /\ ToSet(RemoveFirst(s, e)) \subseteq ToSet(s)
         /\ ToSet(s) \ {e} \subseteq ToSet(RemoveFirst(s, e))
         /\ IsInjective(s) => /\ IsInjective(RemoveFirst(s, e))
                              /\ ToSet(RemoveFirst(s, e)) = ToSet(s) \ {e}
         /\ s # << >> /\ Head(s) # e =>
              RemoveFirst(s, e) # << >> /\ Head(RemoveFirst(s, e)) = Head(s)
<1>1. CASE e \notin ToSet(s)
  <2>1. RemoveFirst(s, e) = s
    BY <1>1 DEF RemoveFirst, ToSet
  <2> QED BY <1>1, <2>1
<1>2. CASE e \in ToSet(s)
  <2>1. PICK i \in 1 .. Len(s) : s[i] = e /\ RemoveFirst(s, e) = RemoveAt(s, i)
    BY <1>2, RemoveFirstAt
  <2> DEFINE r == RemoveFirst(s, e)
  <2>2. /\ r \in Seq(S) /\ Len(r) = Len(s) - 1
        /\ \A j \in 1 .. Len(s) - 1 : r[j] = IF j < i THEN s[j] ELSE s[j + 1]
    BY <2>1, RemoveAtFacts
  <2>3. DOMAIN r = 1 .. Len(s) - 1 /\ DOMAIN s = 1 .. Len(s) /\ Len(s) \in Nat
    BY <2>2
  <2> HIDE DEF r
  <2>4. ASSUME NEW x \in ToSet(r) PROVE x \in ToSet(s)
    <3>1. PICK j \in 1 .. Len(s) - 1 : r[j] = x
      BY <2>3 DEF ToSet
    <3>2. PICK m \in 1 .. Len(s) : s[m] = x
      <4>1. j \in 1 .. Len(s) /\ j + 1 \in 1 .. Len(s)
        BY <2>3
      <4> QED BY <3>1, <4>1, <2>2
    <3> QED BY <3>2, <2>3 DEF ToSet
  <2>5. ASSUME NEW x \in ToSet(s) \ {e} PROVE x \in ToSet(r)
    <3>1. PICK j \in 1 .. Len(s) : s[j] = x
      BY <2>3 DEF ToSet
    <3>2. CASE j < i
      <4>1. j \in 1 .. Len(s) - 1 /\ r[j] = x
        BY <3>1, <3>2, <2>2
      <4> QED BY <4>1, <2>3 DEF ToSet
    <3>3. CASE j > i
      <4>1. j - 1 \in 1 .. Len(s) - 1 /\ r[j - 1] = x
        BY <3>1, <3>3, <2>2
      <4> QED BY <4>1, <2>3 DEF ToSet
    <3> QED BY <3>1, <3>2, <3>3, <2>1
  <2>6. IsInjective(s) => IsInjective(r)
    <3> SUFFICES ASSUME \A x, y \in 1 .. Len(s) : s[x] = s[y] => x = y,
                        NEW m \in 1 .. Len(s) - 1, NEW n \in 1 .. Len(s) - 1,
                        r[m] = r[n]
                 PROVE  m = n
      BY <2>3 DEF IsInjective
    <3> DEFINE at(j) == IF j < i THEN j ELSE j + 1
    <3>1. r[m] = s[at(m)] /\ r[n] = s[at(n)]
      BY <2>2
    <3>2. at(m) \in 1 .. Len(s) /\ at(n) \in 1 .. Len(s)
      OBVIOUS
    <3>3. at(m) = at(n)
      BY <3>1, <3>2
    <3> QED BY <3>3
  <2>7. IsInjective(s) => e \notin ToSet(r)
    BY <2>1, <2>2, <2>3 DEF IsInjective, ToSet
  <2>8. s # << >> /\ Head(s) # e => r # << >> /\ Head(r) = Head(s)
    <3> SUFFICES ASSUME s # << >>, s[1] # e PROVE r # << >> /\ r[1] = s[1]
      BY <2>2
    <3>1. i # 1 /\ 1 \in 1 .. Len(s) - 1
      BY <2>1
    <3>2. r[1] = s[1] /\ Len(r) > 0
      BY <3>1, <2>2
    <3> QED BY <3>2, <2>2
  <2> QED BY <2>2, <2>4, <2>5, <2>6, <2>7, <2>8 DEF r
<1> QED BY <1>1, <1>2

\* ListTailAdd: the list gains one node and keeps its head.
LEMMA AppendFacts ==
  ASSUME NEW S, NEW s \in Seq(S), NEW e \in S
  PROVE  /\ Append(s, e) \in Seq(S)
         /\ Append(s, e) # << >>
         /\ ToSet(Append(s, e)) = ToSet(s) \cup {e}
         /\ IsInjective(s) /\ e \notin ToSet(s) => IsInjective(Append(s, e))
         /\ Head(Append(s, e)) = IF s = << >> THEN e ELSE Head(s)
<1> DEFINE r == Append(s, e)
<1>1. /\ r \in Seq(S) /\ Len(r) = Len(s) + 1 /\ Len(s) \in Nat
      /\ \A j \in 1 .. Len(s) : r[j] = s[j]
      /\ r[Len(s) + 1] = e
  OBVIOUS
<1>2. DOMAIN r = 1 .. Len(s) + 1 /\ DOMAIN s = 1 .. Len(s)
  BY <1>1
<1> HIDE DEF r
<1>3. ToSet(r) \subseteq ToSet(s) \cup {e}
  BY <1>1, <1>2 DEF ToSet
<1>4. ToSet(s) \subseteq ToSet(r)
  BY <1>1, <1>2 DEF ToSet
<1>5. e \in ToSet(r)
  <2>1. Len(s) + 1 \in DOMAIN r
    BY <1>1, <1>2
  <2> QED BY <2>1, <1>1 DEF ToSet
<1>6. IsInjective(s) /\ e \notin ToSet(s) => IsInjective(r)
  <2> SUFFICES ASSUME \A x, y \in 1 .. Len(s) : s[x] = s[y] => x = y,
                      \A x \in 1 .. Len(s) : s[x] # e,
                      NEW m \in 1 .. Len(s) + 1, NEW n \in 1 .. Len(s) + 1,
                      r[m] = r[n]
               PROVE  m = n
    BY <1>2 DEF IsInjective, ToSet
  <2> QED BY <1>1
<1>7. r # << >>
  BY <1>1
<1>8. Head(r) = IF s = << >> THEN e ELSE Head(s)
  <2>1. Head(r) = r[1]
    BY <1>1, <1>7
  <2>2. CASE s = << >>
    BY <2>1, <2>2, <1>1
  <2>3. CASE s # << >>
    <3>1. 1 \in 1 .. Len(s) /\ Head(s) = s[1]
      BY <2>3
    <3> QED BY <3>1, <2>1, <2>3, <1>1
  <2> QED BY <2>2, <2>3
<1> QED BY <1>1, <1>3, <1>4, <1>5, <1>6, <1>7, <1>8 DEF r

\* OsFscMemInsert: the list gains one node at its front.
LEMMA PrependFacts ==
  ASSUME NEW S, NEW s \in Seq(S), NEW e \in S
  PROVE  /\ <<e>> \o s \in Seq(S)
         /\ <<e>> \o s # << >>
         /\ ToSet(<<e>> \o s) = ToSet(s) \cup {e}
         /\ IsInjective(s) /\ e \notin ToSet(s) => IsInjective(<<e>> \o s)
<1> DEFINE r == <<e>> \o s
<1>1. <<e>> \in Seq(S) /\ Len(<<e>>) = 1 /\ <<e>>[1] = e /\ Len(s) \in Nat
  OBVIOUS
<1>2. /\ r \in Seq(S) /\ Len(r) = 1 + Len(s)
      /\ \A j \in 1 .. 1 + Len(s) : r[j] = IF j <= 1 THEN <<e>>[j] ELSE s[j - 1]
  BY <1>1, ConcatProperties
<1>3. DOMAIN r = 1 .. Len(s) + 1 /\ DOMAIN s = 1 .. Len(s)
  BY <1>1, <1>2
<1> HIDE DEF r
<1>4. r[1] = e /\ 1 \in DOMAIN r /\ \A j \in 1 .. Len(s) : j + 1 \in DOMAIN r /\ r[j + 1] = s[j]
  BY <1>1, <1>2, <1>3
<1>5. \A x \in DOMAIN r : x = 1 \/ (x - 1 \in 1 .. Len(s) /\ r[x] = s[x - 1])
  BY <1>1, <1>2, <1>3
<1>6. ToSet(r) \subseteq ToSet(s) \cup {e}
  BY <1>3, <1>4, <1>5 DEF ToSet
<1>7. ToSet(s) \cup {e} \subseteq ToSet(r)
  BY <1>3, <1>4 DEF ToSet
<1>8. IsInjective(s) /\ e \notin ToSet(s) => IsInjective(r)
  <2> SUFFICES ASSUME \A x, y \in 1 .. Len(s) : s[x] = s[y] => x = y,
                      \A x \in 1 .. Len(s) : s[x] # e,
                      NEW m \in DOMAIN r, NEW n \in DOMAIN r, r[m] = r[n]
               PROVE  m = n
    BY <1>3 DEF IsInjective, ToSet
  <2>1. m \in 1 .. Len(s) + 1 /\ n \in 1 .. Len(s) + 1
    BY <1>3
  <2>2. CASE m = 1 /\ n = 1
    BY <2>2
  <2>3. CASE m = 1 /\ n # 1
    BY <2>3, <1>4, <1>5
  <2>4. CASE m # 1 /\ n = 1
    BY <2>4, <1>4, <1>5
  <2>5. CASE m # 1 /\ n # 1
    <3>1. m - 1 = n - 1
      BY <2>5, <1>5
    <3> QED BY <2>1, <3>1
  <2> QED BY <2>2, <2>3, <2>4, <2>5
<1> QED BY <1>2, <1>6, <1>7, <1>8 DEF r

\* Linking a node in front of the i-th one.
LEMMA InsertAtFacts ==
  ASSUME NEW S, NEW s \in Seq(S), NEW i \in 1 .. Len(s), NEW e \in S
  PROVE  /\ InsertAt(s, i, e) \in Seq(S)
         /\ Len(InsertAt(s, i, e)) = Len(s) + 1
         /\ \A j \in 1 .. Len(s) + 1 :
              InsertAt(s, i, e)[j] =
                IF j < i THEN s[j] ELSE IF j = i THEN e ELSE s[j - 1]
<1> DEFINE a == SubSeq(s, 1, i - 1)
           b == SubSeq(s, i, Len(s))
           c == a \o <<e>>
<1>1. a \in Seq(S) /\ Len(a) = i - 1 /\ \A j \in 1 .. i - 1 : a[j] = s[j]
  OBVIOUS
<1>2. /\ b \in Seq(S) /\ Len(b) = Len(s) - i + 1
      /\ \A j \in 1 .. Len(s) - i + 1 : b[j] = s[i + j - 1]
  OBVIOUS
<1>3. <<e>> \in Seq(S) /\ Len(<<e>>) = 1 /\ <<e>>[1] = e
  OBVIOUS
<1> HIDE DEF a, b
<1>4. /\ c \in Seq(S) /\ Len(c) = i
      /\ \A j \in 1 .. i : c[j] = IF j < i THEN s[j] ELSE e
  <2>1. /\ c \in Seq(S) /\ Len(c) = Len(a) + 1
        /\ \A j \in 1 .. Len(a) + 1 :
             c[j] = IF j <= Len(a) THEN a[j] ELSE <<e>>[j - Len(a)]
    BY <1>1, <1>3, ConcatProperties
  <2> HIDE DEF c
  <2>2. \A j \in 1 .. i : c[j] = IF j < i THEN s[j] ELSE e
    <3> TAKE j \in 1 .. i
    <3>1. CASE j < i
      BY <3>1, <2>1, <1>1
    <3>2. CASE j = i
      BY <3>2, <2>1, <1>1, <1>3
    <3> QED BY <3>1, <3>2
  <2> QED BY <1>1, <2>1, <2>2
<1> HIDE DEF c
<1>5. /\ c \o b \in Seq(S) /\ Len(c \o b) = Len(c) + Len(b)
      /\ \A j \in 1 .. Len(c) + Len(b) :
           (c \o b)[j] = IF j <= Len(c) THEN c[j] ELSE b[j - Len(c)]
  BY <1>2, <1>4, ConcatProperties
<1>6. Len(c) + Len(b) = Len(s) + 1
  BY <1>2, <1>4
<1>7. ASSUME NEW j \in 1 .. Len(s) + 1
      PROVE  (c \o b)[j] = IF j < i THEN s[j] ELSE IF j = i THEN e ELSE s[j - 1]
  <2>1. CASE j <= i
    BY <2>1, <1>4, <1>5, <1>6
  <2>2. CASE j > i
    <3>1. j - i \in 1 .. Len(s) - i + 1 /\ i + (j - i) - 1 = j - 1
      BY <2>2
    <3>2. b[j - i] = s[i + (j - i) - 1]
      BY <3>1, <1>2
    <3>3. (c \o b)[j] = b[j - i]
      BY <2>2, <1>4, <1>5, <1>6
    <3> QED BY <2>2, <3>1, <3>2, <3>3
  <2>3. j <= i \/ j > i
    OBVIOUS
  <2> QED BY <2>1, <2>2, <2>3
<1>8. InsertAt(s, i, e) = c \o b
  BY DEF InsertAt, a, b, c
<1> QED BY <1>5, <1>6, <1>7, <1>8
=============================================================================
