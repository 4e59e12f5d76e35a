---------------------------- MODULE Lists_proofs ----------------------------
(***************************************************************************)
(* Numbers and lists, as the other proofs need them: the least number of a *)
(* set, induction, and what joining, appending and cutting do to a list    *)
(* whose elements are of no particular kind.                               *)
(***************************************************************************)
EXTENDS Integers, Sequences, SequenceTheorems, WellFoundedInduction, TLAPS

(* Induction on the natural numbers, for a set of them: a number that is   *)
(* not in it would have a least one below it.                              *)
LEMMA LeastNumber ==
    ASSUME NEW T \in SUBSET Nat, T # {}
    PROVE  \E n \in T : \A m \in T : n <= m
  <1>1. \E n \in T : \A m \in T : ~ (<<m, n>> \in OpToRel(<, Nat))
    BY NatLessThanWellFounded, WFMin, Zenon
  <1>2. PICK n \in T : \A m \in T : ~ (m < n)
    BY <1>1, Zenon DEF OpToRel
  <1> QED
    BY <1>2

LEMMA Induction ==
    ASSUME NEW S, 0 \in S, \A n \in Nat : n \in S => n + 1 \in S
    PROVE  \A n \in Nat : n \in S
  <1> SUFFICES ASSUME Nat \ S # {} PROVE FALSE
    OBVIOUS
  <1>1. PICK n \in Nat \ S : \A m \in Nat \ S : n <= m
    BY LeastNumber
  <1>2. n - 1 \in Nat /\ n = (n - 1) + 1
    BY <1>1
  <1> QED
    BY <1>1, <1>2

-----------------------------------------------------------------------------
(* Lists one after the other.                                              *)
IsList(s) == s \in Seq({s[n] : n \in DOMAIN s})

LEMMA ListFacts ==
    ASSUME NEW s, IsList(s)
    PROVE  Len(s) \in Nat /\ DOMAIN s = 1..Len(s)
  BY LenProperties DEF IsList

LEMMA SeqIsList ==
    ASSUME NEW S, NEW s \in Seq(S)
    PROVE  IsList(s)
  <1> DEFINE C == {s[n] : n \in DOMAIN s}
  <1>1. s \in [1..Len(s) -> S] /\ Len(s) \in Nat /\ DOMAIN s = 1..Len(s)
    BY LenProperties
  <1>2. s \in [1..Len(s) -> C]
    BY <1>1
  <1> HIDE DEF C
  <1>3. s \in Seq(C)
    BY <1>1, <1>2
  <1> QED
    BY <1>3 DEF IsList, C

IsJoined(r, s, t) ==
    /\ IsList(r)
    /\ Len(r) = Len(s) + Len(t)
    /\ \A i \in 1..Len(s) : r[i] = s[i]
    /\ \A i \in 1..Len(t) : r[Len(s) + i] = t[i]

LEMMA JoinedLists ==
    ASSUME NEW s, NEW t, IsList(s), IsList(t)
    PROVE  IsJoined(s \o t, s, t)
  <1> DEFINE A == {s[n] : n \in DOMAIN s}
             B == {t[n] : n \in DOMAIN t}
             r == s \o t
  <1>1. s \in Seq(A \cup B) /\ t \in Seq(A \cup B)
    BY DEF IsList
  <1>2. Len(s) \in Nat /\ Len(t) \in Nat
    BY ListFacts
  <1> HIDE DEF A, B
  <1>3. /\ r \in Seq(A \cup B) /\ Len(r) = Len(s) + Len(t)
        /\ \A i \in 1..(Len(s) + Len(t)) : r[i] = IF i <= Len(s) THEN s[i] ELSE t[i - Len(s)]
    BY <1>1, ConcatProperties
  <1>4. \A i \in 1..Len(s) : r[i] = s[i]
    BY <1>2, <1>3
  <1>5. \A i \in 1..Len(t) : r[Len(s) + i] = t[i]
    BY <1>2, <1>3
  <1>6. IsList(r)
    BY <1>3, SeqIsList
  <1> QED
    BY <1>3, <1>4, <1>5, <1>6 DEF IsJoined

IsAppended(r, s, e) ==
    /\ IsList(r)
    /\ Len(r) = Len(s) + 1
    /\ \A i \in 1..Len(s) : r[i] = s[i]
    /\ r[Len(s) + 1] = e
    /\ \A i \in 0..Len(s) : SubSeq(r, 1, i) = SubSeq(s, 1, i)
    /\ SubSeq(r, 1, Len(s)) = s

LEMMA AppendedList ==
    ASSUME NEW s, IsList(s), NEW e
    PROVE  IsAppended(Append(s, e), s, e)
  <1> DEFINE C == {s[n] : n \in DOMAIN s} \cup {e}
             r == Append(s, e)
  <1>1. s \in Seq(C) /\ e \in C
    BY DEF IsList
  <1>2. Len(s) \in Nat
    BY ListFacts
  <1> HIDE DEF C
  <1>3. /\ r \in Seq(C) /\ Len(r) = Len(s) + 1 /\ r[Len(s) + 1] = e
        /\ \A i \in 1..Len(s) : r[i] = s[i]
    BY <1>1, AppendProperties
  <1> HIDE DEF r
  <1>4. IsList(r)
    BY <1>3, SeqIsList
  <1>5. ASSUME NEW i \in 0..Len(s) PROVE SubSeq(r, 1, i) = SubSeq(s, 1, i)
    <2>1. \A k \in 1..i : s[k] \in C /\ r[k] \in C /\ r[k] = s[k]
      BY <1>1, <1>2, <1>3, ElementOfSeq
    <2> DEFINE a == SubSeq(r, 1, i)
               b == SubSeq(s, 1, i)
    <2>2. i \in Int /\ 1 \in Int /\ i - 1 + 1 = i /\ (IF 1 <= i THEN i - 1 + 1 ELSE 0) = i
      BY <1>2
    <2>3. a \in Seq(C) /\ Len(a) = i /\ \A k \in 1..i : a[k] = r[1 + k - 1]
      BY <2>1, <2>2, SubSeqProperties
    <2>4. b \in Seq(C) /\ Len(b) = i /\ \A k \in 1..i : b[k] = s[1 + k - 1]
      BY <2>1, <2>2, SubSeqProperties
    <2> HIDE DEF a, b
    <2>5. \A k \in 1..Len(a) : a[k] = b[k]
      BY <1>2, <2>1, <2>3, <2>4
    <2> QED
      BY <2>3, <2>4, <2>5, SeqEqual DEF a, b
  <1>6. SubSeq(r, 1, Len(s)) = s
    BY <1>1, <1>2, <1>5, SubSeqFull
  <1> QED
    BY <1>3, <1>4, <1>5, <1>6 DEF IsAppended, r

LEMMA FirstOnes ==
    ASSUME NEW s, IsList(s), NEW n \in 0..Len(s)
    PROVE  IsList(SubSeq(s, 1, n))
  <1> DEFINE C == {s[k] : k \in DOMAIN s}
  <1>1. s \in Seq(C) /\ Len(s) \in Nat
    BY ListFacts DEF IsList
  <1> HIDE DEF C
  <1>2. \A k \in 1..n : s[k] \in C
    BY <1>1, ElementOfSeq
  <1>3. SubSeq(s, 1, n) \in Seq(C)
    BY <1>1, <1>2, SubSeqProperties
  <1> QED
    BY <1>3, SeqIsList

(* A part of a list, and lists that begin alike.                           *)
IsCut(p, s, m, n) ==
    /\ IsList(p)
    /\ Len(p) = IF m <= n THEN n - m + 1 ELSE 0
    /\ \A i \in 1..(n - m + 1) : p[i] = s[m + i - 1]

LEMMA PartOfList ==
    ASSUME NEW s, IsList(s), NEW m \in Nat \ {0}, NEW n \in Int, n <= Len(s)
    PROVE  IsCut(SubSeq(s, m, n), s, m, n)
  <1> DEFINE C == {s[k] : k \in DOMAIN s}
  <1>1. s \in Seq(C) /\ Len(s) \in Nat
    BY ListFacts DEF IsList
  <1> HIDE DEF C
  <1>2. \A k \in m..n : s[k] \in C
    BY <1>1, ElementOfSeq
  <1>3. /\ SubSeq(s, m, n) \in Seq(C)
        /\ Len(SubSeq(s, m, n)) = IF m <= n THEN n - m + 1 ELSE 0
        /\ \A i \in 1..(n - m + 1) : SubSeq(s, m, n)[i] = s[m + i - 1]
    BY <1>2, SubSeqProperties
  <1> QED
    BY <1>3, SeqIsList DEF IsCut

LEMMA SameParts ==
    ASSUME NEW r, NEW s, IsList(r), IsList(s), NEW n \in Nat, n <= Len(r), n <= Len(s),
           \A i \in 1..n : r[i] = s[i]
    PROVE  SubSeq(r, 1, n) = SubSeq(s, 1, n)
  <1> DEFINE p == SubSeq(r, 1, n)
             q == SubSeq(s, 1, n)
             C == {p[k] : k \in DOMAIN p} \cup {q[k] : k \in DOMAIN q}
  <1>1. IsCut(p, r, 1, n) /\ IsCut(q, s, 1, n)
    BY PartOfList
  <1>2. p \in Seq(C) /\ q \in Seq(C)
    BY <1>1 DEF IsCut, IsList
  <1> HIDE DEF C, p, q
  <1>3. Len(p) = n /\ Len(q) = n /\ \A i \in 1..n : p[i] = r[i] /\ q[i] = s[i]
    BY <1>1 DEF IsCut
  <1>4. p = q
    BY <1>2, <1>3, SeqEqual
  <1> QED
    BY <1>4 DEF p, q
=============================================================================
