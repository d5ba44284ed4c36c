--------------------------- MODULE SequenceLemmas ---------------------------
(***************************************************************************)
(* What the operators of the community module SequencesExt that stand for  *)
(* the GLib containers do: RemoveFirst for g_queue_remove, g_list_remove   *)
(* and g_source_remove, ToSet for the elements of a container.             *)
(***************************************************************************)
EXTENDS SequencesExt, SequenceTheorems, WellFoundedInduction, TLAPS

\* No element occurs twice.
NoDuplicates(s) == \A i, j \in 1..Len(s) : s[i] = s[j] => i = j

\* The minimum of a non-empty set of natural numbers is one of its elements, and
\* the least: the index SelectInSeq chooses exists.
LEMMA MinInSet ==
  ASSUME NEW T \in SUBSET Nat, T # {}
  PROVE  Min(T) \in T /\ \A n \in T : Min(T) <= n
<1>1. PICK x \in T : \A y \in T : ~ (<<y, x>> \in OpToRel(<, Nat))
  BY NatLessThanWellFounded, WFMin, Zenon
<1>2. ASSUME NEW y \in T PROVE x <= y
  <2>1. y < x => <<y, x>> \in OpToRel(<, Nat)
    BY DEF OpToRel
  <2>2. ~ (y < x)
    BY <1>1, <2>1, Zenon
  <2> QED
    BY <2>2
<1> QED
  BY <1>2 DEF Min

\* What RemoveAt returns: the elements behind position k move up by one.
LEMMA RemoveAtProperties ==
  ASSUME NEW S, NEW s \in Seq(S), NEW k \in 1..Len(s)
  PROVE  /\ RemoveAt(s, k) \in Seq(S)
         /\ Len(RemoveAt(s, k)) = Len(s) - 1
         /\ \A i \in 1..Len(s)-1 :
               RemoveAt(s, k)[i] = IF i < k THEN s[i] ELSE s[i + 1]
<1> DEFINE left  == SubSeq(s, 1, k - 1)
           right == SubSeq(s, k + 1, Len(s))
<1>0. Len(s) \in Nat /\ \A i \in 1..Len(s) : s[i] \in S
  BY LenProperties
<1>1. /\ left \in Seq(S) /\ Len(left) = k - 1
      /\ \A i \in 1..k-1 : left[i] = s[i]
  <2>1. \A i \in 1..k-1 : s[i] \in S
    BY <1>0
  <2> QED
    BY <1>0, <2>1, SubSeqProperties
<1>2. /\ right \in Seq(S) /\ Len(right) = Len(s) - k
      /\ \A i \in 1..Len(s)-k : right[i] = s[k + i]
  <2>1. \A i \in k+1..Len(s) : s[i] \in S
    BY <1>0
  <2> QED
    BY <1>0, <2>1, SubSeqProperties
<1>3. RemoveAt(s, k) = left \o right
  BY DEF RemoveAt
<1> HIDE DEF left, right
<1>4. /\ left \o right \in Seq(S)
      /\ Len(left \o right) = Len(s) - 1
      /\ \A i \in 1..Len(s)-1 :
           (left \o right)[i] = IF i < k THEN left[i] ELSE right[i - k + 1]
  <2>1. /\ left \o right \in Seq(S)
        /\ Len(left \o right) = Len(left) + Len(right)
        /\ \A i \in 1..Len(left) + Len(right) : (left \o right)[i] =
              IF i <= Len(left) THEN left[i] ELSE right[i - Len(left)]
    BY <1>1, <1>2, ConcatProperties
  <2>2. Len(left) + Len(right) = Len(s) - 1
    BY <1>0, <1>1, <1>2
  <2>3. ASSUME NEW i \in 1..Len(s)-1
        PROVE  (left \o right)[i] = IF i < k THEN left[i] ELSE right[i - k + 1]
    <3>1. i - Len(left) = i - k + 1 /\ (i <= Len(left) <=> i < k)
      BY <1>0, <1>1
    <3> QED
      BY <2>1, <2>2, <3>1
  <2> QED
    BY <2>1, <2>2, <2>3
<1> QED
  BY <1>0, <1>1, <1>2, <1>3, <1>4

\* RemoveFirst takes out one position that holds the element.
LEMMA RemoveFirstAt ==
  ASSUME NEW S, NEW s \in Seq(S), NEW e,
         \E i \in 1..Len(s) : s[i] = e
  PROVE  \E k \in 1..Len(s) : s[k] = e /\ RemoveFirst(s, e) = RemoveAt(s, k)
<1>1. {i \in 1..Len(s) : s[i] = e} \in SUBSET Nat
  BY LenProperties
<1>2. {i \in 1..Len(s) : s[i] = e} # {}
  OBVIOUS
<1>3. Min({i \in 1..Len(s) : s[i] = e}) \in {i \in 1..Len(s) : s[i] = e}
  BY <1>1, <1>2, MinInSet
<1> QED
  BY <1>2, <1>3 DEF RemoveFirst, SelectInSeq

\* RemoveFirst of an element that is not there returns the sequence.
LEMMA RemoveFirstAbsent ==
  ASSUME NEW S, NEW s \in Seq(S), NEW e, e \notin ToSet(s)
  PROVE  RemoveFirst(s, e) = s
BY LenProperties DEF RemoveFirst, ToSet

\* RemoveFirst returns a sequence over the same set.
LEMMA RemoveFirstType ==
  ASSUME NEW S, NEW s \in Seq(S), NEW e
  PROVE  RemoveFirst(s, e) \in Seq(S)
<1>1. CASE \E i \in 1..Len(s) : s[i] = e
  <2>1. PICK k \in 1..Len(s) : s[k] = e /\ RemoveFirst(s, e) = RemoveAt(s, k)
    BY <1>1, RemoveFirstAt
  <2>2. RemoveAt(s, k) \in Seq(S)
    BY RemoveAtProperties
  <2> QED
    BY <2>1, <2>2
<1>2. CASE ~ \E i \in 1..Len(s) : s[i] = e
  BY <1>2 DEF RemoveFirst
<1> QED
  BY <1>1, <1>2

\* Out of a sequence without duplicates RemoveFirst takes the element, all of
\* it, and nothing else.
LEMMA RemoveFirstUnique ==
  ASSUME NEW S, NEW s \in Seq(S), NEW e, NoDuplicates(s)
  PROVE  /\ NoDuplicates(RemoveFirst(s, e))
         /\ ToSet(RemoveFirst(s, e)) = ToSet(s) \ {e}
<1>0. Len(s) \in Nat /\ DOMAIN s = 1..Len(s)
  BY LenProperties
<1>1. CASE e \notin ToSet(s)
  BY <1>1, RemoveFirstAbsent
<1>2. CASE e \in ToSet(s)
  <2>1. PICK k \in 1..Len(s) : s[k] = e /\ RemoveFirst(s, e) = RemoveAt(s, k)
    BY <1>0, <1>2, RemoveFirstAt DEF ToSet
  <2> DEFINE r == RemoveAt(s, k)
  <2>2. /\ r \in Seq(S) /\ Len(r) = Len(s) - 1
        /\ \A i \in 1..Len(s)-1 : r[i] = IF i < k THEN s[i] ELSE s[i + 1]
    BY RemoveAtProperties
  <2>3. DOMAIN r = 1..Len(s)-1
    BY <2>2, LenProperties
  <2> HIDE DEF r
  <2>4. NoDuplicates(r)
    BY <1>0, <2>2 DEF NoDuplicates
  <2>5. ToSet(r) \subseteq ToSet(s) \ {e}
    <3> SUFFICES ASSUME NEW i \in 1..Len(s)-1 PROVE r[i] \in ToSet(s) \ {e}
      BY <2>3 DEF ToSet
    <3>1. PICK j \in 1..Len(s) : j # k /\ r[i] = s[j]
      BY <1>0, <2>1, <2>2
    <3> QED
      BY <1>0, <2>1, <3>1 DEF NoDuplicates, ToSet
  <2>6. ASSUME NEW i \in 1..Len(s), s[i] # e
        PROVE  s[i] \in ToSet(r)
    <3>1. CASE i < k
      BY <3>1, <1>0, <2>2, <2>3 DEF ToSet
    <3>2. CASE i > k
      <4>1. i - 1 \in 1..Len(s)-1 /\ r[i - 1] = s[i]
        BY <3>2, <1>0, <2>2
      <4> QED
        BY <4>1, <2>3 DEF ToSet
    <3> QED
      BY <3>1, <3>2, <2>1, <2>6, <1>0
  <2>7. ToSet(s) \ {e} \subseteq ToSet(r)
    BY <2>6, <1>0 DEF ToSet
  <2> QED
    BY <2>1, <2>4, <2>5, <2>7 DEF r
<1> QED
  BY <1>1, <1>2

\* A stack without its top, the last element.
LEMMA PopProperties ==
  ASSUME NEW S, NEW s \in Seq(S), s # <<>>
  PROVE  LET t == SubSeq(s, 1, Len(s) - 1)
         IN  /\ t \in Seq(S) /\ Len(t) = Len(s) - 1
             /\ \A i \in 1..Len(s)-1 : t[i] = s[i]
<1>1. Len(s) \in Nat \ {0}
  BY EmptySeq
<1>2. \A i \in 1..Len(s)-1 : s[i] \in S
  BY <1>1, ElementOfSeq
<1> DEFINE n == Len(s) - 1
<1>3. n \in Nat
  BY <1>1
<1> HIDE DEF n
<1>4. SubSeq(s, 1, n) \in Seq(S)
  BY <1>2, <1>3, SubSeqProperties DEF n
<1>5. Len(SubSeq(s, 1, n)) = n /\ \A i \in 1..n : SubSeq(s, 1, n)[i] = s[i]
  BY <1>3
<1> QED
  BY <1>4, <1>5 DEF n

\* Appending adds one element, and no duplicate if it is a new one.
LEMMA AppendSet ==
  ASSUME NEW S, NEW s \in Seq(S), NEW e \in S
  PROVE  /\ ToSet(Append(s, e)) = ToSet(s) \union {e}
         /\ NoDuplicates(s) /\ e \notin ToSet(s) => NoDuplicates(Append(s, e))
<1>0. /\ Len(s) \in Nat /\ DOMAIN s = 1..Len(s)
      /\ DOMAIN Append(s, e) = 1..Len(s)+1 /\ Len(Append(s, e)) = Len(s) + 1
  BY LenProperties, AppendProperties
<1>1. \A i \in 1..Len(s)+1 : Append(s, e)[i] = IF i <= Len(s) THEN s[i] ELSE e
  BY <1>0, AppendProperties
<1>2. ToSet(Append(s, e)) = ToSet(s) \union {e}
  BY <1>0, <1>1 DEF ToSet
<1>3. NoDuplicates(s) /\ e \notin ToSet(s) => NoDuplicates(Append(s, e))
  BY <1>0, <1>1 DEF ToSet, NoDuplicates
<1> QED
  BY <1>2, <1>3
=============================================================================
