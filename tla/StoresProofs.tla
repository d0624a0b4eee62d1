---------------------------- MODULE StoresProofs ----------------------------
(***************************************************************************)
(* The runtime stores and the learning store, for every size of window,    *)
(* file and audit, every set of keys, askers and revokers, every choice of *)
(* faults and every budget: what was persisted stays readable, what was    *)
(* cleared stays cleared, a learned count is earned, the tripwire is       *)
(* honest and an allowance is spent once.                                  *)
(*                                                                         *)
(* None of these is inductive.  The invariant Inv ties the files to the    *)
(* memory and both to the operation under way: a window in memory covers   *)
(* what its file would load, the line to append is newer than the file's,  *)
(* a window to forget has an empty file, a fragment at the end of the      *)
(* audit is an attempt that tore it, and while the answer to a revoke is   *)
(* due the file already holds no more than was confirmed since.            *)
(***************************************************************************)
EXTENDS ConfirmationStore, WellFoundedInduction, FiniteSetTheorems, SequenceTheorems, TLAPS

\* Every nonempty set of natural numbers has a least one.
LEMMA LeastOne ==
  ASSUME NEW T \in SUBSET Nat, T # {} PROVE \E x \in T : \A y \in T : x <= y
<1>. DEFINE R == OpToRel(<, Nat)
<1>1. \A a, b \in Nat : a < b => <<a, b>> \in R
  BY DEF OpToRel
<1>2. IsWellFoundedOn(R, Nat)
  BY NatLessThanWellFounded
<1>. HIDE DEF R
<1>3. PICK x \in T : \A y \in T : <<y, x>> \notin R
  BY <1>2, WFMin
<1>4. \A y \in T : ~(y < x)
  BY <1>1, <1>3
<1> QED
  BY <1>4

-----------------------------------------------------------------------------
(* Subsequences *)

\* How many of the positions in K are no later than i.
Rank(K, i) == Cardinality({j \in K : j <= i})

LEMMA Initial ==
  ASSUME NEW L \in Nat, NEW K \in SUBSET (1..L)
  PROVE  IsFiniteSet(K) /\ Cardinality(K) \in Nat
<1>1. IsFiniteSet(1..L)
  BY FS_Interval
<1> QED
  BY <1>1, FS_Subset, FS_CardinalityType

\* A set of positions has one of every rank up to its size.
LEMMA Ranked ==
  ASSUME NEW L \in Nat, NEW K \in SUBSET (1..L), NEW n \in 1..Cardinality(K)
  PROVE  \E i \in K : Rank(K, i) = n
<1>. DEFINE Bad(l) == \E H \in SUBSET (1..l) : \E m \in 1..Cardinality(H) : \A i \in H : Rank(H, i) # m
            T == {l \in Nat : Bad(l)}
<1>1. SUFFICES ASSUME L \in T PROVE FALSE
  OBVIOUS
<1>2. PICK l \in T : \A o \in T : l <= o
  BY <1>1, LeastOne
<1>0. PICK H \in SUBSET (1..l) : \E m \in 1..Cardinality(H) : \A i \in H : Rank(H, i) # m
  BY <1>2
<1>3. PICK m \in 1..Cardinality(H) : \A i \in H : Rank(H, i) # m
  BY <1>0
<1>. HIDE DEF T
<1>4. l \in Nat
  BY <1>2 DEF T
<1>5. IsFiniteSet(H) /\ Cardinality(H) \in Nat
  BY <1>4, Initial
<1>6. CASE l \notin H
  <2>1. l # 0
    <3>1. l = 0 => H = {}
      BY <1>4
    <3>2. Cardinality(H) # 0
      BY <1>5
    <3> QED
      BY <3>1, <3>2, FS_EmptySet
  <2>2. H \in SUBSET (1..(l - 1)) /\ l - 1 \in Nat
    BY <1>4, <1>6, <2>1
  <2>3. l - 1 \in T
    BY <1>3, <2>2 DEF T
  <2> QED
    BY <1>2, <1>4, <2>3
<1>7. CASE l \in H
  <2>. DEFINE G == H \ {l}
  <2>1. IsFiniteSet(G) /\ Cardinality(G) = Cardinality(H) - 1
    BY <1>5, <1>7, FS_RemoveElement
  <2>2. {j \in H : j <= l} = H
    <3>1. \A j \in H : j <= l
      BY <1>4
    <3> QED
      BY <3>1
  <2>3. m # Cardinality(H)
    BY <1>3, <1>7, <2>2 DEF Rank
  <2>4. G \in SUBSET (1..(l - 1)) /\ l - 1 \in Nat
    BY <1>4, <1>7
  <2>5. m \in 1..Cardinality(G)
    BY <1>5, <2>1, <2>3
  <2>6. ASSUME NEW i \in G PROVE Rank(G, i) # m
    <3>1. {j \in G : j <= i} = {j \in H : j <= i}
      BY <1>4, <2>4
    <3> QED
      BY <1>3, <3>1 DEF Rank
  <2>. HIDE DEF G
  <2>7. l - 1 \in T
    BY <2>4, <2>5, <2>6 DEF T
  <2> QED
    BY <1>2, <1>4, <2>7
<1> QED
  BY <1>6, <1>7

\* What is kept of a sequence are the elements at those positions.
LEMMA KeptOf ==
  ASSUME NEW S, NEW s \in Seq(S), NEW K \in SUBSET (1..Len(s))
  PROVE  /\ Kept(s, K) \in Seq(S) /\ Len(Kept(s, K)) = Cardinality(K)
         /\ \A n \in 1..Len(Kept(s, K)) : \E i \in K : Kept(s, K)[n] = s[i]
<1>1. Len(s) \in Nat
  BY LenProperties
<1>2. Cardinality(K) \in Nat
  BY <1>1, Initial
<1>3. \A n \in 1..Cardinality(K) : \E i \in K : Kept(s, K)[n] = s[i]
  <2>1. TAKE n \in 1..Cardinality(K)
  <2>. DEFINE i == CHOOSE i \in K : Cardinality({j \in K : j <= i}) = n
  <2>2. \E p \in K : Cardinality({j \in K : j <= p}) = n
    BY <1>1, Ranked DEF Rank
  <2>3. i \in K
    BY <2>2
  <2>4. Kept(s, K)[n] = s[i]
    BY DEF Kept
  <2> QED
    BY <2>3, <2>4
<1>4. \A n \in 1..Cardinality(K) : Kept(s, K)[n] \in S
  BY <1>1, <1>3, ElementOfSeq
<1>5. Kept(s, K) \in [1..Cardinality(K) -> S]
  BY <1>4 DEF Kept
<1>6. Kept(s, K) \in Seq(S)
  BY <1>2, <1>5, SeqDef
<1>7. Len(Kept(s, K)) = Cardinality(K)
  BY <1>2, <1>5, <1>6, LenProperties
<1> QED
  BY <1>3, <1>6, <1>7

\* Appending an element keeps what was kept, and that element when its position is.
LEMMA KeptAppend ==
  ASSUME NEW S, NEW s \in Seq(S), NEW e \in S, NEW K \in SUBSET (1..Len(s))
  PROVE  /\ Kept(Append(s, e), K) = Kept(s, K)
         /\ Kept(Append(s, e), K \cup {Len(s) + 1}) = Append(Kept(s, K), e)
<1>. DEFINE L == Len(s) + 1
            t == Append(s, e)
            H == K \cup {L}
<1>1. /\ Len(s) \in Nat
      /\ t \in Seq(S) /\ Len(t) = L /\ t[L] = e /\ \A i \in 1..Len(s) : t[i] = s[i]
  BY LenProperties, AppendProperties
<1>2. IsFiniteSet(K) /\ Cardinality(K) \in Nat
  BY <1>1, Initial
<1>. HIDE DEF t
<1>a. L \in Nat \ {0} /\ \A i \in K : i \in Nat \ {0} /\ i < L
  BY <1>1
<1>. HIDE DEF L
<1>3. Cardinality(H) = Cardinality(K) + 1
  <2>1. L \notin K
    BY <1>a
  <2> QED
    BY <1>2, <2>1, FS_AddElement
<1>4. \A i \in K : {j \in H : j <= i} = {j \in K : j <= i}
  BY <1>a
<1>5. {j \in H : j <= L} = H
  <2>1. \A j \in H : j <= L
    BY <1>a
  <2> QED
    BY <2>1
<1>6. \A n \in 1..Cardinality(K) : \E i \in K : Cardinality({j \in K : j <= i}) = n
  BY <1>1, Ranked DEF Rank
<1>7. Kept(t, K) = Kept(s, K)
  <2>1. ASSUME NEW n \in 1..Cardinality(K) PROVE Kept(t, K)[n] = Kept(s, K)[n]
    <3>. DEFINE i == CHOOSE i \in K : Cardinality({j \in K : j <= i}) = n
    <3>1. i \in K
      BY <1>6
    <3>2. Kept(t, K)[n] = t[i] /\ Kept(s, K)[n] = s[i]
      BY DEF Kept
    <3> QED
      BY <1>1, <3>1, <3>2
  <2> QED
    BY <2>1 DEF Kept
<1>8. Kept(s, K) \in Seq(S) /\ Len(Kept(s, K)) = Cardinality(K)
  BY KeptOf
<1>9. H \in SUBSET (1..Len(t))
  <2>1. \A x \in H : x \in 1..L
    BY <1>a
  <2>2. Len(t) = L
    BY <1>1
  <2>. HIDE DEF H
  <2> QED
    BY <2>1, <2>2
<1>10. Kept(t, H) \in Seq(S) /\ Len(Kept(t, H)) = Cardinality(K) + 1
  BY <1>1, <1>3, <1>9, KeptOf
<1>11. /\ Append(Kept(s, K), e) \in Seq(S) /\ Len(Append(Kept(s, K), e)) = Cardinality(K) + 1
       /\ \A n \in 1..Cardinality(K) : Append(Kept(s, K), e)[n] = Kept(s, K)[n]
       /\ Append(Kept(s, K), e)[Cardinality(K) + 1] = e
  BY <1>8, AppendProperties
<1>12. ASSUME NEW n \in 1..Cardinality(K) PROVE Kept(t, H)[n] = Kept(s, K)[n]
  <2>. DEFINE i == CHOOSE u \in K : Cardinality({j \in K : j <= u}) = n
              p == CHOOSE u \in H : Cardinality({j \in H : j <= u}) = n
  <2>1. Cardinality({j \in H : j <= L}) # n
    <3>1. Cardinality({j \in H : j <= L}) = Cardinality(K) + 1
      BY <1>3, <1>5, Zenon
    <3> QED
      BY <1>2, <3>1
  <2>2. ASSUME NEW x
        PROVE  (x \in H /\ Cardinality({j \in H : j <= x}) = n)
                 <=> (x \in K /\ Cardinality({j \in K : j <= x}) = n)
    BY <1>4, <2>1
  <2>3. i = p
    BY <2>2
  <2>4. i \in K
    BY <1>6
  <2>5. Kept(t, H)[n] = t[p]
    BY <1>2, <1>3 DEF Kept
  <2>6. Kept(s, K)[n] = s[i]
    BY DEF Kept
  <2> QED
    BY <1>1, <2>3, <2>4, <2>5, <2>6
<1>13. Kept(t, H)[Cardinality(K) + 1] = e
  <2>. DEFINE n == Cardinality(K) + 1
              p == CHOOSE i \in H : Cardinality({j \in H : j <= i}) = n
  <2>1. \A i \in K : Cardinality({j \in H : j <= i}) # n
    <3>1. ASSUME NEW i \in K PROVE Cardinality({j \in K : j <= i}) <= Cardinality(K)
      BY <1>2, FS_Subset
    <3>2. ASSUME NEW i \in K PROVE Cardinality({j \in K : j <= i}) \in Nat
      BY <1>2, FS_Subset, FS_CardinalityType
    <3> QED
      BY <1>2, <1>4, <3>1, <3>2
  <2>2. L \in H /\ Cardinality({j \in H : j <= L}) = n
    BY <1>3, <1>5
  <2>3. p = L
    BY <2>1, <2>2
  <2>4. Kept(t, H)[n] = t[p]
    BY <1>2, <1>3 DEF Kept
  <2> QED
    BY <1>1, <2>3, <2>4
<1>14. Kept(t, H) = Append(Kept(s, K), e)
  <2>1. \A n \in 1..(Cardinality(K) + 1) : Kept(t, H)[n] = Append(Kept(s, K), e)[n]
    <3>1. TAKE n \in 1..(Cardinality(K) + 1)
    <3>2. n \in 1..Cardinality(K) \/ n = Cardinality(K) + 1
      BY <1>2, <3>1
    <3>. HIDE DEF H
    <3> QED
      BY <1>11, <1>12, <1>13, <3>2
  <2>. HIDE DEF H
  <2> QED
    BY <1>10, <1>11, <2>1, SeqEqual
<1> QED
  BY <1>7, <1>14 DEF t, L

LEMMA KeptSame ==
  ASSUME NEW S, NEW m \in Seq(S), NEW e \in S, NEW H \in SUBSET (1..Len(m))
  PROVE  Kept(Append(m, e), H) = Kept(m, H)
<1>1. /\ Kept(Append(m, e), H) = Kept(m, H)
      /\ Kept(Append(m, e), H \cup {Len(m) + 1}) = Append(Kept(m, H), e)
  BY KeptAppend
<1> QED
  BY <1>1

LEMMA KeptLonger ==
  ASSUME NEW S, NEW m \in Seq(S), NEW e \in S, NEW H \in SUBSET (1..Len(m))
  PROVE  Kept(Append(m, e), H \cup {Len(m) + 1}) = Append(Kept(m, H), e)
<1>1. /\ Kept(Append(m, e), H) = Kept(m, H)
      /\ Kept(Append(m, e), H \cup {Len(m) + 1}) = Append(Kept(m, H), e)
  BY KeptAppend
<1> QED
  BY <1>1

\* A sequence whose elements lie in a smaller set.
LEMMA Retype ==
  ASSUME NEW S, NEW T, NEW s \in Seq(S), \A i \in 1..Len(s) : s[i] \in T
  PROVE  s \in Seq(T)
<1>1. Len(s) \in Nat /\ s \in [1..Len(s) -> T]
  BY LenProperties
<1> QED
  BY <1>1, SeqDef

-----------------------------------------------------------------------------
(* Tails of sequences *)

\* u is the end of s.
Ends(u, s) == Len(u) <= Len(s) /\ \A i \in 1..Len(u) : u[i] = s[Len(s) - Len(u) + i]

LEMMA SuffixMeans ==
  ASSUME NEW S, NEW u \in Seq(S), NEW s \in Seq(S)
  PROVE  IsSuffix(u, s) <=> Ends(u, s)
<1>. DEFINE m == Len(u)
            l == Len(s)
            ru == Reverse(u)
            rs == Reverse(s)
<1>1. m \in Nat /\ l \in Nat
  BY LenProperties
<1>2. /\ ru \in Seq(S) /\ Len(ru) = m /\ \A i \in 1..m : ru[i] = u[(m - i) + 1]
      /\ rs \in Seq(S) /\ Len(rs) = l /\ \A i \in 1..l : rs[i] = s[(l - i) + 1]
  <2>1. ASSUME NEW t \in Seq(S)
        PROVE  /\ Reverse(t) \in Seq(S) /\ Len(Reverse(t)) = Len(t)
               /\ \A i \in 1..Len(t) : Reverse(t)[i] = t[(Len(t) - i) + 1]
    <3>1. Len(t) \in Nat
      BY LenProperties
    <3>2. \A i \in 1..Len(t) : (Len(t) - i) + 1 \in 1..Len(t)
      BY <3>1
    <3>3. Reverse(t) \in [1..Len(t) -> S]
      BY <3>2, ElementOfSeq DEF Reverse
    <3>4. Reverse(t) \in Seq(S)
      BY <3>1, <3>3, SeqDef
    <3>5. Len(Reverse(t)) = Len(t)
      BY <3>1, <3>3, <3>4, LenProperties
    <3> QED
      BY <3>4, <3>5 DEF Reverse
  <2> QED
    BY <2>1
<1>. HIDE DEF ru, rs, m, l
<1>3. IsSuffix(u, s) <=> (m <= l /\ SubSeq(ru, 1, m) = SubSeq(rs, 1, m))
  BY <1>2 DEF IsSuffix, IsPrefix, ru, rs
<1>4. SubSeq(ru, 1, m) = ru
  BY <1>2, SubSeqFull
<1>5. ASSUME m <= l
      PROVE  /\ SubSeq(rs, 1, m) \in Seq(S) /\ Len(SubSeq(rs, 1, m)) = m
             /\ \A i \in 1..m : SubSeq(rs, 1, m)[i] = rs[i]
  <2>1. \A i \in 1..m : rs[i] \in S
    BY <1>1, <1>2, <1>5, ElementOfSeq
  <2>2. /\ SubSeq(rs, 1, m) \in Seq(S)
        /\ Len(SubSeq(rs, 1, m)) = IF 1 <= m THEN m - 1 + 1 ELSE 0
        /\ \A i \in 1 .. m - 1 + 1 : SubSeq(rs, 1, m)[i] = rs[1 + i - 1]
    BY <1>1, <2>1, SubSeqProperties
  <2> QED
    BY <1>1, <2>2
<1>6. ASSUME m <= l
      PROVE  (ru = SubSeq(rs, 1, m)) <=> \A i \in 1..m : u[(m - i) + 1] = s[(l - i) + 1]
  <2>1. (ru = SubSeq(rs, 1, m)) <=> \A i \in 1..m : ru[i] = SubSeq(rs, 1, m)[i]
    BY <1>2, <1>5, <1>6, SeqEqual
  <2>2. \A i \in 1..m : SubSeq(rs, 1, m)[i] = s[(l - i) + 1]
    BY <1>1, <1>2, <1>5, <1>6
  <2>3. \A i \in 1..m : ru[i] = u[(m - i) + 1]
    BY <1>2
  <2>. HIDE DEF ru, rs
  <2>4. (\A i \in 1..m : ru[i] = SubSeq(rs, 1, m)[i])
          <=> \A i \in 1..m : u[(m - i) + 1] = s[(l - i) + 1]
    <3>1. ASSUME NEW i \in 1..m
          PROVE  ru[i] = SubSeq(rs, 1, m)[i] <=> u[(m - i) + 1] = s[(l - i) + 1]
      BY <2>2, <2>3
    <3> QED
      BY <3>1
  <2> QED
    BY <2>1, <2>4
<1>7. (\A i \in 1..m : u[(m - i) + 1] = s[(l - i) + 1]) <=> \A i \in 1..m : u[i] = s[l - m + i]
  <2>1. ASSUME \A i \in 1..m : u[(m - i) + 1] = s[(l - i) + 1], NEW i \in 1..m
        PROVE  u[i] = s[l - m + i]
    <3>1. (m - i) + 1 \in 1..m /\ (m - ((m - i) + 1)) + 1 = i /\ (l - ((m - i) + 1)) + 1 = l - m + i
      BY <1>1
    <3> QED
      BY <2>1, <3>1
  <2>2. ASSUME \A i \in 1..m : u[i] = s[l - m + i], NEW i \in 1..m
        PROVE  u[(m - i) + 1] = s[(l - i) + 1]
    <3>1. (m - i) + 1 \in 1..m /\ l - m + ((m - i) + 1) = (l - i) + 1
      BY <1>1
    <3> QED
      BY <2>2, <3>1
  <2> QED
    BY <2>1, <2>2
<1> QED
  BY <1>3, <1>4, <1>6, <1>7 DEF Ends, m, l

LEMMA EmptyEnds ==
  ASSUME NEW S, NEW s \in Seq(S) PROVE Ends(<<>>, s)
BY LenProperties DEF Ends

LEMMA EndsItself ==
  ASSUME NEW S, NEW s \in Seq(S) PROVE Ends(s, s)
BY LenProperties DEF Ends

LEMMA AppendEnds ==
  ASSUME NEW S, NEW u \in Seq(S), NEW s \in Seq(S), NEW e \in S, Ends(u, s)
  PROVE  Ends(Append(u, e), Append(s, e))
<1>1. /\ Len(u) \in Nat /\ Len(s) \in Nat
      /\ Len(Append(u, e)) = Len(u) + 1 /\ Len(Append(s, e)) = Len(s) + 1
      /\ (\A i \in 1..Len(u) : Append(u, e)[i] = u[i]) /\ Append(u, e)[Len(u) + 1] = e
      /\ (\A i \in 1..Len(s) : Append(s, e)[i] = s[i]) /\ Append(s, e)[Len(s) + 1] = e
  BY LenProperties, AppendProperties
<1>2. ASSUME NEW i \in 1..Len(u)
      PROVE  Append(u, e)[i] = Append(s, e)[(Len(s) + 1) - (Len(u) + 1) + i]
  <2>1. /\ (Len(s) + 1) - (Len(u) + 1) + i = Len(s) - Len(u) + i
        /\ Len(s) - Len(u) + i \in 1..Len(s)
    BY <1>1 DEF Ends
  <2> QED
    BY <1>1, <2>1 DEF Ends
<1>3. (Len(s) + 1) - (Len(u) + 1) + (Len(u) + 1) = Len(s) + 1
  BY <1>1
<1>4. \A i \in 1..(Len(u) + 1) : i \in 1..Len(u) \/ i = Len(u) + 1
  BY <1>1
<1>5. Len(u) + 1 <= Len(s) + 1
  BY <1>1 DEF Ends
<1>6. ASSUME NEW i \in 1..(Len(u) + 1)
      PROVE  Append(u, e)[i] = Append(s, e)[(Len(s) + 1) - (Len(u) + 1) + i]
  BY <1>1, <1>2, <1>3, <1>4
<1> QED
  BY <1>1, <1>5, <1>6 DEF Ends

LEMMA EndsOfEnds ==
  ASSUME NEW S, NEW u \in Seq(S), NEW s \in Seq(S), NEW t \in Seq(S), Ends(u, s), Ends(s, t)
  PROVE  Ends(u, t)
<1>1. Len(u) \in Nat /\ Len(s) \in Nat /\ Len(t) \in Nat
  BY LenProperties
<1>2. ASSUME NEW i \in 1..Len(u) PROVE u[i] = t[Len(t) - Len(u) + i]
  <2>1. /\ Len(s) - Len(u) + i \in 1..Len(s)
        /\ Len(t) - Len(s) + (Len(s) - Len(u) + i) = Len(t) - Len(u) + i
    BY <1>1 DEF Ends
  <2> QED
    BY <2>1 DEF Ends
<1> QED
  BY <1>1, <1>2 DEF Ends

LEMMA LastNOf ==
  ASSUME NEW S, NEW s \in Seq(S), NEW n \in Nat
  PROVE  /\ LastN(s, n) \in Seq(S) /\ Ends(LastN(s, n), s)
         /\ Len(LastN(s, n)) = (IF Len(s) > n THEN n ELSE Len(s))
         /\ Len(s) <= n => LastN(s, n) = s
<1>. DEFINE l == Len(s)
            k == IF l > n THEN l - n + 1 ELSE 1
<1>1. l \in Nat /\ k \in 1..(l + 1) /\ k \in Int
  BY LenProperties
<1>2. \A i \in k..l : s[i] \in S
  BY <1>1, ElementOfSeq
<1>3. LastN(s, n) = SubSeq(s, k, l)
  BY DEF LastN
<1>. HIDE DEF k
<1>4. /\ SubSeq(s, k, l) \in Seq(S)
      /\ Len(SubSeq(s, k, l)) = IF k <= l THEN l - k + 1 ELSE 0
      /\ \A i \in 1 .. l - k + 1 : SubSeq(s, k, l)[i] = s[k + i - 1]
  BY <1>1, <1>2, SubSeqProperties
<1>. HIDE DEF l
<1>5. Len(SubSeq(s, k, l)) = l - k + 1 /\ l - k + 1 \in Nat /\ l - k + 1 <= l
  BY <1>1, <1>4
<1>6. l - k + 1 = (IF l > n THEN n ELSE l)
  BY <1>1 DEF k
<1>7. \A i \in 1..(l - k + 1) : l - (l - k + 1) + i = k + i - 1
  BY <1>1
<1>8. Ends(SubSeq(s, k, l), s)
  BY <1>4, <1>5, <1>7 DEF Ends, l
<1>9. l <= n => SubSeq(s, k, l) = s
  <2>1. SubSeq(s, 1, Len(s)) = s
    BY SubSeqFull
  <2>2. l <= n => k = 1
    BY <1>1 DEF k
  <2> QED
    BY <2>1, <2>2 DEF l
<1> QED
  BY <1>3, <1>4, <1>5, <1>6, <1>8, <1>9 DEF l

-----------------------------------------------------------------------------
(* What a file holds for its readers *)

\* What a reader skips.
Bad == {Fragment, Corrupt}
\* The file ends in a fragment.
Torn(f) == f # <<>> /\ Last(f) = Fragment

LEMMA ReadableEmpty == Readable(<<>>) = <<>>
<1>1. <<>> \in Seq({}) /\ Len(<<>>) = 0
  BY EmptySeq
<1>2. {i \in 1..Len(<<>>) : <<>>[i] \notin Bad} = {}
  BY <1>1
<1>3. Kept(<<>>, {}) \in Seq({}) /\ Len(Kept(<<>>, {})) = 0
  BY <1>1, KeptOf, FS_EmptySet
<1>4. Kept(<<>>, {}) = <<>>
  BY <1>3, EmptySeq
<1> QED
  BY <1>2, <1>4 DEF Readable, Bad

LEMMA ReadableAppend ==
  ASSUME NEW S, NEW s \in Seq(S), NEW e \in S
  PROVE  Readable(Append(s, e)) = IF e \in Bad THEN Readable(s) ELSE Append(Readable(s), e)
<1>. DEFINE K == {i \in 1..Len(s) : s[i] \notin Bad}
            H == {i \in 1..Len(Append(s, e)) : Append(s, e)[i] \notin Bad}
<1>1. /\ Len(s) \in Nat /\ Len(Append(s, e)) = Len(s) + 1
      /\ (\A i \in 1..Len(s) : Append(s, e)[i] = s[i]) /\ Append(s, e)[Len(s) + 1] = e
  BY LenProperties, AppendProperties
<1>2. \A i : i \in 1..(Len(s) + 1) <=> (i \in 1..Len(s) \/ i = Len(s) + 1)
  BY <1>1
<1>3. \A i : i \in H <=> (i \in K \/ (i = Len(s) + 1 /\ e \notin Bad))
  BY <1>1, <1>2
<1>4. H = IF e \in Bad THEN K ELSE K \cup {Len(s) + 1}
  <2>. HIDE DEF H, K
  <2> QED
    BY <1>3
<1>5. /\ Kept(Append(s, e), K) = Kept(s, K)
      /\ Kept(Append(s, e), K \cup {Len(s) + 1}) = Append(Kept(s, K), e)
  BY KeptAppend
<1>6. Readable(Append(s, e)) = Kept(Append(s, e), H) /\ Readable(s) = Kept(s, K)
  BY DEF Readable, Bad
<1>. HIDE DEF H, K
<1> QED
  BY <1>4, <1>5, <1>6

\* A reader gets lines of the file, none of them a fragment or a corrupt one.
LEMMA ReadableOf ==
  ASSUME NEW S, NEW s \in Seq(S)
  PROVE  Readable(s) \in Seq(S \ Bad) /\ Readable(s) \in Seq(S)
<1>. DEFINE K == {i \in 1..Len(s) : s[i] \notin Bad}
<1>1. Readable(s) = Kept(s, K)
  BY DEF Readable, Bad
<1>2. \A i \in K : s[i] \in S \ Bad
  BY ElementOfSeq
<1>a. K \in SUBSET (1..Len(s))
  OBVIOUS
<1>. HIDE DEF K
<1>3. /\ Kept(s, K) \in Seq(S)
      /\ \A n \in 1..Len(Kept(s, K)) : \E i \in K : Kept(s, K)[n] = s[i]
  BY <1>a, KeptOf
<1>4. \A n \in 1..Len(Kept(s, K)) : Kept(s, K)[n] \in S \ Bad
  BY <1>2, <1>3
<1>5. Kept(s, K) \in Seq(S \ Bad)
  BY <1>3, <1>4, Retype
<1> QED
  BY <1>1, <1>3, <1>5

\* Without either, a reader gets the whole file.
LEMMA ReadableAll ==
  ASSUME NEW S, NEW s \in Seq(S \ Bad)
  PROVE  Readable(s) = s
<1>. DEFINE K == {i \in 1..Len(s) : s[i] \notin Bad}
            L == Len(s)
<1>1. L \in Nat /\ DOMAIN s = 1..L
  BY LenProperties
<1>2. K = 1..L
  <2>1. \A i \in 1..L : s[i] \notin Bad
    BY ElementOfSeq
  <2> QED
    BY <2>1
<1>3. Readable(s) = Kept(s, 1..L)
  BY <1>2 DEF Readable, Bad
<1>. HIDE DEF K, L
<1>4. Cardinality(1..L) = L
  BY <1>1, FS_Interval
<1>5. ASSUME NEW n \in 1..L PROVE Kept(s, 1..L)[n] = s[n]
  <2>1. \A i \in 1..L : Cardinality({j \in 1..L : j <= i}) = i
    <3>1. TAKE i \in 1..L
    <3>2. {j \in 1..L : j <= i} = 1..i
      BY <1>1
    <3>3. Cardinality(1..i) = i
      BY <1>1, FS_Interval
    <3> QED
      BY <3>2, <3>3
  <2>2. (CHOOSE i \in 1..L : Cardinality({j \in 1..L : j <= i}) = n) = n
    BY <2>1
  <2> QED
    BY <1>4, <2>2 DEF Kept
<1>6. Kept(s, 1..L) = [n \in 1..L |-> s[n]]
  BY <1>4, <1>5 DEF Kept
<1> QED
  BY <1>1, <1>3, <1>6

LEMMA SubSeqOf ==
  ASSUME NEW S, NEW s \in Seq(S), NEW n \in 0..Len(s), NEW k \in 1..(n + 1)
  PROVE  /\ SubSeq(s, k, n) \in Seq(S) /\ Len(SubSeq(s, k, n)) = n - k + 1
         /\ \A i \in 1..(n - k + 1) : SubSeq(s, k, n)[i] = s[k + i - 1]
<1>1. Len(s) \in Nat /\ n \in Nat /\ k \in Nat /\ k \in Int /\ n \in Int
  BY LenProperties
<1>2. \A i \in k..n : s[i] \in S
  <2>1. \A i \in k..n : i \in 1..Len(s)
    BY <1>1
  <2> QED
    BY <2>1, ElementOfSeq
<1>3. (IF k <= n THEN n - k + 1 ELSE 0) = n - k + 1
  BY <1>1
<1>4. /\ SubSeq(s, k, n) \in Seq(S) /\ Len(SubSeq(s, k, n)) = (IF k <= n THEN n - k + 1 ELSE 0)
      /\ \A i \in 1..(n - k + 1) : SubSeq(s, k, n)[i] = s[k + i - 1]
  BY <1>1, <1>2, SubSeqProperties
<1> QED
  BY <1>3, <1>4

\* Cutting lines off the front of a file cuts lines off the front for its readers.
LEMMA ReadableTail ==
  ASSUME NEW S, NEW s \in Seq(S), NEW m \in 1..(Len(s) + 1)
  PROVE  Ends(Readable(SubSeq(s, m, Len(s))), Readable(s))
<1>. DEFINE Wrong(l) == \E t \in Seq(S) : Len(t) = l
                         /\ \E k \in 1..(l + 1) : ~Ends(Readable(SubSeq(t, k, l)), Readable(t))
            T == {l \in Nat : Wrong(l)}
<1>1. Len(s) \in Nat
  BY LenProperties
<1>2. SUFFICES ASSUME Len(s) \in T PROVE FALSE
  BY <1>1
<1>3. PICK l \in T : \A o \in T : l <= o
  BY <1>2, LeastOne
<1>4. PICK t \in Seq(S) : Len(t) = l
                         /\ \E k \in 1..(l + 1) : ~Ends(Readable(SubSeq(t, k, l)), Readable(t))
  BY <1>3
<1>5. PICK k \in 1..(l + 1) : ~Ends(Readable(SubSeq(t, k, l)), Readable(t))
  BY <1>4
<1>6. l \in Nat
  BY <1>3
<1>7. k # l + 1
  <2>1. k = l + 1 => SubSeq(t, k, l) = <<>>
    BY <1>6, SubSeqEmpty
  <2>2. Readable(t) \in Seq(S)
    BY ReadableOf
  <2> QED
    BY <1>5, <2>1, <2>2, ReadableEmpty, EmptyEnds
<1>8. l # 0 /\ k \in 1..l
  BY <1>6, <1>7
<1>9. PICK u \in Seq(S), e \in S : t = Append(u, e)
  <2>1. t # <<>>
    BY <1>4, <1>8, EmptySeq
  <2> QED
    BY <2>1, SequenceEmptyOrAppend
<1>10. /\ Len(u) = l - 1 /\ l - 1 \in Nat
       /\ (\A i \in 1..(l - 1) : t[i] = u[i]) /\ t[l] = e
  BY <1>4, <1>6, <1>9, LenProperties, AppendProperties
<1>. DEFINE v == SubSeq(u, k, l - 1)
<1>11. /\ v \in Seq(S) /\ Len(v) = l - k
       /\ \A i \in 1..(l - k) : v[i] = u[k + i - 1]
  <2>0. Len(u) = l - 1
    BY <1>10
  <2>1. l - 1 \in 0..Len(u) /\ k \in 1..(l - 1 + 1) /\ l - 1 - k + 1 = l - k
    BY <1>6, <1>8, <2>0
  <2>2. /\ v \in Seq(S) /\ Len(v) = l - 1 - k + 1
        /\ \A i \in 1..(l - 1 - k + 1) : v[i] = u[k + i - 1]
    BY <2>1, SubSeqOf
  <2>. HIDE DEF v
  <2> QED
    BY <2>1, <2>2
<1>12. /\ SubSeq(t, k, l) \in Seq(S) /\ Len(SubSeq(t, k, l)) = l - k + 1
       /\ \A i \in 1..(l - k + 1) : SubSeq(t, k, l)[i] = t[k + i - 1]
  <2>1. l \in 0..Len(t) /\ k \in 1..(l + 1)
    BY <1>4, <1>6, <1>8
  <2> QED
    BY <2>1, SubSeqOf
<1>. HIDE DEF v, T
<1>13. SubSeq(t, k, l) = Append(v, e)
  <2>1. /\ Append(v, e) \in Seq(S) /\ Len(Append(v, e)) = l - k + 1
        /\ (\A i \in 1..(l - k) : Append(v, e)[i] = v[i]) /\ Append(v, e)[l - k + 1] = e
    BY <1>11, AppendProperties
  <2>2. ASSUME NEW i \in 1..(l - k + 1) PROVE SubSeq(t, k, l)[i] = Append(v, e)[i]
    <3>1. CASE i = l - k + 1
      <4>1. k + i - 1 = l
        BY <1>6, <1>8, <3>1
      <4> QED
        BY <1>10, <1>12, <2>1, <3>1, <4>1
    <3>2. CASE i # l - k + 1
      <4>1. i \in 1..(l - k) /\ k + i - 1 \in 1..(l - 1)
        BY <1>6, <1>8, <3>2
      <4> QED
        BY <1>10, <1>11, <1>12, <2>1, <4>1
    <3> QED
      BY <3>1, <3>2
  <2> QED
    BY <1>12, <2>1, <2>2, SeqEqual
<1>14. Ends(Readable(v), Readable(u))
  <2>1. l - 1 \notin T
    BY <1>3, <1>6
  <2>2. k \in 1..((l - 1) + 1)
    BY <1>6, <1>8
  <2> QED
    BY <1>10, <2>1, <2>2 DEF T, v
<1>15. Readable(v) \in Seq(S) /\ Readable(u) \in Seq(S)
  BY <1>11, ReadableOf
<1>16. Ends(Readable(Append(v, e)), Readable(Append(u, e)))
  <2>1. /\ Readable(Append(v, e)) = IF e \in Bad THEN Readable(v) ELSE Append(Readable(v), e)
        /\ Readable(Append(u, e)) = IF e \in Bad THEN Readable(u) ELSE Append(Readable(u), e)
    BY <1>11, ReadableAppend
  <2> QED
    BY <1>14, <1>15, <2>1, AppendEnds
<1> QED
  BY <1>5, <1>9, <1>13, <1>16

LEMMA ReadableLastN ==
  ASSUME NEW S, NEW s \in Seq(S), NEW n \in Nat
  PROVE  Ends(Readable(LastN(s, n)), Readable(s))
<1>. DEFINE k == IF Len(s) > n THEN Len(s) - n + 1 ELSE 1
<1>1. Len(s) \in Nat
  BY LenProperties
<1>2. k \in 1..(Len(s) + 1)
  BY <1>1
<1>3. LastN(s, n) = SubSeq(s, k, Len(s))
  BY DEF LastN
<1>. HIDE DEF k
<1> QED
  BY <1>2, <1>3, ReadableTail

-----------------------------------------------------------------------------
(* The state *)

JobLines == [type : {"record", "learned", "clear", "none", "tamper", "revoked", "cap"}, id : Nat]
FileLines == JobLines \cup Bad

WindowTasks == {"append", "replace", "forget", "answer"}
OtherTasks == {"audit", "trim", "tripwire", "write", "revoked", "failed"}
Tasks ==
    [do : WindowTasks, window : Windows, line : JobLines]
      \cup [do : OtherTasks, window : Windows \cup {"audit", Nobody} \cup Revokers, line : JobLines]

Attempts == [line : JobLines, how : {"wrote", "refused", "torn"}]
Tables == UNION {[K -> [count : Nat, last : Nat]] : K \in SUBSET Keys}

TypeOK ==
    /\ up \in BOOLEAN /\ job \in Seq(Tasks)
    /\ mem \in [Windows -> Seq(JobLines)]
    /\ disk \in [Windows -> Seq(FileLines)]
    /\ audit \in Seq(FileLines) /\ trail \in Seq(Attempts)
    /\ written \in Nat /\ cleared \in [Windows -> Nat]
    /\ entries \in Tables /\ file \in Tables \cup {NoFile, Garbage}
    /\ now \in Nat /\ used \in Nat /\ clean \in Nat
    /\ since \in [Keys -> Nat] /\ fresh \in [Keys -> Nat]
    /\ asker \in [Askers -> Keys \cup {Nobody}]
    /\ DOMAIN revoker = Revokers
    /\ forged \in BOOLEAN /\ foreign \in BOOLEAN /\ alien \in BOOLEAN

\* The lines that operations write are legible.
LEMMA Legibles == JobLines \cap Bad = {} /\ FileLines \ Bad = JobLines
<1>1. ASSUME NEW l \in JobLines PROVE l \notin Bad
  <2>1. l.type # "fragment" /\ l.type # "corrupt"
    BY DEF JobLines
  <2> QED
    BY <2>1 DEF Bad, Fragment, Corrupt, Line
<1> QED
  BY <1>1 DEF FileLines

LEMMA PutOf ==
  ASSUME NEW f \in Seq(FileLines), NEW e \in JobLines
  PROVE  /\ Put(f, e) \in Seq(FileLines) /\ Put(f, e) # <<>> /\ ~Torn(Put(f, e))
         /\ Len(Put(f, e)) >= Len(f)
         /\ Readable(Put(f, e)) = IF Torn(f) THEN Readable(f) ELSE Append(Readable(f), e)
         /\ Tear(f) \in Seq(FileLines) /\ Torn(Tear(f))
         /\ Len(Tear(f)) >= Len(f) /\ Readable(Tear(f)) = Readable(f)
         /\ (Tear(f) = f) <=> Torn(f)
<1>1. e \in FileLines /\ Fragment \in FileLines /\ Corrupt \in FileLines /\ Fragment # Corrupt
      /\ Fragment \in Bad /\ Corrupt \in Bad /\ e \notin Bad
  BY Legibles DEF FileLines, Bad, Fragment, Corrupt, Line
<1>2. Len(f) \in Nat
  BY LenProperties
<1>3. CASE Torn(f)
  <2>1. PICK u \in Seq(FileLines), x \in FileLines : f = Append(u, x)
    BY <1>3, SequenceEmptyOrAppend DEF Torn
  <2>2. Len(u) \in Nat /\ Len(f) = Len(u) + 1 /\ f[Len(u) + 1] = x /\ \A i \in 1..Len(u) : f[i] = u[i]
    BY <2>1, LenProperties, AppendProperties
  <2>3. x = Fragment
    BY <1>3, <2>2 DEF Torn, Last
  <2>4. Front(f) = u
    <3>1. \A i \in 1..Len(u) : f[i] \in FileLines
      BY <2>2, ElementOfSeq
    <3>2. SubSeq(f, 1, Len(u)) \in Seq(FileLines) /\ Len(SubSeq(f, 1, Len(u))) = Len(u)
          /\ \A i \in 1..Len(u) : SubSeq(f, 1, Len(u))[i] = f[i]
      <4>1. /\ SubSeq(f, 1, Len(u)) \in Seq(FileLines)
            /\ Len(SubSeq(f, 1, Len(u))) = IF 1 <= Len(u) THEN Len(u) - 1 + 1 ELSE 0
            /\ \A i \in 1..(Len(u) - 1 + 1) : SubSeq(f, 1, Len(u))[i] = f[1 + i - 1]
        BY <2>2, <3>1, SubSeqProperties
      <4> QED
        BY <2>2, <4>1
    <3>3. SubSeq(f, 1, Len(u)) = u
      BY <2>2, <3>2, SeqEqual
    <3> QED
      BY <2>2, <3>3 DEF Front
  <2>5. Put(f, e) = Append(u, Corrupt) /\ Tear(f) = f
    BY <1>3, <2>4 DEF Put, Tear, Torn
  <2>6. /\ Append(u, Corrupt) \in Seq(FileLines) /\ Append(u, Corrupt) # <<>>
        /\ Len(Append(u, Corrupt)) = Len(u) + 1 /\ Append(u, Corrupt)[Len(u) + 1] = Corrupt
    BY <1>1, AppendProperties
  <2>7. Readable(Append(u, Corrupt)) = Readable(u) /\ Readable(f) = Readable(u)
    BY <1>1, <2>1, <2>3, ReadableAppend
  <2> QED
    BY <1>1, <1>2, <1>3, <2>2, <2>5, <2>6, <2>7 DEF Torn, Last
<1>4. CASE ~Torn(f)
  <2>1. Put(f, e) = Append(f, e) /\ Tear(f) = Append(f, Fragment)
    BY <1>4 DEF Put, Tear, Torn
  <2>2. \A x \in FileLines :
          /\ Append(f, x) \in Seq(FileLines) /\ Append(f, x) # <<>>
          /\ Len(Append(f, x)) = Len(f) + 1 /\ Append(f, x)[Len(f) + 1] = x
    BY AppendProperties
  <2>3. Readable(Append(f, e)) = Append(Readable(f), e) /\ Readable(Append(f, Fragment)) = Readable(f)
    BY <1>1, ReadableAppend
  <2> QED
    BY <1>1, <1>2, <1>4, <2>1, <2>2, <2>3 DEF Torn, Last
<1> QED
  BY <1>3, <1>4

\* An append writes the line, leaves a fragment of it, or leaves the file alone.
LEMMA AppendOutcomes ==
  ASSUME NEW f, NEW e, NEW r \in AppendRuntimeLine(f, e)
  PROVE  \/ r.file = Put(f, e) /\ r.ok = TRUE
         \/ r.file = f /\ r.ok = FALSE
         \/ r.file = Tear(f) /\ r.ok = FALSE
<1>1. ASSUME NEW g, NEW x \in TryAppend(g, e)
      PROVE  \/ x.file = Put(g, e) /\ x.ok = TRUE /\ x.retry = FALSE
             \/ x.file = g /\ x.ok = FALSE /\ x.retry = TRUE
             \/ x.file = Tear(g) /\ x.ok = FALSE /\ x.retry = FALSE
  BY <1>1 DEF TryAppend
<1>2. CASE r \in TryAppend(f, e)
  BY <1>1, <1>2
<1>3. ASSUME NEW x \in TryAppend(f, e), x.retry, r \in TryAppend(x.file, e)
      PROVE  x.file = f
  BY <1>1, <1>3
<1> QED
  BY <1>1, <1>2, <1>3 DEF AppendRuntimeLine

\* Dropping the first task and putting others in its place.
LEMMA Popped ==
  ASSUME NEW S, NEW s \in Seq(S), s # <<>>, NEW p \in Seq(S)
  PROVE  /\ Head(s) = s[1] /\ Head(s) \in S /\ 1 \in 1..Len(s)
         /\ p \o Tail(s) \in Seq(S)
         /\ \A i \in 1..Len(p \o Tail(s)) :
              \/ i \in 1..Len(p) /\ (p \o Tail(s))[i] = p[i]
              \/ i + (1 - Len(p)) \in 2..Len(s) /\ (p \o Tail(s))[i] = s[i + (1 - Len(p))]
<1>1. /\ Len(s) \in Nat /\ Len(s) # 0 /\ Len(p) \in Nat
      /\ Head(s) \in S /\ Tail(s) \in Seq(S) /\ Len(Tail(s)) = Len(s) - 1
      /\ \A i \in 1..Len(Tail(s)) : Tail(s)[i] = s[i + 1]
  BY LenProperties, HeadTailProperties, EmptySeq
<1>2. /\ p \o Tail(s) \in Seq(S) /\ Len(p \o Tail(s)) = Len(p) + (Len(s) - 1)
      /\ \A i \in 1..(Len(p) + (Len(s) - 1)) :
           (p \o Tail(s))[i] = IF i <= Len(p) THEN p[i] ELSE Tail(s)[i - Len(p)]
  BY <1>1, ConcatProperties
<1>3. ASSUME NEW i \in 1..(Len(p) + (Len(s) - 1)), ~(i <= Len(p))
      PROVE  i + (1 - Len(p)) \in 2..Len(s) /\ (p \o Tail(s))[i] = s[i + (1 - Len(p))]
  <2>1. i - Len(p) \in 1..(Len(s) - 1) /\ (i - Len(p)) + 1 = i + (1 - Len(p)) /\ i + (1 - Len(p)) \in 2..Len(s)
    BY <1>1, <1>3
  <2>2. Tail(s)[i - Len(p)] = s[(i - Len(p)) + 1]
    BY <1>1, <2>1
  <2> QED
    BY <1>2, <1>3, <2>1, <2>2
<1>4. Head(s) = s[1]
  OBVIOUS
<1>5. \A i \in 1..(Len(p) + (Len(s) - 1)) : i <= Len(p) => i \in 1..Len(p)
  BY <1>1
<1>6. 1 \in 1..Len(s)
  BY <1>1
<1> QED
  BY <1>1, <1>2, <1>3, <1>4, <1>5, <1>6

LEMMA PoppedOnly ==
  ASSUME NEW S, NEW s \in Seq(S), s # <<>>
  PROVE  Tail(s) = <<>> \o Tail(s)
BY HeadTailProperties, ConcatEmptySeq

-----------------------------------------------------------------------------
(* What a step does to the running operation *)

\* The tasks that are left are old ones, shifted, or new ones of the kinds in New.
Carried(d, first, New) ==
    \A i \in 1..Len(job') :
      \/ job'[i].do \in New
      \/ i + d \in first..Len(job) /\ job'[i] = job[i + d]

\* A step that leaves the windows and their files alone.
Quiet(New) ==
    /\ UNCHANGED <<up, mem, disk, written, cleared>>
    /\ \/ job' = job
       \/ /\ job = <<>> \/ job[1].do \in OtherTasks
          /\ \E d \in Int : Carried(d, 2, New)

NewTasks == OtherTasks \ {"revoked"}

LEMMA TaskOf ==
  /\ \A t \in Tasks : /\ t.line \in JobLines /\ t.do \in WindowTasks \cup OtherTasks
                      /\ t.do \in WindowTasks => t.window \in Windows
                      /\ t.do \in OtherTasks => t.window \in Windows \cup {"audit", Nobody} \cup Revokers
  /\ \A do \in WindowTasks, w \in Windows, l \in JobLines :
       Task(do, w, l) \in Tasks /\ Task(do, w, l).do = do
  /\ \A do \in OtherTasks, w \in Windows \cup {"audit", Nobody} \cup Revokers, l \in JobLines :
       Task(do, w, l) \in Tasks /\ Task(do, w, l).do = do
BY DEF Task, Tasks, WindowTasks, OtherTasks

LEMMA LineOf ==
  /\ \A type \in {"record", "learned", "clear", "none", "tamper", "revoked", "cap"}, n \in Nat :
       Line(type, n) \in JobLines /\ Line(type, n).id = n
  /\ Day \in JobLines
  /\ \A l \in JobLines : l.id \in Nat
BY DEF Line, Day, JobLines

LEMMA ShortSeq ==
  ASSUME NEW S
  PROVE  /\ <<>> \in Seq(S) /\ Len(<<>>) = 0
         /\ \A a \in S : <<a>> \in Seq(S) /\ Len(<<a>>) = 1 /\ <<a>>[1] = a
         /\ \A a, b \in S : <<a, b>> \in Seq(S) /\ Len(<<a, b>>) = 2 /\ <<a, b>>[1] = a /\ <<a, b>>[2] = b
OBVIOUS

\* An operation goes on to its next task, with tasks of the kinds in New before it.
LEMMA GoesOn ==
  ASSUME TypeOK, job # <<>>, NEW New, NEW p \in Seq(Tasks), job' = p \o Tail(job),
         \A i \in 1..Len(p) : p[i].do \in New
  PROVE  /\ job' \in Seq(Tasks) /\ job[1] = Head(job) /\ job[1] \in Tasks /\ 1 \in 1..Len(job)
         /\ 1 - Len(p) \in Int /\ Carried(1 - Len(p), 2, New)
<1>1. job \in Seq(Tasks) /\ Len(p) \in Nat
  BY LenProperties DEF TypeOK
<1>2. /\ Head(job) = job[1] /\ Head(job) \in Tasks /\ 1 \in 1..Len(job)
      /\ p \o Tail(job) \in Seq(Tasks)
      /\ \A i \in 1..Len(p \o Tail(job)) :
           \/ i \in 1..Len(p) /\ (p \o Tail(job))[i] = p[i]
           \/ /\ i + (1 - Len(p)) \in 2..Len(job)
              /\ (p \o Tail(job))[i] = job[i + (1 - Len(p))]
  BY <1>1, Popped
<1>3. Carried(1 - Len(p), 2, New)
  BY <1>2 DEF Carried
<1> QED
  BY <1>1, <1>2, <1>3

\* An operation without further tasks, or with its last one done, goes on to nothing new.
LEMMA GoesOnOnly ==
  ASSUME TypeOK, job # <<>>, NEW New, job' = Tail(job)
  PROVE  /\ job' \in Seq(Tasks) /\ job[1] = Head(job) /\ job[1] \in Tasks /\ 1 \in 1..Len(job)
         /\ Carried(1, 2, New)
<1>1. job' = <<>> \o Tail(job)
  BY PoppedOnly DEF TypeOK
<1>2. <<>> \in Seq(Tasks) /\ Len(<<>>) = 0
  BY ShortSeq
<1>a. \A i \in 1..Len(<<>>) : <<>>[i].do \in New
  BY <1>2
<1>3. /\ job' \in Seq(Tasks) /\ job[1] = Head(job) /\ job[1] \in Tasks /\ 1 \in 1..Len(job)
      /\ Carried(1 - Len(<<>>), 2, New)
  BY <1>1, <1>2, <1>a, GoesOn
<1>4. 1 - Len(<<>>) = 1
  BY <1>2
<1> QED
  BY <1>3, <1>4

LEMMA Begins ==
  ASSUME NEW New, \A i \in 1..Len(job') : job'[i].do \in New
  PROVE  Carried(0, 2, New)
BY DEF Carried

-----------------------------------------------------------------------------
(* The tables *)

LEMMA TableOf ==
  ASSUME NEW es \in Tables
  PROVE  /\ DOMAIN es \subseteq Keys
         /\ \A k \in DOMAIN es : es[k].count \in Nat /\ es[k].last \in Nat
<1>1. PICK D \in SUBSET Keys : es \in [D -> [count : Nat, last : Nat]]
  BY DEF Tables
<1> QED
  BY <1>1

LEMMA RestrictOf ==
  ASSUME NEW es \in Tables, NEW K \in SUBSET (DOMAIN es)
  PROVE  /\ Restrict(es, K) \in Tables /\ DOMAIN Restrict(es, K) = K
         /\ \A k \in K : Restrict(es, K)[k] = es[k]
<1>1. PICK D \in SUBSET Keys : es \in [D -> [count : Nat, last : Nat]]
  BY DEF Tables
<1>2. Restrict(es, K) \in [K -> [count : Nat, last : Nat]] /\ K \in SUBSET Keys
  BY <1>1 DEF Restrict
<1>3. Restrict(es, K) \in Tables
  BY <1>2 DEF Tables
<1> QED
  BY <1>3 DEF Restrict

LEMMA WithOf ==
  ASSUME NEW es \in Tables, NEW k \in Keys, NEW c \in Nat, NEW l \in Nat
  PROVE  /\ With(es, k, Entry(c, l)) \in Tables
         /\ DOMAIN With(es, k, Entry(c, l)) = DOMAIN es \cup {k}
         /\ \A x \in DOMAIN es \cup {k} :
              With(es, k, Entry(c, l))[x] = IF x = k THEN Entry(c, l) ELSE es[x]
<1>1. PICK D \in SUBSET Keys : es \in [D -> [count : Nat, last : Nat]]
  BY DEF Tables
<1>2. Entry(c, l) \in [count : Nat, last : Nat]
  BY DEF Entry
<1>3. With(es, k, Entry(c, l)) \in [D \cup {k} -> [count : Nat, last : Nat]] /\ D \cup {k} \in SUBSET Keys
  BY <1>1, <1>2 DEF With
<1>4. With(es, k, Entry(c, l)) \in Tables
  BY <1>3 DEF Tables
<1> QED
  BY <1>4 DEF With

LEMMA NothingOf == Nothing \in Tables /\ DOMAIN Nothing = {}
<1>1. Nothing \in [{} -> [count : Nat, last : Nat]]
  BY DEF Nothing
<1> QED
  BY <1>1 DEF Tables

\* Evicting keeps entries or drops them, and never changes one.
LEMMA EvictOf ==
  ASSUME NEW es \in Tables, NEW time, NEW x \in EvictLearning(es, time)
  PROVE  /\ x \in Tables /\ DOMAIN x \subseteq DOMAIN es
         /\ \A k \in DOMAIN x : x[k] = es[k]
<1>1. PICK K \in SUBSET (DOMAIN es) : x = Restrict(es, K)
  BY DEF EvictLearning
<1> QED
  BY <1>1, RestrictOf


-----------------------------------------------------------------------------
(* The steps that leave the windows alone *)

LEMMA TripwireStep == ASSUME TypeOK, Tripwire PROVE TypeOK' /\ Quiet(NewTasks)
<1>. DEFINE p == IF file # seen THEN <<Task("audit", "audit", Line("tamper", 0))>> ELSE <<>>
<1>1. /\ p \in Seq(Tasks) /\ \A i \in 1..Len(p) : p[i].do \in NewTasks
  <2>. DEFINE a == Task("audit", "audit", Line("tamper", 0))
  <2>1. Line("tamper", 0) \in JobLines
    BY LineOf
  <2>2. a \in Tasks /\ a.do \in NewTasks
    BY <2>1, TaskOf DEF NewTasks, OtherTasks
  <2>3. p = <<>> \/ p = <<a>>
    OBVIOUS
  <2>. HIDE DEF a, p
  <2>4. CASE p = <<>>
    BY <2>4, ShortSeq
  <2>5. CASE p = <<a>>
    BY <2>2, <2>5, ShortSeq
  <2> QED
    BY <2>3, <2>4, <2>5
<1>2. job # <<>> /\ job' = p \o Tail(job) /\ Head(job).do = "tripwire"
  BY DEF Tripwire, NextTask
<1>. HIDE DEF p
<1>3. /\ job' \in Seq(Tasks) /\ job[1] = Head(job)
      /\ 1 - Len(p) \in Int /\ Carried(1 - Len(p), 2, NewTasks)
  BY <1>1, <1>2, GoesOn
<1>4. TypeOK'
  BY <1>3 DEF TypeOK, Tripwire, learnVars
<1>5. Quiet(NewTasks)
  BY <1>2, <1>3 DEF Quiet, Tripwire, OtherTasks
<1> QED
  BY <1>4, <1>5

LEMMA WriteStep == ASSUME TypeOK, WriteLearning PROVE TypeOK' /\ Quiet(OtherTasks)
<1>1. PICK r \in WriteAtomic(file, entries) :
        /\ file' = r.file /\ alien' = (alien /\ ~r.ok)
        /\ job' = AfterWrite(Head(job).window, r.ok) \o Tail(job)
  BY DEF WriteLearning
<1>. DEFINE p == AfterWrite(Head(job).window, r.ok)
<1>2. job # <<>> /\ job' = p \o Tail(job) /\ Head(job).do = "write"
  BY <1>1 DEF WriteLearning, NextTask
<1>3. Head(job) \in Tasks
  BY <1>2, HeadTailProperties DEF TypeOK
<1>4. /\ p \in Seq(Tasks) /\ \A i \in 1..Len(p) : p[i].do \in OtherTasks
  <2>. DEFINE w == Head(job).window
  <2>1. w \in Windows \cup {"audit", Nobody} \cup Revokers
    BY <1>2, <1>3, TaskOf DEF OtherTasks
  <2>2. /\ \A do \in OtherTasks : Task(do, w, Day) \in Tasks /\ Task(do, w, Day).do = do
        /\ Task("audit", "audit", Line("revoked", 0)) \in Tasks
        /\ Task("audit", "audit", Line("revoked", 0)).do = "audit"
    <3>1. Day \in JobLines /\ Line("revoked", 0) \in JobLines
      BY LineOf
    <3>2. "audit" \in OtherTasks
      BY DEF OtherTasks
    <3>. HIDE DEF w
    <3> QED
      BY <2>1, <3>1, <3>2, TaskOf
  <2>. HIDE DEF w
  <2>. DEFINE a == Task("audit", "audit", Line("revoked", 0))
              b == Task("revoked", w, Day)
              c == Task("failed", w, Day)
  <2>3. /\ a \in Tasks /\ b \in Tasks /\ c \in Tasks
        /\ a.do \in OtherTasks /\ b.do \in OtherTasks /\ c.do \in OtherTasks
    BY <2>2 DEF OtherTasks
  <2>4. p = <<>> \/ p = <<a, b>> \/ p = <<c>>
    BY DEF AfterWrite, w
  <2>. HIDE DEF a, b, c, p
  <2>5. CASE p = <<>>
    BY <2>5, ShortSeq
  <2>6. CASE p = <<a, b>>
    BY <2>3, <2>6, ShortSeq
  <2>7. CASE p = <<c>>
    BY <2>3, <2>7, ShortSeq
  <2> QED
    BY <2>4, <2>5, <2>6, <2>7
<1>. HIDE DEF p
<1>5. /\ job' \in Seq(Tasks) /\ job[1] = Head(job)
      /\ 1 - Len(p) \in Int /\ Carried(1 - Len(p), 2, OtherTasks)
  BY <1>2, <1>4, GoesOn
<1>6. file' \in Tables \cup {NoFile, Garbage}
  BY <1>1 DEF WriteAtomic, TypeOK
<1>7. alien' \in BOOLEAN
  BY <1>1
<1>8. TypeOK'
  BY <1>5, <1>6, <1>7 DEF TypeOK, WriteLearning
<1>9. Quiet(OtherTasks)
  BY <1>2, <1>5 DEF Quiet, WriteLearning, OtherTasks
<1> QED
  BY <1>8, <1>9

LEMMA RevokeAnswersStep == ASSUME TypeOK, RevokeAnswers PROVE TypeOK' /\ Quiet(NewTasks)
<1>1. job # <<>> /\ job' = Tail(job) /\ Head(job).do \in {"revoked", "failed"}
  BY DEF RevokeAnswers, NextTask
<1>2. job' \in Seq(Tasks) /\ job[1] = Head(job) /\ Carried(1, 2, NewTasks)
  BY <1>1, GoesOnOnly
<1>3. since' \in [Keys -> Nat]
  <2>1. ASSUME NEW k PROVE [since EXCEPT ![k] = fresh[k]] \in [Keys -> Nat]
    BY DEF TypeOK
  <2> QED
    BY <2>1 DEF RevokeAnswers, TypeOK
<1>4. TypeOK'
  BY <1>2, <1>3 DEF TypeOK, RevokeAnswers
<1>5. Quiet(NewTasks)
  BY <1>1, <1>2 DEF Quiet, RevokeAnswers, OtherTasks
<1> QED
  BY <1>4, <1>5

LEMMA OutsideStep ==
  ASSUME TypeOK, NEW content \in OutsideContents, Outside(content)
  PROVE  TypeOK' /\ Quiet(NewTasks)
<1>1. content \in Tables \cup {NoFile, Garbage}
  <2>1. CASE content = Garbage
    BY <2>1
  <2>2. ASSUME NEW x \in Keys, NEW t \in {now, now + 1}, content = [k \in {x} |-> Entry(Threshold, t)]
        PROVE  content \in Tables
    <3>1. Threshold \in Nat /\ t \in Nat
      BY LearningAssumption DEF TypeOK
    <3>2. content \in [{x} -> [count : Nat, last : Nat]]
      BY <2>2, <3>1 DEF Entry
    <3>3. {x} \in SUBSET Keys
      OBVIOUS
    <3> QED
      BY <3>2, <3>3 DEF Tables
  <2>3. content = Garbage \/ \E x \in Keys, t \in {now, now + 1} : content = [k \in {x} |-> Entry(Threshold, t)]
    <3>. DEFINE T == {now, now + 1}
                F(x, t) == [k \in {x} |-> Entry(Threshold, t)]
    <3>1. OutsideContents = {Garbage} \cup {F(x, t) : x \in Keys, t \in T}
      BY DEF OutsideContents
    <3>. HIDE DEF T, F
    <3>2. content = Garbage \/ content \in {F(x, t) : x \in Keys, t \in T}
      BY <3>1
    <3>3. content = Garbage \/ \E x \in Keys, t \in T : content = F(x, t)
      BY <3>2
    <3> QED
      BY <3>3 DEF T, F
  <2> QED
    BY <2>1, <2>2, <2>3
<1> QED
  BY <1>1 DEF Outside, TypeOK, Quiet

LEMMA PersistOf ==
  ASSUME NEW for \in {Nobody} \cup Revokers
  PROVE  PersistJob(for) \in Seq(Tasks) /\ \A i \in 1..Len(PersistJob(for)) : PersistJob(for)[i].do \in NewTasks
<1>. DEFINE a == Task("tripwire", for, Day)
            b == Task("write", for, Day)
<1>a. /\ Day \in JobLines /\ "tripwire" \in OtherTasks /\ "write" \in OtherTasks
      /\ "tripwire" \in NewTasks /\ "write" \in NewTasks
  BY LineOf DEF OtherTasks, NewTasks
<1>1. a \in Tasks /\ b \in Tasks /\ a.do \in NewTasks /\ b.do \in NewTasks
  <2>1. a \in Tasks /\ a.do = "tripwire"
    BY <1>a, TaskOf
  <2>2. b \in Tasks /\ b.do = "write"
    BY <1>a, TaskOf
  <2> QED
    BY <1>a, <2>1, <2>2
<1>2. PersistJob(for) = <<a, b>>
  BY DEF PersistJob
<1>. HIDE DEF a, b
<1> QED
  BY <1>1, <1>2, ShortSeq

LEMMA LearnStep ==
  ASSUME TypeOK, NEW k \in Keys, NEW es \in Tables, NEW sk \in Nat, NEW fk \in Nat, Learn(k, es, sk, fk)
  PROVE  TypeOK' /\ Quiet(NewTasks)
<1>1. job = <<>> /\ job' = PersistJob(Nobody)
  BY DEF Learn, Idle
<1>2. job' \in Seq(Tasks) /\ Carried(0, 2, NewTasks)
  BY <1>1, PersistOf, Begins
<1>3. since' \in [Keys -> Nat] /\ fresh' \in [Keys -> Nat]
  BY DEF Learn, TypeOK
<1>4. TypeOK'
  BY <1>2, <1>3 DEF Learn, TypeOK
<1>5. Quiet(NewTasks)
  BY <1>1, <1>2 DEF Learn, Quiet
<1> QED
  BY <1>4, <1>5

LEMMA ConfirmStep == ASSUME TypeOK, NEW k \in Keys, Confirm(k) PROVE TypeOK' /\ Quiet(NewTasks)
<1>1. PICK es \in RecordConfirm(k) : Learn(k, es, since[k] + 1, fresh[k] + 1)
  BY DEF Confirm
<1>2. (IF k \in DOMAIN entries THEN entries[k].count ELSE 0) + 1 \in Nat /\ now \in Nat
  BY TableOf DEF TypeOK
<1>3. es \in Tables
  BY <1>2, WithOf, EvictOf DEF RecordConfirm, TypeOK
<1>4. since[k] + 1 \in Nat /\ fresh[k] + 1 \in Nat
  BY DEF TypeOK
<1> QED
  BY <1>1, <1>3, <1>4, LearnStep

LEMMA ResetOf ==
  ASSUME TypeOK, NEW k \in Keys
  PROVE  /\ ResetConfirmation(k) \in Tables
         /\ \A x \in DOMAIN ResetConfirmation(k) :
              IF x = k THEN ResetConfirmation(k)[x].count = 0
              ELSE x \in DOMAIN entries /\ ResetConfirmation(k)[x] = entries[x]
<1>1. entries \in Tables /\ now \in Nat /\ 0 \in Nat
  BY DEF TypeOK
<1>2. CASE k \in DOMAIN entries
  <2>1. ResetConfirmation(k) = With(entries, k, Entry(0, now))
    BY <1>2 DEF ResetConfirmation
  <2>2. Entry(0, now).count = 0
    BY DEF Entry
  <2>3. DOMAIN entries \cup {k} = DOMAIN entries
    BY <1>2
  <2>4. /\ With(entries, k, Entry(0, now)) \in Tables
        /\ DOMAIN With(entries, k, Entry(0, now)) = DOMAIN entries \cup {k}
        /\ \A x \in DOMAIN entries \cup {k} :
             With(entries, k, Entry(0, now))[x] = IF x = k THEN Entry(0, now) ELSE entries[x]
    BY <1>1, WithOf
  <2> QED
    BY <2>1, <2>2, <2>3, <2>4
<1>3. CASE k \notin DOMAIN entries
  BY <1>1, <1>3 DEF ResetConfirmation
<1> QED
  BY <1>2, <1>3

LEMMA DenyStep == ASSUME TypeOK, NEW k \in Keys, Deny(k) PROVE TypeOK' /\ Quiet(NewTasks)
<1>1. ResetConfirmation(k) \in Tables /\ since[k] \in Nat /\ 0 \in Nat
  BY ResetOf DEF TypeOK
<1> QED
  BY <1>1, LearnStep DEF Deny

LEMMA RevokeOf ==
  ASSUME TypeOK, NEW k \in Keys
  PROVE  /\ RevokeLearning(k) \in Tables /\ DOMAIN RevokeLearning(k) = DOMAIN entries \ {k}
         /\ \A x \in DOMAIN RevokeLearning(k) : RevokeLearning(k)[x] = entries[x]
<1>1. entries \in Tables /\ DOMAIN entries \ {k} \in SUBSET (DOMAIN entries)
  BY DEF TypeOK
<1>2. LET K == DOMAIN entries \ {k}
      IN  /\ Restrict(entries, K) \in Tables /\ DOMAIN Restrict(entries, K) = K
          /\ \A x \in K : Restrict(entries, K)[x] = entries[x]
  BY <1>1, RestrictOf
<1> QED
  BY <1>2 DEF RevokeLearning

LEMMA RevokeSectionStep ==
  ASSUME TypeOK, NEW r \in Revokers, NEW k \in Keys, RevokeSection(r, k) PROVE TypeOK' /\ Quiet(NewTasks)
<1>1. entries' \in Tables
  BY RevokeOf DEF RevokeSection
<1>2. fresh' \in [Keys -> Nat] /\ DOMAIN revoker' = Revokers
  <2>1. [fresh EXCEPT ![k] = 0] \in [Keys -> Nat]
        /\ DOMAIN [revoker EXCEPT ![r] = [key |-> k, at |-> "then"]] = Revokers
    BY DEF TypeOK
  <2>2. fresh \in [Keys -> Nat] /\ DOMAIN revoker = Revokers
    BY DEF TypeOK
  <2>3. CASE k \in DOMAIN entries
    BY <2>1, <2>3 DEF RevokeSection
  <2>4. CASE k \notin DOMAIN entries
    BY <2>2, <2>4 DEF RevokeSection
  <2> QED
    BY <2>3, <2>4
<1> QED
  BY <1>1, <1>2 DEF RevokeSection, TypeOK, Quiet

LEMMA RevokeWritesStep ==
  ASSUME TypeOK, NEW r \in Revokers, RevokeThen(r) \/ RevokeReply(r) PROVE TypeOK' /\ Quiet(NewTasks)
<1>1. ASSUME NEW from, NEW to, NEW for \in {Nobody} \cup Revokers, RevokeWrites(r, from, to, for)
      PROVE  TypeOK' /\ Quiet(NewTasks)
  <2>1. job = <<>> /\ job' = PersistJob(for)
    BY <1>1 DEF RevokeWrites, Idle
  <2>2. job' \in Seq(Tasks) /\ Carried(0, 2, NewTasks)
    BY <2>1, PersistOf, Begins
  <2>3. DOMAIN revoker' = Revokers
    BY <1>1 DEF RevokeWrites, TypeOK
  <2>4. TypeOK'
    BY <1>1, <2>2, <2>3 DEF RevokeWrites, TypeOK
  <2>5. Quiet(NewTasks)
    BY <1>1, <2>1, <2>2 DEF RevokeWrites, Quiet
  <2> QED
    BY <2>4, <2>5
<1> QED
  BY <1>1 DEF RevokeThen, RevokeReply

LEMMA AskStep ==
  ASSUME TypeOK, NEW a \in Askers,
         LearnMissed(a) \/ (\E k \in Keys : LearnAttempt(a, k))
  PROVE  TypeOK' /\ Quiet(NewTasks)
BY DEF LearnMissed, LearnAttempt, TypeOK, Quiet, storeVars

LEMMA DisposeStep == ASSUME TypeOK, SessionDisposed PROVE TypeOK' /\ Quiet(NewTasks)
BY DEF SessionDisposed, TypeOK, Quiet

LEMMA TickStep == ASSUME TypeOK, Tick PROVE TypeOK' /\ Quiet(NewTasks)
BY DEF Tick, TypeOK, Quiet

-----------------------------------------------------------------------------
(* Windows: increasing sequences of lines, cut to their last Cap *)

In(l, s) == \E i \in 1..Len(s) : s[i] = l
Above(n, s) == \A i \in 1..Len(s) : n < s[i].id
Below(s, n) == \A i \in 1..Len(s) : s[i].id < n
Increasing(s) == \A i, j \in 1..Len(s) : i < j => s[i].id < s[j].id
\* Every line of s is in m, or m is full of newer ones.
Covers(m, s) == \A i \in 1..Len(s) : In(s[i], m) \/ (Len(m) = Cap /\ Above(s[i].id, m))

LEMMA RangeIs ==
  ASSUME NEW S, NEW s \in Seq(S), NEW l
  PROVE  l \in Range(s) <=> In(l, s)
BY LenProperties DEF Range, In

\* What an end of an increasing sequence holds.
LEMMA EndsHolds ==
  ASSUME NEW u \in Seq(JobLines), NEW s \in Seq(JobLines), Ends(u, s)
  PROVE  /\ \A i \in 1..Len(u) : In(u[i], s)
         /\ \A n : Above(n, s) => Above(n, u)
         /\ \A n : Below(s, n) => Below(u, n)
         /\ Increasing(s) => Increasing(u)
         /\ Increasing(s) => \A i \in 1..Len(s) : In(s[i], u) \/ Above(s[i].id, u)
<1>. DEFINE d == Len(s) - Len(u)
<1>1. /\ Len(u) \in Nat /\ Len(s) \in Nat /\ d \in Nat
      /\ \A i \in 1..Len(u) : d + i \in 1..Len(s) /\ u[i] = s[d + i]
  BY LenProperties DEF Ends
<1>. HIDE DEF d
<1>2. Increasing(s) => Increasing(u)
  <2>1. ASSUME Increasing(s), NEW i \in 1..Len(u), NEW j \in 1..Len(u), i < j PROVE u[i].id < u[j].id
    <3>1. d + i \in 1..Len(s) /\ d + j \in 1..Len(s) /\ d + i < d + j
      BY <1>1, <2>1
    <3>2. s[d + i].id < s[d + j].id
      BY <2>1, <3>1 DEF Increasing
    <3> QED
      BY <1>1, <3>2
  <2> QED
    BY <2>1 DEF Increasing
<1>3. ASSUME Increasing(s), NEW i \in 1..Len(s) PROVE In(s[i], u) \/ Above(s[i].id, u)
  <2>1. CASE i <= d
    <3>1. \A j \in 1..Len(u) : i < d + j
      BY <1>1, <2>1
    <3> QED
      BY <1>1, <1>3, <3>1 DEF Above, Increasing
  <2>2. CASE ~(i <= d)
    <3>1. i - d \in 1..Len(u) /\ d + (i - d) = i
      BY <1>1, <2>2 DEF d
    <3> QED
      BY <1>1, <3>1 DEF In
  <2> QED
    BY <2>1, <2>2
<1>4. \A i \in 1..Len(u) : In(u[i], s)
  BY <1>1 DEF In
<1>5. \A n : (Above(n, s) => Above(n, u)) /\ (Below(s, n) => Below(u, n))
  BY <1>1 DEF Above, Below
<1> QED
  BY <1>2, <1>3, <1>4, <1>5

\* Cutting before an append changes nothing.
LEMMA LastNAppend ==
  ASSUME NEW S, NEW s \in Seq(S), NEW e \in S, NEW n \in Nat \ {0}
  PROVE  LastN(Append(s, e), n) = LastN(Append(LastN(s, n), e), n)
<1>. DEFINE b == LastN(s, n)
            p == Append(s, e)
            q == Append(b, e)
            u == LastN(p, n)
            v == LastN(q, n)
<1>1. /\ Len(s) \in Nat /\ b \in Seq(S) /\ Len(b) = (IF Len(s) > n THEN n ELSE Len(s))
      /\ \A i \in 1..Len(b) : b[i] = s[Len(s) - Len(b) + i]
  BY LenProperties, LastNOf DEF Ends
<1>. HIDE DEF b
<1>2. /\ p \in Seq(S) /\ Len(p) = Len(s) + 1 /\ p[Len(s) + 1] = e /\ \A i \in 1..Len(s) : p[i] = s[i]
      /\ q \in Seq(S) /\ Len(q) = Len(b) + 1 /\ q[Len(b) + 1] = e /\ \A i \in 1..Len(b) : q[i] = b[i]
  BY <1>1, AppendProperties
<1>. HIDE DEF p, q
<1>3. ASSUME NEW t \in Seq(S)
      PROVE  /\ LastN(t, n) \in Seq(S) /\ Len(LastN(t, n)) = (IF Len(t) > n THEN n ELSE Len(t))
             /\ \A i \in 1..Len(LastN(t, n)) : LastN(t, n)[i] = t[Len(t) - Len(LastN(t, n)) + i]
  BY LastNOf DEF Ends
<1>a. /\ u \in Seq(S) /\ Len(u) = (IF Len(p) > n THEN n ELSE Len(p))
      /\ \A i \in 1..Len(u) : u[i] = p[Len(p) - Len(u) + i]
  BY <1>2, <1>3
<1>b. /\ v \in Seq(S) /\ Len(v) = (IF Len(q) > n THEN n ELSE Len(q))
      /\ \A i \in 1..Len(v) : v[i] = q[Len(q) - Len(v) + i]
  BY <1>2, <1>3
<1>. HIDE DEF u, v
<1>4. Len(u) = Len(v) /\ Len(u) \in Nat /\ Len(u) <= Len(b) + 1 /\ Len(u) <= Len(s) + 1
      /\ Len(b) \in Nat /\ Len(b) <= Len(s) /\ Len(s) \in Nat
      /\ Len(p) = Len(s) + 1 /\ Len(q) = Len(b) + 1
  BY <1>1, <1>2, <1>a, <1>b
<1>5. ASSUME NEW i \in 1..Len(u) PROVE u[i] = v[i]
  <2>0. Len(p) - Len(u) + i = Len(s) + 1 - Len(u) + i /\ Len(q) - Len(v) + i = Len(b) + 1 - Len(u) + i
    BY <1>4
  <2>1. u[i] = p[Len(s) + 1 - Len(u) + i] /\ v[i] = q[Len(b) + 1 - Len(u) + i]
    BY <1>a, <1>b, <1>4, <2>0
  <2>2. CASE i = Len(u)
    <3>1. Len(s) + 1 - Len(u) + i = Len(s) + 1 /\ Len(b) + 1 - Len(u) + i = Len(b) + 1
      BY <1>4, <2>2
    <3> QED
      BY <1>2, <2>1, <3>1
  <2>3. CASE i # Len(u)
    <3>1. i \in Nat /\ 1 <= i /\ i < Len(u)
      BY <1>4, <2>3
    <3>2. /\ Len(b) + 1 - Len(u) + i \in 1..Len(b) /\ Len(s) + 1 - Len(u) + i \in 1..Len(s)
          /\ Len(s) - Len(b) + (Len(b) + 1 - Len(u) + i) = Len(s) + 1 - Len(u) + i
      BY <1>4, <3>1
    <3>3. b[Len(b) + 1 - Len(u) + i] = s[Len(s) - Len(b) + (Len(b) + 1 - Len(u) + i)]
      BY <1>1, <3>2
    <3>4. q[Len(b) + 1 - Len(u) + i] = b[Len(b) + 1 - Len(u) + i]
      BY <1>2, <3>2
    <3>5. p[Len(s) + 1 - Len(u) + i] = s[Len(s) + 1 - Len(u) + i]
      BY <1>2, <3>2
    <3> QED
      BY <2>1, <3>2, <3>3, <3>4, <3>5
  <2> QED
    BY <2>2, <2>3
<1>6. u = v
  BY <1>a, <1>b, <1>4, <1>5, SeqEqual
<1> QED
  BY <1>6 DEF u, v, p, q, b

\* Pushing a newer line onto a window.
LEMMA PushWindow ==
  ASSUME NEW m \in Seq(JobLines), Increasing(m), Len(m) <= Cap,
         NEW e \in JobLines, Below(m, e.id), NEW n, n = LastN(Append(m, e), Cap)
  PROVE  /\ n \in Seq(JobLines) /\ Len(n) <= Cap /\ Increasing(n) /\ In(e, n)
         /\ \A i \in 1..Len(n) : n[i] = e \/ In(n[i], m)
         /\ \A x : Above(x, m) /\ x < e.id => Above(x, n)
         /\ \A x : Below(m, x) /\ e.id < x => Below(n, x)
         /\ Covers(n, m)
         /\ Len(m) = Cap => Len(n) = Cap
<1>. DEFINE a == Append(m, e)
<1>1. Cap \in Nat \ {0}
  BY BoundsAssumption
<1>2. /\ Len(m) \in Nat /\ a \in Seq(JobLines) /\ Len(a) = Len(m) + 1
      /\ a[Len(m) + 1] = e /\ \A i \in 1..Len(m) : a[i] = m[i]
  BY LenProperties, AppendProperties
<1>. HIDE DEF a
<1>3. /\ n \in Seq(JobLines) /\ Ends(n, a)
      /\ Len(n) = (IF Len(a) > Cap THEN Cap ELSE Len(a))
  BY <1>1, <1>2, LastNOf DEF a
<1>4. \A i : i \in 1..(Len(m) + 1) <=> i \in 1..Len(m) \/ i = Len(m) + 1
  BY <1>2
<1>5. \A i \in 1..Len(m) : m[i].id \in Nat /\ e.id \in Nat
  BY LineOf, ElementOfSeq
<1>6. Increasing(a)
  <2>1. ASSUME NEW i \in 1..Len(a), NEW j \in 1..Len(a), i < j PROVE a[i].id < a[j].id
    <3>1. i \in 1..Len(m)
      BY <1>2, <2>1
    <3> QED
      BY <1>2, <1>4, <2>1, <3>1 DEF Increasing, Below
  <2> QED
    BY <2>1 DEF Increasing
<1>7. /\ \A i \in 1..Len(n) : In(n[i], a)
      /\ \A x : Above(x, a) => Above(x, n)
      /\ \A x : Below(a, x) => Below(n, x)
      /\ Increasing(n)
      /\ \A i \in 1..Len(a) : In(a[i], n) \/ Above(a[i].id, n)
  BY <1>2, <1>3, <1>6, EndsHolds
<1>8. Len(n) \in 1..Len(a) /\ Len(n) <= Cap /\ (Len(m) = Cap => Len(n) = Cap)
  BY <1>1, <1>2, <1>3
<1>9. n[Len(n)] = e
  <2>1. n[Len(n)] = a[Len(a) - Len(n) + Len(n)]
    BY <1>8, <1>2, <1>3 DEF Ends
  <2>2. Len(a) - Len(n) + Len(n) = Len(m) + 1
    BY <1>2, <1>8
  <2> QED
    BY <1>2, <2>1, <2>2
<1>10. In(e, n)
  BY <1>8, <1>9 DEF In
<1>11. \A i \in 1..Len(n) : n[i] = e \/ In(n[i], m)
  BY <1>2, <1>4, <1>7 DEF In
<1>12. \A x : Above(x, m) /\ x < e.id => Above(x, n)
  <2>1. \A x : Above(x, m) /\ x < e.id => Above(x, a)
    BY <1>2, <1>4 DEF Above
  <2> QED
    BY <1>7, <2>1
<1>13. \A x : Below(m, x) /\ e.id < x => Below(n, x)
  <2>1. \A x : Below(m, x) /\ e.id < x => Below(a, x)
    BY <1>2, <1>4 DEF Below
  <2> QED
    BY <1>7, <2>1
<1>14. Covers(n, m)
  <2>1. ASSUME NEW i \in 1..Len(m) PROVE In(m[i], n) \/ (Len(n) = Cap /\ Above(m[i].id, n))
    <3>1. CASE Len(a) > Cap
      BY <1>2, <1>3, <1>4, <1>7, <3>1
    <3>2. CASE ~(Len(a) > Cap)
      <4>1. Len(n) = Len(a) /\ Len(a) - Len(n) + i = i /\ i \in 1..Len(n)
        BY <1>2, <1>3, <3>2
      <4>2. n[i] = m[i]
        <5>1. n[i] = a[Len(a) - Len(n) + i]
          BY <1>3, <4>1 DEF Ends
        <5>2. a[i] = m[i]
          BY <1>2
        <5> QED
          BY <4>1, <5>1, <5>2
      <4> QED
        BY <4>1, <4>2 DEF In
    <3> QED
      BY <3>1, <3>2
  <2> QED
    BY <2>1 DEF Covers
<1> QED
  BY <1>3, <1>7, <1>8, <1>10, <1>11, <1>12, <1>13, <1>14

\* A window that covers another still does after a push of a newer line.
LEMMA CoversPush ==
  ASSUME NEW m \in Seq(JobLines), Increasing(m), Len(m) <= Cap,
         NEW e \in JobLines, Below(m, e.id), NEW n, n = LastN(Append(m, e), Cap),
         NEW s \in Seq(JobLines), Covers(m, s), Below(s, e.id)
  PROVE  Covers(n, s)
<1>1. /\ \A x : Above(x, m) /\ x < e.id => Above(x, n)
      /\ Covers(n, m) /\ (Len(m) = Cap => Len(n) = Cap)
  BY PushWindow
<1>2. ASSUME NEW i \in 1..Len(s) PROVE In(s[i], n) \/ (Len(n) = Cap /\ Above(s[i].id, n))
  <2>1. CASE In(s[i], m)
    <3>1. PICK j \in 1..Len(m) : m[j] = s[i]
      BY <2>1 DEF In
    <3> QED
      BY <1>1, <3>1 DEF Covers
  <2>2. CASE Len(m) = Cap /\ Above(s[i].id, m)
    BY <1>1, <2>2 DEF Below
  <2> QED
    BY <2>1, <2>2 DEF Covers
<1> QED
  BY <1>2 DEF Covers

\* What a boot would load.
LEMMA LoadOf ==
  ASSUME NEW f \in Seq(FileLines)
  PROVE  /\ Readable(f) \in Seq(JobLines) /\ LoadWindow(f) \in Seq(JobLines)
         /\ LoadWindow(f) = LastN(Readable(f), Cap)
         /\ Ends(LoadWindow(f), Readable(f)) /\ Len(LoadWindow(f)) <= Cap
<1>1. Readable(f) \in Seq(JobLines)
  BY ReadableOf, Legibles
<1>2. Cap \in Nat
  BY BoundsAssumption
<1>3. Len(Readable(f)) \in Nat
  BY <1>1, LenProperties
<1> QED
  BY <1>1, <1>2, <1>3, LastNOf DEF LoadWindow

\* A file of legible lines is read back as it is.
LEMMA LegibleFile ==
  ASSUME NEW s \in Seq(JobLines)
  PROVE  s \in Seq(FileLines) /\ Readable(s) = s /\ (Len(s) <= Cap => LoadWindow(s) = s)
<1>1. s \in Seq(FileLines \ Bad) /\ s \in Seq(FileLines)
  BY Legibles, SeqMonotonic DEF FileLines
<1>2. Readable(s) = s
  BY <1>1, ReadableAll
<1>3. Len(s) <= Cap => LastN(s, Cap) = s
  BY BoundsAssumption, LastNOf
<1> QED
  BY <1>1, <1>2, <1>3 DEF LoadWindow

-----------------------------------------------------------------------------
(* The windows, their files and the tasks on them *)

WindowInv(w) ==
    /\ Increasing(mem[w]) /\ Len(mem[w]) <= Cap /\ Increasing(Readable(disk[w]))
    /\ cleared[w] <= written
    /\ Above(cleared[w], mem[w]) /\ Above(cleared[w], Readable(disk[w]))
    /\ Below(mem[w], written + 1) /\ Below(Readable(disk[w]), written + 1)
    /\ up => Covers(mem[w], LoadWindow(disk[w]))

\* An append or a replacement is the only task on a window.
Alone == \A i, j \in 1..Len(job) :
           job[i].do \in {"append", "replace"} /\ job[j].do \in WindowTasks => i = j

TaskInv(i) ==
    LET w == job[i].window
        l == job[i].line
    IN  /\ job[i].do = "append" => In(l, mem[w]) /\ Below(Readable(disk[w]), l.id)
        /\ job[i].do = "forget" => disk[w] = <<>>
        /\ job[i].do = "answer" =>
             /\ l.id <= written /\ disk[w] = <<>>
             /\ mem[w] = <<>> \/ (job[1].do = "forget" /\ job[1].window = w)

StoresInv ==
    /\ \A w \in Windows : WindowInv(w)
    /\ Alone /\ \A i \in 1..Len(job) : TaskInv(i)
    /\ ~up => job = <<>>

LEMMA EmptyWindow ==
  /\ Increasing(<<>>) /\ Len(<<>>) <= Cap /\ Readable(<<>>) = <<>>
  /\ \A n : Above(n, <<>>) /\ Below(<<>>, n)
  /\ \A m : Covers(m, <<>>)
  /\ LoadWindow(<<>>) = <<>>
<1>1. Len(<<>>) = 0 /\ <<>> \in Seq(JobLines)
  BY ShortSeq
<1>2. Cap \in Nat
  BY BoundsAssumption
<1>3. LoadWindow(<<>>) = <<>>
  <2>. DEFINE e == <<>>
  <2>1. e \in Seq(JobLines) /\ Len(e) <= Cap
    BY <1>1, <1>2
  <2>. HIDE DEF e
  <2>2. LoadWindow(e) = e
    BY <2>1, LegibleFile
  <2> QED
    BY <2>2 DEF e
<1> QED
  BY <1>1, <1>2, <1>3, ReadableEmpty DEF Increasing, Above, Below, Covers

LEMMA QuietInv ==
  ASSUME TypeOK, StoresInv, NEW New \in SUBSET OtherTasks, Quiet(New), ~up => job' = <<>>
  PROVE  StoresInv'
<1>1. UNCHANGED <<up, mem, disk, written, cleared>>
  BY DEF Quiet
<1>2. \A w \in Windows : WindowInv(w)'
  BY <1>1 DEF StoresInv, WindowInv
<1>3. CASE job' = job
  <2>1. Alone'
    BY <1>3 DEF StoresInv, Alone
  <2>2. ASSUME NEW i \in 1..Len(job') PROVE TaskInv(i)'
    <3>1. TaskInv(i)
      BY <1>3, <2>2 DEF StoresInv
    <3> QED
      BY <1>1, <1>3, <3>1 DEF TaskInv
  <2> QED
    BY <1>1, <1>2, <2>1, <2>2 DEF StoresInv
<1>4. CASE (job = <<>> \/ job[1].do \in OtherTasks) /\ \E d \in Int : Carried(d, 2, New)
  <2>1. PICK d \in Int : Carried(d, 2, New)
    BY <1>4
  <2>2. ASSUME NEW i \in 1..Len(job')
        PROVE  \/ job'[i].do \notin WindowTasks
               \/ /\ i + d \in 2..Len(job) /\ i + d \in 1..Len(job)
                  /\ job'[i] = job[i + d] /\ job[1].do \in OtherTasks
    <3>1. CASE job'[i].do \in New
      BY <3>1 DEF OtherTasks, WindowTasks
    <3>2. CASE i + d \in 2..Len(job) /\ job'[i] = job[i + d]
      <4>1. job # <<>> /\ i + d \in 1..Len(job)
        <5>1. Len(job) \in Nat /\ Len(<<>>) = 0
          BY LenProperties DEF TypeOK
        <5> QED
          BY <3>2, <5>1
      <4> QED
        BY <1>4, <3>2, <4>1
    <3> QED
      BY <2>1, <3>1, <3>2 DEF Carried
  <2>3. Alone'
    <3>1. ASSUME NEW i \in 1..Len(job'), NEW j \in 1..Len(job'),
                 job'[i].do \in {"append", "replace"}, job'[j].do \in WindowTasks
          PROVE  i = j
      <4>1. job'[i].do \in WindowTasks
        BY <3>1 DEF WindowTasks
      <4>2. i + d \in 1..Len(job) /\ j + d \in 1..Len(job) /\ job'[i] = job[i + d] /\ job'[j] = job[j + d]
        BY <2>2, <3>1, <4>1
      <4>3. i + d = j + d
        BY <3>1, <4>2 DEF StoresInv, Alone
      <4> QED
        BY <2>1, <4>3
    <3> QED
      BY <3>1 DEF Alone
  <2>4. ASSUME NEW i \in 1..Len(job') PROVE TaskInv(i)'
    <3>1. CASE job'[i].do \notin WindowTasks
      BY <3>1 DEF TaskInv, WindowTasks
    <3>2. CASE i + d \in 1..Len(job) /\ job'[i] = job[i + d] /\ job[1].do \in OtherTasks
      <4>1. TaskInv(i + d)
        BY <3>2 DEF StoresInv
      <4>2. job[1].do # "forget"
        BY <3>2 DEF OtherTasks
      <4> QED
        BY <1>1, <3>2, <4>1, <4>2 DEF TaskInv
    <3> QED
      BY <2>2, <3>1, <3>2
  <2> QED
    BY <1>1, <1>2, <2>3, <2>4 DEF StoresInv
<1> QED
  BY <1>3, <1>4 DEF Quiet

-----------------------------------------------------------------------------
(* Pushes: a record, and the verdict of a learned allow *)

LEMMA Joined ==
  ASSUME NEW S, NEW x \in S, NEW y \in S
  PROVE  <<x>> \o <<>> = <<x>> /\ <<x>> \o <<y>> = <<x, y>> /\ <<>> \o <<x, y>> = <<x, y>>
<1>1. <<x>> \in Seq(S) /\ <<y>> \in Seq(S) /\ <<x, y>> \in Seq(S)
  OBVIOUS
<1>2. <<x>> \o <<>> = <<x>> /\ <<>> \o <<x, y>> = <<x, y>>
  BY <1>1, ConcatEmptySeq
<1>3. <<x>> \o <<y>> = <<x, y>>
  <2>1. /\ <<x>> \o <<y>> \in Seq(S) /\ Len(<<x>> \o <<y>>) = 2
        /\ \A i \in 1..2 : (<<x>> \o <<y>>)[i] = IF i <= 1 THEN x ELSE <<y>>[i - 1]
    BY <1>1, ConcatProperties
  <2>2. \A i \in 1..2 : (<<x>> \o <<y>>)[i] = <<x, y>>[i]
    BY <2>1
  <2> QED
    BY <1>1, <2>1, <2>2, SeqEqual
<1> QED
  BY <1>2, <1>3

LEMMA JoinedThree ==
  ASSUME NEW S, NEW x \in S, NEW y \in S, NEW z \in S
  PROVE  <<x>> \o <<y, z>> = <<x, y, z>> /\ <<x, y>> \o <<z>> = <<x, y, z>>
<1>1. <<x>> \in Seq(S) /\ <<z>> \in Seq(S) /\ <<x, y>> \in Seq(S) /\ <<y, z>> \in Seq(S) /\ <<x, y, z>> \in Seq(S)
  OBVIOUS
<1>2. <<x>> \o <<y, z>> = <<x, y, z>>
  <2>1. /\ <<x>> \o <<y, z>> \in Seq(S) /\ Len(<<x>> \o <<y, z>>) = 3
        /\ \A i \in 1..3 : (<<x>> \o <<y, z>>)[i] = IF i <= 1 THEN x ELSE <<y, z>>[i - 1]
    BY <1>1, ConcatProperties
  <2>2. \A i \in 1..3 : (<<x>> \o <<y, z>>)[i] = <<x, y, z>>[i]
    BY <2>1
  <2> QED
    BY <1>1, <2>1, <2>2, SeqEqual
<1>3. <<x, y>> \o <<z>> = <<x, y, z>>
  <2>1. /\ <<x, y>> \o <<z>> \in Seq(S) /\ Len(<<x, y>> \o <<z>>) = 3
        /\ \A i \in 1..3 : (<<x, y>> \o <<z>>)[i] = IF i <= 2 THEN <<x, y>>[i] ELSE <<z>>[i - 2]
    BY <1>1, ConcatProperties
  <2>2. \A i \in 1..3 : (<<x, y>> \o <<z>>)[i] = <<x, y, z>>[i]
    BY <2>1
  <2> QED
    BY <1>1, <2>1, <2>2, SeqEqual
<1> QED
  BY <1>2, <1>3

\* An operation begins with one append and otherwise touches no window.
Pushes(w, l) ==
    \E n \in 1..Len(job') : /\ job'[n] = Task("append", w, l)
                            /\ \A i \in 1..Len(job') : i # n => job'[i].do \in NewTasks

LEMMA PushJobOf ==
  ASSUME NEW w \in Windows, NEW l \in JobLines,
         NEW a, a = Task("append", w, l), NEW b, b = Task("audit", w, l)
  PROVE  /\ a \in Tasks /\ b \in Tasks /\ b.do \in NewTasks
         /\ PushJob(w, l) = <<a>> \/ PushJob(w, l) = <<a, b>>
<1>1. a \in Tasks /\ b \in Tasks /\ b.do \in NewTasks
  BY TaskOf DEF WindowTasks, OtherTasks, NewTasks
<1>2. <<a>> \o <<>> = <<a>> /\ <<a>> \o <<b>> = <<a, b>>
  BY <1>1, Joined
<1> QED
  BY <1>1, <1>2 DEF PushJob

LEMMA PushStep ==
  ASSUME TypeOK, NEW w \in Windows, Push(w), UNCHANGED learnVars
  PROVE  TypeOK' /\ Pushes(w, Line("record", written + 1))
<1>. DEFINE l == Line("record", written + 1)
            a == Task("append", w, l)
            b == Task("audit", w, l)
<1>1. l \in JobLines /\ written + 1 \in Nat
  BY LineOf DEF TypeOK
<1>. HIDE DEF l
<1>2. /\ a \in Tasks /\ b \in Tasks /\ b.do \in NewTasks
      /\ PushJob(w, l) = <<a>> \/ PushJob(w, l) = <<a, b>>
  BY <1>1, PushJobOf
<1>3. job' = <<a>> \/ job' = <<a, b>>
  BY <1>2 DEF Push, l
<1>4. mem' \in [Windows -> Seq(JobLines)]
  <2>1. LastN(Append(mem[w], l), Cap) \in Seq(JobLines)
    BY <1>1, AppendProperties, LastNOf, BoundsAssumption DEF TypeOK
  <2> QED
    BY <2>1 DEF Push, Remember, TypeOK, l
<1>. HIDE DEF a, b
<1>5. job' \in Seq(Tasks) /\ \E n \in 1..Len(job') : /\ job'[n] = a
                               /\ \A i \in 1..Len(job') : i # n => job'[i].do \in NewTasks
  <2>1. CASE job' = <<a>>
    BY <1>2, <2>1, ShortSeq
  <2>2. CASE job' = <<a, b>>
    <3>1. job' \in Seq(Tasks) /\ Len(job') = 2 /\ job'[1] = a /\ job'[2] = b
      BY <1>2, <2>2, ShortSeq
    <3>2. \A i \in 1..Len(job') : i # 1 => job'[i] = b
      BY <3>1
    <3> QED
      BY <1>2, <3>1, <3>2
  <2> QED
    BY <1>3, <2>1, <2>2
<1>6. TypeOK'
  BY <1>1, <1>4, <1>5 DEF TypeOK, Push, learnVars
<1> QED
  BY <1>5, <1>6 DEF Pushes, a, l

LEMMA ReviewedStep ==
  ASSUME TypeOK, NEW r \in Askers, LearnReviewed(r)
  PROVE  TypeOK' /\ Pushes("history", Line("learned", written + 1))
<1>. DEFINE w == "history"
            l == Line("learned", written + 1)
            a == Task("append", w, l)
            b == Task("audit", w, l)
            c == Task("audit", "audit", Line("cap", 0))
<1>1. l \in JobLines /\ written + 1 \in Nat /\ w \in Windows
  BY LineOf DEF TypeOK, Windows
<1>2. c \in Tasks /\ c.do \in NewTasks
  <2>1. Line("cap", 0) \in JobLines
    BY LineOf
  <2> QED
    BY <2>1, TaskOf DEF OtherTasks, NewTasks
<1>. HIDE DEF c
<1>3. /\ a \in Tasks /\ b \in Tasks /\ b.do \in NewTasks
      /\ PushJob(w, l) = <<a, b>>
  <2>1. a \in Tasks /\ b \in Tasks /\ b.do \in NewTasks
    BY <1>1, PushJobOf
  <2>2. <<a>> \o <<b>> = <<a, b>>
    BY <2>1, Joined
  <2> QED
    BY <2>1, <2>2 DEF PushJob
<1>4. job' = (IF SpendOne(used) = AllowCap THEN <<c>> ELSE <<>>) \o PushJob(w, l)
  BY DEF LearnReviewed, c
<1>5. mem' \in [Windows -> Seq(JobLines)]
  <2>. HIDE DEF l
  <2>1. LastN(Append(mem[w], l), Cap) \in Seq(JobLines)
    BY <1>1, AppendProperties, LastNOf, BoundsAssumption DEF TypeOK
  <2> QED
    BY <2>1 DEF LearnReviewed, Remember, TypeOK, l
<1>6. used' \in Nat /\ clean' \in Nat /\ written' \in Nat /\ asker' \in [Askers -> Keys \cup {Nobody}]
  BY DEF LearnReviewed, SpendOne, TypeOK
<1>. HIDE DEF a, b, l, w
<1>7. job' = <<a, b>> \/ job' = <<c, a, b>>
  <2>1. <<>> \o <<a, b>> = <<a, b>> /\ <<c>> \o <<a, b>> = <<c, a, b>>
    <3>1. a \in Tasks /\ b \in Tasks /\ c \in Tasks
      BY <1>2, <1>3
    <3>2. <<>> \o <<a, b>> = <<a, b>>
      BY <3>1, Joined
    <3>3. <<c>> \o <<a, b>> = <<c, a, b>>
      BY <3>1, JoinedThree
    <3> QED
      BY <3>2, <3>3
  <2> QED
    BY <1>3, <1>4, <2>1
<1>8. job' \in Seq(Tasks) /\ \E n \in 1..Len(job') : /\ job'[n] = a
                               /\ \A i \in 1..Len(job') : i # n => job'[i].do \in NewTasks
  <2>1. CASE job' = <<a, b>>
    <3>1. job' \in Seq(Tasks) /\ Len(job') = 2 /\ job'[1] = a /\ job'[2] = b
      BY <1>3, <2>1, ShortSeq
    <3>2. \A i \in 1..Len(job') : i # 1 => job'[i] = b
      BY <3>1
    <3> QED
      BY <1>3, <3>1, <3>2
  <2>2. CASE job' = <<c, a, b>>
    <3>1. job' \in Seq(Tasks) /\ Len(job') = 3 /\ job'[1] = c /\ job'[2] = a /\ job'[3] = b
      BY <1>2, <1>3, <2>2
    <3>2. \A i \in 1..Len(job') : i # 2 => job'[i] = b \/ job'[i] = c
      BY <3>1
    <3> QED
      BY <1>2, <1>3, <3>1, <3>2
  <2> QED
    BY <1>7, <2>1, <2>2
<1>9. TypeOK'
  BY <1>5, <1>6, <1>8 DEF TypeOK, LearnReviewed
<1> QED
  BY <1>8, <1>9 DEF Pushes, a, l, w

\* A push keeps the windows and their tasks in order.
LEMMA PushInv ==
  ASSUME TypeOK, StoresInv, NEW w \in Windows, NEW l \in JobLines, l.id = written + 1,
         Idle, Remember(w, l), written' = written + 1, UNCHANGED <<up, disk, cleared>>,
         TypeOK', Pushes(w, l)
  PROVE  StoresInv'
<1>1. PICK n \in 1..Len(job') : /\ job'[n] = Task("append", w, l)
                                /\ \A i \in 1..Len(job') : i # n => job'[i].do \in NewTasks
  BY DEF Pushes
<1>2. /\ mem[w] \in Seq(JobLines) /\ disk[w] \in Seq(FileLines) /\ written \in Nat
      /\ cleared[w] \in Nat /\ WindowInv(w) /\ mem'[w] = LastN(Append(mem[w], l), Cap)
      /\ \A v \in Windows : v # w => mem'[v] = mem[v]
  BY DEF TypeOK, StoresInv, Remember
<1>3. Increasing(mem[w]) /\ Len(mem[w]) <= Cap /\ Below(mem[w], l.id)
  BY <1>2 DEF WindowInv
<1>4. /\ Len(mem'[w]) <= Cap /\ Increasing(mem'[w]) /\ In(l, mem'[w])
      /\ \A x : Above(x, mem[w]) /\ x < l.id => Above(x, mem'[w])
      /\ \A x : Below(mem[w], x) /\ l.id < x => Below(mem'[w], x)
  BY <1>2, <1>3, PushWindow
<1>5. /\ Readable(disk[w]) \in Seq(JobLines) /\ LoadWindow(disk[w]) \in Seq(JobLines)
      /\ Ends(LoadWindow(disk[w]), Readable(disk[w]))
  BY <1>2, LoadOf
<1>6. Below(LoadWindow(disk[w]), l.id)
  BY <1>2, <1>5, EndsHolds DEF WindowInv
<1>7. Covers(mem'[w], LoadWindow(disk[w]))
  BY <1>2, <1>3, <1>5, <1>6, CoversPush DEF WindowInv, Idle
<1>8. \A s \in Seq(JobLines), x \in Nat : Below(s, x) => Below(s, x + 1)
  BY LineOf, ElementOfSeq DEF Below
<1>9. WindowInv(w)'
  <2>1. Above(cleared[w], mem'[w])
    BY <1>2, <1>4 DEF WindowInv
  <2>2. Below(mem'[w], written + 1 + 1)
    BY <1>2, <1>4, <1>8 DEF WindowInv
  <2>3. Below(Readable(disk[w]), written + 1 + 1)
    BY <1>2, <1>5, <1>8 DEF WindowInv
  <2>4. cleared[w] <= written + 1
    BY <1>2 DEF WindowInv
  <2> QED
    BY <1>2, <1>4, <1>7, <2>1, <2>2, <2>3, <2>4 DEF WindowInv
<1>10. ASSUME NEW v \in Windows, v # w PROVE WindowInv(v)'
  <2>0. disk[v] \in Seq(FileLines)
    BY DEF TypeOK
  <2>1. /\ mem[v] \in Seq(JobLines) /\ Readable(disk[v]) \in Seq(JobLines)
        /\ cleared[v] \in Nat /\ WindowInv(v) /\ mem'[v] = mem[v] /\ disk'[v] = disk[v] /\ cleared'[v] = cleared[v]
    BY <1>2, <1>10, <2>0, LoadOf DEF TypeOK, StoresInv
  <2>a. Below(mem[v], written + 1) /\ Below(Readable(disk[v]), written + 1) /\ written + 1 \in Nat
    BY <1>2, <2>1 DEF WindowInv
  <2>2. Below(mem[v], written + 1 + 1) /\ Below(Readable(disk[v]), written + 1 + 1)
    BY <1>8, <2>1, <2>a
  <2>3. cleared[v] <= written + 1
    BY <1>2, <2>1 DEF WindowInv
  <2> QED
    BY <1>2, <2>1, <2>2, <2>3 DEF WindowInv
<1>11. \A i \in 1..Len(job') : i # n => job'[i].do \notin WindowTasks
  BY <1>1 DEF NewTasks, OtherTasks, WindowTasks
<1>12. Alone'
  BY <1>11 DEF Alone, WindowTasks
<1>13. ASSUME NEW i \in 1..Len(job') PROVE TaskInv(i)'
  <2>1. CASE i # n
    BY <1>11, <2>1 DEF TaskInv, WindowTasks
  <2>2. CASE i = n
    <3>1. job'[i].do = "append" /\ job'[i].window = w /\ job'[i].line = l
      BY <1>1, <2>2 DEF Task
    <3> QED
      BY <1>2, <1>4, <3>1 DEF TaskInv, WindowInv
  <2> QED
    BY <2>1, <2>2
<1> QED
  BY <1>9, <1>10, <1>12, <1>13 DEF StoresInv, Idle

-----------------------------------------------------------------------------
(* Appends and replacements *)

\* What a boot would load is not lost: it is still there, or Cap newer lines are.
Retains(w) ==
    \/ job = <<>> /\ disk'[w] = <<>>
    \/ Covers(LoadWindow(disk'[w]), LoadWindow(disk[w]))

LEMMA CoversItself ==
  ASSUME NEW s \in Seq(JobLines) PROVE Covers(s, s)
BY DEF Covers, In

\* A file its readers see a newer line in, or nothing new.
LEMMA FileGrows ==
  ASSUME NEW f \in Seq(FileLines), NEW g \in Seq(FileLines), NEW e \in JobLines,
         Readable(g) = Readable(f) \/ Readable(g) = Append(Readable(f), e),
         Increasing(Readable(f)), Below(Readable(f), e.id)
  PROVE  /\ Increasing(Readable(g))
         /\ \A x : Above(x, Readable(f)) /\ x < e.id => Above(x, Readable(g))
         /\ \A x : Below(Readable(f), x) /\ e.id < x => Below(Readable(g), x)
         /\ Covers(LoadWindow(g), LoadWindow(f))
         /\ \A m : Covers(m, LoadWindow(f)) /\ In(e, m) => Covers(m, LoadWindow(g))
<1>. DEFINE R == Readable(f)
            Q == Readable(g)
            L == LoadWindow(f)
            M == LoadWindow(g)
<1>1. /\ R \in Seq(JobLines) /\ L \in Seq(JobLines) /\ L = LastN(R, Cap) /\ Ends(L, R) /\ Len(L) <= Cap
      /\ Q \in Seq(JobLines) /\ M \in Seq(JobLines) /\ M = LastN(Q, Cap)
  BY LoadOf
<1>2. Increasing(L) /\ Below(L, e.id)
  BY <1>1, EndsHolds
<1>3. CASE Q = R
  BY <1>1, <1>3, CoversItself
<1>4. CASE Q = Append(R, e)
  <2>1. /\ Len(R) \in Nat /\ Len(Q) = Len(R) + 1
        /\ Q[Len(R) + 1] = e /\ \A i \in 1..Len(R) : Q[i] = R[i]
    BY <1>1, <1>4, LenProperties, AppendProperties
  <2>2. \A i : i \in 1..(Len(R) + 1) <=> (i \in 1..Len(R) \/ i = Len(R) + 1)
    BY <2>1
  <2>3. Increasing(Q)
    <3>1. ASSUME NEW i \in 1..Len(Q), NEW j \in 1..Len(Q), i < j PROVE Q[i].id < Q[j].id
      <4>. HIDE DEF Q, R
      <4>1. i \in 1..Len(R)
        BY <2>1, <3>1
      <4>2. j \in 1..Len(R) \/ j = Len(R) + 1
        BY <2>1, <2>2
      <4>3. Increasing(R) /\ Below(R, e.id)
        BY DEF R
      <4> QED
        BY <2>1, <3>1, <4>1, <4>2, <4>3 DEF Increasing, Below
    <3> QED
      BY <3>1 DEF Increasing
  <2>4. \A x : /\ Above(x, R) /\ x < e.id => Above(x, Q)
               /\ Below(R, x) /\ e.id < x => Below(Q, x)
    <3>. HIDE DEF Q, R
    <3> QED
      BY <2>1, <2>2 DEF Above, Below
  <2>5. Cap \in Nat \ {0}
    BY BoundsAssumption
  <2>6. M = LastN(Append(L, e), Cap)
    BY <1>1, <1>4, <2>5, LastNAppend
  <2>. HIDE DEF Q, R, L, M
  <2>7. Covers(M, L) /\ \A i \in 1..Len(M) : M[i] = e \/ In(M[i], L)
    BY <1>1, <1>2, <2>6, PushWindow
  <2>8. ASSUME NEW m, Covers(m, L), In(e, m), NEW i \in 1..Len(M)
        PROVE  In(M[i], m) \/ (Len(m) = Cap /\ Above(M[i].id, m))
    <3>1. CASE M[i] = e
      BY <2>8, <3>1
    <3>2. CASE In(M[i], L)
      <4>1. PICK j \in 1..Len(L) : L[j] = M[i]
        BY <3>2 DEF In
      <4> QED
        BY <2>8, <4>1 DEF Covers
    <3> QED
      BY <2>7, <3>1, <3>2
  <2>9. \A m : Covers(m, L) /\ In(e, m) => Covers(m, M)
    BY <2>8 DEF Covers
  <2> QED
    BY <2>3, <2>4, <2>7, <2>9 DEF Q, R, L, M
<1> QED
  BY <1>3, <1>4

\* An append, whatever it left of the line, with or without a replacement to follow.
LEMMA AppendOnto ==
  ASSUME TypeOK, StoresInv, up, job # <<>>,
         NEW w \in Windows, NEW e \in JobLines, NEW g \in Seq(FileLines), NEW p \in Seq(Tasks),
         job[1].do = "append", job[1].window = w, job[1].line = e,
         Readable(g) = Readable(disk[w]) \/ Readable(g) = Append(Readable(disk[w]), e),
         \A i \in 1..Len(p) : i = 1 /\ p[i].do = "replace",
         job' = p \o Tail(job), disk' = [disk EXCEPT ![w] = g],
         UNCHANGED <<up, mem, audit, written, trail, cleared>>, UNCHANGED learnVars
  PROVE  TypeOK' /\ StoresInv' /\ \A v \in Windows : Retains(v)
<1>1. 1 \in 1..Len(job) /\ job \in Seq(Tasks)
  BY Popped, ShortSeq DEF TypeOK
<1>2. disk[w] \in Seq(FileLines)
  BY DEF TypeOK
<1>3. TaskInv(1) /\ WindowInv(w)
  BY <1>1 DEF StoresInv
<1>4. In(e, mem[w]) /\ Below(Readable(disk[w]), e.id)
  BY <1>3 DEF TaskInv
<1>5. job' \in Seq(Tasks)
       /\ \A i \in 1..Len(job') :
            \/ i = 1 /\ job'[i].do = "replace"
            \/ i + (1 - Len(p)) \in 2..Len(job) /\ job'[i] = job[i + (1 - Len(p))]
  <2>1. /\ p \o Tail(job) \in Seq(Tasks)
        /\ \A i \in 1..Len(p \o Tail(job)) :
              \/ i \in 1..Len(p) /\ (p \o Tail(job))[i] = p[i]
              \/ i + (1 - Len(p)) \in 2..Len(job) /\ (p \o Tail(job))[i] = job[i + (1 - Len(p))]
    BY <1>1, Popped
  <2> QED
    BY <2>1
<1>6. TypeOK'
  <2>1. disk' \in [Windows -> Seq(FileLines)]
    BY DEF TypeOK
  <2> QED
    BY <1>5, <2>1 DEF TypeOK, learnVars
<1>7. disk'[w] = g /\ \A v \in Windows : v # w => disk'[v] = disk[v]
  BY DEF TypeOK
<1>8. Increasing(Readable(disk[w]))
  BY <1>3 DEF WindowInv
<1>9. /\ Increasing(Readable(g))
      /\ \A x : Above(x, Readable(disk[w])) /\ x < e.id => Above(x, Readable(g))
      /\ \A x : Below(Readable(disk[w]), x) /\ e.id < x => Below(Readable(g), x)
      /\ Covers(LoadWindow(g), LoadWindow(disk[w]))
      /\ \A m : Covers(m, LoadWindow(disk[w])) /\ In(e, m) => Covers(m, LoadWindow(g))
  BY <1>2, <1>4, <1>8, FileGrows
<1>10. cleared[w] < e.id /\ e.id < written + 1
  <2>1. PICK i \in 1..Len(mem[w]) : mem[w][i] = e
    BY <1>4 DEF In
  <2> QED
    BY <1>3, <2>1 DEF WindowInv, Above, Below
<1>11. WindowInv(w)'
  <2>1. Covers(mem[w], LoadWindow(g))
    BY <1>3, <1>4, <1>9 DEF WindowInv
  <2>2. Above(cleared[w], Readable(g)) /\ Below(Readable(g), written + 1)
    BY <1>3, <1>9, <1>10 DEF WindowInv
  <2> QED
    BY <1>3, <1>7, <1>9, <2>1, <2>2 DEF WindowInv
<1>12. ASSUME NEW v \in Windows, v # w PROVE WindowInv(v)'
  BY <1>7, <1>12 DEF WindowInv, StoresInv
<1>13. \A v \in Windows : Retains(v)
  <2>1. ASSUME NEW v \in Windows, v # w PROVE Covers(LoadWindow(disk'[v]), LoadWindow(disk[v]))
    <3>1. disk'[v] = disk[v] /\ LoadWindow(disk[v]) \in Seq(JobLines)
      BY <1>7, <2>1, LoadOf DEF TypeOK
    <3> QED
      BY <3>1, CoversItself
  <2> QED
    BY <1>7, <1>9, <2>1 DEF Retains
<1>14. \A i \in 2..Len(job) : i \in 1..Len(job) /\ job[i].do \notin WindowTasks
  <2>1. Len(job) \in Nat
    BY LenProperties DEF TypeOK
  <2>2. \A i \in 2..Len(job) : i \in 1..Len(job) /\ i # 1
    BY <2>1
  <2> QED
    BY <1>1, <2>2 DEF StoresInv, Alone
<1>15. \A i \in 1..Len(job') : (i = 1 /\ job'[i].do = "replace") \/ job'[i].do \notin WindowTasks
  BY <1>5, <1>14
<1>16. Alone'
  <2>1. "append" \in WindowTasks /\ "replace" \in WindowTasks
    BY DEF WindowTasks
  <2>2. ASSUME NEW i \in 1..Len(job'), NEW j \in 1..Len(job'),
               job'[i].do \in {"append", "replace"}, job'[j].do \in WindowTasks
        PROVE  i = j
    BY <1>15, <2>1, <2>2
  <2> QED
    BY <2>2 DEF Alone
<1>17. \A i \in 1..Len(job') : TaskInv(i)'
  BY <1>15 DEF TaskInv, WindowTasks
<1>18. \A v \in Windows : WindowInv(v)'
  BY <1>11, <1>12
<1> QED
  BY <1>6, <1>13, <1>16, <1>17, <1>18 DEF StoresInv

LEMMA AppendStepHolds ==
  ASSUME TypeOK, StoresInv, AppendStep, UNCHANGED learnVars
  PROVE  TypeOK' /\ StoresInv' /\ \A v \in Windows : Retains(v)
<1>1. /\ up /\ job # <<>> /\ Head(job).do = "append"
      /\ UNCHANGED <<up, mem, audit, written, trail, cleared>>
  BY DEF AppendStep, NextTask
<1>2. Head(job) \in Tasks /\ Head(job) = job[1]
  BY <1>1, Popped, ShortSeq DEF TypeOK
<1>3. PICK w \in Windows : w = Head(job).window
  BY <1>1, <1>2, TaskOf DEF WindowTasks
<1>4. PICK e \in JobLines : e = Head(job).line
  BY <1>1, <1>2, TaskOf
<1>5. PICK r \in AppendRuntimeLine(disk[w], e) :
        /\ disk' = [disk EXCEPT ![w] = r.file]
        /\ job' = (IF r.ok /\ Len(r.file) > FileMax THEN <<Task("replace", w, e)>> ELSE <<>>) \o Tail(job)
  BY <1>3, <1>4 DEF AppendStep
<1>6. disk[w] \in Seq(FileLines)
  BY DEF TypeOK
<1>7. /\ r.file \in Seq(FileLines)
      /\ Readable(r.file) = Readable(disk[w]) \/ Readable(r.file) = Append(Readable(disk[w]), e)
  <2>1. r.file = Put(disk[w], e) \/ r.file = disk[w] \/ r.file = Tear(disk[w])
    BY AppendOutcomes
  <2>2. /\ Put(disk[w], e) \in Seq(FileLines) /\ Tear(disk[w]) \in Seq(FileLines)
        /\ \/ Readable(Put(disk[w], e)) = Readable(disk[w])
           \/ Readable(Put(disk[w], e)) = Append(Readable(disk[w]), e)
        /\ Readable(Tear(disk[w])) = Readable(disk[w])
    BY <1>6, PutOf
  <2> QED
    BY <1>6, <2>1, <2>2
<1>. DEFINE a == Task("replace", w, e)
<1>8. a \in Tasks /\ a.do = "replace"
  BY TaskOf DEF WindowTasks
<1>9. PICK p \in {<<>>, <<a>>} : job' = p \o Tail(job)
  BY <1>5
<1>. HIDE DEF a
<1>10. p \in Seq(Tasks) /\ \A i \in 1..Len(p) : i = 1 /\ p[i].do = "replace"
  <2>1. CASE p = <<>>
    BY <2>1, ShortSeq
  <2>2. CASE p = <<a>>
    <3>1. p \in Seq(Tasks) /\ Len(p) = 1 /\ p[1] = a
      BY <1>8, <2>2, ShortSeq
    <3> QED
      BY <1>8, <3>1
  <2> QED
    BY <2>1, <2>2
<1> QED
  BY <1>1, <1>2, <1>3, <1>4, <1>5, <1>7, <1>9, <1>10, AppendOnto

\* Behind a task on a window there is none but the answer to a clear.
LEMMA Behind ==
  ASSUME TypeOK, StoresInv, job # <<>>, job[1].do \in WindowTasks, job' = Tail(job)
  PROVE  /\ job' \in Seq(Tasks) /\ job[1] \in Tasks /\ job[1] = Head(job)
         /\ \A i \in 1..Len(job') : i + 1 \in 1..Len(job) /\ job'[i] = job[i + 1]
         /\ \A i \in 1..Len(job') : job'[i].do \notin {"append", "replace"}
         /\ job[1].do \in {"append", "replace"} =>
              \A i \in 1..Len(job') : job'[i].do \notin WindowTasks
         /\ Alone'
<1>1. /\ job' \in Seq(Tasks) /\ job[1] \in Tasks /\ job[1] = Head(job) /\ 1 \in 1..Len(job)
      /\ Carried(1, 2, {}) /\ Len(job) \in Nat
  BY GoesOnOnly, LenProperties DEF TypeOK
<1>2. ASSUME NEW i \in 1..Len(job')
      PROVE  i + 1 \in 1..Len(job) /\ i + 1 # 1 /\ job'[i] = job[i + 1]
  BY <1>1 DEF Carried
<1>3. ASSUME NEW i \in 1..Len(job') PROVE job'[i].do \notin {"append", "replace"}
  BY <1>1, <1>2 DEF StoresInv, Alone
<1>4. ASSUME job[1].do \in {"append", "replace"}, NEW i \in 1..Len(job') PROVE job'[i].do \notin WindowTasks
  BY <1>1, <1>2, <1>4 DEF StoresInv, Alone
<1>5. Alone'
  BY <1>3 DEF Alone
<1> QED
  BY <1>1, <1>2, <1>3, <1>4, <1>5

\* ... and a replacement leaves none.
LEMMA ReplaceRest ==
  ASSUME TypeOK, StoresInv, job # <<>>, job[1].do = "replace", job' = Tail(job)
  PROVE  Alone' /\ \A i \in 1..Len(job') : TaskInv(i)'
<1>1. /\ \A i \in 1..Len(job') : job'[i].do \notin WindowTasks
      /\ Alone'
  BY Behind DEF WindowTasks
<1> QED
  BY <1>1 DEF TaskInv, WindowTasks

\* Every other step leaves the files alone or empties one.
LEMMA SameRetains ==
  ASSUME TypeOK, disk' = disk PROVE \A v \in Windows : Retains(v)
BY LoadOf, CoversItself DEF TypeOK, Retains

LEMMA ReplaceOnto ==
  ASSUME TypeOK, StoresInv, up, job # <<>>, job[1].do = "replace", job' = Tail(job),
         NEW w \in Windows, NEW g \in {disk[w], mem[w]}, disk' = [disk EXCEPT ![w] = g],
         UNCHANGED <<up, mem, audit, written, trail, cleared>>, UNCHANGED learnVars
  PROVE  TypeOK' /\ StoresInv' /\ \A v \in Windows : Retains(v)
<1>1. job' \in Seq(Tasks) /\ 1 \in 1..Len(job) /\ Carried(1, 2, {})
  BY GoesOnOnly
<1>2. /\ disk[w] \in Seq(FileLines) /\ mem[w] \in Seq(JobLines) /\ written \in Nat /\ cleared[w] \in Nat
  BY DEF TypeOK
<1>3. WindowInv(w) /\ Len(mem[w]) <= Cap
  BY DEF StoresInv, WindowInv
<1>4. mem[w] \in Seq(FileLines) /\ Readable(mem[w]) = mem[w] /\ LoadWindow(mem[w]) = mem[w]
  BY <1>2, <1>3, LegibleFile
<1>5. TypeOK'
  <2>1. disk' \in [Windows -> Seq(FileLines)]
    BY <1>4 DEF TypeOK
  <2> QED
    BY <1>1, <2>1 DEF TypeOK, learnVars
<1>6. disk'[w] = g /\ \A v \in Windows : v # w => disk'[v] = disk[v]
  BY DEF TypeOK
<1>7. CASE g = disk[w]
  <2>1. disk' = disk
    BY <1>7 DEF TypeOK
  <2>2. \A v \in Windows : WindowInv(v)'
    BY <2>1 DEF WindowInv, StoresInv
  <2> QED
    BY <2>1, <2>2, <1>1, <1>5, SameRetains, ReplaceRest DEF StoresInv
<1>8. CASE g = mem[w]
  <2>1. WindowInv(w)'
    <3>1. Covers(mem[w], mem[w])
      BY <1>2, CoversItself
    <3> QED
      BY <1>3, <1>4, <1>6, <1>8, <3>1 DEF WindowInv
  <2>2. ASSUME NEW v \in Windows, v # w PROVE WindowInv(v)'
    BY <1>6, <2>2 DEF WindowInv, StoresInv
  <2>3. \A v \in Windows : Retains(v)
    <3>1. Covers(LoadWindow(disk'[w]), LoadWindow(disk[w]))
      BY <1>3, <1>4, <1>6, <1>8 DEF WindowInv
    <3>2. ASSUME NEW v \in Windows, v # w PROVE Covers(LoadWindow(disk'[v]), LoadWindow(disk[v]))
      <4>1. disk'[v] = disk[v] /\ LoadWindow(disk[v]) \in Seq(JobLines)
        BY <1>6, <3>2, LoadOf DEF TypeOK
      <4> QED
        BY <4>1, CoversItself
    <3> QED
      BY <3>1, <3>2 DEF Retains
  <2> QED
    BY <1>1, <1>5, <2>1, <2>2, <2>3, ReplaceRest DEF StoresInv
<1> QED
  BY <1>7, <1>8

LEMMA ReplaceStepHolds ==
  ASSUME TypeOK, StoresInv, ReplaceStep, UNCHANGED learnVars
  PROVE  TypeOK' /\ StoresInv' /\ \A v \in Windows : Retains(v)
<1>1. /\ up /\ job # <<>> /\ Head(job).do = "replace" /\ job' = Tail(job)
      /\ UNCHANGED <<up, mem, audit, written, trail, cleared>>
  BY DEF ReplaceStep, NextTask
<1>2. Head(job) \in Tasks /\ Head(job) = job[1]
  BY <1>1, Popped, ShortSeq DEF TypeOK
<1>3. PICK w \in Windows : w = Head(job).window
  BY <1>1, <1>2, TaskOf DEF WindowTasks
<1>4. PICK r \in WriteAtomic(disk[w], mem[w]) : disk' = [disk EXCEPT ![w] = r.file]
  BY <1>3 DEF ReplaceStep
<1>5. r.file \in {disk[w], mem[w]}
  BY DEF WriteAtomic
<1> QED
  BY <1>1, <1>2, <1>4, <1>5, ReplaceOnto

LEMMA ForgetStepHolds ==
  ASSUME TypeOK, StoresInv, ForgetStep, UNCHANGED learnVars
  PROVE  TypeOK' /\ StoresInv' /\ \A v \in Windows : Retains(v)
<1>1. /\ up /\ job # <<>> /\ Head(job).do = "forget" /\ job' = Tail(job)
      /\ UNCHANGED <<up, disk, audit, written, trail, cleared, left>>
  BY DEF ForgetStep, NextTask
<1>2. Head(job) \in Tasks /\ Head(job) = job[1] /\ 1 \in 1..Len(job)
  BY <1>1, Popped, ShortSeq DEF TypeOK
<1>3. PICK w \in Windows : w = Head(job).window
  BY <1>1, <1>2, TaskOf DEF WindowTasks
<1>4. mem' = [mem EXCEPT ![w] = <<>>]
  BY <1>3 DEF ForgetStep
<1>5. /\ job' \in Seq(Tasks) /\ Alone'
      /\ \A i \in 1..Len(job') : i + 1 \in 1..Len(job) /\ job'[i] = job[i + 1]
      /\ \A i \in 1..Len(job') : job'[i].do \notin {"append", "replace"}
  BY <1>1, <1>2, Behind DEF WindowTasks
<1>6. mem'[w] = <<>> /\ \A v \in Windows : v # w => mem'[v] = mem[v]
  BY <1>4 DEF TypeOK
<1>7. TypeOK'
  <2>1. mem' \in [Windows -> Seq(JobLines)]
    BY <1>4, ShortSeq DEF TypeOK
  <2> QED
    BY <1>1, <1>5, <2>1 DEF TypeOK, learnVars
<1>8. disk[w] = <<>>
  <2>1. TaskInv(1)
    BY <1>2 DEF StoresInv
  <2> QED
    BY <1>1, <1>2, <1>3, <2>1 DEF TaskInv
<1>9. WindowInv(w)'
  <2>1. WindowInv(w)
    BY DEF StoresInv
  <2> QED
    BY <1>1, <1>6, <1>8, <2>1, EmptyWindow DEF WindowInv
<1>10. ASSUME NEW v \in Windows, v # w PROVE WindowInv(v)'
  BY <1>1, <1>6, <1>10 DEF WindowInv, StoresInv
<1>11. ASSUME NEW i \in 1..Len(job') PROVE TaskInv(i)'
  <2>1. TaskInv(i + 1) /\ job'[i] = job[i + 1] /\ job[i + 1].do \notin {"append", "replace"} /\ job[i + 1] \in Tasks
    BY <1>5, ElementOfSeq DEF StoresInv, TypeOK
  <2>2. job[i + 1].do = "answer" => job[i + 1].window \in Windows
    BY <2>1, TaskOf DEF WindowTasks
  <2>3. ASSUME job[i + 1].do = "answer"
        PROVE  LET v == job[i + 1].window
               IN  job[i + 1].line.id <= written /\ disk[v] = <<>> /\ mem'[v] = <<>>
    <3>1. CASE job[i + 1].window = w
      BY <1>6, <2>1, <2>3, <3>1 DEF TaskInv
    <3>2. CASE job[i + 1].window # w
      BY <1>2, <1>3, <1>6, <2>1, <2>2, <2>3, <3>2 DEF TaskInv
    <3> QED
      BY <3>1, <3>2
  <2> QED
    BY <1>1, <2>1, <2>3 DEF TaskInv
<1>12. \A v \in Windows : Retains(v)
  BY <1>1, SameRetains
<1> QED
  BY <1>1, <1>5, <1>7, <1>9, <1>10, <1>11, <1>12 DEF StoresInv

LEMMA AnswerStepHolds ==
  ASSUME TypeOK, StoresInv, AnswerStep, UNCHANGED learnVars
  PROVE  TypeOK' /\ StoresInv' /\ \A v \in Windows : Retains(v)
<1>1. /\ up /\ job # <<>> /\ Head(job).do = "answer" /\ job' = Tail(job)
      /\ UNCHANGED <<up, mem, disk, audit, written, trail, left>>
  BY DEF AnswerStep, NextTask
<1>2. Head(job) \in Tasks /\ Head(job) = job[1] /\ 1 \in 1..Len(job)
  BY <1>1, Popped, ShortSeq DEF TypeOK
<1>3. PICK w \in Windows : w = Head(job).window
  BY <1>1, <1>2, TaskOf DEF WindowTasks
<1>4. PICK n \in Nat : n = Head(job).line.id
  BY <1>2, TaskOf, LineOf
<1>5. cleared' = [cleared EXCEPT ![w] = n]
  BY <1>3, <1>4 DEF AnswerStep
<1>6. /\ job' \in Seq(Tasks) /\ Alone'
      /\ \A i \in 1..Len(job') : i + 1 \in 1..Len(job) /\ job'[i] = job[i + 1]
      /\ \A i \in 1..Len(job') : job'[i].do \notin {"append", "replace"}
  BY <1>1, <1>2, Behind DEF WindowTasks
<1>7. cleared'[w] = n /\ \A v \in Windows : v # w => cleared'[v] = cleared[v]
  BY <1>5 DEF TypeOK
<1>8. TypeOK'
  <2>1. cleared' \in [Windows -> Nat]
    BY <1>5 DEF TypeOK
  <2> QED
    BY <1>1, <1>6, <2>1 DEF TypeOK, learnVars
<1>9. disk[w] = <<>> /\ mem[w] = <<>> /\ n <= written
  <2>1. TaskInv(1)
    BY <1>2 DEF StoresInv
  <2> QED
    BY <1>1, <1>2, <1>3, <1>4, <2>1 DEF TaskInv
<1>10. WindowInv(w)'
  BY <1>1, <1>7, <1>9, EmptyWindow DEF WindowInv
<1>11. ASSUME NEW v \in Windows, v # w PROVE WindowInv(v)'
  BY <1>1, <1>7, <1>11 DEF WindowInv, StoresInv
<1>12. ASSUME NEW i \in 1..Len(job') PROVE TaskInv(i)'
  <2>1. TaskInv(i + 1) /\ job'[i] = job[i + 1] /\ job[i + 1].do \notin {"append", "replace"}
    BY <1>6 DEF StoresInv
  <2> QED
    BY <1>1, <1>2, <2>1 DEF TaskInv
<1>13. \A v \in Windows : Retains(v)
  BY <1>1, SameRetains
<1> QED
  BY <1>1, <1>6, <1>8, <1>10, <1>11, <1>12, <1>13 DEF StoresInv

LEMMA ClearJobOf ==
  ASSUME NEW w \in Windows, written \in Nat, NEW j, j = ClearJob(w)
  PROVE  /\ j \in Seq(Tasks) /\ Len(j) \in Nat /\ 1 \in 1..Len(j) /\ j[1].do = "forget" /\ j[1].window = w
         /\ \A i \in 1..Len(j) : \/ j[i].do = "forget" /\ j[i].window = w
                                 \/ j[i].do = "answer" /\ j[i].window = w /\ j[i].line.id = written
                                 \/ j[i].do = "audit"
<1>. DEFINE l == Line("clear", written)
<1>1. l \in JobLines /\ l.id = written
  BY LineOf
<1>. HIDE DEF l
<1>. DEFINE a == Task("forget", w, l)
            b == Task("audit", w, l)
            c == Task("answer", w, l)
<1>2. /\ a \in Tasks /\ b \in Tasks /\ c \in Tasks
  BY <1>1, TaskOf DEF WindowTasks, OtherTasks
<1>3. /\ a.do = "forget" /\ a.window = w /\ b.do = "audit"
      /\ c.do = "answer" /\ c.window = w /\ c.line.id = written
  BY <1>1 DEF Task
<1>4. ClearJob(w) = <<a>> \o <<b>> \o <<c>> \/ ClearJob(w) = <<a>> \o <<>> \o <<c>>
  BY DEF ClearJob, l
<1>. HIDE DEF a, b, c
<1>5. <<a>> \o <<b>> = <<a, b>> /\ <<a>> \o <<>> = <<a>>
  BY <1>2, Joined
<1>6. <<a, b>> \o <<c>> = <<a, b, c>>
  BY <1>2, JoinedThree
<1>7. <<a>> \o <<c>> = <<a, c>>
  BY <1>2, Joined
<1>8. j = <<a, b, c>> \/ j = <<a, c>>
  BY <1>4, <1>5, <1>6, <1>7
<1>9. CASE j = <<a, b, c>>
  <2>1. j \in Seq(Tasks) /\ Len(j) = 3 /\ j[1] = a /\ j[2] = b /\ j[3] = c
    BY <1>2, <1>9
  <2>2. \A i \in 1..Len(j) : i = 1 \/ i = 2 \/ i = 3
    BY <2>1
  <2> QED
    BY <1>3, <2>1, <2>2
<1>10. CASE j = <<a, c>>
  <2>1. j \in Seq(Tasks) /\ Len(j) = 2 /\ j[1] = a /\ j[2] = c
    BY <1>2, <1>10
  <2>2. \A i \in 1..Len(j) : i = 1 \/ i = 2
    BY <2>1
  <2> QED
    BY <1>3, <2>1, <2>2
<1> QED
  BY <1>8, <1>9, <1>10

LEMMA ClearHolds ==
  ASSUME TypeOK, StoresInv, NEW w \in Windows, Clear(w), UNCHANGED learnVars
  PROVE  TypeOK' /\ StoresInv' /\ \A v \in Windows : Retains(v)
<1>1. /\ up /\ job = <<>>
      /\ UNCHANGED <<up, mem, audit, written, trail, cleared>>
  BY DEF Clear, Idle
<1>2. PICK r \in Truncate(disk[w]) :
        /\ disk' = [disk EXCEPT ![w] = r.file]
        /\ job' = IF r.ok THEN ClearJob(w) ELSE <<>>
  BY DEF Clear
<1>3. r.file \in {disk[w], <<>>} /\ (r.ok => r.file = <<>>)
  BY DEF Truncate
<1>4. /\ disk[w] \in Seq(FileLines) /\ <<>> \in Seq(FileLines)
      /\ disk'[w] = r.file /\ \A v \in Windows : v # w => disk'[v] = disk[v]
  BY <1>2, ShortSeq DEF TypeOK
<1>. DEFINE Good == /\ job' \in Seq(Tasks) /\ Alone' /\ \A i \in 1..Len(job') : TaskInv(i)'
<1>5. ASSUME ~r.ok PROVE Good
  <2>1. job' = <<>>
    BY <1>2, <1>5
  <2>2. job' \in Seq(Tasks) /\ Len(job') = 0
    BY <2>1, ShortSeq
  <2>3. \A i \in 1..Len(job') : FALSE
    BY <2>2
  <2>4. Alone' /\ \A i \in 1..Len(job') : TaskInv(i)'
    BY <2>3 DEF Alone
  <2> QED
    BY <2>2, <2>4
<1>6. ASSUME r.ok PROVE Good
  <2>1. disk'[w] = <<>>
    BY <1>3, <1>4, <1>6
  <2>2. written \in Nat /\ written' = written
    BY <1>1 DEF TypeOK
  <2>3. job' = ClearJob(w)
    BY <1>2, <1>6
  <2>4. /\ job' \in Seq(Tasks) /\ Len(job') \in Nat /\ 1 \in 1..Len(job')
        /\ job'[1].do = "forget" /\ job'[1].window = w
        /\ \A i \in 1..Len(job') : \/ job'[i].do = "forget" /\ job'[i].window = w
                                   \/ job'[i].do = "answer" /\ job'[i].window = w /\ job'[i].line.id = written
                                   \/ job'[i].do = "audit"
    BY <2>2, <2>3, ClearJobOf
  <2>5. Alone'
    BY <2>4 DEF Alone
  <2>6. \A i \in 1..Len(job') : TaskInv(i)'
    <3>1. TAKE i \in 1..Len(job')
    <3>2. CASE job'[i].do = "forget" /\ job'[i].window = w
      BY <2>1, <3>2 DEF TaskInv
    <3>3. CASE job'[i].do = "answer" /\ job'[i].window = w /\ job'[i].line.id = written
      BY <2>1, <2>2, <2>4, <3>3 DEF TaskInv
    <3>4. CASE job'[i].do = "audit"
      BY <3>4 DEF TaskInv
    <3> QED
      BY <2>4, <3>2, <3>3, <3>4
  <2> QED
    BY <2>4, <2>5, <2>6
<1>7. Good
  BY <1>5, <1>6
<1>8. TypeOK'
  <2>1. disk' \in [Windows -> Seq(FileLines)]
    BY <1>2, <1>3, <1>4 DEF TypeOK
  <2> QED
    BY <1>1, <1>7, <2>1 DEF TypeOK, learnVars
<1>9. ASSUME NEW v \in Windows PROVE WindowInv(v)'
  <2>1. WindowInv(v)
    BY DEF StoresInv
  <2>2. CASE disk'[v] = disk[v]
    BY <1>1, <2>1, <2>2 DEF WindowInv
  <2>3. CASE disk'[v] = <<>>
    BY <1>1, <2>1, <2>3, EmptyWindow DEF WindowInv
  <2> QED
    BY <1>3, <1>4, <2>2, <2>3
<1>10. ASSUME NEW v \in Windows PROVE Retains(v)
  <2>1. CASE disk'[v] = disk[v]
    <3>1. LoadWindow(disk[v]) \in Seq(JobLines)
      BY LoadOf DEF TypeOK
    <3> QED
      BY <2>1, <3>1, CoversItself DEF Retains
  <2>2. CASE disk'[v] = <<>>
    BY <1>1, <2>2 DEF Retains
  <2> QED
    BY <1>3, <1>4, <2>1, <2>2
<1> QED
  BY <1>1, <1>7, <1>8, <1>9, <1>10 DEF StoresInv

LEMMA NoTasks ==
  ASSUME NEW j, j = <<>>
  PROVE  j \in Seq(Tasks) /\ \A i \in 1..Len(j) : FALSE
BY ShortSeq

LEMMA CrashHolds ==
  ASSUME TypeOK, StoresInv, Crash
  PROVE  TypeOK' /\ StoresInv' /\ \A v \in Windows : Retains(v)
<1>1. /\ up' = FALSE /\ job' = <<>> /\ mem' = [w \in Windows |-> <<>>]
      /\ UNCHANGED <<disk, audit, written, trail, cleared, file, now, since, fresh, forged, foreign, alien>>
      /\ entries' = Nothing /\ used' = 0 /\ clean' = 0
      /\ asker' = [a \in Askers |-> Nobody] /\ revoker' = [r \in Revokers |-> NoRequest]
  BY DEF Crash, CrashStores
<1>2. job' \in Seq(Tasks) /\ \A i \in 1..Len(job') : FALSE
  BY <1>1, NoTasks
<1>3. mem' \in [Windows -> Seq(JobLines)]
  BY <1>1, ShortSeq
<1>4. TypeOK'
  BY <1>1, <1>2, <1>3, NothingOf DEF TypeOK
<1>5. ASSUME NEW v \in Windows PROVE WindowInv(v)'
  BY <1>1, EmptyWindow DEF WindowInv, StoresInv
<1>6. Alone'
  BY <1>2 DEF Alone
<1>7. \A v \in Windows : Retains(v)
  BY <1>1, SameRetains
<1> QED
  BY <1>1, <1>2, <1>4, <1>5, <1>6, <1>7 DEF StoresInv

LEMMA LoadLearningOf ==
  ASSUME TypeOK, NEW es \in LoadLearning
  PROVE  /\ es \in Tables
         /\ file \in {NoFile, Garbage} => DOMAIN es = {}
         /\ file \notin {NoFile, Garbage} =>
              DOMAIN es \subseteq DOMAIN file /\ \A k \in DOMAIN es : es[k] = file[k]
<1>1. CASE file \in {NoFile, Garbage}
  BY <1>1, NothingOf DEF LoadLearning
<1>2. CASE file \notin {NoFile, Garbage}
  <2>1. file \in Tables /\ es \in EvictLearning(Validated(file), now)
    BY <1>2 DEF LoadLearning, TypeOK
  <2>. DEFINE K == {k \in DOMAIN file : file[k].last <= now}
  <2>2. K \in SUBSET (DOMAIN file) /\ Validated(file) = Restrict(file, K)
    BY DEF Validated
  <2>. HIDE DEF K
  <2>3. /\ Validated(file) \in Tables /\ DOMAIN Validated(file) = K
        /\ \A k \in K : Validated(file)[k] = file[k]
    BY <2>1, <2>2, RestrictOf
  <2>4. es \in Tables /\ DOMAIN es \subseteq K /\ \A k \in DOMAIN es : es[k] = Validated(file)[k]
    BY <2>1, <2>3, EvictOf
  <2> QED
    BY <1>2, <2>2, <2>3, <2>4
<1> QED
  BY <1>1, <1>2

LEMMA StartHolds ==
  ASSUME TypeOK, StoresInv, Start
  PROVE  TypeOK' /\ StoresInv' /\ \A v \in Windows : Retains(v)
<1>1. /\ ~up /\ up' = TRUE /\ mem' = [w \in Windows |-> LoadWindow(disk[w])]
      /\ UNCHANGED <<disk, audit, job, written, trail, cleared, file, now, asker, revoker, used, since, alien, clean>>
      /\ entries' \in LoadLearning /\ fresh' = since /\ forged' = (forged \/ alien) /\ foreign' = FALSE
  BY DEF Start, LoadRuntimeStores
<1>2. job = <<>> /\ job' = <<>>
  BY <1>1 DEF StoresInv
<1>3. job' \in Seq(Tasks) /\ \A i \in 1..Len(job') : FALSE
  BY <1>2, NoTasks
<1>4. entries' \in Tables
  BY <1>1, LoadLearningOf
<1>5. mem' \in [Windows -> Seq(JobLines)]
  BY <1>1, LoadOf DEF TypeOK
<1>6. TypeOK'
  BY <1>1, <1>3, <1>4, <1>5 DEF TypeOK
<1>7. ASSUME NEW v \in Windows PROVE WindowInv(v)'
  <2>1. WindowInv(v) /\ disk[v] \in Seq(FileLines) /\ mem'[v] = LoadWindow(disk[v])
    BY <1>1 DEF StoresInv, TypeOK
  <2>2. /\ Readable(disk[v]) \in Seq(JobLines) /\ LoadWindow(disk[v]) \in Seq(JobLines)
        /\ Ends(LoadWindow(disk[v]), Readable(disk[v])) /\ Len(LoadWindow(disk[v])) <= Cap
    BY <2>1, LoadOf
  <2>3. /\ Increasing(LoadWindow(disk[v])) /\ Above(cleared[v], LoadWindow(disk[v]))
        /\ Below(LoadWindow(disk[v]), written + 1)
    BY <2>1, <2>2, EndsHolds DEF WindowInv
  <2>4. Covers(LoadWindow(disk[v]), LoadWindow(disk[v]))
    BY <2>2, CoversItself
  <2> QED
    BY <1>1, <2>1, <2>2, <2>3, <2>4 DEF WindowInv
<1>8. Alone'
  BY <1>3 DEF Alone
<1>9. \A v \in Windows : Retains(v)
  BY <1>1, SameRetains
<1> QED
  BY <1>1, <1>3, <1>6, <1>7, <1>8, <1>9 DEF StoresInv

-----------------------------------------------------------------------------
(* The audit and the history of the attempts to append to it *)

\* Spliced and Legible of any history of attempts.
SplicedIn(t, i) ==
    \E j \in 1..i - 1 : t[j].how = "torn" /\ \A k \in j + 1..i - 1 : t[k].how = "refused"
LinesOf(t) == [i \in 1..Len(t) |-> t[i].line]
Lasting(t) == {i \in 1..Len(t) : t[i].how = "wrote" /\ ~SplicedIn(t, i)}
LegibleIn(t) == Kept(LinesOf(t), Lasting(t))

LEMMA SplicedGrows ==
  ASSUME NEW t \in Seq(Attempts), NEW x \in Attempts
  PROVE  /\ \A i \in 1..(Len(t) + 1) : SplicedIn(Append(t, x), i) <=> SplicedIn(t, i)
         /\ SplicedIn(Append(t, x), Len(t) + 2)
              <=> (x.how = "torn" \/ (x.how = "refused" /\ SplicedIn(t, Len(t) + 1)))
<1>. DEFINE L == Len(t)
            u == Append(t, x)
<1>1. /\ L \in Nat /\ u[L + 1] = x /\ \A i \in 1..L : u[i] = t[i]
  BY LenProperties, AppendProperties
<1>. HIDE DEF u, L
<1>2. ASSUME NEW i \in 1..(L + 1) PROVE SplicedIn(u, i) <=> SplicedIn(t, i)
  <2>1. \A j \in 1..i - 1 : u[j] = t[j] /\ \A k \in j + 1..i - 1 : u[k] = t[k]
    BY <1>1
  <2> QED
    BY <2>1 DEF SplicedIn
<1>3. ASSUME x.how = "torn" PROVE SplicedIn(u, L + 2)
  <2>1. L + 1 \in 1..(L + 2) - 1 /\ u[L + 1].how = "torn"
    BY <1>1, <1>3
  <2>2. \A k \in (L + 1) + 1..(L + 2) - 1 : FALSE
    BY <1>1
  <2> QED
    BY <2>1, <2>2 DEF SplicedIn
<1>4. ASSUME x.how = "refused", SplicedIn(t, L + 1) PROVE SplicedIn(u, L + 2)
  <2>1. PICK j \in 1..L : t[j].how = "torn" /\ \A k \in j + 1..L : t[k].how = "refused"
    <3>1. (L + 1) - 1 = L
      BY <1>1
    <3> QED
      BY <1>4, <3>1 DEF SplicedIn
  <2>2. j \in 1..(L + 2) - 1 /\ u[j].how = "torn"
    BY <1>1, <2>1
  <2>3. ASSUME NEW k \in j + 1..(L + 2) - 1 PROVE u[k].how = "refused"
    <3>1. k = L + 1 \/ (k \in j + 1..L /\ k \in 1..L)
      BY <1>1
    <3> QED
      BY <1>1, <1>4, <2>1, <3>1
  <2> QED
    BY <2>2, <2>3 DEF SplicedIn
<1>5. ASSUME SplicedIn(u, L + 2)
      PROVE  x.how = "torn" \/ (x.how = "refused" /\ SplicedIn(t, L + 1))
  <2>1. PICK j \in 1..(L + 1) : u[j].how = "torn" /\ \A k \in j + 1..(L + 1) : u[k].how = "refused"
    <3>1. (L + 2) - 1 = L + 1
      BY <1>1
    <3> QED
      BY <1>5, <3>1 DEF SplicedIn
  <2>2. CASE j = L + 1
    BY <1>1, <2>1, <2>2
  <2>3. CASE j # L + 1
    <3>1. j \in 1..L /\ L + 1 \in j + 1..(L + 1) /\ (L + 1) - 1 = L
      BY <1>1, <2>3
    <3>2. x.how = "refused" /\ t[j].how = "torn"
      BY <1>1, <2>1, <3>1
    <3>3. \A k \in j + 1..L : k \in 1..L /\ k \in j + 1..(L + 1)
      BY <1>1, <3>1
    <3>4. \A k \in j + 1..L : t[k].how = "refused"
      BY <1>1, <2>1, <3>3
    <3>5. SplicedIn(t, L + 1)
      BY <3>1, <3>2, <3>4 DEF SplicedIn
    <3> QED
      BY <3>2, <3>5
  <2> QED
    BY <2>2, <2>3
<1> QED
  BY <1>2, <1>3, <1>4, <1>5 DEF u, L

\* A line stays legible for as long as it is remembered.
LEMMA LegibleGrows ==
  ASSUME NEW t \in Seq(Attempts), NEW x \in Attempts
  PROVE  /\ LegibleIn(t) \in Seq(JobLines)
         /\ LegibleIn(Append(t, x)) = IF x.how = "wrote" /\ ~SplicedIn(t, Len(t) + 1)
                                        THEN Append(LegibleIn(t), x.line) ELSE LegibleIn(t)
<1>. DEFINE L == Len(t)
            u == Append(t, x)
            ls == LinesOf(t)
            K == Lasting(t)
<1>1. /\ L \in Nat /\ u \in Seq(Attempts) /\ Len(u) = L + 1
      /\ u[L + 1] = x /\ \A i \in 1..L : u[i] = t[i] /\ t[i] \in Attempts
  BY LenProperties, AppendProperties, ElementOfSeq
<1>. HIDE DEF u
<1>2. x.line \in JobLines /\ \A i \in 1..L : t[i].line \in JobLines
  BY <1>1 DEF Attempts
<1>3. ls \in Seq(JobLines) /\ Len(ls) = L
  <2>1. ls \in [1..L -> JobLines]
    BY <1>2 DEF LinesOf
  <2>2. ls \in Seq(JobLines)
    BY <1>1, <2>1, SeqDef
  <2> QED
    BY <1>1, <2>1, <2>2, LenProperties
<1>4. LinesOf(u) = Append(ls, x.line)
  <2>1. LinesOf(u) = [i \in 1..(L + 1) |-> u[i].line]
    BY <1>1 DEF LinesOf
  <2>2. LinesOf(u) \in Seq(JobLines) /\ Len(LinesOf(u)) = L + 1
    <3>1. \A i \in 1..(L + 1) : u[i].line \in JobLines
      <4>1. \A i \in 1..(L + 1) : i \in 1..L \/ i = L + 1
        BY <1>1
      <4> QED
        BY <1>1, <1>2, <4>1
    <3>2. LinesOf(u) \in [1..(L + 1) -> JobLines] /\ L + 1 \in Nat
      BY <1>1, <2>1, <3>1
    <3>3. LinesOf(u) \in Seq(JobLines)
      BY <3>2, SeqDef
    <3> QED
      BY <3>2, <3>3, LenProperties
  <2>3. /\ Append(ls, x.line) \in Seq(JobLines) /\ Len(Append(ls, x.line)) = L + 1
        /\ Append(ls, x.line)[L + 1] = x.line /\ \A i \in 1..L : Append(ls, x.line)[i] = ls[i]
    BY <1>2, <1>3, AppendProperties
  <2>4. ASSUME NEW i \in 1..(L + 1) PROVE LinesOf(u)[i] = Append(ls, x.line)[i]
    <3>1. i \in 1..L \/ i = L + 1
      BY <1>1
    <3>2. \A j \in 1..L : ls[j] = t[j].line
      BY DEF LinesOf
    <3>. HIDE DEF ls
    <3> QED
      BY <1>1, <2>1, <2>3, <3>1, <3>2
  <2>. HIDE DEF ls
  <2> QED
    BY <2>2, <2>3, <2>4, SeqEqual
<1>5. K \in SUBSET (1..Len(ls))
  BY <1>3 DEF Lasting
<1>6. Lasting(u) = IF x.how = "wrote" /\ ~SplicedIn(t, L + 1) THEN K \cup {L + 1} ELSE K
  <2>1. \A i \in 1..(L + 1) : SplicedIn(u, i) <=> SplicedIn(t, i)
    BY SplicedGrows DEF u
  <2>2. \A i : i \in Lasting(u) <=> (i \in K \/ (i = L + 1 /\ x.how = "wrote" /\ ~SplicedIn(t, L + 1)))
    <3>1. \A i : i \in 1..(L + 1) <=> (i \in 1..L \/ i = L + 1)
      BY <1>1
    <3>2. \A i \in 1..L : i # L + 1
      BY <1>1
    <3>. HIDE DEF L
    <3>3. \A i : i \in Lasting(u) <=> (i \in 1..(L + 1) /\ u[i].how = "wrote" /\ ~SplicedIn(u, i))
      BY <1>1 DEF Lasting
    <3>4. \A i : i \in K <=> (i \in 1..L /\ t[i].how = "wrote" /\ ~SplicedIn(t, i))
      BY DEF Lasting, L
    <3>. HIDE DEF K
    <3> QED
      BY <1>1, <2>1, <3>1, <3>2, <3>3, <3>4
  <2>. HIDE DEF K
  <2> QED
    BY <2>2
<1>7. /\ Kept(Append(ls, x.line), K) = Kept(ls, K)
      /\ Kept(Append(ls, x.line), K \cup {L + 1}) = Append(Kept(ls, K), x.line)
  <2>. HIDE DEF ls, K, L
  <2>1. x.line \in JobLines /\ ls \in Seq(JobLines) /\ Len(ls) = L /\ K \in SUBSET (1..Len(ls))
    BY <1>2, <1>3, <1>5
  <2>4. Kept(Append(ls, x.line), K) = Kept(ls, K)
    BY <2>1, KeptSame
  <2>5. Kept(Append(ls, x.line), K \cup {Len(ls) + 1}) = Append(Kept(ls, K), x.line)
    BY <2>1, KeptLonger
  <2> QED
    BY <2>1, <2>4, <2>5
<1>8. Kept(ls, K) \in Seq(JobLines)
  BY <1>3, <1>5, KeptOf
<1>9. LegibleIn(u) = Kept(LinesOf(u), Lasting(u)) /\ LegibleIn(t) = Kept(ls, K)
  BY DEF LegibleIn
<1>. HIDE DEF K, ls
<1> QED
  BY <1>4, <1>6, <1>7, <1>8, <1>9 DEF u

\* An audit and the history of its attempts: the fragment at its end is the last attempt's
\* that moved bytes, and its readers get the tail of the legible lines.
AuditHolds(a, t) ==
    /\ Torn(a) <=> SplicedIn(t, Len(t) + 1)
    /\ Ends(Readable(a), LegibleIn(t))
    /\ Len(a) < AuditMax => Readable(a) = LegibleIn(t)
AuditInv == AuditHolds(audit, trail)

LEMMA AuditAppends ==
  ASSUME NEW a \in Seq(FileLines), NEW t \in Seq(Attempts), AuditHolds(a, t), NEW l \in JobLines,
         NEW r \in AppendRuntimeLine(a, l), NEW how,
         how = IF r.ok THEN "wrote" ELSE IF r.file = a THEN "refused" ELSE "torn"
  PROVE  /\ r.file \in Seq(FileLines) /\ [line |-> l, how |-> how] \in Attempts
         /\ AuditHolds(r.file, Append(t, [line |-> l, how |-> how]))
<1>. DEFINE x == [line |-> l, how |-> how]
            u == Append(t, x)
<1>1. x \in Attempts /\ x.how = how /\ x.line = l
  BY DEF Attempts
<1>. HIDE DEF x
<1>2. u \in Seq(Attempts) /\ Len(u) = Len(t) + 1 /\ Len(t) \in Nat /\ Len(a) \in Nat
  BY <1>1, AppendProperties, LenProperties
<1>3. /\ SplicedIn(u, Len(u) + 1)
           <=> (how = "torn" \/ (how = "refused" /\ SplicedIn(t, Len(t) + 1)))
      /\ LegibleIn(t) \in Seq(JobLines)
      /\ LegibleIn(u) = IF how = "wrote" /\ ~SplicedIn(t, Len(t) + 1)
                          THEN Append(LegibleIn(t), l) ELSE LegibleIn(t)
  <2>1. Len(u) + 1 = Len(t) + 2
    BY <1>2
  <2> QED
    BY <1>1, <2>1, SplicedGrows, LegibleGrows
<1>. HIDE DEF u
<1>4. /\ Put(a, l) \in Seq(FileLines) /\ ~Torn(Put(a, l)) /\ Len(Put(a, l)) >= Len(a)
      /\ Readable(Put(a, l)) = IF Torn(a) THEN Readable(a) ELSE Append(Readable(a), l)
      /\ Tear(a) \in Seq(FileLines) /\ Torn(Tear(a)) /\ Len(Tear(a)) >= Len(a)
      /\ Readable(Tear(a)) = Readable(a) /\ ((Tear(a) = a) <=> Torn(a))
  BY PutOf
<1>5. Readable(a) \in Seq(JobLines) /\ Len(Put(a, l)) \in Nat /\ Len(Tear(a)) \in Nat
  BY <1>4, LoadOf, LenProperties
<1>6. /\ Torn(a) <=> SplicedIn(t, Len(t) + 1)
      /\ Ends(Readable(a), LegibleIn(t))
      /\ Len(a) < AuditMax => Readable(a) = LegibleIn(t)
      /\ AuditMax \in Nat
  BY BoundsAssumption DEF AuditHolds
<1>7. CASE r.file = Put(a, l) /\ r.ok = TRUE
  <2>1. how = "wrote"
    BY <1>7
  <2>2. ~Torn(a) => Ends(Append(Readable(a), l), Append(LegibleIn(t), l))
    BY <1>3, <1>5, <1>6, AppendEnds
  <2>3. Ends(Readable(Put(a, l)), LegibleIn(u))
    BY <1>3, <1>4, <1>6, <2>1, <2>2
  <2>4. Len(Put(a, l)) < AuditMax => Readable(Put(a, l)) = LegibleIn(u)
    BY <1>2, <1>3, <1>4, <1>5, <1>6, <2>1
  <2>5. Torn(Put(a, l)) <=> SplicedIn(u, Len(u) + 1)
    BY <1>3, <1>4, <2>1
  <2> QED
    BY <1>1, <1>4, <1>7, <2>3, <2>4, <2>5 DEF AuditHolds, u, x
<1>8. CASE r.file = a /\ r.ok = FALSE
  <2>1. how = "refused"
    BY <1>8
  <2> QED
    BY <1>1, <1>3, <1>6, <1>8, <2>1 DEF AuditHolds, u, x
<1>9. CASE r.file = Tear(a) /\ r.ok = FALSE /\ r.file # a
  <2>1. how = "torn"
    BY <1>9
  <2>2. Len(Tear(a)) < AuditMax => Readable(a) = LegibleIn(u)
    BY <1>2, <1>3, <1>4, <1>5, <1>6, <2>1
  <2> QED
    BY <1>1, <1>3, <1>4, <1>6, <1>9, <2>1, <2>2 DEF AuditHolds, u, x
<1> QED
  BY <1>7, <1>8, <1>9, AppendOutcomes

LEMMA TrimOf ==
  ASSUME NEW a \in Seq(FileLines), NEW t \in Seq(Attempts), AuditHolds(a, t)
  PROVE  AuditRotateContent(a) \in Seq(FileLines) /\ AuditHolds(AuditRotateContent(a), t)
<1>. DEFINE b == LastN(a, AuditMax)
<1>1. AuditMax \in Nat \ {0} /\ Len(a) \in Nat
  BY BoundsAssumption, LenProperties
<1>2. /\ b \in Seq(FileLines) /\ Ends(b, a)
      /\ Len(b) = (IF Len(a) > AuditMax THEN AuditMax ELSE Len(a))
      /\ (Len(a) <= AuditMax => b = a)
  BY <1>1, LastNOf
<1>3. Ends(Readable(b), Readable(a))
  BY <1>1, ReadableLastN
<1>. HIDE DEF b
<1>4. Torn(b) <=> Torn(a)
  <2>1. b = <<>> <=> a = <<>>
    BY <1>1, <1>2, EmptySeq
  <2>2. b # <<>> => Last(b) = Last(a)
    <3>1. b # <<>> => Len(b) \in 1..Len(b) /\ Len(b) \in Nat
      BY <1>2, EmptySeq, LenProperties
    <3>2. b # <<>> => b[Len(b)] = a[Len(a) - Len(b) + Len(b)]
      BY <1>2, <3>1 DEF Ends
    <3>3. b # <<>> => Len(a) - Len(b) + Len(b) = Len(a)
      BY <1>1, <3>1
    <3> QED
      BY <3>2, <3>3 DEF Last
  <2> QED
    BY <2>1, <2>2 DEF Torn
<1>5. Readable(b) \in Seq(JobLines) /\ Readable(a) \in Seq(JobLines) /\ LegibleIn(t) \in Seq(JobLines)
  <2>1. PICK x : x \in Attempts
    <3>1. [line |-> Day, how |-> "wrote"] \in Attempts
      BY LineOf DEF Attempts
    <3> QED
      BY <3>1
  <2> QED
    BY <1>2, <2>1, LoadOf, LegibleGrows
<1>6. Ends(Readable(b), LegibleIn(t))
  BY <1>3, <1>5, EndsOfEnds DEF AuditHolds
<1>7. Len(b) < AuditMax => Readable(b) = LegibleIn(t)
  BY <1>1, <1>2 DEF AuditHolds
<1> QED
  BY <1>2, <1>4, <1>6, <1>7 DEF AuditRotateContent, AuditHolds, b

LEMMA AuditStepHolds ==
  ASSUME TypeOK, AuditInv, AuditStep, UNCHANGED learnVars
  PROVE  TypeOK' /\ Quiet(NewTasks) /\ AuditInv'
<1>1. PICK r \in AppendRuntimeLine(audit, Head(job).line) :
        AppendAuditLine(Head(job).line, r, Tail(job))
  BY DEF AuditStep
<1>2. job # <<>> /\ Head(job).do = "audit"
  BY DEF AuditStep, NextTask
<1>3. Head(job) \in Tasks
  BY <1>2, HeadTailProperties DEF TypeOK
<1>4. PICK l \in JobLines : l = Head(job).line
  BY <1>3, TaskOf
<1>5. PICK how : how = HowAppended(r)
  OBVIOUS
<1>6. /\ audit' = r.file /\ trail' = Append(trail, [line |-> l, how |-> how])
      /\ job' = (IF r.ok /\ Len(r.file) > AuditMax THEN <<Task("trim", "audit", l)>> ELSE <<>>) \o Tail(job)
  BY <1>1, <1>4, <1>5 DEF AppendAuditLine
<1>7. /\ r.file \in Seq(FileLines) /\ [line |-> l, how |-> how] \in Attempts
      /\ AuditHolds(r.file, Append(trail, [line |-> l, how |-> how]))
  <2>1. how = IF r.ok THEN "wrote" ELSE IF r.file = audit THEN "refused" ELSE "torn"
    BY <1>5 DEF HowAppended
  <2> QED
    BY <1>1, <1>4, <2>1, AuditAppends DEF TypeOK, AuditInv
<1>8. AuditInv'
  BY <1>6, <1>7 DEF AuditInv
<1>. DEFINE p == IF r.ok /\ Len(r.file) > AuditMax THEN <<Task("trim", "audit", l)>> ELSE <<>>
<1>9. /\ p \in Seq(Tasks) /\ \A i \in 1..Len(p) : p[i].do \in NewTasks
  <2>. DEFINE a == Task("trim", "audit", l)
  <2>1. a \in Tasks /\ a.do \in NewTasks
    BY TaskOf DEF NewTasks, OtherTasks
  <2>2. p = <<>> \/ p = <<a>>
    OBVIOUS
  <2>. HIDE DEF a, p
  <2>3. CASE p = <<>>
    BY <2>3, ShortSeq
  <2>4. CASE p = <<a>>
    BY <2>1, <2>4, ShortSeq
  <2> QED
    BY <2>2, <2>3, <2>4
<1>10. job' = p \o Tail(job)
  BY <1>6
<1>. HIDE DEF p
<1>11. /\ job' \in Seq(Tasks) /\ job[1] = Head(job)
       /\ 1 - Len(p) \in Int /\ Carried(1 - Len(p), 2, NewTasks)
  BY <1>2, <1>9, <1>10, GoesOn
<1>12. audit' \in Seq(FileLines) /\ trail' \in Seq(Attempts)
  <2>1. \A y \in Attempts : Append(trail, y) \in Seq(Attempts)
    BY AppendProperties DEF TypeOK
  <2> QED
    BY <1>6, <1>7, <2>1
<1>13. TypeOK'
  BY <1>11, <1>12 DEF TypeOK, AuditStep, learnVars
<1>14. Quiet(NewTasks)
  <2>1. UNCHANGED <<up, mem, disk, written, cleared>>
    <3>1. up' = up
      BY <1>1 DEF AuditStep, AppendAuditLine
    <3> QED
      BY <3>1 DEF AuditStep
  <2> QED
    BY <1>2, <1>11, <2>1 DEF Quiet, OtherTasks
<1> QED
  BY <1>8, <1>13, <1>14

LEMMA TrimStepHolds ==
  ASSUME TypeOK, AuditInv, TrimStep, UNCHANGED learnVars
  PROVE  TypeOK' /\ Quiet(NewTasks) /\ AuditInv'
<1>1. /\ audit' \in {audit, AuditRotateContent(audit)}
      /\ job' = Tail(job) /\ job # <<>> /\ Head(job).do = "trim"
      /\ UNCHANGED <<up, mem, disk, written, trail, cleared>>
  BY DEF TrimStep, NextTask, WriteAtomic
<1>2. job' \in Seq(Tasks) /\ job[1] = Head(job) /\ Carried(1, 2, NewTasks)
  BY <1>1, GoesOnOnly
<1>3. /\ AuditRotateContent(audit) \in Seq(FileLines)
      /\ AuditHolds(AuditRotateContent(audit), trail) /\ AuditHolds(audit, trail)
  BY TrimOf DEF TypeOK, AuditInv
<1>4. AuditInv' /\ audit' \in Seq(FileLines)
  BY <1>1, <1>3 DEF AuditInv, TypeOK
<1>5. TypeOK'
  BY <1>1, <1>2, <1>4 DEF TypeOK, learnVars
<1>6. Quiet(NewTasks)
  BY <1>1, <1>2 DEF Quiet, OtherTasks
<1> QED
  BY <1>4, <1>5, <1>6

-----------------------------------------------------------------------------
(* The answers of the revoke route *)

\* The route has an answer of 200 under way.
Answering == \E i \in 1..Len(job) : job[i].do = "revoked"
NoNewAnswer == Answering' => Answering

LEMMA CarriedAnswers ==
  ASSUME NEW New, "revoked" \notin New, NEW d \in Int, Carried(d, 2, New)
  PROVE  NoNewAnswer
<1>1. ASSUME NEW i \in 1..Len(job'), job'[i].do = "revoked" PROVE \E j \in 1..Len(job) : job[j].do = "revoked"
  <2>1. i + d \in 2..Len(job) /\ job'[i] = job[i + d]
    BY <1>1 DEF Carried
  <2>2. i + d \in 1..Len(job)
    BY <2>1
  <2> QED
    BY <1>1, <2>1, <2>2
<1> QED
  BY <1>1 DEF NoNewAnswer, Answering

LEMMA QuietAnswers ==
  ASSUME Quiet(NewTasks) PROVE NoNewAnswer
<1>1. "revoked" \notin NewTasks
  BY DEF NewTasks
<1>2. CASE job' = job
  BY <1>2 DEF NoNewAnswer, Answering
<1>3. CASE \E d \in Int : Carried(d, 2, NewTasks)
  BY <1>1, <1>3, CarriedAnswers
<1> QED
  BY <1>2, <1>3 DEF Quiet

LEMMA PushAnswers ==
  ASSUME NEW w, NEW l, Pushes(w, l) PROVE ~Answering'
<1>1. PICK n \in 1..Len(job') : /\ job'[n] = Task("append", w, l)
                                /\ \A i \in 1..Len(job') : i # n => job'[i].do \in NewTasks
  BY DEF Pushes
<1>2. \A i \in 1..Len(job') : job'[i].do # "revoked"
  BY <1>1 DEF Task, NewTasks
<1> QED
  BY <1>2 DEF Answering

LEMMA WindowAnswers ==
  ASSUME TypeOK, StoresNext, UNCHANGED learnVars, ~AuditStep, ~TrimStep PROVE NoNewAnswer
<1>1. ASSUME NEW w \in Windows, Push(w) PROVE NoNewAnswer
  BY <1>1, PushStep, PushAnswers DEF NoNewAnswer
<1>2. ASSUME NEW w \in Windows, Clear(w) PROVE NoNewAnswer
  <2>1. job' = <<>> \/ job' = ClearJob(w)
    BY <1>2 DEF Clear
  <2>2. CASE job' = <<>>
    BY <2>2, NoTasks DEF NoNewAnswer, Answering
  <2>3. CASE job' = ClearJob(w)
    <3>1. written \in Nat
      BY DEF TypeOK
    <3>2. \A i \in 1..Len(job') : job'[i].do # "revoked"
      BY <2>3, <3>1, ClearJobOf
    <3> QED
      BY <3>2 DEF NoNewAnswer, Answering
  <2> QED
    BY <2>1, <2>2, <2>3
<1>3. CASE AppendStep
  <2>1. job # <<>> /\ Head(job).do = "append"
    BY <1>3 DEF AppendStep, NextTask
  <2>2. Head(job) \in Tasks
    BY <2>1, HeadTailProperties DEF TypeOK
  <2>3. PICK a : a = Task("replace", Head(job).window, Head(job).line)
    OBVIOUS
  <2>4. a \in Tasks /\ a.do = "replace"
    BY <2>1, <2>2, <2>3, TaskOf DEF WindowTasks
  <2>5. PICK p \in {<<>>, <<a>>} : job' = p \o Tail(job)
    BY <1>3, <2>3 DEF AppendStep
  <2>6. p \in Seq(Tasks) /\ \A i \in 1..Len(p) : p[i].do \in {"replace"}
    <3>1. CASE p = <<>>
      BY <3>1, ShortSeq
    <3>2. CASE p = <<a>>
      BY <2>4, <3>2, ShortSeq
    <3> QED
      BY <2>5, <3>1, <3>2
  <2>7. 1 - Len(p) \in Int /\ Carried(1 - Len(p), 2, {"replace"})
    BY <2>1, <2>5, <2>6, GoesOn
  <2>8. "revoked" \notin {"replace"}
    OBVIOUS
  <2> QED
    BY <2>7, <2>8, CarriedAnswers
<1>4. CASE ReplaceStep \/ ForgetStep \/ AnswerStep
  <2>1. job # <<>> /\ job' = Tail(job)
    BY <1>4 DEF ReplaceStep, ForgetStep, AnswerStep, NextTask
  <2>2. Carried(1, 2, {})
    BY <2>1, GoesOnOnly
  <2> QED
    BY <2>2, CarriedAnswers
<1> QED
  BY <1>1, <1>2, <1>3, <1>4 DEF StoresNext

-----------------------------------------------------------------------------
(* Counts *)

Counted(es, bound) == \A k \in DOMAIN es : es[k].count <= bound[k]
Filed == file \notin {NoFile, Garbage}

\* CountsAreEarned, with what keeps it: a denial or a revoke forgets more than the last
\* confirmed revoke did, and the file is no richer than the memory once the answer is due.
EarnedInv ==
    /\ \A k \in Keys : fresh[k] <= since[k]
    /\ ~forged => Counted(entries, fresh)
    /\ ~forged /\ ~alien /\ Filed => Counted(file, since) /\ (Answering => Counted(file, fresh))

LEMMA EarnedSame ==
  ASSUME EarnedInv, UNCHANGED <<entries, file, since, fresh, forged, alien>>, NoNewAnswer
  PROVE  EarnedInv'
BY DEF EarnedInv, Counted, Filed, NoNewAnswer

LEMMA EarnedOutside ==
  ASSUME EarnedInv, UNCHANGED <<entries, since, fresh, forged>>, alien'
  PROVE  EarnedInv'
BY DEF EarnedInv, Counted

LEMMA EarnedWrite ==
  ASSUME TypeOK, EarnedInv, WriteLearning
  PROVE  EarnedInv'
<1>1. PICK r \in WriteAtomic(file, entries) :
        /\ file' = r.file /\ alien' = (alien /\ ~r.ok)
        /\ job' = AfterWrite(Head(job).window, r.ok) \o Tail(job)
  BY DEF WriteLearning
<1>2. (r.file = entries /\ r.ok = TRUE) \/ (r.file = file /\ r.ok = FALSE)
  BY DEF WriteAtomic
<1>3. UNCHANGED <<entries, since, fresh, forged>>
  BY DEF WriteLearning
<1>4. CASE r.file = entries /\ r.ok = TRUE
  <2>1. ASSUME ~forged PROVE Counted(entries, fresh) /\ Counted(entries, since)
    <3>1. Counted(entries, fresh)
      BY <2>1 DEF EarnedInv
    <3>2. ASSUME NEW k \in DOMAIN entries PROVE entries[k].count <= since[k]
      <4>1. k \in Keys /\ entries[k].count \in Nat /\ fresh[k] \in Nat /\ since[k] \in Nat
        BY TableOf DEF TypeOK
      <4>2. entries[k].count <= fresh[k] /\ fresh[k] <= since[k]
        BY <3>1, <4>1 DEF Counted, EarnedInv
      <4> QED
        BY <4>1, <4>2
    <3> QED
      BY <3>1, <3>2 DEF Counted
  <2>2. file' = entries
    BY <1>1, <1>4
  <2> QED
    BY <1>3, <2>1, <2>2 DEF EarnedInv, Counted
<1>5. CASE r.file = file /\ r.ok = FALSE
  <2>1. file' = file /\ (alien' <=> alien)
    BY <1>1, <1>5
  <2>2. NoNewAnswer
    <3>1. job # <<>> /\ Head(job).do = "write"
      BY DEF WriteLearning, NextTask
    <3>2. Head(job) \in Tasks
      BY <3>1, HeadTailProperties DEF TypeOK
    <3>3. PICK w \in Windows \cup {"audit", Nobody} \cup Revokers : w = Head(job).window
      BY <3>1, <3>2, TaskOf DEF OtherTasks
    <3>4. PICK a : a = Task("failed", w, Day)
      OBVIOUS
    <3>5. a \in Tasks /\ a.do = "failed"
      <4>1. Day \in JobLines /\ "failed" \in OtherTasks
        BY LineOf DEF OtherTasks
      <4> QED
        BY <3>3, <3>4, <4>1, TaskOf
    <3>10. "failed" \in NewTasks
      BY DEF OtherTasks, NewTasks
    <3>6. PICK p \in {<<>>, <<a>>} : job' = p \o Tail(job)
      BY <1>1, <1>5, <3>3, <3>4 DEF AfterWrite
    <3>7. p \in Seq(Tasks) /\ \A i \in 1..Len(p) : p[i].do \in NewTasks
      <4>1. CASE p = <<>>
        BY <4>1, ShortSeq
      <4>2. CASE p = <<a>>
        BY <3>5, <3>10, <4>2, ShortSeq
      <4> QED
        BY <3>6, <4>1, <4>2
    <3>8. 1 - Len(p) \in Int /\ Carried(1 - Len(p), 2, NewTasks)
      BY <3>1, <3>6, <3>7, GoesOn
    <3>9. "revoked" \notin NewTasks
      BY DEF NewTasks
    <3> QED
      BY <3>8, <3>9, CarriedAnswers
  <2> QED
    BY <1>3, <2>1, <2>2 DEF EarnedInv, Counted, Filed, NoNewAnswer
<1> QED
  BY <1>2, <1>4, <1>5

\* A confirmation, or a denial, is counted before it is learned.
LEMMA EarnedLearn ==
  ASSUME TypeOK, EarnedInv, ~Answering', NEW k \in Keys, NEW es \in Tables, NEW sk \in Nat, NEW fk \in Nat,
         Learn(k, es, sk, fk), since[k] <= sk, fk <= sk,
         ~forged => \A x \in DOMAIN es : es[x].count <= (IF x = k THEN fk ELSE fresh[x])
  PROVE  EarnedInv'
<1>1. /\ since' = [since EXCEPT ![k] = sk] /\ fresh' = [fresh EXCEPT ![k] = fk] /\ entries' = es
      /\ UNCHANGED <<file, forged, alien>>
  BY DEF Learn
<1>2. \A x \in Keys : /\ since'[x] = (IF x = k THEN sk ELSE since[x])
                      /\ fresh'[x] = (IF x = k THEN fk ELSE fresh[x])
  BY <1>1 DEF TypeOK
<1>3. \A x \in Keys : fresh'[x] <= since'[x]
  BY <1>2 DEF EarnedInv
<1>4. ~forged' => Counted(entries, fresh)'
  <2>1. DOMAIN es \subseteq Keys
    BY TableOf
  <2> QED
    BY <1>1, <1>2, <2>1 DEF Counted
<1>5. ASSUME ~forged', ~alien', Filed' PROVE Counted(file, since)'
  <2>1. file \in Tables /\ Counted(file, since)
    BY <1>1, <1>5 DEF EarnedInv, Filed, TypeOK
  <2>2. ASSUME NEW x \in DOMAIN file PROVE file[x].count <= since'[x]
    <3>1. x \in Keys /\ file[x].count \in Nat
      BY <2>1, TableOf
    <3>2. file[x].count <= since[x] /\ since[x] \in Nat
      BY <2>1, <3>1 DEF Counted, TypeOK
    <3>3. since[x] <= since'[x] /\ since'[x] \in Nat
      BY <1>2, <3>1, <3>2
    <3> QED
      BY <3>1, <3>2, <3>3
  <2> QED
    BY <1>1, <2>2 DEF Counted
<1> QED
  BY <1>3, <1>4, <1>5 DEF EarnedInv

LEMMA EarnedConfirm ==
  ASSUME TypeOK, EarnedInv, ~Answering', NEW k \in Keys, Confirm(k) PROVE EarnedInv'
<1>1. PICK es \in RecordConfirm(k) : Learn(k, es, since[k] + 1, fresh[k] + 1)
  BY DEF Confirm
<1>2. PICK c \in Nat : c = (IF k \in DOMAIN entries THEN entries[k].count ELSE 0)
  BY TableOf DEF TypeOK
<1>3. now \in Nat /\ c + 1 \in Nat /\ entries \in Tables /\ since[k] \in Nat /\ fresh[k] \in Nat
  BY DEF TypeOK
<1>4. PICK w : w = With(entries, k, Entry(c + 1, now))
  OBVIOUS
<1>5. /\ w \in Tables /\ DOMAIN w = DOMAIN entries \cup {k}
      /\ \A x \in DOMAIN entries \cup {k} : w[x] = IF x = k THEN Entry(c + 1, now) ELSE entries[x]
  <2>1. ASSUME NEW n \in Nat
        PROVE  /\ With(entries, k, Entry(n, now)) \in Tables
               /\ DOMAIN With(entries, k, Entry(n, now)) = DOMAIN entries \cup {k}
               /\ \A x \in DOMAIN entries \cup {k} :
                    With(entries, k, Entry(n, now))[x] = IF x = k THEN Entry(n, now) ELSE entries[x]
    <3>1. PICK es0 \in Tables : es0 = entries
      BY <1>3
    <3>2. PICK day \in Nat : day = now
      BY <1>3
    <3>3. /\ With(es0, k, Entry(n, day)) \in Tables
          /\ DOMAIN With(es0, k, Entry(n, day)) = DOMAIN es0 \cup {k}
          /\ \A x \in DOMAIN es0 \cup {k} :
               With(es0, k, Entry(n, day))[x] = IF x = k THEN Entry(n, day) ELSE es0[x]
      <4>1. With(es0, k, Entry(n, day)) \in Tables
        BY WithOf
      <4>2. DOMAIN With(es0, k, Entry(n, day)) = DOMAIN es0 \cup {k}
        BY DEF With
      <4>3. \A x \in DOMAIN es0 \cup {k} :
               With(es0, k, Entry(n, day))[x] = IF x = k THEN Entry(n, day) ELSE es0[x]
        BY DEF With
      <4> QED
        BY <4>1, <4>2, <4>3
    <3> QED
      BY <3>1, <3>2, <3>3
  <2> QED
    BY <1>3, <1>4, <2>1
<1>6. es \in Tables /\ DOMAIN es \subseteq DOMAIN w /\ \A x \in DOMAIN es : es[x] = w[x]
  BY <1>1, <1>2, <1>4, <1>5, EvictOf DEF RecordConfirm
<1>7. Entry(c + 1, now).count = c + 1
  BY DEF Entry
<1>8. ASSUME ~forged, NEW x \in DOMAIN es
      PROVE  es[x].count <= (IF x = k THEN fresh[k] + 1 ELSE fresh[x])
  <2>1. Counted(entries, fresh)
    BY <1>8 DEF EarnedInv
  <2>2. CASE x = k
    <3>1. c <= fresh[k]
      BY <1>2, <1>3, <2>1 DEF Counted
    <3> QED
      BY <1>2, <1>3, <1>5, <1>6, <1>7, <2>2, <3>1
  <2>3. CASE x # k
    BY <1>5, <1>6, <2>1, <2>3 DEF Counted
  <2> QED
    BY <2>2, <2>3
<1>9. fresh[k] <= since[k]
  BY DEF EarnedInv
<1>10. /\ since[k] + 1 \in Nat /\ fresh[k] + 1 \in Nat
       /\ since[k] <= since[k] + 1 /\ fresh[k] + 1 <= since[k] + 1
  BY <1>3, <1>9
<1> QED
  BY <1>1, <1>6, <1>8, <1>10, EarnedLearn

LEMMA EarnedDeny ==
  ASSUME TypeOK, EarnedInv, ~Answering', NEW k \in Keys, Deny(k) PROVE EarnedInv'
<1>1. PICK es \in Tables : es = ResetConfirmation(k)
  BY ResetOf
<1>2. Learn(k, es, since[k], 0)
  BY <1>1 DEF Deny
<1>3. ASSUME ~forged, NEW x \in DOMAIN es
      PROVE  es[x].count <= (IF x = k THEN 0 ELSE fresh[x])
  <2>1. Counted(entries, fresh)
    BY <1>3 DEF EarnedInv
  <2>2. IF x = k THEN es[x].count = 0 ELSE x \in DOMAIN entries /\ es[x] = entries[x]
    BY <1>1, ResetOf
  <2> QED
    BY <2>1, <2>2 DEF Counted
<1>4. since[k] \in Nat /\ 0 \in Nat /\ since[k] <= since[k] /\ 0 <= since[k]
  BY DEF TypeOK
<1> QED
  BY <1>2, <1>3, <1>4, EarnedLearn

LEMMA EarnedSection ==
  ASSUME TypeOK, EarnedInv, NEW r \in Revokers, NEW k \in Keys, RevokeSection(r, k)
  PROVE  EarnedInv'
<1>1. /\ UNCHANGED <<file, since, forged, alien>> /\ job = <<>> /\ job' = job
      /\ entries' = RevokeLearning(k)
      /\ fresh' = [fresh EXCEPT ![k] = 0] \/ (fresh' = fresh /\ k \notin DOMAIN entries)
  BY DEF RevokeSection, Idle
<1>2. \A x \in Keys : fresh'[x] = fresh[x] \/ fresh'[x] = 0
  BY <1>1 DEF TypeOK
<1>3. \A x \in Keys : x # k => fresh'[x] = fresh[x]
  BY <1>1 DEF TypeOK
<1>4. \A x \in Keys : fresh'[x] <= since'[x]
  BY <1>1, <1>2 DEF EarnedInv, TypeOK
<1>5. ~forged' => Counted(entries, fresh)'
  <2>1. /\ DOMAIN entries' = DOMAIN entries \ {k} /\ DOMAIN entries \subseteq Keys
        /\ \A x \in DOMAIN entries' : entries'[x] = entries[x]
    BY <1>1, RevokeOf, TableOf DEF TypeOK
  <2> QED
    BY <1>1, <1>3, <2>1 DEF EarnedInv, Counted
<1>6. ~Answering'
  BY <1>1, NoTasks DEF Answering
<1> QED
  BY <1>1, <1>4, <1>5, <1>6 DEF EarnedInv, Counted, Filed

LEMMA EarnedAnswers ==
  ASSUME TypeOK, EarnedInv, RevokeAnswers
  PROVE  EarnedInv'
<1>1. /\ UNCHANGED <<entries, file, fresh, forged, alien>>
      /\ job # <<>> /\ job' = Tail(job)
  BY DEF RevokeAnswers, NextTask
<1>2. NoNewAnswer
  <2>1. Carried(1, 2, {})
    BY <1>1, GoesOnOnly
  <2> QED
    BY <2>1, CarriedAnswers
<1>3. CASE since' = since
  BY <1>1, <1>2, <1>3, EarnedSame
<1>4. ASSUME NEW k, since' = [since EXCEPT ![k] = fresh[k]], Answering PROVE EarnedInv'
  <2>1. \A x \in Keys : since'[x] = since[x] \/ since'[x] = fresh[x]
    BY <1>4 DEF TypeOK
  <2>2. \A x \in Keys : fresh'[x] <= since'[x]
    <3>1. \A x \in Keys : fresh[x] \in Nat /\ fresh[x] <= since[x] /\ fresh'[x] = fresh[x]
      BY <1>1 DEF EarnedInv, TypeOK
    <3> QED
      BY <2>1, <3>1
  <2>3. ASSUME ~forged, ~alien, Filed PROVE Counted(file, since')
    <3>1. Counted(file, fresh) /\ Counted(file, since) /\ file \in Tables
      BY <1>4, <2>3 DEF EarnedInv, Filed, TypeOK
    <3>2. DOMAIN file \subseteq Keys
      BY <3>1, TableOf
    <3> QED
      BY <2>1, <3>1, <3>2 DEF Counted
  <2> QED
    BY <1>1, <1>2, <2>2, <2>3 DEF EarnedInv, Counted, Filed, NoNewAnswer
<1>5. NextTask("revoked") => Answering
  <2>1. NextTask("revoked") => 1 \in 1..Len(job) /\ job[1].do = "revoked"
    BY <1>1, GoesOnOnly DEF NextTask
  <2> QED
    BY <2>1 DEF Answering
<1>6. \/ since' = since
      \/ NextTask("revoked") /\ \E k : since' = [since EXCEPT ![k] = fresh[k]]
  BY DEF RevokeAnswers
<1> QED
  BY <1>3, <1>4, <1>5, <1>6

LEMMA EarnedStart ==
  ASSUME TypeOK, StoresInv, EarnedInv, Start
  PROVE  EarnedInv'
<1>1. /\ ~up /\ UNCHANGED <<job, file, since, alien>> /\ entries' \in LoadLearning
      /\ fresh' = since /\ (forged' <=> forged \/ alien)
  BY DEF Start, LoadRuntimeStores
<1>2. ~Answering'
  <2>1. job' = <<>>
    BY <1>1 DEF StoresInv
  <2> QED
    BY <2>1, NoTasks DEF Answering
<1>3. \A x \in Keys : fresh'[x] <= since'[x]
  BY <1>1 DEF TypeOK
<1>4. ASSUME ~forged' PROVE Counted(entries, fresh)'
  <2>1. CASE Filed
    <3>1. Counted(file, since)
      BY <1>1, <1>4, <2>1 DEF EarnedInv
    <3>2. DOMAIN entries' \subseteq DOMAIN file /\ \A k \in DOMAIN entries' : entries'[k] = file[k]
      BY <1>1, <2>1, LoadLearningOf DEF Filed
    <3> QED
      BY <1>1, <3>1, <3>2 DEF Counted
  <2>2. CASE ~Filed
    <3>1. DOMAIN entries' = {}
      BY <1>1, <2>2, LoadLearningOf DEF Filed
    <3> QED
      BY <3>1 DEF Counted
  <2> QED
    BY <2>1, <2>2
<1> QED
  BY <1>1, <1>2, <1>3, <1>4 DEF EarnedInv, Counted, Filed

LEMMA EarnedCrash ==
  ASSUME EarnedInv, Crash PROVE EarnedInv'
<1>1. /\ UNCHANGED <<file, since, fresh, forged, alien>> /\ entries' = Nothing /\ job' = <<>>
  BY DEF Crash, CrashStores
<1>2. DOMAIN entries' = {} /\ ~Answering'
  BY <1>1, NothingOf, NoTasks DEF Answering
<1> QED
  BY <1>1, <1>2 DEF EarnedInv, Counted, Filed

-----------------------------------------------------------------------------
(* The allowance of the learned allows *)

\* The attempts whose reviews are out.
Out == {a \in Askers : asker[a] # Nobody}
SpendInv == used = clean /\ used + Cardinality(Out) <= AllowCap - 1 + Cardinality(Askers)

LEMMA OutOf ==
  /\ IsFiniteSet(Askers) /\ IsFiniteSet(Out) /\ Cardinality(Askers) \in Nat /\ Cardinality(Out) \in Nat
  /\ Cardinality(Out) <= Cardinality(Askers) /\ AllowCap \in Nat \ {0}
BY LearningAssumption, FS_Subset, FS_CardinalityType DEF Out

LEMMA OutNext ==
  /\ IsFiniteSet(Out') /\ Cardinality(Out') \in Nat /\ Cardinality(Out') <= Cardinality(Askers)
BY LearningAssumption, FS_Subset, FS_CardinalityType DEF Out

LEMMA SpendSame ==
  ASSUME SpendInv, UNCHANGED <<asker, used, clean>> PROVE SpendInv'
BY DEF SpendInv, Out

LEMMA OutLess ==
  ASSUME TypeOK, NEW a \in Askers, asker[a] # Nobody, asker' = [asker EXCEPT ![a] = Nobody]
  PROVE  Cardinality(Out') = Cardinality(Out) - 1
<1>1. \A x \in Askers : asker'[x] = IF x = a THEN Nobody ELSE asker[x]
  BY DEF TypeOK
<1>2. Out' = Out \ {a} /\ a \in Out
  BY <1>1 DEF Out
<1> QED
  BY <1>2, OutOf, FS_RemoveElement

LEMMA SpendStep ==
  ASSUME TypeOK, SpendInv,
         \/ \E a \in Askers : LearnReviewed(a) \/ LearnMissed(a) \/ \E k \in Keys : LearnAttempt(a, k)
         \/ SessionDisposed \/ Crash
  PROVE  SpendInv'
<1>1. used \in Nat /\ clean \in Nat
  BY DEF TypeOK
<1>2. ASSUME NEW a \in Askers, LearnReviewed(a) PROVE SpendInv'
  <2>1. used' = used + 1 /\ clean' = clean + 1 /\ Cardinality(Out') = Cardinality(Out) - 1
    BY <1>2, OutLess DEF LearnReviewed, SpendOne
  <2> QED
    BY <1>1, <2>1, OutOf DEF SpendInv
<1>3. ASSUME NEW a \in Askers, LearnMissed(a) PROVE SpendInv'
  <2>1. used' = used /\ clean' = clean /\ Cardinality(Out') = Cardinality(Out) - 1
    BY <1>3, OutLess DEF LearnMissed
  <2> QED
    BY <1>1, <2>1, OutOf DEF SpendInv
<1>4. ASSUME NEW a \in Askers, NEW k \in Keys, LearnAttempt(a, k) PROVE SpendInv'
  <2>1. used < AllowCap /\ used' = used /\ clean' = clean
    BY <1>4 DEF LearnAttempt
  <2> QED
    BY <1>1, <2>1, OutOf, OutNext DEF SpendInv
<1>5. CASE SessionDisposed \/ Crash
  <2>1. used' = 0 /\ clean' = 0
    BY <1>5 DEF SessionDisposed, Crash
  <2> QED
    BY <2>1, OutOf, OutNext DEF SpendInv
<1> QED
  BY <1>2, <1>3, <1>4, <1>5

-----------------------------------------------------------------------------
(* Every step *)

LEMMA FilesHold ==
  ASSUME TypeOK, StoresInv, AuditInv, Next
  PROVE  TypeOK' /\ StoresInv' /\ AuditInv' /\ \A v \in Windows : Retains(v)
<1>. DEFINE Held == TypeOK' /\ StoresInv' /\ AuditInv' /\ \A v \in Windows : Retains(v)
<1>1. ASSUME UNCHANGED <<audit, trail>> PROVE AuditInv'
  BY <1>1 DEF AuditInv
<1>2. ASSUME TypeOK', NEW New \in SUBSET OtherTasks, Quiet(New), AuditInv', ~up => job' = <<>> PROVE Held
  <2>1. StoresInv'
    BY <1>2, QuietInv
  <2>2. disk' = disk
    BY <1>2 DEF Quiet
  <2>3. \A v \in Windows : Retains(v)
    BY <2>2, SameRetains
  <2> QED
    BY <1>2, <2>1, <2>3
<1>3. NewTasks \in SUBSET OtherTasks /\ OtherTasks \in SUBSET OtherTasks
  BY DEF NewTasks
<1>4. ~up => job = <<>>
  BY DEF StoresInv
<1>5. ASSUME NEW w \in Windows, NEW l \in JobLines, l.id = written + 1, TypeOK', Pushes(w, l),
             Idle, Remember(w, l), written' = written + 1, UNCHANGED <<up, disk, cleared, audit, trail>>
      PROVE  Held
  <2>1. StoresInv'
    BY <1>5, PushInv
  <2>2. \A v \in Windows : Retains(v)
    BY <1>5, SameRetains
  <2> QED
    BY <1>1, <1>5, <2>1, <2>2
<1>6. written \in Nat /\ written + 1 \in Nat
  BY DEF TypeOK
<1>7. ASSUME StoresNext, UNCHANGED learnVars PROVE Held
  <2>1. ASSUME NEW w \in Windows, Push(w) PROVE Held
    <3>1. TypeOK' /\ Pushes(w, Line("record", written + 1))
      BY <1>7, <2>1, PushStep
    <3>2. Line("record", written + 1) \in JobLines /\ Line("record", written + 1).id = written + 1
      BY <1>6, LineOf
    <3> QED
      BY <1>5, <2>1, <3>1, <3>2 DEF Push
  <2>2. ASSUME NEW w \in Windows, Clear(w) PROVE Held
    BY <1>1, <1>7, <2>2, ClearHolds DEF Clear
  <2>3. CASE AppendStep
    BY <1>1, <1>7, <2>3, AppendStepHolds DEF AppendStep
  <2>4. CASE ReplaceStep
    BY <1>1, <1>7, <2>4, ReplaceStepHolds DEF ReplaceStep
  <2>5. CASE AuditStep
    <3>1. TypeOK' /\ Quiet(NewTasks) /\ AuditInv' /\ up
      BY <1>7, <2>5, AuditStepHolds DEF AuditStep, NextTask
    <3> QED
      BY <1>2, <1>3, <3>1
  <2>6. CASE TrimStep
    <3>1. TypeOK' /\ Quiet(NewTasks) /\ AuditInv' /\ up
      BY <1>7, <2>6, TrimStepHolds DEF TrimStep, NextTask
    <3> QED
      BY <1>2, <1>3, <3>1
  <2>7. CASE ForgetStep
    BY <1>1, <1>7, <2>7, ForgetStepHolds DEF ForgetStep
  <2>8. CASE AnswerStep
    BY <1>1, <1>7, <2>8, AnswerStepHolds DEF AnswerStep
  <2> QED
    BY <1>7, <2>1, <2>2, <2>3, <2>4, <2>5, <2>6, <2>7, <2>8 DEF StoresNext
<1>8. CASE Tripwire
  <2>1. TypeOK' /\ Quiet(NewTasks) /\ up /\ UNCHANGED <<audit, trail>>
    BY <1>8, TripwireStep DEF Tripwire, NextTask
  <2> QED
    BY <1>1, <1>2, <1>3, <2>1
<1>9. CASE WriteLearning
  <2>1. TypeOK' /\ Quiet(OtherTasks) /\ up /\ UNCHANGED <<audit, trail>>
    BY <1>9, WriteStep DEF WriteLearning, NextTask
  <2> QED
    BY <1>1, <1>2, <1>3, <2>1
<1>10. CASE RevokeAnswers
  <2>1. TypeOK' /\ Quiet(NewTasks) /\ up /\ UNCHANGED <<audit, trail>>
    BY <1>10, RevokeAnswersStep DEF RevokeAnswers, NextTask
  <2> QED
    BY <1>1, <1>2, <1>3, <2>1
<1>11. ASSUME NEW content \in OutsideContents, Outside(content) PROVE Held
  <2>1. TypeOK' /\ Quiet(NewTasks) /\ job' = job /\ UNCHANGED <<audit, trail>>
    BY <1>11, OutsideStep DEF Outside
  <2> QED
    BY <1>1, <1>2, <1>3, <1>4, <2>1
<1>12. ASSUME NEW k \in Keys, Confirm(k) \/ Deny(k) PROVE Held
  <2>1. TypeOK' /\ Quiet(NewTasks)
    BY <1>12, ConfirmStep, DenyStep
  <2>2. up /\ UNCHANGED <<audit, trail>>
    BY <1>12 DEF Confirm, Deny, Learn, Idle
  <2> QED
    BY <1>1, <1>2, <1>3, <2>1, <2>2
<1>13. ASSUME NEW r \in Revokers, RevokeThen(r) \/ RevokeReply(r) PROVE Held
  <2>1. TypeOK' /\ Quiet(NewTasks)
    BY <1>13, RevokeWritesStep
  <2>2. up /\ UNCHANGED <<audit, trail>>
    BY <1>13 DEF RevokeThen, RevokeReply, RevokeWrites, Idle
  <2> QED
    BY <1>1, <1>2, <1>3, <2>1, <2>2
<1>14. ASSUME NEW r \in Revokers, NEW k \in Keys, RevokeSection(r, k) PROVE Held
  <2>1. TypeOK' /\ Quiet(NewTasks)
    BY <1>14, RevokeSectionStep
  <2>2. up /\ UNCHANGED <<audit, trail>>
    BY <1>14 DEF RevokeSection, Idle
  <2> QED
    BY <1>1, <1>2, <1>3, <2>1, <2>2
<1>15. ASSUME NEW a \in Askers, LearnReviewed(a) PROVE Held
  <2>1. TypeOK' /\ Pushes("history", Line("learned", written + 1))
    BY <1>15, ReviewedStep
  <2>2. /\ Line("learned", written + 1) \in JobLines /\ Line("learned", written + 1).id = written + 1
        /\ "history" \in Windows
    BY <1>6, LineOf DEF Windows
  <2> QED
    BY <1>5, <1>15, <2>1, <2>2 DEF LearnReviewed
<1>16. ASSUME NEW a \in Askers, LearnMissed(a) \/ \E k \in Keys : LearnAttempt(a, k) PROVE Held
  <2>1. TypeOK' /\ Quiet(NewTasks)
    BY <1>16, AskStep
  <2>2. up /\ UNCHANGED <<audit, trail>>
    BY <1>16 DEF LearnMissed, LearnAttempt, Idle, storeVars
  <2> QED
    BY <1>1, <1>2, <1>3, <2>1, <2>2
<1>17. CASE SessionDisposed
  <2>1. TypeOK' /\ Quiet(NewTasks) /\ up /\ UNCHANGED <<audit, trail>>
    BY <1>17, DisposeStep DEF SessionDisposed, Idle
  <2> QED
    BY <1>1, <1>2, <1>3, <2>1
<1>18. CASE Tick
  <2>1. TypeOK' /\ Quiet(NewTasks) /\ job' = job /\ UNCHANGED <<audit, trail>>
    BY <1>18, TickStep DEF Tick
  <2> QED
    BY <1>1, <1>2, <1>3, <1>4, <2>1
<1>19. CASE Crash
  BY <1>1, <1>19, CrashHolds DEF Crash
<1>20. CASE Start
  BY <1>1, <1>20, StartHolds DEF Start
<1> QED
  BY <1>7, <1>8, <1>9, <1>10, <1>11, <1>12, <1>13, <1>14, <1>15, <1>16, <1>17, <1>18, <1>19, <1>20 DEF Next

LEMMA LearningHolds ==
  ASSUME TypeOK, StoresInv, AuditInv, EarnedInv, NoFalseAlarm, SpendInv, Next
  PROVE  EarnedInv' /\ NoFalseAlarm' /\ SpendInv'
<1>. DEFINE Held == EarnedInv' /\ NoFalseAlarm' /\ SpendInv'
<1>1. ASSUME UNCHANGED <<up, file, seen, foreign>> PROVE NoFalseAlarm'
  BY <1>1 DEF NoFalseAlarm
<1>2. ASSUME NoNewAnswer, UNCHANGED <<up, learnVars>> PROVE Held
  <2>1. /\ UNCHANGED <<entries, file, seen, since, fresh, forged, foreign, alien>>
        /\ UNCHANGED <<asker, used, clean>> /\ UNCHANGED up
    BY <1>2 DEF learnVars
  <2> QED
    BY <1>1, <1>2, <2>1, EarnedSame, SpendSame
<1>3. ASSUME StoresNext, UNCHANGED learnVars PROVE Held
  <2>1. up' = up
    BY <1>3 DEF StoresNext, Push, Clear, AppendStep, ReplaceStep, AuditStep, TrimStep, ForgetStep, AnswerStep
  <2>2. CASE AuditStep \/ TrimStep
    BY <1>2, <1>3, <2>1, <2>2, AuditStepHolds, TrimStepHolds, QuietAnswers
  <2>3. CASE ~AuditStep /\ ~TrimStep
    BY <1>2, <1>3, <2>1, <2>3, WindowAnswers
  <2> QED
    BY <2>2, <2>3
<1>4. CASE Tripwire
  <2>1. UNCHANGED <<up, learnVars>>
    BY <1>4 DEF Tripwire
  <2> QED
    BY <1>2, <1>4, <2>1, TripwireStep, QuietAnswers
<1>5. CASE WriteLearning
  <2>1. UNCHANGED <<asker, used, clean>> /\ seen' = file'
    BY <1>5 DEF WriteLearning, LookAgain
  <2>2. NoFalseAlarm'
    BY <2>1 DEF NoFalseAlarm
  <2> QED
    BY <1>5, <2>1, <2>2, EarnedWrite, SpendSame
<1>6. CASE RevokeAnswers
  <2>1. UNCHANGED <<asker, used, clean, up, file, seen, foreign>>
    BY <1>6 DEF RevokeAnswers
  <2> QED
    BY <1>1, <1>6, <2>1, EarnedAnswers, SpendSame
<1>7. ASSUME NEW content \in OutsideContents, Outside(content) PROVE Held
  <2>1. UNCHANGED <<asker, used, clean>> /\ UNCHANGED <<entries, since, fresh, forged>> /\ alien' /\ foreign'
    BY <1>7 DEF Outside
  <2>2. NoFalseAlarm'
    BY <2>1 DEF NoFalseAlarm
  <2> QED
    BY <2>1, <2>2, EarnedOutside, SpendSame
<1>8. ASSUME NEW k \in Keys, Confirm(k) \/ Deny(k) PROVE Held
  <2>1. UNCHANGED <<asker, used, clean, up, file, seen, foreign>>
    BY <1>8 DEF Confirm, Deny, Learn
  <2>2. ~Answering'
    <3>1. job = <<>> /\ NoNewAnswer
      BY <1>8, ConfirmStep, DenyStep, QuietAnswers DEF Confirm, Deny, Learn, Idle
    <3> QED
      BY <3>1, NoTasks DEF NoNewAnswer, Answering
  <2> QED
    BY <1>1, <1>8, <2>1, <2>2, EarnedConfirm, EarnedDeny, SpendSame
<1>9. ASSUME NEW r \in Revokers, RevokeThen(r) \/ RevokeReply(r) PROVE Held
  <2>1. /\ UNCHANGED <<asker, used, clean>> /\ UNCHANGED <<up, file, seen, foreign>>
        /\ UNCHANGED <<entries, file, since, fresh, forged, alien>>
    BY <1>9 DEF RevokeThen, RevokeReply, RevokeWrites
  <2> QED
    BY <1>1, <1>9, <2>1, RevokeWritesStep, QuietAnswers, EarnedSame, SpendSame
<1>10. ASSUME NEW r \in Revokers, NEW k \in Keys, RevokeSection(r, k) PROVE Held
  <2>1. UNCHANGED <<asker, used, clean>> /\ UNCHANGED <<up, file, seen, foreign>>
    BY <1>10 DEF RevokeSection
  <2> QED
    BY <1>1, <1>10, <2>1, EarnedSection, SpendSame
<1>11. ASSUME NEW a \in Askers,
              LearnReviewed(a) \/ LearnMissed(a) \/ \E k \in Keys : LearnAttempt(a, k)
       PROVE  Held
  <2>1. UNCHANGED <<up, file, seen, foreign>> /\ UNCHANGED <<entries, file, since, fresh, forged, alien>>
    BY <1>11 DEF LearnReviewed, LearnMissed, LearnAttempt, storeVars
  <2>2. NoNewAnswer
    <3>1. CASE LearnReviewed(a)
      BY <3>1, ReviewedStep, PushAnswers DEF NoNewAnswer
    <3>2. CASE LearnMissed(a) \/ \E k \in Keys : LearnAttempt(a, k)
      BY <3>2, AskStep, QuietAnswers
    <3> QED
      BY <1>11, <3>1, <3>2
  <2> QED
    BY <1>1, <1>11, <2>1, <2>2, EarnedSame, SpendStep
<1>12. CASE SessionDisposed
  <2>1. UNCHANGED <<up, file, seen, foreign>> /\ UNCHANGED <<entries, file, since, fresh, forged, alien>>
    BY <1>12 DEF SessionDisposed
  <2> QED
    BY <1>1, <1>12, <2>1, DisposeStep, QuietAnswers, EarnedSame, SpendStep
<1>13. CASE Tick
  <2>1. /\ UNCHANGED <<asker, used, clean>> /\ UNCHANGED <<up, file, seen, foreign>>
        /\ UNCHANGED <<entries, file, since, fresh, forged, alien>>
    BY <1>13 DEF Tick
  <2> QED
    BY <1>1, <1>13, <2>1, TickStep, QuietAnswers, EarnedSame, SpendSame
<1>14. CASE Crash
  <2>1. ~up'
    BY <1>14 DEF Crash, CrashStores
  <2> QED
    BY <1>14, <2>1, EarnedCrash, SpendStep DEF NoFalseAlarm
<1>15. CASE Start
  <2>1. UNCHANGED <<asker, used, clean>> /\ seen' = file'
    BY <1>15 DEF Start
  <2> QED
    BY <1>15, <2>1, EarnedStart, SpendSame DEF NoFalseAlarm
<1> QED
  BY <1>3, <1>4, <1>5, <1>6, <1>7, <1>8, <1>9, <1>10, <1>11, <1>12, <1>13, <1>14, <1>15 DEF Next

-----------------------------------------------------------------------------
(* The theorems *)

Inv == TypeOK /\ StoresInv /\ AuditInv /\ EarnedInv /\ NoFalseAlarm /\ SpendInv

LEMMA InitInv == ASSUME Init PROVE Inv
<1>1. /\ up = TRUE /\ job = <<>> /\ audit = <<>> /\ trail = <<>> /\ written = 0
      /\ mem = [w \in Windows |-> <<>>] /\ disk = [w \in Windows |-> <<>>]
      /\ cleared = [w \in Windows |-> 0]
      /\ entries = Nothing /\ file = NoFile /\ seen = NoFile /\ now = 0
      /\ asker = [a \in Askers |-> Nobody] /\ revoker = [r \in Revokers |-> NoRequest]
      /\ used = 0 /\ clean = 0
      /\ since = [k \in Keys |-> 0] /\ fresh = [k \in Keys |-> 0]
      /\ forged = FALSE /\ foreign = FALSE /\ alien = FALSE
  BY DEF Init, StoresInit
<1>2. \A i \in 1..Len(job) : FALSE
  BY <1>1, NoTasks
<1>3. TypeOK
  <2>1. \A S : <<>> \in Seq(S)
    OBVIOUS
  <2>2. mem \in [Windows -> Seq(JobLines)] /\ disk \in [Windows -> Seq(FileLines)]
    BY <1>1, <2>1
  <2> QED
    BY <1>1, <2>1, <2>2, NothingOf DEF TypeOK
<1>4. StoresInv
  <2>1. ASSUME NEW w \in Windows PROVE WindowInv(w)
    <3>1. mem[w] = <<>> /\ disk[w] = <<>> /\ cleared[w] = 0 /\ written = 0
      BY <1>1
    <3> QED
      BY <3>1, EmptyWindow DEF WindowInv
  <2> QED
    BY <1>1, <1>2, <2>1 DEF StoresInv, Alone
<1>5. AuditInv
  <2>1. Len(trail) = 0 /\ <<>> \in Seq(Attempts) /\ <<>> \in Seq(JobLines)
    BY <1>1, ShortSeq
  <2>2. ~SplicedIn(trail, Len(trail) + 1) /\ Lasting(trail) = {}
    BY <2>1 DEF SplicedIn, Lasting
  <2>3. LegibleIn(trail) = <<>>
    <3>1. LinesOf(trail) = <<>>
      BY <2>1 DEF LinesOf
    <3>2. Kept(<<>>, {}) \in Seq(JobLines) /\ Len(Kept(<<>>, {})) = 0
      BY <2>1, KeptOf, FS_EmptySet
    <3> QED
      BY <2>2, <3>1, <3>2, EmptySeq DEF LegibleIn
  <2> QED
    BY <1>1, <2>1, <2>2, <2>3, ReadableEmpty, EmptyEnds DEF AuditInv, AuditHolds, Torn
<1>6. EarnedInv
  BY <1>1, NothingOf DEF EarnedInv, Counted, Filed
<1>7. SpendInv
  <2>1. Out = {}
    BY <1>1 DEF Out
  <2> QED
    BY <1>1, <2>1, OutOf, FS_EmptySet DEF SpendInv
<1> QED
  BY <1>1, <1>3, <1>4, <1>5, <1>6, <1>7 DEF Inv, NoFalseAlarm

LEMMA StutterInv == ASSUME Inv, UNCHANGED vars PROVE Inv'
<1>1. UNCHANGED <<up, mem, disk, audit, job, written, trail, cleared>> /\ UNCHANGED learnVars
  BY DEF vars, storeVars
<1>2. TypeOK'
  BY <1>1 DEF Inv, TypeOK, learnVars
<1>3. Quiet(NewTasks)
  BY <1>1 DEF Quiet
<1>4. StoresInv'
  <2>1. ~up => job' = <<>>
    BY <1>1 DEF Inv, StoresInv
  <2>2. NewTasks \in SUBSET OtherTasks
    BY DEF NewTasks
  <2> QED
    BY <1>3, <2>1, <2>2, QuietInv DEF Inv
<1>5. AuditInv'
  BY <1>1 DEF Inv, AuditInv
<1>6. EarnedInv' /\ SpendInv' /\ NoFalseAlarm'
  <2>1. NoNewAnswer
    BY <1>3, QuietAnswers
  <2>2. /\ UNCHANGED <<entries, file, since, fresh, forged, alien>> /\ UNCHANGED <<asker, used, clean>>
        /\ UNCHANGED <<up, file, seen, foreign>>
    BY <1>1 DEF learnVars
  <2> QED
    BY <2>1, <2>2, EarnedSame, SpendSame DEF Inv, NoFalseAlarm
<1> QED
  BY <1>2, <1>4, <1>5, <1>6 DEF Inv

LEMMA NextInv == ASSUME Inv, [Next]_vars PROVE Inv'
<1>1. CASE Next
  BY <1>1, FilesHold, LearningHolds DEF Inv
<1>2. CASE UNCHANGED vars
  BY <1>2, StutterInv
<1> QED
  BY <1>1, <1>2

\* The files, the memory and the running operation fit together in every state.
THEOREM StoresInvariant == Spec => []Inv
BY InitInv, NextInv, PTL DEF Spec

\* Every variable stays in its type.
THEOREM StoresTyped == Spec => []TypeOK
<1>1. Inv => TypeOK
  BY DEF Inv
<1> QED
  BY <1>1, StoresInvariant, PTL

\* The audit keeps every line it reported as persisted, in order and once, through torn
\* and refused appends, trims, failed replacements and crashes (CommittedIsAudited).
THEOREM AuditIsSound == Spec => []CommittedIsAudited
<1>1. Inv => CommittedIsAudited
  <2>1. SUFFICES ASSUME Inv PROVE CommittedIsAudited
    OBVIOUS
  <2>2. Legible = LegibleIn(trail)
    BY DEF Legible, Spliced, LegibleIn, LinesOf, Lasting, SplicedIn
  <2>3. PICK x : x \in Attempts
    <3>1. [line |-> Day, how |-> "wrote"] \in Attempts
      BY LineOf DEF Attempts
    <3> QED
      BY <3>1
  <2>4. Readable(audit) \in Seq(JobLines) /\ Legible \in Seq(JobLines)
    BY <2>1, <2>2, <2>3, LoadOf, LegibleGrows DEF Inv, TypeOK
  <2>5. Ends(Readable(audit), Legible) /\ (Len(audit) < AuditMax => Readable(audit) = Legible)
    BY <2>1, <2>2 DEF Inv, AuditInv, AuditHolds
  <2> QED
    BY <2>4, <2>5, SuffixMeans DEF CommittedIsAudited
<1> QED
  BY <1>1, StoresInvariant, PTL

\* A record a confirmed clear covered never comes back, in memory or to a reader of the
\* file, through pushes, replacements and restarts (ClearedStaysCleared).
THEOREM ClearsLast == Spec => []ClearedStaysCleared
<1>1. Inv => ClearedStaysCleared
  <2>1. SUFFICES ASSUME Inv PROVE ClearedStaysCleared
    OBVIOUS
  <2>2. ASSUME NEW w \in Windows, NEW l \in Range(mem[w]) \cup Range(Readable(disk[w])) PROVE l.id > cleared[w]
    <3>1. mem[w] \in Seq(JobLines) /\ Readable(disk[w]) \in Seq(JobLines) /\ cleared[w] \in Nat
      BY <2>1, LoadOf DEF Inv, TypeOK
    <3>2. Above(cleared[w], mem[w]) /\ Above(cleared[w], Readable(disk[w]))
      BY <2>1 DEF Inv, StoresInv, WindowInv
    <3>3. In(l, mem[w]) \/ In(l, Readable(disk[w]))
      BY <2>2, <3>1, RangeIs
    <3>4. cleared[w] < l.id /\ l \in JobLines
      BY <3>1, <3>2, <3>3, ElementOfSeq DEF Above, In
    <3> QED
      BY <3>1, <3>4, LineOf
  <2> QED
    BY <2>2 DEF ClearedStaysCleared
<1> QED
  BY <1>1, StoresInvariant, PTL

\* No step but a clear takes a record from what a boot would load unless Cap newer ones
\* stand in its place: the memory that replaces a file covers it (ReplacementKeepsTheWindow).
THEOREM ReplacementIsSafe == Spec => ReplacementKeepsTheWindow
<1>. DEFINE Keeps == \A w \in Windows :
         \A l \in Range(LoadWindow(disk[w])) \ Range(LoadWindow(disk'[w])) :
           \/ job = <<>> /\ disk'[w] = <<>>
           \/ /\ Len(LoadWindow(disk'[w])) = Cap
              /\ \A n \in Range(LoadWindow(disk'[w])) : n.id > l.id
<1>1. ASSUME Inv, Next PROVE Keeps
  <2>1. TypeOK' /\ \A w \in Windows : Retains(w)
    BY <1>1, FilesHold DEF Inv
  <2>2. SUFFICES ASSUME NEW w \in Windows,
                        NEW l \in Range(LoadWindow(disk[w])) \ Range(LoadWindow(disk'[w]))
                 PROVE  \/ job = <<>> /\ disk'[w] = <<>>
                        \/ /\ Len(LoadWindow(disk'[w])) = Cap
                           /\ \A n \in Range(LoadWindow(disk'[w])) : n.id > l.id
    OBVIOUS
  <2>3. PICK old \in Seq(JobLines) : old = LoadWindow(disk[w])
    BY <1>1, LoadOf DEF Inv, TypeOK
  <2>4. PICK new \in Seq(JobLines) : new = LoadWindow(disk'[w])
    BY <2>1, LoadOf DEF TypeOK
  <2>5. In(l, old) /\ ~In(l, new)
    BY <2>2, <2>3, <2>4, RangeIs
  <2>6. CASE Covers(new, old)
    <3>1. Len(new) = Cap /\ Above(l.id, new)
      BY <2>5, <2>6 DEF Covers, In
    <3>2. \A n \in Range(new) : n \in JobLines /\ l.id < n.id
      BY <3>1, RangeIs, ElementOfSeq DEF Above, In
    <3>3. l \in JobLines
      BY <2>5, ElementOfSeq DEF In
    <3>4. \A n \in Range(new) : n.id > l.id
      BY <3>2, <3>3, LineOf
    <3> QED
      BY <2>4, <3>1, <3>4
  <2> QED
    BY <2>1, <2>3, <2>4, <2>6 DEF Retains
<1>2. ASSUME Inv, [Next]_vars PROVE [Keeps]_storeVars
  BY <1>1, <1>2 DEF vars
<1>3. ReplacementKeepsTheWindow <=> [][Keeps]_storeVars
  BY DEF ReplacementKeepsTheWindow
<1>. HIDE DEF Keeps
<1> QED
  BY <1>2, <1>3, StoresInvariant, PTL DEF Spec

\* A stored count is earned by human allows since the last revoke or denial, across failed
\* writes, evictions, crashes and parallel revokes (CountsAreEarned).
THEOREM CountsEarned == Spec => []CountsAreEarned
<1>1. Inv => CountsAreEarned
  BY DEF Inv, EarnedInv, Counted, Filed, CountsAreEarned
<1> QED
  BY <1>1, StoresInvariant, PTL

\* A tamper line is only due for a rewrite from outside (NoFalseAlarm).
THEOREM TripwireIsHonest == Spec => []NoFalseAlarm
<1>1. Inv => NoFalseAlarm
  BY DEF Inv
<1> QED
  BY <1>1, StoresInvariant, PTL

\* The allowance spent is the number of clean reviews, and passes the cap by no more than
\* the attempts that were out (SpendIsExact).
THEOREM SpendingIsExact == Spec => []SpendIsExact
<1>1. Inv => SpendIsExact
  <2>1. SUFFICES ASSUME Inv PROVE SpendIsExact
    OBVIOUS
  <2>2. used \in Nat /\ used = clean /\ used + Cardinality(Out) <= AllowCap - 1 + Cardinality(Askers)
    BY <2>1 DEF Inv, TypeOK, SpendInv
  <2> QED
    BY <2>2, OutOf DEF SpendIsExact
<1> QED
  BY <1>1, StoresInvariant, PTL
=============================================================================
