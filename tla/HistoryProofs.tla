---------------------------- MODULE HistoryProofs ----------------------------
(***************************************************************************)
(* What list_by_party promises, for every set of swaps and every limit.    *)
(*                                                                         *)
(* HistoryInv has three parts.  StoreInv: an index entry is an earlier row *)
(* of the swap it names, and the stores that write their own indexes have  *)
(* one for every row.  ListInv: what a listing has collected agrees with   *)
(* the rows, though they go on changing.  CoverInv: every swap stored when *)
(* it began is among those it has met, or Limit others not older are.      *)
(* Cutting each index at Limit keeps the last one (NewestEnough), and so   *)
(* does the cut of the merged answer (AnswerIsFull).                       *)
(***************************************************************************)
EXTENDS HistorySafety, FiniteSetTheorems, TLAPS

-----------------------------------------------------------------------------
(* Sorting *)

LEMMA UpTo ==
    ASSUME NEW n \in Nat
    PROVE  IsFiniteSet(1..n) /\ Cardinality(1..n) = n
BY FS_Interval

Distinct(s) == \A i, j \in DOMAIN s : s[i] = s[j] => i = j

\* R orders S strictly and totally.
Orders(R, S) ==
    /\ \A x \in S : <<x, x>> \notin R
    /\ \A x, y \in S : x # y => <<x, y>> \in R \/ <<y, x>> \in R
    /\ \A x, y, z \in S : <<x, y>> \in R /\ <<y, z>> \in R => <<x, z>> \in R

Ahead(R, S, x) == {y \in S : <<y, x>> \in R}

\* A finite set has a sorted sequence: an element stands behind those that
\* come before it, and no two elements are behind equally many.
LEMMA SortedExists ==
    ASSUME NEW S, IsFiniteSet(S), NEW R, Orders(R, S)
    PROVE  \E s \in SetToSeqs(S) : \A i, j \in DOMAIN s : i < j => <<s[i], s[j]>> \in R
<1> DEFINE N == Cardinality(S)
           rank == [x \in S |-> Cardinality(Ahead(R, S, x)) + 1]
           s == [n \in 1..N |-> CHOOSE x \in S : rank[x] = n]
<1>1. N \in Nat
  BY FS_CardinalityType
<1>2. ASSUME NEW x \in S PROVE IsFiniteSet(Ahead(R, S, x)) /\ Cardinality(Ahead(R, S, x)) \in 0..(N - 1)
  <2>1. Ahead(R, S, x) \in SUBSET S /\ x \notin Ahead(R, S, x)
    BY DEF Orders, Ahead
  <2>2. Ahead(R, S, x) # S
    BY <2>1
  <2> QED BY <1>1, <2>1, <2>2, FS_Subset, FS_CardinalityType
<1>3. ASSUME NEW x \in S, NEW y \in S, <<x, y>> \in R PROVE rank[x] < rank[y]
  <2>1. Ahead(R, S, x) \in SUBSET Ahead(R, S, y) /\ x \in Ahead(R, S, y) /\ x \notin Ahead(R, S, x)
    BY <1>3 DEF Orders, Ahead
  <2>2. IsFiniteSet(Ahead(R, S, y)) /\ Cardinality(Ahead(R, S, y)) \in Nat /\ Cardinality(Ahead(R, S, x)) \in Nat
    BY <1>1, <1>2
  <2>3. rank[x] = Cardinality(Ahead(R, S, x)) + 1 /\ rank[y] = Cardinality(Ahead(R, S, y)) + 1
    OBVIOUS
  <2> HIDE DEF rank
  <2>4. Ahead(R, S, x) # Ahead(R, S, y)
    BY <2>1
  <2>5. Cardinality(Ahead(R, S, x)) < Cardinality(Ahead(R, S, y))
    BY <2>1, <2>2, <2>4, FS_Subset
  <2> QED BY <2>2, <2>3, <2>5
<1>4. rank \in [S -> 1..N]
  <2>1. \A x \in S : Cardinality(Ahead(R, S, x)) + 1 \in 1..N
    BY <1>1, <1>2
  <2> QED BY <2>1
<1>5. \A x \in S : rank[x] \in Nat
  BY <1>1, <1>4
<1> HIDE DEF rank
<1>6. rank \in Injection(S, 1..N)
  <2>1. \A x, y \in S : rank[x] = rank[y] => x = y
    <3> SUFFICES ASSUME NEW x \in S, NEW y \in S, rank[x] = rank[y], x # y PROVE FALSE
      OBVIOUS
    <3>1. <<x, y>> \in R \/ <<y, x>> \in R
      BY DEF Orders
    <3>2. rank[x] < rank[y] \/ rank[y] < rank[x]
      BY <1>3, <3>1
    <3> QED BY <1>5, <3>2
  <2> QED BY <1>4, <2>1 DEF Injection, IsInjective
<1>7. rank \in Surjection(S, 1..N)
  <2>1. IsFiniteSet(1..N) /\ Cardinality(1..N) = N
    BY <1>1, FS_Interval
  <2> QED BY <1>6, <2>1, FS_Injection
<1>8. \A n \in 1..N : s[n] \in S /\ rank[s[n]] = n
  BY <1>7 DEF Surjection
<1>9. s \in [1..N -> S] /\ DOMAIN s = 1..N
  BY <1>8
<1> HIDE DEF s
<1>10. s \in SetToSeqs(S)
  BY <1>8, <1>9 DEF SetToSeqs
<1>11. ASSUME NEW i \in 1..N, NEW j \in 1..N, i < j PROVE <<s[i], s[j]>> \in R
  <2>1. s[i] # s[j] /\ s[i] \in S /\ s[j] \in S
    BY <1>8, <1>11
  <2>2. CASE <<s[j], s[i]>> \in R
    <3>1. j < i
      BY <1>3, <1>8, <2>1, <2>2
    <3> QED BY <1>1, <1>11, <3>1
  <2> QED BY <2>1, <2>2 DEF Orders
<1> QED BY <1>9, <1>10, <1>11

\* What Sorted returns: every member of S, once, in order.
LEMMA SortedSeq ==
    ASSUME NEW S, IsFiniteSet(S), NEW R, Orders(R, S)
    PROVE  /\ Sorted(S, R) \in Seq(S) /\ Distinct(Sorted(S, R))
           /\ Len(Sorted(S, R)) = Cardinality(S)
           /\ \A i, j \in DOMAIN Sorted(S, R) :
                 i < j => <<Sorted(S, R)[i], Sorted(S, R)[j]>> \in R
           /\ \A x \in S : \E i \in DOMAIN Sorted(S, R) : Sorted(S, R)[i] = x
<1> DEFINE s == Sorted(S, R)
           N == Cardinality(S)
<1>1. s \in SetToSeqs(S) /\ \A i, j \in DOMAIN s : i < j => <<s[i], s[j]>> \in R
  BY SortedExists DEF Sorted
<1>2. N \in Nat
  BY FS_CardinalityType
<1> HIDE DEF s
<1>3. s \in [1..N -> S] /\ \A i, j \in 1..N : i # j => s[i] # s[j]
  BY <1>1 DEF SetToSeqs
<1>4. s \in Seq(S) /\ DOMAIN s = 1..N /\ Len(s) = N
  BY <1>2, <1>3
<1>5. s \in Injection(1..N, S)
  BY <1>3 DEF Injection, IsInjective
<1>6. s \in Surjection(1..N, S)
  <2>1. Cardinality(1..N) = N
    BY <1>2, FS_Interval
  <2> QED BY <1>5, <2>1, FS_Injection
<1>7. \A x \in S : \E i \in 1..N : s[i] = x
  BY <1>6 DEF Surjection
<1> QED BY <1>1, <1>3, <1>4, <1>7 DEF s, Distinct

Members(s) == {s[i] : i \in DOMAIN s}

\* A sequence without repetitions has as many members as elements.
LEMMA MembersCard ==
    ASSUME NEW X, NEW s \in Seq(X), Distinct(s)
    PROVE  IsFiniteSet(Members(s)) /\ Cardinality(Members(s)) = Len(s)
<1>1. Len(s) \in Nat /\ DOMAIN s = 1..Len(s)
  OBVIOUS
<1>2. s \in [1..Len(s) -> Members(s)]
  BY <1>1 DEF Members
<1>3. s \in Bijection(1..Len(s), Members(s))
  <2>1. s \in Injection(1..Len(s), Members(s))
    BY <1>1, <1>2 DEF Injection, IsInjective, Distinct
  <2>2. s \in Surjection(1..Len(s), Members(s))
    BY <1>1, <1>2 DEF Surjection, Members
  <2> QED BY <2>1, <2>2 DEF Bijection
<1>4. IsFiniteSet(1..Len(s)) /\ Cardinality(1..Len(s)) = Len(s)
  BY <1>1, FS_Interval
<1>5. ExistsBijection(1..Len(s), Members(s))
  BY <1>3 DEF ExistsBijection
<1> QED BY <1>4, <1>5, FS_Bijection

LEMMA CappedSeq ==
    ASSUME NEW X, NEW s \in Seq(X)
    PROVE  /\ Capped(s) \in Seq(X)
           /\ Len(Capped(s)) = (IF Len(s) < Limit THEN Len(s) ELSE Limit)
           /\ \A i \in DOMAIN Capped(s) : i \in DOMAIN s /\ Capped(s)[i] = s[i]
           /\ Distinct(s) => Distinct(Capped(s))
<1> DEFINE n == IF Len(s) < Limit THEN Len(s) ELSE Limit
<1>1. n \in 0..Len(s) /\ Len(s) \in Nat
  BY HistoryAssumption
<1>2. Capped(s) = SubSeq(s, 1, n)
  BY DEF Capped
<1> HIDE DEF n
<1>3. /\ SubSeq(s, 1, n) \in Seq(X) /\ Len(SubSeq(s, 1, n)) = n
      /\ \A i \in 1..n : SubSeq(s, 1, n)[i] = s[i]
  BY <1>1
<1>4. DOMAIN Capped(s) = 1..n /\ DOMAIN s = 1..Len(s)
  BY <1>2, <1>3
<1>5. \A i \in DOMAIN Capped(s) : i \in DOMAIN s /\ Capped(s)[i] = s[i]
  BY <1>1, <1>2, <1>3, <1>4
<1> QED BY <1>2, <1>3, <1>5 DEF n, Distinct

\* The cap keeps the front: what it drops comes after everything it keeps.
LEMMA CappedSorted ==
    ASSUME NEW S, IsFiniteSet(S), NEW R, Orders(R, S), NEW x \in S
    PROVE  \/ x \in Members(Capped(Sorted(S, R)))
           \/ /\ Len(Capped(Sorted(S, R))) = Limit
              /\ \A i \in DOMAIN Capped(Sorted(S, R)) : <<Capped(Sorted(S, R))[i], x>> \in R
<1> DEFINE s == Sorted(S, R)
           t == Capped(s)
<1>1. /\ s \in Seq(S) /\ \A i, j \in DOMAIN s : i < j => <<s[i], s[j]>> \in R
      /\ \A y \in S : \E i \in DOMAIN s : s[i] = y
  BY SortedSeq
<1>2. PICK m \in DOMAIN s : s[m] = x
  BY <1>1
<1> HIDE DEF s
<1>3. /\ t \in Seq(S) /\ Len(t) = (IF Len(s) < Limit THEN Len(s) ELSE Limit)
      /\ \A i \in DOMAIN t : i \in DOMAIN s /\ t[i] = s[i]
  BY <1>1, CappedSeq
<1>4. DOMAIN s = 1..Len(s) /\ DOMAIN t = 1..Len(t) /\ Len(s) \in Nat /\ Limit \in Nat
  BY <1>1, <1>3, HistoryAssumption
<1> HIDE DEF t
<1>5. CASE m \in DOMAIN t
  BY <1>2, <1>3, <1>5 DEF Members, s, t
<1>6. CASE m \notin DOMAIN t
  <2>1. Len(t) = Limit /\ \A i \in DOMAIN t : i < m
    BY <1>2, <1>3, <1>4, <1>6
  <2>2. \A i \in DOMAIN t : <<t[i], x>> \in R
    BY <1>1, <1>2, <1>3, <2>1
  <2> QED BY <2>1, <2>2 DEF s, t
<1> QED BY <1>5, <1>6

LEMMA Ascending ==
    ASSUME NEW n \in Nat, NEW P \in SUBSET (1..n)
    PROVE  IsFiniteSet(P) /\ Orders({p \in P \X P : p[1] < p[2]}, P)
<1>0. IsFiniteSet(1..n)
  BY FS_Interval
<1>1. IsFiniteSet(P)
  BY <1>0, FS_Subset
<1> DEFINE R == {p \in P \X P : p[1] < p[2]}
<1>2. \A x, y \in P : <<x, y>> \in R <=> x < y
  OBVIOUS
<1>3. \A x \in P : x \in Int
  OBVIOUS
<1> HIDE DEF R
<1>4. Orders(R, P)
  BY <1>2, <1>3 DEF Orders
<1> QED BY <1>1, <1>4 DEF R

\* Taken keeps the elements at P and nothing else.
LEMMA TakenSeq ==
    ASSUME NEW X, NEW s \in Seq(X), NEW P \in SUBSET DOMAIN s
    PROVE  /\ Taken(s, P) \in Seq(X) /\ (Distinct(s) => Distinct(Taken(s, P)))
           /\ Members(Taken(s, P)) = {s[p] : p \in P}
<1> DEFINE R == {p \in P \X P : p[1] < p[2]}
           o == Sorted(P, R)
<1>0. DOMAIN s = 1..Len(s) /\ Len(s) \in Nat
  OBVIOUS
<1>1. IsFiniteSet(P) /\ Orders(R, P)
  BY <1>0, Ascending
<1>2. Taken(s, P) = [n \in DOMAIN o |-> s[o[n]]]
  BY DEF Taken
<1> HIDE DEF R
<1>3. /\ o \in Seq(P) /\ Distinct(o) /\ Len(o) = Cardinality(P)
      /\ \A x \in P : \E i \in DOMAIN o : o[i] = x
  BY <1>1, SortedSeq
<1> HIDE DEF o
<1>4. DOMAIN o = 1..Len(o) /\ Len(o) \in Nat /\ \A n \in DOMAIN o : o[n] \in P
  BY <1>3
<1>5. \A n \in DOMAIN o : s[o[n]] \in X
  BY <1>4
<1>6. Taken(s, P) \in Seq(X) /\ DOMAIN Taken(s, P) = DOMAIN o
  BY <1>2, <1>4, <1>5
<1>7. Distinct(s) => Distinct(Taken(s, P))
  BY <1>2, <1>3, <1>4 DEF Distinct
<1>8. Members(Taken(s, P)) = {s[p] : p \in P}
  BY <1>2, <1>3, <1>4 DEF Members
<1> QED BY <1>6, <1>7, <1>8

-----------------------------------------------------------------------------
(* The answer *)

\* The order of sort_by: newest first, stable.
Stable(out) ==
    {p \in (DOMAIN out) \X (DOMAIN out) :
        \/ out[p[1]].created > out[p[2]].created
        \/ out[p[1]].created = out[p[2]].created /\ p[1] < p[2]}

LEMMA StableOrders ==
    ASSUME NEW out \in Seq(Summary)
    PROVE  /\ IsFiniteSet(DOMAIN out) /\ Cardinality(DOMAIN out) = Len(out)
           /\ Orders(Stable(out), DOMAIN out)
           /\ \A i, j \in DOMAIN out : <<i, j>> \in Stable(out) => out[i].created >= out[j].created
           /\ \A i \in DOMAIN out : out[i].created \in Nat
<1>1. DOMAIN out = 1..Len(out) /\ Len(out) \in Nat
  OBVIOUS
<1>2. IsFiniteSet(DOMAIN out) /\ Cardinality(DOMAIN out) = Len(out)
  BY <1>1, FS_Interval
<1>3. \A i \in DOMAIN out : out[i].created \in Nat /\ i \in Nat
  <2>1. \A i \in DOMAIN out : out[i] \in Summary
    OBVIOUS
  <2>2. \A e \in Summary : e.created \in Nat
    BY HistoryAssumption DEF Summary
  <2> QED BY <1>1, <2>1, <2>2
<1>4. \A i, j \in DOMAIN out : <<i, j>> \in Stable(out) <=>
         out[i].created > out[j].created \/ (out[i].created = out[j].created /\ i < j)
  BY DEF Stable
<1>5. Orders(Stable(out), DOMAIN out)
  <2>1. \A i \in DOMAIN out : <<i, i>> \notin Stable(out)
    BY <1>3, <1>4
  <2>2. \A i, j \in DOMAIN out : i # j => <<i, j>> \in Stable(out) \/ <<j, i>> \in Stable(out)
    BY <1>3, <1>4
  <2>3. ASSUME NEW i \in DOMAIN out, NEW j \in DOMAIN out, NEW k \in DOMAIN out,
               <<i, j>> \in Stable(out), <<j, k>> \in Stable(out)
        PROVE  <<i, k>> \in Stable(out)
    <3>1. /\ out[i].created \in Nat /\ out[j].created \in Nat /\ out[k].created \in Nat
          /\ i \in Nat /\ j \in Nat /\ k \in Nat
      BY <1>3
    <3>2. /\ out[i].created > out[j].created \/ (out[i].created = out[j].created /\ i < j)
          /\ out[j].created > out[k].created \/ (out[j].created = out[k].created /\ j < k)
      BY <1>4, <2>3
    <3>3. out[i].created > out[k].created \/ (out[i].created = out[k].created /\ i < k)
      BY <3>1, <3>2
    <3> QED BY <1>4, <3>3
  <2> QED BY <2>1, <2>2, <2>3 DEF Orders
<1> QED BY <1>2, <1>3, <1>4, <1>5

\* The answer is some of the entries, each once, sorted ...
LEMMA AnswerSeq ==
    ASSUME NEW out \in Seq(Summary)
    PROVE  \E o \in Seq(DOMAIN out) :
              /\ Distinct(o) /\ Len(o) = Len(out)
              /\ \A p \in DOMAIN out : \E i \in DOMAIN o : o[i] = p
              /\ \A i, j \in DOMAIN o : i < j => out[o[i]].created >= out[o[j]].created
              /\ Answer(out) \in Seq(Summary)
              /\ Len(Answer(out)) = (IF Len(out) < Limit THEN Len(out) ELSE Limit)
              /\ \A i \in DOMAIN Answer(out) :
                    i \in DOMAIN o /\ o[i] \in DOMAIN out /\ Answer(out)[i] = out[o[i]]
<1> DEFINE o == Sorted(DOMAIN out, Stable(out))
           all == [n \in DOMAIN o |-> out[o[n]]]
<1>1. /\ o \in Seq(DOMAIN out) /\ Distinct(o) /\ Len(o) = Len(out)
      /\ \A i, j \in DOMAIN o : i < j => <<o[i], o[j]>> \in Stable(out)
      /\ \A p \in DOMAIN out : \E i \in DOMAIN o : o[i] = p
  BY StableOrders, SortedSeq
<1>2. Answer(out) = Capped(all)
  BY DEF Answer, NewestFirst, Stable
<1> HIDE DEF o
<1>3. DOMAIN o = 1..Len(out) /\ \A n \in DOMAIN o : o[n] \in DOMAIN out
  BY <1>1
<1>4. \A i, j \in DOMAIN o : i < j => out[o[i]].created >= out[o[j]].created
  BY <1>1, <1>3, StableOrders
<1>5. all \in Seq(Summary) /\ Len(all) = Len(out) /\ DOMAIN all = DOMAIN o
  <2>1. \A n \in DOMAIN o : out[o[n]] \in Summary
    BY <1>3
  <2>2. Len(out) \in Nat
    OBVIOUS
  <2> QED BY <1>3, <2>1, <2>2
<1>6. \A n \in DOMAIN o : all[n] = out[o[n]]
  OBVIOUS
<1> HIDE DEF all
<1>7. /\ Capped(all) \in Seq(Summary)
      /\ Len(Capped(all)) = (IF Len(out) < Limit THEN Len(out) ELSE Limit)
      /\ \A i \in DOMAIN Capped(all) : i \in DOMAIN all /\ Capped(all)[i] = all[i]
  BY <1>5, CappedSeq
<1>8. \A i \in DOMAIN Answer(out) :
         i \in DOMAIN o /\ o[i] \in DOMAIN out /\ Answer(out)[i] = out[o[i]]
  BY <1>2, <1>3, <1>5, <1>6, <1>7
<1>9. /\ Answer(out) \in Seq(Summary)
      /\ Len(Answer(out)) = (IF Len(out) < Limit THEN Len(out) ELSE Limit)
  BY <1>2, <1>7
<1> QED BY <1>1, <1>4, <1>8, <1>9

\* ... and never leaves out an entry for an older one.
LEMMA AnswerKeepsNewest ==
    ASSUME NEW out \in Seq(Summary), NEW p \in DOMAIN out
    PROVE  \/ \E i \in DOMAIN Answer(out) : Answer(out)[i] = out[p]
           \/ /\ Len(Answer(out)) = Limit
              /\ \A i \in DOMAIN Answer(out) : Answer(out)[i].created >= out[p].created
<1> DEFINE a == Answer(out)
<1>1. PICK o \in Seq(DOMAIN out) :
              /\ Distinct(o) /\ Len(o) = Len(out)
              /\ \A q \in DOMAIN out : \E i \in DOMAIN o : o[i] = q
              /\ \A i, j \in DOMAIN o : i < j => out[o[i]].created >= out[o[j]].created
              /\ a \in Seq(Summary)
              /\ Len(a) = (IF Len(out) < Limit THEN Len(out) ELSE Limit)
              /\ \A i \in DOMAIN a :
                    i \in DOMAIN o /\ o[i] \in DOMAIN out /\ a[i] = out[o[i]]
  BY AnswerSeq
<1>2. PICK m \in DOMAIN o : o[m] = p
  BY <1>1
<1> HIDE DEF a
<1>3. DOMAIN a = 1..Len(a) /\ DOMAIN o = 1..Len(out) /\ Len(out) \in Nat /\ Limit \in Nat
  BY <1>1, HistoryAssumption
<1>4. CASE m \in DOMAIN a
  BY <1>1, <1>2, <1>4 DEF a
<1>5. CASE m \notin DOMAIN a
  <2>0. Len(a) = (IF Len(out) < Limit THEN Len(out) ELSE Limit)
    BY <1>1
  <2>1. Len(a) = Limit /\ \A i \in DOMAIN a : i < m
    BY <1>3, <1>5, <2>0
  <2> QED BY <1>1, <1>2, <2>1 DEF a
<1> QED BY <1>4, <1>5

\* With Limit entries from time x on, the answer is full of such entries.
LEMMA AnswerIsFull ==
    ASSUME NEW out \in Seq(Summary), NEW x \in Nat, NEW P \in SUBSET DOMAIN out,
           \A p \in P : out[p].created >= x, Cardinality(P) >= Limit
    PROVE  /\ Len(Answer(out)) = Limit
           /\ \A i \in DOMAIN Answer(out) : Answer(out)[i].created >= x
<1> DEFINE a == Answer(out)
<1>1. PICK o \in Seq(DOMAIN out) :
              /\ Distinct(o) /\ Len(o) = Len(out)
              /\ \A q \in DOMAIN out : \E i \in DOMAIN o : o[i] = q
              /\ \A i, j \in DOMAIN o : i < j => out[o[i]].created >= out[o[j]].created
              /\ a \in Seq(Summary)
              /\ Len(a) = (IF Len(out) < Limit THEN Len(out) ELSE Limit)
              /\ \A i \in DOMAIN a :
                    i \in DOMAIN o /\ o[i] \in DOMAIN out /\ a[i] = out[o[i]]
  BY AnswerSeq
<1> HIDE DEF a
<1>2. DOMAIN a = 1..Len(a) /\ DOMAIN o = 1..Len(out) /\ Len(out) \in Nat /\ Limit \in Nat
  BY <1>1, HistoryAssumption
<1>3. /\ IsFiniteSet(P) /\ Cardinality(P) \in Nat /\ Cardinality(P) <= Len(out)
  BY StableOrders, FS_Subset, FS_CardinalityType
<1>4. Len(a) = Limit
  <2>1. Len(a) = (IF Len(out) < Limit THEN Len(out) ELSE Limit)
    BY <1>1
  <2> QED BY <1>2, <1>3, <2>1
<1>5. ASSUME NEW i \in DOMAIN a, ~(a[i].created >= x) PROVE FALSE
  <2> DEFINE at == [p \in P |-> CHOOSE m \in DOMAIN o : o[m] = p]
  <2>1. \A p \in P : at[p] \in DOMAIN o /\ o[at[p]] = p
    BY <1>1
  <2>2. DOMAIN at = P
    OBVIOUS
  <2> HIDE DEF at
  <2>3. out[o[i]].created \in Nat /\ out[o[i]].created < x /\ i \in DOMAIN o
    <3>1. o[i] \in DOMAIN out /\ a[i] = out[o[i]] /\ i \in DOMAIN o
      BY <1>1
    <3>2. out[o[i]].created \in Nat
      BY <3>1, StableOrders
    <3> QED BY <1>5, <3>1, <3>2
  <2>4. ASSUME NEW p \in P PROVE at[p] \in 1..(i - 1)
    <3>1. out[p].created >= x /\ out[p].created \in Nat
      BY StableOrders
    <3>2. i # at[p]
      BY <2>1, <2>3, <3>1
    <3>3. ~(i < at[p])
      <4>1. i < at[p] => out[o[i]].created >= out[p].created
        BY <1>1, <2>1, <2>3
      <4> QED BY <2>3, <3>1, <4>1
    <3>4. at[p] \in 1..Len(out) /\ i \in 1..Len(out)
      BY <1>2, <2>1, <2>3
    <3> QED BY <1>2, <3>2, <3>3, <3>4
  <2>5. at \in Injection(P, 1..(i - 1))
    <3>1. at \in [P -> 1..(i - 1)]
      BY <2>1, <2>2, <2>4 DEF at
    <3> QED BY <2>1, <2>2, <3>1 DEF Injection, IsInjective
  <2>6. IsFiniteSet(1..(i - 1)) /\ Cardinality(1..(i - 1)) = i - 1
    <3>1. i - 1 \in Nat
      BY <1>2, <1>4
    <3> QED BY <3>1, UpTo
  <2>7. Cardinality(P) <= i - 1
    BY <2>5, <2>6, FS_Injection
  <2> QED BY <1>2, <1>3, <1>4, <2>7
<1> QED BY <1>4, <1>5 DEF a

-----------------------------------------------------------------------------
(* The invariant *)

RowMap == [Swaps -> Row \union {Absent}]

\* b is a row of the swap that a is a row of, not an older one.
Older(a, b) ==
    a # Absent => /\ b # Absent
                  /\ b.bob = a.bob /\ b.alice = a.alice /\ b.created = a.created
                  /\ a.version <= b.version

\* An index holds rows of the table, possibly old ones; the three stores that
\* write it themselves have an entry for every row.
StoreInv ==
    /\ store \in Stores /\ clock \in 0..MaxClock
    /\ rows \in RowMap /\ index \in [Roles -> RowMap]
    /\ \A role \in Roles, id \in Swaps :
          /\ Older(index[role][id], rows[id])
          /\ store # "dynamodb" /\ rows[id] # Absent => index[role][id] # Absent

Call ==
    [pc : {"idle", "bob", "alice", "rows", "done"}, fp : Parties, ids : Seq(Swaps),
     out : Seq(Summary), began : RowMap]

\* An entry names a swap of the party, and shows it as it was at some time
\* since the listing began.
EntryOk(e, c, R, st) ==
    /\ Took(R[e.id], c.fp)
    /\ e.role = RoleOf(R[e.id], c.fp) /\ e.created = R[e.id].created
    /\ st # "dynamodb" =>
          /\ e.version <= R[e.id].version
          /\ c.began[e.id] # Absent => c.began[e.id].version <= e.version

OneEach(out) == \A i, j \in DOMAIN out : out[i].id = out[j].id => i = j

ListInv(c, R, st) ==
    /\ c \in Call
    /\ \A id \in Swaps : Older(c.began[id], R[id])
    /\ \A i \in DOMAIN c.ids : Took(R[c.ids[i]], c.fp)
    /\ \A i \in DOMAIN c.out : EntryOk(c.out[i], c, R, st)
    /\ OneEach(c.out)
    /\ c.pc \in {"idle", "bob"} => c.ids = <<>> /\ c.out = <<>>
    /\ st = "dynamodb" => c.ids = <<>>
    /\ c.pc = "rows" => c.ids # <<>>
    /\ c.pc = "done" =>
          /\ c.ids = <<>> /\ Len(c.out) <= Limit
          /\ \A i, j \in DOMAIN c.out : i < j => c.out[i].created >= c.out[j].created

\* The swaps a listing has met.
Have(c) == Members(c.ids) \union {c.out[i].id : i \in DOMAIN c.out}

\* It has Limit of them from time x on.
Enough(H, R, x) ==
    \E T \in SUBSET H : /\ IsFiniteSet(T) /\ Cardinality(T) >= Limit
                       /\ \A h \in T : R[h] # Absent /\ R[h].created >= x

\* A swap on this side of which the party was is met or not needed.
Covers(H, c, R, role) ==
    \A id \in Swaps : c.began[id] # Absent /\ c.began[id][role] = c.fp =>
        id \in H \/ Enough(H, R, c.began[id].created)

\* The same of the answer: HistoryComplete.
Complete(c) ==
    \A id \in Swaps : Took(c.began[id], c.fp) =>
        \/ \E i \in DOMAIN c.out : c.out[i].id = id
        \/ /\ Len(c.out) = Limit
           /\ \A i \in DOMAIN c.out : c.out[i].created >= c.began[id].created

\* The backends that read an index to its end, or to the limit.
Whole == {"memory", "redis"}

CoverInv(c, R, st) ==
    st \in Whole =>
        /\ c.pc = "alice" => Covers(Have(c), c, R, "bob")
        /\ c.pc = "rows" => Covers(Have(c), c, R, "bob") /\ Covers(Have(c), c, R, "alice")
        /\ c.pc = "done" => Complete(c)

HistoryInv ==
    /\ StoreInv
    /\ ListInv(call, rows, store)
    /\ CoverInv(call, rows, store)

LEMMA RowParts ==
    ASSUME NEW r \in Row
    PROVE  /\ r.bob \in Parties /\ r.alice \in Parties /\ r.created \in 0..MaxClock
           /\ r.created \in Nat /\ r.version \in Nat \ {0} /\ r # Absent
           /\ r["bob"] = r.bob /\ r["alice"] = r.alice
<1>1. r # Absent
  BY AbsentAssumption
<1> QED BY <1>1, HistoryAssumption DEF Row

\* What the rows are never takes anything back from a listing.
LEMMA ListGrows ==
    ASSUME NEW c, NEW R \in RowMap, NEW Q \in RowMap, NEW st,
           \A id \in Swaps : Older(R[id], Q[id]),
           ListInv(c, R, st), CoverInv(c, R, st)
    PROVE  ListInv(c, Q, st) /\ CoverInv(c, Q, st)
<1>1. c \in Call
  BY DEF ListInv
<1>2. /\ c.ids \in Seq(Swaps) /\ c.out \in Seq(Summary) /\ c.began \in RowMap
      /\ \A i \in DOMAIN c.out : c.out[i].id \in Swaps /\ c.out[i].version \in Nat
      /\ \A i \in DOMAIN c.ids : c.ids[i] \in Swaps
  <2>1. c.ids \in Seq(Swaps) /\ c.out \in Seq(Summary) /\ c.began \in RowMap
    BY <1>1 DEF Call
  <2>2. \A e \in Summary : e.id \in Swaps /\ e.version \in Nat
    BY DEF Summary
  <2>3. \A i \in DOMAIN c.out : c.out[i] \in Summary
    BY <2>1
  <2> QED BY <2>1, <2>2, <2>3
<1>3. \A id \in Swaps : /\ R[id] # Absent => R[id].version \in Nat
                        /\ Q[id] # Absent => Q[id].version \in Nat
                        /\ c.began[id] # Absent => c.began[id].version \in Nat
  BY <1>2, RowParts DEF RowMap
<1>4. \A id \in Swaps : Older(c.began[id], Q[id])
  BY <1>3 DEF ListInv, Older
<1>5. ASSUME NEW i \in DOMAIN c.out PROVE EntryOk(c.out[i], c, Q, st)
  <2>1. EntryOk(c.out[i], c, R, st)
    BY DEF ListInv
  <2> DEFINE e == c.out[i]
  <2>2. e.id \in Swaps /\ e.version \in Nat /\ Older(R[e.id], Q[e.id])
    BY <1>2
  <2>3. R[e.id] # Absent => R[e.id].version \in Nat /\ Q[e.id].version \in Nat
    BY <1>3, <2>2 DEF Older
  <2> HIDE DEF e
  <2> QED BY <2>1, <2>2, <2>3 DEF EntryOk, Took, RoleOf, Older, e
<1>6. \A i \in DOMAIN c.ids : Took(Q[c.ids[i]], c.fp)
  BY <1>2 DEF ListInv, Took, Older
<1>7. ListInv(c, Q, st)
  BY <1>1, <1>4, <1>5, <1>6 DEF ListInv
<1>8. \A x : Enough(Have(c), R, x) => Enough(Have(c), Q, x)
  <2>1. Have(c) \subseteq Swaps
    BY <1>2 DEF Have, Members
  <2> QED BY <2>1 DEF Enough, Older
<1>9. CoverInv(c, Q, st)
  BY <1>8 DEF CoverInv, Covers
<1> QED BY <1>7, <1>9

-----------------------------------------------------------------------------
(* Index reads *)

LEMMA SameSide ==
    ASSUME NEW a \in Row, NEW b \in Row, a.bob = b.bob, a.alice = b.alice,
           NEW role \in Roles, NEW fp
    PROVE  a[role] = b[role] /\ (a[role] = fp => Took(b, fp)) /\ RoleOf(a, fp) = RoleOf(b, fp)
BY RowParts DEF Roles, Took, RoleOf

\* An indexed swap is a stored swap of the party.
LEMMA IndexedRow ==
    ASSUME StoreInv, NEW role \in Roles, NEW fp, NEW id \in Indexed(role, fp)
    PROVE  /\ id \in Swaps /\ id \in Nat /\ rows[id] \in Row /\ index[role][id] \in Row
           /\ Took(rows[id], fp) /\ rows[id][role] = fp
           /\ Created(role, id) = rows[id].created /\ rows[id].created \in Nat
           /\ RoleOf(index[role][id], fp) = RoleOf(rows[id], fp)
           /\ index[role][id].created = rows[id].created
<1>1. id \in Swaps /\ index[role][id] # Absent /\ index[role][id][role] = fp
  BY DEF Indexed
<1>2. index[role][id] \in Row /\ Older(index[role][id], rows[id])
  BY <1>1 DEF StoreInv, RowMap
<1>3. rows[id] \in Row
  BY <1>1, <1>2 DEF StoreInv, RowMap, Older
<1>4. /\ index[role][id].bob = rows[id].bob /\ index[role][id].alice = rows[id].alice
      /\ index[role][id].created = rows[id].created
  BY <1>1, <1>2 DEF Older
<1>5. rows[id].created \in Nat
  BY <1>3, RowParts
<1>6. /\ index[role][id][role] = rows[id][role] /\ Took(rows[id], fp)
      /\ RoleOf(index[role][id], fp) = RoleOf(rows[id], fp)
  BY <1>1, <1>2, <1>3, <1>4, SameSide
<1> QED BY <1>1, <1>2, <1>3, <1>4, <1>5, <1>6, HistoryAssumption DEF Created

LEMMA BeforeOrders ==
    ASSUME StoreInv, NEW role \in Roles, NEW fp
    PROVE  LET ids == Indexed(role, fp)
               R == {p \in ids \X ids : Before(role, p[1], p[2])}
           IN  /\ IsFiniteSet(ids) /\ Orders(R, ids)
               /\ \A i, j \in ids : <<i, j>> \in R => rows[i].created >= rows[j].created
<1> DEFINE ids == Indexed(role, fp)
           R == {p \in ids \X ids : Before(role, p[1], p[2])}
<1>1. IsFiniteSet(ids)
  <2>1. ids \in SUBSET Swaps
    BY DEF Indexed
  <2> QED BY <2>1, HistoryAssumption, FS_Subset
<1>2. \A i \in ids : i \in Nat /\ Created(role, i) = rows[i].created /\ rows[i].created \in Nat
  BY IndexedRow
<1>3. \A i, j \in ids : <<i, j>> \in R <=>
         \/ rows[i].created > rows[j].created
         \/ rows[i].created = rows[j].created /\ (IF store = "memory" THEN i < j ELSE i > j)
  BY <1>2 DEF Before
<1> HIDE DEF R, ids
<1>4. \A i \in ids : <<i, i>> \notin R
  BY <1>2, <1>3
<1>5. \A i, j \in ids : i # j => <<i, j>> \in R \/ <<j, i>> \in R
  BY <1>2, <1>3
<1>6. ASSUME NEW i \in ids, NEW j \in ids, NEW k \in ids, <<i, j>> \in R, <<j, k>> \in R
      PROVE  <<i, k>> \in R
  <2>1. /\ i \in Nat /\ j \in Nat /\ k \in Nat
        /\ rows[i].created \in Nat /\ rows[j].created \in Nat /\ rows[k].created \in Nat
    BY <1>2
  <2>2. /\ \/ rows[i].created > rows[j].created
           \/ rows[i].created = rows[j].created /\ (IF store = "memory" THEN i < j ELSE i > j)
        /\ \/ rows[j].created > rows[k].created
           \/ rows[j].created = rows[k].created /\ (IF store = "memory" THEN j < k ELSE j > k)
    BY <1>3, <1>6
  <2>3. \/ rows[i].created > rows[k].created
        \/ rows[i].created = rows[k].created /\ (IF store = "memory" THEN i < k ELSE i > k)
    BY <2>1, <2>2
  <2> QED BY <1>3, <2>3
<1>7. \A i, j \in ids : <<i, j>> \in R => rows[i].created >= rows[j].created
  BY <1>2, <1>3
<1> QED BY <1>1, <1>4, <1>5, <1>6, <1>7 DEF Orders, R, ids

\* An index read returns swaps of the party, each once; one it leaves out has
\* Limit others that are not older before it.
LEMMA NewestSeq ==
    ASSUME StoreInv, NEW role \in Roles, NEW fp
    PROVE  LET n == Newest(role, fp)
           IN  /\ n \in Seq(Indexed(role, fp)) /\ n \in Seq(Swaps) /\ Distinct(n)
               /\ \A id \in Indexed(role, fp) :
                     \/ id \in Members(n)
                     \/ /\ Len(n) = Limit
                        /\ \A i \in DOMAIN n : rows[n[i]].created >= rows[id].created
<1> DEFINE ids == Indexed(role, fp)
           R == {p \in ids \X ids : Before(role, p[1], p[2])}
           s == Sorted(ids, R)
           n == Newest(role, fp)
<1>1. /\ IsFiniteSet(ids) /\ Orders(R, ids)
      /\ \A i, j \in ids : <<i, j>> \in R => rows[i].created >= rows[j].created
  BY BeforeOrders
<1>2. n = Capped(s)
  BY DEF Newest
<1>0. ids \subseteq Swaps
  BY DEF Indexed
<1> HIDE DEF R, ids
<1>3. s \in Seq(ids) /\ Distinct(s)
  BY <1>1, SortedSeq
<1>4. \A id \in ids : \/ id \in Members(Capped(s))
                      \/ /\ Len(Capped(s)) = Limit
                         /\ \A i \in DOMAIN Capped(s) : <<Capped(s)[i], id>> \in R
  BY <1>1, CappedSorted
<1> HIDE DEF s
<1>5. n \in Seq(ids) /\ Distinct(n)
  BY <1>2, <1>3, CappedSeq
<1> HIDE DEF n
<1>6. \A i \in DOMAIN n : n[i] \in ids
  BY <1>5
<1>7. n \in Seq(Swaps)
  BY <1>0, <1>5
<1>8. ASSUME NEW id \in ids PROVE \/ id \in Members(n)
                                  \/ /\ Len(n) = Limit
                                     /\ \A i \in DOMAIN n : rows[n[i]].created >= rows[id].created
  BY <1>1, <1>2, <1>4, <1>6
<1> QED BY <1>5, <1>7, <1>8 DEF n, ids

\* With a full index read, there is enough.
LEMMA NewestEnough ==
    ASSUME StoreInv, NEW role \in Roles, NEW fp, NEW H, NEW x \in Nat,
           Members(Newest(role, fp)) \subseteq H, Len(Newest(role, fp)) = Limit,
           \A i \in DOMAIN Newest(role, fp) : rows[Newest(role, fp)[i]].created >= x
    PROVE  Enough(H, rows, x)
<1> DEFINE n == Newest(role, fp)
<1>1. n \in Seq(Indexed(role, fp)) /\ Distinct(n)
  BY NewestSeq
<1>2. \A i \in DOMAIN n : rows[n[i]] # Absent
  BY <1>1, IndexedRow DEF Took
<1> HIDE DEF n
<1>3. IsFiniteSet(Members(n)) /\ Cardinality(Members(n)) = Limit
  BY <1>1, MembersCard DEF n
<1>4. \A h \in Members(n) : rows[h] # Absent /\ rows[h].created >= x
  BY <1>2 DEF Members, n
<1>5. Members(n) \in SUBSET H /\ Cardinality(Members(n)) >= Limit
  BY <1>3, HistoryAssumption DEF n
<1> QED BY <1>3, <1>4, <1>5 DEF Enough

\* A swap the party had when the listing began is in the index.
LEMMA BeganIndexed ==
    ASSUME StoreInv, store # "dynamodb", NEW b \in RowMap, NEW fp, NEW role \in Roles,
           NEW id \in Swaps, Older(b[id], rows[id]), b[id] # Absent, b[id][role] = fp
    PROVE  id \in Indexed(role, fp) /\ b[id].created = rows[id].created
<1>1. b[id] \in Row /\ rows[id] \in Row
  BY DEF RowMap, StoreInv, Older
<1>2. /\ b[id].bob = rows[id].bob /\ b[id].alice = rows[id].alice
      /\ b[id].created = rows[id].created
  BY DEF Older
<1>3. rows[id][role] = fp
  BY <1>1, <1>2, SameSide
<1>4. index[role][id] # Absent /\ Older(index[role][id], rows[id]) /\ index[role][id] \in Row
  BY <1>1, RowParts DEF StoreInv, RowMap
<1>5. index[role][id][role] = rows[id][role]
  <2>1. index[role][id].bob = rows[id].bob /\ index[role][id].alice = rows[id].alice
    BY <1>4 DEF Older
  <2> QED BY <1>1, <1>4, <2>1, SameSide
<1> QED BY <1>2, <1>3, <1>4, <1>5 DEF Indexed

LEMMA NewestCovers ==
    ASSUME StoreInv, store # "dynamodb", NEW c, c.began \in RowMap,
           \A id \in Swaps : Older(c.began[id], rows[id]),
           NEW role \in Roles, NEW H, Members(Newest(role, c.fp)) \subseteq H
    PROVE  Covers(H, c, rows, role)
<1> SUFFICES ASSUME NEW id \in Swaps, c.began[id] # Absent, c.began[id][role] = c.fp
             PROVE  id \in H \/ Enough(H, rows, c.began[id].created)
  BY DEF Covers
<1>1. id \in Indexed(role, c.fp) /\ c.began[id].created = rows[id].created
  BY BeganIndexed
<1>2. rows[id].created \in Nat
  BY <1>1, IndexedRow
<1>3. CASE id \in Members(Newest(role, c.fp))
  BY <1>3
<1>4. CASE /\ Len(Newest(role, c.fp)) = Limit
           /\ \A i \in DOMAIN Newest(role, c.fp) :
                 rows[Newest(role, c.fp)[i]].created >= rows[id].created
  <2>1. Enough(H, rows, rows[id].created)
    BY <1>2, <1>4, NewestEnough
  <2> QED BY <1>1, <2>1
<1> QED BY <1>1, <1>3, <1>4, NewestSeq

-----------------------------------------------------------------------------
(* The end of a listing *)

Named(out) == {out[i].id : i \in DOMAIN out}

\* Enough swaps met are enough entries.
LEMMA EnoughEntries ==
    ASSUME NEW out \in Seq(Summary), NEW R, NEW x \in Nat, Enough(Named(out), R, x),
           \A i \in DOMAIN out : out[i].created = R[out[i].id].created
    PROVE  /\ Len(Answer(out)) = Limit
           /\ \A i \in DOMAIN Answer(out) : Answer(out)[i].created >= x
<1>1. PICK T \in SUBSET Named(out) :
         /\ IsFiniteSet(T) /\ Cardinality(T) >= Limit
         /\ \A h \in T : R[h] # Absent /\ R[h].created >= x
  BY DEF Enough
<1> DEFINE P == {i \in DOMAIN out : out[i].created >= x}
           at == [h \in T |-> CHOOSE i \in DOMAIN out : out[i].id = h]
<1>2. \A h \in T : at[h] \in DOMAIN out /\ out[at[h]].id = h
  BY <1>1 DEF Named
<1>3. \A h \in T : at[h] \in P
  BY <1>1, <1>2
<1>4. at \in [T -> P]
  BY <1>3
<1>5. P \in SUBSET DOMAIN out /\ \A i \in P : out[i].created >= x
  OBVIOUS
<1> HIDE DEF at, P
<1>6. at \in Injection(T, P)
  BY <1>2, <1>4 DEF Injection, IsInjective
<1>7. IsFiniteSet(P)
  BY <1>5, StableOrders, FS_Subset
<1>8. Cardinality(T) <= Cardinality(P)
  BY <1>6, <1>7, FS_Injection
<1>9. Cardinality(P) >= Limit
  BY <1>1, <1>7, <1>8, FS_CardinalityType, HistoryAssumption
<1> QED BY <1>5, <1>9, AnswerIsFull

\* What is known of the entries of a listing c.
EntriesOk(out, c, R, st) ==
    /\ out \in Seq(Summary) /\ OneEach(out)
    /\ \A i \in DOMAIN out : EntryOk(out[i], c, R, st)

\* Sorting and cutting them gives an answer that keeps its promises.
LEMMA AnswerOk ==
    ASSUME NEW c \in Call, NEW R \in RowMap, NEW st, NEW out,
           \A id \in Swaps : Older(c.began[id], R[id]),
           EntriesOk(out, c, R, st),
           st \in Whole => /\ Covers(Named(out), c, R, "bob")
                           /\ Covers(Named(out), c, R, "alice"),
           NEW d \in Call, d.pc = "done", d.fp = c.fp, d.began = c.began, d.ids = <<>>,
           d.out = Answer(out)
    PROVE  ListInv(d, R, st) /\ CoverInv(d, R, st)
<1>0. /\ out \in Seq(Summary) /\ OneEach(out)
      /\ \A i \in DOMAIN out : EntryOk(out[i], c, R, st)
  BY DEF EntriesOk
<1>a. PICK o \in Seq(DOMAIN out) :
              /\ Distinct(o) /\ Len(o) = Len(out)
              /\ \A q \in DOMAIN out : \E i \in DOMAIN o : o[i] = q
              /\ \A i, j \in DOMAIN o : i < j => out[o[i]].created >= out[o[j]].created
              /\ Answer(out) \in Seq(Summary)
              /\ Len(Answer(out)) = (IF Len(out) < Limit THEN Len(out) ELSE Limit)
              /\ \A i \in DOMAIN Answer(out) :
                    i \in DOMAIN o /\ o[i] \in DOMAIN out /\ Answer(out)[i] = out[o[i]]
  BY <1>0, AnswerSeq
<1>1. /\ Distinct(o) /\ Len(o) = Len(out)
      /\ \A i, j \in DOMAIN o : i < j => out[o[i]].created >= out[o[j]].created
      /\ d.out \in Seq(Summary)
      /\ Len(d.out) = (IF Len(out) < Limit THEN Len(out) ELSE Limit)
      /\ \A i \in DOMAIN d.out :
            i \in DOMAIN o /\ o[i] \in DOMAIN out /\ d.out[i] = out[o[i]]
  BY <1>a
<1>2. ASSUME NEW i \in DOMAIN d.out PROVE EntryOk(d.out[i], d, R, st)
  <2>1. EntryOk(d.out[i], c, R, st)
    BY <1>0, <1>1
  <2> QED BY <2>1 DEF EntryOk
<1>3. OneEach(d.out)
  BY <1>0, <1>1 DEF OneEach, Distinct
<1>4. \A i, j \in DOMAIN d.out : i < j => d.out[i].created >= d.out[j].created
  BY <1>1
<1>5. Len(d.out) <= Limit
  <2>1. Len(d.out) = (IF Len(out) < Limit THEN Len(out) ELSE Limit)
    BY <1>1
  <2> QED BY <1>0, <2>1, HistoryAssumption
<1>6. ListInv(d, R, st)
  BY <1>2, <1>3, <1>4, <1>5 DEF ListInv
<1>7. ASSUME st \in Whole, NEW id \in Swaps, Took(d.began[id], d.fp)
      PROVE  \/ \E i \in DOMAIN d.out : d.out[i].id = id
             \/ /\ Len(d.out) = Limit
                /\ \A i \in DOMAIN d.out : d.out[i].created >= d.began[id].created
  <2>1. c.began[id] \in Row /\ c.began[id].created \in Nat
    <3>1. c.began[id] \in Row
      BY <1>7 DEF Call, RowMap, Took
    <3> QED BY <3>1, RowParts
  <2>2. \E role \in {"bob", "alice"} : c.began[id][role] = c.fp
    BY <1>7, <2>1, RowParts DEF Took
  <2>3. id \in Named(out) \/ Enough(Named(out), R, c.began[id].created)
    BY <1>7, <2>2 DEF Covers, Took
  <2>4. CASE id \in Named(out)
    <3>1. PICK p \in DOMAIN out : out[p].id = id
      BY <2>4 DEF Named
    <3>2. out[p].created = c.began[id].created
      BY <1>0, <1>7, <3>1 DEF EntryOk, Older, Took
    <3> QED BY <1>0, <3>1, <3>2, AnswerKeepsNewest
  <2>5. CASE Enough(Named(out), R, c.began[id].created)
    <3>1. \A i \in DOMAIN out : out[i].created = R[out[i].id].created
      BY <1>0 DEF EntryOk
    <3> QED BY <1>0, <2>1, <2>5, <3>1, EnoughEntries
  <2> QED BY <2>3, <2>4, <2>5
<1>8. CoverInv(d, R, st)
  BY <1>7 DEF CoverInv, Complete
<1> QED BY <1>6, <1>8

\* Continue, when everything the indexes gave is in ids or out.
LEMMA ContinueOk ==
    ASSUME NEW c \in Call, NEW R \in RowMap, NEW st, st # "dynamodb",
           \A id \in Swaps : Older(c.began[id], R[id]),
           \A i \in DOMAIN c.ids : Took(R[c.ids[i]], c.fp),
           EntriesOk(c.out, c, R, st),
           st \in Whole => Covers(Have(c), c, R, "bob") /\ Covers(Have(c), c, R, "alice")
    PROVE  ListInv(Continue(c), R, st) /\ CoverInv(Continue(c), R, st)
<1>1. CASE c.ids = <<>>
  <2> DEFINE d == [c EXCEPT !.pc = "done", !.out = Answer(@)]
  <2>1. Continue(c) = d
    BY <1>1 DEF Continue
  <2>2. Answer(c.out) \in Seq(Summary)
    BY AnswerSeq DEF EntriesOk
  <2>3. /\ d \in Call /\ d.pc = "done" /\ d.fp = c.fp /\ d.began = c.began /\ d.ids = <<>>
        /\ d.out = Answer(c.out)
    BY <1>1, <2>2 DEF Call
  <2>4. Have(c) = Named(c.out)
    BY <1>1 DEF Have, Named, Members
  <2> HIDE DEF d
  <2> QED BY <2>1, <2>3, <2>4, AnswerOk
<1>2. CASE c.ids # <<>>
  <2> DEFINE d == [c EXCEPT !.pc = "rows"]
  <2>1. Continue(c) = d
    BY <1>2 DEF Continue
  <2>2. /\ d \in Call /\ d.pc = "rows" /\ d.fp = c.fp /\ d.began = c.began /\ d.ids = c.ids
        /\ d.out = c.out
    BY DEF Call
  <2> HIDE DEF d
  <2>3. \A i \in DOMAIN d.out : EntryOk(d.out[i], d, R, st)
    BY <2>2 DEF EntriesOk, EntryOk
  <2>4. ListInv(d, R, st)
    BY <1>2, <2>2, <2>3 DEF ListInv, EntriesOk
  <2>5. CoverInv(d, R, st)
    BY <2>2 DEF CoverInv, Covers, Have
  <2> QED BY <2>1, <2>4, <2>5
<1> QED BY <1>1, <1>2

-----------------------------------------------------------------------------
(* The steps of a listing *)

LEMMA CallParts ==
    ASSUME HistoryInv
    PROVE  /\ call \in Call /\ rows \in RowMap /\ store \in Stores
           /\ call.fp \in Parties /\ call.ids \in Seq(Swaps) /\ call.out \in Seq(Summary)
           /\ call.began \in RowMap
           /\ \A id \in Swaps : Older(call.began[id], rows[id])
           /\ \A i \in DOMAIN call.ids : Took(rows[call.ids[i]], call.fp)
           /\ EntriesOk(call.out, call, rows, store)
           /\ StoreInv
<1>1. call \in Call
  BY DEF HistoryInv, ListInv
<1>2. /\ call.fp \in Parties /\ call.ids \in Seq(Swaps) /\ call.out \in Seq(Summary)
      /\ call.began \in RowMap
  BY <1>1 DEF Call
<1> QED BY <1>1, <1>2 DEF HistoryInv, ListInv, StoreInv, EntriesOk

LEMMA IdleCall ==
    /\ Idle \in Call /\ Idle.pc = "idle" /\ Idle.ids = <<>> /\ Idle.out = <<>>
    /\ \A id \in Swaps : Idle.began[id] = Absent
BY HistoryAssumption DEF Idle, Call, RowMap

LEMMA NoEntries ==
    ASSUME NEW c \in Call, NEW R, NEW st, c.ids = <<>>, c.out = <<>>, c.pc \in {"idle", "bob"},
           \A id \in Swaps : Older(c.began[id], R[id])
    PROVE  ListInv(c, R, st) /\ CoverInv(c, R, st)
BY DEF ListInv, CoverInv, OneEach

LEMMA BeginOk ==
    ASSUME HistoryInv, NEW fp \in Listers, Begin(fp)
    PROVE  ListInv(call', rows, store) /\ CoverInv(call', rows, store)
<1> DEFINE b == IF store = "dynamodb" THEN Idle.began ELSE rows
<1>1. b \in RowMap /\ \A id \in Swaps : Older(b[id], rows[id])
  <2>1. Idle.began \in RowMap
    BY IdleCall DEF Call
  <2>2. \A id \in Swaps : rows[id] # Absent => rows[id].version \in Nat
    BY CallParts, RowParts DEF RowMap
  <2> QED BY <2>1, <2>2, CallParts, IdleCall DEF Older
<1>2. call' = [Idle EXCEPT !.pc = "bob", !.fp = fp, !.began = b] /\ fp \in Parties
  BY HistoryAssumption DEF Begin
<1> HIDE DEF b
<1>3. /\ call' \in Call /\ call'.pc = "bob" /\ call'.ids = <<>> /\ call'.out = <<>>
      /\ call'.began = b
  BY <1>1, <1>2, IdleCall DEF Call
<1> QED BY <1>1, <1>3, NoEntries

LEMMA ReadFailsOk ==
    ASSUME HistoryInv, ReadFails
    PROVE  ListInv(call', rows, store) /\ CoverInv(call', rows, store)
<1>1. call' = Idle
  BY DEF ReadFails
<1> QED BY <1>1, IdleCall, NoEntries DEF Older

\* The members of an index read are swaps of the party.
LEMMA NewestTook ==
    ASSUME StoreInv, NEW role \in Roles, NEW fp
    PROVE  /\ Newest(role, fp) \in Seq(Swaps)
           /\ \A i \in DOMAIN Newest(role, fp) :
                 /\ Newest(role, fp)[i] \in Swaps
                 /\ Newest(role, fp)[i] \in Indexed(role, fp)
                 /\ Took(rows[Newest(role, fp)[i]], fp)
<1> DEFINE n == Newest(role, fp)
<1>1. n \in Seq(Indexed(role, fp)) /\ n \in Seq(Swaps)
  BY NewestSeq
<1> HIDE DEF n
<1>2. \A i \in DOMAIN n : n[i] \in Indexed(role, fp) /\ n[i] \in Swaps
  BY <1>1
<1>3. \A i \in DOMAIN n : Took(rows[n[i]], fp)
  BY <1>2, IndexedRow
<1> QED BY <1>1, <1>2, <1>3 DEF n

LEMMA ReadBobIndexOk ==
    ASSUME HistoryInv, ReadBobIndex
    PROVE  ListInv(call', rows, store) /\ CoverInv(call', rows, store)
<1> DEFINE n == Newest("bob", call.fp)
<1>0. /\ store = "redis" /\ call.pc = "bob" /\ "bob" \in Roles
      /\ call' = [call EXCEPT !.pc = "alice", !.ids = n]
  BY DEF ReadBobIndex, Roles
<1>1. /\ n \in Seq(Swaps) /\ \A i \in DOMAIN n : Took(rows[n[i]], call.fp)
  BY <1>0, CallParts, NewestTook
<1> HIDE DEF n
<1>2. /\ call' \in Call /\ call'.pc = "alice" /\ call'.ids = n /\ call'.out = call.out
      /\ call'.fp = call.fp /\ call'.began = call.began
  BY <1>0, <1>1, CallParts DEF Call
<1>3. \A i \in DOMAIN call'.out : EntryOk(call'.out[i], call', rows, store)
  BY <1>2, CallParts DEF EntriesOk, EntryOk
<1>4. ListInv(call', rows, store)
  BY <1>0, <1>1, <1>2, <1>3, CallParts DEF ListInv, EntriesOk
<1>5. Covers(Have(call'), call', rows, "bob")
  <2>1. Members(Newest("bob", call'.fp)) \subseteq Have(call')
    BY <1>2 DEF Have, n
  <2> QED BY <1>0, <1>2, <2>1, CallParts, NewestCovers
<1> QED BY <1>2, <1>4, <1>5 DEF CoverInv

\* More swaps met cover no less.
LEMMA CoversMore ==
    ASSUME NEW H, NEW G, H \subseteq G, NEW c, NEW d, d.began = c.began, d.fp = c.fp,
           NEW R, NEW role, Covers(H, c, R, role)
    PROVE  Covers(G, d, R, role)
BY DEF Covers, Enough

LEMMA ConcatParts ==
    ASSUME NEW X, NEW s \in Seq(X), NEW t \in Seq(X)
    PROVE  /\ s \o t \in Seq(X) /\ Members(s \o t) = Members(s) \union Members(t)
           /\ \A i \in DOMAIN (s \o t) :
                 \/ i \in DOMAIN s /\ (s \o t)[i] = s[i]
                 \/ i - Len(s) \in DOMAIN t /\ (s \o t)[i] = t[i - Len(s)]
<1>1. /\ s \o t \in Seq(X) /\ DOMAIN (s \o t) = 1..(Len(s) + Len(t))
      /\ DOMAIN s = 1..Len(s) /\ DOMAIN t = 1..Len(t) /\ Len(s) \in Nat /\ Len(t) \in Nat
      /\ \A i \in 1..(Len(s) + Len(t)) :
            (s \o t)[i] = IF i <= Len(s) THEN s[i] ELSE t[i - Len(s)]
  OBVIOUS
<1>2. \A i \in DOMAIN (s \o t) :
         \/ i \in DOMAIN s /\ (s \o t)[i] = s[i]
         \/ i - Len(s) \in DOMAIN t /\ (s \o t)[i] = t[i - Len(s)]
  BY <1>1
<1>3. Members(s \o t) \subseteq Members(s) \union Members(t)
  BY <1>2 DEF Members
<1>4. \A i \in DOMAIN s : i \in DOMAIN (s \o t) /\ (s \o t)[i] = s[i]
  BY <1>1
<1>5. \A i \in DOMAIN t : i + Len(s) \in DOMAIN (s \o t) /\ (s \o t)[i + Len(s)] = t[i]
  BY <1>1
<1>6. Members(s) \union Members(t) \subseteq Members(s \o t)
  BY <1>4, <1>5 DEF Members
<1> QED BY <1>1, <1>2, <1>3, <1>6

LEMMA ReadAliceIndexOk ==
    ASSUME HistoryInv, ReadAliceIndex
    PROVE  ListInv(call', rows, store) /\ CoverInv(call', rows, store)
<1> DEFINE n == Newest("alice", call.fp)
           c == [call EXCEPT !.ids = @ \o n]
<1>0. /\ store = "redis" /\ call.pc = "alice" /\ "alice" \in Roles
      /\ call' = Continue(c)
  BY DEF ReadAliceIndex, Roles
<1>1. n \in Seq(Swaps) /\ \A i \in DOMAIN n : Took(rows[n[i]], call.fp)
  BY <1>0, CallParts, NewestTook
<1> HIDE DEF n
<1>2. /\ call.ids \o n \in Seq(Swaps)
      /\ Members(call.ids \o n) = Members(call.ids) \union Members(n)
      /\ \A i \in DOMAIN (call.ids \o n) : Took(rows[(call.ids \o n)[i]], call.fp)
  BY <1>1, CallParts, ConcatParts
<1>3. /\ c \in Call /\ c.ids = call.ids \o n /\ c.out = call.out
      /\ c.fp = call.fp /\ c.began = call.began
  BY <1>2, CallParts DEF Call
<1> HIDE DEF c
<1>4. EntriesOk(c.out, c, rows, store)
  BY <1>3, CallParts DEF EntriesOk, EntryOk
<1>5. Have(call) \subseteq Have(c) /\ Members(n) \subseteq Have(c)
  BY <1>2, <1>3 DEF Have
<1>6. Covers(Have(c), c, rows, "bob")
  <2>1. Covers(Have(call), call, rows, "bob")
    BY <1>0 DEF HistoryInv, CoverInv, Whole
  <2> QED BY <1>3, <1>5, <2>1, CoversMore
<1>7. Covers(Have(c), c, rows, "alice")
  <2>1. Members(Newest("alice", c.fp)) \subseteq Have(c)
    BY <1>3, <1>5 DEF n
  <2> QED BY <1>0, <1>3, <2>1, CallParts, NewestCovers
<1> QED BY <1>0, <1>2, <1>3, <1>4, <1>6, <1>7, CallParts, ContinueOk

\* FoundationDB: a batch has swaps of the party.
LEMMA BatchTook ==
    ASSUME StoreInv, NEW role \in Roles, NEW fp, NEW b \in Batches(role, fp)
    PROVE  b \in Seq(Swaps) /\ \A i \in DOMAIN b : Took(rows[b[i]], fp)
<1> DEFINE n == Newest(role, fp)
<1>1. n \in Seq(Swaps) /\ \A i \in DOMAIN n : Took(rows[n[i]], fp)
  BY NewestTook
<1>2. b = <<>> \/ \E k \in 1..Len(n) : b = SubSeq(n, 1, k)
  BY DEF Batches
<1> HIDE DEF n
<1>3. CASE b = <<>>
  BY <1>3
<1>4. ASSUME NEW k \in 1..Len(n), b = SubSeq(n, 1, k)
      PROVE  b \in Seq(Swaps) /\ \A i \in DOMAIN b : Took(rows[b[i]], fp)
  <2>1. b \in Seq(Swaps) /\ \A i \in DOMAIN b : i \in DOMAIN n /\ b[i] = n[i]
    BY <1>1, <1>4
  <2> QED BY <1>1, <2>1
<1> QED BY <1>2, <1>3, <1>4

LEMMA ScanIndexesOk ==
    ASSUME HistoryInv, ScanIndexes
    PROVE  ListInv(call', rows, store) /\ CoverInv(call', rows, store)
<1>0. store = "fdb" /\ {"alice", "bob"} \subseteq Roles
  BY DEF ScanIndexes, Roles
<1>a. PICK m \in Batches("bob", call.fp), n \in Batches("alice", call.fp) :
         call' = Continue([call EXCEPT !.ids = m \o n])
  BY DEF ScanIndexes
<1> DEFINE c == [call EXCEPT !.ids = m \o n]
<1>1. /\ n \in Seq(Swaps) /\ \A i \in DOMAIN n : Took(rows[n[i]], call.fp)
      /\ m \in Seq(Swaps) /\ \A i \in DOMAIN m : Took(rows[m[i]], call.fp)
  BY <1>0, CallParts, BatchTook
<1>2. /\ m \o n \in Seq(Swaps)
      /\ \A i \in DOMAIN (m \o n) : Took(rows[(m \o n)[i]], call.fp)
  BY <1>1, ConcatParts
<1>3. /\ c \in Call /\ c.ids = m \o n /\ c.out = call.out
      /\ c.fp = call.fp /\ c.began = call.began
  BY <1>2, CallParts DEF Call
<1>4. call' = Continue(c)
  BY <1>a
<1> HIDE DEF c
<1>5. EntriesOk(c.out, c, rows, store)
  BY <1>3, CallParts DEF EntriesOk, EntryOk
<1>6. store # "dynamodb" /\ store \notin Whole
  BY <1>0 DEF Whole
<1> QED BY <1>2, <1>3, <1>4, <1>5, <1>6, CallParts, ContinueOk

\* Summaries of rows F that agree with the stored rows.
LEMMA SummariesOk ==
    ASSUME NEW c \in Call, NEW R \in RowMap, NEW st, NEW F,
           \A id \in Swaps : Older(c.began[id], R[id]),
           NEW ids \in Seq(Swaps), Distinct(ids),
           \A i \in DOMAIN ids :
              /\ F[ids[i]] \in Row /\ R[ids[i]] \in Row /\ Took(R[ids[i]], c.fp)
              /\ RoleOf(F[ids[i]], c.fp) = RoleOf(R[ids[i]], c.fp)
              /\ F[ids[i]].created = R[ids[i]].created
              /\ st # "dynamodb" => F[ids[i]] = R[ids[i]],
           NEW new, new = [i \in DOMAIN ids |-> Summarise(ids[i], F[ids[i]], c.fp)]
    PROVE  EntriesOk(new, c, R, st) /\ Named(new) = Members(ids)
<1>0. DOMAIN new = DOMAIN ids /\ DOMAIN ids = 1..Len(ids) /\ Len(ids) \in Nat
  OBVIOUS
<1>1. ASSUME NEW i \in DOMAIN ids
      PROVE  /\ new[i] \in Summary /\ new[i].id = ids[i] /\ ids[i] \in Swaps
             /\ new[i].role = RoleOf(F[ids[i]], c.fp) /\ new[i].created = F[ids[i]].created
             /\ new[i].version = F[ids[i]].version
  <2>1. new[i] = Summarise(ids[i], F[ids[i]], c.fp) /\ ids[i] \in Swaps
    OBVIOUS
  <2>2. F[ids[i]].created \in 0..MaxClock /\ F[ids[i]].version \in Nat \ {0}
    BY RowParts
  <2>3. RoleOf(F[ids[i]], c.fp) \in Roles \union {"both"}
    BY DEF RoleOf, Roles
  <2> QED BY <2>1, <2>2, <2>3 DEF Summarise, Summary
<1>2. new \in Seq(Summary)
  BY <1>0, <1>1
<1>3. OneEach(new)
  BY <1>0, <1>1 DEF OneEach, Distinct
<1>4. ASSUME NEW i \in DOMAIN new PROVE EntryOk(new[i], c, R, st)
  <2>1. /\ new[i].id = ids[i] /\ new[i].role = RoleOf(R[ids[i]], c.fp)
        /\ new[i].created = R[ids[i]].created
        /\ st # "dynamodb" => new[i].version = R[ids[i]].version
        /\ Took(R[ids[i]], c.fp) /\ Older(c.began[ids[i]], R[ids[i]])
    BY <1>0, <1>1
  <2>2. R[ids[i]].version \in Nat
    BY <1>0, RowParts
  <2> QED BY <2>1, <2>2 DEF EntryOk, Older
<1>5. Named(new) = Members(ids)
  BY <1>0, <1>1 DEF Named, Members
<1> QED BY <1>2, <1>3, <1>4, <1>5 DEF EntriesOk

\* Entries of other swaps are added.
LEMMA AddEntries ==
    ASSUME NEW out, NEW new, NEW c, NEW R, NEW st,
           EntriesOk(out, c, R, st), EntriesOk(new, c, R, st),
           Named(out) \intersect Named(new) = {}
    PROVE  /\ EntriesOk(out \o new, c, R, st)
           /\ Named(out \o new) = Named(out) \union Named(new)
<1> DEFINE s == out \o new
<1>1. out \in Seq(Summary) /\ new \in Seq(Summary) /\ OneEach(out) /\ OneEach(new)
  BY DEF EntriesOk
<1>2. /\ s \in Seq(Summary) /\ Members(s) = Members(out) \union Members(new)
      /\ \A i \in DOMAIN s : \/ i \in DOMAIN out /\ s[i] = out[i]
                             \/ i - Len(out) \in DOMAIN new /\ s[i] = new[i - Len(out)]
  BY <1>1, ConcatParts
<1>3. DOMAIN s \subseteq Nat /\ Len(out) \in Nat
  BY <1>1, <1>2
<1> HIDE DEF s
<1>4. \A i \in DOMAIN s : EntryOk(s[i], c, R, st)
  BY <1>2 DEF EntriesOk
<1>5. ASSUME NEW i \in DOMAIN s, NEW j \in DOMAIN s, s[i].id = s[j].id PROVE i = j
  <2>1. CASE i \in DOMAIN out /\ s[i] = out[i] /\ j \in DOMAIN out /\ s[j] = out[j]
    BY <1>1, <1>5, <2>1 DEF OneEach
  <2>2. CASE /\ i - Len(out) \in DOMAIN new /\ s[i] = new[i - Len(out)]
             /\ j - Len(out) \in DOMAIN new /\ s[j] = new[j - Len(out)]
    <3>1. i - Len(out) = j - Len(out)
      BY <1>1, <1>5, <2>2 DEF OneEach
    <3> QED BY <1>3, <3>1
  <2>3. CASE i \in DOMAIN out /\ s[i] = out[i] /\ j - Len(out) \in DOMAIN new /\ s[j] = new[j - Len(out)]
    BY <1>5, <2>3 DEF Named
  <2>4. CASE j \in DOMAIN out /\ s[j] = out[j] /\ i - Len(out) \in DOMAIN new /\ s[i] = new[i - Len(out)]
    BY <1>5, <2>4 DEF Named
  <2> QED BY <1>2, <2>1, <2>2, <2>3, <2>4
<1>6. \A r : Named(r) = {e.id : e \in Members(r)}
  BY DEF Named, Members
<1>7. Named(s) = Named(out) \union Named(new)
  BY <1>2, <1>6
<1> QED BY <1>2, <1>4, <1>5, <1>7 DEF EntriesOk, OneEach, s

LEMMA FetchRowOk ==
    ASSUME HistoryInv, FetchRow
    PROVE  ListInv(call', rows, store) /\ CoverInv(call', rows, store)
<1> DEFINE id == Head(call.ids)
           found == IF Met(id, call.out) \/ rows[id] = Absent THEN <<>>
                    ELSE <<Summarise(id, rows[id], call.fp)>>
           c == [call EXCEPT !.ids = Tail(@), !.out = @ \o found]
<1>0. call.pc = "rows" /\ call' = Continue(c)
  BY DEF FetchRow, RowRead
<1>1. call.ids # <<>> /\ store # "dynamodb" /\ call.ids \in Seq(Swaps)
  BY <1>0, CallParts DEF HistoryInv, ListInv
<1>2. /\ id \in Swaps /\ id = call.ids[1] /\ 1 \in DOMAIN call.ids
      /\ Tail(call.ids) \in Seq(Swaps)
      /\ \A i \in DOMAIN Tail(call.ids) :
            i + 1 \in DOMAIN call.ids /\ Tail(call.ids)[i] = call.ids[i + 1]
      /\ \A i \in DOMAIN call.ids : i # 1 =>
            i - 1 \in DOMAIN Tail(call.ids) /\ call.ids[i] = Tail(call.ids)[i - 1]
  BY <1>1
<1>3. Took(rows[id], call.fp) /\ rows[id] \in Row
  BY <1>2, CallParts DEF Took, RowMap
<1>4. /\ EntriesOk(call.out \o found, call, rows, store)
      /\ Named(call.out \o found) = Named(call.out) \union {id}
  <2>1. CASE Met(id, call.out)
    <3>1. found = <<>>
      BY <2>1
    <3> HIDE DEF found, id
    <3>2. call.out \o found = call.out
      BY <3>1, CallParts
    <3>3. id \in Named(call.out)
      BY <2>1 DEF Met, Named
    <3> QED BY <3>2, <3>3, CallParts
  <2>2. CASE ~Met(id, call.out)
    <3> DEFINE one == <<id>>
               F == rows
               new == [i \in DOMAIN one |-> Summarise(one[i], F[one[i]], call.fp)]
    <3>1. found = <<Summarise(id, rows[id], call.fp)>>
      BY <1>3, <2>2 DEF Took
    <3>2. new = found
      BY <3>1
    <3>3. one \in Seq(Swaps) /\ Distinct(one) /\ \A i \in DOMAIN one : one[i] = id
      BY <1>2 DEF Distinct
    <3>4. Members(one) = {id}
      BY DEF Members
    <3>5. Named(call.out) \intersect {id} = {}
      BY <2>2 DEF Named, Met
    <3> HIDE DEF one, found, id
    <3>6. EntriesOk(new, call, rows, store) /\ Named(new) = Members(one)
      BY <1>3, <3>3, CallParts, SummariesOk
    <3> HIDE DEF new
    <3> QED BY <3>2, <3>4, <3>5, <3>6, CallParts, AddEntries
  <2> QED BY <2>1, <2>2
<1> HIDE DEF found, id
<1>5. /\ c \in Call /\ c.ids = Tail(call.ids) /\ c.out = call.out \o found
      /\ c.fp = call.fp /\ c.began = call.began
  BY <1>2, <1>4, CallParts DEF Call, EntriesOk
<1> HIDE DEF c
<1>6. EntriesOk(c.out, c, rows, store)
  BY <1>4, <1>5 DEF EntriesOk, EntryOk
<1>7. \A i \in DOMAIN c.ids : Took(rows[c.ids[i]], c.fp)
  BY <1>2, <1>5, CallParts
<1>8. Have(call) \subseteq Have(c)
  <2>1. Members(call.ids) \subseteq Members(c.ids) \union {id}
    <3> SUFFICES ASSUME NEW i \in DOMAIN call.ids, call.ids[i] # id
                 PROVE  call.ids[i] \in Members(c.ids)
      BY DEF Members
    <3>1. i - 1 \in DOMAIN c.ids /\ call.ids[i] = c.ids[i - 1]
      BY <1>2, <1>5
    <3> QED BY <3>1 DEF Members
  <2>2. Have(c) = Members(c.ids) \union Named(call.out) \union {id}
    <3>1. Have(c) = Members(c.ids) \union Named(c.out)
      BY DEF Have, Named
    <3> QED BY <1>4, <1>5, <3>1
  <2>3. Have(call) = Members(call.ids) \union Named(call.out)
    BY DEF Have, Named
  <2> QED BY <2>1, <2>2, <2>3
<1>9. ASSUME store \in Whole
      PROVE  Covers(Have(c), c, rows, "bob") /\ Covers(Have(c), c, rows, "alice")
  <2>1. Covers(Have(call), call, rows, "bob") /\ Covers(Have(call), call, rows, "alice")
    BY <1>0, <1>9 DEF HistoryInv, CoverInv
  <2> QED BY <1>5, <1>8, <2>1, CoversMore
<1> QED BY <1>0, <1>1, <1>5, <1>6, <1>7, <1>9, CallParts, ContinueOk

\* Memory: a swap with oneself is on the bob side, so leaving it out on the
\* alice side loses nothing, and the two sides share no swap.
LEMMA ListMemoryOk ==
    ASSUME HistoryInv, ListMemory
    PROVE  ListInv(call', rows, store) /\ CoverInv(call', rows, store)
<1> DEFINE fp == call.fp
           bob == Newest("bob", fp)
           alice == Newest("alice", fp)
           P == {i \in DOMAIN alice : rows[alice[i]].bob # fp}
           rest == Taken(alice, P)
           ids == bob \o rest
           F == rows
           out == [i \in DOMAIN ids |-> Summarise(ids[i], F[ids[i]], call.fp)]
<1>0. /\ store = "memory" /\ call.pc = "bob" /\ "bob" \in Roles /\ "alice" \in Roles
      /\ call' = [call EXCEPT !.pc = "done", !.out = Answer(out)]
  BY DEF ListMemory, RowRead, Roles
<1>1. call.ids = <<>>
  BY <1>0 DEF HistoryInv, ListInv
<1>2. /\ bob \in Seq(Swaps) /\ Distinct(bob)
      /\ \A i \in DOMAIN bob : bob[i] \in Indexed("bob", fp) /\ Took(rows[bob[i]], fp)
  BY <1>0, CallParts, NewestSeq, NewestTook
<1>3. /\ alice \in Seq(Swaps) /\ Distinct(alice)
      /\ \A i \in DOMAIN alice : alice[i] \in Indexed("alice", fp) /\ Took(rows[alice[i]], fp)
  BY <1>0, CallParts, NewestSeq, NewestTook
<1>4. \A i \in DOMAIN bob : rows[bob[i]].bob = fp
  <2>1. \A i \in DOMAIN bob : rows[bob[i]] \in Row /\ rows[bob[i]]["bob"] = fp
    BY <1>0, <1>2, CallParts, IndexedRow
  <2> QED BY <2>1, RowParts
<1> HIDE DEF bob, alice, fp
<1>5. /\ rest \in Seq(Swaps) /\ Distinct(rest) /\ Members(rest) = {alice[p] : p \in P}
  <2>1. P \in SUBSET DOMAIN alice
    OBVIOUS
  <2> HIDE DEF P
  <2> QED BY <1>3, <2>1, TakenSeq
<1>6. \A i \in DOMAIN rest : rows[rest[i]].bob # fp /\ Took(rows[rest[i]], fp)
  <2>1. \A i \in DOMAIN rest : \E p \in P : rest[i] = alice[p]
    BY <1>5 DEF Members
  <2> QED BY <1>3, <2>1
<1> HIDE DEF rest, P
<1>7. /\ ids \in Seq(Swaps) /\ Members(ids) = Members(bob) \union Members(rest)
      /\ \A i \in DOMAIN ids : \/ i \in DOMAIN bob /\ ids[i] = bob[i]
                               \/ i - Len(bob) \in DOMAIN rest /\ ids[i] = rest[i - Len(bob)]
  BY <1>2, <1>5, ConcatParts
<1>8. DOMAIN ids \subseteq Nat /\ Len(bob) \in Nat
  BY <1>2, <1>7
<1> HIDE DEF ids
<1>9. \A i \in DOMAIN ids : Took(rows[ids[i]], fp) /\ rows[ids[i]] \in Row
  <2>1. \A i \in DOMAIN ids : Took(rows[ids[i]], fp)
    BY <1>2, <1>6, <1>7
  <2>2. \A i \in DOMAIN ids : ids[i] \in Swaps
    BY <1>7
  <2> QED BY <2>1, <2>2, CallParts DEF RowMap, Took
<1>10. Distinct(ids)
  <2> SUFFICES ASSUME NEW i \in DOMAIN ids, NEW j \in DOMAIN ids, ids[i] = ids[j] PROVE i = j
    BY DEF Distinct
  <2>1. CASE i \in DOMAIN bob /\ ids[i] = bob[i] /\ j \in DOMAIN bob /\ ids[j] = bob[j]
    BY <1>2, <2>1 DEF Distinct
  <2>2. CASE /\ i - Len(bob) \in DOMAIN rest /\ ids[i] = rest[i - Len(bob)]
             /\ j - Len(bob) \in DOMAIN rest /\ ids[j] = rest[j - Len(bob)]
    <3>1. i - Len(bob) = j - Len(bob)
      BY <1>5, <2>2 DEF Distinct
    <3> QED BY <1>8, <3>1
  <2>3. CASE i \in DOMAIN bob /\ ids[i] = bob[i] /\ j - Len(bob) \in DOMAIN rest /\ ids[j] = rest[j - Len(bob)]
    BY <1>4, <1>6, <2>3
  <2>4. CASE j \in DOMAIN bob /\ ids[j] = bob[j] /\ i - Len(bob) \in DOMAIN rest /\ ids[i] = rest[i - Len(bob)]
    BY <1>4, <1>6, <2>4
  <2> QED BY <1>7, <2>1, <2>2, <2>3, <2>4
<1>11. EntriesOk(out, call, rows, store) /\ Named(out) = Members(ids)
  <2>1. \A i \in DOMAIN ids : Took(rows[ids[i]], call.fp) /\ rows[ids[i]] \in Row
    BY <1>9 DEF fp
  <2>2. /\ call \in Call /\ rows \in RowMap /\ ids \in Seq(Swaps) /\ Distinct(ids)
        /\ \A id \in Swaps : Older(call.began[id], rows[id])
    BY <1>7, <1>10, CallParts
  <2> QED BY <2>1, <2>2, SummariesOk
<1> HIDE DEF out
<1>12. Answer(out) \in Seq(Summary)
  BY <1>11, AnswerSeq DEF EntriesOk
<1>13. /\ call' \in Call /\ call'.pc = "done" /\ call'.fp = call.fp /\ call'.began = call.began
       /\ call'.ids = <<>> /\ call'.out = Answer(out)
  BY <1>0, <1>1, <1>12, CallParts DEF Call
<1>14. Covers(Named(out), call, rows, "bob")
  <2>1. Members(Newest("bob", call.fp)) \subseteq Named(out)
    BY <1>7, <1>11 DEF bob, fp
  <2> QED BY <1>0, <2>1, CallParts, NewestCovers
<1>15. Covers(Named(out), call, rows, "alice")
  <2> SUFFICES ASSUME NEW id \in Swaps, call.began[id] # Absent, call.began[id]["alice"] = fp
               PROVE  id \in Named(out) \/ Enough(Named(out), rows, call.began[id].created)
    BY DEF Covers, fp
  <2>1. /\ id \in Indexed("alice", fp) /\ call.began[id].created = rows[id].created
    BY <1>0, CallParts, BeganIndexed
  <2>2. rows[id].created \in Nat
    BY <1>0, <2>1, CallParts, IndexedRow
  \* A swap of the alice list is listed, or the bob list is full without it.
  <2>3. ASSUME NEW i \in DOMAIN alice
        PROVE  \/ alice[i] \in Named(out)
               \/ /\ Len(bob) = Limit
                  /\ \A k \in DOMAIN bob : rows[bob[k]].created >= rows[alice[i]].created
    <3>1. CASE i \in P
      BY <1>5, <1>7, <1>11, <3>1
    <3>2. CASE i \notin P
      <4>1. rows[alice[i]].bob = fp /\ alice[i] \in Indexed("alice", fp)
        BY <1>3, <3>2 DEF P
      <4>2. rows[alice[i]] \in Row /\ alice[i] \in Swaps
        BY <1>0, <4>1, CallParts, IndexedRow
      <4>3. Older(rows[alice[i]], rows[alice[i]]) /\ rows[alice[i]] # Absent
            /\ rows[alice[i]]["bob"] = fp
        BY <4>1, <4>2, RowParts DEF Older
      <4>4. alice[i] \in Indexed("bob", fp)
        BY <1>0, <4>2, <4>3, CallParts, BeganIndexed
      <4>5. \/ alice[i] \in Members(bob)
            \/ /\ Len(bob) = Limit
               /\ \A k \in DOMAIN bob : rows[bob[k]].created >= rows[alice[i]].created
        BY <1>0, <4>4, CallParts, NewestSeq DEF bob
      <4> QED BY <1>7, <1>11, <4>5
    <3> QED BY <3>1, <3>2
  <2>4. ASSUME NEW i \in DOMAIN alice, rows[alice[i]].created >= rows[id].created,
               Len(bob) = Limit,
               \A k \in DOMAIN bob : rows[bob[k]].created >= rows[alice[i]].created
        PROVE  Enough(Named(out), rows, rows[id].created)
    <3>1. rows[alice[i]].created \in Nat
      BY <1>0, <1>3, CallParts, IndexedRow
    <3>2. \A k \in DOMAIN bob : rows[bob[k]].created \in Nat
      BY <1>0, <1>2, CallParts, IndexedRow
    <3>3. \A k \in DOMAIN bob : rows[bob[k]].created >= rows[id].created
      BY <2>2, <2>4, <3>1, <3>2
    <3>4. Members(bob) \subseteq Named(out)
      BY <1>7, <1>11
    <3> QED BY <1>0, <2>2, <2>4, <3>3, <3>4, CallParts, NewestEnough DEF bob
  <2>5. CASE id \in Members(alice)
    <3>1. PICK i \in DOMAIN alice : alice[i] = id
      BY <2>5 DEF Members
    <3>2. rows[alice[i]].created >= rows[id].created
      BY <2>2, <3>1
    <3> QED BY <2>1, <2>3, <2>4, <3>1, <3>2
  <2>6. CASE /\ Len(alice) = Limit
             /\ \A i \in DOMAIN alice : rows[alice[i]].created >= rows[id].created
    <3>1. CASE \A i \in DOMAIN alice : alice[i] \in Named(out)
      <4>1. Members(alice) \subseteq Named(out)
        BY <3>1 DEF Members
      <4> QED BY <1>0, <2>1, <2>2, <2>6, <4>1, CallParts, NewestEnough DEF alice
    <3>2. CASE ~ \A i \in DOMAIN alice : alice[i] \in Named(out)
      BY <2>1, <2>3, <2>4, <2>6, <3>2
    <3> QED BY <3>1, <3>2
  <2> QED BY <1>0, <2>1, <2>5, <2>6, CallParts, NewestSeq DEF alice
<1> QED BY <1>11, <1>13, <1>14, <1>15, CallParts, AnswerOk

\* DynamoDB: a page has indexed swaps, each once.
LEMMA PageSeq ==
    ASSUME StoreInv, NEW role \in Roles, NEW fp, NEW page \in Pages(role, fp)
    PROVE  page \in Seq(Indexed(role, fp)) /\ Distinct(page)
<1> DEFINE ids == Indexed(role, fp)
           N == Cardinality(ids)
<1>1. CASE page = <<>>
  BY <1>1 DEF Distinct
<1>2. CASE page # <<>>
  <2>1. PICK s \in SetToSeqs(ids), n \in 1..N : page = Capped(SubSeq(s, 1, n))
    BY <1>2 DEF Pages
  <2>2. N \in Nat
    <3>1. IsFiniteSet(ids)
      BY BeforeOrders
    <3> QED BY <3>1, FS_CardinalityType
  <2>3. s \in [1..N -> ids] /\ \A i, j \in 1..N : i # j => s[i] # s[j]
    BY <2>1 DEF SetToSeqs
  <2> HIDE DEF N, ids
  <2>4. s \in Seq(ids) /\ Len(s) = N /\ n \in 1..Len(s)
    BY <2>2, <2>3
  <2> DEFINE t == SubSeq(s, 1, n)
  <2>5. t \in Seq(ids) /\ Len(t) = n /\ \A i \in 1..n : t[i] = s[i]
    BY <2>2, <2>4
  <2>6. page = Capped(t)
    BY <2>1
  <2> HIDE DEF t
  <2>7. DOMAIN t = 1..n /\ \A i \in 1..n : i \in 1..N
    BY <2>2, <2>4, <2>5
  <2>8. Distinct(t)
    BY <2>3, <2>5, <2>7 DEF Distinct
  <2> QED BY <2>5, <2>6, <2>8, CappedSeq DEF ids
<1> QED BY <1>1, <1>2

\* The items of a page join the listing, but for those of swaps it has met.
LEMMA PageEntries ==
    ASSUME HistoryInv, store = "dynamodb", NEW role \in Roles, NEW page \in Pages(role, call.fp)
    PROVE  LET new == Unseen(page, call.out)
               out == call.out \o [i \in DOMAIN new |->
                                      Summarise(new[i], index[role][new[i]], call.fp)]
           IN  EntriesOk(out, call, rows, store)
<1> DEFINE P == {i \in DOMAIN page : ~Met(page[i], call.out)}
           new == Taken(page, P)
           F == index[role]
           added == [i \in DOMAIN new |-> Summarise(new[i], F[new[i]], call.fp)]
<1>1. page \in Seq(Indexed(role, call.fp)) /\ Distinct(page)
  BY CallParts, PageSeq
<1>2. P \in SUBSET DOMAIN page
  OBVIOUS
<1>3. \A p \in P : page[p] \notin Named(call.out)
  BY DEF Met, Named
<1> HIDE DEF P
<1>4. /\ new \in Seq(Indexed(role, call.fp)) /\ Distinct(new)
      /\ Members(new) = {page[p] : p \in P}
  BY <1>1, <1>2, TakenSeq
<1>5. Unseen(page, call.out) = new
  BY DEF Unseen, P
<1> HIDE DEF new
<1>6. \A i \in DOMAIN new : new[i] \in Indexed(role, call.fp)
  BY <1>4
<1>7. \A i \in DOMAIN new :
         /\ new[i] \in Swaps
         /\ F[new[i]] \in Row /\ rows[new[i]] \in Row /\ Took(rows[new[i]], call.fp)
         /\ RoleOf(F[new[i]], call.fp) = RoleOf(rows[new[i]], call.fp)
         /\ F[new[i]].created = rows[new[i]].created
         /\ store # "dynamodb" => F[new[i]] = rows[new[i]]
  BY <1>6, CallParts, IndexedRow
<1>8. new \in Seq(Swaps)
  BY <1>4, <1>7
<1> HIDE DEF F
<1>9. EntriesOk(added, call, rows, store) /\ Named(added) = Members(new)
  <2>1. /\ call \in Call /\ rows \in RowMap
        /\ \A id \in Swaps : Older(call.began[id], rows[id])
    BY CallParts
  <2> QED BY <1>4, <1>7, <1>8, <2>1, SummariesOk
<1>10. Named(call.out) \intersect Named(added) = {}
  BY <1>3, <1>4, <1>9
<1> HIDE DEF added
<1>11. EntriesOk(call.out \o added, call, rows, store)
  BY <1>9, <1>10, CallParts, AddEntries
<1> QED BY <1>5, <1>11 DEF added, F

LEMMA QueryOk ==
    ASSUME HistoryInv, NEW role \in Roles, Query(role)
    PROVE  ListInv(call', rows, store) /\ CoverInv(call', rows, store)
<1>0. store = "dynamodb" /\ call.pc = role /\ call.ids = <<>>
  BY DEF Query, HistoryInv, ListInv
<1>1. PICK page \in Pages(role, call.fp) :
         LET new == Unseen(page, call.out)
             out == call.out \o [i \in DOMAIN new |->
                                    Summarise(new[i], index[role][new[i]], call.fp)]
         IN  call' = IF role = "bob" THEN [call EXCEPT !.pc = "alice", !.out = out]
                     ELSE [call EXCEPT !.pc = "done", !.out = Answer(out)]
  BY DEF Query
<1> DEFINE new == Unseen(page, call.out)
           out == call.out \o [i \in DOMAIN new |->
                                  Summarise(new[i], index[role][new[i]], call.fp)]
<1>2. EntriesOk(out, call, rows, store)
  BY <1>0, PageEntries
<1>3. call' = IF role = "bob" THEN [call EXCEPT !.pc = "alice", !.out = out]
              ELSE [call EXCEPT !.pc = "done", !.out = Answer(out)]
  BY <1>1
<1> HIDE DEF new, out
<1>4. out \in Seq(Summary) /\ Answer(out) \in Seq(Summary)
  BY <1>2, AnswerSeq DEF EntriesOk
<1>5. CASE role = "bob"
  <2>1. /\ call' \in Call /\ call'.pc = "alice" /\ call'.ids = <<>> /\ call'.out = out
        /\ call'.fp = call.fp /\ call'.began = call.began
    BY <1>0, <1>3, <1>4, <1>5, CallParts DEF Call
  <2>2. \A i \in DOMAIN call'.out : EntryOk(call'.out[i], call', rows, store)
    BY <1>2, <2>1 DEF EntriesOk, EntryOk
  <2>3. ListInv(call', rows, store)
    BY <1>2, <2>1, <2>2, CallParts DEF ListInv, EntriesOk
  <2> QED BY <1>0, <2>3 DEF CoverInv, Whole
<1>6. CASE role # "bob"
  <2>1. /\ call' \in Call /\ call'.pc = "done" /\ call'.ids = <<>> /\ call'.out = Answer(out)
        /\ call'.fp = call.fp /\ call'.began = call.began
    BY <1>0, <1>3, <1>4, <1>6, CallParts DEF Call
  <2>2. store \notin Whole
    BY <1>0 DEF Whole
  <2> QED BY <1>0, <1>2, <2>1, <2>2, CallParts, AnswerOk
<1> QED BY <1>5, <1>6

-----------------------------------------------------------------------------
(* The writers *)

\* A write replaces a row by a later one of its swap.
LEMMA UpsertOk ==
    ASSUME HistoryInv, NEW id \in Swaps, NEW row \in Row, Older(rows[id], row), Upsert(id, row)
    PROVE  HistoryInv'
<1>0. /\ rows' = [rows EXCEPT ![id] = row] /\ index' = IndexWrite(id, row)
      /\ store' = store /\ clock' = clock /\ call' = call
  BY DEF Upsert
<1>1. StoreInv
  BY DEF HistoryInv
<1>2. rows \in RowMap /\ index \in [Roles -> RowMap]
  BY <1>1 DEF StoreInv
<1>3. rows' \in RowMap /\ rows'[id] = row /\ \A k \in Swaps : k # id => rows'[k] = rows[k]
  BY <1>0, <1>2 DEF RowMap
<1>4. row # Absent
  BY RowParts
<1>5. \A k \in Swaps : rows[k] # Absent => rows[k].version \in Nat
  BY <1>2, RowParts DEF RowMap
<1>6. \A k \in Swaps : Older(rows[k], rows'[k])
  BY <1>3, <1>5 DEF Older
<1>7. ASSUME NEW role \in Roles
      PROVE  /\ index'[role] \in RowMap
             /\ \A k \in Swaps : k # id => index'[role][k] = index[role][k]
             /\ \/ index'[role][id] = index[role][id] /\ (store = "dynamodb" \/ rows[id] # Absent)
                \/ index'[role][id] = row
  <2>1. CASE store = "dynamodb" \/ (store = "memory" /\ rows[id] # Absent)
    BY <1>0, <1>2, <2>1 DEF IndexWrite
  <2>2. CASE ~(store = "dynamodb" \/ (store = "memory" /\ rows[id] # Absent))
    <3>1. index'[role] = [index[role] EXCEPT ![id] = row]
      BY <1>0, <2>2 DEF IndexWrite
    <3>2. index[role] \in RowMap
      BY <1>2
    <3> QED BY <3>1, <3>2 DEF RowMap
  <2> QED BY <2>1, <2>2
<1>8. index' \in [Roles -> RowMap]
  <2>1. CASE index' = index
    BY <1>2, <2>1
  <2>2. CASE index' = [role \in Roles |-> [index[role] EXCEPT ![id] = row]]
    BY <1>7, <2>2
  <2> QED BY <1>0, <2>1, <2>2 DEF IndexWrite
<1>9. ASSUME NEW role \in Roles, NEW k \in Swaps
      PROVE  /\ Older(index'[role][k], rows'[k])
             /\ store # "dynamodb" /\ rows'[k] # Absent => index'[role][k] # Absent
  <2>0. /\ Older(index[role][k], rows[k])
        /\ store # "dynamodb" /\ rows[k] # Absent => index[role][k] # Absent
    BY <1>1 DEF StoreInv
  <2>1. CASE k # id
    BY <1>3, <1>7, <2>0, <2>1
  <2>2. CASE k = id /\ index'[role][id] = row
    <3>1. row.version \in Nat
      BY RowParts
    <3> QED BY <1>3, <1>4, <2>2, <3>1 DEF Older
  <2>3. CASE k = id /\ index'[role][id] = index[role][id] /\ (store = "dynamodb" \/ rows[id] # Absent)
    <3>1. row.version \in Nat /\ (index[role][id] # Absent => index[role][id].version \in Nat)
      BY <1>2, RowParts DEF RowMap
    <3> QED BY <1>3, <1>5, <2>0, <2>3, <3>1 DEF Older
  <2> QED BY <1>7, <2>1, <2>2, <2>3
<1>10. StoreInv'
  BY <1>0, <1>1, <1>3, <1>8, <1>9 DEF StoreInv
<1>11. ListInv(call, rows', store) /\ CoverInv(call, rows', store)
  BY <1>2, <1>3, <1>6, ListGrows DEF HistoryInv
<1> QED BY <1>0, <1>10, <1>11 DEF HistoryInv

LEMMA UpsertNewOk ==
    ASSUME HistoryInv, NEW id \in Swaps, UpsertNew(id)
    PROVE  HistoryInv'
<1>1. PICK p \in Pairs :
         Upsert(id, [bob |-> p[1], alice |-> p[2], created |-> clock, version |-> 1])
  BY DEF UpsertNew
<1> DEFINE row == [bob |-> p[1], alice |-> p[2], created |-> clock, version |-> 1]
<1>2. p \in Parties \X Parties /\ clock \in 0..MaxClock
  BY HistoryAssumption DEF HistoryInv, StoreInv
<1>3. row \in Row
  BY <1>2 DEF Row
<1>4. Older(rows[id], row)
  BY DEF UpsertNew, Older
<1>5. Upsert(id, row)
  BY <1>1
<1> HIDE DEF row
<1> QED BY <1>3, <1>4, <1>5, UpsertOk

LEMMA UpsertNextOk ==
    ASSUME HistoryInv, NEW id \in Swaps, UpsertNext(id)
    PROVE  HistoryInv'
<1> DEFINE row == [rows[id] EXCEPT !.version = @ + 1]
<1>1. rows[id] \in Row
  BY CallParts DEF UpsertNext, RowMap
<1>2. /\ row \in Row /\ row.bob = rows[id].bob /\ row.alice = rows[id].alice
      /\ row.created = rows[id].created /\ row.version = rows[id].version + 1
  BY <1>1 DEF Row
<1>3. Upsert(id, row)
  BY DEF UpsertNext
<1> HIDE DEF row
<1>4. Older(rows[id], row)
  BY <1>1, <1>2, RowParts DEF Older
<1> QED BY <1>2, <1>3, <1>4, UpsertOk

LEMMA PropagateOk ==
    ASSUME HistoryInv, NEW role \in Roles, NEW id \in Swaps, Propagate(role, id)
    PROVE  HistoryInv'
<1>0. /\ store = "dynamodb" /\ index' = [index EXCEPT ![role][id] = rows[id]]
      /\ UNCHANGED <<store, rows, clock, call>>
  BY DEF Propagate
<1>1. StoreInv /\ index \in [Roles -> RowMap] /\ rows \in RowMap
  BY DEF HistoryInv, StoreInv
<1>2. index[role] \in RowMap /\ index' = [index EXCEPT ![role] = [index[role] EXCEPT ![id] = rows[id]]]
  BY <1>0, <1>1
<1>3. [index[role] EXCEPT ![id] = rows[id]] \in RowMap
  BY <1>1, <1>2 DEF RowMap
<1>4. index' \in [Roles -> RowMap]
  BY <1>1, <1>2, <1>3
<1>5. \A r \in Roles, k \in Swaps :
         index'[r][k] = IF r = role /\ k = id THEN rows[id] ELSE index[r][k]
  BY <1>1, <1>2 DEF RowMap
<1>6. \A k \in Swaps : Older(rows[k], rows[k])
  <2>1. \A k \in Swaps : rows[k] # Absent => rows[k].version \in Nat
    BY <1>1, RowParts DEF RowMap
  <2> QED BY <2>1 DEF Older
<1>7. \A r \in Roles, k \in Swaps : Older(index'[r][k], rows[k])
  BY <1>1, <1>5, <1>6 DEF StoreInv
<1>8. StoreInv'
  BY <1>0, <1>1, <1>4, <1>7 DEF StoreInv
<1> QED BY <1>0, <1>8 DEF HistoryInv

LEMMA TickOk ==
    ASSUME HistoryInv, Tick
    PROVE  HistoryInv'
<1>1. StoreInv /\ clock \in 0..MaxClock
  BY DEF HistoryInv, StoreInv
<1>2. /\ clock' \in 0..MaxClock /\ UNCHANGED <<store, rows, index, call>>
  BY <1>1, HistoryAssumption DEF Tick
<1>3. StoreInv'
  BY <1>1, <1>2 DEF StoreInv
<1> QED BY <1>2, <1>3 DEF HistoryInv

-----------------------------------------------------------------------------
(* The invariant holds *)

LEMMA HistoryInit == Init => HistoryInv
<1> SUFFICES ASSUME Init PROVE HistoryInv
  OBVIOUS
<1>1. /\ rows \in RowMap /\ index \in [Roles -> RowMap]
      /\ \A role \in Roles, id \in Swaps : rows[id] = Absent /\ index[role][id] = Absent
  BY DEF Init, RowMap
<1>2. StoreInv
  <2>1. store \in Stores /\ clock \in 0..MaxClock
    BY HistoryAssumption DEF Init
  <2>2. \A role \in Roles, id \in Swaps : Older(index[role][id], rows[id])
    BY <1>1 DEF Older
  <2> QED BY <1>1, <2>1, <2>2 DEF StoreInv
<1>3. ListInv(call, rows, store) /\ CoverInv(call, rows, store)
  BY IdleCall, NoEntries DEF Init, Older
<1> QED BY <1>2, <1>3 DEF HistoryInv

LEMMA HistoryStep == HistoryInv /\ [Next]_vars => HistoryInv'
<1> SUFFICES ASSUME HistoryInv, [Next]_vars PROVE HistoryInv'
  OBVIOUS
\* A listing writes nothing but its own state.
<1>1. ASSUME ListInv(call', rows, store), CoverInv(call', rows, store),
             UNCHANGED <<store, rows, index, clock>>
      PROVE  HistoryInv'
  <2>1. StoreInv'
    BY <1>1 DEF HistoryInv, StoreInv
  <2> QED BY <1>1, <2>1 DEF HistoryInv
<1>2. CASE \E id \in Swaps : UpsertNew(id) \/ UpsertNext(id)
  BY <1>2, UpsertNewOk, UpsertNextOk
<1>3. CASE \E role \in Roles, id \in Swaps : Propagate(role, id)
  BY <1>3, PropagateOk
<1>4. CASE Tick
  BY <1>4, TickOk
<1>5. CASE \E fp \in Listers : Begin(fp)
  BY <1>1, <1>5, BeginOk DEF Begin
<1>6. CASE ListMemory
  BY <1>1, <1>6, ListMemoryOk DEF ListMemory
<1>7. CASE ReadBobIndex
  BY <1>1, <1>7, ReadBobIndexOk DEF ReadBobIndex
<1>8. CASE ReadAliceIndex
  BY <1>1, <1>8, ReadAliceIndexOk DEF ReadAliceIndex
<1>9. CASE ScanIndexes
  BY <1>1, <1>9, ScanIndexesOk DEF ScanIndexes
<1>10. CASE FetchRow
  BY <1>1, <1>10, FetchRowOk DEF FetchRow
<1>11. CASE \E role \in Roles : Query(role)
  BY <1>1, <1>11, QueryOk DEF Query
<1>12. CASE ReadFails
  BY <1>1, <1>12, ReadFailsOk DEF ReadFails
<1>13. CASE UNCHANGED vars
  BY <1>13 DEF vars, HistoryInv, StoreInv
<1> QED BY <1>2, <1>3, <1>4, <1>5, <1>6, <1>7, <1>8, <1>9, <1>10, <1>11, <1>12, <1>13 DEF Next

LEMMA HistoryInvariant == Spec => []HistoryInv
BY HistoryInit, HistoryStep, PTL DEF Spec

-----------------------------------------------------------------------------
(* What a party may rely on *)

\* Memory and Redis: a listing has every swap of the party that
\* was stored when it began, or Limit swaps at least as new, however writes
\* fall between its reads and whatever the limit and the number of swaps.
THEOREM HistoriesAreComplete == Spec => []HistoryComplete
<1>1. HistoryInv => HistoryComplete
  BY DEF HistoryInv, CoverInv, Whole, Complete, HistoryComplete, Answered, Listed
<1> QED BY <1>1, HistoryInvariant, PTL

\* All four backends: an answer is at most Limit summaries, newest first, of
\* swaps the party takes part in, each once and with the party's own side.
THEOREM HistoriesAreOrdered == Spec => []HistoryOrdered
<1>1. HistoryInv => HistoryOrdered
  <2> SUFFICES ASSUME HistoryInv, Answered PROVE HistoryOrdered
    BY DEF HistoryOrdered
  <2>1. /\ call.out \in Seq(Summary) /\ Len(call.out) <= Limit
        /\ \A i, j \in DOMAIN call.out : i < j => call.out[i].created >= call.out[j].created
    BY CallParts DEF HistoryInv, ListInv, Answered
  <2>2. \A i, j \in DOMAIN call.out : i < j => call.out[i].id # call.out[j].id
    <3>1. OneEach(call.out) /\ DOMAIN call.out \subseteq Nat
      BY <2>1, CallParts DEF EntriesOk
    <3> QED BY <3>1 DEF OneEach
  <2>3. \A i \in DOMAIN call.out :
           /\ Took(rows[call.out[i].id], call.fp)
           /\ call.out[i].role = RoleOf(rows[call.out[i].id], call.fp)
    BY CallParts DEF EntriesOk, EntryOk
  <2> QED BY <2>1, <2>2, <2>3 DEF HistoryOrdered
<1> QED BY <1>1, HistoryInvariant, PTL

\* Memory, Redis and FoundationDB: a summary shows the swap in a state it has
\* reached, and not before the one it was in when the listing began.
THEOREM HistoriesAreFresh == Spec => []HistoryFresh
<1>1. HistoryInv => HistoryFresh
  <2> SUFFICES ASSUME HistoryInv, Answered, store # "dynamodb", NEW i \in DOMAIN call.out
               PROVE  /\ call.out[i].version <= rows[call.out[i].id].version
                      /\ call.began[call.out[i].id] # Absent =>
                            call.began[call.out[i].id].version <= call.out[i].version
    BY DEF HistoryFresh
  <2>1. EntryOk(call.out[i], call, rows, store)
    BY CallParts DEF EntriesOk
  <2> QED BY <2>1 DEF EntryOk
<1> QED BY <1>1, HistoryInvariant, PTL
=============================================================================
