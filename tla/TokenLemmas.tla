---------------------------- MODULE TokenLemmas -----------------------------
(***************************************************************************)
(* Facts about the operators of TokenRecords and of the three stores that  *)
(* the proofs about the server rest on.                                    *)
(*                                                                         *)
(* Induction over lists is carried out with least counterexamples: a set   *)
(* of natural numbers that is not empty has a least element.               *)
(***************************************************************************)
EXTENDS FdbStore, RedisStore, DynamoStore, WellFoundedInduction,
        FiniteSetTheorems, TLAPS

\* Every non-empty set of naturals has a least element: the principle behind
\* every induction below.
LEMMA LeastElement ==
    ASSUME NEW S \in SUBSET Nat, S # {}
    PROVE  \E n \in S : \A m \in S : n <= m
<1>1. PICK n \in S : \A m \in S : <<m, n>> \notin OpToRel(<, Nat)
  BY NatLessThanWellFounded, WFMin
<1>2. OpToRel(<, Nat) = {ss \in Nat \X Nat : ss[1] < ss[2]}
  BY DEF OpToRel
<1>3. \A m \in S : <<m, n>> \notin {ss \in Nat \X Nat : ss[1] < ss[2]}
  BY <1>1, <1>2, Zenon
<1>4. \A m \in S : ~(m < n)
  BY <1>3
<1> QED BY <1>4

\* A token's parts are a key and an integer, and Absent is no record.
LEMMA TokenParts ==
    ASSUME NEW t \in Tokens
    PROVE  t.key \in Keys /\ t.amount \in Int
BY TokensAssumption

LEMMA AbsentIsNoRecord == Absent \notin TokenRecord
BY AbsentAssumption DEF TokenRecord

LEMMA FreshRecord ==
    ASSUME NEW t, t.amount \in Int, NEW o \in {"mined", "replaced"}
    PROVE  RecordFromSecret(t, o) \in TokenRecord
BY DEF RecordFromSecret, TokenRecord

\* Closing a record changes its spent flag and nothing else.
LEMMA ClosedRecord ==
    ASSUME NEW rec \in TokenRecord
    PROVE  /\ Closed(rec) \in TokenRecord
           /\ Closed(rec) # Absent
           /\ Closed(rec).spent = "yes"
           /\ Closed(rec).amount = rec.amount
           /\ Closed(rec).origin = rec.origin
<1>1. Closed(rec) \in TokenRecord
  BY DEF Closed, TokenRecord
<1>2. Closed(rec).spent = "yes" /\ Closed(rec).amount = rec.amount
      /\ Closed(rec).origin = rec.origin
  BY DEF Closed, TokenRecord
<1> QED BY <1>1, <1>2, AbsentIsNoRecord

\* The keys of a list of tokens are keys, and each carries an integer.
LEMMA ListKeys ==
    ASSUME NEW ts \in Seq(Tokens)
    PROVE  /\ KeysOf(ts) \subseteq Keys
           /\ KeyList(ts) \in Seq(Keys)
           /\ Len(KeyList(ts)) = Len(ts)
           /\ \A i \in DOMAIN ts : ts[i] \in Tokens /\ KeyList(ts)[i] = ts[i].key
<1>1. \A i \in DOMAIN ts : ts[i] \in Tokens /\ ts[i].key \in Keys
  BY TokenParts
<1> QED BY <1>1 DEF KeysOf, KeyList

LEMMA AmountInType ==
    ASSUME NEW ts \in Seq(Tokens), NEW k \in KeysOf(ts)
    PROVE  /\ AmountIn(ts, k) \in Int
           /\ \E i \in DOMAIN ts : ts[i].key = k /\ ts[i].amount = AmountIn(ts, k)
<1> DEFINE S == {ts[i] : i \in DOMAIN ts}
           c == CHOOSE t \in S : t.key = k
<1>1. \E t \in S : t.key = k
  BY DEF KeysOf
<1>2. c \in S /\ c.key = k
  BY <1>1
<1>3. AmountIn(ts, k) = c.amount
  BY DEF AmountIn
<1>4. PICK i \in DOMAIN ts : c = ts[i]
  BY <1>2
<1>5. ts[i] \in Tokens
  OBVIOUS
<1> QED BY <1>2, <1>3, <1>4, <1>5, TokenParts

\* MarkSpent and PutAll keep a map of records one, when what they mark exists.
LEMMA MarkSpentType ==
    ASSUME NEW map \in TokenMap, NEW ks \in SUBSET Keys,
           \A k \in ks : map[k] # Absent
    PROVE  MarkSpent(map, ks) \in TokenMap
<1> SUFFICES ASSUME NEW k \in Keys
             PROVE  MarkSpent(map, ks)[k] \in TokenRecord \union {Absent}
  BY DEF MarkSpent, TokenMap
<1>1. CASE k \in ks
  <2>1. map[k] \in TokenRecord
    BY <1>1 DEF TokenMap
  <2>2. Closed(map[k]) \in TokenRecord
    BY <2>1, ClosedRecord
  <2> QED BY <1>1, <2>2 DEF MarkSpent
<1>2. CASE k \notin ks
  BY <1>2 DEF MarkSpent, TokenMap
<1> QED BY <1>1, <1>2

LEMMA PutAllType ==
    ASSUME NEW map \in TokenMap, NEW ts \in Seq(Tokens), NEW o \in {"mined", "replaced"}
    PROVE  PutAll(map, ts, o) \in TokenMap
<1> SUFFICES ASSUME NEW k \in Keys
             PROVE  PutAll(map, ts, o)[k] \in TokenRecord \union {Absent}
  BY DEF PutAll, TokenMap
<1>1. CASE k \in KeysOf(ts)
  <2> DEFINE t == [key |-> k, amount |-> AmountIn(ts, k)]
  <2>1. t.amount \in Int
    BY <1>1, AmountInType
  <2>2. RecordFromSecret(t, o) \in TokenRecord
    BY <2>1, FreshRecord
  <2> QED BY <1>1, <2>2 DEF PutAll
<1>2. CASE k \notin KeysOf(ts)
  BY <1>2 DEF PutAll, TokenMap
<1> QED BY <1>1, <1>2

-----------------------------------------------------------------------------
(* The running total *)

\* A recursive function is what its definition says only if such a function
\* exists; the least length without one would have a predecessor with one.
LEMMA RunningTotalExists ==
    ASSUME NEW ts \in Seq(Tokens), NEW n \in 0..Len(ts)
    PROVE  \E f : f = [i \in 0..n |-> IF i = 0 THEN 0 ELSE f[i - 1] + ts[i].amount]
<1> DEFINE Sums(f, m) ==
               f = [i \in 0..m |-> IF i = 0 THEN 0 ELSE f[i - 1] + ts[i].amount]
           Bad == {m \in 0..Len(ts) : ~ \E f : Sums(f, m)}
<1> SUFFICES ASSUME Bad # {} PROVE FALSE
  OBVIOUS
<1>1. PICK m \in Bad : \A l \in Bad : m <= l
  <2>1. Bad \in SUBSET Nat
    OBVIOUS
  <2> HIDE DEF Bad
  <2> QED BY <2>1, LeastElement
<1>2. CASE m = 0
  <2>1. Sums([i \in 0..0 |-> 0], 0)
    OBVIOUS
  <2> QED BY <1>1, <1>2, <2>1
<1>3. CASE m # 0
  <2>1. m \in Nat /\ m - 1 \in 0..Len(ts) /\ m - 1 \notin Bad
    <3>1. m \in 0..Len(ts)
      BY <1>1
    <3>2. m \in Nat /\ m - 1 \in 0..Len(ts) /\ ~(m <= m - 1)
      BY <1>3, <3>1
    <3> HIDE DEF Bad
    <3> QED BY <1>1, <3>2
  <2>2. PICK g : Sums(g, m - 1)
    BY <2>1
  <2> DEFINE f == [i \in 0..m |-> IF i < m THEN g[i] ELSE g[m - 1] + ts[m].amount]
  <2>3. \A i \in 0..m : f[i] = IF i = 0 THEN 0 ELSE f[i - 1] + ts[i].amount
    <3> SUFFICES ASSUME NEW i \in 0..m
                 PROVE  f[i] = IF i = 0 THEN 0 ELSE f[i - 1] + ts[i].amount
      OBVIOUS
    <3>1. CASE i < m
      <4>1. g[i] = IF i = 0 THEN 0 ELSE g[i - 1] + ts[i].amount
        <5>1. i \in 0..(m - 1)
          BY <2>1, <3>1
        <5> QED BY <2>2, <5>1
      <4>2. i # 0 => i - 1 \in 0..m /\ i - 1 < m
        BY <2>1, <3>1
      <4> QED BY <2>1, <3>1, <4>1, <4>2
    <3>2. CASE i = m
      BY <1>3, <2>1, <3>2
    <3> QED BY <2>1, <3>1, <3>2
  <2>4. Sums(f, m)
    <3> DEFINE h == [i \in 0..m |-> IF i = 0 THEN 0 ELSE f[i - 1] + ts[i].amount]
    <3>1. \A i \in 0..m : f[i] = h[i]
      BY <2>3
    <3>2. f = h
      <4> DEFINE D == 0..m
      <4>1. f = [i \in D |-> f[i]]
        OBVIOUS
      <4>2. h = [i \in D |-> h[i]]
        OBVIOUS
      <4> HIDE DEF f, h
      <4> QED BY <3>1, <4>1, <4>2
    <3> QED BY <3>2
  <2> QED BY <1>1, <2>4
<1> QED BY <1>2, <1>3

\* The running total unfolds as written, and every partial sum is an integer.
LEMMA RunningTotalUnfolds ==
    ASSUME NEW ts \in Seq(Tokens), NEW i \in 0..Len(ts)
    PROVE  RunningTotal(ts)[i] =
               IF i = 0 THEN 0 ELSE RunningTotal(ts)[i - 1] + ts[i].amount
<1> DEFINE Sums(f) ==
        f = [j \in 0..Len(ts) |-> IF j = 0 THEN 0 ELSE f[j - 1] + ts[j].amount]
<1>1. \E f : Sums(f)
  BY RunningTotalExists
<1>2. RunningTotal(ts) = CHOOSE f : Sums(f)
  BY DEF RunningTotal
<1>3. Sums(RunningTotal(ts))
  <2> HIDE DEF Sums
  <2> QED BY <1>1, <1>2
<1> QED BY <1>3

LEMMA TotalType ==
    ASSUME NEW ts \in Seq(Tokens)
    PROVE  Total(ts) \in Int
<1> DEFINE Bad == {i \in 0..Len(ts) : RunningTotal(ts)[i] \notin Int}
<1>1. Bad = {}
  <2> SUFFICES ASSUME Bad # {} PROVE FALSE
    OBVIOUS
  <2>1. PICK m \in Bad : \A l \in Bad : m <= l
    <3>1. Bad \in SUBSET Nat
      OBVIOUS
    <3> HIDE DEF Bad
    <3> QED BY <3>1, LeastElement
  <2>2. m # 0 /\ m \in 1..Len(ts)
    BY <2>1, RunningTotalUnfolds
  <2>3. RunningTotal(ts)[m - 1] \in Int
    BY <2>1, <2>2
  <2>4. ts[m] \in Tokens
    BY <2>2
  <2> QED BY <2>1, <2>2, <2>3, <2>4, TokenParts, RunningTotalUnfolds
<1> QED BY <1>1 DEF Total

LEMMA WrapType == ASSUME NEW n \in Int PROVE Wrap(n) \in Int
BY MaxWatsAssumption DEF Wrap

LEMMA SaturatingAddType ==
    ASSUME NEW a \in Int, NEW b \in Int
    PROVE  SaturatingAdd(a, b) \in Int
BY MaxWatsAssumption DEF SaturatingAdd

-----------------------------------------------------------------------------
(* The stores *)

\* Inputs that exist, outputs that do not.
Replaceable(map, ins, outs) ==
    /\ \A i \in DOMAIN ins : map[ins[i].key] # Absent
    /\ \A j \in DOMAIN outs : map[outs[j].key] = Absent

\* From map to new, the keys of ins are closed, those of outs are opened,
\* and every other record is as it was.
Replaces(map, new, ins, outs) ==
    /\ new \in TokenMap
    /\ KeysOf(ins) \intersect KeysOf(outs) = {}
    /\ \A k \in KeysOf(ins) : map[k] # Absent /\ new[k] = Closed(map[k])
    /\ \A k \in KeysOf(outs) :
          /\ map[k] = Absent
          /\ new[k] = RecordFromSecret([key |-> k, amount |-> AmountIn(outs, k)],
                                       "replaced")
    /\ \A k \in Keys \ (KeysOf(ins) \union KeysOf(outs)) : new[k] = map[k]

\* From map to new, the keys of outs are opened and the others untouched.
Opens(map, new, outs, o) ==
    /\ new \in TokenMap
    /\ \A k \in KeysOf(outs) :
          new[k] = RecordFromSecret([key |-> k, amount |-> AmountIn(outs, k)], o)
    /\ \A k \in Keys \ KeysOf(outs) : new[k] = map[k]

\* A transactional replace has the effect it should.
LEMMA ReplaceEffect ==
    ASSUME NEW map \in TokenMap, NEW ins \in Seq(Tokens), NEW outs \in Seq(Tokens),
           Replaceable(map, ins, outs)
    PROVE  Replaces(map, PutAll(MarkSpent(map, KeysOf(ins)), outs, "replaced"), ins, outs)
<1> DEFINE new == PutAll(MarkSpent(map, KeysOf(ins)), outs, "replaced")
<1>1. KeysOf(ins) \subseteq Keys /\ KeysOf(outs) \subseteq Keys
  BY ListKeys
<1>2. \A k \in KeysOf(ins) : map[k] # Absent
  BY DEF KeysOf, Replaceable
<1>3. \A k \in KeysOf(outs) : map[k] = Absent
  BY DEF KeysOf, Replaceable
<1>4. MarkSpent(map, KeysOf(ins)) \in TokenMap
  BY <1>1, <1>2, MarkSpentType
<1>5. new \in TokenMap
  BY <1>4, PutAllType
<1>6. \A k \in Keys :
         new[k] = IF k \in KeysOf(outs)
                  THEN RecordFromSecret([key |-> k, amount |-> AmountIn(outs, k)],
                                        "replaced")
                  ELSE IF k \in KeysOf(ins) THEN Closed(map[k])
                  ELSE map[k]
  BY DEF PutAll, MarkSpent
<1> HIDE DEF new
<1>7. Replaces(map, new, ins, outs)
  BY <1>1, <1>2, <1>3, <1>5, <1>6 DEF Replaces
<1> QED BY <1>7 DEF new

\* So has a transactional insert.
LEMMA InsertEffect ==
    ASSUME NEW map \in TokenMap, NEW outs \in Seq(Tokens),
           NEW o \in {"mined", "replaced"}
    PROVE  Opens(map, PutAll(map, outs, o), outs, o)
<1>1. KeysOf(outs) \subseteq Keys
  BY ListKeys
<1>2. PutAll(map, outs, o) \in TokenMap
  BY PutAllType
<1> QED BY <1>1, <1>2 DEF PutAll, Opens

\* A fresh record exists and is unspent.
LEMMA FreshIsLive ==
    ASSUME NEW t, t.amount \in Int, NEW o \in {"mined", "replaced"}
    PROVE  /\ RecordFromSecret(t, o) # Absent
           /\ RecordFromSecret(t, o).spent = "no"
           /\ RecordFromSecret(t, o).amount = t.amount
BY FreshRecord, AbsentIsNoRecord DEF RecordFromSecret

\* REPLACE_LUA writes a prefix of the outputs: it stops at the first one
\* that exists, and there is a first one or none.
LEMMA LuaWrittenIsPrefix ==
    ASSUME NEW map, NEW outs \in Seq(Tokens)
    PROVE  \E n \in 0..Len(outs) :
               /\ LuaWritten(map, outs) = SubSeq(outs, 1, n)
               /\ \A i \in 1..n : ~LuaOutputExists(map, outs, i)
<1> DEFINE Exists(j) == LuaOutputExists(map, outs, j)
           Stop(n) == /\ \A i \in 1..n : ~Exists(i)
                      /\ n < Len(outs) => Exists(n + 1)
           Ends == {n \in 0..Len(outs) : n < Len(outs) => Exists(n + 1)}
<1> HIDE DEF Exists
<1>1. Len(outs) \in Ends /\ Ends \in SUBSET Nat
  OBVIOUS
<1>2. PICK n \in Ends : \A m \in Ends : n <= m
  <2> HIDE DEF Ends
  <2> QED BY <1>1, LeastElement
<1>3. n \in 0..Len(outs) /\ (n < Len(outs) => Exists(n + 1))
  BY <1>2
<1>4. \A i \in 1..n : ~Exists(i)
  <2> SUFFICES ASSUME NEW i \in 1..n, Exists(i) PROVE FALSE
    OBVIOUS
  <2>1. i - 1 \in 0..Len(outs) /\ (i - 1) + 1 = i /\ ~(n <= i - 1)
    BY <1>3
  <2>2. i - 1 \in Ends
    BY <2>1
  <2> HIDE DEF Ends
  <2> QED BY <1>2, <2>1, <2>2
<1>5. \E c \in 0..Len(outs) : Stop(c)
  BY <1>3, <1>4
<1>6. LuaWritten(map, outs) = SubSeq(outs, 1, CHOOSE c \in 0..Len(outs) : Stop(c))
  BY DEF LuaWritten, Exists
<1> DEFINE stop == CHOOSE c \in 0..Len(outs) : Stop(c)
<1> HIDE DEF Stop
<1>7. stop \in 0..Len(outs) /\ Stop(stop)
  BY <1>5
<1>8. \A i \in 1..stop : ~Exists(i)
  BY <1>7 DEF Stop
<1> QED BY <1>6, <1>7, <1>8 DEF Exists

LEMMA LuaReplaceType ==
    ASSUME NEW map \in TokenMap, NEW ins \in Seq(Tokens), NEW outs \in Seq(Tokens)
    PROVE  /\ LuaReplace(map, ins, outs) \in TokenMap
           /\ \A k \in Keys : map[k] # Absent => LuaReplace(map, ins, outs)[k] # Absent
<1> DEFINE marked == MarkSpent(map, KeysOf(ins))
           put == LuaWritten(marked, outs)
<1>1. CASE ~LuaInputsOk(map, ins)
  BY <1>1 DEF LuaReplace
<1>2. CASE LuaInputsOk(map, ins)
  <2>1. \A k \in KeysOf(ins) : map[k] # Absent
    BY <1>2 DEF LuaInputsOk, KeysOf
  <2>2. KeysOf(ins) \subseteq Keys
    BY ListKeys
  <2>3. marked \in TokenMap
    BY <2>1, <2>2, MarkSpentType
  <2>4. put \in Seq(Tokens)
    BY LuaWrittenIsPrefix
  <2>5. LuaReplace(map, ins, outs) = PutAll(marked, put, "replaced")
    BY <1>2 DEF LuaReplace
  <2>6. \A k \in Keys : map[k] # Absent => marked[k] # Absent
    <3> SUFFICES ASSUME NEW k \in KeysOf(ins) PROVE marked[k] # Absent
      BY DEF MarkSpent
    <3>1. map[k] \in TokenRecord
      BY <2>1, <2>2 DEF TokenMap
    <3>2. Closed(map[k]) # Absent
      BY <3>1, ClosedRecord
    <3> QED BY <2>2, <3>2 DEF MarkSpent
  <2>7. PutAll(marked, put, "replaced") \in TokenMap
    BY <2>3, <2>4, PutAllType
  <2>8. ASSUME NEW k \in Keys, marked[k] # Absent
        PROVE  PutAll(marked, put, "replaced")[k] # Absent
    <3>1. CASE k \in KeysOf(put)
      <4>1. AmountIn(put, k) \in Int
        BY <2>4, <3>1, AmountInType
      <4> HIDE DEF put, marked
      <4>2. RecordFromSecret([key |-> k, amount |-> AmountIn(put, k)], "replaced") # Absent
        BY <4>1, FreshIsLive
      <4> QED BY <3>1, <4>2 DEF PutAll
    <3>2. CASE k \notin KeysOf(put)
      <4> HIDE DEF put, marked
      <4> QED BY <2>8, <3>2 DEF PutAll
    <3> QED BY <3>1, <3>2
  <2> QED BY <2>5, <2>6, <2>7, <2>8
<1> QED BY <1>1, <1>2

-----------------------------------------------------------------------------
(* What a store does to a token that is spent *)

SpentIn(map, k) == map[k] # Absent /\ map[k].spent = "yes"

\* Marking other tokens, or this one again, keeps a token spent.
LEMMA MarkKeepsSpent ==
    ASSUME NEW map \in TokenMap, NEW ks, NEW k \in Keys, SpentIn(map, k)
    PROVE  SpentIn(MarkSpent(map, ks), k)
<1>1. map[k] \in TokenRecord
  BY DEF TokenMap, SpentIn
<1> QED BY <1>1, ClosedRecord DEF MarkSpent, SpentIn

\* Records written under keys that hold none revive nothing.
LEMMA PutKeepsSpent ==
    ASSUME NEW map, NEW ts, NEW o, NEW k \in Keys, SpentIn(map, k),
           \A i \in DOMAIN ts : map[ts[i].key] = Absent
    PROVE  SpentIn(PutAll(map, ts, o), k)
<1>1. k \notin KeysOf(ts)
  BY DEF KeysOf, SpentIn
<1> QED BY <1>1 DEF PutAll, SpentIn

\* Neither does REPLACE_LUA, accepted or refused half way.
LEMMA LuaReplaceKeepsSpent ==
    ASSUME NEW map \in TokenMap, NEW ins \in Seq(Tokens), NEW outs \in Seq(Tokens),
           NEW k \in Keys, SpentIn(map, k)
    PROVE  SpentIn(LuaReplace(map, ins, outs), k)
<1> DEFINE marked == MarkSpent(map, KeysOf(ins))
           put == LuaWritten(marked, outs)
<1>1. CASE ~LuaInputsOk(map, ins)
  BY <1>1 DEF LuaReplace
<1>2. CASE LuaInputsOk(map, ins)
  <2>1. LuaReplace(map, ins, outs) = PutAll(marked, put, "replaced")
    BY <1>2 DEF LuaReplace
  <2>2. SpentIn(marked, k)
    BY MarkKeepsSpent
  <2>3. PICK n \in 0..Len(outs) :
            /\ put = SubSeq(outs, 1, n)
            /\ \A i \in 1..n : ~LuaOutputExists(marked, outs, i)
    BY LuaWrittenIsPrefix
  <2> HIDE DEF marked, put
  <2>4. DOMAIN put = 1..n /\ \A i \in 1..n : put[i] = outs[i]
    BY <2>3
  <2>5. \A i \in DOMAIN put : marked[put[i].key] = Absent
    BY <2>3, <2>4 DEF LuaOutputExists
  <2> QED BY <2>1, <2>2, <2>5, PutKeepsSpent
<1> QED BY <1>1, <1>2

\* HSETNX writes only where there is nothing.
LEMMA HSetNxKeepsSpent ==
    ASSUME NEW map \in TokenMap, NEW t \in Tokens, HSetNxCreates(map, t),
           NEW k \in Keys, SpentIn(map, k)
    PROVE  SpentIn(HSetNx(map, t), k)
<1>1. t.key \in Keys /\ k # t.key
  BY TokenParts DEF SpentIn, HSetNxCreates
<1> QED BY <1>1 DEF SpentIn, HSetNx, TokenMap

-----------------------------------------------------------------------------
(* Sums of amounts *)

\* Of some finite sets one contains no other: what stands for induction here.
LEMMA SmallestSet ==
    ASSUME NEW K, IsFiniteSet(K), NEW B \in SUBSET (SUBSET K), B # {}
    PROVE  \E S \in B : IsFiniteSet(S) /\ \A T \in SUBSET S : T # S => T \notin B
<1> DEFINE sizes == {Cardinality(S) : S \in B}
<1>1. \A S \in B : IsFiniteSet(S) /\ Cardinality(S) \in Nat
  BY FS_Subset, FS_CardinalityType
<1>2. sizes \in SUBSET Nat /\ sizes # {}
  BY <1>1
<1>3. PICK n \in sizes : \A m \in sizes : n <= m
  <2> HIDE DEF sizes
  <2> QED BY <1>2, LeastElement
<1>4. PICK S \in B : Cardinality(S) = n
  BY <1>3
<1>5. ASSUME NEW T \in SUBSET S, T \in B PROVE T = S
  <2>1. Cardinality(S) <= Cardinality(T)
    BY <1>3, <1>4, <1>5
  <2>2. /\ Cardinality(T) \in Nat /\ Cardinality(S) \in Nat /\ IsFiniteSet(S)
        /\ Cardinality(T) <= Cardinality(S)
        /\ Cardinality(S) = Cardinality(T) => S = T
    BY <1>1, <1>4, <1>5, FS_Subset
  <2> QED BY <2>1, <2>2
<1> QED BY <1>1, <1>4, <1>5

Chosen(S) == CHOOSE x \in S : TRUE

\* g is the recursive function MapThenSumSet takes its value from.
Sums(map, K, g) ==
    g = [S \in SUBSET K |->
            IF S = {} THEN 0 ELSE map[Chosen(S)].amount + g[S \ {Chosen(S)}]]

\* The amounts of the records of S in map; a list of tokens is such a map too,
\* from positions.
SumOver(map, S) == (CHOOSE g : Sums(map, S, g))[S]

LEMMA SumsUnfold ==
    ASSUME NEW map, NEW K, NEW g, Sums(map, K, g), NEW S \in SUBSET K
    PROVE  /\ g[S] = IF S = {} THEN 0 ELSE map[Chosen(S)].amount + g[S \ {Chosen(S)}]
           /\ S # {} => Chosen(S) \in S /\ S \ {Chosen(S)} # S
<1>1. g[S] = IF S = {} THEN 0 ELSE map[Chosen(S)].amount + g[S \ {Chosen(S)}]
  BY DEF Sums
<1>2. S # {} => Chosen(S) \in S
  BY DEF Chosen
<1> QED BY <1>1, <1>2

\* Two such functions agree where both are defined.
LEMMA SumsAgree ==
    ASSUME NEW map, NEW K, NEW L, IsFiniteSet(K), NEW g, NEW h,
           Sums(map, K, g), Sums(map, L, h), NEW U \in SUBSET K, U \in SUBSET L
    PROVE  g[U] = h[U]
<1> DEFINE B == {S \in SUBSET K : S \in SUBSET L /\ g[S] # h[S]}
<1> SUFFICES ASSUME B # {} PROVE FALSE
  OBVIOUS
<1>1. PICK S \in B : \A T \in SUBSET S : T # S => T \notin B
  <2>1. B \in SUBSET (SUBSET K)
    OBVIOUS
  <2> HIDE DEF B
  <2> QED BY <2>1, SmallestSet
<1>2. S \in SUBSET K /\ S \in SUBSET L /\ g[S] # h[S]
  BY <1>1
<1> DEFINE rest == S \ {Chosen(S)}
<1> HIDE DEF B
<1>3. g[S] = (IF S = {} THEN 0 ELSE map[Chosen(S)].amount + g[rest]) /\ (S # {} => rest # S)
  BY <1>2, SumsUnfold
<1>4. h[S] = IF S = {} THEN 0 ELSE map[Chosen(S)].amount + h[rest]
  BY <1>2, SumsUnfold
<1>5. S # {} => g[rest] = h[rest]
  BY <1>1, <1>2, <1>3 DEF B
<1> QED BY <1>2, <1>3, <1>4, <1>5

\* There is such a function: a set without one would have a smaller one.
LEMMA SumsExist ==
    ASSUME NEW map, NEW K, IsFiniteSet(K)
    PROVE  Sums(map, K, CHOOSE g : Sums(map, K, g))
<1> DEFINE B == {S \in SUBSET K : ~ \E g : Sums(map, S, g)}
<1>0. SUFFICES ASSUME B # {} PROVE FALSE
  OBVIOUS
<1>1. PICK S \in B : IsFiniteSet(S) /\ \A T \in SUBSET S : T # S => T \notin B
  <2>1. B \in SUBSET (SUBSET K)
    OBVIOUS
  <2> HIDE DEF B
  <2> QED BY <1>0, <2>1, SmallestSet
<1>2. S \in SUBSET K /\ ~ \E g : Sums(map, S, g)
  BY <1>1
<1>3. ASSUME NEW T \in SUBSET S, T # S
      PROVE  IsFiniteSet(T) /\ Sums(map, T, CHOOSE g : Sums(map, T, g))
  <2>1. T \in SUBSET K /\ T \notin B
    BY <1>1, <1>2, <1>3
  <2>2. \E g : Sums(map, T, g)
    BY <2>1
  <2> QED BY <1>1, <2>2, FS_Subset
<1> HIDE DEF B
<1> DEFINE f == [T \in SUBSET S |-> IF T = {} THEN 0
                                    ELSE map[Chosen(T)].amount + SumOver(map, T \ {Chosen(T)})]
<1>4. ASSUME NEW T \in SUBSET S, T # S PROVE SumOver(map, T) = f[T]
  <2> DEFINE h == CHOOSE g : Sums(map, T, g)
             U == T \ {Chosen(T)}
             j == CHOOSE g : Sums(map, U, g)
  <2>1. Sums(map, T, h) /\ IsFiniteSet(T) /\ SumOver(map, T) = h[T]
    BY <1>3, <1>4 DEF SumOver
  <2>2. U \in SUBSET S /\ U # S /\ U \in SUBSET T
    BY <1>4
  <2>3. Sums(map, U, j) /\ SumOver(map, U) = j[U]
    BY <1>3, <2>2 DEF SumOver
  <2>4. f[T] = IF T = {} THEN 0 ELSE map[Chosen(T)].amount + SumOver(map, U)
    OBVIOUS
  <2> HIDE DEF h, j, f
  <2>5. h[T] = IF T = {} THEN 0 ELSE map[Chosen(T)].amount + h[U]
    BY <2>1, SumsUnfold
  <2> HIDE DEF U
  <2>6. h[U] = j[U]
    BY <2>1, <2>2, <2>3, SumsAgree
  <2> QED BY <2>1, <2>3, <2>4, <2>5, <2>6
<1>5. \A T \in SUBSET S : T # {} => SumOver(map, T \ {Chosen(T)}) = f[T \ {Chosen(T)}]
  <2> SUFFICES ASSUME NEW T \in SUBSET S, T # {}
               PROVE  SumOver(map, T \ {Chosen(T)}) = f[T \ {Chosen(T)}]
    OBVIOUS
  <2>1. Chosen(T) \in T
    BY DEF Chosen
  <2>2. T \ {Chosen(T)} \in SUBSET S /\ T \ {Chosen(T)} # S
    BY <2>1
  <2> HIDE DEF f
  <2> QED BY <1>4, <2>2
<1>6. f = [T \in SUBSET S |-> IF T = {} THEN 0
                              ELSE map[Chosen(T)].amount + f[T \ {Chosen(T)}]]
  BY <1>5
<1> QED BY <1>2, <1>6 DEF Sums

\* A sum unfolds at the chosen element.
LEMMA SumUnfolds ==
    ASSUME NEW map, NEW S, IsFiniteSet(S)
    PROVE  /\ SumOver(map, S) = IF S = {} THEN 0
                                ELSE map[Chosen(S)].amount + SumOver(map, S \ {Chosen(S)})
           /\ S # {} => Chosen(S) \in S
<1> DEFINE g == CHOOSE h : Sums(map, S, h)
           U == S \ {Chosen(S)}
           j == CHOOSE h : Sums(map, U, h)
<1>1. Sums(map, S, g) /\ SumOver(map, S) = g[S]
  BY SumsExist DEF SumOver
<1>2. U \in SUBSET S /\ IsFiniteSet(U)
  BY FS_Subset
<1>3. Sums(map, U, j) /\ SumOver(map, U) = j[U]
  BY <1>2, SumsExist DEF SumOver
<1> HIDE DEF g, j
<1>4. g[S] = (IF S = {} THEN 0 ELSE map[Chosen(S)].amount + g[U]) /\ (S # {} => Chosen(S) \in S)
  BY <1>1, SumsUnfold
<1> HIDE DEF U
<1>5. g[U] = j[U]
  BY <1>1, <1>2, <1>3, SumsAgree
<1> QED BY <1>1, <1>3, <1>4, <1>5 DEF U

\* A sum of integers is an integer, and depends on the amounts only.
LEMMA SumType ==
    ASSUME NEW map, NEW S, IsFiniteSet(S), \A k \in S : map[k].amount \in Int
    PROVE  SumOver(map, S) \in Int
<1> DEFINE B == {T \in SUBSET S : SumOver(map, T) \notin Int}
<1>0. SUFFICES ASSUME B # {} PROVE FALSE
  OBVIOUS
<1>1. PICK T \in B : IsFiniteSet(T) /\ \A U \in SUBSET T : U # T => U \notin B
  <2>1. B \in SUBSET (SUBSET S)
    OBVIOUS
  <2> HIDE DEF B
  <2> QED BY <1>0, <2>1, SmallestSet
<1>2. T \in SUBSET S /\ SumOver(map, T) \notin Int
  BY <1>1
<1>3. /\ SumOver(map, T) = IF T = {} THEN 0
                           ELSE map[Chosen(T)].amount + SumOver(map, T \ {Chosen(T)})
      /\ T # {} => Chosen(T) \in T
  BY <1>1, SumUnfolds
<1>4. T # {} => SumOver(map, T \ {Chosen(T)}) \in Int /\ map[Chosen(T)].amount \in Int
  BY <1>1, <1>2, <1>3
<1> QED BY <1>2, <1>3, <1>4

LEMMA SumSame ==
    ASSUME NEW map, NEW new, NEW S, IsFiniteSet(S),
           \A k \in S : new[k].amount = map[k].amount
    PROVE  SumOver(new, S) = SumOver(map, S)
<1> DEFINE B == {T \in SUBSET S : SumOver(new, T) # SumOver(map, T)}
<1>0. SUFFICES ASSUME B # {} PROVE FALSE
  OBVIOUS
<1>1. PICK T \in B : IsFiniteSet(T) /\ \A U \in SUBSET T : U # T => U \notin B
  <2>1. B \in SUBSET (SUBSET S)
    OBVIOUS
  <2> HIDE DEF B
  <2> QED BY <1>0, <2>1, SmallestSet
<1>2. T \in SUBSET S /\ SumOver(new, T) # SumOver(map, T)
  BY <1>1
<1>3. /\ SumOver(map, T) = IF T = {} THEN 0
                           ELSE map[Chosen(T)].amount + SumOver(map, T \ {Chosen(T)})
      /\ SumOver(new, T) = IF T = {} THEN 0
                           ELSE new[Chosen(T)].amount + SumOver(new, T \ {Chosen(T)})
      /\ T # {} => Chosen(T) \in T
  BY <1>1, SumUnfolds
<1>4. T # {} => SumOver(new, T \ {Chosen(T)}) = SumOver(map, T \ {Chosen(T)})
                /\ new[Chosen(T)].amount = map[Chosen(T)].amount
  BY <1>1, <1>2, <1>3
<1> QED BY <1>2, <1>3, <1>4

\* Any element may be taken out first: addition commutes.
LEMMA SumRemove ==
    ASSUME NEW map, NEW S, IsFiniteSet(S), \A k \in S : map[k].amount \in Int, NEW x \in S
    PROVE  SumOver(map, S) = map[x].amount + SumOver(map, S \ {x})
<1> DEFINE B == {T \in SUBSET S : \E y \in T :
                    SumOver(map, T) # map[y].amount + SumOver(map, T \ {y})}
<1>0. SUFFICES ASSUME B # {} PROVE FALSE
  OBVIOUS
<1>1. PICK T \in B : IsFiniteSet(T) /\ \A U \in SUBSET T : U # T => U \notin B
  <2>1. B \in SUBSET (SUBSET S)
    OBVIOUS
  <2> HIDE DEF B
  <2> QED BY <1>0, <2>1, SmallestSet
<1>2. PICK y \in T : SumOver(map, T) # map[y].amount + SumOver(map, T \ {y})
  BY <1>1
<1>3. T \in SUBSET S /\ \A U \in SUBSET T : U # T =>
         \A z \in U : SumOver(map, U) = map[z].amount + SumOver(map, U \ {z})
  BY <1>1
<1> HIDE DEF B
<1> DEFINE c == Chosen(T)
<1>4. SumOver(map, T) = map[c].amount + SumOver(map, T \ {c}) /\ c \in T
  BY <1>1, SumUnfolds
<1>5. c # y
  BY <1>2, <1>4
<1> HIDE DEF c
<1> DEFINE both == (T \ {c}) \ {y}
<1>6. SumOver(map, T \ {c}) = map[y].amount + SumOver(map, both)
  BY <1>2, <1>3, <1>4, <1>5
<1>7. SumOver(map, T \ {y}) = map[c].amount + SumOver(map, both)
  <2>1. (T \ {y}) \ {c} = both
    OBVIOUS
  <2> HIDE DEF both
  <2> QED BY <1>2, <1>3, <1>4, <1>5, <2>1
<1>8. both \in SUBSET S /\ IsFiniteSet(both) /\ \A k \in both : map[k].amount \in Int
  BY <1>3, FS_Subset
<1> HIDE DEF both
<1>9. SumOver(map, both) \in Int /\ map[c].amount \in Int /\ map[y].amount \in Int
  BY <1>2, <1>3, <1>4, <1>8, SumType
<1> QED BY <1>2, <1>4, <1>6, <1>7, <1>9

LEMMA SumUnion ==
    ASSUME NEW map, NEW S, NEW N, IsFiniteSet(S), IsFiniteSet(N), S \intersect N = {},
           \A k \in S \union N : map[k].amount \in Int
    PROVE  SumOver(map, S \union N) = SumOver(map, S) + SumOver(map, N)
<1> DEFINE B == {T \in SUBSET N : SumOver(map, S \union T) # SumOver(map, S) + SumOver(map, T)}
<1>0. SUFFICES ASSUME B # {} PROVE FALSE
  OBVIOUS
<1>1. PICK T \in B : IsFiniteSet(T) /\ \A U \in SUBSET T : U # T => U \notin B
  <2>1. B \in SUBSET (SUBSET N)
    OBVIOUS
  <2> HIDE DEF B
  <2> QED BY <1>0, <2>1, SmallestSet
<1>2. T \in SUBSET N /\ SumOver(map, S \union T) # SumOver(map, S) + SumOver(map, T)
      /\ \A U \in SUBSET T : U # T =>
            SumOver(map, S \union U) = SumOver(map, S) + SumOver(map, U)
  BY <1>1
<1> HIDE DEF B
<1>3. SumOver(map, S) \in Int
  BY SumType
<1>4. CASE T = {}
  <2>1. SumOver(map, T) = 0
    BY <1>1, <1>4, SumUnfolds
  <2>2. S \union T = S
    BY <1>4
  <2>3. SumOver(map, S \union T) = SumOver(map, S)
    BY <2>2
  <2> QED BY <1>2, <1>3, <2>1, <2>3
<1>5. CASE T # {}
  <2>1. PICK x \in T : TRUE
    BY <1>5
  <2> DEFINE U == T \ {x}
             W == S \union T
  <2>2. /\ U \in SUBSET T /\ U # T /\ x \in N /\ x \in W /\ x \notin S
        /\ W \ {x} = S \union U /\ T \subseteq N
    BY <1>2, <2>1
  <2>3. /\ IsFiniteSet(U) /\ IsFiniteSet(W)
        /\ \A k \in W : map[k].amount \in Int
        /\ \A k \in T : map[k].amount \in Int
    BY <1>1, <1>2, <2>2, FS_Subset, FS_Union
  <2>4. SumOver(map, T) = map[x].amount + SumOver(map, U)
    BY <1>1, <2>1, <2>3, SumRemove
  <2> HIDE DEF W
  <2>5. SumOver(map, W) = map[x].amount + SumOver(map, W \ {x})
    BY <2>2, <2>3, SumRemove
  <2> HIDE DEF U
  <2>6. SumOver(map, W \ {x}) = SumOver(map, S) + SumOver(map, U)
    BY <1>2, <2>2
  <2>7. SumOver(map, U) \in Int /\ map[x].amount \in Int
    BY <2>1, <2>2, <2>3, SumType
  <2>8. SumOver(map, W) = SumOver(map, S) + SumOver(map, T)
    BY <1>3, <2>4, <2>5, <2>6, <2>7
  <2> QED BY <1>2, <2>8 DEF W
<1> QED BY <1>4, <1>5
=============================================================================
