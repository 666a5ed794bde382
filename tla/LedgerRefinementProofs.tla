----------------------- MODULE LedgerRefinementProofs -----------------------
(***************************************************************************)
(* Over FoundationDB, and whatever amounts clients write, the server       *)
(* implements SealRegistry: the three kinds of store steps found in        *)
(* LedgerProofs are the three operations of the registry.  And what is     *)
(* unspent or burned differs from what was minted exactly by what the      *)
(* audit trail overstates: a sum over keys is the recursive function       *)
(* behind MapThenSumSet, which exists and splits over disjoint sets.       *)
(***************************************************************************)
EXTENDS LedgerProofs

-----------------------------------------------------------------------------
(* The operators of TokenRecords, as the registry sees them *)

LEMMA SameOperators ==
    /\ \A ts : Registry!KeysOf(ts) = KeysOf(ts)
    /\ \A ts : Registry!DistinctKeys(ts) <=> DistinctKeys(ts)
    /\ \A ts, k : Registry!AmountIn(ts, k) = AmountIn(ts, k)
    /\ \A ts : Registry!Total(ts) = Total(ts)
<1>1. \A ts : Registry!KeysOf(ts) = KeysOf(ts)
  BY DEF Registry!KeysOf, KeysOf
<1>2. \A ts : Registry!DistinctKeys(ts) <=> DistinctKeys(ts)
  BY DEF Registry!DistinctKeys, DistinctKeys
<1>3. \A ts, k : Registry!AmountIn(ts, k) = AmountIn(ts, k)
  BY DEF Registry!AmountIn, AmountIn
<1>4. \A ts : Registry!Total(ts) = Total(ts)
  BY DEF Registry!Total, Total, Registry!RunningTotal, RunningTotal
<1> QED BY <1>1, <1>2, <1>3, <1>4

LEMMA PresentedByRequests ==
    ASSUME NEW r \in Requests
    PROVE  r.ins \in PresentedLists /\ r.outs \in PresentedLists
BY DEF PresentedLists

\* Status and value of a key, before and after a step.
LEMMA SealOf ==
    ASSUME NEW k \in Keys
    PROVE  /\ SealStatus[k] = StatusOf(tokens[k])
           /\ SealValue[k] = IF tokens[k] = Absent THEN 0 ELSE tokens[k].amount
           /\ SealStatus'[k] = StatusOf(tokens'[k])
           /\ SealValue'[k] = IF tokens'[k] = Absent THEN 0 ELSE tokens'[k].amount
BY DEF SealStatus, SealValue, StatusOf

\* A record opened for k is a live seal of the amount written.
LEMMA OpenedSeal ==
    ASSUME NEW outs \in Seq(Tokens), NEW k \in KeysOf(outs), NEW o \in {"mined", "replaced"},
           NEW rec, rec = RecordFromSecret([key |-> k, amount |-> AmountIn(outs, k)], o)
    PROVE  StatusOf(rec) = "live" /\ rec # Absent /\ rec.amount = AmountIn(outs, k)
<1> DEFINE t == [key |-> k, amount |-> AmountIn(outs, k)]
<1>1. t.amount \in Int /\ t.amount = AmountIn(outs, k)
  BY AmountInType
<1> HIDE DEF t
<1>2. RecordFromSecret(t, o) # Absent /\ RecordFromSecret(t, o).spent = "no"
      /\ RecordFromSecret(t, o).amount = t.amount
  BY <1>1, FreshIsLive
<1>3. rec = RecordFromSecret(t, o)
  BY DEF t
<1> QED BY <1>1, <1>2, <1>3 DEF StatusOf

LEMMA MintsAreMints ==
    ASSUME TypeOK, NEW r \in Requests, Mints(r)
    PROVE  Registry!Mint(r.outs)
<1>1. r.outs \in Seq(Tokens) /\ OriginOf(r) \in {"mined", "replaced"}
  BY RequestParts, OriginType
<1>2. DistinctKeys(r.outs)
  BY DEF Mints
<1>3. \A i \in DOMAIN r.outs : SealStatus[r.outs[i].key] = "absent"
  <2> SUFFICES ASSUME NEW i \in DOMAIN r.outs
               PROVE  SealStatus[r.outs[i].key] = "absent"
    OBVIOUS
  <2>1. r.outs[i].key \in Keys /\ tokens[r.outs[i].key] = Absent
    BY RequestParts DEF Mints, KeysOf
  <2> QED BY <2>1, SealOf DEF StatusOf
<1>4. \A k \in Keys :
         /\ SealStatus'[k] = IF k \in KeysOf(r.outs) THEN "live" ELSE SealStatus[k]
         /\ SealValue'[k] = IF k \in KeysOf(r.outs) THEN AmountIn(r.outs, k) ELSE SealValue[k]
  <2> TAKE k \in Keys
  <2>1. CASE k \in KeysOf(r.outs)
    <3>1. tokens'[k] = RecordFromSecret([key |-> k, amount |-> AmountIn(r.outs, k)],
                                        OriginOf(r))
      BY <2>1 DEF Mints, Opens
    <3>2. StatusOf(tokens'[k]) = "live" /\ tokens'[k] # Absent
          /\ tokens'[k].amount = AmountIn(r.outs, k)
      BY <1>1, <2>1, <3>1, OpenedSeal
    <3> QED BY <2>1, <3>2, SealOf
  <2>2. CASE k \notin KeysOf(r.outs)
    <3>1. tokens'[k] = tokens[k]
      BY <2>2 DEF Mints, Opens
    <3> QED BY <2>2, <3>1, SealOf
  <2> QED BY <2>1, <2>2
<1>5. SealStatus' = [k \in Keys |-> IF k \in KeysOf(r.outs) THEN "live" ELSE SealStatus[k]]
  BY <1>4 DEF SealStatus
<1>6. SealValue' = [k \in Keys |->
                       IF k \in KeysOf(r.outs) THEN AmountIn(r.outs, k) ELSE SealValue[k]]
  BY <1>4 DEF SealValue
<1> QED BY <1>2, <1>3, <1>5, <1>6, SameOperators DEF Registry!Mint, Registry!Create

\* What a commit does to every seal.
LEMMA CommitSeals ==
    ASSUME TypeOK, NEW r \in Requests, Commits(r)
    PROVE  /\ \A k \in KeysOf(r.ins) : SealStatus[k] = "live"
           /\ \A k \in KeysOf(r.outs) : SealStatus[k] = "absent"
           /\ SealStatus' = [k \in Keys |->
                  IF k \in KeysOf(r.outs) THEN "live"
                  ELSE IF k \in KeysOf(r.ins) THEN "spent" ELSE SealStatus[k]]
           /\ SealValue' = [k \in Keys |->
                  IF k \in KeysOf(r.outs) THEN AmountIn(r.outs, k) ELSE SealValue[k]]
<1>1. /\ r.outs \in Seq(Tokens) /\ tokens \in TokenMap
      /\ KeysOf(r.ins) \subseteq Keys /\ KeysOf(r.outs) \subseteq Keys
      /\ Replaces(tokens, tokens', r.ins, r.outs)
  BY RequestParts, ListKeys DEF TypeOK, Commits
<1>2. \A k \in KeysOf(r.ins) : SealStatus[k] = "live"
  BY <1>1, SealOf DEF Replaces, Commits, StatusOf
<1>3. \A k \in KeysOf(r.outs) : SealStatus[k] = "absent"
  BY <1>1, SealOf DEF Replaces, StatusOf
<1>4. \A k \in Keys :
         /\ SealStatus'[k] = IF k \in KeysOf(r.outs) THEN "live"
                             ELSE IF k \in KeysOf(r.ins) THEN "spent" ELSE SealStatus[k]
         /\ SealValue'[k] = IF k \in KeysOf(r.outs) THEN AmountIn(r.outs, k) ELSE SealValue[k]
  <2> TAKE k \in Keys
  <2>1. CASE k \in KeysOf(r.outs)
    <3>1. StatusOf(tokens'[k]) = "live" /\ tokens'[k] # Absent
          /\ tokens'[k].amount = AmountIn(r.outs, k)
      BY <1>1, <2>1, OpenedSeal DEF Replaces
    <3> QED BY <2>1, <3>1, SealOf
  <2>2. CASE k \in KeysOf(r.ins)
    <3>1. k \notin KeysOf(r.outs) /\ tokens[k] # Absent /\ tokens[k] \in TokenRecord
          /\ tokens'[k] = Closed(tokens[k])
      BY <1>1, <2>2 DEF Replaces, TokenMap
    <3>2. tokens'[k] # Absent /\ tokens'[k].spent = "yes"
          /\ tokens'[k].amount = tokens[k].amount
      BY <3>1, ClosedRecord
    <3>3. SealStatus'[k] = "spent"
      BY <3>2, SealOf DEF StatusOf
    <3>4. SealValue'[k] = SealValue[k]
      BY <3>1, <3>2, SealOf
    <3> QED BY <2>2, <3>1, <3>3, <3>4
  <2>3. CASE k \notin KeysOf(r.ins) \union KeysOf(r.outs)
    <3>1. tokens'[k] = tokens[k]
      BY <1>1, <2>3 DEF Replaces
    <3> QED BY <2>3, <3>1, SealOf
  <2> QED BY <2>1, <2>2, <2>3
<1>5. SealStatus' = [k \in Keys |->
          IF k \in KeysOf(r.outs) THEN "live"
          ELSE IF k \in KeysOf(r.ins) THEN "spent" ELSE SealStatus[k]]
  BY <1>4 DEF SealStatus
<1>6. SealValue' = [k \in Keys |->
          IF k \in KeysOf(r.outs) THEN AmountIn(r.outs, k) ELSE SealValue[k]]
  BY <1>4 DEF SealValue
<1> QED BY <1>2, <1>3, <1>5, <1>6

LEMMA CommitsAreRegistrySteps ==
    ASSUME TypeOK, NEW r \in Requests, Commits(r)
    PROVE  Registry!Transfer(r.ins, r.outs) \/ \E k \in Keys : Registry!Burn(k)
<1>1. /\ \A k \in KeysOf(r.ins) : SealStatus[k] = "live"
      /\ \A k \in KeysOf(r.outs) : SealStatus[k] = "absent"
      /\ SealStatus' = [k \in Keys |->
             IF k \in KeysOf(r.outs) THEN "live"
             ELSE IF k \in KeysOf(r.ins) THEN "spent" ELSE SealStatus[k]]
      /\ SealValue' = [k \in Keys |->
             IF k \in KeysOf(r.outs) THEN AmountIn(r.outs, k) ELSE SealValue[k]]
  BY CommitSeals
<1>2. CASE r.kind = "replace"
  <2>1. ReplaceAdmissible(r) /\ DistinctKeys(r.ins) /\ DistinctKeys(r.outs)
    BY <1>2 DEF Commits
  <2>2. Total(r.ins) = Total(r.outs)
    BY <2>1 DEF ReplaceAdmissible
  <2>3. \A k, l \in KeysOf(r.ins) \union KeysOf(r.outs) : KeyNs[k] = KeyNs[l]
    BY <2>1, AdmissibleInOneNamespace DEF OneNamespace
  <2>4. \A i \in DOMAIN r.ins : SealStatus[r.ins[i].key] = "live"
    BY <1>1 DEF KeysOf
  <2>5. \A i \in DOMAIN r.outs : SealStatus[r.outs[i].key] = "absent"
    BY <1>1 DEF KeysOf
  <2>6. Registry!Create(r.outs,
            [k \in Keys |-> IF k \in KeysOf(r.ins) THEN "spent" ELSE SealStatus[k]])
    BY <1>1, SameOperators DEF Registry!Create
  <2>7. Registry!Transfer(r.ins, r.outs)
    BY <2>1, <2>2, <2>3, <2>4, <2>5, <2>6, SameOperators DEF Registry!Transfer
  <2> QED BY <2>7
<1>3. CASE r.kind = "burn"
  <2>1. r.outs = <<>> /\ Len(r.ins) = 1 /\ r.ins \in Seq(Tokens)
    BY <1>3, RequestParts DEF Commits
  <2>2. DOMAIN r.ins = {1} /\ DOMAIN r.outs = {}
    BY <2>1
  <2> DEFINE b == r.ins[1].key
  <2>3. KeysOf(r.ins) = {b} /\ KeysOf(r.outs) = {} /\ b \in Keys
    BY <2>2, RequestParts DEF KeysOf
  <2> HIDE DEF b
  <2>4. SealStatus[b] = "live"
    BY <1>1, <2>3
  <2>5. SealStatus' = [SealStatus EXCEPT ![b] = "spent"]
    <3>1. SealStatus' = [k \in Keys |-> IF k = b THEN "spent" ELSE SealStatus[k]]
      BY <1>1, <2>3
    <3> QED BY <3>1 DEF SealStatus
  <2>6. SealValue' = SealValue
    <3>1. SealValue' = [k \in Keys |-> SealValue[k]]
      BY <1>1, <2>3
    <3> QED BY <3>1 DEF SealValue
  <2>7. Registry!Burn(b)
    BY <2>4, <2>5, <2>6 DEF Registry!Burn
  <2> QED BY <2>3, <2>7
<1> QED BY <1>2, <1>3 DEF Commits

\* Every store step is a registry step or changes no seal.
LEMMA StoreStepsAreRegistrySteps ==
    ASSUME TypeOK, StoreSteps
    PROVE  [Registry!RegistryNext]_(Registry!registryVars)
<1>1. CASE UNCHANGED <<tokens, audit>>
  BY <1>1 DEF Registry!registryVars, SealStatus, SealValue, StatusOf
<1>2. ASSUME NEW r \in Requests, Mints(r) PROVE Registry!RegistryNext
  BY <1>2, MintsAreMints, PresentedByRequests DEF Registry!RegistryNext
<1>3. ASSUME NEW r \in Requests, Commits(r) PROVE Registry!RegistryNext
  BY <1>3, CommitsAreRegistrySteps, PresentedByRequests DEF Registry!RegistryNext
<1> QED BY <1>1, <1>2, <1>3 DEF StoreSteps

\* The concurrent server over FoundationDB implements the atomic registry,
\* whatever amounts the tokens of a request are written with.
THEOREM ServerImplementsRegistry ==
    ASSUME Backend = "fdb"
    PROVE  Spec => ImplementsRegistry
<1>1. Init => Registry!RegistryInit
  BY DEF Init, Registry!RegistryInit, SealStatus, SealValue, StatusOf
<1>2. TypeOK /\ HandlersOk /\ [Next]_vars => [Registry!RegistryNext]_(Registry!registryVars)
  BY StepsOfStore, StoreStepsAreRegistrySteps
<1> QED BY <1>1, <1>2, TypeCorrect, PTL
    DEF Spec, ImplementsRegistry, Registry!RegistrySpec

-----------------------------------------------------------------------------
(* Sums over keys *)

LEMMA AmountOfIsSum == \A S : AmountOf(S) = SumOver(tokens, S)
BY DEF AmountOf, SumOver, Sums, Chosen, MapThenSumSet, MapThenFoldSet

\* Of the front of a list: its keys.
Fronted(ts, i) == {ts[j].key : j \in 1..i}

\* A list of different tokens sums to its total.
LEMMA SumOfList ==
    ASSUME NEW map, NEW ts \in Seq(Tokens), DistinctKeys(ts),
           \A i \in DOMAIN ts : map[ts[i].key].amount = ts[i].amount
    PROVE  IsFiniteSet(KeysOf(ts)) /\ SumOver(map, KeysOf(ts)) = Total(ts)
<1> DEFINE Good(i) == /\ IsFiniteSet(Fronted(ts, i))
                      /\ SumOver(map, Fronted(ts, i)) = RunningTotal(ts)[i]
           Bad == {i \in 0..Len(ts) : ~Good(i)}
<1>0. Len(ts) \in Nat /\ DOMAIN ts = 1..Len(ts)
  OBVIOUS
<1>1. Bad = {}
  <2>0. SUFFICES ASSUME Bad # {} PROVE FALSE
    OBVIOUS
  <2>1. PICK m \in Bad : \A l \in Bad : m <= l
    <3>1. Bad \in SUBSET Nat
      OBVIOUS
    <3> HIDE DEF Bad
    <3> QED BY <2>0, <3>1, LeastElement
  <2>2. m \in 0..Len(ts) /\ ~Good(m)
    BY <2>1
  <2>3. CASE m = 0
    <3>1. Fronted(ts, m) = {}
      BY <2>3 DEF Fronted
    <3>2. IsFiniteSet({}) /\ SumOver(map, {}) = 0
      BY FS_EmptySet, SumUnfolds
    <3>3. RunningTotal(ts)[m] = 0
      BY <2>2, <2>3, RunningTotalUnfolds
    <3> QED BY <2>2, <3>1, <3>2, <3>3
  <2>4. CASE m # 0
    <3>1. m - 1 \in 0..Len(ts) /\ m \in DOMAIN ts /\ m \in Nat /\ ~(m <= m - 1)
      BY <1>0, <2>2, <2>4
    <3>2. Good(m - 1)
      BY <2>1, <3>1
    <3> HIDE DEF Bad
    <3> DEFINE F == Fronted(ts, m - 1)
               x == ts[m].key
    <3>3. Fronted(ts, m) = F \union {x} /\ x \notin F
      <4>1. 1..m = (1..(m - 1)) \union {m} /\ 1..(m - 1) \subseteq DOMAIN ts
            /\ m \notin 1..(m - 1)
        BY <1>0, <2>2, <3>1
      <4> QED BY <3>1, <4>1 DEF Fronted, DistinctKeys
    <3>4. \A k \in F \union {x} : map[k].amount \in Int
      <4>1. \A i \in 1..m : i \in DOMAIN ts /\ map[ts[i].key].amount \in Int
        BY <1>0, <2>2, TokenParts
      <4> QED BY <3>3, <4>1 DEF Fronted
    <3>5. IsFiniteSet(F) /\ SumOver(map, F) = RunningTotal(ts)[m - 1]
      BY <3>2
    <3>6. RunningTotal(ts)[m] = RunningTotal(ts)[m - 1] + ts[m].amount
      BY <2>2, <2>4, RunningTotalUnfolds
    <3>7. map[x].amount = ts[m].amount
      BY <3>1
    <3> HIDE DEF F, x
    <3> DEFINE G == F \union {x}
    <3>8. IsFiniteSet(G) /\ x \in G /\ G \ {x} = F
      BY <3>3, <3>5, FS_AddElement
    <3>9. SumOver(map, F) \in Int
      BY <3>4, <3>5, SumType
    <3>10. SumOver(map, G) = map[x].amount + SumOver(map, G \ {x})
      <4> HIDE DEF G
      <4>1. \A k \in G : map[k].amount \in Int
        BY <3>4 DEF G
      <4> QED BY <3>8, <4>1, SumRemove
    <3>11. map[x].amount \in Int
      BY <3>4
    <3>12. SumOver(map, G) = map[x].amount + SumOver(map, F)
      BY <3>8, <3>10
    <3>13. SumOver(map, G) = RunningTotal(ts)[m]
      BY <3>5, <3>6, <3>7, <3>9, <3>11, <3>12
    <3> QED BY <2>2, <3>3, <3>8, <3>13
  <2> QED BY <2>3, <2>4
<1>2. Good(Len(ts))
  BY <1>0, <1>1
<1>3. Fronted(ts, Len(ts)) = KeysOf(ts)
  BY <1>0 DEF Fronted, KeysOf
<1> QED BY <1>2, <1>3 DEF Total

-----------------------------------------------------------------------------
(* Value *)

LEMMA ListIsFinite ==
    ASSUME NEW ts \in Seq(Tokens)
    PROVE  IsFiniteSet(KeysOf(ts))
<1>1. KeyList(ts) \in Surjection(1..Len(ts), KeysOf(ts))
  BY DEF KeyList, KeysOf, Surjection
<1>2. IsFiniteSet(1..Len(ts))
  BY FS_Interval
<1> QED BY <1>1, <1>2, FS_Surjection

\* What every record of a trail overstates, the amounts taken from map.
Overstatements(map, trail, existing) ==
    [i \in DOMAIN trail |->
        [amount |-> trail[i].amount - SumOver(map, {k \in existing : Consumes(trail[i], k)})]]

Gap == SumOver(Overstatements(tokens, audit, Existing), Replacements)

\* What was minted or overstated is unspent or burned.
Balanced(map, unspent, burned, minted, gap) ==
    SumOver(map, unspent) + SumOver(map, burned) = SumOver(map, minted) + gap

ValueInv ==
    /\ LedgerInv /\ IsFiniteSet(Existing)
    /\ Balanced(tokens, Unspent, Burned, Minted, Gap)

LEMMA GapIsSum == MapThenSumSet(LAMBDA i : Overstated(i), Replacements) = Gap
<1> DEFINE m == Overstatements(tokens, audit, Existing)
           S == Replacements
<1>1. \A i \in S : m[i].amount = Overstated(i)
  BY AmountOfIsSum DEF Overstatements, Overstated, Replacements, ConsumedAt
<1>2. \A T \in SUBSET S : T # {} => Chosen(T) \in S
  BY DEF Chosen
<1> HIDE DEF m, S
<1>3. \A g : Sums(m, S, g) <=>
         g = [T \in SUBSET S |-> IF T = {} THEN 0
                                 ELSE Overstated(Chosen(T)) + g[T \ {Chosen(T)}]]
  BY <1>1, <1>2 DEF Sums
<1>4. (CHOOSE g : Sums(m, S, g)) =
         CHOOSE g : g = [T \in SUBSET S |-> IF T = {} THEN 0
                                 ELSE Overstated(Chosen(T)) + g[T \ {Chosen(T)}]]
  BY <1>3
<1>5. MapThenSumSet(LAMBDA i : Overstated(i), S) =
         (CHOOSE g : g = [T \in SUBSET S |-> IF T = {} THEN 0
                                 ELSE Overstated(Chosen(T)) + g[T \ {Chosen(T)}]])[S]
  BY DEF MapThenSumSet, MapThenFoldSet, Chosen
<1> QED BY <1>4, <1>5 DEF Gap, SumOver, m, S

\* A step keeps the worth of what there was.
LEMMA KeptSums ==
    ASSUME TypeOK, StoreSteps, IsFiniteSet(Existing), NEW X \in SUBSET Existing
    PROVE  /\ SumOver(tokens', X) = SumOver(tokens, X) /\ IsFiniteSet(X)
           /\ \A k \in X : tokens'[k].amount \in Int
<1>1. \A k \in X : k \in Keys /\ tokens[k] # Absent
  BY DEF Existing
<1>2. \A k \in X : tokens[k].amount \in Int
  BY <1>1 DEF TypeOK, TokenMap, TokenRecord
<1>3. \A k \in X : tokens'[k].amount = tokens[k].amount
  BY <1>1, RecordsKept DEF RecordKept
<1>4. IsFiniteSet(X)
  BY FS_Subset
<1> QED BY <1>2, <1>3, <1>4, SumSame

\* The records opened for a list are worth its total.
LEMMA OpenedSum ==
    ASSUME NEW map, NEW ts \in Seq(Tokens), DistinctKeys(ts),
           \A k \in KeysOf(ts) : map[k].amount = AmountIn(ts, k)
    PROVE  SumOver(map, KeysOf(ts)) = Total(ts)
<1>1. \A i \in DOMAIN ts : map[ts[i].key].amount = ts[i].amount
  <2> SUFFICES ASSUME NEW i \in DOMAIN ts PROVE map[ts[i].key].amount = ts[i].amount
    OBVIOUS
  <2> DEFINE k == ts[i].key
  <2>1. k \in KeysOf(ts)
    BY DEF KeysOf
  <2>2. PICK j \in DOMAIN ts : ts[j].key = k /\ ts[j].amount = AmountIn(ts, k)
    BY <2>1, AmountInType
  <2>3. j = i
    BY <2>2 DEF DistinctKeys
  <2> QED BY <2>1, <2>2, <2>3
<1> QED BY <1>1, SumOfList

\* The overstatements of the records that stay are the same after a step that
\* consumes nothing for them.
LEMMA GapKept ==
    ASSUME TypeOK, StoreSteps, IsFiniteSet(Existing), NEW N,
           Existing' = Existing \union N, DOMAIN audit \subseteq DOMAIN audit',
           \A i \in DOMAIN audit : audit'[i] = audit[i],
           \A k \in N, i \in DOMAIN audit : ~Consumes(audit[i], k)
    PROVE  /\ SumOver(Overstatements(tokens', audit', Existing'), Replacements) = Gap
           /\ IsFiniteSet(Replacements)
           /\ \A i \in Replacements :
                 Overstatements(tokens', audit', Existing')[i].amount \in Int
<1> DEFINE m == Overstatements(tokens, audit, Existing)
           n == Overstatements(tokens', audit', Existing')
           In(i) == {k \in Existing : Consumes(audit[i], k)}
<1>1. audit \in Seq(AuditRecord) /\ Replacements \subseteq DOMAIN audit
  BY DEF TypeOK, Replacements
<1>2. IsFiniteSet(DOMAIN audit) /\ IsFiniteSet(Replacements)
  <2>1. DOMAIN audit = 1..Len(audit) /\ Len(audit) \in Nat
    BY <1>1
  <2>2. IsFiniteSet(1..Len(audit))
    BY <2>1, FS_Interval
  <2> QED BY <1>1, <2>1, <2>2, FS_Subset
<1>3. ASSUME NEW i \in DOMAIN audit PROVE n[i].amount = m[i].amount /\ n[i].amount \in Int
  <2>1. {k \in Existing' : Consumes(audit'[i], k)} = In(i)
    OBVIOUS
  <2>2. In(i) \in SUBSET Existing
    OBVIOUS
  <2> HIDE DEF In
  <2>3. SumOver(tokens', In(i)) = SumOver(tokens, In(i)) /\ IsFiniteSet(In(i))
        /\ \A k \in In(i) : tokens'[k].amount \in Int
    BY <2>2, KeptSums
  <2>4. SumOver(tokens', In(i)) \in Int
    BY <2>3, SumType
  <2>5. audit[i].amount \in Int
    <3>1. audit[i] \in AuditRecord
      BY <1>1
    <3> QED BY <3>1 DEF AuditRecord
  <2>6. n[i].amount = audit'[i].amount - SumOver(tokens', In(i))
    BY <2>1 DEF Overstatements
  <2>7. m[i].amount = audit[i].amount - SumOver(tokens, In(i))
    BY DEF Overstatements, In
  <2> QED BY <2>3, <2>4, <2>5, <2>6, <2>7
<1> HIDE DEF m, n
<1>4. SumOver(n, Replacements) = SumOver(m, Replacements)
  BY <1>1, <1>2, <1>3, SumSame
<1>5. \A i \in Replacements : n[i].amount \in Int
  BY <1>1, <1>3
<1> QED BY <1>2, <1>4, <1>5 DEF m, n, Gap

LEMMA MintMoves ==
    ASSUME LedgerInv, NEW r \in Requests, Mints(r)
    PROVE  LET N == KeysOf(r.outs)
           IN  /\ N \subseteq Keys /\ N \intersect Existing = {}
               /\ Existing' = Existing \union N /\ Unspent' = Unspent \union N
               /\ Burned' = Burned /\ Minted' = Minted \union N
               /\ \A k \in N, i \in DOMAIN audit : ~Consumes(audit[i], k)
<1> DEFINE N == KeysOf(r.outs)
<1>0. TypeOK /\ SpentIffAudited /\ AuditIsCausal /\ audit' = audit
  BY DEF LedgerInv, Mints
<1>1. N \subseteq Keys
  BY RequestParts, ListKeys
<1>2. \A k \in Keys : /\ k \in N => tokens[k] = Absent /\ tokens'[k] # Absent
                      /\ k \notin N => tokens'[k] = tokens[k]
                      /\ Spent(k)' <=> Spent(k)
  BY <1>0, MintSpendsNothing DEF Mints, Opens
<1>3. \A k \in N, i \in DOMAIN audit : ~ConsumedAt(i, k) /\ ~ProducedAt(i, k)
  BY <1>0, <1>1, <1>2 DEF SpentIffAudited, Spent, AuditIsCausal
<1>4. \A k \in N : ~Spent(k)
  BY <1>1, <1>2 DEF Spent
<1> HIDE DEF N
<1>5. Existing' = Existing \union N /\ N \intersect Existing = {}
  BY <1>1, <1>2 DEF Existing
<1>6. Unspent' = Unspent \union N
  <2>1. \A k \in Existing' : k \in Keys
    BY DEF Existing
  <2>2. Unspent' = {k \in Existing' : ~Spent(k)'}
    BY DEF Unspent
  <2> QED BY <1>1, <1>2, <1>4, <1>5, <2>1, <2>2 DEF Unspent
<1>7. Burned' = Burned
  <2>1. Burned' = {k \in Existing' : \E i \in DOMAIN audit : audit[i].kind = "burn" /\ ConsumedAt(i, k)}
    BY <1>0 DEF Burned, ConsumedAt
  <2> QED BY <1>3, <1>5, <2>1 DEF Burned
<1>8. Minted' = Minted \union N
  <2>1. Minted' = {k \in Existing' : ~\E i \in DOMAIN audit : ProducedAt(i, k)}
    BY <1>0 DEF Minted, ProducedAt
  <2> QED BY <1>3, <1>5, <2>1 DEF Minted
<1> QED BY <1>1, <1>3, <1>5, <1>6, <1>7, <1>8 DEF N, ConsumedAt

LEMMA MintConserves ==
    ASSUME ValueInv, NEW r \in Requests, Mints(r)
    PROVE  IsFiniteSet(Existing') /\ Balanced(tokens', Unspent', Burned', Minted', Gap')
<1> DEFINE N == KeysOf(r.outs)
<1>0. TypeOK /\ LedgerInv /\ IsFiniteSet(Existing) /\ StoreSteps
      /\ SumOver(tokens, Unspent) + SumOver(tokens, Burned) = SumOver(tokens, Minted) + Gap
      /\ audit' = audit
  BY DEF ValueInv, Mints, LedgerInv, StoreSteps, Balanced
<1>1. /\ N \subseteq Keys /\ N \intersect Existing = {} /\ Existing' = Existing \union N
      /\ Unspent' = Unspent \union N /\ Burned' = Burned /\ Minted' = Minted \union N
      /\ \A k \in N, i \in DOMAIN audit : ~Consumes(audit[i], k)
  BY <1>0, MintMoves
<1>2. IsFiniteSet(N)
  BY RequestParts, ListIsFinite
<1>3. \A k \in N : tokens'[k].amount \in Int
  <2>1. \A k \in N : tokens'[k] # Absent /\ tokens' \in TokenMap
    BY <1>0, <1>1, MintSpendsNothing DEF Mints, Opens
  <2> QED BY <1>1, <2>1 DEF TokenMap, TokenRecord
<1> HIDE DEF N
<1>4. /\ Unspent \in SUBSET Existing /\ Burned \in SUBSET Existing /\ Minted \in SUBSET Existing
  BY DEF Unspent, Burned, Minted
<1>5. /\ SumOver(tokens', Unspent) = SumOver(tokens, Unspent) /\ IsFiniteSet(Unspent)
      /\ \A k \in Unspent : tokens'[k].amount \in Int
  BY <1>0, <1>4, KeptSums
<1>6. /\ SumOver(tokens', Burned) = SumOver(tokens, Burned) /\ IsFiniteSet(Burned)
      /\ \A k \in Burned : tokens'[k].amount \in Int
  BY <1>0, <1>4, KeptSums
<1>7. /\ SumOver(tokens', Minted) = SumOver(tokens, Minted) /\ IsFiniteSet(Minted)
      /\ \A k \in Minted : tokens'[k].amount \in Int
  BY <1>0, <1>4, KeptSums
<1>8. SumOver(tokens', Unspent \union N) = SumOver(tokens', Unspent) + SumOver(tokens', N)
  BY <1>1, <1>2, <1>3, <1>4, <1>5, SumUnion
<1>9. SumOver(tokens', Minted \union N) = SumOver(tokens', Minted) + SumOver(tokens', N)
  BY <1>1, <1>2, <1>3, <1>4, <1>7, SumUnion
<1>10. /\ SumOver(tokens', N) \in Int /\ SumOver(tokens', Unspent) \in Int
       /\ SumOver(tokens', Burned) \in Int /\ SumOver(tokens', Minted) \in Int
  BY <1>2, <1>3, <1>5, <1>6, <1>7, SumType
<1>13. Gap' = Gap /\ Gap \in Int
  <2>1. /\ SumOver(Overstatements(tokens', audit', Existing'), Replacements) = Gap
        /\ IsFiniteSet(Replacements)
        /\ \A i \in Replacements :
              Overstatements(tokens', audit', Existing')[i].amount \in Int
    BY <1>0, <1>1, GapKept
  <2>2. Replacements' = Replacements
    BY <1>0 DEF Replacements
  <2>3. Gap' = SumOver(Overstatements(tokens', audit', Existing'), Replacements')
    BY DEF Gap
  <2> QED BY <2>1, <2>2, <2>3, SumType
<1>11. SumOver(tokens', Unspent \union N) + SumOver(tokens', Burned)
          = SumOver(tokens', Minted \union N) + Gap'
  BY <1>0, <1>5, <1>6, <1>7, <1>8, <1>9, <1>10, <1>13
<1>12. IsFiniteSet(Existing \union N)
  BY <1>0, <1>2, FS_Union
<1> QED BY <1>1, <1>11, <1>12 DEF Balanced

LEMMA CommitMoves ==
    ASSUME LedgerInv, NEW r \in Requests, Commits(r)
    PROVE  LET I == KeysOf(r.ins)
               O == KeysOf(r.outs)
           IN  /\ O \subseteq Keys /\ O \intersect Existing = {} /\ I \subseteq Unspent
               /\ I \intersect Burned = {}
               /\ Existing' = Existing \union O /\ Unspent' = (Unspent \ I) \union O
               /\ Burned' = Burned \union (IF r.kind = "burn" THEN I ELSE {})
               /\ Minted' = Minted
               /\ \A k \in O, i \in DOMAIN audit : ~Consumes(audit[i], k)
<1> DEFINE I == KeysOf(r.ins)
           O == KeysOf(r.outs)
<1>0. TypeOK /\ SpentIffAudited /\ AuditIsCausal
  BY DEF LedgerInv
<1>1. I \subseteq Keys /\ O \subseteq Keys /\ I \intersect O = {}
  BY RequestParts, ListKeys DEF Commits, Replaces
<1>2. \A k \in Keys : /\ k \in I => tokens[k] # Absent /\ ~Spent(k)
                      /\ k \in O => tokens[k] = Absent /\ tokens'[k] # Absent
                      /\ Spent(k)' <=> Spent(k) \/ k \in I
  BY <1>0, CommitSpends
<1>3. \A k \in Keys : k \notin O => (tokens'[k] = Absent <=> tokens[k] = Absent)
  <2> SUFFICES ASSUME NEW k \in Keys, k \notin O PROVE tokens'[k] = Absent <=> tokens[k] = Absent
    OBVIOUS
  <2>1. CASE k \in I
    <3>1. tokens[k] # Absent /\ Spent(k)'
      BY <1>2, <2>1
    <3> QED BY <3>1 DEF Spent
  <2>2. CASE k \notin I
    BY <2>2 DEF Commits, Replaces
  <2> QED BY <2>1, <2>2
<1>4. PICK n \in Nat :
          /\ DOMAIN audit' = DOMAIN audit \union {n}
          /\ \A i \in DOMAIN audit : i < n /\ audit'[i] = audit[i]
          /\ audit'[n] = AuditEntry(r)
          /\ \A k \in Keys : Consumes(audit'[n], k) <=> k \in I
          /\ \A k \in Keys : Produces(audit'[n], k) <=> k \in O
  BY <1>0, CommitAppends
<1>5. audit'[n].kind = r.kind
  BY <1>4 DEF AuditEntry
<1>6. \A k \in O, i \in DOMAIN audit : ~Consumes(audit[i], k) /\ ~Produces(audit[i], k)
  BY <1>0, <1>1, <1>2 DEF SpentIffAudited, Spent, AuditIsCausal, ConsumedAt, ProducedAt
<1>7. \A k \in I, i \in DOMAIN audit : ~Consumes(audit[i], k)
  BY <1>0, <1>1, <1>2 DEF SpentIffAudited, ConsumedAt
<1> HIDE DEF I, O
<1>8. Existing' = Existing \union O /\ O \intersect Existing = {} /\ I \subseteq Existing
  BY <1>1, <1>2, <1>3 DEF Existing
<1>9. Existing \subseteq Keys /\ I \subseteq Unspent
  BY <1>1, <1>2, <1>8 DEF Existing, Unspent
<1>10. Unspent' = (Unspent \ I) \union O
  <2>1. Unspent' = {k \in Existing' : ~Spent(k)'}
    BY DEF Unspent
  <2>2. \A k \in O : ~Spent(k)
    BY <1>1, <1>2 DEF Spent
  <2> QED BY <1>1, <1>2, <1>8, <1>9, <2>1, <2>2 DEF Unspent
<1>11. I \intersect Burned = {}
  BY <1>7 DEF Burned, ConsumedAt
<1>12. Burned' = Burned \union (IF r.kind = "burn" THEN I ELSE {})
  <2>1. Burned' = {k \in Existing' : \E i \in DOMAIN audit' :
                       audit'[i].kind = "burn" /\ Consumes(audit'[i], k)}
    BY DEF Burned, ConsumedAt
  <2>2. Burned = {k \in Existing : \E i \in DOMAIN audit :
                       audit[i].kind = "burn" /\ Consumes(audit[i], k)}
    BY DEF Burned, ConsumedAt
  <2>3. \A k \in Keys :
           (\E i \in DOMAIN audit' : audit'[i].kind = "burn" /\ Consumes(audit'[i], k))
           <=> \/ \E i \in DOMAIN audit : audit[i].kind = "burn" /\ Consumes(audit[i], k)
               \/ r.kind = "burn" /\ k \in I
    BY <1>4, <1>5
  <2>4. \A k \in O : k \notin I /\ ~ \E i \in DOMAIN audit : Consumes(audit[i], k)
    BY <1>1, <1>6
  <2> QED BY <1>1, <1>8, <1>9, <2>1, <2>2, <2>3, <2>4
<1>13. Minted' = Minted
  <2>1. Minted' = {k \in Existing' : ~\E i \in DOMAIN audit' : Produces(audit'[i], k)}
    BY DEF Minted, ProducedAt
  <2>2. Minted = {k \in Existing : ~\E i \in DOMAIN audit : Produces(audit[i], k)}
    BY DEF Minted, ProducedAt
  <2>3. \A k \in Keys : (\E i \in DOMAIN audit' : Produces(audit'[i], k))
           <=> (k \in O \/ \E i \in DOMAIN audit : Produces(audit[i], k))
    BY <1>4
  <2> QED BY <1>1, <1>8, <1>9, <2>1, <2>2, <2>3
<1> QED BY <1>1, <1>6, <1>8, <1>9, <1>10, <1>11, <1>12, <1>13 DEF I, O

\* The record a commit appends overstates its inputs by what their strings
\* claim beyond their records.
LEMMA CommitGap ==
    ASSUME ValueInv, NEW r \in Requests, Commits(r)
    PROVE  /\ Gap \in Int
           /\ r.kind = "replace" => Gap' = Gap + (Total(r.ins) - SumOver(tokens', KeysOf(r.ins)))
           /\ r.kind # "replace" => Gap' = Gap
<1> DEFINE I == KeysOf(r.ins)
           O == KeysOf(r.outs)
           m == Overstatements(tokens', audit', Existing')
<1>0. TypeOK /\ LedgerInv /\ IsFiniteSet(Existing) /\ StoreSteps
  BY DEF ValueInv, LedgerInv, StoreSteps
<1>1. /\ I \subseteq Existing /\ Existing' = Existing \union O /\ I \subseteq Keys
      /\ Existing' \subseteq Keys
      /\ \A k \in O, i \in DOMAIN audit : ~Consumes(audit[i], k)
  <2>1. /\ I \subseteq Unspent /\ Existing' = Existing \union O /\ O \subseteq Keys
        /\ \A k \in O, i \in DOMAIN audit : ~Consumes(audit[i], k)
    BY <1>0, CommitMoves
  <2> QED BY <2>1 DEF Unspent, Existing
<1>2. PICK n \in Nat :
          /\ DOMAIN audit' = DOMAIN audit \union {n}
          /\ \A i \in DOMAIN audit : i < n /\ audit'[i] = audit[i]
          /\ audit'[n] = AuditEntry(r)
          /\ \A k \in Keys : Consumes(audit'[n], k) <=> k \in I
          /\ \A k \in Keys : Produces(audit'[n], k) <=> k \in O
  BY <1>0, CommitAppends
<1>3. n \notin DOMAIN audit
  BY <1>0, <1>2 DEF TypeOK
<1>4. audit'[n].kind = r.kind /\ audit'[n].amount = Total(r.ins)
  BY <1>2 DEF AuditEntry
<1>5. /\ SumOver(m, Replacements) = Gap /\ IsFiniteSet(Replacements)
      /\ \A i \in Replacements : m[i].amount \in Int
  BY <1>0, <1>1, <1>2, GapKept
<1>6. Replacements' = Replacements \union (IF r.kind = "replace" THEN {n} ELSE {})
  BY <1>2, <1>3, <1>4 DEF Replacements
<1>7. {k \in Existing' : Consumes(audit'[n], k)} = I
  BY <1>1, <1>2
<1>8. m[n].amount = Total(r.ins) - SumOver(tokens', I)
  BY <1>2, <1>4, <1>7 DEF Overstatements
<1>9. Total(r.ins) \in Int /\ SumOver(tokens', I) \in Int
  <2>1. IsFiniteSet(I) /\ \A k \in I : tokens'[k].amount \in Int
    BY <1>0, <1>1, KeptSums
  <2> QED BY <2>1, RequestParts, TotalType, SumType
<1>10. Gap' = SumOver(m, Replacements')
  BY DEF Gap
<1>11. n \notin Replacements
  BY <1>3 DEF Replacements
<1> HIDE DEF m, I
<1>12. Gap \in Int
  BY <1>5, SumType
<1>13. CASE r.kind = "replace"
  <2> DEFINE R == Replacements \union {n}
  <2>1. IsFiniteSet(R) /\ n \in R /\ R \ {n} = Replacements
    BY <1>5, <1>11, FS_AddElement
  <2>2. \A i \in R : m[i].amount \in Int
    BY <1>5, <1>8, <1>9
  <2>3. Replacements' = R
    BY <1>6, <1>13
  <2> HIDE DEF R
  <2>4. SumOver(m, R) = m[n].amount + SumOver(m, R \ {n})
    BY <2>1, <2>2, SumRemove
  <2>5. Gap' = m[n].amount + Gap
    BY <1>5, <1>10, <2>1, <2>3, <2>4
  <2> QED BY <1>8, <1>9, <1>12, <1>13, <2>5 DEF I
<1>14. CASE r.kind # "replace"
  BY <1>5, <1>6, <1>10, <1>12, <1>14
<1> QED BY <1>13, <1>14

LEMMA CommitConserves ==
    ASSUME ValueInv, NEW r \in Requests, Commits(r)
    PROVE  IsFiniteSet(Existing') /\ Balanced(tokens', Unspent', Burned', Minted', Gap')
<1> DEFINE I == KeysOf(r.ins)
           O == KeysOf(r.outs)
           rest == Unspent \ I
<1>0. TypeOK /\ LedgerInv /\ IsFiniteSet(Existing) /\ StoreSteps
      /\ SumOver(tokens, Unspent) + SumOver(tokens, Burned) = SumOver(tokens, Minted) + Gap
  BY DEF ValueInv, LedgerInv, StoreSteps, Balanced
<1>1. /\ O \subseteq Keys /\ O \intersect Existing = {} /\ I \subseteq Unspent
      /\ I \intersect Burned = {}
      /\ Existing' = Existing \union O /\ Unspent' = (Unspent \ I) \union O
      /\ Burned' = Burned \union (IF r.kind = "burn" THEN I ELSE {})
      /\ Minted' = Minted
  BY <1>0, CommitMoves
<1>2. r.ins \in Seq(Tokens) /\ r.outs \in Seq(Tokens) /\ IsFiniteSet(O) /\ IsFiniteSet(I)
  BY RequestParts, ListIsFinite
<1>3. \A k \in O : tokens'[k].amount \in Int
  <2>1. \A k \in O : tokens'[k] # Absent /\ tokens' \in TokenMap
    BY <1>0, <1>1, CommitSpends DEF Commits, Replaces
  <2> QED BY <1>1, <2>1 DEF TokenMap, TokenRecord
<1>4. r.kind = "replace" => SumOver(tokens', O) = Total(r.ins)
  <2> SUFFICES ASSUME r.kind = "replace" PROVE SumOver(tokens', O) = Total(r.ins)
    OBVIOUS
  <2>1. DistinctKeys(r.outs) /\ Total(r.ins) = Total(r.outs)
    BY DEF Commits, ReplaceAdmissible
  <2>2. \A k \in KeysOf(r.outs) : tokens'[k].amount = AmountIn(r.outs, k)
    <3> SUFFICES ASSUME NEW k \in KeysOf(r.outs) PROVE tokens'[k].amount = AmountIn(r.outs, k)
      OBVIOUS
    <3>1. tokens'[k] = RecordFromSecret([key |-> k, amount |-> AmountIn(r.outs, k)], "replaced")
      BY DEF Commits, Replaces
    <3> QED BY <1>2, <3>1, OpenedSeal
  <2>3. SumOver(tokens', KeysOf(r.outs)) = Total(r.outs)
    BY <1>2, <2>1, <2>2, OpenedSum
  <2> QED BY <2>1, <2>3
<1>18. /\ Gap \in Int
       /\ r.kind = "replace" => Gap' = Gap + (Total(r.ins) - SumOver(tokens', I))
       /\ r.kind # "replace" => Gap' = Gap
  BY CommitGap
<1>19. Total(r.ins) \in Int
  BY <1>2, TotalType
<1>5. r.kind # "replace" => r.kind = "burn" /\ O = {}
  BY DEF Commits, KeysOf
<1>6. r.kind = "replace" => r.kind # "burn"
  OBVIOUS
<1> HIDE DEF I, O
<1>7. /\ Unspent \in SUBSET Existing /\ Burned \in SUBSET Existing /\ Minted \in SUBSET Existing
      /\ I \in SUBSET Existing /\ rest \in SUBSET Existing
      /\ Unspent = rest \union I /\ rest \intersect I = {} /\ rest \intersect O = {}
  <2>1. Unspent \in SUBSET Existing /\ Burned \in SUBSET Existing /\ Minted \in SUBSET Existing
    BY DEF Unspent, Burned, Minted
  <2> QED BY <1>1, <2>1
<1>8. Unspent' = rest \union O
  BY <1>1
<1> HIDE DEF rest
<1>9. /\ SumOver(tokens', Unspent) = SumOver(tokens, Unspent)
      /\ SumOver(tokens', Burned) = SumOver(tokens, Burned)
      /\ SumOver(tokens', Minted) = SumOver(tokens, Minted)
  BY <1>0, <1>7, KeptSums
<1>10. /\ IsFiniteSet(Burned) /\ IsFiniteSet(Minted) /\ IsFiniteSet(rest)
       /\ \A k \in Burned : tokens'[k].amount \in Int
       /\ \A k \in Minted : tokens'[k].amount \in Int
       /\ \A k \in I : tokens'[k].amount \in Int
       /\ \A k \in rest : tokens'[k].amount \in Int
  BY <1>0, <1>7, KeptSums
<1>11. SumOver(tokens', rest \union I) = SumOver(tokens', rest) + SumOver(tokens', I)
  BY <1>2, <1>7, <1>10, SumUnion
<1>12. SumOver(tokens', rest \union O) = SumOver(tokens', rest) + SumOver(tokens', O)
  BY <1>2, <1>3, <1>7, <1>10, SumUnion
<1>13. SumOver(tokens', Burned \union I) = SumOver(tokens', Burned) + SumOver(tokens', I)
  BY <1>1, <1>2, <1>10, SumUnion
<1>14. /\ SumOver(tokens', I) \in Int /\ SumOver(tokens', O) \in Int
       /\ SumOver(tokens', rest) \in Int /\ SumOver(tokens', Burned) \in Int
       /\ SumOver(tokens', Minted) \in Int
  BY <1>2, <1>3, <1>10, SumType
<1>15. SumOver(tokens', rest) + SumOver(tokens', I) + SumOver(tokens', Burned)
          = SumOver(tokens', Minted) + Gap
  BY <1>0, <1>7, <1>9, <1>11
<1>16. CASE r.kind = "replace"
  <2>1. Burned' = Burned
    BY <1>1, <1>6, <1>16
  <2>2. SumOver(tokens', rest \union O) + SumOver(tokens', Burned) = SumOver(tokens', Minted) + Gap'
    BY <1>4, <1>12, <1>14, <1>15, <1>16, <1>18, <1>19
  <2> QED BY <1>0, <1>1, <1>2, <1>8, <2>1, <2>2, FS_Union DEF Balanced
<1>17. CASE r.kind # "replace"
  <2>1. Burned' = Burned \union I /\ O = {}
    BY <1>1, <1>5, <1>17
  <2>2. SumOver(tokens', O) = 0
    BY <1>2, <2>1, SumUnfolds
  <2>3. SumOver(tokens', rest \union O) + SumOver(tokens', Burned \union I)
           = SumOver(tokens', Minted) + Gap'
    BY <1>12, <1>13, <1>14, <1>15, <1>17, <1>18, <2>2
  <2> QED BY <1>0, <1>1, <1>2, <1>8, <2>1, <2>3, FS_Union DEF Balanced
<1> QED BY <1>16, <1>17

LEMMA ValueStep ==
    ASSUME Backend = "fdb", ValueInv, [Next]_vars
    PROVE  ValueInv'
<1>1. LedgerInv /\ TypeOK /\ HandlersOk
  BY DEF ValueInv, LedgerInv
<1>2. LedgerInv' /\ StoreSteps
  BY <1>1, LedgerStep, StepsOfStore
<1>3. IsFiniteSet(Existing') /\ Balanced(tokens', Unspent', Burned', Minted', Gap')
  <2>1. CASE UNCHANGED <<tokens, audit>>
    <3>1. Existing' = Existing /\ Unspent' = Unspent /\ Burned' = Burned /\ Minted' = Minted
      BY <2>1 DEF Existing, Unspent, Burned, Minted, Spent, ConsumedAt, ProducedAt
    <3>2. Gap' = Gap
      BY <2>1, <3>1 DEF Gap, Replacements
    <3> QED BY <2>1, <3>1, <3>2 DEF ValueInv
  <2>2. ASSUME NEW r \in Requests, Mints(r)
        PROVE  IsFiniteSet(Existing') /\ Balanced(tokens', Unspent', Burned', Minted', Gap')
    BY <2>2, MintConserves
  <2>3. ASSUME NEW r \in Requests, Commits(r)
        PROVE  IsFiniteSet(Existing') /\ Balanced(tokens', Unspent', Burned', Minted', Gap')
    BY <2>3, CommitConserves
  <2> QED BY <1>2, <2>1, <2>2, <2>3 DEF StoreSteps
<1> QED BY <1>2, <1>3 DEF ValueInv

\* Over FoundationDB, for any tokens and whatever amounts clients write, what is
\* unspent or was burned is what was minted plus what the replaces of the audit
\* trail overstate, whatever interleaves, fails or is retried.
THEOREM EveryChangeOfValueIsAudited ==
    ASSUME Backend = "fdb"
    PROVE  Spec => []ValueIsAudited
<1>1. Init => ValueInv
  <2> SUFFICES ASSUME Init PROVE ValueInv
    OBVIOUS
  <2>1. LedgerInv /\ audit = <<>> /\ \A k \in Keys : tokens[k] = Absent
    BY LedgerInit DEF Init
  <2>2. Existing = {} /\ Unspent = {} /\ Burned = {} /\ Minted = {} /\ Replacements = {}
    BY <2>1 DEF Existing, Unspent, Burned, Minted, Replacements
  <2>3. IsFiniteSet({}) /\ SumOver(tokens, {}) = 0
        /\ SumOver(Overstatements(tokens, audit, Existing), {}) = 0
    BY FS_EmptySet, SumUnfolds
  <2> QED BY <2>1, <2>2, <2>3 DEF ValueInv, Balanced, Gap
<1>2. ValueInv /\ [Next]_vars => ValueInv'
  BY ValueStep
<1>3. ValueInv => ValueIsAudited
  BY AmountOfIsSum, GapIsSum DEF ValueInv, Balanced, ValueIsAudited
<1> QED BY <1>1, <1>2, <1>3, PTL DEF Spec
=============================================================================
