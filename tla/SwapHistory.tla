----------------------------- MODULE SwapHistory -----------------------------
(***************************************************************************)
(* GET /v1/parties/{fp}/swaps: list_by_party of the four SwapStore         *)
(* backends, racing the upserts of other referee processes.                *)
(*                                                                         *)
(*   memory     one read lock over both indexes and the rows;              *)
(*   redis      a read of each index, then one GET per id;                 *)
(*   fdb        one transaction for both indexes, of each the first batch  *)
(*              of a range read, then one get per id;                      *)
(*   dynamodb   a query of each global secondary index.  The indexes hold  *)
(*              whole items, lag the table, and a query returns one page.  *)
(*                                                                         *)
(* A row is what the listing reads of a Transaction; its phase and         *)
(* updated_at are the number of the write.  An index maps an id to the row *)
(* as it was indexed: fingerprints and created_at of a swap never change   *)
(* (persist carries created_at over), so an entry written again is the     *)
(* entry itself.  Ids are random, hence in no order with the clock.        *)
(***************************************************************************)
EXTENDS Naturals, Sequences, FiniteSets, FiniteSetsExt, SequencesExt

CONSTANTS
    Swaps,      \* swap ids: naturals, for their byte order
    Parties,    \* PGP fingerprints
    Pairs,      \* the (Bob, Alice) pairs that start swaps
    Listers,    \* the parties that ask for their history
    Limit,      \* the cap of a listing and of each index read (1000)
    MaxClock,   \* bound: seconds that pass
    MaxWrites,  \* bound: writes of rows
    Absent      \* no row stored

ASSUME HistoryAssumption ==
    /\ Swaps \subseteq Nat /\ IsFiniteSet(Swaps) /\ Parties # {}
    /\ Pairs \subseteq Parties \X Parties /\ Listers \subseteq Parties
    /\ Limit \in Nat \ {0} /\ MaxClock \in Nat /\ MaxWrites \in Nat \ {0}

VARIABLES
    store,      \* the backend behind SwapStore
    rows,       \* the stored row of each swap
    index,      \* per role and swap, the row as indexed
    clock,      \* unix seconds
    call        \* the listing in progress, or the last one's answer

vars == <<store, rows, index, clock, call>>

Stores == {"memory", "redis", "fdb", "dynamodb"}
Roles == {"bob", "alice"}

Row == [bob : Parties, alice : Parties, created : 0..MaxClock, version : Nat \ {0}]

ASSUME AbsentAssumption == Absent \notin Row

\* What a summary shows of a row, and which side the caller was on.
Summary == [id : Swaps, role : Roles \union {"both"}, created : 0..MaxClock,
            version : Nat \ {0}]

RoleOf(row, fp) ==
    IF row.bob = fp /\ row.alice = fp THEN "both"
    ELSE IF row.bob = fp THEN "bob" ELSE "alice"

Summarise(id, row, fp) ==
    [id |-> id, role |-> RoleOf(row, fp), created |-> row.created, version |-> row.version]

Capped(s) == SubSeq(s, 1, IF Len(s) < Limit THEN Len(s) ELSE Limit)

\* The members of S in the order R.
Sorted(S, R) ==
    CHOOSE s \in SetToSeqs(S) : \A i, j \in DOMAIN s : i < j => <<s[i], s[j]>> \in R

\* The elements of s at the positions of P, in their order.
Taken(s, P) ==
    LET order == Sorted(P, {p \in P \X P : p[1] < p[2]})
    IN  [n \in DOMAIN order |-> s[order[n]]]

-----------------------------------------------------------------------------
(* Index reads *)

Indexed(role, fp) == {id \in Swaps : index[role][id] # Absent /\ index[role][id][role] = fp}

Created(role, id) == index[role][id].created

\* Newest first; ids with one timestamp ascend in memory (the map's key is
\* (-created, id)) and descend in Redis and FoundationDB (reverse scans).
Before(role, i, j) ==
    \/ Created(role, i) > Created(role, j)
    \/ /\ Created(role, i) = Created(role, j)
       /\ IF store = "memory" THEN i < j ELSE i > j

Newest(role, fp) ==
    LET ids == Indexed(role, fp)
    IN  Capped(Sorted(ids, {p \in ids \X ids : Before(role, p[1], p[2])}))

\* FoundationDB: one get_range in Iterator mode.  A batch ends at a size in
\* bytes the client library chooses, and `more()` is never asked; the first
\* one has at least a key if the range has.
Batches(role, fp) ==
    LET ids == Newest(role, fp)
    IN  IF ids = <<>> THEN {<<>>} ELSE {SubSeq(ids, 1, n) : n \in 1..Len(ids)}

\* A query page of DynamoDB: newest first, ties in any order, ended by the
\* limit or earlier by the page size.
Pages(role, fp) ==
    LET ids == Indexed(role, fp)
        orders == {s \in SetToSeqs(ids) :
                     \A i, j \in DOMAIN s : i < j => Created(role, s[i]) >= Created(role, s[j])}
    IN  IF ids = {} THEN {<<>>}
        ELSE {Capped(SubSeq(s, 1, n)) : s \in orders, n \in 1..Cardinality(ids)}

\* Mutant: an id found in both indexes is listed twice.
MetNever(id, out) == FALSE

\* The `seen` set: has the listing an entry of this id?
Met(id, out) == \E i \in DOMAIN out : out[i].id = id

Unseen(ids, out) == Taken(ids, {i \in DOMAIN ids : ~Met(ids[i], out)})

-----------------------------------------------------------------------------
(* The answer *)

\* sort_by is stable.
NewestFirst(out) ==
    LET D == DOMAIN out
        Earlier(i, j) == \/ out[i].created > out[j].created
                         \/ out[i].created = out[j].created /\ i < j
        order == Sorted(D, {p \in D \X D : Earlier(p[1], p[2])})
    IN  [n \in DOMAIN order |-> out[order[n]]]

\* Mutant: truncate comes before the sort.
AnswerCutFirst(out) == NewestFirst(Capped(out))

Answer(out) == Capped(NewestFirst(out))

Idle == [pc |-> "idle", fp |-> CHOOSE p \in Parties : TRUE, ids |-> <<>>, out |-> <<>>,
         began |-> [id \in Swaps |-> Absent]]

\* The next row, or the answer when no id is left.
Continue(c) ==
    IF c.ids = <<>> THEN [c EXCEPT !.pc = "done", !.out = Answer(@)]
    ELSE [c EXCEPT !.pc = "rows"]

-----------------------------------------------------------------------------
(* Writers *)

Init ==
    /\ store \in Stores
    /\ rows = [id \in Swaps |-> Absent]
    /\ index = [role \in Roles |-> rows]
    /\ clock = 0
    /\ call = Idle

\* Memory enters a swap into its indexes on its first write only, Redis and
\* FoundationDB on every write; DynamoDB maintains its indexes by itself.
IndexWrite(id, row) ==
    IF store = "dynamodb" \/ (store = "memory" /\ rows[id] # Absent) THEN index
    ELSE [role \in Roles |-> [index[role] EXCEPT ![id] = row]]

Writes == MapThenSumSet(LAMBDA id : IF rows[id] = Absent THEN 0 ELSE rows[id].version, Swaps)

\* upsert: the row and its index entries in one atomic step.
Upsert(id, row) ==
    /\ Writes < MaxWrites
    /\ rows' = [rows EXCEPT ![id] = row]
    /\ index' = IndexWrite(id, row)
    /\ UNCHANGED <<store, clock, call>>

\* persist of phase "init" by start_swap: created_at is the clock.
UpsertNew(id) ==
    /\ rows[id] = Absent
    /\ \E p \in Pairs :
          Upsert(id, [bob |-> p[1], alice |-> p[2], created |-> clock, version |-> 1])

\* persist of a later phase: created_at is the stored one.
UpsertNext(id) ==
    /\ rows[id] # Absent
    /\ Upsert(id, [rows[id] EXCEPT !.version = @ + 1])

\* DynamoDB catches one index up with the table.
Propagate(role, id) ==
    /\ store = "dynamodb" /\ index[role][id] # rows[id]
    /\ index' = [index EXCEPT ![role][id] = rows[id]]
    /\ UNCHANGED <<store, rows, clock, call>>

Tick ==
    /\ clock < MaxClock
    /\ clock' = clock + 1
    /\ UNCHANGED <<store, rows, index, call>>

-----------------------------------------------------------------------------
(* list_by_party *)

\* The rows at the start are remembered for the properties; lagging indexes
\* promise nothing about them.
Begin(fp) ==
    /\ call.pc \in {"idle", "done"}
    /\ call' = [Idle EXCEPT !.pc = "bob", !.fp = fp,
                            !.began = IF store = "dynamodb" THEN @ ELSE rows]
    /\ UNCHANGED <<store, rows, index, clock>>

\* Mutant: a row is taken from the entry the first write left in the index.
RowReadIndexed(id) == index["bob"][id]

\* The stored row: memory and the GETs of Redis and FoundationDB read the
\* table, whatever the index said.
RowRead(id) == rows[id]

\* Memory: both sides under one read lock; the alice side skips what the bob
\* side has listed as "both".
ListMemory ==
    LET alice == Newest("alice", call.fp)
        ids == Newest("bob", call.fp)
               \o Taken(alice, {i \in DOMAIN alice : RowRead(alice[i]).bob # call.fp})
    IN  /\ store = "memory" /\ call.pc = "bob"
        /\ call' = [call EXCEPT
                      !.pc = "done",
                      !.out = Answer([i \in DOMAIN ids |->
                                         Summarise(ids[i], RowRead(ids[i]), call.fp)])]
        /\ UNCHANGED <<store, rows, index, clock>>

\* Redis reads the indexes one after the other.
ReadBobIndex ==
    /\ store = "redis" /\ call.pc = "bob"
    /\ call' = [call EXCEPT !.pc = "alice", !.ids = Newest("bob", call.fp)]
    /\ UNCHANGED <<store, rows, index, clock>>

ReadAliceIndex ==
    /\ store = "redis" /\ call.pc = "alice"
    /\ call' = Continue([call EXCEPT !.ids = @ \o Newest("alice", call.fp)])
    /\ UNCHANGED <<store, rows, index, clock>>

\* FoundationDB scans both in one transaction.
ScanIndexes ==
    /\ store = "fdb" /\ call.pc = "bob"
    /\ \E bob \in Batches("bob", call.fp), alice \in Batches("alice", call.fp) :
          call' = Continue([call EXCEPT !.ids = bob \o alice])
    /\ UNCHANGED <<store, rows, index, clock>>

\* One GET per id; an id met before is passed over.
FetchRow ==
    LET id == Head(call.ids)
        found == IF Met(id, call.out) \/ RowRead(id) = Absent THEN <<>>
                 ELSE <<Summarise(id, RowRead(id), call.fp)>>
    IN  /\ call.pc = "rows"
        /\ call' = Continue([call EXCEPT !.ids = Tail(@), !.out = @ \o found])
        /\ UNCHANGED <<store, rows, index, clock>>

\* DynamoDB: the items of a page are the answer's rows; the role is the
\* index's, unless the item names the caller twice.
Query(role) ==
    /\ store = "dynamodb" /\ call.pc = role
    /\ \E page \in Pages(role, call.fp) :
          LET new == Unseen(page, call.out)
              out == call.out \o [i \in DOMAIN new |->
                                     Summarise(new[i], index[role][new[i]], call.fp)]
          IN  call' = IF role = "bob" THEN [call EXCEPT !.pc = "alice", !.out = out]
                      ELSE [call EXCEPT !.pc = "done", !.out = Answer(out)]
    /\ UNCHANGED <<store, rows, index, clock>>

\* A read fails: the caller gets an error and no listing.
ReadFails ==
    /\ store # "memory" /\ call.pc \notin {"idle", "done"}
    /\ call' = Idle
    /\ UNCHANGED <<store, rows, index, clock>>

Next ==
    \/ \E id \in Swaps : UpsertNew(id) \/ UpsertNext(id)
    \/ \E role \in Roles, id \in Swaps : Propagate(role, id)
    \/ Tick
    \/ \E fp \in Listers : Begin(fp)
    \/ ListMemory \/ ReadBobIndex \/ ReadAliceIndex \/ ScanIndexes \/ FetchRow
    \/ \E role \in Roles : Query(role)
    \/ ReadFails

Spec == Init /\ [][Next]_vars
=============================================================================
