---------------------------- MODULE LegacySafety ----------------------------
(***************************************************************************)
(* What the single-flavor server promises.                                 *)
(***************************************************************************)
EXTENDS LegacyServer

MiningStateType == [count : Nat, circulation : Int, diff : Nat, epoch : Nat]

\* Where the server keeps the reply channel of call c.
Places(c) ==
    (UNION {{<<a, i>> : i \in {n \in DOMAIN box[a] : box[a][n] = c}} : a \in Actors})
    \union {<<a, 0>> : a \in {x \in Actors : job[x].call = c}}
    \union {<<"queue", i>> : i \in {n \in DOMAIN queue : queue[n] = c}}
    \union {<<"batch", i>> : i \in {n \in DOMAIN batch : batch[n] = c}}

\* The types of the variables; in particular the mailboxes, the channel and
\* the batch hold calls that still wait for an answer, each in one place.
TypeOK ==
    /\ backend \in Backends
    /\ tokens \in TokenMap
    /\ audit \subseteq (1..sent) \X Nat
    /\ stored \in MiningStateType /\ mem \in MiningStateType
    /\ up \subseteq Actors /\ sup \in BOOLEAN /\ batcher \in BOOLEAN
    /\ Len(queue) <= BufferSize
    /\ todo \subseteq DOMAIN batch /\ DOMAIN result = DOMAIN batch
    /\ \A c \in Calls :
        call[c].status \in {"idle", "submit", "wait", "ok", "err"}
    /\ \A c \in Calls :
        Cardinality(Places(c)) = IF call[c].status = "wait" THEN 1 ELSE 0

\* A caller that is told success had its own operation done: the record of
\* its replace, or of every token it burned, is in the store.  Requests are
\* coalesced into batches and answered by position, and a burn of several
\* tokens runs as independent operations.
SuccessIsOwn ==
    \A c \in Calls :
        call[c].status = "ok" =>
            /\ call[c].req.kind = "replace" => <<c, 0>> \in audit
            /\ call[c].req.kind = "burn" =>
                   \A i \in DOMAIN call[c].req.ins : <<c, i>> \in audit

\* No accepted report is lost from the stored mining state, whatever fails
\* or restarts between its two writes: every report answered with success is
\* counted, and the circulation includes what it was granted.  That is not what
\* its tokens are worth: the amounts of subsidy outputs are not looked at when
\* SubsidyAmount is 0, as every shipped configuration has it, and the sum of the
\* outputs wraps, so a report may create more.
AcceptedIsCounted ==
    /\ accepted <= stored.count
    /\ claimed <= stored.circulation

\* The stored state, written first, is at most one report ahead of the
\* miner's memory, and never behind it.
MemoryTracksStore ==
    "miner" \in up => stored.count - mem.count \in {0, 1}

\* A spent token stays spent, except while the insert that creates its key
\* is between its own commands (HSETNX then HSET on Redis) or is a put that
\* names it again (DynamoDB): REPLACE_LUA, BURN_LUA and HSETNX never revive.
Inserting(k) ==
    \E i \in job["miner"].made \union
             (IF backend = "dynamodb" THEN job["miner"].todo ELSE {}) :
        job["miner"].tokens[i].key = k

SpentStays ==
    [][\A k \in Keys :
        tokens[k] # Absent /\ tokens[k].spent = "yes" /\ ~Inserting(k)
        => tokens'[k] # Absent /\ tokens'[k].spent = "yes"]_vars

\* The target miners are given moves by one bit at most, and only when an
\* epoch of ReportsPerEpoch reports is complete, also across a restart that
\* reads back the state of a report that failed after its first write.
TargetMovesByEpoch ==
    [][mem'.diff # mem.diff =>
        /\ mem'.diff - mem.diff \in {-1, 1}
        /\ mem'.count % ReportsPerEpoch = 0]_vars

\* Every request is answered: a full channel drains, and a panic of an
\* actor, of the supervisor or of the batcher drops the reply channels.
EveryCallAnswered == \A c \in Calls : Waiting(c) ~> ~Waiting(c)
=============================================================================
