------------------------------ MODULE MCLedger ------------------------------
(***************************************************************************)
(* Small instances of LedgerServer.  Three tokens of one contract, one of  *)
(* amount 2 and two of amount 1, are the fewest for which a replace can    *)
(* split, merge and chain (mint, split, merge back onto a used key).       *)
(* Clients may also write a token with another amount than its record's.   *)
(***************************************************************************)
EXTENDS LedgerRefinement, TLC

WorkerSymmetry == Permutations(Workers)

Amount == [a |-> 2, b |-> 1, c |-> 1, d |-> 1]

T(k) == [key |-> k, amount |-> Amount[k]]

\* The token of key k, written with amount n.
As(k, n) == [key |-> k, amount |-> n]

\* Webcash: no namespaces.
MCKeys == {"a", "b", "c"}
MCTokens == {T(k) : k \in MCKeys}
MCUnscoped == [k \in MCKeys |-> Unscoped]

\* Voucher: "d" belongs to another contract of the same issuer, "e" appears in
\* a request whose sum overflows only.
MCVoucherKeys == MCKeys \union {"d", "e"}
MCVoucherTokens == {As(k, n) : k \in MCVoucherKeys, n \in 1..3}
MCScoped == [k \in MCVoucherKeys |->
                [contract |-> IF k = "d" THEN "c2" ELSE "c1", issuer |-> "i1"]]

\* Lists of at most two tokens, the larger amount first: the handlers and the
\* transactional stores treat the tokens of a list alike, so the order of two
\* tokens only decides which of two errors is worded.
Lists(S) ==
    {<<>>} \union {<<t>> : t \in S}
    \union ({<<t, u>> : t, u \in S} \ {<<T("b"), T("a")>>, <<T("c"), T("a")>>,
                                        <<T("c"), T("b")>>})

Request(kind, ins, outs) ==
    [kind |-> kind, ok |-> TRUE, ins |-> ins, outs |-> outs,
     issuer |-> "none", nonce |-> 0]

Malformed == [Request("replace", <<T("a")>>, <<T("a")>>) EXCEPT !.ok = FALSE]

\* The balanced replaces and one that is not: the others are refused alike.  A
\* list that repeats a token meets the shorter lists only.
ReplaceRequests ==
    {r \in {Request("replace", i, o) : i, o \in Lists(MCTokens)} :
        /\ Total(r.ins) = Total(r.outs)
        /\ \/ Len(r.ins) + Len(r.outs) <= 3
           \/ DistinctKeys(r.ins) /\ DistinctKeys(r.outs)}
    \union {Request("replace", <<T("b")>>, <<T("a")>>)}

\* Replaces that would cross from one contract to the other.
CrossRequests ==
    {Request("replace", <<T("b")>>, <<T("d")>>), Request("replace", <<T("d")>>, <<T("b")>>),
     Request("replace", <<T("b"), T("d")>>, <<T("a")>>)}

\* The larger token for a smaller one whose string claims more, the reverse,
\* and outputs of 9 that wrap to the 1 of the input (MaxWats = 3).
MisstatedRequests ==
    {Request("replace", <<As("b", 2)>>, <<T("a")>>),
     Request("replace", <<As("a", 1)>>, <<T("c")>>),
     Request("replace", <<T("b")>>, <<As("a", 3), As("c", 3), As("e", 3)>>)}

Burns == {Request("burn", <<t>>, <<>>) : t \in MCTokens}
Mines == {Request("mine", <<>>, o) :
             o \in {<<T("a")>>, <<T("b")>>, <<T("b"), T("c")>>, <<T("c"), T("c")>>}}

Issue(issuer, nonce, outs) ==
    [Request("issue", <<>>, outs) EXCEPT !.issuer = issuer, !.nonce = nonce]

\* One names a token twice, one is signed by another issuer.
Issues == {Issue("i1", 1, <<T("a")>>), Issue("i1", 2, <<T("b"), T("d")>>),
           Issue("i1", 3, <<T("c"), T("c")>>), Issue("i2", 4, <<T("c")>>),
           Issue("i1", 5, <<T("c"), T("b")>>), Issue("i1", 6, <<As("b", 2)>>)}

\* Voucher: signed issue, replace, burn.
VoucherRequests ==
    ReplaceRequests \union CrossRequests \union MisstatedRequests \union Burns \union Issues
    \union {Malformed}

\* Mints, a burn and one replace of each token.
InsertRaceRequests ==
    Mines \union Burns
    \union {Request("mine", <<>>, <<>>),
            Request("replace", <<T("a")>>, <<T("b"), T("c")>>),
            Request("replace", <<T("b"), T("c")>>, <<T("a")>>)}

\* A few of each kind, with readers.
LiveRequests ==
    {Request("mine", <<>>, <<T("a")>>), Request("mine", <<>>, <<T("b")>>),
     Request("mine", <<>>, <<>>),
     Request("burn", <<T("a")>>, <<>>), Request("health", <<T("a")>>, <<>>),
     Request("health", <<T("b")>>, <<>>),
     Request("replace", <<T("a")>>, <<T("b"), T("c")>>)}
=============================================================================
