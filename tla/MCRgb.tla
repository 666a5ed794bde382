-------------------------------- MODULE MCRgb --------------------------------
(***************************************************************************)
(* One contract, four tokens.  A lock on b names c as the claim owner and d*)
(* as the refund owner; the wrong witnesses, the missing one and the index *)
(* past the outputs are among the requests.                                *)
(***************************************************************************)
EXTENDS RgbSafety, TLC

WorkerSymmetry == Permutations(Workers)

MCKeys == {"a", "b", "c", "d"}
OneContract == [k \in MCKeys |-> "ns"]
MCTokens == {[key |-> k, amount |-> n] : k \in MCKeys, n \in 0..2}

Request(kind, ins, outs) ==
    [kind |-> kind, ins |-> ins, outs |-> outs, nonce |-> 0, wits |-> <<>>, lock |-> <<>>]

With(r, x, owner) == [r EXCEPT !.wits = <<[at |-> 1, wit |-> [x |-> x, owner |-> owner]]>>]

Locking(r, at, delta) ==
    [r EXCEPT !.lock = <<[at |-> at, req |-> [h |-> "x", delta |-> delta, claim |-> "c", refund |-> "d"]]>>]

N(k) == [key |-> k, amount |-> 0]
F(k) == [key |-> k, amount |-> IF k = "a" THEN 2 ELSE 1]

\* Ways to spend the locked token b.
Plain(r(_, _)) == {r("b", "c"), With(r("b", "c"), "x", "c"), With(r("b", "d"), "none", "d")}
Odd(r(_, _)) == {With(r("b", "d"), "x", "c"), With(r("b", "c"), "bad", "d"),
                 With(r("b", "d"), "y", "d"), With(r("b", "d"), "x", "d")}

FMove(i, o) == Request("replace", <<F(i)>>, <<F(o)>>)
NMove(i, o) == Request("replace", <<N(i)>>, <<N(o)>>)
Split == Request("replace", <<F("a")>>, <<F("b"), F("c")>>)

MCFungible ==
    Plain(FMove)
    \union {[Request("issue", <<>>, <<F("a")>>) EXCEPT !.nonce = 1],
            [Request("issue", <<>>, <<F("b")>>) EXCEPT !.nonce = 2],
            Locking(Split, 1, 9), Locking(Split, 3, 1),
            Request("health", <<F("b")>>, <<>>), Request("burn", <<F("b")>>, <<>>)}

MCCollectible ==
    Plain(NMove) \union Odd(NMove)
    \union {[Request("issue", <<>>, <<N("a")>>) EXCEPT !.nonce = 1],
            Locking(NMove("a", "b"), 1, 1), Locking(NMove("a", "b"), 1, 0),
            Request("replace", <<N("a")>>, <<N("b"), N("c")>>),
            Request("health", <<N("b")>>, <<>>), Request("burn", <<N("b")>>, <<>>)}
=============================================================================
