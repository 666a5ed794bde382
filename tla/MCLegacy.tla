------------------------------ MODULE MCLegacy ------------------------------
(***************************************************************************)
(* Instances of the single-flavor server for TLC.                          *)
(***************************************************************************)
EXTENDS LegacySafety

CONSTANTS ka, kb, kc

Tok(k, n) == [key |-> k, amount |-> n]

MCTokens == {Tok(ka, 1), Tok(kb, 1), Tok(kc, 1)}
MCKeyNs == [k \in Keys |-> Unscoped]

Request(kind, ins, outs, subs) ==
    [kind |-> kind, ok |-> TRUE, ins |-> ins, outs |-> outs, subs |-> subs,
     diff |-> InitialDifficulty, pow |-> InitialDifficulty]

\* Two reports that share a secret, two replaces of one token, a burn of two
\* tokens and the three reads.
MCRequests ==
    {Request("mine", <<>>, <<Tok(ka, 1)>>, <<>>),
     Request("mine", <<>>, <<Tok(kb, 1)>>, <<Tok(ka, 1)>>),
     Request("replace", <<Tok(ka, 1)>>, <<Tok(kc, 1)>>, <<>>),
     Request("replace", <<Tok(ka, 1)>>, <<Tok(kb, 1)>>, <<>>),
     Request("burn", <<Tok(ka, 1), Tok(kb, 1)>>, <<>>, <<>>),
     Request("health", <<Tok(ka, 1)>>, <<>>, <<>>),
     Request("target", <<>>, <<>>, <<>>),
     Request("stats", <<>>, <<>>, <<>>)}
=============================================================================
