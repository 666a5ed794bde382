------------------------------ MODULE MCHistory ------------------------------
(***************************************************************************)
(* Three swaps, one more than the limit, between the listing party and     *)
(* another, self-swaps included; two seconds, so that swaps share one.     *)
(***************************************************************************)
EXTENDS HistorySafety

MCSwaps == 1..3

\* Every side the listing party "p" can be on.
MCPairs == {<<"p", "q">>, <<"q", "p">>, <<"p", "p">>}
=============================================================================
