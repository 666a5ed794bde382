------------------------------- MODULE MCCodec -------------------------------
(***************************************************************************)
(* One token per shape.  The amount is the largest one, which does not end *)
(* on a whole unit (as i64::MAX does not), so that one edit overflows the  *)
(* product, the sum, or neither; the contract is named like a form.        *)
(***************************************************************************)
EXTENDS CodecSafety

Sample(flavor, form, amount, contract, issuer) ==
    [flavor |-> flavor, form |-> form,
     token |-> [amount |-> amount, hex |-> <<"e", "1">>, contract |-> contract, issuer |-> issuer]]

MCSamples ==
    {Sample("webcash", "secret", <<MaxWats>>, <<>>, <<>>),
     Sample("webcash", "public", <<0>>, <<>>, <<>>),
     Sample("voucher", "public", <<1>>, <<"secret">>, <<"e">>),
     Sample("collectible", "secret", <<>>, <<"public">>, <<"0">>)}
=============================================================================
