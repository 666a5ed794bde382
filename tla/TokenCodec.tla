----------------------------- MODULE TokenCodec -----------------------------
(***************************************************************************)
(* The wire form of tokens: the nom parsers, the amount conversion and the *)
(* Display implementations of the Webcash, Voucher, RGB20 ("fungible"),    *)
(* RGB21 ("collectible") and legacy token types.                           *)
(*                                                                         *)
(* A text is a sequence of symbols: "e" stands for the lower-case and "E"  *)
(* for the upper-case hex letters ("e" is also the prefix of an amount),   *)
(* "secret" and "public" are words of letters that are not all hex.  The   *)
(* lengths (64, 40), the number base, the 8 decimals and the range of i64  *)
(* are constants.  The texts to parse are those that Display produces and  *)
(* those up to MaxEdits changed symbols away from one; a text may also be  *)
(* an amount by itself, as JSON carries it.                                *)
(***************************************************************************)
EXTENDS Integers, Sequences, SequencesExt

CONSTANTS
    Base,       \* the number base: digits are "0" and "1", so 2
    Decimals,   \* DECIMALS
    MaxWats,    \* i64::MAX
    HexLen,     \* the length of a secret or hash
    FpLen,      \* the length of a fingerprint
    Samples,    \* [flavor, form, token]: the tokens whose texts are edited
    MaxEdits    \* bound: symbols changed

ASSUME CodecAssumption ==
    /\ Base = 2 /\ Decimals \in Nat \ {0} /\ MaxWats \in Nat
    /\ HexLen \in Nat \ {0} /\ FpLen \in Nat \ {0} /\ MaxEdits \in Nat

VARIABLES
    text,       \* the text a client sends
    read,       \* what each parser makes of it
    edits       \* symbols changed so far

vars == <<text, read, edits>>

Digits == {"0", "1"}
Hex == Digits \union {"e", "E"}
SlugChars == Hex \union {"secret", "public", "-"}
Symbols == SlugChars \union {".", ":"}

Flavors == {"webcash", "voucher", "fungible", "collectible", "legacy"}
Forms == {"secret", "public"}

None == <<>>
Some(x) == <<x>>

HexOf(n) == [1..n -> Hex]
Issuers == [1..FpLen -> Hex \ {"E"}]
Amounts == {Some(n) : n \in 0..MaxWats}

\* The fields of each token type; one record type for all, with the fields a
\* type lacks empty.
WebcashToken == [amount : Amounts, hex : HexOf(HexLen), contract : {<<>>}, issuer : {<<>>}]
VoucherToken == [amount : Amounts, hex : HexOf(HexLen), contract : Seq(SlugChars) \ {<<>>},
                 issuer : Issuers]
FungibleToken == VoucherToken
CollectibleToken == [amount : {None}, hex : HexOf(HexLen), contract : Seq(SlugChars) \ {<<>>},
                     issuer : Issuers]
LegacyToken == WebcashToken

TokenOf(flavor) ==
    CASE flavor = "webcash" -> WebcashToken
      [] flavor = "voucher" -> VoucherToken
      [] flavor = "fungible" -> FungibleToken
      [] flavor = "collectible" -> CollectibleToken
      [] flavor = "legacy" -> LegacyToken

-----------------------------------------------------------------------------
(* Numbers *)

DigitValue(d) == IF d = "1" THEN 1 ELSE 0

\* The number a digit string denotes.
Value(ds) == FoldLeft(LAMBDA n, d : Base * n + DigitValue(d), 0, ds)

\* n written with at least w digits ("{:08}", and "{}" with w = 1).
Numeral(n, w) ==
    LET k == CHOOSE i \in w..(w + n) : n < Base ^ i /\ (i = w \/ n >= Base ^ (i - 1))
    IN  [i \in 1..k |-> IF (n \div (Base ^ (k - i))) % Base = 1 THEN "1" ELSE "0"]

Scale == Base ^ Decimals

\* Mutant: the sum wraps around.
CheckedWraps(n) == Some(IF n > MaxWats THEN n - 2 * (MaxWats + 1) ELSE n)

\* checked_mul, checked_add: nothing when i64 cannot hold the result.
Checked(n) == IF n \in -(MaxWats + 1)..MaxWats THEN Some(n) ELSE None

AllDigits(s) == s # <<>> /\ \A i \in DOMAIN s : s[i] \in Digits

\* str::parse::<i64>, which takes a sign.  "+" is not among the symbols: the
\* token parsers pass digits and a point only.
ParseI64(s) ==
    IF s # <<>> /\ Head(s) = "-" THEN
        IF AllDigits(Tail(s)) THEN Checked(-Value(Tail(s))) ELSE None
    ELSE IF AllDigits(s) THEN Checked(Value(s)) ELSE None

Zeros(n) == [i \in 1..n |-> "0"]

\* parse_amount_str: an optional sign, then the parts split by ".".
ParseAmount(input) ==
    LET negative == input # <<>> /\ Head(input) = "-"
        s == IF negative THEN Tail(input) ELSE input
        dots == {i \in DOMAIN s : s[i] = "."}
        dot == IF dots = {} THEN Len(s) + 1 ELSE CHOOSE i \in dots : TRUE
        fraction == SubSeq(s, dot + 1, Len(s))
        whole == ParseI64(SubSeq(s, 1, dot - 1))
        frac == IF dots = {} THEN Some(0)
                ELSE ParseI64(fraction \o Zeros(Decimals - Len(fraction)))
        scaled == Checked(whole[1] * Scale)
        wats == Checked(scaled[1] + frac[1])
        fits == /\ whole # None /\ Len(fraction) <= Decimals /\ frac # None
                /\ scaled # None /\ wats # None
    IN  IF \E i, j \in dots : i # j THEN None
        ELSE IF ~fits THEN None
        ELSE Some(IF negative THEN -wats[1] ELSE wats[1])

\* Mutant: the fraction loses its leading zeros.
DisplayAmountUnpadded(wats) ==
    LET abs == IF wats < 0 THEN -wats ELSE wats
    IN  (IF wats < 0 THEN <<"-">> ELSE <<>>)
        \o Numeral(abs \div Scale, 1) \o <<".">> \o Numeral(abs % Scale, 1)

\* Display for Amount
DisplayAmount(wats) ==
    LET abs == IF wats < 0 THEN -wats ELSE wats
    IN  (IF wats < 0 THEN <<"-">> ELSE <<>>)
        \o Numeral(abs \div Scale, 1) \o <<".">> \o Numeral(abs % Scale, Decimals)

-----------------------------------------------------------------------------
(* nom combinators: the number of symbols matched, or NoMatch *)

NoMatch == -1

\* The length of the longest prefix of s made of symbols in S (take_while).
Run(s, S) == CHOOSE n \in 0..Len(s) :
                /\ \A i \in 1..n : s[i] \in S
                /\ n < Len(s) => s[n + 1] \notin S

Drop(s, n) == SubSeq(s, n + 1, Len(s))

Exactly(s, n, S) == IF Run(s, S) >= n THEN n ELSE NoMatch

\* amount_parser: digits, and a point only when digits follow it.
AmountMatch(s) ==
    LET whole == Run(s, Digits)
        rest == Drop(s, whole)
        frac == IF rest # <<>> /\ Head(rest) = "." THEN Run(Tail(rest), Digits) ELSE 0
    IN  IF whole = 0 THEN NoMatch
        ELSE IF frac > 0 THEN whole + 1 + frac ELSE whole

Tag(x) == [kind |-> "tag", symbols |-> x]
Field(k) == [kind |-> k, symbols |-> <<>>]

SlugMatch(s) == LET n == Run(s, SlugChars) IN IF n = 0 THEN NoMatch ELSE n

Matched(seg, s) ==
    CASE seg.kind = "tag" -> IF IsPrefix(seg.symbols, s) THEN Len(seg.symbols) ELSE NoMatch
      [] seg.kind = "amount" -> AmountMatch(s)
      [] seg.kind = "hex" -> Exactly(s, HexLen, Hex)
      [] seg.kind = "contract" -> SlugMatch(s)
      [] seg.kind = "issuer" -> Exactly(s, FpLen, Hex)
      [] seg.kind = "eof" -> IF s = <<>> THEN 0 ELSE NoMatch

-----------------------------------------------------------------------------
(* The parsers, as the segments they match in turn *)

WebcashParser(form) ==
    <<Tag(<<"e">>), Field("amount"), Tag(<<":", form, ":">>), Field("hex"), Field("eof")>>

VoucherParser(form) ==
    <<Tag(<<"e">>), Field("amount"), Tag(<<":", form, ":">>), Field("hex"),
      Tag(<<":">>), Field("contract"), Tag(<<":">>), Field("issuer"), Field("eof")>>

\* RGB20 repeats the voucher's form.
FungibleParser(form) == VoucherParser(form)

CollectibleParser(form) ==
    <<Tag(<<form, ":">>), Field("hex"),
      Tag(<<":">>), Field("contract"), Tag(<<":">>), Field("issuer"), Field("eof")>>

\* The legacy FromStr drops what is left of the input.
LegacyParser(form) ==
    <<Tag(<<"e">>), Field("amount"), Tag(<<":", form, ":">>), Field("hex")>>

Parser(flavor, form) ==
    CASE flavor = "webcash" -> WebcashParser(form)
      [] flavor = "voucher" -> VoucherParser(form)
      [] flavor = "fungible" -> FungibleParser(form)
      [] flavor = "collectible" -> CollectibleParser(form)
      [] flavor = "legacy" -> LegacyParser(form)

\* to_lowercase
Lower(s) == [i \in DOMAIN s |-> IF s[i] = "E" THEN "e" ELSE s[i]]

Blank == [amount |-> None, hex |-> <<>>, contract |-> <<>>, issuer |-> <<>>]

\* The token with a matched field filled in; the amount is converted last.
Filled(tok, kind, span) ==
    CASE kind = "amount" -> [tok EXCEPT !.amount = ParseAmount(span)]
      [] kind = "hex" -> [tok EXCEPT !.hex = span]
      [] kind = "contract" -> [tok EXCEPT !.contract = span]
      [] kind = "issuer" -> [tok EXCEPT !.issuer = Lower(span)]
      [] OTHER -> tok

\* FromStr of a token type: the token read from s, or None.
FromStr(flavor, form, s) ==
    LET segs == Parser(flavor, form)
        after[i \in 0..Len(segs)] ==   \* what is left, and the token, after i segments
            IF i = 0 THEN Some([rest |-> s, tok |-> Blank])
            ELSE LET acc == after[i - 1]
                     n == IF acc = None THEN NoMatch ELSE Matched(segs[i], acc[1].rest)
                 IN  IF n = NoMatch THEN None
                     ELSE Some([rest |-> Drop(acc[1].rest, n),
                                tok |-> Filled(acc[1].tok, segs[i].kind,
                                               SubSeq(acc[1].rest, 1, n))])
        end == after[Len(segs)]
    IN  IF end = None THEN None
        ELSE IF flavor # "collectible" /\ end[1].tok.amount = None THEN None
        ELSE Some(end[1].tok)

-----------------------------------------------------------------------------
(* Display *)

WebcashText(form, tok) ==
    <<"e">> \o DisplayAmount(tok.amount[1]) \o <<":", form, ":">> \o tok.hex

VoucherText(form, tok) ==
    <<"e">> \o DisplayAmount(tok.amount[1]) \o <<":", form, ":">> \o tok.hex
    \o <<":">> \o tok.contract \o <<":">> \o tok.issuer

FungibleText(form, tok) == VoucherText(form, tok)

CollectibleText(form, tok) ==
    <<form, ":">> \o tok.hex \o <<":">> \o tok.contract \o <<":">> \o tok.issuer

LegacyText(form, tok) == WebcashText(form, tok)

Display(flavor, form, tok) ==
    CASE flavor = "webcash" -> WebcashText(form, tok)
      [] flavor = "voucher" -> VoucherText(form, tok)
      [] flavor = "fungible" -> FungibleText(form, tok)
      [] flavor = "collectible" -> CollectibleText(form, tok)
      [] flavor = "legacy" -> LegacyText(form, tok)

-----------------------------------------------------------------------------
(* The texts *)

Readings(s) == [p \in Flavors \X Forms |-> FromStr(p[1], p[2], s)]

Init ==
    /\ \/ \E s \in Samples : text = Display(s.flavor, s.form, s.token)
       \/ \E wats \in -MaxWats..MaxWats : text = DisplayAmount(wats)
    /\ read = Readings(text)
    /\ edits = 0

Edit(t) ==
    /\ edits < MaxEdits /\ edits' = edits + 1
    /\ text' = t
    /\ read' = Readings(text')

Next ==
    \/ \E i \in DOMAIN text, c \in Symbols : text[i] # c /\ Edit(ReplaceAt(text, i, c))
    \/ \E i \in 1..(Len(text) + 1), c \in Symbols : Edit(InsertAt(text, i, c))
    \/ \E i \in DOMAIN text : Edit(RemoveAt(text, i))

Spec == Init /\ [][Next]_vars
=============================================================================
