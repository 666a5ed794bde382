----------------------------- MODULE CodecSafety -----------------------------
(***************************************************************************)
(* What the parsers promise, against the grammar stated field by field:    *)
(* ":" ends every field, so a text is its fields.                          *)
(***************************************************************************)
EXTENDS TokenCodec, FiniteSets, FiniteSetsExt

Read(flavor, form) == read[<<flavor, form>>]

-----------------------------------------------------------------------------
(* The grammar *)

Colons == {i \in DOMAIN text : text[i] = ":"}

\* What stands between the colons.
Fields ==
    LET ends[n \in 0..(Cardinality(Colons) + 1)] ==
            IF n = 0 THEN 0
            ELSE LET last == ends[n - 1]
                 IN  Min({i \in Colons \union {Len(text) + 1} : i > last})
    IN  [n \in 1..(Cardinality(Colons) + 1) |-> SubSeq(text, ends[n - 1] + 1, ends[n] - 1)]

\* The value in wats of `digits[.digits]`, or None.
DecimalValue(s) ==
    LET dots == {i \in DOMAIN s : s[i] = "."}
        dot == IF dots = {} THEN Len(s) + 1 ELSE CHOOSE i \in dots : TRUE
        whole == SubSeq(s, 1, dot - 1)
        frac == SubSeq(s, dot + 1, Len(s))
        wats == Value(whole) * Scale + Value(frac) * (Base ^ (Decimals - Len(frac)))
    IN  IF AllDigits(whole) /\ (dots = {} \/ AllDigits(frac)) /\ Len(frac) <= Decimals
           /\ wats <= MaxWats
        THEN Some(wats) ELSE None

IsHex(s, n) == Len(s) = n /\ \A i \in DOMAIN s : s[i] \in Hex
IsSlug(s) == s # <<>> /\ \A i \in DOMAIN s : s[i] \in SlugChars

\* The fields that follow the amount.
Tailed(fs, form, namespaced) ==
    /\ Len(fs) = IF namespaced THEN 4 ELSE 2
    /\ fs[1] = <<form>> /\ IsHex(fs[2], HexLen)
    /\ namespaced => IsSlug(fs[3]) /\ IsHex(fs[4], FpLen)

\* The token the text denotes, or None.
Meaning(flavor, form) ==
    LET priced == flavor # "collectible"
        all == Fields
        fs == IF priced THEN Tail(all) ELSE all
        price == IF ~priced \/ all[1] = <<>> THEN None ELSE DecimalValue(Tail(all[1]))
    IN  IF /\ priced => all[1] # <<>> /\ Head(all[1]) = "e" /\ price # None
           /\ Tailed(fs, form, flavor # "webcash")
        THEN Some([amount |-> price, hex |-> fs[2],
                   contract |-> IF flavor = "webcash" THEN <<>> ELSE fs[3],
                   issuer |-> IF flavor = "webcash" THEN <<>> ELSE Lower(fs[4])])
        ELSE None

Webcash(form, s) == FromStr("webcash", form, s)

\* The greedy parsers accept exactly the texts of the grammar and read the
\* amount that is written, to the last wat: more decimals than DECIMALS or a
\* value beyond i64 is refused, wherever the overflow happens, and a namespaced
\* token is never read as plain webcash (SecretWebcash::parse catches the
\* "namespaced token silently parses as plain webcash" bug).  The legacy server
\* reads every webcash token alike, and beyond that only texts that begin with one.
GrammarExact ==
    /\ \A flavor \in Flavors \ {"legacy"}, form \in Forms :
          Read(flavor, form) = Meaning(flavor, form)
    /\ \A form \in Forms :
          /\ Read("webcash", form) # None => Read("legacy", form) = Read("webcash", form)
          /\ Read("legacy", form) # None =>
                \E n \in 1..Len(text) : Webcash(form, SubSeq(text, 1, n)) = Read("legacy", form)

\* What a parser yields is a token of its type (its amount fits i64, its issuer
\* fingerprint is in lower case: storage keys are built from it without another
\* look), and it survives being written and read again, the namespace and secret
\* with it: what a client re-sends names the same record.
\* So does an amount by itself, whatever signs its text was read from.
RoundTrip ==
    /\ ParseAmount(text) # None => ParseAmount(DisplayAmount(ParseAmount(text)[1])) = ParseAmount(text)
    /\ \A flavor \in Flavors, form \in Forms : Read(flavor, form) # None =>
          LET tok == Read(flavor, form)[1]
          IN  /\ tok \in TokenOf(flavor)
              /\ FromStr(flavor, form, Display(flavor, form, tok)) = Some(tok)

=============================================================================
