------------------------------ MODULE MoneyAmount ------------------------------
(***************************************************************************)
(* Prices as people write them, "$10.50" or "1,000", become amounts of a   *)
(* token in its smallest unit: MoneyAmount of x402-types, and the parse of *)
(* the token deployments of the two chain families, which differ in their  *)
(* width.  An application calls it where it states its prices; a dynamic   *)
(* price tag calls it in every request.                                    *)
(*                                                                         *)
(* Texts are tuples of characters.  A few are left out, for whether they   *)
(* are numbers is up to rust_decimal: one whose point has no digit on one  *)
(* side, and one with something wrong behind as much as a Decimal holds.   *)
(***************************************************************************)
EXTENDS Naturals, Sequences, SequencesExt, FiniteSetsExt

CONSTANTS Texts,       \* what is parsed
          Decimals,    \* of tokens
          Value,       \* of a digit
          MinPlaces,   \* MIN is 10^-MinPlaces
          MAX,
          Word,        \* 2^64
          Limit,       \* 2^96: what the mantissa of a Decimal stays below
          MaxScale     \* 28: the places a Decimal has behind the point

ASSUME MoneyAssumption ==
    /\ Texts \subseteq Seq(STRING)
    /\ \A c \in DOMAIN Value : Value[c] \in 0 .. 9
    /\ DOMAIN Value \cap {".", "-", ",", "$"} = {}
    /\ Decimals \subseteq Nat /\ MinPlaces \in Nat /\ MAX \in Nat /\ Word \in Nat \ {0}
    /\ Limit \in Nat \ {0} /\ MaxScale \in Nat

VARIABLES text, decimals,
          amount,      \* Eip155TokenDeployment::parse: 256 bits
          lamports     \* SolanaTokenDeployment::parse: 64 bits

parsing == <<text, decimals, amount, lamports>>

IsDigit(c) == c \in DOMAIN Value
Kept(c) == IsDigit(c) \/ c \in {".", "-"}

TenTo[n \in Nat] == IF n = 0 THEN 1 ELSE 10 * TenTo[n - 1]

\* Mutant: the thousand separators are left in.
CleanedOfSymbols(t) == SelectSeq(t, LAMBDA c : Kept(c) \/ c = ",")

(* What is not kept is deleted.  Recursive functions here and below, not    *)
(* SelectSeq, FoldLeft and ^: PaygateProofs reasons along the text.         *)
Cleaned(t) ==
    LET upTo[k \in 0 .. Len(t)] ==
            IF k = 0 THEN <<>>
            ELSE IF Kept(t[k]) THEN Append(upTo[k - 1], t[k]) ELSE upTo[k - 1]
    IN  upTo[Len(t)]

Points(t) == {i \in DOMAIN t : t[i] = "."}
Signs(t) == {i \in DOMAIN t : t[i] = "-"}

(* Decimal::from_str of what is left: a sign at the front, digits, one      *)
(* point; the number is its digits and how many of them follow the point.   *)
IsNumber(t) == /\ \E i \in DOMAIN t : IsDigit(t[i])
               /\ \A i \in DOMAIN t : IsDigit(t[i]) \/ t[i] \in {".", "-"}
               /\ Signs(t) \subseteq {1}
               /\ \A i, j \in Points(t) : i = j

DanglingPoint(t) ==
    \E i \in Points(t) : ~(/\ i > 1 /\ IsDigit(t[i - 1])
                           /\ i < Len(t) /\ IsDigit(t[i + 1]))

mantissa(t) ==
    LET upTo[k \in 0 .. Len(t)] ==
            IF k = 0 THEN 0
            ELSE IF IsDigit(t[k]) THEN 10 * upTo[k - 1] + Value[t[k]] ELSE upTo[k - 1]
    IN  upTo[Len(t)]
scale(t) == IF Points(t) = {} THEN 0 ELSE Len(t) - Max(Points(t))

(* A Decimal holds 96 bits and 28 places.  Of a longer text it reads as     *)
(* much as fits and rounds at the next digit, if that is behind the point;  *)
(* where rounding makes it too long again, the last place goes.             *)
FitsDecimal(t) == mantissa(t) < Limit /\ scale(t) <= MaxScale
Held(t) == Max({k \in 0 .. Len(t) : FitsDecimal(SubSeq(t, 1, k))})

Refused == [ok |-> FALSE, mantissa |-> 0, scale |-> 0]
Decimal(m, s) == [ok |-> TRUE, mantissa |-> m, scale |-> s]

Rounded(t) ==
    LET held == SubSeq(t, 1, Held(t))
        m == mantissa(held) + (IF Value[t[Held(t) + 1]] >= 5 THEN 1 ELSE 0)
    IN  IF Points(held) = {} THEN Refused
        ELSE IF m < Limit THEN Decimal(m, scale(held))
        ELSE IF scale(held) = 0 THEN Refused
        ELSE Decimal((m + 4) \div 10, scale(held) - 1)

from_str(t) == IF ~IsNumber(t) THEN Refused
               ELSE IF FitsDecimal(t) THEN Decimal(mantissa(t), scale(t))
               ELSE Rounded(t)

InRange(money) == /\ money.mantissa * TenTo[MinPlaces] >= TenTo[money.scale]
                  /\ money.mantissa <= MAX * TenTo[money.scale]

parse(t) == LET parsed == from_str(Cleaned(t)) IN
            IF parsed.ok /\ Signs(Cleaned(t)) = {} /\ InRange(parsed)
            THEN parsed ELSE Refused

----------------------------------------------------------------------------
Unparsed == [kind |-> "none", value |-> 0]
Failed == [kind |-> "error", value |-> 0]
Panic == [kind |-> "panic", value |-> 0]
Amount(n) == [kind |-> "amount", value |-> n]

TooPrecise(money) == money.scale > decimals

Eip155Parse ==
    /\ amount = Unparsed
    /\ LET money == parse(text) IN
       amount' = IF ~money.ok \/ TooPrecise(money) THEN Failed
                 ELSE Amount(money.mantissa * TenTo[decimals - money.scale])
    /\ UNCHANGED <<text, decimals, lamports>>

\* Mutant: the product wraps.
SolanaParseWrapping ==
    /\ lamports = Unparsed
    /\ LET money == parse(text)  multiplier == TenTo[decimals - money.scale] IN
       lamports' =
         IF ~money.ok \/ TooPrecise(money) \/ multiplier >= Word THEN Failed
         ELSE IF money.mantissa >= Word THEN Panic
         ELSE Amount((money.mantissa * multiplier) % Word)
    /\ UNCHANGED <<text, decimals, amount>>

\* checked_pow and checked_mul fail; the mantissa is expected to fit.
SolanaParse ==
    /\ lamports = Unparsed
    /\ LET money == parse(text)  multiplier == TenTo[decimals - money.scale] IN
       lamports' =
         IF ~money.ok \/ TooPrecise(money) \/ multiplier >= Word THEN Failed
         ELSE IF money.mantissa >= Word THEN Panic
         ELSE IF money.mantissa * multiplier >= Word THEN Failed
         ELSE Amount(money.mantissa * multiplier)
    /\ UNCHANGED <<text, decimals, amount>>

\* A text that is no number, and longer than a Decimal before that shows.
WrongBehind(t) ==
    /\ ~IsNumber(t)
    /\ \E k \in DOMAIN t : LET read == SubSeq(t, 1, k) IN ~FitsDecimal(read) \/ scale(read) = MaxScale

PriceInit == /\ text \in Texts
             /\ ~DanglingPoint(Cleaned(text)) /\ ~WrongBehind(Cleaned(text))
             /\ decimals \in Decimals
             /\ amount = Unparsed /\ lamports = Unparsed

PriceNext == Eip155Parse \/ SolanaParse

PriceSpec == PriceInit /\ [][PriceNext]_parsing

----------------------------------------------------------------------------
(* The format the documentation names: an optional symbol, digits with      *)
(* separators between them, and digits behind a point.                      *)
Documented(t) ==
    LET body == IF t # <<>> /\ t[1] = "$" THEN Tail(t) ELSE t IN
    /\ body # <<>> /\ IsDigit(body[1]) /\ IsDigit(Last(body))
    /\ Cardinality(Points(body)) <= 1
    /\ \A i \in DOMAIN body :
        \/ IsDigit(body[i]) \/ body[i] = "."
        \/ body[i] = "," /\ \A p \in Points(body) : i < p - 1

(* What the text means in units of 10^-decimals, digit by digit: each       *)
(* counts by the digits between it and the point.                           *)
DigitsIn(t, from, to) == Cardinality({i \in from .. to : IsDigit(t[i])})
Meaning(t) ==
    LET point == IF Points(t) = {} THEN Len(t) + 1 ELSE Max(Points(t))
        place(i) == IF i < point THEN decimals + DigitsIn(t, i + 1, point - 1)
                    ELSE decimals - DigitsIn(t, point + 1, i)
        upTo[k \in 0 .. Len(t)] ==
            IF k = 0 THEN 0
            ELSE IF IsDigit(t[k]) THEN upTo[k - 1] + Value[t[k]] * TenTo[place(k)]
                                  ELSE upTo[k - 1]
    IN  upTo[Len(t)]

Exact(t) == LET point == IF Points(t) = {} THEN Len(t) ELSE Max(Points(t)) IN
            DigitsIn(t, point + 1, Len(t)) <= decimals

\* A Decimal holds every amount of such a token, and one digit more.
Roomy == decimals < MaxScale /\ 10 * (MAX * TenTo[decimals] + 1) <= Limit

(* A price in the documented format becomes the amount it means on both     *)
(* chains, and is refused only if it is finer than the token, or too small  *)
(* or too large (money_amount.rs, "Supported Formats"; parse).  Of a token  *)
(* with so many decimals that a Decimal lacks the room, 19 and more, this   *)
(* holds of the texts that fit: the others are rounded.                     *)
DocumentedIsExact ==
    Documented(text) /\ amount # Unparsed /\ (Roomy \/ FitsDecimal(Cleaned(text))) =>
        amount = IF /\ Exact(text)
                    /\ Meaning(text) >= TenTo[IF decimals > MinPlaces THEN decimals - MinPlaces ELSE 0]
                    /\ Meaning(text) <= MAX * TenTo[decimals]
                 THEN Amount(Meaning(text)) ELSE Failed

(* The two chains read one price the same; Solana's 64 bits refuse what     *)
(* does not fit, and never charge another amount.                           *)
SolanaAgrees ==
    lamports # Unparsed /\ amount # Unparsed =>
        \/ lamports = amount /\ lamports.value < Word
        \/ amount.kind = "amount" /\ amount.value >= Word /\ lamports.kind \in {"error", "panic"}

=============================================================================
