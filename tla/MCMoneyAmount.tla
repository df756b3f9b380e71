---------------------------- MODULE MCMoneyAmount ----------------------------
(* Every text of at most five characters over two digits and what is read    *)
(* or skipped.  In scale: MIN has fewer places than a Decimal, Word is        *)
(* between MAX and ten times as much (2^64 is between MAX * 10^10 and         *)
(* MAX * 10^11), Limit is above it, and a Decimal is roomy for the tokens     *)
(* without decimals (2^96: for those with at most 18).  Texts of four digits  *)
(* do not fit and are rounded, 9.999 to 10.0 and 99.99 to 100.                *)
EXTENDS MoneyAmount, TLC

MCTexts == BoundedSeq({"0", "1", "9", ".", ",", "-", "$"}, 5)
MCDecimals == {0, 1, 2, 4}
MCValue == ("0" :> 0) @@ ("1" :> 1) @@ ("9" :> 9)
=============================================================================
