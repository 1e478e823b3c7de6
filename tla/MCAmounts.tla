----------------------------- MODULE MCAmounts -----------------------------
EXTENDS Amounts

MCTokens == [decimals : {0, 1, 2}, symbol : {"word", "mixed", "other"}]

(* In base 3: a whole amount with a separator, one unit of each place, a   *)
(* limit with two decimals that a token with one refuses, and a point that *)
(* nothing follows.                                                        *)
MCLimits ==
    { [whole |-> <<1, Comma, 0>>, point |-> FALSE, frac |-> <<>>, symbol |-> "none"],
      [whole |-> <<0>>, point |-> TRUE, frac |-> <<2>>, symbol |-> "word"],
      [whole |-> <<0>>, point |-> TRUE, frac |-> <<1, 0>>, symbol |-> "none"],
      [whole |-> <<1>>, point |-> TRUE, frac |-> <<>>, symbol |-> "none"] }
=============================================================================
