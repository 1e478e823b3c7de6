------------------------------ MODULE Amounts ------------------------------
(***************************************************************************)
(* Amounts as texts and as base units: toBaseUnits, fromBaseUnits and      *)
(* parseMoney of packages/types/src/amounts.ts, their counterparts in      *)
(* crates/hyperpay/src/amounts.rs, and the way of a price through the x402 *)
(* packages: text, base units in the challenge, text again in display, and *)
(* base units when the merchant charges.                                   *)
(*                                                                         *)
(* A text has a whole part, perhaps a point and a fraction, each made of   *)
(* digits and thousands separators, and perhaps a symbol.  A symbol is     *)
(*   "word"   a letter and then letters and digits, as USDC is,            *)
(*   "mixed"  a letter and then others too, as USDC.E, which a token may   *)
(*            be called in HYPERPAY_TOKENS, or                             *)
(*   "other"  as the first six characters of a mint's address, which stand *)
(*            for a token that is not listed, may start with a digit.      *)
(* Blanks, which both parsers drop, are left out.                          *)
(***************************************************************************)
EXTENDS Naturals, SequencesExt

CONSTANTS
    Base,      \* 10 in the code
    Comma,     \* the thousands separator
    MaxWhole, MaxFrac, \* bounds on the parts of a text in the settings
    MaxUnits,  \* the largest u64
    Tokens,    \* the records [decimals, symbol]
    Limits,    \* the texts given as maxPrice
    NoLimit,   \* a payer without maxPrice
    Refused    \* an amount that was refused

ASSUME AmountsAssumption ==
    /\ Base \in Nat /\ Base > 1
    /\ Comma \notin Nat
    /\ MaxWhole \in Nat /\ MaxFrac \in Nat
    /\ MaxUnits \in Nat
    /\ \A t \in Tokens : t.decimals \in Nat /\ t.symbol \in {"word", "mixed", "other"}
    /\ Refused \notin Nat
    /\ NoLimit \notin Limits

Characters == 0..(Base - 1) \cup {Comma}

(* What a text may look like whose symbol, if it has one, is s.            *)
Texts(s) ==
    { t \in [whole : SeqOf(Characters, MaxWhole), point : BOOLEAN,
             frac : SeqOf(Characters, MaxFrac), symbol : {"none", s}] :
        t.frac # <<>> => t.point }

VARIABLES price, token, limit, stage, asked, charged

vars == <<price, token, limit, stage, asked, charged>>
-----------------------------------------------------------------------------
Number(ds) == FoldLeft(LAMBDA n, d : n * Base + d, 0, ds)

Stripped(ds) == SelectSeq(ds, LAMBDA c : c # Comma)

Numeral[n \in Nat] ==
    IF n < Base THEN <<n>> ELSE Append(Numeral[n \div Base], n % Base)

Zeros(n) == [i \in 1..n |-> 0]

PadEnd(ds, n) == ds \o Zeros(IF n > Len(ds) THEN n - Len(ds) ELSE 0)

PadStart(ds, n) == Zeros(IF n > Len(ds) THEN n - Len(ds) ELSE 0) \o ds

(* MONEY: the whole part starts with a digit, a point has a fraction, the  *)
(* fraction has no separator, and a symbol is a word.                      *)
WellFormed(t) ==
    /\ t.whole # <<>> /\ Head(t.whole) # Comma
    /\ t.point => t.frac # <<>>
    /\ ~Contains(t.frac, Comma)
    /\ t.symbol \in {"none", "word"}

Precise_Any(t, d) == TRUE

(* More decimal places than the mint has are refused, never rounded. *)
Precise(t, d) == Len(t.frac) <= d

ToBaseUnits(t, d) == Number(Stripped(t.whole) \o PadEnd(t.frac, d))

(* The check of resolveAmount: more than zero and at most a u64. *)
Fits(n) == n > 0 /\ n <= MaxUnits

Resolve(t, d) ==
    IF WellFormed(t) /\ Precise(t, d) /\ Fits(ToBaseUnits(t, d))
    THEN ToBaseUnits(t, d)
    ELSE Refused

Trimmed_Leading(ds) ==
    CHOOSE rest \in Suffixes(ds) :
        /\ rest # <<>> => Head(rest) # 0
        /\ \A other \in Suffixes(ds) : Len(other) > Len(rest) => Head(other) = 0

(* A fraction without its trailing zeros. *)
Trimmed(ds) ==
    CHOOSE rest \in Prefixes(ds) :
        /\ rest # <<>> => Last(rest) # 0
        /\ \A i \in (Len(rest) + 1)..Len(ds) : ds[i] = 0

Padded_Short(n, d) == PadStart(Numeral[n], d)

Padded(n, d) == PadStart(Numeral[n], d + 1)

FromBaseUnits(n, d) ==
    LET digits == Padded(n, d)
        cut == Len(digits) - d
        frac == Trimmed(SubSeq(digits, cut + 1, Len(digits)))
    IN [whole |-> SubSeq(digits, 1, cut), point |-> frac # <<>>, frac |-> frac,
        symbol |-> "none"]

(* formatAmount *)
Display(n, t) == [FromBaseUnits(n, t.decimals) EXCEPT !.symbol = t.symbol]

(* The Rust parser takes away every separator first, cuts at the point and *)
(* lets the fraction be empty; a symbol begins at the first letter.       *)
RustWellFormed(t) == Stripped(t.whole) # <<>> /\ t.symbol # "other"

RustPrecise_Off(t, d) == Len(Stripped(t.frac)) < d

RustPrecise(t, d) == Len(Stripped(t.frac)) <= d

RustToBaseUnits(t, d) == Number(Stripped(t.whole) \o PadEnd(Stripped(t.frac), d))

RustResolve(t, d) ==
    IF RustWellFormed(t) /\ RustPrecise(t, d) /\ Fits(RustToBaseUnits(t, d))
    THEN RustToBaseUnits(t, d)
    ELSE Refused
-----------------------------------------------------------------------------
Init ==
    /\ token \in Tokens
    /\ price \in Texts(token.symbol)
    /\ limit \in Limits \cup {NoLimit}
    /\ stage = "request"
    /\ asked = Refused
    /\ charged = Refused

LimitUnits_DefaultToken(t) == Resolve(limit, t.decimals + 1)

LimitUnits(t) == Resolve(limit, t.decimals)

(* verify reads back what display says, for the token it says it of.       *)
DisplayUnits == Resolve(Display(asked, token), token.decimals)

WithinLimit ==
    limit # NoLimit => LimitUnits(token) # Refused /\ asked <= LimitUnits(token)

Go(from, to) == stage = from /\ stage' = to /\ UNCHANGED <<price, token, limit>>

(* The paywall quotes its price. *)
Challenge ==
    /\ Go("request", "quoted")
    /\ Resolve(price, token.decimals) # Refused
    /\ asked' = Resolve(price, token.decimals)
    /\ UNCHANGED charged

(* A price that resolveAmount refuses: the middleware calls next(error). *)
BadPrice ==
    /\ Go("request", "error")
    /\ Resolve(price, token.decimals) = Refused
    /\ UNCHANGED <<asked, charged>>

(* payingFetch sends its proof ... *)
Agree ==
    /\ Go("quoted", "proved")
    /\ WithinLimit
    /\ UNCHANGED <<asked, charged>>

(* ... or throws, also when maxPrice is no amount of this token. *)
Decline ==
    /\ Go("quoted", "declined")
    /\ ~WithinLimit
    /\ UNCHANGED <<asked, charged>>

(* verify charges what display says. *)
Charge ==
    /\ Go("proved", "charged")
    /\ DisplayUnits # Refused
    /\ charged' = DisplayUnits
    /\ UNCHANGED asked

ChargeThrows ==
    /\ Go("proved", "unpaid")
    /\ DisplayUnits = Refused
    /\ UNCHANGED <<asked, charged>>

Next == Challenge \/ BadPrice \/ Agree \/ Decline \/ Charge \/ ChargeThrows

Spec == Init /\ [][Next]_vars
-----------------------------------------------------------------------------
(* The value of a text in base units of a token, times Base ^ places. *)
Scaled(t, d) == Number(Stripped(t.whole \o t.frac)) * Base ^ d

(* The base units of a challenge are the exact value of the price that the *)
(* merchant configured, and a u64: toBaseUnits neither rounds nor shifts   *)
(* it, and resolveAmount lets no other through.                            *)
ExactPrice ==
    asked # Refused =>
        /\ asked \in 1 .. MaxUnits
        /\ asked * Base ^ Len(price.frac) = Scaled(price, token.decimals)

(* What the merchant charges, read back from display by verify, is what    *)
(* the challenge asked and payingFetch compared with its limit:            *)
(* fromBaseUnits is the inverse of toBaseUnits.                            *)
ChargedAsAsked == stage = "charged" => charged = asked

(* payingFetch pays no more than maxPrice, in the decimals of the token    *)
(* that the challenge names.                                               *)
ChargedWithinLimit ==
    stage = "charged" /\ limit # NoLimit =>
        charged * Base ^ Len(limit.frac) <= Scaled(limit, token.decimals)

(* Texts on which the two clients are known to differ: a point that        *)
(* nothing follows, a separator at the very start or in the fraction, and  *)
(* a symbol that is no word.                                               *)
Lenient(t) ==
    \/ t.point /\ t.frac = <<>>
    \/ t.whole # <<>> /\ Head(t.whole) = Comma
    \/ Contains(t.frac, Comma)
    \/ t.symbol = "mixed"

(* The Rust client reads a price as the TypeScript one does: neither as    *)
(* another number, nor one that the other refuses, but for those texts,    *)
(* which only Rust accepts.                                                *)
ClientsAgree ==
    \/ RustResolve(price, token.decimals) = Resolve(price, token.decimals)
    \/ Lenient(price) /\ Resolve(price, token.decimals) = Refused

(* A display that ends with a word can always be read back: verify refuses *)
(* no client of such a token because of it, whatever the price.            *)
WordIsPayable == stage = "unpaid" => token.symbol # "word"
=============================================================================
