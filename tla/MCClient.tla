----------------------------- MODULE MCClient -----------------------------
(***************************************************************************)
(* Instances of Client for TLC.                                            *)
(***************************************************************************)
EXTENDS Client, TLC

CONSTANTS w, d, m, x, c1, c2

(* w owns the tokens, d is a key that may get a session token for it; m is *)
(* a merchant, x one that is denied to both, although d's allow list has   *)
(* it.                                                                     *)
MCFunds == [k \in Payers |-> IF k = w THEN 2 ELSE 0]
MCFrontEnds ==
    [k \in Keys |-> {CASE k = w -> "cli" [] k = d -> "page" [] k = m -> "mcp" [] k = x -> "sdk"}]
MCTokens == {<<UserPda(w), d>>}
MCDeny == [k \in Keys |-> IF k \in Payers THEN {x} \cap Keys ELSE {}]
MCAllow == [k \in Keys |-> IF k = d THEN {w, m, x} \cap Keys ELSE {}]

Symmetry == Permutations(Calls)
=============================================================================
