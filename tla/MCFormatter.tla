----------------------------- MODULE MCFormatter -----------------------------
(***************************************************************************)
(* Formatter for TLC: every pattern of up to MaxLength characters.         *)
(***************************************************************************)
EXTENDS Formatter, TLC

CONSTANT MaxLength

MCPatterns == UNION {[1..k -> Char] : k \in 0..MaxLength}
=============================================================================
