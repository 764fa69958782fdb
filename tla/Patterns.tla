------------------------------ MODULE Patterns ------------------------------
(***************************************************************************)
(* The blocklist patterns of contracts/src/helpers.rs.                     *)
(*                                                                         *)
(* A DID or a pattern is a string; here it is a sequence of chunks, where  *)
(* a chunk stands for any text without `*' or `.', and Star and Dot stand  *)
(* for those two characters.  Everything pattern_matches does (equality,   *)
(* strip_prefix, strip_suffix, starts_with, ends_with) acts on chunks as   *)
(* it acts on characters, as long as no chunk is a part of another.        *)
(***************************************************************************)
EXTENDS Sequences, SequencesExt

Star == "*"
Dot == "."

(* The Rust `pattern.strip_prefix("*.")' and `strip_suffix("*")' succeed.  *)
IsDomainPattern(pattern) == IsPrefix(<<Star, Dot>>, pattern)
IsPrefixPattern(pattern) == pattern # <<>> /\ Last(pattern) = Star

(* helpers.rs pattern_matches: the tests in the order of the code; a       *)
(* domain pattern returns before the trailing star is looked at.           *)
PatternMatches(value, pattern) ==
  \/ pattern = <<Star>>
  \/ pattern = value
  \/ /\ IsDomainPattern(pattern)
     /\ IsSuffix(SubSeq(pattern, 3, Len(pattern)), value)
  \/ /\ ~IsDomainPattern(pattern)
     /\ IsPrefixPattern(pattern)
     /\ IsPrefix(Front(pattern), value)

(* helpers.rs is_pattern_blocked: some pattern of a list matches.          *)
IsPatternBlocked(value, patterns) ==
  \E p \in patterns : PatternMatches(value, p)
=============================================================================
