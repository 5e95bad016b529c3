------------------------------- MODULE Filter -------------------------------
(***************************************************************************)
(* The text of a register filter on its way to RegFilter: the tokenizer,   *)
(* which takes any characters, and the parser, which takes any tokens.     *)
(* They share no state: parse() runs the one after the other.              *)
(***************************************************************************)
EXTENDS Tokenizer, RegFilter

\* A filter is read as it is written: no character is lost or read twice, tokens are as
\* long as they can be, the parser accepts the grammar and nothing else, and what it builds
\* is what the text means, with "and" binding tighter than "or"
\* (filter.rs:27-58, 67-112, 138-178).
FiltersAreRead ==
  /\ TokenTypeOK /\ EveryCharacterRead /\ LongestTokens
  /\ ParseTypeOK /\ ParsesTheGrammar /\ MatchesTheText
=============================================================================
