----------------------------- MODULE Tokenizer -----------------------------
(***************************************************************************)
(* The tokenizer of register filters (tokenize, filter.rs).  A character is*)
(* its class: "blank" white space, "eq" =, "cmp" !, < or >, "amp" &,       *)
(* "bar" |, "word" a letter, digit or underscore, "other" anything else.   *)
(* A token is the pair of positions it lies between in the text.           *)
(***************************************************************************)
EXTENDS Naturals, Sequences

CONSTANTS MaxText   \* bound on the length of a filter

ASSUME TokenAssumption == MaxText \in Nat

Char == {"blank", "eq", "cmp", "amp", "bar", "word", "other"}
Sign == {"eq", "cmp", "amp", "bar"}

VARIABLES
  text,    \* input
  pos,     \* characters taken from chars
  tokens,  \* tokens so far
  status   \* "running", "done", or "rejected"

tokenVars == <<text, pos, tokens, status>>

TokenInit ==
  /\ text \in UNION {[1..n -> Char] : n \in 0..MaxText}
  /\ pos = 0 /\ tokens = <<>> /\ status = "running"

Next1 == text[pos + 1]
More == status = "running" /\ pos < Len(text)

Space ==
  /\ More /\ Next1 = "blank"
  /\ pos' = pos + 1
  /\ UNCHANGED <<text, tokens, status>>

\* The second character that makes the sign one of two.
Second(c) == CASE c \in {"eq", "cmp"} -> "eq" [] c = "amp" -> "amp" [] c = "bar" -> "bar"

Push(to) == tokens' = Append(tokens, <<pos + 1, to>>) /\ pos' = to

\* Mutant: a comparison is taken together with an equals sign, & and | are not doubled.
OperatorSingle ==
  /\ More /\ Next1 \in Sign
  /\ Push(IF Next1 \in {"eq", "cmp"} /\ pos + 1 < Len(text) /\ text[pos + 2] = Second(Next1)
          THEN pos + 2 ELSE pos + 1)
  /\ UNCHANGED <<text, status>>

Operator ==
  /\ More /\ Next1 \in Sign
  /\ Push(IF pos + 1 < Len(text) /\ text[pos + 2] = Second(Next1) THEN pos + 2 ELSE pos + 1)
  /\ UNCHANGED <<text, status>>

\* A word runs up to the next character that is none of its own.
Word ==
  /\ More /\ Next1 = "word"
  /\ \E to \in pos + 1..Len(text) :
       /\ \A i \in pos + 1..to : text[i] = "word"
       /\ to < Len(text) => text[to + 1] # "word"
       /\ Push(to)
  /\ UNCHANGED <<text, status>>

\* Mutant: a character that is nothing is passed over.
UnexpectedSkipped ==
  /\ More /\ Next1 = "other"
  /\ pos' = pos + 1
  /\ UNCHANGED <<text, tokens, status>>

Unexpected ==
  /\ More /\ Next1 = "other"
  /\ status' = "rejected"
  /\ UNCHANGED <<text, pos, tokens>>

End ==
  /\ status = "running" /\ pos = Len(text)
  /\ status' = "done"
  /\ UNCHANGED <<text, pos, tokens>>

TokenNext == Space \/ Operator \/ Word \/ Unexpected \/ End

TokenSpec == TokenInit /\ [][TokenNext]_tokenVars

-----------------------------------------------------------------------------
(* The reference: what a token may be                                      *)

Lexeme(s) ==
  \/ s \in {<<c>> : c \in Sign}
  \/ s \in {<<"eq", "eq">>, <<"cmp", "eq">>, <<"amp", "amp">>, <<"bar", "bar">>}
  \/ Len(s) > 0 /\ \A i \in 1..Len(s) : s[i] = "word"

Span(k) == tokens[k][1]..tokens[k][2]

TokenTypeOK ==
  /\ text \in Seq(Char) /\ pos \in 0..Len(text)
  /\ tokens \in Seq((1..Len(text)) \X (1..Len(text)))
  /\ status \in {"running", "done", "rejected"}

\* No character of a filter is lost or read twice: each is white space or lies in one
\* token, the tokens come in the text's order, and only a character that can be in none
\* rejects the filter (filter.rs:142-178).
EveryCharacterRead ==
  /\ \A i \in 1..pos : text[i] = "blank" <=> \A k \in 1..Len(tokens) : i \notin Span(k)
  /\ \A k \in 1..Len(tokens) : \A i \in Span(k) : i <= pos /\ text[i] # "blank"
  /\ \A k \in 2..Len(tokens) : tokens[k - 1][2] < tokens[k][1]
  /\ status = "done" => pos = Len(text) /\ \A i \in 1..Len(text) : text[i] # "other"
  /\ status = "rejected" => text[pos + 1] = "other"

\* Each token is one the grammar knows, and as long as it can be: "ax!=1" and "ax&&bx"
\* need no blanks, "&" before "&" is never a mask (filter.rs:147-173).
LongestTokens ==
  \A k \in 1..Len(tokens) :
    LET from == tokens[k][1]
        to == tokens[k][2]
    IN  /\ Lexeme(SubSeq(text, from, to))
        /\ to < Len(text) => ~Lexeme(SubSeq(text, from, to + 1))
=============================================================================
