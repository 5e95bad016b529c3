----------------------------- MODULE RegFilter -----------------------------
(***************************************************************************)
(* The register filter of a watch (filter.rs): a recursive-descent parser  *)
(* over a vector of tokens, and the evaluation of what it builds.          *)
(*                                                                         *)
(* A token is known by its class: "reg" a register name, "num" a value,    *)
(* "op" a comparison, "amp" an ampersand, "and" (also &&), "or" (also ||), *)
(* "bad" anything else.  Which register, value and comparison it is does   *)
(* not matter to the parser; a predicate is known by the position of its   *)
(* first token.                                                            *)
(* The parser looks at most one token ahead, so the input is chosen token  *)
(* by token as it is looked at.                                            *)
(***************************************************************************)
EXTENDS Naturals, Sequences, FiniteSets

CONSTANTS MaxTokens   \* bound on the length of the input

ASSUME ParseAssumption == MaxTokens \in Nat

Token == {"reg", "num", "op", "amp", "and", "or", "bad"}

VARIABLES
  consumed, \* Parser::tokens up to pos
  look,     \* the token at pos: "unread", "end" of the input, or a token
  place,    \* where the parser is
  groups,   \* RegFilter::groups so far: a sequence of sequences of predicates
  masked    \* whether the predicate being parsed has a mask

parseVars == <<consumed, look, place, groups, masked>>

ParseInit ==
  /\ consumed = <<>> /\ look = "unread"
  /\ place = "reg" /\ groups = << <<>> >> /\ masked = FALSE

\* The input goes on with some token, or is over.
Look ==
  /\ look = "unread" /\ place \notin {"accepted", "rejected"}
  /\ look' \in IF Len(consumed) < MaxTokens THEN Token \cup {"end"} ELSE {"end"}
  /\ UNCHANGED <<consumed, place, groups, masked>>

Consume == consumed' = Append(consumed, look) /\ look' = "unread"
LeaveInput == UNCHANGED <<consumed, look>>

Reject == place' = "rejected" /\ LeaveInput /\ UNCHANGED <<groups, masked>>

\* next() must be a token of the given class.
Expect(class, where) ==
  /\ look # "unread"
  /\ IF look = class
     THEN Consume /\ place' = where /\ UNCHANGED <<groups, masked>>
     ELSE Reject

-----------------------------------------------------------------------------
(* parse_predicate                                                         *)

RegisterName == place = "reg" /\ Expect("reg", "amp")

Ampersand ==
  /\ place = "amp" /\ look # "unread"
  /\ masked' = (look = "amp")
  /\ IF look = "amp" THEN Consume /\ place' = "mask" ELSE LeaveInput /\ place' = "op"
  /\ UNCHANGED groups

Mask == place = "mask" /\ Expect("num", "op")

Comparison == place = "op" /\ Expect("op", "value")

\* The predicate is complete: it started `size` tokens ago.
Predicate(size) == [at |-> Len(consumed) + 2 - size, masked |-> masked]

AddTo(gs, p) == [gs EXCEPT ![Len(gs)] = Append(@, p)]

Value ==
  /\ place = "value" /\ look # "unread"
  /\ IF look = "num"
     THEN /\ Consume
          /\ groups' = AddTo(groups, Predicate(IF masked THEN 5 ELSE 3))
          /\ place' = "and"
          /\ UNCHANGED masked
     ELSE Reject

-----------------------------------------------------------------------------
(* parse_and_group, parse_filter, parse                                    *)

AndPredicate ==
  /\ place = "and" /\ look # "unread"
  /\ IF look = "and" THEN Consume /\ place' = "reg" ELSE LeaveInput /\ place' = "or"
  /\ UNCHANGED <<groups, masked>>

\* Mutant: or is read where and is, one list for both.
OrJoinsGroup ==
  /\ place = "or" /\ look # "unread"
  /\ IF look = "or" THEN Consume /\ place' = "reg" ELSE LeaveInput /\ place' = "finish"
  /\ UNCHANGED <<groups, masked>>

OrGroup ==
  /\ place = "or" /\ look # "unread"
  /\ IF look = "or"
     THEN Consume /\ groups' = Append(groups, <<>>) /\ place' = "reg"
     ELSE LeaveInput /\ UNCHANGED groups /\ place' = "finish"
  /\ UNCHANGED masked

\* Mutant: what follows the filter is not looked at.
FinishAnyway ==
  /\ place = "finish"
  /\ place' = "accepted"
  /\ UNCHANGED <<consumed, look, groups, masked>>

\* "unexpected token" unless the whole input was consumed.
Finish ==
  /\ place = "finish"
  /\ place' = IF look = "end" THEN "accepted" ELSE "rejected"
  /\ UNCHANGED <<consumed, look, groups, masked>>

ParseNext ==
  \/ Look
  \/ RegisterName \/ Ampersand \/ Mask \/ Comparison \/ Value
  \/ AndPredicate \/ OrGroup \/ Finish

ParseSpec == ParseInit /\ [][ParseNext]_parseVars

\* RegFilter::matches; holds is the set of predicates true of the sample.
Matches(gs, holds) ==
  \E g \in 1..Len(gs) : \A i \in 1..Len(gs[g]) : gs[g][i].at \in holds

-----------------------------------------------------------------------------
(* The reference: filter = predicate { ("and" | "or") predicate }          *)

PredicateText == {<<"reg", "op", "num">>, <<"reg", "amp", "num", "op", "num">>}

\* What one predicate more makes of each of T.
Joint == {"and", "or"}
Join(t, c, p) == Append(t, c) \o p
Longer(T) == {Join(t, c, p) : t \in T, c \in Joint, p \in PredicateText}

\* The filters of n predicates.
Texts[n \in Nat] == IF n <= 1 THEN PredicateText ELSE Longer(Texts[n - 1])

\* Every filter that fits, and a predicate more: what the input could still become.
Legal == UNION {Texts[n] : n \in 1..(MaxTokens \div 4) + 2}

StartsWith(t, s) == Len(s) <= Len(t) /\ SubSeq(t, 1, Len(s)) = s

\* What matches() should say, read off the text: one of its or-separated parts has all
\* its predicates true.
Ors(p) == Cardinality({i \in 1..p : consumed[i] = "or"})
Predicates == {i \in 1..Len(consumed) : consumed[i] = "reg"}
TextMatches(holds) ==
  \E k \in 0..Ors(Len(consumed)) : \A p \in Predicates : Ors(p) = k => p \in holds

\* Tokens, places and predicates are what they should be.
ParseTypeOK ==
  /\ consumed \in Seq(Token) /\ look \in Token \cup {"unread", "end"}
  /\ place \in {"reg", "amp", "mask", "op", "value", "and", "or", "finish",
                "accepted", "rejected"}
  /\ \A g \in 1..Len(groups) : groups[g] \in Seq([at : Nat, masked : BOOLEAN])
  /\ masked \in BOOLEAN

\* The parser accepts a filter of the grammar and nothing else, and rejects only an
\* input that no filter begins with (filter.rs:27-39, 67-112).
ParsesTheGrammar ==
  /\ place = "accepted" => consumed \in Legal /\ look = "end"
  /\ place = "rejected" =>
       IF look = "end" THEN consumed \notin Legal
       ELSE \A t \in Legal : ~StartsWith(t, Append(consumed, look))

\* "and" binds tighter than "or": what the parser built matches exactly the samples the
\* text describes, each predicate in its own group and each with its own mask
\* (filter.rs:41-58, 67-81, 88-94).
MatchesTheText ==
  place = "accepted" =>
    /\ \A holds \in SUBSET Predicates : Matches(groups, holds) <=> TextMatches(holds)
    /\ \A g \in 1..Len(groups) : \A i \in 1..Len(groups[g]) :
         LET p == groups[g][i]
         IN  p.at \in Predicates /\ (p.masked <=> consumed[p.at + 1] = "amp")
=============================================================================
