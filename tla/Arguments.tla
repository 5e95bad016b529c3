----------------------------- MODULE Arguments -----------------------------
(***************************************************************************)
(* The texts a user writes, and what the program reads in them: watchpoint *)
(* types and addresses on the command line (watch.rs), address expressions *)
(* of the API (maps.rs), values in a filter (filter.rs), and the form in   *)
(* which a hit shows an address (maps.rs).                                 *)
(*                                                                         *)
(* A text is a sequence of characters, each a string of length one; the    *)
(* alphabet is small, and stands for the classes the parsers tell apart.   *)
(* Digits above 4 and below a do not matter.                               *)
(***************************************************************************)
EXTENDS Integers, Sequences, FiniteSetsExt

CONSTANTS
  MaxArgument,   \* bound on the length of a text
  WordLimit      \* 2^64, the first number beyond u64

ASSUME ArgumentAssumption == MaxArgument \in Nat /\ WordLimit \in Nat /\ WordLimit > 15

Letter == {"0", "1", "4", "a", "x", "X", "r", "w", "+", " "}
HexDigit == {"0", "1", "4", "a"}
Digit(c) == CASE c = "0" -> 0 [] c = "1" -> 1 [] c = "4" -> 4 [] c = "a" -> 10

NoValue == [ok |-> FALSE, value |-> 0]
Val(n) == [ok |-> TRUE, value |-> n]

VARIABLES written   \* what has been written

ArgInit == written = <<>>
Write(c) == Len(written) < MaxArgument /\ written' = Append(written, c)
ArgNext == \E c \in Letter : Write(c)
ArgSpec == ArgInit /\ [][ArgNext]_written

-----------------------------------------------------------------------------
(* Numbers                                                                 *)

Drop(s, n) == SubSeq(s, n + 1, Len(s))
HasPrefix(s, p) == Len(p) <= Len(s) /\ SubSeq(s, 1, Len(p)) = p
Prefix0x(s) == HasPrefix(s, <<"0", "x">>)
Prefix0X(s) == HasPrefix(s, <<"0", "X">>)

\* What the first i digits are worth.
Worth(digits, radix) ==
  LET worth[i \in 0..Len(digits)] ==
        IF i = 0 THEN 0 ELSE radix * worth[i - 1] + Digit(digits[i])
  IN  worth

\* uN::from_str_radix of the standard library, which takes a plus sign.
FromStrRadix(s, radix) ==
  LET digits == IF Len(s) > 1 /\ s[1] = "+" THEN Tail(s) ELSE s
      number == Worth(digits, radix)[Len(digits)]
  IN  IF \/ digits = <<>>
         \/ \E i \in 1..Len(digits) : digits[i] \notin HexDigit \/ Digit(digits[i]) >= radix
         \/ number >= WordLimit
      THEN NoValue
      ELSE Val(number)

\* Mutant: decimal unless it says 0x.
ParseAddrDecimal(s) == IF Prefix0x(s) THEN FromStrRadix(Drop(s, 2), 16) ELSE FromStrRadix(s, 10)

\* watch.rs: pwatch watch.
ParseAddr(s) == FromStrRadix(IF Prefix0x(s) THEN Drop(s, 2) ELSE s, 16)

\* maps.rs: the server.
ParseNumericAddr(s) ==
  IF s = <<>> THEN NoValue
  ELSE IF Prefix0x(s) \/ Prefix0X(s) THEN FromStrRadix(Drop(s, 2), 16)
  ELSE IF \A i \in 1..Len(s) : s[i] \in HexDigit THEN FromStrRadix(s, 16)
  ELSE NoValue

\* Mutant: hexadecimal, as an address is.
ParseValueHex(s) == FromStrRadix(IF Prefix0x(s) \/ Prefix0X(s) THEN Drop(s, 2) ELSE s, 16)

\* filter.rs: a token, hence without blanks and plus signs.
ParseValue(s) ==
  IF Prefix0x(s) \/ Prefix0X(s) THEN FromStrRadix(Drop(s, 2), 16) ELSE FromStrRadix(s, 10)

-----------------------------------------------------------------------------
(* Address expressions                                                     *)

Blank(s, i) == s[i] = " "
Trim(s) ==
  LET solid == {i \in 1..Len(s) : ~Blank(s, i)}
  IN  IF solid = {} THEN <<>> ELSE SubSeq(s, Min(solid), Max(solid))

NoModule == [ok |-> FALSE, module |-> <<>>, offset |-> 0]

\* Mutant: split at the last plus sign.
ParseModuleOffsetLast(s) ==
  LET plus == {i \in 1..Len(s) : s[i] = "+"}
      module == Trim(SubSeq(s, 1, Max(plus) - 1))
      offset == ParseNumericAddr(Trim(Drop(s, Max(plus))))
  IN  IF plus = {} \/ module = <<>> \/ ~offset.ok THEN NoModule
      ELSE [ok |-> TRUE, module |-> module, offset |-> offset.value]

\* Split at the first plus sign.
ParseModuleOffset(s) ==
  LET plus == {i \in 1..Len(s) : s[i] = "+"}
      module == Trim(SubSeq(s, 1, Min(plus) - 1))
      offset == ParseNumericAddr(Trim(Drop(s, Min(plus))))
  IN  IF plus = {} \/ module = <<>> \/ ~offset.ok THEN NoModule
      ELSE [ok |-> TRUE, module |-> module, offset |-> offset.value]

\* resolve_expression: a number if it can be one, else a module and an offset, which
\* Resolution.tla looks up.
Numeric(s) == ParseNumericAddr(Trim(s))
ResolveExpression(s) == IF Numeric(s).ok THEN NoModule ELSE ParseModuleOffset(s)

\* The display of an address in a module: {module}+0x{offset:x}, of one digit here.
Display(module, digit) == module \o <<"+", "0", "x", digit>>

-----------------------------------------------------------------------------
(* Watchpoint types                                                        *)

NoType == [ok |-> FALSE, kind |-> "", len |-> 0]
Lengths == {1, 4}   \* of 1, 2, 4, 8

ParseLen(s) ==
  CASE s = <<"1">> -> Val(1) [] s = <<"4">> -> Val(4) [] s = <<>> -> Val(1)
    [] OTHER -> NoValue

OfKind(kind, rest) ==
  IF ParseLen(rest).ok THEN [ok |-> TRUE, kind |-> kind, len |-> ParseLen(rest).value]
  ELSE NoType

\* Mutant: r is looked for before rw.
ParseTypeReadFirst(s) ==
  IF HasPrefix(s, <<"r">>) THEN OfKind("r", Drop(s, 1))
  ELSE IF HasPrefix(s, <<"r", "w">>) THEN OfKind("rw", Drop(s, 2))
  ELSE IF HasPrefix(s, <<"w">>) THEN OfKind("w", Drop(s, 1))
  ELSE IF s = <<"x">> THEN [ok |-> TRUE, kind |-> "x", len |-> 8]
  ELSE NoType

\* parse_watchpoint_type; an instruction is watched over a c_long.
ParseType(s) ==
  IF HasPrefix(s, <<"r", "w">>) THEN OfKind("rw", Drop(s, 2))
  ELSE IF HasPrefix(s, <<"r">>) THEN OfKind("r", Drop(s, 1))
  ELSE IF HasPrefix(s, <<"w">>) THEN OfKind("w", Drop(s, 1))
  ELSE IF s = <<"x">> THEN [ok |-> TRUE, kind |-> "x", len |-> 8]
  ELSE NoType

-----------------------------------------------------------------------------
Number == {NoValue} \cup {Val(n) : n \in 0..WordLimit - 1}

ArgTypeOK ==
  /\ written \in Seq(Letter) /\ Len(written) <= MaxArgument
  /\ ParseAddr(written) \in Number /\ ParseNumericAddr(written) \in Number
  /\ ParseValue(written) \in Number
  /\ ParseType(written) \in [ok : BOOLEAN, kind : {"", "r", "w", "rw", "x"},
                             len : {0, 8} \cup Lengths]

\* One text, one address: what pwatch watch and the server read in the same text is the
\* same address, unless the server takes it for no number at all, as it does with a
\* leading plus sign; the two have a parser each (watch.rs:82-84, maps.rs:96-105, 311-325).
SameTextSameAddress ==
  ParseAddr(written).ok =>
    \/ Numeric(written) = ParseAddr(written)
    \/ written[1] = "+" /\ ~Numeric(written).ok /\ ~ResolveExpression(written).ok

\* With a 0x a number means the same in a filter as in an address; without, it is decimal
\* in the one and hexadecimal in the other, and the two agree on single digits only
\* (filter.rs:199-208, maps.rs:311-325).
FilterNumbersMatchAddresses ==
  LET value == ParseValue(written)
      addr == ParseNumericAddr(written)
  IN  value.ok /\ written[1] # "+" =>
        IF Prefix0x(written) \/ Prefix0X(written) THEN addr = value
        ELSE addr.ok => (addr = value <=> value.value < 10)

\* An address shown in a hit can be given back, and is read as the module and the offset it
\* was made of, exactly when the name of the module has no plus sign; names here are not
\* empty and have no white space around them (hit.rs:108-113, maps.rs:223-237, 298-309).
DisplayReadsBack ==
  written # <<>> /\ Trim(written) = written =>
    \A d \in HexDigit :
      ResolveExpression(Display(written, d))
          = [ok |-> TRUE, module |-> written, offset |-> Digit(d)]
        <=> \A i \in 1..Len(written) : written[i] # "+"

\* How a user writes the kinds that have a length, and the length.
Spelt(kind) == IF kind = "rw" THEN <<"r", "w">> ELSE <<kind>>
LenText == {<<>>, <<"1">>, <<"4">>}

\* A watchpoint type is r, w or rw with the number of bytes to watch, or x, for the size of
\* a c_long, and no other text is one. With one exception to what the help says: the length
\* is "needed" (main.rs:41, README.md:25), but may be left out, and one byte is watched
\* (watch.rs:51-80).
TypesAreTheGrammar ==
  LET t == ParseType(written)
      Is(kind, len) == t = [ok |-> TRUE, kind |-> kind, len |-> len]
  IN  /\ \A kind \in {"r", "w", "rw"}, l \in LenText :
           written = Spelt(kind) \o l => Is(kind, IF l = <<>> THEN 1 ELSE Digit(l[1]))
      /\ written = <<"x">> => Is("x", 8)
      /\ t.ok => \/ written = <<"x">>
                 \/ \E kind \in {"r", "w", "rw"}, l \in LenText : written = Spelt(kind) \o l

\* The parsers of addresses agree with each other, with those of filters and with the
\* form in which hits show them, but for the cases their definitions name; watchpoint types
\* are read as the help has them, but for a length that is left out (watch.rs:51-84, maps.rs:298-325, filter.rs:199-208).
ArgumentsAreRead ==
  /\ ArgTypeOK /\ SameTextSameAddress /\ FilterNumbersMatchAddresses
  /\ DisplayReadsBack /\ TypesAreTheGrammar
=============================================================================
