------------------------------ MODULE Signatures ------------------------------
(***************************************************************************)
(* wirefmt/typedescr.c and wirefmt/value-validate.c: the signatures of     *)
(* properties and operations, and whether a value fits one.                *)
(*                                                                         *)
(* A signature is the sequence of its characters.  A parser returns what   *)
(* is left of its input, or NoParse.                                       *)
(***************************************************************************)
EXTENDS Dtf

NoParse == <<-1>>

\* ']', ')', '}', the arrow and the space.
ARRAY_END == 93
TUPLE_END == 41
PAIR_END == 125
ARROW == <<45, 62>>
SPACE == 32

\* take_one, compared with the character that is expected.
close(input, char) == IF input = NoParse \/ input = <<>> \/ Head(input) /= char THEN NoParse
                      ELSE Tail(input)

RECURSIVE parse_type(_)

RECURSIVE parse_tuple(_)
parse_tuple(input) ==
    LET rest == parse_type(input)
    IN  IF rest = NoParse \/ rest = <<>> THEN NoParse
        ELSE IF Head(rest) = TUPLE_END THEN Tail(rest)
        ELSE parse_tuple(rest)

parse_array(input) == close(parse_type(input), ARRAY_END)

parse_pair(input) ==
    LET first == parse_type(input)
    IN  IF first = NoParse THEN NoParse ELSE close(parse_type(first), PAIR_END)

\* The end of the input is a type: "return cur" is never NULL.
parse_type(input) ==
    IF input = <<>> THEN <<>>
    ELSE CASE Head(input) = T.ARRAY -> parse_array(Tail(input))
           [] Head(input) = T.PAIR -> parse_pair(Tail(input))
           [] Head(input) = T.TUPLE -> parse_tuple(Tail(input))
           [] OTHER -> IF type_is_valid(Head(input)) \/ Head(input) = VARIANT THEN Tail(input)
                       ELSE NoParse

RECURSIVE skip_whitespace(_)
skip_whitespace(input) ==
    IF input /= <<>> /\ Head(input) = SPACE THEN skip_whitespace(Tail(input)) ELSE input

parse_arrow(input) ==
    LET at == skip_whitespace(input)
    IN  IF IsPrefix(ARROW, at) THEN skip_whitespace(Drop(at, 2)) ELSE NoParse

\* dicey_typedescr_parse: [kind, input, output].
typedescr_parse(sig) ==
    LET Bad == [kind |-> "INVALID", input |-> <<>>, output |-> <<>>]
        rest == parse_type(sig)
        out == parse_arrow(rest)
    IN  IF rest = NoParse THEN Bad
        ELSE IF rest = <<>> THEN [kind |-> "VALUE", input |-> sig, output |-> sig]
        ELSE IF out = NoParse \/ out = <<>> \/ parse_type(out) /= <<>> THEN Bad
        ELSE [kind |-> "FUNCTIONAL", input |-> SubSeq(sig, 1, Len(sig) - Len(rest)), output |-> out]

-----------------------------------------------------------------------------
\* What checksig finds, and what it has not read of the signature.
Verdict(fits, rest) == [fits |-> fits, rest |-> rest]
is_compatible(type, char) == char = VARIANT \/ type = char

\* An assertion compares the next character with the one that closes the list.
closing(v, char) ==
    IF v.fits /= "yes" THEN v
    ELSE IF v.rest /= <<>> /\ Head(v.rest) = char THEN Verdict("yes", Tail(v.rest))
    ELSE Verdict("abort", <<>>)

RECURSIVE checksig(_, _)

checksig_all(sig, values) ==
    FoldLeft(LAMBDA v, value : IF v.fits = "yes" THEN checksig(v.rest, value) ELSE v,
             Verdict("yes", sig), values)


checksig_array(sig, value) ==
    IF is_compatible(value.inner, Head(sig)) THEN closing(Verdict("yes", parse_type(sig)), ARRAY_END)
    ELSE Verdict("no", <<>>)

checksig(sig, value) ==
    LET rest == Tail(sig) IN
    IF sig = <<>> \/ ~is_compatible(value.type, Head(sig)) THEN Verdict("no", <<>>)
    ELSE CASE Head(sig) = T.ARRAY -> checksig_array(rest, value)
           [] Head(sig) = T.TUPLE -> closing(checksig_all(rest, elements(VARIANT, value.v).v), TUPLE_END)
           [] Head(sig) = T.PAIR -> closing(checksig_all(rest, value_get_pair(value).v), PAIR_END)
           [] OTHER -> Verdict("yes", rest)

\* dicey_value_is_compatible_with and dicey_value_can_be_returned_from.
value_is_compatible_with(value, sig) ==
    LET descr == typedescr_parse(sig)
    IN  IF descr.kind = "INVALID" THEN "no" ELSE checksig(descr.input, value).fits
value_can_be_returned_from(value, sig) ==
    LET descr == typedescr_parse(sig)
    IN  IF value.type = T.ERROR THEN "yes"
        ELSE IF descr.kind = "INVALID" THEN "no" ELSE checksig(descr.output, value).fits
==============================================================================
