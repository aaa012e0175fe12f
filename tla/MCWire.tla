-------------------------------- MODULE MCWire --------------------------------
(* Wire, with an argument of every type, and every short string for the      *)
(* parser of signatures.                                                     *)
EXTENDS Wire

MCPath == <<47, 112>>
MCSelector == <<<<116>>, <<101>>>>
MCOps == {K.GET, K.EXEC}

Leaf(type, v) == Value(type, T.INVALID, v)
MCLeaves == {Leaf(T.INT16, <<44, 1>>), Leaf(T.STR, <<97>>)}

Zeros(n) == [i \in 1 .. n |-> 0]
MCArgs ==
    {Leaf(t, Zeros(type_size(t))) : t \in {T[name] : name \in {"UNIT", "BOOL", "BYTE", "FLOAT", "INT16",
        "INT32", "INT64", "UINT16", "UINT32", "UINT64", "UUID"}}}
    \cup {Leaf(T.BYTES, <<>>), Leaf(T.BYTES, <<0, 7>>), Leaf(T.STR, <<>>), Leaf(T.PATH, MCPath),
          Leaf(T.SELECTOR, MCSelector), Leaf(T.ERROR, <<<<5, 1>>, <<>>>>),
          Value(T.ARRAY, T.UNIT, <<Leaf(T.UNIT, <<>>)>>),
          Value(T.TUPLE, 0, <<Leaf(T.BYTES, <<>>), Leaf(T.BOOL, <<1>>)>>)}

\* v, n, (ns), {sv}, [n], [(ns)], ([n]{sn}), ({ns}v), [s] -> n
MCSigs == {<<118>>, <<110>>, <<40, 110, 115, 41>>, <<123, 115, 118, 125>>, <<91, 110, 93>>,
           <<91, 40, 110, 115, 41, 93>>,
           <<40, 91, 110, 93, 123, 115, 110, 125, 41>>, <<40, 123, 110, 115, 125, 118, 41>>,
           <<91, 115, 93, 32, 45, 62, 32, 110>>}

\* Strings of n, [, ], (, ), {, }, and of n, the space and the arrow.
MCDescrs == SeqOf({110, 91, 93, 40, 41, 123, 125}, 4) \cup SeqOf({110, 32, 45, 62}, 5)

\* Nothing follows a verdict.  A second packet is sent when the first was handed
\* out, and looked at: of that the chunk is left.  A GET that was given a value is
\* never built, whatever the value is.  While a value is built nothing tells
\* whether the path and the selector are set, as they can be set later.
MCView ==
    CASE verdict /= NoVerdict -> <<sent = <<>>, verdict>>
      [] Len(sent) = 2 -> <<sent[2], pipe, chunk, Len(got), failed>>
      [] sent = <<>> /\ mb.op = K.GET -> <<mb.state, mb.path, mb.selector, mb.seq, mb.root = NoValue, stack = <<>>>>
      [] OTHER -> <<IF mb.state = "VALUE" THEN [mb EXCEPT !.path = <<>>, !.selector = <<>>] ELSE mb,
                    stack, stream>>

\* A string is a pair of types with an arrow between them, and spaces around it.
Spaces(s) == ToSet(s) \subseteq {SPACE}
IsOperation(s) ==
    \E j \in 1 .. Len(s) - 1 : SubSeq(s, j, j + 1) = ARROW /\ \E i \in 1 .. j, k \in j + 2 .. Len(s) :
        /\ Spaces(SubSeq(s, i, j - 1)) /\ Spaces(SubSeq(s, j + 2, k - 1))
        /\ IsType(SubSeq(s, 1, i - 1)) /\ IsType(SubSeq(s, k, Len(s)))

\* dicey_typedescr_parse takes the strings of the grammar of typedescr.h:73 for
\* what they are there, types or operations, and refuses the others but for one:
\* the empty string, which is no type, is taken for one.
DescrsParsed ==
    verdict.call = "parse" =>
        verdict.fits = CASE IsType(verdict.sig) -> "VALUE"
                         [] IsOperation(verdict.sig) -> "FUNCTIONAL"
                         [] verdict.sig = <<>> -> "VALUE"
                         [] OTHER -> "INVALID"

==============================================================================
