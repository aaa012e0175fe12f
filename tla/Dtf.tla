--------------------------------- MODULE Dtf ---------------------------------
(***************************************************************************)
(* wirefmt/: how values and packets become bytes and bytes become values.  *)
(*                                                                         *)
(* A buffer is a sequence of bytes.  A value of a fixed size is the bytes  *)
(* it has in memory, which are copied as they are; a string is the         *)
(* sequence of its characters.  An argument (struct dicey_arg, what is     *)
(* written) and a value (struct dicey_value, what is read) are records     *)
(*   [type, inner, v]                                                      *)
(* where inner is the type of the elements of an array, and v depends on   *)
(* the type: the elements of an argument that is a list, the bytes not     *)
(* looked at yet of a value that is one, <<trait, element>> for a selector *)
(* and <<code, message>> for an error.                                     *)
(***************************************************************************)
EXTENDS Integers, Sequences, SequencesExt

\* enum dicey_type, and DICEY_VARIANT_ID.
T == [INVALID |-> 0, UNIT |-> 36, BOOL |-> 98, BYTE |-> 99, FLOAT |-> 102, INT16 |-> 110,
      INT32 |-> 105, INT64 |-> 120, UINT16 |-> 113, UINT32 |-> 117, UINT64 |-> 116,
      ARRAY |-> 91, TUPLE |-> 40, PAIR |-> 123, BYTES |-> 121, STR |-> 115, UUID |-> 35,
      PATH |-> 64, SELECTOR |-> 37, ERROR |-> 101]
VARIANT == 118

TYPES == {T[name] : name \in DOMAIN T \ {"INVALID"}}
type_is_valid(t) == t \in TYPES

Value(type, inner, v) == [type |-> type, inner |-> inner, v |-> v]
NoValue == Value(T.INVALID, T.INVALID, <<>>)

-----------------------------------------------------------------------------
\* sup/view-ops.c: what a read returns, and the part of the view that is left.
Got(v, rest) == [err |-> "OK", v |-> v, rest |-> rest]
Fail(e) == [err |-> e, v |-> <<>>, rest |-> <<>>]
Then(r, F(_, _)) == IF r.err = "OK" THEN F(r.v, r.rest) ELSE r

Drop(src, n) == SubSeq(src, n + 1, Len(src))

\* dicey_view_take and dicey_view_read.
view_take(src, n) == IF n > Len(src) THEN Fail("EAGAIN") ELSE Got(SubSeq(src, 1, n), Drop(src, n))

view_as_zstring(src) ==
    IF \A i \in DOMAIN src : src[i] /= 0 THEN Fail("EINVAL")
    ELSE LET n == CHOOSE i \in DOMAIN src : src[i] = 0 /\ \A j \in 1 .. i - 1 : src[j] /= 0
         IN  Got(SubSeq(src, 1, n - 1), Drop(src, n))

\* Unsigned integers, least significant byte first.
Bytes(n, width) == [i \in 1 .. width |-> (n \div 256 ^ (i - 1)) % 256]
RECURSIVE Number(_)
Number(bytes) == IF bytes = <<>> THEN 0 ELSE Head(bytes) + 256 * Number(Tail(bytes))
read_number(src, width) == Then(view_take(src, width), LAMBDA b, rest : Got(Number(b), rest))

zstring(s) == Append(s, 0)

-----------------------------------------------------------------------------
\* type_size: -1 is DTF_SIZE_DYNAMIC.
type_size(t) ==
    CASE t = T.UNIT -> 0
      [] t \in {T.BOOL, T.BYTE} -> 1
      [] t \in {T.INT16, T.UINT16} -> 2
      [] t \in {T.INT32, T.UINT32} -> 4
      [] t \in {T.FLOAT, T.INT64, T.UINT64} -> 8
      [] t = T.UUID -> 16
      [] OTHER -> -1

\* dtf/value-write.c.  Two writes, one after the other.
Both(a, b) == Then(a, LAMBDA x, r : Then(b, LAMBDA y, s : Got(x \o y, <<>>)))

RECURSIVE item_write(_, _)

items_write(items, policy) ==
    FoldLeft(LAMBDA done, item : Both(done, item_write(item, policy)), Got(<<>>, <<>>), items)

\* The size of the elements comes first, then the rest of the header.
list_write(head, items, policy) ==
    Then(items_write(items, policy),
         LAMBDA content, r : Got(Bytes(Len(content), 4) \o head \o content, <<>>))

array_write(item) ==
    IF type_is_valid(item.inner)
    THEN list_write(Append(Bytes(Len(item.v), 2), item.inner), item.v, "EXACT")
    ELSE Fail("EINVAL")
tuple_write(item) == list_write(Bytes(Len(item.v), 2), item.v, "VARIANT")
pair_write(item) == list_write(<<>>, item.v, "VARIANT")
bytes_write(item) == Got(Bytes(Len(item.v), 4) \o item.v, <<>>)
error_write(item) == Got(item.v[1] \o zstring(item.v[2]), <<>>)
dtf_selector_write(item) == Got(zstring(item.v[1]) \o zstring(item.v[2]), <<>>)

content_write(item) ==
    LET t == item.type IN
    CASE type_size(t) >= 0 -> Got(item.v, <<>>)
      [] t = T.ARRAY -> array_write(item)
      [] t = T.TUPLE -> tuple_write(item)
      [] t = T.PAIR -> pair_write(item)
      [] t = T.BYTES -> bytes_write(item)
      [] t \in {T.STR, T.PATH} -> Got(zstring(item.v), <<>>)
      [] t = T.SELECTOR -> dtf_selector_write(item)
      [] t = T.ERROR -> error_write(item)

item_write(item, policy) ==
    IF ~type_is_valid(item.type) THEN Fail("EINVAL")
    ELSE Both(Got(IF policy = "VARIANT" THEN <<item.type>> ELSE <<>>, <<>>), content_write(item))

dtf_value_write(item) == item_write(item, "VARIANT")

-----------------------------------------------------------------------------
\* dtf/value-probe.c.  A list is not looked into: its bytes are set aside.
list_probe(type, inner, nbytes, src) ==
    Then(view_take(src, nbytes), LAMBDA elems, rest : Got(Value(type, inner, elems), rest))

\* Mutant: the elements of an array are taken to carry their type.
array_probe_Variant(src) ==
    Then(read_number(src, 4), LAMBDA nbytes, r1 :
    Then(view_take(r1, 3), LAMBDA head, r2 :
    IF type_is_valid(head[3]) THEN list_probe(T.ARRAY, VARIANT, nbytes, r2) ELSE Fail("EBADMSG")))

array_probe(src) ==
    Then(read_number(src, 4), LAMBDA nbytes, r1 :
    Then(view_take(r1, 3), LAMBDA head, r2 :
    IF type_is_valid(head[3]) THEN list_probe(T.ARRAY, head[3], nbytes, r2) ELSE Fail("EBADMSG")))

tuple_probe(src) ==
    Then(read_number(src, 4), LAMBDA nbytes, r1 :
    Then(view_take(r1, 2), LAMBDA nitems, r2 : list_probe(T.TUPLE, VARIANT, nbytes, r2)))

pair_probe(src) ==
    Then(read_number(src, 4), LAMBDA nbytes, rest : list_probe(T.PAIR, VARIANT, nbytes, rest))

bytes_probe(src) ==
    Then(read_number(src, 4), LAMBDA len, rest :
    IF len > Len(rest) THEN Fail("EBADMSG")
    ELSE Got(Value(T.BYTES, T.INVALID, SubSeq(rest, 1, len)), Drop(rest, len)))

error_probe(src) ==
    Then(view_take(src, 2), LAMBDA code, r1 :
    Then(view_as_zstring(r1), LAMBDA msg, r2 :
    Got(Value(T.ERROR, T.INVALID, <<code, msg>>), r2)))

dtf_selector_from(src) ==
    Then(view_as_zstring(src), LAMBDA trait, r1 :
    Then(view_as_zstring(r1), LAMBDA elem, r2 :
    Got(Value(T.SELECTOR, T.INVALID, <<trait, elem>>), r2)))

dtf_value_probe_as(t, src) ==
    CASE ~type_is_valid(t) -> Fail("EINVAL")
      [] t = T.ARRAY -> array_probe(src)
      [] t = T.TUPLE -> tuple_probe(src)
      [] t = T.PAIR -> pair_probe(src)
      [] t = T.BYTES -> bytes_probe(src)
      [] t \in {T.STR, T.PATH} ->
           Then(view_as_zstring(src), LAMBDA s, rest : Got(Value(t, T.INVALID, s), rest))
      [] t = T.SELECTOR -> dtf_selector_from(src)
      [] t = T.ERROR -> error_probe(src)
      [] OTHER ->
           Then(view_take(src, type_size(t)), LAMBDA v, rest : Got(Value(t, T.INVALID, v), rest))

dtf_value_probe(src) ==
    Then(view_take(src, 1), LAMBDA head, rest :
    IF type_is_valid(head[1]) THEN dtf_value_probe_as(head[1], rest) ELSE Fail("EBADMSG"))

-----------------------------------------------------------------------------
\* value.c.  dicey_iterator_next on the elements that are left of a list.
iterator_next(inner, data) ==
    IF data = <<>> THEN Fail("ENODATA")
    ELSE IF inner = VARIANT THEN dtf_value_probe(data) ELSE dtf_value_probe_as(inner, data)

\* A list walked with dicey_iterator_has_next: its elements.
RECURSIVE elements(_, _)
elements(inner, data) ==
    IF data = <<>> THEN Got(<<>>, <<>>)
    ELSE Then(iterator_next(inner, data), LAMBDA first, rest :
         Then(elements(inner, rest), LAMBDA others, r : Got(<<first>> \o others, <<>>)))

\* dicey_value_get_pair: the first two elements.
value_get_pair(value) ==
    LET first == iterator_next(VARIANT, value.v)
        second == iterator_next(VARIANT, first.rest)
    IN  IF first.err /= "OK" \/ second.err /= "OK" THEN Fail("EBADMSG")
        ELSE Got(<<first.v, second.v>>, <<>>)

\* What a program sees of a value, looking into the lists: an argument.
RECURSIVE Seen(_)
Seen(value) ==
    LET inside == IF value.type = T.PAIR THEN value_get_pair(value).v
                  ELSE elements(value.inner, value.v).v
    IN  IF value.type \in {T.ARRAY, T.TUPLE, T.PAIR}
        THEN Value(value.type, IF value.type = T.ARRAY THEN value.inner ELSE T.INVALID,
                   [i \in DOMAIN inside |-> Seen(inside[i])])
        ELSE value
==============================================================================
