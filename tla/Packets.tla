------------------------------- MODULE Packets -------------------------------
(***************************************************************************)
(* wirefmt/dtf/payload.c, wirefmt/packet.c and wirefmt/packet-args.c: the  *)
(* packets that carry values, how they are written, recognised in a        *)
(* buffer, checked and taken apart, and how a value that was read becomes  *)
(* an argument again.                                                      *)
(*                                                                         *)
(* A packet is its bytes.  What a program sees of it is a record           *)
(*   [kind, seq, path, selector, value]                                    *)
(* in which a HELLO has its version, and a BYE its reason, for a value.    *)
(***************************************************************************)
EXTENDS Dtf

\* enum dtf_payload_kind: those of enum dicey_packet_kind and enum dicey_op.
K == [HELLO |-> 1, BYE |-> 2, GET |-> 60, SET |-> 62, EXEC |-> 63, SIGNAL |-> 33, RESPONSE |-> 58]

is_message(kind) == kind \in {K.GET, K.SET, K.EXEC, K.SIGNAL, K.RESPONSE}
payload_kind_is_valid(kind) == is_message(kind) \/ kind \in {K.HELLO, K.BYE}
op_requires_payload(kind) == is_message(kind) /\ kind /= K.GET

\* sizeof(struct dtf_payload_head), and of the three fixed parts.
PAYLOAD_HEAD == 8
FIXED_SIZE == 12

\* dicey_bye_reason_is_valid: SHUTDOWN and ERROR.  KICKED is not one of them.
bye_reason_is_valid(reason) == reason \in {1, 2}

Head3(kind, seq, third) == Bytes(kind, 4) \o Bytes(seq, 4) \o Bytes(third, 4)

\* dicey_packet_hello, with version_to_dtf.
packet_hello(seq, version) == Head3(K.HELLO, seq, 65536 * version.major + version.revision)

\* dicey_packet_bye; its caller vouches for the reason, an assertion.
packet_bye(seq, reason) == Head3(K.BYE, seq, reason)

\* dtf_message_write_with_raw_value, the part it shares with dtf_message_write.
message_of(kind, seq, path, selector, raw) ==
    LET trailer == zstring(path) \o zstring(selector[1]) \o zstring(selector[2]) \o raw
    IN  Head3(kind, seq, Len(trailer)) \o trailer

\* dtf_message_write.
message_write(kind, seq, path, selector, value) ==
    IF op_requires_payload(kind) /= (value /= NoValue) THEN Fail("EBADMSG")
    ELSE IF kind = K.GET THEN Got(message_of(kind, seq, path, selector, <<>>), <<>>)
    ELSE Then(dtf_value_write(value), LAMBDA raw, r :
              Got(message_of(kind, seq, path, selector, raw), <<>>))

\* dtf_message_estimate_header_size.
header_size(path, selector) == FIXED_SIZE + Len(path) + Len(selector[1]) + Len(selector[2]) + 3

packet_get_kind(packet) == Number(SubSeq(packet, 1, 4))
packet_get_seq(packet) == Number(SubSeq(packet, 5, 8))
packet_set_seq(packet, seq) == SubSeq(packet, 1, 4) \o Bytes(seq, 4) \o Drop(packet, 8)

\* dicey_packet_as_hello, with version_from_dtf, and dicey_packet_as_bye.
packet_as_hello(packet) ==
    LET version == Number(SubSeq(packet, 9, 12))
    IN  [major |-> version \div 65536, revision |-> version % 65536]
packet_as_bye(packet) == Number(SubSeq(packet, 9, 12))

-----------------------------------------------------------------------------
\* dtf_payload_load: the bytes of the packet that src starts with.
payload_load(src) ==
    IF Len(src) < PAYLOAD_HEAD THEN Fail("EAGAIN")
    ELSE IF ~payload_kind_is_valid(packet_get_kind(src)) THEN Fail("EBADMSG")
    ELSE IF Len(src) < FIXED_SIZE THEN Fail("EAGAIN")
    ELSE view_take(src, FIXED_SIZE + IF is_message(packet_get_kind(src))
                                     THEN Number(SubSeq(src, 9, 12)) ELSE 0)

\* dicey_packet_as_message, with dtf_message_get_content.
packet_as_message(packet) ==
    LET kind == packet_get_kind(packet)
        Message(path, selector, value) ==
            Got([kind |-> kind, seq |-> packet_get_seq(packet), path |-> path,
                 selector |-> selector, value |-> value], <<>>)
    IN  IF ~is_message(kind) THEN Fail("EINVAL")
        ELSE IF Len(packet) <= FIXED_SIZE THEN Fail("EOVERFLOW")
        ELSE Then(view_as_zstring(Drop(packet, FIXED_SIZE)), LAMBDA path, r1 :
             Then(dtf_selector_from(r1), LAMBDA selector, r2 :
             IF r2 = <<>> THEN Message(path, selector.v, NoValue)
             ELSE IF kind = K.GET THEN Fail("EBADMSG")
             ELSE Then(dtf_value_probe(r2), LAMBDA value, rest :
                  IF rest = <<>> THEN Message(path, selector.v, value) ELSE Fail("EINVAL"))))

RECURSIVE validate_value(_)

validate_all(values) ==
    FoldLeft(LAMBDA done, value : Then(done, LAMBDA v, r : validate_value(value)), Got(<<>>, <<>>),
             values)

\* The data of bytes that were probed is never NULL: empty ones are refused.
validate_value(value) ==
    CASE ~type_is_valid(value.type) -> Fail("EINVAL")
      [] value.type = T.BYTES -> IF value.v = <<>> THEN Fail("EINVAL") ELSE Got(<<>>, <<>>)
      [] value.type \in {T.ARRAY, T.TUPLE} ->
           Then(elements(value.inner, value.v), LAMBDA values, r : validate_all(values))
      [] value.type = T.PAIR ->
           Then(value_get_pair(value), LAMBDA both, r : validate_all(both))
      [] OTHER -> Got(<<>>, <<>>)

\* validate_bye and validate_message.
validate(packet) ==
    LET kind == packet_get_kind(packet) IN
    CASE kind = K.HELLO -> Got(<<>>, <<>>)
      [] kind = K.BYE -> IF bye_reason_is_valid(packet_as_bye(packet)) THEN Got(<<>>, <<>>)
                         ELSE Fail("EINVAL")
      [] OTHER -> Then(packet_as_message(packet), LAMBDA msg, r :
                  IF kind = K.GET THEN Got(<<>>, <<>>) ELSE validate_value(msg.value))

\* dicey_packet_load.
packet_load(src) ==
    Then(payload_load(src), LAMBDA packet, rest :
    LET checked == validate(packet)
    IN  IF checked.err = "OK" THEN Got(packet, rest)
        ELSE Fail(IF checked.err = "EINVAL" THEN "EBADMSG" ELSE checked.err))

\* Mutant: the value is looked for after the new header, not after the old one.
raw_value_NewHeader(old, path, selector) == Drop(old, header_size(path, selector))

\* The bytes of the value of a message, found by the size of its header.
raw_value(old, path, selector) ==
    LET msg == packet_as_message(old).v IN Drop(old, header_size(msg.path, msg.selector))

\* dicey_packet_forward_message.
packet_forward_message(old, seq, op, path, selector) ==
    IF packet_as_message(old).err /= "OK" THEN Fail("EBADMSG")
    ELSE IF (packet_get_kind(old) = K.GET) /= (op = K.GET) THEN Fail("EINVAL")
    ELSE Got(message_of(op, seq, path, selector, raw_value(old, path, selector)), <<>>)

-----------------------------------------------------------------------------
RECURSIVE arg_from_borrowed_value(_)

\* value_list_to_arg goes on while dicey_iterator_next returns an error, and
\* DICEY_OK is none: the elements of a list are left out, and the list that has
\* none gives an argument with no type, which is refused.
value_list_to_arg(value) ==
    LET first == iterator_next(value.inner, value.v)
    IN  IF first.err = "OK" THEN Got(Value(value.type, IF value.type = T.ARRAY THEN value.inner
                                                       ELSE T.INVALID, <<>>), <<>>)
        ELSE arg_from_borrowed_value(NoValue)

arg_from_borrowed_value(value) ==
    CASE value.type = T.INVALID -> Fail("EINVAL")
      [] value.type \in {T.ARRAY, T.TUPLE} -> value_list_to_arg(value)
      [] value.type = T.PAIR ->
           Then(value_get_pair(value), LAMBDA both, r :
           Then(arg_from_borrowed_value(both[1]), LAMBDA first, r1 :
           Then(arg_from_borrowed_value(both[2]), LAMBDA second, r2 :
           Got(Value(T.PAIR, T.INVALID, <<first, second>>), <<>>))))
      [] OTHER -> Got(value, <<>>)
==============================================================================
