--------------------------------- MODULE Wire ---------------------------------
(***************************************************************************)
(* wirefmt/builders.c at one end of a stream, and ipc/chunk.c with the     *)
(* on_read callbacks of server.c and client.c at the other: a program puts *)
(* a message together call by call, its bytes cross the stream in pieces,  *)
(* and the reader recognises the packets and hands them out.               *)
(*                                                                         *)
(* The two ends share nothing but the bytes, so that reading only starts   *)
(* when the builder is idle.  Memory does not run out, and a program sets  *)
(* an element of a list before it asks for the next one or ends the list:  *)
(* what the builder does otherwise is undefined ("may lead to invalid      *)
(* values", builders.h).                                                   *)
(***************************************************************************)
EXTENDS Packets, Signatures, FiniteSets

CONSTANTS
    Leaves,         \* arguments that are no lists, given to the builders
    Args,           \* arguments of any type, given to dicey_packet_message
    Path, Selector, \* of the message
    Ops,            \* kinds of messages that are built call by call
    Sigs,           \* signatures that the receiver knows of
    Descrs,         \* strings given to the parser of signatures
    Habits,         \* what reads and programs do, see below
    MaxDepth,       \* bound: lists inside one another
    MaxItems,       \* bound: elements of a list, one less for every list it is in
    MaxSent,        \* bound: packets on the stream, the first of them a message
    BUFFER_MINCAP, CHUNK_HEAD, READ_MINBUF

\* "coalesced reads": a read returns the end of a packet and what follows it;
\* "other list":      a list is started in an element of an array of another type.
ASSUME HabitsAssumption == Habits \subseteq {"coalesced reads", "other list"}

ASSUME BoundsAssumption ==
    /\ MaxDepth \in Nat /\ MaxItems \in Nat \ {0, 1} /\ MaxSent \in Nat \ {0}
    /\ BUFFER_MINCAP \in Nat \ {0, 1} /\ CHUNK_HEAD \in Nat /\ READ_MINBUF \in Nat \ {0}

VARIABLES
    mb,         \* the message builder
    stack,      \* the value builders in use, that of the message first
    sent,       \* what was sent: the packets, and what a program means by them
    pipe,       \* bytes not read yet
    chunk,      \* client->chunk
    got,        \* the packets handed out
    failed,     \* the error that ended the connection, or "OK"
    verdict     \* what the last signature looked at gave

vars == <<mb, stack, sent, pipe, chunk, got, failed, verdict>>
builders == <<mb, stack>>
stream == <<sent, pipe, chunk, got, failed>>

IdleBuilder == [state |-> "IDLE", op |-> 0, seq |-> 0, path |-> <<>>, selector |-> <<>>,
                root |-> NoValue]

\* A value builder: its state, the type its value must have (INVALID when it
\* is free), and the list it is building.
Builder(want) == [state |-> "PENDING", want |-> want, type |-> T.INVALID, items |-> <<>>]

NoChunk == [bytes |-> <<>>, cap |-> 0]
NoVerdict == [sig |-> <<>>, value |-> NoValue, call |-> "none", fits |-> "none"]

Init ==
    /\ mb = IdleBuilder
    /\ stack = <<>>
    /\ sent = <<>>
    /\ pipe = <<>>
    /\ chunk = NoChunk
    /\ got = <<>>
    /\ failed = "OK"
    /\ verdict = NoVerdict

-----------------------------------------------------------------------------
Building == UNCHANGED <<stream, verdict>>

message_builder_begin(op) ==
    /\ mb.state = "IDLE" /\ sent = <<>> /\ verdict = NoVerdict
    /\ mb' = [IdleBuilder EXCEPT !.state = "PENDING", !.op = op]
    /\ UNCHANGED stack /\ Building

message_builder_set_path ==
    /\ mb.state = "PENDING"
    /\ mb' = [mb EXCEPT !.path = Path]
    /\ UNCHANGED stack /\ Building

message_builder_set_selector ==
    /\ mb.state = "PENDING"
    /\ mb' = [mb EXCEPT !.selector = Selector]
    /\ UNCHANGED stack /\ Building

message_builder_set_seq(seq) ==
    /\ mb.state = "PENDING"
    /\ mb' = [mb EXCEPT !.seq = seq]
    /\ UNCHANGED stack /\ Building

message_builder_set_value(arg) ==
    /\ mb.state = "PENDING"
    /\ mb' = [mb EXCEPT !.root = arg]
    /\ UNCHANGED stack /\ Building

message_builder_value_start ==
    /\ mb.state = "PENDING"
    /\ mb' = [mb EXCEPT !.state = "VALUE", !.root = NoValue]
    /\ stack' = <<Builder(T.INVALID)>>
    /\ Building

message_builder_value_end ==
    /\ mb.state = "VALUE" /\ stack = <<>>
    /\ mb' = [mb EXCEPT !.state = "PENDING"]
    /\ UNCHANGED stack /\ Building

message_builder_discard ==
    /\ mb.state /= "IDLE"
    /\ mb' = IdleBuilder
    /\ stack' = <<>>
    /\ Building

-----------------------------------------------------------------------------
Top == Last(stack)
Depth == Len(stack)

\* The builder on top is done: its value is in the list it is an element of,
\* or at the root of the message.
Finish(value) ==
    /\ IF Depth = 1 THEN mb' = [mb EXCEPT !.root = value] /\ stack' = <<>>
       ELSE /\ stack' = [Front(stack) EXCEPT ![Depth - 1].items = Append(@, value)]
            /\ UNCHANGED mb
    /\ Building

value_builder_set(arg) ==
    /\ stack /= <<>>
    /\ Top.state = "PENDING"
    /\ Top.want \in {T.INVALID, arg.type}
    /\ Finish(arg)

\* valbuilder_list_start: the type that an array asks for is not looked at.
list_start(kind, want, type) ==
    /\ stack /= <<>>
    /\ Top.state = "PENDING"
    /\ Depth <= MaxDepth
    /\ Top.want \in {T.INVALID, want} \/ "other list" \in Habits
    /\ stack' = [stack EXCEPT ![Depth] = [@ EXCEPT !.state = kind, !.type = type, !.items = <<>>]]
    /\ UNCHANGED mb /\ Building

value_builder_array_start(type) == list_start("ARRAY", T.ARRAY, type)
value_builder_tuple_start == list_start("TUPLE", T.TUPLE, T.INVALID)
value_builder_pair_start == list_start("PAIR", T.PAIR, T.INVALID)

value_builder_next ==
    /\ stack /= <<>>
    /\ Top.state \in {"ARRAY", "TUPLE", "PAIR"}
    /\ Len(Top.items) < IF Top.state = "PAIR" THEN 2 ELSE MaxItems + 1 - Depth
    /\ stack' = Append(stack, Builder(Top.type))
    /\ UNCHANGED mb /\ Building

value_builder_array_end ==
    /\ stack /= <<>>
    /\ Top.state = "ARRAY"
    /\ Finish(Value(T.ARRAY, Top.type, Top.items))

value_builder_tuple_end ==
    /\ stack /= <<>>
    /\ Top.state = "TUPLE"
    /\ Finish(Value(T.TUPLE, T.INVALID, Top.items))

value_builder_pair_end ==
    /\ stack /= <<>>
    /\ Top.state = "PAIR" /\ Len(Top.items) = 2
    /\ Finish(Value(T.PAIR, T.INVALID, Top.items))

-----------------------------------------------------------------------------
\* A packet is written to the stream.
Send(packet, record) ==
    /\ sent' = Append(sent, [packet |-> packet, means |-> record])
    /\ verdict = NoVerdict
    /\ pipe' = pipe \o packet
    /\ UNCHANGED <<chunk, got, failed, verdict>>

Message(kind, seq, value) ==
    [kind |-> kind, seq |-> seq, path |-> Path, selector |-> Selector, value |-> value]

\* msgbuilder_is_complete.
msgbuilder_is_complete ==
    /\ mb.state = "PENDING" /\ mb.path /= <<>> /\ mb.selector /= <<>>
    /\ (mb.op = K.GET) /= (mb.root /= NoValue)

message_builder_build ==
    /\ msgbuilder_is_complete
    /\ LET packet == message_write(mb.op, mb.seq, mb.path, mb.selector, mb.root)
       IN  /\ packet.err = "OK"
           /\ Send(packet.v, Message(mb.op, mb.seq, mb.root))
    /\ mb' = IdleBuilder
    /\ UNCHANGED stack

\* dicey_packet_message, all the calls at once.  Its number is given to it when
\* it is sent, as the client does.
packet_message(op, seq, arg) ==
    /\ mb.state = "IDLE" /\ sent = <<>>
    /\ (op = K.GET) = (arg = NoValue)
    /\ LET packet == message_write(op, 0, Path, Selector, arg)
       IN  packet.err = "OK" /\ Send(packet_set_seq(packet.v, seq), Message(op, seq, arg))
    /\ UNCHANGED builders

\* The next packet follows when the last one was read, or at once.
Quiet == IF "coalesced reads" \in Habits THEN chunk.bytes = <<>> ELSE pipe = <<>> /\ failed = "OK"

\* A HELLO or a BYE, which have their version or their reason for a value.
Plain(kind, seq, value) == [kind |-> kind, seq |-> seq, path |-> <<>>, selector |-> <<>>, value |-> value]

send_hello(seq, version) ==
    /\ mb.state = "IDLE" /\ Quiet /\ Len(sent) < MaxSent
    /\ Send(packet_hello(seq, version), Plain(K.HELLO, seq, version))
    /\ UNCHANGED builders

send_bye(seq, reason) ==
    /\ mb.state = "IDLE" /\ Quiet /\ Len(sent) < MaxSent
    /\ bye_reason_is_valid(reason)
    /\ Send(packet_bye(seq, reason), Plain(K.BYE, seq, reason))
    /\ UNCHANGED builders

-----------------------------------------------------------------------------
\* dicey_chunk_avail and dicey_chunk_get_buf, which grows the chunk.
chunk_avail(c) == IF c.cap = 0 THEN 0 ELSE c.cap - Len(c.bytes) - CHUNK_HEAD

RECURSIVE chunk_get_buf(_)
chunk_get_buf(c) ==
    IF chunk_avail(c) >= READ_MINBUF THEN c
    ELSE chunk_get_buf([c EXCEPT !.cap = IF c.cap = 0 THEN BUFFER_MINCAP ELSE (c.cap * 3) \div 2])

\* The packet on its way, when reads do not go past the end of one.
Current == IF Len(got) = Len(sent) THEN <<>> ELSE sent[Len(got) + 1].packet

\* What follows a read depends on the bytes of the chunk only, so that reads of
\* one byte and of as many as there are lead to every state.
Readable(buf) ==
    LET most == IF "coalesced reads" \in Habits THEN Len(pipe) ELSE Len(Current) - Len(buf.bytes)
    IN  {1, Min({most, chunk_avail(buf)})}

\* Mutant: the chunk is not cleared once its packet is handed out.
Left_Keeps(bytes, rest) == bytes

\* dicey_chunk_clear: whatever is in the chunk, what comes after the packet too.
Left(bytes, rest) == <<>>

\* alloc_buffer and on_read, for n bytes: one packet is looked for, and an
\* error kicks the client.
on_read(n) ==
    LET buf == chunk_get_buf(chunk)
        bytes == buf.bytes \o SubSeq(pipe, 1, n)
        loaded == packet_load(bytes)
    IN  /\ pipe' = Drop(pipe, n)
        /\ chunk' = [buf EXCEPT !.bytes = IF loaded.err = "OK" THEN Left(bytes, loaded.rest) ELSE bytes]
        /\ got' = IF loaded.err = "OK" THEN Append(got, loaded.v) ELSE got
        /\ failed' = IF loaded.err \in {"OK", "EAGAIN"} THEN "OK" ELSE loaded.err
        /\ UNCHANGED <<builders, sent, verdict>>

read ==
    /\ mb.state = "IDLE" /\ failed = "OK" /\ pipe /= <<>> /\ verdict = NoVerdict
    /\ \E n \in Readable(chunk_get_buf(chunk)) : on_read(n)

\* The receiver compares the value it was given with a signature: the argument
\* of a call with what goes in, the answer with what comes out.
check_value(call, sig) ==
    /\ Len(got) = 1 /\ Len(sent) = 1 /\ verdict = NoVerdict /\ mb.state = "IDLE"
    /\ op_requires_payload(packet_get_kind(Last(got)))
    /\ LET value == packet_as_message(Last(got)).v.value
       IN  verdict' = [sig |-> sig, value |-> Seen(value), call |-> call,
                       fits |-> IF call = "in" THEN value_is_compatible_with(value, sig)
                                ELSE value_can_be_returned_from(value, sig)]
    /\ UNCHANGED <<builders, stream>>

\* dicey_typedescr_parse, as traits are given their elements.
check_descr(descr) ==
    /\ sent = <<>> /\ mb.state = "IDLE" /\ verdict = NoVerdict
    /\ verdict' = [sig |-> descr, value |-> NoValue, call |-> "parse", fits |-> typedescr_parse(descr).kind]
    /\ UNCHANGED <<builders, stream>>

Version == [major |-> 1, revision |-> 3]

Next ==
    \/ \E op \in Ops : message_builder_begin(op)
    \/ message_builder_set_path \/ message_builder_set_selector
    \/ message_builder_set_seq(3)
    \/ \E arg \in Leaves : message_builder_set_value(arg)
    \/ \E arg \in Leaves : value_builder_set(arg)
    \/ message_builder_value_start \/ message_builder_value_end
    \/ message_builder_discard \/ message_builder_build
    \/ \E arg \in Leaves : value_builder_array_start(arg.type)
    \/ \E type \in {T.ARRAY, T.TUPLE, T.PAIR} : value_builder_array_start(type)
    \/ value_builder_tuple_start \/ value_builder_pair_start \/ value_builder_next
    \/ value_builder_array_end \/ value_builder_tuple_end \/ value_builder_pair_end
    \/ \E op \in {K.GET, K.SET, K.EXEC, K.SIGNAL, K.RESPONSE}, arg \in Args \cup {NoValue} :
          packet_message(op, 5, arg)
    \/ send_hello(0, Version)
    \/ \E reason \in 1 .. 3 : send_bye(7, reason)
    \/ read
    \/ \E sig \in Sigs, call \in {"in", "out"} : check_value(call, sig)
    \/ \E descr \in Descrs : check_descr(descr)

Spec == Init /\ [][Next]_vars

-----------------------------------------------------------------------------
\* The packets handed out; once a signature was looked at, nothing is sent.
Given == IF verdict = NoVerdict THEN DOMAIN got ELSE {}

\* What a program sees of a packet that was handed out.
Meaning(packet) ==
    LET kind == packet_get_kind(packet)
        msg == packet_as_message(packet).v
    IN  CASE kind = K.HELLO -> Plain(kind, packet_get_seq(packet), packet_as_hello(packet))
          [] kind = K.BYE -> Plain(kind, packet_get_seq(packet), packet_as_bye(packet))
          [] OTHER -> [msg EXCEPT !.value = IF kind = K.GET THEN NoValue ELSE Seen(@)]

\* The arguments inside an argument, itself included.
RECURSIVE Inside(_)
Inside(arg) ==
    {arg} \cup IF arg.type \in {T.ARRAY, T.TUPLE, T.PAIR}
               THEN UNION {Inside(arg.v[i]) : i \in DOMAIN arg.v} ELSE {}

\* What the format cannot carry: the elements of an array of units take no
\* space, and the loader refuses bytes that are empty.
UnitArray(arg) == arg.type = T.ARRAY /\ arg.inner = T.UNIT /\ arg.v /= <<>>
EmptyBytes(arg) == arg.type = T.BYTES /\ arg.v = <<>>
Carries(record, Bad(_)) == is_message(record.kind) /\ \E arg \in Inside(record.value) : Bad(arg)

\* Packets are handed out in the order they were sent and mean what was meant,
\* however the reads cut them: list_write, array_probe, packet_load and on_read
\* agree on where everything starts and ends.
SeenAsSent ==
    \A k \in Given :
        ~Carries(sent[k].means, UnitArray) => Meaning(got[k]) = sent[k].means

\* A packet is handed out with its last byte and not before: dicey_packet_load
\* returns EAGAIN as long as bytes are missing, and no longer.  Of the packets
\* that the builders made, those with an empty byte string and no others are
\* refused (packet.c:146).
PacketsLeaveChunk ==
    IF failed = "OK" THEN chunk.bytes /= <<>> => Len(chunk.bytes) < Len(Current)
    ELSE Carries(sent[Len(got) + 1].means, EmptyBytes)

\* A message that is forwarded under another path, selector and number has the
\* value it had: dicey_packet_forward_message copies it without looking inside.
ForwardKeepsValue ==
    \A k \in Given :
        is_message(packet_get_kind(got[k])) =>
            LET old == packet_as_message(got[k]).v
                op == IF old.kind = K.GET THEN K.GET ELSE K.SIGNAL
                new == packet_forward_message(got[k], 9, op, Append(Path, 120), <<<<121>>, <<122>>>>)
            IN  packet_load(new.v) = Got(new.v, <<>>) /\
                packet_as_message(new.v).v = [old EXCEPT !.kind = op, !.seq = 9, !.path = Append(Path, 120),
                                                         !.selector = <<<<121>>, <<122>>>>]

\* The grammar of typedescr.h: the numbers of types that a string is made of
\* (one at most), and the strings that are one type.
RECURSIVE TypeCounts(_)
Inner(s) == SubSeq(s, 2, Len(s) - 1)
IsType(s) ==
    \/ Len(s) = 1 /\ (type_is_valid(s[1]) \/ s[1] = VARIANT) /\ s[1] \notin {T.ARRAY, T.TUPLE, T.PAIR}
    \/ Len(s) > 2 /\ \E k \in TypeCounts(Inner(s)) :
        \/ s[1] = T.ARRAY /\ Last(s) = ARRAY_END /\ k = 1
        \/ s[1] = T.PAIR /\ Last(s) = PAIR_END /\ k = 2
        \/ s[1] = T.TUPLE /\ Last(s) = TUPLE_END /\ k >= 1
TypeCounts(s) ==
    IF s = <<>> THEN {0}
    ELSE IF IsType(s) THEN {1}
    ELSE UNION {{k + 1 : k \in TypeCounts(Drop(s, n))} : n \in {n \in 1 .. Len(s) - 1 : IsType(SubSeq(s, 1, n))}}

\* Where the first of several types ends: all brackets are closed there.
At(s, chars, n) == Cardinality({i \in 1 .. n : s[i] \in chars})
TypeEnd(s) ==
    Min({n \in 1 .. Len(s) :
            At(s, {T.ARRAY, T.TUPLE, T.PAIR}, n) = At(s, {ARRAY_END, TUPLE_END, PAIR_END}, n)})

\* What a signature says of an argument, read from the left: it describes it;
\* the two agree until the elements of a tuple run out before its signature; or
\* they differ.  The signature of an array describes the type of the elements,
\* and not what is inside them.
RECURSIVE Says(_, _)
RECURSIVE SaysAll(_, _)
Says(sig, arg) ==
    IF Len(sig) = 1 THEN IF sig[1] \in {VARIANT, arg.type} THEN "describes" ELSE "differs"
    ELSE IF sig[1] /= arg.type THEN "differs"
    ELSE IF arg.type = T.ARRAY THEN IF sig[2] \in {VARIANT, arg.inner} THEN "describes" ELSE "differs"
    ELSE SaysAll(Inner(sig), arg.v)
SaysAll(sig, args) ==
    IF args = <<>> THEN IF sig = <<>> THEN "describes" ELSE "runs out"
    ELSE IF sig = <<>> THEN "differs"
    ELSE LET first == Says(SubSeq(sig, 1, TypeEnd(sig)), Head(args))
         IN  IF first = "describes" THEN SaysAll(Drop(sig, TypeEnd(sig)), Tail(args)) ELSE first

Answer == [describes |-> "yes", differs |-> "no"] @@ ("runs out" :> "abort")

\* dicey_value_is_compatible_with and _can_be_returned_from say of a value what
\* its side of the signature says, and yes of an error that is returned.  Where
\* a tuple runs out, an assertion of checksig fails (value-validate.c:116) in
\* place of the "false otherwise" of value.h:400, and nowhere else.
SidesDecide ==
    verdict.call \in {"in", "out"} =>
        LET descr == typedescr_parse(verdict.sig)
            side == IF verdict.call = "in" THEN descr.input ELSE descr.output
        IN  verdict.fits = IF verdict.call = "out" /\ verdict.value.type = T.ERROR THEN "yes"
                           ELSE Answer[Says(side, verdict.value)]

\* The comment of checksig, "the signature is assumed valid": with one that is,
\* its assertions hold for every value.
SignaturesNeverAbort == verdict.fits /= "abort"

\* dicey_request_reply_with_existing "Replies to a request with a [value] coming
\* from another request": the argument made of a value has what the value has.
CopiesKeepValue ==
    \A k \in Given :
        op_requires_payload(packet_get_kind(got[k])) =>
            LET value == packet_as_message(got[k]).v.value
            IN  arg_from_borrowed_value(value) = Got(Seen(value), <<>>)
==============================================================================
