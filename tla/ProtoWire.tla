------------------------------ MODULE ProtoWire ------------------------------
(***************************************************************************)
(* The protobuf wire format as the two codecs of chronik use it: the code *)
(* generated into src/ts/chronik-client/chronik.ts, which runs on the      *)
(* protobufjs Reader and Writer, and the server's prost encoding of        *)
(* src/chronik-http/proto/chronik.proto.                                   *)
(*                                                                         *)
(* A schema maps a message name to the sequence of its fields in           *)
(* declaration order; a field is                                           *)
(*   [num |-> field number, name |-> field name, kind |-> kind,            *)
(*    sub |-> name of the message type of a "msg" or "rep" field].         *)
(* Kinds: "bytes", "string", "bool", "int32", "enum", "uint32", "int64",   *)
(* "uint64", "msg" (an optional sub-message) and "rep" (a repeated          *)
(* sub-message).                                                           *)
(*                                                                         *)
(* Values: bytes and strings are sequences of byte values (strings are     *)
(* ASCII, whose UTF-8 encoding is the identity); integers are integers;   *)
(* an optional sub-message is << >> when undefined and <<m>> when set, a   *)
(* repeated one is the sequence of its elements.                           *)
(*                                                                         *)
(* The Reader and Writer primitives (varints, keys, length prefixes,      *)
(* skipType) are library code; the generated per-message control (which   *)
(* fields are written, in which order, under which default test, and how  *)
(* decode dispatches on the field number) is Encode and Decode below.      *)
(*                                                                         *)
(* Integer width: TLC's integers are 32-bit.  Unsigned values read from   *)
(* the wire saturate at Cap = 2^30, which is larger than any buffer of a  *)
(* model, so a saturated length or index behaves as the real one does     *)
(* (out of range) and a saturated field value differs from every value a   *)
(* model sends.  Signed 32-bit reads keep their exact width.               *)
(***************************************************************************)
EXTENDS Integers, Sequences, SequencesExt

Cap == 2^30

ScalarKinds == {"bytes", "string", "bool", "int32", "enum", "uint32",
                "int64", "uint64"}

\* Wire type written for a kind: 0 varint, 2 length-delimited.
WireType(kind) == IF kind \in {"bytes", "string", "msg", "rep"} THEN 2 ELSE 0

FieldNames(S, t) == {S[t][i].name : i \in DOMAIN S[t]}

\* The default value of a field: what decode starts from and encode omits.
DefaultOf(kind) ==
    CASE kind \in {"bytes", "string", "msg", "rep"} -> << >>
      [] kind = "bool"                               -> FALSE
      [] OTHER                                       -> 0

FieldNamed(S, t, n) == S[t][CHOOSE i \in DOMAIN S[t] : S[t][i].name = n]

DefaultMsg(S, t) == [n \in FieldNames(S, t) |-> DefaultOf(FieldNamed(S, t, n).kind)]

-----------------------------------------------------------------------------
(* Writer primitives (protobufjs Writer; prost's encode_varint).           *)

RECURSIVE Varint(_)
\* Base-128 varint of a non-negative integer, low group first.
Varint(n) == IF n < 128 THEN <<n>> ELSE <<(n % 128) + 128>> \o Varint(n \div 128)

RECURSIVE NegGroups(_, _)
\* The ten groups of the 64-bit two's complement of a negative n, written
\* by Writer.int32/int64 for n < 0 (and by prost, which widens int32 to
\* 64 bits): nine 7-bit groups with the continuation bit, then bit 63.
NegGroups(n, k) ==
    IF k = 10 THEN <<n % 2>>
    ELSE <<(n % 128) + 128>> \o NegGroups(n \div 128, k + 1)

SignedVarint(n) == IF n >= 0 THEN Varint(n) ELSE NegGroups(n, 1)

Key(num, wt) == Varint(num * 8 + wt)

LenDelim(b) == Varint(Len(b)) \o b

-----------------------------------------------------------------------------
(* Encode: the generated encode(message, writer) of each message, and      *)
(* prost's encode_raw: fields in declaration order, a scalar only when it  *)
(* differs from its default, an optional sub-message when set, each       *)
(* element of a repeated one.                                             *)

ScalarPayload(kind, v) ==
    CASE kind \in {"bytes", "string"}           -> LenDelim(v)
      [] kind = "bool"                           -> <<1>>
      [] kind \in {"int32", "enum", "int64"}     -> SignedVarint(v)
      [] kind \in {"uint32", "uint64"}           -> Varint(v)

RECURSIVE Encode(_, _, _)
RECURSIVE EncodeFrom(_, _, _, _)

EncodeField(S, f, v) ==
    CASE f.kind \in ScalarKinds ->
            IF v = DefaultOf(f.kind) THEN << >>
            ELSE Key(f.num, WireType(f.kind)) \o ScalarPayload(f.kind, v)
      [] OTHER ->
            FlattenSeq([i \in DOMAIN v |->
                          Key(f.num, 2) \o LenDelim(Encode(S, f.sub, v[i]))])

EncodeFrom(S, t, m, i) ==
    IF i > Len(S[t]) THEN << >>
    ELSE EncodeField(S, S[t][i], m[S[t][i].name]) \o EncodeFrom(S, t, m, i + 1)

Encode(S, t, m) == EncodeFrom(S, t, m, 1)

-----------------------------------------------------------------------------
(* Reader primitives (protobufjs Reader; prost's decode_varint).  A read   *)
(* past the end of the buffer throws (RangeError "index out of range").   *)

Fail == [ok |-> FALSE]

RECURSIVE ReadGroups(_, _, _)
\* The 7-bit groups of the varint at pos (at most ten are read).
ReadGroups(buf, pos, gs) ==
    IF pos > Len(buf) \/ Len(gs) = 10 THEN Fail
    ELSE IF buf[pos] < 128
         THEN [ok |-> TRUE, groups |-> Append(gs, buf[pos]), pos |-> pos + 1]
         ELSE ReadGroups(buf, pos + 1, Append(gs, buf[pos] - 128))

ReadVarint(buf, pos) == ReadGroups(buf, pos, << >>)

RECURSIVE SatHorner(_, _)
\* The unsigned value of groups i.. of gs, saturated at Cap.
SatHorner(gs, i) ==
    IF i > Len(gs) THEN 0
    ELSE LET hi == SatHorner(gs, i + 1)
         IN IF hi >= Cap \div 128 THEN Cap ELSE gs[i] + 128 * hi

\* Reader.uint32: the low 32 bits, unsigned.
U32(gs) == SatHorner(IF Len(gs) >= 5
                     THEN [i \in 1..5 |-> IF i = 5 THEN gs[5] % 16 ELSE gs[i]]
                     ELSE gs, 1)

\* Reader.int32 (and prost's "as i32"): the low 32 bits, signed.
I32(gs) ==
    LET low == SatHorner(SubSeq(gs, 1, IF Len(gs) < 4 THEN Len(gs) ELSE 4), 1)
        hi  == IF Len(gs) >= 5 THEN gs[5] % 16 ELSE 0
    IN IF hi >= 8 THEN (hi - 16) * 2^28 + low ELSE hi * 2^28 + low

\* Reader.int64: a negative value has bit 63 set, in the tenth group.
I64(gs) ==
    IF Len(gs) = 10 /\ gs[10] % 2 = 1
    THEN -1 - SatHorner([i \in 1..9 |-> 127 - gs[i]], 1)
    ELSE SatHorner(gs, 1)

ValueOf(kind, gs) ==
    CASE kind = "bool"                  -> U32(gs) # 0
      [] kind \in {"int32", "enum"}     -> I32(gs)
      [] kind = "int64"                 -> I64(gs)
      [] kind \in {"uint32", "uint64"}  -> SatHorner(gs, 1)

\* Reader.bytes / Reader.string: a length, then that many bytes.
ReadBytes(buf, pos) ==
    LET l == ReadVarint(buf, pos)
        n == U32(l.groups)
    IN IF ~l.ok \/ l.pos + n - 1 > Len(buf) THEN Fail
       ELSE [ok |-> TRUE, val |-> SubSeq(buf, l.pos, l.pos + n - 1),
             pos |-> l.pos + n]

RECURSIVE SkipType(_, _, _)
\* Reader.skipType(wireType): 0 a varint, 1 eight bytes, 2 a length-
\* delimited run, 3 a group up to its end tag, 5 four bytes; any other
\* wire type throws.
SkipType(buf, pos, wt) ==
    LET Skip(n) == IF pos + n - 1 > Len(buf) THEN Fail
                   ELSE [ok |-> TRUE, pos |-> pos + n]
        v == ReadVarint(buf, pos)
    IN CASE wt = 0 -> IF v.ok THEN [ok |-> TRUE, pos |-> v.pos] ELSE Fail
         [] wt = 1 -> Skip(8)
         [] wt = 2 -> LET b == ReadBytes(buf, pos)
                      IN IF b.ok THEN [ok |-> TRUE, pos |-> b.pos] ELSE Fail
         [] wt = 3 -> IF ~v.ok THEN Fail
                      ELSE IF U32(v.groups) % 8 = 4
                           THEN [ok |-> TRUE, pos |-> v.pos]
                           ELSE LET s == SkipType(buf, v.pos, U32(v.groups) % 8)
                                IN IF s.ok THEN SkipType(buf, s.pos, 3) ELSE Fail
         [] wt = 5 -> Skip(4)
         [] OTHER  -> Fail

-----------------------------------------------------------------------------
(* Decode: the generated decode(reader, length) of each message, and       *)
(* prost's merge.  Start from the defaults; while pos < end read a tag,    *)
(* dispatch on tag >>> 3: a known field is read by its kind (protobufjs    *)
(* does not look at the tag's wire type), an unknown one is skipped by     *)
(* skipType(tag & 7).  A sub-message is decoded up to pos + its length.    *)
(* With prost (checked = TRUE) a wire type that does not fit the field,   *)
(* field number 0 and a sub-message that overruns its length are errors.  *)
(* A singular sub-message read twice keeps the last one (protobufjs; prost *)
(* would merge the two, which no encoder of the model makes it do).       *)

FieldOf(S, t, num) == S[t][CHOOSE i \in DOMAIN S[t] : S[t][i].num = num]

HasField(S, t, num) == \E i \in DOMAIN S[t] : S[t][i].num = num

\* The field value after reading v for field f.
Store(f, old, v) ==
    CASE f.kind = "msg" -> <<v>>
      [] f.kind = "rep" -> Append(old, v)
      [] OTHER          -> v

RECURSIVE DecodeLoop(_, _, _, _, _, _, _)

ReadField(S, f, buf, pos, checked) ==
    CASE f.kind \in {"bytes", "string"} -> ReadBytes(buf, pos)
      [] f.kind \in {"msg", "rep"} ->
            LET l   == ReadVarint(buf, pos)
                end == l.pos + U32(l.groups)
                r   == DecodeLoop(S, f.sub, buf, l.pos, end,
                                  DefaultMsg(S, f.sub), checked)
            IN IF ~l.ok \/ ~r.ok \/ (checked /\ r.pos # end) THEN Fail
               ELSE [ok |-> TRUE, val |-> r.msg, pos |-> r.pos]
      [] OTHER ->
            LET v == ReadVarint(buf, pos)
            IN IF ~v.ok THEN Fail
               ELSE [ok |-> TRUE, val |-> ValueOf(f.kind, v.groups),
                     pos |-> v.pos]

DecodeLoop(S, t, buf, pos, end, m, checked) ==
    IF pos >= end THEN [ok |-> TRUE, msg |-> m, pos |-> pos]
    ELSE
    LET tag == ReadVarint(buf, pos)
        num == U32(tag.groups) \div 8
        wt  == U32(tag.groups) % 8
        f   == FieldOf(S, t, num)
        r   == ReadField(S, f, buf, tag.pos, checked)
        s   == SkipType(buf, tag.pos, wt)
    IN CASE ~tag.ok \/ (checked /\ num = 0) -> Fail
         [] HasField(S, t, num) ->
              IF (checked /\ wt # WireType(f.kind)) \/ ~r.ok THEN Fail
              ELSE DecodeLoop(S, t, buf, r.pos, end,
                              [m EXCEPT ![f.name] = Store(f, @, r.val)],
                              checked)
         [] OTHER ->
              IF ~s.ok THEN Fail
              ELSE DecodeLoop(S, t, buf, s.pos, end, m, checked)

\* Decoding a whole buffer: [ok |-> FALSE] when the reader throws.
Decode(S, t, buf, checked) ==
    DecodeLoop(S, t, buf, 1, Len(buf) + 1, DefaultMsg(S, t), checked)

-----------------------------------------------------------------------------
(* What a receiver with schema S2 should see of a message m that a sender *)
(* with schema S1 sends: every field of S2 whose number S1 declares with  *)
(* the same kind (int32 and enum are the same on the wire) carries the     *)
(* sent value, converted field by field; every other field is at its      *)
(* default.  This is the compatibility rule of protobuf schemas.           *)

Compatible(g, f) ==
    \/ g.kind = f.kind
    \/ {g.kind, f.kind} = {"int32", "enum"}

RECURSIVE Translate(_, _, _, _, _)
Translate(S1, S2, t1, t2, m) ==
    [n \in FieldNames(S2, t2) |->
        LET f == FieldNamed(S2, t2, n)
            g == FieldOf(S1, t1, f.num)
        IN IF HasField(S1, t1, f.num) /\ Compatible(g, f)
           THEN IF f.kind \in ScalarKinds THEN m[g.name]
                ELSE [i \in DOMAIN m[g.name] |->
                        Translate(S1, S2, g.sub, f.sub, m[g.name][i])]
           ELSE DefaultOf(f.kind)]

=============================================================================
