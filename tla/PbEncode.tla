------------------------------ MODULE PbEncode ------------------------------
(***************************************************************************)
(* pb_encode.c.  An output stream is what was written, the room there is,  *)
(* and whether it only counts (PB_OSTREAM_SIZING, callback == NULL).  Each *)
(* operator takes the stream and returns it, ok turning FALSE on an error. *)
(***************************************************************************)
EXTENDS Pb

OStream(max) == [out |-> <<>>, max |-> max, written |-> 0,
                 sizing |-> FALSE, ok |-> TRUE]
Sizing == [OStream(0) EXCEPT !.sizing = TRUE]

Fail(s) == [s EXCEPT !.ok = FALSE]

\* pb_write; a sizing stream is given the count alone.
Write(s, bytes, n) ==
    IF ~s.ok THEN s
    ELSE IF ~s.sizing /\ s.written + n > s.max THEN Fail(s)
    ELSE IF s.sizing THEN [s EXCEPT !.written = @ + n]
    ELSE [s EXCEPT !.written = @ + n, !.out = @ \o bytes]

VarintBytes[v \in Nat] ==
    IF v < 128 THEN <<v>> ELSE <<128 + (v % 128)>> \o VarintBytes[v \div 128]

EncVarint(s, v)  == Write(s, VarintBytes[v], Len(VarintBytes[v]))
ZigZag(v)        == IF v < 0 THEN -(2 * v) - 1 ELSE 2 * v
EncTag(s, wt, tag) == EncVarint(s, tag * 8 + wt)
EncTagForField(s, f) == EncTag(s, WireType(f), f.tag)
EncString(s, bytes) == Write(EncVarint(s, Len(bytes)), bytes, Len(bytes))

\* pb_encode_fixed32 and pb_encode_fixed64: little-endian.
FixedBytes(v, n) == [i \in 1..n |-> (v \div 2^(8 * (i - 1))) % 256]

RECURSIVE Encode(_, _, _), EncodeItem(_, _, _), EncodeItems(_, _, _, _),
          IsDefault(_, _), EncodeExtensions(_, _, _)

(***************************************************************************)
(* pb_encode_submessage: measured first, then written to a substream with  *)
(* exactly that room, so that a callback that writes another amount the    *)
(* second time is noticed.                                                 *)
(***************************************************************************)

CloseSubmessage(s, sub, size) ==
    [s EXCEPT !.out = sub.out, !.written = @ + sub.written,
              !.ok = sub.ok /\ sub.written = size]

\* s1: s after the length; sub: the substream, used only where it is needed.
SubmessageAfter(s1, size, sub) ==
    IF ~s1.ok THEN s1
    ELSE IF s1.sizing THEN Write(s1, <<>>, size)
    ELSE IF s1.written + size > s1.max THEN Fail(s1)
    ELSE CloseSubmessage(s1, sub, size)
SubmessageOfSize(s1, size, fields, slots) ==
    SubmessageAfter(s1, size, Encode([s1 EXCEPT !.max = size, !.written = 0], fields, slots))
SubmessageSized(s, sized, fields, slots) ==
    IF ~s.ok THEN s
    ELSE IF ~sized.ok THEN Fail(s)
    ELSE SubmessageOfSize(EncVarint(s, sized.written), sized.written, fields, slots)

EncodeSubmessage(s, fields, slots) ==
    SubmessageSized(s, Encode(Sizing, fields, slots), fields, slots)

\* The field encoders, pb_enc_varint and its siblings.
EncodeItem(s, f, v) ==
    CASE f.ltype = "varint"  -> EncVarint(s, v % 2^Bits[8])
      [] f.ltype = "uvarint" -> EncVarint(s, v)
      [] f.ltype = "svarint" -> EncVarint(s, ZigZag(v))
      [] f.ltype = "fixed32" -> Write(s, FixedBytes(v, Fixed32), Fixed32)
      [] f.ltype = "fixed64" -> Write(s, FixedBytes(v, Fixed64), Fixed64)
      [] f.ltype = "bytes"   -> IF Len(v) + 1 > f.size THEN Fail(s)
                                ELSE EncString(s, v)
      [] f.ltype \in {"string", "fixed_length"} -> EncString(s, v)
      [] f.ltype = "submessage" -> EncodeSubmessage(s, f.sub, v)

\* The loop of encode_array; tagged: each item has its own tag.
EncodeItems(s, f, items, tagged) ==
    IF items = <<>> \/ ~s.ok THEN s
    ELSE EncodeItems(EncodeItem(IF tagged THEN EncTagForField(s, f) ELSE s,
                                f, items[1]),
                     f, Tail(items), tagged)

PackedSize(f, items) ==
    CASE f.ltype = "fixed32" -> Fixed32 * Len(items)
      [] f.ltype = "fixed64" -> Fixed64 * Len(items)
      [] OTHER -> EncodeItems(Sizing, f, items, FALSE).written

EncodePacked(s1, f, items, size) ==
    IF ~s1.ok THEN s1
    ELSE IF s1.sizing THEN Write(s1, <<>>, size)
    ELSE EncodeItems(s1, f, items, FALSE)
PackedAfter(s, f, items, size) ==
    EncodePacked(EncVarint(EncTag(s, 2, f.tag), size), f, items, size)

EncodeArray(s, f, items) ==
    IF items = <<>> THEN s
    ELSE IF ~Packable(f) THEN EncodeItems(s, f, items, TRUE)
    ELSE PackedAfter(s, f, items, PackedSize(f, items))

\* pb_check_proto3_default_value: of an array it looks at the first entry
\* only, of a callback at the function pointer.
ItemIsDefault(f, v) ==
    CASE f.ltype = "fixed_length" -> f.size = 0
      [] f.ltype = "submessage" ->
            \A i \in 1..Len(f.sub) : IsDefault(f.sub[i], v[SlotOf(f.sub)[i]])
      [] OTHER -> v = BlankItem(f)

IsDefault(f, slot) ==
    IF f.atype = "callback" THEN slot.fn = "null"
    ELSE ItemIsDefault(f, IF f.htype = "repeated" THEN slot.data[1] ELSE slot.data)

\* Whether the field is there: has_ of an optional, which_ of a oneof.
Present(f, slot) ==
    CASE f.htype = "required" -> TRUE
      [] f.htype = "optional" -> IF f.explicit THEN slot.size = 1 ELSE ~IsDefault(f, slot)
      [] f.htype = "oneof" -> slot.size = f.tag

EncodeBasic(s, f, slot) ==
    IF f.htype = "repeated"
    THEN IF slot.size > f.array THEN Fail(s)
         ELSE EncodeArray(s, f, SubSeq(slot.data, 1, slot.size))
    ELSE IF Present(f, slot) THEN EncodeItem(EncTagForField(s, f), f, slot.data) ELSE s

\* encode_callback_field: the user's function writes tag and data itself.
\* "steady" writes the same on every call, "shrinks" less when it is for good.
EncodeCallback(s, f, slot) ==
    IF slot.fn = "null" \/ slot.data = <<>> THEN s
    ELSE EncString(EncTag(s, 2, f.tag),
                   IF slot.fn = "shrinks" /\ ~s.sizing
                   THEN Tail(slot.data) ELSE slot.data)

EncodeField(s, f, slot) ==
    IF f.atype = "callback" THEN EncodeCallback(s, f, slot)
                            ELSE EncodeBasic(s, f, slot)

EncodeExtensions(s, exts, i) ==
    IF i > Len(exts) \/ ~s.ok THEN s
    ELSE EncodeExtensions(EncodeField(s, exts[i].field, exts[i].slot), exts, i + 1)

\* pb_encode: the fields in order.
EncodeNext(s, f, slot) ==
    IF ~s.ok THEN s
    ELSE IF f.ltype = "extension" THEN EncodeExtensions(s, slot.data, 1)
    ELSE EncodeField(s, f, slot)

Encode(s, fields, slots) ==
    LET after[i \in 0..Len(fields)] ==
            IF i = 0 THEN s
            ELSE EncodeNext(after[i - 1], fields[i], slots[SlotOf(fields)[i]])
    IN after[Len(fields)]

\* pb_encode_delimited.
EncodeDelimited(s, fields, slots) == EncodeSubmessage(s, fields, slots)

GetEncodedSize(fields, slots) == Encode(Sizing, fields, slots).written
=============================================================================
