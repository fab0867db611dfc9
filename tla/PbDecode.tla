------------------------------ MODULE PbDecode ------------------------------
(***************************************************************************)
(* pb_decode.c.  An input stream is the bytes behind it, the place in them *)
(* and bytes_left; io is the number of bytes after which a callback stream *)
(* fails to deliver.  Each operator returns the stream with ok and, in v,  *)
(* what it read or the struct it filled.                                   *)
(***************************************************************************)
EXTENDS Pb

CONSTANT SkipChunk      \* bytes skipped at a time on a callback stream (16)

\* luck: what comparing with a word shifted by its own width gives.
IStream(buf, io, luck) ==
    [buf |-> buf, at |-> 0, left |-> Len(buf), io |-> io, luck |-> luck,
     ok |-> TRUE, v |-> 0]

Bad(s) == [s EXCEPT !.ok = FALSE]
Yields(s, v) == [s EXCEPT !.v = v]

\* pb_read: the bytes are in v.
Read(s, n) ==
    IF ~s.ok THEN s
    ELSE IF s.left < n \/ s.at + n > s.io THEN Bad(s)
    ELSE [s EXCEPT !.at = @ + n, !.left = @ - n,
                   !.v = SubSeq(s.buf, s.at + 1, s.at + n)]

RECURSIVE Skip(_, _), SkipVarint(_), Varint(_, _, _, _), VarintByte(_, _, _, _)

\* pb_read with buf == NULL.
Skip(s, n) == IF n <= SkipChunk \/ ~s.ok THEN Read(s, n)
              ELSE Skip(Read(s, SkipChunk), n - SkipChunk)

\* pb_decode_varint32 and pb_decode_varint; bits that do not fit are lost.
Varint(s, bits, shift, value) ==
    IF ~s.ok \/ shift >= bits THEN Bad(s)
    ELSE VarintByte(Read(s, 1), bits, shift, value)
VarintByte(r, bits, shift, value) ==
    IF ~r.ok THEN r
    ELSE IF r.v[1] >= 128
    THEN Varint(r, bits, shift + 7, (value + (r.v[1] % 128) * 2^shift) % 2^bits)
    ELSE Yields(r, (value + r.v[1] * 2^shift) % 2^bits)

Varint32(s) == Varint(s, Bits[4], 0, 0)
Varint64(s) == Varint(s, Bits[8], 0, 0)

SkipVarint(s) == LET r == Read(s, 1)
                 IN IF r.ok /\ r.v[1] >= 128 THEN SkipVarint(r) ELSE r

\* pb_decode_tag: eof when the stream ends here, be it inside the tag, or
\* the tag is zero.
TagRead(r) ==
    IF ~r.ok THEN [s |-> r, eof |-> r.left = 0, tag |-> 0, wt |-> 0]
    ELSE IF r.v = 0 THEN [s |-> Bad(r), eof |-> TRUE, tag |-> 0, wt |-> 0]
    ELSE [s |-> r, eof |-> FALSE, tag |-> r.v \div 8, wt |-> r.v % 8]
DecodeTag(s) == TagRead(Varint32(s))

\* pb_make_string_substream: v is the substream; s keeps what is after it.
CutOff(r) ==
    IF ~r.ok \/ r.left < r.v THEN Bad(r)
    ELSE [r EXCEPT !.left = @ - r.v,
                   !.v = [r EXCEPT !.left = r.v]]
Substream(s) == CutOff(Varint32(s))

\* pb_close_string_substream: what was not read is skipped.
CloseAt(s, rest) == IF ~rest.ok THEN Bad(s) ELSE [s EXCEPT !.at = rest.at]
CloseSubstream(s, sub) ==
    CloseAt(s, IF sub.left > 0 THEN Skip([sub EXCEPT !.ok = TRUE], sub.left)
                               ELSE [sub EXCEPT !.ok = TRUE])

\* What sub, the substream of r, found, if it can be closed.
Passed(c, sub) == [c EXCEPT !.ok = @ /\ sub.ok, !.v = sub.v]
FromSubstream(r, sub) == IF ~r.ok THEN r ELSE Passed(CloseSubstream(r, sub), sub)

SkipString(r) == IF r.ok THEN Skip(r, r.v) ELSE r
SkipField(s, wt) ==
    CASE wt = 0 -> SkipVarint(s)
      [] wt = 1 -> Skip(s, Fixed64)
      [] wt = 2 -> SkipString(Varint32(s))
      [] wt = 5 -> Skip(s, Fixed32)
      [] OTHER  -> Bad(s)

-----------------------------------------------------------------------------
(***************************************************************************)
(* pb_message_set_to_defaults.  Arrays and unions keep their contents, a   *)
(* callback is not touched.                                                *)
(***************************************************************************)
RECURSIVE Defaults(_, _), DefaultSlot(_, _)

DefaultSlot(f, slot) ==
    IF f.ltype = "extension"
    THEN [slot EXCEPT !.data = [i \in DOMAIN slot.data |->
             [slot.data[i] EXCEPT !.found = FALSE,
                !.slot = DefaultSlot(slot.data[i].field, slot.data[i].slot)]]]
    ELSE IF f.atype = "callback" THEN slot
    ELSE IF f.htype \in {"repeated", "oneof"} THEN [slot EXCEPT !.size = 0]
    ELSE [slot EXCEPT !.size = 0,
                      !.data = IF f.ltype = "submessage"
                               THEN Defaults(f.sub, slot.data) ELSE BlankItem(f)]

\* Fields of one union set the same slot, each which_ = 0.
Defaults(fields, slots) ==
    [k \in 1..Slots(fields) |->
        DefaultSlot(FieldOf(fields, k), slots[k])]

-----------------------------------------------------------------------------
RECURSIVE DecodeItem(_, _, _), DecodeFields(_, _, _), DecodeLoop(_, _, _, _, _),
          Packed(_, _, _), PackedItem(_, _, _), CallbackLoop(_, _, _),
          CallbackRead(_, _, _), Extensions(_, _, _, _, _), DecodeField(_, _, _, _),
          AfterTag(_, _, _, _, _), AtField(_, _, _, _, _, _), NoField(_, _, _, _, _, _),
          AfterExtensions(_, _, _, _, _, _), Go(_, _, _, _, _, _)

\* pb_dec_varint: a field of 32 bits or less is cast to int32_t first.
FitSigned(s, f) ==
    LET sv == Signed(s.v, IF f.size = 8 THEN Bits[8] ELSE Bits[4])
        c  == Signed(sv, Bits[f.size])
    IN IF c # sv THEN Bad(s) ELSE Yields(s, c)

FitUnsigned(s, f) ==
    IF s.v % 2^Bits[f.size] # s.v THEN Bad(s) ELSE s

FitZigZag(s, f) ==
    LET v == IF s.v % 2 = 1 THEN -(s.v \div 2) - 1 ELSE s.v \div 2
    IN IF Signed(v, Bits[f.size]) # v THEN Bad(s) ELSE Yields(s, v)

Number[bytes \in Seq(0..255)] ==
    IF bytes = <<>> THEN 0 ELSE bytes[1] + 256 * Number[Tail(bytes)]

FixedRead(r) == IF r.ok THEN Yields(r, Number[r.v]) ELSE r
Fixed(s, n) == FixedRead(Read(s, n))

\* pb_dec_bytes keeps its size in front of the data, pb_dec_string a
\* terminator behind it: either takes one of the field's bytes.
FitsField(size, f) == size + 1 <= f.size

BytesOf(r, f) == IF ~r.ok \/ ~FitsField(r.v, f) THEN Bad(r) ELSE Read(r, r.v)
DecodeBytes(s, f) == BytesOf(Varint32(s), f)

FixedLengthOf(r, f) ==
    IF ~r.ok THEN r
    ELSE IF r.v = 0 THEN Yields(r, <<>>)     \* all zeros
    ELSE IF r.v # f.size THEN Bad(r) ELSE Read(r, f.size)
DecodeFixedLength(s, f) == FixedLengthOf(Varint32(s), f)

Fresh(f) == f.htype = "repeated"

\* pb_dec_submessage: a new array entry is initialised, the others merge.
SubmessageIn(r, f, old) ==
    FromSubstream(r, DecodeFields(r.v, f.sub,
                                  IF Fresh(f) THEN Defaults(f.sub, old) ELSE old))
DecodeSubmessage(s, f, old) == SubmessageIn(Substream(s), f, old)

FitInteger(r, f) ==
    IF ~r.ok THEN r
    ELSE CASE f.ltype = "varint"  -> FitSigned(r, f)
           [] f.ltype = "uvarint" -> FitUnsigned(r, f)
           [] f.ltype = "svarint" -> FitZigZag(r, f)

DecodeItem(s, f, old) ==
    CASE f.ltype \in {"varint", "uvarint", "svarint"} -> FitInteger(Varint64(s), f)
      [] f.ltype = "fixed32" -> Fixed(s, Fixed32)
      [] f.ltype = "fixed64" -> Fixed(s, Fixed64)
      [] f.ltype \in {"bytes", "string"} -> DecodeBytes(s, f)
      [] f.ltype = "fixed_length" -> DecodeFixedLength(s, f)
      [] f.ltype = "submessage" -> DecodeSubmessage(s, f, old)

\* The slot after an item was decoded: of an array, into its next entry.
PutOne(slot, size, v) == [slot EXCEPT !.size = size, !.data = v]
PutNext(slot, v) == [slot EXCEPT !.size = @ + 1, !.data[slot.size + 1] = v]

HasRoom(f, slot) == slot.size < f.array

\* The loop over a packed array's substream.
Packed(sub, f, slot) ==
    IF sub.left = 0 \/ ~HasRoom(f, slot) THEN Yields(sub, slot)
    ELSE PackedItem(DecodeItem(sub, f, 0), f, slot)
PackedItem(r, f, slot) ==
    IF r.ok THEN Packed(r, f, PutNext(slot, r.v)) ELSE Yields(r, slot)

\* A packed array that is longer than the field overflows.
PackedArray(r, p) == IF r.ok /\ p.left # 0 THEN Bad(r) ELSE FromSubstream(r, p)
PackedIn(r, f, slot) == PackedArray(r, Packed(r.v, f, slot))

\* What an item is decoded over: a union's submessage starts empty.
Under(f, slot) ==
    CASE f.htype \in {"required", "optional"} -> slot.data
      [] f.htype = "repeated" -> slot.data[slot.size + 1]
      [] f.htype = "oneof" -> IF f.ltype = "submessage"
                              THEN Defaults(f.sub, BlankStruct(f.sub)) ELSE 0

ItemRead(r, f, slot) ==
    IF ~r.ok THEN r
    ELSE Yields(r, CASE f.htype = "repeated" -> PutNext(slot, r.v)
                     [] f.htype = "oneof" -> PutOne(slot, f.tag, r.v)
                     [] f.htype = "optional" /\ f.explicit -> PutOne(slot, 1, r.v)
                     [] OTHER -> PutOne(slot, slot.size, r.v))

\* decode_static_field.
DecodeStatic(s, f, slot, wt) ==
    IF f.htype = "repeated" /\ wt = 2 /\ Packable(f) THEN PackedIn(Substream(s), f, slot)
    ELSE IF f.htype = "repeated" /\ ~HasRoom(f, slot) THEN Bad(s)
    ELSE ItemRead(DecodeItem(s, f, Under(f, slot)), f, slot)

\* decode_callback_field: the user's function gets a string as a substream,
\* until it has read all of it; anything else is copied first.
UserCallback(sub, fn) ==
    IF fn = "fails" THEN Bad(sub)
    ELSE IF fn = "bytewise" THEN Read(sub, IF sub.left > 0 THEN 1 ELSE 0)
    ELSE Read(sub, sub.left)

CallbackLoop(sub, fn, got) == CallbackRead(UserCallback(sub, fn), fn, got)
CallbackRead(r, fn, got) ==
    IF ~r.ok THEN r
    ELSE IF r.left > 0 THEN CallbackLoop(r, fn, got \o r.v)
    ELSE Yields(r, got \o r.v)

\* read_raw_value: the longest varint (10 bytes) or fixed value.
RawMax == (Bits[8] + 6) \div 7

Kept(r, slot) == IF r.ok THEN Yields(r, slot) ELSE r

StringCallback(r, p, slot) ==
    IF r.ok /\ ~p.ok THEN Bad(r)
    ELSE FromSubstream(r, Yields(p, [slot EXCEPT !.data = p.v]))
StringIn(r, slot) == StringCallback(r, CallbackLoop(r.v, slot.fn, slot.data), slot)

RawCallback(r, p, slot) ==
    IF ~r.ok THEN r ELSE IF ~p.ok THEN Bad(r)
    ELSE Yields(r, [slot EXCEPT !.data = @ \o p.v])
RawIn(s, raw, r, slot) ==
    RawCallback(r, UserCallback(IStream(raw, Len(raw), s.luck), slot.fn), slot)
RawValue(s, skipped, slot) ==
    RawIn(s, SubSeq(s.buf, s.at + 1, skipped.at),
          IF skipped.at - s.at > RawMax THEN Bad(skipped) ELSE skipped, slot)

DecodeCallback(s, f, slot, wt) ==
    IF slot.fn = "null" THEN Kept(SkipField(s, wt), slot)
    ELSE IF wt = 2 THEN StringIn(Substream(s), slot)
    ELSE RawValue(s, IF wt \in {0, 1, 5} THEN SkipField(s, wt) ELSE Bad(s), slot)

DecodeField(s, f, slot, wt) ==
    CASE f.atype = "static"   -> DecodeStatic(s, f, slot, wt)
      [] f.atype = "callback" -> DecodeCallback(s, f, slot, wt)
      [] OTHER -> Bad(s)        \* pointers: no malloc support

ExtensionRead(r, exts, i) ==
    IF ~r.ok THEN r
    ELSE Yields(r, [exts EXCEPT ![i] = [@ EXCEPT !.found = TRUE, !.slot = r.v]])

\* decode_extension: each handler in turn until one has read something.
Extensions(s, exts, i, tag, wt) ==
    IF i > Len(exts) THEN Yields(s, exts)
    ELSE IF exts[i].field.tag # tag THEN Extensions(s, exts, i + 1, tag, wt)
    ELSE ExtensionRead(DecodeField(s, exts[i].field, exts[i].slot, wt), exts, i)

-----------------------------------------------------------------------------
\* The check of fields_seen, word by word; with a full last word the code
\* shifts by the width of the word, which is undefined.
RequiredSeen(fields, seen, luck) ==
    LET n == RequiredCount(fields)
        words == n \div WordBits
        whole == \A i \in 0..(words * WordBits - 1) : i \in seen
        rest  == {i \in seen : i \div WordBits = words}
    IN n = 0 \/ (/\ whole
                 /\ IF n % WordBits = 0 THEN luck
                    ELSE rest = (words * WordBits)..(n - 1))

\* pb_decode_noinit: the loop over the fields of the stream.
DecodeLoop(s, fields, slots, seen, start) ==
    IF s.left = 0 THEN IF RequiredSeen(fields, seen, s.luck) THEN Yields(s, slots) ELSE Bad(s)
    ELSE AfterTag(DecodeTag(s), fields, slots, seen, start)

AfterTag(t, fields, slots, seen, start) ==
    IF ~t.s.ok
    THEN IF t.eof /\ RequiredSeen(fields, seen, t.s.luck)
         THEN [Yields(t.s, slots) EXCEPT !.ok = TRUE] ELSE Bad(t.s)
    ELSE IF Find(fields, t.tag) = 0
    THEN NoField(t, fields, slots, seen, FindExtension(fields), start)
    ELSE AtField(t, fields, slots, seen, start, Find(fields, t.tag))

\* A field of the struct.
AtField(t, fields, slots, seen, start, i) ==
    Go(DecodeField(t.s, fields[i], slots[SlotOf(fields)[i]], t.wt), fields, slots,
       SlotOf(fields)[i],
       IF fields[i].htype = "required"
       THEN seen \cup {RequiredIndex(fields, i)} ELSE seen, start)

\* An extension, if the tag is one; else an unknown field, which is skipped.
\* start: extension_range_start, set when the first such tag is seen.
NoField(t, fields, slots, seen, e, start) ==
    IF t.tag < start THEN Go(SkipField(t.s, t.wt), fields, slots, 0, seen, start)
    ELSE IF e = 0 THEN Go(SkipField(t.s, t.wt), fields, slots, 0, seen, 2^Bits[4])
    ELSE IF t.tag < fields[e].tag
    THEN Go(SkipField(t.s, t.wt), fields, slots, 0, seen, fields[e].tag)
    ELSE AfterExtensions(Extensions(t.s, slots[SlotOf(fields)[e]].data, 1, t.tag, t.wt),
                         t, fields, slots, seen, e)

AfterExtensions(x, t, fields, slots, seen, e) ==
    IF ~x.ok THEN x
    ELSE IF x.left # t.s.left
    THEN Go(Yields(x, [slots[SlotOf(fields)[e]] EXCEPT !.data = x.v]), fields, slots,
            SlotOf(fields)[e], seen, fields[e].tag)
    ELSE Go(SkipField(t.s, t.wt), fields, slots, 0, seen, fields[e].tag)

\* On with the loop; slot k is what r has read, none is when k is 0.
Go(r, fields, slots, k, seen, start) ==
    IF ~r.ok THEN r
    ELSE DecodeLoop(r, fields, IF k = 0 THEN slots ELSE [slots EXCEPT ![k] = r.v], seen, start)

DecodeFields(s, fields, slots) ==
    IF s.ok THEN DecodeLoop(s, fields, slots, {}, 0) ELSE s

Decode(s, fields, slots) == DecodeFields(s, fields, Defaults(fields, slots))

\* The substream is not closed (a mistake).
DecodeUnclosed(r, sub) == IF ~r.ok THEN r ELSE [r EXCEPT !.ok = sub.ok, !.v = sub.v]

\* pb_decode_delimited.
CloseDelimited(r, sub) == FromSubstream(r, sub)
DelimitedMessage(r, fields, slots) == CloseDelimited(r, Decode(r.v, fields, slots))
DecodeDelimited(s, fields, slots) == DelimitedMessage(Substream(s), fields, slots)
=============================================================================
