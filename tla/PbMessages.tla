----------------------------- MODULE PbMessages -----------------------------
(***************************************************************************)
(* A program that uses nanopb: it fills a struct, encodes it into a buffer *)
(* of some size, and what arrives at the other end (whole, cut, with       *)
(* another message or an unknown field behind it, or any bytes at all) is  *)
(* decoded from a buffer or from a callback stream that may fail.          *)
(***************************************************************************)
EXTENDS PbEncode, PbDecode, FiniteSets

CONSTANTS MessageTypes,    \* the message types, a sequence of field lists
          Unknown,         \* encodings of fields no type has
          RawBytes,        \* the bytes of arbitrary input
          MaxRaw,          \* and its length
          MaxSize          \* more than any message takes

VARIABLES type,     \* the message type
          msg,      \* the struct filled by the program, <<>> for raw input
          more,     \* a second struct sent behind the first, or <<>>
          stage,    \* "message", "encoded", "wire" or "decoded"
          wire,     \* the bytes
          room,     \* the size of the output buffer
          mishap,   \* what happened to the bytes
          result    \* the stream of the last pb_encode or pb_decode

pbVars == <<type, msg, more, stage, wire, room, mishap, result>>

Fields == MessageTypes[type]

-----------------------------------------------------------------------------
\* What the program stores in a field: the edges of each type.
RECURSIVE Structs(_), Values(_)

Items(f) ==
    CASE f.ltype = "varint"  -> {0, -1, 2^(Bits[f.size] - 1) - 1}
      [] f.ltype = "uvarint" -> {0, 2^Bits[f.size] - 1}
      [] f.ltype = "svarint" -> {1, -(2^(Bits[f.size] - 1))}
      [] f.ltype \in {"fixed32", "fixed64"} -> {0, 300}
      [] f.ltype \in {"bytes", "string"} -> {<<>>, [i \in 1..(f.size - 1) |-> 64 + i]}
      [] f.ltype = "fixed_length" -> {[i \in 1..f.size |-> 7]}
      [] f.ltype = "submessage" -> Structs(f.sub)

Slot(n, d, fn) == [size |-> n, data |-> d, fn |-> fn]

Values(f) ==
    IF f.atype = "callback"
    THEN {BlankSlot(f), Slot(0, <<5, 6>>, "steady"), Slot(0, <<5, 6>>, "shrinks")}
    ELSE CASE f.ltype = "extension" ->
                {Slot(0, <<[field |-> e, found |-> FALSE, slot |-> v]>>, "null") :
                    e \in {Field(f.tag + 1, "uvarint", "required", 2)},
                    v \in {Slot(0, i, "null") : i \in {0, 200}}}
           [] f.htype = "required" -> {Slot(0, v, "null") : v \in Items(f)}
           [] f.htype = "optional" ->
                {Slot(IF f.explicit THEN 1 ELSE 0, v, "null") : v \in Items(f)}
                  \cup {BlankSlot(f)}
           [] f.htype = "repeated" ->
                UNION {{Slot(n, [i \in 1..f.array |-> IF i <= n THEN v[i] ELSE BlankItem(f)],
                             "null") : v \in [1..n -> Items(f)]} : n \in 0..f.array}
           [] f.htype = "oneof" ->
                {Slot(f.tag, v, "null") : v \in Items(f)} \cup {BlankSlot(f)}

SlotValues(fields, k) ==
    UNION {Values(fields[i]) : i \in {j \in 1..Len(fields) : SlotOf(fields)[j] = k}}

Structs(fields) ==
    LET upTo[k \in 0..Slots(fields)] ==
            IF k = 0 THEN {<<>>}
            ELSE {Append(m, v) : m \in upTo[k - 1], v \in SlotValues(fields, k)}
    IN upTo[Slots(fields)]

Bytes(m) == Encode(OStream(MaxSize), Fields, m).out
Framed(m) == EncodeDelimited(OStream(MaxSize), Fields, m).out

\* The submessages of a field that are encoded, and whether a callback of
\* the message, or of one inside it, writes less than it was measured.
Subs(f, slot) ==
    CASE f.ltype # "submessage" -> {}
      [] f.htype = "required" -> {slot.data}
      [] f.htype = "optional" -> IF f.explicit /\ slot.size = 0 THEN {} ELSE {slot.data}
      [] f.htype = "repeated" -> {slot.data[i] : i \in 1..slot.size}
      [] f.htype = "oneof"    -> IF slot.size = f.tag THEN {slot.data} ELSE {}

RECURSIVE Shrinks(_, _)
ShrinksInside(fields, m) ==
    \E i \in 1..Len(fields) :
        \E sub \in Subs(fields[i], m[SlotOf(fields)[i]]) : Shrinks(fields[i].sub, sub)
Shrinks(fields, m) ==
    \/ \E k \in 1..Slots(fields) : m[k].fn = "shrinks" /\ m[k].data # <<>>
    \/ ShrinksInside(fields, m)

PbInit ==
    /\ type \in 1..Len(MessageTypes)
    /\ more = <<>>
    /\ room = 0
    /\ mishap = "none"
    /\ result = IStream(<<>>, 0, TRUE)
    /\ \/ /\ msg \in Structs(Fields)
          /\ stage = "message"
          /\ wire = <<>>
       \/ /\ msg = <<>>
          /\ stage = "wire"
          /\ wire \in UNION {[1..n -> RawBytes] : n \in 0..MaxRaw}

\* pb_encode to a buffer that is too small, just right or larger.
EncodeMessage ==
    /\ stage = "message"
    /\ LET n == GetEncodedSize(Fields, msg)
       IN \E max \in {0, n - 1, n, n + 1} :
            /\ max >= 0
            /\ room' = max
            /\ result' = Encode(OStream(max), Fields, msg)
    /\ wire' = result'.out
    /\ stage' = "encoded"
    /\ UNCHANGED <<type, msg, more, mishap>>

\* The bytes on their way.
Transmit ==
    /\ stage = "encoded"
    /\ result.ok
    /\ room = Len(wire)
    /\ ~Shrinks(Fields, msg)
    /\ stage' = "wire"
    /\ \/ UNCHANGED <<wire, more, mishap>>
       \/ /\ \E n \in 0..(Len(wire) - 1) : wire' = SubSeq(wire, 1, n)
          /\ mishap' = "cut"
          /\ UNCHANGED more
       \/ /\ \E u \in Unknown : wire' \in {wire \o u, u \o wire}
          /\ mishap' = "unknown"
          /\ UNCHANGED more
       \/ /\ more' \in {m \in Structs(Fields) : ~Shrinks(Fields, m)}
          /\ \/ wire' = wire \o Bytes(more') /\ mishap' = "joined"
             \/ wire' = Framed(msg) \o Framed(more') /\ mishap' = "framed"
    /\ UNCHANGED <<type, msg, room, result>>

\* The receiver's struct: its callbacks are set, the rest is not.
RECURSIVE Receiver(_, _)
Receiver(fields, fn) ==
    [k \in 1..Slots(fields) |->
        LET f == FieldOf(fields, k)
        IN IF f.atype = "callback" THEN [BlankSlot(f) EXCEPT !.fn = fn]
           ELSE IF f.ltype = "extension"
           THEN Slot(0, <<[field |-> Field(f.tag + 1, "uvarint", "required", 2),
                           found |-> FALSE, slot |-> Slot(0, 0, "null")]>>, "null")
           ELSE IF f.ltype = "submessage" /\ f.htype \in {"required", "optional"}
           THEN [BlankSlot(f) EXCEPT !.data = Receiver(f.sub, fn)]
           ELSE BlankSlot(f)]

\* Two delimited messages are read into one struct, one after the other: the
\* second is given the struct as the first left it.
DecodeTwice(s, struct) ==
    LET first == DecodeDelimited(s, Fields, struct)
    IN IF first.ok THEN DecodeDelimited(first, Fields, first.v) ELSE first

\* The user's callbacks, and what a shift by the width of a word gives.
Callbacks(fields) ==
    IF \E i \in 1..Len(fields) : fields[i].atype = "callback"
    THEN {"steady", "bytewise", "fails"} ELSE {"steady"}
Shifts(fields) ==
    IF RequiredCount(fields) > 0 /\ RequiredCount(fields) % WordBits = 0
    THEN BOOLEAN ELSE {TRUE}

DecodeMessage ==
    /\ stage = "wire"
    /\ \E io \in {Len(wire)} \cup (IF mishap = "none" THEN {Len(wire) - 1} ELSE {}),
          fn \in Callbacks(Fields), luck \in Shifts(Fields) :
         LET s == IStream(wire, io, luck)
             struct == Receiver(Fields, fn)
         IN /\ io >= 0
            /\ result' = IF mishap = "framed" THEN DecodeTwice(s, struct)
                                              ELSE Decode(s, Fields, struct)
            /\ mishap' = IF fn = "fails" \/ io < Len(wire) THEN "failing" ELSE mishap
    /\ stage' = "decoded"
    /\ UNCHANGED <<type, msg, more, wire, room>>

PbNext == EncodeMessage \/ Transmit \/ DecodeMessage

-----------------------------------------------------------------------------
(***************************************************************************)
(* The reference: what a struct says, whatever is in the parts nobody      *)
(* looks at, and what two messages say one after the other (the merge of   *)
(* the protobuf encoding).                                                 *)
(***************************************************************************)
RECURSIVE Plain(_, _), Merge(_, _, _), Behind(_, _, _), Fits(_, _)

PlainItem(f, v) == IF f.ltype = "submessage" THEN Plain(f.sub, v) ELSE v

Given(f, slot) == IF f.explicit THEN slot.size = 1
                  ELSE PlainItem(f, slot.data) # PlainItem(f, BlankItem(f))

Plain(fields, a) ==
    [k \in 1..Slots(fields) |->
       LET f == FieldOf(fields, k)
           s == a[k]
       IN CASE f.atype = "callback" -> IF s.fn = "null" THEN <<>> ELSE s.data
            [] f.ltype = "extension" -> s.data[1].slot.data
            [] f.htype = "required" -> PlainItem(f, s.data)
            [] f.htype = "optional" -> IF Given(f, s) THEN <<PlainItem(f, s.data)>> ELSE <<>>
            [] f.htype = "repeated" -> [i \in 1..s.size |-> PlainItem(f, s.data[i])]
            [] f.htype = "oneof" ->
                 IF s.size = 0 THEN <<>>
                 ELSE <<s.size, PlainItem(fields[Find(fields, s.size)], s.data)>>]

Merge(fields, a, b) ==
    [k \in 1..Slots(fields) |->
       LET f == FieldOf(fields, k)
       IN CASE f.atype = "callback" \/ f.htype = "repeated" -> a[k] \o b[k]
            [] f.ltype = "submessage" /\ f.htype = "required" -> Merge(f.sub, a[k], b[k])
            [] f.ltype = "submessage" /\ f.htype = "optional" /\ a[k] # <<>> /\ b[k] # <<>> ->
                 <<Merge(f.sub, a[k][1], b[k][1])>>
            [] f.htype \in {"optional", "oneof"} /\ f.ltype # "extension" ->
                 IF b[k] = <<>> THEN a[k] ELSE b[k]
            [] OTHER -> b[k]]

\* What message b leaves in the struct a was read into: nothing of a is left
\* but what its callbacks were given, which is the user's.
Behind(fields, a, b) ==
    [k \in 1..Slots(fields) |->
       LET f == FieldOf(fields, k)
       IN CASE f.atype = "callback" -> a[k] \o b[k]
            [] f.ltype = "submessage" /\ f.htype = "required" -> Behind(f.sub, a[k], b[k])
            [] f.ltype = "submessage" /\ f.htype = "optional" /\ a[k] # <<>> /\ b[k] # <<>> ->
                 <<Behind(f.sub, a[k][1], b[k][1])>>
            [] OTHER -> b[k]]

\* No array is longer than the struct's.
Fits(fields, a) ==
    \A k \in 1..Slots(fields) :
       LET f == FieldOf(fields, k)
       IN CASE f.htype = "repeated" /\ f.atype = "static" -> Len(a[k]) <= f.array
            [] f.ltype = "submessage" /\ f.htype = "required" -> Fits(f.sub, a[k])
            [] f.ltype = "submessage" /\ f.htype = "optional" ->
                 a[k] = <<>> \/ Fits(f.sub, a[k][1])
            [] OTHER -> TRUE

-----------------------------------------------------------------------------
Decoded(kind) == stage = "decoded" /\ mishap = kind /\ msg # <<>>

(***************************************************************************)
(* What was encoded is what is decoded: pb_decode of the bytes pb_encode   *)
(* wrote succeeds and gives a struct with the same contents, packed        *)
(* arrays, unions, extensions, callbacks and proto3 fields included        *)
(* (pb_encode.c:448, pb_decode.c:840).                                     *)
(***************************************************************************)
RoundTrip ==
    Decoded("none") => /\ result.ok
                       /\ Plain(Fields, result.v) = Plain(Fields, msg)

(***************************************************************************)
(* A second message behind the first is merged into it (scalars and unions *)
(* replaced, arrays appended, submessages merged), or refused when an      *)
(* array has no room for both: pb_decode.c:1188 initialises a submessage   *)
(* only when it is a new array entry.                                      *)
(***************************************************************************)
JoinedMessagesMerge ==
    Decoded("joined") =>
        LET both == Merge(Fields, Plain(Fields, msg), Plain(Fields, more))
        IN IF Fits(Fields, both)
           THEN result.ok /\ Plain(Fields, result.v) = both
           ELSE ~result.ok

(***************************************************************************)
(* Fields the receiver's type does not have, before or after the ones it   *)
(* has, change nothing (pb_skip_field, pb_decode.c:268).                   *)
(***************************************************************************)
UnknownFieldsAreSkipped ==
    Decoded("unknown") => /\ result.ok
                          /\ Plain(Fields, result.v) = Plain(Fields, msg)

(***************************************************************************)
(* Delimited messages are read one at a time: the second is decoded into   *)
(* the same struct as if the first had not been there, whatever arrays,    *)
(* unions, submessages and extensions it left (pb_decode.c:763, 958, 969); *)
(* only callbacks are not reset (:830).                                    *)
(***************************************************************************)
FramesStaySeparate ==
    Decoded("framed") => /\ result.ok
                         /\ Plain(Fields, result.v) = Behind(Fields, Plain(Fields, msg), Plain(Fields, more))

\* The struct without the extensions that were not found.
Found(fields, m) ==
    [k \in 1..Slots(fields) |->
        IF FieldOf(fields, k).ltype = "extension"
        THEN [m[k] EXCEPT !.data = SelectSeq(@, LAMBDA e : e.found)] ELSE m[k]]

(***************************************************************************)
(* A message that arrives cut is not taken for a whole one: pb_decode      *)
(* refuses it, or no required field is missing and what was decoded,       *)
(* encoded again, is what arrived, except for the start of a tag, which    *)
(* pb_decode_tag takes for the end (pb_decode.c:98, 251, 919).             *)
(***************************************************************************)
CutsAreNoticed ==
    (Decoded("cut") /\ result.ok) =>
        LET again == Bytes(Found(Fields, result.v))
        IN /\ Len(again) <= Len(wire)
           /\ again = SubSeq(wire, 1, Len(again))
           /\ \A i \in (Len(again) + 1)..Len(wire) : wire[i] >= 128

(***************************************************************************)
(* pb_get_encoded_size is exact: pb_encode succeeds when, and only when,   *)
(* the buffer has that many bytes, and then writes that many               *)
(* (pb_encode.c:91, 480).                                                  *)
(***************************************************************************)
SizeIsExact ==
    (stage = "encoded" /\ ~Shrinks(Fields, msg)) =>
        LET n == GetEncodedSize(Fields, msg)
        IN /\ result.ok <=> n <= room
           /\ result.ok => Len(wire) = n

(***************************************************************************)
(* Whatever the callbacks write, pb_encode stays within the buffer, and a  *)
(* submessage that came out shorter than the length already written for it *)
(* is an error (pb_encode.c:637 "Submsg size changed").                    *)
(***************************************************************************)
SizeChangeIsNoticed ==
    stage = "encoded" => /\ Len(wire) <= room
                         /\ ShrinksInside(Fields, msg) => ~result.ok

RECURSIVE InBounds(_, _)
ItemInBounds(f, v) ==
    CASE f.ltype = "uvarint" -> v \in 0..(2^Bits[f.size] - 1)
      [] f.ltype \in {"varint", "svarint"} -> Signed(v, Bits[f.size]) = v
      [] f.ltype \in {"string", "bytes"} -> Len(v) < f.size
      [] f.ltype = "fixed_length" -> Len(v) \in {0, f.size}
      [] f.ltype = "submessage" -> InBounds(f.sub, v)
      [] OTHER -> TRUE
InBounds(fields, m) ==
    \A k \in 1..Slots(fields) :
        LET f == FieldOf(fields, k)
        IN IF f.atype = "callback" THEN TRUE
           ELSE IF f.htype = "repeated"
           THEN m[k].size <= f.array /\ \A i \in 1..m[k].size : ItemInBounds(f, m[k].data[i])
           ELSE IF f.htype = "oneof"
           THEN m[k].size = 0 \/ ItemInBounds(fields[Find(fields, m[k].size)], m[k].data)
           ELSE ItemInBounds(f, m[k].data)

(***************************************************************************)
(* Whatever the bytes are, pb_decode reads no byte that is not there and,  *)
(* when it succeeds, no value is wider, no string longer and no array      *)
(* fuller than the struct's field (pb_decode.c:379, 1165-1379).            *)
(***************************************************************************)
StaysInBounds ==
    stage = "decoded" =>
        /\ result.at <= Len(wire)
        /\ result.ok => InBounds(Fields, result.v)

\* A message arrives as it was sent or is refused, within its buffer.
MessagesArriveWhole ==
  /\ SizeIsExact
  /\ SizeChangeIsNoticed
  /\ StaysInBounds
  /\ RoundTrip
  /\ UnknownFieldsAreSkipped
  /\ JoinedMessagesMerge
  /\ FramesStaySeparate
  /\ CutsAreNoticed
=============================================================================
