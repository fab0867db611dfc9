--------------------------------- MODULE Pb ---------------------------------
(***************************************************************************)
(* nanopb's field descriptors and message structs: pb.h and pb_common.c,   *)
(* as built here (PB_FIELD_32BIT, no PB_ENABLE_MALLOC).                    *)
(*                                                                         *)
(* A message type is a sequence of fields.  A struct is a sequence of      *)
(* slots, one per field or oneof, each with what iter->pSize points at     *)
(* (has_, _count or which_), what iter->pData points at and, for a         *)
(* callback field, the user's function.  Bytes are 0..255 with a varint    *)
(* payload of 7 bits; the integer widths are scaled down, and so is the    *)
(* word of fields_seen.                                                    *)
(***************************************************************************)
EXTENDS Integers, Sequences

CONSTANTS Bits,        \* width of an integer of 1, 2, 4 and 8 bytes
          Fixed32, Fixed64,   \* bytes of a fixed32 and of a fixed64
          WordBits     \* bits of a word of fields_seen (32)

\* Field descriptors.  sub: the fields of a submessage; explicit: there is a
\* has_ field (size_offset); union: the data is that of the field before.
Field(tag, ltype, htype, size) ==
    [tag |-> tag, ltype |-> ltype, htype |-> htype, atype |-> "static",
     size |-> size, array |-> 0, explicit |-> TRUE, sub |-> <<>>,
     union |-> FALSE]

Packable(f) == f.ltype \in {"varint", "uvarint", "svarint", "fixed32", "fixed64"}

WireType(f) ==
    CASE f.ltype \in {"varint", "uvarint", "svarint"} -> 0
      [] f.ltype = "fixed64" -> 1
      [] f.ltype = "fixed32" -> 5
      [] OTHER -> 2

\* (intN_t) of an unsigned value.
Signed(v, bits) == LET u == v % 2^bits
                   IN IF u >= 2^(bits - 1) THEN u - 2^bits ELSE u

-----------------------------------------------------------------------------
(***************************************************************************)
(* pb_field_iter_next: the slot of each field; inside a union the pointers *)
(* do not advance.                                                         *)
(***************************************************************************)
Advances(fields, i) ==
    ~(/\ fields[i - 1].htype = "oneof"
      /\ fields[i].htype = "oneof"
      /\ fields[i].union)

SlotOf(fields) ==
    LET slot[i \in 1..Len(fields)] ==
            IF i = 1 THEN 1
            ELSE IF Advances(fields, i) THEN slot[i - 1] + 1 ELSE slot[i - 1]
    IN slot

Slots(fields) == IF fields = <<>> THEN 0 ELSE SlotOf(fields)[Len(fields)]

\* pb_field_iter_find: the field with this tag, extensions apart; 0 if none.
Find(fields, tag) ==
    LET found == {i \in 1..Len(fields) : /\ fields[i].tag = tag
                                         /\ fields[i].ltype # "extension"}
    IN IF found = {} THEN 0 ELSE CHOOSE i \in found : TRUE

\* find_extension_field: the placeholder of the extensions; 0 if none.
FindExtension(fields) ==
    LET found == {i \in 1..Len(fields) : fields[i].ltype = "extension"}
    IN IF found = {} THEN 0 ELSE CHOOSE i \in found : TRUE

\* required_field_index: the required fields before field i.
RequiredIndex(fields, i) ==
    Len(SelectSeq(SubSeq(fields, 1, i - 1), LAMBDA f : f.htype = "required"))

RequiredCount(fields) == RequiredIndex(fields, Len(fields) + 1)

\* A struct of zero bytes: arrays are full length, callbacks are NULL.
RECURSIVE BlankStruct(_)

BlankItem(f) ==
    CASE f.ltype \in {"bytes", "string", "fixed_length"} -> <<>>
      [] f.ltype = "submessage" -> BlankStruct(f.sub)
      [] f.ltype = "extension" -> <<>>
      [] OTHER -> 0

BlankSlot(f) ==
    [size |-> 0, fn |-> "null",
     data |-> IF f.atype = "callback" THEN <<>>
              ELSE IF f.htype = "repeated" THEN [i \in 1..f.array |-> BlankItem(f)]
              ELSE BlankItem(f)]

FieldOf(fields, k) ==
    fields[CHOOSE i \in 1..Len(fields) :
              /\ SlotOf(fields)[i] = k
              /\ \A j \in 1..(i - 1) : SlotOf(fields)[j] # k]

BlankStruct(fields) == [k \in 1..Slots(fields) |-> BlankSlot(FieldOf(fields, k))]
=============================================================================
