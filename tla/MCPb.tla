------------------------------- MODULE MCPb -------------------------------
(* Message types that between them have every kind of field. *)
EXTENDS PbMessages

MCBits == [i \in {1, 2, 4, 8} |-> CASE i = 1 -> 6 [] i = 2 -> 8 [] i = 4 -> 10 [] i = 8 -> 16]

Optional(tag, ltype, size) == Field(tag, ltype, "optional", size)
Proto3(tag, ltype, size) == [Optional(tag, ltype, size) EXCEPT !.explicit = FALSE]
Array(tag, ltype, size, n) == [Field(tag, ltype, "repeated", size) EXCEPT !.array = n]
Callback(tag) == [Optional(tag, "bytes", 0) EXCEPT !.atype = "callback"]
Message(f, sub) == [f EXCEPT !.ltype = "submessage", !.sub = sub]
Union(tag, ltype, size, first) ==
    [Field(tag, ltype, "oneof", size) EXCEPT !.union = ~first]

Scalars == <<Field(1, "varint", "required", 4), Optional(2, "uvarint", 2),
             Proto3(16, "svarint", 1)>>
Widths == <<Optional(1, "fixed32", 4), Proto3(2, "fixed64", 8),
            Field(3, "fixed_length", "required", 2), Optional(4, "varint", 8)>>
Arrays == <<Array(1, "uvarint", 2, 2), Array(3, "fixed32", 4, 1)>>
Strings == <<Optional(1, "uvarint", 1), Array(2, "string", 2, 2)>>
Inner == <<Array(1, "svarint", 1, 1), Optional(2, "bytes", 3)>>
Nested == <<Message(Optional(1, "submessage", 0), Inner),
            Message(Array(2, "submessage", 0, 1), <<Proto3(1, "uvarint", 1)>>),
            Message(Proto3(3, "submessage", 0), <<Proto3(1, "uvarint", 1)>>)>>
Choice == <<Union(1, "uvarint", 1, TRUE), Union(2, "svarint", 1, FALSE),
            Message(Union(3, "submessage", 0, TRUE), <<Optional(1, "uvarint", 1)>>),
            Message(Union(4, "submessage", 0, FALSE), <<Proto3(1, "uvarint", 2)>>)>>
Functions == <<Callback(1), Message(Optional(2, "submessage", 0), <<Callback(1)>>),
               Field(20, "extension", "optional", 0)>>
Required == <<Field(1, "uvarint", "required", 1),
              Message(Field(2, "submessage", "required", 0), <<Field(1, "uvarint", "required", 1)>>),
              Field(3, "uvarint", "required", 1)>>

MCTypes == <<Scalars, Widths, Arrays, Strings, Nested, Choice, Functions, Required>>

\* Tag 15 as a varint, a fixed64, a string and a fixed32.
MCUnknown == {<<120, 200, 1>>, <<121, 1, 2, 3>>, <<122, 2, 8, 16>>, <<125, 8, 0>>}
=============================================================================
