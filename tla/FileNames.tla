------------------------------ MODULE FileNames ------------------------------
(***************************************************************************)
(* The names of a database's files: db/filename.cc and ConsumeDecimalNumber *)
(* of util/logging.cc.  A name is a word in front, decimal digits and the  *)
(* rest; kMaxUint64 is scaled down.                                        *)
(***************************************************************************)
EXTENDS Integers, Sequences

CONSTANTS kMaxUint64,    \* the largest file number
          MinDigits,     \* %06llu: the least number of digits (6)
          MaxDigits      \* the longest digit string found in a directory

VARIABLES digits,        \* a digit string found in the directory
          number         \* the last file number handed out, 0 before the first

nameVars == <<digits, number>>

FileTypes == {"log", "dblock", "table", "descriptor", "current", "temp", "infolog"}
FileName(word, ds, rest) == [word |-> word, digits |-> ds, rest |-> rest]

RECURSIVE Decimal(_)
Decimal(n) == IF n < 10 THEN <<n>> ELSE Append(Decimal(n \div 10), n % 10)

RECURSIVE Padded(_)
Padded(ds) == IF Len(ds) >= MinDigits THEN ds ELSE Padded(<<0>> \o ds)

\* MakeFileName, DescriptorFileName, CurrentFileName and their siblings.
NameOf(type, n) ==
    CASE type = "log"        -> FileName("", Padded(Decimal(n)), ".log")
      [] type = "table"      -> FileName("", Padded(Decimal(n)), ".ldb")
      [] type = "temp"       -> FileName("", Padded(Decimal(n)), ".dbtmp")
      [] type = "descriptor" -> FileName("MANIFEST-", Padded(Decimal(n)), "")
      [] type = "current"    -> FileName("CURRENT", <<>>, "")
      [] type = "dblock"     -> FileName("LOCK", <<>>, "")
      [] type = "infolog"    -> FileName("LOG", <<>>, "")

Unnumbered == {"current", "dblock", "infolog"}

\* The digit before the last is not looked at (a mistake).
WrapsLater(v, delta) == v > kMaxUint64 \div 10

Overflows(v, delta) ==
    \/ v > kMaxUint64 \div 10
    \/ v = kMaxUint64 \div 10 /\ delta > kMaxUint64 % 10

\* ConsumeDecimalNumber; the arithmetic is that of uint64_t.
RECURSIVE Consume(_, _)
Consume(ds, v) ==
    IF ds = <<>> THEN [ok |-> TRUE, v |-> v]
    ELSE IF Overflows(v, ds[1]) THEN [ok |-> FALSE, v |-> 0]
    ELSE Consume(Tail(ds), (v * 10 + ds[1]) % (kMaxUint64 + 1))

ConsumeDecimalNumber(ds) ==
    IF ds = <<>> THEN [ok |-> FALSE, v |-> 0] ELSE Consume(ds, 0)

NoFile == [type |-> "none", number |-> 0]

SuffixType(rest) ==
    CASE rest = ".log" -> "log"
      [] rest \in {".sst", ".ldb"} -> "table"
      [] rest = ".dbtmp" -> "temp"
      [] OTHER -> "none"

ParseFileName(name) ==
    LET n == ConsumeDecimalNumber(name.digits)
    IN CASE name = NameOf("current", 0) -> [type |-> "current", number |-> 0]
         [] name = NameOf("dblock", 0)  -> [type |-> "dblock", number |-> 0]
         [] name.word = "LOG" /\ name.digits = <<>> /\ name.rest \in {"", ".old"} ->
                [type |-> "infolog", number |-> 0]
         [] name.word = "MANIFEST-" ->
                IF n.ok /\ name.rest = "" THEN [type |-> "descriptor", number |-> n.v] ELSE NoFile
         [] name.word = "" /\ n.ok /\ SuffixType(name.rest) # "none" ->
                [type |-> SuffixType(name.rest), number |-> n.v]
         [] OTHER -> NoFile

-----------------------------------------------------------------------------
NamesInit == digits = <<>> /\ number = 0

\* VersionSet::NewFileNumber, and names found in a directory.
NewFileNumber == number < kMaxUint64 /\ number' = number + 1 /\ UNCHANGED digits
FindName == /\ Len(digits) < MaxDigits
            /\ \E d \in 0..9 : digits' = Append(digits, d)
            /\ UNCHANGED number

NamesNext == NewFileNumber \/ FindName

\* What the digits say.
Meant(ds) == LET v[i \in 0..Len(ds)] == IF i = 0 THEN 0 ELSE 10 * v[i - 1] + ds[i]
             IN v[Len(ds)]

(***************************************************************************)
(* A number that does not fit is refused and no other number is taken for  *)
(* it: a file never goes by the number of another (logging.cc:55).         *)
(***************************************************************************)
NumbersDoNotWrap ==
    LET n == ConsumeDecimalNumber(digits)
    IN /\ n.ok <=> (digits # <<>> /\ Meant(digits) <= kMaxUint64)
       /\ n.ok => n.v = Meant(digits)

(***************************************************************************)
(* The name made for a file is parsed as that file's, also under the name  *)
(* tables had before, so that no live file is taken for another or for     *)
(* none by DeleteObsoleteFiles and Recover (filename.cc:77).               *)
(***************************************************************************)
NamesParseBack ==
    number > 0 =>
        /\ \A type \in FileTypes :
               ParseFileName(NameOf(type, number)) =
                   [type |-> type, number |-> IF type \in Unnumbered THEN 0 ELSE number]
        /\ ParseFileName(FileName("", Padded(Decimal(number)), ".sst")) =
               [type |-> "table", number |-> number]

\* A file name stands for one type and number.
NamesAreUnambiguous ==
  /\ NumbersDoNotWrap
  /\ NamesParseBack
=============================================================================
