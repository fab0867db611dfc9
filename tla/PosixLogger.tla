----------------------------- MODULE PosixLogger -----------------------------
(***************************************************************************)
(* PosixLogger::Logv of util/posix_logger.h: a line of the info log is     *)
(* formatted into a small buffer and, when it does not fit, again into a   *)
(* large one.  The buffers are scaled down; a byte is "head" or "text" (of *)
(* the time stamp or the message), "newline", the "zero" that snprintf     *)
(* stores behind its output, or "junk".                                    *)
(***************************************************************************)
EXTENDS Naturals, Sequences

CONSTANTS SmallBuffer,   \* sizeof(buffer), 500
          LargeBuffer,   \* 30000
          MaxLine        \* lengths of time stamps and of messages

ASSUME LoggerAssumption ==
    SmallBuffer \in Nat \ {0} /\ LargeBuffer \in Nat \ {0} /\ MaxLine \in Nat

VARIABLES call,     \* the time stamp and the message of the last call
          memory,   \* the buffer after the call, and the byte behind it
          written   \* the line that went to the file

loggerVars == <<call, memory, written>>

\* snprintf(p, limit - p, ...): what fits, and a zero.
Snprintf(buffer, p, limit, text) ==
    [i \in 1..Len(buffer) |->
        IF i \in (p + 1)..(limit - 1) /\ i - p <= Len(text) THEN text[i - p]
        ELSE IF i = limit /\ p + Len(text) >= limit THEN "zero"
        ELSE IF i <= limit /\ i = p + Len(text) + 1 THEN "zero"
        ELSE buffer[i]]

\* The return value counts the zero (a mistake).
FullTight(p, limit) == p > limit
Full(p, limit) == p >= limit

\* One pass of the loop with a buffer of bufsize bytes: the buffer and p.
Format(bufsize, header, message) ==
    LET junk == [i \in 1..(bufsize + 1) |-> "junk"]
        b == Snprintf(junk, 0, bufsize, header)
        p == Len(header)
    IN IF p < bufsize THEN [b |-> Snprintf(b, p, bufsize, message), p |-> p + Len(message)]
       ELSE [b |-> b, p |-> p]

\* The rest of the pass: truncate, end the line and write it.
EndLine(f, bufsize) ==
    LET p == IF Full(f.p, bufsize) THEN bufsize - 1 ELSE f.p
    IN IF p > 0 /\ f.b[p] = "newline" THEN [f EXCEPT !.p = p]
       ELSE [b |-> [f.b EXCEPT ![p + 1] = "newline"], p |-> p + 1]

Logv(header, message) ==
    LET f == Format(SmallBuffer, header, message)
        e == IF Full(f.p, SmallBuffer) THEN EndLine(Format(LargeBuffer, header, message), LargeBuffer)
             ELSE EndLine(f, SmallBuffer)
    IN /\ call' = header \o message
       /\ memory' = e.b
       /\ written' = SubSeq(e.b, 1, e.p)

-----------------------------------------------------------------------------
Repeat(x, n) == [i \in 1..n |-> x]

LoggerInit == call = <<>> /\ memory = <<"junk">> /\ written = <<>>

LoggerNext == \E h \in 0..MaxLine, m \in 0..MaxLine, end \in {<<>>, <<"newline">>} :
                  Logv(Repeat("head", h), Repeat("text", m) \o end)

LoggerSpec == LoggerInit /\ [][LoggerNext]_loggerVars

(***************************************************************************)
(* Whatever the lengths, nothing is stored behind the buffer, and the line *)
(* in the file is the whole text (its first bytes, when it is longer than  *)
(* the large buffer) with exactly one newline at its end and no zero       *)
(* inside (posix_logger.h:63-85).                                          *)
(***************************************************************************)
LinesAreWhole ==
    written # <<>> =>
        LET n == Len(written)
            \* the line without its newline, and the text without its own
            text == IF call # <<>> /\ call[Len(call)] = "newline"
                    THEN SubSeq(call, 1, Len(call) - 1) ELSE call
        IN /\ memory[Len(memory)] = "junk"
           /\ n < Len(memory) /\ written[n] = "newline"
           /\ n - 1 <= Len(text) /\ SubSeq(written, 1, n - 1) = SubSeq(text, 1, n - 1)
           /\ (Len(call) < LargeBuffer => n - 1 = Len(text))
=============================================================================
