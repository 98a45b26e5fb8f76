----------------------------- MODULE PipeReader -----------------------------
(***************************************************************************)
(* Interpret::interpPipe(): commands are cut out of a stream that arrives  *)
(* in chunks of any size.  The buffer grows by doubling, what follows a    *)
(* command is moved to its front, and three flags and a counter carry the  *)
(* state of the scan over the end of a chunk.                              *)
(*                                                                         *)
(* A text is a sequence over "(", ")", ";", "|", "q" (a double quote),     *)
(* "n" (a newline) and "e", the word that makes a command (exit).  Parsing *)
(* and executing a command is external but for what it means to the loop.  *)
(***************************************************************************)
EXTENDS Naturals, Integers, Sequences, SequencesExt

CONSTANTS
    Chars,       \* characters of the texts tried
    MaxLength,   \* bound: their length
    InitialSize  \* buf_sz of an empty buffer

VARIABLES
    text,      \* everything the other side writes before it closes the pipe
    read,      \* how much of it was read
    size,      \* buf_sz
    buf,       \* the buffer up to rd_head
    scan,      \* i, par, inComment, inString, inQuotedSymbol
    done,      \* the loop is to stop after this chunk
    exited,    \* f_exit
    executed,  \* the texts of the commands executed
    ended      \* "no", or how the loop ended: "stop" or "error"

vars == <<text, read, size, buf, scan, done, exited, executed, ended>>

Texts == UNION {[1 .. n -> Chars] : n \in 0 .. MaxLength}

Init ==
    /\ text \in Texts
    /\ read = 0
    /\ size = InitialSize
    /\ buf = <<>>
    /\ scan = [i |-> 0, par |-> 0, inComment |-> FALSE, inString |-> FALSE, inQuotedSymbol |-> FALSE]
    /\ done = FALSE
    /\ exited = FALSE
    /\ executed = <<>>
    /\ ended = "no"

-----------------------------------------------------------------------------

(* A character of a text is code or part of a comment, a string or a       *)
(* quoted symbol.                                                          *)

\* The mode after a character c met in mode m.
NextMode(m, c) ==
    CASE m = "comment" -> IF c = "n" THEN "code" ELSE m
      [] m = "string"  -> IF c = "q" THEN "code" ELSE m
      [] m = "symbol"  -> IF c = "|" THEN "code" ELSE m
      [] m = "code"    -> CASE c = ";" -> "comment" [] c = "q" -> "string" [] c = "|" -> "symbol" [] OTHER -> m

\* Mode and depth of parentheses before the first and after each character.
Reading(t) ==
    FoldLeft(LAMBDA acc, c : LET p == Last(acc) IN
                 Append(acc, [mode |-> NextMode(p.mode, c),
                              depth |-> p.depth + (IF p.mode = "code" /\ c = "(" THEN 1
                                                   ELSE IF p.mode = "code" /\ c = ")" THEN -1 ELSE 0)]),
             <<[mode |-> "code", depth |-> 0]>>, t)

Balanced(t) == LET reading == Reading(t) IN \A k \in DOMAIN reading : reading[k].depth >= 0

\* What the parser makes of a command, as far as the loop can tell.
Parses(command) == Balanced(command)
IsExit(command) == command = <<"(", "e", ")">>

\* One run of the loop body over the character at i, in the state r of a chunk.
\* The flags are set in this order, and the character that ends a quotation
\* falls through to the next test.
ScanChar(r, c) ==
    LET s == r.scan
        inComment == IF s.inComment \/ (~ s.inQuotedSymbol /\ ~ s.inString /\ c = ";")
                     THEN c # "n" ELSE FALSE
        inQuotedSymbol == IF inComment THEN s.inQuotedSymbol
                          ELSE IF s.inQuotedSymbol THEN c # "|" ELSE ~ s.inString /\ c = "|"
        inString == IF inComment \/ inQuotedSymbol THEN s.inString
                    ELSE IF s.inString THEN c # "q" ELSE c = "q"
        code == ~ inComment /\ ~ inQuotedSymbol /\ ~ inString
        par == s.par + (IF code /\ c = "(" THEN 1 ELSE IF code /\ c = ")" THEN -1 ELSE 0)
        cut == code /\ c = ")" /\ par = 0
        command == SubSeq(r.buf, 1, s.i + 1)
        exits == r.exited \/ (cut /\ IsExit(command))
    IN  [scan |-> [i |-> IF cut THEN 0 ELSE s.i + 1, par |-> par, inComment |-> inComment,
                   inString |-> inString, inQuotedSymbol |-> inQuotedSymbol],
         buf |-> IF cut THEN SubSeq(r.buf, s.i + 2, Len(r.buf)) ELSE r.buf,
         exited |-> exits,
         done |-> (IF cut /\ Parses(command) THEN exits ELSE r.done) \/ (code /\ c = ")" /\ par < 0),
         executed |-> IF cut /\ ~ r.exited THEN Append(r.executed, command) ELSE r.executed]

\* Mutant: the buffer is taken for full one character late.
GrownLate == IF Len(buf) = size THEN 2 * size ELSE size

\* realloc() when only the place of the terminating zero is left.
Grown == IF Len(buf) = size - 1 THEN 2 * size ELSE size

\* Mutant: the flags are local to a chunk.
ReadChunkAfresh(n) ==
    /\ ended = "no" /\ ~ done
    /\ n <= Len(text) - read /\ n <= Grown - Len(buf) - 1
    /\ LET chunk == SubSeq(text, read + 1, read + n)
           fresh == [scan EXCEPT !.inComment = FALSE, !.inString = FALSE, !.inQuotedSymbol = FALSE]
           start == [scan |-> fresh, buf |-> buf \o chunk, exited |-> exited, done |-> done, executed |-> executed]
           r == FoldLeft(ScanChar, start, chunk)
       IN  /\ scan' = r.scan /\ buf' = r.buf /\ exited' = r.exited
           /\ done' = r.done /\ executed' = r.executed
    /\ read' = read + n
    /\ size' = Grown
    /\ UNCHANGED <<text, ended>>

\* One run of the outer loop: read() returns some of what fits, and all of it
\* is scanned, whatever done says on the way.
ReadChunk(n) ==
    /\ ended = "no" /\ ~ done
    /\ n <= Len(text) - read /\ n <= Grown - Len(buf) - 1
    /\ LET chunk == SubSeq(text, read + 1, read + n)
           start == [scan |-> scan, buf |-> buf \o chunk, exited |-> exited, done |-> done, executed |-> executed]
           r == FoldLeft(ScanChar, start, chunk)
       IN  /\ scan' = r.scan /\ buf' = r.buf /\ exited' = r.exited
           /\ done' = r.done /\ executed' = r.executed
    /\ read' = read + n
    /\ size' = Grown
    /\ UNCHANGED <<text, ended>>

\* read() returns 0 at the end of the stream, and would if no room were left
\* in the buffer, or done ends the loop.
Stop ==
    /\ ended = "no"
    /\ done \/ read = Len(text) \/ Len(buf) = Grown - 1
    /\ ended' = "stop"
    /\ size' = IF done THEN size ELSE Grown
    /\ UNCHANGED <<text, read, buf, scan, done, exited, executed>>

\* read() returns -1.
ReadError ==
    /\ ended = "no" /\ ~ done
    /\ ended' = "error"
    /\ size' = Grown
    /\ UNCHANGED <<text, read, buf, scan, done, exited, executed>>

Next == Stop \/ ReadError \/ \E n \in 1 .. MaxLength : ReadChunk(n)

\* The loop runs until it ends; the other side writes on or closes the pipe.
\* This is WF_vars(Next): Next is enabled exactly until the loop has ended.
Fairness == []<>(ended # "no") \/ []<><<Next>>_vars

Spec == Init /\ [][Next]_vars /\ Fairness

-----------------------------------------------------------------------------
(* Reference: the commands of the text read as a whole.                    *)

\* Where commands end.
Ends(t) == LET reading == Reading(t) IN
    {k \in 1 .. Len(t) : t[k] = ")" /\ reading[k].mode = "code" /\ reading[k + 1].depth = 0}

\* The commands of a text, up to the first that exits.
Commands(t) ==
    LET ends == SetToSortSeq(Ends(t), <)
        from(j) == IF j = 1 THEN 1 ELSE ends[j - 1] + 1
        all == [j \in DOMAIN ends |-> SubSeq(t, from(j), ends[j])]
        exits == {j \in DOMAIN all : IsExit(all[j])}
    IN  IF exits = {} THEN all ELSE SubSeq(all, 1, CHOOSE j \in exits : \A k \in exits : j <= k)

-----------------------------------------------------------------------------
(* Properties.                                                             *)

\* The assertions at the head of the loop, and no two quotations at a time.
TypeOK ==
    /\ scan.i = Len(buf)
    /\ Len(buf) < size
    /\ read \in 0 .. Len(text)
    /\ ~ (scan.inComment /\ scan.inString) /\ ~ (scan.inComment /\ scan.inQuotedSymbol)
    /\ ~ (scan.inString /\ scan.inQuotedSymbol)

\* However a text is split into chunks, the commands executed are those of the
\* whole text, as far as it was read, up to the first (exit).
ChunksDoNotMatter ==
    Balanced(text) => executed = Commands(SubSeq(text, 1, read))

\* Nothing read is lost: what is not executed is in the buffer.
NothingDropped ==
    (Balanced(text) /\ ~ exited) => FlattenSeq(executed) \o buf = SubSeq(text, 1, read)

\* What the reader does with a text whatever the chunks.
ReadsRight == TypeOK /\ ChunksDoNotMatter /\ NothingDropped

\* The loop ends, and unless reading fails it ends with all of a balanced text
\* read or an (exit) executed.
Finished ==
    /\ ended # "no"
    /\ (Balanced(text) /\ ended # "error") => (read = Len(text) \/ exited)
ReaderEnds == <>[]Finished
=============================================================================
