-------------------------------- MODULE Head --------------------------------
(***************************************************************************)
(* head.c: the first lines or bytes of every input, or all but the last    *)
(* ones, for which a file is read backwards, a buffer at a time.  "-", the *)
(* input when there is no operand, is the standard input.                  *)
(***************************************************************************)
EXTENDS CmdBase

\* The static variables after the option loop of main.  -c and -n take a
\* number that a minus sign may precede; the last of them counts.
HeadDefaults ==
    [bytes |-> FALSE, elide |-> FALSE, num |-> 10, q |-> FALSE, v |-> FALSE,
     line_end |-> Newline, first_line |-> TRUE]

HeadOption(s, a) ==
    CASE a.o \in {"c", "n"} -> [s EXCEPT !.bytes = (a.o = "c"), !.elide = (a.sign = "-"),
                                         !.num = StringToInteger(a.digits)]
      [] a.o = "q" -> [s EXCEPT !.q = TRUE]
      [] a.o = "v" -> [s EXCEPT !.v = TRUE]
      [] a.o = "z" -> [s EXCEPT !.line_end = "nul"]

HeadMain ==
    /\ prog = "head" /\ pc = "main"
    /\ g' = FoldLeft(HeadOption, HeadDefaults, argv)
    /\ Goto("file", None) /\ UNCHANGED <<out, off>>

PrintHeaders == g.v \/ (~g.q /\ Len(fs) > 1)

\* main's loop, head_file and head: open the next operand, print its header
\* and call the function for the options.
HeadCall ==
    CASE g.elide /\ ~g.bytes -> <<"elide_tail_lines", None>>
      [] g.elide /\ g.bytes -> <<"elide_tail_bytes", None>>
      [] ~g.elide /\ ~g.bytes -> <<"head_lines", [lines |-> g.num]>>
      [] OTHER -> <<"copy", CopyLocals(g.num, <<>>)>>

HeadFile ==
    /\ prog = "head" /\ pc = "file"
    /\ \/ fi > Len(fs) /\ Exit(TRUE)
       \/ fi <= Len(fs) /\ In.kind = "missing" /\ Exit(FALSE)
       \/ /\ fi <= Len(fs) /\ In.kind # "missing"
          /\ Goto(HeadCall[1], HeadCall[2]) /\ off' = 0
          /\ IF PrintHeaders
             THEN out' = out \o Header(fi) /\ g' = [g EXCEPT !.first_line = FALSE]
             ELSE UNCHANGED <<out, g>>

\* head_lines: one buffer.  The offset is moved back behind the last line
\* wanted before the buffer is written, which fails on a pipe.
HeadLines ==
    /\ prog = "head" /\ pc = "head_lines"
    /\ \/ v.lines = 0 /\ Return(TRUE) /\ UNCHANGED <<out, g>>
       \/ /\ v.lines > 0
          /\ \E n \in Reads(off, BufSize) :
               LET b == Block(off, n)
                   found == Cardinality(Ends(b, g.line_end))
               IN \/ n < 0 /\ Exit(FALSE)
                  \/ n = 0 /\ Return(TRUE) /\ UNCHANGED <<out, g>>
                  \/ /\ n > 0 /\ found < v.lines
                     /\ Goto("head_lines", [lines |-> v.lines - found])
                     /\ out' = out \o b /\ off' = off + n /\ UNCHANGED g
                  \/ /\ n > 0 /\ found >= v.lines /\ Seekable
                     /\ LET k == NthEnd(b, g.line_end, v.lines) IN
                          out' = out \o SubSeq(b, 1, k) /\ off' = off + k
                     /\ Goto("head_lines", [lines |-> 0]) /\ UNCHANGED g
                  \/ /\ n > 0 /\ found >= v.lines /\ ~Seekable
                     /\ Return(FALSE) /\ UNCHANGED <<out, g>>

\* elide_tail_lines_file: the last buffer first, which is shorter than the
\* others (and empty when they fill the file).  A last line without its end
\* counts as one of the lines left out.
ElideTailLines ==
    /\ prog = "head" /\ pc = "elide_tail_lines"
    /\ LET size == FileSize
           b == size % BufSize
           last == Block(size - b, b)
       IN \/ /\ g.num = 0 \/ size = 0
             /\ Goto("copy", CopyLocals(size, <<>>)) /\ UNCHANGED <<out, g, off>>
          \/ /\ g.num # 0 /\ size # 0 /\ -1 \in Reads(size - b, b)
             /\ Return(FALSE) /\ UNCHANGED <<out, g>>
          \/ /\ g.num # 0 /\ size # 0 /\ -1 \notin Reads(size - b, b)
             /\ Goto("elide_tail_scan",
                     [pos |-> size - b, buf |-> last,
                      lines |-> IF b > 0 /\ last[b] # Newline THEN g.num - 1 ELSE g.num])
             /\ UNCHANGED <<out, g, off>>

\* The last byte printed of a buffer in which more line ends than lines are
\* found: the end before the lines left out.  Faulty variant: off by one.
LastShown_Off(b, lines) == NthLastEnd(b, g.line_end, Max({1, lines}))
LastShown(b, lines) == NthLastEnd(b, g.line_end, lines + 1)

\* The loop of elide_tail_lines_file: the line ends of one buffer, counted
\* backwards.
ElideTailScan ==
    /\ prog = "head" /\ pc = "elide_tail_scan"
    /\ LET found == Cardinality(Ends(v.buf, g.line_end)) IN
       \/ /\ found > v.lines
          /\ Goto("copy", CopyLocals(v.pos, SubSeq(v.buf, 1, LastShown(v.buf, v.lines))))
          /\ off' = 0 /\ UNCHANGED <<out, g>>
       \/ found <= v.lines /\ v.pos = 0 /\ Return(TRUE) /\ UNCHANGED <<out, g>>
       \/ /\ found <= v.lines /\ v.pos > 0
          /\ Goto("elide_tail_scan",
                  [pos |-> v.pos - BufSize, lines |-> v.lines - found,
                   buf |-> Block(v.pos - BufSize, BufSize)])
          /\ UNCHANGED <<out, g, off>>

\* elide_tail_bytes_file: num is changed for head_bytes and restored.  lseek
\* on a pipe returns -1, and what is left to copy is negative.
ElideTailBytes ==
    /\ prog = "head" /\ pc = "elide_tail_bytes"
    /\ LET n == (IF Seekable THEN FileSize ELSE -1) - g.num IN
       \/ n > 0 /\ Goto("copy", CopyLocals(n, <<>>)) /\ off' = 0
                /\ g' = [g EXCEPT !.num = n] /\ UNCHANGED out
       \/ n <= 0 /\ Return(TRUE) /\ UNCHANGED <<out, g>>

HeadCopy == prog = "head" /\ CopyFd

HeadNext == HeadMain \/ HeadFile \/ HeadLines \/ HeadCopy
            \/ ElideTailLines \/ ElideTailScan \/ ElideTailBytes
=============================================================================
