-------------------------------- MODULE Tail --------------------------------
(***************************************************************************)
(* tail.c: the last lines or bytes of every input, or all from a given     *)
(* line or byte on.  "-", the input when there is no operand, is opened as *)
(* a file of that name.                                                    *)
(***************************************************************************)
EXTENDS CmdBase

\* The static variables after the option loop of main: num starts at 0, and
\* -f and -s only set flags that nothing reads.
TailDefaults ==
    [bytes |-> FALSE, elide |-> FALSE, num |-> 0, q |-> FALSE, v |-> FALSE,
     line_end |-> Newline, first_line |-> TRUE]

TailOption(s, a) ==
    CASE a.o \in {"c", "n"} -> [s EXCEPT !.bytes = (a.o = "c"), !.elide = (a.sign = "+"),
                                         !.num = StringToInteger(a.digits)]
      [] a.o = "q" -> [s EXCEPT !.q = TRUE]
      [] a.o = "v" -> [s EXCEPT !.v = TRUE]
      [] a.o = "z" -> [s EXCEPT !.line_end = "nul"]
      [] a.o \in {"f", "s"} -> s

TailMain ==
    /\ prog = "tail" /\ pc = "main"
    /\ g' = FoldLeft(TailOption, TailDefaults, argv)
    /\ Goto("file", None) /\ UNCHANGED <<out, off>>

\* tail: the function for the options.
TailCall ==
    CASE g.elide /\ g.bytes -> "elide_head_bytes"
      [] g.elide /\ ~g.bytes -> "elide_head_lines"
      [] ~g.elide /\ g.bytes -> "tail_bytes"
      [] OTHER -> "tail_lines"

TailHeaders == g.v \/ (~g.q /\ Len(fs) > 1)

\* main's loop and tail_file: an operand that cannot be opened is skipped.
TailFile ==
    /\ prog = "tail" /\ pc = "file"
    /\ \/ fi > Len(fs) /\ Exit(TRUE)
       \/ /\ fi <= Len(fs) /\ In.kind = "missing"
          /\ Return(FALSE) /\ UNCHANGED <<out, g>>
       \/ /\ fi <= Len(fs) /\ In.kind # "missing"
          /\ Goto(TailCall, None) /\ off' = 0
          /\ IF TailHeaders
             THEN out' = out \o Header(fi) /\ g' = [g EXCEPT !.first_line = FALSE]
             ELSE UNCHANGED <<out, g>>

\* copy_fd of tail.c is copy_fd of head.c.
TailCopy == prog = "tail" /\ CopyFd

\* tail_lines: the last buffer first, as long as the others if it is full.
TailLines ==
    /\ prog = "tail" /\ pc = "tail_lines"
    /\ LET size == FileSize
           b == IF size % BufSize = 0 THEN BufSize ELSE size % BufSize
           last == Block(size - b, b)
       IN \/ (size = 0 \/ g.num = 0) /\ Return(TRUE) /\ UNCHANGED <<out, g>>
          \/ /\ size # 0 /\ g.num # 0 /\ -1 \in Reads(size - b, b)
             /\ Return(FALSE) /\ UNCHANGED <<out, g>>
          \/ /\ size # 0 /\ g.num # 0 /\ -1 \notin Reads(size - b, b)
             /\ Goto("tail_scan",
                     [pos |-> size - b, buf |-> last,
                      lines |-> IF last[b] # Newline THEN g.num - 1 ELSE g.num])
             /\ UNCHANGED <<out, g, off>>

\* The loop of tail_lines: the line ends of one buffer counted backwards;
\* printing starts behind the end that precedes the lines wanted, or at the
\* start of the file.
TailScan ==
    /\ prog = "tail" /\ pc = "tail_scan"
    /\ LET found == Cardinality(Ends(v.buf, g.line_end))
           PrintFrom(from) == /\ Goto("copy", CopyLocals(FileSize - from, <<>>))
                          /\ off' = from /\ UNCHANGED <<out, g>>
       IN \/ /\ found > v.lines
             /\ PrintFrom(v.pos + NthLastEnd(v.buf, g.line_end, v.lines + 1))
          \/ found <= v.lines /\ v.pos = 0 /\ PrintFrom(0)
          \/ /\ found <= v.lines /\ v.pos > 0
             /\ Goto("tail_scan",
                     [pos |-> v.pos - BufSize, lines |-> v.lines - found,
                      buf |-> Block(v.pos - BufSize, BufSize)])
             /\ UNCHANGED <<out, g, off>>

\* tail_bytes with num = n; saved is the num its caller restores.
CopyLast(n, saved) ==
    \/ /\ Seekable
       /\ off' = Max({0, FileSize - n})
       /\ Goto("copy", [left |-> n, rest |-> <<>>, num |-> saved])
       /\ g' = [g EXCEPT !.num = n] /\ UNCHANGED out
    \/ ~Seekable /\ Return(FALSE) /\ UNCHANGED <<out, g>>

TailBytes == prog = "tail" /\ pc = "tail_bytes" /\ CopyLast(g.num, g.num)

\* elide_head_bytes: num counts from the end while tail_bytes runs.
ElideHeadBytes ==
    prog = "tail" /\ pc = "elide_head_bytes" /\ CopyLast(FileSize - g.num + 1, g.num)

\* elide_head_lines, up to its loop.
ElideHeadLines ==
    /\ prog = "tail" /\ pc = "elide_head_lines"
    /\ \/ (FileSize = 0 \/ g.num = 0) /\ Return(TRUE) /\ UNCHANGED <<out, g>>
       \/ /\ FileSize # 0 /\ g.num = 1 /\ off' = 0
          /\ Goto("copy", CopyLocals(FileSize, <<>>)) /\ UNCHANGED <<out, g>>
       \/ /\ FileSize # 0 /\ g.num > 1 /\ off' = 0
          /\ \E n \in Reads(0, BufSize) :
               \/ n < 0 /\ Return(FALSE) /\ UNCHANGED <<out, g>>
               \/ /\ n >= 0 /\ UNCHANGED <<out, g>>
                  /\ Goto("elide_head_scan", [pos |-> 0, lines |-> g.num - 1,
                                              buf |-> Block(0, n), ptr |-> 0, n |-> n])

\* The loop of elide_head_lines: v.ptr bytes of the buffer are behind the
\* last line found, and memchr may look at v.n bytes more.  n loses the
\* distance from the start of the buffer at every line, so that it can get
\* too small, or wrap (negative here); then memchr reads past the bytes read.
ElideHeadScan ==
    /\ prog = "tail" /\ pc = "elide_head_scan"
    /\ LET last == IF v.n < 0 THEN Len(v.buf) ELSE v.ptr + v.n
           ends == {i \in Ends(v.buf, g.line_end) : v.ptr < i /\ i <= last}
           i == Min(ends)
           next == v.pos + Len(v.buf)
       IN \/ /\ ends # {} /\ v.n # 0 /\ v.lines = 1
             /\ Goto("copy", CopyLocals(FileSize - (v.pos + i), <<>>))
             /\ off' = v.pos + i /\ UNCHANGED <<out, g>>
          \/ /\ ends # {} /\ v.n # 0 /\ v.lines > 1
             /\ Goto("elide_head_scan", [v EXCEPT !.lines = @ - 1, !.ptr = i, !.n = @ - i])
             /\ UNCHANGED <<out, g, off>>
          \/ /\ ends = {} /\ v.n < 0
             /\ Goto("undefined", None) /\ UNCHANGED <<out, g, off>>
          \/ /\ ends = {} /\ v.n >= 0 /\ next = FileSize
             /\ Return(TRUE) /\ UNCHANGED <<out, g>>
          \/ /\ ends = {} /\ v.n >= 0 /\ next < FileSize
             /\ Goto("elide_head_scan",
                     [v EXCEPT !.pos = next, !.ptr = 0,
                               !.buf = Block(next, Min({BufSize, FileSize - next})),
                               !.n = Min({BufSize, FileSize - next})])
             /\ UNCHANGED <<out, g, off>>

TailNext == TailMain \/ TailFile \/ TailCopy \/ TailLines \/ TailScan \/ TailBytes
            \/ ElideHeadBytes \/ ElideHeadLines \/ ElideHeadScan
=============================================================================
