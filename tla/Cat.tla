-------------------------------- MODULE Cat --------------------------------
(***************************************************************************)
(* cat.c: the inputs, one after the other, with the options that number    *)
(* lines, squeeze blank ones and show ends and tabs.  A newline behind the *)
(* bytes read ends every loop over the input buffer; newlines says how     *)
(* many line ends precede the current byte (-1 inside a line) and is kept  *)
(* from one input to the next.                                             *)
(***************************************************************************)
EXTENDS CmdBase

CONSTANTS
    OutSize,    \* outsize, the block size of the output
    LineDigits, \* characters of line_buf that hold digits (18)
    LineWidth,  \* digits printed at least (6)
    Base        \* of the numerals (10)

ASSUME CatAssumption ==
    /\ OutSize \in 1..BufSize /\ Base \in Nat \ {0, 1}
    /\ LineDigits \in Nat \ {0} /\ LineWidth \in 1..LineDigits

\* Options of main: -b implies -n; -e, -t are -E, -T; -A, -u, -v do nothing.
CatOption(s, a) ==
    CASE a.o = "b" -> [s EXCEPT !.b = TRUE, !.n = TRUE]
      [] a.o = "n" -> [s EXCEPT !.n = TRUE]
      [] a.o = "s" -> [s EXCEPT !.s = TRUE]
      [] a.o \in {"e", "E"} -> [s EXCEPT !.E = TRUE]
      [] a.o \in {"t", "T"} -> [s EXCEPT !.T = TRUE]
      [] a.o \in {"A", "u", "v"} -> s

\* The characters of line_buf: digits, blanks and a '>', which like '>' in
\* ASCII is above all digits.
Space == -1
Beyond == Base
Glyph(c) == CASE c = Space -> "sp" [] c = Beyond -> ">" [] OTHER -> ToString(c)

\* line_buf, line_num_start and line_num_print before the first line.
LineBuf ==
    [d |-> [i \in 1..LineDigits |-> IF i = LineDigits THEN 0 ELSE Space],
     start |-> LineDigits, print |-> LineDigits - LineWidth + 1]

\* next_line_num: adds one to the digits from start on; after the largest
\* number the first digit is a '>'.  Faulty variant: the carry leaves the
\* digit it passes.
NextLineNum_Carry(l) ==
    LET less == {p \in l.start..LineDigits : l.d[p] \in 0..(Base - 2)} IN
    IF less # {} THEN [l EXCEPT !.d[Max(less)] = @ + 1] ELSE l

NextLineNum(l) ==
    LET less == {p \in l.start..LineDigits : l.d[p] \in 0..(Base - 2)}
        last == Max(less)
        zeros == [i \in 1..LineDigits |-> IF i >= l.start THEN 0 ELSE l.d[i]]
    IN IF less # {}
       THEN [l EXCEPT !.d = [i \in 1..LineDigits |->
                IF i = last THEN l.d[i] + 1 ELSE IF i > last THEN 0 ELSE l.d[i]]]
       ELSE LET first == Max({1, l.start - 1}) IN
            [d |-> [zeros EXCEPT ![first] = IF l.start > 1 THEN 1 ELSE Beyond],
             start |-> first,
             print |-> IF first < l.print THEN l.print - 1 ELSE l.print]

LineNum(l) ==
    [i \in 1..(LineDigits - l.print + 1) |-> Glyph(l.d[l.print + i - 1])] \o <<"tab">>
-----------------------------------------------------------------------------
CatMain ==
    /\ prog = "cat" /\ pc = "main"
    /\ g' = FoldLeft(CatOption,
                     [b |-> FALSE, n |-> FALSE, s |-> FALSE, E |-> FALSE, T |-> FALSE,
                      line |-> LineBuf, newlines2 |-> 0], argv)
    /\ Goto("file", None) /\ UNCHANGED <<out, off>>

\* main's loop; at the start of cat() the input buffer counts as used up.
CatFile ==
    /\ prog = "cat" /\ pc = "file"
    /\ \/ fi > Len(fs) /\ Exit(TRUE)
       \/ /\ fi <= Len(fs) /\ In.kind = "missing"
          /\ Return(FALSE) /\ UNCHANGED <<out, g>>
       \/ /\ fi <= Len(fs) /\ In.kind # "missing" /\ off' = 0
          /\ Goto("cat_top", [inbuf |-> <<>>, bpin |-> 2, ch |-> Newline,
                              newlines |-> g.newlines2, outbuf |-> <<>>])
          /\ UNCHANGED <<out, g>>

\* The byte at p of the input buffer: a newline behind the last one.
Char(p) == IF p <= Len(v.inbuf) THEN v.inbuf[p] ELSE Newline

\* strncpy: bytes behind a null byte are not copied but set to null.
Strncpy(s) == [i \in DOMAIN s |-> IF \E j \in 1..i : s[j] = "nul" THEN "nul" ELSE s[i]]

\* Whole blocks of the output buffer are written and the rest is moved to
\* its start.
Blocks(b) == OutSize * (Len(b) \div OutSize)
Flushed == IF Len(v.outbuf) < OutSize THEN <<>> ELSE SubSeq(v.outbuf, 1, Blocks(v.outbuf))
Pending == IF Len(v.outbuf) < OutSize THEN v.outbuf
           ELSE Strncpy(SubSeq(v.outbuf, Blocks(v.outbuf) + 1, Len(v.outbuf)))

\* safe_write writes all of b; safe_read reads until the buffer is full or
\* read returns 0 or fails, and returns the number of bytes.
SafeWrite(b) == out' = out \o b
SafeRead == IF In.kind = "dir" THEN 0 ELSE Min({BufSize, Len(In.data) - off})

\* The input buffer is used up: write_pending, then safe_read.  No bytes,
\* for whatever reason, end the input, and the state within the line is kept.
CatRead ==
    /\ prog = "cat" /\ pc = "cat_top" /\ v.bpin > Len(v.inbuf) + 1
    /\ LET n == SafeRead IN
       \/ n = 0 /\ Return(TRUE) /\ g' = [g EXCEPT !.newlines2 = v.newlines]
       \/ /\ n > 0 /\ off' = off + n /\ UNCHANGED g
          /\ LET ch == In.data[off + 1] IN
               Goto(IF ch = Newline THEN "cat_top" ELSE "cat_line",
                    [v EXCEPT !.inbuf = Block(off, n), !.bpin = 2, !.ch = ch, !.outbuf = <<>>])
    /\ SafeWrite(Flushed \o Pending)

\* A newline is output, numbered if the line is blank, or squeezed.
CatNewline ==
    /\ prog = "cat" /\ pc = "cat_top" /\ v.bpin <= Len(v.inbuf) + 1
    /\ LET newlines == Min({2, v.newlines + 1})
           squeeze == newlines = 2 /\ g.s
           number == ~squeeze /\ newlines > 0 /\ g.n /\ ~g.b
           line == IF number THEN NextLineNum(g.line) ELSE g.line
           shown == (IF number THEN LineNum(line) ELSE <<>>)
                    \o (IF g.E THEN <<"dollar">> ELSE <<>>) \o <<v.ch>>
       IN /\ g' = [g EXCEPT !.line = line]
          /\ Goto(IF Char(v.bpin) = Newline THEN "cat_top" ELSE "cat_line",
                  [v EXCEPT !.newlines = newlines, !.ch = Char(v.bpin), !.bpin = @ + 1,
                            !.outbuf = Pending \o IF squeeze THEN <<>> ELSE shown])
          /\ SafeWrite(Flushed) /\ UNCHANGED off

\* The rest of a line, up to its newline or the one behind the buffer.
CatLine ==
    /\ prog = "cat" /\ pc = "cat_line"
    /\ LET last == Min({p \in v.bpin..(Len(v.inbuf) + 1) : Char(p) = Newline})
           number == v.newlines >= 0 /\ g.n
           line == IF number THEN NextLineNum(g.line) ELSE g.line
           Show(b) == IF b = "tab" /\ g.T THEN <<"caret", "I">> ELSE <<b>>
           text == SubSeq(v.inbuf, v.bpin - 1, last - 1)
       IN /\ g' = [g EXCEPT !.line = line]
          /\ Goto("cat_top",
                  [v EXCEPT !.newlines = -1, !.ch = Newline, !.bpin = last + 1,
                            !.outbuf = @ \o (IF number THEN LineNum(line) ELSE <<>>)
                                         \o FlattenSeq([i \in DOMAIN text |-> Show(text[i])])])
          /\ UNCHANGED <<out, off>>

CatNext == CatMain \/ CatFile \/ CatRead \/ CatNewline \/ CatLine
=============================================================================
