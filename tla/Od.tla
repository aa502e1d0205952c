--------------------------------- MODULE Od ---------------------------------
(***************************************************************************)
(* od.c: the inputs as one stream of two-byte words with their offsets.  A *)
(* byte left over from one read waits in the buffer for the next.          *)
(***************************************************************************)
EXTENDS CmdBase

CONSTANT
    ByteVals    \* values of a byte (256); a word has two bytes, an int four

ASSUME OdAssumption == ByteVals \in Nat \ {0} /\ ByteVals % 2 = 0

WordVals == ByteVals * ByteVals
IntVals == WordVals * WordVals

OdOption(s, a) ==
    CASE a.o = "j" -> [s EXCEPT !.skip = a.num]
      [] a.o = "N" -> [s EXCEPT !.N = TRUE, !.left = a.num]
      [] a.o = "w" -> [s EXCEPT !.width = a.num]
      [] OTHER -> s

\* main up to its loop: line_num_start is what -j says.
OdMain ==
    /\ prog = "od" /\ pc = "main"
    /\ LET s == FoldLeft(OdOption, [skip |-> 0, N |-> FALSE, left |-> 0, width |-> 16,
                                    start |-> 0, done |-> 0, buf |-> <<>>], argv)
       IN g' = [s EXCEPT !.start = s.skip]
    /\ Goto("file", None) /\ UNCHANGED <<out, off>>

\* printf of a number whose type has n values: the sign is extended to int
\* and %o shows the int without a sign.
Octal(w, n) == (IF 2 * w < n THEN w ELSE w - n) % IntVals

\* The words of b when done bytes have been printed before, each line with
\* its offset.
Words(b, done) ==
    FlattenSeq([i \in 1..(Len(b) \div 2) |->
        LET at == done + 2 * (i - 1) IN
        (IF at % g.width = 0 THEN <<[offset |-> at + g.start]>> ELSE <<>>)
        \o <<[word |-> Octal(b[2 * i - 1] + ByteVals * b[2 * i], WordVals)]>>])

\* Start of od(): skip_bytes counts down over the inputs; on a pipe lseek
\* returns -1.  And the end of main: -N more bytes than there are fails its
\* assertion; the last odd byte and the final offset.
OdFile ==
    /\ prog = "od" /\ pc = "file"
    /\ LET size == IF Seekable THEN FileSize ELSE -1
           odd == IF g.buf = <<>> THEN <<>> ELSE
                  (IF g.done % g.width = 0 THEN <<[offset |-> g.done + g.start]>> ELSE <<>>)
                  \o <<[word |-> Octal(g.buf[1], ByteVals)]>>
       IN \/ fi <= Len(fs) /\ In.kind = "missing" /\ Return(FALSE) /\ UNCHANGED <<out, g>>
          \/ /\ fi <= Len(fs) /\ In.kind # "missing" /\ g.skip # 0 /\ g.skip >= size
             /\ Return(TRUE) /\ g' = [g EXCEPT !.skip = @ - size] /\ UNCHANGED out
          \/ /\ fi <= Len(fs) /\ In.kind # "missing" /\ (g.skip = 0 \/ g.skip < size)
             /\ Goto("od_read", None) /\ off' = g.skip
             /\ g' = [g EXCEPT !.skip = 0] /\ UNCHANGED out
          \/ fi > Len(fs) /\ g.left # 0 /\ Goto("abort", None) /\ UNCHANGED <<out, g, off>>
          \/ /\ fi > Len(fs) /\ g.left = 0
             /\ pc' = "exit" /\ v' = None
             /\ out' = out \o odd \o <<[offset |-> g.done + g.start + Len(g.buf)]>>
             /\ UNCHANGED <<prog, argv, fs, g, fi, off, ok>>

\* The byte of b that waits for the next read.  Faulty variant: it is lost.
LeftOver_Lost(b) == <<>>
LeftOver(b) == IF Len(b) % 2 = 1 THEN <<Last(b)>> ELSE <<>>

\* One pass of the loop of od(): up to BUFSIZ bytes are read behind the byte
\* left over, one more than the buffer may have room for.
OdRead ==
    /\ prog = "od" /\ pc = "od_read"
    /\ \/ g.N /\ g.left = 0 /\ Return(TRUE) /\ UNCHANGED <<out, g>>
       \/ /\ ~g.N \/ g.left # 0
          /\ \E n \in Reads(off, IF g.N THEN Min({BufSize, g.left}) ELSE BufSize) :
               LET b == g.buf \o Block(off, n) IN
               \/ n < 0 /\ Return(FALSE) /\ UNCHANGED <<out, g>>
               \/ n = 0 /\ Return(TRUE) /\ UNCHANGED <<out, g>>
               \/ /\ n > 0 /\ Len(b) > BufSize
                  /\ Goto("undefined", None) /\ UNCHANGED <<out, g, off>>
               \/ /\ n > 0 /\ Len(b) <= BufSize
                  /\ Goto("od_read", None) /\ off' = off + n
                  /\ out' = out \o Words(b, g.done)
                  /\ g' = [g EXCEPT !.buf = LeftOver(b),
                                    !.done = @ + 2 * (Len(b) \div 2),
                                    !.left = IF g.N THEN @ - n ELSE @]

OdNext == OdMain \/ OdFile \/ OdRead
=============================================================================
