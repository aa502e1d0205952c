------------------------------ MODULE CmdBase ------------------------------
(***************************************************************************)
(* A process that runs one of the commands of cmd/src, and what head.c and *)
(* tail.c have in common.  Every command is a machine over the variables   *)
(* declared here; pc is the function it is in, one step is one pass of the *)
(* loop around a system call.  A byte is a model value or a number, and    *)
(* what is printed beside bytes (headers, offsets) is an element of its    *)
(* own in the output.                                                      *)
(***************************************************************************)
EXTENDS Integers, FiniteSets, SequencesExt

CONSTANT
    BufSize     \* BUFSIZ, the size of the buffers

ASSUME BufAssumption == BufSize \in Nat \ {0}

VARIABLES
    prog,       \* the command
    argv,       \* its options, in the order of the command line
    fs,         \* its operands: for a command that reads, the inputs in order,
                \* of which there is one when no operand is given
    g,          \* its static variables
    fi,         \* number of the current operand
    off,        \* file offset of the open input
    out,        \* what it has written
    ok,         \* no operand has failed
    pc,         \* where it is; "exit", "abort" or "undefined" at the end
    v           \* locals of the function it is in

vars == <<prog, argv, fs, g, fi, off, out, ok, pc, v>>

Ended == {"exit", "abort", "undefined"}
None == [none |-> TRUE]
-----------------------------------------------------------------------------
(* Inputs.  A pipe can be read in pieces and has neither offset nor size;  *)
(* a directory can be opened but not read; a missing file not opened.      *)

In == fs[fi]
Seekable == In.kind # "pipe"
FileSize == CASE In.kind = "pipe" -> 0 [] In.kind = "dir" -> 1 [] OTHER -> Len(In.data)

Block(from, n) == SubSeq(In.data, from + 1, from + n)

\* What read(fd, buf, n) may return at offset from.
Reads(from, n) ==
    LET most == Min({n, Len(In.data) - from}) IN
    CASE In.kind = "dir" -> {-1}
      [] In.kind # "dir" /\ most <= 0 -> {0}
      [] In.kind = "pipe" /\ most > 0 -> 1..most
      [] OTHER -> {most}
-----------------------------------------------------------------------------
(* Lines of a buffer *)

Newline == "nl"
Ends(b, le) == {i \in DOMAIN b : b[i] = le}

\* Position of the k-th line end of b, from the front and from the back.
NthEnd(b, le, k) ==
    CHOOSE i \in Ends(b, le) : Cardinality({j \in Ends(b, le) : j <= i}) = k
NthLastEnd(b, le, k) == NthEnd(b, le, Cardinality(Ends(b, le)) + 1 - k)
-----------------------------------------------------------------------------
(* head.c and tail.c *)

\* string_to_integer: the characters, as distances from '0', are not checked.
StringToInteger(str) == FoldLeft(LAMBDA res, c : 10 * res + c, 0, str)

\* write_header: a blank line before every header but the first.
Header(n) == <<[header |-> n, blank |-> ~g.first_line]>>

\* The function for one operand returns r; main goes on with the next one.
Return(r) ==
    /\ pc' = "file" /\ fi' = fi + 1 /\ off' = 0 /\ ok' = (ok /\ r) /\ v' = None
    /\ UNCHANGED <<prog, argv, fs>>

Exit(r) ==
    /\ pc' = "exit" /\ ok' = (ok /\ r) /\ v' = None
    /\ UNCHANGED <<prog, argv, fs, g, fi, off, out>>

Goto(f, locals) ==
    /\ pc' = f /\ v' = locals
    /\ UNCHANGED <<prog, argv, fs, fi, ok>>

\* copy_fd: v.left bytes, or all of them when that is negative (a huge
\* size_t); its caller then writes v.rest and restores num to v.num.
CopyLocals(n, rest) == [left |-> n, rest |-> rest, num |-> g.num]

CopyDone(rest) ==
    Return(TRUE) /\ out' = out \o rest /\ g' = [g EXCEPT !.num = v.num]

\* read returns 0 at the end of the input.  Faulty variant: nobody looks.
AtEnd_Never(n) == FALSE
AtEnd(n) == n = 0

CopyFd ==
    /\ pc = "copy"
    /\ \/ v.left = 0 /\ CopyDone(v.rest)
       \/ /\ v.left # 0
          /\ \E n \in Reads(off, IF v.left < 0 THEN BufSize ELSE Min({BufSize, v.left})) :
                \/ n < 0 /\ Return(FALSE) /\ UNCHANGED out /\ g' = [g EXCEPT !.num = v.num]
                \/ n >= 0 /\ AtEnd(n) /\ CopyDone(v.rest)
                \/ /\ n >= 0 /\ ~AtEnd(n)
                   /\ Goto("copy", [v EXCEPT !.left = @ - n])
                   /\ out' = out \o Block(off, n) /\ off' = off + n /\ UNCHANGED g
=============================================================================
