------------------------------- MODULE Chmod -------------------------------
(***************************************************************************)
(* chmod.c.  A mode is a set of permissions for each of u, g and o.  fs    *)
(* has the directory tree, the modes in it, the files that belong to the   *)
(* caller and the operands; the operand "mode" reads as fs.list, a         *)
(* sequence of clauses, each a sequence of characters.                     *)
(***************************************************************************)
EXTENDS CmdBase

Who == {"u", "g", "o"}
Perm == {"r", "w", "x", "s"}
Ops == {"+", "-", "="}
Octals == {"0", "1", "2", "3", "4", "5", "6", "7"}

\* The table modes: others have no s.
Weight(w, p) ==
    (CASE p = "r" -> 4 [] p = "w" -> 2 [] p = "x" -> 1 [] p = "s" -> 0)
        * (CASE w = "u" -> 64 [] w = "g" -> 8 [] w = "o" -> 1)
    + (CASE p = "s" /\ w = "u" -> 2048 [] p = "s" /\ w = "g" -> 1024 [] OTHER -> 0)
Bits(m) == [w \in Who |-> {p \in Perm : Weight(w, p) # 0 /\ (m \div Weight(w, p)) % 2 = 1}]

\* string2octal.
Digit(c) == CHOOSE n \in 0..7 : ToString(n) = c
IsOctal(s) == ToSet(s) \subseteq Octals
String2octal(s) == FoldLeft(LAMBDA sum, c : 8 * sum + Digit(c), 0, s)

Applied(op, old, m) == CASE op = "=" -> m [] op = "-" -> old \ m [] op = "+" -> old \cup m

Error == [error |-> TRUE]

\* Whom a clause is for: those before its operator at op, all if there are
\* none.  In the faulty variant it is for nobody then.
Whom_Nobody(before, op) == {w \in Who : w \in before \/ "a" \in before}
Whom(before, op) == {w \in Who : w \in before \/ "a" \in before \/ op = 1}

\* One clause of process_mode_list on the bits so far, or Error for a call of
\* mode_error.  op is the last operator; an o with an s is kept until the
\* modes are put together.
Clause(bits, c) ==
    LET ops == {i \in DOMAIN c : c[i] \in Ops}
        op == Max(ops)
        rest == SubSeq(c, op + 1, Len(c))
        next == IF rest = <<>> THEN "" ELSE rest[1]
        flags == Whom(ToSet(SubSeq(c, 1, op - 1)), op)
        For(m) == [w \in Who |-> IF w \in flags THEN Applied(c[op], bits[w], m) ELSE bits[w]]
        later == {i \in 2..Len(rest) : rest[i] \in Who}
    IN CASE ops = {} -> Error
         [] ops # {} /\ next \in Octals ->
              IF op # 1 \/ ~IsOctal(rest) THEN Error
              ELSE [w \in Who |-> Applied(c[op], bits[w], Bits(String2octal(rest))[w])]
         [] ops # {} /\ next \in Who -> IF Len(rest) > 1 THEN Error ELSE For(bits[next])
         [] ops # {} /\ next \in Perm ->
              IF ToSet(rest) \subseteq Perm THEN For(ToSet(rest)) ELSE Error
         [] OTHER ->
              \* Any other character is taken for an operator, which fails
              \* when the clause is for anybody.
              IF rest # <<>> /\ (flags # {} \/ (later # {} /\ Min(later) < Len(rest)))
              THEN Error ELSE For({})

ParseModes(old, list) ==
    FoldLeft(LAMBDA b, c : IF b = Error THEN Error ELSE Clause(b, c), old, list)
Together(bits) == [bits EXCEPT !["o"] = @ \ {"s"}]
-----------------------------------------------------------------------------
\* What the kernel lets the caller do: change the modes of its files, open a
\* directory that it can read, reach what is below ones that it can search
\* (a tree has two levels of directories).
Parent(n) == {d \in DOMAIN fs.kids : n \in fs.kids[d]}
Above(n) == Parent(n) \cup UNION {Parent(d) : d \in Parent(n)}
Access(d, p) == p \in fs.mode[d][IF d \in fs.mine THEN "u" ELSE "o"]
CanStat(n) == n \in DOMAIN fs.mode /\ \A d \in Above(n) : Access(d, "x")
CanOpen(d, mode) == "r" \in mode[IF d \in fs.mine THEN "u" ELSE "o"]

\* The option loop.  An option that looks like a mode is copied to memory
\* that is not initialized: its end may be found later, and a second one
\* loses the first.  What getopt takes for an option with no case fails.
ChmodDefaults == [c |-> FALSE, v |-> FALSE, R |-> FALSE, rfile |-> "", modes |-> <<>>, end |-> ""]
ChmodOption(s, a) ==
    CASE s.end # "" -> s
      [] s.end = "" /\ a.o = "c" -> [s EXCEPT !.c = TRUE]
      [] s.end = "" /\ a.o = "v" -> [s EXCEPT !.v = TRUE]
      [] s.end = "" /\ a.o = "R" -> [s EXCEPT !.R = TRUE]
      [] s.end = "" /\ a.o \in {"f", "preserve-root", "no-preserve-root"} -> s
      [] s.end = "" /\ a.o = "mode" -> [s EXCEPT !.modes = Append(@, a.clause)]
      [] s.end = "" /\ a.o = "reference" -> [s EXCEPT !.rfile = a.file]
      [] s.end = "" /\ a.o \in {"help", "version"} -> [s EXCEPT !.end = "success"]
      [] OTHER -> [s EXCEPT !.end = "failure"]

\* The mode operand; an operand that is a file is no mode.
ModeList(w) == IF w = "mode" THEN fs.list ELSE <<<<>>>>

\* What main reads as the mode list: an option, maybe with what is behind it,
\* or the first operand.
ReadModes(s) ==
    IF s.modes = <<>> THEN {ModeList(fs.ops[1])}
    ELSE {<<s.modes[1]>>} \cup {<<Append(s.modes[1], b)>> : b \in {"x", "garbage"}}

\* main behind the options: a reference file or a number gives the mode for
\* every file.
ChmodMain ==
    /\ prog = "chmod" /\ pc = "main"
    /\ LET s == FoldLeft(ChmodOption, ChmodDefaults, argv)
           ref == s.rfile # ""
           files == IF ref \/ s.modes # <<>> THEN fs.ops ELSE SubSeq(fs.ops, 2, Len(fs.ops))
           none == s.modes = <<>> /\ fs.ops = <<>>
           Undefined == Goto("undefined", None) /\ UNCHANGED <<g, out, off>>
           Start(list, m) ==
             /\ g' = [list |-> list, mode |-> m, errno |-> FALSE, c |-> s.c, v |-> s.v, R |-> s.R]
             /\ Goto("chmod", [todo |-> [i \in DOMAIN files |-> [n |-> files[i], end |-> FALSE]]])
             /\ UNCHANGED <<out, off>>
       IN \/ s.end = "success" /\ Exit(TRUE)
          \/ s.end = "failure" /\ Exit(FALSE)
          \/ /\ s.end = "" /\ ref /\ s.modes = <<>>
             /\ IF CanStat(s.rfile) /\ files # <<>> THEN Start(None, fs.mode[s.rfile]) ELSE Exit(FALSE)
          \/ s.end = "" /\ ref /\ s.modes # <<>> /\ (Exit(FALSE) \/ Undefined)
          \/ s.end = "" /\ ~ref /\ (Len(s.modes) > 1 \/ none) /\ Undefined
          \/ /\ s.end = "" /\ ~ref /\ Len(s.modes) < 2 /\ ~none
             /\ \E list \in ReadModes(s) :
                  LET number == list[1] # <<>> /\ list[1][1] \in Octals \cup {"8", "9"}
                  IN IF files = <<>> \/ (number /\ (Len(list) > 1 \/ ~IsOctal(list[1])))
                     THEN Exit(FALSE)
                     ELSE Start(list, IF number THEN Bits(String2octal(list[1])) ELSE None)

\* do_recursive up to its loop: the entries, in any order, and then its end.
Recurse(n, mode) ==
    IF ~(g.R /\ n \in DOMAIN fs.kids) THEN {<<>>}
    ELSE IF ~CanOpen(n, mode) THEN {}
    ELSE {[i \in DOMAIN s |-> [n |-> s[i], end |-> FALSE]] \o <<[n |-> n, end |-> TRUE]>> :
            s \in SetToSeqs(fs.kids[n])}

\* print_info: process_mode compares a mode with one that has the file type
\* too, so that it reports a change every time.
Info(n, old, new) ==
    IF (g.mode # None \/ old # new) /\ (g.c \/ g.v) THEN <<[file |-> n, to |-> new]>>
    ELSE IF g.v THEN <<[file |-> n, retained |-> old]>> ELSE <<>>

\* process_mode_list and process_mode on the next file.  chmod(2) is checked
\* in the latter only; what remains of a failure is errno.
ChmodFile ==
    /\ prog = "chmod" /\ pc = "chmod" /\ v.todo # <<>> /\ ~Head(v.todo).end
    /\ LET n == Head(v.todo).n
           list == g.mode = None
           old == fs.mode[n]
           failed == n \notin fs.mine
       IN \E bits \in {IF list /\ CanStat(n) THEN ParseModes(old, g.list) ELSE g.mode} :
          LET new == IF failed THEN old ELSE Together(bits) IN
          \/ /\ ~CanStat(n) /\ list
             /\ v' = [todo |-> Tail(v.todo)] /\ ok' = FALSE /\ g' = [g EXCEPT !.errno = TRUE]
             /\ UNCHANGED <<prog, argv, fs, fi, off, out, pc>>
          \/ /\ ~CanStat(n) /\ ~list
             /\ Goto("undefined", None) /\ UNCHANGED <<out, off, g>>
          \/ CanStat(n) /\ bits = Error /\ Exit(FALSE)
          \/ /\ CanStat(n) /\ bits # Error
             /\ fs' = [fs EXCEPT !.mode[n] = new]
             /\ out' = out \o IF failed /\ ~list THEN <<>> ELSE Info(n, old, Together(bits))
             /\ \/ /\ Recurse(n, new) = {}
                   /\ v' = [todo |-> Tail(v.todo)] /\ ok' = FALSE
                   /\ g' = [g EXCEPT !.errno = TRUE]
                \/ \E entries \in Recurse(n, new) :
                     /\ v' = [todo |-> entries \o Tail(v.todo)]
                     /\ ok' = (ok /\ (failed => list))
                     /\ g' = [g EXCEPT !.errno = @ \/ failed]
             /\ UNCHANGED <<prog, argv, fi, off, pc>>

\* The end of do_recursive: any error since the start counts as one of
\* readdir.
ChmodDirEnd ==
    /\ prog = "chmod" /\ pc = "chmod" /\ v.todo # <<>> /\ Head(v.todo).end
    /\ v' = [todo |-> Tail(v.todo)] /\ ok' = (ok /\ ~g.errno)
    /\ UNCHANGED <<prog, argv, fs, g, fi, off, out, pc>>

ChmodEnd == prog = "chmod" /\ pc = "chmod" /\ v.todo = <<>> /\ Exit(TRUE)

ChmodNext == ChmodMain \/ ChmodFile \/ ChmodDirEnd \/ ChmodEnd
=============================================================================
