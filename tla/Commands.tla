------------------------------ MODULE Commands ------------------------------
(***************************************************************************)
(* The commands of cmd/src, each compared with what it is documented to    *)
(* do, and the programs of ipc/, procexec/ and threads/ that wait for      *)
(* others.  A behaviour is one call of one of them: Cases lists sets of    *)
(* calls, each with the program, its options and what it works on.         *)
(***************************************************************************)
EXTENDS Head, Tail, Cat, Od, Cp, Chmod, Chown, Pwd, ChildSync, MultiJoin, SeqNum

CONSTANT Cases

\* What the waiting programs, cp and pwd find: no children, threads or
\* requests yet, files that are sequences of bytes, and directories whose
\* parents are directories.
ASSUME CasesAssumption ==
    \A i \in DOMAIN Cases : \A c \in Cases[i] :
        /\ c.prog \in Waiters =>
             LET kids == IF c.prog = "fork_sig_sync" THEN 1 ELSE Len(c.argv) IN
             kids \in Nat /\ c.fs = [child |-> [k \in 1..kids |-> "none"], pending |-> FALSE]
        /\ c.prog = "thread_multijoin" =>
             Len(c.argv) \in Nat /\ c.fs = [thread |-> [t \in 1..Len(c.argv) |-> "none"]]
        /\ c.prog = "fifo_seqnum" =>
             LET askers == DOMAIN c.fs.len IN
             /\ c.fs.len \in [askers -> Nat]
             /\ c.fs = [st |-> [a \in askers |-> "start"], len |-> c.fs.len,
                        num |-> [a \in askers |-> -1], fifo |-> <<>>]
        /\ c.prog = "cp" =>
             LET bytes == ToSet(c.fs.src.data) \cup ToSet(c.fs.old.data)
                 input == [kind : {"file", "dir", "missing"}, data : Seq(bytes)]
             IN /\ c.fs \in [src : input, dst : input, old : input, yes : BOOLEAN, room : Int]
                /\ c.fs.dst = c.fs.old
        /\ c.prog = "pwd" =>
             LET dirs == DOMAIN c.fs.parent IN
             c.fs.parent \in [dirs -> dirs] /\ c.fs.cwd \in dirs /\ DOMAIN c.fs.ino = dirs

\* What head and tail are given: options of theirs, with numbers that consist
\* of digits, and inputs that are sequences of bytes.  There is an input: with
\* no operand the programs work on "-", which for head, as for cat, is the
\* standard input and for tail a file of that name, that is, a missing one.
ASSUME TextsAssumption ==
    \A i \in DOMAIN Cases : \A c \in Cases[i] : c.prog \in {"head", "tail"} =>
        LET bytes == UNION {ToSet(c.fs[k].data) : k \in DOMAIN c.fs} IN
        /\ c.argv \in Seq(ToSet(c.argv))
        /\ \A k \in DOMAIN c.argv : LET a == c.argv[k] IN
             \/ /\ a.o \in {"c", "n"} /\ a.digits \in Seq(Nat)
                /\ a.sign \in {"", IF c.prog = "head" THEN "-" ELSE "+"}
             \/ a.o \in {"q", "v", "z"}
             \/ a.o \in {"f", "s"} /\ c.prog = "tail"
        /\ c.fs \in Seq([kind : {"file", "pipe"}, data : Seq(bytes)]
                         \cup [kind : {"dir", "missing"}, data : {<<>>}])
        /\ c.fs # <<>>

\* What od reads: bytes.
ASSUME BytesAssumption ==
    \A i \in DOMAIN Cases : \A c \in Cases[i] : c.prog = "od" =>
        /\ c.argv \in Seq(ToSet(c.argv))
        /\ \A k \in DOMAIN c.argv : c.argv[k].o \in {"j", "N"} => c.argv[k].num \in Nat
        /\ c.fs \in Seq([kind : {"file", "pipe"}, data : Seq(0..(ByteVals - 1))]
                         \cup [kind : {"dir", "missing"}, data : {<<>>}])

\* What chown finds: a tree of files that belong to somebody.
ASSUME OwnersAssumption ==
    \A i \in DOMAIN Cases : \A c \in Cases[i] : c.prog = "chown" =>
        LET files == DOMAIN c.fs.old
            names == STRING \ {Keep}
            owners == [files -> [uid : names, gid : names]]
        IN /\ IsFiniteSet(files) /\ DOMAIN c.fs.kids \subseteq files
           /\ c.argv \in Seq(ToSet(c.argv))
           /\ c.fs \in [kids : [DOMAIN c.fs.kids -> SUBSET files], owner : owners, old : owners,
                        users : SUBSET names, groups : SUBSET names, denied : SUBSET files,
                        closed : SUBSET files, ops : Seq(ToSet(c.fs.ops)), name : {c.fs.name}]
           /\ c.fs.owner = c.fs.old

Init ==
    \E i \in DOMAIN Cases : \E c \in Cases[i] :
        /\ prog = c.prog /\ argv = c.argv /\ fs = c.fs
        /\ pc = "main" /\ g = None /\ v = None
        /\ fi = 1 /\ off = 0 /\ out = <<>> /\ ok = TRUE

Exited == (pc \in Ended \/ Resting) /\ UNCHANGED vars

Next == HeadNext \/ TailNext \/ CatNext \/ OdNext \/ CpNext
        \/ ChmodNext \/ ChownNext \/ PwdNext
        \/ ChildSyncNext \/ MultiJoinNext \/ SeqNumNext \/ Exited

Spec == Init /\ [][Next]_vars /\ WF_vars(Next)
-----------------------------------------------------------------------------
(* What the usage texts say *)

\* Which of the options have one of the letters; the last of them counts.
Given(letters) == {i \in DOMAIN argv : argv[i].o \in letters}
LastGiven(letters) == argv[Max(Given(letters))]
Has(letter) == Given({letter}) # {}

LineEnd == IF Has("z") THEN "nul" ELSE Newline

\* Lines of d; bytes behind the last line end are a line too.
LineCount(d) ==
    Cardinality(Ends(d, LineEnd)) + IF d # <<>> /\ Last(d) # LineEnd THEN 1 ELSE 0
FirstLines(d, k) ==
    CASE k <= 0 -> <<>>
      [] k > Cardinality(Ends(d, LineEnd)) -> d
      [] OTHER -> SubSeq(d, 1, NthEnd(d, LineEnd, k))
Without(prefix, d) == SubSeq(d, Len(prefix) + 1, Len(d))

\* The number asked for: the last -c or -n, ten lines without any.
Asked == IF Given({"c", "n"}) = {} THEN [o |-> "n", sign |-> "", digits |-> <<1, 0>>]
         ELSE LastGiven({"c", "n"})
Count == StringToInteger(Asked.digits)

HeadText(d) ==
    CASE Asked.o = "n" /\ Asked.sign = "" -> FirstLines(d, Count)
      [] Asked.o = "n" /\ Asked.sign # "" -> FirstLines(d, LineCount(d) - Count)
      [] Asked.o = "c" /\ Asked.sign = "" -> SubSeq(d, 1, Min({Count, Len(d)}))
      [] OTHER -> SubSeq(d, 1, Len(d) - Count)

TailText(d) ==
    CASE Asked.o = "n" /\ Asked.sign = "" -> Without(FirstLines(d, LineCount(d) - Count), d)
      [] Asked.o = "n" /\ Asked.sign # "" -> Without(FirstLines(d, Count - 1), d)
      [] Asked.o = "c" /\ Asked.sign = "" -> SubSeq(d, Max({0, Len(d) - Count}) + 1, Len(d))
      [] OTHER -> SubSeq(d, Max({1, Count}), Len(d))

WithHeaders(Text(_)) ==
    FlattenSeq([i \in DOMAIN fs |->
        (IF Has("v") \/ (~Has("q") /\ Len(fs) > 1)
         THEN <<[header |-> i, blank |-> i > 1]>> ELSE <<>>) \o Text(fs[i].data)])

\* A last line without its end is noticed only in a last buffer that is not
\* empty, and only if the line end is a newline.
LastLineSeen(d) == (Len(d) % BufSize # 0 /\ Last(d) # Newline) <=> Last(d) # LineEnd

\* head prints what it is asked for whenever it ends well, whatever pieces
\* its input comes in and however many buffers it has to look back: the
\* count of lines, the offset and num are carried from buffer to buffer and
\* restored for the next input.  Not covered, as the code differs there: all
\* but the last lines or bytes of a pipe (it has no size), and all but the
\* last lines when the last one has no end and LastLineSeen fails.
HeadExact ==
    /\ prog = "head" /\ pc = "exit" /\ ok
    /\ Asked.sign = "-" => \A i \in DOMAIN fs :
         /\ fs[i].kind # "pipe"
         /\ Asked.o = "n" /\ fs[i].data # <<>> => LastLineSeen(fs[i].data)
    => out = WithHeaders(HeadText)

\* elide_head_lines is right when no two of the line ends it has to pass,
\* the last one left out, are in one buffer.
Passable(d) ==
    \A i, j \in Ends(d, LineEnd) :
        i < j /\ Cardinality({e \in Ends(d, LineEnd) : e <= j}) < Count - 1
            => (i - 1) \div BufSize # (j - 1) \div BufSize

\* tail prints what it is asked for whenever it ends well.  Not covered, as
\* the code differs there: no -c or -n at all (num is 0 then), -n +0, pipes
\* (no size), a last byte that is a newline but no line end or the reverse,
\* and inputs that are not Passable.
TailExact ==
    /\ prog = "tail" /\ pc = "exit" /\ ok /\ Given({"c", "n"}) # {}
    /\ Asked.o = "n" => \A i \in DOMAIN fs : LET d == fs[i].data IN
         /\ fs[i].kind # "pipe"
         /\ Asked.sign = "" /\ d # <<>> => (Last(d) = Newline <=> Last(d) = LineEnd)
         /\ Asked.sign = "+" => Count > 0 /\ Passable(d)
    => out = WithHeaders(TailText)

\* head and tail print what they are asked for, each input from num as it was
\* given, although copy_fd, which both have, is driven by changing it.
HeadTailExact == HeadExact /\ TailExact

\* The k-th line number of cat: k in decimal, right-aligned; the first digit
\* is a '>' when there is no room for all of them.
Numeral(k) ==
    LET At(i) == (k \div Base ^ (LineDigits - i)) % Base
        wide == Max({LineWidth} \cup {i \in 1..LineDigits : k >= Base ^ (i - 1)})
    IN [i \in 1..wide |->
          LET p == LineDigits - wide + i IN
          CASE k >= Base ^ LineDigits /\ i = 1 -> ">"
            [] k < Base ^ (LineDigits - p) -> "sp"
            [] OTHER -> ToString(At(p))] \o <<"tab">>

\* The lines of a text, without their ends; the last may be empty.
SplitLines(d) ==
    LET ends == Ends(d, Newline) \cup {Len(d) + 1} IN
    [i \in 1..Cardinality(ends) |->
        LET to == CHOOSE e \in ends : Cardinality({f \in ends : f <= e}) = i
            from == Max({0} \cup {e \in ends : e < to})
        IN SubSeq(d, from + 1, to - 1)]

\* The text with the options of the usage: -A is -vET, -e is -vE, -t is -vT,
\* and -v shows a byte that is not printable, as "soh", with a caret.
CatText(d) ==
    LET lines == SplitLines(d)
        last == Len(lines)
        Kept(i) == ~(Has("s") /\ i > 1 /\ i < last /\ lines[i] = <<>> /\ lines[i - 1] = <<>>)
        Numbered(i) == /\ Has("n") \/ Has("b")
                       /\ lines[i] # <<>> \/ (~Has("b") /\ i < last)
        Number(i) == Cardinality({j \in 1..i : Kept(j) /\ Numbered(j)})
        Shown(b) == CASE b = "tab" /\ Given({"T", "t", "A"}) # {} -> <<"caret", "I">>
                      [] b = "soh" /\ Given({"v", "e", "t", "A"}) # {} -> <<"caret", "A">>
                      [] OTHER -> <<b>>
    IN FlattenSeq([i \in 1..last |->
         IF ~Kept(i) THEN <<>> ELSE
         (IF Numbered(i) THEN Numeral(Number(i)) ELSE <<>>)
         \o FlattenSeq([j \in DOMAIN lines[i] |-> Shown(lines[i][j])])
         \o (IF i < last /\ Given({"E", "e", "A"}) # {} THEN <<"dollar">> ELSE <<>>)
         \o (IF i < last THEN <<Newline>> ELSE <<>>)])

Joined == FlattenSeq([i \in DOMAIN fs |->
              IF fs[i].kind \in {"file", "pipe"} THEN fs[i].data ELSE <<>>])

\* cat treats its inputs as one text: lines are numbered, squeezed and
\* marked as if there were no buffers and no boundaries between inputs.  Not
\* covered: null bytes, behind which the output buffer is cleared, -A, which
\* sets a flag that nobody reads, and bytes that are not printable when -v is
\* given or implied, which does nothing either.
CatExact ==
    /\ prog = "cat" /\ pc = "exit" /\ "nul" \notin ToSet(Joined) /\ ~Has("A")
    /\ "soh" \in ToSet(Joined) => Given({"v", "e", "t"}) = {}
    => out = CatText(Joined)

\* The bytes od was asked for: behind -j, no more than -N.
Skipped(letter, default) == IF Has(letter) THEN LastGiven({letter}).num ELSE default
Dumped ==
    LET skip == Min({Skipped("j", 0), Len(Joined)})
        n == Min({Skipped("N", Len(Joined)), Len(Joined) - skip})
    IN SubSeq(Joined, skip + 1, skip + n)

\* The bytes a word of the output stands for.
Unsigned(w, n) == w % n
Decoded(w, odd) ==
    IF odd THEN <<Unsigned(w, ByteVals)>>
    ELSE <<Unsigned(w, WordVals) % ByteVals, Unsigned(w, WordVals) \div ByteVals>>

\* The output of od is unambiguous: from its words and its last offset the
\* bytes can be told, and every offset is that of the bytes behind it, over
\* short reads, odd inputs and several of them.  Not covered: -j on a pipe
\* or a directory (lseek gives no size, or one that is no number of bytes).
WordsOf(o) == {p \in DOMAIN o : "word" \in DOMAIN o[p]}
Before(o, p) == Cardinality(WordsOf(o) \cap 1..(p - 1))
OdExact ==
    /\ prog = "od" /\ pc = "exit"
    /\ Has("j") => \A i \in DOMAIN fs : fs[i].kind \notin {"pipe", "dir"}
    => LET size == Len(Dumped) IN
       /\ out # <<>> /\ Cardinality(WordsOf(out)) = (size + 1) \div 2
       /\ Last(out) = [offset |-> Skipped("j", 0) + size]
       /\ \A p \in 1..(Len(out) - 1) :
            LET at == 2 * Before(out, p) IN
            IF p \in WordsOf(out)
            THEN Decoded(out[p].word, at + 1 = size) = SubSeq(Dumped, at + 1, Min({at + 2, size}))
            ELSE out[p] = [offset |-> Skipped("j", 0) + at]

\* When cp ends well, the destination has the contents of the source if it
\* was created or may be overwritten, and its own otherwise.  Not covered: a
\* source that cannot be read, and a destination longer than the source,
\* which keeps its end.
CpExact ==
    /\ prog = "cp" /\ pc = "exit" /\ ok /\ fs.src.kind = "file"
    /\ Len(fs.old.data) <= Len(fs.src.data)
    => fs.dst.data = IF fs.old.kind = "missing" \/ fs.yes THEN fs.src.data ELSE fs.old.data

\* The reference file asked for, the operands that are files, and the files
\* that chmod and chown have to go to.
Ref == IF Has("reference") THEN LastGiven({"reference"}).file ELSE ""
Named == ToSet(IF Ref # "" THEN fs.ops ELSE SubSeq(fs.ops, 2, Len(fs.ops)))
Below(S) == UNION {fs.kids[d] : d \in S \cap DOMAIN fs.kids}
Reached ==
    LET files == DOMAIN fs.old IN
    {n \in files : \A S \in SUBSET files :
        Named \subseteq S /\ (Has("R") => Below(S) \subseteq S) => n \in S}

\* What a clause of a mode means: op gives, takes away or sets what for the
\* classes in who, for all of them if there are none; what is a set of
\* permissions, those a class has, or a number for all classes.
Meaning(m, c) ==
    LET what(w) == CASE c.kind = "perms" -> c.perms
                     [] c.kind = "from" -> m[c.from]
                     [] c.kind = "octal" -> Bits(c.octal)[w]
        new(w) == CASE c.op = "+" -> m[w] \cup what(w)
                    [] c.op = "-" -> m[w] \ what(w)
                    [] c.op = "=" -> what(w)
    IN [w \in Who |-> (IF w \in c.who \/ c.who = {} THEN new(w) ELSE m[w])
                      \ (IF w = "o" THEN {"s"} ELSE {})]
WantedMode(m) == IF Ref # "" THEN fs.old[Ref] ELSE FoldLeft(Meaning, m, fs.means)

\* The form of a mode (chmod.c:96):
\* "Each MODE is of the form '[ugoa]*([-+=]([rwxXst]*|[ugo]))+|[-+=][0-7]+'.";
\* a list is one octal number (line 81) or clauses of that form.
Classes == Who \cup {"a"}
OpsIn(c) == {i \in DOMAIN c : c[i] \in Ops}
ClauseForm(c) ==
    LET first == Min(OpsIn(c))
        Until(i) == Min({j \in OpsIn(c) : j > i} \cup {Len(c) + 1})
        Behind(i) == SubSeq(c, i + 1, Until(i) - 1)
        Right(b) == ToSet(b) \subseteq Perm \cup {"X", "t"} \/ (Len(b) = 1 /\ b[1] \in Who)
    IN /\ OpsIn(c) # {}
       /\ \/ /\ ToSet(SubSeq(c, 1, first - 1)) \subseteq Classes
             /\ \A i \in OpsIn(c) : Right(Behind(i))
          \/ first = 1 /\ Len(c) > 1 /\ IsOctal(SubSeq(c, 2, Len(c)))
ListForm(l) ==
    \/ Len(l) = 1 /\ l[1] # <<>> /\ IsOctal(l[1])
    \/ \A i \in DOMAIN l : ClauseForm(l[i])

\* The list of a call without a reference file: the first operand.  One
\* operator in a clause, with nothing but classes before it.
GivenList == IF fs.ops = <<>> THEN <<>> ELSE ModeList(fs.ops[1])
OneOperator(c) == \A i \in OpsIn(c) : ToSet(SubSeq(c, 1, i - 1)) \subseteq Classes
Understood == Ref = "" => \A i \in DOMAIN GivenList : OneOperator(GivenList[i])
Valid == Ref = "" => ListForm(GivenList)

\* Nothing of the form that chmod refuses; operands of the caller that are
\* there, in directories that it can search, none of which is an operand.
Accepted == \A i \in DOMAIN GivenList : ToSet(GivenList[i]) \cap {"X", "t"} = {}
AllReady ==
    /\ Named # {} /\ Named \subseteq fs.mine
    /\ \A n \in Named : n \in DOMAIN fs.old /\ Above(n) \subseteq fs.mine \ Named
                        /\ \A d \in Above(n) : "x" \in fs.old[d]["u"]

\* When chmod ends well, every file it has to go to, below directories too
\* if asked, has the mode that the clauses mean for its old one, no other
\* file is changed, and -c reports exactly the files that changed; with a list
\* that is not of the documented form it changes nothing and fails, and a
\* list that is does not make it fail.  Not covered: X and t, which are
\* refused although the form has them, clauses with several operators (only the last counts) or with
\* other letters before the operator (they are not looked at), operands of
\* somebody else with a symbolic mode (chmod(2) is not checked), -c with a
\* number, what others have copied after the first clause (with an s), modes
\* that are options (the end of the list is not initialized).
ChmodExact ==
    /\ prog = "chmod" /\ pc = "exit" /\ Given({"mode", "help", "version"}) = {}
    /\ Understood
    => /\ ~Valid => ~ok /\ fs.mode = fs.old
       /\ Valid /\ Accepted /\ argv = <<>> /\ AllReady => ok
       /\ /\ ok /\ Named \subseteq fs.mine
          /\ \A i \in 2..Len(fs.means) : fs.means[i].kind = "from" => fs.means[i].from # "o"
          => /\ fs.mode = [n \in DOMAIN fs.old |->
                             IF n \in Reached THEN WantedMode(fs.old[n]) ELSE fs.old[n]]
             /\ Has("c") /\ ~Has("v") /\ g.mode = None =>
                  {out[i].file : i \in DOMAIN out} = {n \in DOMAIN fs.old : fs.old[n] # fs.mode[n]}

\* The files --from asks for: those of the last user and the last group that
\* one names.  The owner that a file should get: that of the reference file,
\* or its own where none is given.
FromUser(i) == argv[i].o = "from" /\ argv[i].name.user # ""
FromGroup(i) == argv[i].o = "from" /\ argv[i].name.group # ""
AskedFor(n) ==
    /\ \A i \in DOMAIN argv :
         FromUser(i) /\ (\A j \in DOMAIN argv : j > i => ~FromUser(j))
            => argv[i].name.user = fs.old[n].uid
    /\ \A i \in DOMAIN argv :
         FromGroup(i) /\ (\A j \in DOMAIN argv : j > i => ~FromGroup(j))
            => argv[i].name.group = fs.old[n].gid
WantedOwner(n) ==
    IF Ref # "" THEN fs.old[Ref]
    ELSE [uid |-> IF fs.name.user = "" THEN fs.old[n].uid ELSE fs.name.user,
          gid |-> IF fs.name.group = "" THEN fs.old[n].gid ELSE fs.name.group]

\* When chown ends well, the files it has to go to that --from asks for have
\* the new owner and group, the old one where none is given, and no other
\* file is changed; of several --from each may name one of the two.  Not
\* covered: a colon without a group behind a user (the login group), --from
\* with -R when a directory does not match (what is below it is left alone),
\* and --preserve-root or its opposite beside a --reference (they drop it).
ChownExact ==
    /\ prog = "chown" /\ pc = "exit" /\ ok
    /\ Given({"help", "version"}) = {}
    /\ Has("reference") => Given({"preserve-root", "no-preserve-root"}) = {}
    /\ Ref = "" => (fs.name.colon /\ fs.name.user # "" => fs.name.group # "")
    /\ Has("R") => \A d \in DOMAIN fs.kids \cap Reached : AskedFor(d)
    => fs.owner = [n \in DOMAIN fs.old |->
                     IF n \in Reached /\ AskedFor(n) THEN WantedOwner(n) ELSE fs.old[n]]

\* pwd prints the path that leads from the root to the current directory, if
\* nothing on the way is a mount point and inode numbers differ.
PwdExact ==
    /\ prog = "pwd" /\ pc = "exit" /\ ok /\ fs.ino = fs.dino
    /\ \A m, n \in DOMAIN fs.ino : fs.ino[m] = fs.ino[n] => m = n
    => IF fs.parent[fs.cwd] = fs.cwd THEN out = <<"/">>
       ELSE /\ out # <<>> /\ Len(out) % 2 = 0 /\ Last(out) = fs.cwd
            /\ \A i \in 1..(Len(out) \div 2) :
                 LET up == fs.parent[out[2 * i]] IN
                 /\ out[2 * i - 1] = "/"
                 /\ IF i = 1 THEN fs.parent[up] = up ELSE up = out[2 * i - 2]

\* What the waiting programs keep count of is exact, although signals are
\* merged and lost, threads end while others are joined and clients are
\* killed: nobody goes on before all children have ended (the handler has
\* reaped each of them, the one child has signalled), every thread is joined
\* once and the counts are those of the states at every moment, and no number
\* is given out twice.
Accounted ==
    /\ prog \in Waiters /\ pc = "exit" /\ ok =>
         /\ InState("none") \cup InState("run") = {}
         /\ prog = "multi_SIGCHLD" => InState("zombie") = {}
    /\ prog = "thread_multijoin" /\ pc \notin {"main", "create"} /\ ok =>
         LET Those(s) == {t \in Threads : g.state[t] = s} IN
         /\ g.numUnjoined = Cardinality(Those("TS_TERMINATED"))
         /\ g.numLive = Cardinality(Threads \ Those("TS_JOINED"))
         /\ Those("TS_JOINED") = {t \in Threads : fs.thread[t] = "joined"}
         /\ pc = "exit" => Those("TS_JOINED") = Threads
    /\ prog = "fifo_seqnum" => \A c, d \in {e \in Askers : fs.num[e] >= 0} :
         c # d => fs.num[c] + fs.len[c] <= fs.num[d] \/ fs.num[d] + fs.len[d] <= fs.num[c]

\* Every call comes to an end, however the children, the threads and the
\* clients run; only the sequence number server rests when its clients have
\* gone, or for ever at the FIFO of a client that was killed.
Terminates == <>(pc \in Ended \/ Resting)
=============================================================================
