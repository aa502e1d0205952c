---------------------------- MODULE MCCommands ----------------------------
(* The calls of the commands that TLC goes through.                        *)
EXTENDS Commands

Texts(bytes, n) == BoundedSeq(bytes, n)
File(d) == [kind |-> "file", data |-> d]
Pipe(d) == [kind |-> "pipe", data |-> d]
Dir == [kind |-> "dir", data |-> <<>>]
Missing == [kind |-> "missing", data |-> <<>>]

Flag(o) == [o |-> o]
Number(o, sign, k) == [o |-> o, sign |-> sign, digits |-> <<k>>]
Numbers(signs) == {Number(o, s, k) : o \in {"c", "n"}, s \in signs, k \in 0..4}
Calls(p, as, ops) == {[prog |-> p, argv |-> a, fs |-> f] : a \in as, f \in ops}

LineTexts == Texts({"x", "nl"}, 6)
ZeroTexts == Texts({"x", "nl", "nul"}, 3)
Pairs == {<<File(a), File(b)>> : a, b \in Texts({"x", "nl"}, 2)}
OddPairs == {<<File(<<"x">>), Missing>>, <<Missing, File(<<"x">>)>>,
             <<Dir, File(<<"x">>)>>, <<File(<<"x">>), Dir>>}

\* A missing input is also what tail makes of a call with no operand.
HeadTailCalls(p, signs) ==
    Calls(p, {<<a>> : a \in Numbers(signs)},
          {<<File(d)>> : d \in LineTexts} \cup {<<Pipe(d)>> : d \in Texts({"x", "nl"}, 4)}
          \cup {<<Dir>>, <<Missing>>})
    \cup Calls(p, {<<Flag("z"), a>> : a \in Numbers(signs)}, {<<File(d)>> : d \in ZeroTexts})
    \cup Calls(p, {<<a>> : a \in Numbers(signs)}
                  \cup {<<a, Flag(o)>> : a \in {Number("c", s, 1) : s \in signs}, o \in {"q", "v"}}
                  \cup {<<>>, <<Number("c", "", 1), Number("n", "", 2)>>}, Pairs \cup OddPairs)
    \cup Calls(p, {<<Flag("v")>>, <<Flag("v"), Number("n", "", 1)>>}, {<<File(<<"x">>)>>})

HeadCalls == HeadTailCalls("head", {"", "-"})
TailCalls == HeadTailCalls("tail", {"", "+"})
    \cup Calls("tail", {<<Flag("f"), Number("n", "", 1)>>, <<Number("n", "", 1), Flag("s")>>},
               {<<File(<<"x", "nl", "x">>)>>})

CatCalls ==
    Calls("cat", {<<>>, <<Flag("n")>>, <<Flag("b")>>, <<Flag("n"), Flag("s")>>,
                  <<Flag("b"), Flag("s"), Flag("E")>>, <<Flag("s"), Flag("e")>>},
          {<<File(d)>> : d \in LineTexts} \cup {<<Pipe(d)>> : d \in Texts({"x", "nl"}, 4)}
          \cup Pairs \cup OddPairs)
    \cup Calls("cat", {<<Flag("T"), Flag("n")>>, <<Flag("t")>>},
               {<<File(d)>> : d \in Texts({"x", "nl", "tab", "nul"}, 4)})
    \cup Calls("cat", {<<Flag("T"), Flag("b")>>, <<Flag("u"), Flag("v")>>, <<Flag("A")>>},
               {<<File(d)>> : d \in Texts({"soh", "nl", "tab"}, 3)})

ByteTexts == Texts({1, 2}, 4)
OdArg(o, n) == [o |-> o, num |-> n]
OdCalls ==
    Calls("od", {<<OdArg("w", 2)>>, <<OdArg("w", 4), Flag("v")>>, <<OdArg("N", 3)>>,
                 <<OdArg("N", 0)>>, <<OdArg("j", 1)>>, <<OdArg("j", 3), OdArg("N", 2)>>},
          {<<File(d), File(e)>> : d \in ByteTexts, e \in Texts({1, 2}, 2)})
    \cup Calls("od", {<<>>, <<OdArg("N", 2)>>, <<OdArg("j", 2)>>},
               {<<Pipe(d), File(e)>> : d \in ByteTexts, e \in Texts({1}, 1)})
    \cup Calls("od", {<<>>}, {<<File(<<1>>), Missing, File(<<2>>)>>, <<Dir, File(<<2>>)>>})

CpCalls ==
    Calls("cp", {<<"a", "b">>, <<"-i", "a", "b">>, <<"a", "b", "c">>, <<"a">>},
          {[src |-> s, dst |-> d, old |-> d, yes |-> y, room |-> r] :
             s \in {File(t) : t \in Texts({"x", "nl"}, 4)} \cup {Dir, Missing},
             d \in {File(t) : t \in Texts({"y"}, 3)} \cup {Dir, Missing},
             y \in BOOLEAN, r \in {2, 9}})

\* Modes: what a clause means and its spelling.
Spell(c) ==
    SetToSeq(c.who) \o <<c.op>>
    \o CASE c.kind = "perms" -> SetToSeq(c.perms)
         [] c.kind = "from" -> <<c.from>>
         [] c.kind = "octal" -> c.digits
Perms(ws, os, ps) == {[kind |-> "perms", who |-> w, op |-> o, perms |-> p] : w \in ws, o \in os, p \in ps}
Copies(ws, os, fr) == {[kind |-> "from", who |-> w, op |-> o, from |-> f] : w \in ws, o \in os, f \in fr}
OctalClauses == {[kind |-> "octal", who |-> {}, op |-> o, octal |-> 308, digits |-> <<"4", "6", "4">>] :
                    o \in Ops}
SomeWho == {{}, {"u"}, {"g", "o"}, {"u", "g", "o"}}
FirstClauses == Perms(SomeWho, Ops, {{}, {"r"}, {"w", "x"}, {"x", "s"}})
                \cup Copies(SomeWho, Ops, Who) \cup OctalClauses
SecondClauses == Perms({{}, {"g"}}, Ops, {{"r"}, {"s"}}) \cup Copies({{"g"}}, Ops, {"u", "o"})
Lists == {<<c>> : c \in FirstClauses} \cup {<<c, d>> : c \in FirstClauses, d \in SecondClauses}

\* A list of modes is the first operand.
Modes(means, list) == [means |-> means, list |-> list]
Symbolic(means) == Modes(means, [i \in DOMAIN means |-> Spell(means[i])])
Number755 == Modes(<<[kind |-> "octal", who |-> {}, op |-> "=", octal |-> 2541]>>,
                   <<<<"4", "7", "5", "5">>>>)
NoModes == Modes(<<>>, <<>>)
WithFirst(w, f) == [f EXCEPT !.ops = <<w>> \o @]
ModeCalls(as, ms, trees) == Calls("chmod", as, {WithFirst("mode", t) @@ m : m \in ms, t \in trees})
Flags(letters) == [i \in DOMAIN letters |-> Flag(letters[i])]
Reference(f) == [o |-> "reference", file |-> f]
ModeOption(c) == [o |-> "mode", clause |-> c]
\* Lists that are not of the documented form: all single clauses of up to
\* three of these characters, and some longer ones.
BadLists ==
    {l \in {<<c>> : c \in Texts({"u", "q", "+", "r", "g", "7", "8"}, 3)} : ~ListForm(l)}
    \cup {<<<<"u", "+", "8">>>>, <<<<"u", "+", "g", "r">>>>, <<<<"u", "+", "r", "g">>>>,
          <<<<"u", "+", "r">>, <<>>>>, <<<<"7">>, <<"+", "r">>>>, <<<<"u", "+", "r">>, <<"7">>>>}

Mode(u, gg, o) == [w \in Who |-> CASE w = "u" -> u [] w = "g" -> gg [] w = "o" -> o]
Rwx == {"r", "w", "x"}
Tree(dm, fm, em, hm, mine, ops) ==
    LET m == ("d" :> dm) @@ ("f" :> fm) @@ ("e" :> em) @@ ("h" :> hm) IN
    [kids |-> ("d" :> {"f", "e"}) @@ ("e" :> {"h"}), mode |-> m, old |-> m, mine |-> mine, ops |-> ops]
SomeModes == {Mode(Rwx, {"r", "x"}, {}), Mode({"r", "s"}, {"w"}, {"x"}), Mode({}, {"r", "s"}, Rwx)}
Mine == {"d", "e", "f", "h"}
Trees == {Tree(Mode(Rwx, {}, o), Mode({"r"}, {}, {}), e, Mode({"w"}, {"r"}, {}), m, ops) :
            o \in {{}, Rwx}, e \in SomeModes, m \in {Mine, Mine \ {"h"}, Mine \ {"e"}, Mine \ {"f"}, {"f"}},
            ops \in {<<"d">>, <<"f">>, <<"f", "e">>, <<"none", "f">>}}
Plain(ops) ==
    Tree(Mode(Rwx, {}, {}), Mode({"r"}, {}, {}), Mode(Rwx, {}, {}), Mode(Rwx, {}, {}), Mine, ops)
ChmodCalls ==
    ModeCalls({<<>>}, {Symbolic(l) : l \in Lists},
              {Tree(Mode({"x"}, {}, {}), m, Mode({}, {}, {}), Mode({}, {}, {}), Mine, <<"f">>) : m \in SomeModes})
    \cup ModeCalls({Flags(<<"c", "R">>)},
                   {Symbolic(<<c>>) : c \in Perms({{}, {"u"}}, Ops, {{"r"}, {"x"}}) \cup Copies({{"g"}}, {"="}, {"u"})},
                   Trees)
    \cup ModeCalls({Flags(<<"c", "R">>), Flags(<<"c", "v">>)}, {Number755}, Trees)
    \cup Calls("chmod", {<<Flag("v"), Reference("h"), Flag("R")>>, <<Reference("h"), Reference("f"), Flag("c"), Flag("R")>>,
                         <<Flag("R"), Reference("none")>>, <<ModeOption(<<"-", "r">>), Reference("h")>>},
               {t @@ NoModes : t \in Trees})
    \cup Calls("chmod", {<<ModeOption(<<"-", "r", "w">>)>>, <<ModeOption(<<"-", "7">>), Flag("R")>>,
                         <<ModeOption(<<"-", "r">>), ModeOption(<<"-", "w">>)>>},
               {t @@ NoModes : t \in Trees})
    \cup ModeCalls({Flags(<<"c", "v", "R">>)}, {Modes(<<>>, l) : l \in BadLists}, {Plain(<<"d">>), Plain(<<>>)})
    \cup ModeCalls({<<Flag("v")>>, Flags(<<"f", "preserve-root", "help">>), Flags(<<"u", "R">>)},
                   {Symbolic(<<c>>) : c \in Perms({{}}, Ops, {{"r"}})}, {Plain(<<"d">>), Plain(<<>>)})
    \cup ModeCalls({<<Reference("h")>>}, {Number755}, {Plain(<<"f">>)})
    \cup Calls("chmod", {<<>>}, {Plain(<<>>) @@ NoModes, Plain(<<"f", "d">>) @@ NoModes})

Name(u, c, gg) == [user |-> u, colon |-> c, group |-> gg]
Names == {Name(u, TRUE, gg) : u, gg \in {"", "p", "q"}} \cup {Name(u, FALSE, "") : u \in {"", "p"}}
         \cup {Name("none", FALSE, ""), Name("p", TRUE, "none")}
Own(u, gg) == [uid |-> u, gid |-> gg]
OwnTree(de, f, h, denied, closed, ops) ==
    LET o == ("d" :> de) @@ ("e" :> de) @@ ("f" :> f) @@ ("h" :> h) IN
    [kids |-> ("d" :> {"f", "e"}) @@ ("e" :> {"h"}), owner |-> o, old |-> o, users |-> {"p", "q"},
     groups |-> {"p", "q"}, denied |-> denied, closed |-> closed, ops |-> ops]
From(n) == [o |-> "from", name |-> n]
Recursive == {<<>>, <<Flag("R")>>}
NoName == [name |-> None]
OwnTrees == {OwnTree(de, f, Own("q", "q"), dco[1], dco[2], dco[3]) :
    de \in {Own("p", "q"), Own("q", "p")}, f \in {Own("p", "p"), Own("q", "p")},
    dco \in {<<{}, {}, <<"d">>>>, <<{"e"}, {}, <<"d">>>>, <<{"h"}, {}, <<"d">>>>,
             <<{}, {"e"}, <<"d">>>>, <<{"e"}, {}, <<"e", "f">>>>, <<{}, {}, <<"f", "e">>>>,
             <<{}, {}, <<"f", "none", "e">>>>, <<{}, {}, <<>>>>}}
NameCalls(as, names, trees) ==
    Calls("chown", as, {WithFirst("name", t) @@ [name |-> n] : n \in names, t \in trees})
ChownCalls ==
    NameCalls({r \o f : r \in Recursive,
                 f \in {<<>>, <<From(Name("p", TRUE, ""))>>, <<From(Name("", TRUE, "q"))>>,
                        <<From(Name("p", TRUE, "q"))>>, <<From(Name("none", FALSE, ""))>>,
                        <<From(Name("", TRUE, "q")), From(Name("p", FALSE, ""))>>}}, Names, OwnTrees)
    \cup NameCalls({<<Flag(o)>> : o \in {"f", "dereference", "help", "preserve-root"}}
                   \cup {<<Reference("h"), Flag("no-preserve-root")>>, <<Reference("h")>>},
                   {Name("p", FALSE, "")}, OwnTrees)
    \cup Calls("chown", {<<Reference(f), Flag("R")>> : f \in {"h", "none"}}
                        \cup {<<>>, <<Reference("h"), Flag("preserve-root")>>},
               {t @@ NoName : t \in OwnTrees})

Chain(ino, dino, cwd) ==
    LET dirs == <<"root", "a", "b", "c">> IN
    [parent |-> [n \in ToSet(dirs) |-> CASE n = "root" -> "root" [] n = "a" -> "root"
                                         [] n = "b" -> "a" [] n = "c" -> "a"],
     ino |-> [n \in ToSet(dirs) |-> ino[CHOOSE i \in 1..4 : dirs[i] = n]],
     dino |-> [n \in ToSet(dirs) |-> dino[CHOOSE i \in 1..4 : dirs[i] = n]],
     cwd |-> cwd]
PwdCalls ==
    Calls("pwd", {<<>>},
          {Chain(i, d, c) : i \in {n \in [1..4 -> 1..4] : n[1] = 1}, d \in {<<1, 2, 3, 4>>, <<1, 4, 2, 3>>, <<1, 1, 2, 3>>},
                            c \in {"root", "a", "b", "c"}})
    \cup Calls("pwd", {Flags(<<"P", "L">>), <<Flag("help")>>},
               {Chain(<<1, 2, 3, 4>>, <<1, 2, 3, 4>>, c) : c \in {"root", "b"}})

Times(n) == [i \in 1..n |-> Flag("sleep")]
Kids(n) == [child |-> [c \in 1..n |-> "none"], pending |-> FALSE]
SyncCalls ==
    {[prog |-> p, argv |-> Times(n), fs |-> Kids(n)] : p \in {"multi_SIGCHLD", "pipe_sync"}, n \in 0..4}
    \cup Calls("fork_sig_sync", {<<>>}, {Kids(1)})
    \cup {[prog |-> "thread_multijoin", argv |-> Times(n), fs |-> [thread |-> [t \in 1..n |-> "none"]]] :
            n \in 0..4}
    \cup Calls("fifo_seqnum", {<<>>},
               {[st |-> [c \in 1..3 |-> "start"], len |-> l, num |-> [c \in 1..3 |-> -1], fifo |-> <<>>] :
                  l \in {<<1, 2, 1>>, <<2, 3, 2>>}})

AllCases == <<HeadCalls, TailCalls, CatCalls, OdCalls, CpCalls, ChmodCalls, ChownCalls, PwdCalls,
              SyncCalls>>
=============================================================================
