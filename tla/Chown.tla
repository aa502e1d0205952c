------------------------------- MODULE Chown -------------------------------
(***************************************************************************)
(* chown.c.  fs has the directory tree, owner and group of every file, the *)
(* names that the user and group databases know, the files chown(2) fails  *)
(* for, the directories that cannot be opened, and the operands; the       *)
(* operand "name" reads as fs.name, the others are no names of users.      *)
(***************************************************************************)
EXTENDS CmdBase

Keep == "keep"          \* uid or gid -1

\* parse_name on [user][:[group]]: without a colon there has to be a user.
\* What is missing, the group behind a colon too, stays as it is in ids.
ValidName(s) ==
    /\ s.group # "" => s.group \in fs.groups
    /\ s.user # "" \/ ~s.colon => s.user \in fs.users
NameIds(s, ids) == [uid |-> IF s.user = "" THEN ids.uid ELSE s.user,
                    gid |-> IF s.group = "" THEN ids.gid ELSE s.group]

Anyone == [uid |-> Keep, gid |-> Keep]

\* The option loop: --from is parsed at once, its name kept over the next
\* one; --preserve-root and its opposite fall through to --reference with no
\* file, and --dereference to --from with a null pointer.  Options that only
\* set a flag nobody reads, and unknown ones, do nothing.
ChownDefaults == [from |-> Anyone, R |-> FALSE, rfile |-> "", end |-> ""]
ChownOption(s, a) ==
    CASE s.end # "" -> s
      [] s.end = "" /\ a.o = "R" -> [s EXCEPT !.R = TRUE]
      [] s.end = "" /\ a.o = "dereference" -> [s EXCEPT !.end = "undefined"]
      [] s.end = "" /\ a.o = "from" ->
           IF ValidName(a.name) THEN [s EXCEPT !.from = NameIds(a.name, @)]
           ELSE [s EXCEPT !.end = "failure"]
      [] s.end = "" /\ a.o \in {"preserve-root", "no-preserve-root"} -> [s EXCEPT !.rfile = ""]
      [] s.end = "" /\ a.o = "reference" -> [s EXCEPT !.rfile = a.file]
      [] s.end = "" /\ a.o \in {"help", "version"} -> [s EXCEPT !.end = "success"]
      [] OTHER -> s

\* main behind the options: the new owner is that of the reference file or
\* the first operand.
ChownMain ==
    /\ prog = "chown" /\ pc = "main"
    /\ LET s == FoldLeft(ChownOption, ChownDefaults, argv)
           ref == s.rfile # ""
           enough == Len(fs.ops) >= IF ref THEN 1 ELSE 2
           known == IF ref THEN s.rfile \in DOMAIN fs.owner
                    ELSE fs.ops[1] = "name" /\ ValidName(fs.name)
       IN \/ s.end = "undefined" /\ Goto("undefined", None) /\ UNCHANGED <<g, out, off>>
          \/ s.end = "success" /\ Exit(TRUE)
          \/ s.end = "failure" /\ Exit(FALSE)
          \/ s.end = "" /\ ~(enough /\ known) /\ Exit(FALSE)
          \/ /\ s.end = "" /\ enough /\ known
             /\ g' = [from |-> s.from, R |-> s.R,
                      ids |-> IF ref THEN fs.owner[s.rfile] ELSE NameIds(fs.name, Anyone)]
             /\ Goto("chown", [todo |-> IF ref THEN fs.ops ELSE Tail(fs.ops)])
             /\ UNCHANGED <<out, off>>

\* Whether --from asks for a file of o.  Faulty variant: it is not looked at.
Matches_All(o, ids) == TRUE
Matches(o, ids) == ids.uid \in {Keep, o.uid} /\ ids.gid \in {Keep, o.gid}
Changed(o, ids) == [uid |-> IF ids.uid = Keep THEN o.uid ELSE ids.uid,
                    gid |-> IF ids.gid = Keep THEN o.gid ELSE ids.gid]

\* chown_file on the next file: one that --from does not match is left alone
\* with everything below it.  (The name that it prints first is left out.)
ChownFile ==
    /\ prog = "chown" /\ pc = "chown" /\ v.todo # <<>>
    /\ LET n == Head(v.todo)
           below == IF g.R /\ n \in DOMAIN fs.kids \ fs.closed
                    THEN SetToSeqs(fs.kids[n]) ELSE {<<>>}
           Next(entries, r) ==
             /\ v' = [todo |-> entries \o Tail(v.todo)] /\ ok' = (ok /\ r)
             /\ UNCHANGED <<prog, argv, g, fi, off, out, pc>>
       IN \/ n \notin DOMAIN fs.owner /\ Exit(FALSE)
          \/ /\ n \in DOMAIN fs.owner /\ ~Matches(fs.owner[n], g.from)
             /\ Next(<<>>, TRUE) /\ UNCHANGED fs
          \/ /\ n \in DOMAIN fs.owner /\ Matches(fs.owner[n], g.from) /\ n \in fs.denied
             /\ Next(<<>>, FALSE) /\ UNCHANGED fs
          \/ /\ n \in DOMAIN fs.owner /\ Matches(fs.owner[n], g.from) /\ n \notin fs.denied
             /\ fs' = [fs EXCEPT !.owner[n] = Changed(@, g.ids)]
             /\ \E s \in below : Next(s, ~(g.R /\ n \in fs.closed))

ChownEnd == prog = "chown" /\ pc = "chown" /\ v.todo = <<>> /\ Exit(TRUE)

ChownNext == ChownMain \/ ChownFile \/ ChownEnd
=============================================================================
