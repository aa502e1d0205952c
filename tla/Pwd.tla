-------------------------------- MODULE Pwd --------------------------------
(***************************************************************************)
(* pwd.c: the path of the current directory, found by climbing to the root *)
(* and looking the inode of each directory up in its parent.  fs has the   *)
(* directories with their parents (the root is its own), ino, the inode    *)
(* that stat tells, and dino, the one in the entry of the parent, which    *)
(* differs where a file system is mounted.  A directory's name is itself.  *)
(***************************************************************************)
EXTENDS CmdBase

\* main: -P and -L set a flag nobody reads, any other option, --help too,
\* fails.  At the root nothing has to be looked up.
PwdMain ==
    /\ prog = "pwd" /\ pc = "main"
    /\ LET fine == \A i \in DOMAIN argv : argv[i].o \in {"P", "L"}
           root == fs.ino[fs.cwd] = fs.ino[fs.parent[fs.cwd]]
       IN \/ ~fine /\ Exit(FALSE)
          \/ fine /\ root /\ out' = <<"/">> /\ pc' = "exit" /\ UNCHANGED <<prog, argv, fs, g, fi, off, ok, v>>
          \/ /\ fine /\ ~root
             /\ Goto("do_pwd", [this |-> fs.ino[fs.cwd], at |-> fs.cwd, names |-> <<>>])
             /\ UNCHANGED <<g, out, off>>

Entries(d, ino) == {n \in DOMAIN fs.parent : n # d /\ fs.parent[n] = d /\ fs.dino[n] = ino}

\* do_pwd: go to the parent and find the name there; no entry is an empty
\* name.  Where a directory and its parent have one inode number the climb
\* ends, at the root or not.
DoPwd ==
    /\ prog = "pwd" /\ pc = "do_pwd" /\ fs.ino[fs.parent[v.at]] # v.this
    /\ LET up == fs.parent[v.at] IN
       \E name \in IF Entries(up, v.this) = {} THEN {""} ELSE Entries(up, v.this) :
         v' = [this |-> fs.ino[up], at |-> up, names |-> <<name>> \o v.names]
    /\ UNCHANGED <<prog, argv, fs, g, fi, off, out, ok, pc>>

\* A slash and a name for every level.  Faulty variant: the names in the
\* order in which they were found.
Path_Reversed(names) ==
    [i \in 1..(2 * Len(names)) |-> IF i % 2 = 1 THEN "/" ELSE Reverse(names)[i \div 2]]
Path(names) == [i \in 1..(2 * Len(names)) |-> IF i % 2 = 1 THEN "/" ELSE names[i \div 2]]

\* The recursion returns.
PwdPrint ==
    /\ prog = "pwd" /\ pc = "do_pwd" /\ fs.ino[fs.parent[v.at]] = v.this
    /\ out' = out \o Path(v.names)
    /\ pc' = "exit" /\ UNCHANGED <<prog, argv, fs, g, fi, off, ok, v>>

PwdNext == PwdMain \/ DoPwd \/ PwdPrint
=============================================================================
