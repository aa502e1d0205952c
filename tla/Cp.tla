--------------------------------- MODULE Cp ---------------------------------
(***************************************************************************)
(* cp.c: copies one file over another.  fs has the source, the destination *)
(* (data as it is on disk), the answer to the question whether to          *)
(* overwrite, and room, the size the destination can grow to.              *)
(***************************************************************************)
EXTENDS CmdBase

\* The arguments: two names, or three with a -i somewhere among them; -i
\* changes nothing.  Without -i three names are refused.
CpMain ==
    /\ prog = "cp" /\ pc = "main"
    /\ IF Len(argv) = 2 \/ (Len(argv) = 3 /\ "-i" \in ToSet(argv))
       THEN Goto("cp_open", None) /\ UNCHANGED <<out, off, g>>
       ELSE Exit(FALSE)

\* An existing destination is opened as it is, not truncated; otherwise it
\* is created.  No answer but yes means that nothing is written.
CpOpen ==
    /\ prog = "cp" /\ pc = "cp_open"
    /\ \/ fs.src.kind = "missing" /\ Exit(FALSE)
       \/ fs.src.kind # "missing" /\ fs.dst.kind = "dir" /\ Exit(FALSE)
       \/ /\ fs.src.kind # "missing" /\ fs.dst.kind = "file"
          /\ pc' = IF fs.yes THEN "cp_copy" ELSE "exit"
          /\ UNCHANGED <<prog, argv, fs, g, fi, off, out, ok, v>>
       \/ /\ fs.src.kind # "missing" /\ fs.dst.kind = "missing"
          /\ fs' = [fs EXCEPT !.dst = [kind |-> "file", data |-> <<>>]]
          /\ pc' = "cp_copy" /\ UNCHANGED <<prog, argv, g, fi, off, out, ok, v>>

\* b written at offset at of data; in the faulty variant at its front.
Overwrite_Front(data, at, b) == b \o SubSeq(data, Len(b) + 1, Len(data))
Overwrite(data, at, b) ==
    SubSeq(data, 1, at) \o b \o SubSeq(data, at + Len(b) + 1, Len(data))

\* One pass of the loop.  A failing read is reported and cp ends well; a
\* short write ends it.
CpCopy ==
    /\ prog = "cp" /\ pc = "cp_copy"
    /\ LET b == SubSeq(fs.src.data, off + 1, Min({off + BufSize, Len(fs.src.data)}))
           fits == Min({Len(b), Max({0, fs.room - off})})
       IN \/ (fs.src.kind = "dir" \/ b = <<>>) /\ Exit(TRUE)
          \/ /\ fs.src.kind # "dir" /\ b # <<>>
             /\ fs' = [fs EXCEPT !.dst.data = Overwrite(@, off, SubSeq(b, 1, fits))]
             /\ off' = off + fits
             /\ IF fits < Len(b) THEN pc' = "exit" /\ ok' = FALSE ELSE UNCHANGED <<pc, ok>>
             /\ UNCHANGED <<prog, argv, g, fi, out, v>>

CpNext == CpMain \/ CpOpen \/ CpCopy
=============================================================================
