------------------------------ MODULE UserProcs ------------------------------
(***************************************************************************)
(* The calls of the kernel that the shell and its commands live on, as a   *)
(* program sees them: fork, exit and wait (kernel/proc.c), file            *)
(* descriptors (kernel/file.c, kernel/sysfile.c) and pipes                 *)
(* (kernel/pipe.c).  The details of those calls are in modules Proc,       *)
(* FileSystem and Pipe.  There is one directory; a file is a sequence of   *)
(* words.  The console has no input but the lines for the shell.           *)
(***************************************************************************)
EXTENDS Integers, Sequences, SequencesExt, FiniteSets, FiniteSetsExt

CONSTANTS NPROC, NOFILE, NFILE, PIPESIZE

ASSUME ProcsAssumption == /\ NPROC > 1 /\ NOFILE > 2 /\ NFILE > 0 /\ PIPESIZE > 0

Slots == 1 .. NPROC
Fds == 0 .. NOFILE - 1
InitProc == 1

VARIABLES
  proc,      \* the processes
  ftable,    \* open files: what they are open on, and the offset
  pipes,     \* what is in each pipe
  files,     \* the contents of files; <<"none">> if there is no such file
  console    \* what has been written to the console

osVars == <<proc, ftable, pipes, files, console>>

NoFds == [d \in Fds |-> 0]
Unused == [state |-> "unused", parent |-> 0, pc |-> "none", cmd |-> <<>>, fds |-> NoFds, argv |-> <<>>, item |-> <<>>, n |-> 0]
Closed == [kind |-> "none", name |-> "", off |-> 0, pipe |-> 0]

Running(p, pc) == proc[p].state = "running" /\ proc[p].pc = pc

-----------------------------------------------------------------------------
(* Open files that no descriptor refers to any more are closed.            *)
Referred(ps) == {ps[p].fds[d] : p \in Slots, d \in Fds} \ {0}

(* The state after the processes become ps, over the open files ft         *)
Settle(ps, ft) ==
  \E s \in {ps}, t \in {ft} : \E live \in {Referred(s)} :
    /\ proc' = s
    /\ ftable' = [f \in DOMAIN t |-> IF f \in live THEN t[f] ELSE Closed]
    /\ pipes' = [i \in DOMAIN pipes |-> IF \E f \in live : t[f].pipe = i THEN pipes[i] ELSE <<>>]

(* The open files that are free, or would be with the processes ps         *)
FreeFiles(ps) == DOMAIN ftable \ Referred(ps)
FreePipe == Min(DOMAIN pipes \ {ftable[f].pipe : f \in DOMAIN ftable})

LowestFd(fds) == Min({d \in Fds : fds[d] = 0})

(* fork with the child c, and the parent as par; it fails without a slot.  *)
CanFork == \E q \in Slots : proc[q].state = "unused"
NextSlot == Min({q \in Slots : proc[q].state = "unused"})
Fork(p, par, c) == [proc EXCEPT ![p] = par, ![NextSlot] = [c EXCEPT !.parent = p]]

(* exit: descriptors are closed and children go to init.                   *)
Exited(ps, p) ==
  [q \in Slots |-> IF q = p THEN [Unused EXCEPT !.state = "zombie", !.parent = ps[p].parent]
                   ELSE IF ps[q].parent = p THEN [ps[q] EXCEPT !.parent = InitProc]
                   ELSE ps[q]]

Exit(p) == Settle(Exited(proc, p), ftable) /\ UNCHANGED <<files, console>>

(* wait: the first child that has exited, or an error without children     *)
Children(p) == {q \in Slots : proc[q].state # "unused" /\ proc[q].parent = p}
Zombies(p) == {q \in Children(p) : proc[q].state = "zombie"}
Reaped(p, par) ==
  IF Children(p) = {} THEN [proc EXCEPT ![p] = par]
  ELSE [proc EXCEPT ![p] = par, ![Min(Zombies(p))] = Unused]
WaitReturns(p) == Children(p) = {} \/ Zombies(p) # {}

-----------------------------------------------------------------------------
(* read and write of one word.  A pipe blocks while it is empty and has a  *)
(* writer, or is full and has a reader.                                    *)

OpenFile(p, d) == ftable[proc[p].fds[d]]
HasEnd(kind, i) == \E f \in DOMAIN ftable : ftable[f].kind = kind /\ ftable[f].pipe = i

Eof(p, d) ==
  LET f == OpenFile(p, d)
  IN  CASE f.kind = "file" -> f.off >= Len(files[f.name])
        [] f.kind = "reader" -> pipes[f.pipe] = <<>> /\ ~HasEnd("writer", f.pipe)
        [] OTHER -> TRUE

CanRead(p, d) == OpenFile(p, d).kind = "reader" => pipes[OpenFile(p, d).pipe] # <<>>

(* The word that is next, and its being read, after which the process is   *)
(* as q.                                                                   *)
NextWord(p, d) ==
  LET f == OpenFile(p, d)
  IN  IF f.kind = "reader" THEN Head(pipes[f.pipe]) ELSE files[f.name][f.off + 1]

Read(p, d, q) ==
  LET f == OpenFile(p, d)
  IN  /\ proc' = [proc EXCEPT ![p] = q]
      /\ IF f.kind = "reader" THEN pipes' = [pipes EXCEPT ![f.pipe] = Tail(@)] /\ UNCHANGED ftable
         ELSE ftable' = [ftable EXCEPT ![proc[p].fds[d]].off = @ + 1] /\ UNCHANGED pipes
      /\ UNCHANGED <<files, console>>

Broken(p) == OpenFile(p, 1).kind = "writer" /\ ~HasEnd("reader", OpenFile(p, 1).pipe)
CanWrite(p) == OpenFile(p, 1).kind = "writer" => Len(pipes[OpenFile(p, 1).pipe]) < PIPESIZE

Over(content, off, w) == IF off < Len(content) THEN [content EXCEPT ![off + 1] = w] ELSE Append(content, w)

(* A word is written to descriptor 1, and then the process is as q.        *)
Write(p, w, q) ==
  LET f == OpenFile(p, 1)
  IN  /\ proc' = [proc EXCEPT ![p] = q]
      /\ CASE f.kind = "console" -> console' = Append(console, w) /\ UNCHANGED <<ftable, pipes, files>>
           [] f.kind = "writer" -> pipes' = [pipes EXCEPT ![f.pipe] = Append(@, w)] /\ UNCHANGED <<ftable, files, console>>
           [] f.kind = "file" -> /\ files' = [files EXCEPT ![f.name] = Over(@, f.off, w)]
                                 /\ ftable' = [ftable EXCEPT ![proc[p].fds[1]].off = @ + 1]
                                 /\ UNCHANGED <<pipes, console>>

(* open *)
Exists(file) == files[file] # <<"none">>
CanOpen(file, mode) == Exists(file) \/ mode # "read"
Opened(file, mode) == IF mode = "truncate" \/ ~Exists(file) THEN [files EXCEPT ![file] = <<>>] ELSE files
OnFile(file) == [kind |-> "file", name |-> file, off |-> 0, pipe |-> 0]
=============================================================================
