-------------------------------- MODULE Shell --------------------------------
(***************************************************************************)
(* The shell, user/sh.c: a process reads lines and has a child run each of *)
(* them; runcmd forks further processes and connects them.  init,          *)
(* user/init.c, starts the shell and takes in orphans.  The commands are   *)
(* echo and cat (user/echo.c, user/cat.c).  Messages on descriptor 2 are   *)
(* left out, and so are the separator that echo writes after each word and *)
(* the loop that opens the console until descriptors 0 to 2 are in use:    *)
(* init has opened them, and the shell closes the one more that it opens.  *)
(***************************************************************************)
EXTENDS UserProcs, ShellParser

CONSTANTS
  Inputs,     \* bound: the lines that may be typed
  Files       \* the files at the beginning

VARIABLES
  lines,      \* the lines that are still to be typed, or Eot for the end
  last,       \* the last line that was read, and files and console before it
  failed      \* a call has failed because a table of the kernel was full

vars == <<osVars, lines, last, failed>>

NoLine == [cmd |-> Parsed(execcmd, <<>>), files |-> Files, console |-> <<>>, alone |-> TRUE]

(* init has opened the console and duplicated it.                          *)
Init ==
  /\ proc = [p \in Slots |-> IF p = InitProc
               THEN [Unused EXCEPT !.state = "running", !.pc = "init", !.fds = [NoFds EXCEPT ![0] = 1, ![1] = 1, ![2] = 1]]
               ELSE Unused]
  /\ ftable = [f \in 1 .. NFILE |-> IF f = 1 THEN [Closed EXCEPT !.kind = "console"] ELSE Closed]
  /\ pipes = [f \in 1 .. NFILE |-> <<>>]
  /\ files = Files
  /\ console = <<>>
  /\ lines \in Inputs
  /\ last = NoLine
  /\ failed = FALSE

ShellVars == <<lines, last, failed>>

Goto(p, pc) == [proc[p] EXCEPT !.pc = pc]
Becomes(p, q) == proc' = [proc EXCEPT ![p] = q] /\ UNCHANGED <<ftable, pipes, files, console>>

(* fork1, after which the parent is par and the child is c; panic exits.   *)
Fork1(p, par, c) ==
  IF CanFork THEN Settle(Fork(p, par, c), ftable) /\ UNCHANGED <<files, console, failed>>
  ELSE Exit(p) /\ failed' = TRUE

Wait(p, par) == WaitReturns(p) /\ Settle(Reaped(p, par), ftable) /\ UNCHANGED <<files, console>>

(* A command without jobs in the background                                *)
RECURSIVE Foreground(_)
Foreground(c) == CASE c.type = "EXEC" -> TRUE
                   [] c.type = "REDIR" -> Foreground(c.cmd)
                   [] c.type = "BACK" -> FALSE
                   [] OTHER -> Foreground(c.left) /\ Foreground(c.right)

-----------------------------------------------------------------------------
(* init.c *)

(* Without a slot for the shell init exits, and the kernel panics.         *)
StartShell(p) ==
  /\ Running(p, "init") /\ CanFork
  /\ Fork1(p, [Goto(p, "initwait") EXCEPT !.n = NextSlot], Goto(p, "shell"))
  /\ UNCHANGED <<lines, last>>

(* The child that wait returns is the shell, or an orphan.                 *)
InitWait(p) ==
  /\ Running(p, "initwait")
  /\ Wait(p, IF Min(Zombies(p)) = proc[p].n THEN Goto(p, "init") ELSE proc[p])
  /\ UNCHANGED ShellVars

-----------------------------------------------------------------------------
(* The loop of the shell: end of input, cd, and other lines                *)

Eot == <<"^D">>
IsCd(line) == Len(line) > 1 /\ line[1] = "cd"
Types(p) == Running(p, "shell") /\ lines # <<>>

ShellEof(p) ==
  /\ Types(p) /\ Head(lines) = Eot
  /\ Exit(p)
  /\ lines' = Tail(lines)
  /\ UNCHANGED <<last, failed>>

(* There is no directory to change to.                                     *)
ShellCd(p) ==
  /\ Types(p) /\ IsCd(Head(lines))
  /\ lines' = Tail(lines)
  /\ last' = [cmd |-> Parsed(execcmd, <<>>), files |-> files, console |-> console,
              alone |-> last.alone /\ Foreground(last.cmd.cmd)]
  /\ UNCHANGED <<osVars, failed>>

ShellLine(p) ==
  /\ Types(p) /\ Head(lines) # Eot /\ ~IsCd(Head(lines))
  /\ Fork1(p, Goto(p, "shellwait"), [Goto(p, "parse") EXCEPT !.argv = Head(lines)])
  /\ lines' = Tail(lines)
  /\ last' = [cmd |-> parsecmd(Head(lines)), files |-> files, console |-> console,
              alone |-> last.alone /\ Foreground(last.cmd.cmd)]

ShellWait(p) ==
  /\ Running(p, "shellwait")
  /\ Wait(p, Goto(p, "shell"))
  /\ UNCHANGED ShellVars

-----------------------------------------------------------------------------
(* runcmd(parsecmd(..)) in the child *)

Run(p, cmd) == [proc[p] EXCEPT !.pc = "run", !.cmd = cmd, !.argv = <<>>, !.n = 0]
Runs(p, type) == Running(p, "run") /\ proc[p].cmd.type = type

Parse(p) ==
  /\ Running(p, "parse")
  /\ \E r \in {parsecmd(proc[p].argv)} : IF r.ok THEN Becomes(p, Run(p, r.cmd)) ELSE Exit(p)
  /\ UNCHANGED ShellVars

Programs == {"echo", "cat"}

(* exec takes the place of the process, if the file is still a program.    *)
RunExec(p) ==
  /\ Runs(p, "EXEC")
  /\ LET argv == proc[p].cmd.argv
     IN  IF argv = <<>> \/ argv[1] \notin Programs \/ files[argv[1]] # Files[argv[1]] THEN Exit(p)
         ELSE Becomes(p, [Goto(p, argv[1]) EXCEPT !.cmd = <<>>, !.argv = Tail(argv)])
  /\ UNCHANGED ShellVars

(* close, and then open, which takes the descriptor that is free now       *)
RunRedir(p) ==
  /\ Runs(p, "REDIR")
  /\ LET cmd == proc[p].cmd
         fds == [proc[p].fds EXCEPT ![cmd.fd] = 0]
         free == FreeFiles([proc EXCEPT ![p].fds = fds])
         f == Min(free)
     IN  IF ~CanOpen(cmd.file, cmd.mode) \/ free = {}
         THEN /\ Settle(Exited(proc, p), ftable)
              /\ files' = IF CanOpen(cmd.file, cmd.mode) THEN Opened(cmd.file, "write") ELSE files
              /\ failed' = (failed \/ free = {})
              /\ UNCHANGED console
         ELSE /\ Settle([proc EXCEPT ![p] = [Run(p, cmd.cmd) EXCEPT !.fds = [fds EXCEPT ![LowestFd(fds)] = f]]],
                        [ftable EXCEPT ![f] = OnFile(cmd.file)])
              /\ files' = Opened(cmd.file, cmd.mode)
              /\ UNCHANGED <<console, failed>>
  /\ UNCHANGED <<lines, last>>

RunList(p) ==
  /\ Runs(p, "LIST")
  /\ Fork1(p, Goto(p, "listwait"), Run(p, proc[p].cmd.left))
  /\ UNCHANGED <<lines, last>>

ListWait(p) ==
  /\ Running(p, "listwait")
  /\ Wait(p, Run(p, proc[p].cmd.right))
  /\ UNCHANGED ShellVars

RunBack(p) ==
  /\ Runs(p, "BACK")
  /\ Fork1(p, Goto(p, "exit"), Run(p, proc[p].cmd.cmd))
  /\ UNCHANGED <<lines, last>>

-----------------------------------------------------------------------------
(* PIPE *)

(* pipe(p), with the two descriptors kept in item: the reading end and     *)
(* the writing end                                                         *)
RunPipe(p) ==
  /\ Runs(p, "PIPE")
  /\ IF Cardinality(FreeFiles(proc)) < 2 THEN Exit(p) /\ failed' = TRUE
     ELSE LET r == Min(FreeFiles(proc))
              w == Min(FreeFiles(proc) \ {r})
              fds == proc[p].fds
              d == LowestFd(fds)
              e == LowestFd([fds EXCEPT ![d] = r])
          IN  /\ Settle([proc EXCEPT ![p] = [Goto(p, "pipeleft") EXCEPT !.fds = [fds EXCEPT ![d] = r, ![e] = w], !.item = <<d, e>>]],
                        [ftable EXCEPT ![r] = [Closed EXCEPT !.kind = "reader", !.pipe = FreePipe],
                                       ![w] = [Closed EXCEPT !.kind = "writer", !.pipe = FreePipe]])
              /\ UNCHANGED <<files, console, failed>>
  /\ UNCHANGED <<lines, last>>

Ends(p) == proc[p].item

ForkLeft(p) ==
  /\ Running(p, "pipeleft")
  /\ Fork1(p, Goto(p, "piperight"), Goto(p, "left"))
  /\ UNCHANGED <<lines, last>>

ForkRight(p) ==
  /\ Running(p, "piperight")
  /\ Fork1(p, Goto(p, "pipeclose"), Goto(p, "right"))
  /\ UNCHANGED <<lines, last>>

(* close(k), dup(end), and both ends of the pipe closed                    *)
Connected(p, k, end) ==
  LET fds == [proc[p].fds EXCEPT ![k] = 0]
      dup == [fds EXCEPT ![LowestFd(fds)] = fds[end]]
  IN  [dup EXCEPT ![Ends(p)[1]] = 0, ![Ends(p)[2]] = 0]

LeftEnd(p) ==
  /\ Running(p, "left")
  /\ Settle([proc EXCEPT ![p] = [Run(p, proc[p].cmd.left) EXCEPT !.fds = Connected(p, 1, Ends(p)[2]), !.item = <<>>]], ftable)
  /\ UNCHANGED <<files, console, ShellVars>>

(* Seeded fault: the right side keeps the writing end of the pipe.         *)
RightFdsOpen(p) == [Connected(p, 0, Ends(p)[1]) EXCEPT ![Ends(p)[2]] = proc[p].fds[Ends(p)[2]]]

RightFds(p) == Connected(p, 0, Ends(p)[1])

RightEnd(p) ==
  /\ Running(p, "right")
  /\ Settle([proc EXCEPT ![p] = [Run(p, proc[p].cmd.right) EXCEPT !.fds = RightFds(p), !.item = <<>>]], ftable)
  /\ UNCHANGED <<files, console, ShellVars>>

(* Seeded fault: the shell waits for one side of the pipe only.            *)
PipeWaitsOne == 1

PipeWaits == 2

PipeClose(p) ==
  /\ Running(p, "pipeclose")
  /\ Settle([proc EXCEPT ![p] = [Goto(p, "pipewait") EXCEPT !.fds = [@ EXCEPT ![Ends(p)[1]] = 0, ![Ends(p)[2]] = 0],
                                   !.item = <<>>, !.n = PipeWaits]], ftable)
  /\ UNCHANGED <<files, console, ShellVars>>

PipeWait(p) ==
  /\ Running(p, "pipewait")
  /\ Wait(p, [proc[p] EXCEPT !.n = @ - 1, !.pc = IF proc[p].n = 1 THEN "exit" ELSE @])
  /\ UNCHANGED ShellVars

RunExit(p) ==
  /\ Running(p, "exit")
  /\ Exit(p)
  /\ UNCHANGED ShellVars

-----------------------------------------------------------------------------
(* echo.c: an error of write is ignored.                                   *)

Echo(p) ==
  /\ Running(p, "echo")
  /\ IF proc[p].argv = <<>> THEN Exit(p)
     ELSE LET q == [proc[p] EXCEPT !.argv = Tail(@)]
          IN  IF Broken(p) THEN Becomes(p, q) ELSE CanWrite(p) /\ Write(p, Head(proc[p].argv), q)
  /\ UNCHANGED ShellVars

(* cat.c: descriptor 0, or each file in turn.                              *)
CatFd(p) == proc[p].n

Cat(p) ==
  /\ Running(p, "cat")
  /\ LET f == Min(FreeFiles(proc))
         d == LowestFd(proc[p].fds)
     IN  IF proc[p].argv = <<>> THEN Becomes(p, Goto(p, "catread")) /\ UNCHANGED failed
         ELSE IF ~CanOpen(Head(proc[p].argv), "read") \/ FreeFiles(proc) = {}
         THEN Exit(p) /\ failed' = (failed \/ FreeFiles(proc) = {})
         ELSE /\ Settle([proc EXCEPT ![p] = [Goto(p, "catread") EXCEPT !.fds[d] = f, !.n = d, !.argv = Tail(@)]],
                        [ftable EXCEPT ![f] = OnFile(Head(proc[p].argv))])
              /\ UNCHANGED <<files, console, failed>>
  /\ UNCHANGED <<lines, last>>

CatRead(p) ==
  /\ Running(p, "catread") /\ ~Eof(p, CatFd(p)) /\ CanRead(p, CatFd(p))
  /\ Read(p, CatFd(p), [proc[p] EXCEPT !.pc = "catwrite", !.item = <<NextWord(p, CatFd(p))>>])
  /\ UNCHANGED ShellVars

CatWrite(p) ==
  /\ Running(p, "catwrite")
  /\ IF Broken(p) THEN Exit(p)
     ELSE CanWrite(p) /\ Write(p, proc[p].item[1], [proc[p] EXCEPT !.pc = "catread", !.item = <<>>])
  /\ UNCHANGED ShellVars

CatEof(p) ==
  /\ Running(p, "catread") /\ Eof(p, CatFd(p))
  /\ IF proc[p].argv = <<>> THEN Exit(p)
     ELSE Settle([proc EXCEPT ![p] = [Goto(p, "cat") EXCEPT !.fds[CatFd(p)] = 0, !.n = 0]], ftable) /\ UNCHANGED <<files, console>>
  /\ UNCHANGED ShellVars

-----------------------------------------------------------------------------
Step(p) ==
  \/ StartShell(p) \/ InitWait(p)
  \/ ShellEof(p) \/ ShellCd(p) \/ ShellLine(p) \/ ShellWait(p)
  \/ Parse(p) \/ RunExec(p) \/ RunRedir(p) \/ RunList(p) \/ ListWait(p) \/ RunBack(p) \/ RunExit(p)
  \/ RunPipe(p) \/ ForkLeft(p) \/ ForkRight(p) \/ LeftEnd(p) \/ RightEnd(p) \/ PipeClose(p) \/ PipeWait(p)
  \/ Echo(p) \/ Cat(p) \/ CatRead(p) \/ CatWrite(p) \/ CatEof(p)

Next == \E p \in Slots : Step(p)

(* The scheduler runs every process that can go on.                        *)
Spec == Init /\ [][Next]_vars /\ \A p \in Slots : WF_vars(Step(p))

-----------------------------------------------------------------------------
(* What a command means: from its input and the files to its output, the   *)
(* files, and what is left of the input                                    *)

Program(argv, fs) == argv # <<>> /\ argv[1] \in Programs /\ fs[argv[1]] = Files[argv[1]]

Cats(names, fs) ==
  LET there == {i \in 0 .. Len(names) : \A j \in 1 .. i : fs[names[j]] # <<"none">>}
  IN  FlattenSeq([i \in 1 .. Max(there) |-> fs[names[i]]])

Overlay(old, new) == new \o SubSeq(old, Len(new) + 1, Len(old))

RECURSIVE Meaning(_, _, _)
Meaning(c, in, fs) ==
  LET nothing == [out |-> <<>>, files |-> fs, in |-> in]
  IN  CASE c.type = "EXEC" ->
             IF ~Program(c.argv, fs) THEN nothing
             ELSE IF c.argv[1] = "echo" THEN [nothing EXCEPT !.out = Tail(c.argv)]
             ELSE IF Len(c.argv) = 1 THEN [nothing EXCEPT !.out = in, !.in = <<>>]
             ELSE [nothing EXCEPT !.out = Cats(Tail(c.argv), fs)]
        [] c.type = "REDIR" /\ c.mode = "read" ->
             IF fs[c.file] = <<"none">> THEN nothing ELSE [Meaning(c.cmd, fs[c.file], fs) EXCEPT !.in = in]
        [] c.type = "REDIR" /\ c.mode # "read" ->
             LET old == IF c.mode = "truncate" \/ fs[c.file] = <<"none">> THEN <<>> ELSE fs[c.file]
                 m == Meaning(c.cmd, in, [fs EXCEPT ![c.file] = old])
             IN  [m EXCEPT !.out = <<>>, !.files[c.file] = Overlay(old, m.out)]
        [] c.type = "PIPE" ->
             LET l == Meaning(c.left, in, fs)
             IN  [Meaning(c.right, l.out, l.files) EXCEPT !.in = l.in]
        [] c.type = "LIST" ->
             LET l == Meaning(c.left, in, fs)
                 r == Meaning(c.right, l.in, l.files)
             IN  [r EXCEPT !.out = l.out \o r.out]

(* The files that a command writes, and all that it uses                   *)
RECURSIVE Writes(_)
Writes(c) == CASE c.type = "EXEC" -> {}
               [] c.type = "REDIR" -> Writes(c.cmd) \cup (IF c.mode = "read" THEN {} ELSE {c.file})
               [] c.type = "BACK" -> Writes(c.cmd)
               [] OTHER -> Writes(c.left) \cup Writes(c.right)
RECURSIVE UsesFiles(_)
UsesFiles(c) == CASE c.type = "EXEC" -> ToSet(c.argv)
                  [] c.type = "REDIR" -> UsesFiles(c.cmd) \cup {c.file}
                  [] c.type = "BACK" -> UsesFiles(c.cmd)
                  [] OTHER -> UsesFiles(c.left) \cup UsesFiles(c.right)

(* No two parts that run at the same time use a file that one of them      *)
(* writes.                                                                 *)
RECURSIVE Separate(_)
Separate(c) ==
  CASE c.type = "EXEC" -> TRUE
    [] c.type = "REDIR" -> Separate(c.cmd) /\ c.file \notin UsesFiles(c.cmd)
    [] c.type = "LIST" -> Separate(c.left) /\ Separate(c.right)
    [] c.type = "PIPE" -> /\ Separate(c.left) /\ Separate(c.right)
                          /\ Writes(c.left) \cap UsesFiles(c.right) = {}
                          /\ Writes(c.right) \cap UsesFiles(c.left) = {}
    [] c.type = "BACK" -> FALSE

-----------------------------------------------------------------------------
(* Properties *)

(* parsecmd accepts the lines of the grammar and no others, and gives each *)
(* its command.                                                            *)
ParsedRight == \A p \in Slots : Running(p, "parse") => parsecmd(proc[p].argv) = Line(proc[p].argv)

(* When the shell is ready for the next line, the last one has been        *)
(* carried out completely and had its meaning: all that its processes      *)
(* wrote is in the files and on the console, in order, whatever processes, *)
(* pipes and descriptors runcmd used for it.                               *)
LineDone ==
  (\E p \in Slots : Running(p, "shell")) /\ ~failed /\ last.alone /\ (last.cmd.ok => Separate(last.cmd.cmd)) =>
    \E m \in {IF last.cmd.ok THEN Meaning(last.cmd.cmd, <<>>, last.files) ELSE [out |-> <<>>, files |-> last.files]} :
      files = m.files /\ console = last.console \o m.out

(* The shell comes back from every line, since runcmd leaves no process an *)
(* end of a pipe that the process does not use; and in the end all         *)
(* processes that have exited are waited for, by their parents or by init. *)
LinesEnd ==
  /\ (\E p \in Slots : Running(p, "shellwait")) ~> (\A p \in Slots : ~Running(p, "shellwait"))
  /\ []<>(\A p \in Slots : proc[p].state # "zombie")
=============================================================================
