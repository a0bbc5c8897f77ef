----------------------------- MODULE ShellParser -----------------------------
(***************************************************************************)
(* The parser of the shell, user/sh.c, from a sequence of tokens to a      *)
(* command.  A token is one of the symbols, "+" for >>, or a word: what    *)
(* gettoken and peek skip and cut is left out.  A parser takes tokens and  *)
(* gives a command and the tokens that are left, or panics.                *)
(***************************************************************************)
EXTENDS Integers, Sequences, SequencesExt

CONSTANT MAXARGS

ASSUME ParserAssumption == MAXARGS \in Nat \ {0}

Symbols == {"|", ";", "&", "<", ">", "+", "(", ")"}
IsWord(t) == t \notin Symbols

execcmd == [type |-> "EXEC", argv |-> <<>>]
redircmd(cmd, file, mode, fd) == [type |-> "REDIR", cmd |-> cmd, file |-> file, mode |-> mode, fd |-> fd]
pipecmd(left, right) == [type |-> "PIPE", left |-> left, right |-> right]
listcmd(left, right) == [type |-> "LIST", left |-> left, right |-> right]
backcmd(cmd) == [type |-> "BACK", cmd |-> cmd]

Panic == [ok |-> FALSE, cmd |-> execcmd, rest |-> <<>>]
Parsed(cmd, rest) == [ok |-> TRUE, cmd |-> cmd, rest |-> rest]

(* What Op makes of the result r of a parser, unless that was a panic      *)
Then(r, Op(_)) == CHOOSE x \in {IF s.ok THEN Op(s) ELSE Panic : s \in {r}} : TRUE

peek(ts, toks) == ts # <<>> /\ Head(ts) \in toks

(* The file of a redirection that starts with tok                          *)
Redirected(cmd, tok, file) ==
  CASE tok = "<" -> redircmd(cmd, file, "read", 0)
    [] tok = ">" -> redircmd(cmd, file, "truncate", 1)
    [] tok = "+" -> redircmd(cmd, file, "write", 1)

RECURSIVE parseredirs(_, _)
parseredirs(cmd, ts) ==
  IF ~peek(ts, {"<", ">", "+"}) THEN Parsed(cmd, ts)
  ELSE IF Len(ts) < 2 \/ ~IsWord(ts[2]) THEN Panic
  ELSE parseredirs(Redirected(cmd, ts[1], ts[2]), SubSeq(ts, 3, Len(ts)))

(* The command under the redirections gets another argument.               *)
RECURSIVE AddArg(_, _)
AddArg(cmd, arg) == IF cmd.type = "EXEC" THEN [cmd EXCEPT !.argv = Append(@, arg)]
                    ELSE [cmd EXCEPT !.cmd = AddArg(@, arg)]

RECURSIVE Argc(_)
Argc(cmd) == IF cmd.type = "EXEC" THEN Len(cmd.argv) ELSE Argc(cmd.cmd)

(* The loop of parseexec over arguments and redirections                   *)
RECURSIVE parseargs(_, _)
parseargs(cmd, ts) ==
  IF ts = <<>> \/ peek(ts, {"|", ")", "&", ";"}) THEN Parsed(cmd, ts)
  ELSE IF ~IsWord(Head(ts)) \/ Argc(cmd) + 1 >= MAXARGS THEN Panic
  ELSE Then(parseredirs(AddArg(cmd, Head(ts)), Tail(ts)), LAMBDA r : parseargs(r.cmd, r.rest))

RECURSIVE parseline(_)
RECURSIVE parsepipe(_)

parseblock(ts) ==
  Then(parseline(Tail(ts)), LAMBDA r : IF peek(r.rest, {")"}) THEN parseredirs(r.cmd, Tail(r.rest)) ELSE Panic)

parseexec(ts) ==
  IF peek(ts, {"("}) THEN parseblock(ts)
  ELSE Then(parseredirs(execcmd, ts), LAMBDA r : parseargs(r.cmd, r.rest))

(* Seeded fault: a pipe ends after two commands.                           *)
parsepipeOnce(ts) ==
  Then(parseexec(ts), LAMBDA r :
    IF ~peek(r.rest, {"|"}) THEN r
    ELSE Then(parseexec(Tail(r.rest)), LAMBDA q : Parsed(pipecmd(r.cmd, q.cmd), q.rest)))

parsepipe(ts) ==
  Then(parseexec(ts), LAMBDA r :
    IF ~peek(r.rest, {"|"}) THEN r
    ELSE Then(parsepipe(Tail(r.rest)), LAMBDA q : Parsed(pipecmd(r.cmd, q.cmd), q.rest)))

(* The loop of parseline over &                                            *)
RECURSIVE parseback(_, _)
parseback(cmd, ts) == IF peek(ts, {"&"}) THEN parseback(backcmd(cmd), Tail(ts)) ELSE Parsed(cmd, ts)

parseline(ts) ==
  Then(parsepipe(ts), LAMBDA p :
    Then(parseback(p.cmd, p.rest), LAMBDA r :
      IF ~peek(r.rest, {";"}) THEN r
      ELSE Then(parseline(Tail(r.rest)), LAMBDA q : Parsed(listcmd(r.cmd, q.cmd), q.rest))))

parsecmd(ts) == Then(parseline(ts), LAMBDA r : IF r.rest # <<>> THEN Panic ELSE r)

-----------------------------------------------------------------------------
(* The grammar, by where a line is cut: at the first ; outside of          *)
(* parentheses, before trailing &s, and at the first | outside of          *)
(* parentheses.  What is left is a block or a simple command with its      *)
(* redirections.                                                           *)

Depth(ts, i) == Len(SelectSeq(SubSeq(ts, 1, i), LAMBDA t : t = "(")) - Len(SelectSeq(SubSeq(ts, 1, i), LAMBDA t : t = ")"))
Outside(ts, tok) == {i \in DOMAIN ts : ts[i] = tok /\ Depth(ts, i) = 0}
First(s) == CHOOSE i \in s : \A j \in s : i <= j
Before(ts, i) == SubSeq(ts, 1, i - 1)
After(ts, i) == SubSeq(ts, i + 1, Len(ts))

Both(l, r, Op(_, _)) == Then(l, LAMBDA a : Then(r, LAMBDA b : Parsed(Op(a.cmd, b.cmd), <<>>)))

(* A sequence of redirections, the last one outermost                      *)
RECURSIVE WithRedirs(_, _)
WithRedirs(cmd, ts) ==
  IF ts = <<>> THEN Parsed(cmd, <<>>)
  ELSE IF Len(ts) = 1 \/ ts[1] \notin {"<", ">", "+"} \/ ~IsWord(ts[2]) THEN Panic
  ELSE WithRedirs(Redirected(cmd, ts[1], ts[2]), SubSeq(ts, 3, Len(ts)))

(* Places of a simple command that belong to redirections                  *)
RedirAt(ts) == {i \in DOMAIN ts : ts[i] \in {"<", ">", "+"} \/ (i > 1 /\ ts[i - 1] \in {"<", ">", "+"})}
Pick(ts, places) == [k \in 1 .. Len(SetToSortSeq(places, <)) |-> ts[SetToSortSeq(places, <)[k]]]

Simple(ts) ==
  LET argv == Pick(ts, DOMAIN ts \ RedirAt(ts))
  IN  IF Len(argv) >= MAXARGS \/ \E i \in DOMAIN argv : ~IsWord(argv[i]) THEN Panic
      ELSE WithRedirs([execcmd EXCEPT !.argv = argv], Pick(ts, RedirAt(ts)))

RECURSIVE Line(_)
Block(ts) ==
  LET ends == {i \in DOMAIN ts : Depth(ts, i) = 0}
  IN  IF ends = {} THEN Panic
      ELSE Then(Line(Before(Tail(ts), First(ends) - 1)), LAMBDA r : WithRedirs(r.cmd, After(ts, First(ends))))

RECURSIVE Pipeline(_)
Pipeline(ts) ==
  IF Outside(ts, "|") # {}
  THEN Both(Pipeline(Before(ts, First(Outside(ts, "|")))), Pipeline(After(ts, First(Outside(ts, "|")))), pipecmd)
  ELSE IF ts # <<>> /\ Head(ts) = "(" THEN Block(ts) ELSE Simple(ts)

RECURSIVE Job(_)
Job(ts) == IF ts # <<>> /\ Last(ts) = "&" THEN Then(Job(Front(ts)), LAMBDA r : Parsed(backcmd(r.cmd), <<>>))
           ELSE Pipeline(ts)

Line(ts) ==
  IF Outside(ts, ";") # {}
  THEN Both(Job(Before(ts, First(Outside(ts, ";")))), Line(After(ts, First(Outside(ts, ";")))), listcmd)
  ELSE Job(ts)
=============================================================================
