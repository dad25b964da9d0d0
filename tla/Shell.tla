------------------------------- MODULE Shell -------------------------------
(* The xv6 shell (user/sh.c) as functions of a command line: the parser,     *)
(* which marks words by their first position q and the position eq after     *)
(* their last, nulterminate(), and runcmd(), whose result is the set of      *)
(* programs that are started, each with the file descriptors it starts with. *)
(* A line is a sequence of characters; past its end is the terminating NUL.  *)
EXTENDS Integers, Sequences, FiniteSets, FiniteSetsExt

CONSTANT MAXARGS
ASSUME ShellAssumption == MAXARGS \in Nat \ {0}

whitespace == {" ", "nl"}
symbols    == {"<", "|", ">", "&", ";", "(", ")"}
At(b, i)   == IF i <= Len(b) THEN b[i] ELSE "NUL"
\* The first position from i on whose character is not in the set.
Past(b, i, set) == Min({j \in i .. Len(b) + 1 : j > Len(b) \/ b[j] \notin set})
\* The string a program finds at position q.
String(b, q) == SubSeq(b, q, Min({j \in q .. Len(b) + 1 : At(b, j) = "NUL"}) - 1)

-----------------------------------------------------------------------------
(* The parser.  Results are [cmd, i], i the position reached; a syntax error *)
(* (panic() and exit) is Panic.                                            *)

NoCmd   == [type |-> "none"]
Panic   == [cmd |-> NoCmd, i |-> 0]
execcmd(words)      == [type |-> "EXEC", words |-> words]
redircmd(c, tok, w) == [type |-> "REDIR", cmd |-> c, tok |-> tok, file |-> w]
pipecmd(l, r)       == [type |-> "PIPE", left |-> l, right |-> r]
listcmd(l, r)       == [type |-> "LIST", left |-> l, right |-> r]
backcmd(c)          == [type |-> "BACK", cmd |-> c]

\* The position after the token that starts at q.
TokenEnd(b, q) ==
  IF At(b, q) = "NUL" THEN q
  ELSE IF At(b, q) = ">" /\ At(b, q + 1) = ">" THEN q + 2
  ELSE IF At(b, q) \in symbols THEN q + 1
  ELSE Min({j \in q .. Len(b) + 1 : At(b, j) \in whitespace \cup symbols \cup {"NUL"}})
Token(b, q, eq) ==
  [tok |-> IF At(b, q) \notin symbols \cup {"NUL"} THEN "a"
           ELSE IF eq = q + 2 THEN "+" ELSE At(b, q),
   word |-> <<q, eq>>, i |-> Past(b, eq, whitespace)]
TokenAt(b, q)  == Token(b, q, TokenEnd(b, q))
gettoken(b, i) == TokenAt(b, Past(b, i, whitespace))
peek(b, i, toks) == At(b, Past(b, i, whitespace)) \in toks

\* Each redirection wraps the command parsed so far.
RECURSIVE parseredirs(_, _, _)
Redirected(b, c, tok, file) ==
  IF file.tok # "a" THEN Panic ELSE parseredirs(b, redircmd(c, tok, file.word), file.i)
RedirOp(b, c, op) == Redirected(b, c, op.tok, gettoken(b, op.i))
parseredirs(b, c, i) ==
  IF ~peek(b, i, {"<", ">"}) THEN [cmd |-> c, i |-> i] ELSE RedirOp(b, c, gettoken(b, i))

\* The words go to the EXEC command at the bottom of the redirections.
RECURSIVE AddWord(_, _)
AddWord(c, w) == IF c.type = "EXEC" THEN execcmd(Append(c.words, w))
                 ELSE [c EXCEPT !.cmd = AddWord(@, w)]
RECURSIVE Words(_, _, _)
WordNext(b, r, argc, t) ==
  IF t.tok = "NUL" THEN r
  ELSE IF t.tok # "a" \/ argc + 1 >= MAXARGS THEN Panic
  ELSE Words(b, parseredirs(b, AddWord(r.cmd, t.word), t.i), argc + 1)
Words(b, r, argc) ==
  IF r = Panic \/ peek(b, r.i, {"|", ")", "&", ";"}) THEN r
  ELSE WordNext(b, r, argc, gettoken(b, r.i))

RECURSIVE Backs(_, _)
Backs(b, r) == IF r = Panic \/ ~peek(b, r.i, {"&"}) THEN r
               ELSE Backs(b, [cmd |-> backcmd(r.cmd), i |-> gettoken(b, r.i).i])

RECURSIVE parseline(_, _)
RECURSIVE parsepipe(_, _)
BlockEnd(b, r) == IF r = Panic \/ ~peek(b, r.i, {")"}) THEN Panic
                  ELSE parseredirs(b, r.cmd, gettoken(b, r.i).i)
parseblock(b, i) == BlockEnd(b, parseline(b, gettoken(b, i).i))
parseexec(b, i)  == IF peek(b, i, {"("}) THEN parseblock(b, i)
                    ELSE Words(b, parseredirs(b, execcmd(<<>>), i), 0)
PipeTo(l, r)    == IF r = Panic THEN Panic ELSE [cmd |-> pipecmd(l.cmd, r.cmd), i |-> r.i]
PipeRest(b, l)  == IF l = Panic \/ ~peek(b, l.i, {"|"}) THEN l
                   ELSE PipeTo(l, parsepipe(b, gettoken(b, l.i).i))
parsepipe(b, i) == PipeRest(b, parseexec(b, i))
ListOf(l, r)    == IF r = Panic THEN Panic ELSE [cmd |-> listcmd(l.cmd, r.cmd), i |-> r.i]
ListRest(b, l)  == IF l = Panic \/ ~peek(b, l.i, {";"}) THEN l
                   ELSE ListOf(l, parseline(b, gettoken(b, l.i).i))
parseline(b, i) == ListRest(b, Backs(b, parsepipe(b, i)))

\* The commands a command is made of, itself included.
Parts(c) == CASE c.type \in {"REDIR", "BACK"} -> {c.cmd}
              [] c.type \in {"PIPE", "LIST"}  -> {c.left, c.right}
              [] OTHER -> {}
RECURSIVE Commands(_)
Commands(c) == {c} \cup UNION {Commands(d) : d \in Parts(c)}
ArgEnds(c)  == IF c.type = "EXEC" THEN {c.words[n][2] : n \in DOMAIN c.words} ELSE {}
FileEnd(c)  == IF c.type = "REDIR" THEN {c.file[2]} ELSE {}
Cut(b, ends) == [j \in DOMAIN b |-> IF j \in ends THEN "NUL" ELSE b[j]]

\* Mutant of nulterminate: file names of redirections stay unterminated.
nulterminateExecOnly(b, c) == Cut(b, UNION {ArgEnds(d) : d \in Commands(c)})

\* nulterminate(): NULs over the character after each word of the command.
nulterminate(b, c) == Cut(b, UNION {ArgEnds(d) \cup FileEnd(d) : d \in Commands(c)})

\* parsecmd(): the command and the terminated buffer; leftovers are an error.
Parsed(b, r) == IF r = Panic \/ Past(b, r.i, whitespace) <= Len(b) THEN [cmd |-> NoCmd, b |-> b]
                ELSE [cmd |-> r.cmd, b |-> nulterminate(b, r.cmd)]
parsecmd(b)  == Parsed(b, parseline(b, 1))

-----------------------------------------------------------------------------
(* runcmd().  A descriptor table gives each of the first descriptors what it *)
(* refers to; id is the place of a command in the line, which names the pipe *)
(* it makes.  Files named "b" cannot be opened for reading.                 *)

Free    == [of |-> "free", id |-> <<>>]
Console == [of |-> "console", id |-> <<>>]
Fds     == 0 .. 4
close(fds, fd) == [fds EXCEPT ![fd] = Free]
Lowest(fds)    == Min({fd \in DOMAIN fds : fds[fd] = Free})
open(fds, x)   == [fds EXCEPT ![Lowest(fds)] = x]      \* also dup()
Openable(tok, name) == tok # "<" \/ name # <<"b">>

\* The commands run in its place, each in a process (or the same one) with the
\* descriptors of that process.
In(c, id, fds) == [cmd |-> c, id |-> id, fds |-> fds]
Redirect(c, id, fds, name) ==
  IF Openable(c.tok, name)
  THEN {In(c.cmd, id, open(close(fds, IF c.tok = "<" THEN 0 ELSE 1), [of |-> c.tok, id |-> name]))}
  ELSE {}
PipeEnd(both, fd, rend, wend, end) ==
  close(close(open(close(both, fd), both[end]), rend), wend)
PipeEnds(c, id, both, rend, wend) ==
  {In(c.left, Append(id, "l"), PipeEnd(both, 1, rend, wend, wend)),
   In(c.right, Append(id, "r"), PipeEnd(both, 0, rend, wend, rend))}
PipeWrite(c, id, one, rend) ==
  PipeEnds(c, id, open(one, [of |-> "pipe write", id |-> id]), rend, Lowest(one))
PipeRead(c, id, fds) ==
  PipeWrite(c, id, open(fds, [of |-> "pipe read", id |-> id]), Lowest(fds))
Children(b, c, id, fds) ==
  CASE c.type = "REDIR" -> Redirect(c, id, fds, String(b, c.file[1]))
    [] c.type = "LIST"  -> {In(c.left, Append(id, "l"), fds), In(c.right, Append(id, "r"), fds)}
    [] c.type = "PIPE"  -> PipeRead(c, id, fds)
    [] c.type = "BACK"  -> {In(c.cmd, id, fds)}
    [] OTHER -> {}
Exec(b, c, id, fds) ==
  IF c.type # "EXEC" \/ c.words = <<>> THEN {}
  ELSE {[id |-> id, fds |-> fds, argv |-> [n \in DOMAIN c.words |-> String(b, c.words[n][1])]]}

RECURSIVE runcmd(_, _, _, _)
runcmd(b, c, id, fds) ==
  Exec(b, c, id, fds) \cup
  UNION {runcmd(b, k.cmd, k.id, k.fds) : k \in Children(b, c, id, fds)}

\* main(): cd is done by the shell itself, a blank line is nothing.
Std == [fd \in Fds |-> IF fd <= 2 THEN Console ELSE Free]
Result(what, dir, ran) == [what |-> what, dir |-> dir, ran |-> ran]
Ran(p) == IF p.cmd = NoCmd THEN Result("syntax", <<>>, {})
          ELSE Result("run", <<>>, runcmd(p.b, p.cmd, <<>>, Std))
Do(cmd) ==
  IF At(cmd, 1) = "nl" THEN Result("blank", <<>>, {})
  ELSE IF Len(cmd) > 2 /\ SubSeq(cmd, 1, 3) = <<"c", "d", " ">>
  THEN Result("cd", SubSeq(cmd, 4, Len(cmd) - 1), {})
  ELSE Ran(parsecmd(cmd))
main(line) == Do(SubSeq(line, Past(line, 1, {" "}), Len(line)))

-----------------------------------------------------------------------------
(* What a line means: the programs it names, by the grammar                  *)
(*   line  = pipe "&"* [";" line]        pipe = block ["|" pipe]             *)
(*   block = "(" line ")" redir*  or  (word or redir)*                      *)
(* tried at every place where the tokens can be split, with the standard     *)
(* input and output each program is to have.  Of several redirections of     *)
(* the same descriptor the first one written counts.                        *)

RECURSIVE TokensFrom(_, _)
TokensFrom(b, i) ==
  LET t == gettoken(b, i)
  IN  IF t.tok = "NUL" THEN <<>>
      ELSE <<[tok |-> t.tok, text |-> SubSeq(b, t.word[1], t.word[2] - 1)]>> \o TokensFrom(b, t.i)

Before(ts, i)    == SubSeq(ts, 1, i - 1)
After(ts, i)     == SubSeq(ts, i + 1, Len(ts))
Places(ts, toks) == {i \in DOMAIN ts : ts[i].tok \in toks}
Ops              == {"<", ">", "+"}
Arguments(ts)    == {i \in Places(ts, {"a"}) : i = 1 \/ ts[i - 1].tok \notin Ops}
Simple(ts) == /\ Places(ts, {"a"} \cup Ops) = DOMAIN ts
              /\ \A i \in Places(ts, Ops) : i < Len(ts) /\ ts[i + 1].tok = "a"
\* Where a descriptor leads after the redirections among the tokens.
Leads(ts, toks, old) ==
  IF Places(ts, toks) = {} THEN old
  ELSE LET i == Min(Places(ts, toks)) IN [of |-> ts[i].tok, id |-> ts[i + 1].text]
AllOpen(ts) == \A i \in Places(ts, Ops) : Openable(ts[i].tok, ts[i + 1].text)
RedirIf(ts, runs) == IF AllOpen(ts) THEN runs ELSE {{}}

RECURSIVE LineRuns(_, _, _, _)
BlockRuns(ts, id, in, out) ==
  IF Simple(ts) /\ Cardinality(Arguments(ts)) < MAXARGS
  THEN LET args == Arguments(ts)
           Nth(n) == CHOOSE i \in args : Cardinality({j \in args : j <= i}) = n
           fds  == [Std EXCEPT ![0] = Leads(ts, {"<"}, in), ![1] = Leads(ts, {">", "+"}, out)]
       IN  IF args = {} THEN {{}}
           ELSE RedirIf(ts, {{[id |-> id, fds |-> fds,
                               argv |-> [n \in 1 .. Cardinality(args) |-> ts[Nth(n)].text]]}})
  ELSE UNION {LET rest == After(ts, j) IN
              RedirIf(rest, LineRuns(SubSeq(ts, 2, j - 1), id, Leads(rest, {"<"}, in),
                                     Leads(rest, {">", "+"}, out))) :
                j \in {k \in Places(ts, {")"}) : ts[1].tok = "(" /\ Arguments(After(ts, k)) = {}
                                                 /\ Simple(After(ts, k))}}
Both(ls, rs) == {l \cup r : l \in ls, r \in rs}
RECURSIVE PipeRuns(_, _, _, _)
PipeRuns(ts, id, in, out) ==
  BlockRuns(ts, id, in, out) \cup
  UNION {Both(BlockRuns(Before(ts, i), Append(id, "l"), in, [of |-> "pipe write", id |-> id]),
              PipeRuns(After(ts, i), Append(id, "r"), [of |-> "pipe read", id |-> id], out)) :
           i \in Places(ts, {"|"})}
BackRuns(ts, id, in, out) ==
  UNION {PipeRuns(Before(ts, i), id, in, out) :
           i \in {j \in 1 .. Len(ts) + 1 : \A k \in j .. Len(ts) : ts[k].tok = "&"}}
LineRuns(ts, id, in, out) ==
  BackRuns(ts, id, in, out) \cup
  UNION {Both(BackRuns(Before(ts, i), Append(id, "l"), in, out),
              LineRuns(After(ts, i), Append(id, "r"), in, out)) : i \in Places(ts, {";"})}

\* The line means what r says was run, or was refused.
Meant(line, r) ==
  r.what \in {"run", "syntax"} =>
    LineRuns(TokensFrom(line, 1), <<>>, Console, Console) = IF r.what = "run" THEN {r.ran} ELSE {}

\* parsecmd(), nulterminate() and runcmd(): a line is refused exactly when the
\* grammar does not allow it; otherwise exactly the programs it names are
\* started, with their whole names and arguments, each with the input and
\* output the line gives it, and with no other end of any pipe, which would
\* keep a reader from its end of file.
RunsAsWritten(line) == Meant(line, main(line))
=============================================================================
