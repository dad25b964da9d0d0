------------------------------- MODULE MCUser -------------------------------
(* What surrounds a user process: its memory (Vm), the console (Console), its *)
(* heap (UMalloc), the shell (Shell), and the programs that copy, move and    *)
(* remove files (FileTools) and read text (TextTools).  The parts do not      *)
(* share state here: `job' says which of them a behaviour is about.           *)
EXTENDS Vm, Console, UMalloc, Shell, TLC

CONSTANTS p1, p2, r1, r2, w1, BUFSIZE, MAX_LEN, MAX_LINES

VARIABLE job

Tools == INSTANCE FileTools
Text  == INSTANCE TextTools

uservars == <<vmvars, consvars, heapvars, job>>

MCGrows == {3, -3}
Sym == Permutations({p1, p2}) \cup Permutations({r1, r2})
-----------------------------------------------------------------------------
(* Command lines: every line of up to three characters, and commands, lists,  *)
(* pipelines, blocks and redirections joined in threes, well formed or not.   *)

Chars == {"a", " ", "<", ">", "|", "&", ";", "(", ")"}
Strings(C, n) == UNION {[1..k -> C] : k \in 0..n}
Phrases ==
  {<<>>, <<"a">>, <<"c", "d", " ", "a">>, <<"a", "<", "b">>,
   <<"a", " ", "a", ">", "a", ">", ">", "b">>, <<"(", "a", ";", "a", ")">>,
   <<"(", "a", "|", "a", ")", "<", "a">>, <<"(", "a", ")", ">", "a">>}
Joints == {<<" ">>, <<"|">>, <<";">>, <<"&">>, <<"&", ";">>, <<"|", "(">>}
LinesFrom(s) ==
  IF s = <<>> THEN Strings(Chars, 3)
  ELSE {s \o q \o k \o r : q \in Phrases, k \in Joints \cup {<<")">>}, r \in Phrases}
-----------------------------------------------------------------------------
(* Files: two directories, d with a subdirectory, a file, a second device m,  *)
(* and some of seven changes: nodes that get in the way of a target, and a d  *)
(* in which nothing can be added or removed.                                 *)

Tree == [p \in {<<>>, <<"d">>, <<"d", "x">>, <<"d", "s">>, <<"d", "s", "y">>, <<"e">>, <<"f">>, <<"m">>} |->
           IF p \in {<<"d", "x">>, <<"d", "s", "y">>, <<"f">>}
           THEN Tools!File(p[Len(p)], FALSE, 1) ELSE Tools!Dir(FALSE)]
Extras == {[at |-> <<"e", "d">>, node |-> Tools!Dir(FALSE)],
           [at |-> <<"e", "f">>, node |-> Tools!File("1", FALSE, 2)],
           [at |-> <<"m", "d">>, node |-> Tools!Dir(FALSE)],
           [at |-> <<"m", "d", "x">>, node |-> Tools!File("2", TRUE, 0)],
           [at |-> <<"m", "f">>, node |-> Tools!File("3", FALSE, 0)],
           [at |-> <<"d", "f">>, node |-> Tools!File("4", TRUE, 3)],
           [at |-> <<"d">>, node |-> Tools!Dir(TRUE)]}
With(X) == [p \in DOMAIN Tree \cup {x.at : x \in X} |->
              IF \E x \in X : x.at = p THEN (CHOOSE x \in X : x.at = p).node ELSE Tree[p]]
Trees == {t \in {With(X) : X \in SUBSET Extras} :
            <<"m", "d", "x">> \in DOMAIN t => <<"m", "d">> \in DOMAIN t}

Operands == {<< <<"d">> >>, << <<"f">> >>, << <<"e">> >>, << <<"d">>, <<"f">> >>, << <<"d", "f">> >>,
             << <<"g">> >>, << <<"d", "s">>, <<"d", "x">> >>}
Targets == {<<"e">>, <<"m">>, <<"f">>, <<"e", "d">>, <<"m", "f">>, <<"m", "d">>, <<"q">>, <<"q", "z">>}
Refusals == {<<"lstat", <<"d", "x">> >>, <<"open", <<"d", "x">> >>, <<"read", <<"d", "x">> >>,
             <<"unlink", <<"d", "x">> >>, <<"opendir", <<"d">> >>, <<"opendir", <<"d", "s">> >>,
             <<"read", <<"f">> >>, <<"unlink", <<"f">> >>}
\* One call is refused, in the smaller trees and with the options that matter.
Broken(t, o) == {{}} \cup IF Cardinality(DOMAIN t) < 10 /\ o \cap {"n", "u", "i", "p"} = {}
                        THEN {{c} : c \in Refusals} ELSE {}
Options(S) == {o \in SUBSET S : ~({"f", "i"} \subseteq o)}
Answers(t, o) == IF "i" \in o THEN {{}, {<<"d">>, <<"d", "x">>}, DOMAIN t} ELSE {{}, DOMAIN t}
FileJobs(t) ==
  LET Jobs(tool, opts, dsts, Yes(_)) ==
        UNION {[tool : {tool}, srcs : Operands, dst : dsts, o : {o}, faults : Broken(t, o), yes : Yes(o)] :
                 o \in Options(opts)}
      All == Jobs("cp", {"r", "f", "n", "u", "p"}, Targets, LAMBDA o : {{}})
             \cup Jobs("mv", {"f", "n", "u", "i"}, Targets, LAMBDA o : IF "i" \in o THEN {{}, DOMAIN t} ELSE {{}})
             \cup Jobs("rm", {"r", "f", "i", "d"}, {<<"q">>}, LAMBDA o : Answers(t, o))
  IN  {j \in All : ~\E k \in DOMAIN j.srcs : Tools!Under(j.dst, j.srcs[k]) /\ j.dst # <<"f">>}
-----------------------------------------------------------------------------
(* Texts, and files that hold them, are missing, or are kinds of lines.       *)

Holds(s) == [missing |-> FALSE, text |-> s]
Missing  == [missing |-> TRUE, text |-> <<>>]
Single(S)  == {<<Holds(s)>> : s \in S}
Three(S, T) == {<<Holds(s), x, Holds(u)>> : s \in S, u \in T, x \in {Missing, Holds(<<"a", "nl">>)}}
Plain(lines) == [kind |-> "file", lines |-> lines]
Middle == {[kind |-> "gone"],
           [kind |-> "dir", nodes |-> <<[kind |-> "gone"], Plain(<<"none", "part">>), Plain(<<"line">>)>>]}
TextJobs(tool) ==
  CASE tool = "xgrep" ->
         [tool : {tool}, re : Strings({"a", ".", "*", "^", "$"}, 4),
          files : Single({Append(s, "nl") : s \in Strings({"a", "b"}, 3)}), reads : {<<2>>}]
         \cup
         [tool : {tool}, re : {<<"a">>, <<"^", "a", "*", "$">>},
          files : Single(Strings({"a", "b", "nl"}, 6)) \cup Three({<<"a", "nl">>}, {<<"b", "a", "nl">>}),
          reads : {<<5>>, <<1>>, <<2, 1>>, <<3, 2>>}]
    [] tool = "headtail" ->
         [tool : {tool}, text : Strings({"a", "nl"}, 7), n : -1..3, o : SUBSET {"h", "t"}]
    [] tool = "cat" ->
         [tool : {tool}, files : Single(Strings({"a", " ", "nl"}, 5))
                                 \cup Three(Strings({"tab", "nl"}, 2), Strings({"ctl", "nl"}, 3)),
          o : SUBSET {"n", "b", "s", "E"} \cup {{"T"}, {"v", "b"}, {"T", "v", "E", "s"}}]
    [] tool = "wc" ->
         [tool : {tool}, files : Single(Strings({"a", " ", "nl"}, 5))
                                 \cup Three(Strings({"a", "nl"}, 3), Strings({"a", " ", "nl"}, 3)),
          o : {{}, {"l"}, {"L", "w"}}]
    [] tool = "grep" ->
         [tool : {tool}, o : SUBSET {"x", "w", "v", "q", "l", "c", "r"},
          paths : {<<Plain(f), n, Plain(g)>> : f \in Strings({"line", "word", "part", "none"}, 2),
                                               g \in Strings({"word", "none"}, 2), n \in Middle}]
-----------------------------------------------------------------------------
\* A behaviour is one of a machine, or one call: of the shell on a line, of a
\* file tool on a tree, of a text tool.  A call is chosen in two steps.  The
\* machines a behaviour is not about stay as they are at boot.
Jobs ==
  [on : {"vm", "heap"}]
  \cup [on : {"console"}, users : {{r1, r2}, {w1}}]
  \cup [on : {"a line"}, part : {<<>>} \cup {p \o j : p \in Phrases, j \in Joints}]
  \cup [on : {"a file job"}, t : Trees]
  \cup [on : {"a text job"}, tool : {"xgrep", "headtail", "cat", "wc", "grep"}]

Init ==
  /\ job \in Jobs
  /\ IF job.on = "vm" THEN VmInit
     ELSE kmem = Kinit /\ proc = [p \in Procs |-> NoProc] /\ calls = 0
  /\ ConsoleInit(IF job.on = "console" THEN job.users ELSE {r1})
  /\ HeapInit

Chosen ==
  /\ \/ job.on = "a line" /\ \E l \in LinesFrom(job.part) : job' = [on |-> "line", line |-> l]
     \/ job.on = "a file job" /\ \E j \in FileJobs(job.t) : job' = [on |-> "files", t |-> job.t, j |-> j]
     \/ job.on = "a text job" /\ \E j \in TextJobs(job.tool) : job' = [on |-> "text", j |-> j]
  /\ UNCHANGED <<vmvars, consvars, heapvars>>

Next ==
  \/ job.on = "vm" /\ VmNext /\ UNCHANGED <<consvars, heapvars, job>>
  \/ job.on = "console" /\ ConsoleNext /\ UNCHANGED <<vmvars, heapvars, job>>
  \/ job.on = "heap" /\ HeapNext /\ UNCHANGED <<vmvars, consvars, job>>
  \/ Chosen

Spec == Init /\ [][Next]_uservars
-----------------------------------------------------------------------------
\* sh.c: each command line is refused, or runs exactly the programs it names
\* with the arguments, files and pipe ends it gives them (see RunsAsWritten).
ShellRunsAsWritten == job.on = "line" => RunsAsWritten(Append(job.line, "nl"))

\* custom_cp.c, custom_mv.c and custom_rm.c: whatever fails half-way, files that
\* were not named are as before, no moved file is lost, and success means that
\* everything was done (see NothingLost).
FilesNotLost == job.on = "files" => Tools!NothingLost(job.t, job.j)

\* grep.c, custom_grep.c, custom_head_tail.c, custom_cat.c and custom_wc.c write
\* what their text calls for, however it is divided into reads, pieces and files
\* (see AsSpecified).
TextAsSpecified == job.on = "text" => Text!AsSpecified(job.j)
=============================================================================
