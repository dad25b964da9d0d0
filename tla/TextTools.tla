------------------------------ MODULE TextTools ------------------------------
(* The programs that read text: the kernel project's grep (user/grep.c, with *)
(* its regular expressions and its fixed buffer) and the utilities           *)
(* custom_grep, custom_head_tail, custom_cat and custom_wc.  A text is a     *)
(* sequence of characters; each program is checked against what it should    *)
(* write, told by lines and positions instead of by loops.                   *)
EXTENDS Integers, Sequences, FiniteSets, TLC

CONSTANTS
  BUFSIZE,    \* sizeof(buf) of grep.c
  MAX_LEN,    \* the longest piece fgets() reads in custom_head_tail.c, plus one
  MAX_LINES   \* the pieces custom_head_tail.c has room for

LOCAL INSTANCE SequencesExt
LOCAL INSTANCE FiniteSetsExt

Space == {" ", "tab", "nl"}
From(s, i) == SubSeq(s, i, Len(s))

\* The lines of a text, each with its newline; the last one may have none.
LinesOf(text) ==
  LET ends == SetToSortSeq({i \in DOMAIN text : text[i] = "nl" \/ i = Len(text)}, <)
  IN  [k \in DOMAIN ends |-> SubSeq(text, IF k = 1 THEN 1 ELSE ends[k - 1] + 1, ends[k])]
Complete(line) == Last(line) = "nl"
Flat(lines) == FlattenSeq(lines)
-----------------------------------------------------------------------------
(* user/grep.c                                                               *)

RECURSIVE matchhere(_, _)
\* Mutant of matchstar: the starred character has to occur.
matchstarOnce(c, re, text) ==
  \E n \in 1..Len(text) :
     /\ \A i \in 1..n : c \in {".", text[i]}
     /\ matchhere(re, From(text, n + 1))

\* matchstar(): as many characters c as it takes, none included.
matchstar(c, re, text) ==
  \E n \in 0..Len(text) :
     /\ \A i \in 1..n : c \in {".", text[i]}
     /\ matchhere(re, From(text, n + 1))

matchhere(re, text) ==
  CASE re = <<>> -> TRUE
    [] Len(re) > 1 /\ re[2] = "*" -> matchstar(re[1], From(re, 3), text)
    [] re = <<"$">> -> text = <<>>
    [] OTHER -> /\ text # <<>> /\ re[1] \in {".", text[1]}
                /\ matchhere(Tail(re), Tail(text))

match(re, text) ==
  IF re # <<>> /\ re[1] = "^"
  THEN matchhere(Tail(re), text)
  ELSE \E i \in 1..Len(text) + 1 : matchhere(re, From(text, i))

\* grep(): what it writes for an input of which read() returns `reads' bytes at
\* a time, with `held' the part of a line it has moved to the front of buf.
RECURSIVE grep(_, _, _, _)
grep(re, input, reads, held) ==
  LET n == Min({reads[1], BUFSIZE - Len(held) - 1, Len(input)})
      lines == LinesOf(held \o SubSeq(input, 1, n))
      whole == SelectSeq(lines, Complete)
      left == IF whole = lines THEN <<>> ELSE Last(lines)
  IN  IF n = 0 THEN <<>>
      ELSE SelectSeq(whole, LAMBDA l : match(re, Front(l)))
             \o grep(re, From(input, n + 1), Append(Tail(reads), reads[1]), left)

\* main(): standard input, or each file until one cannot be opened.
RECURSIVE grepmain(_, _, _)
grepmain(re, files, reads) ==
  IF files = <<>> \/ files[1].missing THEN <<>>
  ELSE grep(re, files[1].text, reads, <<>>) \o grepmain(re, Tail(files), reads)

\* A regular expression read from the left: characters, each starred or not.
RECURSIVE Atoms(_)
Atoms(re) ==
  IF re = <<>> THEN <<>>
  ELSE LET star == Len(re) > 1 /\ re[2] = "*"
       IN  <<[c |-> re[1], star |-> star]>> \o Atoms(From(re, IF star THEN 3 ELSE 2))

\* A part of the text that divides into one piece per atom; it starts at the
\* first character if the expression begins with ^ and ends at the last one if
\* it ends with an unstarred $.
Matches(re, text) ==
  LET start == re # <<>> /\ re[1] = "^"
      all == Atoms(IF start THEN Tail(re) ELSE re)
      end == all # <<>> /\ Last(all) = [c |-> "$", star |-> FALSE]
      at == IF end THEN Front(all) ELSE all
  IN  \E cut \in [0..Len(at) -> 0..Len(text)] :
         /\ start => cut[0] = 0
         /\ end => cut[Len(at)] = Len(text)
         /\ \A k \in DOMAIN at :
               /\ cut[k - 1] <= cut[k]
               /\ ~at[k].star => cut[k] = cut[k - 1] + 1
               /\ \A i \in cut[k - 1] + 1..cut[k] : at[k].c \in {".", text[i]}

\* grep writes, in order, the lines that match, of the files before the first
\* missing one; in a file it goes as far as the lines end in a newline and fit
\* in the buffer.  How much each read() returns makes no difference.
GrepFindsLines(re, files, reads) ==
  LET Fits(l) == Complete(l) /\ Len(l) < BUFSIZE
      Reached(f) == LET ls == LinesOf(f.text)
                    IN  SelectInSeq(ls, LAMBDA l : ~Fits(l))
      Written(f) == LET ls == LinesOf(f.text)
                        stop == Reached(f)
                    IN  SelectSeq(IF stop = 0 THEN ls ELSE SubSeq(ls, 1, stop - 1),
                                  LAMBDA l : Matches(re, Front(l)))
      gone == SelectInSeq(files, LAMBDA f : f.missing)
      read == IF gone = 0 THEN files ELSE SubSeq(files, 1, gone - 1)
  IN  grepmain(re, files, reads) = Flat([k \in DOMAIN read |-> Written(read[k])])
-----------------------------------------------------------------------------
(* custom_head_tail.c                                                        *)

\* fgets() of the C library into a buffer of MAX_LEN: a long line is read in
\* pieces.
fgets(line) ==
  [k \in 1..(Len(line) + MAX_LEN - 2) \div (MAX_LEN - 1) |->
     SubSeq(line, (k - 1) * (MAX_LEN - 1) + 1, Min({k * (MAX_LEN - 1), Len(line)}))]

\* main(), with the number n and the options -h and -t.  More than MAX_LINES
\* pieces are written past the end of lines[].
headtail(text, n, opts) ==
  LET ls == LinesOf(text)
      lines == Flat([k \in DOMAIN ls |-> fgets(ls[k])])
      count == Len(lines)
  IN  [overrun |-> count > MAX_LINES,
       head |-> IF "t" \in opts THEN <<>> ELSE SubSeq(lines, 1, Min({n, count})),
       tail |-> IF "h" \in opts THEN <<>> ELSE SubSeq(lines, Max({count - n, 0}) + 1, count)]

\* As long as lines[] is not overrun, the head begins the text and the tail ends
\* it; where no line is longer than the buffer they have n lines, or all.
HeadTailKeepsEnds(text, n, opts) ==
  LET r == headtail(text, n, opts)
      ls == LinesOf(text)
      some == IF n < Len(ls) THEN IF n < 0 THEN 0 ELSE n ELSE Len(ls)
  IN  ~r.overrun =>
        /\ IsPrefix(Flat(r.head), text)
        /\ IsSuffix(Flat(r.tail), text)
        /\ (\A k \in DOMAIN ls : Len(ls[k]) < MAX_LEN) =>
              /\ Len(r.head) = IF "t" \in opts THEN 0 ELSE some
              /\ Len(r.tail) = IF "h" \in opts THEN 0 ELSE some
-----------------------------------------------------------------------------
(* custom_cat.c                                                              *)

\* How one character is written.
Shown(c, o) ==
  CASE c = "nl" -> IF "E" \in o THEN <<"$", "nl">> ELSE <<"nl">>
    [] c = "tab" /\ "T" \in o -> <<"^I">>
    [] c = "ctl" /\ "v" \in o -> <<"^A">>
    [] OTHER -> <<c>>

\* One turn of the loop of cat_file().
CatChar(s, c, o) ==
  LET blank == c = "nl" /\ s.prev = "nl"
      blank_count == IF blank THEN s.blank_count + 1 ELSE 0
      first == s.prev = "nl"
      number == first /\ "n" \in o /\ "b" \notin o
      num_printed == IF first THEN number ELSE s.num_printed
      number_nb == "b" \in o /\ ~num_printed /\ (first \/ s.line_started) /\ c \notin Space
      lineno == s.lineno + IF number \/ number_nb THEN 1 ELSE 0
  IN  IF "s" \in o /\ blank_count > 1
      THEN [s EXCEPT !.blank_count = blank_count, !.prev = c]
      ELSE [prev |-> c, blank_count |-> blank_count, line_started |-> c # "nl",
            num_printed |-> num_printed \/ number_nb, lineno |-> lineno,
            out |-> s.out \o (IF number \/ number_nb THEN <<ToString(lineno)>> ELSE <<>>)
                          \o Shown(c, o)]

\* cat_file(), which keeps lineno from one file to the next.
cat_file(s, text, o) ==
  FoldLeft(LAMBDA t, c : CatChar(t, c, o),
           [prev |-> "nl", blank_count |-> 0, line_started |-> FALSE,
            num_printed |-> FALSE, lineno |-> s.lineno, out |-> s.out], text)

\* main(): a file that cannot be opened is passed over.
cat(files, o) ==
  FoldLeft(LAMBDA s, f : IF f.missing THEN s ELSE cat_file(s, f.text, o),
           [lineno |-> 0, out |-> <<>>], files).out

\* custom_cat writes the lines of the files, -s leaving out a blank line after a
\* blank line; -n numbers the lines written, -b those that have something else
\* than spaces, from 1 and on through all the files.
CatsLines(files, o) ==
  LET Kept(f) == LET ls == LinesOf(f.text)
                     Twice(k) == k > 1 /\ ls[k] = <<"nl">> /\ ls[k - 1] = <<"nl">>
                     kept == SetToSortSeq({k \in DOMAIN ls : "s" \in o => ~Twice(k)}, <)
                 IN  IF f.missing THEN <<>> ELSE [i \in DOMAIN kept |-> ls[kept[i]]]
      lines == Flat([k \in DOMAIN files |-> Kept(files[k])])
      Word(l) == SelectInSeq(l, LAMBDA c : c \notin Space)
      Place(l) == IF "b" \in o THEN Word(l) ELSE IF "n" \in o THEN 1 ELSE 0
      Number(k) == Cardinality({i \in 1..k : Place(lines[i]) > 0})
      Line(k) == Flat([i \in DOMAIN lines[k] |->
                    (IF i = Place(lines[k]) THEN <<ToString(Number(k))>> ELSE <<>>)
                      \o Shown(lines[k][i], o)])
  IN  cat(files, o) = Flat([k \in DOMAIN lines |-> Line(k)])
-----------------------------------------------------------------------------
(* custom_wc.c                                                               *)

\* The counting loop of wc_file(), and the last line without a newline.
wc_file(text) ==
  LET Count(s, c) ==
        [bytes |-> s.bytes + 1,
         lines |-> s.lines + IF c = "nl" THEN 1 ELSE 0,
         maxlen |-> IF c = "nl" /\ s.curlen > s.maxlen THEN s.curlen ELSE s.maxlen,
         curlen |-> IF c = "nl" THEN 0 ELSE s.curlen + 1,
         words |-> s.words + IF c \notin Space /\ ~s.in_word THEN 1 ELSE 0,
         in_word |-> c \notin Space]
      s == FoldLeft(Count, [bytes |-> 0, lines |-> 0, maxlen |-> 0, curlen |-> 0,
                            words |-> 0, in_word |-> FALSE], text)
  IN  [l |-> s.lines, w |-> s.words, c |-> s.bytes,
       L |-> IF s.curlen > s.maxlen THEN s.curlen ELSE s.maxlen]

\* main(): a row for each file that can be opened and, for two arguments or
\* more, the totals.  The columns are the options, or the default three.
wc(files, o) ==
  LET found == SelectSeq(files, LAMBDA f : ~f.missing)
      rows == [k \in DOMAIN found |-> wc_file(found[k].text)]
      Add(t, r) == [l |-> t.l + r.l, w |-> t.w + r.w, c |-> t.c + r.c,
                    L |-> IF r.L > t.L THEN r.L ELSE t.L]
      total == FoldLeft(Add, [l |-> 0, w |-> 0, c |-> 0, L |-> 0], rows)
      cols == IF o = {} THEN {"l", "w", "c"} ELSE o
      all == IF Len(files) > 1 THEN Append(rows, total) ELSE rows
  IN  [k \in DOMAIN all |-> [x \in cols |-> all[k][x]]]

\* Lines are newlines, words are the places where a space is followed by a
\* character, bytes are all of them and the longest line is one of the text; the
\* totals are those of all the files put together, each ended by a newline.
CountsAll(files, o) ==
  LET Words(t) == {i \in DOMAIN t : t[i] \notin Space /\ (i = 1 \/ t[i - 1] \in Space)}
      Width(l) == IF Complete(l) THEN Len(l) - 1 ELSE Len(l)
      Column(t, x) ==
        CASE x = "l" -> Cardinality({i \in DOMAIN t : t[i] = "nl"})
          [] x = "w" -> Cardinality(Words(t))
          [] x = "c" -> Len(t)
          [] x = "L" -> Max({0} \cup {Width(l) : l \in ToSet(LinesOf(t))})
      found == SelectSeq(files, LAMBDA f : ~f.missing)
      out == wc(files, o)
  IN  /\ Len(out) = Len(found) + IF Len(files) > 1 THEN 1 ELSE 0
      /\ \A k \in DOMAIN found : \A x \in DOMAIN out[k] : out[k][x] = Column(found[k].text, x)
      /\ Len(files) > 1 /\ (\A k \in DOMAIN found : found[k].text # <<>> /\ Complete(found[k].text)) =>
            LET t == Flat([k \in DOMAIN found |-> found[k].text])
            IN  \A x \in DOMAIN Last(out) : Last(out)[x] = Column(t, x)
-----------------------------------------------------------------------------
(* custom_grep.c.  A line is what the regular expression finds in it:        *)
(* "line" (it is the whole line), "word", "part" (inside a word) or "none".  *)

\* The expression that -x and -w make of the pattern, and regexec().
regexec(line, o) ==
  line \in IF "x" \in o THEN {"line"}
           ELSE IF "w" \in o THEN {"line", "word"} ELSE {"line", "word", "part"}

\* do_grep(): the loop over the lines stops at a match for -q and for -l.
do_grep(lines, o) ==
  LET Line(s, k) ==
        IF s.returned \/ regexec(lines[k], o) = ("v" \in o) THEN s
        ELSE [count |-> s.count + 1,
              returned |-> o \cap {"q", "l"} # {},
              out |-> s.out \o (IF "q" \in o THEN <<>>
                                ELSE IF "l" \in o THEN <<"file">>
                                ELSE IF "c" \in o THEN <<>> ELSE <<ToString(k)>>)]
      s == FoldLeft(Line, [count |-> 0, returned |-> FALSE, out |-> <<>>],
                    [k \in DOMAIN lines |-> k])
  IN  [found |-> s.count > 0,
       out |-> IF ~s.returned /\ "c" \in o THEN Append(s.out, ToString(s.count)) ELSE s.out]

\* grep_path() and grep_dir(): a node is a file, a directory of nodes, or gone.
RECURSIVE grep_path(_, _, _)
grep_path(s, node, o) ==
  CASE node.kind = "file" ->
         LET r == do_grep(node.lines, o)
         IN  [found |-> s.found \/ r.found, out |-> s.out \o r.out]
    [] node.kind = "dir" /\ "r" \in o ->
         FoldLeft(LAMBDA t, n : grep_path(t, n, o), s, node.nodes)
    [] OTHER -> s

\* main() after the options: each path, and the exit status.
custom_grep(paths, o) ==
  FoldLeft(LAMBDA s, n : grep_path(s, n, o), [found |-> FALSE, out |-> <<>>], paths)

\* What the utilities' README.md asks of custom_grep for a file of which the
\* lines sel are selected: -q "exit code only", -l "filenames with matches only",
\* -c "match count only", and else the lines, here by number.
Asked(sel, o) ==
  CASE "q" \in o -> <<>>
    [] "l" \in o /\ "q" \notin o -> IF sel = {} THEN <<>> ELSE <<"file">>
    [] "c" \in o /\ o \cap {"q", "l"} = {} -> <<ToString(Cardinality(sel))>>
    [] OTHER -> LET seq == SetToSortSeq(sel, <) IN [i \in DOMAIN seq |-> ToString(seq[i])]

\* The departure from it: custom_grep.c:70 asks for -c only, so -c together with
\* -q or -l writes a count for a file in which nothing is selected.
CountsAnyway(sel, o) == sel = {} /\ "c" \in o /\ o \cap {"q", "l"} # {}

\* custom_grep reports success exactly when a line is selected in some file, and
\* writes for each file, in order, what is asked for; where it counts anyway it
\* adds the count, 0, and nothing else.
GrepSelects(paths, o) ==
  LET Inside(n) == CASE n.kind = "file" -> <<n.lines>>
                     [] n.kind = "dir" /\ "r" \in o ->
                          Flat([k \in DOMAIN n.nodes |->
                             IF n.nodes[k].kind = "file" THEN <<n.nodes[k].lines>> ELSE <<>>])
                     [] OTHER -> <<>>
      files == Flat([k \in DOMAIN paths |-> Inside(paths[k])])
      Selected(f) == {k \in DOMAIN f : regexec(f[k], o) # ("v" \in o)}
      Report(f) == LET sel == Selected(f)
                   IN  Asked(sel, o) \o IF CountsAnyway(sel, o) THEN <<"0">> ELSE <<>>
      r == custom_grep(paths, o)
  IN  /\ r.found = (\E k \in DOMAIN files : Selected(files[k]) # {})
      /\ r.out = Flat([k \in DOMAIN files |-> Report(files[k])])
-----------------------------------------------------------------------------
\* A call of one of the programs and what it should write.
AsSpecified(j) ==
  CASE j.tool = "xgrep" -> GrepFindsLines(j.re, j.files, j.reads)
    [] j.tool = "headtail" -> HeadTailKeepsEnds(j.text, j.n, j.o)
    [] j.tool = "cat" -> CatsLines(j.files, j.o)
    [] j.tool = "wc" -> CountsAll(j.files, j.o)
    [] j.tool = "grep" -> GrepSelects(j.paths, j.o)
=============================================================================
