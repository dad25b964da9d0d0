-------------------------------- MODULE MCFs --------------------------------
(* Fs for TLC: two processes, three inodes, four blocks, two names.  A      *)
(* behaviour keeps to one of the programs, so that their state spaces add   *)
(* up instead of multiplying.                                              *)
EXTENDS Fs, TLC

CONSTANTS p1, p2

Users == Permutations({p1, p2})

Call(op, path) == [NoCall EXCEPT !.op = op, !.path = path]
Create(path) == [Call("create", path) EXCEPT !.mode = "trunc"]
Link(old, new) == [Call("link", old) EXCEPT !.new = new]
Here(c) == [c EXCEPT !.abs = FALSE]
Program(calls, also) == [calls |-> [p \in Procs |-> calls], also |-> also]
\* One process does these, and the other those.
Two(these, those, also) ==
  {[calls |-> [p \in Procs |-> IF p = q THEN these ELSE those], also |-> also] : q \in Procs}

Mkdir == Call("mkdir", <<"a">>)
Rmdir == Call("unlink", <<"a">>)

MCPrograms ==
  { \* a file, and a directory, created in a directory that is being removed
    Program({Mkdir, Rmdir, Create(<<"a", "b">>)}, {}),
    Program({Mkdir, Rmdir, Call("mkdir", <<"a", "b">>)}, {}),
    \* links to an inode that come and go
    Program({Call("mknod", <<"a">>), Link(<<"a">>, <<"b">>), Call("unlink", <<"a">>),
             Call("unlink", <<"b">>)}, {}),
    \* a file that grows, is truncated, and outlives a crash in some state
    Program({Create(<<"a">>)}, {"write", "crash"}),
    \* a file that is unlinked while it is open, and a crash
    Program({Create(<<"a">>), Call("unlink", <<"a">>)}, {"crash"}),
    \* open files shared by dup() and fork(), and a path through a file
    Program({Create(<<"a">>), Here(Call("open", <<"a">>)), Call("open", <<"a", "b">>)},
            {"dup", "fork"}),
    \* a link from the current directory
    Program({Mkdir, Call("chdir", <<"a">>), Call("mknod", <<"b">>),
             [Link(<<"b">>, <<"b">>) EXCEPT !.newabs = FALSE]}, {}),
    \* a device
    Program({Call("mknod", <<"a">>), Call("open", <<"a">>)}, {}),
    \* paths that lead up against paths that lead down
    Program({Mkdir, Rmdir, Create(<<"a", "..">>), Call("unlink", <<"a", "..">>)}, {"crash"}) }
  \cup \* a disk that fills up, and a link to a directory, which is refused
    Two({Mkdir, Link(<<"a">>, <<"b">>)}, {Create(<<"b">>)}, {"write"})
  \cup \* a current directory that is removed
    Two({Mkdir, Rmdir, Call("chdir", <<"a">>)}, {Call("chdir", <<"a">>)}, {})
  \cup \* a current directory that is removed, and then its parent
    Two({Rmdir, Call("mkdir", <<"a", "b">>), Call("unlink", <<"a", "b">>),
         Call("chdir", <<"a", "b">>), Here(Call("mknod", <<"..">>))}, {Mkdir}, {})

\* A directory that is created and removed, over and over.
MCMkdirRmdir == {Program({Mkdir, Rmdir}, {})}
=============================================================================
