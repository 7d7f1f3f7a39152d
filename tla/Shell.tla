------------------------------- MODULE Shell -------------------------------
(***************************************************************************)
(* The process structure of the shell src/shell/shell.c and the main loop *)
(* of src/shell/front.c, running a script.  Each process has a control    *)
(* stack (frames): the calls of run_command still to make in it, copied   *)
(* by fork as C copies the call stack.  Every process step that another   *)
(* process can observe (fork, wait, exit, closing pipe ends, reading and  *)
(* writing a pipe) is an action of its own.                               *)
(*                                                                         *)
(* readline reads the script through a descriptor that all the shell's    *)
(* copies share, so they share one read offset (cursor).  A process's     *)
(* stdin and stdout are the terminal Tty or one end of a pipe; held are   *)
(* the pipe ends it still has open besides them.  The programs commands   *)
(* run are not the shell's code: gen writes GenItems items and exits,     *)
(* cat copies stdin to stdout, sink reads to end of file, true exits, and *)
(* bad does not exist, so execvp fails.  The terminal has no input.       *)
(***************************************************************************)
EXTENDS Naturals, Sequences, SequencesExt, FiniteSets

CONSTANTS
  Pids,      \* process ids fork can return
  ShellPid,  \* the shell itself
  None,      \* no parent: reparented to init
  Lines,     \* command trees a script line can parse to
  MaxLines,  \* script length
  PipeIds,   \* pipes the kernel can hand out
  PipeCap,   \* items a pipe buffers
  GenItems   \* items gen writes

ASSUME ShellPid \in Pids /\ None \notin Pids

VARIABLES
  input,          \* the script: a sequence of parsed lines
  cursor,         \* the shared read offset: the next line readline returns
  st,             \* process state: "free", "run" or "zombie"
  parent,
  frames,         \* what each process has left to do in the shell's code
  exe,            \* [prog, left]: the program exec loaded, or "shell"
  fdIn, fdOut,    \* stdin and stdout
  held,           \* other pipe ends open in the process
  bg,             \* forked by exec_detach, or descended from such a process
  buf,            \* items buffered in each pipe
  readerStarted   \* some process has had the pipe's read end as stdin

vars == <<input, cursor, st, parent, frames, exe, fdIn, fdOut, held, bg, buf, readerStarted>>

Tty == [pipe |-> 0, end |-> "tty"]
Rd(x) == [pipe |-> x, end |-> "rd"]
Wr(x) == [pipe |-> x, end |-> "wr"]
Ends(ps) == {Rd(x) : x \in ToSet(ps)} \cup {Wr(x) : x \in ToSet(ps)}
ShellImage == [prog |-> "shell", left |-> 0]

Holds(p, e) == st[p] = "run" /\ (fdIn[p] = e \/ fdOut[p] = e \/ e \in held[p])
HasReader(x) == \E p \in Pids : Holds(p, Rd(x))
HasWriter(x) == \E p \in Pids : Holds(p, Wr(x))
FreePipes == {x \in PipeIds : ~HasReader(x) /\ ~HasWriter(x)}
Running(p) == st[p] = "run"
Top(p) == Head(frames[p])
Rest(p) == Tail(frames[p])

Init ==
  /\ input \in UNION {[1..n -> Lines] : n \in 1..MaxLines}
  /\ cursor = 1
  /\ st = [p \in Pids |-> IF p = ShellPid THEN "run" ELSE "free"]
  /\ parent = [p \in Pids |-> None]
  /\ frames = [p \in Pids |-> <<>>]
  /\ exe = [p \in Pids |-> ShellImage]
  /\ fdIn = [p \in Pids |-> Tty]
  /\ fdOut = [p \in Pids |-> Tty]
  /\ held = [p \in Pids |-> {}]
  /\ bg = [p \in Pids |-> FALSE]
  /\ buf = [x \in PipeIds |-> 0]
  /\ readerStarted = [x \in PipeIds |-> FALSE]

(***************************************************************************)
(* Process life cycle.                                                     *)
(***************************************************************************)
\* exit: the process becomes a zombie for its parent to reap (or is reaped
\* by init if it has none); its zombie children go to init, which reaps
\* them, and its running children are reparented to init.
Exit(p) ==
  /\ st' = [q \in Pids |->
              IF q = p THEN IF parent[p] = None THEN "free" ELSE "zombie"
              ELSE IF parent[q] = p /\ st[q] = "zombie" THEN "free" ELSE st[q]]
  /\ parent' = [q \in Pids |-> IF parent[q] = p THEN None ELSE parent[q]]
  /\ frames' = [frames EXCEPT ![p] = <<>>]
  /\ exe' = [exe EXCEPT ![p] = ShellImage]
  /\ fdIn' = [fdIn EXCEPT ![p] = Tty]
  /\ fdOut' = [fdOut EXCEPT ![p] = Tty]
  /\ held' = [held EXCEPT ![p] = {}]
  /\ bg' = [bg EXCEPT ![p] = FALSE]

\* fork() in p, returning c to the parent and 0 to the child; the child's
\* frames, program, descriptors and background mark are given, the
\* parent continues with pframes.
Fork(p, c, pframes, cframes, cexe, cin, cout, cheld, cbg) ==
  /\ st' = [st EXCEPT ![c] = "run"]
  /\ parent' = [parent EXCEPT ![c] = p]
  /\ frames' = [frames EXCEPT ![p] = pframes, ![c] = cframes]
  /\ exe' = [exe EXCEPT ![c] = cexe]
  /\ fdIn' = [fdIn EXCEPT ![c] = cin]
  /\ fdOut' = [fdOut EXCEPT ![c] = cout]
  /\ held' = [held EXCEPT ![c] = cheld]
  /\ bg' = [bg EXCEPT ![c] = cbg]
  /\ readerStarted' = [x \in PipeIds |-> readerStarted[x] \/ cin = Rd(x)]

FreePid == CHOOSE c \in Pids : st[c] = "free"
CanFork == \E c \in Pids : st[c] = "free"

Pop(p) == frames' = [frames EXCEPT ![p] = Rest(p)]

(***************************************************************************)
(* front.c main and handle_command: read a line, run its tree.             *)
(***************************************************************************)
ReadLine(p) ==
  /\ Running(p) /\ exe[p] = ShellImage /\ frames[p] = <<>>
  /\ cursor <= Len(input)
  /\ frames' = [frames EXCEPT ![p] = <<[op |-> "run", node |-> input[cursor]]>>]
  /\ cursor' = cursor + 1
  /\ UNCHANGED <<input, st, parent, exe, fdIn, fdOut, held, bg, buf, readerStarted>>

\* readline returns NULL at the end of the script: main returns 0.
EndOfInput(p) ==
  /\ Running(p) /\ exe[p] = ShellImage /\ frames[p] = <<>>
  /\ cursor > Len(input)
  /\ Exit(p)
  /\ UNCHANGED <<input, cursor, buf, readerStarted>>

IsRun(p, type) == frames[p] # <<>> /\ Top(p).op = "run" /\ Top(p).node.type = type

(***************************************************************************)
(* run_command and the exec_* handlers of shell.c.                         *)
(***************************************************************************)
\* The builtins cd, set, unset and env run in the calling process without
\* fork; what they change (the working directory) or print is not modelled.
Builtins == {"cd"}

\* What execvp leaves running in the child: the program, or the shell's
\* own image when execvp fails.
Image(prog) ==
  IF prog = "bad" THEN ShellImage
  ELSE [prog |-> prog, left |-> IF prog = "gen" THEN GenItems ELSE 0]

\* exec_exit: exit(0).
ExecExit(p) ==
  /\ Running(p) /\ IsRun(p, "command") /\ Top(p).node.program = "exit"
  /\ Exit(p)
  /\ UNCHANGED <<input, cursor, buf, readerStarted>>

ExecBuiltin(p) ==
  /\ Running(p) /\ IsRun(p, "command") /\ Top(p).node.program \in Builtins
  /\ Pop(p)
  /\ UNCHANGED <<input, cursor, st, parent, exe, fdIn, fdOut, held, bg, buf, readerStarted>>

\* exec_command for a program: fork; the child execs it, or, when execvp
\* fails, prints the error and returns into the caller's frames; the
\* parent waits.
ExecCommand(p) ==
  /\ Running(p) /\ IsRun(p, "command")
  /\ Top(p).node.program \notin Builtins \cup {"exit"}
  /\ CanFork
  /\ LET prog == Top(p).node.program
     IN  Fork(p, FreePid, <<[op |-> "wait"]>> \o Rest(p),
              IF prog = "bad" THEN Rest(p) ELSE <<>>, Image(prog),
              fdIn[p], fdOut[p], held[p], bg[p])
  /\ UNCHANGED <<input, cursor, buf>>

\* exec_pipe, first loop: num_commands - 1 pipes, all ends open in p.
\* Then the fork loop, the parent's close loop and num_commands waits.
ExecPipe(p) ==
  /\ Running(p) /\ IsRun(p, "pipe")
  /\ LET node == Top(p).node
         n    == Len(node.parts)
     IN  /\ Cardinality(FreePipes) >= n - 1
         /\ LET ps == CHOOSE s \in [1..(n - 1) -> FreePipes] : IsInjective(s)
            IN  /\ frames' = [frames EXCEPT ![p] =
                      [i \in 1..n |-> [op |-> "fork", node |-> node, i |-> i - 1, ps |-> ps]]
                      \o <<[op |-> "close", ps |-> ps]>>
                      \o [i \in 1..n |-> [op |-> "wait"]]
                      \o Rest(p)]
                /\ held' = [held EXCEPT ![p] = @ \cup Ends(ps)]
                /\ buf' = [x \in PipeIds |-> IF x \in ToSet(ps) THEN 0 ELSE buf[x]]
                /\ readerStarted' = [x \in PipeIds |-> readerStarted[x] /\ x \notin ToSet(ps)]
  /\ UNCHANGED <<input, cursor, st, parent, exe, fdIn, fdOut, bg>>

get_pipe_t(index, length) ==
  IF index = 0 THEN "PIPE_START" ELSE IF index = length - 1 THEN "PIPE_END" ELSE "PIPE_MIDDLE"

\* dup2(old, new) of an end p holds: new becomes old; dup2 of an end p has
\* closed fails and leaves new as it was.
Dup2(p, end, cur) == IF end \in held[p] THEN end ELSE cur

\* Mutant: the child takes the pipe's write end as its stdin.
PartStdinWrongEnd(p, f) ==
  IF get_pipe_t(f.i, Len(f.node.parts)) = "PIPE_START" THEN fdIn[p]
  ELSE Dup2(p, Wr(f.ps[f.i]), fdIn[p])

\* The child's stdin: the read end of the pipe before it (PIPE_MIDDLE,
\* PIPE_END), dup2(pipes[i - 1][PIPE_RD], STDIN_FILENO).

PartStdin(p, f) ==
  IF get_pipe_t(f.i, Len(f.node.parts)) = "PIPE_START" THEN fdIn[p]
  ELSE Dup2(p, Rd(f.ps[f.i]), fdIn[p])

\* The child's stdout: the write end of its own pipe (PIPE_START,
\* PIPE_MIDDLE), dup2(pipes[i][PIPE_WR], STDOUT_FILENO).
PartStdout(p, f) ==
  IF get_pipe_t(f.i, Len(f.node.parts)) = "PIPE_END" THEN fdOut[p]
  ELSE Dup2(p, Wr(f.ps[f.i + 1]), fdOut[p])

\* One round of the fork loop: the child points stdin and stdout at its
\* pipes by its position, closes every end of the pipes, runs its part and
\* exits.
ForkPart(p) ==
  /\ Running(p) /\ frames[p] # <<>> /\ Top(p).op = "fork"
  /\ CanFork
  /\ LET f == Top(p)
     IN  Fork(p, FreePid, Rest(p),
              <<[op |-> "run", node |-> f.node.parts[f.i + 1]], [op |-> "exit"]>>,
              ShellImage, PartStdin(p, f), PartStdout(p, f), held[p] \ Ends(f.ps), bg[p])
  /\ UNCHANGED <<input, cursor, buf>>

\* Mutant: the parent's close loop is skipped, so it keeps both ends.
ClosePipesKeepEnds(p) ==
  /\ Running(p) /\ frames[p] # <<>> /\ Top(p).op = "close"
  /\ Pop(p)
  /\ UNCHANGED <<input, cursor, st, parent, exe, fdIn, fdOut, held, bg, buf, readerStarted>>

\* The parent's close loop: close and free every pipe.
ClosePipes(p) ==
  /\ Running(p) /\ frames[p] # <<>> /\ Top(p).op = "close"
  /\ held' = [held EXCEPT ![p] = @ \ Ends(Top(p).ps)]
  /\ Pop(p)
  /\ UNCHANGED <<input, cursor, st, parent, exe, fdIn, fdOut, bg, buf, readerStarted>>

\* wait(NULL): reap any one zombie child; with only running children it
\* blocks.  (Every wait follows a fork of the same process and reaps one
\* child, so a process never waits with no child at all.)
WaitReap(p) ==
  /\ Running(p) /\ frames[p] # <<>> /\ Top(p).op = "wait"
  /\ \E c \in Pids :
       /\ parent[c] = p /\ st[c] = "zombie"
       /\ st' = [st EXCEPT ![c] = "free"]
       /\ parent' = [parent EXCEPT ![c] = None]
  /\ Pop(p)
  /\ UNCHANGED <<input, cursor, exe, fdIn, fdOut, held, bg, buf, readerStarted>>

\* The exit(0) after run_command in a child of exec_pipe, exec_subshell or
\* exec_detach.
ExitFrame(p) ==
  /\ Running(p) /\ frames[p] # <<>> /\ Top(p).op = "exit"
  /\ Exit(p)
  /\ UNCHANGED <<input, cursor, buf, readerStarted>>

\* exec_subshell and exec_detach: the child runs the subtree and exits;
\* only exec_subshell waits for it.
ExecSubshell(p) ==
  /\ Running(p) /\ IsRun(p, "subshell") /\ CanFork
  /\ Fork(p, FreePid, <<[op |-> "wait"]>> \o Rest(p),
          <<[op |-> "run", node |-> Top(p).node.child], [op |-> "exit"]>>,
          ShellImage, fdIn[p], fdOut[p], held[p], bg[p])
  /\ UNCHANGED <<input, cursor, buf>>

ExecDetach(p) ==
  /\ Running(p) /\ IsRun(p, "detach") /\ CanFork
  /\ Fork(p, FreePid, Rest(p),
          <<[op |-> "run", node |-> Top(p).node.child], [op |-> "exit"]>>,
          ShellImage, fdIn[p], fdOut[p], held[p], TRUE)
  /\ UNCHANGED <<input, cursor, buf>>

ExecSequence(p) ==
  /\ Running(p) /\ IsRun(p, "sequence")
  /\ frames' = [frames EXCEPT ![p] = <<[op |-> "run", node |-> Top(p).node.first],
                                       [op |-> "run", node |-> Top(p).node.second]>> \o Rest(p)]
  /\ UNCHANGED <<input, cursor, st, parent, exe, fdIn, fdOut, held, bg, buf, readerStarted>>

(***************************************************************************)
(* The programs the commands exec: the environment, not the shell's code. *)
(***************************************************************************)
Prog(p) == exe[p].prog
OutPipe(p) == fdOut[p].pipe
InPipe(p) == fdIn[p].pipe

\* Has an item to write: gen with items left, cat holding one it read.
Writing(p) == (Prog(p) = "gen" \/ Prog(p) = "cat") /\ exe[p].left > 0

\* A write to the terminal, or into a pipe with room and a reader.
Put(p) ==
  /\ Running(p) /\ Writing(p)
  /\ \/ fdOut[p] = Tty /\ UNCHANGED buf
     \/ /\ fdOut[p] # Tty /\ HasReader(OutPipe(p)) /\ buf[OutPipe(p)] < PipeCap
        /\ buf' = [buf EXCEPT ![OutPipe(p)] = @ + 1]
  /\ exe' = [exe EXCEPT ![p].left = @ - 1]
  /\ UNCHANGED <<input, cursor, st, parent, frames, fdIn, fdOut, held, bg, readerStarted>>

\* A write into a pipe no process has open for reading: SIGPIPE kills.
Sigpipe(p) ==
  /\ Running(p) /\ Writing(p)
  /\ fdOut[p] # Tty /\ ~HasReader(OutPipe(p))
  /\ Exit(p)
  /\ UNCHANGED <<input, cursor, buf, readerStarted>>

\* cat and sink read one item from the pipe on stdin; cat then holds it.
Get(p) ==
  /\ Running(p)
  /\ Prog(p) \in {"cat", "sink"} /\ exe[p].left = 0
  /\ fdIn[p] # Tty /\ buf[InPipe(p)] > 0
  /\ buf' = [buf EXCEPT ![InPipe(p)] = @ - 1]
  /\ exe' = [exe EXCEPT ![p].left = IF Prog(p) = "cat" THEN 1 ELSE 0]
  /\ UNCHANGED <<input, cursor, st, parent, frames, fdIn, fdOut, held, bg, readerStarted>>

\* End of file: the terminal, or an empty pipe nobody has open for writing.
AtEof(p) == fdIn[p] = Tty \/ (buf[InPipe(p)] = 0 /\ ~HasWriter(InPipe(p)))

ProgExit(p) ==
  /\ Running(p) /\ Prog(p) # "shell"
  /\ \/ Prog(p) = "gen" /\ exe[p].left = 0
     \/ Prog(p) = "true"
     \/ Prog(p) \in {"cat", "sink"} /\ exe[p].left = 0 /\ AtEof(p)
  /\ Exit(p)
  /\ UNCHANGED <<input, cursor, buf, readerStarted>>

(***************************************************************************)
(* The system: every process steps on its own.                             *)
(***************************************************************************)
Proc(p) ==
  \/ ReadLine(p) \/ EndOfInput(p)
  \/ ExecExit(p) \/ ExecBuiltin(p) \/ ExecCommand(p)
  \/ ExecPipe(p) \/ ForkPart(p) \/ ClosePipes(p)
  \/ WaitReap(p) \/ ExitFrame(p)
  \/ ExecSubshell(p) \/ ExecDetach(p) \/ ExecSequence(p)
  \/ Put(p) \/ Sigpipe(p) \/ Get(p) \/ ProgExit(p)

Next == \E p \in Pids : Proc(p)

Spec == Init /\ [][Next]_vars

\* The kernel keeps scheduling every runnable process.
FairSpec == Spec /\ \A p \in Pids : WF_vars(Proc(p))

-----------------------------------------------------------------------------
(* Properties.                                                             *)

End == {Tty} \cup {Rd(x) : x \in PipeIds} \cup {Wr(x) : x \in PipeIds}

TypeOK ==
  /\ cursor \in 1..(MaxLines + 1)
  /\ st \in [Pids -> {"free", "run", "zombie"}]
  /\ parent \in [Pids -> Pids \cup {None}]
  /\ fdIn \in [Pids -> End] /\ fdOut \in [Pids -> End]
  /\ held \in [Pids -> SUBSET End]
  /\ buf \in [PipeIds -> 0..PipeCap]

\* Every process the script starts eventually exits, the shell with it: the
\* parent's and every child's close loops of exec_pipe leave each pipe's
\* write ends only with its writers, so readers see end of file, and
\* every wait(NULL) of the shell returns.
Terminates == <>(\A p \in Pids : st[p] # "run")

\* A writer is killed by SIGPIPE only on a pipe some part of the pipeline
\* has read from: exec_pipe's parent keeps every end open until all parts
\* are forked, so no part finds its reader missing before it started.
NoEarlySigpipe == [][\A p \in Pids : Sigpipe(p) => readerStarted[OutPipe(p)]]_vars

\* When the shell is back at its prompt, every process it started for the
\* line, other than background jobs, has finished: exec_command's,
\* exec_pipe's and exec_subshell's wait(NULL) calls wait for the children
\* they forked ("wait children to finish", shell.c:185).
AtPrompt == Running(ShellPid) /\ exe[ShellPid] = ShellImage /\ frames[ShellPid] = <<>>
ForegroundFinished ==
  AtPrompt => \A p \in Pids \ {ShellPid} : st[p] = "run" => bg[p]
=============================================================================
