----------------------------- MODULE MCPrograms -----------------------------
(***************************************************************************)
(* The stand-alone programs side by side: the containers HashSet.h,      *)
(* diyvector.h and the two stack programs, and the shell.  They share     *)
(* nothing, so Init picks one of them (active) and only that one takes    *)
(* steps; the state spaces add up rather than multiply.  ops counts the   *)
(* calls made on a container, up to MaxOps; the shell runs a script.      *)
(***************************************************************************)
EXTENDS Integers, Sequences

CONSTANTS
  Active,                                            \* containers to explore
  MaxOps,                                            \* calls per behaviour
  HsElems, InitBuckets, MaxBuckets, GarbageCounts,   \* HashSet.h
  VecVals, VecMax, Unset,                            \* diyvector.h
  StackVals, Addrs, NULL, MaxDepth,                  \* the stack programs
  Pids, ShellPid, None, MaxLines, PipeIds, PipeCap, GenItems   \* the shell

VARIABLES
  active, ops,
  table, elementCount, ret,
  arr, vectorSize, actualSize, thrown,
  elements, heap, onStack, running, outVec, outHeap,
  input, cursor, st, parent, frames, exe, fdIn, fdOut, held, bg, buf, readerStarted

HS  == INSTANCE HashSetTable WITH Elems <- HsElems
Vec == INSTANCE DiyVector WITH Vals <- VecVals, MaxSize <- VecMax
St  == INSTANCE StackRepl WITH Vals <- StackVals

\* Parse trees of node_t (parser/ast.h) for the shell's script lines.
Cmd(prog) == [type |-> "command", program |-> prog]
PipeOf(parts) == [type |-> "pipe", parts |-> parts]
Subshell(c) == [type |-> "subshell", child |-> c]
Detach(c) == [type |-> "detach", child |-> c]
Sequence(a, b) == [type |-> "sequence", first |-> a, second |-> b]

\* Lines a script may hold: pipelines of two and three parts, one whose
\* reader exits without reading, a background job, a subshell running two
\* builtins, and a command execvp cannot find followed by another.
ScriptLines ==
  { PipeOf(<<Cmd("gen"), Cmd("sink")>>),
    PipeOf(<<Cmd("gen"), Cmd("cat"), Cmd("sink")>>),
    PipeOf(<<Cmd("gen"), Cmd("true")>>),
    Detach(Cmd("gen")),
    Subshell(Sequence(Cmd("cd"), Cmd("exit"))),
    Sequence(Cmd("bad"), Cmd("gen")) }

Sh == INSTANCE Shell WITH Lines <- ScriptLines

hsVars  == <<table, elementCount, ret>>
vecVars == <<arr, vectorSize, actualSize, thrown>>
stVars  == <<elements, heap, onStack, running, outVec, outHeap>>
shVars  == <<input, cursor, st, parent, frames, exe, fdIn, fdOut, held, bg, buf, readerStarted>>
vars    == <<active, ops, hsVars, vecVars, stVars, shVars>>

Init ==
  /\ active \in Active
  /\ ops = 0
  /\ HS!Init /\ Vec!Init /\ St!Init /\ Sh!Init
  \* the script matters only to the shell: one choice otherwise
  /\ active # "shell" => input = <<CHOOSE l \in ScriptLines : TRUE>>

\* One call A of the active container.
Call(name, A, frame) ==
  /\ active = name
  /\ ops < MaxOps
  /\ ops' = ops + 1
  /\ A
  /\ UNCHANGED <<active, frame>>

HsCall(A)  == Call("hashset", A, <<vecVars, stVars, shVars>>)
VecCall(A) == Call("vector", A, <<hsVars, stVars, shVars>>)
StCall(A)  == Call("stack", A, <<hsVars, vecVars, shVars>>)

\* One step of a shell process.
ShStep(A) == active = "shell" /\ A /\ UNCHANGED <<active, ops, hsVars, vecVars, stVars>>

Next ==
  \/ HsCall(HS!Copy)
  \/ \E x \in HsElems : HsCall(HS!AddExisting(x))
  \/ \E x \in HsElems : HsCall(HS!AddNew(x))
  \/ \E x \in HsElems : HsCall(HS!contains(x))
  \/ \E x \in HsElems : HsCall(HS!remove(x))
  \/ VecCall(Vec!popBack)
  \/ \E v \in VecVals : VecCall(Vec!pushBack(v))
  \/ \E i \in Vec!Indices : VecCall(Vec!erase(i))
  \/ \E i \in Vec!Indices, v \in VecVals : VecCall(Vec!insert(i, v))
  \/ StCall(St!Top)
  \/ StCall(St!Pop)
  \/ StCall(St!List)
  \/ StCall(St!Reject)
  \/ StCall(St!End)
  \/ \E v \in StackVals : StCall(St!Push(v))
  \/ \E p \in Pids : ShStep(Sh!ReadLine(p))
  \/ \E p \in Pids : ShStep(Sh!EndOfInput(p))
  \/ \E p \in Pids : ShStep(Sh!ExecExit(p))
  \/ \E p \in Pids : ShStep(Sh!ExecBuiltin(p))
  \/ \E p \in Pids : ShStep(Sh!ExecCommand(p))
  \/ \E p \in Pids : ShStep(Sh!ExecPipe(p))
  \/ \E p \in Pids : ShStep(Sh!ForkPart(p))
  \/ \E p \in Pids : ShStep(Sh!ClosePipes(p))
  \/ \E p \in Pids : ShStep(Sh!WaitReap(p))
  \/ \E p \in Pids : ShStep(Sh!ExitFrame(p))
  \/ \E p \in Pids : ShStep(Sh!ExecSubshell(p))
  \/ \E p \in Pids : ShStep(Sh!ExecDetach(p))
  \/ \E p \in Pids : ShStep(Sh!ExecSequence(p))
  \/ \E p \in Pids : ShStep(Sh!Put(p))
  \/ \E p \in Pids : ShStep(Sh!Sigpipe(p))
  \/ \E p \in Pids : ShStep(Sh!Get(p))
  \/ \E p \in Pids : ShStep(Sh!ProgExit(p))

Spec == Init /\ [][Next]_vars

\* The kernel keeps scheduling every runnable process of the shell.
FairSpec == Spec /\ \A p \in Pids : WF_shVars(ShStep(Sh!Proc(p)))

TypeOK ==
  /\ active \in Active /\ ops \in 0..MaxOps
  /\ HS!TypeOK /\ Vec!TypeOK /\ St!TypeOK /\ Sh!TypeOK

\* HashSet's iterator visits each stored element exactly once (HashSet.h
\* begin and operator++).
IteratorVisitsAll == HS!IteratorVisitsAll

\* at() of DiyVector never reads a slot nothing wrote (pushBack, insert
\* and erase of diyvector.h).
VisibleInitialised == Vec!VisibleInitialised

\* The vector stack and the heap stack print the same for every input
\* (promptStack of stack.cpp and stack-on-heap.cpp).
StacksAgree == St!StacksAgree

\* The heap stack never touches a freed Node (copy constructor, pop,
\* listStack and ~Stack of stack-on-heap.cpp).
NoUseAfterFree == St!NoUseAfterFree

\* The heap stack frees every Node it no longer holds ("list" and "end" of
\* stack-on-heap.cpp).
NoLeakedNodes == St!NoLeakedNodes

\* Every process a shell script starts eventually exits, the shell with
\* it (exec_pipe's close loops, the wait(NULL) calls of shell.c).
Terminates == active = "shell" => Sh!Terminates

\* SIGPIPE kills a writer only on a pipe a part has read from (exec_pipe's
\* parent holds every end until all parts are forked).
NoEarlySigpipe == Sh!NoEarlySigpipe

\* When the shell is back at its prompt, every process it started for the
\* line other than background jobs has finished (the wait(NULL) calls of
\* exec_command, exec_pipe and exec_subshell).
ForegroundFinished == Sh!ForegroundFinished

AbstractSet == INSTANCE SetSpec WITH Elems <- HsElems, set <- HS!Contents(table)

\* HashSet behaves as the set its comments describe: add fails exactly on
\* an element already added, contains finds every element added and not
\* removed, remove succeeds exactly on those (add, contains, remove and the
\* rehash of HashSet.h).
SetRefinement == AbstractSet!Spec
=============================================================================
