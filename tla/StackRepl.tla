----------------------------- MODULE StackRepl -----------------------------
(***************************************************************************)
(* The two stack programs, Stack/stack.cpp (a vector<int>) and            *)
(* Stack/stack-on-heap.cpp (linked Nodes on the heap), fed the same       *)
(* commands.  Each command is one action: the whole promptStack branch,   *)
(* with the copies, pops and destructors it runs.  The heap is mem, a     *)
(* map from address to node, live, the addresses new returned and delete  *)
(* has not freed, and fault, set when a node not live is read or deleted. *)
(* NULL is an address that is never live: reading it is a fault too.     *)
(***************************************************************************)
EXTENDS Integers, Sequences, SequencesExt, FiniteSets

CONSTANTS
  Vals,      \* ints pushed
  Addrs,     \* addresses new can return
  NULL,
  MaxDepth   \* bound on the stack's depth

ASSUME NULL \notin Addrs /\ Cardinality(Addrs) >= 3 * MaxDepth

VARIABLES
  elements,  \* stack.cpp: the vector<int>, back = top
  heap,      \* stack-on-heap.cpp: [mem, live, fault]
  onStack,   \* stack-on-heap.cpp: [top, amount] = topNode, nodeAmount
  running,   \* [vec, heap]: promptStack last returned true
  outVec,    \* the lines stack.cpp printed for the last command
  outHeap    \* the lines stack-on-heap.cpp printed for the last command

stVars == <<elements, heap, onStack, running, outVec, outHeap>>

Progs == {"vec", "heap"}

\* The runtime_error messages printed, as line codes no pushed int takes.
EmptyMsg == -1   \* "stack is empty"
ErrorMsg == -2   \* an unknown command or a bad number

ASSUME {EmptyMsg, ErrorMsg} \cap Vals = {}

NodeRec == [data : Vals, next : Addrs \cup {NULL}]

(***************************************************************************)
(* The heap of stack-on-heap.cpp.                                         *)
(***************************************************************************)
\* A read of a node through pointer a.
Touch(h, a) == [h EXCEPT !.fault = @ \/ a \notin h.live]

\* new Node(d, nxt): some address not live; <<heap, address>>.
New(h, d, nxt) ==
  LET a == CHOOSE x \in Addrs \ h.live : TRUE
  IN  <<[h EXCEPT !.mem[a] = [data |-> d, next |-> nxt], !.live = @ \cup {a}], a>>

\* Stack::pop on a non-empty stack: read the top node, delete it, step to
\* its successor; <<heap, stack, data>>.
PopOne(h, s) ==
  LET h1 == Touch(h, s.top)
  IN  <<[h1 EXCEPT !.live = @ \ {s.top}],
        [top |-> h.mem[s.top].next, amount |-> s.amount - 1],
        h.mem[s.top].data>>

\* Stack::top on a non-empty stack: the data of the node topNode points to;
\* <<heap, data>>.
HeapTop(h, s) == <<Touch(h, s.top), h.mem[s.top].data>>

\* Stack::push: new Node(value, topNode) becomes the top.
PushOne(h, s, v) ==
  LET r == New(h, v, s.top)
  IN  <<r[1], [top |-> r[2], amount |-> s.amount + 1]>>

RECURSIVE PopAll(_, _, _)
\* while (nodeAmount != 0) pop(): of listStack and of ~Stack; <<heap, data>>.
PopAll(h, s, fuel) ==
  IF s.amount = 0 \/ fuel = 0 THEN <<h, <<>>>>
  ELSE LET p == PopOne(h, s)
           r == PopAll(p[1], p[2], fuel - 1)
       IN  <<r[1], <<p[3]>> \o r[2]>>

RECURSIVE CopyRest(_, _, _, _)
\* The while loop of Stack(const Stack&): a new node for each further
\* original node o, linked after the last copy c.
CopyRest(h, o, c, fuel) ==
  IF o = NULL \/ fuel = 0 THEN h
  ELSE LET r == New(Touch(h, o), h.mem[o].data, NULL)
       IN  CopyRest([r[1] EXCEPT !.mem[c].next = r[2]], h.mem[o].next, r[2], fuel - 1)

\* A copy constructor that copies topNode instead of the nodes.
CopyStackShallow(h, s) == <<h, s>>

\* A copy constructor whose copy counts one node fewer than it holds.
CopyStackCountShort(h, s) ==
  IF s.amount = 0 THEN <<h, [top |-> NULL, amount |-> 0]>>
  ELSE LET r == New(Touch(h, s.top), h.mem[s.top].data, NULL)
       IN  <<CopyRest(r[1], h.mem[s.top].next, r[2], Cardinality(Addrs)),
             [top |-> r[2], amount |-> s.amount - 1]>>

\* Stack(const Stack&): nodeAmount copied, then the chain node by node;
\* <<heap, copy>>.
CopyStack(h, s) ==
  IF s.amount = 0 THEN <<h, [top |-> NULL, amount |-> 0]>>
  ELSE LET r == New(Touch(h, s.top), h.mem[s.top].data, NULL)
       IN  <<CopyRest(r[1], h.mem[s.top].next, r[2], Cardinality(Addrs)),
             [top |-> r[2], amount |-> s.amount]>>

\* "list" without ~Stack of copyStack at the end of the branch.
ListHeapNoDtor(h, s) ==
  LET c1 == CopyStack(h, s)
      c2 == CopyStack(c1[1], c1[2])
      l  == PopAll(c2[1], c2[2], MaxDepth + 1)
  IN  <<l[1], l[2]>>

\* "list": Stack copyStack = onStack; listStack(copyStack) takes a second
\* copy by value and pops it empty (its ~Stack then has nothing to pop);
\* ~Stack of copyStack pops copyStack.  <<heap, printed items>>.
ListHeap(h, s) ==
  LET c1 == CopyStack(h, s)
      c2 == CopyStack(c1[1], c1[2])
      l  == PopAll(c2[1], c2[2], MaxDepth + 1)
      d  == PopAll(l[1], c1[2], MaxDepth + 1)
  IN  <<d[1], l[2]>>

RECURSIVE ChainFrom(_, _, _)
\* The addresses reached from a by following next.
ChainFrom(h, a, fuel) ==
  IF a = NULL \/ fuel = 0 THEN {} ELSE {a} \cup ChainFrom(h, h.mem[a].next, fuel - 1)

(***************************************************************************)
(* promptStack of both programs.                                          *)
(***************************************************************************)
Init ==
  /\ elements = <<>>
  /\ heap = [mem |-> [a \in Addrs \cup {NULL} |-> [data |-> CHOOSE v \in Vals : TRUE, next |-> NULL]],
             live |-> {}, fault |-> FALSE]
  /\ onStack = [top |-> NULL, amount |-> 0]
  /\ running = [p \in Progs |-> TRUE]
  /\ outVec = <<>>
  /\ outHeap = <<>>

Running == \A p \in Progs : running[p]

\* "top": the top item, or the "stack is empty" runtime_error.
Top ==
  /\ Running
  /\ outVec' = IF elements = <<>> THEN <<EmptyMsg>> ELSE <<Last(elements)>>
  /\ IF onStack.amount = 0
     THEN outHeap' = <<EmptyMsg>> /\ UNCHANGED heap
     ELSE LET t == HeapTop(heap, onStack) IN heap' = t[1] /\ outHeap' = <<t[2]>>
  /\ UNCHANGED <<elements, onStack, running>>

\* "pop": back() then pop_back(); on the heap, Stack::pop.
Pop ==
  /\ Running
  /\ IF elements = <<>>
     THEN outVec' = <<EmptyMsg>> /\ UNCHANGED elements
     ELSE outVec' = <<Last(elements)>> /\ elements' = Front(elements)
  /\ IF onStack.amount = 0
     THEN outHeap' = <<EmptyMsg>> /\ UNCHANGED <<heap, onStack>>
     ELSE LET p == PopOne(heap, onStack)
          IN  heap' = p[1] /\ onStack' = p[2] /\ outHeap' = <<p[3]>>
  /\ UNCHANGED running

\* "push v": the branch ends without a return statement, so the value
\* promptStack returns is undefined; either outcome can be built.
Push(v) ==
  /\ Running
  /\ Len(elements) < MaxDepth
  /\ elements' = Append(elements, v)
  /\ LET r == PushOne(heap, onStack, v) IN heap' = r[1] /\ onStack' = r[2]
  /\ running' \in [Progs -> BOOLEAN]
  /\ outVec' = <<>> /\ outHeap' = <<>>

\* "list": stack.cpp pops a by-value copy of the vector, top first.
List ==
  /\ Running
  /\ outVec' = Reverse(elements)
  /\ LET l == ListHeap(heap, onStack) IN heap' = l[1] /\ outHeap' = l[2]
  /\ UNCHANGED <<elements, onStack, running>>

\* An unknown command, or "push" followed by something not a number: a
\* runtime_error printed, promptStack returns true.
Reject ==
  /\ Running
  /\ outVec' = <<ErrorMsg>> /\ outHeap' = <<ErrorMsg>>
  /\ UNCHANGED <<elements, heap, onStack, running>>

\* "end" or end of input: promptStack returns false, main returns and the
\* ~Stack of its onStack pops every node.
End ==
  /\ Running
  /\ running' = [p \in Progs |-> FALSE]
  /\ heap' = PopAll(heap, onStack, MaxDepth + 1)[1]
  /\ onStack' = [top |-> NULL, amount |-> 0]
  /\ outVec' = <<>> /\ outHeap' = <<>>
  /\ UNCHANGED elements

Next == Top \/ Pop \/ List \/ Reject \/ End \/ \E v \in Vals : Push(v)

TypeOK ==
  /\ elements \in Seq(Vals) /\ Len(elements) <= MaxDepth
  /\ heap.mem \in [Addrs \cup {NULL} -> NodeRec]
  /\ heap.live \subseteq Addrs /\ heap.fault \in BOOLEAN
  /\ onStack \in [top : Addrs \cup {NULL}, amount : 0..MaxDepth]
  /\ running \in [Progs -> BOOLEAN]

\* stack.cpp and stack-on-heap.cpp print the same thing for every command
\* of the same input: the heap stack's pushes, pops and its "list" through
\* two copy constructions behave as the vector does.
StacksAgree == outVec = outHeap

\* stack-on-heap.cpp never reads or deletes a Node that delete already
\* freed: "list" copies, pops and destroys copies without touching the
\* nodes of onStack.
NoUseAfterFree == ~heap.fault

\* Every Node new created and delete has not freed is on onStack's chain:
\* the copies "list" makes are freed by listStack's pops and by ~Stack of
\* copyStack, and main's ~Stack frees the rest at "end".
NoLeakedNodes == heap.live = ChainFrom(heap, onStack.top, MaxDepth + 1)

=============================================================================
