----------------------------- MODULE ModelGraph ------------------------------
(***************************************************************************)
(* The node list a model is compiled from, as src/codegen/_core.py and       *)
(* src/schedule.py see it: what each node is, which tensors it reads, which   *)
(* of them share a buffer, the dependence graph, and the order search.       *)
(*                                                                         *)
(* A node writes one tensor, so a tensor is named by its node.  A tensor no   *)
(* node writes (a graph input, a weight) is always there and is left out.    *)
(* One persistent state (a KV cache) stands for all of them.                 *)
(***************************************************************************)
EXTENDS Naturals, FiniteSets, Sequences

CONSTANTS
  Lanes,       \* the hardware kernels
  NoLane,      \* the lane of a node that runs on none
  Sizes,       \* bounds on the graphs: see below
  AnyAlias     \* TRUE: an output may be any reshape the code compiles

Ops == {"kernel", "sync", "cpu", "reshape", "view", "merge"}

ASSUME LaneAssumption  == NoLane \notin Lanes
ASSUME AliasAssumption == AnyAlias \in BOOLEAN
\* A graph has at most so many nodes of some kinds, inputs of a node, outputs and accesses
\* of the state, and the order search makes at most so many moves.
ASSUME SizeAssumption ==
  Sizes \subseteq [nodes : Nat, ops : SUBSET Ops, inputs : Nat, outs : Nat, touch : Nat, hoists : Nat]

VARIABLES
  phase,   \* of the compilation, then of the generated inference_run()
  graph,   \* the nodes, in the order of the model file
  outs,    \* the tensors that are outputs of the graph
  pos,     \* where the list has each node after the order search
  hoists,  \* moves made
  size     \* the bounds on this graph

graphVars == <<graph, outs, pos, hoists, size>>

Node == 1 .. Len(graph)

OnLane(n)  == graph[n].op \in {"kernel", "sync"}
IsView(n)  == graph[n].op \in {"reshape", "view"}
IsAlias(n) == IsView(n) \/ graph[n].op = "merge"

\* The inputs of in-place merges are pieces of the merges' outputs.
MergeOf(t) == {m \in Node : graph[m].op = "merge" /\ t \in graph[m].ins}

\* The tensor whose buffer t lives in.
Resolve(t) == IF MergeOf(t) # {} THEN CHOOSE m \in MergeOf(t) : TRUE ELSE graph[t].root

------------------------------------------------------------------------------
(* The dependence graph.  A state access depends on the accesses before it    *)
(* in the list that it conflicts with, back to the last write.               *)

Conflict(u, v) == /\ graph[u].state # "none" /\ graph[v].state # "none"
                  /\ "write" \in {graph[u].state, graph[v].state}

\* (mutant) without the edges from a read to the write after it.
StateEdgeNoWAR(u, v, place) ==
  /\ place[u] < place[v] /\ Conflict(u, v) /\ graph[u].state = "write"
  /\ ~\E w \in Node : graph[w].state = "write" /\ place[u] < place[w] /\ place[w] < place[v]

StateEdge(u, v, place) ==
  /\ place[u] < place[v] /\ Conflict(u, v)
  /\ ~\E w \in Node : graph[w].state = "write" /\ place[u] < place[w] /\ place[w] < place[v]

Preds(n, place) == graph[n].ins \cup {u \in Node : StateEdge(u, n, place)}

\* (mutant) aliases are passed over, not walked through.
DirectPreds(n) == {p \in Preds(n, pos) : ~IsAlias(p)}

\* The nodes that do the work n has to wait for: aliases are walked through.
EffectivePreds(n) == UNION {graph[p].by : p \in Preds(n, pos)}

------------------------------------------------------------------------------
(* Nodes.  `by` are the nodes whose calls write the tensor, `root` the tensor *)
(* whose buffer it names, `path` those it is a chain of reshapes of.         *)

Touches == {n \in Node : graph[n].state # "none"}
Pieces  == {t \in Node : MergeOf(t) # {}}
Readers(t) == {n \in Node : t \in graph[n].ins}

Worker(op, lane, ins, st) ==
  [op |-> op, lane |-> lane, ins |-> ins, state |-> st,
   by |-> {Len(graph) + 1}, root |-> Len(graph) + 1, path |-> {}]

AddWorker ==
  \E op \in {"kernel", "sync", "cpu"}, lane \in Lanes \cup {NoLane},
     ins \in SUBSET (Node \ Pieces), st \in {"none", "read", "write"} :
    /\ (op = "cpu") = (lane = NoLane)
    /\ Cardinality(ins) <= size.inputs
    /\ st # "none" => Cardinality(Touches) < size.touch
    /\ graph' = Append(graph, Worker(op, lane, ins, st))

AddReshape ==
  \E src \in Node \ Pieces :
    graph' = Append(graph, [op |-> "reshape", lane |-> NoLane, ins |-> {src}, state |-> "none",
                            by |-> graph[src].by, root |-> graph[src].root,
                            path |-> graph[src].path \cup {src}])

\* A contiguous piece of a buffer that is no piece itself.
AddSliceView ==
  \E src \in Node \ Pieces :
    /\ \A r \in {src} \cup graph[src].path : graph[r].op # "view"
    /\ graph' = Append(graph, [op |-> "view", lane |-> NoLane, ins |-> {src}, state |-> "none",
                               by |-> graph[src].by, root |-> graph[src].root, path |-> {}])

\* A Concat or an attention merge of tensors that kernels write and it alone reads.
AddMerge ==
  \E ins \in SUBSET Node :
    /\ Cardinality(ins) = 2
    /\ \A t \in ins : OnLane(t) /\ Readers(t) = {}
    /\ graph' = Append(graph, [op |-> "merge", lane |-> NoLane, ins |-> ins, state |-> "none",
                               by |-> ins, root |-> Len(graph) + 1, path |-> {}])

\* Graphs that stay too wide to end in so few outputs are not built.
Narrow(g) ==
  Cardinality({t \in DOMAIN g : \A n \in DOMAIN g : t \notin g[n].ins})
    <= size.outs + (size.nodes - Len(g)) * (IF size.inputs > 1 THEN size.inputs - 1 ELSE 1)

AddNode ==
  /\ phase = "build" /\ Len(graph) < size.nodes
  /\ AddWorker \/ AddReshape \/ AddSliceView \/ AddMerge
  /\ graph'[Len(graph')].op \in size.ops /\ Narrow(graph')
  /\ UNCHANGED <<phase, outs, pos, hoists, size>>

------------------------------------------------------------------------------
(* The graph's outputs: every tensor nothing reads, and any others.          *)

\* Slices and merges that share a buffer share one of the pool: where a tensor is handed
\* to the caller they are copies, so nodes of another kind here.
ViewsStayInPool(o) ==
  /\ \A t \in o : graph[t].op \notin {"view", "merge"} /\ t \notin Pieces
  /\ \A v \in Node : graph[v].op = "view" =>
       graph[v].root \notin o /\ \A x \in o : graph[x].path \cap {v, graph[v].root} = {}

\* (mutant) the source of the last reshape only.
ChainEnd(x, o) == IF graph[x].op = "reshape" THEN graph[x].ins \ o ELSE {}

\* _output_aliases: the pool tensors x is a chain of reshapes of, when it is one.
Chain(x, o) == IF graph[x].op = "reshape" /\ graph[x].ins \cap o = {} THEN graph[x].path ELSE {}

\* inference_init() cannot name a caller's buffer as the source of an alias, and
\* inference_run() saves each redirected pointer once: other graphs give C that does
\* not compile.
Compiles(o) ==
  /\ \A n \in Node : graph[n].op = "reshape" /\ graph[n].ins \cap o # {} => n \in o
  /\ \A x, y \in o : x # y => Chain(x, o) \cap Chain(y, o) = {}

\* An output that is a reshape is the end of a chain of tensors of the pool, and their
\* buffer has no other name and no pieces.
OnlyChainAliases(o) ==
  \A x \in o : graph[x].op = "reshape" =>
    /\ graph[x].path \cap o = {}
    /\ graph[graph[x].root].op # "merge"
    /\ \A n \in Node : IsView(n) /\ graph[n].root = graph[x].root => n \in {x} \cup graph[x].path

CloseGraph ==
  /\ phase = "build" /\ graph # <<>>
  /\ \E taps \in SUBSET Node :
       LET o == taps \cup {t \in Node : Readers(t) = {}} IN
         /\ Cardinality(o) <= size.outs
         /\ ViewsStayInPool(o) /\ Compiles(o)
         /\ AnyAlias \/ OnlyChainAliases(o)
         /\ outs' = o
  /\ phase' = "order"
  /\ pos' = [n \in Node |-> n]
  /\ UNCHANGED <<graph, hoists, size>>

------------------------------------------------------------------------------
(* The order search moves a kernel's node before nodes it does not depend on  *)
(* in the graph of the original order.  Any move may pay.                    *)

Hoist(v, j) ==
  /\ phase = "order" /\ hoists < size.hoists
  /\ OnLane(v) /\ j < pos[v]
  /\ \A u \in Node : j <= pos[u] /\ pos[u] < pos[v]
                       => u \notin Preds(v, [n \in Node |-> n])
  /\ pos' = [n \in Node |-> IF n = v THEN j
                            ELSE IF j <= pos[n] /\ pos[n] < pos[v] THEN pos[n] + 1
                            ELSE pos[n]]
  /\ hoists' = hoists + 1
  /\ UNCHANGED <<phase, graph, outs, size>>
==============================================================================
