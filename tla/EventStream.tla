----------------------------- MODULE EventStream -----------------------------
(***************************************************************************)
(* The body of the generated inference_run(): which Starts and which waits    *)
(* _compute_event_stream() (src/codegen/_core.py) writes for a graph, and     *)
(* the run of that body, one kernel call per lane in flight beside the CPU.   *)
(*                                                                         *)
(* An entry of the stream is a node's Start or call with the waits written    *)
(* before it; the last entry has the drains and no node.                     *)
(***************************************************************************)
EXTENDS ModelGraph

VARIABLES
  pending,  \* of the emission: the node last started on each lane and not waited for, or 0
  stream,   \* the events
  pc,       \* of the run: the entry the CPU is at
  inline,   \* the node the CPU itself is busy with, or 0
  running,  \* the nodes that have begun and not finished
  done      \* those that have finished

emitVars == <<pending, stream>>
runVars  == <<pc, inline, running, done>>
streamVars == <<phase, graphVars, emitVars, runVars>>

------------------------------------------------------------------------------
(* Emission.                                                               *)

\* (mutant) the node's own lane is taken to be free.
WaitProducers(n) == {l \in Lanes : pending[l] # 0 /\ pending[l] \in EffectivePreds(n)}

\* The lanes waited for before n: those of nodes it depends on, and its own.
WaitLanes(n) ==
  {l \in Lanes : pending[l] # 0 /\ (pending[l] \in EffectivePreds(n) \/ l = graph[n].lane)}

Emit(n) ==
  /\ phase \in {"order", "emit"} /\ pos[n] = Len(stream) + 1
  /\ LET waits == IF IsAlias(n) THEN {} ELSE WaitLanes(n) IN
       /\ stream' = Append(stream, [node |-> n, drained |-> {pending[l] : l \in waits}])
       /\ pending' = [l \in Lanes |-> IF graph[n].op = "kernel" /\ l = graph[n].lane THEN n
                                      ELSE IF l \in waits THEN 0 ELSE pending[l]]
  /\ phase' = "emit"
  /\ UNCHANGED <<graphVars, runVars>>

\* (mutant) only the last call is waited for.
DrainLast ==
  /\ phase = "emit" /\ Len(stream) = Len(graph)
  /\ stream' = Append(stream, [node |-> 0, drained |-> {pending[l] : l \in Lanes} \cap {Len(graph)}])
  /\ phase' = "run"
  /\ UNCHANGED <<graphVars, pending, runVars>>

Drain ==
  /\ phase = "emit" /\ Len(stream) = Len(graph)
  /\ stream' = Append(stream, [node |-> 0, drained |-> {pending[l] : l \in Lanes} \ {0}])
  /\ phase' = "run"
  /\ UNCHANGED <<graphVars, pending, runVars>>

------------------------------------------------------------------------------
(* The run.                                                                *)

\* kernel_wait() returns when the lane is idle.
Waited(e) == \A p \in e.drained : \A j \in running : graph[j].lane # graph[p].lane

\* The CPU is at the entry of n, and the waits before it have returned.
At(n) == /\ phase = "run" /\ inline = 0 /\ pc <= Len(stream)
         /\ stream[pc].node = n /\ Waited(stream[pc])

Skip(n) == At(n) /\ IsAlias(n) /\ pc' = pc + 1 /\ UNCHANGED <<phase, inline, running, done>>

Start(n) ==
  /\ At(n) /\ graph[n].op = "kernel"
  /\ running' = running \cup {n} /\ pc' = pc + 1
  /\ UNCHANGED <<phase, inline, done>>

\* A host op, or a helper that waits for its own lane: the CPU goes on when it is done.
Call(n) ==
  /\ At(n) /\ graph[n].op \in {"cpu", "sync"}
  /\ running' = running \cup {n} /\ inline' = n /\ pc' = pc + 1
  /\ UNCHANGED <<phase, done>>

Finish(n) ==
  /\ n \in running
  /\ running' = running \ {n} /\ done' = done \cup {n}
  /\ inline' = IF inline = n THEN 0 ELSE inline
  /\ UNCHANGED <<phase, pc>>

Return ==
  /\ At(0) /\ phase' = "returned"
  /\ UNCHANGED runVars

\* The caller's next inference_run(): the same body from its first entry.
Again == /\ phase = "returned" /\ phase' = "run"
         /\ pc' = 1 /\ done' = {}
         /\ UNCHANGED <<inline, running>>

RunStep(n) == (Skip(n) \/ Start(n) \/ Call(n) \/ Finish(n)) /\ UNCHANGED <<graphVars, emitVars>>

------------------------------------------------------------------------------
Compile ==
  \/ (AddNode \/ CloseGraph \/ \E v \in Node, j \in Node : Hoist(v, j)) /\ UNCHANGED <<emitVars, runVars>>
  \/ \E n \in Node : Emit(n)
  \/ Drain

StreamInit ==
  /\ phase = "build" /\ graph = <<>> /\ outs = {} /\ pos = <<>>
  /\ hoists = 0 /\ size \in Sizes
  /\ pending = [l \in Lanes |-> 0] /\ stream = <<>>
  /\ pc = 1 /\ inline = 0 /\ running = {} /\ done = {}

StreamNext ==
  \/ Compile
  \/ \E n \in Node : RunStep(n)
  \/ (Return \/ Again) /\ UNCHANGED <<graphVars, emitVars>>
  \/ phase = "build" /\ UNCHANGED streamVars

StreamSpec == StreamInit /\ [][StreamNext]_streamVars

------------------------------------------------------------------------------
NodeRecord == [op : Ops, lane : Lanes \cup {NoLane},
       ins : SUBSET Node, state : {"none", "read", "write"}, by : SUBSET Node, root : Node,
       path : SUBSET Node]

StreamTypeOK ==
  /\ phase \in {"build", "order", "emit", "run", "returned"}
  /\ graph \in Seq(NodeRecord) /\ outs \subseteq Node /\ hoists \in Nat /\ size \in Sizes
  /\ pos \in [Node -> Node] \/ (phase = "build" /\ pos = <<>>)
  /\ pending \in [Lanes -> Node \cup {0}]
  /\ stream \in Seq([node : Node \cup {0}, drained : SUBSET Node])
  /\ pc \in Nat \ {0} /\ inline \in Node \cup {0}
  /\ running \subseteq Node /\ done \subseteq Node

\* No kernel is started while a call is in flight on its lane: the waits of the body are
\* enough for every graph, order and speed of the kernels (_compute_event_stream, step 2).
OneCallPerLane ==
  \A i, j \in running : i # j /\ OnLane(i) => graph[i].lane # graph[j].lane

\* A node that has begun had all its inputs finished, through any chain of reshapes, views
\* and in-place merges (effective_preds and the waits of step 1).
ProducersDone ==
  \A n \in running \cup done : \A t \in graph[n].ins : graph[t].by \subseteq done

\* Accesses of a persistent state that conflict happen in the order of the model file,
\* whatever the order search moved (_add_state_edges, search_order).
StateInOrder ==
  \A u, v \in Node : u < v /\ Conflict(u, v) /\ v \in running \cup done => u \in done

\* When inference_run() returns nothing of it is in flight: the caller may reuse every
\* buffer, and the next call starts on idle lanes.
ReturnsDrained == phase = "returned" => done = {n \in Node : ~IsAlias(n)}
==============================================================================
