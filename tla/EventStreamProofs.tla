-------------------------- MODULE EventStreamProofs --------------------------
(***************************************************************************)
(* Proofs about EventStream and PoolLayout: the body of inference_run() is   *)
(* safe for every graph, every order the search may choose and every number  *)
(* of lanes, and where its outputs are only the reshapes OnlyChainAliases     *)
(* allows, so is the way its tensors share memory.                           *)
(***************************************************************************)
EXTENDS PoolLayout, SequenceTheorems, FiniteSetTheorems, WellFoundedInduction, TLAPS

-----------------------------------------------------------------------------
(* The invariant.  What has been built is a graph whose edges go forward ...  *)

Recs == [op : Ops, lane : Lanes \cup {NoLane}, ins : SUBSET Nat, state : {"none", "read", "write"},
         by : SUBSET Nat, root : Nat, path : SUBSET Nat]

WorksAt(g, n) == g[n].op \in {"kernel", "sync", "cpu"}

GraphOK(g) ==
  /\ g \in Seq(Recs)
  /\ \A n \in 1 .. Len(g) :
       /\ g[n].ins \subseteq 1 .. n - 1
       /\ g[n].op \in {"kernel", "sync"} => g[n].lane \in Lanes
       /\ g[n].op = "cpu" => g[n].lane = NoLane
       /\ WorksAt(g, n) => g[n].by = {n}
       /\ ~WorksAt(g, n) => g[n].state = "none" /\ g[n].by \subseteq 1 .. n - 1
       /\ \A b \in g[n].by : WorksAt(g, b)

\* ... listed in an order that keeps them, and the order of the state accesses.
OrderOK(g, p) ==
  /\ p \in [1 .. Len(g) -> 1 .. Len(g)]
  /\ \A i, j \in 1 .. Len(g) : p[i] = p[j] => i = j
  /\ \A n \in 1 .. Len(g) : /\ \A t \in g[n].ins : p[t] < p[n]
                            /\ \A b \in g[n].by : p[b] <= p[n]
  /\ \A u, v \in Node : u < v /\ Conflict(u, v) => p[u] < p[v]

Kernels == {n \in Node : graph[n].op = "kernel"}
Drained(s, p, k) == \E i \in 1 .. k : p \in s[i].drained
Needs(n, p) == p \in EffectivePreds(n) \/ (OnLane(n) /\ graph[p].lane = graph[n].lane)

\* The stream written so far has the nodes in this order, and a kernel's wait behind its
\* Start and no later than the next call that needs it or its lane.
Written ==
  /\ stream \in Seq([node : Nat, drained : SUBSET Nat]) /\ Len(stream) <= Len(graph) + 1
  /\ \A k \in 1 .. Len(stream) :
       IF k <= Len(graph) THEN stream[k].node \in Node /\ pos[stream[k].node] = k
                          ELSE stream[k].node = 0
Waits ==
  /\ \A k \in 1 .. Len(stream) : \A p \in stream[k].drained : p \in Kernels /\ pos[p] < k
  /\ \A n \in Workers, p \in Kernels :
       pos[n] <= Len(stream) /\ pos[p] < pos[n] /\ Needs(n, p) => Drained(stream, p, pos[n])
Pending ==
  /\ pending \in [Lanes -> Nat]
  /\ \A l \in Lanes : pending[l] # 0 =>
       pending[l] \in Kernels /\ graph[pending[l]].lane = l /\ pos[pending[l]] <= Len(stream)
  /\ \A p \in Kernels :
       pos[p] <= Len(stream) => pending[graph[p].lane] = p \/ Drained(stream, p, Len(stream))
AllDrained == Len(stream) = Len(graph) + 1 /\ \A p \in Kernels : Drained(stream, p, Len(stream))

\* The run has begun what is before pc, and what was waited for before pc has finished.
Running ==
  /\ pc \in Nat \ {0}
  /\ running \cap done = {}
  /\ running \cup done = {n \in Workers : pos[n] < pc}
  /\ \A k \in 1 .. Len(stream) : k < pc => stream[k].drained \subseteq done
  /\ inline # 0 => inline \in running
  /\ \A n \in running : graph[n].op # "kernel" => n = inline
  /\ OneCallPerLane /\ ProducersDone
  /\ \A u, v \in Node : Conflict(u, v) /\ pos[u] < pos[v] /\ v \in running \cup done => u \in done

NotRun == pc = 1 /\ running = {} /\ done = {} /\ inline = 0

StreamInv ==
  /\ GraphOK(graph)
  /\ phase \in {"build", "order", "emit", "run", "returned"}
  /\ phase # "build" => OrderOK(graph, pos) /\ Written /\ Waits
  /\ phase \in {"build", "order"} => stream = <<>> /\ pending = [l \in Lanes |-> 0]
  /\ phase \in {"order", "emit"} => Pending /\ Len(stream) <= Len(graph)
  /\ phase \in {"build", "order", "emit"} => NotRun
  /\ phase \in {"run", "returned"} => AllDrained /\ Running
  /\ phase = "returned" => pc = Len(stream) /\ running = {}

-----------------------------------------------------------------------------
(* The last of some numbers.                                                 *)

LEMMA LastNumber ==
  ASSUME NEW m \in Nat, NEW T \in SUBSET (0 .. m), T # {}
  PROVE  \E x \in T : \A y \in T : y <= x
<1> DEFINE D == {m - x : x \in T}
           R == OpToRel(<, Nat)
<1>1. D \subseteq Nat /\ D # {}
  <2>1. \A x \in T : m - x \in Nat
    OBVIOUS
  <2>2. PICK x \in T : TRUE
    OBVIOUS
  <2>3. m - x \in D
    OBVIOUS
  <2> QED
    BY <2>1, <2>3
<1>2. PICK d \in D : \A e \in D : ~(<<e, d>> \in R)
  BY <1>1, WFMin, NatLessThanWellFounded
<1>3. \A e \in D : ~(e < d)
  BY <1>1, <1>2 DEF OpToRel
<1>4. PICK x \in T : d = m - x
  BY <1>2
<1>5. ASSUME NEW y \in T PROVE y <= x
  <2>1. m - y \in D
    OBVIOUS
  <2>2. ~(m - y < m - x)
    BY <1>3, <1>4, <2>1
  <2> QED
    BY <2>2
<1> QED
  BY <1>5

-----------------------------------------------------------------------------
(* The graph.                                                                *)

LEMMA Nodes ==
  ASSUME GraphOK(graph)
  PROVE  /\ Len(graph) \in Nat /\ Node = 1 .. Len(graph)
         /\ \A n \in Node : /\ graph[n] \in Recs /\ (IsAlias(n) <=> ~WorksAt(graph, n))
                            /\ n \in Nat /\ n # 0
<1>1. graph \in Seq(Recs)
  BY DEF GraphOK
<1>2. Len(graph) \in Nat /\ \A n \in 1 .. Len(graph) : graph[n] \in Recs
  BY <1>1, LenProperties, ElementOfSeq
<1> QED
  BY <1>2 DEF Node, Recs, Ops, IsAlias, IsView, WorksAt

\* One node more.
LEMMA Grown ==
  ASSUME GraphOK(graph), NEW r \in Recs,
         r.ins \subseteq Node,
         r.op \in {"kernel", "sync"} => r.lane \in Lanes,
         r.op = "cpu" => r.lane = NoLane,
         r.op \in {"kernel", "sync", "cpu"} => r.by = {Len(graph) + 1},
         r.op \notin {"kernel", "sync", "cpu"} =>
           /\ r.state = "none" /\ r.by \subseteq Node
           /\ \A b \in r.by : WorksAt(graph, b)
  PROVE  GraphOK(Append(graph, r))
<1> DEFINE g == Append(graph, r)
           m == Len(graph) + 1
<1>1. graph \in Seq(Recs) /\ Len(graph) \in Nat /\ Node = 1 .. Len(graph)
  BY Nodes DEF GraphOK
<1>2. g \in Seq(Recs) /\ Len(g) = m /\ g[m] = r /\ \A n \in 1 .. Len(graph) : g[n] = graph[n]
  BY <1>1, AppendProperties
<1> HIDE DEF g
<1>3. \A n \in 1 .. Len(graph) : WorksAt(g, n) <=> WorksAt(graph, n)
  BY <1>2 DEF WorksAt
<1>4. ASSUME NEW n \in 1 .. Len(graph)
      PROVE  /\ g[n].ins \subseteq 1 .. n - 1
             /\ g[n].op \in {"kernel", "sync"} => g[n].lane \in Lanes
             /\ g[n].op = "cpu" => g[n].lane = NoLane
             /\ WorksAt(g, n) => g[n].by = {n}
             /\ ~WorksAt(g, n) => g[n].state = "none" /\ g[n].by \subseteq 1 .. n - 1
             /\ \A b \in g[n].by : WorksAt(g, b)
  <2>1. \A b \in graph[n].by : b \in 1 .. Len(graph)
    BY <1>1 DEF GraphOK
  <2> QED
    BY <1>2, <1>3, <2>1 DEF GraphOK
<1>5. /\ g[m].ins \subseteq 1 .. m - 1
      /\ g[m].op \in {"kernel", "sync"} => g[m].lane \in Lanes
      /\ g[m].op = "cpu" => g[m].lane = NoLane
      /\ WorksAt(g, m) => g[m].by = {m}
      /\ ~WorksAt(g, m) => g[m].state = "none" /\ g[m].by \subseteq 1 .. m - 1
      /\ \A b \in g[m].by : WorksAt(g, b)
  BY <1>1, <1>2, <1>3 DEF WorksAt
<1>6. \A n \in 1 .. m : n = m \/ n \in 1 .. Len(graph)
  BY <1>1
<1> QED
  BY <1>2, <1>4, <1>5, <1>6 DEF GraphOK, g

LEMMA NodeAdded == ASSUME GraphOK(graph), AddNode PROVE GraphOK(graph')
<1>1. \A t \in Node : /\ graph[t] \in Recs /\ t \in Nat
                      /\ graph[t].by \subseteq Node
                      /\ \A b \in graph[t].by : WorksAt(graph, b)
  BY Nodes DEF GraphOK
<1>2. Len(graph) + 1 \in Nat /\ Node \subseteq Nat
  BY Nodes
<1>3. CASE AddWorker
  <2>1. PICK op \in {"kernel", "sync", "cpu"}, lane \in Lanes \cup {NoLane},
             ins \in SUBSET (Node \ Pieces), st \in {"none", "read", "write"} :
               (op = "cpu") = (lane = NoLane) /\ graph' = Append(graph, Worker(op, lane, ins, st))
    BY <1>3 DEF AddWorker
  <2>2. Worker(op, lane, ins, st) \in Recs
    BY <1>2 DEF Worker, Recs, Ops
  <2>3. /\ Worker(op, lane, ins, st).ins = ins /\ Worker(op, lane, ins, st).op = op
        /\ Worker(op, lane, ins, st).lane = lane
        /\ Worker(op, lane, ins, st).by = {Len(graph) + 1}
    BY DEF Worker
  <2> QED
    BY <2>1, <2>2, <2>3, Grown
<1>4. CASE AddReshape
  <2>1. PICK src \in Node : graph' =
          Append(graph, [op |-> "reshape", lane |-> NoLane, ins |-> {src}, state |-> "none",
                         by |-> graph[src].by, root |-> graph[src].root,
                         path |-> graph[src].path \cup {src}])
    BY <1>4 DEF AddReshape
  <2> DEFINE r == [op |-> "reshape", lane |-> NoLane, ins |-> {src}, state |-> "none",
                   by |-> graph[src].by, root |-> graph[src].root,
                   path |-> graph[src].path \cup {src}]
  <2>2. r \in Recs
    BY <1>1 DEF Recs, Ops
  <2> QED
    BY <1>1, <2>1, <2>2, Grown
<1>5. CASE AddSliceView
  <2>1. PICK src \in Node : graph' =
          Append(graph, [op |-> "view", lane |-> NoLane, ins |-> {src}, state |-> "none",
                         by |-> graph[src].by, root |-> graph[src].root, path |-> {}])
    BY <1>5 DEF AddSliceView
  <2> DEFINE r == [op |-> "view", lane |-> NoLane, ins |-> {src}, state |-> "none",
                   by |-> graph[src].by, root |-> graph[src].root, path |-> {}]
  <2>2. r \in Recs
    BY <1>1 DEF Recs, Ops
  <2> QED
    BY <1>1, <2>1, <2>2, Grown
<1>6. CASE AddMerge
  <2>1. PICK ins \in SUBSET Node :
          /\ \A t \in ins : OnLane(t)
          /\ graph' = Append(graph, [op |-> "merge", lane |-> NoLane, ins |-> ins, state |-> "none",
                                     by |-> ins, root |-> Len(graph) + 1, path |-> {}])
    BY <1>6 DEF AddMerge
  <2> DEFINE r == [op |-> "merge", lane |-> NoLane, ins |-> ins, state |-> "none",
                   by |-> ins, root |-> Len(graph) + 1, path |-> {}]
  <2>2. r \in Recs
    BY <1>2 DEF Recs, Ops
  <2>3. \A t \in ins : WorksAt(graph, t)
    BY <2>1 DEF OnLane, WorksAt
  <2> QED
    BY <2>1, <2>2, <2>3, Grown
<1> QED
  BY <1>3, <1>4, <1>5, <1>6 DEF AddNode

-----------------------------------------------------------------------------
(* The order.                                                                *)

\* Between conflicting accesses the last write before the later one is a predecessor.
LEMMA NearestWrite ==
  ASSUME NEW place \in [Node -> Nat], NEW u \in Node, NEW v \in Node,
         place[u] < place[v], Conflict(u, v)
  PROVE  \/ StateEdge(u, v, place)
         \/ \E w \in Node : StateEdge(w, v, place) /\ Conflict(u, w) /\ place[u] < place[w]
<1> DEFINE W == {w \in Node : graph[w].state = "write" /\ place[u] < place[w] /\ place[w] < place[v]}
<1>1. CASE W = {}
  BY <1>1 DEF StateEdge
<1>2. CASE W # {}
  <2> DEFINE T == {place[w] : w \in W}
  <2>1. T \in SUBSET (0 .. place[v]) /\ T # {} /\ place[v] \in Nat
    <3>1. \A w \in W : place[w] \in 0 .. place[v]
      OBVIOUS
    <3> QED
      BY <1>2, <3>1
  <2>2. PICK x \in T : \A y \in T : y <= x
    BY <2>1, LastNumber
  <2>3. PICK w \in W : x = place[w]
    OBVIOUS
  <2>4. ASSUME NEW z \in Node, graph[z].state = "write", place[w] < place[z], place[z] < place[v]
        PROVE  FALSE
    <3>1. place[z] \in T
      BY <2>4
    <3> QED
      BY <2>2, <2>3, <2>4, <3>1
  <2>5. StateEdge(w, v, place) /\ Conflict(u, w)
    BY <2>4 DEF StateEdge, Conflict
  <2> QED
    BY <2>5
<1> QED
  BY <1>1, <1>2

LEMMA Closed ==
  ASSUME GraphOK(graph), CloseGraph
  PROVE  OrderOK(graph, pos)'
<1>1. graph' = graph /\ pos' = [n \in Node |-> n]
  BY DEF CloseGraph
<1>2. Node = 1 .. Len(graph) /\ Len(graph) \in Nat
  BY Nodes
<1>3. \A n \in Node : graph[n].ins \subseteq 1 .. n - 1 /\ graph[n].by \subseteq 1 .. n
  BY <1>2 DEF GraphOK
<1>4. OrderOK(graph, pos')
  BY <1>1, <1>2, <1>3 DEF OrderOK
<1> QED
  BY <1>1, <1>4 DEF OrderOK, Node, Conflict

\* A move keeps the order of what is not moved, and moves nothing past what it needs.
LEMMA Hoisted ==
  ASSUME GraphOK(graph), OrderOK(graph, pos), NEW v \in Node, NEW j \in Node, Hoist(v, j)
  PROVE  OrderOK(graph, pos)'
<1> DEFINE I == [n \in Node |-> n]
<1>1. /\ graph' = graph /\ OnLane(v) /\ j < pos[v]
      /\ \A u \in Node : j <= pos[u] /\ pos[u] < pos[v] => u \notin Preds(v, I)
      /\ pos' = [n \in Node |-> IF n = v THEN j
                                ELSE IF j <= pos[n] /\ pos[n] < pos[v] THEN pos[n] + 1
                                ELSE pos[n]]
  BY DEF Hoist
<1>2. /\ Node = 1 .. Len(graph) /\ Len(graph) \in Nat
      /\ \A n \in Node : graph[n].ins \subseteq Node /\ graph[n].by \subseteq Node
      /\ graph[v].by = {v}
  <2>1. Node = 1 .. Len(graph) /\ Len(graph) \in Nat
    BY Nodes
  <2>2. WorksAt(graph, v)
    BY <1>1 DEF OnLane, WorksAt
  <2>3. \A n \in Node : graph[n].ins \subseteq Node /\ graph[n].by \subseteq Node
    BY <2>1 DEF GraphOK
  <2> QED
    BY <2>1, <2>2, <2>3 DEF GraphOK
<1>3. pos \in [Node -> Node] /\ \A a, b \in Node : pos[a] = pos[b] => a = b
  BY <1>2 DEF OrderOK
<1>4. pos' \in [Node -> Node]
  <2>1. \A n \in Node : pos[n] \in 1 .. Len(graph) /\ (pos[n] < pos[v] => pos[n] + 1 \in Node)
    BY <1>2, <1>3
  <2> QED
    BY <1>1, <1>3, <2>1
<1>5. \A n \in Node : pos[n] \in Nat /\ pos'[n] \in Nat
  BY <1>2, <1>3, <1>4
<1>6. pos'[v] = j
  BY <1>1
<1>7. \A n \in Node : n # v =>
        pos'[n] = IF j <= pos[n] /\ pos[n] < pos[v] THEN pos[n] + 1 ELSE pos[n]
  BY <1>1
<1>8. \A n \in Node : n # v => pos[n] # pos[v]
  BY <1>3
<1>9. j \in Nat
  BY <1>2
<1>10. \A a, b \in Node : a # v /\ b # v /\ pos[a] < pos[b] => pos'[a] < pos'[b]
  BY <1>5, <1>7, <1>8, <1>9
<1>11. \A b \in Node : pos[v] < pos[b] => pos'[v] < pos'[b]
  BY <1>1, <1>5, <1>6, <1>7, <1>9
<1>12. \A a \in Node : pos[a] < j => pos'[a] < pos'[v]
  BY <1>1, <1>5, <1>6, <1>7, <1>9
<1>13. \A a \in Node : a \in Preds(v, I) /\ pos[a] < pos[v] => pos[a] < j
  BY <1>1, <1>5, <1>9
<1>14. \A a, b \in Node : pos'[a] = pos'[b] => a = b
  <2>1. SUFFICES ASSUME NEW a \in Node, NEW b \in Node, pos[a] < pos[b] PROVE pos'[a] # pos'[b]
    BY <1>3, <1>5
  <2>2. CASE a # v /\ b # v
    BY <1>5, <1>10, <2>1, <2>2
  <2>3. CASE a = v
    BY <1>5, <1>11, <2>1, <2>3
  <2>4. CASE b = v
    BY <1>5, <1>6, <1>7, <1>8, <1>9, <2>1, <2>4
  <2> QED
    BY <2>2, <2>3, <2>4
<1>15. ASSUME NEW n \in Node, NEW t \in graph[n].ins PROVE pos'[t] < pos'[n]
  <2>1. t \in Node /\ pos[t] < pos[n]
    BY <1>2 DEF OrderOK
  <2>2. CASE n = v
    <3>1. t \in Preds(v, I)
      BY <1>15, <2>2 DEF Preds
    <3> QED
      BY <1>12, <1>13, <2>1, <2>2, <3>1
  <2>3. CASE n # v
    BY <1>10, <1>11, <2>1, <2>3
  <2> QED
    BY <2>2, <2>3
<1>16. ASSUME NEW n \in Node, NEW b \in graph[n].by PROVE pos'[b] <= pos'[n]
  <2>1. b \in Node /\ pos[b] <= pos[n]
    BY <1>2 DEF OrderOK
  <2>2. CASE b = n
    BY <1>5, <2>2
  <2>3. CASE b # n
    <3>1. n # v /\ pos[b] < pos[n]
      BY <1>2, <1>3, <1>5, <1>16, <2>1, <2>3
    <3> QED
      BY <1>5, <1>10, <1>11, <2>1, <3>1
  <2> QED
    BY <2>2, <2>3
<1>17. ASSUME NEW a \in Node, NEW b \in Node, a < b, Conflict(a, b) PROVE pos'[a] < pos'[b]
  <2>1. pos[a] < pos[b]
    BY <1>17 DEF OrderOK
  <2>2. CASE b = v
    <3>1. I \in [Node -> Nat] /\ I[a] < I[v] /\ Conflict(a, v)
      BY <1>2, <1>17, <2>2
    <3>2. CASE StateEdge(a, v, I)
      BY <1>12, <1>13, <2>1, <2>2, <3>2 DEF Preds
    <3>3. CASE \E w \in Node : StateEdge(w, v, I) /\ Conflict(a, w) /\ I[a] < I[w]
      <4>1. PICK w \in Node : StateEdge(w, v, I) /\ Conflict(a, w) /\ I[a] < I[w]
        BY <3>3
      <4>2. Conflict(w, v) /\ w < v /\ a < w
        BY <4>1 DEF StateEdge
      <4>3. pos[a] < pos[w] /\ pos[w] < pos[v]
        BY <4>1, <4>2 DEF OrderOK
      <4>4. pos[w] < j
        BY <1>13, <4>1, <4>3 DEF Preds
      <4>5. pos[a] < j
        BY <1>5, <1>9, <4>3, <4>4
      <4> QED
        BY <1>12, <2>2, <4>5
    <3> QED
      BY <3>1, <3>2, <3>3, NearestWrite
  <2>3. CASE b # v
    BY <1>10, <1>11, <2>1, <2>3
  <2> QED
    BY <2>2, <2>3
<1>18. OrderOK(graph, pos')
  BY <1>2, <1>4, <1>14, <1>15, <1>16, <1>17 DEF OrderOK
<1> QED
  BY <1>1, <1>18 DEF OrderOK, Node, Conflict

-----------------------------------------------------------------------------
(* The emission.                                                             *)

LEMMA SameGraph ==
  ASSUME UNCHANGED <<graph, pos>>
  PROVE  /\ Node' = Node /\ Workers' = Workers /\ Kernels' = Kernels
         /\ \A n, p : Needs(n, p)' <=> Needs(n, p)
         /\ \A n, p : Conflict(n, p)' <=> Conflict(n, p)
         /\ OrderOK(graph, pos)' <=> OrderOK(graph, pos)
<1>1. Node' = Node /\ Workers' = Workers /\ Kernels' = Kernels
  BY DEF Node, Workers, Kernels, IsAlias, IsView
<1>2. \A n, p : Conflict(n, p)' <=> Conflict(n, p)
  BY DEF Conflict
<1>3. \A n : EffectivePreds(n)' = EffectivePreds(n)
  BY DEF EffectivePreds, Preds, StateEdge, Conflict, Node
<1>4. \A n, p : Needs(n, p)' <=> Needs(n, p)
  BY <1>3 DEF Needs, OnLane
<1>5. OrderOK(graph, pos)' <=> OrderOK(graph, pos)
  BY DEF OrderOK, Conflict, Node
<1> QED
  BY <1>1, <1>2, <1>4, <1>5

\* Before the first entry.
LEMMA NothingWritten ==
  ASSUME GraphOK(graph)', OrderOK(graph, pos)', stream' = <<>>, pending' = [l \in Lanes |-> 0]
  PROVE  Written' /\ Waits' /\ Pending' /\ Len(stream') <= Len(graph')
<1>1. graph' \in Seq(Recs)
  BY DEF GraphOK
<1>2. Len(graph') \in Nat /\ Node' = 1 .. Len(graph')
  BY <1>1, LenProperties DEF Node
<1>3. Len(stream') = 0 /\ stream' \in Seq([node : Nat, drained : SUBSET Nat])
  BY EmptySeq
<1>4. \A n \in Node' : pos'[n] \in Nat /\ ~(pos'[n] <= 0)
  BY <1>2 DEF OrderOK
<1>5. Written'
  BY <1>2, <1>3 DEF Written
<1>6. Waits'
  BY <1>3, <1>4 DEF Waits, Workers
<1>7. Pending'
  BY <1>3, <1>4 DEF Pending, Kernels
<1> QED
  BY <1>2, <1>3, <1>5, <1>6, <1>7

\* What the order search left has these positions.
LEMMA Placed ==
  ASSUME GraphOK(graph), OrderOK(graph, pos)
  PROVE  /\ Len(graph) \in Nat /\ Node = 1 .. Len(graph)
         /\ \A n \in Node : n \in Nat /\ n # 0 /\ pos[n] \in Nat /\ 1 <= pos[n] /\ pos[n] <= Len(graph)
         /\ \A a, b \in Node : pos[a] = pos[b] => a = b
<1>1. Len(graph) \in Nat /\ Node = 1 .. Len(graph)
  BY Nodes
<1> QED
  BY <1>1 DEF OrderOK

\* One entry more.
LEMMA OneEntryMore ==
  ASSUME Written, NEW e \in [node : Nat, drained : SUBSET Nat], stream' = Append(stream, e)
  PROVE  /\ Len(stream) \in Nat /\ Len(stream') = Len(stream) + 1
         /\ stream' \in Seq([node : Nat, drained : SUBSET Nat])
         /\ stream'[Len(stream) + 1] = e
         /\ \A i \in 1 .. Len(stream) : stream'[i] = stream[i]
         /\ \A p, k : k \in 1 .. Len(stream) => (Drained(stream', p, k) <=> Drained(stream, p, k))
         /\ \A p : Drained(stream', p, Len(stream) + 1)
                     <=> p \in e.drained \/ Drained(stream, p, Len(stream))
<1>1. stream \in Seq([node : Nat, drained : SUBSET Nat]) /\ Len(stream) \in Nat
  BY LenProperties DEF Written
<1>2. /\ Len(stream') = Len(stream) + 1
      /\ stream' \in Seq([node : Nat, drained : SUBSET Nat])
      /\ stream'[Len(stream) + 1] = e
      /\ \A i \in 1 .. Len(stream) : stream'[i] = stream[i]
  BY <1>1, AppendProperties
<1>3. \A i \in 1 .. Len(stream) + 1 : i = Len(stream) + 1 \/ i \in 1 .. Len(stream)
  BY <1>1
<1>4. /\ Len(stream) + 1 \in 1 .. Len(stream) + 1
      /\ \A i \in 1 .. Len(stream) : i \in 1 .. Len(stream) + 1
  BY <1>1
<1> QED
  BY <1>1, <1>2, <1>3, <1>4 DEF Drained

\* A node is emitted.
LEMMA Emitted ==
  ASSUME GraphOK(graph), OrderOK(graph, pos), Written, Waits, Pending, NEW n \in Node, Emit(n)
  PROVE  Written' /\ Waits' /\ Pending' /\ Len(stream') <= Len(graph')
<1> DEFINE L == Len(stream)
           waits == IF IsAlias(n) THEN {} ELSE WaitLanes(n)
           e == [node |-> n, drained |-> {pending[l] : l \in waits}]
<1>1. /\ pos[n] = L + 1 /\ stream' = Append(stream, e)
      /\ pending' = [l \in Lanes |-> IF graph[n].op = "kernel" /\ l = graph[n].lane THEN n
                                     ELSE IF l \in waits THEN 0 ELSE pending[l]]
      /\ UNCHANGED <<graph, pos>>
  BY DEF Emit, graphVars
<1>2. /\ Len(graph) \in Nat /\ Node = 1 .. Len(graph)
      /\ \A m \in Node : m \in Nat /\ m # 0 /\ pos[m] \in Nat /\ 1 <= pos[m] /\ pos[m] <= Len(graph)
      /\ \A a, b \in Node : pos[a] = pos[b] => a = b
  BY Placed
<1>3. \A l \in waits : l \in Lanes /\ pending[l] # 0
  BY DEF WaitLanes
<1>4. \A p \in e.drained : p \in Kernels /\ pos[p] <= L /\ p \in Nat
  BY <1>2, <1>3 DEF Pending, Kernels
<1>5. e \in [node : Nat, drained : SUBSET Nat] /\ e.node = n
  BY <1>2, <1>4
<1>6. /\ L \in Nat /\ Len(stream') = L + 1
      /\ stream' \in Seq([node : Nat, drained : SUBSET Nat])
      /\ stream'[L + 1] = e
      /\ \A i \in 1 .. L : stream'[i] = stream[i]
      /\ \A p, k : k \in 1 .. L => (Drained(stream', p, k) <=> Drained(stream, p, k))
      /\ \A p : Drained(stream', p, L + 1) <=> p \in e.drained \/ Drained(stream, p, L)
  BY <1>1, <1>5, OneEntryMore
<1>7. /\ Node' = Node /\ Workers' = Workers /\ Kernels' = Kernels
      /\ \A m, p : Needs(m, p)' <=> Needs(m, p)
  BY <1>1, SameGraph
<1>8. \A i \in 1 .. L + 1 : i = L + 1 \/ i \in 1 .. L
  BY <1>6
<1>9. L + 1 <= Len(graph)
  BY <1>1, <1>2
<1> HIDE DEF e, waits
<1>10. Written'
  <2>1. \A k \in 1 .. L + 1 : stream'[k].node \in Node /\ pos[stream'[k].node] = k
    BY <1>1, <1>2, <1>5, <1>6, <1>8, <1>9 DEF Written
  <2>2. \A k \in 1 .. L + 1 : k <= Len(graph)
    BY <1>2, <1>6, <1>9
  <2> QED
    BY <1>1, <1>2, <1>6, <1>7, <1>9, <2>1, <2>2 DEF Written
<1>11. Waits'
  <2>1. \A k \in 1 .. L + 1 : \A p \in stream'[k].drained : p \in Kernels /\ pos[p] < k
    <3>1. \A p \in Kernels : pos[p] \in Nat
      BY <1>2 DEF Kernels
    <3> QED
      BY <1>4, <1>6, <1>8, <3>1 DEF Waits
  <2>2. ASSUME NEW m \in Workers, NEW p \in Kernels, pos[m] <= L + 1, pos[p] < pos[m], Needs(m, p)
        PROVE  Drained(stream', p, pos[m])
    <3>1. m \in Node /\ p \in Node /\ ~IsAlias(m)
      BY DEF Workers, Kernels
    <3>2. CASE pos[m] <= L
      <4>1. pos[m] \in 1 .. L /\ Drained(stream, p, pos[m])
        BY <1>2, <1>6, <2>2, <3>1, <3>2 DEF Waits
      <4> QED
        BY <1>6, <4>1
    <3>3. CASE pos[m] = L + 1
      <4>1. m = n
        BY <1>1, <1>2, <3>1, <3>3
      <4>2. pos[p] <= L
        BY <1>2, <1>6, <2>2, <3>1, <3>3
      <4>3. CASE Drained(stream, p, L)
        BY <1>6, <3>3, <4>3
      <4>4. CASE pending[graph[p].lane] = p
        <5>1. graph[p].lane \in Lanes /\ pending[graph[p].lane] # 0
          BY <1>2, <3>1, <4>4 DEF GraphOK, Kernels
        <5>2. graph[p].lane \in waits
          BY <2>2, <3>1, <4>1, <4>4, <5>1 DEF waits, WaitLanes, Needs
        <5>3. p \in e.drained
          BY <4>4, <5>2 DEF e
        <5> QED
          BY <1>6, <3>3, <5>3
      <4> QED
        BY <4>2, <4>3, <4>4 DEF Pending
    <3> QED
      BY <1>2, <1>6, <2>2, <3>1, <3>2, <3>3
  <2> QED
    BY <1>1, <1>6, <1>7, <2>1, <2>2 DEF Waits
<1>12. Pending'
  <2>1. pending' \in [Lanes -> Nat]
    BY <1>1, <1>2 DEF Pending
  <2>2. ASSUME NEW l \in Lanes, pending'[l] # 0
        PROVE  pending'[l] \in Kernels /\ graph[pending'[l]].lane = l /\ pos[pending'[l]] <= L + 1
    <3>1. CASE graph[n].op = "kernel" /\ l = graph[n].lane
      <4>1. pending'[l] = n
        BY <1>1, <3>1
      <4> QED
        BY <1>1, <1>6, <3>1, <4>1 DEF Kernels
    <3>2. CASE ~(graph[n].op = "kernel" /\ l = graph[n].lane)
      <4>1. pending'[l] = pending[l]
        BY <1>1, <2>2, <3>2
      <4>2. pending[l] \in Kernels /\ graph[pending[l]].lane = l /\ pos[pending[l]] <= L
        BY <2>2, <4>1 DEF Pending
      <4> QED
        BY <1>2, <1>6, <4>1, <4>2 DEF Kernels
    <3> QED
      BY <3>1, <3>2
  <2>3. ASSUME NEW p \in Kernels, pos[p] <= L + 1
        PROVE  pending'[graph[p].lane] = p \/ Drained(stream', p, L + 1)
    <3>1. p \in Node /\ graph[p].op = "kernel" /\ graph[p].lane \in Lanes
      BY <1>2 DEF Kernels, GraphOK
    <3>2. CASE p = n
      BY <1>1, <3>1, <3>2
    <3>3. CASE p # n
      <4>1. pos[p] <= L
        BY <1>1, <1>2, <1>6, <2>3, <3>1, <3>3
      <4>2. CASE Drained(stream, p, L)
        BY <1>6, <4>2
      <4>3. CASE pending[graph[p].lane] = p /\ graph[p].lane \in waits
        <5>1. p \in e.drained
          BY <4>3 DEF e
        <5> QED
          BY <1>6, <5>1
      <4>4. CASE pending[graph[p].lane] = p /\ graph[p].lane \notin waits
        <5>1. ~(graph[n].op = "kernel" /\ graph[p].lane = graph[n].lane)
          BY <1>2, <3>1, <4>4 DEF waits, WaitLanes, IsAlias, IsView
        <5> QED
          BY <1>1, <3>1, <4>4, <5>1
      <4> QED
        BY <4>1, <4>2, <4>3, <4>4 DEF Pending
    <3> QED
      BY <3>2, <3>3
  <2> QED
    BY <1>1, <1>6, <1>7, <2>1, <2>2, <2>3 DEF Pending
<1> QED
  BY <1>1, <1>6, <1>9, <1>10, <1>11, <1>12

\* The drains at the end.
LEMMA DrainedAll ==
  ASSUME GraphOK(graph), OrderOK(graph, pos), Written, Waits, Pending, Drain
  PROVE  Written' /\ Waits' /\ AllDrained'
<1> DEFINE L == Len(stream)
           e == [node |-> 0, drained |-> {pending[l] : l \in Lanes} \ {0}]
<1>1. L = Len(graph) /\ stream' = Append(stream, e) /\ UNCHANGED <<graph, pos>>
  BY DEF Drain, graphVars
<1>2. /\ Len(graph) \in Nat /\ Node = 1 .. Len(graph)
      /\ \A m \in Node : m \in Nat /\ m # 0 /\ pos[m] \in Nat /\ 1 <= pos[m] /\ pos[m] <= Len(graph)
  BY Placed
<1>3. \A p \in e.drained : p \in Kernels /\ pos[p] <= L /\ p \in Nat
  BY <1>2 DEF Pending, Kernels
<1>4. e \in [node : Nat, drained : SUBSET Nat] /\ e.node = 0
  BY <1>3
<1>5. /\ L \in Nat /\ Len(stream') = L + 1
      /\ stream' \in Seq([node : Nat, drained : SUBSET Nat])
      /\ stream'[L + 1] = e
      /\ \A i \in 1 .. L : stream'[i] = stream[i]
      /\ \A p, k : k \in 1 .. L => (Drained(stream', p, k) <=> Drained(stream, p, k))
      /\ \A p : Drained(stream', p, L + 1) <=> p \in e.drained \/ Drained(stream, p, L)
  BY <1>1, <1>4, OneEntryMore
<1>6. /\ Node' = Node /\ Workers' = Workers /\ Kernels' = Kernels
      /\ \A m, p : Needs(m, p)' <=> Needs(m, p)
  BY <1>1, SameGraph
<1>7. \A i \in 1 .. L + 1 : i = L + 1 \/ i \in 1 .. L
  BY <1>5
<1>8. \A p \in Kernels : p \in Node /\ graph[p].lane \in Lanes
  BY <1>2 DEF Kernels, GraphOK
<1>9. \A p \in Kernels : pending[graph[p].lane] = p => p \in e.drained
  BY <1>2, <1>8
<1> HIDE DEF e
<1>10. Written'
  <2>1. \A k \in 1 .. L : k <= Len(graph) /\ stream'[k].node \in Node /\ pos[stream'[k].node] = k
    BY <1>1, <1>2, <1>5 DEF Written
  <2>2. ~(L + 1 <= Len(graph)) /\ stream'[L + 1].node = 0
    BY <1>1, <1>2, <1>4, <1>5
  <2> QED
    BY <1>1, <1>2, <1>5, <1>6, <1>7, <2>1, <2>2 DEF Written
<1>11. Waits'
  <2>1. \A k \in 1 .. L + 1 : \A p \in stream'[k].drained : p \in Kernels /\ pos[p] < k
    <3>1. \A p \in Kernels : pos[p] \in Nat
      BY <1>2 DEF Kernels
    <3> QED
      BY <1>3, <1>5, <1>7, <3>1 DEF Waits
  <2>2. ASSUME NEW m \in Workers, NEW p \in Kernels, pos[p] < pos[m], Needs(m, p)
        PROVE  Drained(stream', p, pos[m])
    <3>1. pos[m] \in 1 .. L
      BY <1>1, <1>2 DEF Workers
    <3>2. pos[m] <= L
      BY <3>1, <1>5
    <3>3. Drained(stream, p, pos[m])
      BY <2>2, <3>2 DEF Waits
    <3> QED
      BY <1>5, <3>1, <3>3
  <2> QED
    BY <1>1, <1>5, <1>6, <2>1, <2>2 DEF Waits
<1>12. \A p \in Kernels : Drained(stream', p, L + 1)
  BY <1>1, <1>2, <1>5, <1>8, <1>9 DEF Pending
<1> QED
  BY <1>1, <1>5, <1>6, <1>10, <1>11, <1>12 DEF AllDrained

-----------------------------------------------------------------------------
(* The run.                                                                  *)

Built == GraphOK(graph) /\ OrderOK(graph, pos) /\ Written /\ Waits /\ AllDrained

\* When the waits of an entry have returned, what they name has finished, and so has what
\* the node needs: no call that is still running is one it depends on, or on its lane.
LEMMA Reached ==
  ASSUME Built, Running, NEW n \in Node \cup {0}, At(n)
  PROVE  /\ pc \in 1 .. Len(stream) /\ inline = 0
         /\ n \in Node => pos[n] = pc /\ n \notin running \cup done
         /\ n = 0 => pc = Len(stream)
         /\ \A k \in 1 .. Len(stream) : k < pc + 1 => stream[k].drained \subseteq done
         /\ \A b \in running : /\ b \in Kernels /\ pos[b] < pc
                               /\ n \in Workers => ~Needs(n, b)
                               /\ n # 0
<1>1. /\ Len(graph) \in Nat /\ Node = 1 .. Len(graph)
      /\ \A m \in Node : m \in Nat /\ m # 0 /\ pos[m] \in Nat /\ 1 <= pos[m] /\ pos[m] <= Len(graph)
  BY Placed DEF Built
<1>2. /\ pc \in 1 .. Len(stream) /\ inline = 0 /\ stream[pc].node = n /\ Waited(stream[pc])
      /\ Len(stream) = Len(graph) + 1
  BY <1>1 DEF At, Running, Built, AllDrained
<1>3. n \in Node => pos[n] = pc
  BY <1>1, <1>2 DEF Built, Written
<1>4. n = 0 => pc = Len(stream)
  <2>1. pc <= Len(graph) => stream[pc].node \in Node
    BY <1>2 DEF Built, Written
  <2> QED
    BY <1>1, <1>2, <2>1
<1>5. running \cup done = {m \in Workers : pos[m] < pc} /\ running \cap done = {}
  BY DEF Running
<1>6. n \in Node => n \notin running \cup done
  BY <1>1, <1>3, <1>5
<1>7. stream[pc].drained \subseteq done
  <2>1. SUFFICES ASSUME NEW b \in stream[pc].drained PROVE b \in done
    OBVIOUS
  <2>2. b \in Kernels /\ pos[b] < pc
    BY <1>2 DEF Built, Waits
  <2>3. b \in running \cup done
    BY <1>5, <2>2 DEF Kernels, Workers, IsAlias, IsView
  <2>4. b \notin running
    BY <1>2 DEF Waited
  <2> QED
    BY <2>3, <2>4
<1>8. \A k \in 1 .. Len(stream) : k < pc + 1 => stream[k].drained \subseteq done
  BY <1>1, <1>2, <1>7 DEF Running
<1>9. ASSUME NEW b \in running
      PROVE  b \in Kernels /\ pos[b] < pc /\ (n \in Workers => ~Needs(n, b)) /\ n # 0
  <2>1. b \in Workers /\ pos[b] < pc /\ b \notin done
    BY <1>5
  <2>2. b \in Kernels
    BY <1>1, <1>2, <2>1 DEF Running, Workers, Kernels
  <2>3. ASSUME NEW k \in 1 .. Len(stream), k <= pc PROVE ~Drained(stream, b, k)
    <3>1. \A i \in 1 .. k : i \in 1 .. Len(stream) /\ i < pc + 1
      BY <1>1, <1>2, <2>3
    <3> QED
      BY <1>8, <2>1, <3>1 DEF Drained
  <2>4. n \in Workers => ~Needs(n, b)
    <3>1. SUFFICES ASSUME n \in Workers, Needs(n, b) PROVE FALSE
      OBVIOUS
    <3>2. n \in Node /\ pos[n] = pc
      BY <1>3, <3>1 DEF Workers
    <3>3. Drained(stream, b, pc)
      BY <1>1, <1>2, <2>1, <2>2, <3>1, <3>2 DEF Built, Waits
    <3> QED
      BY <1>1, <1>2, <2>3, <3>3
  <2>5. n # 0
    <3>1. SUFFICES ASSUME n = 0 PROVE FALSE
      OBVIOUS
    <3>2. Drained(stream, b, Len(stream))
      BY <2>2 DEF Built, AllDrained
    <3> QED
      BY <1>1, <1>2, <1>4, <2>3, <3>1, <3>2
  <2> QED
    BY <2>1, <2>2, <2>4, <2>5
<1> QED
  BY <1>2, <1>3, <1>4, <1>6, <1>8, <1>9

\* What a node needs has begun before it.
LEMMA NeededBefore ==
  ASSUME Built, NEW n \in Workers, NEW b \in EffectivePreds(n)
  PROVE  b \in Workers /\ pos[b] < pos[n]
<1>1. /\ Len(graph) \in Nat /\ Node = 1 .. Len(graph)
      /\ \A m \in Node : m \in Nat /\ pos[m] \in Nat
  BY Placed DEF Built
<1>2. PICK p \in Preds(n, pos) : b \in graph[p].by
  BY DEF EffectivePreds
<1>3. n \in Node /\ GraphOK(graph) /\ OrderOK(graph, pos)
  BY DEF Workers, Built
<1>4. p \in Node /\ pos[p] < pos[n]
  <2>1. CASE p \in graph[n].ins
    BY <1>1, <1>3, <2>1 DEF GraphOK, OrderOK
  <2>2. CASE StateEdge(p, n, pos) /\ p \in Node
    BY <2>2 DEF StateEdge
  <2> QED
    BY <1>2, <2>1, <2>2 DEF Preds
<1>5. b \in Node /\ WorksAt(graph, b) /\ pos[b] <= pos[p]
  <2>1. p \in 1 .. Len(graph) /\ GraphOK(graph)
    BY <1>1, <1>3, <1>4
  <2>2. WorksAt(graph, b) /\ b \in 1 .. p
    BY <1>2, <2>1 DEF GraphOK
  <2>3. pos[b] <= pos[p]
    BY <1>2, <1>3, <2>1 DEF OrderOK
  <2> QED
    BY <1>1, <2>1, <2>2, <2>3
<1>6. b \in Workers
  BY <1>3, <1>5, Nodes DEF Workers
<1> QED
  BY <1>1, <1>3, <1>4, <1>5, <1>6

\* What a node that begins depends on has finished.
LEMMA NeededDone ==
  ASSUME Built, Running, NEW n \in Workers, At(n)
  PROVE  /\ EffectivePreds(n) \subseteq done
         /\ \A t \in graph[n].ins : graph[t].by \subseteq done
         /\ \A u \in Node : Conflict(u, n) /\ pos[u] < pos[n] => u \in done
<1>1. n \in Node
  BY DEF Workers
<1>2. pos[n] = pc /\ \A b \in running : ~Needs(n, b)
  BY <1>1, Reached
<1>3. EffectivePreds(n) \subseteq done
  <2>1. SUFFICES ASSUME NEW b \in EffectivePreds(n) PROVE b \in done
    OBVIOUS
  <2>2. b \in running \cup done
    BY <1>2, NeededBefore DEF Running
  <2> QED
    BY <1>2, <2>2 DEF Needs
<1>4. \A t \in graph[n].ins : graph[t].by \subseteq done
  BY <1>3 DEF EffectivePreds, Preds
<1>5. ASSUME NEW w \in Node, StateEdge(w, n, pos) PROVE w \in done
  <2>1. w \in Preds(n, pos) /\ graph[w].state # "none"
    BY <1>5 DEF Preds, StateEdge, Conflict
  <2>2. graph[w].by = {w}
    BY <2>1, Nodes DEF Built, GraphOK
  <2> QED
    BY <1>3, <2>1, <2>2 DEF EffectivePreds
<1>6. ASSUME NEW u \in Node, Conflict(u, n), pos[u] < pos[n] PROVE u \in done
  <2>1. pos \in [Node -> Nat]
    BY Placed DEF Built, OrderOK
  <2>2. CASE \E w \in Node : StateEdge(w, n, pos) /\ Conflict(u, w) /\ pos[u] < pos[w]
    BY <1>5, <2>2 DEF Running
  <2> QED
    BY <1>1, <1>5, <1>6, <2>1, <2>2, NearestWrite
<1> QED
  BY <1>3, <1>4, <1>6

\* A node begins: a Start, or a call the CPU stays with.
LEMMA Began ==
  ASSUME Built, Running, NEW n \in Workers, At(n), UNCHANGED <<graph, pos, stream, done>>,
         running' = running \cup {n}, pc' = pc + 1,
         inline' = IF graph[n].op = "kernel" THEN 0 ELSE n
  PROVE  Running'
<1>1. /\ Len(graph) \in Nat /\ Node = 1 .. Len(graph)
      /\ \A m \in Node : m \in Nat /\ m # 0 /\ pos[m] \in Nat
      /\ \A a, b \in Node : pos[a] = pos[b] => a = b
  BY Placed DEF Built
<1>2. n \in Node
  BY DEF Workers
<1>3. /\ pc \in 1 .. Len(stream) /\ inline = 0 /\ pos[n] = pc /\ n \notin running \cup done
      /\ \A k \in 1 .. Len(stream) : k < pc + 1 => stream[k].drained \subseteq done
      /\ \A b \in running : b \in Kernels /\ ~Needs(n, b)
  BY <1>2, Reached
<1>4. Workers' = Workers /\ Node' = Node /\ \A u, v : Conflict(u, v)' <=> Conflict(u, v)
  BY SameGraph
<1>5. pc \in Nat \ {0} /\ running \cap done = {} /\ running \cup done = {m \in Workers : pos[m] < pc}
  BY DEF Running
<1>6. running' \cup done = {m \in Workers : pos[m] < pc + 1}
  <2>1. \A m \in Workers : pos[m] < pc + 1 <=> pos[m] < pc \/ m = n
    BY <1>1, <1>2, <1>3, <1>5 DEF Workers
  <2> QED
    BY <1>5, <2>1
<1>7. \A m \in running' : graph[m].op # "kernel" => m = inline'
  BY <1>3 DEF Kernels
<1>8. inline' # 0 => inline' \in running'
  OBVIOUS
<1>9. OneCallPerLane'
  <2>1. \A i, j \in running : i # j /\ OnLane(i) => graph[i].lane # graph[j].lane
    BY DEF Running, OneCallPerLane
  <2>2. \A b \in running : b \in Kernels /\ (OnLane(n) => graph[b].lane # graph[n].lane)
    BY <1>3 DEF Needs
  <2>3. \A b \in running : OnLane(b) /\ graph[b].lane = graph[n].lane => OnLane(n)
    <3>1. SUFFICES ASSUME NEW b \in running, graph[b].lane = graph[n].lane, ~OnLane(n) PROVE FALSE
      OBVIOUS
    <3>2. graph[b].lane \in Lanes
      BY <1>1, <1>3 DEF Kernels, Built, GraphOK
    <3>3. graph[n].op = "cpu"
      BY <1>1, <3>1, Nodes DEF Workers, Built, WorksAt, OnLane
    <3>4. graph[n].lane = NoLane
      BY <1>1, <1>2, <3>3 DEF Built, GraphOK
    <3> QED
      BY <3>1, <3>2, <3>4, LaneAssumption
  <2> QED
    BY <2>1, <2>2, <2>3 DEF OneCallPerLane, OnLane
<1>10. ProducersDone'
  <2>1. \A t \in graph[n].ins : graph[t].by \subseteq done
    BY NeededDone
  <2> QED
    BY <2>1 DEF Running, ProducersDone
<1>11. \A u, v \in Node : Conflict(u, v) /\ pos[u] < pos[v] /\ v \in running' \cup done => u \in done
  <2>1. \A u \in Node : Conflict(u, n) /\ pos[u] < pos[n] => u \in done
    BY NeededDone
  <2> QED
    BY <2>1 DEF Running
<1>12. pc' \in Nat \ {0} /\ running' \cap done = {}
  BY <1>3, <1>5
<1>13. \A k \in 1 .. Len(stream) : k < pc' => stream[k].drained \subseteq done
  BY <1>3
<1> QED
  BY <1>4, <1>6, <1>7, <1>8, <1>9, <1>10, <1>11, <1>12, <1>13 DEF Running

LEMMA Finished ==
  ASSUME Built, Running, NEW n \in Node, Finish(n), UNCHANGED <<graph, pos, stream>>
  PROVE  Running'
<1>1. /\ n \in running /\ running' = running \ {n} /\ done' = done \cup {n}
      /\ inline' = (IF inline = n THEN 0 ELSE inline) /\ pc' = pc
  BY DEF Finish
<1>2. Workers' = Workers /\ Node' = Node /\ \A u, v : Conflict(u, v)' <=> Conflict(u, v)
  BY SameGraph
<1>3. running' \cup done' = running \cup done /\ running' \cap done' = {}
  BY <1>1 DEF Running
<1>4. inline' # 0 => inline' \in running'
  BY <1>1 DEF Running
<1>5. \A m \in running' : graph[m].op # "kernel" => m = inline'
  BY <1>1 DEF Running
<1>6. OneCallPerLane'
  BY <1>1 DEF Running, OneCallPerLane, OnLane
<1>7. ProducersDone'
  BY <1>1, <1>3 DEF Running, ProducersDone
<1> QED
  BY <1>1, <1>2, <1>3, <1>4, <1>5, <1>6, <1>7 DEF Running

LEMMA Skipped ==
  ASSUME Built, Running, NEW n \in Node, Skip(n), UNCHANGED <<graph, pos, stream>>
  PROVE  Running'
<1>1. /\ At(n) /\ IsAlias(n) /\ pc' = pc + 1 /\ UNCHANGED <<inline, running, done>>
  BY DEF Skip
<1>2. /\ \A m \in Node : pos[m] \in Nat
      /\ \A a, b \in Node : pos[a] = pos[b] => a = b
  BY Placed DEF Built
<1>3. /\ pos[n] = pc /\ \A k \in 1 .. Len(stream) : k < pc + 1 => stream[k].drained \subseteq done
  BY <1>1, Reached
<1>4. Workers' = Workers /\ Node' = Node /\ \A u, v : Conflict(u, v)' <=> Conflict(u, v)
  BY SameGraph
<1>5. {m \in Workers : pos[m] < pc + 1} = {m \in Workers : pos[m] < pc}
  <2>1. \A m \in Workers : pos[m] < pc + 1 <=> pos[m] < pc
    BY <1>1, <1>2, <1>3 DEF Workers, Running
  <2> QED
    BY <2>1
<1>6. OneCallPerLane' /\ ProducersDone'
  BY <1>1 DEF Running, OneCallPerLane, ProducersDone, OnLane
<1> QED
  BY <1>1, <1>3, <1>4, <1>5, <1>6 DEF Running

\* Before the first step.
LEMMA NotBegun == ASSUME OrderOK(graph, pos)', NotRun' PROVE Running'
<1>1. \A m \in Node' : ~(pos'[m] < 1)
  BY DEF OrderOK, Node
<1>2. {m \in Workers' : pos'[m] < 1} = {}
  BY <1>1 DEF Workers
<1>3. \A k \in 1 .. Len(stream') : ~(k < 1)
  OBVIOUS
<1> QED
  BY <1>2, <1>3 DEF NotRun, Running, OneCallPerLane, ProducersDone

-----------------------------------------------------------------------------
(* The specification.                                                        *)

LEMMA StreamStart == StreamInit => StreamInv
<1> SUFFICES ASSUME StreamInit PROVE StreamInv
  OBVIOUS
<1>1. graph = <<>> /\ phase = "build" /\ stream = <<>> /\ pending = [l \in Lanes |-> 0] /\ NotRun
  BY DEF StreamInit, NotRun
<1>2. graph \in Seq(Recs) /\ 1 .. Len(graph) = {}
  BY <1>1, EmptySeq
<1>3. GraphOK(graph)
  BY <1>2 DEF GraphOK
<1> QED
  BY <1>1, <1>3 DEF StreamInv

\* The invariant rests on nothing else.
LEMMA StreamKept == ASSUME StreamInv, UNCHANGED streamVars PROVE StreamInv'
<1>1. UNCHANGED <<phase, graph, pos, stream, pending, pc, inline, running, done>>
  BY DEF streamVars, graphVars, emitVars, runVars
<1>2. /\ Node' = Node /\ Workers' = Workers /\ Kernels' = Kernels
      /\ \A n, p : Needs(n, p)' <=> Needs(n, p)
      /\ \A n, p : Conflict(n, p)' <=> Conflict(n, p)
      /\ OrderOK(graph, pos)' <=> OrderOK(graph, pos)
  BY <1>1, SameGraph
<1>3. (Written' <=> Written) /\ (Waits' <=> Waits) /\ (Pending' <=> Pending)
  BY <1>1, <1>2 DEF Written, Waits, Pending
<1>4. (AllDrained' <=> AllDrained) /\ (NotRun' <=> NotRun)
  BY <1>1, <1>2 DEF AllDrained, NotRun
<1>5. (OneCallPerLane' <=> OneCallPerLane) /\ (ProducersDone' <=> ProducersDone)
  BY <1>1 DEF OneCallPerLane, ProducersDone, OnLane
<1>6. Running' <=> Running
  BY <1>1, <1>2, <1>5 DEF Running
<1> QED
  BY <1>1, <1>2, <1>3, <1>4, <1>6 DEF StreamInv

LEMMA CompileKept == ASSUME StreamInv, Compile PROVE StreamInv'
<1>1. ASSUME AddNode, UNCHANGED <<emitVars, runVars>> PROVE StreamInv'
  <2>1. phase = "build" /\ UNCHANGED <<phase, stream, pending>> /\ NotRun'
    BY <1>1 DEF AddNode, emitVars, runVars, StreamInv, NotRun
  <2>2. GraphOK(graph')
    BY <1>1, NodeAdded DEF StreamInv
  <2> QED
    BY <2>1, <2>2 DEF StreamInv
<1>2. ASSUME CloseGraph, UNCHANGED <<emitVars, runVars>> PROVE StreamInv'
  <2>1. /\ phase' = "order" /\ UNCHANGED graph /\ NotRun'
        /\ stream' = <<>> /\ pending' = [l \in Lanes |-> 0]
    BY <1>2 DEF CloseGraph, emitVars, runVars, StreamInv, NotRun
  <2>2. GraphOK(graph)' /\ OrderOK(graph, pos)'
    BY <1>2, <2>1, Closed DEF StreamInv
  <2>3. Written' /\ Waits' /\ Pending' /\ Len(stream') <= Len(graph')
    BY <2>1, <2>2, NothingWritten
  <2> QED
    BY <2>1, <2>2, <2>3 DEF StreamInv
<1>3. ASSUME NEW v \in Node, NEW j \in Node, Hoist(v, j), UNCHANGED <<emitVars, runVars>>
      PROVE  StreamInv'
  <2>1. /\ phase' = "order" /\ phase = "order" /\ UNCHANGED graph /\ NotRun'
        /\ stream' = <<>> /\ pending' = [l \in Lanes |-> 0]
    BY <1>3 DEF Hoist, emitVars, runVars, StreamInv, NotRun
  <2>2. GraphOK(graph)' /\ OrderOK(graph, pos)'
    BY <1>3, <2>1, Hoisted DEF StreamInv
  <2>3. Written' /\ Waits' /\ Pending' /\ Len(stream') <= Len(graph')
    BY <2>1, <2>2, NothingWritten
  <2> QED
    BY <2>1, <2>2, <2>3 DEF StreamInv
<1>4. ASSUME NEW n \in Node, Emit(n) PROVE StreamInv'
  <2>1. /\ phase \in {"order", "emit"} /\ phase' = "emit" /\ UNCHANGED <<graph, pos>> /\ NotRun'
    BY <1>4 DEF Emit, graphVars, runVars, StreamInv, NotRun
  <2>2. Written' /\ Waits' /\ Pending' /\ Len(stream') <= Len(graph')
    BY <1>4, <2>1, Emitted DEF StreamInv
  <2>3. GraphOK(graph)' /\ OrderOK(graph, pos)'
    BY <2>1, SameGraph DEF StreamInv
  <2> QED
    BY <2>1, <2>2, <2>3 DEF StreamInv
<1>5. ASSUME Drain PROVE StreamInv'
  <2>1. /\ phase = "emit" /\ phase' = "run" /\ UNCHANGED <<graph, pos>> /\ NotRun'
    BY <1>5 DEF Drain, graphVars, runVars, StreamInv, NotRun
  <2>2. Written' /\ Waits' /\ AllDrained'
    BY <1>5, <2>1, DrainedAll DEF StreamInv
  <2>3. GraphOK(graph)' /\ OrderOK(graph, pos)'
    BY <2>1, SameGraph DEF StreamInv
  <2>4. Running'
    BY <2>1, <2>3, NotBegun
  <2> QED
    BY <2>1, <2>2, <2>3, <2>4 DEF StreamInv
<1> QED
  BY <1>1, <1>2, <1>3, <1>4, <1>5 DEF Compile

\* The steps of the run leave what was built alone.
LEMMA BuiltKept ==
  ASSUME Built, UNCHANGED <<graph, pos, stream>>
  PROVE  Built'
<1>1. /\ Node' = Node /\ Workers' = Workers /\ Kernels' = Kernels
      /\ \A n, p : Needs(n, p)' <=> Needs(n, p)
      /\ OrderOK(graph, pos)' <=> OrderOK(graph, pos)
  BY SameGraph
<1> QED
  BY <1>1 DEF Built, Written, Waits, AllDrained

LEMMA RunKept ==
  ASSUME StreamInv, NEW n \in Node, RunStep(n)
  PROVE  StreamInv'
<1>1. UNCHANGED <<graph, pos, stream, pending, phase>>
  BY DEF RunStep, graphVars, emitVars, Skip, Start, Call, Finish
<1>2. phase = "run"
  <2>1. ASSUME Finish(n) PROVE phase = "run"
    <3>1. running # {}
      BY <2>1 DEF Finish
    <3> QED
      BY <3>1 DEF StreamInv, NotRun
  <2> QED
    BY <2>1 DEF RunStep, Skip, Start, Call, At
<1>3. Built /\ Running
  BY <1>2 DEF StreamInv, Built
<1>4. Running'
  <2>1. ASSUME Start(n) PROVE Running'
    <3>1. /\ At(n) /\ graph[n].op = "kernel" /\ running' = running \cup {n} /\ pc' = pc + 1
          /\ UNCHANGED <<inline, done>>
      BY <2>1 DEF Start
    <3>2. n \in Workers
      BY <3>1 DEF Workers, IsAlias, IsView
    <3>3. inline' = 0
      BY <3>1 DEF At
    <3> QED
      BY <1>1, <1>3, <3>1, <3>2, <3>3, Began
  <2>2. ASSUME Call(n) PROVE Running'
    <3>1. /\ At(n) /\ graph[n].op \in {"cpu", "sync"} /\ running' = running \cup {n}
          /\ inline' = n /\ pc' = pc + 1 /\ UNCHANGED done
      BY <2>2 DEF Call
    <3>2. n \in Workers
      BY <3>1 DEF Workers, IsAlias, IsView
    <3> QED
      BY <1>1, <1>3, <3>1, <3>2, Began
  <2> QED
    BY <1>1, <1>3, <2>1, <2>2, Finished, Skipped DEF RunStep
<1>5. Built'
  BY <1>1, <1>3, BuiltKept
<1> QED
  BY <1>1, <1>2, <1>4, <1>5 DEF StreamInv, Built

LEMMA ReturnKept ==
  ASSUME StreamInv, Return, UNCHANGED <<graphVars, emitVars>>
  PROVE  StreamInv'
<1>1. /\ At(0) /\ phase = "run" /\ phase' = "returned"
      /\ UNCHANGED <<graph, pos, stream, pending, pc, inline, running, done>>
  BY DEF Return, At, graphVars, emitVars, runVars
<1>2. Built /\ Running
  BY <1>1 DEF StreamInv, Built
<1>3. pc = Len(stream) /\ running = {}
  BY <1>1, <1>2, Reached
<1>4. Built'
  BY <1>1, <1>2, BuiltKept
<1>5. Workers' = Workers /\ Node' = Node /\ \A u, v : Conflict(u, v)' <=> Conflict(u, v)
  BY <1>1, SameGraph
<1>6. Running'
  BY <1>1, <1>2, <1>5 DEF Running, OneCallPerLane, ProducersDone, OnLane
<1> QED
  BY <1>1, <1>3, <1>4, <1>6 DEF StreamInv, Built

LEMMA AgainKept ==
  ASSUME StreamInv, Again, UNCHANGED <<graphVars, emitVars>>
  PROVE  StreamInv'
<1>1. /\ phase = "returned" /\ phase' = "run" /\ running = {}
      /\ pc' = 1 /\ done' = {} /\ UNCHANGED <<graph, pos, stream, pending, inline, running>>
  BY DEF Again, graphVars, emitVars, StreamInv
<1>2. Built /\ Running
  BY <1>1 DEF StreamInv, Built
<1>3. inline = 0
  BY <1>1, <1>2 DEF Running
<1>4. NotRun'
  BY <1>1, <1>3 DEF NotRun
<1>5. Built'
  BY <1>1, <1>2, BuiltKept
<1>6. OrderOK(graph, pos)'
  BY <1>5 DEF Built
<1>7. Running'
  BY <1>4, <1>6, NotBegun
<1> QED
  BY <1>1, <1>5, <1>7 DEF StreamInv, Built

LEMMA StreamStep == ASSUME StreamInv, [StreamNext]_streamVars PROVE StreamInv'
<1>1. ASSUME NEW n \in Node, RunStep(n) PROVE StreamInv'
  BY <1>1, RunKept
<1>2. ASSUME UNCHANGED streamVars PROVE StreamInv'
  BY <1>2, StreamKept
<1> QED
  BY <1>1, <1>2, CompileKept, ReturnKept, AgainKept DEF StreamNext

LEMMA StreamSafe ==
  StreamInv => OneCallPerLane /\ ProducersDone /\ StateInOrder /\ ReturnsDrained
<1> SUFFICES ASSUME StreamInv PROVE OneCallPerLane /\ ProducersDone /\ StateInOrder /\ ReturnsDrained
  OBVIOUS
<1>1. CASE phase \in {"build", "order", "emit"}
  BY <1>1 DEF NotRun, OneCallPerLane, ProducersDone, StateInOrder, ReturnsDrained, StreamInv
<1>2. CASE phase \in {"run", "returned"}
  <2>1. Running /\ Built
    BY <1>2 DEF StreamInv, Built
  <2>2. OneCallPerLane /\ ProducersDone
    BY <2>1 DEF Running
  <2>3. StateInOrder
    BY <2>1 DEF Running, Built, OrderOK, StateInOrder
  <2>4. ReturnsDrained
    <3>1. SUFFICES ASSUME phase = "returned" PROVE done = {n \in Node : ~IsAlias(n)}
      BY DEF ReturnsDrained
    <3>2. pc = Len(graph) + 1 /\ running = {}
      BY <2>1, <3>1 DEF StreamInv, Built, AllDrained
    <3>3. \A n \in Workers : pos[n] < pc
      BY <2>1, <3>2, Placed DEF Built, Workers
    <3> QED
      BY <2>1, <3>2, <3>3 DEF Running, Workers
  <2> QED
    BY <2>2, <2>3, <2>4
<1> QED
  BY <1>1, <1>2 DEF StreamInv

\* Sharing the buffers changes nothing of what runs when: the layout and the pointers of
\* inference_run() only watch the event stream (_compute_intermediate_layout).
THEOREM LayoutWatchesStream == Spec => StreamSpec
<1>1. Init => StreamInit
  BY DEF Init
<1>2. [Next]_vars => [StreamNext]_streamVars
  <2> SUFFICES ASSUME [Next]_vars PROVE [StreamNext]_streamVars
    OBVIOUS
  <2>1. ASSUME NEW t \in Node, Place(t) PROVE UNCHANGED streamVars
    BY <2>1 DEF Place
  <2>2. ASSUME NEW n \in Node, Write(n) \/ Other(n), UNCHANGED <<graphVars, emitVars>>
        PROVE  StreamNext
    BY <2>2 DEF Write, Other, RunStep, StreamNext
  <2>3. ASSUME Repeat, UNCHANGED <<graphVars, emitVars>> PROVE StreamNext
    BY <2>3 DEF Repeat, StreamNext
  <2>4. ASSUME UNCHANGED vars PROVE UNCHANGED streamVars
    BY <2>4 DEF vars
  <2> QED
    BY <2>1, <2>2, <2>3, <2>4 DEF Next, StreamNext
<1> QED
  BY <1>1, <1>2, PTL DEF Spec, StreamSpec

THEOREM StreamInvariant == Spec => []StreamInv
<1>1. StreamInit => StreamInv
  BY StreamStart
<1>2. StreamInv /\ [StreamNext]_streamVars => StreamInv'
  BY StreamStep
<1> QED
  BY <1>1, <1>2, LayoutWatchesStream, PTL DEF StreamSpec

\* Whatever the graph, the order and the speed of the kernels, no call is started on a
\* lane that has one in flight (_compute_event_stream, step 2).
THEOREM LanesNeverShared == Spec => []OneCallPerLane
BY StreamInvariant, StreamSafe, PTL

\* No node begins before the nodes that write its inputs have finished, through any chain
\* of aliases (effective_preds).
THEOREM InputsProduced == Spec => []ProducersDone
BY StreamInvariant, StreamSafe, PTL

\* No order the search may choose lets an access of the persistent state overtake one it
\* conflicts with (_add_state_edges, search_order).
THEOREM StateKeepsOrder == Spec => []StateInOrder
BY StreamInvariant, StreamSafe, PTL

\* inference_run() returns with every lane idle and every node done.
THEOREM NothingInFlight == Spec => []ReturnsDrained
BY StreamInvariant, StreamSafe, PTL

-----------------------------------------------------------------------------
(* The buffers.  What names what ...                                          *)

AliasOK(g) ==
  \A n \in 1 .. Len(g) :
    /\ g[n].op \notin {"reshape", "view"} => g[n].root = n /\ g[n].path = {}
    /\ g[n].op \in {"reshape", "view"} =>
         \E src \in 1 .. n - 1 :
           /\ g[n].ins = {src} /\ g[n].root = g[src].root /\ g[n].by = g[src].by
           /\ g[n].path = IF g[n].op = "reshape" THEN g[src].path \cup {src} ELSE {}
    /\ g[n].op = "merge" => /\ g[n].by = g[n].ins /\ g[n].ins # {}
                            /\ \A t \in g[n].ins : g[t].op \in {"kernel", "sync"}
                            /\ \A m \in 1 .. Len(g) : \A t \in g[n].ins : t \in g[m].ins => m = n

\* ... what leaves the pool ...
OutsOK ==
  /\ outs \subseteq Node /\ \A t \in Node : Readers(t) = {} => t \in outs
  /\ ViewsStayInPool(outs) /\ Compiles(outs) /\ OnlyChainAliases(outs)

\* ... and who has a slot of it: tensors whose lives do not meet.
Apart(t, u) == LiveTo(t) < LiveFrom(u) \/ LiveTo(u) < LiveFrom(t)

SlotsOK ==
  /\ slots \in Seq([end : Nat, tensors : SUBSET Node])
  /\ \A i \in 1 .. Len(slots) : \A t \in slots[i].tensors :
       /\ t \in Owners /\ LiveTo(t) <= slots[i].end
       /\ \A u \in slots[i].tensors : t # u => Apart(t, u)

\* Whoever has still to read a tensor, the caller at the end.
Wanted(t) == t \in outs \/ \E n \in Workers \ done : t \in graph[n].ins
Kept == \A t \in Node : Wanted(t) => \A p \in graph[t].by : p \in running \cup done => p \in intact

LayoutInv ==
  /\ AliasOK(graph)
  /\ phase # "build" => OutsOK
  /\ phase \in {"build", "order", "emit"} => slots = <<>>
  /\ phase \in {"run", "returned"} => SlotsOK /\ Kept

-----------------------------------------------------------------------------
(* Aliases                                                                   *)

LEMMA LeastNumber ==
  ASSUME NEW T \in SUBSET Nat, T # {}
  PROVE  \E x \in T : \A y \in T : x <= y
<1>1. PICK x \in T : \A y \in T : <<y, x>> \notin OpToRel(<, Nat)
  BY NatLessThanWellFounded, WFMin
<1>2. \A y \in T : ~(y < x)
  BY <1>1 DEF OpToRel
<1> QED
  BY <1>2

Aliased == GraphOK(graph) /\ AliasOK(graph)

\* The merge a tensor is a piece of is the only one that reads it.
LEMMA OneMerge ==
  ASSUME Aliased, NEW t \in Node, NEW m \in MergeOf(t)
  PROVE  /\ MergeOf(t) = {m} /\ m \in Node /\ graph[m].op = "merge" /\ t \in graph[m].ins
         /\ \A n \in Node : t \in graph[n].ins => n = m
         /\ graph[t].op \in {"kernel", "sync"} /\ Resolve(t) = m
<1>1. m \in Node /\ graph[m].op = "merge" /\ t \in graph[m].ins /\ Node = 1 .. Len(graph)
  BY Nodes DEF Aliased, MergeOf
<1>2. \A n \in Node : t \in graph[n].ins => n = m
  BY <1>1 DEF Aliased, AliasOK
<1>3. graph[t].op \in {"kernel", "sync"}
  BY <1>1 DEF Aliased, AliasOK
<1>4. MergeOf(t) = {m}
  BY <1>1, <1>2 DEF MergeOf
<1>5. Resolve(t) = m
  BY <1>4 DEF Resolve
<1> QED
  BY <1>1, <1>2, <1>3, <1>4, <1>5

\* What the name of a buffer leads to: a node that works, or a merge.
RootOK(n) ==
  LET r == graph[n].root IN
  /\ r \in Node /\ r <= n /\ ~IsView(r) /\ graph[r].root = r /\ graph[n].by = graph[r].by
  /\ IsView(n) => r < n /\ MergeOf(r) = {}
  /\ ~IsView(n) => r = n /\ graph[n].path = {}
  /\ \A x \in graph[n].path : x \in Node /\ x < n /\ graph[x].root = r
  /\ graph[n].op = "reshape" => r \in graph[n].path \/ \E v \in graph[n].path : graph[v].op = "view"

LEMMA SourceOf ==
  ASSUME Aliased, NEW n \in Node, IsView(n)
  PROVE  \E src \in Node :
           /\ src < n /\ graph[n].ins = {src} /\ graph[n].root = graph[src].root /\ graph[n].by = graph[src].by
           /\ graph[n].path = (IF graph[n].op = "reshape" THEN graph[src].path \cup {src} ELSE {})
           /\ MergeOf(src) = {}
<1>1. Node = 1 .. Len(graph) /\ Len(graph) \in Nat /\ graph[n].op \in {"reshape", "view"}
  BY Nodes DEF Aliased, IsView
<1>2. PICK src \in 1 .. n - 1 :
           /\ graph[n].ins = {src} /\ graph[n].root = graph[src].root /\ graph[n].by = graph[src].by
           /\ graph[n].path = IF graph[n].op = "reshape" THEN graph[src].path \cup {src} ELSE {}
  BY <1>1 DEF Aliased, AliasOK
<1>3. src \in Node /\ src < n
  BY <1>1
<1>4. MergeOf(src) = {}
  <2>1. SUFFICES ASSUME NEW m \in MergeOf(src) PROVE FALSE
    OBVIOUS
  <2>2. n = m /\ graph[m].op = "merge"
    BY <1>2, <1>3, <2>1, OneMerge
  <2> QED
    BY <1>1, <2>2
<1> QED
  BY <1>2, <1>3, <1>4

LEMMA RootIs == ASSUME Aliased PROVE \A n \in Node : RootOK(n)
<1> DEFINE T == {n \in Node : ~RootOK(n)}
<1>0. Node = 1 .. Len(graph) /\ Len(graph) \in Nat /\ \A n \in Node : n \in Nat
  BY Nodes DEF Aliased
<1>1. SUFFICES ASSUME T # {} PROVE FALSE
  OBVIOUS
<1>2. PICK n \in T : \A k \in T : n <= k
  <2>1. T \in SUBSET Nat
    BY <1>0
  <2> HIDE DEF T
  <2> QED
    BY <1>1, <2>1, LeastNumber
<1>3. n \in Node /\ ~RootOK(n) /\ n \in Nat
  BY <1>0, <1>2
<1>4. CASE ~IsView(n)
  <2>1. graph[n].op \notin {"reshape", "view"}
    BY <1>4 DEF IsView
  <2>2. graph[n].root = n /\ graph[n].path = {}
    BY <1>0, <1>3, <2>1 DEF Aliased, AliasOK
  <2> QED
    BY <1>3, <1>4, <2>1, <2>2 DEF RootOK
<1>5. CASE IsView(n)
  <2>1. PICK src \in Node :
           /\ src < n /\ graph[n].root = graph[src].root /\ graph[n].by = graph[src].by
           /\ graph[n].path = (IF graph[n].op = "reshape" THEN graph[src].path \cup {src} ELSE {})
           /\ MergeOf(src) = {}
    BY <1>3, <1>5, SourceOf
  <2>2. src \in Nat /\ ~(n <= src)
    BY <1>0, <1>3, <2>1
  <2>3. src \notin T
    <3> HIDE DEF T
    <3> QED
      BY <1>2, <2>2
  <2>4. RootOK(src)
    BY <2>1, <2>3
  <2> DEFINE r == graph[src].root
  <2>5. /\ r \in Node /\ r <= src /\ ~IsView(r) /\ graph[r].root = r /\ graph[src].by = graph[r].by
        /\ \A x \in graph[src].path : x \in Node /\ x < src /\ graph[x].root = r
    BY <2>4 DEF RootOK
  <2>6. graph[src].op = "reshape" => r \in graph[src].path \/ \E v \in graph[src].path : graph[v].op = "view"
    BY <2>4 DEF RootOK
  <2>7. /\ IsView(src) => MergeOf(r) = {}
        /\ ~IsView(src) => r = src
    BY <2>4 DEF RootOK
  <2>8. r \in Nat /\ r < n
    BY <1>0, <1>3, <2>1, <2>2, <2>5
  <2>9. MergeOf(r) = {}
    BY <2>1, <2>7
  <2>10. \A x \in graph[n].path : x \in Node /\ x < n /\ graph[x].root = r
    BY <1>0, <1>3, <2>1, <2>2, <2>5
  <2>11. graph[n].op = "reshape" => r \in graph[n].path \/ \E v \in graph[n].path : graph[v].op = "view"
    BY <2>1, <2>6, <2>7 DEF IsView
  <2>12. graph[n].root = r /\ graph[n].by = graph[r].by
    BY <2>1, <2>5
  <2> HIDE DEF r
  <2>13. RootOK(n)
    BY <1>3, <1>5, <2>5, <2>8, <2>9, <2>10, <2>11, <2>12 DEF RootOK
  <2> QED
    BY <1>3, <2>13
<1> QED
  BY <1>4, <1>5

\* The calls that write a tensor resolve to the buffer a reader of it resolves to.
LEMMA WritersResolve ==
  ASSUME Aliased, NEW t \in Node, MergeOf(t) = {}, NEW p \in graph[t].by
  PROVE  /\ p \in Workers /\ Resolve(t) = graph[t].root /\ Resolve(p) = graph[t].root
         /\ graph[graph[t].root].op = "merge" => p \in graph[graph[t].root].ins /\ graph[t].root \in MergeOf(p)
         /\ graph[graph[t].root].op # "merge" => p = graph[t].root
<1> DEFINE r == graph[t].root
<1>1. /\ r \in Node /\ ~IsView(r) /\ graph[r].root = r /\ graph[t].by = graph[r].by
      /\ (IsView(t) => MergeOf(r) = {}) /\ (~IsView(t) => r = t)
  BY RootIs DEF RootOK
<1>2. Resolve(t) = r
  BY DEF Resolve
<1> HIDE DEF r
<1>3. MergeOf(r) = {}
  BY <1>1
<1>4. Node = 1 .. Len(graph) /\ p \in graph[r].by
  BY <1>1, Nodes DEF Aliased
<1>5. CASE graph[r].op = "merge"
  <2>1. p \in graph[r].ins
    BY <1>1, <1>4, <1>5 DEF Aliased, AliasOK
  <2>2. p \in Node
    <3>1. graph[r].ins \subseteq 1 .. r - 1
      BY <1>1, <1>4 DEF Aliased, GraphOK
    <3> QED
      BY <1>1, <1>4, <2>1, <3>1, Nodes DEF Aliased
  <2>3. r \in MergeOf(p)
    BY <1>1, <1>5, <2>1 DEF MergeOf
  <2>4. Resolve(p) = r /\ graph[p].op \in {"kernel", "sync"}
    BY <2>2, <2>3, OneMerge
  <2>5. p \in Workers
    BY <2>2, <2>4 DEF Workers, IsAlias, IsView
  <2> QED
    BY <1>2, <1>5, <2>1, <2>3, <2>4, <2>5 DEF r
<1>6. CASE graph[r].op # "merge"
  <2>1. r \in Workers
    BY <1>1, <1>6 DEF Workers, IsAlias
  <2>2. WorksAt(graph, r)
    BY <1>1, <2>1, Nodes DEF Aliased, Workers
  <2>3. p = r
    BY <1>1, <1>4, <2>2 DEF Aliased, GraphOK
  <2>4. Resolve(p) = r
    BY <1>1, <1>3, <2>3 DEF Resolve
  <2> QED
    BY <1>2, <1>6, <2>1, <2>3, <2>4 DEF r
<1> QED
  BY <1>5, <1>6

-----------------------------------------------------------------------------
(* One node more, and the graph's outputs.                                    *)

LEMMA AliasGrown ==
  ASSUME Aliased, NEW r \in Recs,
         \A t \in r.ins : t \in Node /\ MergeOf(t) = {},
         r.op \notin {"reshape", "view"} => r.root = Len(graph) + 1 /\ r.path = {},
         r.op \in {"reshape", "view"} =>
           \E src \in Node :
             /\ r.ins = {src} /\ r.root = graph[src].root /\ r.by = graph[src].by
             /\ r.path = (IF r.op = "reshape" THEN graph[src].path \cup {src} ELSE {}),
         r.op = "merge" => /\ r.by = r.ins /\ r.ins # {}
                           /\ \A t \in r.ins : graph[t].op \in {"kernel", "sync"} /\ Readers(t) = {}
  PROVE  AliasOK(Append(graph, r))
<1> DEFINE g == Append(graph, r)
           m == Len(graph) + 1
<1>1. graph \in Seq(Recs) /\ Len(graph) \in Nat /\ Node = 1 .. Len(graph)
  BY Nodes DEF Aliased, GraphOK
<1>2. g \in Seq(Recs) /\ Len(g) = m /\ g[m] = r /\ \A n \in 1 .. Len(graph) : g[n] = graph[n]
  BY <1>1, AppendProperties
<1> HIDE DEF g
<1>3. \A n \in Node : graph[n].ins \subseteq 1 .. n - 1
  BY <1>1 DEF Aliased, GraphOK
<1>4. \A n \in 1 .. m : n = m \/ n \in Node
  BY <1>1
<1>5. \A n \in Node : n \in 1 .. m /\ g[n] = graph[n] /\ n # m
  BY <1>1, <1>2
<1>6. ASSUME NEW n \in Node, graph[n].op = "merge"
      PROVE  /\ g[n].by = g[n].ins /\ g[n].ins # {}
             /\ \A t \in g[n].ins : g[t].op \in {"kernel", "sync"}
             /\ \A k \in 1 .. m : \A t \in g[n].ins : t \in g[k].ins => k = n
  <2>1. /\ graph[n].by = graph[n].ins /\ graph[n].ins # {}
        /\ \A t \in graph[n].ins : t \in Node /\ graph[t].op \in {"kernel", "sync"}
        /\ \A k \in Node : \A t \in graph[n].ins : t \in graph[k].ins => k = n
    BY <1>1, <1>3, <1>6 DEF Aliased, AliasOK
  <2>2. \A t \in graph[n].ins : t \notin r.ins
    BY <1>6 DEF MergeOf
  <2>3. \A t \in graph[n].ins : g[t].op \in {"kernel", "sync"}
    BY <1>5, <2>1
  <2>4. ASSUME NEW k \in 1 .. m, NEW t \in graph[n].ins, t \in g[k].ins PROVE k = n
    <3>1. k # m
      BY <1>2, <2>2, <2>4
    <3>2. k \in Node /\ t \in graph[k].ins
      BY <1>4, <1>5, <2>4, <3>1
    <3> QED
      BY <2>1, <2>4, <3>2
  <2>5. g[n].ins = graph[n].ins /\ g[n].by = graph[n].by
    BY <1>5
  <2>6. \A k \in 1 .. m : \A t \in g[n].ins : t \in g[k].ins => k = n
    BY <2>4, <2>5
  <2> QED
    BY <2>1, <2>3, <2>5, <2>6
<1>7. ASSUME r.op = "merge"
      PROVE  /\ \A t \in r.ins : g[t].op \in {"kernel", "sync"}
             /\ \A k \in 1 .. m : \A t \in r.ins : t \in g[k].ins => k = m
  BY <1>4, <1>5, <1>7 DEF Readers
<1>8. ASSUME r.op \in {"reshape", "view"}
      PROVE  \E src \in 1 .. m - 1 :
               /\ r.ins = {src} /\ r.root = g[src].root /\ r.by = g[src].by
               /\ r.path = (IF r.op = "reshape" THEN g[src].path \cup {src} ELSE {})
  <2>1. PICK src \in Node :
               /\ r.ins = {src} /\ r.root = graph[src].root /\ r.by = graph[src].by
               /\ r.path = (IF r.op = "reshape" THEN graph[src].path \cup {src} ELSE {})
    BY <1>8
  <2>2. src \in 1 .. m - 1 /\ g[src] = graph[src]
    BY <1>1, <1>5
  <2> QED
    BY <2>1, <2>2
<1>9. ASSUME NEW n \in Node, graph[n].op \in {"reshape", "view"}
      PROVE  \E src \in 1 .. n - 1 :
               /\ g[n].ins = {src} /\ g[n].root = g[src].root /\ g[n].by = g[src].by
               /\ g[n].path = (IF g[n].op = "reshape" THEN g[src].path \cup {src} ELSE {})
  <2>1. PICK src \in 1 .. n - 1 :
               /\ graph[n].ins = {src} /\ graph[n].root = graph[src].root /\ graph[n].by = graph[src].by
               /\ graph[n].path = (IF graph[n].op = "reshape" THEN graph[src].path \cup {src} ELSE {})
    BY <1>1, <1>9 DEF Aliased, AliasOK
  <2>2. g[src] = graph[src] /\ g[n] = graph[n]
    BY <1>1, <1>5
  <2> QED
    BY <2>1, <2>2
<1>10. \A n \in Node : g[n].op \notin {"reshape", "view"} => g[n].root = n /\ g[n].path = {}
  BY <1>1, <1>5 DEF Aliased, AliasOK
<1>11. ASSUME NEW n \in 1 .. m
       PROVE  /\ g[n].op \notin {"reshape", "view"} => g[n].root = n /\ g[n].path = {}
              /\ g[n].op \in {"reshape", "view"} =>
                   \E src \in 1 .. n - 1 :
                     /\ g[n].ins = {src} /\ g[n].root = g[src].root /\ g[n].by = g[src].by
                     /\ g[n].path = IF g[n].op = "reshape" THEN g[src].path \cup {src} ELSE {}
              /\ g[n].op = "merge" => /\ g[n].by = g[n].ins /\ g[n].ins # {}
                                      /\ \A t \in g[n].ins : g[t].op \in {"kernel", "sync"}
                                      /\ \A k \in 1 .. m : \A t \in g[n].ins : t \in g[k].ins => k = n
  <2>1. CASE n = m
    BY <1>2, <1>7, <1>8, <2>1
  <2>2. CASE n \in Node
    <3>1. g[n].op = graph[n].op
      BY <1>5, <2>2
    <3>2. g[n].op \notin {"reshape", "view"} => g[n].root = n /\ g[n].path = {}
      BY <1>10, <2>2
    <3>3. g[n].op \in {"reshape", "view"} =>
            \E src \in 1 .. n - 1 :
              /\ g[n].ins = {src} /\ g[n].root = g[src].root /\ g[n].by = g[src].by
              /\ g[n].path = IF g[n].op = "reshape" THEN g[src].path \cup {src} ELSE {}
      BY <1>9, <2>2, <3>1
    <3> QED
      BY <1>6, <2>2, <3>1, <3>2, <3>3
  <2> QED
    BY <1>4, <2>1, <2>2
<1>12. AliasOK(g)
  BY <1>2, <1>11, Zenon DEF AliasOK
<1> QED
  BY <1>12 DEF g

LEMMA AliasAdded == ASSUME Aliased, AddNode PROVE AliasOK(graph')
<1>1. \A t \in Node : graph[t] \in Recs /\ t \in Nat /\ graph[t].by \subseteq Nat
  BY Nodes DEF Aliased, Recs
<1>2. Len(graph) + 1 \in Nat /\ Node \subseteq Nat
  BY Nodes DEF Aliased
<1>3. CASE AddWorker
  <2>1. PICK op \in {"kernel", "sync", "cpu"}, lane \in Lanes \cup {NoLane},
             ins \in SUBSET (Node \ Pieces), st \in {"none", "read", "write"} :
               (op = "cpu") = (lane = NoLane) /\ graph' = Append(graph, Worker(op, lane, ins, st))
    BY <1>3 DEF AddWorker
  <2>2. Worker(op, lane, ins, st) \in Recs
    BY <1>2 DEF Worker, Recs, Ops
  <2>3. /\ Worker(op, lane, ins, st).ins = ins /\ Worker(op, lane, ins, st).op = op
        /\ Worker(op, lane, ins, st).root = Len(graph) + 1
        /\ Worker(op, lane, ins, st).path = {}
    BY DEF Worker
  <2>4. \A t \in ins : t \in Node /\ MergeOf(t) = {}
    BY DEF Pieces
  <2> QED
    BY <2>1, <2>2, <2>3, <2>4, AliasGrown
<1>4. CASE AddReshape
  <2>1. PICK src \in Node \ Pieces : graph' =
          Append(graph, [op |-> "reshape", lane |-> NoLane, ins |-> {src}, state |-> "none",
                         by |-> graph[src].by, root |-> graph[src].root,
                         path |-> graph[src].path \cup {src}])
    BY <1>4 DEF AddReshape
  <2> DEFINE r == [op |-> "reshape", lane |-> NoLane, ins |-> {src}, state |-> "none",
                   by |-> graph[src].by, root |-> graph[src].root,
                   path |-> graph[src].path \cup {src}]
  <2>2. r \in Recs
    BY <1>1 DEF Recs, Ops
  <2>3. MergeOf(src) = {}
    BY DEF Pieces
  <2> QED
    BY <2>1, <2>2, <2>3, AliasGrown
<1>5. CASE AddSliceView
  <2>1. PICK src \in Node \ Pieces : graph' =
          Append(graph, [op |-> "view", lane |-> NoLane, ins |-> {src}, state |-> "none",
                         by |-> graph[src].by, root |-> graph[src].root, path |-> {}])
    BY <1>5 DEF AddSliceView
  <2> DEFINE r == [op |-> "view", lane |-> NoLane, ins |-> {src}, state |-> "none",
                   by |-> graph[src].by, root |-> graph[src].root, path |-> {}]
  <2>2. r \in Recs
    BY <1>1 DEF Recs, Ops
  <2>3. MergeOf(src) = {}
    BY DEF Pieces
  <2> QED
    BY <2>1, <2>2, <2>3, AliasGrown
<1>6. CASE AddMerge
  <2>1. PICK ins \in SUBSET Node :
          /\ Cardinality(ins) = 2
          /\ \A t \in ins : OnLane(t) /\ Readers(t) = {}
          /\ graph' = Append(graph, [op |-> "merge", lane |-> NoLane, ins |-> ins, state |-> "none",
                                     by |-> ins, root |-> Len(graph) + 1, path |-> {}])
    BY <1>6 DEF AddMerge
  <2> DEFINE r == [op |-> "merge", lane |-> NoLane, ins |-> ins, state |-> "none",
                   by |-> ins, root |-> Len(graph) + 1, path |-> {}]
  <2>2. r \in Recs
    BY <1>2 DEF Recs, Ops
  <2>3. ins # {}
    <3>1. Cardinality({}) = 0
      BY FS_EmptySet
    <3>2. Cardinality(ins) = 2
      BY <2>1, Zenon
    <3> QED
      BY <3>1, <3>2
  <2>4. \A t \in ins : MergeOf(t) = {}
    BY <2>1 DEF Readers, MergeOf
  <2>5. \A t \in ins : graph[t].op \in {"kernel", "sync"}
    BY <2>1 DEF OnLane
  <2> QED
    BY <2>1, <2>2, <2>3, <2>4, <2>5, AliasGrown
<1> QED
  BY <1>3, <1>4, <1>5, <1>6 DEF AddNode

\* The alias facts are about the graph alone, those about the outputs about it and them.
LEMMA SameOuts ==
  ASSUME UNCHANGED <<graph, outs>>, OutsOK
  PROVE  OutsOK'
<1>1. Node' = Node /\ Pieces' = Pieces /\ \A t : Readers(t)' = Readers(t)
  BY DEF Node, Pieces, MergeOf, Readers
<1>2. ViewsStayInPool(outs)' <=> ViewsStayInPool(outs)
  BY <1>1 DEF ViewsStayInPool
<1>3. \A x : Chain(x, outs)' = Chain(x, outs)
  BY DEF Chain
<1>4. Compiles(outs)' <=> Compiles(outs)
  BY <1>1, <1>3 DEF Compiles
<1>5. OnlyChainAliases(outs)' <=> OnlyChainAliases(outs)
  BY <1>1 DEF OnlyChainAliases, IsView
<1> QED
  BY <1>1, <1>2, <1>4, <1>5 DEF OutsOK

LEMMA OutsClosed ==
  ASSUME AnyAlias = FALSE, CloseGraph
  PROVE  OutsOK'
<1>1. PICK taps \in SUBSET Node :
        LET o == taps \cup {t \in Node : Readers(t) = {}} IN
          /\ ViewsStayInPool(o) /\ Compiles(o)
          /\ AnyAlias \/ OnlyChainAliases(o)
          /\ outs' = o
  BY DEF CloseGraph
<1>2. /\ outs' \subseteq Node /\ \A t \in Node : Readers(t) = {} => t \in outs'
      /\ ViewsStayInPool(outs') /\ Compiles(outs') /\ OnlyChainAliases(outs')
  BY <1>1
<1>3. graph' = graph
  BY DEF CloseGraph
<1>4. Node' = Node /\ Pieces' = Pieces /\ \A t : Readers(t)' = Readers(t)
  BY <1>3 DEF Node, Pieces, MergeOf, Readers
<1>5. ViewsStayInPool(outs)'
  BY <1>2, <1>3, <1>4 DEF ViewsStayInPool
<1>6. \A x : Chain(x, outs)' = Chain(x, outs')
  BY <1>3 DEF Chain
<1>7. Compiles(outs)'
  BY <1>2, <1>3, <1>4, <1>6 DEF Compiles
<1>8. OnlyChainAliases(outs)'
  BY <1>2, <1>3, <1>4 DEF OnlyChainAliases, IsView
<1> QED
  BY <1>2, <1>4, <1>5, <1>7, <1>8 DEF OutsOK

-----------------------------------------------------------------------------
(* Pointers: what was written as a tensor is read from where it was written.  *)

Laid == Aliased /\ OutsOK

\* The buffer an alias names is no output of the graph.
LEMMA RootNotOut == ASSUME Laid PROVE \A x \in Node : IsView(x) => graph[x].root \notin outs
<1> DEFINE T == {x \in Node : IsView(x) /\ graph[x].root \in outs}
<1>0. Aliased /\ Node = 1 .. Len(graph) /\ Len(graph) \in Nat /\ \A n \in Node : n \in Nat
  BY Nodes DEF Laid, Aliased
<1>1. SUFFICES ASSUME T # {} PROVE FALSE
  OBVIOUS
<1>2. PICK x \in T : \A k \in T : x <= k
  <2>1. T \in SUBSET Nat
    BY <1>0
  <2> HIDE DEF T
  <2> QED
    BY <1>1, <2>1, LeastNumber
<1>3. x \in Node /\ IsView(x) /\ graph[x].root \in outs /\ x \in Nat
  BY <1>0, <1>2
<1>4. PICK src \in Node :
           /\ src < x /\ graph[x].ins = {src} /\ graph[x].root = graph[src].root
           /\ graph[x].path = (IF graph[x].op = "reshape" THEN graph[src].path \cup {src} ELSE {})
  BY <1>0, <1>3, SourceOf
<1>5. graph[x].op = "reshape"
  <2>1. graph[x].op # "view"
    BY <1>3 DEF Laid, OutsOK, ViewsStayInPool
  <2> QED
    BY <1>3, <2>1 DEF IsView
<1>6. src \notin outs
  <2>1. SUFFICES ASSUME src \in outs PROVE FALSE
    OBVIOUS
  <2>2. x \in outs
    BY <1>3, <1>4, <1>5, <2>1 DEF Laid, OutsOK, Compiles
  <2>3. src \in graph[x].path
    BY <1>4, <1>5
  <2>4. graph[x].path \cap outs = {}
    BY <1>5, <2>2 DEF Laid, OutsOK, OnlyChainAliases
  <2> QED
    BY <2>1, <2>3, <2>4
<1>7. ~IsView(src)
  <2>1. SUFFICES ASSUME IsView(src) PROVE FALSE
    OBVIOUS
  <2>2. src \in T
    BY <1>3, <1>4, <2>1
  <2>3. src \in Nat /\ ~(x <= src)
    BY <1>0, <1>3, <1>4
  <2> HIDE DEF T
  <2> QED
    BY <1>2, <2>2, <2>3
<1>8. graph[src].root = src
  BY <1>0, <1>7, RootIs DEF RootOK
<1> QED
  BY <1>3, <1>4, <1>6, <1>8

\* A chain of reshapes that ends in an output: all the names of one buffer that a call writes.
LEMMA OutputChain ==
  ASSUME Laid, NEW o \in outs
  PROVE  /\ o \in Node /\ MergeOf(o) = {} /\ graph[o].op \notin {"view", "merge"}
         /\ graph[o].op # "reshape" => graph[o].root = o /\ graph[o].path = {} /\ ~IsView(o)
         /\ graph[o].op = "reshape" =>
              /\ graph[o].path \cap outs = {} /\ graph[o].root \in graph[o].path
              /\ graph[graph[o].root].op # "merge"
              /\ \A x \in graph[o].path : x \in Node /\ graph[x].root = graph[o].root
              /\ \A n \in Node : IsView(n) /\ graph[n].root = graph[o].root => n = o \/ n \in graph[o].path
<1>1. Aliased /\ o \in Node /\ RootOK(o)
  BY RootIs DEF Laid, OutsOK
<1>2. MergeOf(o) = {} /\ graph[o].op \notin {"view", "merge"}
  BY <1>1 DEF Laid, OutsOK, ViewsStayInPool, Pieces
<1>3. graph[o].op # "reshape" => graph[o].root = o /\ graph[o].path = {} /\ ~IsView(o)
  BY <1>1, <1>2 DEF RootOK, IsView
<1>4. ASSUME graph[o].op = "reshape"
      PROVE  /\ graph[o].path \cap outs = {} /\ graph[o].root \in graph[o].path
             /\ graph[graph[o].root].op # "merge"
             /\ \A x \in graph[o].path : x \in Node /\ graph[x].root = graph[o].root
             /\ \A n \in Node : IsView(n) /\ graph[n].root = graph[o].root => n = o \/ n \in graph[o].path
  <2>1. /\ graph[o].path \cap outs = {} /\ graph[graph[o].root].op # "merge"
        /\ \A n \in Node : IsView(n) /\ graph[n].root = graph[o].root => n = o \/ n \in graph[o].path
    BY <1>4 DEF Laid, OutsOK, OnlyChainAliases
  <2>2. \A x \in graph[o].path : x \in Node /\ graph[x].root = graph[o].root
    BY <1>1 DEF RootOK
  <2>3. \A v \in graph[o].path : graph[v].op # "view"
    BY <2>2 DEF Laid, OutsOK, ViewsStayInPool
  <2>4. graph[o].root \in graph[o].path
    BY <1>1, <1>4, <2>3 DEF RootOK
  <2> QED
    BY <2>1, <2>2, <2>4
<1> QED
  BY <1>1, <1>2, <1>3, <1>4

\* The caller's buffers a pointer is turned to: at most one.
LEMMA RedirectedIs ==
  ASSUME Laid, NEW t \in Node
  PROVE  /\ Redirected(t) = {o \in outs : t \in graph[o].path}
         /\ \A o \in Redirected(t) : Redirected(t) = {o} /\ t \notin outs /\ graph[o].op = "reshape"
<1>1. \A o \in outs : Chain(o, outs) = graph[o].path
  <2>1. SUFFICES ASSUME NEW o \in outs PROVE Chain(o, outs) = graph[o].path
    OBVIOUS
  <2>2. CASE graph[o].op # "reshape"
    BY <2>2, OutputChain DEF Chain
  <2>3. CASE graph[o].op = "reshape"
    <3>1. PICK src \in Node :
           /\ graph[o].ins = {src}
           /\ graph[o].path = (IF graph[o].op = "reshape" THEN graph[src].path \cup {src} ELSE {})
      BY <2>3, OutputChain, SourceOf DEF Laid, IsView
    <3>2. graph[o].path \cap outs = {}
      BY <2>3, OutputChain
    <3>3. graph[o].ins \cap outs = {}
      BY <2>3, <3>1, <3>2
    <3> QED
      BY <2>3, <3>3 DEF Chain
  <2> QED
    BY <2>2, <2>3
<1>2. Redirected(t) = {o \in outs : t \in graph[o].path}
  BY <1>1 DEF Redirected
<1>3. ASSUME NEW o \in Redirected(t)
      PROVE  Redirected(t) = {o} /\ t \notin outs /\ graph[o].op = "reshape"
  <2>1. o \in outs /\ t \in graph[o].path
    BY <1>2, <1>3
  <2>2. graph[o].op = "reshape"
    BY <2>1, OutputChain
  <2>3. t \notin outs
    BY <2>1, <2>2, OutputChain
  <2>4. ASSUME NEW x \in Redirected(t), x # o PROVE FALSE
    <3>1. x \in outs /\ t \in graph[x].path
      BY <1>2, <2>4
    <3>2. Chain(x, outs) \cap Chain(o, outs) = {}
      BY <2>1, <2>4, <3>1 DEF Laid, OutsOK, Compiles
    <3> QED
      BY <1>1, <2>1, <3>1, <3>2
  <2> QED
    BY <2>2, <2>3, <2>4
<1> QED
  BY <1>2, <1>3

\* Where a call writes: the caller's buffer of the output it is the root of, or a slot.
LEMMA BufferIs ==
  ASSUME Laid, NEW t \in Node
  PROVE  /\ t \in outs => Buffer(t) = <<"caller", t>>
         /\ \A o \in Redirected(t) : Buffer(t) = <<"caller", o>>
         /\ t \notin outs /\ Redirected(t) = {} => Buffer(t) = <<"pool", Slot(t)>>
<1>1. ASSUME NEW o \in Redirected(t) PROVE Buffer(t) = <<"caller", o>>
  <2>1. Redirected(t) = {o} /\ t \notin outs
    BY RedirectedIs
  <2>2. (CHOOSE x \in Redirected(t) : TRUE) = o
    BY <2>1
  <2> QED
    BY <2>1, <2>2 DEF Buffer
<1> QED
  BY <1>1 DEF Buffer

\* A call that writes a caller's buffer is the only one that does.
LEMMA CallersBuffer ==
  ASSUME Laid, NEW p \in Workers, p \in outs \/ Redirected(p) # {}
  PROVE  \E o \in outs : Buffer(p) = <<"caller", o>> /\ graph[o].root = p
<1>1. p \in Node /\ ~IsView(p)
  BY DEF Workers, IsAlias
<1>2. graph[p].root = p
  BY <1>1, RootIs DEF Laid, RootOK
<1>3. CASE p \in outs
  BY <1>1, <1>2, <1>3, BufferIs
<1>4. CASE Redirected(p) # {}
  <2>1. PICK o \in Redirected(p) : TRUE
    BY <1>4
  <2>2. o \in outs /\ p \in graph[o].path /\ graph[o].op = "reshape" /\ Buffer(p) = <<"caller", o>>
    BY <1>1, <2>1, RedirectedIs, BufferIs
  <2>3. graph[p].root = graph[o].root
    BY <2>2, OutputChain
  <2> QED
    BY <1>2, <2>2, <2>3
<1> QED
  BY <1>3, <1>4

LEMMA SameBuffer ==
  ASSUME Laid, NEW t \in Node, MergeOf(t) = {}, NEW p \in graph[t].by
  PROVE  Buffer(p) = Buffer(t)
<1> DEFINE r == graph[t].root
<1>1. /\ Aliased /\ p \in Workers /\ p \in Node /\ Resolve(t) = r /\ Resolve(p) = r
      /\ (graph[r].op = "merge" => r \in MergeOf(p))
      /\ (graph[r].op # "merge" => p = r)
  BY WritersResolve DEF Laid, Workers
<1>2. Slot(p) = Slot(t)
  BY <1>1 DEF Slot
<1>3. /\ ~IsView(p) /\ graph[p].root = p
      /\ r \in Node /\ (~IsView(t) => r = t) /\ graph[r].root = r
  BY <1>1, RootIs DEF RootOK, Workers, IsAlias
<1> HIDE DEF r
<1>4. CASE graph[r].op = "merge"
  <2>1. p \notin outs
    BY <1>1, <1>4, OutputChain
  <2>2. Redirected(p) = {}
    <3>1. SUFFICES ASSUME NEW o \in Redirected(p) PROVE FALSE
      OBVIOUS
    <3>2. o \in outs /\ p \in graph[o].path /\ graph[o].op = "reshape"
      BY <1>1, RedirectedIs
    <3>3. o \in Node /\ graph[o].root = p
      BY <1>3, <3>2, OutputChain
    <3>4. MergeOf(p) = {}
      BY <1>1, <3>2, <3>3, RootIs DEF RootOK, IsView
    <3> QED
      BY <1>1, <1>4, <3>4
  <2>3. t \notin outs
    BY <1>3, <1>4, OutputChain DEF r
  <2>4. Redirected(t) = {}
    <3>1. SUFFICES ASSUME NEW o \in Redirected(t) PROVE FALSE
      OBVIOUS
    <3>2. o \in outs /\ t \in graph[o].path /\ graph[o].op = "reshape"
      BY RedirectedIs
    <3>3. graph[o].root = r /\ graph[graph[o].root].op # "merge"
      BY <3>2, OutputChain DEF r
    <3> QED
      BY <1>4, <3>3
  <2> QED
    BY <1>1, <1>2, <2>1, <2>2, <2>3, <2>4, BufferIs
<1>5. CASE graph[r].op # "merge"
  <2>1. p = r
    BY <1>1, <1>5
  <2>2. CASE ~IsView(t)
    BY <1>3, <2>1, <2>2
  <2>3. CASE IsView(t) /\ t \in outs
    <3>1. graph[t].op = "reshape"
      BY <2>3, OutputChain
    <3>2. p \in graph[t].path
      BY <2>1, <2>3, <3>1, OutputChain DEF r
    <3>3. t \in Redirected(p)
      BY <1>1, <2>3, <3>2, RedirectedIs
    <3> QED
      BY <1>1, <2>3, <3>3, BufferIs
  <2>4. CASE IsView(t) /\ t \notin outs
    <3>1. p \notin outs
      BY <2>1, <2>4, RootNotOut DEF r
    <3>2. ASSUME NEW o \in Redirected(t) PROVE o \in Redirected(p)
      <4>1. o \in outs /\ t \in graph[o].path /\ graph[o].op = "reshape"
        BY RedirectedIs
      <4>2. graph[o].root = p /\ p \in graph[o].path
        BY <2>1, <4>1, OutputChain DEF r
      <4> QED
        BY <1>1, <4>1, <4>2, RedirectedIs
    <3>3. ASSUME NEW o \in Redirected(p) PROVE o \in Redirected(t)
      <4>1. o \in outs /\ p \in graph[o].path /\ graph[o].op = "reshape"
        BY <1>1, RedirectedIs
      <4>2. graph[o].root = p
        BY <1>3, <4>1, OutputChain
      <4>3. t \in graph[o].path
        BY <2>1, <2>4, <4>1, <4>2, OutputChain DEF r
      <4> QED
        BY <4>1, <4>3, RedirectedIs
    <3>4. CASE Redirected(t) = {}
      BY <1>1, <1>2, <2>4, <3>1, <3>3, <3>4, BufferIs
    <3>5. CASE Redirected(t) # {}
      <4>1. PICK o \in Redirected(t) : TRUE
        BY <3>5
      <4> QED
        BY <1>1, <3>2, <4>1, BufferIs
    <3> QED
      BY <3>4, <3>5
  <2> QED
    BY <2>2, <2>3, <2>4
<1> QED
  BY <1>4, <1>5

-----------------------------------------------------------------------------
(* Live intervals.                                                           *)

\* A node starts where the list has it; the wait for a kernel comes later.
LEMMA EventsAre ==
  ASSUME Built, NEW n \in Node
  PROVE  /\ pos[n] \in Nat /\ StartEvent(n) = 2 * pos[n] + 1
         /\ DrainEvent(n) \in Nat /\ StartEvent(n) <= DrainEvent(n)
         /\ DrainEvent(n) <= 2 * Len(stream) + 1
         /\ n \notin Kernels => DrainEvent(n) = StartEvent(n)
         /\ n \in Kernels => \E k \in 1 .. Len(stream) : n \in stream[k].drained /\ DrainEvent(n) = 2 * k
<1>1. /\ Len(graph) \in Nat /\ Node = 1 .. Len(graph)
      /\ \A m \in Node : m \in Nat /\ m # 0 /\ pos[m] \in Nat /\ 1 <= pos[m] /\ pos[m] <= Len(graph)
      /\ \A a, b \in Node : pos[a] = pos[b] => a = b
  BY Placed DEF Built
<1>2. /\ DOMAIN stream = 1 .. Len(stream) /\ Len(stream) = Len(graph) + 1
      /\ \A k \in 1 .. Len(stream) : stream[k].node \in Node => pos[stream[k].node] = k
      /\ \A k \in 1 .. Len(stream) : k <= Len(graph) => stream[k].node \in Node
      /\ \A k \in 1 .. Len(stream) : stream[k].node \notin Node => stream[k].node = 0
  <2>1. stream \in Seq([node : Nat, drained : SUBSET Nat]) /\ Len(stream) = Len(graph) + 1
    BY DEF Built, Written, AllDrained
  <2> QED
    BY <1>1, <2>1, LenProperties DEF Built, Written
<1>3. pos[n] \in DOMAIN stream /\ stream[pos[n]].node = n
  <2>1. pos[n] \in 1 .. Len(stream) /\ pos[n] <= Len(graph)
    BY <1>1, <1>2
  <2>2. stream[pos[n]].node \in Node /\ pos[stream[pos[n]].node] = pos[n]
    BY <1>2, <2>1
  <2> QED
    BY <1>1, <1>2, <2>1, <2>2
<1>4. \A k \in DOMAIN stream : stream[k].node = n => k = pos[n]
  BY <1>2
<1>5. (CHOOSE k \in DOMAIN stream : stream[k].node = n) = pos[n]
  BY <1>3, <1>4
<1>6. StartEvent(n) = 2 * pos[n] + 1
  BY <1>5 DEF StartEvent
<1> DEFINE W == {k \in DOMAIN stream : n \in stream[k].drained}
<1>7. CASE W = {}
  <2>1. DrainEvent(n) = StartEvent(n)
    BY <1>7 DEF DrainEvent
  <2>2. n \notin Kernels
    <3>1. SUFFICES ASSUME n \in Kernels PROVE FALSE
      OBVIOUS
    <3>2. Drained(stream, n, Len(stream))
      BY <3>1 DEF Built, AllDrained
    <3> QED
      BY <1>2, <1>7, <3>2 DEF Drained
  <2> QED
    BY <1>1, <1>2, <1>6, <2>1, <2>2
<1>8. CASE W # {}
  <2> DEFINE k == CHOOSE i \in W : TRUE
  <2>1. k \in W /\ DrainEvent(n) = 2 * k
    BY <1>8 DEF DrainEvent
  <2> HIDE DEF k
  <2>2. k \in 1 .. Len(stream) /\ n \in stream[k].drained
    BY <1>2, <2>1
  <2>3. n \in Kernels /\ pos[n] < k
    BY <2>2 DEF Built, Waits
  <2> QED
    BY <1>1, <1>2, <1>6, <2>1, <2>2, <2>3
<1> QED
  BY <1>7, <1>8

LEMMA EarliestIs ==
  ASSUME Built, NEW S \in SUBSET Node, S # {}
  PROVE  Earliest(S) \in S /\ \A m \in S : StartEvent(Earliest(S)) <= StartEvent(m)
<1> DEFINE T == {StartEvent(m) : m \in S}
<1>1. T \in SUBSET Nat /\ T # {}
  <2>1. \A m \in S : StartEvent(m) \in Nat
    BY EventsAre
  <2> QED
    BY <2>1
<1>2. PICK x \in T : \A y \in T : x <= y
  <2> HIDE DEF T
  <2> QED
    BY <1>1, LeastNumber
<1>3. PICK n \in S : x = StartEvent(n)
  BY <1>2
<1>4. \A m \in S : StartEvent(n) <= StartEvent(m)
  BY <1>2, <1>3
<1> QED
  BY <1>4 DEF Earliest

LEMMA LastOfIs ==
  ASSUME NEW m \in Nat, NEW T \in SUBSET (0 .. m), T # {}
  PROVE  LastOf(T) \in T /\ \A d \in T : d <= LastOf(T)
BY LastNumber DEF LastOf

Stable == Built /\ Laid

\* The calls that write an owner of memory are those that write the tensor.
LEMMA WritersOf ==
  ASSUME Stable, NEW t \in Owners
  PROVE  /\ t \in Node /\ graph[t].root = t /\ ~IsView(t) /\ t \notin outs /\ MergeOf(t) = {}
         /\ Writers(t) = graph[t].by /\ Writers(t) # {} /\ Writers(t) \subseteq Node
         /\ graph[t].op # "merge" => Writers(t) = {t}
<1>1. /\ Built /\ Laid /\ Aliased /\ GraphOK(graph) /\ Len(graph) \in Nat /\ Node = 1 .. Len(graph)
  BY Nodes DEF Stable, Laid, Aliased
<1>2. t \in Node /\ ~IsView(t) /\ t \notin outs /\ MergeOf(t) = {}
  BY DEF Owners, Pieces
<1>3. graph[t].root = t
  BY <1>1, <1>2, RootIs DEF RootOK
<1>4. \A p \in graph[t].by : p \in Workers /\ Resolve(p) = t
  BY <1>1, <1>2, <1>3, WritersResolve
<1>5. ASSUME NEW w \in Writers(t) PROVE w \in graph[t].by
  <2>1. w \in Workers /\ w \in Node /\ Resolve(w) = t
    BY DEF Writers, Workers
  <2>2. CASE MergeOf(w) = {}
    <3>1. graph[w].root = w
      BY <1>1, <2>1, RootIs DEF RootOK, Workers, IsAlias
    <3>2. w = t
      BY <2>1, <2>2, <3>1 DEF Resolve
    <3>3. WorksAt(graph, t)
      BY <1>1, <2>1, <3>2, Nodes DEF Workers
    <3> QED
      BY <1>1, <1>2, <3>2, <3>3 DEF GraphOK
  <2>3. CASE MergeOf(w) # {}
    <3>1. PICK m \in MergeOf(w) : TRUE
      BY <2>3
    <3>2. m = t /\ graph[m].op = "merge" /\ w \in graph[m].ins
      BY <1>1, <2>1, <3>1, OneMerge
    <3> QED
      BY <1>1, <1>2, <3>2 DEF Aliased, AliasOK
  <2> QED
    BY <2>2, <2>3
<1>6. Writers(t) = graph[t].by
  BY <1>4, <1>5 DEF Writers
<1>7. graph[t].op # "merge" => graph[t].by = {t}
  <2>1. graph[t].op # "merge" => WorksAt(graph, t)
    BY <1>1, <1>2, Nodes DEF IsAlias
  <2> QED
    BY <1>1, <1>2, <2>1 DEF GraphOK
<1>8. graph[t].op = "merge" => graph[t].by # {}
  BY <1>1, <1>2 DEF Aliased, AliasOK
<1>9. Writers(t) \subseteq Node
  BY DEF Writers, Workers
<1> QED
  BY <1>2, <1>3, <1>6, <1>7, <1>8, <1>9

\* Who reads a tensor reads its buffer, and does so after the calls that write it.
LEMMA ReadsBuffer ==
  ASSUME Stable, NEW n \in Workers, NEW t \in graph[n].ins
  PROVE  /\ t \in Node /\ t < n /\ MergeOf(t) = {} /\ Resolve(t) = graph[t].root
         /\ \A p \in graph[t].by : p \in Node /\ p < n /\ pos[p] < pos[n]
<1>1. /\ Built /\ Aliased /\ GraphOK(graph) /\ OrderOK(graph, pos)
      /\ Len(graph) \in Nat /\ Node = 1 .. Len(graph)
      /\ \A m \in Node : m \in Nat /\ pos[m] \in Nat
  BY Placed DEF Stable, Laid, Built
<1>2. n \in Node /\ ~IsAlias(n)
  BY DEF Workers
<1>3. t \in Node /\ t < n
  BY <1>1, <1>2 DEF GraphOK
<1>4. MergeOf(t) = {}
  <2>1. SUFFICES ASSUME NEW m \in MergeOf(t) PROVE FALSE
    OBVIOUS
  <2>2. n = m /\ graph[m].op = "merge"
    BY <1>1, <1>2, <1>3, OneMerge
  <2> QED
    BY <1>2, <2>2 DEF IsAlias
<1>5. ASSUME NEW p \in graph[t].by PROVE p \in Node /\ p < n /\ pos[p] < pos[n]
  <2>1. graph[t].by \subseteq 1 .. t
    BY <1>1, <1>3 DEF GraphOK
  <2>2. p \in Node /\ p < n
    BY <1>1, <1>2, <1>3, <2>1
  <2>3. pos[p] <= pos[t] /\ pos[t] < pos[n]
    BY <1>1, <1>2, <1>3 DEF OrderOK
  <2> QED
    BY <1>1, <1>2, <1>3, <2>2, <2>3
<1> QED
  BY <1>3, <1>4, <1>5 DEF Resolve

\* So a reader that is not done keeps the buffer in use.
LEMMA ReaderUses ==
  ASSUME Stable, NEW n \in Workers, NEW t \in graph[n].ins, Resolve(t) \in Owners
  PROVE  n \in Users(Resolve(t)) /\ \A w \in Writers(Resolve(t)) : pos[w] < pos[n]
<1> DEFINE r == Resolve(t)
<1>1. t \in Node /\ r = graph[t].root /\ \A p \in graph[t].by : p < n /\ pos[p] < pos[n]
  BY ReadsBuffer
<1>2. Writers(r) = graph[r].by
  BY WritersOf
<1>3. graph[t].by = graph[r].by
  BY <1>1, RootIs DEF RootOK, Stable, Laid
<1>4. n \in Nat
  BY Nodes DEF Stable, Built, Workers
<1>5. n \notin Writers(r)
  BY <1>1, <1>2, <1>3, <1>4
<1> QED
  BY <1>1, <1>2, <1>3, <1>5 DEF Users

\* An in-place merge is read: it is no output, and the last of its names is none either.
LEMMA MergeIsUsed ==
  ASSUME Stable, NEW t \in Owners, graph[t].op = "merge"
  PROVE  Users(t) # {}
<1>1. /\ Laid /\ Aliased /\ GraphOK(graph) /\ Len(graph) \in Nat /\ Node = 1 .. Len(graph)
      /\ \A m \in Node : m \in Nat
  BY Nodes DEF Stable, Laid, Aliased
<1>2. t \in Node /\ graph[t].root = t /\ t \notin outs
  BY WritersOf
<1> DEFINE T == {x \in Node : graph[x].root = t}
<1>3. T \in SUBSET (0 .. Len(graph)) /\ T # {}
  BY <1>1, <1>2
<1>4. PICK x \in T : \A y \in T : y <= x
  <2> HIDE DEF T
  <2> QED
    BY <1>1, <1>3, LastNumber
<1>5. x \in Node /\ graph[x].root = t
  BY <1>4
<1>6. x \notin outs
  <2>1. SUFFICES ASSUME x \in outs PROVE FALSE
    OBVIOUS
  <2>2. CASE graph[x].op = "reshape"
    BY <1>1, <1>5, <2>1, <2>2, OutputChain
  <2>3. CASE graph[x].op # "reshape"
    <3>1. graph[x].root = x
      BY <1>1, <2>1, <2>3, OutputChain
    <3> QED
      BY <1>2, <1>5, <2>1, <3>1
  <2> QED
    BY <2>2, <2>3
<1>7. PICK n \in Node : x \in graph[n].ins
  <2>1. Readers(x) # {}
    BY <1>1, <1>5, <1>6 DEF Laid, OutsOK
  <2> QED
    BY <2>1 DEF Readers
<1>8. x < n
  BY <1>1, <1>7 DEF GraphOK
<1>9. n \notin T
  <2> HIDE DEF T
  <2>1. ~(n <= x)
    BY <1>1, <1>5, <1>8
  <2> QED
    BY <1>4, <2>1
<1>10. ~IsView(n)
  <2>1. SUFFICES ASSUME IsView(n) PROVE FALSE
    OBVIOUS
  <2>2. PICK src \in Node : graph[n].ins = {src} /\ graph[n].root = graph[src].root
    BY <1>1, <2>1, SourceOf
  <2> QED
    BY <1>5, <1>7, <1>9, <2>2
<1>11. graph[x].op \notin {"kernel", "sync"}
  <2>1. CASE x = t
    BY <2>1
  <2>2. CASE x # t
    <3>1. IsView(x)
      BY <1>1, <1>5, <2>2, RootIs DEF RootOK
    <3> QED
      BY <3>1 DEF IsView
  <2> QED
    BY <2>1, <2>2
<1>12. graph[n].op # "merge"
  BY <1>1, <1>7, <1>11 DEF Aliased, AliasOK
<1>13. n \in Workers
  BY <1>10, <1>12 DEF Workers, IsAlias
<1>14. Resolve(x) = t
  BY <1>5, <1>7, <1>13, ReadsBuffer
<1> QED
  BY <1>7, <1>13, <1>14, ReaderUses

\* An owner is live from before the first call that writes it to after the last that reads
\* it; and before that, its last writer has started.
LEMMA LiveIs ==
  ASSUME Stable, NEW t \in Owners
  PROVE  /\ LiveFrom(t) \in Nat /\ LiveTo(t) \in Nat /\ LiveFrom(t) <= LiveTo(t)
         /\ \A w \in Writers(t) : LiveFrom(t) <= StartEvent(w) /\ StartEvent(w) <= LiveTo(t)
         /\ \A n \in Users(t) : DrainEvent(n) <= LiveTo(t)
<1>1. Built /\ Writers(t) # {} /\ Writers(t) \subseteq Node
  BY WritersOf DEF Stable
<1> DEFINE e == Earliest(Writers(t))
<1>2. e \in Writers(t) /\ e \in Node /\ \A m \in Writers(t) : StartEvent(e) <= StartEvent(m)
  BY <1>1, EarliestIs
<1>3. \A m \in Node : /\ StartEvent(m) \in Nat /\ DrainEvent(m) \in Nat /\ StartEvent(m) <= DrainEvent(m)
                      /\ StartEvent(m) = 2 * pos[m] + 1 /\ pos[m] \in Nat
  BY <1>1, EventsAre
<1>4. LiveFrom(t) \in Nat /\ \A w \in Writers(t) : LiveFrom(t) <= StartEvent(w)
  BY <1>2, <1>3 DEF LiveFrom
<1>5. CASE Users(t) = {}
  <2>1. LiveTo(t) = DrainEvent(e)
    BY <1>5 DEF LiveTo
  <2>2. Writers(t) = {t}
    BY <1>5, MergeIsUsed, WritersOf
  <2>3. e = t
    BY <1>2, <2>2
  <2>4. \A w \in Writers(t) : StartEvent(w) <= LiveTo(t)
    BY <1>2, <1>3, <2>1, <2>2, <2>3
  <2>5. LiveTo(t) \in Nat /\ LiveFrom(t) <= LiveTo(t)
    BY <1>2, <1>3, <2>1 DEF LiveFrom
  <2> QED
    BY <1>4, <1>5, <2>4, <2>5
<1>6. CASE Users(t) # {}
  <2> DEFINE D == {DrainEvent(n) : n \in Users(t)}
             z == 2 * Len(stream) + 1
  <2>1. Users(t) \subseteq Node /\ \A n \in Users(t) : n \in Workers
    BY DEF Users, Workers
  <2>2. z \in Nat
    <3>1. stream \in Seq([node : Nat, drained : SUBSET Nat])
      BY <1>1 DEF Built, Written
    <3>2. Len(stream) \in Nat
      BY <3>1, LenProperties
    <3> QED
      BY <3>2
  <2>3. \A n \in Users(t) : DrainEvent(n) \in 0 .. z
    <3>1. \A n \in Users(t) : DrainEvent(n) \in Nat /\ DrainEvent(n) <= 2 * Len(stream) + 1
      BY <1>1, <2>1, EventsAre
    <3> QED
      BY <2>2, <3>1
  <2>4. D \in SUBSET (0 .. z) /\ D # {}
    BY <1>6, <2>3
  <2>5. LiveTo(t) = LastOf(D)
    BY <1>6 DEF LiveTo
  <2>6. LastOf(D) \in D /\ \A d \in D : d <= LastOf(D)
    <3> HIDE DEF D, z
    <3> QED
      BY <2>2, <2>4, LastOfIs
  <2>7. \A n \in Users(t) : DrainEvent(n) <= LiveTo(t)
    BY <2>5, <2>6
  <2>8. LiveTo(t) \in Nat
    BY <2>2, <2>4, <2>5, <2>6
  <2>9. PICK n \in Users(t) : TRUE
    BY <1>6
  <2>10. \A w \in Writers(t) : pos[w] < pos[n]
    <3>1. PICK s \in graph[n].ins : Resolve(s) = t
      BY <2>9 DEF Users
    <3> QED
      BY <2>1, <3>1, ReaderUses
  <2>11. ASSUME NEW w \in Writers(t) PROVE StartEvent(w) <= LiveTo(t)
    <3>1. w \in Node /\ n \in Node /\ pos[w] < pos[n]
      BY <1>1, <2>1, <2>10
    <3>2. StartEvent(w) <= StartEvent(n) /\ StartEvent(n) <= DrainEvent(n) /\ DrainEvent(n) <= LiveTo(t)
      BY <1>3, <2>7, <3>1
    <3> HIDE DEF D, z
    <3> QED
      BY <1>3, <2>8, <3>1, <3>2
  <2>12. LiveFrom(t) <= LiveTo(t)
    <3>1. LiveFrom(t) <= StartEvent(e) /\ StartEvent(e) <= LiveTo(t)
      BY <1>2, <1>4, <2>11
    <3> QED
      BY <1>2, <1>3, <1>4, <2>8, <3>1
  <2> QED
    BY <1>4, <2>7, <2>8, <2>11, <2>12
<1> QED
  BY <1>5, <1>6

-----------------------------------------------------------------------------
(* The slots.                                                                *)

\* The layout is a matter of the graph, its outputs and the events.
LEMMA SameLives ==
  ASSUME UNCHANGED <<graph, outs, stream>>
  PROVE  /\ Owners' = Owners
         /\ \A t : LiveFrom(t)' = LiveFrom(t) /\ LiveTo(t)' = LiveTo(t)
         /\ \A t, u : Apart(t, u)' <=> Apart(t, u)
<1>1. /\ Owners' = Owners /\ Workers' = Workers /\ \A t : Resolve(t)' = Resolve(t)
  BY DEF Owners, Workers, Node, Pieces, MergeOf, IsView, IsAlias, Resolve
<1>2. \A n : StartEvent(n)' = StartEvent(n)
  BY DEF StartEvent
<1>3. \A n : DrainEvent(n)' = DrainEvent(n)
  BY <1>2 DEF DrainEvent
<1>4. \A t : Writers(t)' = Writers(t)
  BY <1>1 DEF Writers
<1>5. \A t : Users(t)' = Users(t)
  BY <1>1, <1>4 DEF Users
<1>6. \A t : Earliest(Writers(t))' = Earliest(Writers(t))
  BY <1>2, <1>4 DEF Earliest
<1>7. \A t : LiveFrom(t)' = LiveFrom(t)
  BY <1>2, <1>6 DEF LiveFrom
<1>8. \A t : LiveTo(t)' = LiveTo(t)
  <2>1. \A t : {DrainEvent(n) : n \in Users(t)}' = {DrainEvent(n) : n \in Users(t)}
    BY <1>3, <1>5
  <2>2. \A t : LastOf({DrainEvent(n) : n \in Users(t)})' = LastOf({DrainEvent(n) : n \in Users(t)})
    BY <2>1 DEF LastOf
  <2>3. \A t : DrainEvent(Earliest(Writers(t)))' = DrainEvent(Earliest(Writers(t)))
    BY <1>3, <1>6
  <2> QED
    BY <1>5, <2>2, <2>3 DEF LiveTo
<1>9. \A t, u : Apart(t, u)' <=> Apart(t, u)
  BY <1>7, <1>8 DEF Apart
<1> QED
  BY <1>1, <1>7, <1>8, <1>9

LEMMA SlotsKept ==
  ASSUME SlotsOK, UNCHANGED <<graph, outs, stream, slots>>
  PROVE  SlotsOK'
<1>1. /\ Owners' = Owners /\ Node' = Node
      /\ \A t : LiveFrom(t)' = LiveFrom(t) /\ LiveTo(t)' = LiveTo(t)
      /\ \A t, u : Apart(t, u)' <=> Apart(t, u)
  BY SameLives DEF Node
<1> QED
  BY <1>1 DEF SlotsOK

\* A tensor joins tensors whose lives ended before its own begins.
LEMMA SlotTaken ==
  ASSUME Stable, SlotsOK, NEW t \in Node, Place(t)
  PROVE  SlotsOK'
<1> DEFINE Slots == [end : Nat, tensors : SUBSET Node]
<1>1. UNCHANGED <<graph, outs, stream>> /\ t \in Owners
  BY DEF Place, Unplaced, streamVars, graphVars, emitVars
<1>2. LiveFrom(t) \in Nat /\ LiveTo(t) \in Nat /\ LiveFrom(t) <= LiveTo(t)
  BY <1>1, LiveIs
<1>3. /\ Owners' = Owners /\ Node' = Node
      /\ \A u : LiveFrom(u)' = LiveFrom(u) /\ LiveTo(u)' = LiveTo(u)
      /\ \A u, v : Apart(u, v)' <=> Apart(u, v)
  BY <1>1, SameLives DEF Node
<1>4. /\ slots \in Seq(Slots) /\ Len(slots) \in Nat /\ DOMAIN slots = 1 .. Len(slots)
      /\ \A i \in 1 .. Len(slots) : slots[i].end \in Nat /\ slots[i].tensors \in SUBSET Node
  <2>1. slots \in Seq(Slots)
    BY DEF SlotsOK
  <2>2. \A i \in 1 .. Len(slots) : slots[i] \in Slots
    BY <2>1, ElementOfSeq
  <2> QED
    BY <2>1, <2>2, LenProperties
<1> DEFINE Fits(e, T) == \A u \in T : /\ u \in Owners /\ LiveTo(u) <= e
                                      /\ \A v \in T : u # v => Apart(u, v)
<1>5. \A i \in 1 .. Len(slots) : Fits(slots[i].end, slots[i].tensors)
  BY DEF SlotsOK
<1>6. ASSUME NEW i \in DOMAIN slots, Free(i, t)
      PROVE  Fits(LiveTo(t), slots[i].tensors \cup {t})
  <2>1. \A u \in slots[i].tensors : /\ LiveTo(u) < LiveFrom(t) /\ LiveTo(u) <= LiveTo(t)
                                    /\ u \in Owners
    <3>1. SUFFICES ASSUME NEW u \in slots[i].tensors
                   PROVE  LiveTo(u) < LiveFrom(t) /\ LiveTo(u) <= LiveTo(t) /\ u \in Owners
      OBVIOUS
    <3>2. u \in Owners /\ LiveTo(u) <= slots[i].end /\ slots[i].end < LiveFrom(t)
      BY <1>4, <1>5, <1>6 DEF Free
    <3>3. LiveTo(u) \in Nat
      BY <3>2, LiveIs
    <3> QED
      BY <1>2, <1>4, <1>6, <3>2, <3>3
  <2>2. \A u \in slots[i].tensors : Apart(u, t) /\ Apart(t, u)
    BY <2>1 DEF Apart
  <2> QED
    BY <1>1, <1>2, <1>4, <1>5, <2>1, <2>2
<1>7. Fits(LiveTo(t), {t})
  BY <1>1, <1>2
<1> HIDE DEF Fits
<1>8. CASE \E i \in DOMAIN slots :
             /\ Free(i, t)
             /\ slots' = [slots EXCEPT ![i] = [end |-> LiveTo(t), tensors |-> @.tensors \cup {t}]]
  <2>1. PICK i \in DOMAIN slots :
             /\ Free(i, t)
             /\ slots' = [slots EXCEPT ![i] = [end |-> LiveTo(t), tensors |-> @.tensors \cup {t}]]
    BY <1>8
  <2> DEFINE new == [end |-> LiveTo(t), tensors |-> slots[i].tensors \cup {t}]
  <2>2. new \in Slots /\ new.end = LiveTo(t) /\ new.tensors = slots[i].tensors \cup {t}
    BY <1>2, <1>4
  <2>3. slots' = [slots EXCEPT ![i] = new]
    BY <2>1
  <2> HIDE DEF new
  <2>4. slots' \in Seq(Slots) /\ Len(slots') = Len(slots)
    BY <1>4, <2>2, <2>3, ExceptSeq
  <2>5. \A k \in 1 .. Len(slots) : slots'[k] = IF k = i THEN new ELSE slots[k]
    BY <1>4, <2>3
  <2>6. Fits(new.end, new.tensors)
    BY <1>6, <2>1, <2>2
  <2>7. \A k \in 1 .. Len(slots') : Fits(slots'[k].end, slots'[k].tensors)
    BY <1>5, <2>4, <2>5, <2>6
  <2> QED
    BY <1>3, <2>4, <2>7 DEF SlotsOK, Fits
<1>9. CASE slots' = Append(slots, [end |-> LiveTo(t), tensors |-> {t}])
  <2> DEFINE new == [end |-> LiveTo(t), tensors |-> {t}]
  <2>1. new \in Slots /\ new.end = LiveTo(t) /\ new.tensors = {t}
    BY <1>2
  <2>2. slots' = Append(slots, new)
    BY <1>9
  <2> HIDE DEF new
  <2>3. /\ slots' \in Seq(Slots) /\ Len(slots') = Len(slots) + 1
        /\ slots'[Len(slots) + 1] = new /\ \A k \in 1 .. Len(slots) : slots'[k] = slots[k]
    BY <1>4, <2>1, <2>2, AppendProperties
  <2>4. \A k \in 1 .. Len(slots') : k = Len(slots) + 1 \/ k \in 1 .. Len(slots)
    BY <1>4, <2>3
  <2>5. \A k \in 1 .. Len(slots') : Fits(slots'[k].end, slots'[k].tensors)
    BY <1>5, <1>7, <2>1, <2>3, <2>4
  <2> QED
    BY <1>3, <2>3, <2>5 DEF SlotsOK, Fits
<1> QED
  BY <1>8, <1>9 DEF Place

-----------------------------------------------------------------------------
(* The run.                                                                  *)

\* A node whose wait comes before the call that begins is done.
LEMMA DrainedBefore ==
  ASSUME Stable, Running, NEW m \in Workers, At(m), NEW n \in Workers, DrainEvent(n) < StartEvent(m)
  PROVE  n \in done
<1>1. /\ Built /\ m \in Node /\ n \in Node /\ pos[m] = pc /\ pc \in 1 .. Len(stream)
      /\ \A k \in 1 .. Len(stream) : k < pc + 1 => stream[k].drained \subseteq done
      /\ \A b \in running : b \in Kernels
  BY Reached DEF Stable, Workers
<1>2. /\ StartEvent(m) = 2 * pc + 1 /\ pc \in Nat
      /\ StartEvent(n) = 2 * pos[n] + 1 /\ pos[n] \in Nat
  BY <1>1, EventsAre
<1>3. CASE n \in Kernels
  <2>1. PICK k \in 1 .. Len(stream) : n \in stream[k].drained /\ DrainEvent(n) = 2 * k
    BY <1>1, <1>3, EventsAre
  <2>2. k < pc + 1
    BY <1>2, <2>1
  <2> QED
    BY <1>1, <2>1, <2>2
<1>4. CASE n \notin Kernels
  <2>1. DrainEvent(n) = StartEvent(n)
    BY <1>1, <1>4, EventsAre
  <2>2. pos[n] < pc
    BY <1>2, <2>1
  <2>3. n \in running \cup done
    BY <2>2 DEF Running
  <2> QED
    BY <1>1, <1>4, <2>3
<1> QED
  BY <1>3, <1>4

\* What lives in the pool has a slot once every owner is placed.
LEMMA InSlot ==
  ASSUME Stable, SlotsOK, Ready, NEW p \in Workers, p \notin outs
  PROVE  /\ Resolve(p) \in Owners /\ p \in Writers(Resolve(p))
         /\ Slot(p) \in 1 .. Len(slots) /\ Resolve(p) \in slots[Slot(p)].tensors
<1>1. Laid /\ Aliased /\ Node = 1 .. Len(graph) /\ p \in Node /\ ~IsAlias(p)
  BY Nodes DEF Stable, Laid, Aliased, Workers
<1>2. Resolve(p) \in Owners
  <2>1. CASE MergeOf(p) = {}
    <3>1. Resolve(p) = p
      BY <1>1, <2>1, RootIs DEF Resolve, RootOK, IsAlias
    <3> QED
      BY <1>1, <2>1, <3>1 DEF Owners, Pieces, IsAlias
  <2>2. CASE MergeOf(p) # {}
    <3>1. PICK m \in MergeOf(p) : TRUE
      BY <2>2
    <3>2. m \in Node /\ graph[m].op = "merge" /\ Resolve(p) = m
      BY <1>1, <3>1, OneMerge
    <3>3. m \notin outs /\ ~IsView(m)
      BY <1>1, <3>2, OutputChain DEF IsView
    <3>4. m \notin Pieces
      <4>1. SUFFICES ASSUME NEW k \in MergeOf(m) PROVE FALSE
        BY DEF Pieces
      <4> QED
        BY <1>1, <3>2, <4>1, OneMerge
    <3> QED
      BY <3>2, <3>3, <3>4 DEF Owners
  <2> QED
    BY <2>1, <2>2
<1>3. PICK i \in DOMAIN slots : Resolve(p) \in slots[i].tensors
  BY <1>2 DEF Ready, Unplaced
<1>4. Slot(p) \in DOMAIN slots /\ Resolve(p) \in slots[Slot(p)].tensors
  BY <1>3 DEF Slot
<1>5. DOMAIN slots = 1 .. Len(slots)
  BY LenProperties DEF SlotsOK
<1>6. p \in Writers(Resolve(p))
  BY DEF Writers
<1> QED
  BY <1>2, <1>4, <1>5, <1>6

LEMMA OnePlace ==
  ASSUME NEW a, NEW b, NEW x, NEW y, <<a, x>> = <<b, y>>
  PROVE  a = b /\ x = y
OBVIOUS

\* No call writes where something wanted lies: the caller's buffers have one writer each;
\* in a slot, the readers' waits come before the next tensor's first call.
LEMMA WantedSpared ==
  ASSUME Stable, SlotsOK, Ready, Running, NEW m \in Workers, At(m),
         NEW t \in Node, Wanted(t), NEW p \in graph[t].by, p \in running \cup done,
         Buffer(p) = Buffer(m), MergeOf(p) \cap MergeOf(m) = {}
  PROVE  FALSE
<1>1. /\ Built /\ Laid /\ Aliased /\ m \in Node /\ m \notin running \cup done /\ pos[m] = pc
  BY Reached DEF Stable, Laid, Workers
<1>2. MergeOf(t) = {}
  <2>1. CASE t \in outs
    BY <1>1, <2>1, OutputChain
  <2>2. CASE \E n \in Workers \ done : t \in graph[n].ins
    BY <2>2, ReadsBuffer
  <2> QED
    BY <2>1, <2>2 DEF Wanted
<1>3. p \in Workers /\ p \in Node /\ p # m /\ pos[p] < pos[m]
  <2>1. p \in Workers
    BY <1>1, <1>2, WritersResolve
  <2>2. pos[p] < pc
    BY <2>1 DEF Running
  <2> QED
    BY <1>1, <2>1, <2>2 DEF Workers
<1>4. Buffer(p) = Buffer(t) /\ Resolve(t) = Resolve(p)
  BY <1>1, <1>2, SameBuffer, WritersResolve
<1>5. CASE p \in outs \/ Redirected(p) # {}
  <2>1. PICK o \in outs : Buffer(p) = <<"caller", o>> /\ graph[o].root = p
    BY <1>1, <1>3, <1>5, CallersBuffer
  <2>2. m \in outs \/ Redirected(m) # {}
    <3>1. SUFFICES ASSUME m \notin outs, Redirected(m) = {} PROVE FALSE
      OBVIOUS
    <3>2. Buffer(m) = <<"pool", Slot(m)>>
      BY <1>1, <3>1, BufferIs
    <3>3. <<"pool", Slot(m)>> = <<"caller", o>>
      BY <2>1, <3>2, Zenon
    <3>4. "pool" = "caller"
      BY <3>3, OnePlace
    <3> QED
      BY <3>4
  <2>3. PICK u \in outs : Buffer(m) = <<"caller", u>> /\ graph[u].root = m
    BY <1>1, <2>2, CallersBuffer
  <2>4. o = u
    <3>1. <<"caller", o>> = <<"caller", u>>
      BY <2>1, <2>3, Zenon
    <3> QED
      BY <3>1, OnePlace
  <2> QED
    BY <1>3, <2>1, <2>3, <2>4
<1>6. CASE p \notin outs /\ Redirected(p) = {}
  <2>1. Buffer(p) = <<"pool", Slot(p)>>
    BY <1>1, <1>3, <1>6, BufferIs
  <2>2. m \notin outs /\ Redirected(m) = {}
    <3>1. SUFFICES ASSUME m \in outs \/ Redirected(m) # {} PROVE FALSE
      OBVIOUS
    <3>2. PICK o \in outs : Buffer(m) = <<"caller", o>>
      BY <1>1, <3>1, CallersBuffer
    <3>3. <<"pool", Slot(p)>> = <<"caller", o>>
      BY <2>1, <3>2, Zenon
    <3>4. "pool" = "caller"
      BY <3>3, OnePlace
    <3> QED
      BY <3>4
  <2>3. t \notin outs
    <3>1. SUFFICES ASSUME t \in outs PROVE FALSE
      OBVIOUS
    <3>2. Buffer(t) = <<"caller", t>>
      BY <1>1, <3>1, BufferIs
    <3>3. <<"pool", Slot(p)>> = <<"caller", t>>
      BY <1>4, <2>1, <3>2, Zenon
    <3>4. "pool" = "caller"
      BY <3>3, OnePlace
    <3> QED
      BY <3>4
  <2>4. PICK n \in Workers \ done : t \in graph[n].ins
    BY <2>3 DEF Wanted
  <2> DEFINE T == Resolve(p)
             U == Resolve(m)
             i == Slot(p)
  <2>5. /\ T \in Owners /\ p \in Writers(T) /\ i \in 1 .. Len(slots) /\ T \in slots[i].tensors
    BY <1>3, <1>6, InSlot
  <2>6. Slot(p) = Slot(m)
    <3>1. Buffer(m) = <<"pool", Slot(m)>>
      BY <1>1, <2>2, BufferIs
    <3>2. <<"pool", Slot(p)>> = <<"pool", Slot(m)>>
      BY <2>1, <3>1, Zenon
    <3> QED
      BY <3>2, OnePlace
  <2>7. U \in Owners /\ m \in Writers(U) /\ U \in slots[i].tensors
    BY <2>2, <2>6, InSlot
  <2>8. T # U
    <3>1. SUFFICES ASSUME T = U PROVE FALSE
      OBVIOUS
    <3>2. p \in graph[T].by /\ m \in graph[T].by /\ T \in Node /\ graph[T].root = T /\ MergeOf(T) = {}
      BY <2>5, <2>7, <3>1, WritersOf
    <3>3. graph[T].op = "merge" => T \in MergeOf(p) /\ T \in MergeOf(m)
      BY <1>1, <3>2, WritersResolve
    <3>4. graph[T].op # "merge" => p = T /\ m = T
      BY <1>1, <3>2, WritersResolve
    <3> QED
      BY <1>3, <3>3, <3>4
  <2>9. Apart(T, U)
    BY <2>5, <2>7, <2>8 DEF SlotsOK
  <2>10. n \in Users(T)
    BY <1>4, <2>4, <2>5, ReaderUses
  <2>11. /\ LiveTo(T) \in Nat /\ LiveFrom(T) <= StartEvent(p) /\ DrainEvent(n) <= LiveTo(T)
         /\ LiveTo(U) \in Nat /\ LiveFrom(U) <= StartEvent(m) /\ StartEvent(m) <= LiveTo(U)
         /\ LiveFrom(T) \in Nat /\ LiveFrom(U) \in Nat
    BY <2>5, <2>7, <2>10, LiveIs
  <2>12. /\ StartEvent(p) = 2 * pos[p] + 1 /\ StartEvent(m) = 2 * pos[m] + 1
         /\ pos[p] \in Nat /\ pos[m] \in Nat
    BY <1>1, <1>3, EventsAre
  <2>13. n \in Node /\ DrainEvent(n) \in Nat
    BY <1>1, <2>4, EventsAre DEF Workers
  <2> HIDE DEF T, U, i
  <2>14. CASE LiveTo(T) < LiveFrom(U)
    <3>1. DrainEvent(n) < StartEvent(m)
      BY <2>11, <2>12, <2>13, <2>14
    <3> QED
      BY <2>4, <3>1, DrainedBefore
  <2>15. CASE LiveTo(U) < LiveFrom(T)
    BY <1>3, <2>11, <2>12, <2>15
  <2> QED
    BY <2>9, <2>14, <2>15 DEF Apart
<1> QED
  BY <1>5, <1>6

-----------------------------------------------------------------------------
(* The layout's invariant.                                                    *)

LEMMA SameKept ==
  ASSUME Kept, UNCHANGED <<graph, outs, running, done, intact>>
  PROVE  Kept'
<1>1. Workers' = Workers /\ Node' = Node
  BY DEF Workers, Node, IsAlias, IsView
<1>2. \A t : Wanted(t)' <=> Wanted(t)
  BY <1>1 DEF Wanted
<1> QED
  BY <1>1, <1>2 DEF Kept

LEMMA SameAliases == ASSUME AliasOK(graph), UNCHANGED graph PROVE AliasOK(graph)'
<1>1. AliasOK(graph')
  OBVIOUS
<1> QED
  BY <1>1 DEF AliasOK

LEMMA CompileLaid ==
  ASSUME AnyAlias = FALSE, StreamInv, LayoutInv, Compile, UNCHANGED <<slots, intact>>
  PROVE  LayoutInv'
<1>1. GraphOK(graph) /\ AliasOK(graph) /\ Aliased
  BY DEF StreamInv, LayoutInv, Aliased
<1>2. ASSUME AddNode PROVE LayoutInv'
  <2>1. phase = "build" /\ phase' = "build" /\ AliasOK(graph')
    BY <1>1, <1>2, AliasAdded DEF AddNode
  <2> QED
    BY <2>1 DEF LayoutInv
<1>3. ASSUME CloseGraph PROVE LayoutInv'
  <2>1. phase = "build" /\ phase' = "order" /\ UNCHANGED graph
    BY <1>3 DEF CloseGraph
  <2>2. OutsOK' /\ AliasOK(graph)'
    BY <1>1, <1>3, <2>1, OutsClosed, SameAliases
  <2> QED
    BY <2>1, <2>2 DEF LayoutInv
<1>4. ASSUME NEW v \in Node, NEW j \in Node, Hoist(v, j) PROVE LayoutInv'
  <2>1. phase = "order" /\ phase' = "order" /\ UNCHANGED <<graph, outs>>
    BY <1>4 DEF Hoist
  <2>2. OutsOK' /\ AliasOK(graph)'
    BY <1>1, <2>1, SameOuts, SameAliases DEF LayoutInv
  <2> QED
    BY <2>1, <2>2 DEF LayoutInv
<1>5. ASSUME NEW n \in Node, Emit(n) PROVE LayoutInv'
  <2>1. phase \in {"order", "emit"} /\ phase' = "emit" /\ UNCHANGED <<graph, outs>>
    BY <1>5 DEF Emit, graphVars
  <2>2. OutsOK' /\ AliasOK(graph)'
    BY <1>1, <2>1, SameOuts, SameAliases DEF LayoutInv
  <2> QED
    BY <2>1, <2>2 DEF LayoutInv
<1>6. ASSUME Drain PROVE LayoutInv'
  <2>1. /\ phase = "emit" /\ phase' = "run" /\ UNCHANGED <<graph, outs, running, done>>
        /\ running = {} /\ done = {}
    BY <1>6 DEF Drain, graphVars, runVars, StreamInv, NotRun
  <2>2. OutsOK' /\ AliasOK(graph)'
    BY <1>1, <2>1, SameOuts, SameAliases DEF LayoutInv
  <2>3. slots' = <<>>
    BY <2>1 DEF LayoutInv
  <2>4. SlotsOK'
    BY <2>3, EmptySeq DEF SlotsOK
  <2>5. Kept'
    BY <2>1 DEF Kept
  <2> QED
    BY <2>1, <2>2, <2>4, <2>5 DEF LayoutInv
<1> QED
  BY <1>2, <1>3, <1>4, <1>5, <1>6 DEF Compile

LEMMA Steady == ASSUME StreamInv, LayoutInv, phase \in {"run", "returned"} PROVE Stable /\ SlotsOK /\ Kept /\ Running
BY DEF StreamInv, LayoutInv, Stable, Built, Laid, Aliased

LEMMA PlaceLaid ==
  ASSUME StreamInv, LayoutInv, NEW t \in Node, Place(t)
  PROVE  LayoutInv'
<1>1. /\ phase = "run" /\ UNCHANGED <<phase, graph, outs, stream, running, done, intact>>
  BY DEF Place, streamVars, graphVars, emitVars, runVars
<1>2. Stable /\ SlotsOK /\ Kept
  BY <1>1, Steady
<1>3. SlotsOK' /\ Kept'
  BY <1>1, <1>2, SlotTaken, SameKept
<1>4. OutsOK' /\ AliasOK(graph)'
  BY <1>1, SameOuts, SameAliases DEF LayoutInv
<1> QED
  BY <1>1, <1>3, <1>4 DEF LayoutInv

LEMMA WriteLaid ==
  ASSUME StreamInv, LayoutInv, NEW m \in Node, Write(m), UNCHANGED <<graphVars, emitVars, slots>>
  PROVE  LayoutInv'
<1>1. /\ Ready /\ At(m) /\ m \in Workers /\ phase = "run"
      /\ UNCHANGED <<phase, graph, outs, stream, done, slots>>
      /\ running' = running \cup {m} /\ intact' = (intact \ Overwritten(m)) \cup {m}
  BY DEF Write, Start, Call, At, Workers, IsAlias, IsView, graphVars, emitVars
<1>2. Stable /\ SlotsOK /\ Kept /\ Running
  BY <1>1, Steady
<1>3. SlotsOK'
  BY <1>1, <1>2, SlotsKept
<1>4. OutsOK' /\ AliasOK(graph)'
  BY <1>1, SameOuts, SameAliases DEF LayoutInv
<1>5. Workers' = Workers /\ Node' = Node
  BY <1>1 DEF Workers, Node, IsAlias, IsView
<1>6. \A t : Wanted(t)' <=> Wanted(t)
  BY <1>1, <1>5 DEF Wanted
<1>7. ASSUME NEW t \in Node, Wanted(t), NEW p \in graph[t].by, p \in running \cup done
      PROVE  p \in intact'
  <2>1. p \in intact
    BY <1>2, <1>7 DEF Kept
  <2>2. p \notin Overwritten(m)
    BY <1>1, <1>2, <1>7, WantedSpared DEF Overwritten
  <2> QED
    BY <1>1, <2>1, <2>2
<1>8. Kept'
  BY <1>1, <1>5, <1>6, <1>7 DEF Kept
<1> QED
  BY <1>1, <1>3, <1>4, <1>8 DEF LayoutInv

LEMMA OtherLaid ==
  ASSUME StreamInv, LayoutInv, NEW n \in Node, Other(n), UNCHANGED <<graphVars, emitVars, slots>>
  PROVE  LayoutInv'
<1>1. /\ UNCHANGED <<phase, graph, outs, stream, slots, intact>>
      /\ \/ UNCHANGED <<running, done>>
         \/ n \in running /\ running' = running \ {n} /\ done' = done \cup {n}
  BY DEF Other, Skip, Finish, graphVars, emitVars
<1>2. AliasOK(graph)' /\ (phase # "build" => OutsOK')
  BY <1>1, SameOuts, SameAliases DEF LayoutInv
<1>3. CASE phase \in {"run", "returned"}
  <2>1. SlotsOK /\ Kept
    BY <1>3, Steady
  <2>2. Workers' = Workers /\ Node' = Node
    BY <1>1 DEF Workers, Node, IsAlias, IsView
  <2>3. \A t : Wanted(t)' => Wanted(t)
    BY <1>1, <2>2 DEF Wanted
  <2>4. running' \cup done' = running \cup done
    BY <1>1
  <2>5. Kept'
    BY <1>1, <2>1, <2>2, <2>3, <2>4 DEF Kept
  <2>6. SlotsOK'
    BY <1>1, <2>1, SlotsKept
  <2> QED
    BY <1>1, <1>2, <1>3, <2>5, <2>6 DEF LayoutInv
<1>4. CASE phase \notin {"run", "returned"}
  BY <1>1, <1>2, <1>4 DEF LayoutInv
<1> QED
  BY <1>3, <1>4

\* Steps that leave the memory and the run alone.
LEMMA LaidKept ==
  ASSUME StreamInv, LayoutInv,
         phase' = phase \/ (phase = "run" /\ phase' = "returned"),
         UNCHANGED <<graph, outs, stream, running, done, slots, intact>>
  PROVE  LayoutInv'
<1>1. AliasOK(graph)' /\ (phase # "build" => OutsOK')
  BY SameOuts, SameAliases DEF LayoutInv
<1>2. phase \in {"run", "returned"} => SlotsOK' /\ Kept'
  BY Steady, SlotsKept, SameKept
<1> QED
  BY <1>1, <1>2 DEF LayoutInv

\* The next inference finds the layout as it was and nothing written yet.
LEMMA RepeatLaid ==
  ASSUME StreamInv, LayoutInv, Repeat, UNCHANGED <<graphVars, emitVars, slots>>
  PROVE  LayoutInv'
<1>1. /\ phase = "returned" /\ phase' = "run" /\ running' = {} /\ done' = {}
      /\ UNCHANGED <<graph, outs, stream, slots>>
  BY DEF Repeat, Again, graphVars, emitVars, StreamInv
<1>2. AliasOK(graph)' /\ OutsOK'
  BY <1>1, SameOuts, SameAliases DEF LayoutInv
<1>3. SlotsOK'
  BY <1>1, Steady, SlotsKept
<1>4. Kept'
  BY <1>1 DEF Kept
<1> QED
  BY <1>1, <1>2, <1>3, <1>4 DEF LayoutInv

LEMMA LayoutStep ==
  ASSUME AnyAlias = FALSE, StreamInv, LayoutInv, [Next]_vars
  PROVE  LayoutInv'
<1>1. ASSUME UNCHANGED vars PROVE LayoutInv'
  <2>1. UNCHANGED <<phase, graph, outs, stream, running, done, slots, intact>>
    BY <1>1 DEF vars, streamVars, graphVars, emitVars, runVars
  <2> QED
    BY <2>1, LaidKept
<1>2. ASSUME Return, UNCHANGED <<graphVars, emitVars, slots, intact>> PROVE LayoutInv'
  <2>1. /\ phase = "run" /\ phase' = "returned"
        /\ UNCHANGED <<graph, outs, stream, running, done, slots, intact>>
    BY <1>2 DEF Return, At, graphVars, emitVars, runVars
  <2> QED
    BY <2>1, LaidKept
<1>3. ASSUME NEW n \in Node, Write(n) \/ Other(n), UNCHANGED <<graphVars, emitVars, slots>>
      PROVE  LayoutInv'
  BY <1>3, WriteLaid, OtherLaid
<1> QED
  BY <1>1, <1>2, <1>3, CompileLaid, PlaceLaid, RepeatLaid DEF Next

LEMMA LayoutStart == ASSUME Init PROVE LayoutInv
<1>1. graph = <<>> /\ phase = "build" /\ slots = <<>>
  BY DEF Init, StreamInit
<1>2. 1 .. Len(graph) = {}
  BY <1>1, EmptySeq
<1> QED
  BY <1>1, <1>2 DEF LayoutInv, AliasOK

LEMMA LayoutSafe == ASSUME StreamInv, LayoutInv PROVE InputsIntact /\ OutputsWritten
<1>1. ASSUME phase = "run", NEW n \in running, NEW t \in graph[n].ins PROVE InPlace(t)
  <2>1. Stable /\ Laid /\ Kept /\ Running
    BY <1>1, Steady DEF Stable
  <2>2. n \in Workers /\ n \notin done
    BY <2>1 DEF Running
  <2>3. t \in Node /\ MergeOf(t) = {}
    BY <2>1, <2>2, ReadsBuffer
  <2>4. graph[t].by \subseteq done
    BY <2>1 DEF Running, ProducersDone
  <2>5. Wanted(t)
    BY <2>2 DEF Wanted
  <2>6. \A p \in graph[t].by : p \in intact /\ Buffer(p) = Buffer(t)
    BY <2>1, <2>3, <2>4, <2>5, SameBuffer DEF Kept
  <2> QED
    BY <2>6 DEF InPlace
<1>2. ASSUME phase = "returned", NEW o \in outs PROVE InPlace(o)
  <2>1. Stable /\ Laid /\ Aliased /\ Kept
    BY <1>2, Steady DEF Stable, Laid
  <2>2. o \in Node /\ MergeOf(o) = {}
    BY <2>1, OutputChain
  <2>3. graph[o].by \subseteq Workers
    BY <2>1, <2>2, WritersResolve
  <2>4. done = Workers
    BY <1>2, StreamSafe DEF ReturnsDrained, Workers
  <2>5. Wanted(o)
    BY DEF Wanted
  <2>6. \A p \in graph[o].by : p \in intact /\ Buffer(p) = Buffer(o)
    BY <2>1, <2>2, <2>3, <2>4, <2>5, SameBuffer DEF Kept
  <2> QED
    BY <2>6 DEF InPlace
<1> QED
  BY <1>1, <1>2 DEF InputsIntact, OutputsWritten

\* What has a slot, and what is still to be read: LayoutInv above.  Without the restriction
\* on the outputs it is false: the run OutputRedirect shows a graph that compiles and reads
\* from a buffer nothing was written to.
THEOREM LayoutInvariant == ASSUME AnyAlias = FALSE PROVE Spec => []LayoutInv
<1>1. Init => LayoutInv
  BY LayoutStart
<1>2. StreamInv /\ LayoutInv /\ [Next]_vars => LayoutInv'
  BY LayoutStep
<1> QED
  BY <1>1, <1>2, StreamInvariant, PTL DEF Spec

\* Tensors that share a slot never meet: what a node reads is whole in the buffer it reads it
\* from until it is done, however long the kernels before and beside it take, in every
\* inference on a pool that holds what the one before left
\* (_compute_live_intervals, _compute_intermediate_layout).
THEOREM ReadersFindTheirInputs == ASSUME AnyAlias = FALSE PROVE Spec => []InputsIntact
<1>1. StreamInv /\ LayoutInv => InputsIntact
  BY LayoutSafe
<1> QED
  BY <1>1, StreamInvariant, LayoutInvariant, PTL

\* Whenever inference_run() returns, the caller's buffers hold its outputs: the pointers it turned
\* to them were those of the calls that write the outputs (_output_aliases).
THEOREM CallersGetOutputs == ASSUME AnyAlias = FALSE PROVE Spec => []OutputsWritten
<1>1. StreamInv /\ LayoutInv => OutputsWritten
  BY LayoutSafe
<1> QED
  BY <1>1, StreamInvariant, LayoutInvariant, PTL
=============================================================================
