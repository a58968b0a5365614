---------------------------- MODULE MCPoolLayout -----------------------------
(* Graphs with long lives, wide graphs, and graphs with a persistent state.  *)
EXTENDS PoolLayout, TLC

Bounds(nodes, ops, inputs, outputs, touch, moves) ==
  [nodes |-> nodes, ops |-> ops, inputs |-> inputs, outs |-> outputs, touch |-> touch, hoists |-> moves]

MCSizes == {Bounds(5, Ops \ {"sync", "view"}, 2, 1, 0, 0)}
           \cup {Bounds(4, Ops, 2, 2, 0, 1)}
           \cup {Bounds(3, Ops, 2, 2, 2, 1)}

\* Kernels are interchangeable.
LaneSymmetry == Permutations(Lanes)
==============================================================================
