----------------------------- MODULE PoolLayout ------------------------------
(***************************************************************************)
(* Where the tensors of a graph live: pool slots shared by tensors whose      *)
(* lives in the event stream do not meet (_compute_live_intervals() and       *)
(* _compute_intermediate_layout() of src/codegen/_core.py), the addresses     *)
(* aliases get in inference_init(), and the pointers inference_run() turns    *)
(* to the caller's output buffers.                                           *)
(***************************************************************************)
EXTENDS EventStream

VARIABLES
  slots,   \* the slots: the event until which each is taken, and its tensors
  intact   \* nodes whose output of this inference is still in the buffer they wrote it to

vars == <<streamVars, slots, intact>>

------------------------------------------------------------------------------
(* Live intervals, in events: the waits of entry k come at 2k, its Start or   *)
(* call at 2k + 1.                                                          *)

StartEvent(n) == 2 * (CHOOSE k \in DOMAIN stream : stream[k].node = n) + 1
DrainEvent(n) == LET waits == {k \in DOMAIN stream : n \in stream[k].drained}
                 IN  IF waits = {} THEN StartEvent(n) ELSE 2 * CHOOSE k \in waits : TRUE

\* The pool's tensors that own memory.
Owners == {t \in Node \ (outs \cup Pieces) : ~IsView(t)}

Workers == {n \in Node : ~IsAlias(n)}
Writers(t) == {n \in Workers : Resolve(n) = t}
Users(t)   == {n \in Workers \ Writers(t) : \E s \in graph[n].ins : Resolve(s) = t}

Earliest(ns) == CHOOSE n \in ns : \A m \in ns : StartEvent(n) <= StartEvent(m)
LastOf(es)   == CHOOSE e \in es : \A d \in es : d <= e

LiveFrom(t) == StartEvent(Earliest(Writers(t)))

\* (mutant) a tensor is given up when its last user starts.
LiveToStart(t) == IF Users(t) = {} THEN DrainEvent(Earliest(Writers(t)))
                  ELSE LastOf({StartEvent(n) : n \in Users(t)})

LiveTo(t)   == IF Users(t) = {} THEN DrainEvent(Earliest(Writers(t)))
               ELSE LastOf({DrainEvent(n) : n \in Users(t)})

------------------------------------------------------------------------------
(* Slots: in the order in which they become live, each tensor takes the first *)
(* slot that is free before its life starts.                                 *)

Unplaced == Owners \ UNION {slots[i].tensors : i \in DOMAIN slots}
Free(i, t) == slots[i].end < LiveFrom(t)

Place(t) ==
  /\ phase = "run" /\ t \in Unplaced
  /\ \A u \in Unplaced : LiveFrom(t) <= LiveFrom(u)
  /\ \/ \E i \in DOMAIN slots :
          /\ Free(i, t) /\ \A h \in 1 .. i - 1 : ~Free(h, t)
          /\ slots' = [slots EXCEPT ![i] = [end |-> LiveTo(t), tensors |-> @.tensors \cup {t}]]
     \/ /\ \A i \in DOMAIN slots : ~Free(i, t)
        /\ slots' = Append(slots, [end |-> LiveTo(t), tensors |-> {t}])
  /\ UNCHANGED <<streamVars, intact>>

------------------------------------------------------------------------------
(* Buffers during the run.  A tensor's pointer is its slot, or that of the    *)
(* buffer it is an alias of, except on a chain of reshapes that ends in an    *)
(* output: there inference_run() sets it to the caller's buffer.             *)

Slot(t) == CHOOSE i \in DOMAIN slots : Resolve(t) \in slots[i].tensors

Redirected(t) == {o \in outs : t \in Chain(o, outs)}

Buffer(t) == IF t \in outs THEN <<"caller", t>>
             ELSE IF Redirected(t) # {} THEN <<"caller", CHOOSE o \in Redirected(t) : TRUE>>
             ELSE <<"pool", Slot(t)>>

\* n overwrites what others left in its buffer, but for the other pieces of a merge.
Overwritten(n) == {m \in intact : Buffer(m) = Buffer(n) /\ MergeOf(m) \cap MergeOf(n) = {}}

Ready == Unplaced = {}

Write(n) == Ready /\ (Start(n) \/ Call(n)) /\ intact' = (intact \ Overwritten(n)) \cup {n}
\* The pointers are restored, and what the pool holds is of the last inference.
Repeat == Again /\ intact' = {}

Other(n) == Ready /\ (Skip(n) \/ Finish(n)) /\ intact' = intact

------------------------------------------------------------------------------
Init == StreamInit /\ slots = <<>> /\ intact = {}

Next ==
  \/ Compile /\ UNCHANGED <<slots, intact>>
  \/ \E t \in Node : Place(t)
  \/ \E n \in Node : (Write(n) \/ Other(n)) /\ UNCHANGED <<graphVars, emitVars, slots>>
  \/ Ready /\ Return /\ UNCHANGED <<graphVars, emitVars, slots, intact>>
  \/ Repeat /\ UNCHANGED <<graphVars, emitVars, slots>>
  \/ phase = "build" /\ UNCHANGED vars

Spec == Init /\ [][Next]_vars

------------------------------------------------------------------------------
TypeOK ==
  /\ StreamTypeOK /\ intact \subseteq Node
  /\ slots \in Seq([end : Nat, tensors : SUBSET Node])

\* What was written as t is where a reader of t looks for it.
InPlace(t) == \A p \in graph[t].by : p \in intact /\ Buffer(p) = Buffer(t)

\* As long as a node runs, every tensor it reads is whole in the buffer it reads it from:
\* no slot is handed on while a call in flight reads it, no alias is left behind when a
\* buffer is turned to the caller's (BUFFER_REUSE, _source.py 2226-2230).
InputsIntact ==
  phase = "run" => \A n \in running : \A t \in graph[n].ins : InPlace(t)

\* When inference_run() returns, every output of the graph is in the caller's buffer.
OutputsWritten == phase = "returned" => \A o \in outs : InPlace(o)
==============================================================================
