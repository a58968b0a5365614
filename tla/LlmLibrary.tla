----------------------------- MODULE LlmLibrary -----------------------------
(***************************************************************************)
(* The C library of a language model (demo/chat/src/llm_api.c): a KV cache of *)
(* Context positions of which the first `pos` are filled, position 0 by the   *)
(* sink token.  A call is refused, changing nothing, or appends its tokens;    *)
(* truncating forgets positions and leaves their rows as they are.           *)
(*                                                                         *)
(* A row of the cache is what the token written there stands for: a token of   *)
(* the vocabulary, or row r of the picture the vision encoder saw last (the    *)
(* ids past the vocabulary gather it).                                       *)
(***************************************************************************)
EXTENDS Naturals, SequencesExt

CONSTANTS
  Vocab,     \* token ids below LLM_VOCAB
  Images,    \* pictures, told apart by their hash
  Rows,      \* LLM_IMAGE_TOKENS
  Context,   \* LLM_CONTEXT
  Buckets,   \* llm_buckets
  Costs,     \* the values llm_bucket_cost may have
  Blank      \* a row never written, a picture never encoded

ASSUME LibraryAssumption ==
  /\ Rows \in Nat /\ Context \in Nat \ {0}
  /\ Buckets \subseteq Nat \ {0} /\ Buckets # {} /\ IsFiniteSet(Buckets)
  /\ Costs \subseteq [Buckets -> Nat]

VARIABLES
  cost,      \* llm_bucket_cost: fixed when the library is built
  pick,      \* s_pick: for r tokens left, the bucket of the next call
  open,      \* s_open
  pos,       \* s_pos
  kv,        \* the rows of the cache after the sink's
  encoded    \* the picture whose rows the vision encoder left

libVars == <<cost, pick, open, pos, kv, encoded>>

RowIds == {<<"row", r>> : r \in 0 .. Rows - 1}
Pictured == (Images \cup {Blank}) \X (0 .. Rows - 1)

\* The rows' ids are those past the vocabulary.
ASSUME TokenAssumption == Vocab \cap (RowIds \cup Pictured) = {} /\ Blank \notin Images

-----------------------------------------------------------------------------
(* The split of a prefill into calls                                         *)

\* s_cost: what the cheapest calls for r remaining tokens cost.
LeastCost[r \in 0 .. Context] ==
  IF r = 0 THEN 0 ELSE Min({cost[b] + LeastCost[Max({r - b, 0})] : b \in Buckets})

\* (mutant) the largest bucket whatever it costs
PlanLargest == [r \in 1 .. Context |-> Max(Buckets)]

\* The first of those calls; larger buckets win ties (plan_split()).
Plan == [r \in 1 .. Context |->
           Max({b \in Buckets : cost[b] + LeastCost[Max({r - b, 0})] = LeastCost[r]})]

\* The calls of llm_prefill() for n tokens: the tokens left before the call, those it
\* takes, its bucket.
Calls[n \in 0 .. Context] ==
  IF n = 0 THEN <<>>
  ELSE LET k == Min({n, pick[n]})
       IN  <<[left |-> n, rows |-> k, bucket |-> pick[n]]>> \o Calls[n - k]

-----------------------------------------------------------------------------
(* The calls                                                                *)

Fits(n) == pos + n <= Context

PrefillAccepts(ids) == /\ open /\ Len(ids) >= 1 /\ Fits(Len(ids))
                       /\ \A i \in 1 .. Len(ids) : ids[i] \in Vocab \cup RowIds

RowOf(id) == IF id \in RowIds THEN <<encoded, id[2]>> ELSE id

\* Each call takes up where the last one ended; its padding writes nothing.
Prefill(ids) ==
  LET written == UNION {{pos + Len(ids) - c.left + i : i \in 0 .. c.rows - 1} : c \in Range(Calls[Len(ids)])}
  IN  /\ PrefillAccepts(ids)
      /\ kv' = [p \in DOMAIN kv |-> IF p \in written THEN RowOf(ids[p - pos + 1]) ELSE kv[p]]
      /\ pos' = pos + Cardinality(written)
      /\ UNCHANGED <<cost, pick, open, encoded>>

DecodeAccepts(t) == open /\ Fits(1) /\ t \in Vocab

Decode(t) == /\ DecodeAccepts(t)
             /\ kv' = [kv EXCEPT ![pos] = t]
             /\ pos' = pos + 1
             /\ UNCHANGED <<cost, pick, open, encoded>>

TruncateAccepts(n) == open /\ n \in 1 .. pos

Truncate(n) == /\ TruncateAccepts(n)
               /\ pos' = n
               /\ UNCHANGED <<cost, pick, open, kv, encoded>>

EncodeImage(i) == /\ open
                  /\ encoded' = i
                  /\ UNCHANGED <<cost, pick, open, pos, kv>>

\* llm_open() that succeeds: the cache holds the sink alone.
Open == /\ ~open
        /\ open' = TRUE /\ pos' = 1 /\ pick' = Plan
        /\ kv' = [p \in DOMAIN kv |-> Blank] /\ encoded' = Blank
        /\ UNCHANGED cost

Close == /\ open
         /\ open' = FALSE /\ pos' = 0
         /\ UNCHANGED <<cost, pick, kv, encoded>>

LibraryInit == /\ cost \in Costs /\ pick = [r \in 1 .. Context |-> 0]
               /\ open = FALSE /\ pos = 0
               /\ kv = [p \in 1 .. Context - 1 |-> Blank] /\ encoded = Blank

\* What the next logits are computed from: the filled positions after the sink.
Held == SubSeq(kv, 1, pos - 1)

-----------------------------------------------------------------------------
LibraryTypeOK ==
  /\ cost \in Costs /\ open \in BOOLEAN
  /\ pick \in [1 .. Context -> Buckets \cup {0}]
  /\ pos \in 0 .. Context /\ (open <=> pos >= 1)
  /\ kv \in [1 .. Context - 1 -> Vocab \cup Pictured \cup {Blank}]
  /\ encoded \in Images \cup {Blank}

\* What so many calls of each bucket cost, and the tokens they have room for.
Price(f) == SumFunction([b \in Buckets |-> f[b] * cost[b]])
Capacity(f)  == SumFunction([b \in Buckets |-> f[b] * b])

Used(calls) == [b \in Buckets |-> Cardinality({i \in DOMAIN calls : calls[i].bucket = b})]

Split(n) ==
  LET calls == Calls[n]
  IN  /\ \A i \in 1 .. Len(calls) - 1 : calls[i].rows = calls[i].bucket
      /\ Capacity(Used(calls)) >= n
      /\ \A f \in [Buckets -> 0 .. n] : Capacity(f) >= n => Price(Used(calls)) <= Price(f)

\* The calls of a prefill take its tokens in order, only the last one is padded, and
\* no other calls with room for them cost less (plan_split() of the C library).
SplitIsLeast == [][Open => (\A n \in 1 .. Context - 1 : Split(n))']_libVars
=============================================================================
