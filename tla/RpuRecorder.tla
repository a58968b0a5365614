----------------------------- MODULE RpuRecorder -----------------------------
(***************************************************************************)
(* What a library records for the R5 (runtime/inference_rpu.c) and what the  *)
(* firmware makes of it (rpu_batch() of runtime/rpu/rpu_main.c): a Start     *)
(* sends only the argument registers that changed since the last one, against *)
(* the library's copy s_sent of what the kernel holds.                       *)
(*                                                                         *)
(* The submission of a batch (RpuDoorbell) is one step here: the R5 replays   *)
(* the whole batch, or, when it hangs, the commands before the wait it hangs  *)
(* in; the library then gives the batch up.                                  *)
(***************************************************************************)
EXTENDS Naturals, FiniteSets, SequencesExt

CONSTANTS
  Lanes,        \* the library's kernels, one lane each
  RegWords,     \* reg_words of each lane
  Written,      \* those the generated code ever writes
  Others,       \* those that other drivers of the kernels write
  Values,       \* what a register may hold
  Reset,        \* a register before anything is written
  RingWords,    \* the ring, in words
  MayHang       \* TRUE: the R5 may fail to answer (bound: one batch of a run)

ASSUME RegsAssumption == RegWords \in [Lanes -> Nat \ {0}] /\ Reset \in Values
                          /\ \A k \in Lanes : Written[k] \cup Others[k] \subseteq 1 .. RegWords[k]
\* One Start fits an empty ring (4096 bytes and 60 registers at the least and most).
ASSUME RingAssumption == RingWords \in Nat /\ \A k \in Lanes : 2 * RegWords[k] + 4 <= RingWords
ASSUME HangAssumption == MayHang \in BOOLEAN

VARIABLES
  held,       \* the argument registers each kernel holds
  enabled,    \* s_enabled: the shadow pages are in place, calls are recorded
  running,    \* in a run, from inference_rpu_enter() to its output sync
  shadow,     \* s_shadow: the registers as the generated code wrote them
  sent,       \* s_sent
  sentValid,  \* s_sent_valid, as a set of lanes
  ring,       \* the commands recorded and not submitted
  words,      \* s_words
  pending,    \* lanes started and not waited for
  intended,   \* for each recorded Start, its lane and the registers it was to run with
  hung        \* a batch of this run was given up

vars == <<held, enabled, running, shadow, sent, sentValid, ring, words, pending, intended, hung>>

Regs(k) == 1 .. RegWords[k]
Blocks(k) == [Regs(k) -> Values]

------------------------------------------------------------------------------
(* The commands.  A "regs" command stands for REGS (the whole block) and     *)
(* REGSO (a run of registers from `first`), which has one header word more.  *)

RegsCmd(k, first, last, regs, full) ==
  [op |-> "regs", lane |-> k, first |-> first,
   vals |-> [i \in 1 .. last - first + 1 |-> regs[first + i - 1]],
   words |-> (IF full THEN 1 ELSE 2) + last - first + 1]
StartCmd(k) == [op |-> "start", lane |-> k, words |-> 1]
WaitCmd(k)  == [op |-> "wait", lane |-> k, words |-> 1]

WordsOf(cmds) == FoldLeft(LAMBDA n, c : n + c.words, 0, cmds)

\* The runs of changed registers, in order: a gap of up to two unchanged ones is sent
\* rather than split.
MaxGap == 2

Heads(changed) == {r \in changed : \A q \in changed : q < r => q + MaxGap + 1 < r}

\* The last register of the run that begins at h.
LastOf(changed, h) ==
  CHOOSE l \in changed : /\ l >= h /\ ~\E g \in Heads(changed) : h < g /\ g <= l
                         /\ \A r \in changed : r > l => \E g \in Heads(changed) : h < g /\ g <= r

\* The head with i heads up to it.
NthHead(changed, i) ==
  CHOOSE h \in Heads(changed) : Cardinality({g \in Heads(changed) : g <= h}) = i

Segments(changed) ==
  [i \in 1 .. Cardinality(Heads(changed)) |->
     [first |-> NthHead(changed, i), last |-> LastOf(changed, NthHead(changed, i))]]

Full(k) == <<RegsCmd(k, 1, RegWords[k], shadow[k], TRUE)>>
Delta(k) == LET segs == Segments({r \in Regs(k) : shadow[k][r] # sent[k][r]})
            IN  [i \in 1 .. Len(segs) |->
                   RegsCmd(k, segs[i].first, segs[i].last, shadow[k], FALSE)]

\* One command on the kernels' registers; a Start launches its kernel with them.
Exec(s, c) ==
  CASE c.op = "regs"  -> [s EXCEPT !.regs[c.lane] =
                            [r \in Regs(c.lane) |->
                               IF r \in c.first .. c.first + Len(c.vals) - 1
                               THEN c.vals[r - c.first + 1] ELSE @[r]]]
    [] c.op = "start" -> [s EXCEPT !.runs = Append(@, <<c.lane, s.regs[c.lane]>>)]
    [] c.op = "wait"  -> s

Replay(cmds, regs) == FoldLeft(Exec, [regs |-> regs, runs |-> <<>>], cmds)

------------------------------------------------------------------------------
(* A run of the generated code.                                             *)

\* inference_rpu_flush(), if anything is recorded: all of it replayed.
FlushTo(h) == /\ ring' = <<>> /\ words' = 0 /\ intended' = <<>>
              /\ held' = h

Flushed == Replay(ring, held).regs

\* enable(): a shadow page starts as the registers stand.
Enable(on) == /\ enabled' = on
              /\ IF on /\ ~enabled THEN shadow' = held /\ sentValid' = {}
                                   ELSE UNCHANGED shadow /\ sentValid' = {}

\* (mutant) s_sent kept from the last run
EnterKeepsSent(on) == /\ ~running /\ running' = TRUE /\ hung' = FALSE
                      /\ enabled' = on
                      /\ IF on /\ ~enabled THEN shadow' = held /\ sentValid' = {}
                                           ELSE UNCHANGED <<shadow, sentValid>>
                      /\ UNCHANGED <<held, sent, ring, words, pending, intended>>

\* inference_rpu_enter(): the run's driver, from the mode and the entry's recommendation.
Enter(on) == /\ ~running /\ running' = TRUE /\ hung' = FALSE
             /\ Enable(on)
             /\ UNCHANGED <<held, sent, ring, words, pending, intended>>

\* The generated code writes an argument register: the shadow page's, or the kernel's.
SetReg(k, r, v) ==
  /\ running
  /\ IF enabled THEN shadow' = [shadow EXCEPT ![k][r] = v] /\ UNCHANGED held
                ELSE held' = [held EXCEPT ![k][r] = v] /\ UNCHANGED shadow
  /\ UNCHANGED <<enabled, running, sent, sentValid, ring, words, pending, intended, hung>>

\* (mutant) the header word not counted
TightRoom(k) == RegWords[k] + 1

\* The words a Start may take.
StartRoom(k) == 2 * RegWords[k] + 4

\* What is recorded goes on in the ring, or after a flush, at its start.
Records(room, k, cmds, runs) ==
  LET full == words + room > RingWords
      now  == IF full THEN cmds ELSE ring \o cmds
  IN  /\ held' = IF full THEN Flushed ELSE held
      /\ ring' = now
      /\ words' = (IF full THEN 0 ELSE words) + WordsOf(cmds)
      /\ intended' = IF full THEN runs ELSE intended \o runs

\* inference_rpu_start(): the lane's whole block on its first call of the run, then
\* what changed.
Start(k) ==
  /\ running /\ enabled /\ k \notin pending
  /\ pending' = pending \cup {k}
  /\ Records(StartRoom(k), k, Append(IF k \in sentValid THEN Delta(k) ELSE Full(k), StartCmd(k)),
             <<(<<k, shadow[k]>>)>>)
  /\ sent' = [sent EXCEPT ![k] = shadow[k]]
  /\ sentValid' = sentValid \cup {k}
  /\ UNCHANGED <<enabled, running, shadow, hung>>

\* inference_rpu_wait(): the generated code waits once for each Start, before the
\* lane's next one.
Wait(k) == /\ running /\ enabled /\ k \in pending
           /\ pending' = pending \ {k}
           /\ Records(1, k, <<WaitCmd(k)>>, <<>>)
           /\ UNCHANGED <<enabled, running, shadow, sent, sentValid, hung>>

\* Before a host op and at the end of the run.
Flush == /\ running /\ ring # <<>>
         /\ FlushTo(Flushed)
         /\ UNCHANGED <<pending, enabled, running, shadow, sent, sentValid, hung>>

\* The R5 hangs in a wait and does not answer in time: the batch is given up.
FlushTimesOut ==
  /\ running /\ MayHang /\ ~hung
  /\ \E i \in 1 .. Len(ring) : /\ ring[i].op = "wait"
                               /\ FlushTo(Replay(SubSeq(ring, 1, i), held).regs)
  /\ hung' = TRUE
  /\ UNCHANGED <<pending, enabled, running, shadow, sent, sentValid>>

\* The end of a run: every lane waited for, the batch flushed.
Leave == /\ running /\ ring = <<>> /\ pending = {} /\ running' = FALSE
         /\ UNCHANGED <<held, enabled, shadow, sent, sentValid, ring, words, pending, intended, hung>>

\* Between two runs another library, or this one with the A53 driving, writes registers.
OtherDrives == /\ ~running
               /\ \E k \in Lanes : \E r \in Others[k], v \in Values :
                     held' = [held EXCEPT ![k][r] = v]
               /\ UNCHANGED <<enabled, running, shadow, sent, sentValid, ring, words, pending, intended, hung>>

Init == /\ held = [k \in Lanes |-> [r \in Regs(k) |-> Reset]]
        /\ shadow = held /\ sent = held
        /\ enabled = FALSE /\ running = FALSE /\ sentValid = {}
        /\ ring = <<>> /\ words = 0 /\ pending = {} /\ intended = <<>>
        /\ hung = FALSE

Next == \/ \E on \in BOOLEAN : Enter(on)
        \/ \E k \in Lanes : \/ \E r \in Written[k], v \in Values : SetReg(k, r, v)
                            \/ Start(k) \/ Wait(k)
        \/ Flush \/ FlushTimesOut \/ Leave \/ OtherDrives

Spec == Init /\ [][Next]_vars

------------------------------------------------------------------------------
TypeOK == /\ {held, shadow, sent} \subseteq {f \in [Lanes -> UNION {Blocks(k) : k \in Lanes}] :
                                               \A k \in Lanes : f[k] \in Blocks(k)}
          /\ enabled \in BOOLEAN /\ running \in BOOLEAN /\ sentValid \subseteq Lanes
          /\ pending \subseteq Lanes
          /\ \A i \in DOMAIN ring : ring[i].op \in {"regs", "start", "wait"} /\ ring[i].lane \in Lanes
          /\ words = WordsOf(ring) /\ hung \in BOOLEAN

\* Whatever was sent before and however the run was cut into batches, the kernel runs
\* every recorded Start with the registers the generated code had written then; after
\* a batch given up, again from the next run on.
RunsAsWritten == ~hung => Replay(ring, held).runs = intended

\* Recording never writes past the ring, and no batch is refused for its length.
RingFits == words <= RingWords

=============================================================================
