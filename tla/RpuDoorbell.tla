----------------------------- MODULE RpuDoorbell -----------------------------
(***************************************************************************)
(* The offload of kernel batches from the A53 (Linux) to the Cortex-R5:     *)
(* inference_rpu_flush() of runtime/inference_rpu.c against main(),          *)
(* rpu_batch() and rpu_irq_idle() of runtime/rpu.                            *)
(*                                                                         *)
(* One step is one access to memory the two cores share.  A store is posted: *)
(* `out` is what its writer wrote last, `mem` what the other core reads, and *)
(* Land moves one word across at any later moment, in any order; `dsb` waits *)
(* until the core's own stores have landed.  A write to a device register    *)
(* (the two IPI channels, the R5's GIC) is posted in the same way (`dev`).   *)
(***************************************************************************)
EXTENDS Naturals, FiniteSets, Sequences

CONSTANTS
  Libs,         \* the generated libraries of the A53 process (they never flush at once)
  Bell,         \* those whose ipi_open() found the rpu_ipi device
  NoLib,        \* no library: ring_lo = 0 before the first batch
  BatchWords,   \* command words of a batch
  SeqMod,       \* cmd_seq and done_seq count modulo this (2^32 in the code)
  Tags,         \* batches are told apart modulo this, to recognise a stale ring word
  MaxLate,      \* bound: submissions that may time out before one is answered (0: none do)
  MayFault      \* TRUE: an exception of the firmware may end a batch

ASSUME LibsAssumption == NoLib \notin Libs /\ Bell \subseteq Libs
ASSUME CountAssumption ==
  /\ BatchWords \in Nat \ {0} /\ MaxLate \in Nat
  /\ SeqMod \in Nat /\ SeqMod > MaxLate + 1
  /\ Tags \in Nat /\ Tags > 1
ASSUME FaultAssumption == MayFault \in BOOLEAN

VARIABLES
  \* the control block and the rings
  mem, out,       \* each word as the other core reads it, and as its writer wrote it last
  ring, ringOut,  \* the same for the command words of each library's ring
  dev,            \* device writes posted and not landed
  \* the IPI channels and interrupt controllers
  r5Isr, r5Line,  \* channel 1's ISR bit; its line unmasked at the R5's GIC
  a53Isr, uioOn,  \* channel 7's ISR bit; its line unmasked by the UIO driver
  uioEvent,       \* libraries whose /dev/uioN holds an unread event
  \* the A53
  a53,            \* where the flush is
  lib, seq,       \* its library and its sequence number
  attached,       \* the libraries attached
  error,          \* s_error of each library: 1 for any value but 0
  late,           \* submissions timed out since the last answer
  tag,            \* the batch recorded last
  \* the R5
  r5,             \* where main() is
  seen,           \* the last cmd_seq taken
  from,           \* the ring rpu_batch() replays, read once from the control block
  pos,            \* words of the batch replayed
  replayed,       \* those words
  served          \* how often the batch recorded last has been taken

ctrlVars == <<mem, out>>
ringVars == <<ring, ringOut>>
irqVars  == <<r5Isr, r5Line, a53Isr, uioOn, uioEvent>>
a53Vars  == <<a53, lib, seq, attached, error, late, tag>>
r5Vars   == <<r5, seen, from, pos, replayed, served>>
vars     == <<ctrlVars, ringVars, dev, irqVars, a53Vars, r5Vars>>

A53Words == {"args", "cmd_seq", "wake", "a53_rings"}
R5Words  == {"done_seq", "rc", "r5_sleeping"}
Words    == A53Words \cup R5Words
A53Dev   == {"ring r5", "clear a53"}
R5Dev    == {"ring a53", "clear r5", "unmask r5"}
Idx      == 1 .. BatchWords
Seqs     == 0 .. SeqMod - 1

A53Steps == {"app", "attach", "args", "submit", "ring", "spin", "ask", "asked", "unmask",
             "unmasked", "poll", "polled", "unask", "busy", "answered"}
R5Steps  == {"loop", "batch", "replay", "done", "wake", "idle", "sleepy", "armed", "wfi",
             "awake", "rest", "fault"}

------------------------------------------------------------------------------
(* Posted stores and the fences.                                            *)

NextSeq(s) == IF s = SeqMod - 1 THEN 0 ELSE s + 1

NoFence == TRUE    \* (mutant) the firmware's barrier forgotten

\* dsb on the A53: its stores to the control block, its ring words and its
\* device writes have landed.
A53Fence == /\ \A w \in A53Words : mem[w] = out[w]
            /\ ring = ringOut
            /\ dev \cap A53Dev = {}

\* dsb on the R5.
R5Fence == /\ \A w \in R5Words : mem[w] = out[w]
           /\ dev \cap R5Dev = {}

LandWord(w) == /\ mem[w] # out[w]
               /\ mem' = [mem EXCEPT ![w] = out[w]]
               /\ UNCHANGED <<out, ringVars, dev, irqVars, a53Vars, r5Vars>>

LandRing(l, i) == /\ ring[l][i] # ringOut[l][i]
                  /\ ring' = [ring EXCEPT ![l][i] = ringOut[l][i]]
                  /\ UNCHANGED <<ctrlVars, ringOut, dev, irqVars, a53Vars, r5Vars>>

\* A trigger sets the other channel's ISR bit, a clear drops its own.
LandDev(d) == /\ d \in dev
              /\ dev' = dev \ {d}
              /\ r5Isr' = IF d = "ring r5" THEN TRUE ELSE IF d = "clear r5" THEN FALSE ELSE r5Isr
              /\ a53Isr' = IF d = "ring a53" THEN TRUE ELSE IF d = "clear a53" THEN FALSE ELSE a53Isr
              /\ r5Line' = (d = "unmask r5" \/ r5Line)
              /\ UNCHANGED <<ctrlVars, ringVars, uioOn, uioEvent, a53Vars, r5Vars>>

\* uio_pdrv_genirq: the level line fires, the driver masks it and every open
\* descriptor has an event to read.
UioFires == /\ a53Isr /\ uioOn
            /\ uioOn' = FALSE
            /\ uioEvent' = uioEvent \cup (attached \cap Bell)
            /\ UNCHANGED <<ctrlVars, ringVars, dev, r5Isr, r5Line, a53Isr, a53Vars, r5Vars>>

------------------------------------------------------------------------------
(* The A53.                                                                 *)

A53At(p, q) == a53 = p /\ a53' = q

\* A step that only reads and moves on.
A53Reads == UNCHANGED <<ctrlVars, ringVars, dev, irqVars, lib, seq, attached, error, late,
                        tag, r5Vars>>

Posts(w, v) == out' = [out EXCEPT ![w] = v]

\* attach_core() and ipi_open(): the doorbell's stale event cleared, and
\* a53_rings says whether this library rings.  Refused in RPU_STATE_ERROR.
Attach(l) == /\ A53At("app", "attach")
             /\ l \in Libs \ attached /\ r5 # "fault"
             /\ attached' = attached \cup {l}
             /\ error' = [error EXCEPT ![l] = 0]
             /\ dev' = dev \cup (IF l \in Bell THEN {"clear a53"} ELSE {})
             /\ Posts("a53_rings", IF l \in Bell THEN 1 ELSE 0)
             /\ UNCHANGED <<mem, ringVars, irqVars, lib, seq, late, tag, r5Vars>>

Attached == /\ A53At("attach", "app") /\ A53Fence
            /\ A53Reads

\* inference_rpu_detach(), nothing being recorded: a53_rings stays.
Detach(l) == /\ A53At("app", "app")
             /\ l \in attached
             /\ attached' = attached \ {l}
             /\ uioEvent' = uioEvent \ {l}
             /\ UNCHANGED <<ctrlVars, ringVars, dev, r5Isr, r5Line, a53Isr, uioOn, lib, seq, error,
                            late, tag, r5Vars>>

\* A run records a batch into the library's ring (write-combined stores) and
\* calls inference_rpu_flush(), which names the ring in the control block.
Record(l) == /\ A53At("app", "args")
             /\ l \in attached
             /\ MaxLate = 0 \/ late < MaxLate
             /\ lib' = l
             /\ tag' = (IF tag = Tags - 1 THEN 0 ELSE tag + 1)
             /\ ringOut' = [ringOut EXCEPT ![l] = [i \in Idx |-> tag']]
             /\ served' = 0
             /\ UNCHANGED <<ctrlVars, ring, dev, irqVars, seq, attached, error, late,
                            r5, seen, from, pos, replayed>>

\* (mutant) the ring named at the first batch only
WriteArgsOnce == /\ A53At("args", "submit")
                 /\ Posts("args", IF out["args"] = NoLib THEN lib ELSE out["args"])
                 /\ UNCHANGED <<mem, ringVars, dev, irqVars, lib, seq, attached, error,
                                late, tag, r5Vars>>

WriteArgs == /\ A53At("args", "submit")
             /\ Posts("args", lib)
             /\ UNCHANGED <<mem, ringVars, dev, irqVars, lib, seq, attached, error, late,
                            tag, r5Vars>>

\* (mutant) numbered after the last answer
SubmitFromDone == /\ A53At("submit", "ring") /\ A53Fence
                  /\ seq' = NextSeq(mem["done_seq"])
                  /\ Posts("cmd_seq", seq')
                  /\ UNCHANGED <<mem, ringVars, dev, irqVars, lib, attached, error, late,
                                 tag, r5Vars>>

Submit == /\ A53At("submit", "ring") /\ A53Fence
          /\ seq' = NextSeq(mem["cmd_seq"])
          /\ Posts("cmd_seq", seq')
          /\ UNCHANGED <<mem, ringVars, dev, irqVars, lib, attached, error, late, tag,
                         r5Vars>>

\* (mutant) r5_sleeping read before cmd_seq is out
RingUnfenced == /\ A53At("ring", "spin")
                /\ dev' = dev \cup (IF lib \in Bell /\ mem["r5_sleeping"] = 1 THEN {"ring r5"} ELSE {})
                /\ UNCHANGED <<ctrlVars, ringVars, irqVars, lib, seq, attached, error, late,
                               tag, r5Vars>>

\* The R5 asleep, and this library can ring: IPI channel 7's TRIG.
Ring == /\ A53At("ring", "spin") /\ A53Fence
        /\ dev' = dev \cup (IF lib \in Bell /\ mem["r5_sleeping"] = 1 THEN {"ring r5"} ELSE {})
        /\ UNCHANGED <<ctrlVars, ringVars, irqVars, lib, seq, attached, error, late, tag,
                       r5Vars>>

Done == mem["done_seq"] = seq

\* The spin of INFERENCE_RPU_SPIN_US ends: answered, or over.
Spin == /\ IF Done THEN A53At("spin", "answered")
                   ELSE A53At("spin", IF lib \in Bell THEN "ask" ELSE "busy")
        /\ A53Reads

\* Ask for the doorbell: clear one already consumed, set wake, fence, recheck.
AskWake == /\ A53At("ask", "asked")
           /\ dev' = dev \cup {"clear a53"}
           /\ Posts("wake", 1)
           /\ UNCHANGED <<mem, ringVars, irqVars, lib, seq, attached, error, late, tag,
                          r5Vars>>

Recheck == /\ a53 = "asked" /\ A53Fence
           /\ a53' = IF Done THEN "unask" ELSE "unmask"
           /\ A53Reads

\* write(fd, 1): the UIO driver unmasks the line.  A write that fails ends the
\* sleep, the wait goes on in the busy loop.
Unmask == /\ A53At("unmask", "unmasked")
          /\ uioOn' = TRUE
          /\ UNCHANGED <<ctrlVars, ringVars, dev, r5Isr, r5Line, a53Isr, uioEvent, lib, seq,
                         attached, error, late, tag, r5Vars>>

UnmaskFails == /\ A53At("unmask", "unask")
               /\ A53Reads

BeforePoll == /\ a53 = "unmasked"
              /\ a53' = IF Done THEN "unask" ELSE "poll"
              /\ A53Reads

\* poll() finds an event and read() consumes it.
PollEvent == /\ A53At("poll", "polled")
             /\ lib \in uioEvent
             /\ uioEvent' = uioEvent \ {lib}
             /\ UNCHANGED <<ctrlVars, ringVars, dev, r5Isr, r5Line, a53Isr, uioOn, lib, seq,
                            attached, error, late, tag, r5Vars>>

\* poll() interrupted by a signal: nothing read.
PollSignal == /\ A53At("poll", "polled")
              /\ A53Reads

\* The timeout is over when poll() returns, with an event or without: the loop
\* ends, answered or not.
PollTimeout == /\ A53At("poll", "unask") /\ late < MaxLate
               /\ uioEvent' = uioEvent \ {lib}
               /\ UNCHANGED <<ctrlVars, ringVars, dev, r5Isr, r5Line, a53Isr, uioOn, lib, seq,
                              attached, error, late, tag, r5Vars>>

AfterPoll == /\ a53 = "polled"
             /\ a53' = IF Done THEN "unask" ELSE "ask"
             /\ A53Reads

Unask == /\ A53At("unask", "busy")
         /\ Posts("wake", 0)
         /\ UNCHANGED <<mem, ringVars, dev, irqVars, lib, seq, attached, error, late, tag,
                        r5Vars>>

Busy == /\ A53At("busy", "answered") /\ Done
        /\ A53Reads

\* The batch given up: the ring is the recorder's again although the R5 may
\* still replay it.
Timeout == /\ A53At("busy", "app") /\ ~Done /\ late < MaxLate
           /\ late' = late + 1
           /\ error' = [error EXCEPT ![lib] = 1]
           /\ UNCHANGED <<ctrlVars, ringVars, dev, irqVars, lib, seq, attached, tag, r5Vars>>

\* Answered: rc read, the ring is the recorder's again.
Return == /\ A53At("answered", "app")
          /\ late' = 0
          /\ error' = [error EXCEPT ![lib] = IF mem["rc"] = 0 THEN @ ELSE 1]
          /\ UNCHANGED <<ctrlVars, ringVars, dev, irqVars, lib, seq, attached, tag, r5Vars>>

Wait == \/ Spin \/ AskWake \/ Recheck \/ Unmask \/ BeforePoll \/ PollEvent \/ AfterPoll
        \/ Unask \/ Busy

Flush == \/ WriteArgs \/ Submit \/ Ring \/ Wait \/ Return

------------------------------------------------------------------------------
(* The R5.                                                                  *)

R5At(p, q) == r5 = p /\ r5' = q

R5Keeps == UNCHANGED <<mem, ringVars, irqVars, a53Vars, from>>

\* (mutant) the position left from the last batch
TakeNoReset == /\ R5At("loop", "batch")
               /\ mem["cmd_seq"] # seen
               /\ seen' = mem["cmd_seq"]
               /\ replayed' = <<>>
               /\ served' = IF seen' = out["cmd_seq"] THEN served + 1 ELSE served
               /\ UNCHANGED <<out, dev, pos>> /\ R5Keeps

\* main(): a new cmd_seq is taken.
Take == /\ R5At("loop", "batch")
        /\ mem["cmd_seq"] # seen
        /\ seen' = mem["cmd_seq"]
        /\ pos' = 0 /\ replayed' = <<>>
        /\ served' = IF seen' = out["cmd_seq"] THEN served + 1 ELSE served
        /\ UNCHANGED <<out, dev>> /\ R5Keeps

\* rpu_batch(): the ring is read from the control block, the first command next.
Begin == /\ R5At("batch", "replay")
         /\ from' = mem["args"]
         /\ UNCHANGED <<ctrlVars, ringVars, dev, irqVars, a53Vars, seen, pos, replayed, served>>

\* One command of the ring: its registers, Start or wait.
Replay == /\ r5 = "replay" /\ pos < BatchWords
          /\ pos' = pos + 1
          /\ replayed' = Append(replayed, ring[from][pos + 1])
          /\ UNCHANGED <<out, dev, r5, seen, served>> /\ R5Keeps

\* An exception of the firmware: RPU_STATE_ERROR, and it spins for good.
Fault == /\ MayFault
         /\ R5At("replay", "fault")
         /\ UNCHANGED <<out, dev, seen, pos, replayed, served>> /\ R5Keeps

\* (mutant) off by one: the last command not replayed
BatchEndEarly == /\ R5At("replay", "done") /\ pos + 1 >= BatchWords
                 /\ Posts("rc", 0) /\ from' = NoLib
                 /\ UNCHANGED <<mem, ringVars, dev, irqVars, a53Vars, seen, pos, replayed, served>>

\* The batch's rc: 0, unless words of two batches were replayed as one.
BatchEnd == /\ R5At("replay", "done") /\ pos = BatchWords
            /\ \E rc \in IF \E i, j \in Idx : replayed[i] # replayed[j] THEN {0, 1} ELSE {0} :
                  Posts("rc", rc)
            /\ from' = NoLib
            /\ UNCHANGED <<mem, ringVars, dev, irqVars, a53Vars, seen, pos, replayed, served>>

Answer == /\ R5At("done", "wake") /\ R5Fence
          /\ Posts("done_seq", seen)
          /\ UNCHANGED <<dev, seen, pos, replayed, served>> /\ R5Keeps

\* done_seq out, then wake read: the doorbell when the A53 asked for it.
Doorbell == /\ R5At("wake", "loop") /\ R5Fence
            /\ dev' = dev \cup (IF mem["wake"] = 1 THEN {"ring a53"} ELSE {})
            /\ UNCHANGED <<out, seen, pos, replayed, served>> /\ R5Keeps

\* cmd_seq read, nothing to take, and idle for RPU_IDLE_SPIN_US.
Look == /\ R5At("loop", "idle")
        /\ mem["cmd_seq"] = seen
        /\ UNCHANGED <<out, dev, seen, pos, replayed, served>> /\ R5Keeps

\* rpu_irq_idle() goes on only when the library rings: it clears a ring already
\* served and says that it sleeps.
StayAwake == /\ R5At("idle", "rest")
             /\ mem["a53_rings"] = 0
             /\ UNCHANGED <<out, dev, seen, pos, replayed, served>> /\ R5Keeps

Idle == /\ R5At("idle", "sleepy")
        /\ mem["a53_rings"] = 1
        /\ dev' = dev \cup {"clear r5"}
        /\ Posts("r5_sleeping", 1)
        /\ UNCHANGED <<seen, pos, replayed, served>> /\ R5Keeps

\* The fenced check: nothing came, the IPI line is unmasked.
Arm == /\ r5 = "sleepy" /\ R5Fence
       /\ IF mem["cmd_seq"] = seen /\ mem["a53_rings"] = 1
            THEN r5' = "armed" /\ dev' = dev \cup {"unmask r5"}
            ELSE r5' = "awake" /\ dev' = dev
       /\ UNCHANGED <<out, seen, pos, replayed, served>> /\ R5Keeps

Sleep == /\ r5 = "armed" /\ R5Fence
         /\ r5' = IF mem["cmd_seq"] = seen THEN "wfi" ELSE "awake"
         /\ UNCHANGED <<out, dev, seen, pos, replayed, served>> /\ R5Keeps

\* A pending interrupt ends WFI, CPSR.I set or not.
WakeUp == /\ R5At("wfi", "awake")
          /\ r5Isr /\ r5Line
          /\ UNCHANGED <<out, dev, seen, pos, replayed, served>> /\ R5Keeps

Awake == /\ R5At("awake", "rest")
         /\ Posts("r5_sleeping", 0)
         /\ UNCHANGED <<dev, seen, pos, replayed, served>> /\ R5Keeps

\* The dsb after rpu_irq_idle().  The loop has none on the way from the doorbell to
\* the next cmd_seq.
Rest == /\ R5At("rest", "loop") /\ R5Fence
        /\ UNCHANGED <<out, dev, seen, pos, replayed, served>> /\ R5Keeps

\* ipi_isr(): with IRQs on (outside rpu_irq_idle) the handler masks the line.
IpiIsr == /\ r5Isr /\ r5Line /\ r5 \notin {"sleepy", "armed", "wfi", "awake", "fault"}
          /\ r5Line' = FALSE
          /\ UNCHANGED <<ctrlVars, ringVars, dev, r5Isr, a53Isr, uioOn, uioEvent, a53Vars, r5Vars>>

Firmware == \/ Take \/ Begin \/ Replay \/ BatchEnd \/ Answer \/ Doorbell
            \/ Look \/ StayAwake \/ Idle \/ Arm \/ Sleep \/ WakeUp \/ Awake \/ Rest

------------------------------------------------------------------------------
Init == /\ mem = [w \in Words |-> IF w = "args" THEN NoLib ELSE 0]
        /\ out = mem
        /\ ring = [l \in Libs |-> [i \in Idx |-> 0]] /\ ringOut = ring
        /\ dev = {}
        /\ r5Isr = FALSE /\ r5Line = FALSE
        /\ a53Isr = FALSE /\ uioOn = TRUE /\ uioEvent = {}
        /\ a53 = "app" /\ lib = NoLib /\ seq = 0
        /\ attached = {} /\ error = [l \in Libs |-> 0]
        /\ late = 0 /\ tag = 0
        /\ r5 = "loop" /\ seen = 0 /\ from = NoLib /\ pos = 0 /\ replayed = <<>> /\ served = 0

Land == \/ \E w \in Words : LandWord(w)
        \/ \E l \in Libs, i \in Idx : LandRing(l, i)
        \/ \E d \in dev : LandDev(d)

A53Step == \/ \E l \in Libs : Attach(l) \/ Detach(l) \/ Record(l)
           \/ Attached \/ Flush \/ UnmaskFails \/ PollSignal \/ PollTimeout \/ Timeout

R5Step == Firmware \/ IpiIsr \/ Fault

Next == A53Step \/ R5Step \/ Land \/ UioFires

\* What each core has posted drains.
A53Lands == \/ \E w \in A53Words : LandWord(w)
            \/ \E l \in Libs, i \in Idx : LandRing(l, i)
            \/ \E d \in A53Dev : LandDev(d)

R5Lands == (\E w \in R5Words : LandWord(w)) \/ \E d \in R5Dev : LandDev(d)

\* A started flush and the firmware's loop go on; each core's posted stores drain, in
\* any order; a pending line fires.  Nothing obliges a library to attach or record, a
\* signal or a failed write to happen, a fault, or a timeout to come.
Fairness == /\ WF_vars(Attached \/ Flush)
            /\ WF_vars(Firmware) /\ WF_vars(IpiIsr) /\ WF_vars(UioFires)
            /\ WF_vars(A53Lands) /\ WF_vars(R5Lands)

Spec == Init /\ [][Next]_vars /\ Fairness

------------------------------------------------------------------------------
WordsOK(m) == /\ m \in [Words -> Nat \cup Libs \cup {NoLib}]
              /\ m["args"] \in Libs \cup {NoLib}
              /\ m["cmd_seq"] \in Seqs /\ m["done_seq"] \in Seqs
              /\ {m["wake"], m["a53_rings"], m["rc"], m["r5_sleeping"]} \subseteq {0, 1}

TypeOK ==
  /\ WordsOK(mem) /\ WordsOK(out)
  /\ ring \in [Libs -> [Idx -> 0 .. Tags - 1]] /\ ringOut \in [Libs -> [Idx -> 0 .. Tags - 1]]
  /\ dev \subseteq A53Dev \cup R5Dev
  /\ r5Isr \in BOOLEAN /\ r5Line \in BOOLEAN /\ a53Isr \in BOOLEAN /\ uioOn \in BOOLEAN
  /\ uioEvent \subseteq Libs /\ attached \subseteq Libs
  /\ a53 \in A53Steps /\ lib \in Libs \cup {NoLib} /\ seq \in Seqs
  /\ error \in [Libs -> {0, 1}]
  /\ late \in 0 .. MaxLate /\ tag \in 0 .. Tags - 1
  /\ r5 \in R5Steps /\ seen \in Seqs /\ from \in Libs \cup {NoLib} /\ pos \in 0 .. BatchWords
  /\ replayed \in Seq(0 .. Tags - 1) /\ Len(replayed) = pos
  /\ served \in Nat

\* A submission is never missed: the R5 stays asleep over one only while its ring
\* is still to come from the library or is on its way to the R5.
NoLostRing ==
  r5 = "wfi" /\ mem["cmd_seq"] # seen =>
     \/ a53 = "ring" /\ lib \in Bell /\ mem["r5_sleeping"] = 1
     \/ "ring r5" \in dev /\ r5Line
     \/ r5Isr /\ r5Line

\* An answer is never missed: the A53 blocks in poll() over one only while the
\* doorbell is still to come from the R5 or is on its way to the descriptor.
NoLostDoorbell ==
  a53 = "poll" /\ Done =>
     \/ r5 = "wake" /\ mem["wake"] = 1
     \/ "ring a53" \in dev
     \/ a53Isr /\ uioOn
     \/ lib \in uioEvent

\* An answer is to this batch: when a flush returns with one, the R5 has taken the
\* batch and last replayed exactly the words recorded for it, not a batch given up
\* before it or another library's ring.
ReplayedAsRecorded ==
  a53 = "answered" => served > 0 /\ replayed = [i \in Idx |-> tag]

\* The recorder writes a ring only while the R5 is not replaying it: what the R5
\* has left to read is what was recorded for the batch it took.
RingOwned ==
  r5 \in {"batch", "replay"} =>
     LET taken == IF r5 = "batch" THEN mem["args"] ELSE from
     IN  \A i \in (pos + 1) .. BatchWords : ringOut[taken][i] = tag /\ ring[taken][i] = tag

\* No ring and no doorbell is ever lost for good: a flush is answered, and returns,
\* without the help of a timeout (which fairness does not promise), whatever timed out
\* before it; only a faulted firmware leaves it to its timeout.
FlushReturns == a53 = "args" ~> (a53 = "app" \/ r5 = "fault")

Executed == served = 1 /\ replayed = [i \in Idx |-> tag]

Flushing == a53 \notin {"app", "attach"}

Call == INSTANCE RemoteCall WITH
          Callers <- Libs, NoCaller <- NoLib,
          phase <- IF ~Flushing THEN "idle" ELSE IF Executed THEN "served" ELSE "called",
          caller <- IF Flushing THEN lib ELSE NoLib

\* The offload is a remote call: one batch, served once, then the return.
IsRemoteCall == Call!CallSafety
=============================================================================
