----------------------------- MODULE KernelLane -----------------------------
(***************************************************************************)
(* One kernel lane and the completion of its jobs: the control block of a   *)
(* kernel (kernels/*_rtl/rtl/*_ctrl_s_axi.sv), driven in turn by the R5      *)
(* firmware (runtime/rpu/rpu_irq.c) and by the A53, which waits on the       *)
(* kernel's interrupt (runtime/inference_irq.c) or polls its done bit (the   *)
(* generated driver).                                                       *)
(*                                                                         *)
(* The registers are device memory: the writes of one master land in order, *)
(* each at any later moment, and a read may overtake them.                  *)
(***************************************************************************)
EXTENDS Naturals, Sequences

VARIABLES
  \* the control block, and the writes on their way to it
  apStart,      \* int_ap_start: the kernel has a job
  taskDone,     \* int_task_done: bit 1 of AP_CTRL, cleared by reading it
  ier, isr, gie,\* bit 0 of each
  posted,       \* the writes of each master that have not landed
  \* the line's two interrupt controllers
  r5Line,       \* unmasked at the R5's GIC
  uioOn,        \* unmasked by the UIO driver
  uioEvent,     \* the UIO descriptor has an event to read
  \* the R5
  r5,           \* where the firmware is in the batch, "off" between batches
  armed,        \* s_armed: it has raised GIE
  inflight,     \* s_inflight: started and not waited for
  firmware,     \* it runs (rpu_irq_init() done)
  \* the A53
  a53,          \* where the library is
  a53Armed,     \* the last Start armed the interrupt
  a53Job,       \* started and not waited for
  uio,          \* the lane has a usable UIO interrupt (regs # NULL)
  \* bookkeeping
  owed          \* jobs started and not finished

ctrl    == <<apStart, taskDone, ier, isr, gie>>
lines   == <<r5Line, uioOn, uioEvent>>
r5Vars  == <<r5, armed, inflight, firmware>>
a53Vars == <<a53, a53Armed, a53Job, uio>>
vars    == <<ctrl, posted, lines, r5Vars, a53Vars, owed>>

Masters == {"R5", "A53"}
Writes  == {"ierOn", "toggleIsr", "gieOn", "gieOff", "start"}

R5Steps  == {"off", "cmd", "clearing", "start", "wait", "unmasked", "wfi", "ending"}
A53Steps == {"app", "irqStart", "clearing", "gie", "Start", "go",
             "wait", "early", "earlyCheck", "earlySleep", "earlyRead", "spin",
             "unmask", "check", "sleep", "read", "noIrq", "low"}

------------------------------------------------------------------------------
(* The control block.                                                       *)

Line == gie /\ isr    \* int_irq

LandsCtrl(w) ==
  /\ apStart' = (apStart \/ w = "start")
  /\ ier' = (ier \/ w = "ierOn")
  /\ isr' = IF w = "toggleIsr" THEN ~isr ELSE isr
  /\ gie' = IF w = "gieOn" THEN TRUE ELSE IF w = "gieOff" THEN FALSE ELSE gie
  /\ UNCHANGED taskDone

\* The oldest write of a master reaches the register file.
Land(m) == /\ posted[m] # <<>>
           /\ LandsCtrl(Head(posted[m]))
           /\ posted' = [posted EXCEPT ![m] = Tail(@)]
           /\ UNCHANGED <<lines, r5Vars, a53Vars, owed>>

\* ap_done and ap_ready, one clock: the job ends, whichever Start it came from.
Finish == /\ apStart
          /\ apStart' = FALSE
          /\ taskDone' = TRUE
          /\ isr' = (isr \/ ier)
          /\ owed' = owed - 1
          /\ UNCHANGED <<ier, gie, posted, lines, r5Vars, a53Vars>>

Post(m, ws) == posted' = [posted EXCEPT ![m] = @ \o ws]

\* (mutant) the read-back that waits for the write left out
NotLanded(m) == m \in Masters

Landed(m) == posted[m] = <<>>

\* uio_pdrv_genirq: the level line fires once and is masked.
UioFires == /\ Line /\ uioOn
            /\ uioOn' = FALSE /\ uioEvent' = TRUE
            /\ UNCHANGED <<ctrl, posted, r5Line, r5Vars, a53Vars, owed>>

------------------------------------------------------------------------------
(* The R5.                                                                  *)

R5At(p, q) == r5 = p /\ r5' = q

R5Keeps == UNCHANGED <<ctrl, uioOn, uioEvent, firmware, a53Vars>>

\* A library submits a batch and blocks in inference_rpu_flush(); its `dsb sy`
\* has landed what the A53 wrote.  The lane is the R5's until the batch ends.
Batch == /\ R5At("off", "cmd")
         /\ firmware /\ a53 = "app" /\ ~a53Job /\ Landed("A53")
         /\ UNCHANGED <<posted, r5Line, armed, inflight, owed>> /\ R5Keeps

\* (mutant) the previous job's ap_done left in the ISR
StartKeepsIsr == /\ R5At("cmd", "start") /\ ~inflight
                 /\ UNCHANGED <<posted, r5Line, armed, inflight, owed>> /\ R5Keeps

\* rpu_irq_start(): the ISR read, the previous ap_done cleared if it is set ...
IrqStart == /\ r5 = "cmd" /\ ~inflight
            /\ IF isr THEN r5' = "clearing" /\ Post("R5", <<"toggleIsr">>)
                      ELSE r5' = "start" /\ UNCHANGED posted
            /\ UNCHANGED <<r5Line, armed, inflight, owed>> /\ R5Keeps

\* ... and seen to land ...
ClearLanded == /\ R5At("clearing", "start")
               /\ Landed("R5") /\ ~isr
               /\ UNCHANGED <<posted, r5Line, armed, inflight, owed>> /\ R5Keeps

\* ... GIE raised unless it is, then ap_start on the same write channel.
Start == /\ R5At("start", "cmd")
         /\ Post("R5", IF armed THEN <<"start">> ELSE <<"gieOn", "start">>)
         /\ armed' = TRUE /\ inflight' = TRUE /\ owed' = owed + 1
         /\ UNCHANGED r5Line /\ R5Keeps

WaitCmd == /\ R5At("cmd", "wait") /\ inflight
           /\ UNCHANGED <<posted, r5Line, armed, inflight, owed>> /\ R5Keeps

\* rpu_irq_wait(): done ...
Waited == /\ r5 \in {"wait", "unmasked"} /\ isr
          /\ r5' = "cmd" /\ inflight' = FALSE
          /\ UNCHANGED <<posted, r5Line, armed, owed>> /\ R5Keeps

\* ... or IRQs off, the line unmasked, the bit read again and WFI.
Unmask == /\ R5At("wait", "unmasked") /\ ~isr
          /\ r5Line' = TRUE
          /\ UNCHANGED <<posted, armed, inflight, owed>> /\ R5Keeps

Wfi == /\ R5At("unmasked", "wfi") /\ ~isr
       /\ UNCHANGED <<posted, r5Line, armed, inflight, owed>> /\ R5Keeps

WakeUp == /\ R5At("wfi", "wait")
          /\ Line /\ r5Line
          /\ UNCHANGED <<posted, r5Line, armed, inflight, owed>> /\ R5Keeps

\* kernel_isr(), with IRQs on: the line is masked, nothing else.
KernelIsr == /\ Line /\ r5Line /\ r5 \notin {"unmasked", "wfi"}
             /\ r5Line' = FALSE
             /\ UNCHANGED <<posted, r5, armed, inflight, owed>> /\ R5Keeps

\* (mutants) GIE dropped for a lane still in flight; s_armed not cleared with it
EndDropsAll == /\ R5At("cmd", "ending")
               /\ Post("R5", IF armed THEN <<"gieOff">> ELSE <<>>)
               /\ armed' = FALSE
               /\ UNCHANGED <<r5Line, inflight, owed>> /\ R5Keeps

EndKeepsArmed == /\ R5At("cmd", "ending")
                 /\ Post("R5", IF armed /\ ~inflight THEN <<"gieOff">> ELSE <<>>)
                 /\ UNCHANGED <<r5Line, armed, inflight, owed>> /\ R5Keeps

\* rpu_irq_batch_end(): a lane started and not waited for keeps GIE.
BatchEnd == /\ R5At("cmd", "ending")
            /\ Post("R5", IF armed /\ ~inflight THEN <<"gieOff">> ELSE <<>>)
            /\ armed' = (armed /\ inflight)
            /\ UNCHANGED <<r5Line, inflight, owed>> /\ R5Keeps

\* The write, if there was one, read back: landed before the A53 may drive.
BatchDone == /\ R5At("ending", "off")
             /\ inflight \/ Landed("R5")
             /\ UNCHANGED <<posted, r5Line, armed, inflight, owed>> /\ R5Keeps

------------------------------------------------------------------------------
(* The A53.                                                                 *)

A53At(p, q) == a53 = p /\ a53' = q

A53Keeps == UNCHANGED <<apStart, ier, isr, gie, r5Line, r5Vars>>

\* A Start of the generated code, INFERENCE_WAIT=irq ...
Arming == /\ A53At("app", "irqStart")
          /\ r5 = "off" /\ ~inflight /\ ~a53Job /\ uio
          /\ UNCHANGED <<taskDone, posted, uioOn, uioEvent, a53Armed, a53Job, uio, owed>> /\ A53Keeps

\* ... or poll, or a lane without an interrupt: inference_irq_start() only disarms.
Polling == /\ A53At("app", "Start")
           /\ r5 = "off" /\ ~inflight /\ ~a53Job
           /\ a53Armed' = FALSE
           /\ UNCHANGED <<taskDone, posted, uioOn, uioEvent, a53Job, uio, owed>> /\ A53Keeps

\* (mutant) IER left to the firmware
IrqStartNoIer == /\ a53 = "irqStart"
                 /\ IF isr THEN a53' = "clearing" /\ Post("A53", <<"toggleIsr">>)
                           ELSE a53' = "gie" /\ UNCHANGED posted
                 /\ UNCHANGED <<taskDone, uioOn, uioEvent, a53Armed, a53Job, uio, owed>> /\ A53Keeps

\* IER = 1, then the ISR read and a previous ap_done cleared ...
A53IrqStart == /\ a53 = "irqStart"
               /\ IF isr THEN a53' = "clearing" /\ Post("A53", <<"ierOn", "toggleIsr">>)
                         ELSE a53' = "gie" /\ Post("A53", <<"ierOn">>)
               /\ UNCHANGED <<taskDone, uioOn, uioEvent, a53Armed, a53Job, uio, owed>> /\ A53Keeps

\* ... seen to land (the loop of 1000 reads is taken to be long enough) ...
A53ClearLanded == /\ A53At("clearing", "gie") /\ ~isr
                  /\ UNCHANGED <<taskDone, posted, uioOn, uioEvent, a53Armed, a53Job, uio, owed>>
                  /\ A53Keeps

\* ... and GIE raised.
RaiseGie == /\ A53At("gie", "Start")
            /\ Post("A53", <<"gieOn">>)
            /\ a53Armed' = TRUE
            /\ UNCHANGED <<taskDone, uioOn, uioEvent, a53Job, uio, owed>> /\ A53Keeps

\* The driver's Start reads AP_CTRL, which clears the done bit of an earlier job ...
ReadApCtrl == /\ A53At("Start", "go")
              /\ taskDone' = FALSE
              /\ UNCHANGED <<posted, uioOn, uioEvent, a53Armed, a53Job, uio, owed>> /\ A53Keeps

\* ... and writes ap_start.
WriteApStart == /\ A53At("go", "app")
                /\ Post("A53", <<"start">>)
                /\ a53Job' = TRUE /\ owed' = owed + 1
                /\ UNCHANGED <<taskDone, uioOn, uioEvent, a53Armed, uio>> /\ A53Keeps

\* kernel_wait() on a lane that is not armed: IsDone() reads AP_CTRL until bit 1
\* is set.
PollDone == /\ A53At("app", "app") /\ a53Job /\ ~a53Armed /\ taskDone
            /\ taskDone' = FALSE /\ a53Job' = FALSE
            /\ UNCHANGED <<posted, uioOn, uioEvent, a53Armed, uio, owed>> /\ A53Keeps

\* inference_irq_wait().  A step that only reads and moves on, its descriptor's
\* event consumed or not.
Moves(p, q) == /\ A53At(p, q)
               /\ UNCHANGED <<taskDone, posted, uioOn, uioEvent, a53Armed, a53Job, uio, owed>>
               /\ A53Keeps

Consumes(p, q) == /\ A53At(p, q)
                  /\ uioEvent /\ uioEvent' = FALSE
                  /\ UNCHANGED <<taskDone, posted, uioOn, a53Armed, a53Job, uio, owed>> /\ A53Keeps

\* write(fd, 1)
Unmasks(p, q) == /\ A53At(p, q)
                 /\ uioOn' = TRUE
                 /\ UNCHANGED <<taskDone, posted, uioEvent, a53Armed, a53Job, uio, owed>> /\ A53Keeps

WaitIrq == /\ A53At("app", "wait") /\ a53Job /\ a53Armed
           /\ a53Armed' = FALSE
           /\ UNCHANGED <<taskDone, posted, uioOn, uioEvent, a53Job, uio, owed>> /\ A53Keeps

\* early_sleep(), for a call whose predicted length is known: unmask, read, ppoll()
\* until the line fires, a signal comes or the predicted end is near.
Early == \/ ~isr /\ Moves("wait", "early")
         \/ isr /\ Moves("early", "spin")
         \/ ~isr /\ Unmasks("early", "earlyCheck")
         \/ Moves("early", "spin")                      \* the write failed
         \/ Moves("earlyCheck", "spin")                 \* done, or the time is up
         \/ ~isr /\ Moves("earlyCheck", "earlySleep")
         \/ Consumes("earlySleep", "earlyRead")
         \/ isr /\ Moves("earlyRead", "spin")
         \/ ~isr /\ Moves("earlyRead", "early")

EarlyTimer == Moves("earlySleep", "spin")

SpinIrq == \/ Moves("wait", "spin")
           \/ isr /\ Moves("spin", "low")
           \/ ~isr /\ Moves("spin", "unmask")

\* Unmask, then read: a job that ended before holds the line high and fires at once.
SleepIrq == \/ Unmasks("unmask", "check")
            \/ isr /\ Moves("check", "low")
            \/ ~isr /\ Moves("check", "sleep")
            \/ Consumes("sleep", "read")
            \/ isr /\ Moves("read", "low")
            \/ ~isr /\ Moves("read", "unmask")

\* poll() ended by a signal or by its 100 ms: nothing consumed.
PollOver == Moves("sleep", "read")

\* The write of the unmask failed: read the ISR in a loop, now and from now on.
UnmaskFails == Moves("unmask", "noIrq")

NoIrq == /\ A53At("noIrq", "low") /\ isr
         /\ uio' = FALSE
         /\ UNCHANGED <<taskDone, posted, uioOn, uioEvent, a53Armed, a53Job, owed>> /\ A53Keeps

\* GIE dropped: the line low until the next armed Start.
Low == /\ A53At("low", "app")
       /\ Post("A53", <<"gieOff">>)
       /\ a53Job' = FALSE
       /\ UNCHANGED <<taskDone, uioOn, uioEvent, a53Armed, uio, owed>> /\ A53Keeps

------------------------------------------------------------------------------
\* The firmware, when it runs, has set IER.
Init == /\ apStart = FALSE /\ taskDone = FALSE /\ isr = FALSE /\ gie = FALSE
        /\ firmware \in BOOLEAN /\ ier = firmware
        /\ posted = [m \in Masters |-> <<>>]
        /\ r5Line = FALSE /\ uioOn = TRUE /\ uioEvent = FALSE
        /\ r5 = "off" /\ armed = FALSE /\ inflight = FALSE
        /\ a53 = "app" /\ a53Armed = FALSE /\ a53Job = FALSE /\ uio = TRUE
        /\ owed = 0

R5Start == ClearLanded \/ Start
R5Wait  == Waited \/ Unmask \/ Wfi \/ WakeUp
R5Batch == IrqStart \/ WaitCmd \/ BatchEnd \/ BatchDone
A53Start == A53IrqStart \/ A53ClearLanded \/ RaiseGie \/ ReadApCtrl \/ WriteApStart
A53Wait  == PollDone \/ WaitIrq \/ Early \/ SpinIrq \/ SleepIrq \/ NoIrq \/ Low

Next == \/ \E m \in Masters : Land(m)
        \/ Finish \/ UioFires \/ KernelIsr
        \/ Batch \/ R5Start \/ R5Wait \/ R5Batch
        \/ Arming \/ Polling \/ A53Start \/ A53Wait \/ EarlyTimer \/ PollOver \/ UnmaskFails

\* Jobs end, writes land, lines fire, and a wait or a Start begun goes on.  Of the
\* ends of a sleep only the event is relied on: poll()'s 100 ms timeout, a signal and
\* the early timer may never come.
Fairness == /\ \A m \in Masters : WF_vars(Land(m))
            /\ WF_vars(Finish) /\ WF_vars(UioFires) /\ WF_vars(KernelIsr)
            /\ WF_vars(R5Start) /\ WF_vars(R5Wait) /\ WF_vars(BatchDone)
            /\ WF_vars(A53Start) /\ WF_vars(A53Wait)

Spec == Init /\ [][Next]_vars /\ Fairness

------------------------------------------------------------------------------
TypeOK == /\ {apStart, taskDone, ier, isr, gie, r5Line, uioOn, uioEvent, armed, inflight,
              firmware, a53Armed, a53Job, uio} \subseteq BOOLEAN
          /\ \A m \in Masters : posted[m] \in Seq(Writes) /\ Len(posted[m]) < 6
          /\ r5 \in R5Steps /\ a53 \in A53Steps
          /\ owed \in 0 .. 1

\* A wait returns only when the job it waits for has ended, whoever drove the lane
\* before and however it waited: the completion read is never an earlier job's.
WaitIsForThisJob == owed > 0 => inflight \/ (a53Job /\ a53 # "low")

\* The R5 is never left in WFI over a finished job: the line is up and unmasked, or
\* will be.
NoLostLine == r5 = "wfi" /\ isr => Line /\ r5Line

\* The A53 is never left in poll() over a finished job for the 100 ms timeout to find.
NoMissedSleep == a53 \in {"sleep", "earlySleep"} /\ isr => uioEvent \/ (Line /\ uioOn)

\* Every wait of the R5 and every wait of the A53 returns.
R5WaitReturns  == r5 = "wait" ~> r5 = "cmd"
A53WaitReturns == a53Job ~> ~a53Job

InCall == inflight \/ a53Job

Call == INSTANCE RemoteCall WITH
          Callers <- Masters, NoCaller <- "none",
          phase <- IF ~InCall THEN "idle" ELSE IF owed > 0 THEN "called" ELSE "served",
          caller <- IF inflight THEN "R5" ELSE IF a53Job THEN "A53" ELSE "none"

\* A job is a remote call of the master that starts it: run once, then waited for.
IsRemoteCall == Call!CallSafety
=============================================================================
