# Formal models of the KV260 inference runtime

This directory holds TLA+ models of the concurrent parts of the repository, the
TLC configurations that check them and proofs checked by TLAPS. Paths are relative
to the root of the repository. `PROJECT.json` ties every definition to the lines it
models (`map`), every hazard to the properties that watch over it, and every
property to a mutation of the code that breaks it.

## 1. The system

The repository compiles ONNX graphs to C libraries that drive FPGA kernels (matmul,
conv, pool, vector, ...) of a Kria KV260: `inference-scheduler/src` is the compiler,
`inference-scheduler/runtime` the C runtime linked into each library, `kernels` the
hardware, `demo` the programs built on top, among them an HTTP chat server. Most of
the source is data transformation. What is hard to test is where two actors share
something, and where the compiler decides what may overlap:

    chat server threads ──FifoLock──▶ one request on the FPGA
        │ load / evict models (CMA memory)
        ▼
    generated library (A53, Linux) ──────────────────────────────┐
        │ records register writes, Starts, waits                 │ drives the kernels
        ▼                                                        │ itself, sleeping on
    inference_rpu_flush ──shared memory, two doorbells──▶ R5     │ their interrupts
                                                          │      │
                              starts, waits, interrupts   ▼      ▼
                                                     kernel lanes (AP_CTRL, GIE, IER, ISR)

### Components

| Component | State | Operations | Interacts by |
|---|---|---|---|
| **R5 offload: submission** (`runtime/inference_rpu.c`, `runtime/rpu/rpu_main.c`, `rpu_irq.c`, `rpu_ctrl.h`) | control block `struct rpu_ctrl` (cmd_seq, done_seq, wake, a53_rings, r5_sleeping, rc, ring address), one ring per library, two IPI channels | attach, detach, flush with spin, sleep, timeout; firmware loop, idle sleep, batch, fault | shared memory with posted stores and `dsb`, inter-processor interrupts, UIO |
| **R5 offload: recording** (same C file, `rpu_batch`) | `s_shadow`, `s_sent`, `s_sent_valid`, ring and `s_words` | enter/mode, register write, start, wait, flush | the ring; the kernels' registers, which other drivers write too |
| **Kernel completion** (`rpu_irq.c`, `inference_irq.c`, `*_ctrl_s_axi.sv`, generated drivers) | AP_CTRL, GIE, IER, ISR; `s_armed`, `s_inflight`; the UIO line | start, wait, early wake, batch end, interrupt handlers | device registers written by two masters in turn |
| **Chat server: FPGA lock** (`FifoLock`, `demo/chat/kv260_chat_server.py`) | `_busy`, `_queue`, `_lent`, tickets | acquire (timeout, cancel, full), lend, release | one condition variable |
| **Chat server: requests and residency** (same file) | `loaded`, `last_used`, CMA memory and its page cache | request, `_ensure_loaded`, `load_model`, `_lend`, shutdown | the FPGA lock |
| **Schedule and event stream** (`src/schedule.py`, `order_search.py`, `codegen/_core.py`, `_source.py`) | node list, aliases, dependence graph, pending lanes | build, move a node, emit a Start or wait, drain | the generated `inference_run()`, up to five kernels at once beside the CPU |
| **Buffers** (`codegen/_core.py`, `_source.py`, `_buf_impl.py`) | live intervals, pool slots, pointers of aliases and outputs; cache maintenance | slot colouring, redirection of output chains | the event stream: which calls are in flight when |
| **Model backends** (`demo/chat/*_backend.py`, `demo/chat/src/llm_api.c`) | the library's KV cache, its position, the encoded picture; `_cached`, the backend's idea of it | load, unload, prefill in segments and buckets, decode, truncate, cancel | calls into the C library; one request at a time |
| **Miranda** (`demo/miranda/`) | session state, dialogue mode, packet queue; the client's state and player | listen, wake, answer, speak, switch mode; stream, play, leave | a TCP control connection and UDP audio between two processes; five threads |
| Board lock and CMA (`src/remote/`) | a flock on the board, an environment variable | lock, nested use, reclaim | processes |
| Kernel datapaths, graph front end, number formats, cost models, bitstream loading, DDR monitor, camera demo | | | not concurrent or pure I/O (section 8) |

### What is hard, and what correctness means

* **Lost wake-ups** between two cores: the R5 goes to sleep while a command arrives,
  the A53 while the answer arrives. Stores are posted, so the argument rests on each
  `dsb`. Correct: nobody sleeps over work without a wake-up on its way.
* **Late answers**: a batch that timed out is answered while the next one is being
  recorded or waited for. Correct: an answer is taken for its own batch only.
* **A line with two masters**: GIE, IER and ISR of one kernel are written by the R5 and
  by the A53 in turn, ISR by *toggling*. Correct: a wait returns for its own job and
  never hangs, and no Start reaches a kernel at work.
* **Delta recording**: only changed registers are sent, against a copy that other
  drivers, mode changes and failed batches make stale. Correct: each Start runs with
  the registers the generated code wrote.
* **A lock that is lent**: the holder gives its turn to a waiter and gets it back.
  Correct: mutual exclusion, arrival order but for loans, every request served, every
  loan ended, also when a timeout or a cancelled client meets the loan.
* **Waits placed at compile time**: `inference_run()` has a wait where the emission
  believes a lane busy. Correct for every graph, every order the search may choose and
  every speed of the kernels: inputs are finished when a call starts, through aliases
  too; a lane has one call; nothing is in flight when the run returns.
* **Memory shared over time**: pool slots, slices, in-place merges and redirected outputs
  make several tensors one address. Correct: what a call reads stays whole while it runs
  and is where the call looks for it; outputs end in the caller's buffers.
* **A cache with two owners**: the library counts the positions it holds, the backend
  remembers what they mean, and an answer may end in any way at any call. Correct: what
  is sampled from is the conversation, a picture's rows its own; nothing held is computed
  twice; the library never refuses a call.
* **Speaking and listening at once**: server and client both believe something about who
  talks. Correct: the client does not hear its own speech, no old audio is transcribed as
  the next request, a mode switched by anyone takes effect, everybody leaves.
* **Residency**: a model evicted under an answer; eviction for memory that is only
  page cache; a load refused although there would have been room; the shutdown.

`PROJECT.json` lists each of them as a hazard at the line where it bites.

## 2. The modules

| Module | Models | Used by |
|---|---|---|
| `RemoteCall` | the abstract promise: a call is served once and only then returns | refined by `RpuDoorbell`, `KernelLane` |
| `RpuDoorbell` | submission of batches A53 → R5, the sleeps and doorbells of both | runs `doorbell_*` |
| `RpuDoorbellProofs` | its types, the two doorbells, the batches, that it is a remote call | TLAPS |
| `RpuRecorder`, `MCRpuRecorder` | recording, delta registers, replay | run `recorder` |
| `RpuRecorderProofs` | the replay of deltas is what was recorded; a Start fits the ring | TLAPS |
| `KernelLane` | one lane's control block, its two masters, interrupts | run `kernel_lane` |
| `KernelLaneProofs` | its waits and sleeps, and that a job is a remote call | TLAPS |
| `FpgaQueue` | `FifoLock` | run `fpga_queue`; extended by `ChatServer` |
| `FpgaQueueProofs` | its inductive invariant, exclusion, loans, order | TLAPS |
| `ChatServer`, `MCChatServer` | requests, loads, evictions, loans, shutdown over `FpgaQueue` | runs `chat_*` |
| `ChatServerProofs` | it uses the lock as `FpgaQueue` says; answers keep their model, evictions and refusals are due | TLAPS |
| `ModelGraph` | the node list, aliases, dependences, outputs, the order search | extended by `EventStream` |
| `EventStream` | emission of Starts and waits; the run of the emitted body | extended by `PoolLayout` |
| `PoolLayout`, `MCPoolLayout` | live intervals, slots, pointers, what is overwritten | runs `event_stream`, `output_redirect` |
| `EventStreamProofs` | for every graph the emitted waits are enough and shared memory is read while it holds | TLAPS |
| `LlmLibrary` | the C library of a language model: the plan of a prefill, the calls | extended by `LlmSession` |
| `LlmSession`, `MCLlmSession` | the text and picture backends: what they keep between requests | run `llm_session` |
| `LlmSessionProofs` | the cache is the conversation, no call is refused, the split costs least | TLAPS |
| `MirandaSession` | one session of the voice assistant with its client | run `miranda` |
| `MirandaProofs` | stale audio, the mute during speech | TLAPS |

Definitions marked `(mutant)` are plausible slips of the definition that follows them;
no specification uses them. `PROJECT.json` says which property each one breaks.

### RpuDoorbell

One step is one access to shared state. A store of either core is *posted*: `out` is
what its writer wrote last, `mem` what the other core reads, and `LandWord` carries a
word across at any later moment and in any order (the control block is mapped
uncached, the rings write-combined). `dsb` is the guard `A53Fence` / `R5Fence`: the
core's own stores have landed. Device writes (IPI TRIG and ISR, GIC unmask) are posted
in the set `dev`. The A53 program counter `a53` walks `inference_rpu_flush()` in its
order (args, cmd_seq, ring the R5 if it sleeps, spin, ask for a doorbell, recheck,
unmask, check, poll, unask, busy loop or timeout, return), `r5` walks `main()`,
`rpu_batch()` and `rpu_irq_idle()`. The ring is read once at a batch's start (`from`);
the barrier after `rpu_irq_idle()` is the step `Rest`, and there is none between the
doorbell and the next look at `cmd_seq`. Words of a ring carry the number of their batch
(`tag`) so that a stale word shows. `cmd_seq` counts modulo `SeqMod`. The UIO driver's
masking and one-event-per-descriptor behaviour is modelled from how the code uses it.

### RpuRecorder

Commands are records with their length in words; `Segments` is the code's splitting of
changed registers into runs (a gap of up to two unchanged registers is sent rather than
split), `Replay` is the firmware's interpretation. Submission is atomic here, the
interleaving being `RpuDoorbell`'s subject. `OtherDrives` is any other driver of the
same kernels between two runs. `intended` is the history variable: lane and registers
of each recorded Start, as the generated code had written them.

### KernelLane

`ctrl` is the register file (`ISR` toggles on write and sets on `ap_done`, `AP_CTRL`'s
done bit is cleared by reading). Each master's register writes land in order, late
(`posted`). The firmware part is `rpu_irq_start/wait/batch_end` with WFI under masked
IRQs; the A53 part is `inference_irq_start/wait` with the early sleep, the 100 ms poll
and the fall-back when UIO fails, and the polled wait of the generated driver. `owed`
counts jobs started and not finished.

### FpgaQueue

A step is what a thread does from taking the condition variable's lock to releasing it.
Tickets are threads. `waiting` and `lending` are the two `wait()`s; `NotifyAll` moves
every sleeper on. The deadline and `cancelled()` are the choice `GiveUp`, possible for any
awake waiter that is not granted. The request tag tested by `eligible` is the
arbitrary set `E` of `Lend`.

### ChatServer

Extends `FpgaQueue`: every action on the lock is an action of that module conjoined
with what the request does next. Memory is counted in units (`Size`, the estimate
`cma_mb` apart from it, because the code provides for estimates that fall short);
page cache sits in CMA until `reclaim_cma()` drops it. `used` is the order of
`last_used`. The main thread takes the lock like a request to stop the server.

### ModelGraph, EventStream, PoolLayout

One behaviour compiles a graph and runs the result; `phase` says how far it is. The graph
is built node by node (`AddWorker`, `AddReshape`, `AddSliceView`, `AddMerge`) so that
TLC meets every one within `Sizes`; `CloseGraph` chooses the outputs, under the
conditions of `_choose_slice_views` and `_merge_in_place` on what may be a view. A tensor
is its producing node. `by` is what the walk of `effective_preds` through aliases finds,
`root` what `_alias_root` finds. `Hoist` is a move of the order search without its price:
any legal move may pay. `Emit` is one turn of the loop of `_compute_event_stream`; an
entry of `stream` is a Start or call together with the waits written before it, so event
numbers are 2k for the waits and 2k+1 for the call. In the run, `Start` returns at once and
`Finish` comes at any later time; `Call` (host op, synchronous helper) holds the CPU.
`Place` is one turn of the greedy colouring, which needs the whole stream and therefore
comes after `Drain`, before the first step of the run (`Ready`). `Again` is the caller's
next `inference_run()` of the same library: the same body, the pointers restored, and all
that the pool holds left over from the last inference (`Repeat` empties `intact`).

`intact` holds the nodes whose result of this inference is still where they wrote it: a call that begins
overwrites at once whatever else lives in its buffer, except the sibling pieces of an
in-place merge, which lie beside each other. `InputsIntact` asks, all the time a call is
running, that each of its inputs is intact and that the reader's pointer is the writer's.

`AnyAlias = FALSE` restricts the outputs that are reshapes to chains over one buffer of
the pool with no other name (`OnlyChainAliases`): the others break the code (section 6).
What the generated C does not compile for (`Compiles`) is left out of both runs. One
state tensor stands for all KV caches; accesses of different states are independent.

### LlmLibrary, LlmSession

`LlmLibrary` is `llm_api.c` as its caller sees it: `pos` positions are filled, the first
by the sink token; a call is refused and changes nothing, or writes its rows. A row *is*
what it stands for: the token, or the picture and the number of its row at the time of the
call, so a row computed from the wrong picture shows. `LeastCost` and `Plan` are the
recurrence of `plan_split()`; `Calls` the loop of `llm_prefill()` over it, and `Prefill`
writes the union of what its calls write.

`LlmSession` is `generate()` of `Smollm2Backend` (`vision = FALSE`, segments of
`prefill_chunk`) and of `SmolvlmBackend` (`vision = TRUE`, segments that end with a
picture). `cached` is `_cached`; `Rewind` the common prefix and the truncation; one
`PrefillSegment` or `DecodeToken` is one library call. `Cancelled` is possible where
the code calls `cancel.check()`, `Abandoned` where it yields or works on text, `Fails` in
any call, before or after the library's part (`NextCall \/ UNCHANGED libVars`).
`history` is what the answer rests on, `spoilt` says that nothing may be expected
of the cache; both are history variables.

### MirandaSession

The server's threads take turns at the source's granularity: where `miranda_server.py`
reads or writes what another thread sees, a step ends. `at` is the worker's place in
`run()`, `listen()`, `on_segment()`, `respond()` and `_finish()`, `voice` the turn's
speech thread, `ctl` the handler of the control connection, `hand` the packet that
`on_rtp()` has let in and not yet put. `set_dialogue()`, which worker and control handler
both call, takes no lock: its test, its assignment and its message are three steps
(`Setting`, `Telling`). A message to a client that is gone may fail, and `Session.send()`
then closes the session (`Send`). The control connection ends in two ways: `EndOfSession`
("bye" or its end) closes the session, `ConnectionReset` (`recv()` raises) does not. What the recognizer makes of audio is the choice among `Ignored`,
`Request`, `Goodbye`, `LetsTalk` and `Wake`; silence limits may expire at any packet.
The client is the one that streams a recording (`--input`), with its keyboard; its
`events()` loop stops at `audio_end` until the player is done (`speaker = "last"`). `epoch`
numbers the times the worker began to listen; a packet carries the number of the time it was
admitted in, which makes `Stale` a comparison.

## 3. Runs

| Run | Instance | What it shows |
|---|---|---|
| `doorbell_libs` | 2 libraries, both with the doorbell, 1-word batches, no timeouts | no ring, doorbell or batch is lost, doubled or mixed up while libraries attach and detach; refinement of `RemoteCall` |
| `doorbell_late` | 1 library, 2-word batches, up to 2 submissions outstanding, firmware may fault | a batch given up while the R5 replays it does not disturb the next: what is replayed is what was recorded; while the firmware runs, a flush is answered without a timeout |
| `kernel_lane` | 1 lane, both masters, all wait modes, with and without firmware | waits are for their own job and return; refinement of `RemoteCall` |
| `recorder` | 2 lanes of 5 and 1 registers, 15-word ring, 2 register values | each Start runs with its registers; the ring is never overrun |
| `fpga_queue` | 5 threads, 3 places in the queue | the lock's safety and liveness |
| `chat_server` | 3 handlers and the main thread, 3 models of which any two fit, `one` and `auto` | answers keep their models, eviction follows the policy |
| `event_stream` | 2 lanes; graphs of up to 5 nodes in three families (below), all outputs and orders within them, kernels of any speed | in every inference the emitted waits are enough, conflicting state accesses keep their order, no buffer is reused or misplaced while it is read, outputs are written |
| `llm_session` | context of 8, buckets of 1 and 3 with two cost tables, chunks of 2; 3 text prompts, 3 prompts with 1 or 2 of 2 pictures of 2 rows | the cache holds the conversation sampled from, however the answers before ended; nothing is computed twice or refused; the split is the cheapest; a request returns |
| `miranda` | 3 packets, a queue of 2, one press of the key, 3 unread messages, late player, failing worker | mute and unmute, stale audio, the dialogue mode, the ends of both sides: a client that leaves frees its place, a closed session ends |
| `doorbell_mixed`, `chat_stop`, `output_redirect` | | the findings of section 6 |

The bounds, and why they are enough:

* Two libraries are the fewest that differ in who rings and in whose ring is replayed.
  With more, each step still involves the attached library and the one flushing.
* `BatchWords = 2` (`doorbell_late`) is the fewest words at which a batch can be half
  replayed, or be overwritten while it is. `doorbell_libs` takes one word: its hazards
  are between submissions.
  `SeqMod = MaxLate + 2` is the least that tells the outstanding submissions apart
  (2^32 in the code); smaller is wrong and excluded by `CountAssumption`.
  `MaxLate` bounds submissions that time out before one is answered; `Record` and
  `Timeout` are guarded by it.
* Five registers are the fewest on which a gap is split; a ring of 15 words is one word
  more than a full `Start` may need, so every length of rest occurs.
* One kernel lane: lanes share no register and `s_armed` is a bit per lane.
* Five threads with three places: a holder, a full queue and a newcomer, with a loan
  from any holder to any waiter.
* Three models of sizes 2, 2 and 1 in 4 units with one unit of page cache: every pair
  fits, the three do not, and one estimate is too low, so a load can fail beside others.

* `event_stream` explores three families of graphs (`MCSizes`): five nodes, one output,
  without slices and synchronous helpers, where lives are long enough for a slot to be
  used three times; four nodes of every kind with two outputs and one move of the order
  search, where every pair of alias kinds meets; three nodes with two accesses of the
  state, the fewest with a read and a write and something to move across. A node has at
  most two inputs. Two lanes are the fewest with overlap; a third adds kernels that wait
  for neither. `Narrow` prunes graphs that cannot end in so few outputs. Lanes are
  interchangeable (`LaneSymmetry`): no action or invariant names one. All six
  invariants are proved for every graph and order, in each of any number of inferences;
  the last two under the restriction on outputs (section 5).
* `llm_session`: a context of 8 is filled by the longest prompt and by an answer, so the
  last position is reached by a prefill, by a decode and by a padded call. Buckets 1 and 3
  with a cost table each way make padding pay or not; six tokens take two calls. Texts that
  share prefixes of 2, 3 and 4 tokens, the picture prompts share one picture at one place;
  two pictures are the fewest that can be confused, two rows the fewest with an order.
* `miranda`: three packets fill the queue of two and leave one in the UDP loop's hand, over
  as many as three turns. Three unread messages are more than any step sends, so that every sender can
  block. One key press is one mode switched against the worker, which switches it as well.

Deadlock is checked in every passing run but `doorbell_late` (after a firmware fault
nothing is taken any more), `chat_server` (the server stops) and `miranda` (client and
session end).

## 4. Fairness

* `RpuDoorbell`: a flush begun goes on (the thread is scheduled), the firmware loop goes
  on, what each core has posted drains, a pending unmasked line fires. Signals, failed
  writes, faults, new calls and *timeouts* are never relied on: in `FlushReturns` a flush
  is answered because no ring and no doorbell is lost, also after submissions that did
  time out. With a timeout promised the property would say nothing of either. Only once
  the firmware has faulted is the timeout what ends a flush, and `FlushReturns` excepts it.
* `KernelLane`: jobs end (the kernel is assumed to finish), writes land, lines fire, a
  wait or Start begun goes on. poll()'s 100 ms timeout, signals and the early timer are
  *not* relied on: `A53WaitReturns` holds by the event alone.
* `FpgaQueue`: a thread woken or whose `poll` interval is over goes on, and a holder
  releases at some point although loans interrupt it again and again (strong fairness
  of `Release`: the answer has finitely many tokens, between two of which it may
  lend). No waiter is obliged to give up.
* `LlmSession`: `WF(Answer)`: the thread that answers goes on. Loads, requests, cancels and
  failures are not relied on: an answer returns because the context is finite.
* `MirandaSession`: every thread of the server and the client's event loop go on (weak
  fairness each), the chat server answers or times out (300 s), the player ends, the UDP
  loop puts its packet and the recording is read in real time. The keyboard, `Quit` and a
  failing worker are not relied on. `LeavesWhenQuiet` needs `_watch_eof()` to poll and
  says so itself (`PollsForQuiet`): the other properties hold for a client that never does.
  `SessionReleased` says that a client that is gone frees its place in the list and that the
  worker of a *closed* session ends. That the worker of every client that is gone ends
  is false (section 6).
* `RpuRecorder` and `ChatServer` state safety only, and so does `PoolLayout`: that its
  run never gets stuck before it returns is the deadlock check of `event_stream` (a
  state of phase `run` without a step would be one; only `build`, where a graph within the
  bounds may have no legal end, may stutter).

## 5. Proofs

Every safety property of the passing runs is a theorem, action properties and the two
refinements of `RemoteCall` included. Eight modules hold the proofs. They assume of the
constants what the modules name, and nothing else but where a theorem says so:

* `LibsAssumption`, `CountAssumption`, `FaultAssumption` (`RpuDoorbell`): the counter tells
  the outstanding submissions apart;
* `RegsAssumption`, `RingAssumption`, `HangAssumption` (`RpuRecorder`): one Start fits an
  empty ring;
* `ThreadsAssumption`, `ServerAssumption` (`FpgaQueue`, `ChatServer`): "none" is no
  thread and no model, the models are a list without repetition, each fits the memory;
* `LaneAssumption`, `AliasAssumption`, `SizeAssumption` (`ModelGraph`): the bounds may be any;
* `LibraryAssumption`, `TokenAssumption`, `SessionAssumption`, `NilAssumption` (the language
  models): at least one bucket and finitely many, the ids of picture rows past the vocabulary, prompts not
  empty and made of tokens and pictures;
* `QAssumption`, `BoundAssumption`, `FlagAssumption` (`MirandaSession`).

Where a definition is recursive or a fold (`Calls`, `LeastCost`, `Replay`, the memory
models take, sums over buckets), what it computes is shown by a least counterexample: the
smallest number, the shortest prefix or the smallest subset at which it would fail is
led to a smaller one.

* `TypeCorrect`: type correctness of `RpuDoorbell`. Not inductive alone: the R5 indexes
  the ring named in the control block, so `ArgsNamed` adds that a command it may take
  names a ring.
* `DoorbellNeverLost` (`[]NoLostDoorbell`), for any libraries, any number of timeouts,
  with faults. `DoorbellInv` adds what a sleeping A53 has made true on the way to
  poll(): from the recheck on `wake` has landed and its own clear of the ISR is done, so
  an answer that comes now finds `wake = 1`, and an answer posted before was seen.
* `RingNeverLost` (`[]NoLostRing`), assuming every library can ring (`Bell = Libs`);
  without that it is false (`doorbell_mixed`). `RingInv` is the mirror image: from the
  fenced check on `r5_sleeping` has landed, the clear is done and the line unmasked.
* `AnsweredAsRecorded` (`[]ReplayedAsRecorded`), for any number of submissions given up: a flush
  returns with an answer only when the R5 has replayed the words of that batch.
  `BatchInv` lines up the four numbers (the submission in memory, the one the R5 took, the
  one it answered, the answer in memory) by how far each is behind the last submission, modulo
  `SeqMod`, and bounds the last by the submissions outstanding (`Numbered`): so equal
  numbers are the same submission. `Named`: batch and ring are in memory before `cmd_seq`
  goes out. `Taken`: once the R5 has the last submission, it replays that batch. `RecorderOwnsRing`
  (`[]RingOwned`) and the refinement `OffloadIsRemoteCall` assume `MaxLate = 0`: with
  a submission given up the library records over a ring the R5 may still replay,
  and its call has returned unserved, so both are false then.
* `RpuRecorderProofs`: `AsWritten` (each Start runs with the registers the generated code wrote)
  and `FitsRing`, for any lanes, register files, ring length and runs, with modes
  switched and other drivers between. `RecInv` says what a replay of the ring *as it is
  now* would do: the Starts recorded so far, and leave every lane that was sent with what
  `s_sent` holds. That this survives one Start is `DeltaReplay`: the runs of
  changed registers are disjoint, ordered, more than `MaxGap` apart and cover every
  change (`SegmentsSplit`), so what they leave out is what the kernel holds already.
  `RunWords` bounds their length, `ReplayAppend` is what a command more does to a replay.
* `FpgaQueueProofs`: the inductive invariant `QueueInv` says that the queue holds the
  waiting threads, each once (`QueueOfWaiters`), that the lock is taken while somebody is
  inside (`BusyOwned`), that without a loan one thread is inside and no mark is left
  (`NotLent`), and that a loan has one lender and one borrower, which is about to run
  or runs alone (`LentOnce`). None of the properties is inductive without all four: a
  release tells the borrower from the holder by `_lent` only, so exclusion needs
  `LentOnce`, whose proof needs that a flagged ticket is still queued. From it follow
  `OneRuns`, `LoanComesBack`, `LenderWoken` (no wake-up of lend(), which waits without
  a timeout, is lost) and, as an action property, `InArrivalOrder`. The lemma
  `WithoutOne` states what `_queue.remove` does to a queue without duplicates.
* `ChatServerProofs`: `ServerUsesLock` shows every step of the server to be one of the lock or
  to leave it alone, so `QueueInv` holds in the server; `KeepsModel`, `Refusal`, `Eviction`
  and `ServerTypes` build on it, for any threads, models and memory. `ServerInv`
  carries `AnswerKeepsModel` with what makes it inductive: a loan goes to a request for
  a speech model that is loaded, is not its lender's and needs no room made
  (`LoanFits`), and a load is retried with nothing else loaded (`RetryAlone`). `ModelsInv`
  adds that `last_used` ranks every model once and that loaded models and page cache
  never exceed the memory (`Fits`).
* `EventStreamProofs`, the stream, for every graph that can be built, every order the search may
  choose, every number of lanes and of inferences: `LanesNeverShared`, `InputsProduced`, `StateKeepsOrder`
  and `NothingInFlight`. `LayoutWatchesStream` shows that the run with its buffers is a run
  of the stream alone, and the rest is about the stream. The invariant follows
  the compiler's phases. `GraphOK`: edges go backwards in the model file and the walk
  through aliases ends at nodes that work. `OrderOK`: a move of the search keeps both and the order of
  conflicting state accesses, although only the edges of the *last write* are in the graph
  (`NearestWrite`, from the well-foundedness of <). `Pending`: a kernel emitted and
  not waited for is pending on its lane, so the next call that needs it or its lane finds it there;
  `Waits`: hence its wait stands behind its Start and no later than that call. `Running`:
  what stands before `pc` has begun and what was waited for is done; that no call in
  flight is on the next call's lane or among its producers then follows (`Reached`).
* `EventStreamProofs`, the buffers: `ReadersFindTheirInputs` (`[]InputsIntact`) and
  `CallersGetOutputs` (`[]OutputsWritten`), assuming `AnyAlias = FALSE`: with outputs that
  are any reshapes both are false (`output_redirect`). The assumption is about outputs that
  are reshapes, not about callers: they must be chains over one pool buffer with no other name
  (`OnlyChainAliases`), whose pointers no two outputs share, so that restoring them after a run
  undoes the redirection. Under it both hold in every inference, the first or a later one
  over the results of the one before (`RepeatLaid`). `LayoutInv` says: aliases lead back to
  the node that owns the memory, and a merge is the only reader of its pieces,
  which are calls' results (`AliasOK`);
  the outputs are what the
  code's conditions on views, merges and reshapes allow (`OutsOK`); two tensors
  of one slot have lives that do not meet (`SlotsOK`); and whatever a node has still to
  read, or the caller, is whole once written (`Kept`). The step that matters is a call
  that begins and overwrites its buffer (`WantedSpared`): another tensor of that slot is
  dead, because its readers stand earlier in the stream *and have been waited for*
  (`DrainedBefore`), which is where the lives, counted in events of the stream and not
  in nodes, are needed.
* `LlmSessionProofs`, for any context, buckets, costs, chunk, prompts and pictures:
  `LogitsAreOfConversation`, `KeepsWhatItHolds`, `RefusesNothing`, `SplitsCostLeast` and the
  types. On the library's side the calls of a prefill take each token once (`CallsCover`), so a
  prefill writes its tokens one after another (`PrefillFills`), whatever the split. On the
  session's side `cached` is the rows the library holds or is None (`Mirror`), it is a
  proper prefix of the prompt while that is prefilled, the picture shown being the
  encoder's (`Filling`), and all that was said but the token just sampled afterwards
  (`Answers`). `Kept`: unless a call failed, an open library's content is
  known. `SplitsCostLeast`: taking a call away from *any* mix of calls leaves one with room for the tokens left (`CostIsLeast`), and the calls
  planned cost exactly what the recurrence says (`CallsAreCheapest`).
* `MirandaProofs`, for any queue, recording, number of unread messages and key presses.
  `StaleAudioDropped`: the queue and the UDP loop's hand together hold at most one stale
  packet. `MutedDuringSpeech`: the invariant speaks of every message on its way, at the
  moment the client will take it: speech starts when it will be muted, a listening state comes
  when its speech will have ended, and what ends is speech (`PipeInv`); `ServerInv` says
  what each thread may rely on behind the last message (while the speech thread is about
  to begin, the client will be muted; while it speaks, the client will be playing). `Told`
  and `Heard` are the lemmas on a message more at the end and one less at the front;
  the steps then follow from `Fits`.
* `KernelLaneProofs`: `WaitsForThisJob`, `FirmwareIsWoken`, `LibraryIsWoken` and the
  refinement `JobIsRemoteCall`. `KernelLane` has no constants, so these do not reach further
  than the run; what they add is the argument. Its heart is what may still be on the way to
  the registers at each place of the lane's owner: while the R5 has the lane nothing of the
  A53 is (`OwnerInv`); GIE stands before ap_start in every queue, so it has landed when
  a job can end; a `toggleIsr` is on its way only while its owner reads the ISR for it,
  so the next bit set is the end of the owner's own job (`R5JobInv`, `A53JobInv`); the
  line is unmasked from before the last read until the event. The queues are named
  sequences of which the proofs use only `Heads`, `Lengths`, `Posts` and `NoStart`.

Each invariant was checked by TLC on the instance of its run before it was proved.

Model-checked only: liveness, which rests on fairness and is out of the prover's reach
(`FlushReturns`, `R5WaitReturns`, `A53WaitReturns`, `RequestServed`, `LoanEnds`,
`AnswerReturns`, `LeavesWhenQuiet`, `ModeTakesEffect`, `SessionReleased`), and the absence of deadlock.

## 6. Findings

* `doorbell_mixed`: `a53_rings` is one word for all libraries, written by whoever
  attached last. A library without the `rpu_ipi` device followed by one with it: the R5
  sleeps and a submission of the first is not seen until it times out or the other
  rings. The comments say a submission is never missed.
* `chat_stop`: the shutdown queues for the FPGA like a request. With a full queue
  `acquire(60.0)` returns at once and the models are closed under the running request,
  against the comment one line above it.
* `output_redirect`: an output that is a Reshape or Identity of another output is never
  written: `_output_aliases` follows the chain while the source is an intermediate, and
  an output is none. `inference_run()` redirects nothing for it and no call writes it.
  Under the same configuration `InputsIntact` fails as well: the chain is redirected at
  the start of the run, but another reshape of the same buffer keeps the address it got in
  `inference_init()`, so its reader reads the pool slot that nothing wrote. By reading, an
  in-place `Concat` whose output is reshaped to a graph output is a third case: its inputs
  are views of the pool buffer and stay there.

Seen while modelling and not stated by a run:

* After a batch given up `s_sent` no longer holds what the kernel holds, until the next run
  starts with full blocks (`RpuRecorder` with timeouts).
* `inference_rpu_error()` is the last *failed* flush's result: a flush that succeeds does
  not reset it (`inference_rpu.c:390`; `inference_rpu.h:83` says the last flush's).
* A register the generated code never writes is put back, at the first Start of each run, to
  the value it had when the R5 mode was switched on, over what another driver wrote
  since (`inference_rpu.c:421`; the snapshot is taken at `inference_rpu.c:214`).
* `health()` of the text backend reads `_cached` twice while another thread may reset it
  between the two (`smollm2_backend.py:468`).
* Miranda, a connection that is reset. `s.close()` (`miranda_server.py:1028`) stands inside the
  `try`; when `chan.recv()` raises (a client killed with data unread, a bad frame), the
  `except` at 1032 logs, the `finally` unlists the session and closes the channel, and
  nobody closes the session: `Session.send()` skips a closed channel, so the idle worker
  polls `q.get(timeout=0.5)` for ever, and session and thread are never released. In
  `MirandaSession`, `gone ~> at = "ended"` fails so: `WarmUp`, `Drain`, `Resume`, the client's
  `Quit`, `ConnectionReset`, then `Top`, `GetTimeout` again and again. No line of the
  repository promises that workers end (the closest is "one TCP connection per session",
  `miranda_proto.py:16`), so no run states it; `SessionReleased` states what does hold.
* Miranda, after an exception in the worker that is no `ApiError`: the session is closed and
  the client told by an error message alone. It stays muted, the control thread stays
  in `recv()`, and the session keeps its place until the client goes
  (`miranda_server.py:579-583`); the turn's speech thread may stay in `tts_q.get()`. `LeavesWhenQuiet`
  excepts this case.
* Miranda, two threads that switch the mode: `set_dialogue()` (`miranda_server.py:534-540`)
  takes no lock, so both may pass its test, and their messages may cross the assignments:
  the client is told twice, or believes the other mode until the next switch.
* Miranda, a `playback_done` that comes after the worker gave up waiting ends the wait of
  the next turn at once (`miranda_server.py:861`): the server listens while the client
  plays. The client's own mute holds nevertheless, which is what `MutedWhilePlaying` and its
  proof say.
* A client that vanishes without closing its connection keeps its place: `recv()` has no
  timeout.

## 7. Choices worth knowing

* `doorbell_libs` has no timeouts, `doorbell_late` one library: the product is too
  large for one run, and the hazards of the two do not interact (a library that times
  out leaves its own ring only).
* `RpuDoorbell` leaves out RPU_CMD_QUIT, the statistics, `dump_hang` and a firmware that
  rejects a well-formed batch; `KernelLane` leaves out the R5's wait on a lane without
  interrupt and a mode change between Start and wait.
* `ChatServer` assumes that `reclaim_cma()` is allowed and CmaFree known (the server
  runs as root on the board) and that a failed load leaves nothing behind; where a
  reclaim is refused the code evicts by CmaFree alone. `--resident all` never evicts and
  is left out, as are models that do not use the FPGA.
* Request handling before the lock (parsing, `prepare`) touches no shared state and is
  the single step `Request`; speech and transcription requests differ from chat only in
  that they may borrow and do not lend.

* Prefills are split in two places: `plan_split()` of `llm_api.c`, which `SplitIsLeast`
  is about, and `split_prefill()` of `demo/chat/scripts/llm_project.py`, which is not
  modelled; that the two agree is not checked here.
* `LlmSession` leaves out tokenizers, samplers, stop strings (an end of the answer at any
  token), statistics, and the speech backends, which keep nothing between requests but
  their open library. `MirandaSession` leaves out the session list, the display, sentences and
  the weather tool; a client with a microphone has no end of its recording and differs in
  `_watch_eof()` alone. A datagram delayed past a whole turn is not modelled: such a packet
  would be admitted in a later epoch and be new to everybody.
* `PoolLayout` leaves out sizes and addresses inside the pool: a slot is as large as its
  largest tensor, slots do not overlap (`_place`), and bank phases only move them. Graph
  inputs and weights are never written and are left out, as are reshapes of graph
  inputs, which are assigned per run. Host tensors in the malloc arena use the same
  intervals with calls of the CPU only. The R5 flush before each host op is part of
  `RpuRecorder`'s story: the wait events of the stream are recorded like the Starts.

## 8. Not modelled

Kernel datapaths (arithmetic, verified by simulation), the graph front end and number
formats (large data transformations without concurrency), cost models (real-valued
estimates), bitstream and firmware loading (sysfs I/O), the DDR monitor, the camera
demo. Most of the source's lines are of these kinds, and a model of a formula translated
line by line would restate it. The board lock is one `flock` in a `with` block: the
kernel does the excluding, and what is delicate, the environment variable inherited by
children that outlive the block, is a process tree that no line of the code orders. Of
the parts modelled in part: HTTP and streaming of the chat server, RPU_CMD_QUIT and the
statistics of the offload, bank phases of the pool, several entry points that share a state.

## 9. Plan

Done: the offload (`RpuDoorbell`), kernel completion (`KernelLane`), recording
(`RpuRecorder`), the FPGA lock (`FpgaQueue`), the server over it (`ChatServer`), the
schedule (`ModelGraph`, `EventStream`), the memory pool (`PoolLayout`), the language-model
sessions (`LlmSession`) and the voice assistant (`MirandaSession`); proofs of every safety
property of the passing runs.

Left, in this order:

1. Proofs: the steps liveness rests on (which action is enabled in which state of a wait
   cannot be proved, but that no step undoes a wake-up can), beginning with the lock.
2. `ChatServer` with `--resident all` and with a reclaim that is refused.
3. The bank phases and several entry points over one state in `EventStream`.
