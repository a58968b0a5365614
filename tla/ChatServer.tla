----------------------------- MODULE ChatServer -----------------------------
(***************************************************************************)
(* The chat server's requests (demo/chat/kv260_chat_server.py): each takes   *)
(* the FPGA (FpgaQueue), makes its model resident, evicting others, and runs  *)
(* it; a chat answer lends the FPGA between two tokens.  One thread a request, *)
(* and the main thread, which stops the server.                             *)
(***************************************************************************)
EXTENDS FpgaQueue, FiniteSetsExt, SequencesExt

CONSTANTS
  Handlers, Main,   \* the request threads and the main thread
  NoModel,          \* between two requests
  Order,            \* the models on the FPGA, in the order they are configured
  Speech,           \* those for speech and transcription, the others chat
  Residents,        \* the values of --resident looked at
  Total,            \* the CMA memory (MB, in units that suit the instance)
  Size,             \* what each model takes of it
  Estimate,         \* cma_mb, what each is said to take
  Margin,           \* cma_margin_mb
  MaxCache          \* bound: page cache that may sit in CMA

Models == ToSet(Order)

ASSUME ServerAssumption ==
  /\ Threads = Handlers \cup {Main} /\ Main \notin Handlers
  /\ Order \in Seq(Models) /\ Order # <<>> /\ IsInjective(Order)
  /\ NoModel \notin Models /\ Speech \subseteq Models /\ Residents \subseteq {"one", "auto"}
  /\ Total \in Nat /\ Margin \in Nat /\ MaxCache \in Nat
  /\ Size \in [Models -> 1 .. Total] /\ Estimate \in [Models -> Nat]

VARIABLES
  resident,   \* --resident
  job,        \* the model of each thread's request
  step,       \* where the request is
  loaded,     \* the models loaded
  used,       \* the models by last_used, the least recently used first
  cache,      \* page cache in CMA
  stop        \* the shutdown: "no", "waiting", "closed", or, the FPGA not
              \* taken, closed anyway: "full", "timeout"

modelVars == <<resident, loaded, used, cache>>
vars == <<queueVars, modelVars, job, step, stop>>

Steps == {"idle", "acquire", "ensure", "room", "load", "retry", "generate", "refused", "done"}

Goes(t, p, q) == step[t] = p /\ step' = [step EXCEPT ![t] = q]

Up == stop \in {"no", "waiting"}    \* the process lives

------------------------------------------------------------------------------
(* Taking the FPGA.                                                         *)

Request(t, m) == /\ Goes(t, "idle", "acquire")
                 /\ job' = [job EXCEPT ![t] = m]
                 /\ UNCHANGED <<queueVars, modelVars, stop>>

\* _acquire(): the FPGA at once, a place in the queue, or a 503.
Acquire(t) == /\ step[t] = "acquire"
              /\ \/ Enter(t) /\ Goes(t, "acquire", "ensure")
                 \/ Join(t) /\ UNCHANGED step
                 \/ at[t] = "out" /\ Full /\ Goes(t, "acquire", "idle") /\ UNCHANGED queueVars
              /\ UNCHANGED <<modelVars, job, stop>>

Waiting(t) == /\ step[t] = "acquire"
              /\ \/ PollOver(t) /\ UNCHANGED step
                 \/ WaitAgain(t) /\ UNCHANGED step
                 \/ Grant(t) /\ Goes(t, "acquire", "ensure")
              /\ UNCHANGED <<modelVars, job, stop>>

\* The queue's timeout, or the client left.
Gone(t) == /\ Goes(t, "acquire", "idle") /\ GiveUp(t)
           /\ UNCHANGED <<modelVars, job, stop>>

------------------------------------------------------------------------------
(* Making the model resident, under the lock.                               *)

Held(S) == MapThenSumSet(LAMBDA m : Size[m], S)

CmaFree == Total - Held(loaded) - cache

Room(m) == CmaFree >= Estimate[m] + Margin

Others(m) == loaded \ {m}

Running(t) == at[t] = "running" /\ job[t] # NoModel

\* _ensure_loaded(): the model becomes the one used last.
Ensure(t) == /\ Running(t)
             /\ Goes(t, "ensure", IF job[t] \in loaded THEN "generate" ELSE "room")
             /\ used' = Append(Without(used, job[t]), job[t])
             /\ UNCHANGED <<queueVars, resident, loaded, cache, job, stop>>

\* load_model(), one model at a time.
EvictOthers(t) == /\ Running(t) /\ resident = "one"
                  /\ Goes(t, "room", "load")
                  /\ loaded' = loaded \ Others(job[t])
                  /\ UNCHANGED <<queueVars, resident, used, cache, job, stop>>

\* (mutant) the page cache counted as taken
KeepCache == UNCHANGED cache

\* Page cache in CMA is not a reason to evict: it is dropped first.
Reclaim == cache' = 0

\* (mutant) the most recently used one
MostRecent(S) == CHOOSE m \in S : \A i \in 1 .. Len(used) : used[i] = m =>
                    \A j \in i + 1 .. Len(used) : used[j] \notin S

LeastRecent(S) == CHOOSE m \in S : \A i \in 1 .. Len(used) : used[i] = m =>
                    \A j \in 1 .. i - 1 : used[j] \notin S

\* load_model() with --resident auto: no room, so the page cache goes, then one
\* model after the other.
MakeRoom(t) == /\ Running(t) /\ resident = "auto"
               /\ Goes(t, "room", "room")
               /\ Others(job[t]) # {} /\ ~Room(job[t])
               /\ IF cache > 0
                    THEN Reclaim /\ loaded' = (IF cache' = 0 THEN loaded
                                               ELSE loaded \ {LeastRecent(Others(job[t]))})
                    ELSE loaded' = loaded \ {LeastRecent(Others(job[t]))} /\ UNCHANGED cache
               /\ UNCHANGED <<queueVars, resident, used, job, stop>>

HasRoom(t) == /\ Running(t) /\ resident = "auto"
              /\ Goes(t, "room", "load")
              /\ Others(job[t]) = {} \/ Room(job[t])
              /\ UNCHANGED <<queueVars, modelVars, job, stop>>

\* b.load() succeeds: only if the memory is there.  Reading the weights leaves page cache.
Load(t) == /\ Running(t)
           /\ step[t] \in {"load", "retry"} /\ Goes(t, step[t], "generate")
           /\ Held(loaded \cup {job[t]}) <= Total
           /\ loaded' = loaded \cup {job[t]}
           /\ cache' \in 0 .. Min({MaxCache, Total - Held(loaded')})
           /\ UNCHANGED <<queueVars, resident, used, job, stop>>

\* (mutant) no second try
GivesUpAtOnce(t) == /\ Running(t) /\ Goes(t, "load", "refused")
                    /\ UNCHANGED <<queueVars, modelVars, job, stop>>

\* It fails beside other models: all of them go, one more try (auto).
LoadFails(t) == /\ Running(t)
                /\ IF resident = "auto" /\ Others(job[t]) # {}
                     THEN Goes(t, "load", "retry") /\ loaded' = loaded \ Others(job[t])
                     ELSE Goes(t, "load", "refused") /\ UNCHANGED loaded
                /\ UNCHANGED <<queueVars, resident, used, cache, job, stop>>

RetryFails(t) == /\ Running(t) /\ Goes(t, "retry", "refused")
                 /\ UNCHANGED <<queueVars, modelVars, job, stop>>

\* The library cannot be opened (OSError): no retry.
LibraryMissing(t) == /\ Running(t)
                     /\ step[t] \in {"load", "retry"} /\ Goes(t, step[t], "done")
                     /\ UNCHANGED <<queueVars, modelVars, job, stop>>

------------------------------------------------------------------------------
(* The answer.                                                              *)

\* (mutant) a model that must load first may borrow
EligibleUnloaded(m) == {u \in Handlers : job[u] # m /\ job[u] \in Speech}

\* _lend(): to a speech or transcription request on another model already loaded.
Eligible(m) == {u \in Handlers : job[u] # m /\ job[u] \in Speech /\ job[u] \in loaded}

LendFpga(t) == /\ Running(t) /\ step[t] = "generate" /\ job[t] \notin Speech
               /\ Lend(t, Eligible(job[t]))
               /\ UNCHANGED <<modelVars, job, step, stop>>

LoanBack(t) == /\ LoanOver(t)
               /\ UNCHANGED <<modelVars, job, step, stop>>

\* The last token, an error, or the client gone.
Finish(t) == /\ Running(t) /\ Goes(t, "generate", "done")
             /\ UNCHANGED <<queueVars, modelVars, job, stop>>

\* Whatever happened, release().
End(t) == /\ step[t] \in {"done", "refused"} /\ Goes(t, step[t], "idle")
          /\ Release(t)
          /\ job' = [job EXCEPT ![t] = NoModel]
          /\ UNCHANGED <<modelVars, stop>>

------------------------------------------------------------------------------
(* The shutdown: serve_forever() is left, and the main thread takes the FPGA. *)

Shutdown == /\ stop = "no" /\ stop' = "waiting"
            /\ UNCHANGED <<queueVars, modelVars, job, step>>

\* close_models(), and the process ends.
Closes(how) == stop' = how /\ loaded' = {}

StopAcquire == /\ stop = "waiting"
               /\ \/ Enter(Main) /\ Closes("closed")
                  \/ Join(Main) /\ UNCHANGED <<stop, loaded>>
                  \/ at[Main] = "out" /\ Full /\ Closes("full") /\ UNCHANGED queueVars
               /\ UNCHANGED <<resident, used, cache, job, step>>

StopWaiting == /\ \/ PollOver(Main) /\ UNCHANGED <<stop, loaded>>
                  \/ WaitAgain(Main) /\ UNCHANGED <<stop, loaded>>
                  \/ Grant(Main) /\ Closes("closed")
               /\ UNCHANGED <<resident, used, cache, job, step>>

\* After 60 seconds, anyway.
StopTimeout == /\ GiveUp(Main) /\ Closes("timeout")
               /\ UNCHANGED <<resident, used, cache, job, step>>

------------------------------------------------------------------------------
\* Loaded at startup: the first model, with auto others while there is room.
Init == /\ QueueInit
        /\ resident \in Residents
        /\ loaded \in {S \in SUBSET Models : Head(Order) \in S /\ Held(S) <= Total}
        /\ resident = "one" => loaded = {Head(Order)}
        /\ used = Order /\ cache = 0
        /\ job = [t \in Threads |-> NoModel]
        /\ step = [t \in Threads |-> "idle"]
        /\ stop = "no"

Serve(t) == \/ Acquire(t) \/ Waiting(t)
            \/ Ensure(t) \/ EvictOthers(t) \/ MakeRoom(t) \/ HasRoom(t)
            \/ Load(t) \/ LoadFails(t) \/ RetryFails(t) \/ LoanBack(t) \/ End(t)

Next == Up /\ \/ \E t \in Handlers : \/ \E m \in Models : Request(t, m)
                                     \/ Serve(t) \/ Gone(t) \/ LibraryMissing(t)
                                     \/ LendFpga(t) \/ Finish(t)
              \/ Shutdown \/ StopAcquire \/ StopWaiting \/ StopTimeout

Spec == Init /\ [][Next]_vars

------------------------------------------------------------------------------
TypeOK == /\ QueueTypeOK
          /\ resident \in Residents /\ loaded \subseteq Models
          /\ used \in Seq(Models) /\ Len(used) = Len(Order) /\ ToSet(used) = Models
          /\ cache \in 0 .. MaxCache /\ Held(loaded) + cache <= Total
          /\ job \in [Threads -> Models \cup {NoModel}] /\ step \in [Threads -> Steps]
          /\ stop \in {"no", "waiting", "closed", "full", "timeout"}

\* An answer keeps its model: nothing that runs while it has lent the FPGA, and no
\* eviction, takes its model away before it is done.
AnswerKeepsModel == Up => \A t \in Handlers : step[t] = "generate" => job[t] \in loaded

\* --resident auto: a model is refused for its failing load only when it had the
\* memory to itself.
RefusedAlone ==
  \A t \in Handlers : resident = "auto" /\ step[t] = "refused" => loaded \subseteq {job[t]}

UsedBefore(m, n) == \E i, j \in 1 .. Len(used) : i < j /\ used[i] = m /\ used[j] = n

\* Making room takes the least recently used models, and only while the models
\* themselves, page cache apart, leave too little.
EvictsForRoom ==
  [][\A t \in Handlers : step[t] = "room" /\ resident = "auto" /\ stop' \notin {"full", "timeout"} =>
        \A m \in loaded \ loaded' :
           /\ Held(loaded) + Estimate[job[t]] + Margin > Total
           /\ \A n \in loaded \cap loaded' : UsedBefore(m, n)]_vars

\* The shutdown lets a running request finish before its model goes away.
StopLetsFinish == stop \in {"closed", "full"} => \A t \in Handlers : step[t] # "generate"
=============================================================================
