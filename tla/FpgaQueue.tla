------------------------------ MODULE FpgaQueue ------------------------------
(***************************************************************************)
(* The mutex of the FPGA in the chat server (FifoLock of                     *)
(* demo/chat/kv260_chat_server.py): granted in arrival order, and lent by    *)
(* its holder between two steps of its work.                                 *)
(*                                                                         *)
(* Every method runs under the condition variable's own lock; a step is what *)
(* a thread does from taking that lock to releasing it, by returning or by   *)
(* waiting on the condition variable.                                       *)
(***************************************************************************)
EXTENDS Naturals, Sequences

CONSTANTS
  Threads,      \* the server's threads
  NoThread,     \* _lent is None
  MaxWaiting    \* max_waiting

ASSUME ThreadsAssumption == NoThread \notin Threads /\ MaxWaiting \in Nat

VARIABLES
  busy,     \* _busy
  queue,    \* _queue, each thread standing for its ticket
  lent,     \* _lent
  flagged,  \* threads whose ticket has `lent` set
  at        \* where each thread is

queueVars == <<busy, queue, lent, flagged, at>>

\* "waiting" and "lending" wait on the condition variable in acquire() and lend();
\* "awake" and "returning" were notified, or their poll is over, and go on next.
Places == {"out", "waiting", "awake", "running", "lending", "returning"}

------------------------------------------------------------------------------
Without(q, t) ==
  LET i == CHOOSE j \in 1 .. Len(q) : q[j] = t
  IN  [j \in 1 .. Len(q) - 1 |-> IF j < i THEN q[j] ELSE q[j + 1]]

\* (mutant) only those that wait for the lock
NotifyWaiters(t, place) ==
  at' = [u \in Threads |-> IF u = t THEN place ELSE IF at[u] = "waiting" THEN "awake" ELSE at[u]]

\* Every thread on the condition variable is notified, and `t` goes to `place`.
NotifyAll(t, place) ==
  at' = [u \in Threads |-> CASE u = t -> place
                             [] u # t /\ at[u] = "waiting" -> "awake"
                             [] u # t /\ at[u] = "lending" -> "returning"
                             [] OTHER -> at[u]]

------------------------------------------------------------------------------
(* acquire()                                                                *)

\* (mutant) a newcomer does not look at the queue
FreeToAny == ~busy

Free == ~busy /\ queue = <<>>

Enter(t) == /\ at[t] = "out" /\ Free
            /\ busy' = TRUE
            /\ at' = [at EXCEPT ![t] = "running"]
            /\ UNCHANGED <<queue, lent, flagged>>

\* (mutant) one request too many
FullLate == ~Free /\ Len(queue) > MaxWaiting

Full == ~Free /\ Len(queue) >= MaxWaiting

Join(t) == /\ at[t] = "out" /\ ~Free /\ ~Full
           /\ queue' = Append(queue, t)
           /\ at' = [at EXCEPT ![t] = "waiting"]
           /\ UNCHANGED <<busy, lent, flagged>>

\* The wait ends after `poll` seconds at the latest.
PollOver(t) == /\ at[t] = "waiting"
               /\ at' = [at EXCEPT ![t] = "awake"]
               /\ UNCHANGED <<busy, queue, lent, flagged>>

\* (mutant) whoever wakes up first
GrantedToAny(t) == t \in flagged \/ ~busy

Granted(t) == t \in flagged \/ (~busy /\ Head(queue) = t)

\* (mutant) the loan mark stays with the thread
LeaveFlagged(t, place) == /\ queue' = Without(queue, t)
                          /\ NotifyAll(t, place)
                          /\ UNCHANGED <<lent, flagged>>

Leave(t, place) == /\ queue' = Without(queue, t)
                   /\ flagged' = flagged \ {t}
                   /\ NotifyAll(t, place)
                   /\ UNCHANGED lent

Grant(t) == /\ at[t] = "awake" /\ Granted(t)
            /\ busy' = (t \notin flagged \/ busy)
            /\ Leave(t, "running")

\* (mutant) the deadline looked at before the loan
GiveUpLent(t) == /\ at[t] = "awake"
                 /\ UNCHANGED busy
                 /\ Leave(t, "out")

\* Past the deadline, or the client gone.
GiveUp(t) == /\ at[t] = "awake" /\ ~Granted(t)
             /\ UNCHANGED busy
             /\ Leave(t, "out")

WaitAgain(t) == /\ at[t] = "awake" /\ ~Granted(t)
                /\ at' = [at EXCEPT ![t] = "waiting"]
                /\ UNCHANGED <<busy, queue, lent, flagged>>

------------------------------------------------------------------------------
(* lend() and release()                                                     *)

FirstOf(E, i) == queue[i] \in E /\ \A j \in 1 .. i - 1 : queue[j] \notin E

\* To the first waiter of E; a borrower does not lend, and with nobody eligible
\* lend() returns at once.
Lend(t, E) == /\ at[t] = "running" /\ lent = NoThread
              /\ \E i \in 1 .. Len(queue) : FirstOf(E, i) /\ lent' = queue[i]
              /\ flagged' = flagged \cup {lent'}
              /\ NotifyAll(t, "lending")
              /\ UNCHANGED <<busy, queue>>

\* `_lent is t`: only this lender can have set it again.
LoanOver(t) == /\ at[t] = "returning"
               /\ at' = [at EXCEPT ![t] = IF lent = NoThread THEN "running" ELSE "lending"]
               /\ UNCHANGED <<busy, queue, lent, flagged>>

\* (mutant) the borrower's release frees the lock
ReleaseFrees(t) == /\ at[t] = "running"
                   /\ lent' = NoThread /\ busy' = FALSE
                   /\ NotifyAll(t, "out")
                   /\ UNCHANGED <<queue, flagged>>

\* The borrower's: back to the holder.
Release(t) == /\ at[t] = "running"
              /\ IF lent # NoThread THEN lent' = NoThread /\ UNCHANGED busy
                                    ELSE busy' = FALSE /\ UNCHANGED lent
              /\ NotifyAll(t, "out")
              /\ UNCHANGED <<queue, flagged>>

------------------------------------------------------------------------------
QueueInit == /\ busy = FALSE /\ queue = <<>> /\ lent = NoThread /\ flagged = {}
             /\ at = [t \in Threads |-> "out"]

QueueNext == \E t \in Threads :
                \/ Enter(t) \/ Join(t) \/ PollOver(t) \/ Grant(t) \/ GiveUp(t) \/ WaitAgain(t)
                \/ (\E E \in SUBSET Threads : Lend(t, E)) \/ LoanOver(t) \/ Release(t)

\* A wait on the condition variable goes on when it is notified or its poll is over,
\* and a holder's work ends although loans interrupt it.  Nothing obliges a waiter to
\* give up.
QueueFairness == \A t \in Threads :
                    /\ WF_queueVars(PollOver(t) \/ Grant(t) \/ WaitAgain(t) \/ LoanOver(t))
                    /\ SF_queueVars(Release(t))

QueueSpec == QueueInit /\ [][QueueNext]_queueVars /\ QueueFairness

------------------------------------------------------------------------------
QueueTypeOK == /\ busy \in BOOLEAN
               /\ queue \in Seq(Threads) /\ Len(queue) <= MaxWaiting
               /\ lent \in Threads \cup {NoThread} /\ flagged \subseteq Threads
               /\ at \in [Threads -> Places]

\* One request at a time runs on the FPGA: the holder does not while its loan lasts.
MutualExclusion == \A t, u \in Threads : at[t] = "running" /\ at[u] = "running" => t = u

\* A loan comes back to the holder, not to the queue: while the lock is lent its
\* holder is still there to return to, and nobody but the borrower runs.
LoanHasLender ==
  lent # NoThread =>
     /\ \E t \in Threads : at[t] \in {"lending", "returning"}
     /\ \A t \in Threads : at[t] = "running" => t = lent

\* No wake-up is lost: lend() waits without a timeout, and only while the loan is out.
LenderSleepsOverLoan ==
  \A t \in Threads : at[t] = "lending" => lent # NoThread

\* Nobody takes the lock past a request that has waited longer, except to borrow it.
NoOvertaking ==
  [][\A t \in Threads : at[t] # "running" /\ at'[t] = "running" /\ at[t] # "returning" =>
        t = lent \/ queue = <<>> \/ t = Head(queue)]_queueVars

\* A request waits for no more than those before it, however often the lock is lent,
\* and a loan ends.
RequestServed == \A t \in Threads : at[t] \in {"waiting", "awake"} ~> at[t] \in {"running", "out"}
LoanEnds      == \A t \in Threads : at[t] = "lending" ~> at[t] = "running"
=============================================================================
