-------------------------- MODULE FpgaQueueProofs --------------------------
(***************************************************************************)
(* Proofs about FpgaQueue, for every set of threads and length of the queue. *)
(***************************************************************************)
EXTENDS FpgaQueue, SequenceTheorems, TLAPS

USE DEF queueVars

Waits == {"waiting", "awake"}        \* a thread with a place in the queue
Lends == {"lending", "returning"}    \* one whose work a loan interrupts
Owns  == Lends \cup {"running"}      \* one inside the lock

-----------------------------------------------------------------------------
(* Taking one thread out of the queue.                                       *)

Distinct(q) == \A i, j \in 1 .. Len(q) : q[i] = q[j] => i = j

In(u, q) == \E i \in 1 .. Len(q) : q[i] = u

LEMMA WithoutOne ==
  ASSUME NEW S, NEW q \in Seq(S), NEW t, Distinct(q), In(t, q)
  PROVE  /\ Without(q, t) \in Seq(S)
         /\ Len(Without(q, t)) = Len(q) - 1
         /\ Distinct(Without(q, t))
         /\ \A u : In(u, Without(q, t)) <=> u # t /\ In(u, q)
<1> DEFINE i == CHOOSE j \in 1 .. Len(q) : q[j] = t
           n == Len(q) - 1
           r == [j \in 1 .. n |-> IF j < i THEN q[j] ELSE q[j + 1]]
<1>1. Len(q) \in Nat /\ q \in [1 .. Len(q) -> S]
  BY LenProperties
<1>2. i \in 1 .. Len(q) /\ q[i] = t
  BY DEF In
<1> HIDE DEF i
<1>3. n \in Nat /\ \A j \in 1 .. n : r[j] = IF j < i THEN q[j] ELSE q[j + 1]
  BY <1>1, <1>2
<1>4. r \in [1 .. n -> S]
  BY <1>1, <1>2
<1>5. r \in Seq(S)
  BY <1>3, <1>4, SeqDef
<1>6. Len(r) = n
  BY <1>3, <1>5, LenProperties
<1>7. Without(q, t) = r
  BY DEF Without, i
<1> HIDE DEF r
<1>8. Distinct(r)
  <2>1. SUFFICES ASSUME NEW a \in 1 .. n, NEW b \in 1 .. n, r[a] = r[b] PROVE a = b
    BY <1>6 DEF Distinct
  <2>2. \A j, k \in 1 .. Len(q) : q[j] = q[k] => j = k
    BY DEF Distinct
  <2> QED
    BY <1>1, <1>2, <1>3, <2>1, <2>2
<1>9. ASSUME NEW u PROVE In(u, r) <=> u # t /\ In(u, q)
  <2>1. ASSUME In(u, r) PROVE u # t /\ In(u, q)
    <3>1. PICK a \in 1 .. n : r[a] = u
      BY <2>1, <1>6 DEF In
    <3>2. PICK b \in 1 .. Len(q) : b # i /\ q[b] = u
      <4>1. CASE a < i
        BY <4>1, <3>1, <1>1, <1>2, <1>3
      <4>2. CASE ~(a < i)
        BY <4>2, <3>1, <1>1, <1>2, <1>3
      <4> QED
        BY <4>1, <4>2
    <3> QED
      BY <3>2, <1>2 DEF Distinct, In
  <2>2. ASSUME u # t, In(u, q) PROVE In(u, r)
    <3>1. PICK b \in 1 .. Len(q) : q[b] = u
      BY <2>2 DEF In
    <3>2. b # i
      BY <3>1, <2>2, <1>2
    <3>3. \E a \in 1 .. n : r[a] = u
      <4>1. CASE b < i
        BY <4>1, <3>1, <1>1, <1>2, <1>3
      <4>2. CASE ~(b < i)
        <5>1. b - 1 \in 1 .. n /\ ~(b - 1 < i) /\ (b - 1) + 1 = b
          BY <4>2, <3>2, <1>1, <1>2
        <5> QED
          BY <5>1, <3>1, <1>3
      <4> QED
        BY <4>1, <4>2
    <3> QED
      BY <3>3, <1>6 DEF In
  <2> QED
    BY <2>1, <2>2
<1> QED
  BY <1>5, <1>6, <1>7, <1>8, <1>9

-----------------------------------------------------------------------------
(* The inductive invariant.                                                  *)

\* The queue holds the threads that wait, each once.
QueueOfWaiters == Distinct(queue) /\ \A u \in Threads : at[u] \in Waits <=> In(u, queue)

\* The lock is taken while somebody is inside.
BusyOwned == busy <=> \E u \in Threads : at[u] \in Owns

\* Without a loan one thread is inside, with no loan left to take or to wait for.
NotLent == lent = NoThread =>
             /\ flagged = {}
             /\ \A u \in Threads : at[u] # "lending"
             /\ \A u, v \in Threads : at[u] \in Owns /\ at[v] \in Owns => u = v

\* A loan has one lender, and its borrower is about to run or runs, alone.
LentOnce == lent # NoThread =>
              /\ \E u \in Threads : at[u] \in Lends
              /\ \A u, v \in Threads : at[u] \in Lends /\ at[v] \in Lends => u = v
              /\ \A u \in Threads : at[u] = "running" => u = lent
              /\ \/ flagged = {lent} /\ at[lent] \in Waits
                 \/ flagged = {} /\ at[lent] = "running"

QueueInv == QueueTypeOK /\ QueueOfWaiters /\ BusyOwned /\ NotLent /\ LentOnce

-----------------------------------------------------------------------------
(* What the invariant's parts say of one step.                               *)

LEMMA NotifyPlaces ==
  ASSUME QueueTypeOK, NEW t \in Threads, NEW p \in Places, NotifyAll(t, p)
  PROVE  /\ at' \in [Threads -> Places] /\ at'[t] = p
         /\ \A u \in Threads \ {t} : /\ at'[u] \in Waits <=> at[u] \in Waits
                                     /\ at'[u] \in Lends <=> at[u] \in Lends
                                     /\ at'[u] = "running" <=> at[u] = "running"
                                     /\ at'[u] # "lending"
BY DEF NotifyAll, QueueTypeOK, Places, Waits, Lends

\* A step that leaves the queue and who waits alone.
LEMMA QueueKept ==
  ASSUME QueueOfWaiters, UNCHANGED queue,
         \A u \in Threads : at'[u] \in Waits <=> at[u] \in Waits
  PROVE  QueueOfWaiters'
BY DEF QueueOfWaiters, Distinct, In

\* A thread leaves the queue, whatever it does next.
LEMMA LeaveQueue ==
  ASSUME QueueTypeOK, QueueOfWaiters, NEW t \in Threads, at[t] = "awake",
         NEW p \in Places \ Waits, Leave(t, p)
  PROVE  /\ queue' \in Seq(Threads) /\ Len(queue') <= MaxWaiting
         /\ QueueOfWaiters'
<1>1. NotifyAll(t, p) /\ queue' = Without(queue, t)
  BY DEF Leave
<1>2. Distinct(queue) /\ In(t, queue) /\ queue \in Seq(Threads)
  BY DEF QueueOfWaiters, QueueTypeOK, Waits
<1>3. /\ queue' \in Seq(Threads) /\ Len(queue') = Len(queue) - 1 /\ Distinct(queue')
      /\ \A u : In(u, queue') <=> u # t /\ In(u, queue)
  BY <1>1, <1>2, WithoutOne
<1>4. Len(queue') <= MaxWaiting
  BY <1>2, <1>3, LenProperties, ThreadsAssumption DEF QueueTypeOK
<1>5. ASSUME NEW u \in Threads PROVE at'[u] \in Waits <=> In(u, queue')
  BY <1>1, <1>3, NotifyPlaces DEF QueueOfWaiters
<1>6. QueueOfWaiters'
  BY <1>3, <1>5 DEF QueueOfWaiters, Distinct, In
<1> QED
  BY <1>3, <1>4, <1>6

\* The invariant holds initially and is kept by each action.
LEMMA InitInv == QueueInit => QueueInv
<1> SUFFICES ASSUME QueueInit PROVE QueueInv
  OBVIOUS
<1>1. queue \in Seq(Threads) /\ Len(queue) = 0
  BY EmptySeq DEF QueueInit
<1>2. QueueTypeOK
  <2>1. Len(queue) <= MaxWaiting
    BY <1>1, ThreadsAssumption
  <2>2. busy \in BOOLEAN
    BY DEF QueueInit
  <2>3. at \in [Threads -> Places]
    BY DEF QueueInit, Places
  <2> QED
    BY <1>1, <2>1, <2>2, <2>3 DEF QueueInit, QueueTypeOK
<1>3. QueueOfWaiters
  BY <1>1 DEF QueueInit, QueueOfWaiters, Distinct, In, Waits
<1>4. BusyOwned /\ NotLent /\ LentOnce
  BY DEF QueueInit, BusyOwned, NotLent, LentOnce, Owns, Lends
<1> QED
  BY <1>2, <1>3, <1>4 DEF QueueInv

LEMMA EnterInv == ASSUME QueueInv, NEW t \in Threads, Enter(t) PROVE QueueInv'
<1> USE DEF QueueInv
<1>1. /\ at[t] = "out" /\ ~busy /\ queue = <<>> /\ busy' = TRUE
      /\ at' = [at EXCEPT ![t] = "running"] /\ UNCHANGED <<queue, lent, flagged>>
  BY DEF Enter, Free
<1>2. \A u \in Threads : at[u] \notin Owns
  BY <1>1 DEF BusyOwned
<1>3. lent = NoThread
  BY <1>2 DEF LentOnce, Owns
<1>4. at'[t] = "running" /\ \A u \in Threads \ {t} : at'[u] = at[u]
  BY <1>1 DEF QueueTypeOK
<1>5. QueueTypeOK'
  BY <1>1 DEF QueueTypeOK, Places
<1>6. QueueOfWaiters'
  BY <1>1, <1>4, QueueKept DEF Waits
<1>7. BusyOwned'
  BY <1>1, <1>4 DEF BusyOwned, Owns
<1>8. NotLent'
  BY <1>1, <1>2, <1>3, <1>4 DEF NotLent, Owns, Lends
<1>9. LentOnce'
  BY <1>1, <1>3 DEF LentOnce
<1> QED
  BY <1>5, <1>6, <1>7, <1>8, <1>9

LEMMA JoinInv == ASSUME QueueInv, NEW t \in Threads, Join(t) PROVE QueueInv'
<1> USE DEF QueueInv
<1>1. /\ at[t] = "out" /\ Len(queue) < MaxWaiting /\ queue' = Append(queue, t)
      /\ at' = [at EXCEPT ![t] = "waiting"] /\ UNCHANGED <<busy, lent, flagged>>
  BY ThreadsAssumption, LenProperties DEF Join, Full, QueueTypeOK
<1>2. at'[t] = "waiting" /\ \A u \in Threads \ {t} : at'[u] = at[u]
  BY <1>1 DEF QueueTypeOK
<1>3. /\ queue \in Seq(Threads) /\ queue' \in Seq(Threads) /\ Len(queue') = Len(queue) + 1
      /\ \A j \in 1 .. Len(queue) : queue'[j] = queue[j]
      /\ queue'[Len(queue) + 1] = t
  BY <1>1, AppendProperties DEF QueueTypeOK
<1>4. Len(queue) \in Nat
  BY <1>3, LenProperties
<1>5. QueueTypeOK'
  <2>1. Len(queue') <= MaxWaiting
    BY <1>1, <1>3, <1>4, ThreadsAssumption
  <2>2. at' \in [Threads -> Places]
    BY <1>1 DEF QueueTypeOK, Places
  <2> QED
    BY <1>1, <1>3, <2>1, <2>2 DEF QueueTypeOK
<1>6. ~In(t, queue)
  BY <1>1 DEF QueueOfWaiters, Waits
<1>7. Distinct(queue')
  BY <1>3, <1>4, <1>6 DEF QueueOfWaiters, Distinct, In
<1>8. ASSUME NEW u \in Threads PROVE at'[u] \in Waits <=> In(u, queue')
  <2>1. In(t, queue')
    BY <1>3, <1>4 DEF In
  <2>2. ASSUME u # t PROVE In(u, queue') <=> In(u, queue)
    BY <1>3, <1>4, <2>2 DEF In
  <2> QED
    BY <1>2, <2>1, <2>2 DEF QueueOfWaiters, Waits
<1>9. QueueOfWaiters'
  BY <1>7, <1>8 DEF QueueOfWaiters, Distinct, In
<1>10. BusyOwned' /\ NotLent'
  BY <1>1, <1>2 DEF BusyOwned, NotLent, Owns, Lends
<1>11. LentOnce'
  BY <1>1, <1>2 DEF LentOnce, Lends, Waits
<1> QED
  BY <1>5, <1>9, <1>10, <1>11

\* A waiter goes from one of its places to the other.
LEMMA WaitInv ==
  ASSUME QueueInv, NEW t \in Threads, PollOver(t) \/ WaitAgain(t)
  PROVE  QueueInv'
<1> USE DEF QueueInv
<1>1. /\ at[t] \in Waits
      /\ \E p \in Waits : at' = [at EXCEPT ![t] = p]
      /\ UNCHANGED <<busy, queue, lent, flagged>>
  BY DEF PollOver, WaitAgain, Waits
<1>2. at'[t] \in Waits /\ \A u \in Threads \ {t} : at'[u] = at[u]
  BY <1>1 DEF QueueTypeOK
<1>3. at' \in [Threads -> Places]
  BY <1>1 DEF QueueTypeOK, Places, Waits
<1>4. QueueTypeOK'
  BY <1>1, <1>3 DEF QueueTypeOK
<1>5. QueueOfWaiters'
  BY <1>1, <1>2, QueueKept
<1>6. BusyOwned' /\ NotLent'
  BY <1>1, <1>2 DEF BusyOwned, NotLent, Owns, Lends, Waits
<1>7. LentOnce'
  BY <1>1, <1>2 DEF LentOnce, Lends, Waits
<1> QED
  BY <1>4, <1>5, <1>6, <1>7

LEMMA GrantInv == ASSUME QueueInv, NEW t \in Threads, Grant(t) PROVE QueueInv'
<1> USE DEF QueueInv
<1>1. /\ at[t] = "awake" /\ (t \in flagged \/ ~busy) /\ flagged' = flagged \ {t}
      /\ Leave(t, "running") /\ NotifyAll(t, "running") /\ UNCHANGED lent
  BY DEF Grant, Granted, Leave
<1>2. at[t] = "awake" /\ busy' = (t \notin flagged \/ busy)
  BY DEF Grant
<1>3. at' \in [Threads -> Places] /\ at'[t] = "running"
  BY <1>1, NotifyPlaces DEF Places
<1>4. \A u \in Threads \ {t} : /\ at'[u] \in Waits <=> at[u] \in Waits
                               /\ at'[u] \in Lends <=> at[u] \in Lends
                               /\ at'[u] = "running" <=> at[u] = "running"
                               /\ at'[u] # "lending"
  BY <1>1, NotifyPlaces DEF Places
<1>5. /\ queue' \in Seq(Threads) /\ Len(queue') <= MaxWaiting /\ QueueOfWaiters'
  BY <1>1, <1>2, LeaveQueue DEF Places, Waits
<1>6. QueueTypeOK'
  <2>1. busy' \in BOOLEAN
    BY <1>2 DEF QueueTypeOK
  <2> QED
    BY <1>1, <1>3, <1>5, <2>1 DEF QueueTypeOK
<1>7. CASE t \in flagged
  <2>1. lent = t /\ flagged' = {} /\ lent # NoThread
    BY <1>7, <1>1, ThreadsAssumption DEF NotLent, LentOnce, QueueTypeOK
  <2>2. \E u \in Threads : at[u] \in Lends
    BY <2>1 DEF LentOnce
  <2>3. busy' = busy /\ busy = TRUE
    BY <1>2, <1>7, <2>2 DEF BusyOwned, Owns, QueueTypeOK
  <2>4. BusyOwned'
    BY <2>3, <1>3 DEF BusyOwned, Owns
  <2>5. NotLent'
    BY <2>1, <1>1 DEF NotLent
  <2>6. LentOnce'
    BY <2>1, <2>2, <1>1, <1>2, <1>3, <1>4 DEF LentOnce, Lends
  <2> QED
    BY <1>5, <1>6, <2>4, <2>5, <2>6
<1>8. CASE t \notin flagged
  <2>1. busy' = TRUE /\ \A u \in Threads : at[u] \notin Owns
    BY <1>1, <1>2, <1>8 DEF BusyOwned, Grant, Granted
  <2>2. lent = NoThread
    BY <2>1 DEF LentOnce, Owns
  <2>3. BusyOwned'
    BY <2>1, <1>3 DEF BusyOwned, Owns
  <2>4. NotLent'
    <3>1. flagged' = {} /\ \A u \in Threads : at'[u] # "lending"
      BY <2>2, <1>1, <1>3, <1>4 DEF NotLent
    <3>2. ASSUME NEW u \in Threads, at'[u] \in Owns PROVE u = t
      BY <3>2, <2>1, <1>4 DEF Owns
    <3> QED
      BY <3>1, <3>2 DEF NotLent
  <2>5. LentOnce'
    BY <2>2, <1>1 DEF LentOnce
  <2> QED
    BY <1>5, <1>6, <2>3, <2>4, <2>5
<1> QED
  BY <1>7, <1>8

LEMMA GiveUpInv == ASSUME QueueInv, NEW t \in Threads, GiveUp(t) PROVE QueueInv'
<1> USE DEF QueueInv
<1>1. /\ at[t] = "awake" /\ t \notin flagged /\ flagged' = flagged
      /\ Leave(t, "out") /\ NotifyAll(t, "out") /\ UNCHANGED <<busy, lent>>
  BY DEF GiveUp, Granted, Leave
<1>2. at' \in [Threads -> Places] /\ at'[t] = "out"
  BY <1>1, NotifyPlaces DEF Places
<1>3. \A u \in Threads \ {t} : /\ at'[u] \in Waits <=> at[u] \in Waits
                               /\ at'[u] \in Lends <=> at[u] \in Lends
                               /\ at'[u] = "running" <=> at[u] = "running"
                               /\ at'[u] # "lending"
  BY <1>1, NotifyPlaces DEF Places
<1>4. /\ queue' \in Seq(Threads) /\ Len(queue') <= MaxWaiting /\ QueueOfWaiters'
  BY <1>1, LeaveQueue DEF Places, Waits
<1>5. QueueTypeOK'
  BY <1>1, <1>2, <1>4 DEF QueueTypeOK
<1>6. \A u \in Threads : at'[u] \in Owns <=> at[u] \in Owns
  BY <1>1, <1>2, <1>3 DEF Owns, Lends
<1>7. BusyOwned'
  BY <1>1, <1>6 DEF BusyOwned
<1>8. NotLent'
  BY <1>1, <1>2, <1>3, <1>6 DEF NotLent
<1>9. LentOnce'
  <2>1. \A u \in Threads : /\ at'[u] \in Lends <=> at[u] \in Lends
                           /\ at'[u] = "running" <=> at[u] = "running"
    BY <1>1, <1>2, <1>3 DEF Lends
  <2>2. t \notin flagged /\ (lent = t => flagged # {lent} /\ at[lent] # "running")
    BY <1>1
  <2> QED
    BY <1>1, <1>3, <2>1, <2>2, ThreadsAssumption DEF LentOnce, QueueTypeOK
<1> QED
  BY <1>4, <1>5, <1>7, <1>8, <1>9

LEMMA LendInv == ASSUME QueueInv, NEW t \in Threads, NEW E, Lend(t, E) PROVE QueueInv'
<1> USE DEF QueueInv
<1>1. /\ at[t] = "running" /\ lent = NoThread /\ flagged' = flagged \cup {lent'}
      /\ NotifyAll(t, "lending") /\ UNCHANGED <<busy, queue>>
  BY DEF Lend
<1>2. flagged = {} /\ \A u \in Threads : at[u] \in Owns => u = t
  BY <1>1 DEF NotLent, Owns
<1>3. lent' \in Threads /\ lent' # NoThread /\ at[lent'] \in Waits /\ lent' # t
  <2>1. PICK i \in 1 .. Len(queue) : lent' = queue[i]
    BY DEF Lend
  <2>2. lent' \in Threads /\ In(lent', queue)
    BY <2>1, ElementOfSeq DEF In, QueueTypeOK
  <2> QED
    BY <2>2, <1>1, ThreadsAssumption DEF QueueOfWaiters, Waits
<1>4. at' \in [Threads -> Places] /\ at'[t] = "lending"
  BY <1>1, NotifyPlaces DEF Places
<1>5. \A u \in Threads \ {t} : /\ at'[u] \in Waits <=> at[u] \in Waits
                               /\ at'[u] \in Lends <=> at[u] \in Lends
                               /\ at'[u] = "running" <=> at[u] = "running"
  BY <1>1, NotifyPlaces DEF Places
<1>6. QueueTypeOK'
  BY <1>1, <1>2, <1>3, <1>4 DEF QueueTypeOK
<1>7. QueueOfWaiters'
  BY <1>1, <1>4, <1>5, QueueKept DEF Waits
<1>8. BusyOwned'
  BY <1>1, <1>4 DEF BusyOwned, Owns, Lends
<1>9. NotLent'
  BY <1>3 DEF NotLent
<1>10. LentOnce'
  <2>1. flagged' = {lent'} /\ at'[lent'] \in Waits
    BY <1>1, <1>2, <1>3, <1>5
  <2>2. \A u \in Threads : at'[u] \in Lends <=> u = t
    BY <1>2, <1>4, <1>5 DEF Owns, Lends
  <2>3. \A u \in Threads : at'[u] # "running"
    BY <1>2, <1>4, <1>5 DEF Owns
  <2> QED
    BY <2>1, <2>2, <2>3 DEF LentOnce
<1> QED
  BY <1>6, <1>7, <1>8, <1>9, <1>10

LEMMA LoanOverInv == ASSUME QueueInv, NEW t \in Threads, LoanOver(t) PROVE QueueInv'
<1> USE DEF QueueInv
<1>1. at[t] = "returning" /\ UNCHANGED <<busy, queue, lent, flagged>>
  BY DEF LoanOver
<1>2. /\ at'[t] = IF lent = NoThread THEN "running" ELSE "lending"
      /\ \A u \in Threads \ {t} : at'[u] = at[u]
  BY DEF LoanOver, QueueTypeOK
<1>3. at' \in [Threads -> Places]
  BY DEF LoanOver, QueueTypeOK, Places
<1>4. QueueTypeOK'
  BY <1>1, <1>3 DEF QueueTypeOK
<1>5. QueueOfWaiters'
  BY <1>1, <1>2, QueueKept DEF Waits
<1>6. \A u \in Threads : at'[u] \in Owns <=> at[u] \in Owns
  BY <1>1, <1>2 DEF Owns, Lends
<1>7. BusyOwned'
  BY <1>1, <1>6 DEF BusyOwned
<1>8. NotLent'
  BY <1>1, <1>2, <1>6 DEF NotLent
<1>9. LentOnce'
  <2>1. CASE lent = NoThread
    BY <2>1, <1>1 DEF LentOnce
  <2>2. CASE lent # NoThread
    <3>1. \A u \in Threads : /\ at'[u] \in Lends <=> at[u] \in Lends
                             /\ at'[u] = "running" <=> at[u] = "running"
                             /\ at'[u] \in Waits <=> at[u] \in Waits
      BY <2>2, <1>1, <1>2 DEF Lends, Waits
    <3> QED
      BY <2>2, <3>1, <1>1 DEF LentOnce, QueueTypeOK
  <2> QED
    BY <2>1, <2>2
<1> QED
  BY <1>4, <1>5, <1>7, <1>8, <1>9

LEMMA ReleaseInv == ASSUME QueueInv, NEW t \in Threads, Release(t) PROVE QueueInv'
<1> USE DEF QueueInv
<1>1. /\ at[t] = "running" /\ NotifyAll(t, "out") /\ UNCHANGED <<queue, flagged>>
      /\ lent' = NoThread
  BY DEF Release
<1>2. at' \in [Threads -> Places] /\ at'[t] = "out"
  BY <1>1, NotifyPlaces DEF Places
<1>3. \A u \in Threads \ {t} : /\ at'[u] \in Waits <=> at[u] \in Waits
                               /\ at'[u] \in Lends <=> at[u] \in Lends
                               /\ at'[u] = "running" <=> at[u] = "running"
                               /\ at'[u] # "lending"
  BY <1>1, NotifyPlaces DEF Places
<1>4. QueueTypeOK'
  <2>1. busy' \in BOOLEAN
    BY DEF Release, QueueTypeOK
  <2> QED
    BY <1>1, <1>2, <2>1 DEF QueueTypeOK
<1>5. QueueOfWaiters'
  BY <1>1, <1>2, <1>3, QueueKept DEF Waits
<1>6. LentOnce'
  BY <1>1 DEF LentOnce
<1>7. CASE lent = NoThread
  <2>1. busy' = FALSE
    BY <1>7 DEF Release
  <2>2. \A u \in Threads : at'[u] \notin Owns
    BY <1>1, <1>2, <1>3, <1>7 DEF NotLent, Owns, Lends
  <2>3. BusyOwned'
    BY <2>1, <2>2 DEF BusyOwned
  <2>4. NotLent'
    BY <2>2, <1>1, <1>7 DEF NotLent, Owns, Lends
  <2> QED
    BY <1>4, <1>5, <1>6, <2>3, <2>4
<1>8. CASE lent # NoThread
  <2>1. t = lent /\ flagged = {} /\ UNCHANGED busy
    BY <1>1, <1>8 DEF LentOnce, Waits, Release
  <2>2. \A u \in Threads : at'[u] \in Owns <=> at[u] \in Lends
    BY <2>1, <1>1, <1>2, <1>3, <1>8 DEF LentOnce, Owns, Lends
  <2>3. PICK u \in Threads : at[u] \in Lends
    BY <1>8 DEF LentOnce
  <2>4. busy = TRUE
    BY <2>3 DEF BusyOwned, Owns, QueueTypeOK
  <2>5. BusyOwned'
    BY <2>1, <2>2, <2>3, <2>4 DEF BusyOwned
  <2>6. NotLent'
    BY <2>1, <2>2, <1>1, <1>2, <1>3, <1>8 DEF NotLent, LentOnce
  <2> QED
    BY <1>4, <1>5, <1>6, <2>5, <2>6
<1> QED
  BY <1>7, <1>8

-----------------------------------------------------------------------------
LEMMA StepInv == QueueInv /\ [QueueNext]_queueVars => QueueInv'
<1> SUFFICES ASSUME QueueInv, [QueueNext]_queueVars PROVE QueueInv'
  OBVIOUS
<1>1. ASSUME NEW t \in Threads, Enter(t) PROVE QueueInv'
  BY <1>1, EnterInv
<1>2. ASSUME NEW t \in Threads, Join(t) PROVE QueueInv'
  BY <1>2, JoinInv
<1>3. ASSUME NEW t \in Threads, PollOver(t) \/ WaitAgain(t) PROVE QueueInv'
  BY <1>3, WaitInv
<1>4. ASSUME NEW t \in Threads, Grant(t) PROVE QueueInv'
  BY <1>4, GrantInv
<1>5. ASSUME NEW t \in Threads, GiveUp(t) PROVE QueueInv'
  BY <1>5, GiveUpInv
<1>6. ASSUME NEW t \in Threads, NEW E \in SUBSET Threads, Lend(t, E) PROVE QueueInv'
  BY <1>6, LendInv
<1>7. ASSUME NEW t \in Threads, LoanOver(t) PROVE QueueInv'
  BY <1>7, LoanOverInv
<1>8. ASSUME NEW t \in Threads, Release(t) PROVE QueueInv'
  BY <1>8, ReleaseInv
<1>9. ASSUME UNCHANGED queueVars PROVE QueueInv'
  <2>1. busy' = busy /\ queue' = queue /\ lent' = lent /\ flagged' = flagged /\ at' = at
    BY <1>9
  <2>2. QueueTypeOK' /\ QueueOfWaiters'
    BY <2>1 DEF QueueInv, QueueTypeOK, QueueOfWaiters, Distinct, In
  <2>3. BusyOwned'
    BY <2>1, Zenon DEF QueueInv, BusyOwned
  <2>4. NotLent' /\ LentOnce'
    BY <2>1 DEF QueueInv, NotLent, LentOnce
  <2> QED
    BY <2>2, <2>3, <2>4 DEF QueueInv
<1> QED
  BY <1>1, <1>2, <1>3, <1>4, <1>5, <1>6, <1>7, <1>8, <1>9 DEF QueueNext

\* The lock's state stays consistent with where the threads are.
THEOREM QueueInvariant == QueueSpec => []QueueInv
<1>1. QueueInit => QueueInv
  BY InitInv
<1>2. QueueInv /\ [QueueNext]_queueVars => QueueInv'
  BY StepInv
<1> QED
  BY <1>1, <1>2, PTL DEF QueueSpec

\* The types of the lock's state: with them, that the queue is never too long.
THEOREM QueueTypes == QueueSpec => []QueueTypeOK
<1>1. QueueInv => QueueTypeOK
  BY DEF QueueInv
<1> QED
  BY <1>1, QueueInvariant, PTL

\* The FPGA runs one request at a time.
THEOREM OneRuns == QueueSpec => []MutualExclusion
<1>1. QueueInv => MutualExclusion
  <2> SUFFICES ASSUME QueueInv, NEW t \in Threads, NEW u \in Threads,
                      at[t] = "running", at[u] = "running"
               PROVE  t = u
    BY DEF MutualExclusion
  <2>1. CASE lent = NoThread
    BY <2>1 DEF QueueInv, NotLent, Owns
  <2>2. CASE lent # NoThread
    BY <2>2 DEF QueueInv, LentOnce
  <2> QED
    BY <2>1, <2>2
<1> QED
  BY <1>1, QueueInvariant, PTL

\* A loan has a holder to come back to, and only its borrower runs.
THEOREM LoanComesBack == QueueSpec => []LoanHasLender
<1>1. QueueInv => LoanHasLender
  BY DEF QueueInv, LentOnce, LoanHasLender, Lends
<1> QED
  BY <1>1, QueueInvariant, PTL

\* lend() sleeps only while its loan is out.
THEOREM LenderWoken == QueueSpec => []LenderSleepsOverLoan
<1>1. QueueInv => LenderSleepsOverLoan
  BY DEF QueueInv, NotLent, LenderSleepsOverLoan
<1> QED
  BY <1>1, QueueInvariant, PTL

\* Arrival order, but for loans.
THEOREM InArrivalOrder == QueueSpec => NoOvertaking
<1> DEFINE Step == \A t \in Threads : at[t] # "running" /\ at'[t] = "running" /\ at[t] # "returning" =>
                      t = lent \/ queue = <<>> \/ t = Head(queue)
<1>1. QueueInv /\ [QueueNext]_queueVars => [Step]_queueVars
  <2> SUFFICES ASSUME QueueInv, QueueNext, NEW u \in Threads,
                      at[u] # "running", at'[u] = "running", at[u] # "returning"
               PROVE  u = lent \/ queue = <<>> \/ u = Head(queue)
    OBVIOUS
  <2> USE DEF QueueInv
  <2>1. ASSUME NEW t \in Threads, Enter(t) PROVE queue = <<>>
    BY <2>1 DEF Enter, Free
  <2>2. ASSUME NEW t \in Threads, Join(t) \/ PollOver(t) \/ WaitAgain(t) \/ LoanOver(t) PROVE FALSE
    BY <2>2 DEF Join, PollOver, WaitAgain, LoanOver, QueueTypeOK
  <2>3. ASSUME NEW t \in Threads, Grant(t) PROVE u = lent \/ u = Head(queue)
    <3>1. u = t
      BY <2>3, NotifyPlaces DEF Grant, Leave, Places
    <3>2. t \in flagged => t = lent
      BY ThreadsAssumption DEF NotLent, LentOnce
    <3> QED
      BY <3>1, <3>2, <2>3 DEF Grant, Granted
  <2>4. ASSUME NEW t \in Threads, GiveUp(t) \/ Release(t) PROVE FALSE
    <3>1. NotifyAll(t, "out")
      BY <2>4 DEF GiveUp, Leave, Release
    <3> QED
      BY <3>1, NotifyPlaces DEF Places
  <2>5. ASSUME NEW t \in Threads, NEW E \in SUBSET Threads, Lend(t, E) PROVE FALSE
    <3>1. NotifyAll(t, "lending")
      BY <2>5 DEF Lend
    <3> QED
      BY <3>1, NotifyPlaces DEF Places
  <2> QED
    BY <2>1, <2>2, <2>3, <2>4, <2>5 DEF QueueNext
<1> QED
  BY <1>1, QueueInvariant, PTL DEF QueueSpec, NoOvertaking
=============================================================================
