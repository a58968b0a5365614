-------------------------- MODULE ChatServerProofs --------------------------
(***************************************************************************)
(* Proofs about ChatServer, for every set of request threads and of models,  *)
(* every size of memory and of the queue.                                   *)
(***************************************************************************)
EXTENDS ChatServer, FpgaQueueProofs, FiniteSetTheorems

USE DEF vars, modelVars

-----------------------------------------------------------------------------
(* The memory the models take.  Held is a fold over a finite set: its value is *)
(* a sum, whatever order the fold takes the elements in.                     *)

Pick(s) == CHOOSE x \in s : TRUE
Added(w, g, s) == IF s = {} THEN 0 ELSE w[Pick(s)] + g[s \ {Pick(s)}]
Sums(w, g, S) == g = [s \in SUBSET S |-> Added(w, g, s)]

\* Induction over the subsets of a finite set: a set of them has a smallest one.
LEMMA Smallest ==
  ASSUME NEW S, IsFiniteSet(S), NEW T \in SUBSET (SUBSET S), T # {}
  PROVE  \E x \in T : \A y \in T : y \subseteq x => y = x
<1>1. IsWellFoundedOn(StrictSubsetOrdering(S), SUBSET S)
  BY FS_StrictSubsetOrderingWellFounded, FS_FiniteSubsetsOfFinite
<1>2. PICK x \in T : \A y \in T : <<y, x>> \notin StrictSubsetOrdering(S)
  BY <1>1, WFMin
<1> QED
  BY <1>2 DEF StrictSubsetOrdering

LEMMA PickIn == ASSUME NEW s, s # {} PROVE Pick(s) \in s
BY DEF Pick

LEMMA SumsAt ==
  ASSUME NEW S, NEW w, NEW g, Sums(w, g, S), NEW s \in SUBSET S
  PROVE  g[s] = Added(w, g, s)
BY DEF Sums

\* Two such functions agree where both are defined.
LEMMA SumsAgree ==
  ASSUME NEW S, IsFiniteSet(S), NEW w, NEW U \in SUBSET S, NEW V \in SUBSET S,
         NEW g, Sums(w, g, U), NEW h, Sums(w, h, V)
  PROVE  \A s \in SUBSET (U \cap V) : g[s] = h[s]
<1> DEFINE T == {s \in SUBSET (U \cap V) : g[s] # h[s]}
<1>1. SUFFICES ASSUME T # {} PROVE FALSE
  OBVIOUS
<1>2. T \in SUBSET (SUBSET S)
  OBVIOUS
<1> HIDE DEF T
<1>3. PICK x \in T : \A y \in T : y \subseteq x => y = x
  BY <1>1, <1>2, Smallest
<1>4. x \in SUBSET (U \cap V) /\ g[x] # h[x] /\ x \in SUBSET U /\ x \in SUBSET V
  BY DEF T
<1>5. g[x] = Added(w, g, x) /\ h[x] = Added(w, h, x)
  BY <1>4, SumsAt
<1>6. x # {}
  BY <1>4, <1>5 DEF Added
<1>7. g[x \ {Pick(x)}] = h[x \ {Pick(x)}]
  BY <1>3, <1>4, <1>6, PickIn DEF T
<1> QED
  BY <1>4, <1>5, <1>6, <1>7 DEF Added

LEMMA SumsExist == ASSUME NEW S, IsFiniteSet(S), NEW w PROVE \E g : Sums(w, g, S)
<1> DEFINE T == {s \in SUBSET S : ~\E g : Sums(w, g, s)}
<1>1. SUFFICES ASSUME T # {} PROVE FALSE
  OBVIOUS
<1>0. T \in SUBSET (SUBSET S)
  OBVIOUS
<1> HIDE DEF T
<1>2. PICK x \in T : \A y \in T : y \subseteq x => y = x
  BY <1>0, <1>1, Smallest
<1>3. x \in SUBSET S /\ ~\E g : Sums(w, g, x)
  BY DEF T
<1>4. \A s \in SUBSET x : s # x => \E g : Sums(w, g, s)
  BY <1>2, <1>3 DEF T
<1> DEFINE f(s) == CHOOSE g : Sums(w, g, s)
           below(s) == f(s \ {Pick(s)})[s \ {Pick(s)}]
           h == [s \in SUBSET x |-> IF s = {} THEN 0 ELSE w[Pick(s)] + below(s)]
<1>5. \A s \in SUBSET x : s # x => Sums(w, f(s), s)
  BY <1>4
<1> HIDE DEF f
<1>6. ASSUME NEW s \in SUBSET x, s # x PROVE h[s] = f(s)[s]
  <2>1. Sums(w, f(s), s) /\ f(s)[s] = Added(w, f(s), s)
    BY <1>5, <1>6, SumsAt
  <2>2. CASE s = {}
    BY <2>1, <2>2 DEF Added
  <2>3. CASE s # {}
    <3> DEFINE r == s \ {Pick(s)}
    <3>1. r \in SUBSET x /\ r # x /\ r \in SUBSET (s \cap r)
      BY <1>6, <2>3, PickIn
    <3>2. Sums(w, f(r), r)
      BY <3>1, <1>5
    <3>3. f(s)[r] = f(r)[r]
      <4>1. s \in SUBSET S /\ r \in SUBSET S
        BY <1>3
      <4> HIDE DEF r
      <4> QED
        BY <2>1, <3>1, <3>2, <4>1, SumsAgree
    <3> QED
      BY <2>1, <2>3, <3>3 DEF Added
  <2> QED
    BY <2>2, <2>3
<1>7. ASSUME NEW s \in SUBSET x PROVE h[s] = Added(w, h, s)
  <2>1. CASE s = {}
    BY <2>1 DEF Added
  <2>2. CASE s # {}
    <3>1. s \ {Pick(s)} \in SUBSET x /\ s \ {Pick(s)} # x
      BY <2>2, PickIn
    <3>2. h[s \ {Pick(s)}] = below(s)
      BY <3>1, <1>6
    <3>3. h[s] = w[Pick(s)] + below(s)
      BY <2>2
    <3> QED
      BY <2>2, <3>2, <3>3 DEF Added
  <2> QED
    BY <2>1, <2>2
<1>8. h = [s \in SUBSET x |-> h[s]]
  OBVIOUS
<1> HIDE DEF h
<1>9. h = [s \in SUBSET x |-> Added(w, h, s)]
  BY <1>7, <1>8
<1> QED
  BY <1>3, <1>9 DEF Sums

\* The sum takes one element after the other, in any order.
InAnyOrder(w, g, s) == g[s] \in Nat /\ \A x \in s : g[s] = w[x] + g[s \ {x}]

LEMMA SumsValue ==
  ASSUME NEW S, IsFiniteSet(S), NEW w, \A x \in S : w[x] \in Nat, NEW g, Sums(w, g, S)
  PROVE  \A s \in SUBSET S : InAnyOrder(w, g, s)
<1> DEFINE T == {s \in SUBSET S : ~InAnyOrder(w, g, s)}
<1>1. T \in SUBSET (SUBSET S)
  OBVIOUS
<1> HIDE DEF T
<1>2. SUFFICES ASSUME T # {} PROVE FALSE
  BY DEF T
<1>3. PICK s \in T : \A y \in T : y \subseteq s => y = s
  BY <1>1, <1>2, Smallest
<1>4. s \in SUBSET S /\ ~InAnyOrder(w, g, s)
  BY DEF T
<1>5. \A y \in SUBSET s : y # s => InAnyOrder(w, g, y)
  BY <1>3, <1>4 DEF T
<1>6. g[s] = Added(w, g, s)
  BY <1>4, SumsAt
<1>7. s # {}
  BY <1>4, <1>6 DEF Added, InAnyOrder
<1> DEFINE p == Pick(s)
           r == s \ {p}
<1>8. p \in s /\ g[s] = w[p] + g[r]
  BY <1>6, <1>7, PickIn DEF Added
<1>9. r \in SUBSET s /\ r # s
  BY <1>8
<1> HIDE DEF p
<1>10. InAnyOrder(w, g, r)
  BY <1>5, <1>9
<1>11. g[r] \in Nat /\ w[p] \in Nat
  BY <1>4, <1>8, <1>10 DEF InAnyOrder
<1>12. ASSUME NEW x \in s, x # p PROVE g[s] = w[x] + g[s \ {x}]
  <2> DEFINE q == s \ {x}
             b == r \ {x}
  <2>1. q \in SUBSET s /\ q # s /\ p \in q /\ x \in r /\ q \ {p} = b
    BY <1>8, <1>12
  <2> HIDE DEF q, b, r
  <2>2. InAnyOrder(w, g, q)
    BY <1>5, <2>1
  <2>3. g[q] = w[p] + g[b]
    BY <2>1, <2>2 DEF InAnyOrder
  <2>4. g[r] = w[x] + g[b]
    BY <1>10, <2>1 DEF InAnyOrder, b
  <2>5. g[b] \in Nat
    <3>1. b \in SUBSET s /\ b # s
      BY <1>12 DEF b, r
    <3> QED
      BY <1>5, <3>1 DEF InAnyOrder
  <2>6. w[x] \in Nat
    BY <1>4
  <2>7. g[s] = w[p] + (w[x] + g[b]) /\ w[x] + g[q] = w[x] + (w[p] + g[b])
    BY <1>8, <2>3, <2>4
  <2>8. g[s] = w[x] + g[q]
    BY <1>11, <2>5, <2>6, <2>7
  <2> QED
    BY <2>8 DEF q
<1>13. g[s] \in Nat
  BY <1>8, <1>11
<1> QED
  BY <1>4, <1>8, <1>12, <1>13 DEF InAnyOrder, r

LEMMA HeldIs ==
  ASSUME NEW S PROVE Held(S) = (CHOOSE g : Sums(Size, g, S))[S]
BY DEF Held, MapThenSumSet, MapThenFoldSet, Sums, Added, Pick

LEMMA ModelsFinite == IsFiniteSet(Models)
<1>1. Order \in [1 .. Len(Order) -> Models] /\ Len(Order) \in Nat
  BY ServerAssumption, LenProperties
<1>2. Order \in Surjection(1 .. Len(Order), Models)
  BY <1>1 DEF Surjection, Models, ToSet
<1> QED
  BY <1>1, <1>2, FS_NatSurjection DEF ExistsSurjection

LEMMA HeldValue ==
  ASSUME NEW S \in SUBSET Models
  PROVE  Held(S) \in Nat /\ \A m \in S : Held(S) = Size[m] + Held(S \ {m})
<1>1. IsFiniteSet(S) /\ \A m \in S : Size[m] \in Nat
  BY ModelsFinite, FS_Subset, ServerAssumption
<1> DEFINE g(R) == CHOOSE h : Sums(Size, h, R)
<1>2. ASSUME NEW R \in SUBSET S PROVE Sums(Size, g(R), R) /\ Held(R) = g(R)[R]
  <2>1. IsFiniteSet(R)
    BY <1>1, FS_Subset
  <2> QED
    BY <2>1, SumsExist, HeldIs
<1> HIDE DEF g
<1>3. g(S)[S] \in Nat /\ \A m \in S : g(S)[S] = Size[m] + g(S)[S \ {m}]
  <2>1. PICK h : h = g(S) /\ Sums(Size, h, S)
    BY <1>2
  <2>2. InAnyOrder(Size, h, S)
    BY <1>1, <2>1, SumsValue
  <2> QED
    BY <2>1, <2>2 DEF InAnyOrder
<1>4. ASSUME NEW m \in S PROVE g(S)[S \ {m}] = g(S \ {m})[S \ {m}]
  <2> DEFINE R == S \ {m}
  <2>1. R \in SUBSET S /\ R \in SUBSET (S \cap R)
    OBVIOUS
  <2> HIDE DEF R
  <2>2. g(S)[R] = g(R)[R]
    BY <1>1, <1>2, <2>1, SumsAgree
  <2> QED
    BY <2>2 DEF R
<1> QED
  BY <1>2, <1>3, <1>4

LEMMA HeldLess ==
  ASSUME NEW S \in SUBSET Models, NEW R \in SUBSET S PROVE Held(R) <= Held(S)
<1> DEFINE T == {X \in SUBSET S : R \subseteq X /\ ~(Held(R) <= Held(X))}
<1>0. T \in SUBSET (SUBSET S) /\ IsFiniteSet(S)
  BY ModelsFinite, FS_Subset
<1> HIDE DEF T
<1>1. SUFFICES ASSUME T # {} PROVE FALSE
  BY DEF T
<1>2. PICK X \in T : \A Y \in T : Y \subseteq X => Y = X
  BY <1>0, <1>1, Smallest
<1>3. X \in SUBSET Models /\ R \subseteq X /\ ~(Held(R) <= Held(X))
  BY DEF T
<1>4. Held(R) \in Nat /\ Held(X) \in Nat
  BY <1>3, HeldValue
<1>5. PICK m \in X : m \notin R
  BY <1>3, <1>4
<1>6. X \ {m} \notin T /\ Held(R) <= Held(X \ {m})
  BY <1>2, <1>3, <1>5 DEF T
<1>7. Held(X) = Size[m] + Held(X \ {m})
  BY <1>3, HeldValue
<1>8. Held(X \ {m}) \in Nat
  BY <1>3, HeldValue
<1>9. Size[m] \in Nat
  BY <1>3, ServerAssumption
<1> QED
  BY <1>3, <1>4, <1>6, <1>7, <1>8, <1>9

-----------------------------------------------------------------------------
(* The inductive invariant.                                                  *)

\* The steps of a request that holds the FPGA, and those that no borrower reaches.
Exclusive == {"room", "load", "retry", "refused"}
Inside    == Exclusive \cup {"ensure", "generate", "done"}

Types == /\ job \in [Threads -> Models \cup {NoModel}] /\ step \in [Threads -> Steps]
         /\ resident \in Residents /\ loaded \subseteq Models

\* Where a request is agrees with where its thread is in the lock, and it has a model.
Placed == \A t \in Handlers :
            /\ step[t] = "idle" => at[t] = "out"
            /\ step[t] = "acquire" => at[t] \in Waits \cup {"out"}
            /\ step[t] = "generate" => at[t] \in Owns
            /\ step[t] \in Inside \ {"generate"} => at[t] = "running"
            /\ step[t] # "idle" => job[t] \in Models

\* The main thread makes no request, and does not hold the FPGA before the end.
MainOutside == job[Main] = NoModel /\ (Up => at[Main] \notin Owns)

\* A loan is to a request for a loaded speech model other than its lender's, and
\* that request is not making room.
LoanFits ==
  lent # NoThread /\ Up =>
    /\ lent \in Handlers /\ job[lent] \in Speech \cap loaded
    /\ step[lent] \notin Exclusive
    /\ \A t \in Handlers : at[t] \in Lends => step[t] = "generate" /\ job[t] # job[lent]

\* A second try has the memory to itself.
RetryAlone == \A t \in Handlers :
                resident = "auto" /\ step[t] \in {"retry", "refused"} => loaded \subseteq {job[t]}

ServerInv == /\ QueueInv /\ Types /\ Placed /\ MainOutside /\ LoanFits /\ RetryAlone
             /\ AnswerKeepsModel

-----------------------------------------------------------------------------
(* The server uses the lock as FpgaQueue says.                               *)

LEMMA MainThread == Main \in Threads /\ Main \notin Handlers /\ Handlers \subseteq Threads
BY ServerAssumption

\* What each kind of step does to the lock.
LEMMA ServeLock ==
  ASSUME NEW t \in Handlers, Serve(t) PROVE [QueueNext]_queueVars
<1>0. t \in Threads
  BY MainThread
<1>1. CASE Acquire(t)
  BY <1>0, <1>1 DEF Acquire, QueueNext
<1>2. CASE Waiting(t)
  BY <1>0, <1>2 DEF Waiting, QueueNext
<1>3. CASE Ensure(t) \/ EvictOthers(t) \/ MakeRoom(t) \/ HasRoom(t)
  BY <1>3 DEF Ensure, EvictOthers, MakeRoom, HasRoom
<1>4. CASE Load(t) \/ LoadFails(t) \/ RetryFails(t)
  BY <1>4 DEF Load, LoadFails, RetryFails
<1>5. CASE LoanBack(t) \/ End(t)
  BY <1>0, <1>5 DEF LoanBack, End, QueueNext
<1> QED
  BY <1>1, <1>2, <1>3, <1>4, <1>5 DEF Serve

LEMMA NextLock == [Next]_vars => [QueueNext]_queueVars
<1> SUFFICES ASSUME [Next]_vars PROVE [QueueNext]_queueVars
  OBVIOUS
<1>1. ASSUME NEW t \in Handlers, NEW m \in Models, Request(t, m) PROVE [QueueNext]_queueVars
  BY <1>1 DEF Request
<1>2. ASSUME NEW t \in Handlers, Gone(t) PROVE [QueueNext]_queueVars
  BY <1>2, MainThread DEF Gone, QueueNext
<1>3. ASSUME NEW t \in Handlers, LibraryMissing(t) \/ Finish(t) PROVE [QueueNext]_queueVars
  BY <1>3 DEF LibraryMissing, Finish
<1>4. ASSUME NEW t \in Handlers, LendFpga(t) PROVE [QueueNext]_queueVars
  <2>1. Eligible(job[t]) \in SUBSET Threads
    BY MainThread DEF Eligible
  <2>2. Lend(t, Eligible(job[t]))
    BY <1>4 DEF LendFpga
  <2> QED
    BY <2>1, <2>2, MainThread DEF QueueNext
<1>5. CASE Shutdown
  BY <1>5 DEF Shutdown
<1>6. CASE StopAcquire \/ StopWaiting \/ StopTimeout
  BY <1>6, MainThread DEF StopAcquire, StopWaiting, StopTimeout, QueueNext
<1>7. CASE UNCHANGED vars
  BY <1>7
<1> QED
  BY <1>1, <1>2, <1>3, <1>4, <1>5, <1>6, <1>7, ServeLock DEF Next

\* Every behaviour of the server is one of its lock, so what FpgaQueueProofs proves of
\* the lock holds in the server, the loans to the requests it chooses included.
THEOREM ServerUsesLock == Spec => QueueInit /\ [][QueueNext]_queueVars
<1>1. Init => QueueInit
  BY DEF Init
<1> QED
  BY <1>1, NextLock, PTL DEF Spec

-----------------------------------------------------------------------------
(* The invariant is kept.                                                    *)

LEMMA InitServer == Init => ServerInv
<1> SUFFICES ASSUME Init PROVE ServerInv
  OBVIOUS
<1>1. QueueInv
  BY InitInv DEF Init
<1>2. /\ \A t \in Threads : at[t] = "out" /\ step[t] = "idle" /\ job[t] = NoModel
      /\ lent = NoThread
  BY DEF Init, QueueInit
<1>3. Types
  BY DEF Init, Types, Steps
<1>4. Placed /\ RetryAlone /\ AnswerKeepsModel
  BY <1>2, MainThread DEF Placed, RetryAlone, AnswerKeepsModel, Inside, Exclusive
<1>5. MainOutside /\ LoanFits
  BY <1>2, MainThread DEF MainOutside, LoanFits, Owns, Lends
<1> QED
  BY <1>1, <1>3, <1>4, <1>5 DEF ServerInv

\* A request that makes room, loads or was refused is no borrower, and it alone is
\* inside the lock.
LEMMA ExclusiveAlone ==
  ASSUME ServerInv, Up, NEW t \in Handlers, step[t] \in Exclusive
  PROVE  lent = NoThread /\ \A u \in Handlers \ {t} : step[u] \notin Inside
<1> USE DEF ServerInv
<1>1. at[t] = "running"
  BY DEF Placed, Inside, Exclusive
<1>2. lent = NoThread
  BY <1>1, MainThread DEF LoanFits, QueueInv, LentOnce
<1>3. \A u \in Threads : at[u] \in Owns => u = t
  BY <1>1, <1>2, MainThread DEF QueueInv, NotLent, Owns
<1>4. \A u \in Handlers : step[u] \in Inside => at[u] \in Owns
  BY DEF Placed, Inside, Owns
<1> QED
  BY <1>2, <1>3, <1>4, MainThread

\* What a step of a request inside the lock leaves to show: the models loaded change
\* only while it is alone there.
LEMMA ModelStep ==
  ASSUME ServerInv, Up, NEW t \in Handlers, step[t] \in Inside, at[t] = "running",
         NEW q \in Inside, step' = [step EXCEPT ![t] = q],
         UNCHANGED <<queueVars, resident, job, stop>>, loaded' \subseteq Models,
         loaded' # loaded => step[t] \in Exclusive,
         q \in Exclusive => step[t] \in Exclusive \/ job[t] \notin loaded,
         q = "generate" => job[t] \in loaded',
         resident = "auto" /\ q \in {"retry", "refused"} => loaded' \subseteq {job[t]}
  PROVE  ServerInv'
<1> USE DEF ServerInv
<1>1. /\ busy' = busy /\ queue' = queue /\ lent' = lent /\ flagged' = flagged /\ at' = at
      /\ resident' = resident /\ job' = job /\ stop' = stop
  BY DEF queueVars
<1>2. /\ step'[t] = q /\ \A u \in Handlers \ {t} : step'[u] = step[u]
      /\ step' \in [Threads -> Steps]
  BY MainThread DEF Types, Steps, Inside, Exclusive
<1>3. t \in Threads /\ Up'
  BY <1>1, MainThread DEF Up
<1>4. loaded' = loaded \/ (lent = NoThread /\ \A u \in Handlers \ {t} : step[u] \notin Inside)
  BY ExclusiveAlone
<1>5. QueueInv'
  BY <1>1, StepInv DEF queueVars
<1>6. Types'
  BY <1>1, <1>2 DEF Types
<1>7. Placed'
  <2>1. ASSUME NEW u \in Handlers \ {t}
        PROVE  /\ step'[u] = "idle" => at'[u] = "out"
               /\ step'[u] = "acquire" => at'[u] \in Waits \cup {"out"}
               /\ step'[u] = "generate" => at'[u] \in Owns
               /\ step'[u] \in Inside \ {"generate"} => at'[u] = "running"
               /\ step'[u] # "idle" => job'[u] \in Models
    BY <1>1, <1>2 DEF Placed
  <2>2. job[t] \in Models /\ q # "idle" /\ q # "acquire" /\ at'[t] = "running" /\ at'[t] \in Owns
    BY <1>1 DEF Placed, Inside, Exclusive, Owns
  <2> QED
    BY <1>1, <1>2, <2>1, <2>2 DEF Placed
<1>8. MainOutside'
  BY <1>1 DEF MainOutside, Up
<1>9. LoanFits'
  <2> SUFFICES ASSUME lent # NoThread
               PROVE  /\ lent \in Handlers /\ job[lent] \in Speech \cap loaded'
                      /\ step'[lent] \notin Exclusive
                      /\ \A u \in Handlers : at[u] \in Lends =>
                           step'[u] = "generate" /\ job[u] # job[lent]
    BY <1>1 DEF LoanFits
  <2>1. t = lent /\ step[t] \notin Exclusive
    BY <1>3 DEF LoanFits, QueueInv, LentOnce
  <2>2. loaded' = loaded /\ job[t] \in Speech \cap loaded /\ q \notin Exclusive
    BY <2>1, <1>3 DEF LoanFits
  <2>3. ASSUME NEW u \in Handlers, at[u] \in Lends
        PROVE  step'[u] = "generate" /\ job[u] # job[lent]
    BY <1>2, <2>1, <2>3 DEF LoanFits, Lends
  <2> QED
    BY <1>2, <2>1, <2>2, <2>3
<1>10. RetryAlone'
  <2>1. ASSUME NEW u \in Handlers \ {t}, resident = "auto", step[u] \in {"retry", "refused"}
        PROVE  loaded' \subseteq {job[u]}
    BY <1>4, <2>1 DEF RetryAlone, Inside, Exclusive
  <2> QED
    BY <1>1, <1>2, <2>1 DEF RetryAlone
<1>11. AnswerKeepsModel'
  <2>1. ASSUME NEW u \in Handlers \ {t}, step[u] = "generate" PROVE job[u] \in loaded'
    BY <1>4, <2>1 DEF AnswerKeepsModel, Inside
  <2> QED
    BY <1>1, <1>2, <2>1 DEF AnswerKeepsModel
<1> QED
  BY <1>5, <1>6, <1>7, <1>8, <1>9, <1>10, <1>11

\* A thread's place as the others see it.
Same(u) == /\ at'[u] \in Waits <=> at[u] \in Waits
           /\ at'[u] \in Lends <=> at[u] \in Lends
           /\ at'[u] = "running" <=> at[u] = "running"

\* A step of the lock leaves the other threads where they are.
LEMMA LockStep ==
  ASSUME QueueTypeOK, NEW t \in Threads,
         \/ Enter(t) \/ Join(t) \/ PollOver(t) \/ WaitAgain(t) \/ Grant(t)
         \/ GiveUp(t) \/ LoanOver(t) \/ Release(t) \/ \E E : Lend(t, E)
  PROVE  \A u \in Threads \ {t} : Same(u)
<1>1. CASE \E p : at' = [at EXCEPT ![t] = p]
  BY <1>1 DEF QueueTypeOK, Same
<1>2. CASE \E p \in Places : NotifyAll(t, p)
  BY <1>2, NotifyPlaces DEF Same
<1>3. CASE Enter(t) \/ Join(t) \/ PollOver(t) \/ WaitAgain(t) \/ LoanOver(t)
  BY <1>3, <1>1 DEF Enter, Join, PollOver, WaitAgain, LoanOver
<1>4. CASE Grant(t) \/ GiveUp(t) \/ Release(t) \/ \E E : Lend(t, E)
  BY <1>4, <1>2 DEF Grant, GiveUp, Leave, Release, Lend, Places
<1> QED
  BY <1>3, <1>4

\* What a step of a request on the lock leaves to show, a loan apart.
LEMMA RequestStep ==
  ASSUME ServerInv, QueueInv', Up, NEW t \in Handlers, UNCHANGED <<modelVars, stop>>,
         \A u \in Threads \ {t} : Same(u),
         lent' = lent \/ lent' = NoThread,
         NEW q \in Steps \ Exclusive, step' = [step EXCEPT ![t] = q],
         NEW m \in Models \cup {NoModel}, job' = [job EXCEPT ![t] = m],
         m = job[t] \/ (t # lent' /\ at'[t] = "out"),
         q = "generate" => step[t] = "generate" /\ m = job[t],
         q # "generate" => at'[t] \notin Lends,
         q = "idle" => at'[t] = "out",
         q = "acquire" => at'[t] \in Waits \cup {"out"},
         q = "generate" => at'[t] \in Owns,
         q \in Inside \ {"generate"} => at'[t] = "running",
         q # "idle" => m \in Models
  PROVE  ServerInv'
<1> USE DEF ServerInv
<1>1. resident' = resident /\ loaded' = loaded /\ stop' = stop
  OBVIOUS
<1>2. /\ step'[t] = q /\ \A u \in Handlers \ {t} : step'[u] = step[u]
      /\ job'[t] = m /\ \A u \in Threads \ {t} : job'[u] = job[u]
  BY MainThread DEF Types
<1>3. /\ Up' /\ \A u \in Threads : at[u] \in Places /\ at'[u] \in Places
  BY <1>1 DEF Up, QueueInv, QueueTypeOK
<1>4. Types'
  BY <1>1 DEF Types
<1>5. Placed'
  <2>1. ASSUME NEW u \in Handlers \ {t}
        PROVE  /\ step'[u] = "idle" => at'[u] = "out"
               /\ step'[u] = "acquire" => at'[u] \in Waits \cup {"out"}
               /\ step'[u] = "generate" => at'[u] \in Owns
               /\ step'[u] \in Inside \ {"generate"} => at'[u] = "running"
               /\ step'[u] # "idle" => job'[u] \in Models
    <3>1. Same(u) /\ at[u] \in Places /\ at'[u] \in Places
      BY <1>3, MainThread
    <3>2. at[u] = "out" => at'[u] = "out"
      BY <3>1 DEF Same, Places, Waits, Lends
    <3> QED
      BY <1>2, <3>1, <3>2, MainThread DEF Placed, Same, Owns
  <2> QED
    BY <1>2, <2>1 DEF Placed
<1>6. MainOutside'
  BY <1>1, <1>2, <1>3, MainThread DEF MainOutside, Same, Owns
<1>7. LoanFits'
  <2> SUFFICES ASSUME lent' # NoThread
               PROVE  /\ lent \in Handlers /\ job'[lent] \in Speech \cap loaded
                      /\ step'[lent] \notin Exclusive
                      /\ \A u \in Handlers : at'[u] \in Lends =>
                           step'[u] = "generate" /\ job'[u] # job'[lent]
    BY <1>1 DEF LoanFits
  <2>1. lent' = lent /\ lent # NoThread
    OBVIOUS
  <2>2. job'[lent] = job[lent] /\ lent \in Handlers /\ job[lent] \in Speech \cap loaded
    BY <1>2, <2>1, MainThread DEF LoanFits
  <2>3. step'[lent] \notin Exclusive
    BY <1>2, <2>1, <2>2 DEF LoanFits
  <2>4. ASSUME NEW u \in Handlers \ {t}, at'[u] \in Lends
        PROVE  step'[u] = "generate" /\ job'[u] # job'[lent]
    BY <1>2, <2>1, <2>2, <2>4, MainThread DEF LoanFits, Same
  <2>5. ASSUME at'[t] \in Lends PROVE step'[t] = "generate" /\ job'[t] # job'[lent]
    <3>1. q = "generate" /\ m = job[t] /\ step[t] = "generate"
      BY <2>5
    <3>2. at[t] \in Lends
      <4>1. t # lent
        BY <2>1, <2>5, MainThread DEF QueueInv, LentOnce, Lends, Waits
      <4>2. at[t] # "running"
        BY <2>1, <4>1, MainThread DEF QueueInv, LentOnce
      <4> QED
        BY <3>1, <4>2 DEF Placed, Owns
    <3> QED
      BY <1>2, <2>1, <2>2, <3>1, <3>2 DEF LoanFits
  <2> QED
    BY <2>2, <2>3, <2>4, <2>5
<1>8. RetryAlone'
  BY <1>1, <1>2 DEF RetryAlone, Exclusive
<1>9. AnswerKeepsModel'
  BY <1>1, <1>2, MainThread DEF AnswerKeepsModel
<1> QED
  BY <1>4, <1>5, <1>6, <1>7, <1>8, <1>9

\* What a step of the main thread on the lock leaves to show.
LEMMA MainStep ==
  ASSUME ServerInv, QueueInv', Up, UNCHANGED <<resident, job, step>>,
         lent' = lent, \A u \in Handlers : Same(u),
         Up' => at'[Main] \notin Owns /\ loaded' = loaded,
         ~Up' => loaded' = {}
  PROVE  ServerInv'
<1> USE DEF ServerInv
<1>1. Types'
  BY DEF Types
<1>2. Placed'
  <2>1. ASSUME NEW u \in Handlers
        PROVE  /\ at[u] = "out" => at'[u] = "out"
               /\ at[u] \in Owns => at'[u] \in Owns
    <3>1. Same(u) /\ at[u] \in Places /\ at'[u] \in Places
      BY MainThread DEF QueueInv, QueueTypeOK
    <3> QED
      BY <3>1 DEF Same, Places, Waits, Lends, Owns
  <2> QED
    BY <2>1 DEF Placed, Same
<1>3. MainOutside'
  BY DEF MainOutside
<1>4. LoanFits'
  BY DEF LoanFits, Same
<1>5. RetryAlone' /\ AnswerKeepsModel'
  BY DEF RetryAlone, AnswerKeepsModel
<1> QED
  BY <1>1, <1>2, <1>3, <1>4, <1>5

\* The steps that only touch the models.
LEMMA EnsureInv == ASSUME ServerInv, Up, NEW t \in Handlers, Ensure(t) PROVE ServerInv'
<1> DEFINE q == IF job[t] \in loaded THEN "generate" ELSE "room"
<1>1. /\ Running(t) /\ step[t] = "ensure" /\ step' = [step EXCEPT ![t] = q]
      /\ UNCHANGED <<queueVars, resident, job, stop>> /\ loaded' = loaded
  BY DEF Ensure, Goes
<1>2. at[t] = "running" /\ step[t] \in Inside /\ q \in Inside
  BY <1>1 DEF Running, Inside, Exclusive
<1>3. loaded' \subseteq Models
  BY <1>1 DEF ServerInv, Types
<1>4. /\ q \in Exclusive => job[t] \notin loaded
      /\ q = "generate" => job[t] \in loaded'
      /\ q \notin {"retry", "refused"}
  BY <1>1 DEF Exclusive
<1> HIDE DEF q
<1> QED
  BY <1>1, <1>2, <1>3, <1>4, ModelStep

LEMMA RoomInv ==
  ASSUME ServerInv, Up, NEW t \in Handlers, EvictOthers(t) \/ MakeRoom(t) \/ HasRoom(t)
  PROVE  ServerInv'
<1>1. /\ Running(t) /\ step[t] = "room" /\ loaded' \subseteq loaded
      /\ UNCHANGED <<queueVars, resident, job, stop>>
  BY DEF EvictOthers, MakeRoom, HasRoom, Goes
<1>2. PICK q \in {"room", "load"} : step' = [step EXCEPT ![t] = q]
  BY DEF EvictOthers, MakeRoom, HasRoom, Goes
<1>3. /\ at[t] = "running" /\ step[t] \in Inside /\ q \in Inside /\ step[t] \in Exclusive
      /\ q # "generate" /\ q \notin {"retry", "refused"}
  BY <1>1 DEF Running, Inside, Exclusive
<1>4. loaded' \subseteq Models
  BY <1>1 DEF ServerInv, Types
<1> QED
  BY <1>1, <1>2, <1>3, <1>4, ModelStep

LEMMA LoadInv ==
  ASSUME ServerInv, Up, NEW t \in Handlers, Load(t) PROVE ServerInv'
<1>1. /\ Running(t) /\ step[t] \in {"load", "retry"} /\ step' = [step EXCEPT ![t] = "generate"]
      /\ UNCHANGED <<queueVars, resident, job, stop>> /\ loaded' = loaded \cup {job[t]}
  BY DEF Load, Goes
<1>2. at[t] = "running" /\ step[t] \in Inside /\ step[t] \in Exclusive /\ "generate" \in Inside
  BY <1>1 DEF Running, Inside, Exclusive
<1>3. loaded' \subseteq Models /\ job[t] \in loaded'
  BY <1>1 DEF ServerInv, Types, Placed
<1> QED
  BY <1>1, <1>2, <1>3, ModelStep

LEMMA LoadFailsInv ==
  ASSUME ServerInv, Up, NEW t \in Handlers, LoadFails(t) \/ RetryFails(t) PROVE ServerInv'
<1>1. /\ Running(t) /\ step[t] \in {"load", "retry"} /\ loaded' \subseteq loaded
      /\ UNCHANGED <<queueVars, resident, job, stop>>
  BY DEF LoadFails, RetryFails, Goes
<1>2. PICK q \in {"retry", "refused"} : step' = [step EXCEPT ![t] = q]
  BY DEF LoadFails, RetryFails, Goes
<1>3. at[t] = "running" /\ step[t] \in Inside /\ q \in Inside /\ step[t] \in Exclusive
  BY <1>1 DEF Running, Inside, Exclusive
<1>4. ASSUME resident = "auto" PROVE loaded' \subseteq {job[t]}
  <2>1. CASE LoadFails(t)
    BY <1>4, <2>1 DEF LoadFails, Others
  <2>2. CASE RetryFails(t)
    BY <1>4, <2>2 DEF RetryFails, Goes, ServerInv, RetryAlone
  <2> QED
    BY <2>1, <2>2
<1>5. loaded' \subseteq Models
  BY <1>1 DEF ServerInv, Types
<1> QED
  BY <1>1, <1>2, <1>3, <1>4, <1>5, ModelStep

LEMMA OverInv ==
  ASSUME ServerInv, Up, NEW t \in Handlers, LibraryMissing(t) \/ Finish(t) PROVE ServerInv'
<1>1. /\ Running(t) /\ step[t] \in {"load", "retry", "generate"}
      /\ step' = [step EXCEPT ![t] = "done"]
      /\ UNCHANGED <<queueVars, resident, job, stop>> /\ loaded' = loaded
  BY DEF LibraryMissing, Finish, Goes
<1>2. at[t] = "running" /\ step[t] \in Inside /\ "done" \in Inside /\ "done" \notin Exclusive
  BY <1>1 DEF Running, Inside, Exclusive
<1>3. loaded' \subseteq Models
  BY <1>1 DEF ServerInv, Types
<1> QED
  BY <1>1, <1>2, <1>3, ModelStep

-----------------------------------------------------------------------------
\* The steps that take or leave the lock.
LEMMA RequestInv ==
  ASSUME ServerInv, QueueInv', Up, NEW t \in Handlers, NEW m \in Models, Request(t, m)
  PROVE  ServerInv'
<1>1. /\ step[t] = "idle" /\ step' = [step EXCEPT ![t] = "acquire"]
      /\ job' = [job EXCEPT ![t] = m] /\ UNCHANGED <<queueVars, modelVars, stop>>
  BY DEF Request, Goes
<1>2. at' = at /\ lent' = lent /\ at[t] = "out"
  BY <1>1 DEF queueVars, ServerInv, Placed
<1>3. \A u \in Threads \ {t} : Same(u)
  BY <1>2 DEF Same
<1>4. lent' # t
  BY <1>2, MainThread, ThreadsAssumption DEF ServerInv, QueueInv, LentOnce, Waits
<1>5. "acquire" \in Steps \ Exclusive /\ "acquire" \notin Inside /\ at'[t] \notin Lends
  BY <1>2 DEF Steps, Exclusive, Inside, Lends
<1> QED
  BY <1>1, <1>2, <1>3, <1>4, <1>5, RequestStep

\* A request in the queue goes on waiting, or gives up.
LEMMA QueueingInv ==
  ASSUME ServerInv, QueueInv', Up, NEW t \in Handlers, step[t] = "acquire",
         Join(t) \/ PollOver(t) \/ WaitAgain(t) \/ GiveUp(t),
         UNCHANGED <<modelVars, job, stop>>,
         step' = step \/ (GiveUp(t) /\ step' = [step EXCEPT ![t] = "idle"])
  PROVE  ServerInv'
<1>0. QueueTypeOK /\ t \in Threads
  BY MainThread DEF ServerInv, QueueInv
<1>1. lent' = lent /\ \A u \in Threads \ {t} : Same(u)
  BY <1>0, LockStep DEF Join, PollOver, WaitAgain, GiveUp, Leave
<1>2. at'[t] \in Waits \cup {"out"}
  BY <1>0, NotifyPlaces DEF Join, PollOver, WaitAgain, GiveUp, Leave, QueueTypeOK, Waits, Places
<1>3. GiveUp(t) => at'[t] = "out"
  BY <1>0, NotifyPlaces DEF GiveUp, Leave, Places
<1>4. step = [step EXCEPT ![t] = "acquire"] /\ job' = [job EXCEPT ![t] = job[t]]
  BY <1>0 DEF ServerInv, Types
<1>5. job[t] \in Models
  BY DEF ServerInv, Placed
<1>6. /\ "acquire" \in Steps \ Exclusive /\ "acquire" \notin Inside
      /\ "idle" \in Steps \ Exclusive /\ "idle" \notin Inside
      /\ at'[t] \notin Lends
  BY <1>2 DEF Steps, Exclusive, Inside, Lends, Waits
<1>7. CASE step' = step
  BY <1>1, <1>2, <1>4, <1>5, <1>6, <1>7, RequestStep
<1>8. CASE GiveUp(t) /\ step' = [step EXCEPT ![t] = "idle"]
  BY <1>1, <1>3, <1>4, <1>5, <1>6, <1>7, RequestStep
<1> QED
  BY <1>7, <1>8

\* A request gets the FPGA.
LEMMA GotInv ==
  ASSUME ServerInv, QueueInv', Up, NEW t \in Handlers, Enter(t) \/ Grant(t),
         Goes(t, "acquire", "ensure"), UNCHANGED <<modelVars, job, stop>>
  PROVE  ServerInv'
<1>0. QueueTypeOK /\ t \in Threads
  BY MainThread DEF ServerInv, QueueInv
<1>1. lent' = lent /\ \A u \in Threads \ {t} : Same(u)
  BY <1>0, LockStep DEF Enter, Grant, Leave
<1>2. at'[t] = "running"
  BY <1>0, NotifyPlaces DEF Enter, Grant, Leave, QueueTypeOK, Places
<1>3. step' = [step EXCEPT ![t] = "ensure"] /\ job' = [job EXCEPT ![t] = job[t]]
  BY <1>0 DEF ServerInv, Types, Goes
<1>4. job[t] \in Models
  BY DEF ServerInv, Placed, Goes
<1>5. "ensure" \in Steps \ Exclusive /\ at'[t] \notin Lends
  BY <1>2 DEF Steps, Exclusive, Lends
<1>6. /\ job[t] \in Models \cup {NoModel} /\ UNCHANGED <<modelVars, stop>>
      /\ lent' = lent \/ lent' = NoThread
  BY <1>1, <1>4
<1> DEFINE q == "ensure"
<1>7. /\ q \in Steps \ Exclusive /\ step' = [step EXCEPT ![t] = q]
      /\ q # "idle" /\ q # "acquire" /\ q # "generate"
  BY <1>3, <1>5
<1> HIDE DEF q
<1> QED
  BY <1>1, <1>2, <1>3, <1>4, <1>5, <1>6, <1>7, RequestStep

LEMMA AcquireInv ==
  ASSUME ServerInv, QueueInv', Up, NEW t \in Handlers, Acquire(t) \/ Waiting(t) \/ Gone(t)
  PROVE  ServerInv'
<1>1. step[t] = "acquire" /\ UNCHANGED <<modelVars, job, stop>>
  BY DEF Acquire, Waiting, Gone, Goes
<1>2. CASE (Enter(t) \/ Grant(t)) /\ Goes(t, "acquire", "ensure")
  BY <1>1, <1>2, GotInv
<1>3. CASE (Join(t) \/ PollOver(t) \/ WaitAgain(t)) /\ UNCHANGED step
  BY <1>1, <1>3, QueueingInv
<1>4. CASE GiveUp(t) /\ Goes(t, "acquire", "idle")
  BY <1>1, <1>4, QueueingInv DEF Goes
<1>5. CASE at[t] = "out" /\ Goes(t, "acquire", "idle") /\ UNCHANGED queueVars
  <2>1. lent' = lent /\ at' = at /\ at'[t] = "out" /\ at'[t] \notin Lends
    BY <1>5 DEF queueVars, Lends
  <2>2. \A u \in Threads \ {t} : Same(u)
    BY <2>1 DEF Same
  <2>3. step' = [step EXCEPT ![t] = "idle"] /\ job' = [job EXCEPT ![t] = job[t]]
    BY <1>1, <1>5 DEF ServerInv, Types, Goes
  <2>4. job[t] \in Models /\ "idle" \in Steps \ Exclusive /\ "idle" \notin Inside
    BY <1>1 DEF ServerInv, Placed, Steps, Exclusive, Inside
  <2> QED
    BY <1>1, <2>1, <2>2, <2>3, <2>4, RequestStep
<1> QED
  BY <1>2, <1>3, <1>4, <1>5 DEF Acquire, Waiting, Gone

LEMMA LoanBackInv ==
  ASSUME ServerInv, QueueInv', Up, NEW t \in Handlers, LoanBack(t)
  PROVE  ServerInv'
<1>0. QueueTypeOK /\ t \in Threads
  BY MainThread DEF ServerInv, QueueInv
<1>1. /\ LoanOver(t) /\ at[t] = "returning" /\ UNCHANGED <<modelVars, job, step, stop>>
  BY DEF LoanBack, LoanOver
<1>2. lent' = lent /\ \A u \in Threads \ {t} : Same(u)
  BY <1>0, <1>1, LockStep DEF LoanOver
<1>3. at'[t] \in Owns /\ step[t] = "generate"
  <2>1. at'[t] \in Owns
    BY <1>0, <1>1 DEF LoanOver, QueueTypeOK, Owns, Lends
  <2>2. step[t] = "generate"
    BY <1>0, <1>1 DEF ServerInv, Types, Placed, Steps, Inside, Exclusive, Waits
  <2> QED
    BY <2>1, <2>2
<1>4. step' = [step EXCEPT ![t] = "generate"] /\ job' = [job EXCEPT ![t] = job[t]]
  BY <1>0, <1>1, <1>3 DEF ServerInv, Types
<1>5. job[t] \in Models /\ "generate" \in Steps \ Exclusive
  BY <1>3 DEF ServerInv, Placed, Steps, Exclusive
<1> QED
  BY <1>1, <1>2, <1>3, <1>4, <1>5, RequestStep

LEMMA EndInv ==
  ASSUME ServerInv, QueueInv', Up, NEW t \in Handlers, End(t)
  PROVE  ServerInv'
<1>0. QueueTypeOK /\ t \in Threads
  BY MainThread DEF ServerInv, QueueInv
<1>1. /\ Release(t) /\ step' = [step EXCEPT ![t] = "idle"]
      /\ job' = [job EXCEPT ![t] = NoModel] /\ UNCHANGED <<modelVars, stop>>
  BY DEF End, Goes
<1>2. lent' = NoThread /\ t # lent' /\ \A u \in Threads \ {t} : Same(u)
  BY <1>0, <1>1, LockStep, ThreadsAssumption DEF Release
<1>3. at'[t] = "out" /\ at'[t] \notin Lends
  BY <1>0, <1>1, NotifyPlaces DEF Release, Places, Lends
<1>4. "idle" \in Steps \ Exclusive /\ "idle" \notin Inside
  BY DEF Steps, Exclusive, Inside
<1> QED
  BY <1>1, <1>2, <1>3, <1>4, RequestStep

\* The FPGA is lent: to a request of E, which waits.
LEMMA LendFpgaInv ==
  ASSUME ServerInv, QueueInv', Up, NEW t \in Handlers, LendFpga(t)
  PROVE  ServerInv'
<1> USE DEF ServerInv
<1>0. QueueTypeOK /\ t \in Threads
  BY MainThread DEF QueueInv
<1>1. /\ at[t] = "running" /\ step[t] = "generate" /\ lent = NoThread
      /\ Lend(t, Eligible(job[t])) /\ UNCHANGED <<modelVars, job, step, stop>>
  BY DEF LendFpga, Lend
<1>2. lent' \in Eligible(job[t])
  BY <1>1 DEF Lend, FirstOf
<1>3. lent' \in Handlers /\ job[lent'] \in Speech \cap loaded /\ job[lent'] # job[t]
  BY <1>2 DEF Eligible
<1>4. /\ NotifyAll(t, "lending") /\ at'[t] = "lending"
      /\ \A u \in Threads \ {t} : Same(u)
  BY <1>0, <1>1, LockStep, NotifyPlaces DEF Lend, Places
<1>5. \A u \in Threads : at[u] \in Owns => u = t
  BY <1>0, <1>1 DEF QueueInv, NotLent, Owns
<1>6. \A u \in Handlers : at'[u] \in Lends => u = t
  BY <1>4, <1>5, MainThread DEF Same, Owns
<1>7. \A u \in Handlers : step[u] \in Exclusive => u = t
  BY <1>5, MainThread DEF Placed, Inside, Exclusive, Owns
<1>8. step[lent'] \notin Exclusive
  BY <1>1, <1>3, <1>7 DEF Exclusive
<1>9. Types'
  BY <1>1 DEF Types
<1>10. Placed'
  <2>1. ASSUME NEW u \in Handlers \ {t}
        PROVE  /\ at[u] = "out" => at'[u] = "out"
               /\ at[u] \in Owns => at'[u] \in Owns
               /\ at[u] \in Waits => at'[u] \in Waits
               /\ at[u] = "running" => at'[u] = "running"
    <3>1. Same(u) /\ at[u] \in Places /\ at'[u] \in Places
      BY <1>4, MainThread DEF QueueInv, QueueTypeOK
    <3> QED
      BY <3>1 DEF Same, Places, Waits, Lends, Owns
  <2>2. at'[t] \in Owns
    BY <1>4 DEF Owns, Lends
  <2> QED
    BY <1>1, <2>1, <2>2 DEF Placed, Inside, Exclusive
<1>11. MainOutside'
  BY <1>1, <1>4, MainThread DEF MainOutside, Same, Owns, Up
<1>12. LoanFits'
  BY <1>1, <1>3, <1>6, <1>8 DEF LoanFits
<1>13. RetryAlone' /\ AnswerKeepsModel'
  BY <1>1 DEF RetryAlone, AnswerKeepsModel, Up
<1> QED
  BY <1>9, <1>10, <1>11, <1>12, <1>13

LEMMA ServeInv ==
  ASSUME ServerInv, QueueInv', Up, NEW t \in Handlers, Serve(t)
  PROVE  ServerInv'
BY AcquireInv, EnsureInv, RoomInv, LoadInv, LoadFailsInv, LoanBackInv, EndInv DEF Serve

\* The main thread.
LEMMA ShutdownInv == ASSUME ServerInv, QueueInv', Up, Shutdown PROVE ServerInv'
<1>1. /\ UNCHANGED <<modelVars, job, step>> /\ at' = at /\ lent' = lent /\ stop' = "waiting"
  BY DEF Shutdown, queueVars
<1>2. Up' /\ loaded' = loaded /\ at'[Main] \notin Owns
  BY <1>1 DEF Up, ServerInv, MainOutside
<1>3. \A u \in Handlers : Same(u)
  BY <1>1 DEF Same
<1> QED
  BY <1>1, <1>2, <1>3, MainStep

LEMMA StopInv ==
  ASSUME ServerInv, QueueInv', Up, StopAcquire \/ StopWaiting \/ StopTimeout
  PROVE  ServerInv'
<1>0. QueueTypeOK
  BY DEF ServerInv, QueueInv
<1>1. UNCHANGED <<resident, job, step>>
  BY DEF StopAcquire, StopWaiting, StopTimeout
<1>2. lent' = lent /\ \A u \in Handlers : Same(u)
  <2>1. CASE UNCHANGED queueVars
    BY <2>1 DEF queueVars, Same
  <2>2. CASE \/ Enter(Main) \/ Join(Main) \/ PollOver(Main) \/ WaitAgain(Main)
             \/ Grant(Main) \/ GiveUp(Main)
    <3>1. \A u \in Threads \ {Main} : Same(u)
      BY <1>0, <2>2, MainThread, LockStep
    <3>2. lent' = lent
      BY <2>2 DEF Enter, Join, PollOver, WaitAgain, Grant, GiveUp, Leave
    <3> QED
      BY <3>1, <3>2, MainThread
  <2> QED
    BY <2>1, <2>2 DEF StopAcquire, StopWaiting, StopTimeout
<1>3. CASE \E how \in {"closed", "full", "timeout"} : Closes(how)
  BY <1>1, <1>2, <1>3, MainStep DEF Closes, Up
<1>4. CASE (Join(Main) \/ PollOver(Main) \/ WaitAgain(Main)) /\ UNCHANGED <<stop, loaded>>
  <2>1. at'[Main] \in Waits
    BY <1>0, <1>4, MainThread DEF Join, PollOver, WaitAgain, QueueTypeOK, Waits
  <2> QED
    BY <1>1, <1>2, <1>4, <2>1, MainStep DEF Up, Waits, Owns, Lends
<1> QED
  BY <1>3, <1>4 DEF StopAcquire, StopWaiting, StopTimeout

LEMMA NextServer == ServerInv /\ [Next]_vars => ServerInv'
<1> SUFFICES ASSUME ServerInv, [Next]_vars PROVE ServerInv'
  OBVIOUS
<1>1. QueueInv'
  BY NextLock, StepInv DEF ServerInv
<1>2. CASE Next
  <2>1. ASSUME NEW t \in Handlers, NEW m \in Models, Up, Request(t, m) PROVE ServerInv'
    BY <1>1, <2>1, RequestInv
  <2>2. ASSUME NEW t \in Handlers, Up, Serve(t) \/ Gone(t) PROVE ServerInv'
    BY <1>1, <2>2, ServeInv, AcquireInv
  <2>3. ASSUME NEW t \in Handlers, Up, LibraryMissing(t) \/ Finish(t) PROVE ServerInv'
    BY <2>3, OverInv
  <2>4. ASSUME NEW t \in Handlers, Up, LendFpga(t) PROVE ServerInv'
    BY <1>1, <2>4, LendFpgaInv
  <2>5. ASSUME Up, Shutdown \/ StopAcquire \/ StopWaiting \/ StopTimeout PROVE ServerInv'
    BY <1>1, <2>5, ShutdownInv, StopInv
  <2> QED
    BY <1>2, <2>1, <2>2, <2>3, <2>4, <2>5 DEF Next
<1>3. CASE UNCHANGED vars
  <2>1. /\ lent' = lent /\ at' = at /\ resident' = resident /\ loaded' = loaded
        /\ job' = job /\ step' = step /\ stop' = stop
    BY <1>3 DEF queueVars
  <2> QED
    BY <1>1, <2>1 DEF ServerInv, Types, Placed, MainOutside, LoanFits, RetryAlone,
                       AnswerKeepsModel, Up
<1> QED
  BY <1>2, <1>3

\* Where each request is agrees with the lock, with its loan and with the models loaded.
THEOREM ServerInvariant == Spec => []ServerInv
<1>1. Init => ServerInv
  BY InitServer
<1>2. ServerInv /\ [Next]_vars => ServerInv'
  BY NextServer
<1> QED
  BY <1>1, <1>2, PTL DEF Spec

\* No eviction, borrower or load takes the model of an answer that is not done.
THEOREM KeepsModel == Spec => []AnswerKeepsModel
<1>1. ServerInv => AnswerKeepsModel
  BY DEF ServerInv
<1> QED
  BY <1>1, ServerInvariant, PTL

\* A model is refused for its failing load only when it had the memory to itself.
THEOREM Refusal == Spec => []RefusedAlone
<1>1. ServerInv => RefusedAlone
  BY DEF ServerInv, RetryAlone, RefusedAlone
<1> QED
  BY <1>1, ServerInvariant, PTL

-----------------------------------------------------------------------------
(* Who is evicted.                                                           *)

\* The ranking by last use has every model once, and what is loaded fits beside the
\* page cache; a model there is room to make for is not loaded.
Ranked == used \in Seq(Models) /\ Len(used) = Len(Order) /\ Distinct(used)
          /\ \A m \in Models : In(m, used)

Fits == cache \in 0 .. MaxCache /\ Held(loaded) + cache <= Total

Stops == stop \in {"no", "waiting", "closed", "full", "timeout"}

Absent == Up => \A t \in Handlers : step[t] = "room" => job[t] \notin loaded

ModelsInv == ServerInv /\ Ranked /\ Fits /\ Stops /\ Absent

LEMMA InitModels == Init => ModelsInv
<1> SUFFICES ASSUME Init PROVE ModelsInv
  OBVIOUS
<1>1. Ranked
  <2>1. used = Order /\ Order \in Seq(Models)
    BY ServerAssumption DEF Init
  <2>2. DOMAIN Order = 1 .. Len(Order)
    BY <2>1, LenProperties
  <2>3. Distinct(Order) /\ \A m \in Models : In(m, Order)
    BY <2>2, ServerAssumption DEF Distinct, In, IsInjective, Models, ToSet
  <2> QED
    BY <2>1, <2>3 DEF Ranked
<1>2. Fits
  <2>1. cache = 0 /\ loaded \in SUBSET Models /\ Held(loaded) <= Total
    BY DEF Init
  <2>2. Held(loaded) \in Nat
    BY <2>1, HeldValue
  <2> QED
    BY <2>1, <2>2, ServerAssumption DEF Fits
<1>3. Stops /\ Absent
  BY MainThread DEF Init, Stops, Absent
<1> QED
  BY <1>1, <1>2, <1>3, InitServer DEF ModelsInv

\* The model last used goes to the end of the ranking.
LEMMA RankedAgain ==
  ASSUME Ranked, NEW m \in Models, used' = Append(Without(used, m), m)
  PROVE  Ranked'
<1> DEFINE r == Without(used, m)
<1>1. /\ r \in Seq(Models) /\ Len(r) = Len(used) - 1 /\ Distinct(r)
      /\ \A u : In(u, r) <=> u # m /\ In(u, used)
  BY WithoutOne DEF Ranked
<1> HIDE DEF r
<1>2. /\ Append(r, m) \in Seq(Models) /\ Len(Append(r, m)) = Len(r) + 1
      /\ \A j \in 1 .. Len(r) : Append(r, m)[j] = r[j]
      /\ Append(r, m)[Len(r) + 1] = m
  BY <1>1, AppendProperties
<1>3. used' = Append(r, m)
  BY DEF r
<1> DEFINE a == Append(r, m)
<1> HIDE DEF a
<1>4. /\ used' = a /\ a \in Seq(Models) /\ Len(a) = Len(r) + 1 /\ a[Len(r) + 1] = m
      /\ \A j \in 1 .. Len(r) : a[j] = r[j]
  BY <1>2, <1>3 DEF a
<1>5. Len(r) \in Nat /\ Len(used) \in Nat /\ Len(used) = Len(Order) /\ Len(a) = Len(Order)
  BY <1>1, <1>4, LenProperties DEF Ranked
<1>6. Distinct(a)
  <2>1. SUFFICES ASSUME NEW i \in 1 .. Len(r) + 1, NEW j \in 1 .. Len(r) + 1, a[i] = a[j]
                 PROVE  i = j
    BY <1>4 DEF Distinct
  <2>2. \A k \in 1 .. Len(r) : r[k] # m
    BY <1>1 DEF In
  <2>3. CASE i = Len(r) + 1 \/ j = Len(r) + 1
    BY <1>4, <1>5, <2>1, <2>2, <2>3
  <2>4. CASE i \in 1 .. Len(r) /\ j \in 1 .. Len(r)
    BY <1>1, <1>4, <2>1, <2>4 DEF Distinct
  <2> QED
    BY <1>5, <2>3, <2>4
<1>7. ASSUME NEW u \in Models PROVE In(u, a)
  <2>1. CASE u = m
    BY <2>1, <1>4, <1>5 DEF In
  <2>2. CASE u # m
    <3>1. PICK j \in 1 .. Len(r) : r[j] = u
      BY <2>2, <1>1 DEF Ranked, In
    <3>2. j \in 1 .. Len(a) /\ a[j] = u
      BY <3>1, <1>4, <1>5
    <3> QED
      BY <3>2 DEF In
  <2> QED
    BY <2>1, <2>2
<1> QED
  BY <1>4, <1>5, <1>6, <1>7 DEF Ranked

\* The least recently used of a set of models comes before the others.
LEMMA LeastRecentFirst ==
  ASSUME Ranked, NEW S \in SUBSET Models, S # {}
  PROVE  LeastRecent(S) \in S /\ \A n \in S \ {LeastRecent(S)} : UsedBefore(LeastRecent(S), n)
<1>1. Len(used) \in Nat /\ DOMAIN used = 1 .. Len(used)
  BY LenProperties DEF Ranked
<1> DEFINE T == {i \in 1 .. Len(used) : used[i] \in S}
<1>2. T \subseteq Nat /\ T # {}
  BY <1>1 DEF Ranked, In
<1>3. PICK i \in T : \A j \in T : i <= j
  <2>1. PICK i \in T : \A j \in T : <<j, i>> \notin OpToRel(<, Nat)
    BY <1>2, NatLessThanWellFounded, WFMin
  <2>2. \A j \in T : ~(j < i)
    BY <1>2, <2>1 DEF OpToRel
  <2> QED
    BY <1>2, <2>2
<1>4. used[i] \in S /\ \A k \in 1 .. Len(used) : used[k] = used[i] => k = i
  BY DEF Ranked, Distinct
<1>5. \A k \in 1 .. Len(used) : used[k] = used[i] => \A j \in 1 .. k - 1 : used[j] \notin S
  BY <1>1, <1>3, <1>4
<1> DEFINE m == LeastRecent(S)
<1>6. /\ m \in S
      /\ \A k \in 1 .. Len(used) : used[k] = m => \A j \in 1 .. k - 1 : used[j] \notin S
  BY <1>4, <1>5 DEF LeastRecent
<1> HIDE DEF m, T
<1>7. PICK k \in 1 .. Len(used) : used[k] = m
  BY <1>6 DEF Ranked, In
<1>8. ASSUME NEW n \in S \ {m} PROVE UsedBefore(m, n)
  <2>1. PICK j \in 1 .. Len(used) : used[j] = n
    BY DEF Ranked, In
  <2>2. j \notin 1 .. k - 1 /\ j # k
    BY <1>6, <1>7, <2>1
  <2>3. k < j
    BY <2>2, <1>1
  <2> QED
    BY <1>7, <2>1, <2>3 DEF UsedBefore
<1> QED
  BY <1>6, <1>8 DEF m

\* A step that loads nothing, ranks nothing and makes room for no other request.
Calm == /\ used' = used /\ loaded' \subseteq loaded /\ cache' \in {cache, 0}
        /\ stop' \in {stop, "waiting", "closed", "full", "timeout"}
        /\ \A u \in Handlers : step'[u] = "room" => step[u] = "room" /\ job'[u] = job[u]

LEMMA ServeCalm ==
  ASSUME ServerInv, NEW t \in Handlers, Serve(t) PROVE Ensure(t) \/ Load(t) \/ Calm
<1> USE DEF ServerInv, Types, Calm
<1>0. t \in Threads /\ Handlers \subseteq Threads
  BY MainThread
<1>1. CASE Acquire(t) \/ Waiting(t)
  BY <1>0, <1>1 DEF Acquire, Waiting, Goes
<1>2. CASE EvictOthers(t) \/ HasRoom(t)
  BY <1>0, <1>2 DEF EvictOthers, HasRoom, Goes
<1>3. CASE MakeRoom(t)
  BY <1>0, <1>3 DEF MakeRoom, Reclaim, Goes
<1>4. CASE LoadFails(t) \/ RetryFails(t)
  BY <1>0, <1>4 DEF LoadFails, RetryFails, Goes
<1>5. CASE LoanBack(t) \/ End(t)
  BY <1>0, <1>5 DEF LoanBack, End, Goes
<1> QED
  BY <1>1, <1>2, <1>3, <1>4, <1>5 DEF Serve

LEMMA NextCalm ==
  ASSUME ServerInv, [Next]_vars PROVE Calm \/ (Up /\ \E t \in Handlers : Ensure(t) \/ Load(t))
<1> USE DEF ServerInv, Types
<1>0. Handlers \subseteq Threads
  BY MainThread
<1>1. ASSUME NEW t \in Handlers, NEW m \in Models, Request(t, m) PROVE Calm
  BY <1>0, <1>1 DEF Request, Goes, Calm
<1>2. ASSUME NEW t \in Handlers, Gone(t) \/ LibraryMissing(t) \/ Finish(t) PROVE Calm
  BY <1>0, <1>2 DEF Gone, LibraryMissing, Finish, Goes, Calm
<1>3. ASSUME NEW t \in Handlers, LendFpga(t) PROVE Calm
  BY <1>3 DEF LendFpga, Calm
<1>4. CASE Shutdown
  BY <1>4 DEF Shutdown, Calm
<1>5. CASE StopAcquire \/ StopWaiting \/ StopTimeout
  BY <1>5 DEF StopAcquire, StopWaiting, StopTimeout, Closes, queueVars, Calm
<1>6. CASE UNCHANGED vars
  BY <1>6 DEF Calm
<1> QED
  BY <1>1, <1>2, <1>3, <1>4, <1>5, <1>6, ServeCalm DEF Next

LEMMA NextModels == ModelsInv /\ [Next]_vars => ModelsInv'
<1> SUFFICES ASSUME ModelsInv, [Next]_vars PROVE ModelsInv'
  OBVIOUS
<1>1. ServerInv /\ ServerInv' /\ Ranked /\ Fits /\ Stops /\ Absent
  BY NextServer DEF ModelsInv
<1>2. loaded \in SUBSET Models /\ loaded' \in SUBSET Models
  BY <1>1 DEF ServerInv, Types
<1>3. Held(loaded) \in Nat /\ Held(loaded') \in Nat
  BY <1>2, HeldValue
<1>4. Up' => Up
  <2>1. CASE UNCHANGED vars
    BY <2>1 DEF Up
  <2> QED
    BY <2>1 DEF Next
<1>5. CASE Calm
  <2>1. Ranked'
    BY <1>1, <1>5 DEF Calm, Ranked, Distinct, In
  <2>2. Fits'
    <3>1. Held(loaded') <= Held(loaded)
      BY <1>2, <1>5, HeldLess DEF Calm
    <3> QED
      BY <1>1, <1>3, <1>5, <3>1, ServerAssumption DEF Calm, Fits
  <2>3. Stops' /\ Absent'
    BY <1>1, <1>4, <1>5 DEF Calm, Stops, Absent
  <2> QED
    BY <1>1, <2>1, <2>2, <2>3 DEF ModelsInv
<1>6. ASSUME NEW t \in Handlers, Up, Ensure(t) PROVE ModelsInv'
  <2>1. /\ step[t] = "ensure" /\ job' = job /\ loaded' = loaded /\ cache' = cache
        /\ used' = Append(Without(used, job[t]), job[t])
        /\ step' = [step EXCEPT ![t] = IF job[t] \in loaded THEN "generate" ELSE "room"]
    BY <1>6 DEF Ensure, Goes
  <2>2. job[t] \in Models
    BY <1>1, <2>1 DEF ServerInv, Placed
  <2>3. Ranked'
    BY <1>1, <2>1, <2>2, RankedAgain
  <2>4. Fits' /\ Stops'
    BY <1>1, <1>6, <2>1 DEF Fits, Stops, Ensure
  <2>5. Absent'
    BY <1>1, <1>6, <2>1, MainThread DEF Absent, ServerInv, Types
  <2> QED
    BY <1>1, <2>3, <2>4, <2>5 DEF ModelsInv
<1>7. ASSUME NEW t \in Handlers, Up, Load(t) PROVE ModelsInv'
  <2>1. /\ step[t] \in {"load", "retry"} /\ job' = job /\ used' = used
        /\ step' = [step EXCEPT ![t] = "generate"] /\ loaded' = loaded \cup {job[t]}
        /\ Held(loaded \cup {job[t]}) <= Total
        /\ cache' \in 0 .. Min({MaxCache, Total - Held(loaded')})
    BY <1>7 DEF Load, Goes
  <2>2. Ranked' /\ Stops'
    BY <1>1, <1>7, <2>1 DEF Ranked, Distinct, In, Stops, Load
  <2>3. Fits'
    <3> DEFINE room == Total - Held(loaded')
    <3>1. room \in Int /\ MaxCache \in Int
      BY <1>3, ServerAssumption
    <3>2. /\ Min({MaxCache, room}) \in {MaxCache, room}
          /\ Min({MaxCache, room}) <= MaxCache /\ Min({MaxCache, room}) <= room
      <4> HIDE DEF room
      <4>1. \E x \in {MaxCache, room} : \A y \in {MaxCache, room} : x <= y
        BY <3>1
      <4> QED
        BY <4>1 DEF Min
    <3>3. cache' \in Nat /\ cache' <= MaxCache /\ cache' <= room
      BY <2>1, <3>1, <3>2
    <3> QED
      BY <1>3, <3>3, ServerAssumption DEF Fits
  <2>4. Absent'
    <3>1. \A u \in Handlers \ {t} : step[u] # "room"
      BY <1>1, <1>7, <2>1, ExclusiveAlone DEF Exclusive, Inside
    <3> QED
      BY <1>1, <2>1, <3>1, MainThread DEF Absent, ServerInv, Types
  <2> QED
    BY <1>1, <2>2, <2>3, <2>4 DEF ModelsInv
<1> QED
  BY <1>1, <1>5, <1>6, <1>7, NextCalm

\* The ranking stays one of all models, the room made is for models not loaded, and
\* the models loaded and the page cache are never more than the memory.
THEOREM ModelsInvariant == Spec => []ModelsInv
<1>1. Init => ModelsInv
  BY InitModels
<1>2. ModelsInv /\ [Next]_vars => ModelsInv'
  BY NextModels
<1> QED
  BY <1>1, <1>2, PTL DEF Spec

\* While a request makes room, only it evicts, unless the server is closed without
\* the FPGA.
LEMMA RoomEvicts ==
  ASSUME ServerInv, Next, NEW t \in Handlers, step[t] = "room", resident = "auto",
         stop' \notin {"full", "timeout"}, ~(loaded \subseteq loaded')
  PROVE  MakeRoom(t)
<1> USE DEF ServerInv
<1>0. Up
  BY DEF Next
<1>1. lent = NoThread /\ \A u \in Handlers \ {t} : step[u] \notin Inside
  BY <1>0, ExclusiveAlone DEF Exclusive
<1>2. busy = TRUE /\ flagged = {}
  <2>1. at[t] = "running"
    BY DEF Placed, Inside, Exclusive
  <2> QED
    BY <1>1, <2>1, MainThread DEF QueueInv, QueueTypeOK, BusyOwned, NotLent, Owns
<1>3. ASSUME NEW u \in Handlers, NEW m \in Models, Request(u, m) PROVE FALSE
  BY <1>3 DEF Request
<1>4. ASSUME NEW u \in Handlers, Gone(u) \/ LibraryMissing(u) \/ LendFpga(u) \/ Finish(u)
      PROVE  FALSE
  BY <1>4 DEF Gone, LibraryMissing, LendFpga, Finish
<1>5. ASSUME NEW u \in Handlers, Serve(u) PROVE MakeRoom(t)
  <2>1. CASE Acquire(u) \/ Waiting(u) \/ Ensure(u) \/ HasRoom(u) \/ RetryFails(u)
             \/ LoanBack(u) \/ End(u)
    BY <2>1 DEF Acquire, Waiting, Ensure, HasRoom, RetryFails, LoanBack, End
  <2>2. CASE EvictOthers(u) \/ Load(u)
    BY <2>2 DEF EvictOthers, Load
  <2>3. CASE MakeRoom(u)
    BY <1>1, <2>3 DEF MakeRoom, Goes, Inside, Exclusive
  <2>4. CASE LoadFails(u)
    BY <1>1, <2>4 DEF LoadFails, Goes, Inside, Exclusive
  <2> QED
    BY <1>5, <2>1, <2>2, <2>3, <2>4 DEF Serve
<1>6. CASE Shutdown
  BY <1>6 DEF Shutdown
<1>7. CASE StopAcquire \/ StopWaiting \/ StopTimeout
  <2>1. ~Enter(Main) /\ ~Grant(Main)
    BY <1>2 DEF Enter, Free, Grant, Granted
  <2> QED
    BY <1>7, <2>1 DEF StopAcquire, StopWaiting, StopTimeout, Closes
<1> QED
  BY <1>3, <1>4, <1>5, <1>6, <1>7 DEF Next

\* Making room evicts the least recently used models, and only while the models
\* themselves leave too little memory.
THEOREM Eviction == Spec => EvictsForRoom
<1> DEFINE Step ==
      \A t \in Handlers : step[t] = "room" /\ resident = "auto" /\ stop' \notin {"full", "timeout"} =>
        \A m \in loaded \ loaded' :
           /\ Held(loaded) + Estimate[job[t]] + Margin > Total
           /\ \A n \in loaded \cap loaded' : UsedBefore(m, n)
<1>1. ModelsInv /\ [Next]_vars => [Step]_vars
  <2> SUFFICES ASSUME ModelsInv, Next, NEW t \in Handlers, step[t] = "room", resident = "auto",
                      stop' \notin {"full", "timeout"}, NEW m \in loaded \ loaded'
               PROVE  /\ Held(loaded) + Estimate[job[t]] + Margin > Total
                      /\ \A n \in loaded \cap loaded' : UsedBefore(m, n)
    OBVIOUS
  <2> DEFINE S == Others(job[t])
  <2>1. MakeRoom(t)
    BY RoomEvicts DEF ModelsInv
  <2>2. loaded' = loaded \ {LeastRecent(S)} /\ ~(cache > 0) /\ S # {} /\ ~Room(job[t])
    BY <2>1 DEF MakeRoom, Reclaim
  <2>3. S = loaded /\ S \in SUBSET Models /\ job[t] \in Models
    BY DEF ModelsInv, Absent, Next, Others, ServerInv, Types, Placed
  <2> HIDE DEF S
  <2>4. m = LeastRecent(S) /\ \A n \in S \ {m} : UsedBefore(m, n)
    BY <2>2, <2>3, LeastRecentFirst DEF ModelsInv
  <2>5. Held(loaded) + Estimate[job[t]] + Margin > Total
    <3>1. Held(loaded) \in Nat /\ cache = 0
      BY <2>2, <2>3, HeldValue, ServerAssumption DEF ModelsInv, Fits
    <3>2. Estimate[job[t]] \in Nat /\ Margin \in Nat /\ Total \in Nat
      BY <2>3, ServerAssumption
    <3> QED
      BY <2>2, <3>1, <3>2 DEF Room, CmaFree
  <2> QED
    BY <2>3, <2>4, <2>5
<1> QED
  BY <1>1, ModelsInvariant, PTL DEF Spec, EvictsForRoom

\* The types of the server's state: with them, that what is loaded and cached fits.
THEOREM ServerTypes == Spec => []TypeOK
<1>1. ModelsInv => TypeOK
  <2> SUFFICES ASSUME ModelsInv PROVE TypeOK
    OBVIOUS
  <2>1. used \in Seq(Models) /\ \A m \in Models : In(m, used)
    BY DEF ModelsInv, Ranked
  <2>2. used \in [1 .. Len(used) -> Models]
    BY <2>1, LenProperties
  <2>3. ToSet(used) = Models
    BY <2>1, <2>2 DEF ToSet, In
  <2> QED
    BY <2>1, <2>3 DEF ModelsInv, ServerInv, QueueInv, Types, Ranked, Fits, Stops, TypeOK
<1> QED
  BY <1>1, ModelsInvariant, PTL
=============================================================================
