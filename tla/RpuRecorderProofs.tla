-------------------------- MODULE RpuRecorderProofs --------------------------
(***************************************************************************)
(* RpuRecorder, for every set of lanes, register file, ring size and         *)
(* sequence of runs: what the R5 replays is what the generated code wrote,    *)
(* although only the registers that changed are sent; and no Start writes     *)
(* past the ring.                                                            *)
(*                                                                         *)
(* Replay and WordsOf are folds of the commands.  What a fold does when a     *)
(* command is appended (ReplayAppend, WordsAppend) is proved by taking the    *)
(* shortest prefix on which two evaluations of it would differ; the other     *)
(* inductions (over a batch, over the runs of changed registers) are written  *)
(* the same way, as a least counterexample that cannot be.                    *)
(*                                                                         *)
(* The argument: the runs of changed registers are disjoint, in order, more   *)
(* than MaxGap apart and cover all that changed (SegmentsSplit).  So replayed  *)
(* over a lane that holds what was sent to it last, they leave it with what   *)
(* the generated code wrote (DeltaReplay), and take no more words than the     *)
(* lane has registers and two (RunWords).  RecInv carries the premise: after   *)
(* the ring, were it replayed now, each lane that was sent holds s_sent.       *)
(***************************************************************************)
EXTENDS RpuRecorder, SequenceTheorems, FiniteSetTheorems, WellFoundedInduction, TLAPS

-----------------------------------------------------------------------------
(* Numbers: a set of them has a least one, and a greatest if it is bounded.   *)

LEMMA LeastNumber ==
  ASSUME NEW T \in SUBSET Nat, T # {}
  PROVE  \E x \in T : \A y \in T : x <= y
<1>1. PICK x \in T : \A y \in T : <<y, x>> \notin OpToRel(<, Nat)
  BY NatLessThanWellFounded, WFMin
<1>2. \A y \in T : ~(y < x)
  BY <1>1 DEF OpToRel
<1> QED
  BY <1>2

LEMMA GreatestNumber ==
  ASSUME NEW m \in Nat, NEW T \in SUBSET (0 .. m), T # {}
  PROVE  \E x \in T : \A y \in T : y <= x
<1> DEFINE D == {m - x : x \in T}
<1>1. D \in SUBSET Nat /\ D # {}
  <2>1. \A x \in T : m - x \in Nat
    OBVIOUS
  <2>2. PICK x \in T : TRUE
    OBVIOUS
  <2>3. m - x \in D
    OBVIOUS
  <2> QED
    BY <2>1, <2>3
<1>2. PICK d \in D : \A e \in D : d <= e
  <2> HIDE DEF D
  <2> QED
    BY <1>1, LeastNumber
<1>3. PICK x \in T : d = m - x
  BY <1>2
<1>4. ASSUME NEW y \in T PROVE y <= x
  <2>1. m - y \in D
    OBVIOUS
  <2>2. m - x <= m - y
    BY <1>2, <1>3, <2>1
  <2> QED
    BY <2>2
<1> QED
  BY <1>4

LEMMA MaxIs ==
  ASSUME NEW n \in Nat, NEW s \in SUBSET (1 .. n), s # {}
  PROVE  Max(s) \in s /\ \A x \in s : x <= Max(s)
<1>1. s \in SUBSET (0 .. n)
  OBVIOUS
<1>2. \E x \in s : \A y \in s : x >= y
  <2>1. PICK x \in s : \A y \in s : y <= x
    BY <1>1, GreatestNumber
  <2> QED
    BY <2>1
<1>3. Max(s) \in s /\ \A y \in s : Max(s) >= y
  BY <1>2 DEF Max
<1> QED
  BY <1>3

LEMMA MaxOfRange == ASSUME NEW n \in Nat \ {0} PROVE Max(1 .. n) = n
<1> DEFINE s == 1 .. n
           x == Max(s)
<1>1. n \in Nat /\ s \in SUBSET (1 .. n) /\ s # {} /\ n \in s
  OBVIOUS
<1> HIDE DEF s
<1>2. x \in s /\ \A y \in s : y <= x
  BY <1>1, MaxIs
<1> HIDE DEF x
<1>3. x = n
  BY <1>1, <1>2
<1> QED
  BY <1>3 DEF x, s

-----------------------------------------------------------------------------
(* A batch is replayed, and its words counted, command by command.           *)

Base(regs) == [regs |-> regs, runs |-> <<>>]
Does(w, x, c) == IF w = "count" THEN x + c.words ELSE Exec(x, c)
ExecAt(w, b, cmds, g, s) ==
  IF s = {} THEN b ELSE Does(w, g[s \ {Max(s)}], cmds[Max(s)])
Executes(w, b, cmds, g, S) == g = [s \in SUBSET S |-> ExecAt(w, b, cmds, g, s)]

\* What w stands for: the words of the commands, or their effect.
Folded(w, b, cmds) == (CHOOSE g : Executes(w, b, cmds, g, DOMAIN cmds))[DOMAIN cmds]

LEMMA ReplayIs ==
  ASSUME NEW cmds, NEW regs
  PROVE  Replay(cmds, regs) = Folded("replay", Base(regs), cmds)
BY DEF Replay, FoldLeft, MapThenFoldSet, Folded, Executes, ExecAt, Does, Base

LEMMA WordsIs ==
  ASSUME NEW cmds
  PROVE  WordsOf(cmds) = Folded("count", 0, cmds)
BY DEF WordsOf, FoldLeft, MapThenFoldSet, Folded, Executes, ExecAt, Does

LEMMA ExecutesAt ==
  ASSUME NEW w, NEW b, NEW cmds, NEW g, NEW S, Executes(w, b, cmds, g, S), NEW s \in SUBSET S
  PROVE  g[s] = ExecAt(w, b, cmds, g, s)
BY DEF Executes

LEMMA ExecutesExist ==
  ASSUME NEW w, NEW b, NEW cmds, NEW n \in Nat
  PROVE  \E g : Executes(w, b, cmds, g, 1 .. n)
<1> DEFINE T == {k \in Nat : ~\E g : Executes(w, b, cmds, g, 1 .. k)}
<1>1. SUFFICES ASSUME T # {} PROVE FALSE
  OBVIOUS
<1>2. PICK m \in T : \A k \in T : m <= k
  <2>1. T \in SUBSET Nat
    OBVIOUS
  <2> HIDE DEF T
  <2> QED
    BY <1>1, <2>1, LeastNumber
<1>3. m # 0
  <2> SUFFICES \E g : Executes(w, b, cmds, g, 1 .. 0)
    BY <1>2
  <2> DEFINE g == [s \in SUBSET (1 .. 0) |-> b]
  <2>1. \A s \in SUBSET (1 .. 0) : ExecAt(w, b, cmds, g, s) = b
    BY DEF ExecAt
  <2>2. Executes(w, b, cmds, g, 1 .. 0)
    BY <2>1 DEF Executes
  <2> QED
    BY <2>2
<1>4. m - 1 \in Nat /\ m \in Nat
  BY <1>3
<1>5. PICK f : Executes(w, b, cmds, f, 1 .. m - 1)
  BY <1>2, <1>4
<1> DEFINE g == [s \in SUBSET (1 .. m) |->
                   IF m \in s THEN Does(w, f[s \ {m}], cmds[m]) ELSE f[s]]
<1>6. ASSUME NEW s \in SUBSET (1 .. m), m \notin s
      PROVE  s \in SUBSET (1 .. m - 1) /\ g[s] = f[s]
  BY <1>4, <1>6
<1>7. ASSUME NEW s \in SUBSET (1 .. m) PROVE g[s] = ExecAt(w, b, cmds, g, s)
  <2>1. CASE m \in s
    <3>1. Max(s) = m
      <4> DEFINE x == Max(s)
      <4>1. x \in s /\ \A y \in s : y <= x
        BY <1>4, <2>1, MaxIs
      <4> HIDE DEF x
      <4>2. x = m
        BY <1>4, <2>1, <4>1
      <4> QED
        BY <4>2 DEF x
    <3>2. s \ {m} \in SUBSET (1 .. m) /\ m \notin s \ {m}
      OBVIOUS
    <3>3. g[s \ {m}] = f[s \ {m}]
      BY <1>6, <3>2
    <3>4. g[s] = Does(w, f[s \ {m}], cmds[m])
      BY <2>1
    <3> QED
      BY <2>1, <3>1, <3>3, <3>4 DEF ExecAt
  <2>2. CASE m \notin s
    <3>1. s \in SUBSET (1 .. m - 1) /\ g[s] = f[s]
      BY <1>6, <2>2
    <3>2. f[s] = ExecAt(w, b, cmds, f, s)
      <4> DEFINE R == 1 .. m - 1
      <4>1. Executes(w, b, cmds, f, R) /\ s \in SUBSET R
        BY <1>5, <3>1
      <4> HIDE DEF R
      <4> QED
        BY <4>1, ExecutesAt
    <3>3. ASSUME s # {} PROVE g[s \ {Max(s)}] = f[s \ {Max(s)}]
      <4>1. s \ {Max(s)} \in SUBSET (1 .. m) /\ m \notin s \ {Max(s)}
        BY <2>2
      <4> QED
        BY <1>6, <4>1
    <3> QED
      BY <3>1, <3>2, <3>3 DEF ExecAt
  <2> QED
    BY <2>1, <2>2
<1>8. g = [s \in SUBSET (1 .. m) |-> g[s]]
  OBVIOUS
<1> HIDE DEF g
<1>9. Executes(w, b, cmds, g, 1 .. m)
  BY <1>7, <1>8 DEF Executes
<1> QED
  BY <1>2, <1>9

\* What is replayed does not depend on what comes after it.
LEMMA ExecutesAgree ==
  ASSUME NEW w, NEW b, NEW n \in Nat, NEW m \in Nat, n <= m, NEW p, NEW q,
         \A i \in 1 .. n : p[i] = q[i],
         NEW g, Executes(w, b, p, g, 1 .. n), NEW h, Executes(w, b, q, h, 1 .. m)
  PROVE  g[1 .. n] = h[1 .. n]
<1> DEFINE T == {k \in 0 .. n : g[1 .. k] # h[1 .. k]}
<1>1. SUFFICES ASSUME T # {} PROVE FALSE
  OBVIOUS
<1>2. PICK k \in T : \A j \in T : k <= j
  <2>1. T \in SUBSET Nat
    OBVIOUS
  <2> HIDE DEF T
  <2> QED
    BY <1>1, <2>1, LeastNumber
<1>3. k \in Nat /\ k <= n /\ g[1 .. k] # h[1 .. k]
  BY <1>2
<1>4. g[1 .. k] = ExecAt(w, b, p, g, 1 .. k) /\ h[1 .. k] = ExecAt(w, b, q, h, 1 .. k)
  <2>1. 1 .. k \in SUBSET (1 .. n) /\ 1 .. k \in SUBSET (1 .. m)
    BY <1>3
  <2> QED
    BY <2>1, ExecutesAt
<1>5. k # 0
  <2>1. ASSUME k = 0 PROVE 1 .. k = {}
    BY <2>1
  <2> QED
    BY <1>3, <1>4, <2>1 DEF ExecAt
<1>6. 1 .. k # {} /\ Max(1 .. k) = k /\ (1 .. k) \ {k} = 1 .. k - 1 /\ k \in 1 .. n
  <2>1. k \in Nat \ {0}
    BY <1>3, <1>5
  <2>2. Max(1 .. k) = k
    BY <2>1, MaxOfRange
  <2>3. k \in 1 .. k /\ k \in 1 .. n
    BY <1>3, <2>1
  <2>4. (1 .. k) \ {k} = 1 .. k - 1
    BY <2>1
  <2> QED
    BY <2>2, <2>3, <2>4
<1>7. g[1 .. k - 1] = h[1 .. k - 1]
  <2>1. k - 1 \in 0 .. n /\ ~(k <= k - 1)
    BY <1>3, <1>5
  <2> QED
    BY <1>2, <2>1
<1> QED
  BY <1>3, <1>4, <1>6, <1>7 DEF ExecAt

LEMMA FoldedNone == ASSUME NEW w, NEW b PROVE Folded(w, b, <<>>) = b
<1> DEFINE g == CHOOSE h : Executes(w, b, <<>>, h, 1 .. 0)
<1>1. DOMAIN <<>> = 1 .. 0
  OBVIOUS
<1>2. Executes(w, b, <<>>, g, 1 .. 0)
  BY ExecutesExist
<1>3. Folded(w, b, <<>>) = g[1 .. 0]
  BY <1>1 DEF Folded
<1> HIDE DEF g
<1>4. g[1 .. 0] = ExecAt(w, b, <<>>, g, 1 .. 0)
  BY <1>2, ExecutesAt
<1> QED
  BY <1>3, <1>4 DEF ExecAt

LEMMA FoldedAppend ==
  ASSUME NEW w, NEW b, NEW C, NEW cmds \in Seq(C), NEW c \in C
  PROVE  Folded(w, b, Append(cmds, c)) = Does(w, Folded(w, b, cmds), c)
<1> DEFINE n == Len(cmds)
           all == Append(cmds, c)
           g == CHOOSE f : Executes(w, b, cmds, f, 1 .. n)
           h == CHOOSE f : Executes(w, b, all, f, 1 .. n + 1)
<1>1. n \in Nat /\ DOMAIN cmds = 1 .. n
  BY LenProperties
<1>2. DOMAIN all = 1 .. n + 1 /\ all[n + 1] = c /\ \A i \in 1 .. n : cmds[i] = all[i]
  BY AppendProperties, LenProperties
<1> HIDE DEF n, all
<1>3. Executes(w, b, cmds, g, 1 .. n)
  BY <1>1, ExecutesExist
<1>4. Executes(w, b, all, h, 1 .. n + 1)
  BY <1>1, ExecutesExist
<1>5. Folded(w, b, cmds) = g[1 .. n] /\ Folded(w, b, all) = h[1 .. n + 1]
  BY <1>1, <1>2 DEF Folded
<1> HIDE DEF g, h
<1>6. g[1 .. n] = h[1 .. n]
  BY <1>1, <1>2, <1>3, <1>4, ExecutesAgree
<1>7. h[1 .. n + 1] = ExecAt(w, b, all, h, 1 .. n + 1)
  BY <1>1, <1>4, ExecutesAt
<1>8. 1 .. n + 1 # {} /\ Max(1 .. n + 1) = n + 1 /\ (1 .. n + 1) \ {n + 1} = 1 .. n
  <2>1. n + 1 \in Nat \ {0}
    BY <1>1
  <2>2. Max(1 .. n + 1) = n + 1
    BY <2>1, MaxOfRange
  <2> QED
    BY <1>1, <2>1, <2>2
<1>9. h[1 .. n + 1] = Does(w, h[1 .. n], all[n + 1])
  BY <1>7, <1>8 DEF ExecAt
<1> QED
  BY <1>2, <1>5, <1>6, <1>9 DEF all

LEMMA ReplayNone == ASSUME NEW regs PROVE Replay(<<>>, regs) = Base(regs)
BY ReplayIs, FoldedNone

LEMMA ReplayAppend ==
  ASSUME NEW C, NEW cmds \in Seq(C), NEW c \in C, NEW regs
  PROVE  Replay(Append(cmds, c), regs) = Exec(Replay(cmds, regs), c)
<1>1. \A x : Does("replay", x, c) = Exec(x, c)
  BY DEF Does
<1>2. Folded("replay", Base(regs), Append(cmds, c)) = Does("replay", Folded("replay", Base(regs), cmds), c)
  BY FoldedAppend
<1> QED
  BY <1>1, <1>2, ReplayIs

LEMMA WordsNone == WordsOf(<<>>) = 0
BY WordsIs, FoldedNone

LEMMA WordsAppend ==
  ASSUME NEW C, NEW cmds \in Seq(C), NEW c \in C
  PROVE  WordsOf(Append(cmds, c)) = WordsOf(cmds) + c.words
<1>1. \A x : Does("count", x, c) = x + c.words
  BY DEF Does
<1>2. Folded("count", 0, Append(cmds, c)) = Does("count", Folded("count", 0, cmds), c)
  BY FoldedAppend
<1> QED
  BY <1>1, <1>2, WordsIs

-----------------------------------------------------------------------------
(* One command.                                                              *)

AllBlocks == UNION {Blocks(k) : k \in Lanes}
RegsOK(h) == h \in [Lanes -> AllBlocks] /\ \A k \in Lanes : h[k] \in Blocks(k)
Runs == Lanes \X AllBlocks

Cmd == [op : {"start", "wait"}, lane : Lanes, words : Nat]
       \cup [op : {"regs"}, lane : Lanes, first : Nat, vals : Seq(Values), words : Nat]

State(regs, runs) == [regs |-> regs, runs |-> runs]

LEMMA LaneRegs ==
  ASSUME NEW k \in Lanes
  PROVE  RegWords[k] \in Nat /\ RegWords[k] > 0
BY RegsAssumption

\* One lane's block in place of another.
LEMMA BlockSet ==
  ASSUME NEW h, RegsOK(h), NEW k \in Lanes, NEW b \in Blocks(k)
  PROVE  RegsOK([h EXCEPT ![k] = b]) /\ [h EXCEPT ![k] = b][k] = b
BY DEF RegsOK, AllBlocks

LEMMA ExecStart ==
  ASSUME NEW regs, NEW runs, NEW k
  PROVE  Exec(State(regs, runs), StartCmd(k)) = State(regs, Append(runs, <<k, regs[k]>>))
BY DEF Exec, State, StartCmd

LEMMA ExecWait ==
  ASSUME NEW regs, NEW runs, NEW k
  PROVE  Exec(State(regs, runs), WaitCmd(k)) = State(regs, runs)
BY DEF Exec, State, WaitCmd

LEMMA ExecRegs ==
  ASSUME NEW regs, RegsOK(regs), NEW runs, NEW k \in Lanes, NEW v \in Blocks(k), NEW full,
         NEW f \in Nat, NEW l \in Nat, 1 <= f, f <= l, l <= RegWords[k]
  PROVE  Exec(State(regs, runs), RegsCmd(k, f, l, v, full)) =
           State([regs EXCEPT ![k] = [r \in Regs(k) |-> IF r \in f .. l THEN v[r] ELSE regs[k][r]]],
                 runs)
<1> DEFINE vals == [i \in 1 .. l - f + 1 |-> v[f + i - 1]]
           w == (IF full THEN 1 ELSE 2) + l - f + 1
           new == [r \in Regs(k) |-> IF r \in f .. l THEN v[r] ELSE regs[k][r]]
           got == [r \in Regs(k) |-> IF r \in f .. f + Len(vals) - 1 THEN vals[r - f + 1]
                                     ELSE regs[k][r]]
<1>1. Len(vals) = l - f + 1
  OBVIOUS
<1>2. f + Len(vals) - 1 = l
  BY <1>1
<1>3. \A r \in f .. l : vals[r - f + 1] = v[r]
  OBVIOUS
<1>4. got = new
  BY <1>2, <1>3
<1> DEFINE c == RegsCmd(k, f, l, v, full)
<1>5. c.op = "regs" /\ c.lane = k /\ c.first = f /\ c.vals = vals
  BY DEF RegsCmd
<1> HIDE DEF vals, c
<1>6. Exec(State(regs, runs), c) = [State(regs, runs) EXCEPT !.regs[k] = got]
  <2>1. State(regs, runs).regs = regs
    BY DEF State
  <2>2. Exec(State(regs, runs), c) =
          [State(regs, runs) EXCEPT !.regs[c.lane] =
             [r \in Regs(c.lane) |->
                IF r \in c.first .. c.first + Len(c.vals) - 1
                THEN c.vals[r - c.first + 1] ELSE @[r]]]
    BY <1>5 DEF Exec
  <2> QED
    BY <1>5, <2>1, <2>2
<1>7. [State(regs, runs) EXCEPT !.regs[k] = new] = State([regs EXCEPT ![k] = new], runs)
  BY DEF State
<1> QED
  BY <1>4, <1>6, <1>7 DEF c
LEMMA ExecType ==
  ASSUME NEW regs, RegsOK(regs), NEW runs, NEW c \in Cmd
  PROVE  \E h, u : Exec(State(regs, runs), c) = State(h, u) /\ RegsOK(h)
<1>1. CASE c.op = "start"
  <2>1. Exec(State(regs, runs), c) = State(regs, Append(runs, <<c.lane, regs[c.lane]>>))
    BY <1>1 DEF Exec, State
  <2> QED
    BY <2>1
<1>2. CASE c.op = "wait"
  <2>1. Exec(State(regs, runs), c) = State(regs, runs)
    BY <1>2 DEF Exec, State
  <2> QED
    BY <2>1
<1>3. CASE c.op = "regs"
  <2> DEFINE k == c.lane
             b == [r \in Regs(k) |-> IF r \in c.first .. c.first + Len(c.vals) - 1
                                     THEN c.vals[r - c.first + 1] ELSE regs[k][r]]
  <2>1. k \in Lanes /\ c.first \in Nat /\ c.vals \in Seq(Values)
    BY <1>3 DEF Cmd
  <2>2. b \in Blocks(k)
    <3>1. regs[k] \in [Regs(k) -> Values] /\ Regs(k) \subseteq Nat
      BY <2>1, LaneRegs DEF RegsOK, Blocks, Regs
    <3>2. ASSUME NEW r \in Nat, r \in c.first .. c.first + Len(c.vals) - 1
          PROVE  c.vals[r - c.first + 1] \in Values
      <4>1. Len(c.vals) \in Nat /\ \A i \in 1 .. Len(c.vals) : c.vals[i] \in Values
        BY <2>1, LenProperties, ElementOfSeq
      <4>2. r - c.first + 1 \in 1 .. Len(c.vals)
        BY <2>1, <3>2, <4>1
      <4> QED
        BY <4>1, <4>2
    <3> QED
      BY <3>1, <3>2 DEF Blocks
  <2>3. Exec(State(regs, runs), c) = State([regs EXCEPT ![k] = b], runs)
    <3>1. State(regs, runs).regs = regs
      BY DEF State
    <3>2. Exec(State(regs, runs), c) = [State(regs, runs) EXCEPT !.regs[k] = b]
      BY <1>3, <3>1 DEF Exec
    <3> HIDE DEF b
    <3> QED
      BY <3>2 DEF State
  <2> HIDE DEF b
  <2> QED
    BY <2>1, <2>2, <2>3, BlockSet
<1> QED
  BY <1>1, <1>2, <1>3 DEF Cmd

LEMMA ReplayType ==
  ASSUME NEW cmds \in Seq(Cmd), NEW regs, RegsOK(regs)
  PROVE  \E h, u : Replay(cmds, regs) = State(h, u) /\ RegsOK(h)
<1> DEFINE OK(s) == \E h, u : Replay(s, regs) = State(h, u) /\ RegsOK(h)
           T == {n \in Nat : \E s \in Seq(Cmd) : Len(s) = n /\ ~OK(s)}
<1>1. SUFFICES ASSUME T # {} PROVE FALSE
  <2>1. Len(cmds) \in Nat
    BY LenProperties
  <2> QED
    BY <2>1
<1>2. PICK n \in T : \A j \in T : n <= j
  <2>1. T \in SUBSET Nat
    OBVIOUS
  <2> HIDE DEF T
  <2> QED
    BY <1>1, <2>1, LeastNumber
<1>3. PICK s \in Seq(Cmd) : Len(s) = n /\ ~OK(s)
  BY <1>2
<1>4. s # <<>>
  BY <1>3, ReplayNone DEF Base, State
<1>5. PICK t \in Seq(Cmd), c \in Cmd : s = Append(t, c)
  BY <1>4, SequenceEmptyOrAppend
<1>6. Len(t) \in Nat /\ n = Len(t) + 1
  BY <1>3, <1>5, AppendProperties, LenProperties
<1>7. OK(t)
  BY <1>2, <1>6
<1>8. Replay(s, regs) = Exec(Replay(t, regs), c)
  BY <1>5, ReplayAppend
<1> QED
  BY <1>3, <1>7, <1>8, ExecType

LEMMA OneCmd ==
  ASSUME NEW k \in Lanes
  PROVE  StartCmd(k) \in Cmd /\ WaitCmd(k) \in Cmd
BY DEF StartCmd, WaitCmd, Cmd

LEMMA RegsOneCmd ==
  ASSUME NEW k \in Lanes, NEW v \in Blocks(k), NEW full \in BOOLEAN,
         NEW f \in Nat, NEW l \in Nat, 1 <= f, f <= l, l <= RegWords[k]
  PROVE  /\ RegsCmd(k, f, l, v, full) \in Cmd
         /\ RegsCmd(k, f, l, v, full).words = (IF full THEN 1 ELSE 2) + l - f + 1
<1> DEFINE vals == [i \in 1 .. l - f + 1 |-> v[f + i - 1]]
           w == (IF full THEN 1 ELSE 2) + l - f + 1
<1>1. \A i \in 1 .. l - f + 1 : f + i - 1 \in Regs(k)
  BY LaneRegs DEF Regs
<1>2. vals \in Seq(Values)
  BY <1>1 DEF Blocks
<1>3. w \in Nat
  OBVIOUS
<1>4. RegsCmd(k, f, l, v, full) =
        [op |-> "regs", lane |-> k, first |-> f, vals |-> vals, words |-> w]
  BY DEF RegsCmd
<1> HIDE DEF vals, w
<1>5. RegsCmd(k, f, l, v, full) \in Cmd /\ RegsCmd(k, f, l, v, full).words = w
  BY <1>2, <1>3, <1>4 DEF Cmd
<1> QED
  BY <1>5 DEF w

-----------------------------------------------------------------------------
(* The runs of changed registers.                                            *)

LEMMA HeadUpTo ==
  ASSUME NEW n \in Nat, NEW S \in SUBSET (1 .. n), NEW r \in S
  PROVE  \E h \in Heads(S) : h <= r /\ \A g \in Heads(S) : g <= r => g <= h
<1>1. PICK m \in S : \A x \in S : m <= x
  <2>1. S \in SUBSET Nat /\ S # {}
    OBVIOUS
  <2> QED
    BY <2>1, LeastNumber
<1>2. m \in Heads(S)
  BY <1>1 DEF Heads
<1> DEFINE T == {h \in Heads(S) : h <= r}
<1>3. T \in SUBSET (0 .. n) /\ T # {}
  <2>1. Heads(S) \subseteq S
    BY DEF Heads
  <2>2. T \subseteq S /\ m \in T
    BY <1>1, <1>2, <2>1
  <2> HIDE DEF T
  <2> QED
    BY <2>2
<1> HIDE DEF T
<1>4. PICK h \in T : \A g \in T : g <= h
  BY <1>3, GreatestNumber
<1> QED
  BY <1>4 DEF T

LEMMA LastOfIs ==
  ASSUME NEW n \in Nat, NEW S \in SUBSET (1 .. n), NEW h \in Heads(S)
  PROVE  /\ LastOf(S, h) \in S /\ LastOf(S, h) >= h
         /\ \A g \in Heads(S) : ~(h < g /\ g <= LastOf(S, h))
         /\ \A r \in S : r > LastOf(S, h) => \E g \in Heads(S) : h < g /\ g <= r
<1> DEFINE T == {x \in S : x >= h /\ ~\E g \in Heads(S) : h < g /\ g <= x}
<1>1. h \in S /\ Heads(S) \subseteq S
  BY DEF Heads
<1>2. T \in SUBSET (0 .. n) /\ T # {}
  <2>1. h \in Nat /\ ~\E g \in Heads(S) : h < g /\ g <= h
    BY <1>1
  <2>2. h \in T /\ T \subseteq S
    BY <1>1, <2>1
  <2> HIDE DEF T
  <2> QED
    BY <2>2
<1> HIDE DEF T
<1>3. PICK l \in T : \A x \in T : x <= l
  BY <1>2, GreatestNumber
<1>4. l \in S /\ l >= h /\ ~\E g \in Heads(S) : h < g /\ g <= l
  BY <1>3 DEF T
<1>5. ASSUME NEW r \in S, r > l PROVE \E g \in Heads(S) : h < g /\ g <= r
  BY <1>1, <1>3, <1>4, <1>5 DEF T
<1> QED
  BY <1>4, <1>5 DEF LastOf

LEMMA Ranks ==
  ASSUME NEW n \in Nat, NEW H \in SUBSET (1 .. n)
  PROVE  /\ IsFiniteSet(H) /\ Cardinality(H) \in Nat
         /\ \A h \in H : Cardinality({g \in H : g <= h}) \in 1 .. Cardinality(H)
         /\ \A h, x \in H : h < x =>
              Cardinality({g \in H : g <= h}) < Cardinality({g \in H : g <= x})
         /\ \A i \in 1 .. Cardinality(H) : \E h \in H : Cardinality({g \in H : g <= h}) = i
<1> DEFINE c(h) == Cardinality({g \in H : g <= h})
           N == Cardinality(H)
<1>1. IsFiniteSet(H) /\ N \in Nat
  <2>1. IsFiniteSet(1 .. n)
    BY FS_Interval
  <2> QED
    BY <2>1, FS_Subset, FS_CardinalityType
<1>2. ASSUME NEW h \in H PROVE c(h) \in 1 .. N
  <2> DEFINE U == {g \in H : g <= h}
  <2>1. U \in SUBSET H /\ U # {}
    OBVIOUS
  <2> HIDE DEF U
  <2>2. IsFiniteSet(U) /\ Cardinality(U) <= N /\ Cardinality(U) \in Nat /\ Cardinality(U) # 0
    BY <1>1, <2>1, FS_Subset, FS_CardinalityType, FS_EmptySet
  <2>3. Cardinality(U) \in 1 .. N
    BY <1>1, <2>2
  <2> QED
    BY <2>3 DEF U
<1>3. ASSUME NEW h \in H, NEW x \in H, h < x PROVE c(h) < c(x)
  <2> DEFINE U == {g \in H : g <= h}
             V == {g \in H : g <= x}
  <2>1. U \in SUBSET V /\ U # V /\ V \in SUBSET H
    <3>1. h \in Nat /\ x \in Nat /\ H \in SUBSET Nat
      OBVIOUS
    <3>2. x \in V /\ x \notin U
      BY <1>3, <3>1
    <3>3. \A g \in H : g <= h => g <= x
      BY <1>3, <3>1
    <3> QED
      BY <3>2, <3>3
  <2> HIDE DEF U, V
  <2>2. IsFiniteSet(V) /\ IsFiniteSet(U)
    BY <1>1, <2>1, FS_Subset
  <2>3. Cardinality(U) <= Cardinality(V) /\ Cardinality(U) # Cardinality(V)
        /\ Cardinality(U) \in Nat /\ Cardinality(V) \in Nat
    BY <2>1, <2>2, FS_Subset, FS_CardinalityType
  <2>4. Cardinality(U) < Cardinality(V)
    BY <2>3
  <2> QED
    BY <2>4 DEF U, V
<1>4. ASSUME NEW i \in 1 .. N PROVE \E h \in H : c(h) = i
  <2> DEFINE f == [h \in H |-> c(h)]
  <2>1. \A h \in H : f[h] = c(h)
    OBVIOUS
  <2>2. f \in [H -> 1 .. N]
    BY <1>2
  <2>3. ASSUME NEW h \in H, NEW x \in H, f[h] = f[x] PROVE h = x
    <3>1. h \in Nat /\ x \in Nat /\ c(h) = c(x) /\ c(h) \in 1 .. N /\ c(x) \in 1 .. N
      BY <1>2, <2>1, <2>3
    <3>2. ~(c(h) < c(x)) /\ ~(c(x) < c(h))
      <4> HIDE DEF c
      <4> QED
        BY <1>1, <3>1
    <3>3. ~(h < x) /\ ~(x < h)
      <4> HIDE DEF c
      <4> QED
        BY <1>3, <3>2
    <3> QED
      BY <3>1, <3>3
  <2> HIDE DEF f
  <2>4. f \in Injection(H, 1 .. N)
    BY <2>2, <2>3 DEF Injection, IsInjective
  <2>5. IsFiniteSet(1 .. N) /\ Cardinality(1 .. N) = N
    BY <1>1, FS_Interval
  <2>6. f \in Surjection(H, 1 .. N)
    BY <2>4, <2>5, FS_Injection
  <2>7. PICK h \in H : f[h] = i
    BY <2>6 DEF Surjection
  <2> QED
    BY <2>1, <2>7
<1> QED
  BY <1>1, <1>2, <1>3, <1>4

LEMMA NthHeadIs ==
  ASSUME NEW n \in Nat, NEW S \in SUBSET (1 .. n), NEW i \in 1 .. Cardinality(Heads(S))
  PROVE  NthHead(S, i) \in Heads(S) /\ Cardinality({g \in Heads(S) : g <= NthHead(S, i)}) = i
<1>1. Heads(S) \in SUBSET (1 .. n)
  BY DEF Heads
<1>2. \E h \in Heads(S) : Cardinality({g \in Heads(S) : g <= h}) = i
  BY <1>1, Ranks
<1> QED
  BY <1>2 DEF NthHead

\* What the recording needs of the runs: in order, apart, and none left out.
Splits(segs, N, n, S) ==
  /\ N \in Nat /\ DOMAIN segs = 1 .. N /\ Len(segs) = N
  /\ \A i \in 1 .. N : /\ segs[i].first \in 1 .. n /\ segs[i].last \in 1 .. n
                       /\ segs[i].first <= segs[i].last
  /\ \A i, j \in 1 .. N : i < j => segs[i].last + MaxGap + 1 < segs[j].first
  /\ \A r \in S : \E i \in 1 .. N : segs[i].first <= r /\ r <= segs[i].last

LEMMA SegmentsSplit ==
  ASSUME NEW n \in Nat, NEW S \in SUBSET (1 .. n)
  PROVE  \E N : Splits(Segments(S), N, n, S)
<1> DEFINE H == Heads(S)
           N == Cardinality(H)
           up(h) == Cardinality({g \in H : g <= h})
           nth(i) == NthHead(S, i)
           segs == Segments(S)
<1>1. H \in SUBSET (1 .. n) /\ H \in SUBSET S
  BY DEF Heads
<1>a. \A r \in S : r \in Nat
  OBVIOUS
<1>2. /\ IsFiniteSet(H) /\ N \in Nat
      /\ \A h \in H : up(h) \in 1 .. N
      /\ \A h, x \in H : h < x => up(h) < up(x)
  <2> HIDE DEF H
  <2> QED
    BY <1>1, Ranks
<1>3. \A i \in 1 .. N : nth(i) \in H /\ up(nth(i)) = i
  BY NthHeadIs
<1>4. /\ DOMAIN segs = 1 .. N
      /\ \A i \in 1 .. N : segs[i].first = nth(i) /\ segs[i].last = LastOf(S, nth(i))
  BY DEF Segments
<1>5. Len(segs) = N
  <2>1. segs = [i \in 1 .. N |-> [first |-> nth(i), last |-> LastOf(S, nth(i))]]
    BY DEF Segments
  <2> HIDE DEF N, nth
  <2> QED
    BY <1>2, <2>1
<1> DEFINE lst(h) == LastOf(S, h)
<1>6. \A h \in H : /\ lst(h) \in S /\ lst(h) >= h
                   /\ \A g \in H : ~(h < g /\ g <= lst(h))
                   /\ \A r \in S : r > lst(h) => \E g \in H : h < g /\ g <= r
  BY LastOfIs
<1>7. \A r \in S : \E h \in H : h <= r /\ \A g \in H : g <= r => g <= h
  BY HeadUpTo
<1>8. \A h \in H, q \in S : q < h => q + MaxGap + 1 < h
  BY DEF Heads
<1> HIDE DEF H, N, up, nth, segs, lst
<1>9. ASSUME NEW i \in 1 .. N
      PROVE  /\ segs[i].first \in 1 .. n /\ segs[i].last \in 1 .. n
             /\ segs[i].first <= segs[i].last
  <2>1. segs[i].first = nth(i) /\ segs[i].last = lst(nth(i)) /\ nth(i) \in H
    BY <1>3, <1>4 DEF lst
  <2>2. lst(nth(i)) \in S /\ lst(nth(i)) >= nth(i)
    BY <1>6, <2>1
  <2>3. nth(i) \in 1 .. n /\ lst(nth(i)) \in 1 .. n
    BY <1>1, <2>1, <2>2
  <2> QED
    BY <2>1, <2>2, <2>3
<1>10. ASSUME NEW i \in 1 .. N, NEW j \in 1 .. N, i < j
       PROVE  segs[i].last + MaxGap + 1 < segs[j].first
  <2>1. /\ segs[i].last = lst(nth(i)) /\ nth(i) \in H /\ up(nth(i)) = i
        /\ segs[j].first = nth(j) /\ nth(j) \in H /\ up(nth(j)) = j
    BY <1>3, <1>4 DEF lst
  <2>2. nth(i) \in Nat /\ nth(j) \in Nat
    <3>1. nth(i) \in S /\ nth(j) \in S
      BY <1>1, <2>1
    <3> QED
      BY <1>a, <3>1
  <2>3. ~(nth(j) < nth(i)) /\ nth(i) # nth(j)
    <3>1. nth(j) < nth(i) => j < i
      BY <1>2, <2>1
    <3> QED
      BY <1>10, <2>1, <2>2, <3>1
  <2>4. nth(i) < nth(j)
    BY <2>2, <2>3
  <2>5. lst(nth(i)) \in S /\ ~(nth(j) <= lst(nth(i)))
    BY <1>6, <2>1, <2>4
  <2>6. lst(nth(i)) < nth(j)
    <3>1. lst(nth(i)) \in Nat
      BY <1>a, <2>5
    <3> QED
      BY <2>2, <2>5, <3>1
  <2> QED
    BY <1>8, <2>1, <2>5, <2>6
<1>11. ASSUME NEW r \in S
       PROVE  \E i \in 1 .. N : segs[i].first <= r /\ r <= segs[i].last
  <2>1. PICK h \in H : h <= r /\ \A g \in H : g <= r => g <= h
    BY <1>7
  <2>2. up(h) \in 1 .. N
    BY <1>2
  <2> DEFINE i == up(h)
  <2>3. nth(i) = h
    <3>1. nth(i) \in H /\ up(nth(i)) = up(h)
      BY <1>3, <2>2
    <3>2. ~(nth(i) < h) /\ ~(h < nth(i))
      <4>1. up(h) \in Nat
        BY <2>2
      <4> QED
        BY <1>2, <3>1, <4>1
    <3>3. nth(i) \in Nat /\ h \in Nat
      BY <1>1, <1>a, <3>1
    <3> HIDE DEF i
    <3> QED
      BY <3>2, <3>3
  <2>4. r <= lst(h)
    <3>1. lst(h) \in Nat /\ r \in Nat
      BY <1>a, <1>6
    <3>2. ~(r > lst(h))
      <4>1. \A g \in H : g <= r => ~(h < g)
        BY <1>1, <2>1
      <4> QED
        BY <1>6, <4>1
    <3> QED
      BY <3>1, <3>2
  <2>5. segs[i].first = h /\ segs[i].last = lst(h)
    BY <1>4, <2>2, <2>3 DEF lst
  <2> QED
    BY <2>1, <2>2, <2>4, <2>5
<1>12. Splits(segs, N, n, S)
  BY <1>2, <1>4, <1>5, <1>9, <1>10, <1>11 DEF Splits
<1> QED
  BY <1>12 DEF segs

-----------------------------------------------------------------------------
(* What a Start records.                                                      *)

LEMMA CatAppend ==
  ASSUME NEW C, NEW s \in Seq(C), NEW t \in Seq(C), NEW c \in C
  PROVE  s \o Append(t, c) = Append(s \o t, c)
<1>1. Append(t, c) = t \o <<c>> /\ <<c>> \in Seq(C)
  BY AppendIsConcat
<1>2. s \o t \in Seq(C)
  BY ConcatProperties
<1>3. Append(s \o t, c) = (s \o t) \o <<c>>
  BY <1>2, AppendIsConcat
<1>4. (s \o t) \o <<c>> = s \o (t \o <<c>>)
  BY <1>1, ConcatAssociative
<1> QED
  BY <1>1, <1>3, <1>4

LEMMA PrefixAppend ==
  ASSUME NEW C, NEW s \in Seq(C), NEW t \in Seq(C), NEW i \in Nat, i + 1 <= Len(t)
  PROVE  /\ s \o SubSeq(t, 1, i) \in Seq(C) /\ t[i + 1] \in C
         /\ s \o SubSeq(t, 1, i + 1) = Append(s \o SubSeq(t, 1, i), t[i + 1])
<1>1. Len(t) \in Nat /\ \A j \in 1 .. Len(t) : t[j] \in C
  BY LenProperties, ElementOfSeq
<1>2. i + 1 \in 1 .. Len(t) /\ \A j \in 1 .. i : j \in 1 .. Len(t)
  BY <1>1
<1> DEFINE p == SubSeq(t, 1, i)
           q == SubSeq(t, 1, i + 1)
<1>3. p \in Seq(C) /\ t[i + 1] \in C
  BY <1>1, <1>2, SubSeqProperties
<1>4. q = p \o <<t[i + 1]>>
  <2> DEFINE j == i + 1
  <2>1. 1 \in 1 .. Len(t) /\ j \in 1 .. Len(t) /\ j - 1 = i
    BY <1>1, <1>2
  <2>2. SubSeq(t, 1, j) = SubSeq(t, 1, j - 1) \o <<t[j]>>
    <3> HIDE DEF j
    <3> QED
      BY <2>1, SubSeqRecursiveSecond
  <2> QED
    BY <2>1, <2>2
<1>5. Append(p, t[i + 1]) = p \o <<t[i + 1]>>
  BY <1>3, AppendIsConcat
<1> HIDE DEF p, q
<1>6. s \o p \in Seq(C)
  BY <1>3, ConcatProperties
<1>7. s \o q = Append(s \o p, t[i + 1])
  BY <1>3, <1>4, <1>5, CatAppend
<1> QED
  BY <1>3, <1>6, <1>7 DEF p, q

LEMMA WordsType == ASSUME NEW cmds \in Seq(Cmd) PROVE WordsOf(cmds) \in Nat
<1> DEFINE T == {n \in Nat : \E s \in Seq(Cmd) : Len(s) = n /\ WordsOf(s) \notin Nat}
<1>1. SUFFICES ASSUME T # {} PROVE FALSE
  <2>1. Len(cmds) \in Nat
    BY LenProperties
  <2> QED
    BY <2>1
<1>2. PICK n \in T : \A j \in T : n <= j
  <2>1. T \in SUBSET Nat
    OBVIOUS
  <2> HIDE DEF T
  <2> QED
    BY <1>1, <2>1, LeastNumber
<1>3. PICK s \in Seq(Cmd) : Len(s) = n /\ WordsOf(s) \notin Nat
  BY <1>2
<1>4. s # <<>>
  BY <1>3, WordsNone
<1>5. PICK t \in Seq(Cmd), c \in Cmd : s = Append(t, c)
  BY <1>4, SequenceEmptyOrAppend
<1>6. Len(t) \in Nat /\ n = Len(t) + 1
  BY <1>3, <1>5, AppendProperties, LenProperties
<1>7. WordsOf(t) \in Nat
  BY <1>2, <1>6
<1>8. WordsOf(s) = WordsOf(t) + c.words /\ c.words \in Nat
  BY <1>5, WordsAppend DEF Cmd
<1> QED
  BY <1>3, <1>7, <1>8

Adds(rec, cmds) == WordsOf(rec \o cmds) = WordsOf(rec) + WordsOf(cmds)

LEMMA WordsCat ==
  ASSUME NEW rec \in Seq(Cmd), NEW cmds \in Seq(Cmd)
  PROVE  WordsOf(rec \o cmds) = WordsOf(rec) + WordsOf(cmds)
<1> DEFINE T == {n \in Nat : \E s \in Seq(Cmd) : Len(s) = n /\ ~Adds(rec, s)}
<1>1. SUFFICES ASSUME T # {} PROVE FALSE
  <2>1. Len(cmds) \in Nat
    BY LenProperties
  <2> HIDE DEF T
  <2>2. Adds(rec, cmds)
    BY <2>1 DEF T
  <2> QED
    BY <2>2 DEF Adds
<1>2. PICK n \in T : \A j \in T : n <= j
  <2>1. T \in SUBSET Nat
    OBVIOUS
  <2> HIDE DEF T
  <2> QED
    BY <1>1, <2>1, LeastNumber
<1>3. PICK s \in Seq(Cmd) : Len(s) = n /\ ~Adds(rec, s)
  BY <1>2
<1>4. s # <<>>
  <2>1. rec \o <<>> = rec /\ WordsOf(rec) \in Nat
    BY ConcatEmptySeq, WordsType
  <2>2. Adds(rec, <<>>)
    BY <2>1, WordsNone DEF Adds
  <2> QED
    BY <1>3, <2>2
<1>5. PICK t \in Seq(Cmd), c \in Cmd : s = Append(t, c)
  BY <1>4, SequenceEmptyOrAppend
<1>6. Len(t) \in Nat /\ n = Len(t) + 1
  BY <1>3, <1>5, AppendProperties, LenProperties
<1>7. Adds(rec, t)
  <2>1. Len(t) \notin T
    <3> HIDE DEF T
    <3>1. n \in Nat
      BY <1>2 DEF T
    <3> QED
      BY <1>2, <1>6, <3>1
  <2> QED
    BY <1>6, <2>1
<1>8. rec \o s = Append(rec \o t, c) /\ rec \o t \in Seq(Cmd)
  BY <1>5, CatAppend, ConcatProperties
<1>9. WordsOf(rec \o s) = WordsOf(rec \o t) + c.words /\ WordsOf(s) = WordsOf(t) + c.words
  BY <1>5, <1>8, WordsAppend
<1>10. WordsOf(rec) \in Nat /\ WordsOf(t) \in Nat /\ c.words \in Nat
  BY WordsType DEF Cmd
<1> QED
  BY <1>3, <1>7, <1>9, <1>10 DEF Adds

\* A lane's registers once the first i runs of v were written over old.
Delivered(segs, i, k, v, old) ==
  [r \in Regs(k) |-> IF \E j \in 1 .. i : segs[j].first <= r /\ r <= segs[j].last
                     THEN v[r] ELSE old[r]]

RunCmds(segs, N, k, v) ==
  [i \in 1 .. N |-> RegsCmd(k, segs[i].first, segs[i].last, v, FALSE)]

Sized(cmds, segs, N) ==
  /\ cmds \in Seq(Cmd) /\ Len(cmds) = N
  /\ \A i \in 1 .. N : cmds[i].words = segs[i].last - segs[i].first + 3

LEMMA RunCmdsType ==
  ASSUME NEW k \in Lanes, NEW v \in Blocks(k), NEW segs, NEW N, NEW S,
         Splits(segs, N, RegWords[k], S)
  PROVE  Sized(RunCmds(segs, N, k, v), segs, N)
<1> DEFINE cmds == RunCmds(segs, N, k, v)
<1>1. N \in Nat
  BY DEF Splits
<1>2. ASSUME NEW i \in 1 .. N
      PROVE  /\ RegsCmd(k, segs[i].first, segs[i].last, v, FALSE) \in Cmd
             /\ RegsCmd(k, segs[i].first, segs[i].last, v, FALSE).words
                  = segs[i].last - segs[i].first + 3
  <2>1. /\ segs[i].first \in 1 .. RegWords[k] /\ segs[i].last \in 1 .. RegWords[k]
        /\ segs[i].first <= segs[i].last
    BY DEF Splits
  <2> DEFINE f == segs[i].first
             l == segs[i].last
  <2>2. f \in Nat /\ l \in Nat /\ 1 <= f /\ f <= l /\ l <= RegWords[k]
    BY <2>1, LaneRegs
  <2> HIDE DEF f, l
  <2>3. /\ RegsCmd(k, f, l, v, FALSE) \in Cmd
        /\ RegsCmd(k, f, l, v, FALSE).words = (IF FALSE THEN 1 ELSE 2) + l - f + 1
    BY <2>2, RegsOneCmd
  <2> DEFINE c == RegsCmd(k, f, l, v, FALSE)
  <2>4. c \in Cmd /\ c.words = 2 + l - f + 1
    BY <2>3
  <2> HIDE DEF c
  <2>5. c.words = l - f + 3
    BY <2>2, <2>4
  <2> QED
    BY <2>4, <2>5 DEF f, l, c
<1>3. \A i \in 1 .. N : cmds[i] = RegsCmd(k, segs[i].first, segs[i].last, v, FALSE)
  BY DEF RunCmds
<1>4. cmds \in [1 .. N -> Cmd]
  BY <1>2 DEF RunCmds
<1> HIDE DEF cmds
<1>5. cmds \in Seq(Cmd) /\ Len(cmds) = N
  BY <1>1, <1>4
<1> QED
  BY <1>2, <1>3, <1>5 DEF cmds, Sized

\* The runs up to i take no more words than the last of them has registers before it.
Within(segs, i, w) == w <= (IF i = 0 THEN 0 ELSE segs[i].last + 2)

LEMMA RunWords ==
  ASSUME NEW k \in Lanes, NEW v \in Blocks(k), NEW segs, NEW N, NEW S,
         Splits(segs, N, RegWords[k], S)
  PROVE  WordsOf(RunCmds(segs, N, k, v)) <= RegWords[k] + 2
<1> DEFINE cmds == RunCmds(segs, N, k, v)
           pre(i) == <<>> \o SubSeq(cmds, 1, i)
           T == {i \in 0 .. N : ~Within(segs, i, WordsOf(pre(i)))}
<1>1. N \in Nat /\ RegWords[k] \in Nat
  BY LaneRegs DEF Splits
<1>2. /\ cmds \in Seq(Cmd) /\ Len(cmds) = N
      /\ \A i \in 1 .. N : cmds[i].words = segs[i].last - segs[i].first + 3
  <2>1. Sized(RunCmds(segs, N, k, v), segs, N)
    BY RunCmdsType
  <2> HIDE DEF cmds
  <2> QED
    BY <2>1 DEF cmds, Sized
<1>3. <<>> \in Seq(Cmd)
  BY EmptySeq
<1> HIDE DEF cmds
<1>4. T = {}
  <2>1. SUFFICES ASSUME T # {} PROVE FALSE
    OBVIOUS
  <2>2. PICK i \in T : \A j \in T : i <= j
    <3>1. T \in SUBSET Nat
      OBVIOUS
    <3> HIDE DEF T
    <3> QED
      BY <2>1, <3>1, LeastNumber
  <2>3. i \in 0 .. N /\ ~Within(segs, i, WordsOf(pre(i)))
    BY <2>2
  <2>4. i # 0
    <3>1. SubSeq(cmds, 1, 0) = <<>>
      BY SubSeqEmpty
    <3>2. WordsOf(pre(0)) = 0
      BY <1>3, <3>1, ConcatEmptySeq, WordsNone
    <3>3. Within(segs, 0, WordsOf(pre(0)))
      BY <3>2 DEF Within
    <3> QED
      BY <2>3, <3>3
  <2> DEFINE j == i - 1
  <2>5. j \in Nat /\ j \in 0 .. N /\ j + 1 = i /\ i \in 1 .. N /\ i \in Nat
    BY <1>1, <2>3, <2>4
  <2>6. Within(segs, j, WordsOf(pre(j)))
    <3>1. ~(i <= j)
      BY <2>5
    <3> HIDE DEF j
    <3>2. j \notin T
      BY <2>2, <3>1
    <3> QED
      BY <2>5, <3>2
  <2>7. /\ pre(j) \in Seq(Cmd) /\ cmds[i] \in Cmd
        /\ pre(i) = Append(pre(j), cmds[i])
    <3>1. j + 1 <= Len(cmds)
      BY <1>1, <1>2, <2>5
    <3>2. /\ <<>> \o SubSeq(cmds, 1, j) \in Seq(Cmd) /\ cmds[j + 1] \in Cmd
          /\ <<>> \o SubSeq(cmds, 1, j + 1)
               = Append(<<>> \o SubSeq(cmds, 1, j), cmds[j + 1])
      <4> HIDE DEF j
      <4> QED
        BY <1>2, <1>3, <2>5, <3>1, PrefixAppend
    <3> HIDE DEF j
    <3> QED
      BY <2>5, <3>2
  <2>8. /\ WordsOf(pre(i)) = WordsOf(pre(j)) + cmds[i].words
        /\ WordsOf(pre(j)) \in Nat
    <3> HIDE DEF j, pre
    <3> QED
      BY <2>7, WordsAppend, WordsType
  <2>9. cmds[i].words = segs[i].last - segs[i].first + 3
    BY <1>2, <2>5
  <2>10. segs[i].first \in Nat /\ segs[i].last \in Nat /\ segs[i].first >= 1
    BY <1>1, <2>5 DEF Splits
  <2>11. j # 0 => segs[j].last \in Nat /\ segs[j].last + 3 < segs[i].first
    <3>1. SUFFICES ASSUME j # 0
                   PROVE segs[j].last \in Nat /\ segs[j].last + 3 < segs[i].first
      OBVIOUS
    <3>2. j \in 1 .. N /\ j < i
      BY <1>1, <2>5, <3>1
    <3> HIDE DEF j
    <3>3. segs[j].last \in 1 .. RegWords[k] /\ segs[j].last + MaxGap + 1 < segs[i].first
      BY <2>5, <3>2 DEF Splits
    <3> QED
      BY <1>1, <2>10, <3>3 DEF MaxGap
  <2> DEFINE wi == WordsOf(pre(i))
             wj == WordsOf(pre(j))
             ci == cmds[i].words
             li == segs[i].last
             fi == segs[i].first
             lj == segs[j].last
  <2>12. /\ wi = wj + ci /\ wj \in Nat /\ ci = li - fi + 3 /\ fi \in Nat /\ li \in Nat /\ fi >= 1
         /\ (j # 0 => lj \in Nat /\ lj + 3 < fi)
         /\ wj <= (IF j = 0 THEN 0 ELSE lj + 2) /\ ~(wi <= li + 2)
    BY <2>3, <2>4, <2>6, <2>8, <2>9, <2>10, <2>11 DEF Within
  <2> HIDE DEF wi, wj, ci, li, fi, lj, j
  <2> QED
    BY <2>12
<1>5. pre(N) = cmds
  BY <1>2, <1>3, SubSeqFull, ConcatEmptySeq
<1>6. Within(segs, N, WordsOf(cmds))
  <2>1. N \in 0 .. N /\ N \notin T
    BY <1>1, <1>4
  <2> QED
    BY <1>5, <2>1
<1>7. N # 0 => segs[N].last \in Nat /\ segs[N].last <= RegWords[k]
  BY <1>1 DEF Splits
<1>8. WordsOf(cmds) \in Nat
  BY <1>2, WordsType
<1>9. WordsOf(cmds) <= RegWords[k] + 2
  BY <1>1, <1>6, <1>7, <1>8 DEF Within
<1> QED
  BY <1>9 DEF cmds

LEMMA DeliveredBlock ==
  ASSUME NEW k \in Lanes, NEW v \in Blocks(k), NEW old \in Blocks(k), NEW segs, NEW i
  PROVE  Delivered(segs, i, k, v, old) \in Blocks(k)
BY DEF Delivered, Blocks

LEMMA DeliveredNone ==
  ASSUME NEW k \in Lanes, NEW v \in Blocks(k), NEW old \in Blocks(k), NEW segs
  PROVE  Delivered(segs, 0, k, v, old) = old
<1>1. ~\E j \in 1 .. 0 : TRUE
  OBVIOUS
<1>2. Delivered(segs, 0, k, v, old) = [r \in Regs(k) |-> old[r]]
  BY <1>1 DEF Delivered
<1> QED
  BY <1>2 DEF Blocks

LEMMA DeliveredNext ==
  ASSUME NEW k \in Lanes, NEW v \in Blocks(k), NEW old \in Blocks(k), NEW segs, NEW j \in Nat,
         NEW f \in Nat, NEW l \in Nat, segs[j + 1].first = f, segs[j + 1].last = l
  PROVE  Delivered(segs, j + 1, k, v, old)
           = [r \in Regs(k) |-> IF r \in f .. l THEN v[r] ELSE Delivered(segs, j, k, v, old)[r]]
<1> DEFINE in(i, r) == segs[i].first <= r /\ r <= segs[i].last
           d == Delivered(segs, j, k, v, old)
<1>1. \A r \in Regs(k) : r \in Nat
  BY LaneRegs DEF Regs
<1>2. ASSUME NEW r \in Regs(k)
      PROVE  (\E i \in 1 .. j + 1 : in(i, r)) <=> (r \in f .. l \/ \E i \in 1 .. j : in(i, r))
  <2>1. in(j + 1, r) <=> r \in f .. l
    BY <1>1
  <2>2. 1 .. j + 1 = (1 .. j) \cup {j + 1}
    OBVIOUS
  <2> HIDE DEF in
  <2> QED
    BY <2>1, <2>2
<1>3. \A r \in Regs(k) : d[r] = IF \E i \in 1 .. j : in(i, r) THEN v[r] ELSE old[r]
  BY DEF Delivered
<1>4. Delivered(segs, j + 1, k, v, old)
        = [r \in Regs(k) |-> IF \E i \in 1 .. j + 1 : in(i, r) THEN v[r] ELSE old[r]]
  BY DEF Delivered
<1> HIDE DEF in, d
<1>5. \A r \in Regs(k) : (IF \E i \in 1 .. j + 1 : in(i, r) THEN v[r] ELSE old[r])
                         = (IF r \in f .. l THEN v[r] ELSE d[r])
  BY <1>2, <1>3
<1>6. Delivered(segs, j + 1, k, v, old) = [r \in Regs(k) |-> IF r \in f .. l THEN v[r] ELSE d[r]]
  BY <1>4, <1>5
<1> QED
  BY <1>6 DEF d

\* Sending what changed is sending everything.
LEMMA DeliveredAll ==
  ASSUME NEW k \in Lanes, NEW v \in Blocks(k), NEW old \in Blocks(k), NEW segs, NEW N,
         Splits(segs, N, RegWords[k], {r \in Regs(k) : v[r] # old[r]})
  PROVE  Delivered(segs, N, k, v, old) = v
<1>1. \A r \in Regs(k) : v[r] # old[r] =>
        \E i \in 1 .. N : segs[i].first <= r /\ r <= segs[i].last
  BY DEF Splits
<1>2. Delivered(segs, N, k, v, old) = [r \in Regs(k) |-> v[r]]
  BY <1>1 DEF Delivered
<1> QED
  BY <1>2 DEF Blocks

\* cmds, after rec, leave b in lane k's registers and nothing else changed.
Puts(rec, cmds, regs, k, b, h, u) ==
  Replay(rec \o cmds, regs) = State([h EXCEPT ![k] = b], u)

LEMMA RunsReplay ==
  ASSUME NEW k \in Lanes, NEW v \in Blocks(k), NEW segs, NEW N, NEW S,
         Splits(segs, N, RegWords[k], S),
         NEW rec \in Seq(Cmd), NEW regs, NEW h, RegsOK(h), NEW u, Replay(rec, regs) = State(h, u)
  PROVE  Puts(rec, RunCmds(segs, N, k, v), regs, k, Delivered(segs, N, k, v, h[k]), h, u)
<1> DEFINE cmds == RunCmds(segs, N, k, v)
           pre(i) == rec \o SubSeq(cmds, 1, i)
           del(i) == Delivered(segs, i, k, v, h[k])
           OK(i) == Replay(pre(i), regs) = State([h EXCEPT ![k] = del(i)], u)
           T == {i \in 0 .. N : ~OK(i)}
<1>1. N \in Nat /\ RegWords[k] \in Nat /\ h[k] \in Blocks(k)
  BY LaneRegs DEF Splits, RegsOK
<1>2. cmds \in Seq(Cmd) /\ Len(cmds) = N
  <2>1. Sized(RunCmds(segs, N, k, v), segs, N)
    BY RunCmdsType
  <2> QED
    BY <2>1 DEF Sized
<1>3. \A i \in 1 .. N : cmds[i] = RegsCmd(k, segs[i].first, segs[i].last, v, FALSE)
  BY DEF RunCmds
<1>a. \A i \in 0 .. N : del(i) \in Blocks(k)
  BY <1>1, DeliveredBlock
<1>b. del(0) = h[k]
  BY <1>1, DeliveredNone
<1> HIDE DEF cmds, del
<1>4. T = {}
  <2>1. SUFFICES ASSUME T # {} PROVE FALSE
    OBVIOUS
  <2>2. PICK i \in T : \A j \in T : i <= j
    <3>1. T \in SUBSET Nat
      OBVIOUS
    <3> HIDE DEF T
    <3> QED
      BY <2>1, <3>1, LeastNumber
  <2>3. i \in 0 .. N /\ ~OK(i)
    BY <2>2
  <2>4. i # 0
    <3>1. SubSeq(cmds, 1, 0) = <<>>
      BY SubSeqEmpty
    <3>2. pre(0) = rec
      BY <3>1, ConcatEmptySeq
    <3>3. [h EXCEPT ![k] = del(0)] = h
      BY <1>b DEF RegsOK
    <3>4. OK(0)
      <4> HIDE DEF pre
      <4> QED
        BY <3>2, <3>3
    <3> HIDE DEF OK
    <3> QED
      BY <2>3, <3>4
  <2> DEFINE j == i - 1
  <2>5. j \in Nat /\ j \in 0 .. N /\ j + 1 = i /\ i \in 1 .. N /\ i \in Nat
    BY <1>1, <2>3, <2>4
  <2>6. OK(j)
    <3>1. ~(i <= j)
      BY <2>5
    <3> HIDE DEF j, OK
    <3>2. j \notin T
      BY <2>2, <3>1
    <3> QED
      BY <2>5, <3>2
  <2>7. /\ pre(j) \in Seq(Cmd) /\ cmds[i] \in Cmd
        /\ pre(i) = Append(pre(j), cmds[i])
    <3>1. j + 1 <= Len(cmds)
      BY <1>1, <1>2, <2>5
    <3>2. /\ rec \o SubSeq(cmds, 1, j) \in Seq(Cmd) /\ cmds[j + 1] \in Cmd
          /\ rec \o SubSeq(cmds, 1, j + 1)
               = Append(rec \o SubSeq(cmds, 1, j), cmds[j + 1])
      <4> HIDE DEF j
      <4> QED
        BY <1>2, <2>5, <3>1, PrefixAppend
    <3> HIDE DEF j
    <3> QED
      BY <2>5, <3>2
  <2> DEFINE f == segs[i].first
             l == segs[i].last
             new == [h EXCEPT ![k] = del(j)]
  <2>8. f \in Nat /\ l \in Nat /\ 1 <= f /\ f <= l /\ l <= RegWords[k]
    <3>1. f \in 1 .. RegWords[k] /\ l \in 1 .. RegWords[k] /\ f <= l
      BY <2>5 DEF Splits
    <3> HIDE DEF f, l
    <3> QED
      BY <1>1, <3>1
  <2>9. cmds[i] = RegsCmd(k, f, l, v, FALSE)
    BY <1>3, <2>5
  <2>10. del(i) = [r \in Regs(k) |-> IF r \in f .. l THEN v[r] ELSE del(j)[r]]
    <3>1. segs[j + 1].first = f /\ segs[j + 1].last = l
      BY <2>5
    <3>2. Delivered(segs, j + 1, k, v, h[k])
           = [r \in Regs(k) |-> IF r \in f .. l THEN v[r] ELSE Delivered(segs, j, k, v, h[k])[r]]
      <4> HIDE DEF j, f, l
      <4> QED
        BY <1>1, <2>5, <2>8, <3>1, DeliveredNext
    <3> HIDE DEF j
    <3> QED
      BY <2>5, <3>2 DEF del
  <2>11. RegsOK(new) /\ new[k] = del(j)
    <3> HIDE DEF j
    <3> QED
      BY <1>a, <2>5, BlockSet
  <2>12. Replay(pre(i), regs) = Exec(State(new, u), cmds[i])
    <3>1. Replay(pre(j), regs) = State(new, u)
      BY <2>6
    <3> HIDE DEF j, pre, new
    <3> QED
      BY <2>7, <3>1, ReplayAppend
  <2>13. Exec(State(new, u), cmds[i])
           = State([new EXCEPT ![k] = [r \in Regs(k) |-> IF r \in f .. l THEN v[r] ELSE new[k][r]]], u)
    <3> DEFINE full == FALSE
    <3>1. cmds[i] = RegsCmd(k, f, l, v, full)
      BY <2>9
    <3> HIDE DEF new, f, l, full
    <3>2. Exec(State(new, u), RegsCmd(k, f, l, v, full))
            = State([new EXCEPT ![k] = [r \in Regs(k) |-> IF r \in f .. l THEN v[r] ELSE new[k][r]]], u)
      BY <2>8, <2>11, ExecRegs
    <3> QED
      BY <3>1, <3>2
  <2>14. [new EXCEPT ![k] = [r \in Regs(k) |-> IF r \in f .. l THEN v[r] ELSE new[k][r]]]
           = [h EXCEPT ![k] = del(i)]
    <3>1. [r \in Regs(k) |-> IF r \in f .. l THEN v[r] ELSE new[k][r]] = del(i)
      <4> HIDE DEF new, f, l, j
      <4> QED
        BY <2>10, <2>11
    <3>2. [new EXCEPT ![k] = del(i)] = [h EXCEPT ![k] = del(i)]
      OBVIOUS
    <3> HIDE DEF new, f, l, j
    <3> QED
      BY <3>1, <3>2
  <2> HIDE DEF new, f, l, j, pre
  <2> QED
    BY <2>3, <2>12, <2>13, <2>14
<1>5. pre(N) = rec \o cmds
  BY <1>2, SubSeqFull
<1>6. OK(N)
  <2> HIDE DEF OK
  <2>1. N \in 0 .. N /\ N \notin T
    BY <1>1, <1>4
  <2> QED
    BY <2>1
<1> HIDE DEF pre
<1> QED
  BY <1>5, <1>6 DEF cmds, del, Puts

Changed(k) == {r \in Regs(k) : shadow[k][r] # sent[k][r]}

LEMMA DeltaIs ==
  ASSUME NEW k \in Lanes
  PROVE  \E segs, N : /\ Splits(segs, N, RegWords[k], Changed(k))
                      /\ Delta(k) = RunCmds(segs, N, k, shadow[k])
<1> DEFINE S == Changed(k)
           n == RegWords[k]
<1>1. n \in Nat /\ S \in SUBSET (1 .. n)
  BY LaneRegs DEF Changed, Regs
<1> HIDE DEF S, n
<1>2. PICK N : Splits(Segments(S), N, n, S)
  BY <1>1, SegmentsSplit
<1>3. Len(Segments(S)) = N
  BY <1>2 DEF Splits
<1>4. Delta(k) = RunCmds(Segments(S), N, k, shadow[k])
  BY <1>3 DEF Delta, RunCmds, S, Changed
<1> QED
  BY <1>2, <1>4 DEF S, n

LEMMA DeltaReplay ==
  ASSUME NEW k \in Lanes, RegsOK(shadow), RegsOK(sent),
         NEW rec \in Seq(Cmd), NEW regs, NEW h, RegsOK(h), NEW u, Replay(rec, regs) = State(h, u),
         h[k] = sent[k]
  PROVE  Replay(rec \o Delta(k), regs) = State([h EXCEPT ![k] = shadow[k]], u)
<1> DEFINE v == shadow[k]
           old == h[k]
           S == {r \in Regs(k) : v[r] # old[r]}
<1>1. v \in Blocks(k) /\ old \in Blocks(k)
  BY DEF RegsOK
<1>2. S = Changed(k)
  BY DEF Changed
<1>3. PICK segs, N : /\ Splits(segs, N, RegWords[k], S)
                     /\ Delta(k) = RunCmds(segs, N, k, v)
  BY <1>2, DeltaIs
<1>4. Delivered(segs, N, k, v, old) = v
  <2> HIDE DEF v, old
  <2> QED
    BY <1>1, <1>3, DeliveredAll
<1>5. Puts(rec, RunCmds(segs, N, k, v), regs, k, Delivered(segs, N, k, v, h[k]), h, u)
  <2> HIDE DEF v, S
  <2> QED
    BY <1>1, <1>3, RunsReplay
<1> QED
  BY <1>3, <1>4, <1>5 DEF Puts

LEMMA FullReplay ==
  ASSUME NEW k \in Lanes, RegsOK(shadow),
         NEW rec \in Seq(Cmd), NEW regs, NEW h, RegsOK(h), NEW u, Replay(rec, regs) = State(h, u)
  PROVE  Replay(rec \o Full(k), regs) = State([h EXCEPT ![k] = shadow[k]], u)
<1> DEFINE v == shadow[k]
           l == RegWords[k]
           full == TRUE
           c == RegsCmd(k, 1, l, v, full)
           b == [r \in Regs(k) |-> IF r \in 1 .. l THEN v[r] ELSE h[k][r]]
<1>1. v \in Blocks(k) /\ l \in Nat /\ 1 <= l /\ full \in BOOLEAN
  BY LaneRegs DEF RegsOK
<1>2. c \in Cmd
  <2> HIDE DEF v, l, full
  <2>1. 1 \in Nat /\ 1 <= 1 /\ l = l /\ l <= l
    BY <1>1
  <2> QED
    BY <1>1, <2>1, RegsOneCmd DEF l
<1>3. Full(k) = <<c>>
  BY DEF Full
<1>4. Exec(State(h, u), c) = State([h EXCEPT ![k] = b], u)
  <2> HIDE DEF v, full
  <2> QED
    BY <1>1, ExecRegs
<1>5. b = v
  BY <1>1 DEF Regs, Blocks
<1> HIDE DEF c, b, v
<1>6. rec \o <<c>> = Append(rec, c)
  BY <1>2, AppendIsConcat
<1>7. Replay(rec \o <<c>>, regs) = Exec(State(h, u), c)
  <2>1. Replay(Append(rec, c), regs) = Exec(Replay(rec, regs), c)
    BY <1>2, ReplayAppend
  <2> QED
    BY <1>6, <2>1
<1> QED
  BY <1>3, <1>4, <1>5, <1>7 DEF v

Recorded(k) == IF k \in sentValid THEN Delta(k) ELSE Full(k)

LEMMA RecordedType ==
  ASSUME NEW k \in Lanes, RegsOK(shadow)
  PROVE  Recorded(k) \in Seq(Cmd) /\ WordsOf(Recorded(k)) <= RegWords[k] + 2
<1> DEFINE v == shadow[k]
<1>1. v \in Blocks(k)
  BY DEF RegsOK
<1>2. Delta(k) \in Seq(Cmd) /\ WordsOf(Delta(k)) <= RegWords[k] + 2
  <2>1. PICK segs, N : /\ Splits(segs, N, RegWords[k], Changed(k))
                       /\ Delta(k) = RunCmds(segs, N, k, v)
    BY DeltaIs
  <2> HIDE DEF v
  <2>2. Sized(RunCmds(segs, N, k, v), segs, N)
    BY <1>1, <2>1, RunCmdsType
  <2>3. WordsOf(RunCmds(segs, N, k, v)) <= RegWords[k] + 2
    BY <1>1, <2>1, RunWords
  <2> QED
    BY <2>1, <2>2, <2>3 DEF Sized
<1>3. Full(k) \in Seq(Cmd) /\ WordsOf(Full(k)) <= RegWords[k] + 2
  <2> DEFINE l == RegWords[k]
             full == TRUE
             c == RegsCmd(k, 1, l, v, full)
  <2>1. l \in Nat /\ 1 <= l /\ full \in BOOLEAN /\ l <= RegWords[k] /\ 1 \in Nat /\ 1 <= 1
    BY LaneRegs
  <2>2. c \in Cmd /\ c.words = (IF full THEN 1 ELSE 2) + l - 1 + 1
    <3> HIDE DEF v, l, full
    <3> QED
      BY <1>1, <2>1, RegsOneCmd
  <2>3. c.words = l + 1
    <3> HIDE DEF c
    <3> QED
      BY <2>1, <2>2
  <2>4. Full(k) = <<c>>
    BY DEF Full
  <2> HIDE DEF c
  <2>5. <<c>> = Append(<<>>, c) /\ <<>> \in Seq(Cmd) /\ <<c>> \in Seq(Cmd)
    BY <2>2
  <2>6. WordsOf(<<c>>) = 0 + c.words
    BY <2>2, <2>5, WordsAppend, WordsNone
  <2> QED
    BY <2>1, <2>3, <2>4, <2>5, <2>6
<1> QED
  BY <1>2, <1>3 DEF Recorded

\* One Start, after whatever was recorded before it.
LEMMA StartType ==
  ASSUME NEW k \in Lanes, RegsOK(shadow)
  PROVE  /\ Append(Recorded(k), StartCmd(k)) \in Seq(Cmd)
         /\ WordsOf(Append(Recorded(k), StartCmd(k))) \in Nat
         /\ WordsOf(Append(Recorded(k), StartCmd(k))) <= StartRoom(k)
<1> DEFINE rec == Recorded(k)
           c == StartCmd(k)
           w == WordsOf(rec)
<1>1. rec \in Seq(Cmd) /\ w <= RegWords[k] + 2 /\ w \in Nat
  BY RecordedType, WordsType
<1>2. c \in Cmd /\ c.words = 1
  BY OneCmd DEF StartCmd
<1> HIDE DEF rec, c
<1>3. Append(rec, c) \in Seq(Cmd) /\ WordsOf(Append(rec, c)) = w + c.words
  BY <1>1, <1>2, AppendProperties, WordsAppend
<1> HIDE DEF w
<1>4. w + c.words \in Nat /\ w + c.words <= StartRoom(k)
  BY <1>1, <1>2, LaneRegs DEF StartRoom
<1> QED
  BY <1>3, <1>4 DEF rec, c

Launches(rec, cmds, regs, k, b, h, u) ==
  Replay(rec \o cmds, regs) = State([h EXCEPT ![k] = b], Append(u, <<k, b>>))

LEMMA StartReplay ==
  ASSUME NEW k \in Lanes, RegsOK(shadow), RegsOK(sent),
         NEW rec \in Seq(Cmd), NEW regs, NEW h, RegsOK(h), NEW u, Replay(rec, regs) = State(h, u),
         k \in sentValid => h[k] = sent[k]
  PROVE  Launches(rec, Append(Recorded(k), StartCmd(k)), regs, k, shadow[k], h, u)
<1> DEFINE now == Recorded(k)
           c == StartCmd(k)
           new == [h EXCEPT ![k] = shadow[k]]
<1>1. now \in Seq(Cmd) /\ c \in Cmd
  BY RecordedType, OneCmd
<1>2. Replay(rec \o now, regs) = State(new, u)
  BY DeltaReplay, FullReplay DEF Recorded
<1>3. Exec(State(new, u), c) = State(new, Append(u, <<k, new[k]>>))
  BY ExecStart
<1>4. new[k] = shadow[k]
  BY DEF RegsOK
<1> HIDE DEF now, c, new
<1>5. rec \o Append(now, c) = Append(rec \o now, c) /\ rec \o now \in Seq(Cmd)
  BY <1>1, CatAppend, ConcatProperties
<1>6. Replay(Append(rec \o now, c), regs) = Exec(State(new, u), c)
  <2> DEFINE p == rec \o now
  <2>1. p \in Seq(Cmd) /\ Replay(p, regs) = State(new, u)
    BY <1>2, <1>5
  <2> HIDE DEF p
  <2>2. Replay(Append(p, c), regs) = Exec(State(new, u), c)
    BY <1>1, <2>1, ReplayAppend
  <2> QED
    BY <2>2 DEF p
<1>7. Replay(rec \o Append(now, c), regs) = State(new, Append(u, <<k, shadow[k]>>))
  BY <1>3, <1>4, <1>5, <1>6
<1> QED
  BY <1>7 DEF now, c, new, Launches

-----------------------------------------------------------------------------
(* The invariant.                                                            *)

RegsInv == RegsOK(held) /\ RegsOK(shadow) /\ RegsOK(sent)
FlagsInv == /\ enabled \in BOOLEAN /\ running \in BOOLEAN /\ hung \in BOOLEAN
            /\ sentValid \subseteq Lanes /\ pending \subseteq Lanes
RingInv == /\ ring \in Seq(Cmd) /\ intended \in Seq(Runs)
           /\ words = WordsOf(ring) /\ words <= RingWords
\* Nothing is recorded outside a run that records.
EmptyInv == /\ ring = <<>> => intended = <<>>
            /\ ~running \/ ~enabled => ring = <<>>
\* Replayed now, the ring does what was meant, and leaves each lane that was sent
\* with what it was sent last.
SentInv == ~hung => /\ Replay(ring, held).runs = intended
                    /\ running /\ enabled =>
                         \A k \in sentValid : Replay(ring, held).regs[k] = sent[k]
RecInv == RegsInv /\ FlagsInv /\ RingInv /\ EmptyInv /\ SentInv

LEMMA StateFields ==
  ASSUME NEW h, NEW u PROVE State(h, u).regs = h /\ State(h, u).runs = u
BY DEF State

LEMMA NoneIs == ASSUME NEW regs PROVE Replay(<<>>, regs) = State(regs, <<>>)
BY ReplayNone DEF Base, State

LEMMA RegSet ==
  ASSUME NEW h, RegsOK(h), NEW k \in Lanes, NEW r \in Regs(k), NEW v \in Values
  PROVE  RegsOK([h EXCEPT ![k][r] = v])
<1> DEFINE b == [h[k] EXCEPT ![r] = v]
<1>1. b \in Blocks(k)
  BY DEF RegsOK, Blocks
<1>2. [h EXCEPT ![k][r] = v] = [h EXCEPT ![k] = b]
  OBVIOUS
<1> HIDE DEF b
<1> QED
  BY <1>1, <1>2, BlockSet

LEMMA InitInv == Init => RecInv
<1> SUFFICES ASSUME Init PROVE RecInv
  OBVIOUS
<1> USE DEF Init
<1>1. RegsOK(held)
  <2>1. \A k \in Lanes : [r \in Regs(k) |-> Reset] \in Blocks(k)
    BY RegsAssumption DEF Blocks
  <2> QED
    BY <2>1 DEF RegsOK, AllBlocks
<1>2. RegsInv /\ FlagsInv /\ EmptyInv
  BY <1>1 DEF RegsInv, FlagsInv, EmptyInv
<1>3. RingInv
  <2>1. ring \in Seq(Cmd) /\ intended \in Seq(Runs)
    OBVIOUS
  <2>2. WordsOf(ring) = 0
    BY WordsNone
  <2> QED
    BY <2>1, <2>2, RingAssumption DEF RingInv
<1>4. SentInv
  <2>1. Replay(ring, held) = State(held, <<>>)
    BY NoneIs
  <2>2. Replay(ring, held).runs = intended
    BY <2>1, StateFields
  <2> QED
    BY <2>2 DEF SentInv
<1> QED
  BY <1>2, <1>3, <1>4 DEF RecInv

LEMMA QuietStep ==
  ASSUME RecInv, \/ \E on \in BOOLEAN : Enter(on)
                 \/ Leave \/ OtherDrives \/ UNCHANGED vars
  PROVE  RecInv'
<1> USE DEF RecInv
<1>1. ASSUME NEW on \in BOOLEAN, Enter(on) PROVE RecInv'
  <2> USE <1>1 DEF Enter, Enable
  <2>1. RegsInv' /\ FlagsInv' /\ RingInv' /\ EmptyInv'
    BY DEF RegsInv, FlagsInv, RingInv, EmptyInv
  <2>2. ring = <<>> /\ intended = <<>>
    BY DEF EmptyInv
  <2>3. Replay(ring, held).runs = intended
    BY <2>2, NoneIs, StateFields
  <2>4. SentInv'
    BY <2>3 DEF SentInv
  <2> QED
    BY <2>1, <2>4
<1>2. CASE Leave
  <2> USE <1>2 DEF Leave
  <2>1. RegsInv' /\ FlagsInv' /\ RingInv' /\ EmptyInv'
    BY DEF RegsInv, FlagsInv, RingInv, EmptyInv
  <2>2. SentInv'
    BY DEF SentInv
  <2> QED
    BY <2>1, <2>2
<1>3. CASE OtherDrives
  <2> USE <1>3
  <2>1. PICK k \in Lanes : \E r \in Others[k], v \in Values : held' = [held EXCEPT ![k][r] = v]
    BY DEF OtherDrives
  <2>a. PICK r \in Others[k], v \in Values : held' = [held EXCEPT ![k][r] = v]
    BY <2>1
  <2>2. r \in Regs(k)
    BY RegsAssumption DEF Regs
  <2>3. RegsOK(held')
    BY <2>a, <2>2, RegSet DEF RegsInv
  <2>4. RegsInv' /\ FlagsInv' /\ RingInv' /\ EmptyInv'
    BY <2>3 DEF RegsInv, FlagsInv, RingInv, EmptyInv, OtherDrives
  <2>5. ring' = <<>> /\ intended' = <<>> /\ ~running'
    BY DEF EmptyInv, OtherDrives
  <2>6. Replay(ring', held').runs = intended'
    BY <2>5, NoneIs, StateFields
  <2>7. SentInv'
    BY <2>5, <2>6 DEF SentInv
  <2> QED
    BY <2>4, <2>7
<1>4. CASE UNCHANGED vars
  BY <1>4 DEF vars, RegsInv, FlagsInv, RingInv, EmptyInv, SentInv
<1> QED
  BY <1>1, <1>2, <1>3, <1>4

LEMMA SetRegStep ==
  ASSUME RecInv, NEW k \in Lanes, NEW r \in Written[k], NEW v \in Values, SetReg(k, r, v)
  PROVE  RecInv'
<1> USE DEF RecInv
<1>1. r \in Regs(k)
  BY RegsAssumption DEF Regs
<1>2. RegsOK([shadow EXCEPT ![k][r] = v]) /\ RegsOK([held EXCEPT ![k][r] = v])
  BY <1>1, RegSet DEF RegsInv
<1>3. RegsInv' /\ FlagsInv' /\ RingInv' /\ EmptyInv'
  BY <1>2 DEF SetReg, RegsInv, FlagsInv, RingInv, EmptyInv
<1>4. SentInv'
  <2>1. CASE enabled
    BY <2>1 DEF SetReg, SentInv
  <2>2. CASE ~enabled
    <3>1. ring' = <<>> /\ intended' = <<>> /\ ~enabled'
      BY <2>2 DEF EmptyInv, SetReg
    <3>2. Replay(ring', held').runs = intended'
      BY <3>1, NoneIs, StateFields
    <3> QED
      BY <3>1, <3>2 DEF SentInv
  <2> QED
    BY <2>1, <2>2
<1> QED
  BY <1>3, <1>4

\* The ring as it stands: the registers and the runs it leads to.
LEMMA RingState ==
  ASSUME RecInv
  PROVE  \E h, u : /\ Replay(ring, held) = State(h, u) /\ RegsOK(h) /\ Flushed = h
                   /\ ~hung => u = intended
                   /\ ~hung /\ running /\ enabled => \A k \in sentValid : h[k] = sent[k]
<1>1. PICK h, u : Replay(ring, held) = State(h, u) /\ RegsOK(h)
  BY ReplayType DEF RecInv, RegsInv, RingInv
<1>2. Replay(ring, held).regs = h /\ Replay(ring, held).runs = u
  BY <1>1, StateFields
<1> QED
  BY <1>1, <1>2 DEF RecInv, SentInv, Flushed

LEMMA FlushStep ==
  ASSUME RecInv, Flush \/ FlushTimesOut
  PROVE  RecInv'
<1> USE DEF RecInv
<1>1. PICK h, u : /\ Replay(ring, held) = State(h, u) /\ RegsOK(h) /\ Flushed = h
                  /\ ~hung => u = intended
                  /\ ~hung /\ running /\ enabled => \A k \in sentValid : h[k] = sent[k]
  BY RingState
<1>2. /\ ring' = <<>> /\ intended' = <<>> /\ words' = 0
      /\ UNCHANGED <<pending, enabled, running, shadow, sent, sentValid>>
      /\ hung' \in BOOLEAN /\ RegsOK(held') /\ (~hung' => ~hung /\ held' = h)
  <2>1. CASE Flush
    BY <1>1, <2>1 DEF Flush, FlushTo, FlagsInv
  <2>2. CASE FlushTimesOut
    <3>1. PICK i \in 1 .. Len(ring) : held' = Replay(SubSeq(ring, 1, i), held).regs
      BY <2>2 DEF FlushTimesOut, FlushTo
    <3>2. SubSeq(ring, 1, i) \in Seq(Cmd)
      <4>1. \A j \in 1 .. i : ring[j] \in Cmd
        BY ElementOfSeq, LenProperties DEF RingInv
      <4> QED
        BY <4>1, SubSeqProperties
    <3> DEFINE cmds == SubSeq(ring, 1, i)
    <3>3. cmds \in Seq(Cmd) /\ held' = Replay(cmds, held).regs
      BY <3>1, <3>2
    <3> HIDE DEF cmds
    <3>4. PICK g, w : Replay(cmds, held) = State(g, w) /\ RegsOK(g)
      BY <3>3, ReplayType DEF RegsInv
    <3>5. RegsOK(held')
      BY <3>3, <3>4, StateFields
    <3> QED
      BY <2>2, <3>5 DEF FlushTimesOut, FlushTo
  <2> QED
    BY <2>1, <2>2
<1>3. Replay(ring', held') = State(held', <<>>)
  BY <1>2, NoneIs
<1>4. RingInv'
  <2>1. <<>> \in Seq(Cmd) /\ <<>> \in Seq(Runs)
    BY EmptySeq
  <2> QED
    BY <1>2, <2>1, WordsNone, RingAssumption DEF RingInv
<1>5. RegsInv' /\ FlagsInv' /\ EmptyInv'
  BY <1>2 DEF RegsInv, FlagsInv, EmptyInv
<1>6. SentInv'
  <2>1. Replay(ring', held').regs = held' /\ Replay(ring', held').runs = <<>>
    BY <1>3, StateFields
  <2> QED
    BY <1>1, <1>2, <2>1 DEF SentInv
<1> QED
  BY <1>4, <1>5, <1>6

\* Recording cmds, in the ring or after a flush at its start: what it is recorded
\* after, and how the ring and its words stand then.
RecordedAfter(cmds, runs) ==
  /\ RingInv' /\ ring' # <<>> /\ RegsOK(held')
  /\ \E rec \in Seq(Cmd), us \in Seq(Runs) : \E h, u :
       /\ Replay(rec, held') = State(h, u) /\ RegsOK(h)
       /\ ring' = rec \o cmds /\ intended' = us \o runs
       /\ ~hung => u = us
       /\ ~hung /\ running /\ enabled => \A j \in sentValid : h[j] = sent[j]

LEMMA RecordsStep ==
  ASSUME RecInv, NEW room \in Nat, NEW k \in Lanes, NEW cmds \in Seq(Cmd), NEW runs \in Seq(Runs),
         WordsOf(cmds) \in Nat, WordsOf(cmds) <= room, room <= RingWords, cmds # <<>>,
         Records(room, k, cmds, runs)
  PROVE  RecordedAfter(cmds, runs)
<1>1. PICK h, u : /\ Replay(ring, held) = State(h, u) /\ RegsOK(h) /\ Flushed = h
                  /\ ~hung => u = intended
                  /\ ~hung /\ running /\ enabled => \A j \in sentValid : h[j] = sent[j]
  BY RingState
<1>2. /\ ring \in Seq(Cmd) /\ intended \in Seq(Runs) /\ words = WordsOf(ring)
      /\ words <= RingWords /\ words \in Nat /\ RingWords \in Nat /\ RegsOK(held)
  BY WordsType, RingAssumption DEF RecInv, RingInv, RegsInv
<1>3. CASE words + room > RingWords
  <2>1. ring' = cmds /\ intended' = runs /\ words' = 0 + WordsOf(cmds) /\ held' = h
    BY <1>1, <1>3 DEF Records
  <2>2. RingInv'
    BY <1>2, <2>1 DEF RingInv
  <2>3. Replay(<<>>, held') = State(h, <<>>)
    BY <2>1, NoneIs
  <2>4. /\ <<>> \in Seq(Cmd) /\ <<>> \in Seq(Runs)
        /\ <<>> \o cmds = cmds /\ <<>> \o runs = runs
    BY ConcatEmptySeq, EmptySeq
  <2> QED
    BY <1>1, <2>1, <2>2, <2>3, <2>4 DEF RecordedAfter
<1>4. CASE ~(words + room > RingWords)
  <2>1. /\ ring' = ring \o cmds /\ intended' = intended \o runs
        /\ words' = words + WordsOf(cmds) /\ held' = held
    BY <1>4 DEF Records
  <2>2. ring \o cmds \in Seq(Cmd) /\ intended \o runs \in Seq(Runs) /\ ring \o cmds # <<>>
    BY <1>2, ConcatProperties, ConcatEqualIffEmpty
  <2>3. WordsOf(ring \o cmds) = words + WordsOf(cmds)
    BY <1>2, WordsCat
  <2>4. words + WordsOf(cmds) <= RingWords
    BY <1>2, <1>4
  <2>5. RingInv'
    BY <2>1, <2>2, <2>3, <2>4 DEF RingInv
  <2> QED
    BY <1>1, <1>2, <2>1, <2>2, <2>5 DEF RecordedAfter
<1> QED
  BY <1>3, <1>4

LEMMA StartStep ==
  ASSUME RecInv, NEW k \in Lanes, Start(k)
  PROVE  RecInv'
<1> DEFINE cmds == Append(Recorded(k), StartCmd(k))
           run == <<k, shadow[k]>>
           runs == <<run>>
<1>1. RegsOK(shadow) /\ RegsOK(sent) /\ shadow[k] \in AllBlocks /\ run \in Runs
  BY DEF RecInv, RegsInv, RegsOK, Runs
<1>2. /\ cmds \in Seq(Cmd) /\ WordsOf(cmds) \in Nat /\ WordsOf(cmds) <= StartRoom(k)
      /\ cmds # <<>>
  <2>1. Recorded(k) \in Seq(Cmd) /\ StartCmd(k) \in Cmd
    BY <1>1, RecordedType, OneCmd
  <2>2. cmds # <<>>
    BY <2>1, AppendProperties
  <2> QED
    BY <1>1, <2>2, StartType
<1>3. StartRoom(k) \in Nat /\ StartRoom(k) <= RingWords
  BY LaneRegs, RingAssumption DEF StartRoom
<1>4. /\ Records(StartRoom(k), k, cmds, runs)
      /\ running /\ enabled /\ sent' = [sent EXCEPT ![k] = shadow[k]]
      /\ sentValid' = sentValid \cup {k} /\ pending' = pending \cup {k}
      /\ UNCHANGED <<enabled, running, shadow, hung>>
  BY DEF Start, Recorded
<1>5. runs \in Seq(Runs)
  BY <1>1
<1> HIDE DEF cmds, runs
<1>6. RecordedAfter(cmds, runs)
  BY <1>2, <1>3, <1>4, <1>5, RecordsStep
<1>7. RegsOK(sent')
  <2>1. shadow[k] \in Blocks(k)
    BY <1>1 DEF RegsOK
  <2> QED
    BY <1>1, <1>4, <2>1, BlockSet
<1>8. RegsInv' /\ FlagsInv' /\ EmptyInv'
  BY <1>1, <1>4, <1>6, <1>7 DEF RecordedAfter, RecInv, RegsInv, FlagsInv, EmptyInv
<1>9. SentInv'
  <2> SUFFICES ASSUME ~hung
               PROVE  /\ Replay(ring', held').runs = intended'
                      /\ \A j \in sentValid' : Replay(ring', held').regs[j] = sent'[j]
    BY <1>4 DEF SentInv
  <2>0. PICK rec \in Seq(Cmd), us \in Seq(Runs) : \E h, u :
            /\ Replay(rec, held') = State(h, u) /\ RegsOK(h)
            /\ ring' = rec \o cmds /\ intended' = us \o runs
            /\ ~hung => u = us
            /\ ~hung /\ running /\ enabled => \A j \in sentValid : h[j] = sent[j]
    BY <1>6 DEF RecordedAfter
  <2>1. PICK h, u :
            /\ Replay(rec, held') = State(h, u) /\ RegsOK(h)
            /\ ring' = rec \o cmds /\ intended' = us \o runs
            /\ ~hung => u = us
            /\ ~hung /\ running /\ enabled => \A j \in sentValid : h[j] = sent[j]
    BY <2>0
  <2>2. u = us /\ \A j \in sentValid : h[j] = sent[j]
    BY <1>4, <2>1
  <2> DEFINE now == held'
  <2>3. Launches(rec, Append(Recorded(k), StartCmd(k)), now, k, shadow[k], h, u)
    <3>1. Replay(rec, now) = State(h, u)
      BY <2>1
    <3> HIDE DEF now
    <3> QED
      BY <1>1, <2>1, <2>2, <3>1, StartReplay
  <2>4. Replay(ring', held') = State([h EXCEPT ![k] = shadow[k]], Append(u, run))
    BY <2>1, <2>3 DEF Launches, cmds
  <2>5. /\ Replay(ring', held').runs = Append(u, run)
        /\ Replay(ring', held').regs = [h EXCEPT ![k] = shadow[k]]
    <3> DEFINE new == [h EXCEPT ![k] = shadow[k]]
               us1 == Append(u, run)
    <3>1. Replay(ring', held') = State(new, us1)
      BY <2>4
    <3> HIDE DEF new, us1
    <3>2. Replay(ring', held').runs = us1 /\ Replay(ring', held').regs = new
      BY <3>1, StateFields
    <3> QED
      BY <3>2 DEF new, us1
  <2>6. Append(u, run) = us \o runs
    BY <1>1, <2>2, AppendIsConcat DEF runs
  <2>7. ASSUME NEW j \in sentValid' PROVE [h EXCEPT ![k] = shadow[k]][j] = sent'[j]
    <3>1. h \in [Lanes -> AllBlocks] /\ sent \in [Lanes -> AllBlocks] /\ j \in Lanes
      BY <1>1, <1>4, <2>1 DEF RegsOK, RecInv, FlagsInv
    <3> QED
      BY <1>4, <2>2, <3>1
  <2> QED
    BY <2>1, <2>5, <2>6, <2>7
<1> QED
  BY <1>6, <1>8, <1>9 DEF RecordedAfter, RecInv

LEMMA WaitStep ==
  ASSUME RecInv, NEW k \in Lanes, Wait(k)
  PROVE  RecInv'
<1> DEFINE c == WaitCmd(k)
           cmds == <<c>>
           runs == <<>>
<1>1. c \in Cmd /\ c.words = 1
  BY OneCmd DEF WaitCmd
<1>2. cmds = Append(<<>>, c) /\ <<>> \in Seq(Cmd) /\ cmds \in Seq(Cmd) /\ cmds # <<>>
      /\ runs \in Seq(Runs)
  BY <1>1
<1>3. WordsOf(cmds) = 1
  <2> HIDE DEF c, cmds
  <2>1. WordsOf(cmds) = 0 + c.words
    BY <1>1, <1>2, WordsAppend, WordsNone
  <2> QED
    BY <1>1, <2>1
<1>4. 1 <= RingWords
  <2>1. RingWords \in Nat /\ 2 * RegWords[k] + 4 <= RingWords
    BY RingAssumption
  <2> QED
    BY <2>1, LaneRegs
<1>5. /\ Records(1, k, cmds, runs)
      /\ running /\ enabled /\ pending' = pending \ {k}
      /\ UNCHANGED <<enabled, running, shadow, sent, sentValid, hung>>
  BY DEF Wait
<1> HIDE DEF cmds, runs
<1>6. RecordedAfter(cmds, runs)
  <2> DEFINE room == 1
  <2>1. /\ room \in Nat /\ WordsOf(cmds) \in Nat /\ WordsOf(cmds) <= room /\ room <= RingWords
        /\ Records(room, k, cmds, runs)
    BY <1>3, <1>4, <1>5
  <2> HIDE DEF room
  <2> QED
    BY <1>2, <2>1, RecordsStep
<1>7. RegsInv' /\ FlagsInv' /\ EmptyInv'
  BY <1>5, <1>6 DEF RecordedAfter, RecInv, RegsInv, FlagsInv, EmptyInv
<1>8. SentInv'
  <2> SUFFICES ASSUME ~hung
               PROVE  /\ Replay(ring', held').runs = intended'
                      /\ \A j \in sentValid : Replay(ring', held').regs[j] = sent[j]
    BY <1>5 DEF SentInv
  <2>0. PICK rec \in Seq(Cmd), us \in Seq(Runs) : \E h, u :
            /\ Replay(rec, held') = State(h, u) /\ RegsOK(h)
            /\ ring' = rec \o cmds /\ intended' = us \o runs
            /\ ~hung => u = us
            /\ ~hung /\ running /\ enabled => \A j \in sentValid : h[j] = sent[j]
    BY <1>6 DEF RecordedAfter
  <2>1. PICK h, u :
            /\ Replay(rec, held') = State(h, u) /\ RegsOK(h)
            /\ ring' = rec \o cmds /\ intended' = us \o runs
            /\ ~hung => u = us
            /\ ~hung /\ running /\ enabled => \A j \in sentValid : h[j] = sent[j]
    BY <2>0
  <2>2. u = us /\ \A j \in sentValid : h[j] = sent[j]
    BY <1>5, <2>1
  <2> HIDE DEF c
  <2>3. ring' = Append(rec, c)
    BY <1>1, <2>1, AppendIsConcat DEF cmds
  <2>4. Replay(Append(rec, c), held') = Exec(State(h, u), c)
    BY <1>1, <2>1, ReplayAppend
  <2>5. Exec(State(h, u), c) = State(h, u)
    BY ExecWait DEF c
  <2>6. Replay(ring', held').runs = u /\ Replay(ring', held').regs = h
    BY <2>3, <2>4, <2>5, StateFields
  <2>7. intended' = us
    BY <2>1, ConcatEmptySeq DEF runs
  <2> QED
    BY <2>2, <2>6, <2>7
<1> QED
  BY <1>6, <1>7, <1>8 DEF RecordedAfter, RecInv

LEMMA NextInv == ASSUME RecInv, [Next]_vars PROVE RecInv'
<1>1. ASSUME NEW k \in Lanes,
             (\E r \in Written[k], v \in Values : SetReg(k, r, v)) \/ Start(k) \/ Wait(k)
      PROVE  RecInv'
  BY <1>1, SetRegStep, StartStep, WaitStep
<1>2. CASE \/ \E on \in BOOLEAN : Enter(on)
           \/ Leave \/ OtherDrives \/ UNCHANGED vars
  BY <1>2, QuietStep
<1>3. CASE Flush \/ FlushTimesOut
  BY <1>3, FlushStep
<1> QED
  BY <1>1, <1>2, <1>3 DEF Next

\* The inductive invariant holds: outside a recording run nothing is in the ring, and
\* replaying the ring leads each lane that was sent to s_sent.
THEOREM Recording == Spec => []RecInv
<1>1. Init => RecInv
  BY InitInv
<1>2. RecInv /\ [Next]_vars => RecInv'
  BY NextInv
<1> QED
  BY <1>1, <1>2, PTL DEF Spec

\* With any registers, changes, batches and other drivers: the kernel runs every Start
\* recorded by inference_rpu_start() with the registers the generated code had written.
THEOREM AsWritten == Spec => []RunsAsWritten
<1>1. RecInv => RunsAsWritten
  BY DEF RecInv, SentInv, RunsAsWritten
<1> QED
  BY <1>1, Recording, PTL

\* inference_rpu_start() and inference_rpu_wait() never record past the ring: the room
\* they ask for before they flush is enough for what they then write.
THEOREM FitsRing == Spec => []RingFits
<1>1. RecInv => RingFits
  BY DEF RecInv, RingInv, RingFits
<1> QED
  BY <1>1, Recording, PTL

\* The registers, the ring and its word count are what their types say; s_words is
\* the number of words in the ring.
THEOREM RecorderTypes == Spec => []TypeOK
<1>1. ASSUME RecInv PROVE TypeOK
  <2> USE <1>1 DEF RecInv
  <2>1. {held, shadow, sent} \subseteq {f \in [Lanes -> UNION {Blocks(k) : k \in Lanes}] :
                                               \A k \in Lanes : f[k] \in Blocks(k)}
    BY DEF RegsInv, RegsOK, AllBlocks
  <2>2. \A i \in DOMAIN ring : ring[i].op \in {"regs", "start", "wait"} /\ ring[i].lane \in Lanes
    <3>1. \A i \in DOMAIN ring : ring[i] \in Cmd
      BY ElementOfSeq, LenProperties DEF RingInv
    <3> QED
      BY <3>1 DEF Cmd
  <2> QED
    BY <2>1, <2>2 DEF FlagsInv, RingInv, TypeOK
<1> QED
  BY <1>1, Recording, PTL
=============================================================================
