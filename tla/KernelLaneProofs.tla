--------------------------- MODULE KernelLaneProofs ---------------------------
(***************************************************************************)
(* Proofs about KernelLane: what its waits and its sleeps rely on, and that  *)
(* a job is a remote call.                                                  *)
(***************************************************************************)
EXTENDS KernelLane, SequenceTheorems, TLAPS

USE DEF ctrl, lines, r5Vars, a53Vars, vars

-----------------------------------------------------------------------------
(* What may be on its way to the registers, oldest first.  The proofs leave   *)
(* these sequences unexpanded and use the facts below.                       *)

Nothing       == <<>>
Off           == <<"gieOff">>
OffIer        == <<"gieOff", "ierOn">>
Ier           == <<"ierOn">>
OffIerToggle  == <<"gieOff", "ierOn", "toggleIsr">>
IerToggle     == <<"ierOn", "toggleIsr">>
Toggle        == <<"toggleIsr">>
OffIerOn      == <<"gieOff", "ierOn", "gieOn">>
IerOn         == <<"ierOn", "gieOn">>
On            == <<"gieOn">>
OffIerOnStart == <<"gieOff", "ierOn", "gieOn", "start">>
IerOnStart    == <<"ierOn", "gieOn", "start">>
OnStart       == <<"gieOn", "start">>
OffStart      == <<"gieOff", "start">>
JustStart     == <<"start">>

OffQ   == {Nothing, Off}
ClearQ == {OffIerToggle, IerToggle, Toggle}
GieQ   == {OffIer, Ier, Nothing}
ArmQ   == {OffIerOn, IerOn, On, Nothing}
PollQ  == {OffStart, JustStart, Nothing}
JobQ   == {OffIerOnStart, IerOnStart, OnStart, JustStart, Nothing}
StartQ == {OffIerOnStart, IerOnStart, OnStart, OffStart, JustStart}

USE DEF OffQ, ClearQ, GieQ, ArmQ, PollQ, JobQ, StartQ

\* The write that lands and what is left.
LEMMA Heads ==
  /\ Head(Off) = "gieOff" /\ Tail(Off) = Nothing
  /\ Head(OffIer) = "gieOff" /\ Tail(OffIer) = Ier
  /\ Head(Ier) = "ierOn" /\ Tail(Ier) = Nothing
  /\ Head(OffIerToggle) = "gieOff" /\ Tail(OffIerToggle) = IerToggle
  /\ Head(IerToggle) = "ierOn" /\ Tail(IerToggle) = Toggle
  /\ Head(Toggle) = "toggleIsr" /\ Tail(Toggle) = Nothing
  /\ Head(OffIerOn) = "gieOff" /\ Tail(OffIerOn) = IerOn
  /\ Head(IerOn) = "ierOn" /\ Tail(IerOn) = On
  /\ Head(On) = "gieOn" /\ Tail(On) = Nothing
  /\ Head(OffIerOnStart) = "gieOff" /\ Tail(OffIerOnStart) = IerOnStart
  /\ Head(IerOnStart) = "ierOn" /\ Tail(IerOnStart) = OnStart
  /\ Head(OnStart) = "gieOn" /\ Tail(OnStart) = JustStart
  /\ Head(OffStart) = "gieOff" /\ Tail(OffStart) = JustStart
  /\ Head(JustStart) = "start" /\ Tail(JustStart) = Nothing
<1>1. /\ Head(Off) = "gieOff" /\ Tail(Off) = Nothing
      /\ Head(Ier) = "ierOn" /\ Tail(Ier) = Nothing
      /\ Head(Toggle) = "toggleIsr" /\ Tail(Toggle) = Nothing
      /\ Head(On) = "gieOn" /\ Tail(On) = Nothing
      /\ Head(JustStart) = "start" /\ Tail(JustStart) = Nothing
  BY DEF Nothing, Off, Ier, Toggle, On, JustStart
<1>2. /\ Head(OffIer) = "gieOff" /\ Tail(OffIer) = Ier
      /\ Head(IerToggle) = "ierOn" /\ Tail(IerToggle) = Toggle
      /\ Head(IerOn) = "ierOn" /\ Tail(IerOn) = On
      /\ Head(OnStart) = "gieOn" /\ Tail(OnStart) = JustStart
      /\ Head(OffStart) = "gieOff" /\ Tail(OffStart) = JustStart
  <2>1. Head(OffIer) = "gieOff" /\ Tail(OffIer) = Ier
    BY DEF OffIer, Ier
  <2>2. Head(IerToggle) = "ierOn" /\ Tail(IerToggle) = Toggle
    BY DEF IerToggle, Toggle
  <2>3. Head(IerOn) = "ierOn" /\ Tail(IerOn) = On
    BY DEF IerOn, On
  <2>4. Head(OnStart) = "gieOn" /\ Tail(OnStart) = JustStart
    BY DEF OnStart, JustStart
  <2>5. Head(OffStart) = "gieOff" /\ Tail(OffStart) = JustStart
    BY DEF OffStart, JustStart
  <2> QED
    BY <2>1, <2>2, <2>3, <2>4, <2>5
<1>3. /\ Head(OffIerToggle) = "gieOff" /\ Tail(OffIerToggle) = IerToggle
      /\ Head(OffIerOn) = "gieOff" /\ Tail(OffIerOn) = IerOn
      /\ Head(IerOnStart) = "ierOn" /\ Tail(IerOnStart) = OnStart
      /\ Head(OffIerOnStart) = "gieOff" /\ Tail(OffIerOnStart) = IerOnStart
  <2>1. Head(OffIerToggle) = "gieOff" /\ Tail(OffIerToggle) = IerToggle
    BY DEF OffIerToggle, IerToggle
  <2>2. Head(OffIerOn) = "gieOff" /\ Tail(OffIerOn) = IerOn
    BY DEF OffIerOn, IerOn
  <2>3. Head(IerOnStart) = "ierOn" /\ Tail(IerOnStart) = OnStart
    BY DEF IerOnStart, OnStart
  <2>4. Head(OffIerOnStart) = "gieOff" /\ Tail(OffIerOnStart) = IerOnStart
    BY DEF OffIerOnStart, IerOnStart
  <2> QED
    BY <2>1, <2>2, <2>3, <2>4
<1> QED
  BY <1>1, <1>2, <1>3

\* No two of them are the same.
LEMMA Lengths ==
  /\ Len(Nothing) = 0
  /\ Len(Off) = 1 /\ Len(Ier) = 1 /\ Len(Toggle) = 1 /\ Len(On) = 1 /\ Len(JustStart) = 1
  /\ Len(OffIer) = 2 /\ Len(IerToggle) = 2 /\ Len(IerOn) = 2
  /\ Len(OnStart) = 2 /\ Len(OffStart) = 2
  /\ Len(OffIerToggle) = 3 /\ Len(OffIerOn) = 3 /\ Len(IerOnStart) = 3
  /\ Len(OffIerOnStart) = 4
<1>1. Len(Nothing) = 0
  BY DEF Nothing
<1>2. Len(Off) = 1 /\ Len(Ier) = 1 /\ Len(Toggle) = 1 /\ Len(On) = 1 /\ Len(JustStart) = 1
  BY DEF Off, Ier, Toggle, On, JustStart
<1>3. /\ Len(OffIer) = 2 /\ Len(IerToggle) = 2 /\ Len(IerOn) = 2
      /\ Len(OnStart) = 2 /\ Len(OffStart) = 2
  BY DEF OffIer, IerToggle, IerOn, OnStart, OffStart
<1>4. Len(OffIerToggle) = 3 /\ Len(OffIerOn) = 3 /\ Len(IerOnStart) = 3
  BY DEF OffIerToggle, OffIerOn, IerOnStart
<1>5. Len(OffIerOnStart) = 4
  BY DEF OffIerOnStart
<1> QED
  BY <1>1, <1>2, <1>3, <1>4, <1>5

\* Only the last of the writes is an ap_start.
LEMMA NoStart ==
  /\ Nothing \notin StartQ
  /\ \A q \in OffQ \cup ClearQ \cup GieQ \cup ArmQ : q \notin StartQ
  /\ \A q \in StartQ \cup ClearQ : q # Nothing
<1>1. \A q \in StartQ \cup ClearQ \cup {Off, OffIer, Ier, OffIerOn, IerOn, On} : q # Nothing
  BY Lengths
<1>2. Off # JustStart /\ Ier # JustStart /\ Toggle # JustStart /\ On # JustStart
  BY Heads
<1>3. OffIer # OnStart /\ IerToggle # OnStart /\ IerOn # OnStart
  BY Heads
<1>4. OffIer # OffStart /\ IerToggle # OffStart /\ IerOn # OffStart
  BY Heads, <1>2
<1>5. OffIerToggle # IerOnStart /\ OffIerOn # IerOnStart
  BY Heads
<1>6. /\ Len(JustStart) = 1 /\ Len(OnStart) = 2 /\ Len(OffStart) = 2
      /\ Len(IerOnStart) = 3 /\ Len(OffIerOnStart) = 4
  BY Lengths
<1>7. ASSUME NEW q, Len(q) = 1, q # JustStart PROVE q \notin StartQ
  BY <1>6, <1>7
<1>8. ASSUME NEW q, Len(q) = 2, q # OnStart, q # OffStart PROVE q \notin StartQ
  BY <1>6, <1>8
<1>9. ASSUME NEW q, Len(q) = 3, q # IerOnStart PROVE q \notin StartQ
  BY <1>6, <1>9
<1>10. Off \notin StartQ /\ Ier \notin StartQ /\ Toggle \notin StartQ /\ On \notin StartQ
  <2> HIDE DEF StartQ
  <2> QED
    BY <1>2, <1>7, Lengths
<1>11. OffIer \notin StartQ /\ IerToggle \notin StartQ /\ IerOn \notin StartQ
  <2> HIDE DEF StartQ
  <2> QED
    BY <1>3, <1>4, <1>8, Lengths
<1>12. OffIerToggle \notin StartQ /\ OffIerOn \notin StartQ
  <2> HIDE DEF StartQ
  <2> QED
    BY <1>5, <1>9, Lengths
<1> QED
  BY <1>1, <1>10, <1>11, <1>12

\* Appending a handler's writes.
LEMMA Cat11 ==
  ASSUME NEW W, NEW x \in W, NEW y \in W
  PROVE  <<x>> \o <<y>> = <<x, y>>
<1>1. <<x>> \in Seq(W) /\ <<y>> \in Seq(W) /\ <<x, y>> \in Seq(W)
  OBVIOUS
<1>2. Len(<<x>>) = 1 /\ Len(<<y>>) = 1 /\ Len(<<x, y>>) = 2
  OBVIOUS
<1>3. /\ Len(<<x>> \o <<y>>) = 2
      /\ \A i \in 1 .. 2 : (<<x>> \o <<y>>)[i] = <<x, y>>[i]
  BY <1>1, <1>2, ConcatProperties
<1> QED
  BY <1>1, <1>2, <1>3, ConcatProperties, SeqEqual

LEMMA Cat12 ==
  ASSUME NEW W, NEW x \in W, NEW y \in W, NEW z \in W
  PROVE  <<x>> \o <<y, z>> = <<x, y, z>>
<1>1. <<x>> \in Seq(W) /\ <<y, z>> \in Seq(W) /\ <<x, y, z>> \in Seq(W)
  OBVIOUS
<1>2. Len(<<x>>) = 1 /\ Len(<<y, z>>) = 2 /\ Len(<<x, y, z>>) = 3
  OBVIOUS
<1>3. /\ Len(<<x>> \o <<y, z>>) = 3
      /\ \A i \in 1 .. 3 : (<<x>> \o <<y, z>>)[i] = <<x, y, z>>[i]
  BY <1>1, <1>2, ConcatProperties
<1> QED
  BY <1>1, <1>2, <1>3, ConcatProperties, SeqEqual

LEMMA Cat21 ==
  ASSUME NEW W, NEW x \in W, NEW y \in W, NEW z \in W
  PROVE  <<x, y>> \o <<z>> = <<x, y, z>>
<1>1. <<x, y>> \in Seq(W) /\ <<z>> \in Seq(W) /\ <<x, y, z>> \in Seq(W)
  OBVIOUS
<1>2. Len(<<x, y>>) = 2 /\ Len(<<z>>) = 1 /\ Len(<<x, y, z>>) = 3
  OBVIOUS
<1>3. /\ Len(<<x, y>> \o <<z>>) = 3
      /\ \A i \in 1 .. 3 : (<<x, y>> \o <<z>>)[i] = <<x, y, z>>[i]
  BY <1>1, <1>2, ConcatProperties
<1> QED
  BY <1>1, <1>2, <1>3, ConcatProperties, SeqEqual

LEMMA Cat31 ==
  ASSUME NEW W, NEW x \in W, NEW y \in W, NEW z \in W, NEW v \in W
  PROVE  <<x, y, z>> \o <<v>> = <<x, y, z, v>>
<1>1. <<x, y, z>> \in Seq(W) /\ <<v>> \in Seq(W) /\ <<x, y, z, v>> \in Seq(W)
  OBVIOUS
<1>2. Len(<<x, y, z>>) = 3 /\ Len(<<v>>) = 1 /\ Len(<<x, y, z, v>>) = 4
  OBVIOUS
<1>3. /\ Len(<<x, y, z>> \o <<v>>) = 4
      /\ \A i \in 1 .. 4 : (<<x, y, z>> \o <<v>>)[i] = <<x, y, z, v>>[i]
  BY <1>1, <1>2, ConcatProperties
<1> QED
  BY <1>1, <1>2, <1>3, ConcatProperties, SeqEqual

\* What a handler posts comes after what is on its way.
LEMMA Posts ==
  /\ Nothing \o <<>> = Nothing /\ OnStart \o <<>> = OnStart /\ JustStart \o <<>> = JustStart
  /\ Nothing \o <<"gieOff">> = Off /\ Nothing \o <<"toggleIsr">> = Toggle
  /\ Nothing \o <<"gieOn", "start">> = OnStart /\ Nothing \o <<"start">> = JustStart
  /\ Nothing \o <<"ierOn">> = Ier /\ Off \o <<"ierOn">> = OffIer
  /\ Nothing \o <<"ierOn", "toggleIsr">> = IerToggle
  /\ Off \o <<"ierOn", "toggleIsr">> = OffIerToggle
  /\ Nothing \o <<"gieOn">> = On /\ Ier \o <<"gieOn">> = IerOn
  /\ OffIer \o <<"gieOn">> = OffIerOn
  /\ On \o <<"start">> = OnStart /\ IerOn \o <<"start">> = IerOnStart
  /\ OffIerOn \o <<"start">> = OffIerOnStart /\ Off \o <<"start">> = OffStart
<1>1. /\ Nothing \o <<>> = Nothing /\ OnStart \o <<>> = OnStart
      /\ JustStart \o <<>> = JustStart
  <2>1. Nothing \in Seq(Writes) /\ OnStart \in Seq(Writes) /\ JustStart \in Seq(Writes)
    BY DEF Nothing, OnStart, JustStart, Writes
  <2> QED
    BY <2>1, ConcatEmptySeq
<1>2. /\ Nothing \o <<"gieOff">> = Off /\ Nothing \o <<"toggleIsr">> = Toggle
      /\ Nothing \o <<"start">> = JustStart /\ Nothing \o <<"ierOn">> = Ier
      /\ Nothing \o <<"gieOn">> = On
  <2>1. ASSUME NEW w \in Writes PROVE Nothing \o <<w>> = <<w>>
    <3>1. <<w>> \in Seq(Writes)
      OBVIOUS
    <3> QED
      BY <3>1, ConcatEmptySeq DEF Nothing
  <2> QED
    BY <2>1 DEF Writes, Off, Toggle, JustStart, Ier, On
<1>3. /\ Nothing \o <<"gieOn", "start">> = OnStart
      /\ Nothing \o <<"ierOn", "toggleIsr">> = IerToggle
  <2>1. ASSUME NEW w \in Writes, NEW u \in Writes PROVE Nothing \o <<w, u>> = <<w, u>>
    <3>1. <<w, u>> \in Seq(Writes)
      OBVIOUS
    <3> QED
      BY <3>1, ConcatEmptySeq DEF Nothing
  <2> QED
    BY <2>1 DEF Writes, OnStart, IerToggle
<1>4. /\ Off \o <<"ierOn">> = OffIer /\ Ier \o <<"gieOn">> = IerOn
      /\ On \o <<"start">> = OnStart /\ Off \o <<"start">> = OffStart
  <2>1. \A x, y \in Writes : <<x>> \o <<y>> = <<x, y>>
    BY Cat11
  <2> QED
    BY <2>1 DEF Writes, Off, OffIer, Ier, IerOn, On, OnStart, OffStart
<1>5. Off \o <<"ierOn", "toggleIsr">> = OffIerToggle
  <2>1. \A x, y, z \in Writes : <<x>> \o <<y, z>> = <<x, y, z>>
    BY Cat12
  <2> QED
    BY <2>1 DEF Writes, Off, OffIerToggle
<1>6. OffIer \o <<"gieOn">> = OffIerOn /\ IerOn \o <<"start">> = IerOnStart
  <2>1. \A x, y, z \in Writes : <<x, y>> \o <<z>> = <<x, y, z>>
    BY Cat21
  <2> QED
    BY <2>1 DEF Writes, OffIer, OffIerOn, IerOn, IerOnStart
<1>7. OffIerOn \o <<"start">> = OffIerOnStart
  <2>1. \A x, y, z, v \in Writes : <<x, y, z>> \o <<v>> = <<x, y, z, v>>
    BY Cat31
  <2> QED
    BY <2>1 DEF Writes, OffIerOn, OffIerOnStart
<1> QED
  BY <1>1, <1>2, <1>3, <1>4, <1>5, <1>6, <1>7

-----------------------------------------------------------------------------
(* The inductive invariant: who has the lane, and for each place of its       *)
(* master what may still be on the way to the registers.                     *)

R5Q  == posted["R5"]
A53Q == posted["A53"]

Sleeps == {"check", "sleep", "earlyCheck", "earlySleep"}
Waits  == A53Steps \ {"app", "irqStart", "clearing", "gie", "Start", "go"}

LaneType == /\ apStart \in BOOLEAN /\ taskDone \in BOOLEAN /\ isr \in BOOLEAN
            /\ gie \in BOOLEAN /\ armed \in BOOLEAN /\ inflight \in BOOLEAN
            /\ a53Armed \in BOOLEAN /\ a53Job \in BOOLEAN
            /\ posted \in [Masters -> Seq(Writes)]
            /\ r5 \in R5Steps /\ a53 \in A53Steps

\* A job is owed from the store of ap_start to its end, and it is the owner's.
OwedInv == /\ owed \in {0, 1}
           /\ owed = 1 <=> apStart \/ R5Q \in StartQ \/ A53Q \in StartQ
           /\ apStart => R5Q \notin StartQ /\ A53Q \notin StartQ
           /\ owed = 1 => inflight \/ a53Job

\* While the R5 has the lane nothing of the A53 is left to land.
OwnerInv == r5 # "off" \/ inflight => a53 = "app" /\ ~a53Job /\ A53Q = Nothing

R5IdleInv == /\ r5 \in {"off", "cmd", "clearing", "start", "ending"}
             /\ r5 \in {"off", "cmd", "start"} => R5Q = Nothing
             /\ r5 = "clearing" => \/ R5Q = Toggle /\ isr
                                   \/ R5Q = Nothing /\ ~isr
             /\ r5 = "start" => ~isr
             /\ r5 = "ending" => R5Q \in OffQ
             /\ armed => r5 \notin {"off", "ending"} /\ gie

\* A job of the R5: GIE lands before ap_start, the ISR is set by its end alone.
R5JobInv == /\ r5 \in {"off", "cmd", "wait", "unmasked", "wfi", "ending"}
            /\ armed
            /\ R5Q \in {OnStart, JustStart, Nothing}
            /\ gie \/ R5Q = OnStart
            /\ isr => R5Q = Nothing /\ ~apStart

R5Inv == /\ ~inflight => R5IdleInv
         /\ inflight => R5JobInv
         /\ r5 \in {"unmasked", "wfi"} => r5Line

A53IdleInv == /\ a53 \in {"app", "irqStart", "clearing", "gie", "Start", "go"}
              /\ a53Armed => a53 \in {"Start", "go"}
              /\ a53 \in {"app", "irqStart"} => A53Q \in OffQ
              /\ a53 = "clearing" => \/ A53Q \in ClearQ /\ isr
                                     \/ A53Q = Nothing /\ ~isr
              /\ a53 = "gie" => A53Q \in GieQ /\ ~isr
              /\ a53 \in {"Start", "go"} /\ ~a53Armed => A53Q \in OffQ
              /\ a53 \in {"Start", "go"} /\ a53Armed =>
                   A53Q \in ArmQ /\ ~isr /\ (A53Q = Nothing => gie)
              /\ a53 = "go" => ~taskDone

\* A job of the A53, polled or waited for.
A53JobInv == /\ a53 \in Waits \cup {"app"}
             /\ a53Armed => a53 = "app"
             /\ taskDone => A53Q = Nothing /\ ~apStart
             /\ a53 = "app" /\ ~a53Armed => A53Q \in PollQ
             /\ a53 # "app" \/ a53Armed =>
                  /\ A53Q \in JobQ
                  /\ A53Q \in {JustStart, Nothing} => gie
                  /\ isr => A53Q = Nothing /\ ~apStart
             /\ a53 = "low" => isr

A53Inv == /\ ~a53Job => A53IdleInv
          /\ a53Job => A53JobInv
          /\ a53 \in Sleeps => uioOn \/ uioEvent

LaneInv == LaneType /\ OwedInv /\ OwnerInv /\ R5Inv /\ A53Inv

LEMMA InitInv == Init => LaneInv
<1> SUFFICES ASSUME Init PROVE LaneInv
  OBVIOUS
<1>1. LaneType
  <2>1. posted \in [Masters -> Seq(Writes)]
    BY EmptySeq DEF Init
  <2> QED
    BY <2>1 DEF Init, LaneType, R5Steps, A53Steps
<1>2. R5Q = Nothing /\ A53Q = Nothing
  BY DEF Init, R5Q, A53Q, Masters, Nothing
<1>3. OwedInv
  BY <1>2, NoStart DEF Init, OwedInv
<1>4. OwnerInv /\ R5Inv /\ A53Inv
  BY <1>2 DEF Init, OwnerInv, R5Inv, R5IdleInv, A53Inv, A53IdleInv, Sleeps
<1> QED
  BY <1>1, <1>3, <1>4 DEF LaneInv

\* What a master posts: its own queue, and nobody else's.
LEMMA PostR5 ==
  ASSUME LaneType, NEW ws \in Seq(Writes), Post("R5", ws)
  PROVE  posted' \in [Masters -> Seq(Writes)] /\ R5Q' = R5Q \o ws /\ A53Q' = A53Q
<1>1. R5Q \o ws \in Seq(Writes)
  BY ConcatProperties DEF LaneType, R5Q, Masters
<1> QED
  BY <1>1 DEF LaneType, Post, R5Q, A53Q, Masters

LEMMA PostA53 ==
  ASSUME LaneType, NEW ws \in Seq(Writes), Post("A53", ws)
  PROVE  posted' \in [Masters -> Seq(Writes)] /\ A53Q' = A53Q \o ws /\ R5Q' = R5Q
<1>1. A53Q \o ws \in Seq(Writes)
  BY ConcatProperties DEF LaneType, A53Q, Masters
<1> QED
  BY <1>1 DEF LaneType, Post, R5Q, A53Q, Masters

-----------------------------------------------------------------------------
(* The steps of the R5.  The lane is its own: the A53 is idle.                *)

\* What is left to show of a step of the R5.
LEMMA R5Kept ==
  ASSUME LaneInv, R5Keeps, a53 = "app" /\ ~a53Job /\ A53Q = Nothing,
         posted' \in [Masters -> Seq(Writes)], A53Q' = A53Q,
         r5' \in R5Steps, armed' \in BOOLEAN, inflight' \in BOOLEAN,
         OwedInv', R5Inv'
  PROVE  LaneInv'
<1>1. LaneType'
  BY DEF LaneInv, LaneType, R5Keeps
<1>2. OwnerInv'
  BY DEF OwnerInv, R5Keeps
<1>3. A53Inv'
  BY DEF LaneInv, A53Inv, A53IdleInv, A53JobInv, R5Keeps, Sleeps
<1> QED
  BY <1>1, <1>2, <1>3 DEF LaneInv

\* Steps that post nothing and start nothing.
R5Quiet == Batch \/ ClearLanded \/ WaitCmd \/ Waited \/ Unmask \/ Wfi \/ WakeUp \/ BatchDone

LEMMA R5QuietStep == ASSUME LaneInv, R5Quiet PROVE LaneInv'
<1>1. /\ a53 = "app" /\ ~a53Job /\ A53Q = Nothing
      /\ R5Keeps /\ UNCHANGED <<posted, owed>>
  <2> USE DEF LaneInv, OwnerInv, R5At
  <2>1. CASE Batch
    BY <2>1 DEF Batch, Landed, A53Q, Nothing
  <2>2. CASE ClearLanded
    BY <2>2 DEF ClearLanded
  <2>3. CASE WaitCmd
    BY <2>3 DEF WaitCmd
  <2>4. CASE Waited
    BY <2>4 DEF Waited, R5Inv, R5IdleInv
  <2>5. CASE Unmask
    BY <2>5 DEF Unmask
  <2>6. CASE Wfi
    BY <2>6 DEF Wfi
  <2>7. CASE WakeUp
    BY <2>7 DEF WakeUp
  <2>8. CASE BatchDone
    BY <2>8 DEF BatchDone
  <2> QED
    BY <2>1, <2>2, <2>3, <2>4, <2>5, <2>6, <2>7, <2>8 DEF R5Quiet
<1>2. R5Q' = R5Q /\ A53Q' = A53Q
  BY <1>1 DEF R5Q, A53Q
<1>3. OwedInv'
  <2>1. CASE Waited
    <3>1. R5Q = Nothing /\ A53Q = Nothing /\ ~apStart
      BY <1>1, <2>1 DEF LaneInv, R5Inv, R5IdleInv, R5JobInv, Waited
    <3> QED
      BY <1>1, <1>2, <3>1, NoStart DEF LaneInv, OwedInv, R5Keeps
  <2>2. CASE ~Waited
    <3>1. inflight' = inflight
      BY <2>2 DEF R5Quiet, Batch, ClearLanded, WaitCmd, Unmask, Wfi, WakeUp, BatchDone
    <3> QED
      BY <1>1, <1>2, <3>1 DEF LaneInv, OwedInv, R5Keeps
  <2> QED
    BY <2>1, <2>2
<1>4. R5Inv'
  <2> USE <1>2 DEF LaneInv, LaneType, R5Inv, R5IdleInv, R5JobInv, R5Keeps, R5At
  <2>0. Landed("R5") => R5Q = Nothing
    BY DEF Landed, R5Q, Nothing
  <2>1. CASE Batch
    BY <2>1 DEF Batch
  <2>2. CASE ClearLanded
    BY <2>2, <2>0 DEF ClearLanded
  <2>3. CASE WaitCmd
    BY <2>3 DEF WaitCmd
  <2>4. CASE Waited
    BY <2>4, NoStart DEF Waited
  <2>5. CASE Unmask
    BY <2>5 DEF Unmask
  <2>6. CASE Wfi
    BY <2>6 DEF Wfi
  <2>7. CASE WakeUp
    BY <2>7 DEF WakeUp
  <2>8. CASE BatchDone
    BY <2>8, <2>0 DEF BatchDone
  <2> QED
    BY <2>1, <2>2, <2>3, <2>4, <2>5, <2>6, <2>7, <2>8 DEF R5Quiet
<1>5. r5' \in R5Steps /\ armed' \in BOOLEAN /\ inflight' \in BOOLEAN
  BY DEF LaneInv, LaneType, R5At, R5Steps, R5Quiet,
         Batch, ClearLanded, WaitCmd, Waited, Unmask, Wfi, WakeUp, BatchDone
<1>6. posted' \in [Masters -> Seq(Writes)]
  BY <1>1 DEF LaneInv, LaneType
<1> QED
  BY <1>1, <1>2, <1>3, <1>4, <1>5, <1>6, R5Kept

LEMMA IrqStartStep == ASSUME LaneInv, IrqStart PROVE LaneInv'
<1>1. /\ r5 = "cmd" /\ ~inflight /\ R5Keeps /\ UNCHANGED <<armed, inflight, owed>>
      /\ a53 = "app" /\ ~a53Job /\ A53Q = Nothing /\ R5Q = Nothing
  BY DEF IrqStart, LaneInv, OwnerInv, R5Inv, R5IdleInv
<1>2. CASE isr
  <2>1. r5' = "clearing" /\ Post("R5", <<"toggleIsr">>)
    BY <1>2 DEF IrqStart
  <2>2. <<"toggleIsr">> \in Seq(Writes)
    BY DEF Writes
  <2>3. posted' \in [Masters -> Seq(Writes)] /\ R5Q' = Toggle /\ A53Q' = A53Q
    BY <1>1, <2>1, <2>2, PostR5, Posts DEF LaneInv
  <2>4. OwedInv'
    BY <1>1, <2>3, NoStart DEF LaneInv, OwedInv, R5Keeps
  <2>5. R5Inv'
    BY <1>1, <1>2, <2>1, <2>3 DEF LaneInv, R5Inv, R5IdleInv, R5Keeps, IrqStart
  <2> QED
    BY <1>1, <2>1, <2>3, <2>4, <2>5, R5Kept DEF LaneInv, LaneType, R5Steps
<1>3. CASE ~isr
  <2>1. r5' = "start" /\ posted' = posted
    BY <1>3 DEF IrqStart
  <2>2. R5Q' = R5Q /\ A53Q' = A53Q
    BY <2>1 DEF R5Q, A53Q
  <2>3. OwedInv'
    BY <1>1, <2>2 DEF LaneInv, OwedInv, R5Keeps
  <2>4. R5Inv'
    BY <1>1, <1>3, <2>1, <2>2 DEF LaneInv, R5Inv, R5IdleInv, R5Keeps
  <2> QED
    BY <1>1, <2>1, <2>2, <2>3, <2>4, R5Kept DEF LaneInv, LaneType, R5Steps
<1> QED
  BY <1>2, <1>3

LEMMA StartStep == ASSUME LaneInv, Start PROVE LaneInv'
<1> DEFINE ws == IF armed THEN <<"start">> ELSE <<"gieOn", "start">>
<1>1. /\ r5 = "start" /\ r5' = "cmd" /\ R5Keeps
      /\ armed' = TRUE /\ inflight' = TRUE /\ owed' = owed + 1 /\ Post("R5", ws)
  BY DEF Start, R5At
<1>2. /\ ~inflight /\ ~isr /\ R5Q = Nothing /\ (armed => gie)
      /\ a53 = "app" /\ ~a53Job /\ A53Q = Nothing
  BY <1>1 DEF LaneInv, OwnerInv, R5Inv, R5IdleInv, R5JobInv
<1>3. ~apStart /\ owed = 0
  BY <1>2 DEF LaneInv, OwedInv
<1>4. ws \in Seq(Writes)
  <2>1. <<"start">> \in Seq(Writes) /\ <<"gieOn", "start">> \in Seq(Writes)
    BY DEF Writes
  <2> QED
    BY <2>1
<1>5. /\ posted' \in [Masters -> Seq(Writes)] /\ A53Q' = A53Q
      /\ R5Q' = IF armed THEN JustStart ELSE OnStart
  <2>1. posted' \in [Masters -> Seq(Writes)] /\ R5Q' = R5Q \o ws /\ A53Q' = A53Q
    <3> HIDE DEF ws
    <3> QED
      BY <1>1, <1>4, PostR5 DEF LaneInv
  <2> QED
    BY <1>2, <2>1, Posts
<1> HIDE DEF ws
<1>6. OwedInv'
  BY <1>1, <1>2, <1>3, <1>5, NoStart DEF OwedInv, R5Keeps
<1>7. R5Inv'
  BY <1>1, <1>2, <1>5 DEF R5Inv, R5JobInv, R5Keeps
<1> QED
  BY <1>1, <1>2, <1>5, <1>6, <1>7, R5Kept DEF R5Steps

LEMMA BatchEndStep == ASSUME LaneInv, BatchEnd PROVE LaneInv'
<1> DEFINE ws == IF armed /\ ~inflight THEN <<"gieOff">> ELSE <<>>
<1>1. /\ r5 = "cmd" /\ r5' = "ending" /\ R5Keeps /\ UNCHANGED <<inflight, owed>>
      /\ armed' = (armed /\ inflight) /\ Post("R5", ws)
  BY DEF BatchEnd, R5At
<1>2. /\ a53 = "app" /\ ~a53Job /\ A53Q = Nothing
      /\ ~inflight => R5Q = Nothing
      /\ inflight => R5Q \in {OnStart, JustStart, Nothing}
  BY <1>1 DEF LaneInv, OwnerInv, R5Inv, R5IdleInv, R5JobInv
<1>3. ws \in Seq(Writes)
  <2>1. <<"gieOff">> \in Seq(Writes) /\ <<>> \in Seq(Writes)
    BY EmptySeq DEF Writes
  <2> QED
    BY <2>1
<1>4. /\ posted' \in [Masters -> Seq(Writes)] /\ A53Q' = A53Q
      /\ R5Q' = IF armed /\ ~inflight THEN Off ELSE R5Q
  <2>1. posted' \in [Masters -> Seq(Writes)] /\ R5Q' = R5Q \o ws /\ A53Q' = A53Q
    <3> HIDE DEF ws
    <3> QED
      BY <1>1, <1>3, PostR5 DEF LaneInv
  <2> QED
    BY <1>2, <2>1, Posts
<1> HIDE DEF ws
<1>5. OwedInv'
  BY <1>1, <1>2, <1>4, NoStart DEF LaneInv, OwedInv, R5Keeps
<1>6. R5Inv'
  BY <1>1, <1>2, <1>4 DEF LaneInv, LaneType, R5Inv, R5IdleInv, R5JobInv, R5Keeps
<1> QED
  BY <1>1, <1>2, <1>4, <1>5, <1>6, R5Kept DEF LaneInv, LaneType, R5Steps

LEMMA KernelIsrStep == ASSUME LaneInv, KernelIsr PROVE LaneInv'
<1>1. R5Q' = R5Q /\ A53Q' = A53Q
  BY DEF KernelIsr, R5Q, A53Q
<1>2. UNCHANGED <<apStart, taskDone, isr, gie, posted, uioOn, uioEvent, r5, armed, inflight,
                  a53, a53Armed, a53Job, owed>>
  BY DEF KernelIsr, R5Keeps
<1>3. LaneType' /\ OwedInv' /\ OwnerInv'
  BY <1>1, <1>2 DEF LaneInv, LaneType, OwedInv, OwnerInv
<1>4. R5Inv'
  BY <1>1, <1>2 DEF LaneInv, R5Inv, R5IdleInv, R5JobInv, KernelIsr
<1>5. A53Inv'
  BY <1>1, <1>2 DEF LaneInv, A53Inv, A53IdleInv, A53JobInv
<1> QED
  BY <1>3, <1>4, <1>5 DEF LaneInv

-----------------------------------------------------------------------------
(* The steps of the A53.  The R5 is idle, and nothing of it left to land.     *)

LEMMA A53Owns ==
  ASSUME LaneInv, a53 # "app" \/ a53Job \/ (r5 = "off" /\ ~inflight)
  PROVE  r5 = "off" /\ ~inflight /\ ~armed /\ R5Q = Nothing
BY DEF LaneInv, OwnerInv, R5Inv, R5IdleInv

\* What is left to show of a step of the A53.
LEMMA A53Kept ==
  ASSUME LaneInv, A53Keeps, r5 = "off" /\ ~inflight, R5Q' = R5Q,
         posted' \in [Masters -> Seq(Writes)],
         a53' \in A53Steps, a53Armed' \in BOOLEAN, a53Job' \in BOOLEAN, taskDone' \in BOOLEAN,
         OwedInv', A53Inv'
  PROVE  LaneInv'
<1>1. LaneType'
  BY DEF LaneInv, LaneType, A53Keeps
<1>2. OwnerInv'
  BY DEF OwnerInv, A53Keeps
<1>3. R5Inv'
  BY DEF LaneInv, R5Inv, R5IdleInv, A53Keeps
<1> QED
  BY <1>1, <1>2, <1>3 DEF LaneInv

\* A step inside a wait.
WaitSteps == Early \/ EarlyTimer \/ SpinIrq \/ SleepIrq \/ PollOver \/ UnmaskFails \/ NoIrq

\* A step that moves on, a step that reads the event, a step that unmasks.
InWait == /\ a53 \in Waits \ {"low"} /\ a53' \in Waits /\ A53Keeps
          /\ UNCHANGED <<taskDone, posted, a53Armed, a53Job, owed>>
          /\ a53' = "low" => isr
          /\ a53' \in Sleeps => uioOn' \/ uioEvent'

LEMMA MovesInWait ==
  ASSUME LaneInv, NEW x \in Waits \ {"low"}, NEW y \in Waits, Moves(x, y),
         y = "low" => isr, y \in Sleeps => x \in Sleeps
  PROVE  InWait
BY DEF InWait, Moves, A53At, LaneInv, A53Inv

LEMMA ConsumesInWait ==
  ASSUME LaneInv, NEW x \in Waits \ {"low"}, NEW y \in Waits, Consumes(x, y),
         y # "low", y \notin Sleeps
  PROVE  InWait
BY DEF InWait, Consumes, A53At

LEMMA UnmasksInWait ==
  ASSUME LaneInv, NEW x \in Waits \ {"low"}, NEW y \in Waits, Unmasks(x, y), y # "low"
  PROVE  InWait
BY DEF InWait, Unmasks, A53At

LEMMA WaitStep == ASSUME LaneInv, WaitSteps PROVE LaneInv'
<1>1. InWait
  <2> USE DEF Waits, A53Steps, Sleeps
  <2>1. CASE Early
    BY <2>1, MovesInWait, ConsumesInWait, UnmasksInWait DEF Early
  <2>2. CASE EarlyTimer
    BY <2>2, MovesInWait DEF EarlyTimer
  <2>3. CASE SpinIrq
    BY <2>3, MovesInWait DEF SpinIrq
  <2>4. CASE SleepIrq
    BY <2>4, MovesInWait, ConsumesInWait, UnmasksInWait DEF SleepIrq
  <2>5. CASE PollOver
    BY <2>5, MovesInWait DEF PollOver
  <2>6. CASE UnmaskFails
    BY <2>6, MovesInWait DEF UnmaskFails
  <2>7. CASE NoIrq
    BY <2>7 DEF NoIrq, A53At, InWait
  <2> QED
    BY <2>1, <2>2, <2>3, <2>4, <2>5, <2>6, <2>7 DEF WaitSteps
<1>2. a53 # "app" /\ a53' # "app" /\ a53' \in A53Steps
  BY <1>1 DEF InWait, Waits
<1>3. a53Job /\ a53Job' /\ r5 = "off" /\ ~inflight
  BY <1>1, <1>2, A53Owns DEF InWait, LaneInv, A53Inv, A53IdleInv, Waits
<1>4. R5Q' = R5Q /\ A53Q' = A53Q
  BY <1>1 DEF InWait, R5Q, A53Q
<1>5. OwedInv'
  BY <1>1, <1>3, <1>4 DEF LaneInv, OwedInv, InWait, A53Keeps
<1>6. A53Inv'
  BY <1>1, <1>2, <1>3, <1>4 DEF LaneInv, A53Inv, A53JobInv, InWait, A53Keeps
<1> QED
  BY <1>1, <1>2, <1>3, <1>4, <1>5, <1>6, A53Kept DEF InWait, LaneInv, LaneType

\* The other steps that post nothing.
A53Quiet == Arming \/ Polling \/ A53ClearLanded \/ ReadApCtrl \/ PollDone \/ WaitIrq

LEMMA A53QuietStep == ASSUME LaneInv, A53Quiet PROVE LaneInv'
<1>1. /\ A53Keeps /\ UNCHANGED <<posted, uioOn, uioEvent, owed>>
      /\ a53' \in {"app", "irqStart", "gie", "Start", "go", "wait"}
  BY DEF A53Quiet, A53At, Arming, Polling, A53ClearLanded, ReadApCtrl, PollDone, WaitIrq
<1>2. r5 = "off" /\ ~inflight /\ R5Q = Nothing
  BY A53Owns DEF A53Quiet, A53At, Arming, Polling, A53ClearLanded, ReadApCtrl, PollDone, WaitIrq
<1>3. R5Q' = R5Q /\ A53Q' = A53Q
  BY <1>1 DEF R5Q, A53Q
<1>4. a53' \in A53Steps /\ a53Armed' \in BOOLEAN /\ a53Job' \in BOOLEAN /\ taskDone' \in BOOLEAN
  BY <1>1 DEF LaneInv, LaneType, A53Steps, A53Quiet, Arming, Polling, A53ClearLanded,
         ReadApCtrl, PollDone, WaitIrq
<1>5. OwedInv'
  <2>1. CASE PollDone
    <3>1. A53Q = Nothing /\ ~apStart
      BY <2>1 DEF PollDone, LaneInv, A53Inv, A53JobInv
    <3> QED
      BY <1>1, <1>2, <1>3, <3>1, NoStart DEF LaneInv, OwedInv, A53Keeps
  <2>2. CASE ~PollDone
    <3>1. a53Job' = a53Job
      BY <2>2 DEF A53Quiet, Arming, Polling, A53ClearLanded, ReadApCtrl, WaitIrq
    <3> QED
      BY <1>1, <1>3, <3>1 DEF LaneInv, OwedInv, A53Keeps
  <2> QED
    BY <2>1, <2>2
<1>6. A53Inv'
  <2> USE <1>1, <1>3 DEF LaneInv, LaneType, A53Inv, A53IdleInv, A53JobInv, A53Keeps, A53At,
          Waits, A53Steps, Sleeps
  <2>1. CASE Arming
    BY <2>1 DEF Arming
  <2>2. CASE Polling
    BY <2>2 DEF Polling
  <2>3. CASE A53ClearLanded
    BY <2>3 DEF A53ClearLanded
  <2>4. CASE ReadApCtrl
    BY <2>4 DEF ReadApCtrl
  <2>5. CASE PollDone
    BY <2>5 DEF PollDone
  <2>6. CASE WaitIrq
    BY <2>6 DEF WaitIrq
  <2> QED
    BY <2>1, <2>2, <2>3, <2>4, <2>5, <2>6 DEF A53Quiet
<1>7. posted' \in [Masters -> Seq(Writes)]
  BY <1>1 DEF LaneInv, LaneType
<1> QED
  BY <1>1, <1>2, <1>3, <1>4, <1>5, <1>6, <1>7, A53Kept

LEMMA A53IrqStartStep == ASSUME LaneInv, A53IrqStart PROVE LaneInv'
<1>1. /\ a53 = "irqStart" /\ A53Keeps
      /\ UNCHANGED <<taskDone, uioOn, uioEvent, a53Armed, a53Job, owed>>
  BY DEF A53IrqStart
<1>2. /\ r5 = "off" /\ ~inflight /\ R5Q = Nothing
      /\ ~a53Job /\ ~a53Armed /\ A53Q \in OffQ
  BY <1>1, A53Owns DEF LaneInv, A53Inv, A53IdleInv, A53JobInv, Waits
<1>3. /\ posted' \in [Masters -> Seq(Writes)] /\ R5Q' = R5Q
      /\ isr  => a53' = "clearing" /\ A53Q' \in ClearQ
      /\ ~isr => a53' = "gie" /\ A53Q' \in GieQ
  <2>1. <<"ierOn", "toggleIsr">> \in Seq(Writes) /\ <<"ierOn">> \in Seq(Writes)
    BY DEF Writes
  <2>2. CASE isr
    <3>1. a53' = "clearing" /\ Post("A53", <<"ierOn", "toggleIsr">>)
      BY <2>2 DEF A53IrqStart
    <3> QED
      BY <1>2, <2>1, <2>2, <3>1, PostA53, Posts DEF LaneInv
  <2>3. CASE ~isr
    <3>1. a53' = "gie" /\ Post("A53", <<"ierOn">>)
      BY <2>3 DEF A53IrqStart
    <3> QED
      BY <1>2, <2>1, <2>3, <3>1, PostA53, Posts DEF LaneInv
  <2> QED
    BY <2>2, <2>3
<1>4. OwedInv'
  BY <1>1, <1>2, <1>3, NoStart DEF LaneInv, OwedInv, A53Keeps
<1>5. a53' \in {"clearing", "gie"}
  BY <1>3
<1>6. A53Inv'
  BY <1>1, <1>2, <1>3, <1>5 DEF A53Inv, A53IdleInv, A53Keeps, Sleeps
<1> QED
  BY <1>1, <1>2, <1>3, <1>4, <1>5, <1>6, A53Kept DEF LaneInv, LaneType, A53Steps

LEMMA RaiseGieStep == ASSUME LaneInv, RaiseGie PROVE LaneInv'
<1>1. /\ a53 = "gie" /\ a53' = "Start" /\ A53Keeps /\ Post("A53", <<"gieOn">>) /\ a53Armed' = TRUE
      /\ UNCHANGED <<taskDone, uioOn, uioEvent, a53Job, owed>>
  BY DEF RaiseGie, A53At
<1>2. /\ r5 = "off" /\ ~inflight /\ R5Q = Nothing
      /\ ~a53Job /\ ~isr /\ A53Q \in GieQ
  BY <1>1, A53Owns DEF LaneInv, A53Inv, A53IdleInv, A53JobInv, Waits
<1>3. /\ posted' \in [Masters -> Seq(Writes)] /\ R5Q' = R5Q
      /\ A53Q' \in ArmQ /\ A53Q' # Nothing
  <2>1. <<"gieOn">> \in Seq(Writes)
    BY DEF Writes
  <2>2. posted' \in [Masters -> Seq(Writes)] /\ R5Q' = R5Q /\ A53Q' = A53Q \o <<"gieOn">>
    BY <1>1, <2>1, PostA53 DEF LaneInv
  <2>3. A53Q' \in {OffIerOn, IerOn, On}
    BY <1>2, <2>2, Posts
  <2> QED
    BY <2>2, <2>3, Lengths
<1>4. OwedInv'
  BY <1>1, <1>2, <1>3, NoStart DEF LaneInv, OwedInv, A53Keeps
<1>5. A53Inv'
  BY <1>1, <1>2, <1>3 DEF A53Inv, A53IdleInv, A53Keeps, Sleeps
<1> QED
  BY <1>1, <1>2, <1>3, <1>4, <1>5, A53Kept DEF LaneInv, LaneType, A53Steps

LEMMA WriteApStartStep == ASSUME LaneInv, WriteApStart PROVE LaneInv'
<1>1. /\ a53 = "go" /\ a53' = "app" /\ A53Keeps /\ Post("A53", <<"start">>)
      /\ a53Job' = TRUE /\ owed' = owed + 1
      /\ UNCHANGED <<taskDone, uioOn, uioEvent, a53Armed>>
  BY DEF WriteApStart, A53At
<1>2. /\ r5 = "off" /\ ~inflight /\ R5Q = Nothing
      /\ ~a53Job /\ ~taskDone
      /\ ~a53Armed => A53Q \in OffQ
      /\ a53Armed => A53Q \in ArmQ /\ ~isr /\ (A53Q = Nothing => gie)
  BY <1>1, A53Owns DEF LaneInv, A53Inv, A53IdleInv, A53JobInv, Waits
<1>3. ~apStart /\ owed = 0
  BY <1>2 DEF LaneInv, OwedInv
<1>4. /\ posted' \in [Masters -> Seq(Writes)] /\ R5Q' = R5Q
      /\ ~a53Armed => A53Q' \in {OffStart, JustStart}
      /\ a53Armed => /\ A53Q' \in {OffIerOnStart, IerOnStart, OnStart, JustStart}
                     /\ A53Q' = JustStart => gie
  <2>1. <<"start">> \in Seq(Writes)
    BY DEF Writes
  <2>2. posted' \in [Masters -> Seq(Writes)] /\ R5Q' = R5Q /\ A53Q' = A53Q \o <<"start">>
    BY <1>1, <2>1, PostA53 DEF LaneInv
  <2>3. JustStart \notin {OffIerOnStart, IerOnStart, OnStart}
    <3>1. Len(JustStart) = 1 /\ Len(OffIerOnStart) = 4 /\ Len(IerOnStart) = 3 /\ Len(OnStart) = 2
      BY Lengths
    <3> QED
      BY <3>1
  <2>4. ~a53Armed => A53Q' \in {OffStart, JustStart}
    BY <1>2, <2>2, Posts
  <2>5. a53Armed => \/ A53Q' \in {OffIerOnStart, IerOnStart, OnStart}
                    \/ A53Q' = JustStart /\ gie
    BY <1>2, <2>2, Posts
  <2> QED
    BY <2>2, <2>3, <2>4, <2>5
<1>5. A53Q' \in StartQ
  BY <1>4 DEF LaneInv, LaneType
<1>6. OwedInv'
  BY <1>1, <1>2, <1>3, <1>4, <1>5, NoStart DEF OwedInv, A53Keeps
<1>7. A53Inv'
  BY <1>1, <1>2, <1>3, <1>4, <1>5, NoStart DEF LaneInv, LaneType, A53Inv, A53JobInv, A53Keeps, Sleeps
<1> QED
  BY <1>1, <1>2, <1>4, <1>6, <1>7, A53Kept DEF LaneInv, LaneType, A53Steps

LEMMA LowStep == ASSUME LaneInv, Low PROVE LaneInv'
<1>1. /\ a53 = "low" /\ a53' = "app" /\ A53Keeps /\ Post("A53", <<"gieOff">>)
      /\ a53Job' = FALSE
      /\ UNCHANGED <<taskDone, uioOn, uioEvent, a53Armed, owed>>
  BY DEF Low, A53At
<1>2. /\ r5 = "off" /\ ~inflight /\ R5Q = Nothing
      /\ a53Job /\ ~a53Armed /\ A53Q = Nothing /\ ~apStart
  BY <1>1, A53Owns DEF LaneInv, LaneType, A53Inv, A53IdleInv, A53JobInv
<1>3. posted' \in [Masters -> Seq(Writes)] /\ R5Q' = R5Q /\ A53Q' = Off
  <2>1. <<"gieOff">> \in Seq(Writes)
    BY DEF Writes
  <2> QED
    BY <1>1, <1>2, <2>1, PostA53, Posts DEF LaneInv
<1>4. OwedInv'
  BY <1>1, <1>2, <1>3, NoStart DEF LaneInv, OwedInv, A53Keeps
<1>5. A53Inv'
  BY <1>1, <1>2, <1>3 DEF A53Inv, A53IdleInv, A53Keeps, Sleeps
<1> QED
  BY <1>1, <1>2, <1>3, <1>4, <1>5, A53Kept DEF LaneInv, LaneType, A53Steps

-----------------------------------------------------------------------------
(* The registers.                                                            *)

\* The oldest write of m lands: m's queue is one shorter, and nothing else moves.
LEMMA Lands ==
  ASSUME LaneType, NEW m \in Masters, Land(m)
  PROVE  /\ posted[m] # Nothing /\ LandsCtrl(Head(posted[m]))
         /\ posted' \in [Masters -> Seq(Writes)]
         /\ posted'[m] = Tail(posted[m])
         /\ \A o \in Masters \ {m} : posted'[o] = posted[o]
         /\ UNCHANGED <<lines, r5Vars, a53Vars, owed>>
<1>1. posted[m] \in Seq(Writes) /\ posted[m] # <<>>
  BY DEF Land, LaneType
<1>2. Tail(posted[m]) \in Seq(Writes)
  BY <1>1, HeadTailProperties
<1> QED
  BY <1>1, <1>2 DEF Land, LaneType, Nothing

\* What a write does to the registers.
LEMMA Effects ==
  ASSUME LaneType, NEW q, LandsCtrl(Head(q))
  PROVE  /\ q \in {Off, OffIer, OffIerToggle, OffIerOn, OffIerOnStart, OffStart} =>
              gie' = FALSE /\ isr' = isr /\ apStart' = apStart
         /\ q \in {Ier, IerToggle, IerOn, IerOnStart} =>
              gie' = gie /\ isr' = isr /\ apStart' = apStart
         /\ q = Toggle => gie' = gie /\ isr' = ~isr /\ apStart' = apStart
         /\ q \in {On, OnStart} => gie' = TRUE /\ isr' = isr /\ apStart' = apStart
         /\ q = JustStart => gie' = gie /\ isr' = isr /\ apStart' = TRUE
<1> USE Heads DEF LandsCtrl, LaneType
<1>1. q \in {Off, OffIer, OffIerToggle, OffIerOn, OffIerOnStart, OffStart} =>
        gie' = FALSE /\ isr' = isr /\ apStart' = apStart
  OBVIOUS
<1>2. q \in {Ier, IerToggle, IerOn, IerOnStart} =>
        gie' = gie /\ isr' = isr /\ apStart' = apStart
  OBVIOUS
<1>3. q = Toggle => gie' = gie /\ isr' = ~isr /\ apStart' = apStart
  OBVIOUS
<1>4. q \in {On, OnStart} => gie' = TRUE /\ isr' = isr /\ apStart' = apStart
  OBVIOUS
<1>5. q = JustStart => gie' = gie /\ isr' = isr /\ apStart' = TRUE
  OBVIOUS
<1> QED
  BY <1>1, <1>2, <1>3, <1>4, <1>5

LEMMA LandR5Step == ASSUME LaneInv, Land("R5") PROVE LaneInv'
<1>1. /\ R5Q # Nothing /\ LandsCtrl(Head(R5Q)) /\ R5Q' = Tail(R5Q) /\ A53Q' = A53Q
      /\ posted' \in [Masters -> Seq(Writes)]
      /\ UNCHANGED <<r5Line, uioOn, uioEvent, r5, armed, inflight, a53, a53Armed, a53Job, owed>>
  <2>1. "R5" \in Masters /\ "A53" \in Masters \ {"R5"}
    BY DEF Masters
  <2> QED
    BY <2>1, Lands DEF LaneInv, R5Q, A53Q
<1>2. a53 = "app" /\ ~a53Job /\ A53Q = Nothing
  BY <1>1 DEF LaneInv, OwnerInv, R5Inv, R5IdleInv
<1>3. \/ ~inflight /\ r5 = "clearing" /\ R5Q = Toggle /\ isr
      \/ ~inflight /\ r5 = "ending" /\ R5Q = Off
      \/ inflight /\ R5Q = OnStart
      \/ inflight /\ R5Q = JustStart /\ gie
  BY <1>1 DEF LaneInv, LaneType, R5Inv, R5IdleInv, R5JobInv
<1>4. LaneType' /\ OwnerInv'
  BY <1>1, <1>2 DEF LaneInv, LaneType, OwnerInv, LandsCtrl
<1>5. OwedInv' /\ R5Inv'
  <2> USE <1>1, <1>2, Heads, NoStart
       DEF LaneInv, LaneType, OwedInv, R5Inv, R5IdleInv, R5JobInv, LandsCtrl
  <2>1. CASE ~inflight /\ r5 = "clearing" /\ R5Q = Toggle /\ isr
    BY <2>1
  <2>2. CASE ~inflight /\ r5 = "ending" /\ R5Q = Off
    BY <2>2
  <2>3. CASE inflight /\ R5Q = OnStart
    BY <2>3
  <2>4. CASE inflight /\ R5Q = JustStart /\ gie
    BY <2>4
  <2> QED
    BY <1>3, <2>1, <2>2, <2>3, <2>4
<1>6. A53Inv'
  BY <1>1, <1>2 DEF LaneInv, A53Inv, A53IdleInv, LandsCtrl, Sleeps
<1> QED
  BY <1>4, <1>5, <1>6 DEF LaneInv

LEMMA LandA53Step == ASSUME LaneInv, Land("A53") PROVE LaneInv'
<1>1. /\ A53Q # Nothing /\ LandsCtrl(Head(A53Q)) /\ A53Q' = Tail(A53Q) /\ R5Q' = R5Q
      /\ posted' \in [Masters -> Seq(Writes)]
      /\ UNCHANGED <<r5Line, uioOn, uioEvent, r5, armed, inflight, a53, a53Armed, a53Job, owed>>
  <2>1. "A53" \in Masters /\ "R5" \in Masters \ {"A53"}
    BY DEF Masters
  <2> QED
    BY <2>1, Lands DEF LaneInv, R5Q, A53Q
<1>2. /\ r5 = "off" /\ ~inflight /\ ~armed /\ R5Q = Nothing
  BY <1>1, A53Owns DEF LaneInv, OwnerInv
<1>3. LaneType' /\ OwnerInv' /\ R5Inv'
  BY <1>1, <1>2 DEF LaneInv, LaneType, OwnerInv, R5Inv, R5IdleInv, LandsCtrl
<1>4. taskDone' = taskDone
  BY <1>1 DEF LandsCtrl
<1>5. CASE ~a53Job
  <2>1. A53Q \in {Off, OffIer, Ier, OffIerToggle, IerToggle, Toggle, OffIerOn, IerOn, On}
    BY <1>1, <1>5 DEF LaneInv, A53Inv, A53IdleInv
  <2>2. apStart' = apStart /\ A53Q \notin StartQ /\ A53Q' \notin StartQ
    BY <1>1, <2>1, Effects, Heads, NoStart DEF LaneInv
  <2>3. OwedInv'
    BY <1>1, <2>2 DEF LaneInv, OwedInv
  <2>4. A53IdleInv'
    <3>1. CASE a53 \in {"app", "irqStart"} \/ (a53 \in {"Start", "go"} /\ ~a53Armed)
      <4>1. A53Q = Off /\ A53Q' = Nothing
        BY <1>1, <1>5, <3>1, Heads DEF LaneInv, A53Inv, A53IdleInv
      <4> QED
        BY <1>1, <1>4, <1>5, <3>1, <4>1 DEF LaneInv, A53Inv, A53IdleInv
    <3>2. CASE a53 = "clearing"
      <4>1. A53Q \in ClearQ /\ isr
        BY <1>1, <1>5, <3>2 DEF LaneInv, A53Inv, A53IdleInv
      <4>2. \/ A53Q' \in ClearQ /\ isr'
            \/ A53Q' = Nothing /\ ~isr'
        BY <1>1, <4>1, Effects, Heads DEF LaneInv
      <4> QED
        BY <1>1, <1>5, <3>2, <4>2 DEF LaneInv, A53Inv, A53IdleInv
    <3>3. CASE a53 = "gie"
      <4>1. A53Q \in {OffIer, Ier} /\ ~isr
        BY <1>1, <1>5, <3>3 DEF LaneInv, A53Inv, A53IdleInv
      <4>2. A53Q' \in GieQ /\ ~isr'
        BY <1>1, <4>1, Effects, Heads DEF LaneInv
      <4> QED
        BY <1>1, <1>5, <3>3, <4>2 DEF LaneInv, A53Inv, A53IdleInv
    <3>4. CASE a53 \in {"Start", "go"} /\ a53Armed
      <4>1. A53Q \in {OffIerOn, IerOn, On} /\ ~isr
        BY <1>1, <1>5, <3>4 DEF LaneInv, A53Inv, A53IdleInv
      <4>2. A53Q' \in ArmQ /\ ~isr' /\ (A53Q' = Nothing => gie')
        <5>1. CASE A53Q = On
          BY <1>1, <4>1, <5>1, Effects, Heads DEF LaneInv
        <5>2. CASE A53Q \in {OffIerOn, IerOn}
          <6>1. A53Q' \in {IerOn, On} /\ isr' = isr
            BY <1>1, <5>2, Effects, Heads DEF LaneInv
          <6>2. A53Q' # Nothing
            BY <6>1, Lengths
          <6> QED
            BY <4>1, <6>1, <6>2
        <5> QED
          BY <4>1, <5>1, <5>2
      <4> QED
        BY <1>1, <1>4, <1>5, <3>4, <4>2 DEF LaneInv, A53Inv, A53IdleInv
    <3> QED
      BY <1>5, <3>1, <3>2, <3>3, <3>4 DEF LaneInv, A53Inv, A53IdleInv
  <2> QED
    BY <1>1, <1>3, <1>5, <2>3, <2>4 DEF LaneInv, A53Inv
<1>6. CASE a53Job
  <2>1. A53Q \in StartQ /\ ~apStart /\ owed = 1
    BY <1>1, <1>6 DEF LaneInv, OwedInv, A53Inv, A53JobInv
  <2>2. \/ apStart' = apStart /\ A53Q' \in StartQ
        \/ apStart' = TRUE /\ A53Q' = Nothing
    BY <1>1, <2>1, Effects, Heads DEF LaneInv
  <2>3. OwedInv'
    <3>1. owed' = 1 /\ a53Job' /\ R5Q' \notin StartQ
      BY <1>1, <1>2, <1>6, <2>1, NoStart
    <3>2. CASE apStart' = apStart /\ A53Q' \in StartQ
      BY <2>1, <3>1, <3>2 DEF OwedInv
    <3>3. CASE apStart' = TRUE /\ A53Q' = Nothing
      <4>1. A53Q' \notin StartQ
        BY <3>3, NoStart
      <4> QED
        BY <3>1, <3>3, <4>1 DEF OwedInv
    <3> QED
      BY <2>2, <3>2, <3>3
  <2>4. ~taskDone'
    BY <1>1, <1>4, <1>6 DEF LaneInv, A53Inv, A53JobInv
  <2>5. CASE a53 = "app" /\ ~a53Armed
    <3>1. A53Q \in {OffStart, JustStart}
      BY <1>1, <1>6, <2>5 DEF LaneInv, A53Inv, A53JobInv
    <3>2. A53Q' \in PollQ
      BY <1>1, <3>1, Heads
    <3> QED
      BY <1>1, <1>3, <1>6, <2>3, <2>4, <2>5, <3>2 DEF LaneInv, A53Inv, A53JobInv, Sleeps
  <2>6. CASE a53 # "app" \/ a53Armed
    <3>1. A53Q \in JobQ \ {Nothing} /\ ~isr /\ (A53Q = JustStart => gie)
      BY <1>1, <1>6, <2>6 DEF LaneInv, A53Inv, A53JobInv
    <3>2. A53Q' \in JobQ /\ ~isr'
      BY <1>1, <3>1, Effects, Heads DEF LaneInv
    <3>3. A53Q' \in {JustStart, Nothing} => gie'
      <4>1. IerOnStart \notin {JustStart, Nothing} /\ OnStart \notin {JustStart, Nothing}
        BY Lengths
      <4> QED
        BY <1>1, <3>1, <4>1, Effects, Heads DEF LaneInv
    <3>4. a53 # "low"
      BY <1>6, <3>1 DEF LaneInv, A53Inv, A53JobInv
    <3> QED
      BY <1>1, <1>3, <1>6, <2>3, <2>4, <2>6, <3>2, <3>3, <3>4
         DEF LaneInv, A53Inv, A53JobInv, Sleeps
  <2> QED
    BY <2>5, <2>6
<1> QED
  BY <1>5, <1>6

\* The end of the job: nothing is left to land, and the owner may read it.
LEMMA FinishStep == ASSUME LaneInv, Finish PROVE LaneInv'
<1>1. R5Q' = R5Q /\ A53Q' = A53Q
  BY DEF Finish, R5Q, A53Q
<1>2. /\ apStart /\ apStart' = FALSE /\ taskDone' = TRUE /\ isr' = (isr \/ ier)
      /\ owed' = owed - 1
      /\ UNCHANGED <<gie, posted, r5Line, uioOn, uioEvent, r5, armed, inflight,
                     a53, a53Armed, a53Job>>
  BY DEF Finish
<1>3. /\ owed = 1 /\ R5Q \notin StartQ /\ A53Q \notin StartQ /\ (inflight \/ a53Job)
  BY <1>2 DEF LaneInv, OwedInv
<1>4. LaneType' /\ OwedInv' /\ OwnerInv'
  <2>1. isr' \in BOOLEAN
    BY <1>2
  <2>2. LaneType'
    BY <1>2, <2>1 DEF LaneInv, LaneType
  <2>3. OwedInv'
    BY <1>1, <1>2, <1>3 DEF OwedInv
  <2>4. OwnerInv'
    BY <1>1, <1>2 DEF LaneInv, OwnerInv
  <2> QED
    BY <2>2, <2>3, <2>4
<1>5. R5Inv'
  <2>1. inflight => R5Q = Nothing
    BY <1>3 DEF LaneInv, R5Inv, R5JobInv
  <2>2. ~inflight => r5 = "off"
    BY <1>3 DEF LaneInv, OwnerInv
  <2> QED
    BY <1>1, <1>2, <2>1, <2>2 DEF LaneInv, R5Inv, R5IdleInv, R5JobInv
<1>6. A53Inv'
  <2>1. a53Job => A53Q = Nothing
    BY <1>3 DEF LaneInv, A53Inv, A53JobInv
  <2>2. ~a53Job => a53 = "app" /\ A53Q = Nothing
    BY <1>3 DEF LaneInv, OwnerInv
  <2> QED
    BY <1>1, <1>2, <2>1, <2>2 DEF LaneInv, LaneType, A53Inv, A53IdleInv, A53JobInv
<1> QED
  BY <1>4, <1>5, <1>6 DEF LaneInv

LEMMA UioFiresStep == ASSUME LaneInv, UioFires PROVE LaneInv'
<1>1. R5Q' = R5Q /\ A53Q' = A53Q
  BY DEF UioFires, R5Q, A53Q
<1>2. /\ uioEvent'
      /\ UNCHANGED <<apStart, taskDone, isr, gie, posted, r5Line, r5, armed, inflight,
                     a53, a53Armed, a53Job, owed>>
  BY DEF UioFires
<1>3. LaneType' /\ OwedInv' /\ OwnerInv' /\ R5Inv'
  BY <1>1, <1>2 DEF LaneInv, LaneType, OwedInv, OwnerInv, R5Inv, R5IdleInv, R5JobInv
<1>4. A53Inv'
  BY <1>1, <1>2 DEF LaneInv, A53Inv, A53IdleInv, A53JobInv
<1> QED
  BY <1>3, <1>4 DEF LaneInv

-----------------------------------------------------------------------------
(* The theorems.                                                             *)

LEMMA NextInv == ASSUME LaneInv, [Next]_vars PROVE LaneInv'
<1>1. CASE \E m \in Masters : Land(m)
  BY <1>1, LandR5Step, LandA53Step DEF Masters
<1>2. CASE Finish \/ UioFires \/ KernelIsr
  BY <1>2, FinishStep, UioFiresStep, KernelIsrStep
<1>3. CASE Batch \/ R5Start \/ R5Wait \/ R5Batch
  BY <1>3, R5QuietStep, IrqStartStep, StartStep, BatchEndStep
     DEF R5Quiet, R5Start, R5Wait, R5Batch
<1>4. CASE Arming \/ Polling \/ A53Start \/ A53Wait \/ EarlyTimer \/ PollOver \/ UnmaskFails
  BY <1>4, WaitStep, A53QuietStep, A53IrqStartStep, RaiseGieStep, WriteApStartStep, LowStep
     DEF WaitSteps, A53Quiet, A53Start, A53Wait
<1>5. CASE UNCHANGED vars
  <2>1. R5Q' = R5Q /\ A53Q' = A53Q
    BY <1>5 DEF R5Q, A53Q
  <2>2. LaneType' /\ OwedInv' /\ OwnerInv'
    BY <1>5, <2>1 DEF LaneInv, LaneType, OwedInv, OwnerInv
  <2>3. R5Inv' /\ A53Inv'
    BY <1>5, <2>1 DEF LaneInv, R5Inv, R5IdleInv, R5JobInv, A53Inv, A53IdleInv, A53JobInv
  <2> QED
    BY <2>2, <2>3 DEF LaneInv
<1> QED
  BY <1>1, <1>2, <1>3, <1>4, <1>5 DEF Next

\* The lane has one owner at a time, and what its owner still has on the way to the
\* registers is what the place it is at allows.
THEOREM LaneInvariant == Spec => []LaneInv
<1>1. Init => LaneInv
  BY InitInv
<1>2. LaneInv /\ [Next]_vars => LaneInv'
  BY NextInv
<1> QED
  BY <1>1, <1>2, PTL DEF Spec

\* A wait returns only when the job it waits for has ended: no completion of an earlier
\* job, of either master, is read as this one's.
THEOREM WaitsForThisJob == Spec => []WaitIsForThisJob
<1>1. LaneInv => WaitIsForThisJob
  <2> SUFFICES ASSUME LaneInv, owed > 0 PROVE inflight \/ (a53Job /\ a53 # "low")
    BY DEF WaitIsForThisJob
  <2>1. owed = 1
    BY DEF LaneInv, OwedInv
  <2>2. inflight \/ a53Job
    BY <2>1 DEF LaneInv, OwedInv
  <2>3. ASSUME ~inflight, a53 = "low" PROVE FALSE
    <3>1. r5 = "off" /\ R5Q = Nothing
      BY <2>3, A53Owns
    <3>2. A53Q = Nothing /\ ~apStart
      BY <2>2, <2>3 DEF LaneInv, LaneType, A53Inv, A53JobInv
    <3> QED
      BY <2>1, <3>1, <3>2, NoStart DEF LaneInv, OwedInv
  <2> QED
    BY <2>2, <2>3
<1> QED
  BY <1>1, LaneInvariant, PTL

\* The firmware never sleeps over a finished job: GIE has landed before the job can end,
\* and the line is unmasked before the ISR is read for the last time.
THEOREM FirmwareIsWoken == Spec => []NoLostLine
<1>1. LaneInv => NoLostLine
  <2> SUFFICES ASSUME LaneInv, r5 = "wfi", isr PROVE Line /\ r5Line
    BY DEF NoLostLine
  <2>1. inflight
    BY DEF LaneInv, R5Inv, R5IdleInv
  <2>2. R5Q = Nothing
    BY <2>1 DEF LaneInv, R5Inv, R5JobInv
  <2>3. gie
    BY <2>1, <2>2, NoStart DEF LaneInv, R5Inv, R5JobInv
  <2> QED
    BY <2>3 DEF LaneInv, R5Inv, Line
<1> QED
  BY <1>1, LaneInvariant, PTL

\* The library never sleeps over a finished job: its descriptor has the event, or the
\* line is up and will fire.
THEOREM LibraryIsWoken == Spec => []NoMissedSleep
<1>1. LaneInv => NoMissedSleep
  <2> SUFFICES ASSUME LaneInv, a53 \in {"sleep", "earlySleep"}, isr
               PROVE  uioEvent \/ (Line /\ uioOn)
    BY DEF NoMissedSleep
  <2>1. a53Job
    BY DEF LaneInv, A53Inv, A53IdleInv
  <2>2. gie
    BY <2>1 DEF LaneInv, A53Inv, A53JobInv
  <2>3. uioOn \/ uioEvent
    BY DEF LaneInv, A53Inv, Sleeps
  <2> QED
    BY <2>2, <2>3 DEF Line
<1> QED
  BY <1>1, LaneInvariant, PTL

-----------------------------------------------------------------------------
(* A job is a remote call.                                                    *)

\* A step that neither starts, nor ends, nor returns from a job is invisible.
LEMMA CallStutters ==
  ASSUME UNCHANGED <<inflight, a53Job, owed>>
  PROVE  UNCHANGED Call!callVars
BY DEF Call!callVars, InCall

LEMMA CallStep == ASSUME LaneInv, [Next]_vars PROVE [Call!CallNext]_(Call!callVars)
<1>1. inflight \in BOOLEAN /\ a53Job \in BOOLEAN /\ owed \in {0, 1}
  BY DEF LaneInv, LaneType, OwedInv
<1>2. CASE Start
  <2>1. ~inflight /\ ~a53Job
    BY <1>2 DEF Start, R5At, LaneInv, OwnerInv, R5Inv, R5JobInv
  <2>2. owed = 0 /\ inflight' = TRUE /\ owed' = owed + 1
    BY <1>2, <2>1 DEF Start, LaneInv, OwedInv
  <2>3. Call!Call("R5")
    BY <2>1, <2>2 DEF Call!Call, InCall
  <2> QED
    BY <2>3 DEF Call!CallNext, Masters
<1>3. CASE WriteApStart
  <2>1. ~inflight /\ ~a53Job
    BY <1>3, A53Owns DEF WriteApStart, A53At, LaneInv, A53Inv, A53JobInv, Waits
  <2>2. owed = 0 /\ inflight' = inflight /\ a53Job' = TRUE /\ owed' = owed + 1
    BY <1>3, <2>1 DEF WriteApStart, A53Keeps, LaneInv, OwedInv
  <2>3. Call!Call("A53")
    BY <2>1, <2>2 DEF Call!Call, InCall
  <2> QED
    BY <2>3 DEF Call!CallNext, Masters
<1>4. CASE Finish
  <2>1. owed = 1 /\ InCall
    BY <1>4 DEF Finish, LaneInv, OwedInv, InCall
  <2>2. owed' = 0 /\ inflight' = inflight /\ a53Job' = a53Job
    BY <1>4, <2>1 DEF Finish
  <2>3. Call!Serve
    BY <2>1, <2>2 DEF Call!Serve, InCall
  <2> QED
    BY <2>3 DEF Call!CallNext
<1>5. CASE Waited
  <2>1. inflight /\ ~a53Job /\ R5Q = Nothing /\ A53Q = Nothing /\ ~apStart
    BY <1>5 DEF Waited, LaneInv, LaneType, OwnerInv, R5Inv, R5IdleInv, R5JobInv
  <2>2. owed = 0 /\ inflight' = FALSE /\ a53Job' = a53Job /\ owed' = owed
    BY <1>5, <2>1, NoStart DEF Waited, R5Keeps, LaneInv, OwedInv
  <2>3. Call!Return
    BY <2>1, <2>2 DEF Call!Return, InCall
  <2> QED
    BY <2>3 DEF Call!CallNext
<1>6. CASE PollDone \/ Low
  <2>1. a53Job /\ ~inflight /\ R5Q = Nothing /\ A53Q = Nothing /\ ~apStart
    BY <1>6, A53Owns DEF PollDone, Low, A53At, LaneInv, LaneType, A53Inv, A53IdleInv, A53JobInv
  <2>2. owed = 0 /\ a53Job' = FALSE /\ inflight' = inflight /\ owed' = owed
    BY <1>6, <2>1, NoStart DEF PollDone, Low, A53Keeps, LaneInv, OwedInv
  <2>3. Call!Return
    BY <2>1, <2>2 DEF Call!Return, InCall
  <2> QED
    BY <2>3 DEF Call!CallNext
<1>7. CASE ~(Start \/ WriteApStart \/ Finish \/ Waited \/ PollDone \/ Low)
  <2>1. UNCHANGED <<inflight, a53Job, owed>>
    <3>1. CASE \E m \in Masters : Land(m)
      BY <3>1 DEF Land
    <3>2. CASE UioFires \/ KernelIsr
      BY <3>2 DEF UioFires, KernelIsr, R5Keeps
    <3>3. CASE Batch \/ ClearLanded \/ Unmask \/ Wfi \/ WakeUp
      BY <3>3 DEF Batch, ClearLanded, Unmask, Wfi, WakeUp, R5Keeps
    <3>4. CASE IrqStart \/ WaitCmd \/ BatchEnd \/ BatchDone
      BY <3>4 DEF IrqStart, WaitCmd, BatchEnd, BatchDone, R5Keeps
    <3>5. CASE Arming \/ Polling \/ A53IrqStart \/ A53ClearLanded \/ RaiseGie \/ ReadApCtrl
      BY <3>5 DEF Arming, Polling, A53IrqStart, A53ClearLanded, RaiseGie, ReadApCtrl, A53Keeps
    <3>6. CASE WaitIrq \/ NoIrq
      BY <3>6 DEF WaitIrq, NoIrq, A53Keeps
    <3>7. CASE Early \/ EarlyTimer \/ SpinIrq \/ SleepIrq \/ PollOver \/ UnmaskFails
      BY <3>7 DEF Early, EarlyTimer, SpinIrq, SleepIrq, PollOver, UnmaskFails, Moves, Consumes,
             Unmasks, A53Keeps
    <3>8. CASE UNCHANGED vars
      BY <3>8
    <3> QED
      BY <1>7, <3>1, <3>2, <3>3, <3>4, <3>5, <3>6, <3>7, <3>8
         DEF Next, R5Start, R5Wait, R5Batch, A53Start, A53Wait
  <2> QED
    BY <2>1, CallStutters
<1> QED
  BY <1>2, <1>3, <1>4, <1>5, <1>6, <1>7

\* A job is served once, and its wait returns only then, for the master that started it.
THEOREM JobIsRemoteCall == Spec => IsRemoteCall
<1>1. Init => Call!CallInit
  BY DEF Init, Call!CallInit, InCall
<1>2. LaneInv /\ [Next]_vars => [Call!CallNext]_(Call!callVars)
  BY CallStep
<1> QED
  BY <1>1, <1>2, LaneInvariant, PTL DEF Spec, IsRemoteCall, Call!CallSafety
=============================================================================
