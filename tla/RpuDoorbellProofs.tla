-------------------------- MODULE RpuDoorbellProofs --------------------------
(***************************************************************************)
(* Proofs about RpuDoorbell, for every set of libraries, batch length,       *)
(* counter width and number of timeouts.                                     *)
(***************************************************************************)
EXTENDS RpuDoorbell, TLAPS

USE DEF vars, ctrlVars, ringVars, irqVars, a53Vars, r5Vars

-----------------------------------------------------------------------------
(* Type correctness.                                                         *)

LEMMA PostsType ==
  ASSUME WordsOK(out), NEW w \in Words, NEW v, Posts(w, v),
         \/ w = "args" /\ v \in Libs \cup {NoLib}
         \/ w \in {"cmd_seq", "done_seq"} /\ v \in Seqs
         \/ w \in {"wake", "a53_rings", "rc", "r5_sleeping"} /\ v \in {0, 1}
  PROVE  WordsOK(out)'
<1>1. v \in Nat \cup Libs \cup {NoLib}
  BY CountAssumption DEF Seqs
<1> QED
  BY <1>1 DEF WordsOK, Posts, Words, A53Words, R5Words

LEMMA NextSeqType == ASSUME NEW s \in Seqs PROVE NextSeq(s) \in Seqs /\ NextSeq(s) # s
  BY CountAssumption DEF NextSeq, Seqs

\* A command the R5 may take or is replaying names a ring.
ArgsNamed == /\ a53 \notin {"app", "attach"} => lib \in attached
             /\ mem["args"] \in Libs => out["args"] \in Libs
             /\ a53 = "submit" => out["args"] \in Libs
             /\ \/ mem["cmd_seq"] # seen \/ out["cmd_seq"] # mem["cmd_seq"]
                \/ r5 \in {"batch", "replay"}
                => mem["args"] \in Libs
             /\ r5 = "replay" => from \in Libs

TypeInv == TypeOK /\ ArgsNamed

LEMMA InitType == Init => TypeInv
<1> SUFFICES ASSUME Init PROVE TypeInv
  OBVIOUS
<1> USE DEF Init
<1>1. WordsOK(mem) /\ WordsOK(out)
  BY CountAssumption DEF WordsOK, Words, A53Words, R5Words, Seqs
<1>2. ring \in [Libs -> [Idx -> 0 .. Tags - 1]] /\ ringOut \in [Libs -> [Idx -> 0 .. Tags - 1]]
  BY CountAssumption
<1>3. /\ seq \in Seqs /\ seen \in Seqs /\ late \in 0 .. MaxLate /\ tag \in 0 .. Tags - 1
      /\ pos \in 0 .. BatchWords
  BY CountAssumption DEF Seqs
<1>4. replayed \in Seq(0 .. Tags - 1) /\ Len(replayed) = pos /\ served \in Nat
  OBVIOUS
<1>5. ArgsNamed
  BY DEF ArgsNamed, Words, A53Words, R5Words
<1> QED
  BY <1>1, <1>2, <1>3, <1>4, <1>5 DEF TypeInv, TypeOK, A53Steps, R5Steps

LEMMA A53Type == TypeOK /\ A53Step => TypeOK'
<1> SUFFICES ASSUME TypeOK, A53Step PROVE TypeOK'
  OBVIOUS
<1> USE DEF TypeOK, A53At, A53Reads, A53Steps, WordsOK
<1>1. ASSUME NEW l \in Libs, Attach(l) PROVE TypeOK'
  <2>1. WordsOK(out)'
    BY <1>1, PostsType DEF Attach, Words, A53Words
  <2> QED
    BY <1>1, <2>1 DEF Attach, A53Dev, WordsOK
<1>2. ASSUME NEW l \in Libs, Detach(l) PROVE TypeOK'
  BY <1>2 DEF Detach
<1>3. ASSUME NEW l \in Libs, Record(l) PROVE TypeOK'
  BY <1>3, CountAssumption DEF Record
<1>4. CASE WriteArgs
  <2>1. WordsOK(out)'
    BY <1>4, PostsType DEF WriteArgs, Words, A53Words
  <2> QED
    BY <1>4, <2>1 DEF WriteArgs, WordsOK
<1>5. CASE Submit
  <2>1. seq' \in Seqs
    BY <1>5, NextSeqType DEF Submit, WordsOK
  <2>2. WordsOK(out)'
    BY <1>5, <2>1, PostsType DEF Submit, Words, A53Words
  <2> QED
    BY <1>5, <2>1, <2>2 DEF Submit, WordsOK
<1>6. CASE Ring
  BY <1>6 DEF Ring, A53Dev
<1>7. CASE AskWake
  <2>1. WordsOK(out)'
    BY <1>7, PostsType DEF AskWake, Words, A53Words
  <2> QED
    BY <1>7, <2>1 DEF AskWake, WordsOK, A53Dev
<1>8. CASE Unask
  <2>1. WordsOK(out)'
    BY <1>8, PostsType DEF Unask, Words, A53Words
  <2> QED
    BY <1>8, <2>1 DEF Unask, WordsOK
<1>9. CASE Attached \/ Spin \/ Recheck \/ BeforePoll \/ AfterPoll \/ Busy
  BY <1>9 DEF Attached, Spin, Recheck, BeforePoll, AfterPoll, Busy
<1>13. CASE Unmask \/ PollEvent
  BY <1>13 DEF Unmask, PollEvent
<1>10. CASE Return
  <2>1. error' \in [Libs -> {0, 1}]
    <3>1. CASE mem["rc"] = 0
      BY <1>10, <3>1 DEF Return
    <3>2. CASE mem["rc"] # 0
      BY <1>10, <3>2 DEF Return
    <3> QED
      BY <3>1, <3>2
  <2>2. late' \in 0 .. MaxLate
    BY <1>10, CountAssumption DEF Return
  <2> QED
    BY <1>10, <2>1, <2>2 DEF Return
<1>11. CASE Timeout
  <2>1. error' \in [Libs -> {0, 1}]
    BY <1>11 DEF Timeout
  <2>2. late' \in 0 .. MaxLate
    BY <1>11, CountAssumption DEF Timeout
  <2> QED
    BY <1>11, <2>1, <2>2 DEF Timeout
<1>12. CASE UnmaskFails \/ PollSignal \/ PollTimeout
  BY <1>12 DEF UnmaskFails, PollSignal, PollTimeout
<1> QED
  BY <1>1, <1>2, <1>3, <1>4, <1>5, <1>6, <1>7, <1>8, <1>9, <1>10, <1>11, <1>12, <1>13
  DEF A53Step, Flush, Wait

LEMMA R5Type == TypeInv /\ R5Step => TypeOK'
<1> SUFFICES ASSUME TypeOK, ArgsNamed, R5Step PROVE TypeOK'
  BY DEF TypeInv
<1> USE DEF TypeOK, R5At, R5Keeps, R5Steps, WordsOK
<1>1. CASE Take
  BY <1>1, CountAssumption DEF Take
<1>2. CASE Replay
  <2>1. from \in Libs /\ pos + 1 \in Idx /\ pos' \in 0 .. BatchWords
    BY <1>2, CountAssumption DEF Replay, Idx, ArgsNamed
  <2>2. ring[from][pos + 1] \in 0 .. Tags - 1
    BY <2>1
  <2>3. replayed' \in Seq(0 .. Tags - 1) /\ Len(replayed') = pos'
    BY <1>2, <2>2 DEF Replay
  <2> QED
    BY <1>2, <2>1, <2>3 DEF Replay
<1>3. CASE BatchEnd
  <2>1. WordsOK(out)'
    BY <1>3, PostsType DEF BatchEnd, Words, R5Words
  <2> QED
    BY <1>3, <2>1 DEF BatchEnd
<1>4. CASE Answer
  <2>1. WordsOK(out)'
    BY <1>4, PostsType DEF Answer, Words, R5Words
  <2> QED
    BY <1>4, <2>1 DEF Answer
<1>5. CASE Idle
  <2>1. WordsOK(out)'
    BY <1>5, PostsType DEF Idle, Words, R5Words
  <2> QED
    BY <1>5, <2>1 DEF Idle, R5Dev
<1>6. CASE Awake
  <2>1. WordsOK(out)'
    BY <1>6, PostsType DEF Awake, Words, R5Words
  <2> QED
    BY <1>6, <2>1 DEF Awake
<1>7. CASE Begin
  BY <1>7 DEF Begin
<1>8. CASE Look \/ StayAwake \/ Fault \/ Sleep \/ WakeUp \/ Rest
  BY <1>8 DEF Look, StayAwake, Fault, Sleep, WakeUp, Rest
<1>9. CASE Doorbell
  BY <1>9 DEF Doorbell, R5Dev
<1>10. CASE Arm
  BY <1>10 DEF Arm, R5Dev
<1>11. CASE IpiIsr
  BY <1>11 DEF IpiIsr
<1> QED
  BY <1>1, <1>2, <1>3, <1>4, <1>5, <1>6, <1>7, <1>8, <1>9, <1>10, <1>11 DEF R5Step, Firmware

LEMMA LandType == TypeOK /\ (Land \/ UioFires) => TypeOK'
<1> SUFFICES ASSUME TypeOK, Land \/ UioFires PROVE TypeOK'
  OBVIOUS
<1> USE DEF TypeOK, WordsOK
<1>1. ASSUME NEW w \in Words, LandWord(w) PROVE TypeOK'
  <2>1. mem' \in [Words -> Nat \cup Libs \cup {NoLib}]
    BY <1>1 DEF LandWord
  <2>2. /\ mem'["args"] \in {mem["args"], out["args"]}
        /\ mem'["cmd_seq"] \in {mem["cmd_seq"], out["cmd_seq"]}
        /\ mem'["done_seq"] \in {mem["done_seq"], out["done_seq"]}
    BY <1>1 DEF LandWord, Words, A53Words, R5Words
  <2>3. {mem'["wake"], mem'["a53_rings"], mem'["rc"], mem'["r5_sleeping"]} \subseteq {0, 1}
    BY <1>1 DEF LandWord, Words, A53Words, R5Words
  <2>4. WordsOK(mem)'
    BY <2>1, <2>2, <2>3 DEF WordsOK
  <2> QED
    BY <1>1, <2>4 DEF LandWord
<1>2. ASSUME NEW l \in Libs, NEW i \in Idx, LandRing(l, i) PROVE TypeOK'
  BY <1>2 DEF LandRing
<1>3. ASSUME NEW d \in dev, LandDev(d) PROVE TypeOK'
  BY <1>3 DEF LandDev
<1>4. CASE UioFires
  BY <1>4 DEF UioFires
<1> QED
  BY <1>1, <1>2, <1>3, <1>4 DEF Land

LEMMA A53Args == TypeInv /\ A53Step => ArgsNamed'
<1> SUFFICES ASSUME TypeOK, ArgsNamed, A53Step PROVE ArgsNamed'
  BY DEF TypeInv
<1> USE DEF TypeOK, WordsOK, ArgsNamed, A53At, A53Reads, Posts, Words, A53Words, R5Words
<1>1. ASSUME NEW l \in Libs, Attach(l) \/ Detach(l) \/ Record(l) PROVE ArgsNamed'
  BY <1>1 DEF Attach, Detach, Record
<1>2. CASE WriteArgs \/ AskWake \/ Unask
  BY <1>2 DEF WriteArgs, AskWake, Unask
<1>3. CASE Submit
  BY <1>3, NextSeqType DEF Submit, A53Fence
<1>4. CASE Attached \/ Ring \/ Spin \/ Recheck \/ Unmask \/ BeforePoll \/ PollEvent
  BY <1>4 DEF Attached, Ring, Spin, Recheck, Unmask, BeforePoll, PollEvent
<1>5. CASE AfterPoll \/ Busy \/ Return \/ Timeout \/ UnmaskFails \/ PollSignal \/ PollTimeout
  BY <1>5 DEF AfterPoll, Busy, Return, Timeout, UnmaskFails, PollSignal, PollTimeout
<1> QED
  BY <1>1, <1>2, <1>3, <1>4, <1>5 DEF A53Step, Flush, Wait

LEMMA R5Args == TypeInv /\ R5Step => ArgsNamed'
<1> SUFFICES ASSUME TypeOK, ArgsNamed, R5Step PROVE ArgsNamed'
  BY DEF TypeInv
<1> USE DEF TypeOK, WordsOK, ArgsNamed, R5At, R5Keeps, Posts, Words, A53Words, R5Words
<1>1. CASE Take \/ Begin \/ Look \/ StayAwake \/ Replay \/ Fault \/ Doorbell \/ Arm \/ Sleep \/ WakeUp \/ Rest \/ IpiIsr
  BY <1>1 DEF Take, Begin, Look, StayAwake, Replay, Fault, Doorbell, Arm, Sleep, WakeUp, Rest, IpiIsr
<1>2. CASE BatchEnd \/ Answer \/ Idle \/ Awake
  BY <1>2 DEF BatchEnd, Answer, Idle, Awake
<1> QED
  BY <1>1, <1>2 DEF R5Step, Firmware

LEMMA LandArgs == TypeInv /\ (Land \/ UioFires) => ArgsNamed'
<1> SUFFICES ASSUME TypeOK, ArgsNamed, Land \/ UioFires PROVE ArgsNamed'
  BY DEF TypeInv
<1> USE DEF TypeOK, WordsOK, ArgsNamed, Words, A53Words, R5Words
<1>1. ASSUME NEW w \in Words, LandWord(w) PROVE ArgsNamed'
  BY <1>1 DEF LandWord
<1>2. ASSUME NEW l \in Libs, NEW i \in Idx, LandRing(l, i) PROVE ArgsNamed'
  BY <1>2 DEF LandRing
<1>3. ASSUME NEW d \in dev, LandDev(d) PROVE ArgsNamed'
  BY <1>3 DEF LandDev
<1>4. CASE UioFires
  BY <1>4 DEF UioFires
<1> QED
  BY <1>1, <1>2, <1>3, <1>4 DEF Land

LEMMA TypeInvariant == Spec => []TypeInv
<1>1. TypeInv /\ UNCHANGED vars => TypeInv'
  BY DEF TypeInv, TypeOK, WordsOK, ArgsNamed
<1>2. TypeInv /\ [Next]_vars => TypeInv'
  BY A53Type, R5Type, LandType, A53Args, R5Args, LandArgs, <1>1 DEF Next, TypeInv
<1> QED
  BY InitType, <1>2, PTL DEF Spec

\* The state stays in its types: what the R5 replays is a batch some library named.
THEOREM TypeCorrect == Spec => []TypeOK
  BY TypeInvariant, PTL DEF TypeInv

-----------------------------------------------------------------------------
(* No doorbell is lost (R5 to A53).  From the A53's fenced store of wake on,  *)
(* the R5 reads wake set, no clear of the doorbell is under way, and the line *)
(* is unmasked or its event is already there; done_seq is on its way only     *)
(* while the R5 is about to read wake.                                        *)

DoorbellInv ==
  /\ out["done_seq"] # mem["done_seq"] => r5 = "wake"
  /\ a53 \in {"ask", "asked", "unmask", "unmasked", "poll", "polled"} => lib \in Bell
  /\ a53 = "asked" => out["wake"] = 1
  /\ a53 \in {"unmask", "unmasked", "poll"} =>
        mem["wake"] = 1 /\ out["wake"] = 1 /\ "clear a53" \notin dev
  /\ a53 \in {"unmasked", "poll"} => uioOn \/ lib \in uioEvent
  /\ NoLostDoorbell

LEMMA A53Doorbell == TypeInv /\ DoorbellInv /\ A53Step => DoorbellInv'
<1> SUFFICES ASSUME TypeInv, DoorbellInv, A53Step PROVE DoorbellInv'
  OBVIOUS
<1> USE DEF TypeInv, TypeOK, ArgsNamed, WordsOK, DoorbellInv, NoLostDoorbell, Done, A53At, A53Reads,
            Posts, Words, A53Words, R5Words
<1>1. ASSUME NEW l \in Libs, Attach(l) \/ Detach(l) \/ Record(l) PROVE DoorbellInv'
  BY <1>1 DEF Attach, Detach, Record
<1>2. CASE WriteArgs \/ AskWake \/ Unask
  BY <1>2 DEF WriteArgs, AskWake, Unask
<1>3. CASE Submit
  BY <1>3 DEF Submit
<1>4. CASE Ring
  BY <1>4 DEF Ring
<1>5. CASE Recheck
  BY <1>5 DEF Recheck, A53Fence, A53Dev
<1>6. CASE Attached \/ Spin \/ Unmask \/ BeforePoll \/ PollEvent
  BY <1>6 DEF Attached, Spin, Unmask, BeforePoll, PollEvent
<1>7. CASE AfterPoll \/ Busy \/ Return \/ Timeout \/ UnmaskFails \/ PollSignal \/ PollTimeout
  BY <1>7 DEF AfterPoll, Busy, Return, Timeout, UnmaskFails, PollSignal, PollTimeout
<1> QED
  BY <1>1, <1>2, <1>3, <1>4, <1>5, <1>6, <1>7 DEF A53Step, Flush, Wait

LEMMA R5Doorbell == TypeInv /\ DoorbellInv /\ R5Step => DoorbellInv'
<1> SUFFICES ASSUME TypeInv, DoorbellInv, R5Step PROVE DoorbellInv'
  OBVIOUS
<1> USE DEF TypeInv, TypeOK, WordsOK, DoorbellInv, NoLostDoorbell, Done, R5At, R5Keeps,
            Posts, Words, A53Words, R5Words
<1>1. CASE Take \/ Begin \/ Look \/ StayAwake \/ Replay \/ Fault \/ Sleep \/ WakeUp \/ Rest \/ IpiIsr
  BY <1>1 DEF Take, Begin, Look, StayAwake, Replay, Fault, Sleep, WakeUp, Rest, IpiIsr
<1>2. CASE BatchEnd \/ Answer \/ Idle \/ Awake
  BY <1>2 DEF BatchEnd, Answer, Idle, Awake
<1>4. CASE Arm
  <2>1. CASE r5' = "armed" /\ dev' = dev \cup {"unmask r5"}
    BY <1>4, <2>1 DEF Arm
  <2>2. CASE r5' = "awake" /\ dev' = dev
    BY <1>4, <2>2 DEF Arm
  <2> QED
    BY <1>4, <2>1, <2>2 DEF Arm
<1>3. CASE Doorbell
  BY <1>3 DEF Doorbell, R5Fence
<1> QED
  BY <1>1, <1>2, <1>3, <1>4 DEF R5Step, Firmware

LEMMA LandDoorbell == TypeInv /\ DoorbellInv /\ (Land \/ UioFires) => DoorbellInv'
<1> SUFFICES ASSUME TypeInv, DoorbellInv, Land \/ UioFires PROVE DoorbellInv'
  OBVIOUS
<1> USE DEF TypeInv, TypeOK, ArgsNamed, WordsOK, DoorbellInv, NoLostDoorbell, Done,
            Words, A53Words, R5Words
<1>1. ASSUME NEW w \in Words, LandWord(w) PROVE DoorbellInv'
  BY <1>1 DEF LandWord
<1>2. ASSUME NEW l \in Libs, NEW i \in Idx, LandRing(l, i) PROVE DoorbellInv'
  BY <1>2 DEF LandRing
<1>3. ASSUME NEW d \in dev, LandDev(d) PROVE DoorbellInv'
  BY <1>3 DEF LandDev
<1>4. CASE UioFires
  BY <1>4 DEF UioFires
<1> QED
  BY <1>1, <1>2, <1>3, <1>4 DEF Land

\* The A53 never blocks in poll() over an answer without its doorbell coming:
\* whatever libraries have the device, and however many submissions time out.
THEOREM DoorbellNeverLost == Spec => []NoLostDoorbell
<1>1. Init => DoorbellInv
  BY DEF Init, DoorbellInv, NoLostDoorbell, Done
<1>2. ASSUME TypeInv, DoorbellInv, UNCHANGED vars PROVE DoorbellInv'
  <2>1. /\ mem' = mem /\ out' = out /\ dev' = dev /\ a53' = a53 /\ lib' = lib /\ seq' = seq
        /\ r5' = r5 /\ seen' = seen /\ uioEvent' = uioEvent
    BY <1>2
  <2>2. r5Isr' = r5Isr /\ r5Line' = r5Line /\ a53Isr' = a53Isr /\ uioOn' = uioOn
    BY <1>2
  <2>3. DoorbellInv
    BY <1>2
  <2> QED
    BY <2>1, <2>2, <2>3, Zenon DEF DoorbellInv, NoLostDoorbell, Done
<1>3. TypeInv /\ DoorbellInv /\ [Next]_vars => DoorbellInv'
  BY A53Doorbell, R5Doorbell, LandDoorbell, <1>2 DEF Next
<1>4. DoorbellInv => NoLostDoorbell
  BY DEF DoorbellInv
<1> QED
  BY <1>1, <1>3, <1>4, TypeInvariant, PTL DEF Spec

-----------------------------------------------------------------------------
(* No ring is lost (A53 to R5), when every library finds the doorbell.  A      *)
(* cmd_seq not landed belongs to a library that has still to read r5_sleeping; *)
(* from the R5's fence on r5_sleeping reads 1, no clear of the ring is under   *)
(* way, and in WFI the line is unmasked.                                       *)

RingInv ==
  /\ out["cmd_seq"] # mem["cmd_seq"] => a53 = "ring"
  /\ r5 \in {"sleepy", "armed", "wfi"} => out["r5_sleeping"] = 1
  /\ r5 \in {"armed", "wfi"} => mem["r5_sleeping"] = 1 /\ "clear r5" \notin dev
  /\ r5 = "armed" => "unmask r5" \in dev \/ r5Line
  /\ r5 = "wfi" => r5Line
  /\ NoLostRing

LEMMA A53Ring == ASSUME Bell = Libs PROVE TypeInv /\ RingInv /\ A53Step => RingInv'
<1> SUFFICES ASSUME TypeInv, RingInv, A53Step PROVE RingInv'
  OBVIOUS
<1> USE DEF TypeInv, TypeOK, ArgsNamed, WordsOK, RingInv, NoLostRing, A53At, A53Reads,
            Posts, Words, A53Words, R5Words
<1>1. ASSUME NEW l \in Libs, Attach(l) \/ Detach(l) \/ Record(l) PROVE RingInv'
  BY <1>1 DEF Attach, Detach, Record
<1>2. CASE WriteArgs \/ AskWake \/ Unask
  BY <1>2 DEF WriteArgs, AskWake, Unask
<1>3. CASE Submit
  BY <1>3 DEF Submit
<1>4. CASE Ring
  BY <1>4 DEF Ring, A53Fence
<1>5. CASE Attached \/ Spin \/ Recheck \/ Unmask \/ BeforePoll \/ PollEvent
  BY <1>5 DEF Attached, Spin, Recheck, Unmask, BeforePoll, PollEvent
<1>6. CASE AfterPoll \/ Busy \/ Return \/ Timeout \/ UnmaskFails \/ PollSignal \/ PollTimeout
  BY <1>6 DEF AfterPoll, Busy, Return, Timeout, UnmaskFails, PollSignal, PollTimeout
<1> QED
  BY <1>1, <1>2, <1>3, <1>4, <1>5, <1>6 DEF A53Step, Flush, Wait

LEMMA R5Ring == TypeInv /\ RingInv /\ R5Step => RingInv'
<1> SUFFICES ASSUME TypeInv, RingInv, R5Step PROVE RingInv'
  OBVIOUS
<1> USE DEF TypeInv, TypeOK, WordsOK, RingInv, NoLostRing, R5At, R5Keeps,
            Posts, Words, A53Words, R5Words
<1>1. CASE Take \/ Begin \/ Look \/ StayAwake \/ Replay \/ Fault \/ Doorbell \/ WakeUp \/ Rest \/ IpiIsr
  BY <1>1 DEF Take, Begin, Look, StayAwake, Replay, Fault, Doorbell, WakeUp, Rest, IpiIsr
<1>2. CASE BatchEnd \/ Answer \/ Idle \/ Awake
  BY <1>2 DEF BatchEnd, Answer, Idle, Awake
<1>3. CASE Arm
  <2>1. CASE r5' = "armed" /\ dev' = dev \cup {"unmask r5"}
    BY <1>3, <2>1 DEF Arm, R5Fence, R5Dev
  <2>2. CASE r5' = "awake" /\ dev' = dev
    BY <1>3, <2>2 DEF Arm
  <2> QED
    BY <1>3, <2>1, <2>2 DEF Arm
<1>4. CASE Sleep
  BY <1>4 DEF Sleep, R5Fence, R5Dev
<1> QED
  BY <1>1, <1>2, <1>3, <1>4 DEF R5Step, Firmware

LEMMA LandRingInv ==
  ASSUME Bell = Libs PROVE TypeInv /\ RingInv /\ (Land \/ UioFires) => RingInv'
<1> SUFFICES ASSUME TypeInv, RingInv, Land \/ UioFires PROVE RingInv'
  OBVIOUS
<1> USE DEF TypeInv, TypeOK, ArgsNamed, WordsOK, RingInv, NoLostRing, Words, A53Words, R5Words
<1>1. ASSUME NEW w \in Words, LandWord(w) PROVE RingInv'
  BY <1>1 DEF LandWord
<1>2. ASSUME NEW l \in Libs, NEW i \in Idx, LandRing(l, i) PROVE RingInv'
  BY <1>2 DEF LandRing
<1>3. ASSUME NEW d \in dev, LandDev(d) PROVE RingInv'
  BY <1>3 DEF LandDev
<1>4. CASE UioFires
  BY <1>4 DEF UioFires
<1> QED
  BY <1>1, <1>2, <1>3, <1>4 DEF Land

\* The R5 never sleeps in WFI over a submission without its ring coming, when
\* every library of the process has the doorbell.
THEOREM RingNeverLost == ASSUME Bell = Libs PROVE Spec => []NoLostRing
<1>1. Init => RingInv
  BY DEF Init, RingInv, NoLostRing
<1>2. ASSUME TypeInv, RingInv, UNCHANGED vars PROVE RingInv'
  <2>1. /\ mem' = mem /\ out' = out /\ dev' = dev /\ a53' = a53 /\ lib' = lib /\ seq' = seq
        /\ r5' = r5 /\ seen' = seen /\ uioEvent' = uioEvent
    BY <1>2
  <2>2. r5Isr' = r5Isr /\ r5Line' = r5Line /\ a53Isr' = a53Isr /\ uioOn' = uioOn
    BY <1>2
  <2>3. RingInv
    BY <1>2
  <2> QED
    BY <2>1, <2>2, <2>3, Zenon DEF RingInv, NoLostRing
<1>3. TypeInv /\ RingInv /\ [Next]_vars => RingInv'
  BY A53Ring, R5Ring, LandRingInv, <1>2 DEF Next
<1>4. RingInv => NoLostRing
  BY DEF RingInv
<1> QED
  BY <1>1, <1>3, <1>4, TypeInvariant, PTL DEF Spec

-----------------------------------------------------------------------------
(* What is replayed is what was recorded.  Submissions that timed out leave     *)
(* their numbers behind: cmd_seq as it lands, the number the R5 took and the    *)
(* number it answered follow the last submission in this order, and never by    *)
(* more than the submissions still without an answer, which the counter tells   *)
(* apart.                                                                       *)

Waiting   == {"ring", "spin", "ask", "asked", "unmask", "unmasked", "poll", "polled", "unask",
              "busy"}
Submitted == Waiting \cup {"answered"}
Working   == {"batch", "replay", "done", "fault"}

\* How far number x is behind the last submission.
Behind(x) == IF seq >= x THEN seq - x ELSE seq + SeqMod - x
Pending   == IF a53 \in Waiting THEN late + 1 ELSE late

Order == /\ Behind(mem["cmd_seq"]) <= Behind(seen)
         /\ Behind(seen) <= Behind(out["done_seq"])
         /\ Behind(out["done_seq"]) <= Behind(mem["done_seq"])
         /\ Behind(mem["done_seq"]) <= Pending

\* The numbers in their order; the R5 works exactly while it owes an answer.
Numbered ==
  /\ seq = out["cmd_seq"]
  /\ Order
  /\ a53 \notin {"app", "attach"} => late < MaxLate \/ MaxLate = 0
  /\ a53 = "answered" => Done
  /\ r5 \in Working <=> out["done_seq"] # seen

\* The batch is in the ring, and the ring is named, before cmd_seq goes out.
Named ==
  /\ a53 \in {"args", "submit"} \cup Submitted => \A i \in Idx : ringOut[lib][i] = tag
  /\ a53 \in {"submit"} \cup Submitted => out["args"] = lib
  /\ a53 \in Submitted => mem["args"] = lib /\ \A i \in Idx : ring[lib][i] = tag

\* Once the R5 has taken the last submission, it replays that batch and nothing else.
Taken ==
  a53 \in Submitted /\ seen = seq =>
     /\ served > 0
     /\ \A i \in 1 .. pos : replayed[i] = tag
     /\ r5 \notin {"batch", "replay", "fault"} => pos = BatchWords
     /\ r5 = "replay" => from = lib

BatchInv == Numbered /\ Named /\ Taken

\* What the numbers are: the part of TypeOK their comparisons need.
LEMMA NumberTypes ==
  ASSUME TypeOK
  PROVE  /\ seq \in Nat /\ seq < SeqMod /\ seen \in Nat /\ seen < SeqMod
         /\ \A w \in {"cmd_seq", "done_seq"} :
              mem[w] \in Nat /\ mem[w] < SeqMod /\ out[w] \in Nat /\ out[w] < SeqMod
         /\ late \in Nat /\ late <= MaxLate /\ SeqMod \in Nat /\ SeqMod > MaxLate + 1
         /\ MaxLate \in Nat /\ BatchWords \in Nat /\ BatchWords > 0
         /\ pos \in Nat /\ pos <= BatchWords /\ served \in Nat
BY CountAssumption DEF TypeOK, WordsOK, Seqs

\* A number as far behind as the last submission is the last submission.
LEMMA BehindNothing ==
  ASSUME TypeOK, NEW x \in Seqs
  PROVE  Behind(x) \in Nat /\ (Behind(x) = 0 <=> x = seq)
BY NumberTypes DEF Behind, Seqs

LEMMA BehindInjective ==
  ASSUME TypeOK, NEW x \in Seqs, NEW y \in Seqs
  PROVE  Behind(x) = Behind(y) <=> x = y
BY NumberTypes DEF Behind, Seqs

\* The next submission leaves every number one further behind.
LEMMA BehindNext ==
  ASSUME TypeOK, NEW x \in Seqs, Behind(x) <= MaxLate, seq' = NextSeq(seq)
  PROVE  Behind(x)' = Behind(x) + 1
BY NumberTypes DEF Behind, Seqs, NextSeq

LEMMA NumberWords ==
  ASSUME TypeOK
  PROVE  /\ seq \in Seqs /\ seen \in Seqs
         /\ mem["cmd_seq"] \in Seqs /\ mem["done_seq"] \in Seqs
         /\ out["cmd_seq"] \in Seqs /\ out["done_seq"] \in Seqs
BY DEF TypeOK, WordsOK

\* An answered submission leaves no number behind.
LEMMA AnsweredAll ==
  ASSUME TypeOK, Order, Done
  PROVE  mem["cmd_seq"] = seq /\ seen = seq /\ out["done_seq"] = seq
<1> DEFINE b(x) == Behind(x)
<1>1. b(mem["done_seq"]) = 0
  BY NumberWords, BehindNothing DEF Done
<1>2. /\ b(mem["cmd_seq"]) \in Nat /\ b(seen) \in Nat /\ b(out["done_seq"]) \in Nat
      /\ b(mem["cmd_seq"]) <= b(seen) /\ b(seen) <= b(out["done_seq"])
      /\ b(out["done_seq"]) <= b(mem["done_seq"])
  BY NumberWords, BehindNothing DEF Order
<1>3. b(mem["cmd_seq"]) = 0 /\ b(seen) = 0 /\ b(out["done_seq"]) = 0
  <2> HIDE DEF b
  <2> QED
    BY <1>1, <1>2
<1> QED
  BY <1>3, NumberWords, BehindNothing

\* Steps of the A53 that leave the numbers alone.
LEMMA NumbersKept ==
  ASSUME Order, seq' = seq, seen' = seen, Pending <= Pending',
         mem'["cmd_seq"] = mem["cmd_seq"], mem'["done_seq"] = mem["done_seq"],
         out'["done_seq"] = out["done_seq"], TypeOK, Pending' \in Nat, Pending \in Nat
  PROVE  Order'
<1>2. /\ Behind(mem["cmd_seq"])' = Behind(mem["cmd_seq"]) /\ Behind(seen)' = Behind(seen)
      /\ Behind(out["done_seq"])' = Behind(out["done_seq"])
      /\ Behind(mem["done_seq"])' = Behind(mem["done_seq"])
  BY DEF Behind
<1>3. Behind(mem["done_seq"]) \in Nat
  BY NumberWords, BehindNothing
<1> QED
  BY <1>2, <1>3 DEF Order
-----------------------------------------------------------------------------
LEMMA PendingType == ASSUME TypeOK PROVE Pending \in Nat
BY NumberTypes DEF Pending

\* Between the submission and its answer the A53 only polls.
LEMMA KeepsWaiting ==
  ASSUME TypeOK, BatchInv, a53 \in Waiting, a53' \in Waiting,
         out' = out \/ out' = [out EXCEPT !["wake"] = 0] \/ out' = [out EXCEPT !["wake"] = 1],
         UNCHANGED <<mem, ring, ringOut, lib, seq, late, tag, r5, seen, from, pos, replayed, served>>
  PROVE  BatchInv'
<1>1. /\ out'["cmd_seq"] = out["cmd_seq"] /\ out'["done_seq"] = out["done_seq"]
      /\ out'["args"] = out["args"]
  BY DEF TypeOK, WordsOK, Words, A53Words, R5Words
<1>2. Pending' = Pending
  BY DEF Pending
<1>3. Order'
  BY <1>1, <1>2, NumbersKept, PendingType DEF BatchInv, Numbered
<1>4. Numbered'
  BY <1>1, <1>3 DEF BatchInv, Numbered, Waiting
<1>5. Named'
  BY <1>1 DEF BatchInv, Named, Submitted, Idx
<1>6. Taken'
  BY DEF BatchInv, Taken, Submitted
<1> QED
  BY <1>4, <1>5, <1>6 DEF BatchInv

\* Before a run flushes, and after, the A53 hands nothing over.
LEMMA KeepsOut ==
  ASSUME TypeOK, BatchInv, a53 \in {"app", "attach"}, a53' \in {"app", "attach"},
         out' = out \/ out' = [out EXCEPT !["a53_rings"] = 0]
                    \/ out' = [out EXCEPT !["a53_rings"] = 1],
         UNCHANGED <<mem, seq, late, r5, seen>>
  PROVE  BatchInv'
<1>1. out'["cmd_seq"] = out["cmd_seq"] /\ out'["done_seq"] = out["done_seq"]
  BY DEF TypeOK, WordsOK, Words, A53Words, R5Words
<1>2. Pending' = Pending
  BY DEF Pending, Waiting
<1>3. Order'
  BY <1>1, <1>2, NumbersKept, PendingType DEF BatchInv, Numbered
<1>4. Numbered'
  BY <1>1, <1>3 DEF BatchInv, Numbered
<1> QED
  BY <1>4 DEF BatchInv, Named, Taken, Submitted, Waiting

LEMMA RecordBatch ==
  ASSUME TypeOK, BatchInv, NEW l \in Libs, Record(l)
  PROVE  BatchInv'
<1> USE DEF Record, A53At
<1>1. Pending' = Pending
  BY DEF Pending, Waiting
<1>2. Order'
  BY <1>1, NumbersKept, PendingType DEF BatchInv, Numbered
<1>3. Numbered'
  BY <1>2 DEF BatchInv, Numbered
<1>4. Named'
  BY DEF Named, Submitted, Waiting, TypeOK
<1> QED
  BY <1>3, <1>4 DEF BatchInv, Taken, Submitted, Waiting

LEMMA WriteArgsBatch ==
  ASSUME TypeOK, BatchInv, WriteArgs
  PROVE  BatchInv'
<1> USE DEF WriteArgs, A53At, Posts
<1>1. /\ out'["cmd_seq"] = out["cmd_seq"] /\ out'["done_seq"] = out["done_seq"]
      /\ out'["args"] = lib
  BY DEF TypeOK, WordsOK, Words, A53Words
<1>2. Pending' = Pending
  BY DEF Pending, Waiting
<1>3. Order'
  BY <1>1, <1>2, NumbersKept, PendingType DEF BatchInv, Numbered
<1>4. Numbered'
  BY <1>1, <1>3 DEF BatchInv, Numbered
<1>5. Named'
  BY <1>1 DEF BatchInv, Named, Submitted, Waiting
<1> QED
  BY <1>4, <1>5 DEF BatchInv, Taken, Submitted, Waiting

\* Whatever was given up, a new number is not one still in use.
LEMMA NextIsNew ==
  ASSUME TypeOK, NEW x \in Seqs, Behind(x) <= MaxLate
  PROVE  x # NextSeq(seq)
BY NumberTypes DEF Behind, Seqs, NextSeq

LEMMA NoneTooOld ==
  ASSUME TypeOK, Order, a53 \notin Waiting
  PROVE  /\ Behind(mem["cmd_seq"]) <= MaxLate /\ Behind(seen) <= MaxLate
         /\ Behind(out["done_seq"]) <= MaxLate /\ Behind(mem["done_seq"]) <= MaxLate
<1> DEFINE b(x) == Behind(x)
<1>1. /\ b(mem["cmd_seq"]) <= b(seen) /\ b(seen) <= b(out["done_seq"])
      /\ b(out["done_seq"]) <= b(mem["done_seq"]) /\ b(mem["done_seq"]) <= late
  BY DEF Order, Pending
<1>2. /\ b(mem["cmd_seq"]) \in Nat /\ b(seen) \in Nat /\ b(out["done_seq"]) \in Nat
      /\ b(mem["done_seq"]) \in Nat
  BY NumberWords, BehindNothing
<1>3. late \in Nat /\ late <= MaxLate /\ MaxLate \in Nat
  BY NumberTypes
<1>4. /\ b(mem["cmd_seq"]) <= MaxLate /\ b(seen) <= MaxLate /\ b(out["done_seq"]) <= MaxLate
      /\ b(mem["done_seq"]) <= MaxLate
  <2> HIDE DEF b
  <2> QED
    BY <1>1, <1>2, <1>3
<1> QED
  BY <1>4

LEMMA SubmitNumber == ASSUME TypeOK, BatchInv, Submit PROVE seen' # seq'
<1>1. mem["cmd_seq"] = seq
  BY DEF Submit, A53Fence, BatchInv, Numbered, A53Words
<1>2. Behind(seen) <= MaxLate
  BY NoneTooOld DEF Submit, A53At, BatchInv, Numbered, Waiting
<1> QED
  BY <1>1, <1>2, NextIsNew, NumberWords DEF Submit

\* The submission: no number is as far behind as the counter is wide, so none is
\* taken for the new one.
LEMMA SubmitBatch ==
  ASSUME TypeOK, BatchInv, Submit
  PROVE  BatchInv'
<1> USE DEF Submit, A53At, Posts
<1> DEFINE b(x) == Behind(x)
<1>1. /\ mem["cmd_seq"] = seq /\ mem["args"] = lib
      /\ \A i \in Idx : ring[lib][i] = tag /\ ringOut[lib][i] = tag
  BY DEF A53Fence, BatchInv, Numbered, Named, A53Words
<1>2. seq' = NextSeq(seq) /\ seq' \in Seqs
  BY <1>1, NextSeqType, NumberWords
<1>3. /\ out'["cmd_seq"] = seq' /\ out'["done_seq"] = out["done_seq"] /\ out'["args"] = out["args"]
  BY DEF TypeOK, WordsOK, Words, A53Words
<1>4. Pending = late /\ Pending' = late + 1
  BY DEF Pending, Waiting
<1>5. /\ b(mem["cmd_seq"]) <= b(seen) /\ b(seen) <= b(out["done_seq"])
      /\ b(out["done_seq"]) <= b(mem["done_seq"]) /\ b(mem["done_seq"]) <= late
  BY <1>4 DEF BatchInv, Numbered, Order
<1>6. /\ b(mem["cmd_seq"]) \in Nat /\ b(seen) \in Nat /\ b(out["done_seq"]) \in Nat
      /\ b(mem["done_seq"]) \in Nat
  BY NumberWords, BehindNothing
<1>7. late \in Nat /\ late <= MaxLate /\ MaxLate \in Nat
  BY NumberTypes
<1>8. /\ b(mem["cmd_seq"]) <= MaxLate /\ b(seen) <= MaxLate /\ b(out["done_seq"]) <= MaxLate
      /\ b(mem["done_seq"]) <= MaxLate
  BY NoneTooOld DEF BatchInv, Numbered, Waiting
<1>9. \A x \in Seqs : b(x) <= MaxLate => Behind(x)' = b(x) + 1
  BY <1>2, BehindNext
<1>10. /\ Behind(mem["cmd_seq"])' = b(mem["cmd_seq"]) + 1 /\ Behind(seen)' = b(seen) + 1
       /\ Behind(out["done_seq"])' = b(out["done_seq"]) + 1
       /\ Behind(mem["done_seq"])' = b(mem["done_seq"]) + 1
  <2>1. /\ Behind(mem["cmd_seq"])' = (IF seq' >= mem["cmd_seq"] THEN seq' - mem["cmd_seq"]
                                        ELSE seq' + SeqMod - mem["cmd_seq"])
        /\ Behind(seen)' = (IF seq' >= seen THEN seq' - seen ELSE seq' + SeqMod - seen)
        /\ Behind(out["done_seq"])' = (IF seq' >= out["done_seq"] THEN seq' - out["done_seq"]
                                        ELSE seq' + SeqMod - out["done_seq"])
        /\ Behind(mem["done_seq"])' = (IF seq' >= mem["done_seq"] THEN seq' - mem["done_seq"]
                                        ELSE seq' + SeqMod - mem["done_seq"])
    BY <1>3 DEF Behind
  <2>2. \A x \in Seqs : b(x) <= MaxLate =>
          (IF seq' >= x THEN seq' - x ELSE seq' + SeqMod - x) = b(x) + 1
    BY <1>9 DEF Behind
  <2> HIDE DEF b
  <2> QED
    BY <2>1, <2>2, <1>8, NumberWords
<1>11. Order'
  <2> HIDE DEF b
  <2> QED
    BY <1>4, <1>5, <1>6, <1>7, <1>10 DEF Order
<1>12. Numbered'
  BY <1>3, <1>11 DEF BatchInv, Numbered
<1>13. Named'
  BY <1>1, <1>3 DEF BatchInv, Named
<1>14. seen' # seq'
  BY SubmitNumber
<1> QED
  BY <1>12, <1>13, <1>14 DEF BatchInv, Taken

\* The flush ends.
LEMMA EndBatch ==
  ASSUME TypeOK, BatchInv, Spin \/ Busy \/ Timeout \/ Return
  PROVE  BatchInv'
<1> USE DEF A53At, A53Reads
<1>1. CASE (Spin \/ Busy) /\ a53' = "answered"
  <2>1. Done
    BY <1>1 DEF Spin, Busy
  <2>2. mem["cmd_seq"] = seq /\ seen = seq /\ out["done_seq"] = seq
    BY <2>1, AnsweredAll DEF BatchInv, Numbered
  <2>3. UNCHANGED <<mem, out, ring, ringOut, lib, seq, late, tag, r5, seen, from, pos, replayed,
                    served>>
        /\ a53 \in Waiting
    BY <1>1 DEF Spin, Busy, Waiting
  <2>4. Behind(seq) = 0 /\ late \in Nat
    BY NumberWords, NumberTypes, BehindNothing
  <2>5. Order'
    BY <1>1, <2>1, <2>2, <2>3, <2>4 DEF Order, Pending, Behind, Done, Waiting
  <2>6. Numbered'
    BY <1>1, <2>1, <2>3, <2>5 DEF BatchInv, Numbered, Done, Waiting
  <2>7. Named'
    BY <1>1, <2>3 DEF BatchInv, Named, Submitted, Idx
  <2> QED
    BY <1>1, <2>3, <2>6, <2>7 DEF BatchInv, Taken, Submitted
<1>2. CASE Spin /\ a53' # "answered"
  <2>1. a53 \in Waiting /\ a53' \in Waiting
    BY <1>2 DEF Spin, Waiting
  <2> QED
    BY <1>2, <2>1, KeepsWaiting DEF Spin
<1>3. CASE Timeout
  <2>1. Pending' = Pending
    BY <1>3 DEF Timeout, Pending, Waiting
  <2>2. Order'
    BY <1>3, <2>1, NumbersKept, PendingType DEF Timeout, BatchInv, Numbered
  <2>3. Numbered'
    BY <1>3, <2>2 DEF Timeout, BatchInv, Numbered
  <2> QED
    BY <1>3, <2>3 DEF Timeout, BatchInv, Named, Taken, Submitted, Waiting
<1>4. CASE Return
  <2>1. Done
    BY <1>4 DEF Return, BatchInv, Numbered
  <2>2. mem["cmd_seq"] = seq /\ seen = seq /\ out["done_seq"] = seq
    BY <2>1, AnsweredAll DEF BatchInv, Numbered
  <2>3. Behind(seq) = 0
    BY NumberWords, BehindNothing
  <2>4. Order'
    BY <1>4, <2>1, <2>2, <2>3 DEF Return, Order, Pending, Behind, Done, Waiting
  <2>5. Numbered'
    BY <1>4, <2>4 DEF Return, BatchInv, Numbered
  <2> QED
    BY <1>4, <2>5 DEF Return, BatchInv, Named, Taken, Submitted, Waiting
<1> QED
  BY <1>1, <1>2, <1>3, <1>4 DEF Busy

LEMMA A53Batch == TypeOK /\ BatchInv /\ A53Step => BatchInv'
<1> SUFFICES ASSUME TypeOK, BatchInv, A53Step PROVE BatchInv'
  OBVIOUS
<1> USE DEF A53At, A53Reads, Posts
<1>1. ASSUME NEW l \in Libs, Attach(l) PROVE BatchInv'
  BY <1>1, KeepsOut DEF Attach
<1>2. ASSUME NEW l \in Libs, Detach(l) PROVE BatchInv'
  BY <1>2, KeepsOut DEF Detach
<1>3. CASE Attached
  BY <1>3, KeepsOut DEF Attached
<1>4. CASE Ring
  <2>1. a53 \in Waiting /\ a53' \in Waiting
    BY <1>4 DEF Ring, Waiting
  <2> QED
    BY <1>4, <2>1, KeepsWaiting DEF Ring
<1>5. CASE AskWake
  <2>1. a53 \in Waiting /\ a53' \in Waiting
    BY <1>5 DEF AskWake, Waiting
  <2> QED
    BY <1>5, <2>1, KeepsWaiting DEF AskWake
<1>6. CASE Unask
  <2>1. a53 \in Waiting /\ a53' \in Waiting
    BY <1>6 DEF Unask, Waiting
  <2> QED
    BY <1>6, <2>1, KeepsWaiting DEF Unask
<1>7. CASE Recheck \/ Unmask \/ UnmaskFails \/ BeforePoll
  <2>1. a53 \in Waiting /\ a53' \in Waiting
    BY <1>7 DEF Recheck, Unmask, UnmaskFails, BeforePoll, Waiting
  <2> QED
    BY <1>7, <2>1, KeepsWaiting DEF Recheck, Unmask, UnmaskFails, BeforePoll
<1>8. CASE PollEvent \/ PollSignal \/ PollTimeout \/ AfterPoll
  <2>1. a53 \in Waiting /\ a53' \in Waiting
    BY <1>8 DEF PollEvent, PollSignal, PollTimeout, AfterPoll, Waiting
  <2> QED
    BY <1>8, <2>1, KeepsWaiting DEF PollEvent, PollSignal, PollTimeout, AfterPoll
<1> QED
  BY <1>1, <1>2, <1>3, <1>4, <1>5, <1>6, <1>7, <1>8, RecordBatch, WriteArgsBatch, SubmitBatch,
     EndBatch DEF A53Step, Flush, Wait
\* Steps that touch none of the batch: the R5's answer apart.
LEMMA BatchKept ==
  ASSUME TypeOK, BatchInv, r5' \in Working <=> r5 \in Working,
         r5 \notin {"batch", "replay", "fault"} \/ r5' \in {"batch", "replay", "fault"},
         r5' = "replay" => r5 = "replay",
         UNCHANGED <<ring, ringOut, a53, lib, seq, late, tag, seen, from, pos, replayed, served>>,
         mem'["cmd_seq"] = mem["cmd_seq"], mem'["done_seq"] = mem["done_seq"],
         mem'["args"] = mem["args"],
         out'["cmd_seq"] = out["cmd_seq"], out'["done_seq"] = out["done_seq"],
         out'["args"] = out["args"]
  PROVE  BatchInv'
<1>1. Pending' = Pending
  BY DEF Pending
<1>2. Order'
  BY <1>1, NumbersKept, PendingType DEF BatchInv, Numbered
<1>3. Numbered'
  BY <1>2 DEF BatchInv, Numbered, Done
<1>4. Named'
  BY DEF BatchInv, Named, Idx
<1>5. Taken'
  BY DEF BatchInv, Taken
<1> QED
  BY <1>3, <1>4, <1>5 DEF BatchInv

LEMMA PostsOthers ==
  ASSUME TypeOK, NEW w \in {"rc", "r5_sleeping", "wake", "a53_rings"}, NEW v, Posts(w, v)
  PROVE  /\ out'["cmd_seq"] = out["cmd_seq"] /\ out'["done_seq"] = out["done_seq"]
         /\ out'["args"] = out["args"]
BY DEF TypeOK, WordsOK, Words, A53Words, R5Words, Posts

\* The R5 takes the last number that landed: it is newer than the one it answered.
LEMMA TakeBatch == ASSUME TypeOK, BatchInv, Take PROVE BatchInv'
<1> USE DEF Take, R5At, R5Keeps
<1>1. Pending' = Pending
  BY DEF Pending
<1>2. Order'
  <2>1. /\ Behind(mem["cmd_seq"])' = Behind(mem["cmd_seq"])
        /\ Behind(seen)' = Behind(mem["cmd_seq"])
        /\ Behind(out["done_seq"])' = Behind(out["done_seq"])
        /\ Behind(mem["done_seq"])' = Behind(mem["done_seq"])
    BY DEF Behind
  <2>2. /\ Behind(mem["cmd_seq"]) \in Nat /\ Behind(seen) \in Nat
        /\ Behind(out["done_seq"]) \in Nat /\ Behind(mem["done_seq"]) \in Nat
    BY NumberWords, BehindNothing
  <2> QED
    BY <1>1, <2>1, <2>2 DEF BatchInv, Numbered, Order
<1>3. Numbered'
  BY <1>2 DEF BatchInv, Numbered, Done, Working
<1>4. Named'
  BY DEF BatchInv, Named, Idx
<1>5. Taken'
  BY NumberTypes DEF BatchInv, Numbered, Taken
<1> QED
  BY <1>3, <1>4, <1>5 DEF BatchInv

\* The ring it reads is that of the last submission, when that is the one taken.
LEMMA BeginBatch == ASSUME TypeOK, BatchInv, Begin PROVE BatchInv'
<1> USE DEF Begin, R5At
<1>1. Pending' = Pending
  BY DEF Pending
<1>2. Order'
  BY <1>1, NumbersKept, PendingType DEF BatchInv, Numbered
<1>3. Numbered'
  BY <1>2 DEF BatchInv, Numbered, Done, Working
<1>4. Named'
  BY DEF BatchInv, Named, Idx
<1>5. Taken'
  BY DEF BatchInv, Named, Taken
<1> QED
  BY <1>3, <1>4, <1>5 DEF BatchInv

\* One word more: of the batch submitted last, when that is the one taken.
LEMMA ReplayBatch == ASSUME TypeOK, BatchInv, Replay PROVE BatchInv'
<1> USE DEF Replay, R5Keeps
<1>1. Pending' = Pending
  BY DEF Pending
<1>2. Order'
  BY <1>1, NumbersKept, PendingType DEF BatchInv, Numbered
<1>3. Numbered'
  BY <1>2 DEF BatchInv, Numbered, Done
<1>4. Named'
  BY DEF BatchInv, Named, Idx
<1>5. ASSUME a53 \in Submitted, seen = seq PROVE replayed'[pos + 1] = tag
  <2>1. pos + 1 \in Idx /\ pos \in Nat
    BY NumberTypes DEF Idx
  <2>2. from = lib /\ ring[lib][pos + 1] = tag
    BY <1>5, <2>1 DEF BatchInv, Named, Taken
  <2>3. replayed \in Seq(0 .. Tags - 1) /\ Len(replayed) = pos
    BY DEF TypeOK
  <2>4. replayed' = Append(replayed, tag)
    BY <2>2
  <2> QED
    BY <2>3, <2>4
<1>6. \A i \in 1 .. pos : replayed'[i] = replayed[i]
  <2>1. replayed \in Seq(0 .. Tags - 1) /\ Len(replayed) = pos /\ pos \in Nat
    BY NumberTypes DEF TypeOK
  <2> QED
    BY <2>1
<1>7. Taken'
  <2> SUFFICES ASSUME a53 \in Submitted, seen = seq
               PROVE  /\ served > 0 /\ (\A i \in 1 .. pos' : replayed'[i] = tag)
                      /\ r5 = "replay" /\ from = lib
    BY DEF Taken
  <2>1. served > 0 /\ from = lib /\ \A i \in 1 .. pos : replayed[i] = tag
    BY DEF BatchInv, Taken
  <2>2. ASSUME NEW i \in 1 .. pos' PROVE i \in 1 .. pos \/ i = pos + 1
    BY NumberTypes
  <2> QED
    BY <1>5, <1>6, <2>1, <2>2
<1> QED
  BY <1>3, <1>4, <1>7 DEF BatchInv

LEMMA AnswerBatch == ASSUME TypeOK, BatchInv, Answer PROVE BatchInv'
<1> USE DEF Answer, R5At, R5Keeps
<1>1. /\ out'["cmd_seq"] = out["cmd_seq"] /\ out'["done_seq"] = seen
      /\ out'["args"] = out["args"]
  BY DEF TypeOK, WordsOK, Words, A53Words, R5Words, Posts
<1>2. Pending' = Pending
  BY DEF Pending
<1>3. Order'
  <2>1. /\ Behind(mem["cmd_seq"])' = Behind(mem["cmd_seq"])
        /\ Behind(seen)' = Behind(seen) /\ Behind(out["done_seq"])' = Behind(seen)
        /\ Behind(mem["done_seq"])' = Behind(mem["done_seq"])
    BY <1>1 DEF Behind
  <2>2. /\ Behind(mem["cmd_seq"]) \in Nat /\ Behind(seen) \in Nat
        /\ Behind(out["done_seq"]) \in Nat /\ Behind(mem["done_seq"]) \in Nat
    BY NumberWords, BehindNothing
  <2> QED
    BY <1>2, <2>1, <2>2 DEF BatchInv, Numbered, Order
<1>4. Numbered'
  BY <1>1, <1>3 DEF BatchInv, Numbered, Done, Working
<1>5. Named'
  BY <1>1 DEF BatchInv, Named, Idx
<1>6. Taken'
  BY DEF BatchInv, Taken
<1> QED
  BY <1>4, <1>5, <1>6 DEF BatchInv

LEMMA R5Batch == TypeOK /\ BatchInv /\ R5Step => BatchInv'
<1> SUFFICES ASSUME TypeOK, BatchInv, R5Step PROVE BatchInv'
  OBVIOUS
<1> USE DEF R5At, R5Keeps
<1>1. CASE Begin
  BY <1>1, BeginBatch
<1>2. CASE Fault
  BY <1>2, BatchKept DEF Fault, Working
<1>3. CASE BatchEnd
  <2>1. PICK rc : Posts("rc", rc)
    BY <1>3 DEF BatchEnd
  <2>2. pos = BatchWords /\ r5' = "done" /\ r5 = "replay" /\ mem' = mem
    BY <1>3 DEF BatchEnd
  <2>3. /\ out'["cmd_seq"] = out["cmd_seq"] /\ out'["done_seq"] = out["done_seq"]
        /\ out'["args"] = out["args"]
    BY <2>1, PostsOthers
  <2>4. UNCHANGED <<ring, ringOut, a53, lib, seq, late, tag, seen, pos, replayed, served>>
    BY <1>3 DEF BatchEnd
  <2>5. Pending' = Pending
    BY <2>4 DEF Pending
  <2>6. Order'
    BY <2>2, <2>3, <2>4, <2>5, NumbersKept, PendingType DEF BatchInv, Numbered
  <2>7. Numbered'
    BY <2>2, <2>3, <2>4, <2>6 DEF BatchInv, Numbered, Done, Working
  <2>8. Named'
    BY <2>2, <2>3, <2>4 DEF BatchInv, Named, Idx
  <2>9. Taken'
    BY <2>2, <2>4 DEF BatchInv, Taken
  <2> QED
    BY <2>7, <2>8, <2>9 DEF BatchInv
<1>4. CASE Idle
  <2>1. /\ out'["cmd_seq"] = out["cmd_seq"] /\ out'["done_seq"] = out["done_seq"]
        /\ out'["args"] = out["args"]
    BY <1>4, PostsOthers DEF Idle
  <2> QED
    BY <1>4, <2>1, BatchKept DEF Idle, Working
<1>5. CASE Awake
  <2>1. /\ out'["cmd_seq"] = out["cmd_seq"] /\ out'["done_seq"] = out["done_seq"]
        /\ out'["args"] = out["args"]
    BY <1>5, PostsOthers DEF Awake
  <2> QED
    BY <1>5, <2>1, BatchKept DEF Awake, Working
<1>6. CASE Look \/ StayAwake \/ Doorbell
  BY <1>6, BatchKept DEF Look, StayAwake, Doorbell, Working
<1>7. CASE Arm
  BY <1>7, BatchKept DEF Arm, Working
<1>8. CASE Sleep \/ WakeUp \/ Rest
  BY <1>8, BatchKept DEF Sleep, WakeUp, Rest, Working
<1>9. CASE IpiIsr
  BY <1>9, BatchKept DEF IpiIsr
<1> QED
  BY <1>1, <1>2, <1>3, <1>4, <1>5, <1>6, <1>7, <1>8, <1>9, TakeBatch, ReplayBatch, AnswerBatch
  DEF R5Step, Firmware

\* A number, the name of the ring or a word of it lands: nothing newer was there.
LEMMA LandWordBatch ==
  ASSUME TypeOK, BatchInv, NEW w \in Words, LandWord(w)
  PROVE  BatchInv'
<1> USE DEF LandWord
<1>1. /\ mem'[w] = out[w] /\ \A u \in Words \ {w} : mem'[u] = mem[u]
      /\ {"cmd_seq", "done_seq", "args"} \subseteq Words
  BY DEF TypeOK, WordsOK, Words, A53Words, R5Words
<1>2. Pending' = Pending
  BY DEF Pending
<1>3. /\ Behind(mem["cmd_seq"]) \in Nat /\ Behind(seen) \in Nat
      /\ Behind(out["done_seq"]) \in Nat /\ Behind(mem["done_seq"]) \in Nat
      /\ Behind(seq) = 0
  BY NumberWords, BehindNothing
<1>4. Behind(seen)' = Behind(seen) /\ Behind(out["done_seq"])' = Behind(out["done_seq"])
  BY DEF Behind
<1>5. Behind(mem["cmd_seq"])' \in {Behind(mem["cmd_seq"]), 0}
  <2>1. mem'["cmd_seq"] \in {mem["cmd_seq"], seq}
    BY <1>1 DEF BatchInv, Numbered
  <2> QED
    BY <1>3, <2>1 DEF Behind
<1>6. Behind(mem["done_seq"])' \in {Behind(mem["done_seq"]), Behind(out["done_seq"])}
  <2>1. mem'["done_seq"] \in {mem["done_seq"], out["done_seq"]}
    BY <1>1
  <2> QED
    BY <2>1 DEF Behind
<1>7. Order'
  <2>1. PICK p : p = Pending
    OBVIOUS
  <2>2. p \in Nat
    BY <2>1, PendingType
  <2> QED
    BY <1>2, <1>3, <1>4, <1>5, <1>6, <2>1, <2>2 DEF BatchInv, Numbered, Order
<1>8. a53 = "answered" => Done'
  <2>1. ASSUME a53 = "answered" PROVE out["done_seq"] = seq /\ mem["done_seq"] = seq
    BY <2>1, AnsweredAll DEF BatchInv, Numbered, Done
  <2> QED
    BY <1>1, <2>1 DEF Done
<1>9. Numbered'
  BY <1>7, <1>8 DEF BatchInv, Numbered
<1>10. mem'["args"] \in {mem["args"], out["args"]}
  BY <1>1
<1>11. Named'
  BY <1>10 DEF BatchInv, Named, Submitted, Idx
<1>12. Taken'
  BY DEF BatchInv, Taken
<1> QED
  BY <1>9, <1>11, <1>12 DEF BatchInv

LEMMA LandBatch == TypeOK /\ ArgsNamed /\ BatchInv /\ (Land \/ UioFires) => BatchInv'
<1> SUFFICES ASSUME TypeOK, ArgsNamed, BatchInv, Land \/ UioFires PROVE BatchInv'
  OBVIOUS
<1>1. ASSUME NEW l \in Libs, NEW i \in Idx, LandRing(l, i) PROVE BatchInv'
  <2> USE DEF LandRing
  <2>1. Pending' = Pending
    BY <1>1 DEF Pending
  <2>2. Order'
    BY <1>1, <2>1, NumbersKept, PendingType DEF BatchInv, Numbered
  <2>3. Numbered'
    BY <1>1, <2>2 DEF BatchInv, Numbered, Done
  <2>4. ASSUME a53 \in Submitted, NEW j \in Idx, ring[lib][j] = tag, ringOut[lib][j] = tag
        PROVE  ring'[lib][j] = tag
    <3>1. lib \in Libs
      BY <2>4 DEF ArgsNamed, TypeOK, Submitted, Waiting
    <3>2. ring[l] \in [Idx -> 0 .. Tags - 1]
      BY DEF TypeOK
    <3> QED
      BY <1>1, <2>4, <3>1, <3>2 DEF TypeOK
  <2>5. Named'
    BY <1>1, <2>4 DEF BatchInv, Named, Idx
  <2> QED
    BY <1>1, <2>3, <2>5 DEF BatchInv, Taken
<1>2. ASSUME NEW d \in dev, LandDev(d) PROVE BatchInv'
  BY <1>2, BatchKept DEF LandDev
<1>3. CASE UioFires
  BY <1>3, BatchKept DEF UioFires
<1> QED
  BY <1>1, <1>2, <1>3, LandWordBatch DEF Land

LEMMA InitBatch == Init => BatchInv
<1> SUFFICES ASSUME Init PROVE BatchInv
  OBVIOUS
<1>1. /\ seq = 0 /\ seen = 0 /\ late = 0 /\ a53 = "app" /\ r5 = "loop"
      /\ mem["cmd_seq"] = 0 /\ mem["done_seq"] = 0 /\ out["cmd_seq"] = 0 /\ out["done_seq"] = 0
  BY DEF Init, Words, A53Words, R5Words
<1>2. Order
  BY <1>1, CountAssumption DEF Order, Behind, Pending, Waiting
<1> QED
  BY <1>1, <1>2 DEF BatchInv, Numbered, Named, Taken, Submitted, Waiting, Working

LEMMA BatchInvariant == Spec => [](TypeInv /\ BatchInv)
<1>1. Init => TypeInv /\ BatchInv
  BY InitType, InitBatch
<1>2. ASSUME TypeInv, BatchInv, UNCHANGED vars PROVE BatchInv'
  BY <1>2, BatchKept DEF TypeInv
<1>3. TypeInv /\ BatchInv /\ [Next]_vars => BatchInv'
  BY A53Batch, R5Batch, LandBatch, <1>2 DEF Next, TypeInv
<1> QED
  BY <1>1, <1>3, TypeInvariant, PTL DEF Spec

\* With no submission given up, the R5 works only on the last one.
LEMMA LastSubmission ==
  ASSUME MaxLate = 0, TypeOK, BatchInv
  PROVE  /\ r5 \in Working => a53 \in Waiting /\ seen = seq
         /\ mem["cmd_seq"] # seen => a53 \in Waiting /\ mem["cmd_seq"] = seq
         /\ a53 \notin Waiting => seen = seq
<1>1. /\ Behind(mem["cmd_seq"]) \in Nat /\ Behind(seen) \in Nat
      /\ Behind(out["done_seq"]) \in Nat /\ Behind(mem["done_seq"]) \in Nat
  BY NumberWords, BehindNothing
<1>2. /\ Behind(mem["cmd_seq"]) <= Behind(seen) /\ Behind(seen) <= Behind(out["done_seq"])
      /\ Behind(out["done_seq"]) <= Behind(mem["done_seq"])
      /\ Behind(mem["done_seq"]) <= IF a53 \in Waiting THEN 1 ELSE 0
  BY NumberTypes DEF BatchInv, Numbered, Order, Pending
<1>3. r5 \in Working => Behind(out["done_seq"]) # Behind(seen)
  BY NumberWords, BehindInjective DEF BatchInv, Numbered
<1>4. mem["cmd_seq"] # seen => Behind(mem["cmd_seq"]) # Behind(seen)
  BY NumberWords, BehindInjective
<1>5. /\ r5 \in Working => a53 \in Waiting /\ Behind(seen) = 0
      /\ mem["cmd_seq"] # seen => a53 \in Waiting /\ Behind(mem["cmd_seq"]) = 0
      /\ a53 \notin Waiting => Behind(seen) = 0
  BY <1>1, <1>2, <1>3, <1>4
<1> QED
  BY <1>5, NumberWords, BehindNothing

LEMMA Answered == ASSUME TypeOK, BatchInv PROVE ReplayedAsRecorded
<1> SUFFICES ASSUME a53 = "answered" PROVE served > 0 /\ replayed = [i \in Idx |-> tag]
  BY DEF ReplayedAsRecorded
<1>1. Done
  BY DEF BatchInv, Numbered
<1>2. seen = seq /\ out["done_seq"] = seq
  BY <1>1, AnsweredAll DEF BatchInv, Numbered
<1>3. r5 \notin {"batch", "replay", "fault"}
  BY <1>2 DEF BatchInv, Numbered, Working
<1>4. served > 0 /\ pos = BatchWords /\ \A i \in 1 .. pos : replayed[i] = tag
  BY <1>2, <1>3 DEF BatchInv, Taken, Submitted
<1>5. replayed \in Seq(0 .. Tags - 1) /\ Len(replayed) = pos
  BY DEF TypeOK
<1>6. replayed = [i \in Idx |-> tag]
  BY <1>4, <1>5 DEF Idx
<1> QED
  BY <1>4, <1>6

\* When a flush returns with an answer, the R5 has taken that batch and replayed
\* exactly the words recorded for it, however many submissions before it timed out
\* and however the words of memory land.
THEOREM AnsweredAsRecorded == Spec => []ReplayedAsRecorded
BY BatchInvariant, Answered, PTL DEF TypeInv

\* Without submissions given up, the recorder writes a ring only while the R5
\* is not replaying it.
THEOREM RecorderOwnsRing == ASSUME MaxLate = 0 PROVE Spec => []RingOwned
<1>1. ASSUME TypeInv, BatchInv PROVE RingOwned
  <2> DEFINE taken == IF r5 = "batch" THEN mem["args"] ELSE from
  <2> SUFFICES ASSUME r5 \in {"batch", "replay"}, NEW i \in (pos + 1) .. BatchWords
               PROVE  ringOut[taken][i] = tag /\ ring[taken][i] = tag
    BY DEF RingOwned
  <2>1. a53 \in Submitted /\ seen = seq
    BY <1>1, LastSubmission DEF TypeInv, Working, Submitted
  <2>2. i \in Idx
    BY <1>1, NumberTypes DEF TypeInv, Idx
  <2>3. taken = lib
    BY <1>1, <2>1 DEF BatchInv, Named, Taken
  <2> QED
    BY <1>1, <2>1, <2>2, <2>3 DEF BatchInv, Named
<1> QED
  BY <1>1, BatchInvariant, PTL
-----------------------------------------------------------------------------
(* The offload is a remote call.  Without submissions given up a batch is taken  *)
(* exactly once: when the R5 has taken the number the A53 gave it.               *)

ServedOnce == /\ a53 \in {"args", "submit"} => served = 0
              /\ a53 \in Submitted => served = IF seen = seq THEN 1 ELSE 0

CallInv == TypeInv /\ BatchInv /\ ServedOnce

\* The steps of which neither end of the call sees anything.
SameCall == /\ UNCHANGED <<lib, tag, seq, seen, replayed, served>>
            /\ a53' \in {"args", "submit"} => a53 \in {"args", "submit"}
            /\ a53' \in Submitted => a53 \in Submitted
            /\ Flushing' <=> Flushing

LEMMA CallSteps ==
  ASSUME [Next]_vars
  PROVE  \/ \E l \in Libs : Record(l)
         \/ Submit \/ Return \/ Timeout
         \/ Take \/ Replay
         \/ SameCall
<1> USE DEF A53At, A53Reads, R5At, R5Keeps, SameCall, Submitted, Waiting, Flushing
<1>1. ASSUME NEW l \in Libs, Attach(l) \/ Detach(l) PROVE SameCall
  BY <1>1 DEF Attach, Detach
<1>2. CASE Attached \/ WriteArgs \/ Ring \/ Spin \/ AskWake
  BY <1>2 DEF Attached, WriteArgs, Ring, Spin, AskWake
<1>3. CASE Recheck \/ Unmask \/ UnmaskFails \/ BeforePoll
  BY <1>3 DEF Recheck, Unmask, UnmaskFails, BeforePoll
<1>4. CASE PollEvent \/ PollSignal \/ PollTimeout \/ AfterPoll
  BY <1>4 DEF PollEvent, PollSignal, PollTimeout, AfterPoll
<1>5. CASE Unask \/ Busy
  BY <1>5 DEF Unask, Busy
<1>6. CASE Begin \/ Fault \/ BatchEnd \/ Answer \/ Doorbell
  BY <1>6 DEF Begin, Fault, BatchEnd, Answer, Doorbell
<1>7. CASE Look \/ StayAwake \/ Idle \/ Arm \/ Sleep \/ WakeUp \/ Awake \/ Rest \/ IpiIsr
  BY <1>7 DEF Look, StayAwake, Idle, Arm, Sleep, WakeUp, Awake, Rest, IpiIsr
<1>8. CASE Land \/ UioFires
  BY <1>8 DEF Land, LandWord, LandRing, LandDev, UioFires
<1>9. CASE UNCHANGED vars
  BY <1>9
<1> QED
  BY <1>1, <1>2, <1>3, <1>4, <1>5, <1>6, <1>7, <1>8, <1>9
     DEF Next, A53Step, Flush, Wait, R5Step, Firmware

LEMMA ServedStep ==
  ASSUME MaxLate = 0, TypeOK, BatchInv, ServedOnce, [Next]_vars
  PROVE  ServedOnce'
<1>1. ASSUME NEW l \in Libs, Record(l) PROVE ServedOnce'
  BY <1>1 DEF Record, A53At, ServedOnce, Submitted, Waiting
<1>2. CASE Submit
  <2>1. seen' # seq'
    BY <1>2, SubmitNumber
  <2> QED
    BY <1>2, <2>1 DEF Submit, A53At, ServedOnce
<1>3. CASE Take
  <2>1. a53 \in Waiting /\ mem["cmd_seq"] = seq /\ seen # seq
    BY <1>3, LastSubmission DEF Take
  <2>2. seen' = seq /\ served' = served + 1 /\ a53' = a53 /\ seq' = seq
    BY <1>3, <2>1 DEF Take, R5Keeps, BatchInv, Numbered
  <2>3. served = 0
    BY <2>1 DEF ServedOnce, Submitted
  <2> QED
    BY <2>1, <2>2, <2>3 DEF ServedOnce, Waiting
<1>4. CASE Return \/ Timeout
  BY <1>4 DEF Return, Timeout, A53At, ServedOnce, Submitted, Waiting
<1>5. CASE Replay
  BY <1>5 DEF Replay, R5Keeps, ServedOnce
<1>6. CASE SameCall
  BY <1>6 DEF SameCall, ServedOnce
<1> QED
  BY <1>1, <1>2, <1>3, <1>4, <1>5, <1>6, CallSteps

LEMMA CallInvariant == ASSUME MaxLate = 0 PROVE Spec => []CallInv
<1>1. Init => ServedOnce
  BY DEF Init, ServedOnce, Submitted, Waiting
<1>2. TypeInv /\ BatchInv /\ ServedOnce /\ [Next]_vars => ServedOnce'
  BY ServedStep DEF TypeInv
<1> QED
  BY <1>1, <1>2, BatchInvariant, PTL DEF Spec, CallInv

LEMMA CallStutters ==
  ASSUME Flushing' <=> Flushing, Flushing => lib' = lib /\ (Executed' <=> Executed)
  PROVE  UNCHANGED Call!callVars
BY DEF Call!callVars

\* A batch not taken, or not replayed to its end, is not executed.
LEMMA ExecutedWhen ==
  ASSUME TypeOK, Executed
  PROVE  served = 1 /\ pos = BatchWords
<1>1. replayed = [i \in Idx |-> tag] /\ replayed \in Seq(0 .. Tags - 1) /\ Len(replayed) = pos
  BY DEF Executed, TypeOK
<1>2. pos \in Nat /\ BatchWords \in Nat
  BY NumberTypes
<1>3. DOMAIN replayed = Idx
  BY <1>1, Zenon
<1>4. DOMAIN replayed = 1 .. pos
  BY <1>1
<1>5. BatchWords \in DOMAIN replayed /\ BatchWords + 1 \notin DOMAIN replayed
  BY <1>2, <1>3, NumberTypes DEF Idx
<1> QED
  BY <1>2, <1>4, <1>5 DEF Executed

LEMMA CallStep ==
  ASSUME MaxLate = 0, CallInv, [Next]_vars
  PROVE  [Call!CallNext]_(Call!callVars)
<1> USE DEF A53At, R5At, R5Keeps, Flushing
<1>0. TypeOK /\ BatchInv /\ ServedOnce
  BY DEF CallInv, TypeInv
<1>1. ASSUME NEW l \in Libs, Record(l) PROVE Call!CallNext
  <2>1. ~Flushing /\ Flushing' /\ lib' = l
    BY <1>1 DEF Record
  <2>2. ~Executed'
    BY <1>1 DEF Record, Executed
  <2>3. Call!Call(l)
    BY <2>1, <2>2 DEF Call!Call
  <2> QED
    BY <2>3 DEF Call!CallNext
<1>2. CASE Submit
  BY <1>2, CallStutters DEF Submit, Executed
<1>3. CASE Return
  <2>1. Executed
    BY <1>0, <1>3, Answered DEF Return, ReplayedAsRecorded, ServedOnce, Submitted, Executed
  <2>2. Flushing /\ ~Flushing'
    BY <1>3 DEF Return
  <2> QED
    BY <2>1, <2>2 DEF Call!Return, Call!CallNext
<1>4. CASE Timeout
  BY <1>0, <1>4, NumberTypes DEF Timeout
<1>5. CASE Take
  <2>1. a53 \in Waiting /\ seen # seq
    BY <1>0, <1>5, LastSubmission DEF Take
  <2>2. ~Executed
    BY <1>0, <2>1 DEF ServedOnce, Submitted, Executed
  <2>3. ~Executed'
    <3>1. replayed' = <<>> /\ 1 \in Idx
      BY <1>5, NumberTypes, <1>0 DEF Take, Idx
    <3> QED
      BY <3>1 DEF Executed
  <2> QED
    BY <1>5, <2>2, <2>3, CallStutters DEF Take
<1>6. CASE Replay
  <2>1. ~Executed
    BY <1>0, <1>6, ExecutedWhen, NumberTypes DEF Replay
  <2>2. (Flushing' <=> Flushing) /\ lib' = lib
    BY <1>6 DEF Replay
  <2>3. CASE Flushing /\ Executed'
    BY <2>1, <2>2, <2>3 DEF Call!Serve, Call!CallNext
  <2>4. CASE ~(Flushing /\ Executed')
    BY <2>1, <2>2, <2>4, CallStutters
  <2> QED
    BY <2>3, <2>4
<1>7. CASE SameCall
  BY <1>7, CallStutters DEF SameCall, Executed
<1> QED
  BY <1>1, <1>2, <1>3, <1>4, <1>5, <1>6, <1>7, CallSteps

\* Refinement: a flush hands over one batch, the R5 serves it once, and only then
\* does the flush return, as long as none is given up.
THEOREM OffloadIsRemoteCall == ASSUME MaxLate = 0 PROVE Spec => IsRemoteCall
<1>1. Init => Call!CallInit
  BY DEF Init, Call!CallInit, Flushing
<1>2. CallInv /\ [Next]_vars => [Call!CallNext]_(Call!callVars)
  BY CallStep
<1> QED
  BY <1>1, <1>2, CallInvariant, PTL DEF Spec, IsRemoteCall, Call!CallSafety
=============================================================================
