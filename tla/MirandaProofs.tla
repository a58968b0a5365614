---------------------------- MODULE MirandaProofs ----------------------------
(***************************************************************************)
(* Proofs about MirandaSession, for every size of the queue, every recording  *)
(* and every bound.                                                         *)
(***************************************************************************)
EXTENDS MirandaSession, SequenceTheorems, TLAPS

USE DEF sessionVars, clientVars, settings, vars

-----------------------------------------------------------------------------
(* Stale audio.                                                              *)

\* The queue and the packet in the UDP loop's hand: what is stale in them.
AudioInv == /\ epoch \in Nat /\ q \in Seq(Nat)
            /\ hand = <<>> \/ \E e \in Nat : hand = <<e>>
            /\ StaleAtMostOne

Audio == <<epoch, q, hand>>

LEMMA AudioKept == ASSUME AudioInv, UNCHANGED Audio PROVE AudioInv'
<1>1. epoch' = epoch /\ q' = q /\ hand' = hand
  BY DEF Audio
<1> QED
  BY <1>1 DEF AudioInv, StaleAtMostOne, Stale

\* A packet leaves the front of the queue.
LEMMA AudioTaken ==
  ASSUME AudioInv, q # <<>>, q' = Tail(q), UNCHANGED <<epoch, hand>>
  PROVE  AudioInv'
<1>1. q \in Seq(Nat) /\ DOMAIN q = 1 .. Len(q) /\ Len(q) \in Nat \ {0}
  BY LenProperties, EmptySeq DEF AudioInv
<1>2. q' \in Seq(Nat) /\ Len(q') = Len(q) - 1 /\ \A i \in 1 .. Len(q') : q'[i] = q[i + 1]
  BY <1>1, HeadTailProperties
<1>3. DOMAIN q' = 1 .. Len(q')
  BY <1>2, LenProperties
<1>4. StaleAtMostOne'
  <2>1. SUFFICES ASSUME NEW i \in DOMAIN q', Stale(q'[i])
                 PROVE  /\ \A j \in DOMAIN q' : Stale(q'[j]) => i = j
                        /\ \A j \in DOMAIN hand' : ~Stale(hand'[j])
    BY DEF StaleAtMostOne, Stale
  <2>2. i + 1 \in DOMAIN q /\ Stale(q[i + 1])
    BY <1>1, <1>2, <1>3, <2>1 DEF Stale
  <2>3. ASSUME NEW j \in DOMAIN q', Stale(q'[j]) PROVE i = j
    <3>1. j + 1 \in DOMAIN q /\ Stale(q[j + 1])
      BY <1>1, <1>2, <1>3, <2>3 DEF Stale
    <3>2. i + 1 = j + 1
      BY <2>2, <3>1 DEF AudioInv, StaleAtMostOne
    <3> QED
      BY <3>2, <1>2, <1>3
  <2>4. ASSUME NEW j \in DOMAIN hand' PROVE ~Stale(hand'[j])
    BY <2>2, <2>4 DEF AudioInv, StaleAtMostOne, Stale
  <2> QED
    BY <2>3, <2>4
<1> QED
  BY <1>2, <1>4 DEF AudioInv

\* One entry comes to the end of the queue: a packet from the hand, or the end mark.
LEMMA AudioPut ==
  ASSUME AudioInv, NEW e \in Nat, q' = Append(q, e), UNCHANGED epoch,
         hand' = <<>> \/ (e = None /\ hand' = hand),
         Stale(e) => hand = <<e>>
  PROVE  AudioInv'
<1>1. q \in Seq(Nat) /\ DOMAIN q = 1 .. Len(q) /\ Len(q) \in Nat
  BY LenProperties DEF AudioInv
<1>2. /\ q' \in Seq(Nat) /\ Len(q') = Len(q) + 1
      /\ \A i \in 1 .. Len(q) : q'[i] = q[i]
      /\ q'[Len(q) + 1] = e
  BY <1>1, AppendProperties
<1>3. DOMAIN q' = 1 .. Len(q) + 1
  BY <1>2, LenProperties
<1>4. StaleAtMostOne'
  <2>1. CASE Stale(e)
    <3>1. hand = <<e>> /\ hand' = <<>>
      BY <2>1 DEF Stale
    <3>2. 1 \in DOMAIN hand /\ Stale(hand[1])
      BY <3>1, <2>1
    <3>3. \A i \in DOMAIN q : ~Stale(q[i])
      BY <3>2 DEF AudioInv, StaleAtMostOne
    <3>4. \A i \in DOMAIN q' : Stale(q'[i]) => i = Len(q) + 1
      BY <1>1, <1>2, <1>3, <3>3 DEF Stale
    <3>5. DOMAIN hand' = {}
      BY <3>1
    <3> QED
      BY <3>4, <3>5 DEF StaleAtMostOne, Stale
  <2>2. CASE ~Stale(e)
    <3>1. \A i \in DOMAIN q' : Stale(q'[i]) => i \in DOMAIN q /\ Stale(q[i])
      BY <1>1, <1>2, <1>3, <2>2 DEF Stale
    <3>2. ASSUME NEW j \in DOMAIN hand', Stale(hand'[j]) PROVE j \in DOMAIN hand /\ Stale(hand[j])
      <4>1. hand' # <<>>
        BY <3>2
      <4> QED
        BY <4>1, <3>2 DEF Stale
    <3> QED
      BY <3>1, <3>2 DEF AudioInv, StaleAtMostOne, Stale
  <2> QED
    BY <2>1, <2>2
<1>5. hand' = <<>> \/ \E f \in Nat : hand' = <<f>>
  BY DEF AudioInv
<1> QED
  BY <1>2, <1>4, <1>5 DEF AudioInv

LEMMA CloseAudio ==
  ASSUME AudioInv, mark, UNCHANGED <<epoch, hand>>
  PROVE  AudioInv'
<1>1. CASE q' = Append(q, None)
  BY <1>1, AudioPut DEF None, Stale
<1>2. CASE q' = q
  BY <1>2, AudioKept DEF Audio
<1> QED
  BY <1>1, <1>2 DEF mark

\* A message changes the queue only when it fails and closes the session.
LEMMA SendAudio ==
  ASSUME AudioInv, NEW ms, Send(ms), UNCHANGED <<epoch, hand>>
  PROVE  AudioInv'
<1>1. CASE UNCHANGED q
  BY <1>1, AudioKept DEF Audio
<1>2. CASE mark
  BY <1>2, CloseAudio
<1> QED
  BY <1>1, <1>2 DEF Send, close

\* The steps of the worker that send something.
LEMMA WorkerSends ==
  ASSUME Worker, ~(Drain \/ Leave \/ Get), UNCHANGED hand, AudioInv
  PROVE  AudioInv'
<1>1. ASSUME NEW s, set_state(s) PROVE \E ms : Send(ms)
  BY <1>1 DEF set_state
<1>2. sync_dialogue => UNCHANGED q \/ \E ms : Send(ms)
  BY <1>1 DEF sync_dialogue, SendNothing
<1>3. SendUnmodelled => \E ms : Send(ms)
  BY DEF SendUnmodelled
<1>4. ASSUME NEW greeting, NEW ms, BeginTurn(greeting, ms) PROVE UNCHANGED epoch /\ (UNCHANGED q \/ mark)
  BY <1>4 DEF BeginTurn
<1>5. ASSUME WarmUp \/ Ignored \/ Wake \/ AnswerDelta \/ TellSilence \/ TellAuto \/ Finish
      PROVE  UNCHANGED epoch /\ \E ms : Send(ms)
  BY <1>3, <1>5 DEF WarmUp, Ignored, Wake, AnswerDelta, TellSilence, TellAuto, Finish
<1>6. ASSUME Resume \/ Top \/ AwakeTimeout \/ DialogueTimeout \/ WokenAwait
      PROVE  UNCHANGED epoch /\ (UNCHANGED q \/ \E ms : Send(ms))
  BY <1>1, <1>2, <1>6 DEF Resume, Top, AwakeTimeout, DialogueTimeout, WokenAwait, SendNothing
<1>7. ASSUME Request \/ Goodbye \/ LetsTalk \/ TellMode \/ WokenRequest \/ WokenGreeting
      PROVE  UNCHANGED epoch /\ (UNCHANGED q \/ mark \/ \E ms : Send(ms))
  BY <1>3, <1>4, <1>7 DEF Request, Goodbye, LetsTalk, SayMode, TellMode, WokenRequest, WokenGreeting
<1>8. ASSUME GetTimeout \/ Quiet \/ AssignMode \/ PlaybackOver
      PROVE  UNCHANGED <<epoch, q>>
  BY <1>8 DEF GetTimeout, Quiet, AssignMode, PlaybackOver
<1>9. UNCHANGED epoch /\ (UNCHANGED q \/ mark \/ \E ms : Send(ms))
  BY <1>5, <1>6, <1>7, <1>8 DEF Worker
<1> QED
  BY <1>9, AudioKept, CloseAudio, SendAudio DEF Audio

\* One step of the session.
LEMMA AudioStep == ASSUME AudioInv, Next PROVE AudioInv'
<1>1. CASE WorkerStep
  <2>1. UNCHANGED hand
    BY <1>1 DEF WorkerStep, Server
  <2>2. CASE Drain
    <3>1. q' = <<>> /\ epoch' = epoch + 1
      BY <2>2 DEF Drain
    <3>2. q' \in Seq(Nat) /\ DOMAIN q' = {}
      BY <3>1, EmptySeq, LenProperties
    <3> QED
      BY <2>1, <3>1, <3>2 DEF AudioInv, StaleAtMostOne
  <2>3. CASE Leave
    <3>1. UNCHANGED epoch /\ (q' = q \/ (q # <<>> /\ q' = Tail(q)))
      BY <2>3 DEF Leave
    <3> QED
      BY <2>1, <3>1, AudioTaken, AudioKept DEF Audio
  <2>4. CASE Get
    BY <2>1, <2>4, AudioTaken DEF Get
  <2>5. CASE ~(Drain \/ Leave \/ Get)
    BY <1>1, <2>1, <2>5, WorkerSends DEF WorkerStep, Server
  <2> QED
    BY <2>2, <2>3, <2>4, <2>5
<1>2. CASE FailStep
  BY <1>2, CloseAudio DEF FailStep, Server, WorkerFails, close
<1>3. CASE VoiceStep
  BY <1>3, SendAudio DEF VoiceStep, Server, Voice, VoiceStarts, VoiceEnds, SendUnmodelled
<1>4. CASE ControlStep
  <2>1. UNCHANGED hand
    BY <1>4 DEF ControlStep, Server
  <2>2. CASE EndOfSession
    BY <2>1, <2>2, CloseAudio DEF EndOfSession, close
  <2>3. CASE TellClient
    BY <2>1, <2>3, SendAudio DEF TellClient
  <2>4. CASE ~(EndOfSession \/ TellClient)
    BY <1>4, <2>1, <2>4, AudioKept DEF ControlStep, Server, Control, PlaybackDone,
       SwitchMode, SetMode, ConnectionReset, Unlist, Audio
  <2> QED
    BY <2>2, <2>3, <2>4
<1>5. CASE Speak
  <2>1. UNCHANGED <<epoch, q>> /\ (hand' = <<>> \/ hand' = <<epoch>>)
    BY <1>5 DEF Speak
  <2>2. \A j \in DOMAIN hand' : ~Stale(hand'[j])
    BY <2>1 DEF Stale
  <2> QED
    BY <2>1, <2>2 DEF AudioInv, StaleAtMostOne, Stale
<1>6. CASE Put
  <2>1. PICK e \in Nat : hand = <<e>>
    BY <1>6 DEF Put, AudioInv
  <2>2. hand' = <<>> /\ UNCHANGED epoch
    BY <1>6 DEF Put
  <2>3. q' = q \/ q' = Append(q, e)
    BY <1>6, <2>1 DEF Put, AudioInv
  <2>4. CASE q' = q
    BY <2>2, <2>4 DEF AudioInv, StaleAtMostOne, Stale
  <2>5. CASE q' = Append(q, e)
    BY <2>1, <2>2, <2>5, AudioPut
  <2> QED
    BY <2>3, <2>4, <2>5
<1>7. CASE Client(Events) \/ Client(KeyD) \/ Client(LeaveQuiet) \/ Client(Quit)
  BY <1>7, AudioKept DEF Client, Audio
<1> QED
  BY <1>1, <1>2, <1>3, <1>4, <1>5, <1>6, <1>7 DEF Next

\* At most one packet of stale audio is ever left for the worker to take, however the UDP
\* loop, the worker and the end of the session interleave (on_rtp, listen, close).
THEOREM StaleAudioDropped == Spec => []StaleAtMostOne
<1>1. Init => AudioInv
  <2> SUFFICES ASSUME Init PROVE AudioInv
    OBVIOUS
  <2>1. epoch = 0 /\ q = <<>> /\ hand = <<>>
    BY DEF Init
  <2>2. q \in Seq(Nat) /\ DOMAIN q = {}
    BY <2>1, EmptySeq, LenProperties
  <2> QED
    BY <2>1, <2>2 DEF AudioInv, StaleAtMostOne
<1>2. AudioInv /\ [Next]_vars => AudioInv'
  <2>1. ASSUME AudioInv, UNCHANGED vars PROVE AudioInv'
    BY <2>1, AudioKept DEF Audio
  <2> QED
    BY <2>1, AudioStep
<1>3. AudioInv => StaleAtMostOne
  BY DEF AudioInv
<1> QED
  BY <1>1, <1>2, <1>3, PTL DEF Spec

-----------------------------------------------------------------------------
(* The mute.  What the client does when it takes message n depends on the     *)
(* state and the speech it has by then, and these on the messages before n.   *)

IsListen(m) == m.type = "state" /\ m.state \in LISTENING_STATES
IsMute(m)   == m.type = "state" /\ m.state \notin LISTENING_STATES
IsStart(m)  == m.type = "audio_start"
IsEnd(m)    == m.type = "audio_end"

MutesIn(s, i, j) == \E k \in 1 .. Len(s) : i < k /\ k < j /\ IsMute(s[k])
EndsIn(s, i, j)  == \E k \in 1 .. Len(s) : i < k /\ k < j /\ IsEnd(s[k])

\* At message n the client is told to be mute; it has no speech.
MutedAt(s, cs, n) ==
  /\ cs \in LISTENING_STATES => MutesIn(s, 0, n)
  /\ \A j \in 1 .. Len(s) : j < n /\ IsListen(s[j]) => MutesIn(s, j, n)
SilentAt(s, sp, n) ==
  /\ sp = "on" => EndsIn(s, 0, n)
  /\ \A i \in 1 .. Len(s) : i < n /\ IsStart(s[i]) => EndsIn(s, i, n)

\* Speech starts when the client is muted, it listens when there is no speech, and what
\* ends is speech.
PipeInv(s, cs, sp) ==
  \A n \in 1 .. Len(s) : /\ IsStart(s[n]) => MutedAt(s, cs, n)
                         /\ IsListen(s[n]) => SilentAt(s, sp, n)
                         /\ IsEnd(s[n]) => ~SilentAt(s, sp, n)

\* What the server's threads know of the client behind the last message, as long as
\* they talk to one.
Behind == Len(s2c) + 1
ServerInv ==
  /\ voice # "silent" => at \in {"turn", "ended"}
  /\ ctl # "gone" /\ ~gone =>
       /\ voice = "ready" => MutedAt(s2c, cstate, Behind)
       /\ SilentAt(s2c, speaker, Behind) <=> voice \notin {"sounding", "spoken"}

\* A client that is gone hears nothing.
GoneInv == gone => s2c = <<>> /\ cstate = "connecting" /\ speaker = "off"

MuteInv == /\ s2c \in Seq(ToClient) /\ speaker \in {"off", "on", "last"}
           /\ PipeInv(s2c, cstate, speaker) /\ ServerInv /\ GoneInv
           /\ MutedWhilePlaying

\* One message more on its way: nothing changes for those before it.
LEMMA Told ==
  ASSUME NEW s \in Seq(ToClient), NEW m \in ToClient, NEW cs, NEW sp
  PROVE  LET t == Append(s, m)
             n == Len(s) + 1
         IN  /\ t \in Seq(ToClient) /\ n \in Nat /\ Len(t) = n /\ t[n] = m
             /\ \A i \in 1 .. Len(s) : t[i] = s[i]
             /\ \A i \in 1 .. n : /\ MutedAt(t, cs, i) <=> MutedAt(s, cs, i)
                                  /\ SilentAt(t, sp, i) <=> SilentAt(s, sp, i)
             /\ MutedAt(t, cs, n + 1) <=> IsMute(m) \/ (~IsListen(m) /\ MutedAt(s, cs, n))
             /\ SilentAt(t, sp, n + 1) <=> IsEnd(m) \/ (~IsStart(m) /\ SilentAt(s, sp, n))
<1> DEFINE t == Append(s, m)
           n == Len(s) + 1
<1>1. /\ t \in Seq(ToClient) /\ n \in Nat /\ Len(t) = n /\ n = Len(s) + 1 /\ Len(s) \in Nat
      /\ \A i \in 1 .. Len(s) : t[i] = s[i]
      /\ t[n] = m
  BY AppendProperties, LenProperties
<1> HIDE DEF t, n
<1>2. \A i, j \in Nat : j <= n => /\ MutesIn(t, i, j) <=> MutesIn(s, i, j)
                                  /\ EndsIn(t, i, j) <=> EndsIn(s, i, j)
  BY <1>1 DEF MutesIn, EndsIn
<1>3. \A i \in Nat : i < n => /\ MutesIn(t, i, n + 1) <=> IsMute(m) \/ MutesIn(s, i, n)
                              /\ EndsIn(t, i, n + 1) <=> IsEnd(m) \/ EndsIn(s, i, n)
  BY <1>1 DEF MutesIn, EndsIn
<1>4. ~MutesIn(t, n, n + 1) /\ ~EndsIn(t, n, n + 1)
  BY <1>1 DEF MutesIn, EndsIn
<1>5. ASSUME NEW i \in 1 .. n
      PROVE  /\ MutedAt(t, cs, i) <=> MutedAt(s, cs, i)
             /\ SilentAt(t, sp, i) <=> SilentAt(s, sp, i)
  BY <1>1, <1>2 DEF MutedAt, SilentAt
<1>6. ~(IsMute(m) /\ IsListen(m)) /\ ~(IsStart(m) /\ IsEnd(m))
  BY DEF IsMute, IsListen, IsStart, IsEnd
<1>7. MutedAt(t, cs, n + 1) <=> IsMute(m) \/ (~IsListen(m) /\ MutedAt(s, cs, n))
  BY <1>1, <1>3, <1>4, <1>6 DEF MutedAt
<1>8. SilentAt(t, sp, n + 1) <=> IsEnd(m) \/ (~IsStart(m) /\ SilentAt(s, sp, n))
  BY <1>1, <1>3, <1>4, <1>6 DEF SilentAt
<1> QED
  BY <1>1, <1>5, <1>7, <1>8 DEF t, n

\* The client takes the first message: the rest finds it as before.
NowState(m, cs) == IF m.type = "state" THEN m.state ELSE cs
NowSpeech(m, sp) == IF IsStart(m) THEN "on" ELSE IF IsEnd(m) THEN "last" ELSE sp

LEMMA Heard ==
  ASSUME NEW s \in Seq(ToClient), s # <<>>, NEW cs, NEW sp
  PROVE  LET t == Tail(s)
             m == Head(s)
         IN  /\ t \in Seq(ToClient) /\ Len(s) = Len(t) + 1 /\ Len(t) \in Nat /\ m = s[1]
             /\ \A i \in 1 .. Len(t) : i + 1 \in 1 .. Len(s) /\ t[i] = s[i + 1]
             /\ \A i \in 1 .. Len(s) :
                  /\ MutedAt(t, NowState(m, cs), i) <=> MutedAt(s, cs, i + 1)
                  /\ SilentAt(t, NowSpeech(m, sp), i) <=> SilentAt(s, sp, i + 1)
<1> DEFINE t == Tail(s)
           m == Head(s)
<1>1. Len(s) \in Nat \ {0}
  BY EmptySeq, LenProperties
<1>2. /\ t \in Seq(ToClient) /\ Len(t) \in Nat /\ Len(s) = Len(t) + 1
      /\ \A i \in 1 .. Len(t) : i + 1 \in 1 .. Len(s) /\ t[i] = s[i + 1]
  BY <1>1, HeadTailProperties, LenProperties
<1>3. m = s[1] /\ m \in ToClient
  BY <1>1, HeadTailProperties
<1> HIDE DEF t, m
<1>4. \A k \in 1 .. Len(s) : k = 1 \/ \E h \in 1 .. Len(t) : k = h + 1 /\ t[h] = s[k]
  <2>1. SUFFICES ASSUME NEW k \in 1 .. Len(s), k # 1
                 PROVE  \E h \in 1 .. Len(t) : k = h + 1 /\ t[h] = s[k]
    OBVIOUS
  <2>2. k - 1 \in 1 .. Len(t) /\ k = (k - 1) + 1
    BY <1>2, <2>1
  <2> QED
    BY <1>2, <2>2
<1>5. ASSUME NEW i \in Nat, NEW j \in Nat
      PROVE  MutesIn(t, i, j) <=> MutesIn(s, i + 1, j + 1)
  <2>1. ASSUME MutesIn(t, i, j) PROVE MutesIn(s, i + 1, j + 1)
    <3>1. PICK k \in 1 .. Len(t) : i < k /\ k < j /\ IsMute(t[k])
      BY <2>1 DEF MutesIn
    <3>2. k + 1 \in 1 .. Len(s) /\ i + 1 < k + 1 /\ k + 1 < j + 1 /\ IsMute(s[k + 1])
      BY <1>2, <3>1
    <3> QED
      BY <3>2 DEF MutesIn
  <2>2. ASSUME MutesIn(s, i + 1, j + 1) PROVE MutesIn(t, i, j)
    <3>1. PICK k \in 1 .. Len(s) : i + 1 < k /\ k < j + 1 /\ IsMute(s[k])
      BY <2>2 DEF MutesIn
    <3>2. PICK h \in 1 .. Len(t) : k = h + 1 /\ t[h] = s[k]
      BY <1>4, <3>1
    <3> QED
      BY <1>2, <3>1, <3>2 DEF MutesIn
  <2> QED
    BY <2>1, <2>2
<1>6. ASSUME NEW i \in Nat, NEW j \in Nat
      PROVE  EndsIn(t, i, j) <=> EndsIn(s, i + 1, j + 1)
  <2>1. ASSUME EndsIn(t, i, j) PROVE EndsIn(s, i + 1, j + 1)
    <3>1. PICK k \in 1 .. Len(t) : i < k /\ k < j /\ IsEnd(t[k])
      BY <2>1 DEF EndsIn
    <3>2. k + 1 \in 1 .. Len(s) /\ i + 1 < k + 1 /\ k + 1 < j + 1 /\ IsEnd(s[k + 1])
      BY <1>2, <3>1
    <3> QED
      BY <3>2 DEF EndsIn
  <2>2. ASSUME EndsIn(s, i + 1, j + 1) PROVE EndsIn(t, i, j)
    <3>1. PICK k \in 1 .. Len(s) : i + 1 < k /\ k < j + 1 /\ IsEnd(s[k])
      BY <2>2 DEF EndsIn
    <3>2. PICK h \in 1 .. Len(t) : k = h + 1 /\ t[h] = s[k]
      BY <1>4, <3>1
    <3> QED
      BY <1>2, <3>1, <3>2 DEF EndsIn
  <2> QED
    BY <2>1, <2>2
<1>9. 1 \in 1 .. Len(s) /\ \A k \in 1 .. Len(s) : k = 1 \/ 1 < k
  BY <1>1
<1>10. ASSUME NEW j \in Nat, j > 0
      PROVE  MutesIn(s, 0, j + 1) <=> IsMute(m) \/ MutesIn(t, 0, j)
  <2>1. ASSUME MutesIn(s, 0, j + 1), ~IsMute(m) PROVE MutesIn(s, 1, j + 1)
    BY <1>1, <1>3, <1>9, <2>1 DEF MutesIn
  <2>2. ASSUME IsMute(m) PROVE MutesIn(s, 0, j + 1)
    <3>1. 1 \in 1 .. Len(s) /\ 0 < 1 /\ 1 < j + 1 /\ IsMute(s[1])
      BY <1>3, <1>9, <1>10, <2>2
    <3> QED
      BY <3>1 DEF MutesIn
  <2>3. MutesIn(s, 1, j + 1) => MutesIn(s, 0, j + 1)
    BY DEF MutesIn
  <2>4. MutesIn(t, 0, j) <=> MutesIn(s, 1, j + 1)
    BY <1>5, 0 + 1 = 1
  <2> QED
    BY <2>1, <2>2, <2>3, <2>4
<1>11. ASSUME NEW j \in Nat, j > 0
      PROVE  EndsIn(s, 0, j + 1) <=> IsEnd(m) \/ EndsIn(t, 0, j)
  <2>1. ASSUME EndsIn(s, 0, j + 1), ~IsEnd(m) PROVE EndsIn(s, 1, j + 1)
    BY <1>1, <1>3, <1>9, <2>1 DEF EndsIn
  <2>2. ASSUME IsEnd(m) PROVE EndsIn(s, 0, j + 1)
    <3>1. 1 \in 1 .. Len(s) /\ 0 < 1 /\ 1 < j + 1 /\ IsEnd(s[1])
      BY <1>3, <1>9, <1>11, <2>2
    <3> QED
      BY <3>1 DEF EndsIn
  <2>3. EndsIn(s, 1, j + 1) => EndsIn(s, 0, j + 1)
    BY DEF EndsIn
  <2>4. EndsIn(t, 0, j) <=> EndsIn(s, 1, j + 1)
    BY <1>6, 0 + 1 = 1
  <2> QED
    BY <2>1, <2>2, <2>3, <2>4
<1>7. ASSUME NEW i \in 1 .. Len(s)
      PROVE  MutedAt(t, NowState(m, cs), i) <=> MutedAt(s, cs, i + 1)
  <2>1. (\A j \in 1 .. Len(s) : j < i + 1 /\ IsListen(s[j]) => MutesIn(s, j, i + 1))
          <=> /\ IsListen(m) => MutesIn(t, 0, i)
              /\ \A j \in 1 .. Len(t) : j < i /\ IsListen(t[j]) => MutesIn(t, j, i)
    <3>1. ASSUME \A j \in 1 .. Len(s) : j < i + 1 /\ IsListen(s[j]) => MutesIn(s, j, i + 1)
          PROVE  /\ IsListen(m) => MutesIn(t, 0, i)
                 /\ \A j \in 1 .. Len(t) : j < i /\ IsListen(t[j]) => MutesIn(t, j, i)
      <4>1. IsListen(m) => MutesIn(s, 1, i + 1)
        BY <1>3, <1>9, <3>1
      <4>2. \A j \in 1 .. Len(t) : j < i /\ IsListen(t[j]) => MutesIn(s, j + 1, i + 1)
        BY <1>2, <3>1
      <4>3. MutesIn(t, 0, i) <=> MutesIn(s, 1, i + 1)
        BY <1>5, 0 + 1 = 1
      <4>4. \A j \in 1 .. Len(t) : MutesIn(t, j, i) <=> MutesIn(s, j + 1, i + 1)
        BY <1>2, <1>5
      <4> QED
        BY <4>1, <4>2, <4>3, <4>4
    <3>2. ASSUME IsListen(m) => MutesIn(t, 0, i),
                 \A j \in 1 .. Len(t) : j < i /\ IsListen(t[j]) => MutesIn(t, j, i)
          PROVE  \A j \in 1 .. Len(s) : j < i + 1 /\ IsListen(s[j]) => MutesIn(s, j, i + 1)
      <4>1. ASSUME NEW j \in 1 .. Len(s), j < i + 1, IsListen(s[j]) PROVE MutesIn(s, j, i + 1)
        <5>1. CASE j = 1
          BY <1>3, <1>5, <3>2, <4>1, <5>1, 0 + 1 = 1
        <5>2. CASE j # 1
          <6>1. PICK h \in 1 .. Len(t) : j = h + 1 /\ t[h] = s[j]
            BY <1>4, <5>2
          <6>2. h < i /\ MutesIn(t, h, i)
            BY <1>2, <3>2, <4>1, <6>1
          <6> QED
            BY <1>2, <1>5, <6>1, <6>2
        <5> QED
          BY <5>1, <5>2
      <4> QED
        BY <4>1
    <3> QED
      BY <3>1, <3>2
  <2>2. MutesIn(s, 0, i + 1) <=> IsMute(m) \/ MutesIn(t, 0, i)
    BY <1>10
  <2> QED
    BY <2>1, <2>2 DEF MutedAt, NowState, IsListen, IsMute
<1>8. ASSUME NEW i \in 1 .. Len(s)
      PROVE  SilentAt(t, NowSpeech(m, sp), i) <=> SilentAt(s, sp, i + 1)
  <2>1. (\A j \in 1 .. Len(s) : j < i + 1 /\ IsStart(s[j]) => EndsIn(s, j, i + 1))
          <=> /\ IsStart(m) => EndsIn(t, 0, i)
              /\ \A j \in 1 .. Len(t) : j < i /\ IsStart(t[j]) => EndsIn(t, j, i)
    <3>1. ASSUME \A j \in 1 .. Len(s) : j < i + 1 /\ IsStart(s[j]) => EndsIn(s, j, i + 1)
          PROVE  /\ IsStart(m) => EndsIn(t, 0, i)
                 /\ \A j \in 1 .. Len(t) : j < i /\ IsStart(t[j]) => EndsIn(t, j, i)
      <4>1. IsStart(m) => EndsIn(s, 1, i + 1)
        BY <1>3, <1>9, <3>1
      <4>2. \A j \in 1 .. Len(t) : j < i /\ IsStart(t[j]) => EndsIn(s, j + 1, i + 1)
        BY <1>2, <3>1
      <4>3. EndsIn(t, 0, i) <=> EndsIn(s, 1, i + 1)
        BY <1>6, 0 + 1 = 1
      <4>4. \A j \in 1 .. Len(t) : EndsIn(t, j, i) <=> EndsIn(s, j + 1, i + 1)
        BY <1>2, <1>6
      <4> QED
        BY <4>1, <4>2, <4>3, <4>4
    <3>2. ASSUME IsStart(m) => EndsIn(t, 0, i),
                 \A j \in 1 .. Len(t) : j < i /\ IsStart(t[j]) => EndsIn(t, j, i)
          PROVE  \A j \in 1 .. Len(s) : j < i + 1 /\ IsStart(s[j]) => EndsIn(s, j, i + 1)
      <4>1. ASSUME NEW j \in 1 .. Len(s), j < i + 1, IsStart(s[j]) PROVE EndsIn(s, j, i + 1)
        <5>1. CASE j = 1
          BY <1>3, <1>6, <3>2, <4>1, <5>1, 0 + 1 = 1
        <5>2. CASE j # 1
          <6>1. PICK h \in 1 .. Len(t) : j = h + 1 /\ t[h] = s[j]
            BY <1>4, <5>2
          <6>2. h < i /\ EndsIn(t, h, i)
            BY <1>2, <3>2, <4>1, <6>1
          <6> QED
            BY <1>2, <1>6, <6>1, <6>2
        <5> QED
          BY <5>1, <5>2
      <4> QED
        BY <4>1
    <3> QED
      BY <3>1, <3>2
  <2>2. EndsIn(s, 0, i + 1) <=> IsEnd(m) \/ EndsIn(t, 0, i)
    BY <1>11
  <2> QED
    BY <2>1, <2>2 DEF SilentAt, NowSpeech, IsStart, IsEnd
<1> QED
  BY <1>2, <1>3, <1>7, <1>8 DEF t, m

-----------------------------------------------------------------------------
(* The steps.                                                                *)

\* The messages with n behind them, and what a thread may know of the client there.
Line(s, cs, sp) == s \in Seq(ToClient) /\ PipeInv(s, cs, sp)
Muted(s, cs)  == MutedAt(s, cs, Len(s) + 1)
Silent(s, sp) == SilentAt(s, sp, Len(s) + 1)

LEMMA OneMore ==
  ASSUME NEW s, NEW cs, NEW sp, NEW m \in ToClient, Line(s, cs, sp),
         IsStart(m) => Muted(s, cs), IsListen(m) => Silent(s, sp), IsEnd(m) => ~Silent(s, sp)
  PROVE  LET t == Append(s, m)
         IN  /\ Line(t, cs, sp)
             /\ Muted(t, cs) <=> IsMute(m) \/ (~IsListen(m) /\ Muted(s, cs))
             /\ Silent(t, sp) <=> IsEnd(m) \/ (~IsStart(m) /\ Silent(s, sp))
<1> DEFINE t == Append(s, m)
           n == Len(s) + 1
<1>1. s \in Seq(ToClient)
  BY DEF Line
<1>2. /\ t \in Seq(ToClient) /\ n \in Nat /\ Len(t) = n /\ t[n] = m
      /\ \A i \in 1 .. Len(s) : t[i] = s[i]
      /\ \A i \in 1 .. n : /\ MutedAt(t, cs, i) <=> MutedAt(s, cs, i)
                           /\ SilentAt(t, sp, i) <=> SilentAt(s, sp, i)
      /\ MutedAt(t, cs, n + 1) <=> IsMute(m) \/ (~IsListen(m) /\ MutedAt(s, cs, n))
      /\ SilentAt(t, sp, n + 1) <=> IsEnd(m) \/ (~IsStart(m) /\ SilentAt(s, sp, n))
  BY <1>1, Told
<1>3. \A i \in 1 .. n : i = n \/ i \in 1 .. Len(s)
  BY <1>1, LenProperties
<1>4. n \in 1 .. n /\ \A i \in 1 .. Len(s) : i \in 1 .. n
  BY <1>1, LenProperties
<1> HIDE DEF t
<1>5. PipeInv(t, cs, sp)
  <2>1. ASSUME NEW i \in 1 .. n
        PROVE  /\ IsStart(t[i]) => MutedAt(t, cs, i)
               /\ IsListen(t[i]) => SilentAt(t, sp, i)
               /\ IsEnd(t[i]) => ~SilentAt(t, sp, i)
    <3>1. CASE i = n
      BY <1>2, <1>4, <3>1 DEF Muted, Silent
    <3>2. CASE i \in 1 .. Len(s)
      BY <1>2, <1>4, <3>2 DEF Line, PipeInv
    <3> QED
      BY <1>3, <3>1, <3>2
  <2> QED
    BY <1>2, <2>1 DEF PipeInv
<1> QED
  BY <1>2, <1>5 DEF Line, Muted, Silent, t

\* The kinds of the messages.
LEMMA Kinds ==
  /\ \A x \in States : LET m == StateMsg(x) IN
       /\ m \in ToClient /\ ~IsStart(m) /\ ~IsEnd(m)
       /\ IsListen(m) <=> x \in LISTENING_STATES
       /\ IsMute(m) <=> x \notin LISTENING_STATES
  /\ \A on \in BOOLEAN : LET m == DialogueMsg(on) IN
       m \in ToClient /\ ~IsStart(m) /\ ~IsEnd(m) /\ ~IsListen(m) /\ ~IsMute(m)
  /\ AudioStart \in ToClient /\ IsStart(AudioStart) /\ ~IsEnd(AudioStart)
  /\ ~IsListen(AudioStart) /\ ~IsMute(AudioStart)
  /\ AudioEnd \in ToClient /\ IsEnd(AudioEnd) /\ ~IsStart(AudioEnd)
  /\ ~IsListen(AudioEnd) /\ ~IsMute(AudioEnd)
BY DEF StateMsg, DialogueMsg, AudioStart, AudioEnd, ToClient, IsStart, IsEnd, IsListen, IsMute

LEMMA SendKinds ==
  ASSUME NEW s \in Seq(ToClient), NEW m \in ToClient, NEW n \in ToClient
  PROVE  /\ s \o <<m>> = Append(s, m) /\ s \o <<m, n>> = Append(Append(s, m), n)
         /\ Append(<<m>>, n) = <<m, n>>
<1>1. s \o <<m>> = Append(s, m) /\ s \o <<m, n>> = Append(Append(s, m), n)
  OBVIOUS
<1>2. Append(<<m>>, n) = <<m, n>>
  <2>1. <<m>> \in Seq(ToClient) /\ Len(<<m>>) = 1 /\ <<m>>[1] = m
    OBVIOUS
  <2> DEFINE t == Append(<<m>>, n)
  <2>2. t \in Seq(ToClient) /\ Len(t) = 2 /\ t[1] = m /\ t[2] = n
    BY <2>1, AppendProperties
  <2> HIDE DEF t
  <2>3. t = <<m, n>>
    BY <2>2
  <2> QED
    BY <2>3 DEF t
<1> QED
  BY <1>1, <1>2

\* The client, as a thread of the server sees it, and what the threads know of it.
Talks == ~gone /\ ctl # "gone"
Kept == UNCHANGED <<cstate, speaker, gone>> /\ (ctl' # "gone" => ctl # "gone")
Sounds(v) == v \in {"sounding", "spoken"}
Knows(s, v) == /\ Line(s, cstate, speaker)
               /\ v = "ready" => Muted(s, cstate)
               /\ Silent(s, speaker) <=> ~Sounds(v)

LEMMA Known == ASSUME MuteInv, Talks PROVE Knows(s2c, voice)
BY DEF MuteInv, ServerInv, Talks, Knows, Line, Muted, Silent, Sounds, Behind

\* The end of every step of the server: the messages are in order, and what its threads
\* know is so.
LEMMA Settled ==
  ASSUME MuteInv, Kept,
         Talks => Knows(s2c', voice'),
         ~Talks => UNCHANGED s2c,
         voice' # "silent" => at' \in {"turn", "ended"}
  PROVE  MuteInv'
<1>1. cstate' = cstate /\ speaker' = speaker /\ gone' = gone
  BY DEF Kept
<1>2. Line(s2c', cstate, speaker)
  BY DEF MuteInv, Line, Knows
<1>3. MutedWhilePlaying'
  BY <1>1 DEF MuteInv, MutedWhilePlaying
<1>4. GoneInv'
  BY <1>1 DEF MuteInv, GoneInv, Talks
<1>5. ServerInv'
  BY <1>1 DEF Kept, Knows, ServerInv, Talks, Muted, Silent, Sounds, Behind
<1> QED
  BY <1>1, <1>2, <1>3, <1>4, <1>5 DEF MuteInv, Line

LEMMA NothingSaid ==
  ASSUME MuteInv, Kept, UNCHANGED s2c,
         voice' # "silent" => at' \in {"turn", "ended"},
         voice' = "ready" => voice = "ready",
         Sounds(voice') <=> Sounds(voice)
  PROVE  MuteInv'
<1>1. Talks => Knows(s2c', voice')
  BY Known DEF Knows
<1> QED
  BY <1>1, Settled

\* One message is said, two are said.  Each keeps the order, and leaves the threads
\* knowing what their next step rests on.
Fits(m, v, w) ==
  /\ IsStart(m) => v = "ready"
  /\ IsListen(m) => ~Sounds(v)
  /\ IsEnd(m) => Sounds(v)
  /\ w = "ready" => IsMute(m) \/ (~IsListen(m) /\ v = "ready")
  /\ ~Sounds(w) <=> IsEnd(m) \/ (~IsStart(m) /\ ~Sounds(v))

LEMMA Says ==
  ASSUME NEW s, NEW v, NEW w, NEW m \in ToClient, Knows(s, v), Fits(m, v, w)
  PROVE  Knows(Append(s, m), w)
BY OneMore DEF Knows, Fits

LEMMA SaysOne ==
  ASSUME MuteInv, Kept, NEW m \in ToClient, Deliver(<<m>>), Fits(m, voice, voice'),
         voice' # "silent" => at' \in {"turn", "ended"}
  PROVE  MuteInv'
<1>1. s2c \in Seq(ToClient)
  BY DEF MuteInv
<1>2. s2c \o <<m>> = Append(s2c, m)
  BY <1>1
<1>3. Talks => s2c' = Append(s2c, m)
  BY <1>2 DEF Deliver, Talks
<1>4. Talks => Knows(s2c', voice')
  BY <1>3, Known, Says
<1>5. ~Talks => UNCHANGED s2c
  BY DEF Deliver, Talks
<1> QED
  BY <1>4, <1>5, Settled

LEMMA SaysTwo ==
  ASSUME MuteInv, Kept, NEW m \in ToClient, NEW n \in ToClient, Deliver(<<m, n>>),
         NEW v, Fits(m, voice, v), Fits(n, v, voice'),
         voice' # "silent" => at' \in {"turn", "ended"}
  PROVE  MuteInv'
<1>1. s2c \in Seq(ToClient)
  BY DEF MuteInv
<1>2. s2c \o <<m, n>> = Append(Append(s2c, m), n)
  BY <1>1, SendKinds
<1>3. Talks => s2c' = Append(Append(s2c, m), n)
  BY <1>2 DEF Deliver, Talks
<1>4. Talks => Knows(Append(s2c, m), v)
  BY Known, Says
<1>5. Talks => Knows(s2c', voice')
  BY <1>3, <1>4, Says
<1>6. ~Talks => UNCHANGED s2c
  BY DEF Deliver, Talks
<1> QED
  BY <1>5, <1>6, Settled

\* The client takes a message.
LEMMA Hears ==
  ASSUME MuteInv, ~gone, s2c # <<>>, s2c' = Tail(s2c),
         cstate' = NowState(Head(s2c), cstate), speaker' = NowSpeech(Head(s2c), speaker),
         UNCHANGED <<gone, voice, at, ctl>>, MutedWhilePlaying'
  PROVE  MuteInv'
<1>1. s2c \in Seq(ToClient)
  BY DEF MuteInv
<1>2. /\ s2c' \in Seq(ToClient) /\ Len(s2c) = Len(s2c') + 1 /\ Len(s2c') \in Nat
      /\ \A i \in 1 .. Len(s2c') : i + 1 \in 1 .. Len(s2c) /\ s2c'[i] = s2c[i + 1]
      /\ \A i \in 1 .. Len(s2c) :
           /\ MutedAt(s2c', cstate', i) <=> MutedAt(s2c, cstate, i + 1)
           /\ SilentAt(s2c', speaker', i) <=> SilentAt(s2c, speaker, i + 1)
  BY <1>1, Heard
<1>3. PipeInv(s2c', cstate', speaker')
  <2>1. \A i \in 1 .. Len(s2c') : i \in 1 .. Len(s2c)
    BY <1>2
  <2>2. PipeInv(s2c, cstate, speaker)
    BY DEF MuteInv
  <2> QED
    BY <1>2, <2>1, <2>2 DEF PipeInv
<1>4. ServerInv'
  <2>1. /\ MutedAt(s2c', cstate', Len(s2c') + 1) <=> MutedAt(s2c, cstate, Len(s2c) + 1)
        /\ SilentAt(s2c', speaker', Len(s2c') + 1) <=> SilentAt(s2c, speaker, Len(s2c) + 1)
    <3>1. Len(s2c') + 1 \in 1 .. Len(s2c)
      BY <1>2
    <3> QED
      BY <1>2, <3>1
  <2> QED
    BY <2>1 DEF MuteInv, ServerInv, Behind
<1>5. GoneInv'
  BY DEF GoneInv
<1>6. speaker' \in {"off", "on", "last"}
  BY DEF NowSpeech, MuteInv
<1> QED
  BY <1>2, <1>3, <1>4, <1>5, <1>6 DEF MuteInv

\* What the front of the line says of the client now.
LEMMA Front ==
  ASSUME MuteInv, s2c # <<>>
  PROVE  LET m == Head(s2c)
         IN  /\ m \in ToClient
             /\ IsStart(m) => cstate \notin LISTENING_STATES
             /\ IsListen(m) => speaker # "on"
             /\ IsEnd(m) => speaker = "on"
<1>1. s2c \in Seq(ToClient) /\ PipeInv(s2c, cstate, speaker)
  BY DEF MuteInv
<1>2. 1 \in 1 .. Len(s2c) /\ Head(s2c) = s2c[1] /\ s2c[1] \in ToClient
  BY <1>1, EmptySeq, LenProperties, HeadTailProperties
<1>3. ~MutesIn(s2c, 0, 1) /\ ~EndsIn(s2c, 0, 1) /\ \A i \in 1 .. Len(s2c) : ~(i < 1)
  BY DEF MutesIn, EndsIn
<1>4. MutedAt(s2c, cstate, 1) => cstate \notin LISTENING_STATES
  BY <1>3 DEF MutedAt
<1>5. SilentAt(s2c, speaker, 1) <=> speaker # "on"
  BY <1>3 DEF SilentAt
<1> QED
  BY <1>1, <1>2, <1>4, <1>5 DEF PipeInv

LEMMA ClientMute ==
  ASSUME MuteInv, Client(Events) \/ Client(KeyD) \/ Client(LeaveQuiet) \/ Client(Quit)
  PROVE  MuteInv'
<1>1. UNCHANGED <<voice, at, ctl>>
  BY DEF Client
<1>2. ASSUME Exit PROVE MuteInv'
  <2>1. gone' /\ s2c' = <<>> /\ cstate' = "connecting" /\ speaker' = "off"
    BY <1>2 DEF Exit
  <2>2. s2c' \in Seq(ToClient) /\ 1 .. Len(s2c') = {}
    BY <2>1, EmptySeq
  <2>3. PipeInv(s2c', cstate', speaker')
    BY <2>2 DEF PipeInv
  <2> QED
    BY <1>1, <2>1, <2>2, <2>3 DEF MuteInv, ServerInv, GoneInv, MutedWhilePlaying
<1>3. ASSUME OnState PROVE MuteInv'
  <2>1. /\ ~gone /\ speaker # "last" /\ s2c # <<>> /\ Head(s2c).type = "state" /\ s2c' = Tail(s2c)
        /\ cstate' = Head(s2c).state /\ UNCHANGED <<speaker, gone>>
    BY <1>3 DEF OnState, Event
  <2>2. cstate' = NowState(Head(s2c), cstate) /\ speaker' = NowSpeech(Head(s2c), speaker)
    BY <2>1 DEF NowState, NowSpeech, IsStart, IsEnd
  <2>3. MutedWhilePlaying'
    BY <2>1, Front DEF MuteInv, MutedWhilePlaying, IsListen
  <2> QED
    BY <1>1, <2>1, <2>2, <2>3, Hears
<1>4. ASSUME OnDialogue PROVE MuteInv'
  <2>1. /\ ~gone /\ s2c # <<>> /\ Head(s2c).type = "dialogue" /\ s2c' = Tail(s2c)
        /\ UNCHANGED <<cstate, speaker, gone>>
    BY <1>4 DEF OnDialogue, Event
  <2>2. cstate' = NowState(Head(s2c), cstate) /\ speaker' = NowSpeech(Head(s2c), speaker)
    BY <2>1 DEF NowState, NowSpeech, IsStart, IsEnd
  <2>3. MutedWhilePlaying'
    BY <2>1 DEF MuteInv, MutedWhilePlaying
  <2> QED
    BY <1>1, <2>1, <2>2, <2>3, Hears
<1>5. ASSUME OnAudioStart PROVE MuteInv'
  <2>1. /\ ~gone /\ s2c # <<>> /\ Head(s2c).type = "audio_start" /\ s2c' = Tail(s2c)
        /\ speaker' = "on" /\ UNCHANGED <<cstate, gone>>
    BY <1>5 DEF OnAudioStart, Event
  <2>2. cstate' = NowState(Head(s2c), cstate) /\ speaker' = NowSpeech(Head(s2c), speaker)
    BY <2>1 DEF NowState, NowSpeech, IsStart, IsEnd
  <2>3. MutedWhilePlaying'
    BY <2>1, Front DEF MutedWhilePlaying, IsStart
  <2> QED
    BY <1>1, <2>1, <2>2, <2>3, Hears
<1>6. ASSUME OnAudioEnd PROVE MuteInv'
  <2>1. /\ ~gone /\ s2c # <<>> /\ Head(s2c).type = "audio_end" /\ s2c' = Tail(s2c)
        /\ speaker' = "last" /\ UNCHANGED <<cstate, gone>>
    BY <1>6 DEF OnAudioEnd, Event
  <2>2. cstate' = NowState(Head(s2c), cstate) /\ speaker' = NowSpeech(Head(s2c), speaker)
    BY <2>1 DEF NowState, NowSpeech, IsStart, IsEnd
  <2>3. MutedWhilePlaying'
    BY <2>1, Front DEF MuteInv, MutedWhilePlaying, IsEnd
  <2> QED
    BY <1>1, <2>1, <2>2, <2>3, Hears
<1>7. ASSUME Played PROVE MuteInv'
  <2>1. ~gone /\ speaker = "last" /\ speaker' = "off" /\ UNCHANGED <<s2c, cstate, gone>>
    BY <1>7 DEF Played
  <2>2. \A n : SilentAt(s2c, "off", n) <=> SilentAt(s2c, "last", n)
    BY DEF SilentAt
  <2>3. PipeInv(s2c, cstate, "off") <=> PipeInv(s2c, cstate, "last")
    BY <2>2 DEF PipeInv
  <2>4. ServerInv'
    BY <1>1, <2>1, <2>2 DEF MuteInv, ServerInv, Behind
  <2> QED
    BY <2>1, <2>3, <2>4 DEF MuteInv, GoneInv, MutedWhilePlaying
<1>8. ASSUME KeyD PROVE MuteInv'
  BY <1>1, <1>8 DEF KeyD, MuteInv, ServerInv, GoneInv, MutedWhilePlaying, Behind
<1> QED
  BY <1>2, <1>3, <1>4, <1>5, <1>6, <1>7, <1>8 DEF Client, Events, SeesEnd, LeaveQuiet, Quit

\* What is not modelled says nothing here.
LEMMA Unmodelled == ASSUME MuteInv, SendUnmodelled PROVE UNCHANGED s2c
<1>1. s2c \o <<>> = s2c
  BY DEF MuteInv
<1> QED
  BY <1>1 DEF SendUnmodelled, Send, Deliver

\* The worker turns to a turn, and listens again.
Silence == voice = "silent" /\ UNCHANGED voice

LEMMA StateTold ==
  ASSUME MuteInv, Kept, Silence, NEW x \in States, set_state(x)
  PROVE  MuteInv'
<1>1. StateMsg(x) \in ToClient /\ Fits(StateMsg(x), voice, voice')
  BY Kinds DEF Fits, Silence, Sounds
<1>2. Deliver(<<StateMsg(x)>>)
  BY DEF set_state, Send
<1> QED
  BY <1>1, <1>2, SaysOne DEF Silence

LEMMA Synced ==
  ASSUME MuteInv, Kept, Silence, sync_dialogue
  PROVE  MuteInv'
<1>1. "dialogue" \in States /\ "listening" \in States
  BY DEF States, LISTENING_STATES
<1>2. CASE set_state("dialogue") \/ set_state("listening")
  BY <1>1, <1>2, StateTold
<1>3. CASE UNCHANGED s2c
  BY <1>3, NothingSaid DEF Silence
<1> QED
  BY <1>2, <1>3 DEF sync_dialogue, SendNothing

LEMMA TurnBegun ==
  ASSUME MuteInv, Kept, voice = "silent", NEW greeting, NEW ms,
         ms = <<>> \/ \E on \in BOOLEAN : ms = <<DialogueMsg(on)>>,
         BeginTurn(greeting, ms)
  PROVE  MuteInv'
<1>1. voice' = "ready" /\ at' = "turn" /\ Deliver(Append(ms, StateMsg("thinking")))
  BY DEF BeginTurn
<1>2. "thinking" \in States /\ "thinking" \notin LISTENING_STATES
  BY DEF States, LISTENING_STATES
<1>3. StateMsg("thinking") \in ToClient /\ Fits(StateMsg("thinking"), "silent", "ready")
  BY <1>2, Kinds DEF Fits, Sounds
<1>4. CASE ms = <<>>
  BY <1>1, <1>3, <1>4, SaysOne
<1>5. CASE \E on \in BOOLEAN : ms = <<DialogueMsg(on)>>
  <2>1. PICK on \in BOOLEAN : ms = <<DialogueMsg(on)>>
    BY <1>5
  <2>2. DialogueMsg(on) \in ToClient /\ Fits(DialogueMsg(on), "silent", "silent")
    BY Kinds DEF Fits, Sounds
  <2>3. Deliver(<<DialogueMsg(on), StateMsg("thinking")>>)
    BY <1>1, <1>3, <2>1, <2>2, EmptySeq, SendKinds
  <2> QED
    BY <1>1, <1>3, <2>2, <2>3, SaysTwo
<1> QED
  BY <1>4, <1>5

LEMMA WorkerMute == ASSUME MuteInv, WorkerStep PROVE MuteInv'
<1>1. Kept
  BY DEF WorkerStep, Server, Kept
<1>2. at \notin {"turn", "ended"} => voice = "silent"
  BY DEF MuteInv, ServerInv
<1>3. ASSUME Drain \/ Leave \/ GetTimeout \/ Get \/ Quiet \/ AssignMode \/ PlaybackOver
      PROVE  MuteInv'
  <2>1. UNCHANGED <<s2c, voice>> /\ at \notin {"turn", "ended"}
    BY <1>3 DEF Drain, Leave, GetTimeout, Get, Quiet, AssignMode, PlaybackOver, Telling, Setting
  <2> QED
    BY <1>1, <1>2, <2>1, NothingSaid
<1>15. ASSUME WarmUp \/ Ignored \/ Wake PROVE MuteInv'
  <2>1. UNCHANGED voice /\ SendUnmodelled /\ at \notin {"turn", "ended"}
    BY <1>15 DEF WarmUp, Ignored, Wake
  <2> QED
    BY <1>1, <1>2, <2>1, Unmodelled, NothingSaid
<1>16. ASSUME AnswerDelta PROVE MuteInv'
  <2>1. UNCHANGED voice /\ SendUnmodelled /\ at' = "turn"
    BY <1>16 DEF AnswerDelta
  <2> QED
    BY <1>1, <2>1, Unmodelled, NothingSaid
<1>4. ASSUME Resume PROVE MuteInv'
  <2>1. Silence
    BY <1>2, <1>4 DEF Resume, Silence
  <2>2. PICK x \in States : set_state(x)
    BY <1>4 DEF Resume, States, LISTENING_STATES
  <2> QED
    BY <1>1, <2>1, <2>2, StateTold
<1>5. ASSUME Top PROVE MuteInv'
  BY <1>1, <1>2, <1>5, Synced DEF Top, Silence
<1>6. ASSUME AwakeTimeout PROVE MuteInv'
  BY <1>1, <1>2, <1>6, StateTold DEF AwakeTimeout, Silence, States, LISTENING_STATES
<1>7. ASSUME DialogueTimeout PROVE MuteInv'
  <2>1. Silence
    BY <1>2, <1>7 DEF DialogueTimeout, Silence
  <2>2. UNCHANGED s2c \/ set_state("listening")
    BY <1>7 DEF DialogueTimeout, SendNothing
  <2>3. CASE UNCHANGED s2c
    BY <1>1, <2>1, <2>3, NothingSaid DEF Silence
  <2>4. CASE set_state("listening")
    BY <1>1, <2>1, <2>4, StateTold DEF States, LISTENING_STATES
  <2> QED
    BY <2>2, <2>3, <2>4
<1>8. ASSUME TellSilence PROVE MuteInv'
  <2>1. Silence /\ Deliver(<<DialogueMsg(FALSE), StateMsg("listening")>>)
    BY <1>2, <1>8 DEF TellSilence, Silence, Send
  <2>2. "listening" \in States
    BY DEF States, LISTENING_STATES
  <2>3. /\ DialogueMsg(FALSE) \in ToClient /\ Fits(DialogueMsg(FALSE), voice, "silent")
        /\ StateMsg("listening") \in ToClient /\ Fits(StateMsg("listening"), "silent", voice')
    BY <2>1, <2>2, Kinds DEF Fits, Silence, Sounds
  <2> QED
    BY <1>1, <2>1, <2>3, SaysTwo DEF Silence
<1>9. ASSUME Request \/ WokenRequest \/ WokenGreeting PROVE MuteInv'
  <2>1. voice = "silent" /\ \E g \in BOOLEAN : BeginTurn(g, <<>>)
    BY <1>2, <1>9 DEF Request, WokenRequest, WokenGreeting
  <2> QED
    BY <1>1, <2>1, TurnBegun
<1>10. ASSUME Goodbye \/ LetsTalk PROVE MuteInv'
  <2>1. voice = "silent" /\ \E on \in BOOLEAN : SayMode(on)
    BY <1>2, <1>10 DEF Goodbye, LetsTalk
  <2>2. BeginTurn(FALSE, <<>>) \/ UNCHANGED <<s2c, voice>>
    BY <2>1, Unmodelled DEF SayMode
  <2>3. CASE BeginTurn(FALSE, <<>>)
    BY <1>1, <2>1, <2>3, TurnBegun
  <2>4. CASE UNCHANGED <<s2c, voice>>
    BY <1>1, <2>1, <2>4, NothingSaid
  <2> QED
    BY <2>2, <2>3, <2>4
<1>11. ASSUME TellMode PROVE MuteInv'
  BY <1>1, <1>2, <1>11, TurnBegun DEF TellMode
<1>12. ASSUME TellAuto PROVE MuteInv'
  <2>1. Silence /\ Deliver(<<DialogueMsg(TRUE)>>)
    BY <1>2, <1>12 DEF TellAuto, Silence, Send
  <2>2. DialogueMsg(TRUE) \in ToClient /\ Fits(DialogueMsg(TRUE), voice, voice')
    BY <2>1, Kinds DEF Fits, Silence, Sounds
  <2> QED
    BY <1>1, <2>1, <2>2, SaysOne DEF Silence
<1>13. ASSUME WokenAwait PROVE MuteInv'
  <2>1. Silence /\ (sync_dialogue \/ set_state("awake"))
    BY <1>2, <1>13 DEF WokenAwait, Silence
  <2> QED
    BY <1>1, <2>1, Synced, StateTold DEF States, LISTENING_STATES
<1>14. ASSUME Finish PROVE MuteInv'
  <2>1. CASE voice = "spoken"
    <3>1. Deliver(<<AudioEnd>>) /\ voice' = "silent"
      BY <1>14, <2>1 DEF Finish, Send
    <3>2. AudioEnd \in ToClient /\ Fits(AudioEnd, voice, voice')
      BY <2>1, <3>1, Kinds DEF Fits, Sounds
    <3> QED
      BY <1>1, <3>1, <3>2, SaysOne
  <2>2. CASE voice = "mute"
    <3>1. UNCHANGED s2c /\ voice' = "silent"
      BY <1>14, <2>2, Unmodelled DEF Finish
    <3> QED
      BY <1>1, <2>2, <3>1, NothingSaid DEF Sounds
  <2> QED
    BY <1>14, <2>1, <2>2 DEF Finish
<1> QED
  BY <1>3, <1>4, <1>5, <1>6, <1>7, <1>8, <1>9, <1>10, <1>11, <1>12, <1>13, <1>14,
     <1>15, <1>16
  DEF WorkerStep, Server, Worker

LEMMA VoiceMute == ASSUME MuteInv, VoiceStep PROVE MuteInv'
<1>1. Kept
  BY DEF VoiceStep, Server, Kept
<1>2. CASE VoiceStarts
  <2>1. /\ voice = "ready" /\ voice' = "sounding" /\ UNCHANGED at
        /\ Deliver(<<AudioStart, StateMsg("speaking")>>)
    BY <1>2 DEF VoiceStarts, Send
  <2>2. "speaking" \in States /\ "speaking" \notin LISTENING_STATES
    BY DEF States, LISTENING_STATES
  <2>3. /\ AudioStart \in ToClient /\ Fits(AudioStart, voice, "sounding")
        /\ StateMsg("speaking") \in ToClient /\ Fits(StateMsg("speaking"), "sounding", voice')
    BY <2>1, <2>2, Kinds DEF Fits, Sounds
  <2>4. at' \in {"turn", "ended"}
    BY <2>1 DEF MuteInv, ServerInv
  <2> QED
    BY <1>1, <2>1, <2>3, <2>4, SaysTwo
<1>3. CASE VoiceEnds
  <2>1. UNCHANGED <<at, s2c>> /\ voice # "silent" /\ voice' # "ready"
    BY <1>3, Unmodelled DEF VoiceEnds
  <2>2. Sounds(voice') <=> Sounds(voice)
    BY <1>3 DEF VoiceEnds, Sounds
  <2>3. at' \in {"turn", "ended"}
    BY <2>1 DEF MuteInv, ServerInv
  <2> QED
    BY <1>1, <2>1, <2>2, <2>3, NothingSaid
<1> QED
  BY <1>2, <1>3 DEF VoiceStep, Server, Voice

LEMMA ControlMute == ASSUME MuteInv, ControlStep PROVE MuteInv'
<1>1. Kept
  BY DEF ControlStep, Server, Control, PlaybackDone, SwitchMode, SetMode, TellClient, EndOfSession,
     ConnectionReset, Unlist, Served, Telling, Kept
<1>2. UNCHANGED <<voice, at>>
  BY DEF ControlStep, Server, Control, PlaybackDone, SwitchMode, SetMode, TellClient,
     EndOfSession, ConnectionReset, Unlist
<1>3. voice' # "silent" => at' \in {"turn", "ended"}
  BY <1>2 DEF MuteInv, ServerInv
<1>4. CASE TellClient
  <2>1. PICK on \in BOOLEAN : Deliver(<<DialogueMsg(on)>>)
    BY <1>4 DEF TellClient, Send
  <2>2. DialogueMsg(on) \in ToClient /\ Fits(DialogueMsg(on), voice, voice')
    BY <1>2, Kinds DEF Fits
  <2> QED
    BY <1>1, <1>3, <2>1, <2>2, SaysOne
<1>5. CASE UNCHANGED s2c
  BY <1>1, <1>2, <1>3, <1>5, NothingSaid
<1> QED
  BY <1>4, <1>5 DEF ControlStep, Server, Control, PlaybackDone, SwitchMode, SetMode,
     EndOfSession, ConnectionReset, Unlist

\* Whatever the worker, the speech thread, the other end's "d" and the silence limits do,
\* the client takes audio_start muted and its first listening state after audio_end
\* (set_state, _speak, _finish, events): it does not hear its own voice.
THEOREM MutedDuringSpeech == Spec => []MutedWhilePlaying
<1>1. Init => MuteInv
  <2> SUFFICES ASSUME Init PROVE MuteInv
    OBVIOUS
  <2>1. /\ s2c = <<StateMsg("warming")>> /\ speaker = "off" /\ cstate = "connecting"
        /\ voice = "silent" /\ ~gone
    BY DEF Init
  <2>2. "warming" \in States
    BY DEF States
  <2>3. /\ StateMsg("warming") \in ToClient /\ ~IsStart(StateMsg("warming"))
        /\ ~IsListen(StateMsg("warming")) /\ ~IsEnd(StateMsg("warming"))
    BY <2>2, Kinds DEF LISTENING_STATES
  <2>4. s2c \in Seq(ToClient) /\ Len(s2c) = 1 /\ s2c[1] = StateMsg("warming")
    BY <2>1, <2>3
  <2>5. PipeInv(s2c, cstate, speaker)
    BY <2>3, <2>4 DEF PipeInv
  <2>6. SilentAt(s2c, speaker, Behind)
    BY <2>1, <2>3, <2>4 DEF SilentAt
  <2>7. ServerInv
    BY <2>1, <2>6 DEF ServerInv
  <2> QED
    BY <2>1, <2>4, <2>5, <2>7 DEF MuteInv, GoneInv, MutedWhilePlaying
<1>2. MuteInv /\ [Next]_vars => MuteInv'
  <2> SUFFICES ASSUME MuteInv, [Next]_vars PROVE MuteInv'
    OBVIOUS
  <2>1. ASSUME FailStep \/ Speak \/ Put \/ UNCHANGED vars PROVE MuteInv'
    <3>1. Kept /\ UNCHANGED <<s2c, voice>> /\ (at' = at \/ at' = "ended")
      BY <2>1 DEF FailStep, Server, WorkerFails, Speak, Put, Kept
    <3>2. voice' # "silent" => at' \in {"turn", "ended"}
      BY <3>1 DEF MuteInv, ServerInv
    <3> QED
      BY <3>1, <3>2, NothingSaid
  <2> QED
    BY <2>1, WorkerMute, VoiceMute, ControlMute, ClientMute DEF Next
<1>3. MuteInv => MutedWhilePlaying
  BY DEF MuteInv
<1> QED
  BY <1>1, <1>2, <1>3, PTL DEF Spec
=============================================================================
