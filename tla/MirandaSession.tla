--------------------------- MODULE MirandaSession ---------------------------
(***************************************************************************)
(* One session of the voice assistant: Session and ControlHandler of        *)
(* miranda_server.py with the Client of miranda_client.py.                  *)
(*                                                                         *)
(* Five threads share a session at the server: its worker, the speech       *)
(* thread of a turn, the handler of the control connection, the UDP loop    *)
(* and, at the other end, the client that streams a recording (--input) and *)
(* has a keyboard.  The control connection is two FIFO channels; datagrams  *)
(* may be lost.  What the recognizer, the chat model and the detector make  *)
(* of the audio is a choice; a silence limit may expire at any packet.      *)
(***************************************************************************)
EXTENDS Naturals, Sequences

CONSTANTS
  QMax,        \* packets the session's queue holds (1000 in the code)
  MaxPackets,  \* bound: packets in the recording
  MaxKeys,     \* bound: "d" + Enter presses
  MaxUnread,   \* bound: messages the connection to the client holds
  MaySlow,     \* TRUE: the player may outlast the speech by --playback-margin
  MayFail      \* TRUE: an exception that is no ApiError may end the worker

ASSUME QAssumption == QMax \in Nat \ {0}
ASSUME BoundAssumption == MaxPackets \in Nat /\ MaxKeys \in Nat /\ MaxUnread \in Nat /\ MaxUnread > 1
ASSUME FlagAssumption == MayFail \in BOOLEAN /\ MaySlow \in BOOLEAN

VARIABLES
  \* the settings: the key phrase alone is answered (--greeting); the hello's
  \* "dialogue": "auto"
  greets, auto,
  \* the session
  state, dialogue, playback, closed, greeted, epoch,
  q,        \* packets, each with the epoch in which the UDP loop took it (from 1 on)
  at,       \* where the worker is
  voice,    \* the turn's speech thread
  \* the server's other threads
  hand,     \* the packet on_rtp() has admitted and not yet put
  ctl,      \* where the control connection's handler is
  \* the control connection
  s2c, c2s,
  \* the client
  cstate, cdialogue,
  speaker,  \* "off", "on" from audio_start, "last" while events() waits for the player
  gone,     \* it has closed the connection
  sent, keys

sessionVars == <<state, dialogue, playback, closed, greeted, epoch, q, at, voice>>
clientVars  == <<cstate, cdialogue, speaker, gone, sent, keys>>
settings == <<greets, auto>>
vars == <<settings, sessionVars, hand, ctl, s2c, c2s, clientVars>>

None == 0    \* the queue's end mark: a packet's epoch is not 0

LISTENING_STATES == {"listening", "awake", "dialogue"}
States == LISTENING_STATES \cup {"warming", "thinking", "speaking"}
\* set_dialogue() takes no lock: the steps between its test and its assignment, and
\* the steps between the assignment and the message.
Telling == [set_on |-> "tell_on", set_off |-> "tell_off",
            set_auto |-> "tell_auto", set_silence |-> "tell_silence"]
Setting == DOMAIN Telling
TellingSteps == {Telling[w] : w \in Setting}
WorkerSteps == Setting \cup TellingSteps \cup
  {"warming", "drain", "resume", "top", "get", "check", "asr", "woken", "turn", "playback", "ended"}
ToClient == [type : {"state"}, state : States] \cup [type : {"dialogue"}, on : BOOLEAN]
              \cup [type : {"audio_start", "audio_end"}]
ToServer == [type : {"dialogue"}, on : BOOLEAN] \cup [type : {"playback_done"}]

StateMsg(s)     == [type |-> "state", state |-> s]
DialogueMsg(on) == [type |-> "dialogue", on |-> on]
AudioStart      == [type |-> "audio_start"]
AudioEnd        == [type |-> "audio_end"]

\* Session.close(): the event and the queue's end mark; no turn waits any longer.
mark == closed' = TRUE /\ q' = IF ~closed /\ Len(q) < QMax THEN Append(q, None) ELSE q
close == mark /\ playback' = (playback \/ ~closed)

\* Channel.send() of the server: it blocks while the connection is full, and
\* Session.send() skips it once either end is closed.
Deliver(ms) ==
  IF gone \/ ctl = "gone" THEN UNCHANGED s2c
  ELSE Len(s2c) + Len(ms) <= MaxUnread /\ s2c' = s2c \o ms

\* A client that is gone may fail it, which closes the session.
Refused == gone /\ ctl # "gone"
Send(ms) == /\ Deliver(ms)
            /\ UNCHANGED <<closed, playback, q>> \/ (Refused /\ close)
SendUnmodelled == Send(<<>>)    \* what the model leaves out: text, errors
SendNothing == UNCHANGED <<closed, playback, q, s2c>>

set_state(s) == state' = s /\ Send(<<StateMsg(s)>>)

Init ==
  /\ greets \in BOOLEAN /\ auto \in BOOLEAN
  /\ state = "warming" /\ dialogue = FALSE /\ playback = FALSE /\ closed = FALSE
  /\ greeted = FALSE /\ epoch = 0 /\ q = <<>> /\ at = "warming" /\ voice = "silent"
  /\ hand = <<>> /\ ctl = "serve" /\ s2c = <<StateMsg("warming")>> /\ c2s = <<>>
  /\ cstate = "connecting" /\ cdialogue = FALSE /\ speaker = "off"
  /\ gone = FALSE /\ sent = 0 /\ keys = 0

------------------------------------------------------------------------------
(* The worker: run(), listen(), on_segment(), respond(), say(), _finish().   *)

WarmUp == /\ at = "warming" /\ at' = "drain"
          /\ SendUnmodelled
          /\ UNCHANGED <<state, dialogue, greeted, epoch, voice>>

KeepAudio ==    \* (mutant) listening again without the drain
         /\ at = "drain" /\ at' = "resume"
         /\ epoch' = epoch + 1
         /\ UNCHANGED <<q, state, dialogue, playback, closed, greeted, voice, s2c>>

\* listen(): the audio received meanwhile is dropped ...
Drain == /\ at = "drain" /\ at' = "resume"
         /\ q' = <<>> /\ epoch' = epoch + 1
         /\ UNCHANGED <<state, dialogue, playback, closed, greeted, voice, s2c>>

\* ... and the state says which audio is awaited.
Resume == /\ at = "resume" /\ at' = "top"
          /\ set_state(IF dialogue THEN "dialogue" ELSE IF greeted THEN "awake" ELSE "listening")
          /\ greeted' = FALSE
          /\ UNCHANGED <<dialogue, epoch, voice>>

\* sync_dialogue(): the mode, set by any thread, becomes the worker's state.
sync_dialogue ==
  IF state \in {"listening", "awake"} /\ dialogue THEN set_state("dialogue")
  ELSE IF state = "dialogue" /\ ~dialogue THEN set_state("listening")
  ELSE UNCHANGED state /\ SendNothing

Top == /\ at = "top" /\ ~closed
       /\ sync_dialogue /\ at' = "get"
       /\ UNCHANGED <<dialogue, greeted, epoch, voice>>

LeaveOnNone ==    \* (mutant) only None ends the loop
         /\ at = "get" /\ q # <<>> /\ Head(q) = None /\ q' = Tail(q)
         /\ at' = "ended"
         /\ UNCHANGED <<state, dialogue, playback, closed, greeted, epoch, voice, s2c>>

\* The loop's end: the session closed, or None taken from the queue.
Leave == /\ \/ at = "top" /\ closed /\ q' = q
            \/ at = "get" /\ q # <<>> /\ Head(q) = None /\ q' = Tail(q)
         /\ at' = "ended"
         /\ UNCHANGED <<state, dialogue, playback, closed, greeted, epoch, voice, s2c>>

BlockingGet ==    \* (mutant) get() without a timeout
  at = "get" /\ q # <<>> /\ UNCHANGED <<vars>>

\* get(timeout=0.5): nothing came, or a packet for the segmenter.
GetTimeout == /\ at = "get" /\ q = <<>> /\ at' = "top"
              /\ UNCHANGED <<state, dialogue, playback, closed, greeted, epoch, q, voice, s2c>>

Get == /\ at = "get" /\ q # <<>> /\ Head(q) # None
       /\ q' = Tail(q)
       /\ at' \in {"check", "asr"}    \* no segment, or one to transcribe
       /\ UNCHANGED <<state, dialogue, playback, closed, greeted, epoch, voice, s2c>>

\* The silence limits of the awake state and of the dialogue mode.
Quiet == /\ at = "check" /\ at' = "top"
         /\ UNCHANGED <<state, dialogue, playback, closed, greeted, epoch, q, voice, s2c>>

AwakeTimeout == /\ at = "check" /\ state = "awake" /\ at' = "top"
                /\ set_state("listening")
                /\ UNCHANGED <<dialogue, greeted, epoch, voice>>

DialogueTimeout ==
  /\ at = "check" /\ state = "dialogue"
  /\ IF dialogue THEN at' = "set_silence" /\ UNCHANGED state /\ SendNothing
                 ELSE at' = "top" /\ set_state("listening")
  /\ UNCHANGED <<dialogue, greeted, epoch, voice>>

TellSilence ==
  /\ at = "tell_silence" /\ at' = "top"
  /\ state' = "listening"
  /\ Send(<<DialogueMsg(FALSE), StateMsg("listening")>>)
  /\ UNCHANGED <<dialogue, greeted, epoch, voice>>

\* The beginning of say() and of respond(): the mute, the speech thread.
BeginTurn(greeting, ms) ==
  /\ state' = "thinking" /\ Deliver(Append(ms, StateMsg("thinking")))
  /\ UNCHANGED <<closed, q>> \/ (Refused /\ mark)
  /\ playback' = FALSE /\ voice' = "ready" /\ greeted' = greeting
  /\ at' = "turn"
  /\ UNCHANGED epoch

\* say(dialogue=on): set_dialogue() first.
SayMode(on) ==
  IF dialogue = on
  THEN BeginTurn(FALSE, <<>>) /\ UNCHANGED dialogue
  ELSE /\ at' = (IF on THEN "set_on" ELSE "set_off")
       /\ SendUnmodelled
       /\ UNCHANGED <<state, dialogue, greeted, epoch, voice>>

\* set_dialogue(), its test passed: the mode is assigned ...
AssignMode == /\ at \in Setting /\ at' = Telling[at]
              /\ dialogue' = (at \in {"set_on", "set_auto"})
              /\ UNCHANGED <<state, playback, closed, greeted, epoch, q, voice, s2c>>

\* ... and told.
TellMode == /\ at \in {"tell_on", "tell_off"}
            /\ BeginTurn(FALSE, <<DialogueMsg(at = "tell_on")>>)
            /\ UNCHANGED dialogue

\* A segment that starts no turn: not transcribed, no words, or no key phrase.
\* The key phrase alone, while a request is awaited, restarts its limit.
Ignored == /\ at = "asr"
           /\ at' \in IF state = "listening" THEN {"check"} ELSE {"check", "top"}
           /\ SendUnmodelled
           /\ UNCHANGED <<state, dialogue, greeted, epoch, voice>>

Request == at = "asr" /\ state # "listening" /\ BeginTurn(FALSE, <<>>) /\ UNCHANGED dialogue
Goodbye == at = "asr" /\ state = "dialogue" /\ SayMode(FALSE)
LetsTalk == at = "asr" /\ SayMode(TRUE)

\* The key phrase: with "auto" it opens a dialogue.
Wake == /\ at = "asr" /\ state = "listening"
        /\ at' = IF auto /\ ~dialogue THEN "set_auto" ELSE "woken"
        /\ SendUnmodelled
        /\ UNCHANGED <<state, dialogue, greeted, epoch, voice>>

TellAuto == /\ at = "tell_auto" /\ at' = "woken"
            /\ Send(<<DialogueMsg(TRUE)>>)
            /\ UNCHANGED <<state, dialogue, greeted, epoch, voice>>

\* The request after the phrase, or the phrase alone.
WokenRequest  == at = "woken" /\ BeginTurn(FALSE, <<>>) /\ UNCHANGED dialogue
WokenGreeting == at = "woken" /\ greets /\ BeginTurn(TRUE, <<>>) /\ UNCHANGED dialogue
WokenAwait ==
  /\ at = "woken" /\ ~greets /\ at' = "top"
  /\ IF dialogue THEN sync_dialogue ELSE set_state("awake")
  /\ UNCHANGED <<dialogue, greeted, epoch, voice>>

\* _speak(): the first piece, and the end; a closed session ends it early.
VoiceStarts == /\ voice = "ready" /\ ~closed
               /\ voice' = "sounding"
               /\ state' = "speaking" /\ Send(<<AudioStart, StateMsg("speaking")>>)
               /\ UNCHANGED <<dialogue, greeted, epoch, at>>

VoiceEnds == /\ voice \in {"ready", "sounding"}
             /\ voice' = IF voice = "sounding" THEN "spoken" ELSE "mute"
             /\ SendUnmodelled
             /\ UNCHANGED <<state, dialogue, greeted, epoch, at>>

\* The answer's text, while the speech thread speaks.
AnswerDelta == /\ at = "turn" /\ SendUnmodelled
               /\ UNCHANGED <<state, dialogue, greeted, epoch, at, voice>>

FinishUnjoined ==    \* (mutant) the speech thread not joined
  /\ at = "turn" /\ voice' = IF voice \in {"spoken", "mute"} THEN "silent" ELSE voice
  /\ IF voice \in {"sounding", "spoken"}
     THEN Send(<<AudioEnd>>) /\ at' = "playback"
     ELSE SendUnmodelled /\ at' = (IF closed' THEN "top" ELSE "drain")
  /\ UNCHANGED <<state, dialogue, greeted, epoch>>

FinishUnheard ==    \* (mutant) a turn without speech does not listen again
  /\ at = "turn" /\ voice \in {"spoken", "mute"} /\ voice' = "silent"
  /\ IF voice = "spoken"
     THEN Send(<<AudioEnd>>) /\ at' = "playback"
     ELSE SendUnmodelled /\ at' = "top"
  /\ UNCHANGED <<state, dialogue, greeted, epoch>>

\* _finish(), once the speech thread is joined.
Finish ==
  /\ at = "turn" /\ voice \in {"spoken", "mute"} /\ voice' = "silent"
  /\ IF voice = "spoken"
     THEN Send(<<AudioEnd>>) /\ at' = "playback"
     ELSE SendUnmodelled /\ at' = (IF closed' THEN "top" ELSE "drain")
  /\ UNCHANGED <<state, dialogue, greeted, epoch>>

\* playback_done.wait(audio_s + playback_margin): set, or the time is over.
PlaybackOver ==
  /\ at = "playback" /\ (playback \/ MaySlow \/ gone)
  /\ at' = IF closed THEN "top" ELSE "drain"
  /\ UNCHANGED <<state, dialogue, playback, closed, greeted, epoch, q, voice, s2c>>

\* An exception in a request or an answer: run() reports it and closes.
WorkerFails == /\ MayFail /\ at \in {"asr", "turn"}
               /\ at' = "ended"
               /\ close
               /\ UNCHANGED <<state, dialogue, greeted, epoch, voice, s2c>>

Worker == \/ WarmUp \/ Drain \/ Resume \/ Top \/ Leave \/ GetTimeout \/ Get
          \/ Quiet \/ AwakeTimeout \/ DialogueTimeout \/ TellSilence
          \/ Ignored \/ Request \/ Goodbye \/ LetsTalk \/ AssignMode \/ TellMode
          \/ Wake \/ TellAuto \/ WokenRequest \/ WokenGreeting \/ WokenAwait
          \/ AnswerDelta \/ Finish \/ PlaybackOver
Voice  == VoiceStarts \/ VoiceEnds

------------------------------------------------------------------------------
(* The handler of the control connection.                                    *)

\* The loop tests `closed` only after a message.
Served == ctl' = IF closed' THEN "leave" ELSE "serve"

PlaybackDone == /\ ctl = "serve" /\ c2s # <<>> /\ Head(c2s).type = "playback_done"
                /\ c2s' = Tail(c2s) /\ playback' = TRUE
                /\ UNCHANGED <<state, dialogue, closed, greeted, epoch, q, at, voice, s2c>>
                /\ Served

\* set_dialogue() of the client's message: the test, the assignment, the message.
SwitchMode == /\ ctl = "serve" /\ c2s # <<>> /\ Head(c2s).type = "dialogue"
              /\ c2s' = Tail(c2s)
              /\ UNCHANGED <<sessionVars, s2c>>
              /\ IF Head(c2s).on = dialogue THEN Served
                 ELSE ctl' = IF Head(c2s).on THEN "set_on" ELSE "set_off"

SetMode == /\ ctl \in {"set_on", "set_off"} /\ ctl' = Telling[ctl]
           /\ dialogue' = (ctl = "set_on")
           /\ UNCHANGED <<state, playback, closed, greeted, epoch, q, at, voice, s2c, c2s>>

TellClient == /\ ctl \in {"tell_on", "tell_off"}
              /\ Send(<<DialogueMsg(ctl = "tell_on")>>)
              /\ UNCHANGED <<state, dialogue, greeted, epoch, at, voice, c2s>>
              /\ Served

\* "bye", or the connection's end, which may overtake what is still unread.
EndOfSession == /\ ctl = "serve" /\ gone
                /\ ctl' = "leave" /\ close /\ c2s' = <<>>
                /\ UNCHANGED <<state, dialogue, greeted, epoch, at, voice, s2c>>

\* recv() raises instead, as it does when the client left something unread: the
\* session is unlisted, the connection closed, and nobody calls close().
ConnectionReset == /\ ctl = "serve" /\ gone /\ ctl' = "gone" /\ c2s' = <<>>
                   /\ UNCHANGED <<sessionVars, s2c>>

\* worker.join(timeout=5), the session unlisted, the connection closed.
Unlist == /\ ctl = "leave" /\ ctl' = "gone" /\ c2s' = <<>>
          /\ UNCHANGED <<sessionVars, s2c>>

Control == \/ PlaybackDone \/ SwitchMode \/ SetMode \/ TellClient
           \/ EndOfSession \/ ConnectionReset \/ Unlist

------------------------------------------------------------------------------
(* The UDP loop and the client's microphone.                                 *)

can_send == cstate \in LISTENING_STATES /\ speaker = "off"

\* A packet of the recording: lost, dropped while the server does not listen,
\* or admitted by on_rtp() ...
Speak == /\ ~gone /\ can_send /\ sent < MaxPackets /\ hand = <<>>
         /\ sent' = sent + 1
         /\ hand' \in IF state \in LISTENING_STATES /\ ctl # "gone" THEN {<<>>, <<epoch>>} ELSE {<<>>}
         /\ UNCHANGED <<settings, sessionVars, ctl, s2c, c2s, cstate, cdialogue, speaker, gone, keys>>

\* ... and put into the queue, unless it is full.
Put == /\ hand # <<>> /\ hand' = <<>>
       /\ q' = IF Len(q) < QMax THEN q \o hand ELSE q
       /\ UNCHANGED <<state, dialogue, playback, closed, greeted, epoch, at, voice, ctl, s2c, c2s,
                      settings, clientVars>>

------------------------------------------------------------------------------
(* The client: events(), keyboard(), _watch_eof().                           *)

Event(t) == ~gone /\ speaker # "last" /\ s2c # <<>> /\ Head(s2c).type = t /\ s2c' = Tail(s2c)

OnState == /\ Event("state") /\ cstate' = Head(s2c).state
           /\ UNCHANGED <<c2s, cdialogue, speaker, gone, sent, keys>>
OnDialogue == /\ Event("dialogue") /\ cdialogue' = Head(s2c).on
              /\ UNCHANGED <<c2s, cstate, speaker, gone, sent, keys>>
OnAudioStart == /\ Event("audio_start") /\ speaker' = "on"
                /\ UNCHANGED <<c2s, cstate, cdialogue, gone, sent, keys>>
OnAudioEnd == /\ Event("audio_end") /\ speaker' = "last"
              /\ UNCHANGED <<c2s, cstate, cdialogue, gone, sent, keys>>

\* The player has finished.
Played == /\ ~gone /\ speaker = "last" /\ speaker' = "off"
          /\ c2s' = Append(c2s, [type |-> "playback_done"])
          /\ UNCHANGED <<s2c, cstate, cdialogue, gone, sent, keys>>

\* "d" + Enter.
KeyD == /\ ~gone /\ keys < MaxKeys /\ cstate # "connecting"
        /\ keys' = keys + 1
        /\ c2s' = Append(c2s, DialogueMsg(~cdialogue))
        /\ UNCHANGED <<s2c, cstate, cdialogue, speaker, gone, sent>>

\* The process exits: its threads and what was sent to it are gone.
Exit == /\ ~gone /\ gone' = TRUE /\ s2c' = <<>>
        /\ cstate' = "connecting" /\ cdialogue' = FALSE /\ speaker' = "off"
        /\ sent' = MaxPackets /\ keys' = MaxKeys
        /\ UNCHANGED c2s

\* _watch_eof(): the recording is over and the server quiet.
LeaveQuiet == sent = MaxPackets /\ can_send /\ s2c = <<>> /\ Exit

\* "q" + Enter or Ctrl-C; the end of the server's side.
Quit    == Exit
SeesEnd == ctl = "gone" /\ speaker # "last" /\ s2c = <<>> /\ Exit

Events == SeesEnd \/ OnState \/ OnDialogue \/ OnAudioStart \/ OnAudioEnd \/ Played

------------------------------------------------------------------------------
Server(A) == A /\ UNCHANGED <<settings, hand, clientVars>>
WorkerStep  == Server(Worker /\ UNCHANGED <<ctl, c2s>>)
FailStep    == Server(WorkerFails /\ UNCHANGED <<ctl, c2s>>)
VoiceStep   == Server(Voice /\ UNCHANGED <<ctl, c2s>>)
ControlStep == Server(Control)
Client(A) == A /\ UNCHANGED <<settings, sessionVars, hand, ctl>>

Next == WorkerStep \/ FailStep \/ VoiceStep \/ ControlStep \/ Speak \/ Put
          \/ Client(Events) \/ Client(KeyD) \/ Client(LeaveQuiet) \/ Client(Quit)

\* Every thread runs; the requests to the chat server end (its timeout is
\* 300 s), the player ends, and the recording is read in real time.
Fairness == /\ WF_vars(WorkerStep) /\ WF_vars(VoiceStep) /\ WF_vars(ControlStep)
            /\ WF_vars(Put) /\ WF_vars(Speak)
            /\ WF_vars(Client(Events))

Spec == Init /\ [][Next]_vars /\ Fairness

------------------------------------------------------------------------------
\* The type invariant: the states of the session's threads, and what travels
\* between the worker, the UDP loop and the client.
TypeOK ==
  /\ state \in States /\ cstate \in States \cup {"connecting"}
  /\ {dialogue, playback, closed, greeted, cdialogue, gone} \subseteq BOOLEAN
  /\ epoch \in 0 .. MaxPackets + 1 /\ sent \in 0 .. MaxPackets /\ keys \in 0 .. MaxKeys
  /\ q \in Seq(0 .. epoch) /\ Len(q) <= QMax
  /\ hand \in {<<>>} \cup {<<e>> : e \in 1 .. epoch}
  /\ at \in WorkerSteps /\ voice \in {"silent", "ready", "sounding", "spoken", "mute"}
  /\ ctl \in {"serve", "set_on", "set_off", "tell_on", "tell_off", "leave", "gone"}
  /\ s2c \in Seq(ToClient) /\ c2s \in Seq(ToServer)
  /\ speaker \in {"off", "on", "last"}

\* Of the audio that came before or during an answer, at most one packet is
\* left to be taken for what follows it: the one the UDP loop had admitted
\* before the answer and had not put yet when listen() emptied the queue.
Stale(e) == e # None /\ e # epoch
StaleAtMostOne ==
  \A i \in DOMAIN q : Stale(q[i]) =>
    (\A j \in DOMAIN q : Stale(q[j]) => i = j) /\ (\A j \in DOMAIN hand : ~Stale(hand[j]))

\* While the client plays the speech its microphone is muted by the state it
\* was told alone: no order of the worker, the speech thread and the client
\* lets it believe that the server listens before audio_end is played.
MutedWhilePlaying == speaker # "off" => cstate \notin LISTENING_STATES

\* The client that streams a recording leaves in the end, unless the worker
\* failed: every turn ends, with its speech played or not, the client learns
\* that the server listens, and the recording goes on.
PollsForQuiet == WF_vars(Client(LeaveQuiet))
LeavesWhenQuiet == PollsForQuiet => <>(gone \/ at = "ended")

\* A mode switched by any thread reaches the worker's state, though no audio
\* comes, unless it is switched back or a turn or the session's end intervenes.
ModeTakesEffect ==
  /\ dialogue /\ state \in {"listening", "awake"}
       ~> ~dialogue \/ state \notin {"listening", "awake"} \/ closed
  /\ ~dialogue /\ state = "dialogue"
       ~> dialogue \/ state # "dialogue" \/ closed

\* The place of a client that is gone becomes free, and the worker of a session
\* that is closed ends, wherever it was, though the end mark may have found no
\* room in the queue.  (After ConnectionReset nobody closes the session: the
\* worker of a client that is gone need not end.)
SessionReleased == /\ gone ~> ctl = "gone"
                   /\ closed ~> at = "ended"
=============================================================================
