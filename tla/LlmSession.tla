----------------------------- MODULE LlmSession -----------------------------
(***************************************************************************)
(* A chat backend over its library (Smollm2Backend and SmolvlmBackend of        *)
(* demo/chat): the rows of the KV cache are kept between requests, and a        *)
(* request prefills only what follows the prefix its prompt shares with them.  *)
(* `cached` is the backend's own idea of what the library holds.              *)
(*                                                                         *)
(* Requests come one at a time (ChatServer).  An answer may be cancelled        *)
(* between two library calls, abandoned at a yield, end, or fail in a call,     *)
(* before or after the library did its part.                                 *)
(***************************************************************************)
EXTENDS LlmLibrary

CONSTANTS
  Prompts,    \* the prompts a client may send (after the sink, a key per row), by `vision`
  Chunk,      \* prefill_chunk; 0 prefills a prompt at once
  Nil         \* None

Keys(v) == Vocab \cup (IF v THEN Images \X (0 .. Rows - 1) ELSE {})

\* Only a SmolvlmBackend's prompts have pictures.
ASSUME SessionAssumption ==
  /\ Chunk \in Nat
  /\ \A v \in BOOLEAN : \A p \in Prompts[v] : p \in Seq(Keys(v)) /\ Len(p) >= 1
ASSUME NilAssumption == Nil \notin Images \cup Seq(Keys(TRUE))

VARIABLES
  vision,     \* a SmolvlmBackend
  cached,     \* _cached
  at,         \* where generate() is
  body,       \* the keys of the prompt
  begun,      \* this request has prefilled something
  shown,      \* the picture this request had encoded last
  history,    \* history, by keys: the prompt and the sampled tokens
  spoilt      \* an exception or a reload made the cache void, nothing was prefilled since

sessionVars == <<vision, cached, at, body, begun, shown, history, spoilt>>
vars == <<libVars, sessionVars>>

IsRow(key) == key \notin Vocab

\* generate() is left, and its locals with it.
Return == at' = "idle" /\ body' = <<>> /\ begun' = FALSE /\ shown' = Nil /\ history' = <<>>

-----------------------------------------------------------------------------
(* Between requests                                                         *)

Load == /\ at = "unloaded"
        /\ Open
        /\ cached' = Nil /\ at' = "idle" /\ spoilt' = TRUE
        /\ UNCHANGED <<vision, body, begun, shown, history>>

Unload == /\ at = "idle"
          /\ Close
          /\ cached' = Nil /\ at' = "unloaded"
          /\ UNCHANGED <<vision, body, begun, shown, history, spoilt>>

\* A prompt longer than the context is answered with an error, before anything.
Request(p) == /\ at = "idle" /\ 1 + Len(p) <= Context
              /\ body' = p /\ history' = p /\ at' = "prompt"
              /\ UNCHANGED <<libVars, vision, cached, begun, shown, spoilt>>

-----------------------------------------------------------------------------
(* The prompt                                                               *)

\* (mutant) a picture's rows told apart by their number only
CommonPrefixAnyImage(a, b) ==
  LET same(x, y) == x = y \/ (IsRow(x) /\ IsRow(y) /\ x[2] = y[2])
  IN  Max({n \in 0 .. Min({Len(a), Len(b)}) : \A i \in 1 .. n : same(a[i], b[i])})

CommonPrefix(a, b) ==
  Max({n \in 0 .. Min({Len(a), Len(b)}) : SubSeq(a, 1, n) = SubSeq(b, 1, n)})

Usable == IF cached = Nil \/ pos # 1 + Len(cached) THEN <<>> ELSE cached

\* At least the last position is computed, for its logits.
Reuse == Min({CommonPrefix(Usable, body), Len(body) - 1})

Rewind == /\ at = "prompt"
          /\ Truncate(1 + Reuse)
          /\ cached' = SubSeq(body, 1, Reuse)
          /\ begun' = FALSE /\ shown' = Nil /\ spoilt' = FALSE /\ at' = "prefill"
          /\ UNCHANGED <<vision, body, history>>

New == SubSeq(body, Len(cached) + 1, Len(body))

\* (mutant) a segment ends where a picture begins
UpToText(new) ==
  LET rows == {i \in 1 .. Len(new) : IsRow(new[i])}
  IN  IF rows = {} THEN new ELSE SubSeq(new, 1, Min(rows) - 1)

\* Text up to a picture and all of that picture's rows (SmolvlmBackend).
UpToImage(new) ==
  LET rows == {i \in 1 .. Len(new) : IsRow(new[i])}
      first == Min(rows)
      of(i) == IsRow(new[i]) /\ new[i][1] = new[first][1]
  IN  IF rows = {} THEN new
      ELSE SubSeq(new, 1, Max({j \in rows : \A i \in first .. j : of(i)}))

\* prefill_chunk tokens (Smollm2Backend).
UpToChunk(new) == SubSeq(new, 1, IF Chunk = 0 THEN Len(new) ELSE Min({Chunk, Len(new)}))

Segment == IF vision THEN UpToImage(New) ELSE UpToChunk(New)

\* Only a segment's end can hold a picture.
Wanted == IF Segment # <<>> /\ IsRow(Last(Segment)) THEN Last(Segment)[1] ELSE shown

ShowImage == /\ at = "prefill" /\ Wanted # shown
             /\ EncodeImage(Wanted)
             /\ shown' = Wanted
             /\ UNCHANGED <<vision, cached, at, body, begun, history, spoilt>>

Ids(segment) == [i \in 1 .. Len(segment) |-> IF IsRow(segment[i]) THEN <<"row", segment[i][2]>> ELSE segment[i]]

PrefillSegment ==
  /\ at = "prefill" /\ Wanted = shown
  /\ Prefill(Ids(Segment))
  /\ cached' = cached \o Segment /\ begun' = TRUE
  /\ at' = IF Segment = New THEN "sample" ELSE at
  /\ UNCHANGED <<vision, body, shown, history, spoilt>>

-----------------------------------------------------------------------------
(* The answer                                                               *)

\* A token that is not the end of the answer.
Sample(t) == /\ at = "sample"
             /\ history' = Append(history, t) /\ at' = "token"
             /\ UNCHANGED <<libVars, vision, cached, body, begun, shown, spoilt>>

\* (mutant) the sink is not counted
RoomWithoutSink == Len(cached) < Context

\* 1 + len(_cached) < ctx, else the context is full.
Room == 1 + Len(cached) < Context

DecodeToken == /\ at = "token" /\ Room
               /\ Decode(Last(history))
               /\ cached' = Append(cached, Last(history))
               /\ at' = "sample"
               /\ UNCHANGED <<vision, body, begun, shown, history, spoilt>>

\* The end token, a stop string, a loop, max_tokens, a full context.
AnswerEnds == /\ at \in {"sample", "token"}
              /\ Return
              /\ UNCHANGED <<libVars, vision, cached, spoilt>>

-----------------------------------------------------------------------------
(* An answer that does not end                                              *)

\* cancel.check(): before anything, between two prefill calls, before a decode.
CancelPoint == at = "prompt" \/ (at = "prefill" /\ begun) \/ (at = "token" /\ Room)

\* (mutant) Cancelled handled like any exception
CancelledForgets == /\ CancelPoint
                    /\ Return /\ cached' = Nil
                    /\ UNCHANGED <<libVars, vision, spoilt>>

Cancelled == /\ CancelPoint
             /\ Return
             /\ UNCHANGED <<libVars, vision, cached, spoilt>>

\* The generator closed at a yield, or the sampler or the text side failing.
Abandoned == /\ at \in {"sample", "token"}
             /\ Return
             /\ UNCHANGED <<libVars, vision, cached, spoilt>>

\* The library's part of the call that is next.
NextCall == \/ at = "prompt" /\ Truncate(1 + Reuse)
            \/ at = "prefill" /\ Wanted # shown /\ EncodeImage(Wanted)
            \/ at = "prefill" /\ Wanted = shown /\ Prefill(Ids(Segment))
            \/ at = "token" /\ Room /\ Decode(Last(history))

Calling == at \in {"prompt", "prefill"} \/ (at = "token" /\ Room)

\* An exception, with the library's part done or not.
Fails == /\ Calling
         /\ NextCall \/ UNCHANGED libVars
         /\ Return /\ cached' = Nil /\ spoilt' = TRUE
         /\ UNCHANGED vision

-----------------------------------------------------------------------------
Init == /\ LibraryInit
        /\ vision \in BOOLEAN
        /\ cached = Nil /\ at = "unloaded" /\ spoilt = TRUE
        /\ body = <<>> /\ begun = FALSE /\ shown = Nil /\ history = <<>>

Answer == \/ Rewind \/ ShowImage \/ PrefillSegment \/ DecodeToken
          \/ (\E t \in Vocab : Sample(t)) \/ AnswerEnds

Next == \/ Load \/ Unload \/ (\E p \in Prompts[vision] : Request(p))
        \/ Answer \/ Cancelled \/ Abandoned \/ Fails

\* The thread that answers goes on; the library is closed and opened and clients
\* come or leave as they please.
Spec == Init /\ [][Next]_vars /\ WF_vars(Answer)
-----------------------------------------------------------------------------
TypeOK ==
  /\ LibraryTypeOK
  /\ vision \in BOOLEAN /\ begun \in BOOLEAN /\ spoilt \in BOOLEAN
  /\ at \in {"unloaded", "idle", "prompt", "prefill", "sample", "token"}
  /\ (at = "unloaded" <=> ~open)
  /\ cached # Nil => Len(cached) < Context
  /\ shown \in Images \cup {Nil}

\* The logits a token is sampled from are those of the prompt and of the tokens sampled
\* so far, each picture's rows its own, whatever the cache held before and however the
\* answers before this one ended (generate(), _prefill_new()).
LogitsOfConversation == at = "sample" => Held = history

\* What the library holds is computed once: after an answer that ended, was cancelled or
\* was abandoned, the next prompt runs only behind the longest prefix that is held.
NothingForgotten ==
  at = "prompt" /\ ~spoilt => Reuse = Min({CommonPrefix(Held, body), Len(body) - 1})

\* The library never refuses a call: the positions add up to the context with the sink,
\* the prompt's last row and the last token included.
NothingRefused ==
  /\ at = "prompt" => TruncateAccepts(1 + Reuse)
  /\ at = "prefill" /\ Wanted = shown => PrefillAccepts(Ids(Segment))
  /\ at = "token" /\ Room => DecodeAccepts(Last(history))

\* A request ends, at the latest when the context is full.
AnswerReturns == at = "prompt" ~> at = "idle"
=============================================================================
