---------------------------- MODULE MCChatServer ----------------------------
(* Two chat models and a voice that need more memory than there is: any two  *)
(* fit, but the first chat model is said to take less than it does.          *)
EXTENDS ChatServer

CONSTANTS chat, base, voice

MCOrder    == <<chat, base, voice>>
MCSpeech   == {voice}
MCSize     == (chat :> 2) @@ (base :> 2) @@ (voice :> 1)
MCEstimate == (chat :> 1) @@ (base :> 2) @@ (voice :> 1)
=============================================================================
