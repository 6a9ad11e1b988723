-------------------------- MODULE MCTranslatedTalk --------------------------
(* Deployments for model checking TranslatedTalk: the silence timeout longer *)
(* than jitter, shorter than it, and switched off; transcripts on and off.   *)
EXTENDS TranslatedTalk

SomeConfigs == [silence : {3}, transcripts : BOOLEAN]
               \cup [silence : {0, 1}, transcripts : {TRUE}]
=============================================================================
