------------------------------- MODULE MCVoice -------------------------------
(* Values of the constants of VoiceLink for TLC.                            *)
EXTENDS VoiceToReceive

LockAndBeep == {<<68, 0>>, <<69, 1>>}
==============================================================================
