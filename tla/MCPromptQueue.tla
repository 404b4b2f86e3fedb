---------------------------- MODULE MCPromptQueue ----------------------------
(* Three prompts of which the second is dangerous, one manual request and  *)
(* one command-line run at a time, and a queue of one place, so that it is *)
(* full at once and putting an item back can find it full.                 *)
EXTENDS PromptQueue

MCSessions  == {"dev"}
MCDangerous == {2}
=============================================================================
