---------------------------- MODULE MCQueueStore ----------------------------
(* Two clients, two prompts and a queue of one place: the queue is full at *)
(* the second submission, and reinsertion can find it full.                *)
EXTENDS QueueStore

MCSessions == {"dev"}
=============================================================================
