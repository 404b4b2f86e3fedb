----------------------------- MODULE MCPtyOutput -----------------------------
(* Two viewers, queues of four frames that pause the reader when they hold *)
(* more than two, and a scrollback that fills such a queue.                *)
EXTENDS PtyOutput
=============================================================================
