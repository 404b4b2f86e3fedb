---------------------------- MODULE MCWaitingGate ----------------------------
(* An agent with hooks and one that reports its status itself, which may   *)
(* share a tmux session that is shown in a web terminal.  The run about    *)
(* panes has a second session, which is not shown.                         *)
EXTENDS WaitingGate

MCSession  == {"dev"}
MCSessions == {"dev", "ops"}
MCPtys     == {"pty"}
MCTmuxOf   == [p \in MCPtys |-> "dev"]
=============================================================================
