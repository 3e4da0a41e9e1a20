------------------------------- MODULE MCTools -------------------------------
(***************************************************************************)
(* The commands of the shell and an MCP server, side by side.  They share   *)
(* no state: a behaviour picks one of them and lets the other rest.  No     *)
(* fair action of a part is enabled in its initial state, so that resting   *)
(* is fair to it.                                                           *)
(***************************************************************************)
EXTENDS ShellSessions, McpClient, TLC

CONSTANTS f1, b1, y1, y2, k1, l1, u1

VARIABLE part

MCKindOf == [c \in Commands |-> IF c = f1 THEN "foreground" ELSE IF c = b1 THEN "background" ELSE "pty"]

toolsVars == <<part, shellVars, mcpVars>>

ToolsInit == part \in {"shell", "mcp"} /\ ShellInit /\ McpInit

On(name) == part = name /\ UNCHANGED part

ToolsNext ==
  \/ On("shell") /\ ShellNext /\ UNCHANGED mcpVars
  \/ On("mcp") /\ McpNext /\ UNCHANGED shellVars

\* Of the shell, promises settle and children that are told to end do end.  Of the
\* client, timers run out, those of the recovery's requests too; the notification in
\* between has none, its fetch ends by the limit of the runtime.  The network and the
\* server owe nothing.
ToolsFairness ==
  /\ \A c \in Commands : WF_shellVars(part = "shell" /\ CommandGoesOn(c))
  /\ WF_shellVars(part = "shell" /\ OperationsDrained)
  /\ WF_shellVars(part = "shell" /\ Closed)
  /\ WF_mcpVars(part = "mcp" /\ \E r \in McpRequests : McpTimeout(r))
  /\ WF_mcpVars(part = "mcp" /\ RecoveryGoesOn)

ToolsFairSpec == ToolsInit /\ [][ToolsNext]_toolsVars /\ ToolsFairness

\* What comes about again and again: every request has come to its end, and the
\* shell is not in the middle of its close.
RequestsSettleAndShellCloses == []<>(NobodyWaits /\ NotClosing)

=============================================================================
