--------------------------- MODULE MCMcpSupervisor ---------------------------
(* Instances of McpSupervisor and of McpServer for TLC.  The two share no  *)
(* state, and a behaviour is one of the one or of the other.               *)
EXTENDS McpSupervisor, McpServer, TLC

VARIABLE part  \* which of the two goes on

ServersInit == SupInit /\ ServerInit /\ part \in {"supervisor", "server"}

ServersNext ==
  /\ UNCHANGED part
  /\ \/ part = "supervisor" /\ SupNext /\ UNCHANGED serverVars
     \/ part = "server" /\ ServerNext /\ UNCHANGED vars

\* The fairness of each, where it goes on.
ServersFairness ==
  /\ WF_vars(part = "supervisor" /\ Attend)
  /\ WF_vars(part = "supervisor" /\ Recover /\ Exited)
  /\ SF_vars(part = "supervisor" /\ ShutDown)
  /\ \A r \in HttpRequests : WF_serverVars(part = "server" /\ Loop(r))

ServersSpec ==
  ServersInit /\ [][ServersNext]_<<vars, serverVars, part>> /\ ServersFairness
=============================================================================
