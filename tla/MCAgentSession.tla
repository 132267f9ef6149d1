--------------------------- MODULE MCAgentSession ---------------------------
(* Instances of AgentSession for TLC. *)
EXTENDS AgentSession, TLC

CONSTANTS t1, t2, k1

OneTurn      == {t1}
TwoTurns     == {t1, t2}
OneTask      == {k1}
NoTasks      == {}
NoFaults     == {}
AllButTerminal == {"lost_notice", "slow_cli", "cli_exit", "db_error"}
LostTerminal == {"lost_terminal"}
CliExits     == {"cli_exit"}
DbErrors     == {"db_error"}
=============================================================================
