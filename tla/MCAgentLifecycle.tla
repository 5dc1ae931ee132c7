-------------------------- MODULE MCAgentLifecycle --------------------------
(* Small instances of AgentLifecycle: how the agent enters and how its     *)
(* first run may end.                                                      *)
EXTENDS AgentLifecycle

SpawnedOrFromDisk == {"spawn", "disk"}
SpawnedOnly == {"spawn"}
AnyEnd == {"keep", "abort", "isolated"}
KeepOnly == {"keep"}
=============================================================================
