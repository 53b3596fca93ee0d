---------------------------- MODULE NodeConfigMC ----------------------------
(* Instances of NodeConfig: one network of the operator, one that is dead,  *)
(* and the fallbacks of two firmware versions.                              *)
EXTENDS NodeConfig

CONSTANTS n1, n2, dead, f1, f2

MCNetworks  == {n1, n2, dead, f1, f2}
MCDead      == {dead}
MCFallbacks == {f1, f2}
MCDefault   == <<n1, n2, dead>>
MCLists     == {MCDefault, <<n2, dead, dead>>, <<dead, dead, dead>>}
=============================================================================
