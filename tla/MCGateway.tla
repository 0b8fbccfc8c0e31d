----------------------------- MODULE MCGateway -----------------------------
(* Instances of Gateway for TLC. *)
EXTENDS Gateway

CONSTANTS main, second, backup   \* isp-main, isp-second, isp-backup

TwoProviders == {main, backup}
ThreeProviders == {main, second, backup}
MCPriority == [p \in Providers |-> IF p = main THEN 1 ELSE IF p = second THEN 2 ELSE 3]
NoneSteady == {}
BackupSteady == {backup}
=============================================================================
