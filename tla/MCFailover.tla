---------------------------- MODULE MCFailover ----------------------------
(* Instances of Failover for TLC. *)
EXTENDS Failover

CONSTANTS main, backup,     \* isp-main, isp-backup
          alice, bob        \* operators

TwoProviders == {main, backup}
MCPriority == [p \in Providers |-> IF p = main THEN 1 ELSE 2]
NoOne == {}
OneOperator == {alice}
TwoOperators == {alice, bob}
NoCommand == {}
PinBackup == {backup, None}
NoFaults == {}
RouteFault == {"route"}
FlushFault == {"flush"}
=============================================================================
