----------------------------- MODULE MCFleetRun -----------------------------
(* Instances of FleetRun for TLC: the events of each run.                    *)
EXTENDS FleetRun, TLC

QueueEvents == {"lose", "fail", "edit", "freeze", "down", "purge", "reboot"}
RaceEvents == {"clear", "late", "delete", "restart"}
CrashEvents == {"restart"}
LaunchEvents == {"fail"}

Symmetry == Permutations(Gateways)
=============================================================================
