----------------------------- MODULE MCOverview -----------------------------
(* A small instance of Overview for TLC. *)
EXTENDS Overview

Cron == [kind |-> "cron", ns |-> "n1", owner |-> NoOwner]
Job == [kind |-> "job", ns |-> "n1", owner |-> Cron]
Pod == [kind |-> "pod", ns |-> "n1", owner |-> Job]
Secret == [kind |-> "secret", ns |-> "n2", owner |-> NoOwner]
FourObjects == {Cron, Job, Pod, Secret}
PodMatches == {Pod}
OneNamespace == {{"n1"}}

(* The Job runs at first; its pod may have a problem. *)
JobRuns == OverviewInit /\ cluster[Job] = "ok"

JobRunsSpec == JobRuns /\ [][OverviewNext]_overviewVars
=============================================================================
