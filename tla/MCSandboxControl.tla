-------------------------- MODULE MCSandboxControl --------------------------
(* An instance of SandboxControl for TLC.                                  *)
EXTENDS SandboxControlInv

CONSTANTS p1, p2

(* The one stops another sandbox first and waits; the other only sends.    *)
SomeIds == [p \in Stoppers |-> IF p = p1 THEN <<"other", "this">> ELSE <<"this">>]

OneRequest == {[RunTimeoutMS |-> 0, HypervisorSampleIntervalMS |-> 1,
                MetricsFlushIntervalMS |-> 0, Cgroup |-> FALSE]}
=============================================================================
