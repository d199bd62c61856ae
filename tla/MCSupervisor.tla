---------------------------- MODULE MCSupervisor ----------------------------
(* Instances of Supervisor for TLC, with the launch requests of create:    *)
(* only the signs of the intervals matter to the supervisor, so two or     *)
(* three command lines stand for all of them.                              *)
EXTENDS SupervisorInv, LaunchRequest

(* The request for a timeout in units of half a millisecond.               *)
Req(timeout, sample, flush, inCgroup) ==
  RequestFromCreateArgs(
    [timeout |-> timeout, runTimeoutMS |-> 0, hypervisorSampleIntervalMS |-> sample,
     metricsFlushIntervalMS |-> flush, cgroup |-> inCgroup, guestCID |-> 3, vsockPort |-> 1024])

OrderlyRequests == {Req(1, 1, 1, TRUE), Req(2, 1, 0, TRUE), Req(3, 1, 1, FALSE)}
AnyRequests     == {Req(0, 1, 1, TRUE), Req(2, 1, 1, TRUE), Req(3, 0, 0, FALSE)}

OrderlyFaults == FaultKinds \ {"stopVmm", "crash"}
=============================================================================
