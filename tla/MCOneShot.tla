------------------------------ MODULE MCOneShot ------------------------------
(* An instance of OneShot for TLC: the requests that parseArgs lets pass.  *)
EXTENDS OneShotInv, LaunchRequest

SomeArgs ==
  {[timeout |-> 0, runTimeoutMS |-> 1, hypervisorSampleIntervalMS |-> 1,
    metricsFlushIntervalMS |-> flush, cgroup |-> inCgroup, guestCID |-> 0, vsockPort |-> 0] :
     flush \in {0, 1}, inCgroup \in BOOLEAN}

SomeRequests == {RequestFromArgs(a) : a \in SomeArgs}
=============================================================================
