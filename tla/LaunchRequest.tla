---------------------------- MODULE LaunchRequest ----------------------------
(***************************************************************************)
(* How the flags of the command line become the launch request that a      *)
(* supervisor or a one-shot launch runs with: what parseCreateArgs and     *)
(* parseArgs let pass, the conversions of sandboxLaunchRequestFromCreate-  *)
(* Args, and what newMachine makes of the vsock numbers.  Integers of Go   *)
(* are wide enough here, but for the uint32 of the guest CID and the port. *)
(***************************************************************************)
EXTENDS Integers, TLAPS

CONSTANTS
  Millisecond,  \* a time.Millisecond in the units of a time.Duration (10^6)
  Word          \* the number of values of a uint32 (2^32)

ASSUME MillisecondAssumption == Millisecond \in Nat \ {0}
ASSUME WordAssumption == Word \in Nat \ {0}

Args == [timeout: Int, runTimeoutMS: Int, hypervisorSampleIntervalMS: Int,
         metricsFlushIntervalMS: Int, cgroup: BOOLEAN, guestCID: Int, vsockPort: Int]

(* Of create: --timeout and the intervals are not looked at.               *)
CreateArgs == {a \in Args : a.guestCID >= 3 /\ a.vsockPort > 0}

(* Of a one-shot launch.                                                   *)
OneShotArgs ==
  {a \in Args : a.runTimeoutMS > 0 /\ a.hypervisorSampleIntervalMS > 0
                /\ a.metricsFlushIntervalMS >= 0}

(* Division in Go goes towards zero.                                       *)
GoDiv(a, b) == IF a >= 0 THEN a \div b ELSE -((-a) \div b)

Request(a, timeoutMS) ==
  [RunTimeoutMS |-> timeoutMS, HypervisorSampleIntervalMS |-> a.hypervisorSampleIntervalMS,
   MetricsFlushIntervalMS |-> a.metricsFlushIntervalMS, Cgroup |-> a.cgroup]

RequestFromCreateArgs(a) == Request(a, GoDiv(a.timeout, Millisecond))
RequestFromArgs(a)       == Request(a, a.runTimeoutMS)

(* uint32(...) of an int.                                                  *)
Vsock(a) == [GuestCID |-> a.guestCID % Word, Port |-> a.vsockPort % Word]

(* newMachine gives the VM a vsock device, over which exec reaches it.     *)
HasVsockDevice(vsock) == vsock.GuestCID > 0 /\ vsock.Port > 0

---------------------------------------------------------------------------
(* Division towards zero is positive exactly from one divisor on, and      *)
(* negative exactly from one below zero down.                              *)
LEMMA GoDivSign ==
  ASSUME NEW a \in Int, NEW b \in Nat \ {0}
  PROVE  /\ GoDiv(a, b) \in Int
         /\ GoDiv(a, b) > 0 <=> a >= b
  BY DEF GoDiv

(* Every request of create and of a one-shot launch is one that module     *)
(* Supervisor is about, and those of a one-shot launch are as module       *)
(* OneShot assumes them.                                                   *)
THEOREM RequestsTyped ==
  /\ \A a \in CreateArgs :
       RequestFromCreateArgs(a) \in [RunTimeoutMS: Int, HypervisorSampleIntervalMS: Int,
                                     MetricsFlushIntervalMS: Int, Cgroup: BOOLEAN]
  /\ \A a \in OneShotArgs :
       LET r == RequestFromArgs(a) IN
         r.RunTimeoutMS > 0 /\ r.HypervisorSampleIntervalMS > 0 /\ r.MetricsFlushIntervalMS >= 0
  <1>1. ASSUME NEW a \in CreateArgs
        PROVE  RequestFromCreateArgs(a) \in [RunTimeoutMS: Int, HypervisorSampleIntervalMS: Int,
                                             MetricsFlushIntervalMS: Int, Cgroup: BOOLEAN]
    <2>1. a \in Args  BY DEF CreateArgs
    <2>2. GoDiv(a.timeout, Millisecond) \in Int
      BY <2>1, GoDivSign, MillisecondAssumption DEF Args
    <2> QED  BY <2>1, <2>2 DEF Args, RequestFromCreateArgs, Request
  <1>2. ASSUME NEW a \in OneShotArgs
        PROVE  LET r == RequestFromArgs(a) IN
                 r.RunTimeoutMS > 0 /\ r.HypervisorSampleIntervalMS > 0
                 /\ r.MetricsFlushIntervalMS >= 0
    BY DEF OneShotArgs, RequestFromArgs, Request
  <1> QED  BY <1>1, <1>2

(* A sandbox has a lifetime limit exactly when --timeout is at least one   *)
(* millisecond: less than that, zero and a negative duration mean none,    *)
(* for RunSandboxSupervisor takes its timeout only if it is positive.      *)
THEOREM LifetimeLimited ==
  \A a \in CreateArgs : RequestFromCreateArgs(a).RunTimeoutMS > 0 <=> a.timeout >= Millisecond
  <1> SUFFICES ASSUME NEW a \in CreateArgs
               PROVE  RequestFromCreateArgs(a).RunTimeoutMS > 0 <=> a.timeout >= Millisecond
    OBVIOUS
  <1>1. a.timeout \in Int  BY DEF CreateArgs, Args
  <1>2. RequestFromCreateArgs(a).RunTimeoutMS = GoDiv(a.timeout, Millisecond)
    BY DEF RequestFromCreateArgs, Request
  <1> QED  BY <1>1, <1>2, GoDivSign, MillisecondAssumption

(* A sandbox of create has the vsock device that exec needs exactly when   *)
(* neither number is a multiple of 2^32; numbers in the range of a uint32  *)
(* reach Firecracker as they were given.                                   *)
THEOREM VsockReaches ==
  \A a \in CreateArgs :
    /\ HasVsockDevice(Vsock(a)) <=> a.guestCID % Word # 0 /\ a.vsockPort % Word # 0
    /\ a.guestCID < Word /\ a.vsockPort < Word =>
         HasVsockDevice(Vsock(a)) /\ Vsock(a) = [GuestCID |-> a.guestCID, Port |-> a.vsockPort]
  <1> SUFFICES ASSUME NEW a \in CreateArgs
               PROVE  /\ HasVsockDevice(Vsock(a)) <=> a.guestCID % Word # 0 /\ a.vsockPort % Word # 0
                      /\ a.guestCID < Word /\ a.vsockPort < Word =>
                           /\ HasVsockDevice(Vsock(a))
                           /\ Vsock(a) = [GuestCID |-> a.guestCID, Port |-> a.vsockPort]
    OBVIOUS
  <1>1. a.guestCID \in Int /\ a.guestCID >= 3 /\ a.vsockPort \in Int /\ a.vsockPort > 0
    BY DEF CreateArgs, Args
  <1>2. a.guestCID % Word \in Nat /\ a.vsockPort % Word \in Nat
    BY <1>1, WordAssumption
  <1>3. a.guestCID < Word => a.guestCID % Word = a.guestCID
    BY <1>1, WordAssumption
  <1>4. a.vsockPort < Word => a.vsockPort % Word = a.vsockPort
    BY <1>1, WordAssumption
  <1> QED  BY <1>1, <1>2, <1>3, <1>4 DEF HasVsockDevice, Vsock
=============================================================================
