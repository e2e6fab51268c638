------------------------------ MODULE Drivers ------------------------------
(***************************************************************************)
(* The modules that register with the kernel: notifiers, network devices,  *)
(* private ioctls and probes.  They share no state, so what any one of     *)
(* them does in a system with all of them it also does alone: sample       *)
(* chooses the one that runs, the others stay in their initial states.     *)
(***************************************************************************)
EXTENDS NotifierChain, NetDevs, MonIoctl, Probes, FuncExecTime

VARIABLE sample

vars == <<sample, notifierVars, devsVars, ioctlVars, probesVars, fetVars>>

Init ==
  /\ sample \in {"notifier", "devs", "ioctl", "probes", "fet"}
  /\ NotifierInit /\ DevsInit /\ IoctlInit /\ ProbesInit /\ FetInit

(* A step A of sample s: the others do not move. *)
Step(s, A) ==
  /\ sample = s /\ A /\ UNCHANGED sample
  /\ IF s = "notifier" THEN TRUE ELSE UNCHANGED notifierVars
  /\ IF s = "devs" THEN TRUE ELSE UNCHANGED devsVars
  /\ IF s = "ioctl" THEN TRUE ELSE UNCHANGED ioctlVars
  /\ IF s = "probes" THEN TRUE ELSE UNCHANGED probesVars
  /\ IF s = "fet" THEN TRUE ELSE UNCHANGED fetVars

Next ==
  \/ Step("notifier", NotifierNext) \/ Step("devs", DevsNext) \/ Step("ioctl", IoctlNext)
  \/ Step("probes", ProbesNext) \/ Step("fet", FetNext)

Spec == Init /\ [][Next]_vars
=============================================================================
