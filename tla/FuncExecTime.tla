---------------------------- MODULE FuncExecTime ----------------------------
(***************************************************************************)
(* src/funcexectime/funcexectime.c: a return probe that prints how long    *)
(* each call of a function took.  Calls run on several cpus at once; each  *)
(* probed call has an instance of its own from a pool of maxactive, in     *)
(* which entry_handler leaves the time of entry for ret_handler.           *)
(*                                                                         *)
(* A time is the call it was taken in: the task, as long as that call of   *)
(* its goes on, and NONE after it.  The property is whose it is.           *)
(***************************************************************************)
EXTENDS Integers

CONSTANTS
  NONE,        \* no instance, or no call
  Tasks,       \* callers of the probed function
  Kthreads,    \* those without an mm
  Instances,   \* the pool: maxactive of them
  MaxCount     \* bound on count and nmissed in the model

ASSUME NONEAssumption == NONE \notin Instances

VARIABLES
  fet,         \* "init", "live", "exit", "gone" or "failed"
  call,        \* each task: "out", "entry", "in", "return", "print"
  ri,          \* the instance its call has, NONE if none
  free,        \* instances not in use
  stamp,       \* entry_stamp in each instance: the call it was taken in
  took,        \* the entry its ret_handler measured from (its own if in none)
  count, old,  \* count, and the task's copy of it in count++
  nmissed

callVars == <<call, ri, free, stamp, took, count, old, nmissed>>
fetVars == <<fet, callVars>>

FetInit ==
  /\ fet = "init"
  /\ call = [t \in Tasks |-> "out"]
  /\ ri = [t \in Tasks |-> NONE]
  /\ free = Instances
  /\ stamp = [x \in Instances |-> NONE]
  /\ took = [t \in Tasks |-> t]
  /\ count = 0 /\ old = [t \in Tasks |-> 0] /\ nmissed = 0

fet_init ==
  /\ fet = "init"
  /\ fet' \in {"live", "failed"}
  /\ UNCHANGED callVars

(* The call of t is over. *)
Ended(t) == stamp' = [x \in Instances |-> IF stamp[x] = t THEN NONE ELSE stamp[x]]

(* The kernel takes the instance of t's call back into the pool. *)
recycle_rp_inst(t) == ri' = [ri EXCEPT ![t] = NONE] /\ free' = free \cup {ri[t]}

(* The probed function is called.  While the probe is there the kernel     *)
(* gives the call an instance; if there is none, it is only counted.       *)
Call(t) ==
  /\ call[t] = "out"
  /\ IF fet # "live" \/ free = {}
     THEN /\ call' = [call EXCEPT ![t] = "in"]
          /\ nmissed' = IF fet = "live" /\ nmissed < MaxCount THEN nmissed + 1 ELSE nmissed
          /\ UNCHANGED <<ri, free>>
     ELSE /\ \E x \in free : ri' = [ri EXCEPT ![t] = x] /\ free' = free \ {x}
          /\ call' = [call EXCEPT ![t] = "entry"]
          /\ UNCHANGED nmissed
  /\ UNCHANGED <<fet, stamp, took, count, old>>

(* Altered: kernel threads are not timed but are probed. *)
entry_handler_Return0(t) ==
  /\ call[t] = "entry"
  /\ call' = [call EXCEPT ![t] = "in"]
  /\ stamp' = IF t \in Kthreads THEN stamp ELSE [stamp EXCEPT ![ri[t]] = t]
  /\ UNCHANGED <<fet, ri, free, took, count, old, nmissed>>

(* A kernel thread is skipped, by a result that makes the kernel take its  *)
(* instance back at once.                                                  *)
entry_handler(t) ==
  /\ call[t] = "entry"
  /\ call' = [call EXCEPT ![t] = "in"]
  /\ IF t \in Kthreads
     THEN recycle_rp_inst(t) /\ UNCHANGED stamp
     ELSE /\ stamp' = [stamp EXCEPT ![ri[t]] = t]
          /\ UNCHANGED <<ri, free>>
  /\ UNCHANGED <<fet, took, count, old, nmissed>>

(* The call returns, through ret_handler if it still has an instance.      *)
Return(t) ==
  /\ call[t] = "in"
  /\ \/ ri[t] = NONE /\ Ended(t) /\ call' = [call EXCEPT ![t] = "out"]
     \/ ri[t] # NONE /\ UNCHANGED stamp /\ call' = [call EXCEPT ![t] = "return"]
  /\ UNCHANGED <<fet, ri, free, took, count, old, nmissed>>

(* The time is taken, count++ reads and then writes; after the handler the *)
(* kernel takes the instance back.                                         *)
ret_handler(t) ==
  \/ /\ call[t] = "return"
     /\ took' = [took EXCEPT ![t] = stamp[ri[t]]]
     /\ old' = [old EXCEPT ![t] = count]
     /\ call' = [call EXCEPT ![t] = "print"]
     /\ UNCHANGED <<fet, ri, free, stamp, count, nmissed>>
  \/ /\ call[t] = "print"
     /\ count' = IF old[t] < MaxCount THEN old[t] + 1 ELSE old[t]
     /\ call' = [call EXCEPT ![t] = "out"]
     /\ recycle_rp_inst(t) /\ Ended(t)
     /\ took' = [took EXCEPT ![t] = t] /\ old' = [old EXCEPT ![t] = 0]
     /\ UNCHANGED <<fet, nmissed>>

InHandler(t) == call[t] \in {"entry", "return", "print"}

(* Altered: the handlers that run are not waited for. *)
fet_exit_NoWait ==
  /\ fet = "live" /\ fet' = "gone"
  /\ ri' = [t \in Tasks |-> NONE] /\ free' = Instances
  /\ UNCHANGED <<call, stamp, took, count, old, nmissed>>

(* unregister_kretprobe waits for handlers and takes the instances from    *)
(* the calls still under way, which then return unseen.                    *)
fet_exit ==
  \/ fet = "live" /\ fet' = "exit" /\ UNCHANGED callVars
  \/ /\ fet = "exit" /\ \A t \in Tasks : ~InHandler(t)
     /\ fet' = "gone"
     /\ ri' = [t \in Tasks |-> NONE] /\ free' = Instances
     /\ UNCHANGED <<call, stamp, took, count, old, nmissed>>

FetNext ==
  \/ fet_init \/ fet_exit
  \/ \E t \in Tasks : Call(t) \/ entry_handler(t) \/ Return(t) \/ ret_handler(t)

FetSpec == FetInit /\ [][FetNext]_fetVars

-----------------------------------------------------------------------------
(* The duration printed for a call is measured from that call's own entry, *)
(* not from another task's or from an earlier call's, however calls        *)
(* overlap, instances are used again and kernel threads borrow them.       *)
OwnDuration == \A t \in Tasks : call[t] = "print" => took[t] = t

(* Once the module is gone none of its handlers runs, whatever calls were  *)
(* under way when rmmod came.                                              *)
GoneIsQuiet == fet = "gone" => \A t \in Tasks : ~InHandler(t)

(* The number printed in front of a line is used once: refuted by two      *)
(* handlers in count++.                                                    *)
NumbersUnique ==
  \A t, u \in Tasks : call[t] = "print" /\ call[u] = "print" /\ t # u => old[t] # old[u]
=============================================================================
