------------------------------- MODULE Probes -------------------------------
(***************************************************************************)
(* src/kprobe/kprobe.c: probe_init plants four kprobes and then the        *)
(* jprobes, any of which may be refused; probe_exit removes all of them.   *)
(* Handlers run on other cpus from the moment a probe is planted.          *)
(*                                                                         *)
(* Probes are numbered in the order they are registered: 1 is kp, 2 is     *)
(* kp0, Debug is debug_kprobe[], JDebug is debug_jprobe[].                 *)
(***************************************************************************)
EXTENDS Integers

CONSTANTS
  NDebug, NJprobe,   \* lengths of debug_kprobe[] and debug_jprobe[]
  Cpus

ASSUME ProbeAssumption == NDebug \in Nat /\ NJprobe \in Nat

Debug == 3 .. 2 + NDebug
JDebug == 3 + NDebug .. 2 + NDebug + NJprobe
All == 1 .. 2 + NDebug + NJprobe

VARIABLES
  probe,     \* "init", "bad" (unwinding), "live", "exit" or "gone"
  i,         \* the probe it registers or removes next
  to,        \* the one that was refused: unwinding ends before it
  planted,
  cpu        \* the probe whose handler a cpu is in, 0 if none

probesVars == <<probe, i, to, planted, cpu>>

ProbesInit ==
  /\ probe = "init" /\ i = 1 /\ to = 0
  /\ planted = {}
  /\ cpu = [c \in Cpus |-> 0]

-----------------------------------------------------------------------------
(* After probe n: the first of the next array, or the end of probe_init.   *)
Continue(n) == /\ i' = n
               /\ probe' = IF n \in All THEN "init" ELSE "live"

Plant == planted' = planted \cup {i} /\ Continue(i + 1) /\ UNCHANGED to

(* kprobe_init.  If kp or kp0 is refused it returns, and what is planted   *)
(* stays; if one of debug_kprobe is, those before it in the array go.      *)
kprobe_init ==
  /\ probe = "init" /\ i \in 1..2 \cup Debug
  /\ \/ Plant
     \/ i <= 2 /\ Continue(3 + NDebug) /\ UNCHANGED <<to, planted>>
     \/ i > 2 /\ probe' = "bad" /\ i' = 3 /\ to' = i /\ UNCHANGED planted
  /\ UNCHANGED cpu

(* Altered: j counts from 1. *)
jprobe_init_From1 ==
  /\ probe = "init" /\ i \in JDebug
  /\ \/ Plant
     \/ probe' = "bad" /\ i' = 4 + NDebug /\ to' = i /\ UNCHANGED planted
  /\ UNCHANGED cpu

jprobe_init ==
  /\ probe = "init" /\ i \in JDebug
  /\ \/ Plant
     \/ probe' = "bad" /\ i' = 3 + NDebug /\ to' = i /\ UNCHANGED planted
  /\ UNCHANGED cpu

(* unregister_kprobe and unregister_jprobe wait for handlers that run, and *)
(* do nothing to a probe that is not planted.                              *)
Unregister(n) == /\ \A c \in Cpus : cpu[c] # n
                 /\ planted' = planted \ {n}

(* bad: the results of both functions are ignored by probe_init.           *)
Unwind ==
  /\ probe = "bad"
  /\ \/ /\ i < to /\ Unregister(i) /\ i' = i + 1
        /\ UNCHANGED <<probe, to>>
     \/ /\ i >= to
        /\ Continue(IF to \in Debug THEN 3 + NDebug ELSE 3 + NDebug + NJprobe)
        /\ UNCHANGED <<to, planted>>
  /\ UNCHANGED cpu

(* Altered: the result of kprobe_init is returned, so the module is not    *)
(* loaded if a kprobe is refused.                                          *)
probe_init_Return ==
  \/ kprobe_init \/ jprobe_init \/ Unwind
  \/ /\ probe = "live" /\ ~((1..2 \cup Debug) \subseteq planted)
     /\ probe' = "gone" /\ UNCHANGED <<i, to, planted, cpu>>

probe_init == kprobe_init \/ jprobe_init \/ Unwind

rmmod == /\ probe = "live"
         /\ probe' = "exit" /\ i' = 1
         /\ UNCHANGED <<to, planted, cpu>>

(* Every probe in turn, planted or not. *)
Remove == /\ probe = "exit"
          /\ Unregister(i) /\ i' = i + 1
          /\ UNCHANGED <<probe, to, cpu>>

kprobe_exit == i \in 1..2 \cup Debug /\ Remove

jprobe_exit == i \in JDebug /\ Remove

probe_exit ==
  \/ kprobe_exit \/ jprobe_exit
  \/ /\ probe = "exit" /\ i \notin All
     /\ probe' = "gone" /\ UNCHANGED <<i, to, planted, cpu>>

-----------------------------------------------------------------------------
(* A cpu runs into a planted probe and later leaves its handler.           *)
Hit(c) == /\ cpu[c] = 0
          /\ \E n \in planted : cpu' = [cpu EXCEPT ![c] = n]
          /\ UNCHANGED <<probe, i, to, planted>>

Leave(c) == /\ cpu[c] # 0
            /\ cpu' = [cpu EXCEPT ![c] = 0]
            /\ UNCHANGED <<probe, i, to, planted>>

ProbesNext == probe_init \/ rmmod \/ probe_exit \/ \E c \in Cpus : Hit(c) \/ Leave(c)

ProbesSpec == ProbesInit /\ [][ProbesNext]_probesVars

-----------------------------------------------------------------------------
(* When the module is gone no probe is planted and no handler runs,        *)
(* whichever registrations failed: kp and kp0, which kprobe_init leaves    *)
(* behind when it fails, are removed because probe_init returns 0 all the  *)
(* same and probe_exit does not ask what was planted.                      *)
GoneIsUnplanted ==
  probe = "gone" => planted = {} /\ \A c \in Cpus : cpu[c] = 0

(* Each array is planted as a whole or not at all once probe_init is done. *)
ArraysWhole ==
  probe = "live" => \A A \in {Debug, JDebug} : A \subseteq planted \/ A \cap planted = {}

(* The same of all kprobes is refuted: kp stays when kp0 is refused. *)
KprobesWhole ==
  LET A == 1..2 \cup Debug
  IN probe = "live" => A \subseteq planted \/ A \cap planted = {}
=============================================================================
