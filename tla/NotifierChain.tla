--------------------------- MODULE NotifierChain ---------------------------
(***************************************************************************)
(* src/notifierchain: buildchain.c owns the raw notifier chain test_chain, *)
(* regchain.c registers three notifiers when it is loaded and unregisters  *)
(* them when it is unloaded, notify.c sends events 1 and 2 down the chain  *)
(* when it is loaded.  A raw chain has no lock: loading notify runs beside *)
(* loading or unloading regchain.                                          *)
(***************************************************************************)
EXTENDS Integers, Sequences

CONSTANT N   \* notifiers of regchain.c: 3

(* There is at least one. *)
ASSUME NAssumption == N \in Nat \ {0}

NoBlock == 0   \* the NULL pointer
Notifiers == 1 .. N      \* in the order they are registered

VARIABLES
  test_chain,   \* the notifiers that the chain's pointers lead through
  after,        \* where the next of a notifier points that is off the chain
  reg,          \* regchain: "out", "in" or "leaving", and
  nth,            \*   the notifier it registers or unregisters next
  event,        \* the event being sent, 0 outside call_notifier
  npc, nb, next_nb,   \* notifier_call_chain: location and its two pointers
  called,       \* notifiers called for this event so far
  stable        \* notifiers on the chain ever since the event was sent

chainVars == <<test_chain, after, reg, nth>>
walkVars == <<event, npc, nb, next_nb, called>>
notifierVars == <<chainVars, walkVars, stable>>

NotifierInit ==
  /\ test_chain = <<>> /\ after = [n \in Notifiers |-> NoBlock]
  /\ reg = "out" /\ nth = 1
  /\ event = 0 /\ npc = "out" /\ nb = NoBlock /\ next_nb = NoBlock
  /\ called = <<>> /\ stable = {}

First == IF test_chain = <<>> THEN NoBlock ELSE Head(test_chain)

Place(n) == CHOOSE i \in DOMAIN test_chain : test_chain[i] = n

(* The next pointer of notifier n, on the chain or off it. *)
NextOf(n) ==
  IF \E i \in DOMAIN test_chain : test_chain[i] = n
  THEN IF Place(n) = Len(test_chain) THEN NoBlock ELSE test_chain[Place(n) + 1]
  ELSE after[n]

(* The chain with notifier n unlinked. *)
Unlinked(n) ==
  SubSeq(test_chain, 1, Place(n) - 1) \o SubSeq(test_chain, Place(n) + 1, Len(test_chain))

-----------------------------------------------------------------------------
(* buildchain.c on the kernel's raw chain.  All priorities are 0, so a new *)
(* notifier goes to the end; an unregistered one keeps its next pointer.   *)

(* Altered: a notifier is registered at the head. *)
register_test_notifier_Head(n) ==
  /\ test_chain' = <<n>> \o test_chain
  /\ UNCHANGED after

register_test_notifier(n) ==
  /\ test_chain' = Append(test_chain, n)
  /\ UNCHANGED after

(* Altered: the next pointer of an unregistered notifier is cleared. *)
unregister_test_notifier_Clear(n) ==
  /\ after' = [after EXCEPT ![n] = NoBlock]
  /\ test_chain' = Unlinked(n)

unregister_test_notifier(n) ==
  /\ after' = [after EXCEPT ![n] = NextOf(n)]
  /\ test_chain' = Unlinked(n)

-----------------------------------------------------------------------------
(* regchain.c.  raw_notifier_chain_register always returns 0.              *)

reg_notifier ==
  /\ reg = "out"
  /\ register_test_notifier(nth)
  /\ IF nth = N THEN reg' = "in" /\ nth' = 1 ELSE UNCHANGED reg /\ nth' = nth + 1
  /\ UNCHANGED <<walkVars, stable>>

(* After the last one the module's memory goes, and with it a notifier     *)
(* that a call still has in hand.                                          *)
unregister_notifier ==
  /\ reg \in {"in", "leaving"}
  /\ unregister_test_notifier(nth)
  /\ stable' = stable \ {nth}
  /\ IF nth = N
     THEN /\ reg' = "out" /\ nth' = 1
          /\ npc' = IF npc \in {"load", "call"} /\ nb # NoBlock THEN "oops" ELSE npc
     ELSE reg' = "leaving" /\ nth' = nth + 1 /\ UNCHANGED npc
  /\ UNCHANGED <<event, nb, next_nb, called>>

-----------------------------------------------------------------------------
(* notify.c, and notifier_call_chain as it is called there.                *)

SendEvent(e) ==
  /\ event' = e
  /\ npc' = "load" /\ nb' = First /\ next_nb' = NoBlock
  /\ called' = <<>> /\ stable' = {test_chain[i] : i \in DOMAIN test_chain}

(* nb's next pointer is read before nb is called. *)
Load ==
  /\ npc = "load" /\ nb # NoBlock
  /\ next_nb' = NextOf(nb)
  /\ npc' = "call"
  /\ UNCHANGED <<chainVars, event, nb, called, stable>>

(* The test_event functions print and return 0, so the walk goes on.       *)
Notify ==
  /\ npc = "call"
  /\ called' = Append(called, nb)
  /\ nb' = next_nb /\ npc' = "load"
  /\ UNCHANGED <<chainVars, event, next_nb, stable>>

(* insmod notify: event 1, then event 2, then it stays until rmmod.        *)
call_notifier ==
  /\ \/ npc = "out" /\ SendEvent(1)
     \/ npc = "load" /\ nb = NoBlock /\ event = 1 /\ SendEvent(2)
     \/ /\ npc = "load" /\ nb = NoBlock /\ event = 2
        /\ event' = 0 /\ npc' = "in" /\ called' = <<>> /\ stable' = {}
        /\ UNCHANGED <<nb, next_nb>>
  /\ UNCHANGED chainVars

uncall_notifier ==
  /\ npc = "in" /\ npc' = "out"
  /\ UNCHANGED <<chainVars, event, nb, next_nb, called, stable>>

NotifierNext == \/ reg_notifier \/ unregister_notifier
        \/ call_notifier \/ Load \/ Notify \/ uncall_notifier

NotifierSpec == NotifierInit /\ [][NotifierNext]_notifierVars

-----------------------------------------------------------------------------
(* No notifier gets an event twice or out of turn, whatever is registered  *)
(* and unregistered during the walk (short of unloading regchain).         *)
OncePerEvent == \A i, j \in DOMAIN called : i < j => called[i] < called[j]

(* A notifier that stays registered for the whole walk gets the event: the *)
(* walk goes on from a notifier that is unregistered under it, because the *)
(* next pointer of an unregistered notifier is kept.                       *)
StableHear ==
  npc = "load" /\ nb = NoBlock => stable \subseteq {called[i] : i \in DOMAIN called}

(* regchain.c:81: "unregister finished": no call into regchain goes on     *)
(* after unregister_notifier has returned.                                 *)
FinishedIsFinished == npc # "oops"
=============================================================================
