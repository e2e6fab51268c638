---------------------------- MODULE KthreadSema ----------------------------
(***************************************************************************)
(* src/kthread/kthread_sema.c: a reader thread and a writer thread share   *)
(* number under the read-write semaphore rwsem; down_read_exit stops them. *)
(*                                                                         *)
(* The reader sleeps with the semaphore held and takes it again at once,   *)
(* so the writer gets in only because waiters are served first come, first *)
(* served.  With one reader and one writer the semaphore is its holder and *)
(* at most one waiter.                                                     *)
(***************************************************************************)
EXTENDS Integers

CONSTANT
  NumberBits   \* width of number, an unsigned long

Threads == {"reader", "writer"}

VARIABLES
  holder, waiter,  \* rwsem; "nobody" if none
  number, seen,    \* the shared counter; what the reader printed of it
  kpc, kstop,      \* each thread's location, and its kthread_should_stop
  kmod             \* where down_read_init or down_read_exit is

semVars == <<holder, waiter>>
semaVars == <<semVars, number, seen, kpc, kstop, kmod>>

SemaInit ==
  /\ holder = "nobody" /\ waiter = "nobody"
  /\ number = 0 /\ seen = 0
  /\ kpc = [t \in Threads |-> "none"]
  /\ kstop = [t \in Threads |-> FALSE]
  /\ kmod = "reader"

-----------------------------------------------------------------------------
(* rwsem.  A thread that cannot have it waits and is handed it.            *)

down(t) ==
  IF holder = "nobody"
  THEN /\ holder' = t /\ UNCHANGED waiter
       /\ kpc' = [kpc EXCEPT ![t] = "held"]
  ELSE /\ waiter' = t /\ UNCHANGED holder
       /\ kpc' = [kpc EXCEPT ![t] = "waiting"]

up(t, next) ==
  /\ holder' = waiter /\ waiter' = "nobody"
  /\ kpc' = [u \in Threads |-> CASE u = t -> next
                                 [] u = waiter -> "held"
                                 [] OTHER -> kpc[u]]

(* Altered: while (1). *)
Loop_NoTest(t) ==
  /\ kpc[t] = "loop"
  /\ kpc' = [kpc EXCEPT ![t] = "down"]
  /\ UNCHANGED <<semVars, number, seen, kstop, kmod>>

(* while (!kthread_should_stop()) *)
Loop(t) ==
  /\ kpc[t] = "loop"
  /\ kpc' = [kpc EXCEPT ![t] = IF kstop[t] THEN "exited" ELSE "down"]
  /\ UNCHANGED <<semVars, number, seen, kstop, kmod>>

(* Altered: the reader prints without the semaphore. *)
Down_NoLock(t) ==
  /\ kpc[t] = "down"
  /\ IF t = "reader" THEN kpc' = [kpc EXCEPT ![t] = "held"] /\ UNCHANGED semVars
                     ELSE down(t)
  /\ UNCHANGED <<number, seen, kstop, kmod>>

Down(t) ==
  /\ kpc[t] = "down"
  /\ down(t)
  /\ UNCHANGED <<number, seen, kstop, kmod>>

Read ==
  /\ kpc["reader"] = "held"
  /\ seen' = number
  /\ kpc' = [kpc EXCEPT !["reader"] = "up"]
  /\ UNCHANGED <<semVars, number, kstop, kmod>>

Write ==
  /\ kpc["writer"] = "held"
  /\ number' = (number + 1) % 2 ^ NumberBits
  /\ kpc' = [kpc EXCEPT !["writer"] = "up"]
  /\ UNCHANGED <<semVars, seen, kstop, kmod>>

(* Altered: no up_read. *)
Up_Missing(t) ==
  /\ kpc[t] = "up"
  /\ IF t = "reader" THEN kpc' = [kpc EXCEPT ![t] = "loop"] /\ UNCHANGED semVars
                     ELSE up(t, "loop")
  /\ UNCHANGED <<number, seen, kstop, kmod>>

Up(t) ==
  /\ kpc[t] = "up"
  /\ up(t, "loop")
  /\ UNCHANGED <<number, seen, kstop, kmod>>

thread_read_func == Loop("reader") \/ Down("reader") \/ Read \/ Up("reader")
thread_write_func == Loop("writer") \/ Down("writer") \/ Write \/ Up("writer")

-----------------------------------------------------------------------------
(* The module.  kthread_run may fail, which is only reported.              *)

down_read_init ==
  /\ kmod \in Threads
  /\ \E l \in {"loop", "error"} : kpc' = [kpc EXCEPT ![kmod] = l]
  /\ kmod' = IF kmod = "reader" THEN "writer" ELSE "live"
  /\ UNCHANGED <<semVars, number, seen, kstop>>

(* kthread_stop(t) sets the flag, wakes t and waits for it to return; on   *)
(* the error value of a failed kthread_run it faults.                      *)
kthread_stop(t, before, next) ==
  \/ /\ kmod = before /\ kpc[t] # "error" /\ ~kstop[t]
     /\ kstop' = [kstop EXCEPT ![t] = TRUE]
     /\ UNCHANGED <<semVars, number, seen, kpc, kmod>>
  \/ /\ kmod = before /\ kstop[t] /\ kpc[t] = "exited"
     /\ kmod' = next
     /\ UNCHANGED <<semVars, number, seen, kpc, kstop>>
  \/ /\ kmod = before /\ kpc[t] = "error"
     /\ kmod' = "oops"
     /\ UNCHANGED <<semVars, number, seen, kpc, kstop>>

down_read_exit ==
  \/ kmod = "live" /\ kmod' = "stopping" /\ UNCHANGED <<semVars, number, seen, kpc, kstop>>
  \/ kthread_stop("writer", "stopping", "stopping2")
  \/ kthread_stop("reader", "stopping2", "gone")

SemaNext == thread_read_func \/ thread_write_func \/ down_read_init \/ down_read_exit

(* Threads that can run are scheduled, and rmmod, once begun, goes on;     *)
(* nobody has to begin it.                                                 *)
SemaSpec ==
  /\ SemaInit /\ [][SemaNext]_semaVars
  /\ WF_semaVars(thread_read_func) /\ WF_semaVars(thread_write_func)
  /\ WF_semaVars(kmod # "live" /\ (down_read_init \/ down_read_exit))

-----------------------------------------------------------------------------
(* While the reader has the semaphore, also while it sleeps with it, the   *)
(* number it printed is the current one.                                   *)
PrintedIsCurrent == kpc["reader"] = "up" => seen = number

(* The writer gets in although the reader takes the semaphore again as     *)
(* soon as it has released it.                                             *)
WriterGetsIn == kpc["writer"] = "waiting" ~> kpc["writer"] = "held"

(* When the module is gone, both threads have returned and nobody holds or *)
(* waits for the semaphore in the module's memory.                         *)
SemaGone ==
  kmod = "gone" => /\ \A t \in Threads : kpc[t] = "exited"
                   /\ holder = "nobody" /\ waiter = "nobody"

(* rmmod returns: stopping the writer first, while it waits for a reader   *)
(* that still runs, does not hang (both threads having been created).      *)
SemaExitReturns ==
  (kmod = "stopping" /\ \A t \in Threads : kpc[t] # "error") ~> kmod = "gone"
=============================================================================
