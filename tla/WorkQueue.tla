----------------------------- MODULE WorkQueue -----------------------------
(***************************************************************************)
(* src/tasklet_workqueue/myworkqueue.c: wq_init allocates two work items,  *)
(* queues each on my_wq and puts work3 on the system's queue; the handler  *)
(* of the first two frees its item.  wq_exit flushes and destroys my_wq.   *)
(*                                                                         *)
(* Workers of my_wq run while wq_init is still going: create_workqueue has *)
(* one worker per cpu, and wq_init may move between cpus.                  *)
(***************************************************************************)
EXTENDS Integers, FiniteSets

CONSTANT
  Workers   \* worker threads, of my_wq and of the system's queue

Works == {"work", "work2"}      \* allocated; each handled by my_wq_func
AllWorks == Works \cup {"work3"}

VARIABLES
  wq,       \* where wq_init or wq_exit is
  mem,      \* memory behind work and work2: "null", "live" or "freed"
  state,    \* each item: "new", "queued", "running", "finished"
  runs,     \* the item a worker runs, or "idle"
  frees     \* kfree calls made on each allocated item

workVars == <<wq, mem, state, runs, frees>>

WorkInit ==
  /\ wq = "create"
  /\ mem = [i \in Works |-> "null"]
  /\ state = [i \in AllWorks |-> "new"]
  /\ runs = [w \in Workers |-> "idle"]
  /\ frees = [i \in Works |-> 0]

-----------------------------------------------------------------------------
(* wq_init. *)

create_workqueue ==
  /\ wq = "create"
  /\ wq' \in {"alloc", "failed"}
  /\ UNCHANGED <<mem, state, runs, frees>>

(* kmalloc of i, then on to the code that fills it, or past it.            *)
kmalloc(i, before, filled, skipped) ==
  /\ wq = before
  /\ \/ mem' = [mem EXCEPT ![i] = "live"] /\ wq' = filled
     \/ wq' = skipped /\ UNCHANGED mem
  /\ UNCHANGED <<state, runs, frees>>

(* work->x = 1 and work->x = 2, both through work: a fault if kmalloc      *)
(* failed.  A write into freed memory goes unnoticed here; that it happens *)
(* is what WorkLiveWhenSet is about.                                       *)
SetX(before, next) ==
  /\ wq = before
  /\ wq' = IF mem["work"] = "null" THEN "oops" ELSE next
  /\ UNCHANGED <<mem, state, runs, frees>>

queue_work(i, before, next) ==
  /\ wq = before
  /\ state' = [state EXCEPT ![i] = "queued"]
  /\ wq' = next
  /\ UNCHANGED <<mem, runs, frees>>

wq_init ==
  \/ create_workqueue
  \/ kmalloc("work", "alloc", "set", "alloc2")
  \/ SetX("set", "queue")
  \/ queue_work("work", "queue", "alloc2")
  \/ kmalloc("work2", "alloc2", "set2", "schedule")
  \/ SetX("set2", "queue2")
  \/ queue_work("work2", "queue2", "schedule")
  \/ queue_work("work3", "schedule", "live")

-----------------------------------------------------------------------------
(* Workers. *)

Take(w) ==
  /\ runs[w] = "idle"
  /\ \E i \in AllWorks :
       /\ state[i] = "queued"
       /\ runs' = [runs EXCEPT ![w] = i]
       /\ state' = [state EXCEPT ![i] = "running"]
  /\ UNCHANGED <<wq, mem, frees>>

(* Altered: the handler does not free its item. *)
my_wq_func_NoFree(w) ==
  /\ runs[w] \in Works
  /\ state' = [state EXCEPT ![runs[w]] = "finished"]
  /\ runs' = [runs EXCEPT ![w] = "idle"]
  /\ UNCHANGED <<wq, mem, frees>>

(* Prints x, and frees the item. *)
my_wq_func(w) ==
  /\ runs[w] \in Works
  /\ mem' = [mem EXCEPT ![runs[w]] = "freed"]
  /\ frees' = [frees EXCEPT ![runs[w]] = @ + 1]
  /\ state' = [state EXCEPT ![runs[w]] = "finished"]
  /\ runs' = [runs EXCEPT ![w] = "idle"]
  /\ UNCHANGED wq

sys_work_handler(w) ==
  /\ runs[w] = "work3"
  /\ state' = [state EXCEPT !["work3"] = "finished"]
  /\ runs' = [runs EXCEPT ![w] = "idle"]
  /\ UNCHANGED <<wq, mem, frees>>

worker(w) == Take(w) \/ my_wq_func(w) \/ sys_work_handler(w)

-----------------------------------------------------------------------------
(* flush_workqueue waits for what is on my_wq; work3 is on another queue.  *)
wq_exit ==
  \/ wq = "live" /\ wq' = "flush" /\ UNCHANGED <<mem, state, runs, frees>>
  \/ /\ wq = "flush"
     /\ \A i \in Works : state[i] \in {"new", "finished"}
     /\ wq' = "gone"
     /\ UNCHANGED <<mem, state, runs, frees>>

WorkNext == wq_init \/ wq_exit \/ \E w \in Workers : worker(w)

(* Workers and a running insmod or rmmod are scheduled. *)
WorkSpec ==
  /\ WorkInit /\ [][WorkNext]_workVars
  /\ WF_workVars(\E w \in Workers : worker(w))
  /\ WF_workVars(wq_init) /\ WF_workVars(wq = "flush" /\ wq_exit)

-----------------------------------------------------------------------------
(* wq_exit leaves nothing of my_wq behind: every item that was allocated   *)
(* was handled and freed once, also if kmalloc failed for the other.       *)
FreedOnce ==
  wq = "gone" => \A i \in Works : frees[i] = IF mem[i] = "null" THEN 0 ELSE 1

(* No handler of my_wq runs after wq_exit. *)
WorkGone == wq = "gone" => \A w \in Workers : runs[w] \notin Works

(* rmmod returns once it has begun: the flush ends. *)
FlushReturns == wq = "flush" ~> wq = "gone"

(* Line 55 tests work before it is used: "if (work)".  wq_init writes      *)
(* through work only while it is live memory (line 65).                    *)
WorkLiveWhenSet == wq \in {"set", "set2"} => mem["work"] = "live"
=============================================================================
