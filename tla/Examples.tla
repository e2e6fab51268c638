------------------------------ MODULE Examples ------------------------------
(***************************************************************************)
(* The modules with threads, deferred work, system calls or packets under  *)
(* way (threads, workqueue, timer, proc, skb, nic).  They share no state,  *)
(* so what any one of them does in a system with all of them it also does  *)
(* alone: sample chooses the one that runs, the others stay in their       *)
(* initial states.                                                         *)
(***************************************************************************)
EXTENDS KthreadSema, WorkQueue, Timers, ProcFoobar, Senders, MyThread

VARIABLE sample

vars == <<sample, semaVars, workVars, timerVars, procVars, senderVars, myThreadVars>>

Init ==
  /\ sample \in {"sema", "work", "timers", "proc", "senders", "mythread"}
  /\ SemaInit /\ WorkInit /\ TimersInit /\ ProcInit /\ SendersInit /\ MyThreadInit
  /\ sample # "senders" => asks.hard = CHOOSE h \in HardLens : TRUE

(* A step A of sample s: the others do not move. *)
Step(s, A) ==
  /\ sample = s /\ A /\ UNCHANGED sample
  /\ IF s = "sema" THEN TRUE ELSE UNCHANGED semaVars
  /\ IF s = "work" THEN TRUE ELSE UNCHANGED workVars
  /\ IF s = "timers" THEN TRUE ELSE UNCHANGED timerVars
  /\ IF s = "proc" THEN TRUE ELSE UNCHANGED procVars
  /\ IF s = "senders" THEN TRUE ELSE UNCHANGED senderVars
  /\ IF s = "mythread" THEN TRUE ELSE UNCHANGED myThreadVars

Next ==
  \/ Step("sema", SemaNext) \/ Step("work", WorkNext) \/ Step("timers", TimersNext)
  \/ Step("proc", ProcNext) \/ Step("senders", SendersNext) \/ Step("mythread", MyThreadNext)

(* The fairness of each module, for the one that runs. *)
Fairness ==
  /\ WF_semaVars(Step("sema", thread_read_func)) /\ WF_semaVars(Step("sema", thread_write_func))
  /\ WF_semaVars(Step("sema", kmod # "live" /\ (down_read_init \/ down_read_exit)))
  /\ WF_workVars(Step("work", \E w \in Workers : worker(w)))
  /\ WF_workVars(Step("work", wq_init)) /\ WF_workVars(Step("work", wq = "flush" /\ wq_exit))
  /\ \A i \in Items : WF_timerVars(Step("timers", Fire(i)))
  /\ WF_timerVars(Step("timers", my_timer_callback))
  /\ WF_timerVars(Step("timers", my_hrtimer_callback))
  /\ WF_timerVars(Step("timers", my_tasklet_func))
  /\ WF_timerVars(Step("timers", timer_exit_module))
  /\ WF_timerVars(Step("timers", hrtimer_exit_module))
  /\ WF_timerVars(Step("timers", tasklet_cleanup_module))
  /\ WF_procVars(Step("proc", Module))
  /\ \A r \in Readers : WF_procVars(Step("proc", sprintf(r)))
  /\ \A w \in Writers : WF_procVars(Step("proc", copy_from_user(w) \/ Terminate(w)))
  /\ \A p \in {"tcp", "udp"} : WF_senderVars(Step("senders", create_new_skb(p)))
  /\ WF_senderVars(Step("senders", garp_init))
  /\ WF_senderVars(Step("senders", eth0 # "up" /\ unregister_netdevice))
  /\ WF_myThreadVars(Step("mythread", thread_func))
  /\ WF_myThreadVars(Step("mythread", mt # "live" /\ mexit_thread))

Spec == Init /\ [][Next]_vars /\ Fairness

-----------------------------------------------------------------------------
(* Nothing of kthread_sema.c, my_wq, hrtimer.c, tasklet.c or mythread.c    *)
(* runs or will run once its module is gone, and no packet sender uses     *)
(* eth0 once that is gone, whatever they were doing when rmmod came.       *)
GoneIsQuiet == SemaGone /\ WorkGone /\ CancelledIsQuiet /\ MyThreadGone /\ UsedIsThere

(* rmmod returns, whatever the threads, workers, callbacks and calls are   *)
(* doing when it begins; so does an insmod of foobar.c that has failed.    *)
ExitReturns ==
  /\ SemaExitReturns /\ FlushReturns /\ TimersExitReturns
  /\ ProcExitReturns /\ MyThreadExitReturns
=============================================================================
