------------------------------ MODULE MyThread ------------------------------
(***************************************************************************)
(* src/kthread/mythread.c: one thread, made by insmod and stopped by       *)
(* rmmod.  kthread_run returns the task or an error value, never NULL, and *)
(* both minit_thread and mexit_thread test for NULL.                       *)
(***************************************************************************)

VARIABLES
  mt,       \* the module: "init", "live", "stop" (in kthread_stop), "gone", "oops"
  thread,   \* "none", "task" or "error", the value of thread
  run,      \* the thread: "none", "test", "print", "sleep" or "exited"
  stop,     \* what kthread_should_stop returns
  said      \* what minit_thread printed: "nothing", "success" or "failed"

myThreadVars == <<mt, thread, run, stop, said>>

MyThreadInit == mt = "init" /\ thread = "none" /\ run = "none" /\ stop = FALSE /\ said = "nothing"

(* if (thread) is true of an error value too. *)
minit_thread ==
  /\ mt = "init" /\ mt' = "live"
  /\ \/ thread' = "task" /\ run' = "test"
     \/ thread' = "error" /\ UNCHANGED run
  /\ said' = "success"
  /\ UNCHANGED stop

(* Altered: the thread is tested for its stop flag only once. *)
thread_func_Once ==
  /\ \/ run = "test" /\ run' = IF stop THEN "exited" ELSE "print"
     \/ run = "print" /\ run' = "sleep"
     \/ run = "sleep" /\ run' = "print"
  /\ UNCHANGED <<mt, thread, stop, said>>

(* ssleep cannot be interrupted, so SIGKILL, though allowed, and the       *)
(* wake-up of kthread_stop only take effect at the next test.              *)
thread_func ==
  /\ \/ run = "test" /\ run' = IF stop THEN "exited" ELSE "print"
     \/ run = "print" /\ run' = "sleep"
     \/ run = "sleep" /\ run' = "test"
  /\ UNCHANGED <<mt, thread, stop, said>>

mexit_thread ==
  /\ \/ mt = "live" /\ thread = "task" /\ mt' = "stop" /\ stop' = TRUE
     \/ mt = "live" /\ thread = "error" /\ mt' = "oops" /\ UNCHANGED stop
     \/ mt = "stop" /\ run = "exited" /\ mt' = "gone" /\ UNCHANGED stop
  /\ UNCHANGED <<thread, run, said>>

MyThreadNext == minit_thread \/ thread_func \/ mexit_thread

(* The thread is scheduled, and an rmmod that has begun goes on. *)
MyThreadSpec ==
  /\ MyThreadInit /\ [][MyThreadNext]_myThreadVars
  /\ WF_myThreadVars(thread_func) /\ WF_myThreadVars(mt # "live" /\ mexit_thread)

-----------------------------------------------------------------------------
(* rmmod returns: the thread finds out within one sleep that it is to end. *)
MyThreadExitReturns == mt = "stop" ~> mt = "gone"

(* The thread has left the module's code when the module is gone. *)
MyThreadGone == mt = "gone" => run = "exited"

(* mythread.c:30, "thread created successfully": if that is printed there  *)
(* is a thread.  Refuted by a failing kthread_run.                         *)
SuccessIsThread == said = "success" => thread = "task"
=============================================================================
