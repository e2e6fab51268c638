------------------------------- MODULE Timers -------------------------------
(***************************************************************************)
(* The three modules that defer work to a callback and cancel it when they *)
(* are unloaded:                                                           *)
(*   my_timer    src/timer/stdtimer.c            re-arms itself; del_timer *)
(*   hr_timer    src/timer/hrtimer.c             one shot; hrtimer_cancel  *)
(*   my_tasklet  src/tasklet_workqueue/tasklet.c one shot; tasklet_kill    *)
(* They differ in what the cancelling call waits for.  Each is a module of *)
(* its own; a callback runs on some cpu beside insmod and rmmod.           *)
(***************************************************************************)
EXTENDS Integers

CONSTANT NumBits   \* width of the counter num of stdtimer.c

Items == {"my_timer", "hr_timer", "my_tasklet"}
Width == 2 ^ NumBits

VARIABLES
  mod,       \* each module: "init", "live", "exiting", "gone"
  pending,   \* its callback is armed, started or scheduled
  cb,        \* its callback: "idle", "entered", "armed"
  ran,       \* its callback has run to its end
  num, copy, \* stdtimer.c: the static num and the callback's local num
  calls,     \* calls of my_timer_callback that have ended
  ret        \* del_timer's result in timer_exit_module

numVars == <<num, copy, calls>>
timerVars == <<mod, pending, cb, ran, numVars, ret>>

TimersInit ==
  /\ mod = [i \in Items |-> "init"]
  /\ pending = [i \in Items |-> FALSE]
  /\ cb = [i \in Items |-> "idle"]
  /\ ran = [i \in Items |-> FALSE]
  /\ num = 0 /\ copy = 0 /\ calls = 0 /\ ret = FALSE

Arm(i) ==
  /\ mod[i] = "init"
  /\ mod' = [mod EXCEPT ![i] = "live"]
  /\ pending' = [pending EXCEPT ![i] = TRUE]
  /\ UNCHANGED <<cb, ran, numVars, ret>>

timer_init_module == Arm("my_timer")
hrtimer_init_module == Arm("hr_timer")
tasklet_init_module == Arm("my_tasklet")

(* The callback starts: it is no longer pending, and it does not run on    *)
(* two cpus at once.                                                       *)
Fire(i) ==
  /\ pending[i] /\ cb[i] = "idle"
  /\ pending' = [pending EXCEPT ![i] = FALSE]
  /\ cb' = [cb EXCEPT ![i] = "entered"]
  /\ copy' = IF i = "my_timer" THEN num ELSE copy
  /\ UNCHANGED <<mod, ran, num, calls, ret>>

(* The one-shot callbacks only print. *)
Run(i) ==
  /\ cb[i] = "entered"
  /\ cb' = [cb EXCEPT ![i] = "idle"]
  /\ ran' = [ran EXCEPT ![i] = TRUE]
  /\ UNCHANGED <<mod, pending, numVars, ret>>

my_hrtimer_callback == Run("hr_timer")
my_tasklet_func == Run("my_tasklet")

(* Altered: num is not stored back. *)
my_timer_callback_NoStore ==
  /\ cb["my_timer"] = "entered"
  /\ pending' = [pending EXCEPT !["my_timer"] = TRUE]
  /\ cb' = [cb EXCEPT !["my_timer"] = "idle"]
  /\ calls' = (calls + 1) % Width
  /\ UNCHANGED <<mod, ran, num, copy, ret>>

(* mod_timer first, then the incremented copy is stored.                   *)
my_timer_callback ==
  \/ /\ cb["my_timer"] = "entered"
     /\ pending' = [pending EXCEPT !["my_timer"] = TRUE]
     /\ cb' = [cb EXCEPT !["my_timer"] = "armed"]
     /\ UNCHANGED <<mod, ran, num, copy, calls, ret>>
  \/ /\ cb["my_timer"] = "armed"
     /\ num' = (copy + 1) % Width
     /\ calls' = (calls + 1) % Width
     /\ cb' = [cb EXCEPT !["my_timer"] = "idle"]
     /\ ran' = [ran EXCEPT !["my_timer"] = TRUE]
     /\ UNCHANGED <<mod, pending, copy, ret>>

-----------------------------------------------------------------------------
rmmod(i) == /\ mod[i] = "live"
            /\ mod' = [mod EXCEPT ![i] = "exiting"]
            /\ UNCHANGED <<pending, cb, ran, numVars, ret>>

Gone(i) == mod[i] = "exiting" /\ mod' = [mod EXCEPT ![i] = "gone"]

(* del_timer takes the timer off its list and does not wait for a callback *)
(* that is running.                                                        *)
timer_exit_module ==
  /\ Gone("my_timer")
  /\ ret' = pending["my_timer"]
  /\ pending' = [pending EXCEPT !["my_timer"] = FALSE]
  /\ UNCHANGED <<cb, ran, numVars>>

(* Altered: a running callback is not waited for. *)
hrtimer_exit_module_NoWait ==
  /\ Gone("hr_timer")
  /\ pending' = [pending EXCEPT !["hr_timer"] = FALSE]
  /\ UNCHANGED <<cb, ran, numVars, ret>>

(* hrtimer_cancel tries until the callback is not running. *)
hrtimer_exit_module ==
  /\ Gone("hr_timer") /\ cb["hr_timer"] = "idle"
  /\ pending' = [pending EXCEPT !["hr_timer"] = FALSE]
  /\ UNCHANGED <<cb, ran, numVars, ret>>

(* Altered: the scheduled tasklet is dropped instead of waited for. *)
tasklet_cleanup_module_Drop ==
  /\ Gone("my_tasklet") /\ cb["my_tasklet"] = "idle"
  /\ pending' = [pending EXCEPT !["my_tasklet"] = FALSE]
  /\ UNCHANGED <<cb, ran, numVars, ret>>

(* tasklet_kill waits until the tasklet is neither scheduled nor running.  *)
tasklet_cleanup_module ==
  /\ Gone("my_tasklet") /\ ~pending["my_tasklet"] /\ cb["my_tasklet"] = "idle"
  /\ UNCHANGED <<pending, cb, ran, numVars, ret>>

Exit == timer_exit_module \/ hrtimer_exit_module \/ tasklet_cleanup_module

TimersNext ==
  \/ timer_init_module \/ hrtimer_init_module \/ tasklet_init_module
  \/ \E i \in Items : Fire(i) \/ rmmod(i)
  \/ my_timer_callback \/ my_hrtimer_callback \/ my_tasklet_func
  \/ Exit

(* Armed callbacks run, and an rmmod that can return does.                 *)
TimersSpec ==
  /\ TimersInit /\ [][TimersNext]_timerVars
  /\ \A i \in Items : WF_timerVars(Fire(i))
  /\ WF_timerVars(my_timer_callback) /\ WF_timerVars(my_hrtimer_callback)
  /\ WF_timerVars(my_tasklet_func)
  /\ WF_timerVars(timer_exit_module) /\ WF_timerVars(hrtimer_exit_module)
  /\ WF_timerVars(tasklet_cleanup_module)

-----------------------------------------------------------------------------
(* hrtimer.c and tasklet.c ("stop the tasklet before we exit", line 28):   *)
(* once the module is gone its callback neither runs nor will run.         *)
CancelledIsQuiet ==
  \A i \in {"hr_timer", "my_tasklet"} :
    mod[i] = "gone" => ~pending[i] /\ cb[i] = "idle"

(* tasklet_kill does not cancel: the tasklet scheduled by insmod has run   *)
(* by the time rmmod returns, however soon it comes.                       *)
TaskletRan == mod["my_tasklet"] = "gone" => ran["my_tasklet"]

(* Between two calls num is the number of calls made: the copy that the    *)
(* callback works on is never stale, although the timer is armed again     *)
(* before the copy is stored.                                              *)
NumCounts == cb["my_timer"] = "idle" => num = calls

(* rmmod returns, whatever the callback is doing when it begins. *)
TimersExitReturns == \A i \in Items : mod[i] = "exiting" ~> mod[i] = "gone"

(* stdtimer.c:46: "if (ret) printk("The timer is still in use...")": when  *)
(* that is not printed, the timer is no longer in use.                     *)
SilentIsUnused == mod["my_timer"] = "gone" /\ ~ret => ~pending["my_timer"]
=============================================================================
