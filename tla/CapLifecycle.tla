---------------------------- MODULE CapLifecycle ----------------------------
(***************************************************************************)
(* Loading and unloading of src/netlink/netlink.c around the processes of  *)
(* Capture.  app_init publishes the socket before the table is cleared and *)
(* registers the hook before the queue is initialised, so commands and     *)
(* hooks run between its steps; app_exit releases the socket, then waits   *)
(* for the hooks to drain.                                                 *)
(***************************************************************************)
EXTENDS Capture

VARIABLES
  mod,     \* the step app_init or app_exit is at, "live" between them
  zeroed   \* slots usertab_init has cleared

lifeVars == <<mod, zeroed>>
allVars == <<vars, lifeVars>>

SockUp == mod \in {"usertab", "hook", "queue", "port", "live"}
HookUp == mod \in {"queue", "port", "live", "released"}
Loaded == mod # "gone"

(* The static data of a module that has just been loaded. *)
LifeInit == Init /\ mod = "create" /\ zeroed = 0

-----------------------------------------------------------------------------
(* app_init. *)

netlink_kernel_create ==
  /\ mod = "create"
  /\ mod' \in {"usertab", "gone"}
  /\ UNCHANGED <<vars, zeroed>>

(* One slot at a time, without usrtab_lock; usrcnt is left alone. *)
usertab_init ==
  /\ mod = "usertab"
  /\ usrtab' = [usrtab EXCEPT ![zeroed] = Kernel]
  /\ zeroed' = zeroed + 1
  /\ mod' = IF zeroed + 1 = MAX_TAB_SIZE THEN "hook" ELSE mod
  /\ UNCHANGED <<portVars, usrcnt, recvVars, listVars, hookVars,
                 cap_skb_queue, kcapVars, userVars, skbVars>>

cap_hook_init == mod = "hook" /\ mod' = "queue" /\ UNCHANGED <<vars, zeroed>>

skb_queue_head_init ==
  /\ mod = "queue" /\ mod' = "port"
  /\ cap_skb_queue' = <<>>
  /\ UNCHANGED <<portVars, tabVars, recvVars, listVars, hookVars, kcapVars,
                 userVars, skbVars, zeroed>>

(* Altered: the port is left as it is. *)
ClearPort_Missing == mod = "port" /\ mod' = "live" /\ UNCHANGED <<vars, zeroed>>

ClearPort ==
  /\ mod = "port" /\ mod' = "live"
  /\ cap_nlk_portid' = Kernel
  /\ UNCHANGED <<tabVars, recvVars, listVars, hookVars, cap_skb_queue,
                 kcapVars, userVars, skbVars, zeroed>>

app_init == \/ netlink_kernel_create \/ usertab_init \/ cap_hook_init
            \/ skb_queue_head_init \/ ClearPort

(* app_exit: nothing stops kcapd or waits for it. *)
app_exit ==
  \/ mod = "live" /\ mod' = "released" /\ UNCHANGED <<vars, zeroed>>
  \/ /\ mod = "released" /\ \A h \in Cpus : hpc[h] = "idle"
     /\ mod' = "gone"
     /\ UNCHANGED <<vars, zeroed>>

-----------------------------------------------------------------------------
(* The processes while the module is in one of these states.               *)

(* The queue's list pointers are NULL until skb_queue_head_init. *)
QueueUnready(h) ==
  /\ mod = "queue" /\ hpc[h] = "queue"
  /\ hpc' = [hpc EXCEPT ![h] = "oops"]
  /\ UNCHANGED <<portVars, tabVars, recvVars, listVars, hcb, hskb,
                 cap_skb_queue, kcapVars, userVars, skbVars>>

Hook(h) ==
  \/ HookUp /\ HookEnter(h)
  \/ HookAlloc(h) \/ HookBuild(h) \/ HookWake(h) \/ HookFree(h)
  \/ mod # "queue" /\ HookQueue(h)
  \/ QueueUnready(h)

(* sendmsg finds no kernel socket and fails; user_client goes on.  A       *)
(* command that has already found the socket runs to its end.              *)
SendRefused(c) ==
  /\ ~SockUp
  /\ \/ /\ upc[c] = "start"
        /\ \E t \in Times : time' = [time EXCEPT ![c] = t]
        /\ upc' = [upc EXCEPT ![c] = "recv"]
        /\ UNCHANGED <<rcvq, refs>>
     \/ /\ upc[c] = "recv" /\ rcvq[c] # <<>> /\ time[c] = 1
        /\ recv_from_kernel(c)
        /\ time' = [time EXCEPT ![c] = 0]
        /\ upc' = [upc EXCEPT ![c] = "exit"]
  /\ UNCHANGED <<rpc, rop>>
  /\ UserUnchanged

Sends(c) == upc[c] = "start" \/ (upc[c] = "recv" /\ time[c] = 1)
Client(c) == \/ SockUp /\ user_client(c)
             \/ ~SockUp /\ ~Sends(c) /\ ClientRecv(c)
             \/ ~SockUp /\ (ClientExit(c) \/ ClientKilled(c))
             \/ SendRefused(c)

(* kcapd must not unicast through a released socket; the model follows it  *)
(* only as far as that.                                                    *)
Kcapd_thread == Loaded /\ (kpc = "unicast" => SockUp) /\ kcapd_thread

LifeNext ==
  \/ app_init \/ app_exit
  \/ /\ \/ Loaded /\ \E r \in Receivers : cap_receive(r)
        \/ \E h \in Cpus : Hook(h)
        \/ Kcapd_thread
        \/ \E c \in Clients : Client(c)
     /\ UNCHANGED lifeVars

LifeSpec == LifeInit /\ [][LifeNext]_allVars

-----------------------------------------------------------------------------
(* Commands that race usertab_init leave usrcnt too high, never too low:   *)
(* user_join always finds room for what it counts and the table is never   *)
(* overrun.                                                                *)
UsersCounted ==
  /\ Cardinality({i \in Slots : usrtab[i] # Kernel}) <= usrcnt
  /\ usrcnt <= MAX_TAB_SIZE

(* Whatever commands ran during app_init, the port that is captured for    *)
(* once it has returned is registered (or was refused a slot, or is being  *)
(* entered): line 583 forgets those that usertab_init erased.              *)
LivePortRegistered == mod = "live" => PortRegistered

(* netlink.c:439: "while (!kthread_should_stop())": kcapd is written to be *)
(* stopped, so no kcapd outlives the module's code.                        *)
UnloadStopsKcapd == mod = "gone" => kpc = "none"
=============================================================================
