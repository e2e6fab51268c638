------------------------------ MODULE Capture ------------------------------
(***************************************************************************)
(* The packet-capture module src/netlink/netlink.c and its user program    *)
(* src/netlink/user_client.c, once app_init has returned.                  *)
(*                                                                         *)
(*   - Cpus run the netfilter hook hook_func_queue, which copies an        *)
(*     outgoing packet into a netlink skb and puts it on cap_skb_queue;    *)
(*   - kcapd, a kernel thread started by the first command, takes skbs off *)
(*     the queue and unicasts them to cap_nlk_portid;                      *)
(*   - Clients are user_client processes: CAP_ADD, some recvmsg, CAP_DEL,  *)
(*     exit; each may be killed while it waits in recvmsg.  Their commands *)
(*     run cap_receive in the kernel, under cap_cmd_mutex.                 *)
(*                                                                         *)
(* A step is the code between two accesses to shared state.  Port 0 is     *)
(* written Kernel: it is the value cap_nlk_portid has when nobody captures *)
(* and also the netlink address of the module's own socket                 *)
(* (user_client.c:97), so an skb unicast to it re-enters cap_receive.      *)
(***************************************************************************)
EXTENDS Integers, Sequences, FiniteSets, Functions

CONSTANTS
  Clients,       \* user_client processes, each standing for its non-zero pid
  Kernel,        \* portid 0
  Cpus,          \* invocations of hook_func_queue that may run concurrently
  Buffers,       \* memory that kmalloc hands out as struct cap_buffer
  Skbs,          \* netlink skbs, one per captured packet (bounds the packets)
  NULL,          \* no buffer, no skb
  ACK,           \* a netlink error reply in a client's receive queue
  Kcapd,         \* the kcapd thread as a caller of cap_receive
  NoOwner,       \* cap_cmd_mutex is free
  Times,         \* values of user_client's argument: packets to receive
  MAX_TAB_SIZE,  \* 32 in the source
  CAP_MAXFREE,   \* 1024 in the source
  RcvBuf         \* messages a client's socket holds before senders block

Receivers == Clients \cup {Kcapd}
Slots == 0 .. MAX_TAB_SIZE - 1
Ports == Clients \cup {Kernel}

ASSUME SizesAssumption ==
  /\ MAX_TAB_SIZE \in Nat \ {0}
  /\ CAP_MAXFREE \in Nat
  /\ RcvBuf \in Nat \ {0}
  /\ Times \subseteq Nat \ {0}

ASSUME NamesAssumption ==
  /\ Kernel \notin Clients
  /\ NULL \notin Buffers \cup Skbs
  /\ ACK \notin Skbs
  /\ Kcapd \notin Clients
  /\ NoOwner \notin Receivers

VARIABLES
  cap_nlk_portid,      \* port that captured packets are sent to
  usrtab, usrcnt,      \* registered pids and their number
  cap_cmd_mutex,       \* owner of the command mutex
  rpc, rop,            \* where a caller is in cap_receive, and its message type
  cap_freelist,        \* list of spare cap_buffers, head first
  cap_freelist_count,
  hpc, hcb, hskb,      \* hook_func_queue: location, cb, cb->skb
  cap_skb_queue,
  kpc, kskb, kport,    \* kcapd_thread: location, skb in hand, unicast's portid
  kstate,              \* kcapd's task state, as kcapd_wait sees it
  upc, time, rcvq,     \* user_client: location, packets to go, receive queue
  fresh, refs          \* skbs not allocated yet; reference count of the others

portVars == <<cap_nlk_portid>>
tabVars  == <<usrtab, usrcnt>>
recvVars == <<cap_cmd_mutex, rpc, rop>>
listVars == <<cap_freelist, cap_freelist_count>>
hookVars == <<hpc, hcb, hskb>>
kcapVars == <<kpc, kskb, kport, kstate>>
userVars == <<upc, time, rcvq>>
skbVars  == <<fresh, refs>>
vars == <<portVars, tabVars, recvVars, listVars, hookVars, cap_skb_queue,
          kcapVars, userVars, skbVars>>

-----------------------------------------------------------------------------
(* The state when app_init returns: table zeroed, queue empty, port 0, no   *)
(* thread; the clients have not started.                                    *)
Init ==
  /\ cap_nlk_portid = Kernel
  /\ usrtab = [i \in Slots |-> Kernel] /\ usrcnt = 0
  /\ cap_cmd_mutex = NoOwner
  /\ rpc = [r \in Receivers |-> "out"]
  /\ rop = [r \in Receivers |-> "CAP_GET_PACKET"]
  /\ cap_freelist = <<>> /\ cap_freelist_count = 0
  /\ hpc = [h \in Cpus |-> "idle"]
  /\ hcb = [h \in Cpus |-> NULL] /\ hskb = [h \in Cpus |-> NULL]
  /\ cap_skb_queue = <<>>
  /\ kpc = "none" /\ kskb = NULL /\ kport = Kernel /\ kstate = "running"
  /\ upc = [c \in Clients |-> "start"]
  /\ time = [c \in Clients |-> 0]
  /\ rcvq = [c \in Clients |-> <<>>]
  /\ fresh = Skbs /\ refs = [s \in Skbs |-> 0]

-----------------------------------------------------------------------------
(* The user table.  Both scan for the first slot that holds a given pid.   *)

FirstSlot(i, pid) ==
  /\ usrtab[i] = pid
  /\ \A j \in 0 .. i - 1 : usrtab[j] # pid

(* Altered: usrcnt is not incremented. *)
user_join_NoCount(pid) ==
  \/ /\ usrcnt < MAX_TAB_SIZE
     /\ \E i \in Slots : /\ FirstSlot(i, Kernel)
                         /\ usrtab' = [usrtab EXCEPT ![i] = pid]
     /\ UNCHANGED usrcnt
  \/ /\ usrcnt >= MAX_TAB_SIZE \/ \A i \in Slots : usrtab[i] # Kernel
     /\ UNCHANGED tabVars

user_join(pid) ==
  \/ /\ usrcnt < MAX_TAB_SIZE
     /\ \E i \in Slots : /\ FirstSlot(i, Kernel)
                         /\ usrtab' = [usrtab EXCEPT ![i] = pid]
     /\ usrcnt' = usrcnt + 1
  \/ /\ usrcnt >= MAX_TAB_SIZE \/ \A i \in Slots : usrtab[i] # Kernel
     /\ UNCHANGED tabVars

(* Altered: usrcnt is not decremented. *)
user_leave_NoCount(pid) ==
  \/ /\ usrcnt > 0
     /\ \E i \in Slots : /\ FirstSlot(i, pid)
                         /\ usrtab' = [usrtab EXCEPT ![i] = Kernel]
     /\ UNCHANGED usrcnt
  \/ /\ usrcnt <= 0 \/ \A i \in Slots : usrtab[i] # pid
     /\ UNCHANGED tabVars

(* Altered: the last user does not leave. *)
user_leave_NotLast(pid) ==
  \/ /\ usrcnt > 1
     /\ \E i \in Slots : /\ FirstSlot(i, pid)
                         /\ usrtab' = [usrtab EXCEPT ![i] = Kernel]
     /\ usrcnt' = usrcnt - 1
  \/ /\ usrcnt <= 1 \/ \A i \in Slots : usrtab[i] # pid
     /\ UNCHANGED tabVars

user_leave(pid) ==
  \/ /\ usrcnt > 0
     /\ \E i \in Slots : /\ FirstSlot(i, pid)
                         /\ usrtab' = [usrtab EXCEPT ![i] = Kernel]
     /\ usrcnt' = usrcnt - 1
  \/ /\ usrcnt <= 0 \/ \A i \in Slots : usrtab[i] # pid
     /\ UNCHANGED tabVars

-----------------------------------------------------------------------------
(* cap_receive, run by a client inside sendmsg, and by kcapd when it       *)
(* unicasts to port 0.  One message per skb: user_client sends no more.    *)

Goto(r, l) == rpc' = [rpc EXCEPT ![r] = l]

MutexLock(r) ==
  /\ rpc[r] = "lock" /\ cap_cmd_mutex = NoOwner
  /\ cap_cmd_mutex' = r
  /\ Goto(r, "check")
  /\ UNCHANGED <<portVars, tabVars, rop, listVars, hookVars, cap_skb_queue,
                 kcapVars, userVars, skbVars>>

(* Where cap_receive_msg goes once kcapd runs: all three types are valid.  *)
AfterCheck(r) == IF rop[r] = "CAP_GET_PACKET" THEN "unlock" ELSE "port"

(* Altered: a failed kthread_run does not end the message. *)
StartKcapd_NoReturn(r) ==
  /\ rpc[r] = "check"
  /\ Goto(r, AfterCheck(r))
  /\ kpc' \in IF kpc = "none" THEN {"none", "dequeue"} ELSE {kpc}
  /\ UNCHANGED <<portVars, tabVars, cap_cmd_mutex, rop, listVars, hookVars,
                 cap_skb_queue, kskb, kport, kstate, userVars, skbVars>>

(* Altered: a failed kthread_run returns to the client with the mutex held. *)
StartKcapd_NoUnlock(r) ==
  /\ rpc[r] = "check"
  /\ \/ /\ Goto(r, AfterCheck(r))
        /\ kpc' = IF kpc = "none" THEN "dequeue" ELSE kpc
        /\ UNCHANGED upc
     \/ /\ kpc = "none"
        /\ Goto(r, "out")
        /\ upc' = [upc EXCEPT ![r] = "recv"]
        /\ UNCHANGED kpc
  /\ UNCHANGED <<portVars, tabVars, cap_cmd_mutex, rop, listVars, hookVars,
                 cap_skb_queue, kskb, kport, kstate, time, rcvq, skbVars>>

(* kcapd is started by the first message; if that fails the message is     *)
(* answered with an error, which netlink_ack drops when the queue is full. *)
StartKcapd(r) ==
  /\ rpc[r] = "check"
  /\ \/ /\ kpc # "none"
        /\ Goto(r, AfterCheck(r))
        /\ UNCHANGED <<kpc, rcvq>>
     \/ /\ kpc = "none"
        /\ kpc' = "dequeue"
        /\ Goto(r, AfterCheck(r))
        /\ UNCHANGED rcvq
     \/ /\ kpc = "none"
        /\ Goto(r, "unlock")
        /\ rcvq' = IF Len(rcvq[r]) < RcvBuf
                   THEN [rcvq EXCEPT ![r] = Append(@, ACK)] ELSE rcvq
        /\ UNCHANGED kpc
  /\ UNCHANGED <<portVars, tabVars, cap_cmd_mutex, rop, listVars, hookVars,
                 cap_skb_queue, kskb, kport, kstate, upc, time, skbVars>>

(* Altered: CAP_DEL does not reset the port. *)
SetPort_KeepOnDel(r) ==
  /\ rpc[r] = "port"
  /\ cap_nlk_portid' = IF rop[r] = "CAP_ADD" THEN r ELSE cap_nlk_portid
  /\ Goto(r, "table")
  /\ UNCHANGED <<tabVars, cap_cmd_mutex, rop, listVars, hookVars,
                 cap_skb_queue, kcapVars, userVars, skbVars>>

SetPort(r) ==
  /\ rpc[r] = "port"
  /\ cap_nlk_portid' = IF rop[r] = "CAP_ADD" THEN r ELSE Kernel
  /\ Goto(r, "table")
  /\ UNCHANGED <<tabVars, cap_cmd_mutex, rop, listVars, hookVars,
                 cap_skb_queue, kcapVars, userVars, skbVars>>

UpdateTable(r) ==
  /\ rpc[r] = "table"
  /\ \/ rop[r] = "CAP_ADD" /\ user_join(r)
     \/ rop[r] = "CAP_DEL" /\ user_leave(r)
  /\ Goto(r, "unlock")
  /\ UNCHANGED <<portVars, cap_cmd_mutex, rop, listVars, hookVars,
                 cap_skb_queue, kcapVars, userVars, skbVars>>

(* Unlocking also returns to the caller: sendmsg returns to user_client,   *)
(* netlink_unicast consumes the skb it looped back and returns to kcapd.   *)
MutexUnlock(r) ==
  /\ rpc[r] = "unlock"
  /\ cap_cmd_mutex' = NoOwner
  /\ Goto(r, "out")
  /\ IF r = Kcapd
     THEN /\ kpc' = "sent"
          /\ refs' = [refs EXCEPT ![kskb] = @ - 1]
          /\ UNCHANGED upc
     ELSE /\ upc' = [upc EXCEPT ![r] = IF @ = "add" THEN "recv" ELSE "exit"]
          /\ UNCHANGED <<kpc, refs>>
  /\ UNCHANGED <<portVars, tabVars, rop, listVars, hookVars, cap_skb_queue,
                 kskb, kport, kstate, time, rcvq, fresh>>

cap_receive(r) ==
  MutexLock(r) \/ StartKcapd(r) \/ SetPort(r) \/ UpdateTable(r) \/ MutexUnlock(r)

-----------------------------------------------------------------------------
(* hook_func_queue on cpu h.                                               *)

(* Altered: > for >= in the test of the free list's size. *)
cap_buffer_free_OneMore(h) ==
  /\ IF cap_freelist_count > CAP_MAXFREE
     THEN UNCHANGED listVars
     ELSE /\ cap_freelist_count' = cap_freelist_count + 1
          /\ cap_freelist' = <<hcb[h]>> \o cap_freelist
  /\ hcb' = [hcb EXCEPT ![h] = NULL]

(* cap_buffer_free(cb) with cb not NULL. *)
cap_buffer_free(h) ==
  /\ IF cap_freelist_count >= CAP_MAXFREE
     THEN UNCHANGED listVars
     ELSE /\ cap_freelist_count' = cap_freelist_count + 1
          /\ cap_freelist' = <<hcb[h]>> \o cap_freelist
  /\ hcb' = [hcb EXCEPT ![h] = NULL]

(* A packet passes while somebody captures. *)
HookEnter(h) ==
  /\ hpc[h] = "idle" /\ cap_nlk_portid # Kernel
  /\ hpc' = [hpc EXCEPT ![h] = "alloc"]
  /\ UNCHANGED <<portVars, tabVars, recvVars, listVars, hcb, hskb,
                 cap_skb_queue, kcapVars, userVars, skbVars>>

Unused(b) == b \notin Range(cap_freelist) /\ \A h \in Cpus : hcb[h] # b

(* A spare buffer if there is one, else kmalloc; when kmalloc fails,       *)
(* cap_buffer_free(NULL) dereferences its argument.                        *)
HookAlloc(h) ==
  /\ hpc[h] = "alloc"
  /\ \/ /\ cap_freelist # <<>>
        /\ hcb' = [hcb EXCEPT ![h] = Head(cap_freelist)]
        /\ cap_freelist' = Tail(cap_freelist)
        /\ cap_freelist_count' = cap_freelist_count - 1
        /\ hpc' = [hpc EXCEPT ![h] = "build"]
     \/ /\ cap_freelist = <<>>
        /\ \E b \in Buffers : Unused(b) /\ hcb' = [hcb EXCEPT ![h] = b]
        /\ hpc' = [hpc EXCEPT ![h] = "build"]
        /\ UNCHANGED listVars
     \/ /\ cap_freelist = <<>>
        /\ hpc' = [hpc EXCEPT ![h] = "oops"]
        /\ UNCHANGED <<hcb, listVars>>
  /\ UNCHANGED <<portVars, tabVars, recvVars, hskb, cap_skb_queue,
                 kcapVars, userVars, skbVars>>

(* Altered: the result of nlmsg_new is not tested. *)
HookBuild_NoTest(h) ==
  /\ hpc[h] = "build"
  /\ hpc' = [hpc EXCEPT ![h] = "queue"]
  /\ \/ \E s \in fresh : /\ hskb' = [hskb EXCEPT ![h] = s]
                         /\ fresh' = fresh \ {s}
                         /\ refs' = [refs EXCEPT ![s] = 1]
     \/ UNCHANGED <<hskb, skbVars>>
  /\ UNCHANGED <<portVars, tabVars, recvVars, listVars, hcb, cap_skb_queue,
                 kcapVars, userVars>>

(* The skb is allocated and filled, or nlmsg_new or nlmsg_put fails and    *)
(* only the buffer is left to give back.                                   *)
HookBuild(h) ==
  /\ hpc[h] = "build"
  /\ \/ \E s \in fresh :
          /\ hskb' = [hskb EXCEPT ![h] = s]
          /\ fresh' = fresh \ {s}
          /\ refs' = [refs EXCEPT ![s] = 1]
          /\ hpc' = [hpc EXCEPT ![h] = "queue"]
     \/ /\ hpc' = [hpc EXCEPT ![h] = "free"]
        /\ UNCHANGED <<hskb, skbVars>>
  /\ UNCHANGED <<portVars, tabVars, recvVars, listVars, hcb, cap_skb_queue,
                 kcapVars, userVars>>

(* cap_rate_limit is 0 and nothing writes it, so cap_rate_check passes.    *)
HookQueue(h) ==
  /\ hpc[h] = "queue"
  /\ cap_skb_queue' = Append(cap_skb_queue, hskb[h])
  /\ hskb' = [hskb EXCEPT ![h] = NULL]
  /\ hpc' = [hpc EXCEPT ![h] = "wake"]
  /\ UNCHANGED <<portVars, tabVars, recvVars, listVars, hcb, kcapVars,
                 userVars, skbVars>>

(* Altered: kcapd is not woken. *)
HookWake_Missing(h) ==
  /\ hpc[h] = "wake"
  /\ hpc' = [hpc EXCEPT ![h] = "free"]
  /\ UNCHANGED <<portVars, tabVars, recvVars, listVars, hcb, hskb,
                 cap_skb_queue, kcapVars, userVars, skbVars>>

HookWake(h) ==
  /\ hpc[h] = "wake"
  /\ kstate' = "running"
  /\ hpc' = [hpc EXCEPT ![h] = "free"]
  /\ UNCHANGED <<portVars, tabVars, recvVars, listVars, hcb, hskb,
                 cap_skb_queue, kpc, kskb, kport, userVars, skbVars>>

HookFree(h) ==
  /\ hpc[h] = "free"
  /\ cap_buffer_free(h)
  /\ hpc' = [hpc EXCEPT ![h] = "idle"]
  /\ UNCHANGED <<portVars, tabVars, recvVars, hskb, cap_skb_queue, kcapVars,
                 userVars, skbVars>>

HookRun(h) == \/ HookAlloc(h) \/ HookBuild(h) \/ HookQueue(h)
              \/ HookWake(h) \/ HookFree(h)
hook_func_queue(h) == HookEnter(h) \/ HookRun(h)

-----------------------------------------------------------------------------
(* kcapd_thread.                                                           *)

KcapdUnchanged == UNCHANGED <<tabVars, listVars, hookVars, upc, time, fresh>>

KcapdDequeue ==
  /\ kpc = "dequeue"
  /\ IF cap_skb_queue # <<>>
     THEN /\ kskb' = Head(cap_skb_queue)
          /\ cap_skb_queue' = Tail(cap_skb_queue)
          /\ kpc' = "reply"
     ELSE kpc' = "wait" /\ UNCHANGED <<kskb, cap_skb_queue>>
  /\ UNCHANGED <<portVars, recvVars, kport, kstate, rcvq, refs>>
  /\ KcapdUnchanged

(* wait_event_freezable(kcapd_wait, skb_queue_len(&cap_skb_queue)): a test, *)
(* then prepare, test again and sleep until woken, in a loop.               *)
KcapdWait ==
  /\ kpc = "wait"
  /\ kpc' = IF cap_skb_queue # <<>> THEN "dequeue" ELSE "prepare"
  /\ UNCHANGED <<portVars, recvVars, cap_skb_queue, kskb, kport, kstate, rcvq, refs>>
  /\ KcapdUnchanged

KcapdPrepare ==
  /\ kpc = "prepare"
  /\ kstate' = "interruptible"
  /\ kpc' = "test"
  /\ UNCHANGED <<portVars, recvVars, cap_skb_queue, kskb, kport, rcvq, refs>>
  /\ KcapdUnchanged

(* Altered: no second test of the queue before sleeping. *)
KcapdTest_Missing ==
  /\ kpc = "test"
  /\ kpc' = "sleep"
  /\ UNCHANGED <<portVars, recvVars, cap_skb_queue, kskb, kport, kstate, rcvq, refs>>
  /\ KcapdUnchanged

KcapdTest ==
  /\ kpc = "test"
  /\ IF cap_skb_queue # <<>>
     THEN kpc' = "dequeue" /\ kstate' = "running"
     ELSE kpc' = "sleep" /\ UNCHANGED kstate
  /\ UNCHANGED <<portVars, recvVars, cap_skb_queue, kskb, kport, rcvq, refs>>
  /\ KcapdUnchanged

KcapdWoken ==
  /\ kpc = "sleep" /\ kstate = "running"
  /\ kpc' = "prepare"
  /\ UNCHANGED <<portVars, recvVars, cap_skb_queue, kskb, kport, kstate, rcvq, refs>>
  /\ KcapdUnchanged

(* Altered: no skb_get. *)
KcapdReply_NoGet ==
  /\ kpc = "reply"
  /\ kport' = cap_nlk_portid
  /\ kpc' = "unicast"
  /\ UNCHANGED <<portVars, recvVars, cap_skb_queue, kskb, kstate, rcvq, refs>>
  /\ KcapdUnchanged

(* kcapd_send_reply: take the extra reference and read the port. *)
KcapdReply ==
  /\ kpc = "reply"
  /\ refs' = [refs EXCEPT ![kskb] = @ + 1]
  /\ kport' = cap_nlk_portid
  /\ kpc' = "unicast"
  /\ UNCHANGED <<portVars, recvVars, cap_skb_queue, kskb, kstate, rcvq>>
  /\ KcapdUnchanged

Bound(c) == upc[c] \in {"add", "recv", "del", "exit"}

(* netlink_unicast(cap_sock, skb, kport, 0) eats one reference.  It blocks *)
(* while the receiver's buffer is full and looks the port up again.        *)
netlink_unicast ==
  /\ kpc = "unicast"
  /\ \/ /\ kport \in Clients /\ Bound(kport) /\ Len(rcvq[kport]) < RcvBuf
        /\ rcvq' = [rcvq EXCEPT ![kport] = Append(@, kskb)]
        /\ kpc' = "sent"
        /\ UNCHANGED <<recvVars, refs>>
     \/ /\ kport \in Clients /\ ~Bound(kport)
        /\ refs' = [refs EXCEPT ![kskb] = @ - 1]
        /\ kpc' = "refused"
        /\ UNCHANGED <<recvVars, rcvq>>
     \/ /\ kport = Kernel
        /\ rpc' = [rpc EXCEPT ![Kcapd] = "lock"]
        /\ rop' = [rop EXCEPT ![Kcapd] = "CAP_GET_PACKET"]
        /\ kpc' = "loopback"
        /\ UNCHANGED <<cap_cmd_mutex, rcvq, refs>>
  /\ UNCHANGED <<portVars, cap_skb_queue, kskb, kport, kstate>>
  /\ KcapdUnchanged

(* Altered: the port is kept after a refused send. *)
KcapdRefused_KeepPort ==
  /\ kpc = "refused"
  /\ kskb' = NULL /\ kpc' = "dequeue"
  /\ UNCHANGED <<portVars, recvVars, cap_skb_queue, kport, kstate, rcvq, refs>>
  /\ KcapdUnchanged

(* Altered: the refused skb goes back to the end of the queue. *)
KcapdRefused_Requeue ==
  /\ kpc = "refused"
  /\ cap_nlk_portid' = Kernel
  /\ cap_skb_queue' = Append(cap_skb_queue, kskb)
  /\ kskb' = NULL /\ kpc' = "dequeue"
  /\ UNCHANGED <<recvVars, kport, kstate, rcvq, refs>>
  /\ KcapdUnchanged

(* err = -ECONNREFUSED: the port is forgotten, the skb is not touched.     *)
KcapdRefused ==
  /\ kpc = "refused"
  /\ cap_nlk_portid' = Kernel
  /\ kskb' = NULL /\ kpc' = "dequeue"
  /\ UNCHANGED <<recvVars, cap_skb_queue, kport, kstate, rcvq, refs>>
  /\ KcapdUnchanged

KcapdSent ==
  /\ kpc = "sent"
  /\ refs' = [refs EXCEPT ![kskb] = @ - 1]
  /\ kskb' = NULL /\ kpc' = "dequeue"
  /\ UNCHANGED <<portVars, recvVars, cap_skb_queue, kport, kstate, rcvq>>
  /\ KcapdUnchanged

kcapd_thread ==
  \/ KcapdDequeue \/ KcapdWait \/ KcapdPrepare \/ KcapdTest \/ KcapdWoken
  \/ KcapdReply \/ netlink_unicast \/ KcapdRefused \/ KcapdSent

-----------------------------------------------------------------------------
(* user_client.                                                            *)

UserUnchanged == UNCHANGED <<portVars, tabVars, cap_cmd_mutex, listVars,
                             hookVars, cap_skb_queue, kcapVars, fresh>>

(* sendmsg to port 0 enters cap_receive. *)
send_to_kernel(c, type) ==
  /\ rpc' = [rpc EXCEPT ![c] = "lock"]
  /\ rop' = [rop EXCEPT ![c] = type]

ClientStart(c) ==
  /\ upc[c] = "start"
  /\ \E t \in Times : time' = [time EXCEPT ![c] = t]
  /\ upc' = [upc EXCEPT ![c] = "add"]
  /\ send_to_kernel(c, "CAP_ADD")
  /\ UNCHANGED <<rcvq, refs>>
  /\ UserUnchanged

recv_from_kernel(c) ==
  /\ rcvq' = [rcvq EXCEPT ![c] = Tail(@)]
  /\ refs' = [s \in Skbs |-> IF s = Head(rcvq[c]) THEN refs[s] - 1 ELSE refs[s]]

(* The loop of main: one message received; CAP_DEL after the last.         *)
ClientRecv(c) ==
  /\ upc[c] = "recv" /\ rcvq[c] # <<>>
  /\ recv_from_kernel(c)
  /\ time' = [time EXCEPT ![c] = @ - 1]
  /\ IF time[c] = 1
     THEN upc' = [upc EXCEPT ![c] = "del"] /\ send_to_kernel(c, "CAP_DEL")
     ELSE UNCHANGED <<upc, rpc, rop>>
  /\ UserUnchanged

(* The socket goes away with the process and with it what it had queued.   *)
Close(c) ==
  /\ upc' = [upc EXCEPT ![c] = "closed"]
  /\ rcvq' = [rcvq EXCEPT ![c] = <<>>]
  /\ refs' = [s \in Skbs |-> IF s \in Range(rcvq[c]) THEN refs[s] - 1 ELSE refs[s]]
  /\ UNCHANGED <<time, rpc, rop>>
  /\ UserUnchanged

ClientExit(c) == upc[c] = "exit" /\ Close(c)
ClientKilled(c) == upc[c] = "recv" /\ Close(c)

user_client(c) == \/ ClientStart(c) \/ ClientRecv(c)
                  \/ ClientExit(c) \/ ClientKilled(c)

-----------------------------------------------------------------------------
Next ==
  \/ \E r \in Receivers : cap_receive(r)
  \/ \E h \in Cpus : hook_func_queue(h)
  \/ kcapd_thread
  \/ \E c \in Clients : user_client(c)

Spec == Init /\ [][Next]_vars

(* Fairness the kernel's scheduler gives: a hook that has started runs on, *)
(* kcapd is scheduled when it can run, and so is some process that is in a *)
(* command and some client that can leave recvmsg or exit.  Nobody has to  *)
(* start a client, to send a packet, or to kill a client.                  *)
Fairness ==
  /\ \A h \in Cpus : WF_vars(HookRun(h))
  /\ WF_vars(kcapd_thread)
  /\ WF_vars(\E r \in Receivers : cap_receive(r))
  /\ WF_vars(\E c \in Clients : ClientRecv(c) \/ ClientExit(c))

FairSpec == Spec /\ Fairness

-----------------------------------------------------------------------------
(* Every variable has the type its declaration gives it, and the program   *)
(* counters stay on the locations of the code.                             *)
TypeOK ==
  /\ cap_nlk_portid \in Ports
  /\ usrtab \in [Slots -> Ports] /\ usrcnt \in Int
  /\ cap_cmd_mutex \in Receivers \cup {NoOwner}
  /\ rpc \in [Receivers -> {"out", "lock", "check", "port", "table", "unlock"}]
  /\ rop \in [Receivers -> {"CAP_ADD", "CAP_DEL", "CAP_GET_PACKET"}]
  /\ cap_freelist \in Seq(Buffers) /\ cap_freelist_count \in Int
  /\ hpc \in [Cpus -> {"idle", "alloc", "build", "queue", "wake", "free", "oops"}]
  /\ hcb \in [Cpus -> Buffers \cup {NULL}]
  /\ hskb \in [Cpus -> Skbs \cup {NULL}]
  /\ cap_skb_queue \in Seq(Skbs)
  /\ kpc \in {"none", "dequeue", "wait", "prepare", "test", "sleep", "reply",
              "unicast", "loopback", "refused", "sent"}
  /\ kskb \in Skbs \cup {NULL} /\ kport \in Ports
  /\ kstate \in {"running", "interruptible"}
  /\ upc \in [Clients -> {"start", "add", "recv", "del", "exit", "closed"}]
  /\ time \in [Clients -> Int]
  /\ rcvq \in [Clients -> Seq(Skbs \cup {ACK})]
  /\ fresh \subseteq Skbs /\ refs \in [Skbs -> Int]

(* kcapd never sleeps on a packet: if it is asleep while the queue holds   *)
(* an skb, the hook that queued it has its wake_up_interruptible still to  *)
(* come (hook_func_queue 329-330 against wait_event_freezable, 455).       *)
NoLostWakeup ==
  kpc = "sleep" /\ kstate = "interruptible" /\ cap_skb_queue # <<>>
    => \E h \in Cpus : hpc[h] = "wake"

(* Packets are captured only for a kcapd that exists: the thread is        *)
(* started before cap_nlk_portid is set (473 before 492), also when        *)
(* kthread_run fails for one command and succeeds for a later one.         *)
KcapdStarted ==
  (cap_nlk_portid # Kernel \/ cap_skb_queue # <<>>) => kpc # "none"

(* The port kcapd sends to and the user table agree: the captured-for pid  *)
(* is registered, or the table was full when it came, or it is just being  *)
(* entered.  cap_nlk_portid is written by commands and by kcapd, usrtab in *)
(* a later critical section.                                               *)
PortRegistered ==
  cap_nlk_portid # Kernel =>
    \/ \E i \in Slots : usrtab[i] = cap_nlk_portid
    \/ usrcnt = MAX_TAB_SIZE
    \/ /\ cap_nlk_portid = cap_cmd_mutex
       /\ rpc[cap_cmd_mutex] = "table" /\ rop[cap_cmd_mutex] = "CAP_ADD"

(* usrcnt counts the used slots, whatever joins and leaves in whatever     *)
(* order, so user_join finds a slot whenever it passes its usrcnt test.    *)
UserCount == usrcnt = Cardinality({i \in Slots : usrtab[i] # Kernel})

(* Whoever has sent CAP_DEL to the end has no slot left, although starting *)
(* kcapd may have failed for CAP_ADD, the table may have been full then    *)
(* and others come and go: only clients that died in between keep one.     *)
LeaversHaveLeft ==
  \A c \in Clients : upc[c] \in {"start", "exit"} => \A i \in Slots : usrtab[i] # c

(* A cap_buffer is on the free list once, or held by one hook, or neither; *)
(* cap_freelist_count is the length of the list and at most CAP_MAXFREE    *)
(* (cap_buffer_alloc and cap_buffer_free on several cpus).                 *)
BufferOwnership ==
  /\ IsInjective(cap_freelist)
  /\ \A h \in Cpus : hcb[h] \notin Range(cap_freelist)
  /\ \A h, g \in Cpus : hcb[h] = hcb[g] => h = g \/ hcb[h] = NULL
  /\ cap_freelist_count = Len(cap_freelist)
  /\ cap_freelist_count <= CAP_MAXFREE

Occurrences(q, s) == Cardinality({i \in DOMAIN q : q[i] = s})
KcapdHolds(s) ==
  IF kskb # s THEN 0 ELSE IF kpc \in {"unicast", "loopback"} THEN 2 ELSE 1
(* References to skb s: a hook's, the queue's, kcapd's, a client socket's. *)
Holds(s) ==
  Cardinality({h \in Cpus : hskb[h] = s}) + Occurrences(cap_skb_queue, s)
    + KcapdHolds(s) + Cardinality({c \in Clients : s \in Range(rcvq[c])})

(* The count of an skb is exact while somebody holds it, in                *)
(* hook_func_queue, on cap_skb_queue, in kcapd_send_reply or in the socket *)
(* of a client that comes and goes: the last holder frees it, nobody       *)
(* before, and nobody twice.  At most one reference is ever left behind.   *)
SkbHeldIsLive ==
  \A s \in Skbs : refs[s] = Holds(s) \/ (Holds(s) = 0 /\ refs[s] = 1)

(* The one place that leaves a reference behind is the branch of           *)
(* kcapd_send_reply for a refused send, and it is the packet refused.      *)
OnlyRefusedForgotten ==
  [][\A s \in Skbs : refs[s] = Holds(s) /\ refs'[s] # Holds(s)'
                        => KcapdRefused /\ kskb = s]_vars

-----------------------------------------------------------------------------
(* A queued packet is taken off the queue: kcapd neither oversleeps nor    *)
(* blocks for ever on a client that is killed or has all it wants.         *)
QueuedIsTaken ==
  \A s \in Skbs : s \in Range(cap_skb_queue) ~> s \notin Range(cap_skb_queue)

(* A client that died without CAP_DEL does not stay the target while       *)
(* packets are queued: the send is refused and kcapd clears the port.      *)
DeadPortCleared ==
  \A c \in Clients :
    (cap_nlk_portid = c /\ upc[c] = "closed" /\ cap_skb_queue # <<>>)
      ~> cap_nlk_portid # c

(* A command sent by a client is answered: sendmsg returns.                *)
CommandsReturn == \A c \in Clients : rpc[c] = "lock" ~> rpc[c] = "out"

-----------------------------------------------------------------------------
(* netlink.c:422: the extra reference is taken "in case we can't send it   *)
(* and we want to hold it": an skb with references left is held somewhere. *)
UnsentIsHeld == \A s \in Skbs : refs[s] <= Holds(s)

(* netlink.c:319: "if (!cb) return NF_ACCEPT": a hook survives a failed    *)
(* cap_buffer_alloc.                                                       *)
AllocFailureSurvived == \A h \in Cpus : hpc[h] # "oops"

(* netlink.c:471: "As soon as there's any sign of userspace capd, start    *)
(* kcapd to talk to it": a refused send stops kcapd talking to the port    *)
(* that refused, not to another client that has registered meanwhile.      *)
RefusalClearsRefuser ==
  kpc = "refused" => cap_nlk_portid \in {kport, Kernel}
=============================================================================
