--------------------------- MODULE ExamplesProofs ---------------------------
(***************************************************************************)
(* Theorems about the modules of Examples but foobar.c, which has its own  *)
(* module, for every value of the constants.  Each has an inductive        *)
(* invariant, kept by its steps; Moves says that a step of the whole is a  *)
(* step of one of them.                                                    *)
(***************************************************************************)
EXTENDS Examples, TLAPS

-----------------------------------------------------------------------------
(* kthread_sema.c.  rwsem's holder and waiter say where the threads are;   *)
(* what the reader printed is current while it has not let go; and rmmod   *)
(* has waited for each thread it is past.                                  *)
KInv ==
  /\ kpc \in [Threads -> {"none", "loop", "down", "waiting", "held", "up", "exited", "error"}]
  /\ holder \in Threads \cup {"nobody"} /\ waiter \in Threads \cup {"nobody"}
  /\ \A t \in Threads : /\ holder = t <=> kpc[t] \in {"held", "up"}
                        /\ waiter = t <=> kpc[t] = "waiting"
  /\ holder = "nobody" => waiter = "nobody"
  /\ kpc["reader"] = "up" => seen = number
  /\ kmod = "reader" => kpc["reader"] = "none"
  /\ kmod \in {"reader", "writer"} => kpc["writer"] = "none"
  /\ kmod \in {"stopping2", "gone"} => kpc["writer"] = "exited"
  /\ kmod = "gone" => kpc["reader"] = "exited"

LEMMA KInvInit == SemaInit => KInv
BY Zenon DEF SemaInit, KInv, Threads

LEMMA KInvNext ==
  ASSUME KInv, [SemaNext]_semaVars PROVE KInv'
<1> USE DEF KInv, Threads, semVars
<1>1. ASSUME NEW t \in Threads, Loop(t) PROVE KInv'
  BY <1>1 DEF Loop
<1>2. ASSUME NEW t \in Threads, Down(t) PROVE KInv'
  BY <1>2 DEF Down, down
<1>3. CASE Read
  BY <1>3 DEF Read
<1>4. CASE Write
  BY <1>4 DEF Write
<1>5. ASSUME NEW t \in Threads, Up(t) PROVE KInv'
  BY <1>5 DEF Up, up
<1>6. CASE down_read_init
  BY <1>6 DEF down_read_init
<1>7. CASE down_read_exit
  BY <1>7 DEF down_read_exit, kthread_stop
<1>8. CASE UNCHANGED semaVars
  BY <1>8 DEF semaVars
<1>9. QED
  BY <1>1, <1>2, <1>3, <1>4, <1>5, <1>6, <1>7, <1>8
  DEF SemaNext, thread_read_func, thread_write_func

LEMMA KInvHolds == SemaSpec => []KInv
<1>1. KInv /\ [SemaNext]_semaVars => KInv'
  BY KInvNext
<1>2. QED
  BY <1>1, KInvInit, PTL DEF SemaSpec

(* kthread_sema.c: while the reader has the semaphore, the number it       *)
(* printed is the current one.                                             *)
THEOREM PrintedAlwaysCurrent == SemaSpec => []PrintedIsCurrent
<1>1. KInv => PrintedIsCurrent
  BY DEF KInv, PrintedIsCurrent
<1>2. QED
  BY <1>1, KInvHolds, PTL

-----------------------------------------------------------------------------
(* myworkqueue.c.  An item that is queued, runs or has finished was        *)
(* allocated; a worker has its item to itself; an item is freed once, when *)
(* it finishes; and one that is live and not queued is the one that        *)
(* wq_init is just filling in (or was when it met a NULL work).            *)
WInv ==
  /\ mem \in [Works -> {"null", "live", "freed"}]
  /\ state \in [AllWorks -> {"new", "queued", "running", "finished"}]
  /\ runs \in [Workers -> AllWorks \cup {"idle"}]
  /\ frees \in [Works -> Nat]
  /\ \A w \in Workers : runs[w] # "idle" => state[runs[w]] = "running"
  /\ \A v, w \in Workers : runs[v] = runs[w] /\ runs[v] # "idle" => v = w
  /\ \A i \in Works : frees[i] = IF state[i] = "finished" THEN 1 ELSE 0
  /\ \A i \in Works : state[i] # "new" => mem[i] # "null"
  /\ wq \in {"set", "queue"} => mem["work"] = "live" /\ state["work"] = "new"
  /\ wq \in {"set2", "queue2"} => mem["work2"] = "live" /\ state["work2"] = "new"
  /\ wq \in {"create", "alloc"} => state["work"] = "new"
  /\ wq \in {"create", "alloc", "set", "queue", "alloc2"} => state["work2"] = "new"
  /\ wq \notin {"live", "flush", "gone"} => state["work3"] = "new"
  /\ \A i \in Works : mem[i] # "null" /\ state[i] = "new" =>
       wq \in IF i = "work" THEN {"set", "queue"} ELSE {"set2", "queue2", "oops"}
  /\ wq = "gone" => \A i \in Works : state[i] \in {"new", "finished"}

LEMMA WInvInit == WorkInit => WInv
BY DEF WorkInit, WInv, Works, AllWorks

LEMMA WInvNext ==
  ASSUME WInv, [WorkNext]_workVars PROVE WInv'
<1> USE DEF WInv, Works, AllWorks
<1>1. CASE create_workqueue
  BY <1>1 DEF create_workqueue
<1>2. CASE kmalloc("work", "alloc", "set", "alloc2")
  BY <1>2 DEF kmalloc
<1>3. CASE kmalloc("work2", "alloc2", "set2", "schedule")
  BY <1>3 DEF kmalloc
<1>4. CASE SetX("set", "queue") \/ SetX("set2", "queue2")
  BY <1>4 DEF SetX
<1>5. CASE queue_work("work", "queue", "alloc2")
  BY <1>5 DEF queue_work
<1>6. CASE queue_work("work2", "queue2", "schedule")
  BY <1>6 DEF queue_work
<1>7. CASE queue_work("work3", "schedule", "live")
  BY <1>7 DEF queue_work
<1>8. CASE wq_exit
  BY <1>8 DEF wq_exit
<1>9. ASSUME NEW w \in Workers, Take(w) PROVE WInv'
  BY <1>9 DEF Take
<1>10. ASSUME NEW w \in Workers, my_wq_func(w) PROVE WInv'
  BY <1>10 DEF my_wq_func
<1>11. ASSUME NEW w \in Workers, sys_work_handler(w) PROVE WInv'
  BY <1>11 DEF sys_work_handler
<1>12. CASE UNCHANGED workVars
  BY <1>12 DEF workVars
<1>13. QED
  BY <1>1, <1>2, <1>3, <1>4, <1>5, <1>6, <1>7, <1>8, <1>9, <1>10, <1>11, <1>12, Zenon
  DEF WorkNext, wq_init, worker

LEMMA WInvHolds == WorkSpec => []WInv
<1>1. WInv /\ [WorkNext]_workVars => WInv'
  BY WInvNext
<1>2. QED
  BY <1>1, WInvInit, PTL DEF WorkSpec

(* myworkqueue.c: when wq_exit returns, every item that was allocated was  *)
(* handled and freed once.                                                 *)
THEOREM ItemsFreedOnce == WorkSpec => []FreedOnce
<1>1. WInv => FreedOnce
  BY DEF WInv, FreedOnce, Works, AllWorks
<1>2. QED
  BY <1>1, WInvHolds, PTL

-----------------------------------------------------------------------------
(* stdtimer.c, hrtimer.c, tasklet.c.  A callback is not under way before   *)
(* insmod; the tasklet is scheduled, runs or has run from then on; the     *)
(* copy of num that my_timer_callback works on is the current one.         *)
TInv ==
  /\ mod \in [Items -> {"init", "live", "exiting", "gone"}]
  /\ pending \in [Items -> BOOLEAN]
  /\ cb \in [Items -> {"idle", "entered", "armed"}]
  /\ ran \in [Items -> BOOLEAN]
  /\ num = calls
  /\ cb["my_timer"] # "idle" => copy = num
  /\ \A i \in {"hr_timer", "my_tasklet"} :
       mod[i] = "gone" => ~pending[i] /\ cb[i] = "idle"
  /\ mod["my_tasklet"] # "init" =>
       pending["my_tasklet"] \/ cb["my_tasklet"] # "idle" \/ ran["my_tasklet"]

LEMMA TInvInit == TimersInit => TInv
BY Zenon DEF TimersInit, TInv, Items

LEMMA TInvNext ==
  ASSUME TInv, [TimersNext]_timerVars PROVE TInv'
<1> USE DEF TInv, Items, numVars
<1>1. ASSUME NEW i \in Items, Arm(i) PROVE TInv'
  BY <1>1 DEF Arm
<1>2. ASSUME NEW i \in Items, Fire(i) PROVE TInv'
  BY <1>2 DEF Fire
<1>3. ASSUME NEW i \in Items, rmmod(i) PROVE TInv'
  BY <1>3 DEF rmmod
<1>4. ASSUME NEW i \in {"hr_timer", "my_tasklet"}, Run(i) PROVE TInv'
  BY <1>4 DEF Run
<1>5. CASE my_timer_callback
  <2>1. /\ mod' = mod
        /\ pending' = pending \/ pending' = [pending EXCEPT !["my_timer"] = TRUE]
        /\ ran' = ran \/ ran' = [ran EXCEPT !["my_timer"] = TRUE]
        /\ cb' \in {[cb EXCEPT !["my_timer"] = "armed"], [cb EXCEPT !["my_timer"] = "idle"]}
    BY <1>5 DEF my_timer_callback
  <2>2. /\ pending' \in [Items -> BOOLEAN]
        /\ \A i \in {"hr_timer", "my_tasklet"} : pending'[i] = pending[i]
    <3>1. CASE pending' = pending
      BY <3>1
    <3>2. CASE pending' = [pending EXCEPT !["my_timer"] = TRUE]
      BY <3>2
    <3>3. QED
      BY <2>1, <3>1, <3>2, Zenon
  <2>3. /\ ran' \in [Items -> BOOLEAN]
        /\ \A i \in {"hr_timer", "my_tasklet"} : ran'[i] = ran[i]
    <3>1. CASE ran' = ran
      BY <3>1
    <3>2. CASE ran' = [ran EXCEPT !["my_timer"] = TRUE]
      BY <3>2
    <3>3. QED
      BY <2>1, <3>1, <3>2, Zenon
  <2>4. /\ cb' \in [Items -> {"idle", "entered", "armed"}]
        /\ \A i \in {"hr_timer", "my_tasklet"} : cb'[i] = cb[i]
    BY <2>1
  <2>5. num' = calls' /\ (cb'["my_timer"] # "idle" => copy' = num')
    BY <1>5 DEF my_timer_callback
  <2>6. QED
    BY <2>1, <2>2, <2>3, <2>4, <2>5
<1>6. CASE timer_exit_module
  BY <1>6 DEF timer_exit_module, Gone
<1>7. CASE hrtimer_exit_module
  BY <1>7 DEF hrtimer_exit_module, Gone
<1>8. CASE tasklet_cleanup_module
  BY <1>8 DEF tasklet_cleanup_module, Gone
<1>9. CASE UNCHANGED timerVars
  BY <1>9 DEF timerVars
<1>10. QED
  BY <1>1, <1>2, <1>3, <1>4, <1>5, <1>6, <1>7, <1>8, <1>9
  DEF TimersNext, Exit, timer_init_module, hrtimer_init_module, tasklet_init_module,
      my_hrtimer_callback, my_tasklet_func

LEMMA TInvHolds == TimersSpec => []TInv
<1>1. TInv /\ [TimersNext]_timerVars => TInv'
  BY TInvNext
<1>2. QED
  BY <1>1, TInvInit, PTL DEF TimersSpec

(* tasklet.c: the tasklet scheduled by insmod has run when rmmod returns.  *)
THEOREM TaskletHasRun == TimersSpec => []TaskletRan
<1>1. TInv => TaskletRan
  BY DEF TInv, TaskletRan, Items
<1>2. QED
  BY <1>1, TInvHolds, PTL

(* stdtimer.c: between two calls num is the number of calls made. *)
THEOREM NumAlwaysCounts == TimersSpec => []NumCounts
<1>1. TInv => NumCounts
  BY DEF TInv, NumCounts
<1>2. QED
  BY <1>1, TInvHolds, PTL

-----------------------------------------------------------------------------
(* mythread.c: kthread_stop has waited for the thread. *)
MInv == mt = "gone" => run = "exited"

LEMMA MInvNext == ASSUME MInv, [MyThreadNext]_myThreadVars PROVE MInv'
BY DEF MInv, MyThreadNext, minit_thread, thread_func, mexit_thread, myThreadVars

-----------------------------------------------------------------------------
(* tcp.c, udp.c, garp.c: frames, for every device, payload and length of   *)
(* hardware address.                                                       *)

(* A device that asks for hard and head bytes gets at least as many: the   *)
(* macro rounds down and then adds 16.                                     *)
LEMMA ReservedIsEnough ==
  ASSUME NEW dev \in Devices
  PROVE  /\ LL_RESERVED_SPACE(dev) \in Nat
         /\ LL_RESERVED_SPACE(dev) >= 16
         /\ LL_RESERVED_SPACE(dev) > dev.hard + dev.head
<1> DEFINE n == dev.hard + dev.head
<1>1. n \in Nat
  BY DEF Devices
<1>2. n \div 16 \in Nat /\ n < (n \div 16) * 16 + 16
  BY <1>1, SMT
<1>3. QED
  BY <1>1, <1>2 DEF LL_RESERVED_SPACE

(* tcp.c: the buffer, the room and the lengths agree. *)
LEMMA TcpFits ==
  ASSUME NEW dev \in Devices
  PROVE  Fits(dev, tcp_skb(dev))
<1> DEFINE n == LL_RESERVED_SPACE(dev)
           f == tcp_skb(dev)
<1>1. n \in Nat /\ n >= 16 /\ n > dev.hard + dev.head
  BY ReservedIsEnough
<1>2. dev.hard \in Nat /\ dev.head \in Nat /\ dev.tail \in Nat
  BY DEF Devices
<1> HIDE DEF n, f
<1>3. /\ f.skb.data = n - 14 /\ f.skb.nh = n
      /\ f.skb.tail = n + 20 + 20 + PAYLOAD
      /\ f.skb.end = PAYLOAD + n + 20 + 20 + dev.tail
      /\ f.tot_len = PAYLOAD + 20 + 20
  BY SizeAssumption, Zenon DEF tcp_skb, skb_put, skb_push, Reserved, IPHDR, TCPHDR, ETH_HLEN, n, f
<1>4. QED
  BY <1>1, <1>2, <1>3, SizeAssumption DEF Fits, ETH_HLEN, f

(* udp.c: the same. *)
LEMMA UdpFits ==
  ASSUME NEW dev \in Devices
  PROVE  Fits(dev, udp_skb(dev))
<1> DEFINE n == LL_RESERVED_SPACE(dev)
           f == udp_skb(dev)
<1>1. n \in Nat /\ n >= 16 /\ n > dev.hard + dev.head
  BY ReservedIsEnough
<1>2. dev.hard \in Nat /\ dev.head \in Nat /\ dev.tail \in Nat
  BY DEF Devices
<1> HIDE DEF n, f
<1>3. /\ f.skb.data = n - 14 /\ f.skb.nh = n
      /\ f.skb.tail = n + 20 + 8 + PAYLOAD
      /\ f.skb.end = PAYLOAD + n + 20 + 8 + dev.tail
      /\ f.tot_len = PAYLOAD + 20 + 8
  BY SizeAssumption, Zenon DEF udp_skb, skb_put, skb_push, Reserved, IPHDR, UDPHDR, ETH_HLEN, n, f
<1>4. QED
  BY <1>1, <1>2, <1>3, SizeAssumption DEF Fits, ETH_HLEN, f

(* garp.c: what garp_create fills in is what arp_hdr_len counts. *)
LEMMA GarpFits ==
  ASSUME NEW dev \in Devices
  PROVE  Fits(dev, garp_create(dev))
<1> DEFINE n == LL_RESERVED_SPACE(dev)
           f == garp_create(dev)
           a == 8 + (ADDR_LEN + 4) * 2
<1>1. n \in Nat /\ n >= 16 /\ n > dev.hard + dev.head
  BY ReservedIsEnough
<1>2. dev.hard \in Nat /\ dev.head \in Nat /\ dev.tail \in Nat
  BY DEF Devices
<1>3. a \in Nat /\ a = 8 + ADDR_LEN + 4 + ADDR_LEN + 4
  BY SizeAssumption
<1> HIDE DEF n, a, f
<1>4. /\ f.skb.data = n - 14 /\ f.skb.nh = n
      /\ f.skb.tail = n + a
      /\ f.skb.end = a + n + dev.tail
      /\ f.tot_len = 8 + ADDR_LEN + 4 + ADDR_LEN + 4
  BY SizeAssumption, Zenon DEF garp_create, arp_hdr_len, skb_put, skb_push, Reserved, ETH_HLEN, n, a, f
<1>5. QED
  BY <1>1, <1>2, <1>3, <1>4, SizeAssumption DEF Fits, ETH_HLEN, f

-----------------------------------------------------------------------------
(* What is in frame was built for this device. *)
Built ==
  /\ asks \in Devices
  /\ frame \in [Programs -> {NULL, tcp_skb(asks), udp_skb(asks), garp_create(asks)}]

LEMMA BuiltInit ==
  ASSUME SendersInit PROVE Built
BY SizeAssumption, Zenon DEF SendersInit, Built, Devices

LEMMA BuiltNext == Built /\ [SendersNext]_senderVars => Built'
<1> SUFFICES ASSUME Built, [SendersNext]_senderVars PROVE Built'
  OBVIOUS
<1> USE DEF Built
<1>1. CASE UNCHANGED <<asks, frame>>
  BY <1>1
<1>2. CASE \E p \in Programs : asks' = asks /\ frame' = [frame EXCEPT ![p] = Build(p)]
  BY <1>2 DEF Build
<1>3. CASE \E p \in Programs : asks' = asks /\ frame' = [frame EXCEPT ![p] = NULL]
  BY <1>3
<1>4. ASSUME NEW p \in {"tcp", "udp"}, create_new_skb(p)
      PROVE  Built'
  <2>1. p \in Programs
    BY DEF Programs
  <2>2. CASE dev_get_by_name(p) \/ dev_put(p)
    BY <1>1, <2>2 DEF dev_get_by_name, dev_put
  <2>3. CASE alloc_skb(p)
    BY <1>1, <1>2, <2>1, <2>3 DEF alloc_skb
  <2>4. CASE Xmit(p, "put")
    BY <1>3, <2>1, <2>4 DEF Xmit
  <2>5. QED
    BY <1>4, <2>2, <2>3, <2>4 DEF create_new_skb
<1>5. CASE garp_init
  <2>1. "garp" \in Programs
    BY DEF Programs
  <2>2. CASE dev_get_by_name("garp") \/ dev_put("garp") \/ garp_send_gratuitous_arp
    BY <1>1, <2>2 DEF dev_get_by_name, dev_put, garp_send_gratuitous_arp
  <2>3. CASE garp_send
    BY <1>1, <1>2, <1>3, <2>1, <2>3 DEF garp_send
  <2>4. QED
    BY <1>5, <2>2, <2>3 DEF garp_init
<1>6. CASE unregister_netdevice
  BY <1>1, <1>6 DEF unregister_netdevice
<1>7. CASE UNCHANGED senderVars
  BY <1>1, <1>7 DEF senderVars
<1>8. QED
  BY <1>4, <1>5, <1>6, <1>7 DEF SendersNext

LEMMA BuiltFits ==
  ASSUME Built PROVE FramesFit
<1> SUFFICES ASSUME NEW p \in Programs, frame[p] # NULL
             PROVE  Fits(asks, frame[p])
  BY DEF FramesFit
<1>1. frame[p] \in {tcp_skb(asks), udp_skb(asks), garp_create(asks)} /\ asks \in Devices
  BY DEF Built
<1>2. QED
  BY <1>1, TcpFits, UdpFits, GarpFits

(* tcp.c, udp.c, garp.c: whatever is handed to dev_queue_xmit fits its     *)
(* buffer and the device, for every device.                                *)
THEOREM FramesAlwaysFit == SendersSpec => []FramesFit
<1>1. SendersInit => Built
  BY BuiltInit
<1>2. Built => FramesFit
  BY BuiltFits
<1>3. QED
  BY <1>1, <1>2, BuiltNext, PTL DEF SendersSpec

-----------------------------------------------------------------------------
(* tcp.c, udp.c, garp.c: references.  Whoever is between dev_get_by_name   *)
(* and dev_put, or left that stretch without dev_put, counts once.         *)
One(p) == IF spc[p] \notin {"start", "done"} \/ p \in kept THEN 1 ELSE 0

RInv ==
  /\ spc \in [Programs -> {"start", "round", "alloc", "xmit", "put", "done", "oops"}]
  /\ \A p \in kept : p \in Programs /\ spc[p] = "done"
  /\ refs = One("tcp") + One("udp") + One("garp")
  /\ eth0 = "gone" => refs = 0

LEMMA RInvInit == SendersInit => RInv
BY DEF SendersInit, RInv, One, Programs

(* A step of p that does not touch the count leaves p a holder or a        *)
(* stranger, as it was.                                                    *)
LEMMA SameHolders ==
  ASSUME RInv, NEW p \in Programs, NEW l, Goto(p, l), UNCHANGED <<eth0, refs>>,
         spc[p] \notin {"start", "done"},
         \/ l \in {"round", "alloc", "xmit", "put", "oops"} /\ kept' = kept
         \/ l = "done" /\ kept' = kept \cup {p}
  PROVE  RInv'
<1>1. /\ spc' \in [Programs -> {"start", "round", "alloc", "xmit", "put", "done", "oops"}]
      /\ spc'[p] = l /\ \A q \in Programs : q # p => spc'[q] = spc[q]
  BY DEF RInv, Goto
<1>2. \A q \in kept' : q \in Programs /\ spc'[q] = "done"
  BY <1>1 DEF RInv
<1>3. \A q \in Programs : One(q)' = One(q)
  BY <1>1 DEF One
<1>4. QED
  BY <1>1, <1>2, <1>3 DEF RInv, Programs

LEMMA RInvGet == ASSUME RInv, NEW p \in Programs, dev_get_by_name(p) PROVE RInv'
<1>1. CASE eth0 = "up"
  <2>1. PICK l \in {"round", "alloc"} : spc' = [spc EXCEPT ![p] = l]
    BY <1>1 DEF dev_get_by_name, Goto
  <2>2. spc[p] = "start" /\ refs' = refs + 1 /\ UNCHANGED <<eth0, kept>>
    BY <1>1 DEF dev_get_by_name
  <2>3. One(p) = 0 /\ One(p)' = 1 /\ \A q \in Programs : q # p => One(q)' = One(q)
    BY <2>1, <2>2 DEF RInv, One
  <2>4. refs' = One("tcp")' + One("udp")' + One("garp")'
    <3>1. \A q \in Programs : One(q) \in 0..1
      BY DEF One
    <3>2. QED
      BY <2>2, <2>3, <3>1 DEF RInv, Programs
  <2>5. /\ spc' \in [Programs -> {"start", "round", "alloc", "xmit", "put", "done", "oops"}]
        /\ \A q \in kept' : q \in Programs /\ spc'[q] = "done"
    BY <2>1, <2>2 DEF RInv
  <2>6. QED
    BY <1>1, <2>2, <2>4, <2>5 DEF RInv
<1>2. CASE eth0 # "up"
  <2>1. spc' = [spc EXCEPT ![p] = "done"] /\ spc[p] = "start" /\ UNCHANGED <<eth0, refs, kept>>
    BY <1>2 DEF dev_get_by_name, Goto
  <2>2. \A q \in Programs : One(q)' = One(q)
    BY <2>1 DEF RInv, One
  <2>3. QED
    BY <2>1, <2>2 DEF RInv, Programs
<1>3. QED
  BY <1>1, <1>2

LEMMA RInvPut == ASSUME RInv, NEW p \in Programs, dev_put(p) PROVE RInv'
<1>1. /\ spc' = [spc EXCEPT ![p] = "done"] /\ spc[p] = "put"
      /\ refs' = refs - 1 /\ UNCHANGED <<eth0, kept>>
  BY DEF dev_put, Goto
<1>2. One(p) = 1 /\ One(p)' = 0 /\ \A q \in Programs : q # p => One(q)' = One(q)
  BY <1>1 DEF RInv, One
<1>3. \A q \in Programs : One(q) \in 0..1
  BY DEF One
<1>4. QED
  BY <1>1, <1>2, <1>3 DEF RInv, Programs

LEMMA RInvNext == ASSUME RInv, [SendersNext]_senderVars PROVE RInv'
<1>1. ASSUME NEW p \in {"tcp", "udp"}, create_new_skb(p) PROVE RInv'
  <2>1. p \in Programs
    BY DEF Programs
  <2>2. CASE alloc_skb(p)
    BY <2>1, <2>2, SameHolders DEF alloc_skb
  <2>3. CASE Xmit(p, "put")
    BY <2>1, <2>3, SameHolders DEF Xmit
  <2>4. QED
    BY <1>1, <2>1, <2>2, <2>3, RInvGet, RInvPut DEF create_new_skb
<1>2. CASE garp_init
  <2>1. "garp" \in Programs
    BY DEF Programs
  <2>2. CASE garp_send_gratuitous_arp
    <3>1. PICK l \in {"put", "oops", "round", "alloc"} : Goto("garp", l)
      BY <2>2 DEF garp_send_gratuitous_arp
    <3>2. QED
      BY <2>1, <2>2, <3>1, SameHolders DEF garp_send_gratuitous_arp
  <2>3. CASE garp_send
    <3>1. PICK l \in {"xmit", "round", "alloc"} : Goto("garp", l)
      BY <2>3 DEF garp_send
    <3>2. QED
      BY <2>1, <2>3, <3>1, SameHolders DEF garp_send
  <2>4. QED
    BY <1>2, <2>1, <2>2, <2>3, RInvGet, RInvPut DEF garp_init
<1>3. CASE unregister_netdevice
  BY <1>3 DEF unregister_netdevice, RInv, One
<1>4. CASE UNCHANGED senderVars
  BY <1>4 DEF senderVars, RInv, One
<1>5. QED
  BY <1>1, <1>2, <1>3, <1>4 DEF SendersNext

(* A count of nought: nobody holds a reference. *)
LEMMA RInvGives == ASSUME RInv PROVE UsedIsThere
<1>1. \A p \in Programs : One(p) \in 0..1
  BY DEF One
<1>2. eth0 = "gone" => \A p \in Programs : One(p) = 0
  BY <1>1 DEF RInv, Programs
<1>3. QED
  BY <1>2 DEF RInv, One, UsedIsThere

-----------------------------------------------------------------------------
(* All of them together. *)

(* A step of the whole is, for each module, a step of it or none. *)
LEMMA Moves ==
  ASSUME [Next]_vars
  PROVE  /\ [SemaNext]_semaVars /\ [WorkNext]_workVars /\ [TimersNext]_timerVars
         /\ [ProcNext]_procVars /\ [SendersNext]_senderVars /\ [MyThreadNext]_myThreadVars
<1>1. CASE UNCHANGED vars
  BY <1>1 DEF vars
<1>2. CASE Next
  BY <1>2, Zenon DEF Next, Step
<1>3. QED
  BY <1>1, <1>2

QuietInv == KInv /\ WInv /\ TInv /\ MInv /\ RInv

(* Nothing of kthread_sema.c, my_wq, hrtimer.c, tasklet.c or mythread.c    *)
(* runs or will run once its module is gone, and no packet sender uses     *)
(* eth0 once that is gone.                                                 *)
THEOREM GoneAlwaysQuiet == Spec => []GoneIsQuiet
<1>1. Init => QuietInv
  <2>1. Init => MInv
    BY DEF Init, MyThreadInit, MInv
  <2>2. QED
    BY <2>1, KInvInit, WInvInit, TInvInit, RInvInit DEF Init, QuietInv
<1>2. QuietInv /\ [Next]_vars => QuietInv'
  BY Moves, KInvNext, WInvNext, TInvNext, MInvNext, RInvNext DEF QuietInv
<1>3. QuietInv => GoneIsQuiet
  <2>1. KInv => SemaGone
    BY DEF KInv, SemaGone, Threads
  <2>2. WInv => WorkGone
    BY DEF WInv, WorkGone, Works, AllWorks
  <2>3. TInv => CancelledIsQuiet
    BY DEF TInv, CancelledIsQuiet
  <2>4. MInv => MyThreadGone
    BY DEF MInv, MyThreadGone
  <2>5. QED
    BY <2>1, <2>2, <2>3, <2>4, RInvGives DEF QuietInv, GoneIsQuiet
<1>4. QED
  BY <1>1, <1>2, <1>3, PTL DEF Spec
=============================================================================
