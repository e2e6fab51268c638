--------------------------- MODULE CaptureProofs ---------------------------
(* Theorems about Capture, for every value of its constants.               *)
EXTENDS Capture, TLAPS, FiniteSetTheorems

USE SizesAssumption, NamesAssumption

(* What the local variables of the threads hold where the code uses them:  *)
(* a hook past cap_buffer_alloc has a buffer, one about to queue has an    *)
(* skb, kcapd has an skb while it sends, and inside cap_receive kcapd only *)
(* ever carries a CAP_GET_PACKET, during a loopback.                       *)
Locals ==
  /\ \A h \in Cpus :
       /\ hpc[h] \in {"build", "queue", "wake", "free"} <=> hcb[h] # NULL
       /\ hpc[h] = "queue" <=> hskb[h] # NULL
  /\ kpc \in {"reply", "unicast", "loopback", "refused", "sent"} <=> kskb # NULL
  /\ rop[Kcapd] = "CAP_GET_PACKET"
  /\ rpc[Kcapd] \in {"out", "lock", "check", "unlock"}
  /\ rpc[Kcapd] # "out" => kpc = "loopback"

TInv == TypeOK /\ Locals

(* A command changes at most one slot of the table, and counts it.         *)
LEMMA TableSlot ==
  ASSUME usrtab \in [Slots -> Ports], usrcnt \in Int, NEW p \in Ports,
         user_join(p) \/ user_leave(p)
  PROVE  /\ usrtab' \in [Slots -> Ports]
         /\ usrcnt' \in Int
<1>1. CASE user_join(p)
  <2>1. CASE UNCHANGED tabVars
    BY <2>1 DEF tabVars
  <2>2. CASE \E i \in Slots : usrtab' = [usrtab EXCEPT ![i] = p] /\ usrcnt' = usrcnt + 1
    BY <2>2
  <2>3. QED
    BY <1>1, <2>1, <2>2 DEF user_join
<1>2. CASE user_leave(p)
  <2>1. CASE UNCHANGED tabVars
    BY <2>1 DEF tabVars
  <2>2. CASE \E i \in Slots : usrtab' = [usrtab EXCEPT ![i] = Kernel] /\ usrcnt' = usrcnt - 1
    BY <2>2 DEF Ports
  <2>3. QED
    BY <1>2, <2>1, <2>2 DEF user_leave
<1>3. QED
  BY <1>1, <1>2

LEMMA TInvInit == Init => TInv
BY DEF Init, TInv, TypeOK, Locals, Receivers, Slots, Ports

LEMMA TInvReceive ==
  ASSUME TInv, NEW r \in Receivers, cap_receive(r) PROVE TInv'
<1> USE DEF TInv, Receivers, Ports, Goto, portVars, tabVars, recvVars,
            listVars, hookVars, kcapVars, userVars, skbVars
<1>1. CASE MutexLock(r)
  BY <1>1 DEF MutexLock, TypeOK, Locals
<1>2. CASE StartKcapd(r)
  <2> USE DEF TypeOK, Locals
  <2>1. CASE kpc # "none" /\ Goto(r, AfterCheck(r)) /\ UNCHANGED <<kpc, rcvq>>
    BY <1>2, <2>1 DEF StartKcapd, AfterCheck
  <2>2. CASE kpc = "none" /\ kpc' = "dequeue" /\ Goto(r, AfterCheck(r)) /\ UNCHANGED rcvq
    BY <1>2, <2>2 DEF StartKcapd, AfterCheck
  <2>3. CASE /\ kpc = "none" /\ Goto(r, "unlock") /\ UNCHANGED kpc
             /\ rcvq' = IF Len(rcvq[r]) < RcvBuf
                        THEN [rcvq EXCEPT ![r] = Append(@, ACK)] ELSE rcvq
    <3>1. r \in Clients
      BY <1>2, <2>3 DEF StartKcapd
    <3>2. rcvq' \in [Clients -> Seq(Skbs \cup {ACK})]
      BY <2>3, <3>1
    <3>3. QED
      BY <1>2, <2>3, <3>1, <3>2 DEF StartKcapd
  <2>4. QED
    BY <1>2, <2>1, <2>2, <2>3 DEF StartKcapd
<1>3. CASE SetPort(r)
  BY <1>3 DEF SetPort, TypeOK, Locals
<1>4. CASE UpdateTable(r)
  <2> USE DEF TypeOK, Locals
  <2>1. r \in Clients
    BY <1>4 DEF UpdateTable
  <2>2. usrtab' \in [Slots -> Ports] /\ usrcnt' \in Int
    BY <1>4, <2>1, TableSlot DEF UpdateTable
  <2>3. QED
    BY <1>4, <2>1, <2>2 DEF UpdateTable
<1>5. CASE MutexUnlock(r)
  <2> USE DEF TypeOK, Locals
  <2>1. CASE r = Kcapd
    BY <1>5, <2>1 DEF MutexUnlock
  <2>2. CASE r \in Clients
    BY <1>5, <2>2, ZenonT(30) DEF MutexUnlock
  <2>3. QED
    BY <2>1, <2>2
<1>6. QED
  BY <1>1, <1>2, <1>3, <1>4, <1>5 DEF cap_receive

LEMMA TInvHook ==
  ASSUME TInv, NEW h \in Cpus, hook_func_queue(h) PROVE TInv'
<1> USE DEF TInv, Receivers, Ports, portVars, tabVars, recvVars,
            listVars, hookVars, kcapVars, userVars, skbVars
<1>1. CASE HookEnter(h)
  BY <1>1 DEF HookEnter, TypeOK, Locals
<1>2. CASE HookAlloc(h)
  <2> USE DEF TypeOK, Locals
  <2>1. CASE /\ cap_freelist # <<>>
             /\ hcb' = [hcb EXCEPT ![h] = Head(cap_freelist)]
             /\ cap_freelist' = Tail(cap_freelist)
             /\ cap_freelist_count' = cap_freelist_count - 1
             /\ hpc' = [hpc EXCEPT ![h] = "build"]
    <3>1. Head(cap_freelist) \in Buffers /\ Tail(cap_freelist) \in Seq(Buffers)
      BY <2>1
    <3>2. QED
      BY <1>2, <2>1, <3>1 DEF HookAlloc
  <2>2. CASE \E b \in Buffers : /\ hcb' = [hcb EXCEPT ![h] = b]
                               /\ hpc' = [hpc EXCEPT ![h] = "build"]
                               /\ UNCHANGED listVars
    BY <1>2, <2>2 DEF HookAlloc
  <2>3. CASE hpc' = [hpc EXCEPT ![h] = "oops"] /\ UNCHANGED <<hcb, listVars>>
    BY <1>2, <2>3 DEF HookAlloc
  <2>4. QED
    BY <1>2, <2>1, <2>2, <2>3 DEF HookAlloc
<1>3. CASE HookBuild(h)
  <2> USE DEF TypeOK, Locals
  <2>1. CASE \E s \in fresh : /\ hskb' = [hskb EXCEPT ![h] = s]
                             /\ fresh' = fresh \ {s}
                             /\ refs' = [refs EXCEPT ![s] = 1]
                             /\ hpc' = [hpc EXCEPT ![h] = "queue"]
    BY <1>3, <2>1 DEF HookBuild
  <2>2. CASE hpc' = [hpc EXCEPT ![h] = "free"] /\ UNCHANGED <<hskb, skbVars>>
    BY <1>3, <2>2 DEF HookBuild
  <2>3. QED
    BY <1>3, <2>1, <2>2 DEF HookBuild
<1>4. CASE HookQueue(h)
  BY <1>4 DEF HookQueue, TypeOK, Locals
<1>5. CASE HookWake(h)
  BY <1>5 DEF HookWake, TypeOK, Locals
<1>6. CASE HookFree(h)
  <2> USE DEF TypeOK, Locals
  <2>1. cap_freelist' \in Seq(Buffers) /\ cap_freelist_count' \in Int
    <3>1. hcb[h] \in Buffers
      BY <1>6 DEF HookFree
    <3>2. <<hcb[h]>> \o cap_freelist \in Seq(Buffers)
      BY <3>1
    <3>3. QED
      <4>1. CASE cap_freelist_count >= CAP_MAXFREE
        BY <1>6, <4>1 DEF HookFree, cap_buffer_free
      <4>2. CASE ~(cap_freelist_count >= CAP_MAXFREE)
        <5>1. /\ cap_freelist' = <<hcb[h]>> \o cap_freelist
              /\ cap_freelist_count' = cap_freelist_count + 1
          BY <1>6, <4>2, Zenon DEF HookFree, cap_buffer_free
        <5>2. cap_freelist' \in Seq(Buffers)
          BY <3>2, <5>1, Zenon
        <5>3. cap_freelist_count + 1 \in Int
          OBVIOUS
        <5>4. QED
          BY <5>1, <5>2, <5>3, Zenon
      <4>3. QED
        BY <4>1, <4>2
  <2>2. QED
    BY <1>6, <2>1 DEF HookFree, cap_buffer_free
<1>7. QED
  BY <1>1, <1>2, <1>3, <1>4, <1>5, <1>6 DEF hook_func_queue, HookRun

LEMMA TInvKcapd ==
  ASSUME TInv, kcapd_thread PROVE TInv'
<1> USE DEF TInv, Receivers, Ports, KcapdUnchanged, portVars, tabVars, recvVars,
            listVars, hookVars, kcapVars, userVars, skbVars
<1>1. CASE KcapdDequeue
  <2> USE DEF TypeOK, Locals
  <2>1. CASE cap_skb_queue # <<>>
    <3>1. Head(cap_skb_queue) \in Skbs /\ Tail(cap_skb_queue) \in Seq(Skbs)
      BY <2>1
    <3>2. QED
      <4>1. /\ kskb' \in Skbs /\ cap_skb_queue' \in Seq(Skbs) /\ kpc' = "reply"
            /\ kpc = "dequeue"
        BY <1>1, <2>1, <3>1 DEF KcapdDequeue
      <4>2. TypeOK'
        BY <1>1, <4>1 DEF KcapdDequeue
      <4>3. QED
        BY <1>1, <4>1, <4>2 DEF KcapdDequeue
  <2>2. CASE cap_skb_queue = <<>>
    BY <1>1, <2>2 DEF KcapdDequeue
  <2>3. QED
    BY <2>1, <2>2
<1>2. CASE KcapdWait
  BY <1>2 DEF KcapdWait, TypeOK, Locals
<1>3. CASE KcapdPrepare
  BY <1>3 DEF KcapdPrepare, TypeOK, Locals
<1>4. CASE KcapdTest
  BY <1>4 DEF KcapdTest, TypeOK, Locals
<1>5. CASE KcapdWoken
  BY <1>5 DEF KcapdWoken, TypeOK, Locals
<1>6. CASE KcapdReply
  BY <1>6 DEF KcapdReply, TypeOK, Locals
<1>7. CASE netlink_unicast
  <2> USE DEF TypeOK, Locals
  <2>1. CASE /\ kport \in Clients /\ rcvq' = [rcvq EXCEPT ![kport] = Append(@, kskb)]
             /\ kpc' = "sent" /\ UNCHANGED <<recvVars, refs>>
    BY <1>7, <2>1 DEF netlink_unicast
  <2>2. CASE /\ refs' = [refs EXCEPT ![kskb] = @ - 1]
             /\ kpc' = "refused" /\ UNCHANGED <<recvVars, rcvq>>
    BY <1>7, <2>2 DEF netlink_unicast
  <2>3. CASE /\ rpc' = [rpc EXCEPT ![Kcapd] = "lock"]
             /\ rop' = [rop EXCEPT ![Kcapd] = "CAP_GET_PACKET"]
             /\ kpc' = "loopback" /\ UNCHANGED <<cap_cmd_mutex, rcvq, refs>>
    BY <1>7, <2>3 DEF netlink_unicast
  <2>4. QED
    BY <1>7, <2>1, <2>2, <2>3 DEF netlink_unicast
<1>8. CASE KcapdRefused
  BY <1>8 DEF KcapdRefused, TypeOK, Locals
<1>9. CASE KcapdSent
  BY <1>9 DEF KcapdSent, TypeOK, Locals
<1>10. QED
  BY <1>1, <1>2, <1>3, <1>4, <1>5, <1>6, <1>7, <1>8, <1>9 DEF kcapd_thread

LEMMA TInvClient ==
  ASSUME TInv, NEW c \in Clients, user_client(c) PROVE TInv'
<1> USE DEF TInv, Receivers, Ports, UserUnchanged, send_to_kernel, portVars,
            tabVars, recvVars, listVars, hookVars, kcapVars, userVars, skbVars
<1>1. CASE ClientStart(c)
  BY <1>1 DEF ClientStart, TypeOK, Locals
<1>2. CASE ClientRecv(c)
  <2> USE DEF TypeOK, Locals
  <2>1. rcvq' \in [Clients -> Seq(Skbs \cup {ACK})]
    BY <1>2 DEF ClientRecv, recv_from_kernel
  <2>2. refs' \in [Skbs -> Int] /\ time' \in [Clients -> Int]
    BY <1>2 DEF ClientRecv, recv_from_kernel
  <2>3. CASE time[c] = 1
    <3>1. /\ upc' \in [Clients -> {"start", "add", "recv", "del", "exit", "closed"}]
          /\ rpc' = [rpc EXCEPT ![c] = "lock"] /\ rop' = [rop EXCEPT ![c] = "CAP_DEL"]
      BY <1>2, <2>3, ZenonT(30) DEF ClientRecv
    <3>2. QED
      BY <1>2, <2>1, <2>2, <3>1, ZenonT(30) DEF ClientRecv
  <2>4. CASE time[c] # 1
    BY <1>2, <2>1, <2>2, <2>4, ZenonT(30) DEF ClientRecv
  <2>5. QED
    BY <2>3, <2>4
<1>3. CASE ClientExit(c) \/ ClientKilled(c)
  <2> USE DEF TypeOK, Locals
  <2>1. Close(c)
    BY <1>3 DEF ClientExit, ClientKilled
  <2>2. rcvq' \in [Clients -> Seq(Skbs \cup {ACK})] /\ refs' \in [Skbs -> Int]
    <3>1. <<>> \in Seq(Skbs \cup {ACK})
      OBVIOUS
    <3>2. rcvq' \in [Clients -> Seq(Skbs \cup {ACK})]
      BY <2>1, <3>1 DEF Close
    <3>3. refs' \in [Skbs -> Int]
      BY <2>1 DEF Close
    <3>4. QED
      BY <3>2, <3>3
  <2>3. QED
    BY <2>1, <2>2 DEF Close
<1>4. QED
  BY <1>1, <1>2, <1>3 DEF user_client

LEMMA TInvStutter == ASSUME TInv, UNCHANGED vars PROVE TInv'
BY DEF TInv, TypeOK, Locals, vars, portVars, tabVars, recvVars, listVars,
       hookVars, kcapVars, userVars, skbVars

LEMMA TInvNext == TInv /\ [Next]_vars => TInv'
BY TInvReceive, TInvHook, TInvKcapd, TInvClient, TInvStutter DEF Next

(* Types are preserved by every interleaving of hooks, kcapd, commands and *)
(* clients, for any number of each and any table and buffer sizes.         *)
THEOREM TypeCorrect == Spec => []TypeOK
<1>1. TInv => TypeOK
  BY DEF TInv
<1>2. QED
  BY TInvInit, TInvNext, <1>1, PTL DEF Spec

-----------------------------------------------------------------------------
(* cap_cmd_mutex is owned by the one caller that is inside cap_receive, and *)
(* a client that is not in sendmsg is outside it.                           *)
CInv ==
  /\ \A r \in Receivers :
       rpc[r] \in {"check", "port", "table", "unlock"} <=> cap_cmd_mutex = r
  /\ \A c \in Clients : upc[c] \notin {"add", "del"} => rpc[c] = "out"

LEMMA CInvInit == Init => CInv
BY DEF Init, CInv, Receivers

LEMMA CInvNext == TInv /\ CInv /\ [Next]_vars => CInv'
<1> SUFFICES ASSUME TInv, CInv, [Next]_vars PROVE CInv'
  OBVIOUS
<1> USE DEF TInv, TypeOK, Locals, CInv, Receivers, portVars, tabVars, recvVars,
            listVars, hookVars, kcapVars, userVars, skbVars
<1>1. ASSUME NEW r \in Receivers, cap_receive(r) PROVE CInv'
  <2> USE DEF Goto
  <2>1. CASE MutexLock(r)
    BY <2>1 DEF MutexLock
  <2>2. CASE StartKcapd(r)
    BY <2>2 DEF StartKcapd, AfterCheck
  <2>3. CASE SetPort(r)
    BY <2>3 DEF SetPort
  <2>4. CASE UpdateTable(r)
    BY <2>4 DEF UpdateTable
  <2>5. CASE MutexUnlock(r)
    BY <2>5 DEF MutexUnlock
  <2>6. QED
    BY <1>1, <2>1, <2>2, <2>3, <2>4, <2>5 DEF cap_receive
<1>2. ASSUME NEW h \in Cpus, hook_func_queue(h) PROVE CInv'
  <2>1. UNCHANGED <<recvVars, upc>>
    BY <1>2 DEF hook_func_queue, HookEnter, HookRun, HookAlloc, HookBuild,
                HookQueue, HookWake, HookFree
  <2>2. QED
    BY <2>1
<1>3. ASSUME kcapd_thread PROVE CInv'
  <2> USE DEF KcapdUnchanged
  <2>1. CASE netlink_unicast
    BY <2>1 DEF netlink_unicast
  <2>2. CASE ~netlink_unicast
    <3>1. UNCHANGED <<recvVars, upc>>
      BY <1>3, <2>2 DEF kcapd_thread, KcapdDequeue, KcapdWait, KcapdPrepare,
           KcapdTest, KcapdWoken, KcapdReply, KcapdRefused, KcapdSent
    <3>2. QED
      BY <3>1
  <2>3. QED
    BY <2>1, <2>2
<1>4. ASSUME NEW c \in Clients, user_client(c) PROVE CInv'
  <2> USE DEF send_to_kernel, UserUnchanged
  <2>1. CASE ClientStart(c)
    BY <2>1 DEF ClientStart
  <2>2. CASE ClientRecv(c)
    <3>1. /\ upc[c] = "recv" /\ UNCHANGED cap_cmd_mutex
          /\ \/ /\ upc' = [upc EXCEPT ![c] = "del"]
                /\ rpc' = [rpc EXCEPT ![c] = "lock"]
             \/ UNCHANGED <<upc, rpc>>
      BY <2>2 DEF ClientRecv
    <3>2. rpc[c] = "out" /\ cap_cmd_mutex # c
      BY <3>1
    <3>3. CASE /\ upc' = [upc EXCEPT ![c] = "del"]
               /\ rpc' = [rpc EXCEPT ![c] = "lock"]
      BY <3>1, <3>2, <3>3
    <3>4. CASE UNCHANGED <<upc, rpc>>
      BY <3>1, <3>4
    <3>5. QED
      BY <3>1, <3>3, <3>4
  <2>3. CASE ClientExit(c) \/ ClientKilled(c)
    <3>1. /\ upc[c] \in {"recv", "exit"} /\ UNCHANGED <<cap_cmd_mutex, rpc>>
          /\ upc' = [upc EXCEPT ![c] = "closed"]
      BY <2>3 DEF ClientExit, ClientKilled, Close
    <3>2. QED
      BY <3>1
  <2>4. QED
    BY <1>4, <2>1, <2>2, <2>3 DEF user_client
<1>5. CASE UNCHANGED vars
  BY <1>5 DEF vars
<1>6. QED
  BY <1>1, <1>2, <1>3, <1>4, <1>5 DEF Next

-----------------------------------------------------------------------------
(* KcapdStarted is not inductive alone: a hook that has passed its test of *)
(* the port still has to queue, and a command that has passed the start of *)
(* kcapd still has to set the port.                                        *)
KInv ==
  /\ KcapdStarted
  /\ \A h \in Cpus : hpc[h] # "idle" => kpc # "none"
  /\ \A r \in Receivers : rpc[r] \in {"port", "table"} => kpc # "none"

LEMMA KInvInit == Init => KInv
BY DEF Init, KInv, KcapdStarted, Receivers

LEMMA KInvNext == TInv /\ CInv /\ KInv /\ [Next]_vars => KInv'
<1> SUFFICES ASSUME TInv, CInv, KInv, [Next]_vars PROVE KInv'
  OBVIOUS
<1> USE DEF TInv, TypeOK, Locals, KInv, KcapdStarted, Receivers, portVars, tabVars,
            recvVars, listVars, hookVars, kcapVars, userVars, skbVars
<1>1. ASSUME NEW r \in Receivers, cap_receive(r) PROVE KInv'
  <2> USE DEF Goto
  <2>1. CASE MutexLock(r)
    BY <2>1 DEF MutexLock
  <2>2. CASE StartKcapd(r)
    BY <2>2 DEF StartKcapd, AfterCheck
  <2>3. CASE SetPort(r)
    BY <2>3 DEF SetPort
  <2>4. CASE UpdateTable(r)
    BY <2>4 DEF UpdateTable
  <2>5. CASE MutexUnlock(r)
    BY <2>5 DEF MutexUnlock
  <2>6. QED
    BY <1>1, <2>1, <2>2, <2>3, <2>4, <2>5 DEF cap_receive
<1>2. ASSUME NEW h \in Cpus, hook_func_queue(h) PROVE KInv'
  <2>1. UNCHANGED <<cap_nlk_portid, rpc, kpc>> /\ (kpc = "none" => UNCHANGED <<hpc, cap_skb_queue>>)
    BY <1>2 DEF hook_func_queue, HookEnter, HookRun, HookAlloc, HookBuild,
                HookQueue, HookWake, HookFree
  <2>2. QED
    BY <2>1
<1>3. ASSUME kcapd_thread PROVE KInv'
  <2>1. kpc' # "none"
    BY <1>3 DEF kcapd_thread, KcapdDequeue, KcapdWait, KcapdPrepare, KcapdTest,
         KcapdWoken, KcapdReply, netlink_unicast, KcapdRefused, KcapdSent
  <2>2. QED
    BY <2>1
<1>4. ASSUME NEW c \in Clients, user_client(c) PROVE KInv'
  <2>1. UNCHANGED <<cap_nlk_portid, kpc, hpc, cap_skb_queue>>
    BY <1>4 DEF user_client, ClientStart, ClientRecv, ClientExit, ClientKilled,
                Close, UserUnchanged
  <2>2. \A r \in Receivers : rpc'[r] = rpc[r] \/ rpc'[r] = "lock"
    BY <1>4 DEF user_client, ClientStart, ClientRecv, ClientExit, ClientKilled,
                Close, UserUnchanged, send_to_kernel
  <2>3. QED
    BY <2>1, <2>2
<1>5. CASE UNCHANGED vars
  BY <1>5 DEF vars
<1>6. QED
  BY <1>1, <1>2, <1>3, <1>4, <1>5 DEF Next

(* Whenever a packet may be captured or is queued, kcapd has been started. *)
THEOREM KcapdAlwaysStarted == Spec => []KcapdStarted
<1>1. KInv => KcapdStarted
  BY DEF KInv
<1>2. QED
  BY TInvInit, TInvNext, CInvInit, CInvNext, KInvInit, KInvNext, <1>1, PTL DEF Spec

-----------------------------------------------------------------------------
(* The user table.                                                          *)
Used == {i \in Slots : usrtab[i] # Kernel}

(* A full scan finds no free slot only when usrcnt is at its maximum.       *)
LEMMA UsedBounds ==
  ASSUME usrtab \in [Slots -> Ports], UserCount
  PROVE  /\ IsFiniteSet(Used)
         /\ usrcnt \in 0 .. MAX_TAB_SIZE
         /\ (\A i \in Slots : usrtab[i] # Kernel) => usrcnt = MAX_TAB_SIZE
<1>1. IsFiniteSet(Slots) /\ Cardinality(Slots) = MAX_TAB_SIZE
  <2>1. 0 \in Int /\ MAX_TAB_SIZE - 1 \in Int
    OBVIOUS
  <2>2. QED
    BY <2>1, FS_Interval DEF Slots
<1>2. Used \in SUBSET Slots
  BY DEF Used
<1>3. /\ IsFiniteSet(Used)
      /\ Cardinality(Used) <= MAX_TAB_SIZE
  BY <1>1, <1>2, FS_Subset
<1>4. Cardinality(Used) \in Nat
  BY <1>3, FS_CardinalityType
<1>5. usrcnt = Cardinality(Used)
  BY DEF UserCount, Used
<1>6. (\A i \in Slots : usrtab[i] # Kernel) => Used = Slots
  BY DEF Used
<1>7. QED
  BY <1>1, <1>3, <1>4, <1>5, <1>6

(* Joining and leaving keep usrcnt the number of used slots.                *)
LEMMA TableCount ==
  ASSUME usrtab \in [Slots -> Ports], UserCount, NEW p \in Clients,
         user_join(p) \/ user_leave(p)
  PROVE  UserCount'
<1>1. IsFiniteSet(Used) /\ usrcnt = Cardinality(Used) /\ usrcnt \in Int
  BY UsedBounds DEF UserCount, Used
<1>2. CASE UNCHANGED tabVars
  BY <1>2 DEF tabVars, UserCount
<1>3. CASE \E i \in Slots : /\ usrtab[i] = Kernel
                           /\ usrtab' = [usrtab EXCEPT ![i] = p]
                           /\ usrcnt' = usrcnt + 1
  <2>1. PICK i \in Slots : /\ usrtab[i] = Kernel
                           /\ usrtab' = [usrtab EXCEPT ![i] = p]
                           /\ usrcnt' = usrcnt + 1
    BY <1>3
  <2>2. Used' = Used \cup {i} /\ i \notin Used
    BY <2>1 DEF Used
  <2>3. Cardinality(Used \cup {i}) = Cardinality(Used) + 1
    BY <1>1, <2>2, FS_AddElement
  <2>4. QED
    BY <1>1, <2>1, <2>2, <2>3 DEF UserCount, Used
<1>4. CASE \E i \in Slots : /\ usrtab[i] = p
                           /\ usrtab' = [usrtab EXCEPT ![i] = Kernel]
                           /\ usrcnt' = usrcnt - 1
  <2>1. PICK i \in Slots : /\ usrtab[i] = p
                           /\ usrtab' = [usrtab EXCEPT ![i] = Kernel]
                           /\ usrcnt' = usrcnt - 1
    BY <1>4
  <2>2. Used' = Used \ {i} /\ i \in Used
    BY <2>1 DEF Used
  <2>3. Cardinality(Used \ {i}) = Cardinality(Used) - 1
    BY <1>1, <2>2, FS_RemoveElement
  <2>4. QED
    BY <1>1, <2>1, <2>2, <2>3 DEF UserCount, Used
<1>5. QED
  BY <1>2, <1>3, <1>4 DEF user_join, user_leave, FirstSlot

(* PortRegistered needs to know what a command that has set the port and   *)
(* not yet updated the table may find: a CAP_DEL finds port 0, a CAP_ADD   *)
(* its own pid, or 0 if kcapd cleared it in between.                       *)
PInv ==
  /\ UserCount
  /\ PortRegistered
  /\ \A r \in Receivers : rpc[r] = "table" =>
       cap_nlk_portid \in IF rop[r] = "CAP_ADD" THEN {r, Kernel} ELSE {Kernel}

LEMMA PInvInit == Init => PInv
<1> SUFFICES ASSUME Init PROVE PInv
  OBVIOUS
<1>1. {i \in Slots : usrtab[i] # Kernel} = {}
  BY DEF Init
<1>2. QED
  BY <1>1, FS_EmptySet DEF Init, PInv, UserCount, PortRegistered, Receivers

LEMMA PInvUpdateTable ==
  ASSUME TInv, CInv, PInv, NEW r \in Receivers, UpdateTable(r) PROVE PInv'
<1> USE DEF Receivers, portVars, listVars, hookVars, kcapVars, userVars, skbVars
<1>1. /\ r \in Clients /\ rpc[r] = "table" /\ cap_cmd_mutex = r
      /\ UNCHANGED <<cap_nlk_portid, cap_cmd_mutex, rop>>
      /\ rpc' = [rpc EXCEPT ![r] = "unlock"]
      /\ \/ rop[r] = "CAP_ADD" /\ user_join(r)
         \/ rop[r] = "CAP_DEL" /\ user_leave(r)
  BY DEF UpdateTable, Goto, TInv, TypeOK, Locals, CInv
<1>2. usrtab \in [Slots -> Ports] /\ usrcnt \in Int /\ cap_nlk_portid \in Ports
  BY DEF TInv, TypeOK
<1>3. UserCount'
  BY <1>1, <1>2, TableCount DEF PInv
<1>4. \A q \in Receivers : rpc'[q] # "table"
  BY <1>1 DEF TInv, TypeOK, CInv
<1>5. PortRegistered'
  <2>1. CASE rop[r] = "CAP_DEL"
    BY <1>1, <2>1 DEF PInv, PortRegistered
  <2>2. CASE rop[r] = "CAP_ADD" /\ cap_nlk_portid = r
    <3>1. CASE UNCHANGED tabVars
      <4>1. usrcnt >= MAX_TAB_SIZE \/ \A i \in Slots : usrtab[i] # Kernel
        BY <1>1, <1>2, <2>2, <3>1 DEF user_join, tabVars
      <4>2. usrcnt = MAX_TAB_SIZE
        BY <1>2, <4>1, UsedBounds DEF PInv
      <4>3. QED
        BY <3>1, <4>2 DEF tabVars, PortRegistered
    <3>2. CASE \E i \in Slots : usrtab' = [usrtab EXCEPT ![i] = r]
      BY <1>1, <1>2, <2>2, <3>2 DEF PortRegistered
    <3>3. QED
      BY <1>1, <2>2, <3>1, <3>2 DEF user_join
  <2>3. CASE cap_nlk_portid = Kernel
    BY <1>1, <2>3 DEF PortRegistered
  <2>4. QED
    BY <1>1, <2>1, <2>2, <2>3 DEF PInv
<1>6. QED
  BY <1>3, <1>4, <1>5 DEF PInv

LEMMA PInvNext == TInv /\ CInv /\ PInv /\ [Next]_vars => PInv'
<1> SUFFICES ASSUME TInv, CInv, PInv, [Next]_vars PROVE PInv'
  OBVIOUS
<1> USE DEF Receivers, Ports, portVars, tabVars, recvVars,
            listVars, hookVars, kcapVars, userVars, skbVars
<1>t. /\ rpc \in [Receivers -> {"out", "lock", "check", "port", "table", "unlock"}]
      /\ cap_nlk_portid \in Ports
  BY DEF TInv, TypeOK
<1>1. ASSUME NEW r \in Receivers, cap_receive(r) PROVE PInv'
  <2> USE DEF Goto
  <2>1. CASE MutexLock(r)
    BY <1>t, <2>1 DEF MutexLock, CInv, PInv, UserCount, PortRegistered
  <2>2. CASE StartKcapd(r)
    BY <1>t, <2>2 DEF StartKcapd, AfterCheck, CInv, PInv, UserCount, PortRegistered
  <2>3. CASE SetPort(r)
    <3>1. cap_cmd_mutex = r /\ \A q \in Receivers : rpc'[q] = "table" => q = r
      BY <1>t, <2>3 DEF SetPort, CInv
    <3>2. QED
      BY <1>t, <2>3, <3>1 DEF SetPort, PInv, UserCount, PortRegistered
  <2>4. CASE UpdateTable(r)
    BY <2>4, PInvUpdateTable
  <2>5. CASE MutexUnlock(r)
    BY <1>t, <2>5 DEF MutexUnlock, CInv, PInv, UserCount, PortRegistered
  <2>6. QED
    BY <1>1, <2>1, <2>2, <2>3, <2>4, <2>5 DEF cap_receive
<1>2. ASSUME NEW h \in Cpus, hook_func_queue(h) PROVE PInv'
  <2>1. UNCHANGED <<portVars, tabVars, recvVars>>
    BY <1>2 DEF hook_func_queue, HookEnter, HookRun, HookAlloc, HookBuild,
                HookQueue, HookWake, HookFree
  <2>2. QED
    BY <2>1 DEF PInv, UserCount, PortRegistered
<1>3. ASSUME kcapd_thread PROVE PInv'
  <2> USE DEF KcapdUnchanged
  <2>1. CASE netlink_unicast
    <3>1. /\ UNCHANGED <<portVars, tabVars, cap_cmd_mutex>>
          /\ \A q \in Receivers : rpc'[q] = "table" <=> rpc[q] = "table"
          /\ \A q \in Receivers : rpc[q] = "table" => rop'[q] = rop[q]
      BY <1>t, <2>1 DEF netlink_unicast, TInv, TypeOK, Locals
    <3>2. QED
      BY <1>t, <3>1 DEF PInv, UserCount, PortRegistered, CInv
  <2>2. CASE KcapdRefused
    BY <2>2 DEF KcapdRefused, PInv, UserCount, PortRegistered
  <2>3. CASE ~netlink_unicast /\ ~KcapdRefused
    <3>1. UNCHANGED <<portVars, tabVars, recvVars>>
      BY <1>3, <2>3 DEF kcapd_thread, KcapdDequeue, KcapdWait, KcapdPrepare,
           KcapdTest, KcapdWoken, KcapdReply, KcapdSent
    <3>2. QED
      BY <3>1 DEF PInv, UserCount, PortRegistered
  <2>4. QED
    BY <2>1, <2>2, <2>3
<1>4. ASSUME NEW c \in Clients, user_client(c) PROVE PInv'
  <2>1. UNCHANGED <<portVars, tabVars, cap_cmd_mutex>>
    BY <1>4 DEF user_client, ClientStart, ClientRecv, ClientExit, ClientKilled,
                Close, UserUnchanged
  <2>2. /\ \A q \in Receivers : rpc'[q] = "table" <=> rpc[q] = "table"
        /\ \A q \in Receivers : rpc[q] = "table" => rop'[q] = rop[q]
    <3>1. CASE UNCHANGED <<rpc, rop>>
      BY <3>1
    <3>2. CASE /\ upc[c] \in {"start", "recv"}
               /\ \E o : send_to_kernel(c, o)
      BY <1>t, <3>2, ZenonT(30) DEF send_to_kernel, CInv, TInv, TypeOK
    <3>3. QED
      BY <1>4, <3>1, <3>2 DEF user_client, ClientStart, ClientRecv, ClientExit,
                              ClientKilled, Close
  <2>3. QED
    BY <1>t, <2>1, <2>2, ZenonT(30) DEF PInv, UserCount, PortRegistered, CInv
<1>5. CASE UNCHANGED vars
  BY <1>5 DEF vars, PInv, UserCount, PortRegistered
<1>6. QED
  BY <1>1, <1>2, <1>3, <1>4, <1>5 DEF Next

LEMMA PInvHolds == Spec => []PInv
BY TInvInit, TInvNext, CInvInit, CInvNext, PInvInit, PInvNext, PTL DEF Spec

(* usrcnt is the number of used slots, for any number of clients and any   *)
(* table size.                                                             *)
THEOREM UsersAlwaysCount == Spec => []UserCount
<1>1. PInv => UserCount
  BY DEF PInv
<1>2. QED
  BY <1>1, PInvHolds, PTL

(* The port captured for and the table agree, for any number of clients    *)
(* and any table size, whatever kcapd does to the port.                    *)
THEOREM PortAlwaysRegistered == Spec => []PortRegistered
<1>1. PInv => PortRegistered
  BY DEF PInv
<1>2. QED
  BY <1>1, PInvHolds, PTL

-----------------------------------------------------------------------------
(* kcapd falls asleep only after a test that found the queue empty, and a  *)
(* hook that queues has its wake-up still to do, so no packet waits on a   *)
(* sleeping kcapd with nobody left to wake it.                             *)
LEMMA WakeupInit == Init => NoLostWakeup
BY DEF Init, NoLostWakeup

LEMMA WakeupNext == TInv /\ NoLostWakeup /\ [Next]_vars => NoLostWakeup'
<1> SUFFICES ASSUME TInv, NoLostWakeup, [Next]_vars PROVE NoLostWakeup'
  OBVIOUS
<1> USE DEF NoLostWakeup, portVars, tabVars, recvVars, listVars, hookVars,
            kcapVars, userVars, skbVars
<1>t. hpc \in [Cpus -> {"idle", "alloc", "build", "queue", "wake", "free", "oops"}]
  BY DEF TInv, TypeOK
<1>1. ASSUME NEW r \in Receivers, cap_receive(r) PROVE NoLostWakeup'
  <2>1. /\ UNCHANGED <<hpc, kstate, cap_skb_queue>>
        /\ kpc' \in {kpc, "dequeue", "sent"}
    BY <1>1, ZenonT(30) DEF cap_receive, MutexLock, StartKcapd, SetPort, UpdateTable, MutexUnlock
  <2>2. QED
    BY <2>1
<1>2. ASSUME NEW h \in Cpus, hook_func_queue(h) PROVE NoLostWakeup'
  <2>1. CASE HookQueue(h)
    BY <1>t, <2>1 DEF HookQueue
  <2>2. CASE HookWake(h)
    BY <2>2 DEF HookWake
  <2>3. CASE ~HookQueue(h) /\ ~HookWake(h)
    <3>1. /\ UNCHANGED <<kpc, kstate, cap_skb_queue>> /\ hpc[h] # "wake"
          /\ \E l : hpc' = [hpc EXCEPT ![h] = l]
      BY <1>2, <2>3 DEF hook_func_queue, HookEnter, HookRun, HookAlloc, HookBuild,
                        HookFree
    <3>2. QED
      BY <1>t, <3>1
  <2>4. QED
    BY <2>1, <2>2, <2>3
<1>3. ASSUME kcapd_thread PROVE NoLostWakeup'
  <2> USE DEF KcapdUnchanged
  <2>1. CASE KcapdTest
    BY <2>1 DEF KcapdTest
  <2>2. CASE ~KcapdTest
    <3>1. kpc' # "sleep"
      BY <1>3, <2>2 DEF kcapd_thread, KcapdDequeue, KcapdWait, KcapdPrepare,
           KcapdWoken, KcapdReply, netlink_unicast, KcapdRefused, KcapdSent
    <3>2. QED
      BY <3>1
  <2>3. QED
    BY <2>1, <2>2
<1>4. ASSUME NEW c \in Clients, user_client(c) PROVE NoLostWakeup'
  <2>1. UNCHANGED <<hpc, kpc, kstate, cap_skb_queue>>
    BY <1>4 DEF user_client, ClientStart, ClientRecv, ClientExit, ClientKilled,
                Close, UserUnchanged
  <2>2. QED
    BY <2>1
<1>5. CASE UNCHANGED vars
  BY <1>5 DEF vars
<1>6. QED
  BY <1>1, <1>2, <1>3, <1>4, <1>5 DEF Next

(* No wake-up of kcapd is lost, for any number of cpus and of packets.     *)
THEOREM WakeupNeverLost == Spec => []NoLostWakeup
BY TInvInit, TInvNext, WakeupInit, WakeupNext, PTL DEF Spec

-----------------------------------------------------------------------------
(* Taking the first buffer of the free list leaves a list without it.      *)
LEMMA PopFree ==
  ASSUME NEW q \in Seq(Buffers), q # <<>>, IsInjective(q)
  PROVE  /\ Head(q) \in Range(q) /\ Head(q) \in Buffers
         /\ IsInjective(Tail(q))
         /\ Head(q) \notin Range(Tail(q))
         /\ Range(Tail(q)) \subseteq Range(q)
         /\ Len(Tail(q)) = Len(q) - 1
<1>1. /\ Tail(q) \in Seq(Buffers) /\ Len(Tail(q)) = Len(q) - 1
      /\ DOMAIN Tail(q) = 1 .. Len(q) - 1 /\ DOMAIN q = 1 .. Len(q)
      /\ Len(q) \in Nat \ {0} /\ Head(q) = q[1] /\ q[1] \in Buffers
      /\ \A i \in 1 .. Len(q) - 1 : Tail(q)[i] = q[i + 1]
  OBVIOUS
<1>2. QED
  BY <1>1 DEF IsInjective, Range

(* Adding a buffer that is not on the free list keeps the list distinct.   *)
LEMMA PushFree ==
  ASSUME NEW q \in Seq(Buffers), NEW b \in Buffers, IsInjective(q), b \notin Range(q)
  PROVE  /\ IsInjective(<<b>> \o q)
         /\ Range(<<b>> \o q) = Range(q) \cup {b}
         /\ Len(<<b>> \o q) = Len(q) + 1
<1> DEFINE p == <<b>> \o q
<1>1. /\ p \in Seq(Buffers) /\ Len(p) = Len(q) + 1 /\ Len(q) \in Nat
      /\ DOMAIN p = 1 .. Len(q) + 1 /\ DOMAIN q = 1 .. Len(q)
      /\ p[1] = b
      /\ \A i \in 1 .. Len(q) : p[i + 1] = q[i]
  OBVIOUS
<1>2. \A i \in DOMAIN p : i = 1 \/ (i - 1 \in DOMAIN q /\ p[i] = q[i - 1])
  BY <1>1
<1> HIDE DEF p
<1>3. IsInjective(p)
  BY <1>1, <1>2 DEF IsInjective, Range
<1>4. Range(p) = Range(q) \cup {b}
  <2>1. \A i \in DOMAIN q : i + 1 \in DOMAIN p /\ p[i + 1] = q[i]
    BY <1>1
  <2>2. 1 \in DOMAIN p
    BY <1>1
  <2>3. ASSUME NEW x \in Range(p) PROVE x \in Range(q) \cup {b}
    BY <1>1, <1>2 DEF Range
  <2>4. ASSUME NEW x \in Range(q) PROVE x \in Range(p)
    BY <2>1 DEF Range
  <2>5. b \in Range(p)
    BY <1>1, <2>2 DEF Range
  <2>6. QED
    BY <2>3, <2>4, <2>5
<1>5. QED
  BY <1>1, <1>3, <1>4 DEF p

LEMMA BufferInit == Init => BufferOwnership
BY DEF Init, BufferOwnership, IsInjective, Range

LEMMA BufferNext == TInv /\ BufferOwnership /\ [Next]_vars => BufferOwnership'
<1> SUFFICES ASSUME TInv, BufferOwnership, [Next]_vars PROVE BufferOwnership'
  OBVIOUS
<1> USE DEF portVars, tabVars, recvVars, listVars, hookVars, kcapVars, userVars, skbVars
<1>t. /\ cap_freelist \in Seq(Buffers) /\ cap_freelist_count \in Int
      /\ hcb \in [Cpus -> Buffers \cup {NULL}]
  BY DEF TInv, TypeOK
<1>1. CASE UNCHANGED <<cap_freelist, cap_freelist_count, hcb>>
  BY <1>1 DEF BufferOwnership
<1>2. ASSUME NEW h \in Cpus, HookAlloc(h) PROVE BufferOwnership'
  <2>1. CASE /\ cap_freelist # <<>>
             /\ hcb' = [hcb EXCEPT ![h] = Head(cap_freelist)]
             /\ cap_freelist' = Tail(cap_freelist)
             /\ cap_freelist_count' = cap_freelist_count - 1
    <3>1. /\ Head(cap_freelist) \in Range(cap_freelist)
          /\ IsInjective(cap_freelist')
          /\ Head(cap_freelist) \notin Range(cap_freelist')
          /\ Range(cap_freelist') \subseteq Range(cap_freelist)
          /\ Len(cap_freelist') = Len(cap_freelist) - 1
      BY <1>t, <2>1, PopFree DEF BufferOwnership
    <3> DEFINE b == Head(cap_freelist)
    <3> HIDE DEF b
    <3>2. hcb' = [hcb EXCEPT ![h] = b] /\ b \in Range(cap_freelist) /\ b \notin Range(cap_freelist')
      BY <2>1, <3>1 DEF b
    <3>3. cap_freelist_count' = Len(cap_freelist') /\ cap_freelist_count' <= CAP_MAXFREE
      BY <1>t, <2>1, <3>1 DEF BufferOwnership
    <3>4. QED
      BY <1>t, <3>1, <3>2, <3>3 DEF BufferOwnership
  <2>2. CASE /\ UNCHANGED listVars
             /\ \E b \in Buffers : Unused(b) /\ hcb' = [hcb EXCEPT ![h] = b]
    BY <1>t, <2>2 DEF BufferOwnership, Unused
  <2>3. CASE UNCHANGED <<hcb, listVars>>
    BY <1>1, <2>3
  <2>4. QED
    BY <1>2, <2>1, <2>2, <2>3 DEF HookAlloc
<1>3. ASSUME NEW h \in Cpus, HookFree(h) PROVE BufferOwnership'
  <2>1. hcb[h] \in Buffers /\ hcb' = [hcb EXCEPT ![h] = NULL]
    BY <1>t, <1>3 DEF HookFree, cap_buffer_free, TInv, Locals
  <2>2. CASE UNCHANGED listVars
    <3>1. NULL \notin Range(cap_freelist)
      BY <1>t DEF Range
    <3>2. QED
      BY <1>t, <2>1, <2>2, <3>1 DEF BufferOwnership
  <2>3. CASE /\ ~(cap_freelist_count >= CAP_MAXFREE)
             /\ cap_freelist_count' = cap_freelist_count + 1
             /\ cap_freelist' = <<hcb[h]>> \o cap_freelist
    <3> DEFINE b == hcb[h]
    <3>1. /\ IsInjective(cap_freelist')
          /\ Range(cap_freelist') = Range(cap_freelist) \cup {b}
          /\ Len(cap_freelist') = Len(cap_freelist) + 1
      BY <1>t, <2>1, <2>3, PushFree DEF BufferOwnership
    <3>2. cap_freelist_count' = Len(cap_freelist') /\ cap_freelist_count' <= CAP_MAXFREE
      BY <1>t, <2>3, <3>1 DEF BufferOwnership
    <3>3. NULL \notin Range(cap_freelist')
      BY <1>t, <2>1, <3>1 DEF Range
    <3>4. QED
      BY <1>t, <2>1, <3>1, <3>2, <3>3 DEF BufferOwnership
  <2>4. QED
    BY <1>3, <2>2, <2>3 DEF HookFree, cap_buffer_free
<1>4. ASSUME NEW h \in Cpus, hook_func_queue(h), ~HookAlloc(h), ~HookFree(h)
      PROVE UNCHANGED <<cap_freelist, cap_freelist_count, hcb>>
  BY <1>4 DEF hook_func_queue, HookEnter, HookRun, HookBuild, HookQueue, HookWake
<1>5. ASSUME NEW r \in Receivers, cap_receive(r)
      PROVE UNCHANGED <<cap_freelist, cap_freelist_count, hcb>>
  BY <1>5, ZenonT(30) DEF cap_receive, MutexLock, StartKcapd, SetPort, UpdateTable, MutexUnlock
<1>6. ASSUME kcapd_thread PROVE UNCHANGED <<cap_freelist, cap_freelist_count, hcb>>
  BY <1>6 DEF kcapd_thread, KcapdUnchanged, KcapdDequeue, KcapdWait, KcapdPrepare,
       KcapdTest, KcapdWoken, KcapdReply, netlink_unicast, KcapdRefused, KcapdSent
<1>7. ASSUME NEW c \in Clients, user_client(c)
      PROVE UNCHANGED <<cap_freelist, cap_freelist_count, hcb>>
  BY <1>7 DEF user_client, ClientStart, ClientRecv, ClientExit, ClientKilled,
              Close, UserUnchanged
<1>8. CASE UNCHANGED vars
  BY <1>1, <1>8 DEF vars
<1>9. QED
  BY <1>1, <1>2, <1>3, <1>4, <1>5, <1>6, <1>7, <1>8 DEF Next

(* No cap_buffer is on the free list twice, or on it while a hook uses it, *)
(* or used by two hooks, and the list never outgrows CAP_MAXFREE.          *)
THEOREM BuffersOwned == Spec => []BufferOwnership
BY TInvInit, TInvNext, BufferInit, BufferNext, PTL DEF Spec
=============================================================================
