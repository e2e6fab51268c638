------------------------ MODULE CaptureChannelProofs ------------------------
(* For every value of the constants of Capture: who leaves has no slot in  *)
(* the user table; of the packets only a refused one is forgotten; and     *)
(* Capture implements CapChannel.                                          *)
EXTENDS CaptureRefines, CaptureSkbProofs

USE NamesAssumption

-----------------------------------------------------------------------------
(* Who has a slot: nobody twice, nobody before user_join or after          *)
(* user_leave, and nobody before kcapd was started, so that no CAP_DEL     *)
(* fails that has a slot to give back.                                     *)
NoSlot(c) == \A i \in Slots : usrtab[i] # c

Asked(c) ==
  /\ upc[c] = "add" => rop[c] = "CAP_ADD"
  /\ upc[c] = "del" => rop[c] = "CAP_DEL"
  /\ \/ upc[c] \in {"start", "exit"}
     \/ upc[c] = "add" /\ rpc[c] # "unlock"
     \/ upc[c] = "del" /\ rpc[c] = "unlock"
     => NoSlot(c)

LInv ==
  /\ \A i, j \in Slots : usrtab[i] = usrtab[j] /\ usrtab[i] # Kernel => i = j
  /\ kpc = "none" => \A c \in Clients : NoSlot(c)
  /\ \A c \in Clients : Asked(c)

LEMMA NobodyCounted ==
  ASSUME usrtab \in [Slots -> Ports], UserCount, usrcnt <= 0
  PROVE  \A i \in Slots : usrtab[i] = Kernel
<1>1. IsFiniteSet(Used) /\ usrcnt = Cardinality(Used) /\ usrcnt \in Nat
  BY UsedBounds DEF UserCount, Used
<1>2. Used = {}
  BY <1>1, FS_EmptySet
<1>3. QED
  BY <1>2 DEF Used

LEMMA LInvInit == Init => LInv
BY DEF Init, LInv, Asked, NoSlot

LEMMA LInvUpdateTable ==
  ASSUME TInv, CInv, KInv, PInv, LInv, NEW r \in Receivers, UpdateTable(r) PROVE LInv'
<1> USE DEF NoSlot
<1>1. /\ r \in Clients /\ rpc[r] = "table" /\ kpc # "none" /\ upc[r] \in {"add", "del"}
      /\ UNCHANGED <<rop, kpc, upc>>
      /\ rpc' = [rpc EXCEPT ![r] = "unlock"]
      /\ \/ rop[r] = "CAP_ADD" /\ user_join(r)
         \/ rop[r] = "CAP_DEL" /\ user_leave(r)
  BY DEF UpdateTable, Goto, TInv, TypeOK, Locals, CInv, KInv, Receivers, kcapVars, userVars
<1>2. /\ usrtab \in [Slots -> Ports] /\ usrcnt \in Int
      /\ rpc \in [Receivers -> {"out", "lock", "check", "port", "table", "unlock"}]
      /\ r # Kernel /\ Clients \subseteq Receivers
  BY <1>1 DEF TInv, TypeOK, Receivers
<1>3. rpc'[r] = "unlock" /\ \A c \in Clients : c # r => rpc'[c] = rpc[c]
  BY <1>1, <1>2, Zenon
<1>4. CASE rop[r] = "CAP_ADD" /\ user_join(r)
  <2>1. upc[r] = "add" /\ NoSlot(r)
    BY <1>1, <1>4, Zenon DEF LInv, Asked
  <2>2. UNCHANGED usrtab \/ \E i \in Slots : usrtab[i] = Kernel /\ usrtab' = [usrtab EXCEPT ![i] = r]
    BY <1>4 DEF user_join, FirstSlot, tabVars
  <2>3. /\ \A i, j \in Slots : usrtab'[i] = usrtab'[j] /\ usrtab'[i] # Kernel => i = j
        /\ \A c \in Clients : c # r /\ NoSlot(c) => NoSlot(c)'
    BY <1>2, <2>1, <2>2 DEF LInv, Asked
  <2>4. ASSUME NEW c \in Clients
        PROVE  Asked(c)'
    <3>1. CASE c = r
      BY <1>1, <1>3, <1>4, <2>1, <3>1 DEF Asked
    <3>2. CASE c # r
      BY <1>1, <1>3, <2>3, <3>2, Zenon DEF LInv, Asked
    <3>3. QED
      BY <3>1, <3>2
  <2>5. QED
    BY <1>1, <2>3, <2>4, Zenon DEF LInv
<1>5. CASE rop[r] = "CAP_DEL" /\ user_leave(r)
  <2>1. upc[r] = "del"
    BY <1>1, <1>5 DEF LInv, Asked
  <2>2. usrcnt <= 0 => NoSlot(r)
    BY <1>2, NobodyCounted DEF PInv
  <2>3. \/ UNCHANGED usrtab /\ NoSlot(r)
        \/ \E i \in Slots : usrtab[i] = r /\ usrtab' = [usrtab EXCEPT ![i] = Kernel]
    BY <1>5, <2>2 DEF user_leave, FirstSlot, tabVars
  <2>4. /\ \A i, j \in Slots : usrtab'[i] = usrtab'[j] /\ usrtab'[i] # Kernel => i = j
        /\ NoSlot(r)' /\ \A c \in Clients : NoSlot(c) => NoSlot(c)'
    BY <1>2, <2>3 DEF LInv, Asked
  <2>6. ASSUME NEW c \in Clients
        PROVE  Asked(c)'
    <3>1. CASE c = r
      BY <1>1, <1>5, <2>1, <2>4, <3>1 DEF Asked
    <3>2. CASE c # r
      BY <1>1, <1>3, <2>4, <3>2, Zenon DEF LInv, Asked
    <3>3. QED
      BY <3>1, <3>2
  <2>7. QED
    BY <1>1, <2>4, <2>6, Zenon DEF LInv
<1>6. QED
  BY <1>1, <1>4, <1>5

LEMMA LInvNext == TInv /\ CInv /\ KInv /\ PInv /\ LInv /\ [Next]_vars => LInv'
<1> SUFFICES ASSUME TInv, CInv, KInv, PInv, LInv, [Next]_vars PROVE LInv'
  OBVIOUS
<1> USE DEF Receivers, portVars, tabVars, recvVars, listVars, hookVars, kcapVars,
            userVars, skbVars
<1>t. /\ rpc \in [Receivers -> {"out", "lock", "check", "port", "table", "unlock"}]
      /\ rop \in [Receivers -> {"CAP_ADD", "CAP_DEL", "CAP_GET_PACKET"}]
      /\ upc \in [Clients -> {"start", "add", "recv", "del", "exit", "closed"}]
  BY DEF TInv, TypeOK
<1>1. ASSUME NEW r \in Receivers, cap_receive(r) PROVE LInv'
  <2> USE DEF Goto
  <2>1. CASE MutexLock(r)
    BY <1>t, <2>1 DEF MutexLock, LInv, Asked, NoSlot
  <2>2. CASE StartKcapd(r)
    <3>1. /\ UNCHANGED <<usrtab, rop, upc>> /\ (kpc # "none" => kpc' # "none")
          /\ rpc[r] = "check"
          /\ \/ rpc' = [rpc EXCEPT ![r] = AfterCheck(r)]
             \/ kpc = "none" /\ rpc' = [rpc EXCEPT ![r] = "unlock"]
      BY <2>2 DEF StartKcapd
    <3>2. \A c \in Clients : rpc'[c] = "unlock" => \/ rpc[c] = "unlock" \/ kpc = "none"
                                                  \/ rop[c] = "CAP_GET_PACKET"
      BY <1>t, <3>1 DEF AfterCheck
    <3>3. \A c \in Clients : rpc[c] = "unlock" => rpc'[c] = "unlock"
      BY <1>t, <3>1 DEF AfterCheck
    <3>4. QED
      BY <3>1, <3>2, <3>3 DEF LInv, Asked, NoSlot
  <2>3. CASE SetPort(r)
    BY <1>t, <2>3 DEF SetPort, LInv, Asked, NoSlot
  <2>4. CASE UpdateTable(r)
    BY <2>4, LInvUpdateTable
  <2>5. CASE MutexUnlock(r)
    <3>1. /\ rpc[r] = "unlock" /\ rpc' = [rpc EXCEPT ![r] = "out"] /\ UNCHANGED <<usrtab, rop>>
          /\ kpc # "none" => kpc' # "none"
      BY <2>5 DEF MutexUnlock
    <3>2. CASE r = Kcapd
      BY <1>t, <2>5, <3>1, <3>2 DEF MutexUnlock, LInv, Asked, NoSlot
    <3>3. CASE r \in Clients
      <4>1. /\ upc[r] \in {"add", "del"}
            /\ upc' = [upc EXCEPT ![r] = IF upc[r] = "add" THEN "recv" ELSE "exit"]
        BY <2>5, <3>1, <3>3 DEF MutexUnlock, CInv
      <4>2. \/ upc[r] = "add" /\ upc'[r] = "recv"
            \/ upc[r] = "del" /\ upc'[r] = "exit" /\ NoSlot(r)
        BY <1>t, <3>1, <3>3, <4>1 DEF LInv, Asked
      <4>3. \A c \in Clients : c # r => upc'[c] = upc[c] /\ rpc'[c] = rpc[c]
        BY <1>t, <3>1, <4>1
      <4>4. QED
        BY <3>1, <4>2, <4>3 DEF LInv, Asked, NoSlot
    <3>4. QED
      BY <3>2, <3>3
  <2>6. QED
    BY <1>1, <2>1, <2>2, <2>3, <2>4, <2>5 DEF cap_receive
<1>2. ASSUME NEW h \in Cpus, hook_func_queue(h) PROVE LInv'
  <2>1. UNCHANGED <<usrtab, rpc, rop, kpc, upc>>
    BY <1>2, Zenon DEF hook_func_queue, HookEnter, HookRun, HookAlloc, HookBuild,
                HookQueue, HookWake, HookFree
  <2>2. QED
    BY <2>1, Zenon DEF LInv, Asked, NoSlot
<1>3. ASSUME kcapd_thread PROVE LInv'
  <2>1. kpc' # "none" /\ UNCHANGED <<usrtab, upc>>
    BY <1>3, Zenon DEF kcapd_thread, KcapdDequeue, KcapdWait, KcapdPrepare, KcapdTest,
         KcapdWoken, KcapdReply, netlink_unicast, KcapdRefused, KcapdSent, KcapdUnchanged
  <2>2. \A c \in Clients : rpc'[c] = rpc[c] /\ rop'[c] = rop[c]
    <3>1. CASE netlink_unicast
      BY <1>t, <3>1 DEF netlink_unicast
    <3>2. CASE ~netlink_unicast
      BY <1>3, <3>2, Zenon DEF kcapd_thread, KcapdDequeue, KcapdWait, KcapdPrepare,
           KcapdTest, KcapdWoken, KcapdReply, KcapdRefused, KcapdSent
    <3>3. QED
      BY <3>1, <3>2
  <2>3. QED
    BY <2>1, <2>2, Zenon DEF LInv, Asked, NoSlot
<1>4. ASSUME NEW c \in Clients, user_client(c) PROVE LInv'
  <2>1. UNCHANGED <<usrtab, kpc>>
    BY <1>4 DEF user_client, ClientStart, ClientRecv, ClientExit, ClientKilled,
                Close, UserUnchanged
  <2>2. \/ UNCHANGED <<upc, rpc, rop>>
        \/ upc' = [upc EXCEPT ![c] = "closed"] /\ UNCHANGED <<rpc, rop>>
        \/ /\ upc[c] = "start" /\ upc' = [upc EXCEPT ![c] = "add"]
           /\ send_to_kernel(c, "CAP_ADD")
        \/ upc' = [upc EXCEPT ![c] = "del"] /\ send_to_kernel(c, "CAP_DEL")
    BY <1>4 DEF user_client, ClientStart, ClientRecv, ClientExit, ClientKilled, Close
  <2>3. \A d \in Clients : d # c => upc'[d] = upc[d] /\ rpc'[d] = rpc[d] /\ rop'[d] = rop[d]
    BY <1>t, <2>2 DEF send_to_kernel
  <2>4. \/ upc'[c] = upc[c] /\ rpc'[c] = rpc[c] /\ rop'[c] = rop[c]
        \/ upc'[c] = "closed"
        \/ upc[c] = "start" /\ upc'[c] = "add" /\ rop'[c] = "CAP_ADD"
        \/ upc'[c] = "del" /\ rop'[c] = "CAP_DEL" /\ rpc'[c] = "lock"
    BY <1>t, <2>2 DEF send_to_kernel
  <2>5. /\ \A d \in Clients : NoSlot(d)' <=> NoSlot(d)
        /\ \A i, j \in Slots : usrtab'[i] = usrtab'[j] /\ usrtab'[i] # Kernel => i = j
        /\ kpc' = "none" => \A d \in Clients : NoSlot(d)'
    BY <2>1 DEF LInv, Asked, NoSlot
  <2>6. ASSUME NEW d \in Clients
        PROVE  Asked(d)'
    <3>1. CASE d = c
      BY <2>4, <2>5, <3>1 DEF LInv, Asked
    <3>2. CASE d # c
      BY <2>3, <2>5, <3>2 DEF LInv, Asked
    <3>3. QED
      BY <3>1, <3>2
  <2>7. QED
    BY <2>5, <2>6, Zenon DEF LInv
<1>5. CASE UNCHANGED vars
  BY <1>5 DEF vars, LInv, Asked, NoSlot
<1>6. QED
  BY <1>1, <1>2, <1>3, <1>4, <1>5 DEF Next

(* A client that has sent CAP_DEL has no slot left, for any number of      *)
(* clients and any table size.                                             *)
THEOREM LeaversAlwaysLeft == Spec => []LeaversHaveLeft
<1>1. LInv => LeaversHaveLeft
  BY DEF LInv, Asked, NoSlot, LeaversHaveLeft
<1>2. QED
  BY TInvInit, TInvNext, CInvInit, CInvNext, KInvInit, KInvNext, PInvInit, PInvNext,
     LInvInit, LInvNext, <1>1, PTL DEF Spec

-----------------------------------------------------------------------------
(* Nobody has s, and yet its count is one. *)
Nowhere(s) == ~Built(s) /\ ~Queued(s) /\ ~InSocket(s) /\ kskb # s
Forgotten(s) == Nowhere(s) /\ refs[s] = 1

LEMMA ForgottenIsExcess ==
  ASSUME SInv, NEW s \in Skbs PROVE refs[s] # Holds(s) <=> Forgotten(s)
<1>1. SkbInv(s) /\ refs[s] \in Int
  BY DEF SInv, TInv, TypeOK
<1>2. Holds(s) = (IF Built(s) THEN 1 ELSE 0) + (IF Queued(s) THEN 1 ELSE 0)
                    + KcapdHolds(s) + (IF InSocket(s) THEN 1 ELSE 0)
  BY <1>1, HoldsIsPlaces
<1>3. KcapdHolds(s) \in Nat /\ (kskb # s <=> KcapdHolds(s) = 0)
  BY DEF KcapdHolds
<1>4. QED
  BY <1>1, <1>2, <1>3 DEF SkbInv, Placed, Counted, Forgotten, Nowhere

(* A step that leaves the count of s alone and takes s from nobody without *)
(* giving it to somebody forgets nothing.                                  *)
LEMMA StillHeld ==
  ASSUME NEW s \in Skbs, refs'[s] = refs[s],
         Built(s) => Built(s)' \/ Queued(s)', Queued(s) => Queued(s)' \/ kskb' = s,
         InSocket(s) => InSocket(s)', kskb = s => kskb' = s \/ InSocket(s)'
  PROVE  Forgotten(s)' => Forgotten(s)
BY DEF Forgotten, Nowhere

LEMMA HookForgetsNone ==
  ASSUME SInv, NEW h \in Cpus, hook_func_queue(h), NEW s \in Skbs
  PROVE  Forgotten(s)' => Forgotten(s)
<1> USE DEF kcapVars, userVars, skbVars
<1>1. /\ hskb \in [Cpus -> Skbs \cup {NULL}] /\ refs \in [Skbs -> Int]
      /\ cap_skb_queue \in Seq(Skbs) /\ fresh \subseteq Skbs
  BY DEF SInv, TInv, TypeOK
<1>2. UNCHANGED <<rcvq, kskb, InSocket(s)>>
  <2>1. UNCHANGED <<rcvq, kskb>>
    BY DEF hook_func_queue, HookRun, HookEnter, HookAlloc, HookBuild, HookQueue, HookWake, HookFree
  <2>2. QED
    BY <2>1 DEF InSocket
<1>3. CASE UNCHANGED <<hskb, cap_skb_queue, refs>>
  <2>1. UNCHANGED <<Built(s), Queued(s)>>
    BY <1>3 DEF Built, Queued
  <2>2. QED
    BY <1>2, <1>3, <2>1, StillHeld
<1>4. ASSUME NEW t \in fresh, hskb[h] = NULL, hskb' = [hskb EXCEPT ![h] = t],
             refs' = [refs EXCEPT ![t] = 1], cap_skb_queue' = cap_skb_queue
      PROVE  Forgotten(s)' => Forgotten(s)
  <2>1. hskb'[h] = t /\ \A g \in Cpus : g # h => hskb'[g] = hskb[g]
    BY <1>1, <1>4
  <2>2. s = t => Built(s)'
    BY <2>1 DEF Built
  <2>3. (Built(s) => Built(s)') /\ Queued(s)' = Queued(s)
    BY <1>4, <2>1 DEF Built, Queued
  <2>4. s # t => refs'[s] = refs[s]
    BY <1>1, <1>4
  <2>5. s # t => (Forgotten(s)' => Forgotten(s))
    BY <1>2, <2>3, <2>4, StillHeld
  <2>6. QED
    BY <2>2, <2>5 DEF Forgotten, Nowhere
<1>5. CASE HookQueue(h)
  <2>1. /\ cap_skb_queue' = Append(cap_skb_queue, hskb[h]) /\ hskb[h] \in Skbs
        /\ hskb' = [hskb EXCEPT ![h] = NULL] /\ refs' = refs
    BY <1>1, <1>5 DEF HookQueue, SInv, TInv, Locals
  <2>2. Queued(s)' <=> Queued(s) \/ s = hskb[h]
    BY <1>1, <2>1, AppendOnce DEF Queued
  <2>3. \A g \in Cpus : g # h => hskb'[g] = hskb[g]
    BY <1>1, <2>1
  <2>4. Built(s) => Built(s)' \/ Queued(s)'
    BY <2>2, <2>3 DEF Built
  <2>5. QED
    BY <1>2, <2>1, <2>2, <2>4, StillHeld
<1>6. CASE HookBuild(h)
  <2>1. hskb[h] = NULL
    BY <1>6 DEF HookBuild, SInv, TInv, Locals
  <2>2. QED
    BY <1>3, <1>4, <1>6, <2>1 DEF HookBuild
<1>7. CASE HookEnter(h) \/ HookAlloc(h) \/ HookWake(h) \/ HookFree(h)
  BY <1>3, <1>7 DEF HookEnter, HookAlloc, HookWake, HookFree
<1>8. QED
  BY <1>5, <1>6, <1>7 DEF hook_func_queue, HookRun

LEMMA ReceiveForgetsNone ==
  ASSUME SInv, NEW r \in Receivers, cap_receive(r), NEW s \in Skbs
  PROVE  Forgotten(s)' => Forgotten(s)
<1> USE DEF kcapVars, userVars, skbVars, hookVars
<1>1. /\ refs \in [Skbs -> Int] /\ rcvq \in [Clients -> Seq(Skbs \cup {ACK})]
      /\ kskb \in Skbs \cup {NULL}
  BY DEF SInv, TInv, TypeOK
<1>2. UNCHANGED <<hskb, cap_skb_queue, kskb, Built(s), Queued(s)>>
  <2>1. UNCHANGED <<hskb, cap_skb_queue, kskb>>
    BY Zenon DEF cap_receive, MutexLock, StartKcapd, SetPort, UpdateTable, MutexUnlock
  <2>2. QED
    BY <2>1, Zenon DEF Built, Queued
<1>3. CASE UNCHANGED <<rcvq, refs>>
  BY <1>2, <1>3, StillHeld DEF InSocket
<1>4. CASE StartKcapd(r)
  <2>1. refs' = refs
    BY <1>4 DEF StartKcapd
  <2>2. CASE rcvq' = [rcvq EXCEPT ![r] = Append(@, ACK)] /\ kpc = "none"
    <3>1. r \in Clients
      BY <1>4, <2>2 DEF StartKcapd, Receivers, SInv, TInv, Locals
    <3>2. \A c \in Clients : s \in Range(rcvq[c]) => s \in Range(rcvq'[c])
      <4>1. s \in Range(rcvq[r]) => s \in Range(Append(rcvq[r], ACK))
        BY <1>1, <3>1, AppendOnce
      <4>2. QED
        BY <1>1, <2>2, <3>1, <4>1
    <3>3. InSocket(s) => InSocket(s)'
      BY <3>2 DEF InSocket
    <3>4. QED
      BY <1>2, <2>1, <3>3, StillHeld
  <2>3. QED
    BY <1>3, <1>4, <2>1, <2>2 DEF StartKcapd
<1>5. CASE MutexUnlock(r)
  <2>1. CASE r = Kcapd
    <3>1. /\ kskb \in Skbs /\ refs' = [refs EXCEPT ![kskb] = @ - 1] /\ rcvq' = rcvq
      BY <1>1, <1>5, <2>1 DEF MutexUnlock, SInv, TInv, Locals
    <3>2. CASE kskb = s
      BY <1>2, <3>2 DEF Forgotten, Nowhere
    <3>3. CASE kskb # s
      <4>1. refs'[s] = refs[s] /\ InSocket(s)' = InSocket(s)
        BY <1>1, <3>1, <3>3 DEF InSocket
      <4>2. QED
        BY <1>2, <4>1, StillHeld
    <3>4. QED
      BY <3>2, <3>3
  <2>2. CASE r # Kcapd
    BY <1>3, <1>5, <2>2, Zenon DEF MutexUnlock
  <2>3. QED
    BY <2>1, <2>2
<1>6. CASE MutexLock(r) \/ SetPort(r) \/ UpdateTable(r)
  BY <1>3, <1>6, Zenon DEF MutexLock, SetPort, UpdateTable
<1>7. QED
  BY <1>4, <1>5, <1>6 DEF cap_receive

(* kcapd keeps what it dequeued until it has sent it, when the count goes  *)
(* down with it, or until the send was refused.                            *)
LEMMA KcapdForgetsRefused ==
  ASSUME SInv, kcapd_thread, NEW s \in Skbs, ~(KcapdRefused /\ kskb = s)
  PROVE  Forgotten(s)' => Forgotten(s)
<1> USE DEF KcapdUnchanged, hookVars
<1>1. /\ SkbInv(s) /\ refs \in [Skbs -> Int] /\ rcvq \in [Clients -> Seq(Skbs \cup {ACK})]
      /\ kskb \in Skbs \cup {NULL} /\ cap_skb_queue \in Seq(Skbs)
      /\ kpc \in {"reply", "unicast", "loopback", "refused", "sent"} <=> kskb # NULL
  BY DEF SInv, TInv, TypeOK, Locals
<1>2. Built(s)' = Built(s)
  <2>1. hskb' = hskb
    BY DEF kcapd_thread, KcapdDequeue, KcapdWait, KcapdPrepare, KcapdTest,
           KcapdWoken, KcapdReply, netlink_unicast, KcapdRefused, KcapdSent
  <2>2. QED
    BY <2>1 DEF Built
<1>3. CASE KcapdDequeue
  <2>1. kskb # s /\ UNCHANGED <<refs, InSocket(s)>>
    BY <1>1, <1>3 DEF KcapdDequeue, InSocket
  <2>2. Queued(s) => Queued(s)' \/ kskb' = s
    <3>1. CASE cap_skb_queue = <<>>
      BY <1>3, <3>1 DEF KcapdDequeue, Queued
    <3>2. CASE cap_skb_queue # <<>>
      <4>1. kskb' = Head(cap_skb_queue) /\ cap_skb_queue' = Tail(cap_skb_queue)
        BY <1>3, <3>2 DEF KcapdDequeue
      <4>2. QED
        BY <1>1, <3>2, <4>1, TailOnce DEF Queued
    <3>3. QED
      BY <3>1, <3>2
  <2>3. QED
    BY <1>2, <2>1, <2>2, StillHeld
<1>4. CASE KcapdWait \/ KcapdPrepare \/ KcapdTest \/ KcapdWoken
  <2>1. UNCHANGED <<cap_skb_queue, rcvq, refs, kskb>>
    BY <1>4 DEF KcapdWait, KcapdPrepare, KcapdTest, KcapdWoken
  <2>2. UNCHANGED <<Queued(s), InSocket(s)>>
    BY <2>1 DEF Queued, InSocket
  <2>3. QED
    BY <1>2, <2>1, <2>2, StillHeld
<1>5. CASE KcapdReply \/ netlink_unicast
  <2>1. kskb \in Skbs /\ UNCHANGED <<cap_skb_queue, kskb>>
    BY <1>1, <1>5 DEF KcapdReply, netlink_unicast
  <2>2. CASE kskb = s
    BY <2>1, <2>2 DEF Forgotten, Nowhere
  <2>3. CASE kskb # s
    <3>1. refs'[s] = refs[s]
      BY <1>1, <1>5, <2>1, <2>3 DEF KcapdReply, netlink_unicast
    <3>2. InSocket(s) => InSocket(s)'
      <4>1. CASE rcvq' = rcvq
        BY <4>1 DEF InSocket
      <4>2. CASE kport \in Clients /\ rcvq' = [rcvq EXCEPT ![kport] = Append(@, kskb)]
        <5>1. s \in Range(rcvq[kport]) => s \in Range(Append(rcvq[kport], kskb))
          <6>1. rcvq[kport] \in Seq(Skbs \cup {ACK}) /\ kskb \in Skbs \cup {ACK}
            BY <1>1, <2>1, <4>2
          <6>2. QED
            BY <6>1, AppendOnce
        <5>2. \A c \in Clients : s \in Range(rcvq[c]) => s \in Range(rcvq'[c])
          BY <1>1, <4>2, <5>1
        <5>3. QED
          BY <5>2 DEF InSocket
      <4>3. QED
        BY <1>5, <4>1, <4>2 DEF KcapdReply, netlink_unicast
    <3>3. Queued(s)' = Queued(s)
      BY <2>1 DEF Queued
    <3>4. QED
      BY <1>2, <2>3, <3>1, <3>2, <3>3, StillHeld
  <2>4. QED
    BY <2>2, <2>3
<1>6. CASE KcapdRefused \/ KcapdSent
  <2>1. UNCHANGED <<cap_skb_queue, rcvq>> /\ kskb \in Skbs
    BY <1>1, <1>6 DEF KcapdRefused, KcapdSent
  <2>2. UNCHANGED <<Queued(s), InSocket(s)>>
    BY <2>1 DEF Queued, InSocket
  <2>3. CASE kskb # s
    <3>1. refs'[s] = refs[s]
      BY <1>1, <1>6, <2>1, <2>3 DEF KcapdRefused, KcapdSent
    <3>2. QED
      BY <1>2, <2>2, <2>3, <3>1, StillHeld
  <2>4. CASE kskb = s
    <3>1. kpc = "sent" /\ refs'[s] = refs[s] - 1
      BY <1>1, <1>6, <2>4 DEF KcapdSent
    <3>2. KcapdHolds(s) = 1
      BY <2>4, <3>1 DEF KcapdHolds
    <3>3. ~InSocket(s) => refs'[s] = 0
      BY <1>1, <2>4, <3>1, <3>2 DEF SkbInv, Counted
    <3>4. QED
      BY <2>2, <3>3 DEF Forgotten, Nowhere
  <2>5. QED
    BY <2>3, <2>4
<1>7. QED
  BY <1>3, <1>4, <1>5, <1>6 DEF kcapd_thread

LEMMA ClientForgetsNone ==
  ASSUME SInv, NEW c \in Clients, user_client(c), NEW s \in Skbs
  PROVE  Forgotten(s)' => Forgotten(s)
<1> USE DEF UserUnchanged, kcapVars, hookVars
<1>1. /\ SkbInv(s) /\ refs \in [Skbs -> Int] /\ rcvq \in [Clients -> Seq(Skbs \cup {ACK})]
  BY DEF SInv, TInv, TypeOK
<1>2. UNCHANGED <<hskb, cap_skb_queue, kskb>>
  BY DEF user_client, ClientStart, ClientRecv, ClientExit, ClientKilled, Close
<1>3. UNCHANGED <<Built(s), Queued(s)>>
  BY <1>2 DEF Built, Queued
<1>4. CASE ClientStart(c)
  <2>1. UNCHANGED <<refs, InSocket(s)>>
    BY <1>4 DEF ClientStart, InSocket
  <2>2. QED
    BY <1>2, <1>3, <2>1, StillHeld
<1>5. ASSUME NEW q, rcvq' = [rcvq EXCEPT ![c] = q],
             refs'[s] = IF s \in Range(rcvq[c]) /\ s \notin Range(q)
                        THEN refs[s] - 1 ELSE refs[s]
      PROVE  Forgotten(s)' => Forgotten(s)
  <2>1. rcvq'[c] = q /\ \A d \in Clients : d # c => rcvq'[d] = rcvq[d]
    BY <1>1, <1>5
  <2>2. CASE s \in Range(rcvq[c]) /\ s \notin Range(q)
    <3>1. InSocket(s)
      BY <2>2 DEF InSocket
    <3>2. refs[s] = 1 + KcapdHolds(s)
      BY <1>1, <3>1 DEF SkbInv, Counted
    <3>3. kskb # s => KcapdHolds(s) = 0
      BY DEF KcapdHolds
    <3>4. kskb # s => refs'[s] = 0
      BY <1>5, <2>2, <3>2, <3>3
    <3>5. QED
      BY <1>2, <3>4 DEF Forgotten, Nowhere
  <2>3. CASE ~(s \in Range(rcvq[c]) /\ s \notin Range(q))
    <3>1. refs'[s] = refs[s] /\ (InSocket(s) => InSocket(s)')
      BY <1>5, <2>1, <2>3 DEF InSocket
    <3>2. QED
      BY <1>2, <1>3, <3>1, StillHeld
  <2>4. QED
    BY <2>2, <2>3
<1>6. CASE ClientRecv(c)
  <2> DEFINE q == Tail(rcvq[c])
  <2>1. rcvq[c] \in Seq(Skbs \cup {ACK}) /\ rcvq[c] # <<>> /\ Once(rcvq[c], s)
    BY <1>1, <1>6 DEF ClientRecv, SkbInv, Single
  <2>2. /\ rcvq' = [rcvq EXCEPT ![c] = q]
        /\ refs'[s] = IF s = Head(rcvq[c]) THEN refs[s] - 1 ELSE refs[s]
    BY <1>6, ZenonT(30) DEF ClientRecv, recv_from_kernel
  <2>3. s = Head(rcvq[c]) <=> s \in Range(rcvq[c]) /\ s \notin Range(q)
    BY <2>1, TailOnce
  <2> HIDE DEF q
  <2>4. QED
    BY <1>5, <2>2, <2>3, ZenonT(30)
<1>7. CASE ClientExit(c) \/ ClientKilled(c)
  BY <1>5, <1>7, EmptyOnce, ZenonT(30) DEF ClientExit, ClientKilled, Close
<1>8. QED
  BY <1>4, <1>6, <1>7 DEF user_client

(* References are left behind in one place only: no step of a hook, of a   *)
(* command or of a client that reads or dies makes the count of a packet   *)
(* exceed its holders, and of kcapd's only the one after a refused send.   *)
THEOREM ForgottenWasRefused == Spec => OnlyRefusedForgotten
<1> DEFINE Excess == \A s \in Skbs : refs[s] # Holds(s) <=> Forgotten(s)
           Refused == \A s \in Skbs : refs[s] = Holds(s) /\ refs'[s] # Holds(s)'
                                         => KcapdRefused /\ kskb = s
<1>1. SInv => Excess
  BY ForgottenIsExcess
<1>2. SInv /\ Excess /\ Excess' /\ [Next]_vars => [Refused]_vars
  <2> SUFFICES ASSUME SInv, Excess, Excess', Next, NEW s \in Skbs,
                      refs[s] = Holds(s), refs'[s] # Holds(s)'
               PROVE  KcapdRefused /\ kskb = s
    OBVIOUS
  <2>1. Forgotten(s)' /\ ~Forgotten(s)
    OBVIOUS
  <2> HIDE DEF Excess
  <2>2. QED
    BY <2>1, HookForgetsNone, ReceiveForgetsNone, KcapdForgetsRefused, ClientForgetsNone DEF Next
<1> HIDE DEF Excess
<1>3. QED
  BY <1>1, <1>2, SInvInit, SInvNext, PTL DEF Spec, OnlyRefusedForgotten

-----------------------------------------------------------------------------
(* kcapd has a packet in hand that it has not handed over or given up.     *)
Carries == kpc \in {"reply", "unicast", "loopback", "refused"}

(* An skb that a hook has built and not yet queued is this hook's alone. *)
LEMMA HookOwns ==
  ASSUME SInv, NEW h \in Cpus, hskb[h] \in Skbs
  PROVE  /\ hskb[h] \notin fresh
         /\ \A g \in Cpus : hskb[g] = hskb[h] => g = h
BY DEF SInv, SkbInv, Single, Placed, Built

(* What leaves the line and the captured set as they are. *)
LEMMA LineStays ==
  ASSUME UNCHANGED <<cap_skb_queue, kskb>>, Carries' <=> Carries PROVE Line' = Line
BY DEF Line, Carries

LEMMA SeenStays == ASSUME UNCHANGED <<hskb, fresh>> PROVE Seen' = Seen
BY DEF Seen

(* An skb that a hook builds is not captured yet; when it is queued it is. *)
LEMMA SeenBuild ==
  ASSUME TInv, NEW h \in Cpus, hskb[h] = NULL, NEW s \in fresh,
         hskb' = [hskb EXCEPT ![h] = s], fresh' = fresh \ {s}
  PROVE  Seen' = Seen
<1>1. hskb \in [Cpus -> Skbs \cup {NULL}]
  BY DEF TInv, TypeOK
<1>2. hskb'[h] = s /\ \A g \in Cpus : g # h => hskb'[g] = hskb[g]
  BY <1>1
<1>3. \A t \in Skbs : (\A g \in Cpus : hskb'[g] # t) <=>
                        t # s /\ \A g \in Cpus : hskb[g] # t
  BY <1>1, <1>2, NamesAssumption
<1>4. QED
  BY <1>3 DEF Seen

LEMMA SeenQueue ==
  ASSUME TInv, NEW h \in Cpus, hskb[h] \in Skbs, hskb[h] \notin fresh,
         \A g \in Cpus : hskb[g] = hskb[h] => g = h,
         hskb' = [hskb EXCEPT ![h] = NULL], fresh' = fresh
  PROVE  hskb[h] \notin Seen /\ Seen' = Seen \cup {hskb[h]}
<1>1. hskb \in [Cpus -> Skbs \cup {NULL}]
  BY DEF TInv, TypeOK
<1>2. hskb'[h] = NULL /\ \A g \in Cpus : g # h => hskb'[g] = hskb[g]
  BY <1>1
<1>3. \A t \in Skbs : (\A g \in Cpus : hskb'[g] # t) <=>
                        t = hskb[h] \/ \A g \in Cpus : hskb[g] # t
  BY <1>1, <1>2, NamesAssumption
<1>4. QED
  BY <1>3 DEF Seen

(* The line without kcapd's packet, and with it. *)
LEMMA LineParts ==
  ASSUME TInv
  PROVE  /\ ~Carries => Line = cap_skb_queue
         /\ Carries => /\ Line # <<>> /\ Head(Line) = kskb
                       /\ Tail(Line) = cap_skb_queue /\ kskb \in Skbs
<1>1. cap_skb_queue \in Seq(Skbs) /\ (Carries => kskb \in Skbs)
  BY DEF TInv, TypeOK, Locals, Carries
<1>2. ~Carries => Line = cap_skb_queue
  BY <1>1 DEF Line, Carries
<1>3. ASSUME Carries
      PROVE /\ Line # <<>> /\ Head(Line) = kskb /\ Tail(Line) = cap_skb_queue
  <2>1. Line = <<kskb>> \o cap_skb_queue /\ <<kskb>> \in Seq(Skbs)
    BY <1>1, <1>3 DEF Line, Carries
  <2>2. QED
    BY <1>1, <1>3, <2>1
<1>4. QED
  BY <1>1, <1>2, <1>3

LEMMA LineGrows ==
  ASSUME TInv, NEW s \in Skbs, cap_skb_queue' = Append(cap_skb_queue, s),
         UNCHANGED <<kpc, kskb>>
  PROVE  Line' = Append(Line, s)
<1>1. cap_skb_queue \in Seq(Skbs) /\ (Carries => kskb \in Skbs)
  BY DEF TInv, TypeOK, Locals, Carries
<1>2. CASE Carries
  BY <1>1, <1>2 DEF Line, Carries
<1>3. CASE ~Carries
  BY <1>1, <1>3 DEF Line, Carries
<1>4. QED
  BY <1>2, <1>3

-----------------------------------------------------------------------------
LEMMA RefineInit == Init => Channel!Init
<1> SUFFICES ASSUME Init PROVE Channel!Init
  OBVIOUS
<1>1. Line = <<>>
  BY DEF Init, Line
<1>2. Seen = {}
  BY DEF Init, Seen
<1>3. rcvq = [c \in Clients |-> <<>>]
  BY DEF Init
<1>4. QED
  BY <1>1, <1>2, <1>3 DEF Channel!Init

(* A hook's step is invisible, except that HookQueue captures its packet.  *)
LEMMA RefineHook ==
  ASSUME SInv, NEW h \in Cpus, hook_func_queue(h)
  PROVE  [Channel!Next]_Channel!chanVars
<1> USE DEF SInv, TInv, TypeOK, kcapVars, userVars, skbVars
<1>1. CASE HookEnter(h) \/ HookAlloc(h) \/ HookWake(h) \/ HookFree(h)
  <2>1. UNCHANGED <<cap_skb_queue, kskb, kpc, hskb, fresh, rcvq>>
    BY <1>1 DEF HookEnter, HookAlloc, HookWake, HookFree
  <2>2. QED
    BY <2>1, LineStays, SeenStays DEF Channel!chanVars, Carries
<1>2. CASE HookBuild(h)
  <2>1. UNCHANGED <<cap_skb_queue, kskb, kpc, rcvq>> /\ hskb[h] = NULL
    BY <1>2 DEF HookBuild, Locals
  <2>2. Seen' = Seen
    BY <1>2, <2>1, SeenBuild, SeenStays, Zenon DEF HookBuild
  <2>3. QED
    BY <2>1, <2>2, LineStays DEF Channel!chanVars, Carries
<1>3. CASE HookQueue(h)
  <2> DEFINE s == hskb[h]
  <2>0. s \in Skbs
    BY <1>3 DEF HookQueue, Locals
  <2>1. s \in Skbs /\ s \notin fresh /\ \A g \in Cpus : hskb[g] = s => g = h
    BY <2>0, HookOwns
  <2>2. /\ cap_skb_queue' = Append(cap_skb_queue, s)
        /\ hskb' = [hskb EXCEPT ![h] = NULL]
        /\ UNCHANGED <<kpc, kskb, rcvq, fresh>>
    BY <1>3 DEF HookQueue
  <2>3. Line' = Append(Line, s)
    BY <2>1, <2>2, LineGrows
  <2>4. s \notin Seen /\ Seen' = Seen \cup {s}
    BY <2>1, <2>2, SeenQueue, Zenon
  <2>5. Channel!Capture(s)
    BY <2>2, <2>3, <2>4 DEF Channel!Capture
  <2>6. QED
    BY <2>1, <2>5 DEF Channel!Next
<1>4. QED
  BY <1>1, <1>2, <1>3 DEF hook_func_queue, HookRun

(* A command shows only where a failed kthread_run is answered, and where  *)
(* the packet looped back to cap_receive is consumed, which loses it.      *)
LEMMA RefineReceive ==
  ASSUME SInv, NEW r \in Receivers, cap_receive(r)
  PROVE  [Channel!Next]_Channel!chanVars
<1> USE DEF SInv, TInv, hookVars, kcapVars, userVars, skbVars
<1>1. CASE MutexLock(r) \/ SetPort(r) \/ UpdateTable(r)
  <2>1. UNCHANGED <<cap_skb_queue, kskb, kpc, hskb, fresh, rcvq>>
    BY <1>1 DEF MutexLock, SetPort, UpdateTable
  <2>2. QED
    BY <2>1, LineStays, SeenStays DEF Channel!chanVars, Carries
<1>2. CASE StartKcapd(r)
  <2>1. UNCHANGED <<cap_skb_queue, kskb, hskb, fresh>> /\ (Carries' <=> Carries)
    BY <1>2 DEF StartKcapd, Carries
  <2>2. UNCHANGED <<Line, Seen>>
    BY <2>1, LineStays, SeenStays
  <2>3. CASE UNCHANGED rcvq
    BY <2>2, <2>3 DEF Channel!chanVars
  <2>4. CASE rcvq' = [rcvq EXCEPT ![r] = Append(@, ACK)] /\ kpc = "none"
    <3>1. r \in Clients
      BY <1>2, <2>4 DEF StartKcapd, Receivers, Locals
    <3>2. Channel!Reply(r)
      BY <2>2, <2>4 DEF Channel!Reply
    <3>3. QED
      BY <3>1, <3>2 DEF Channel!Next
  <2>5. QED
    BY <1>2, <2>3, <2>4 DEF StartKcapd
<1>3. CASE MutexUnlock(r)
  <2>1. UNCHANGED <<cap_skb_queue, kskb, hskb, fresh, rcvq>>
    BY <1>3 DEF MutexUnlock
  <2>2. CASE r = Kcapd
    <3>1. Carries /\ kpc' = "sent" /\ TInv'
      BY <1>3, <2>2, TInvReceive, Zenon DEF MutexUnlock, Locals, Carries
    <3>2. Line # <<>> /\ Line' = Tail(Line)
      <4>1. ~Carries'
        BY <3>1 DEF Carries
      <4>2. Line' = cap_skb_queue'
        BY <4>1 DEF Line, Carries, TypeOK
      <4>3. QED
        BY <2>1, <3>1, <4>2, LineParts
    <3> HIDE DEF SInv, TInv, TypeOK
    <3>3. Channel!Lose
      BY <2>1, <3>2, SeenStays DEF Channel!Lose
    <3>4. QED
      BY <3>3 DEF Channel!Next
  <2>3. CASE r # Kcapd
    BY <1>3, <2>1, <2>3, LineStays, SeenStays DEF MutexUnlock, Channel!chanVars, Carries
  <2>4. QED
    BY <2>2, <2>3
<1>4. QED
  BY <1>1, <1>2, <1>3 DEF cap_receive

(* kcapd's dequeue moves the packet from the queue to its hand, which is   *)
(* the same line; a unicast delivers it, a refused one loses it.           *)
LEMMA RefineKcapd ==
  ASSUME SInv, kcapd_thread PROVE [Channel!Next]_Channel!chanVars
<1> USE DEF SInv, TInv, KcapdUnchanged, hookVars, recvVars
<1>1. UNCHANGED <<hskb, fresh>> /\ Seen' = Seen
  <2>1. UNCHANGED <<hskb, fresh>>
    BY Zenon DEF kcapd_thread, KcapdDequeue, KcapdWait, KcapdPrepare, KcapdTest,
           KcapdWoken, KcapdReply, netlink_unicast, KcapdRefused, KcapdSent
  <2>2. QED
    BY <2>1, SeenStays, Zenon
<1>2. cap_skb_queue \in Seq(Skbs)
  BY DEF TypeOK
<1>3. CASE KcapdDequeue
  <2>1. ~Carries /\ UNCHANGED rcvq
    BY <1>3 DEF KcapdDequeue, Carries
  <2>2. CASE cap_skb_queue = <<>>
    BY <1>1, <1>3, <2>1, <2>2, LineStays DEF KcapdDequeue, Channel!chanVars, Carries
  <2>3. CASE cap_skb_queue # <<>>
    <3>1. Line' = <<Head(cap_skb_queue)>> \o Tail(cap_skb_queue)
      BY <1>3, <2>3 DEF KcapdDequeue, Line
    <3>2. Line = cap_skb_queue
      BY <2>1, LineParts
    <3>3. Line' = Line
      BY <1>2, <2>3, <3>1, <3>2
    <3>4. QED
      BY <1>1, <2>1, <3>3 DEF Channel!chanVars
  <2>4. QED
    BY <2>2, <2>3
<1>4. CASE \/ KcapdWait \/ KcapdPrepare \/ KcapdTest \/ KcapdWoken \/ KcapdReply
  <2>1. UNCHANGED <<cap_skb_queue, kskb, rcvq>> /\ (Carries' <=> Carries)
    BY <1>4 DEF KcapdWait, KcapdPrepare, KcapdTest, KcapdWoken, KcapdReply, Carries
  <2>2. QED
    BY <1>1, <2>1, LineStays DEF Channel!chanVars
<1>5. CASE netlink_unicast
  <2>1. Carries /\ UNCHANGED <<cap_skb_queue, kskb>>
    BY <1>5 DEF netlink_unicast, Carries
  <2>2. CASE /\ kport \in Clients /\ kpc' = "sent"
             /\ rcvq' = [rcvq EXCEPT ![kport] = Append(@, kskb)]
    <3>1. Line' = cap_skb_queue
      BY <1>2, <2>1, <2>2 DEF Line
    <3>2. Channel!Deliver(kport)
      BY <1>1, <2>1, <2>2, <3>1, LineParts, Zenon DEF Channel!Deliver
    <3>3. QED
      BY <2>2, <3>2 DEF Channel!Next
  <2>3. CASE UNCHANGED rcvq /\ Carries'
    BY <1>1, <2>1, <2>3, LineStays DEF Channel!chanVars
  <2>4. QED
    BY <1>5, <2>2, <2>3 DEF netlink_unicast, Carries
<1>6. CASE KcapdRefused
  <2>1. Carries /\ kpc' = "dequeue" /\ UNCHANGED <<cap_skb_queue, rcvq>>
    BY <1>6 DEF KcapdRefused, Carries
  <2>2. Line' = cap_skb_queue
    BY <1>2, <2>1 DEF Line
  <2>3. Channel!Lose
    BY <1>1, <2>1, <2>2, LineParts DEF Channel!Lose
  <2>4. QED
    BY <2>3 DEF Channel!Next
<1>7. CASE KcapdSent
  <2>1. ~Carries /\ kpc' = "dequeue" /\ UNCHANGED <<cap_skb_queue, rcvq>>
    BY <1>7 DEF KcapdSent, Carries
  <2>2. Line' = cap_skb_queue
    BY <1>2, <2>1 DEF Line
  <2>3. QED
    BY <1>1, <2>1, <2>2, LineParts DEF Channel!chanVars
<1>8. QED
  BY <1>3, <1>4, <1>5, <1>6, <1>7 DEF kcapd_thread

(* A client reads the head of its stream, or leaves and drops it. *)
LEMMA RefineClient ==
  ASSUME SInv, NEW c \in Clients, user_client(c)
  PROVE  [Channel!Next]_Channel!chanVars
<1>1. UNCHANGED <<cap_skb_queue, kskb, kpc, hskb, fresh>>
  BY DEF user_client, ClientStart, ClientRecv, ClientExit, ClientKilled, Close,
         UserUnchanged, kcapVars, hookVars
<1>2. UNCHANGED <<Line, Seen>>
  BY <1>1, LineStays, SeenStays DEF Carries
<1>3. CASE ClientStart(c)
  BY <1>2, <1>3 DEF ClientStart, Channel!chanVars
<1>4. CASE ClientRecv(c)
  <2>1. Channel!Read(c)
    BY <1>2, <1>4, Zenon DEF ClientRecv, recv_from_kernel, Channel!Read
  <2>2. QED
    BY <2>1, Zenon DEF Channel!Next
<1>5. CASE ClientExit(c) \/ ClientKilled(c)
  <2>1. Channel!Leave(c)
    BY <1>2, <1>5, Zenon DEF ClientExit, ClientKilled, Close, Channel!Leave
  <2>2. QED
    BY <2>1, Zenon DEF Channel!Next
<1>6. QED
  BY <1>3, <1>4, <1>5 DEF user_client

LEMMA RefineNext == SInv /\ [Next]_vars => [Channel!Next]_Channel!chanVars
<1>1. ASSUME UNCHANGED vars PROVE UNCHANGED Channel!chanVars
  <2>1. UNCHANGED <<cap_skb_queue, kskb, kpc, hskb, fresh, rcvq>>
    BY <1>1 DEF vars, kcapVars, hookVars, userVars, skbVars
  <2>2. QED
    BY <2>1, LineStays, SeenStays DEF Channel!chanVars, Carries
<1>2. QED
  BY <1>1, RefineReceive, RefineHook, RefineKcapd, RefineClient DEF Next

(* Capture implements CapChannel: captured packets are delivered in order, *)
(* at most once and to one client, for any number of cpus, clients,        *)
(* buffers and packets.                                                    *)
THEOREM CaptureIsChannel == Spec => ImplementsChannel
BY SInvInit, SInvNext, RefineInit, RefineNext, PTL DEF Spec, ImplementsChannel, Channel!Spec
=============================================================================
