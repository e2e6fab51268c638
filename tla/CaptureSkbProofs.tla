-------------------------- MODULE CaptureSkbProofs --------------------------
(* The skbs of Capture and their reference counts, for every value of its  *)
(* constants.                                                              *)
EXTENDS CaptureProofs

USE NamesAssumption

(* s is at most once on q. *)
Once(q, s) == \A i, j \in DOMAIN q : q[i] = s /\ q[j] = s => i = j

Built(s) == \E h \in Cpus : hskb[h] = s
Queued(s) == s \in Range(cap_skb_queue)
InSocket(s) == \E c \in Clients : s \in Range(rcvq[c])

(* No place has an skb twice. *)
Single(s) ==
  /\ Once(cap_skb_queue, s)
  /\ \A c \in Clients : Once(rcvq[c], s)
  /\ \A h, g \in Cpus : hskb[h] = s /\ hskb[g] = s => h = g
  /\ \A c, d \in Clients : s \in Range(rcvq[c]) /\ s \in Range(rcvq[d]) => c = d

(* An skb is in one place, except that kcapd keeps the one it has just     *)
(* delivered in hand.                                                      *)
Placed(s) ==
  /\ s \in fresh => ~Built(s) /\ ~Queued(s) /\ ~InSocket(s) /\ kskb # s
  /\ Built(s) => ~Queued(s) /\ ~InSocket(s) /\ kskb # s
  /\ Queued(s) => ~InSocket(s) /\ kskb # s
  /\ InSocket(s) /\ kskb = s => kpc = "sent"

(* The count is that of the place, or of both.  An skb that is in no place *)
(* is free, or was given up when its send was refused.                     *)
Counted(s) ==
  /\ Built(s) \/ Queued(s) => refs[s] = 1
  /\ InSocket(s) => refs[s] = 1 + KcapdHolds(s)
  /\ ~InSocket(s) /\ kskb = s => refs[s] = KcapdHolds(s)
  /\ ~Built(s) /\ ~Queued(s) /\ ~InSocket(s) /\ kskb # s => refs[s] \in {0, 1}

SkbInv(s) == Single(s) /\ Placed(s) /\ Counted(s)
SInv == TInv /\ \A s \in Skbs : SkbInv(s)

-----------------------------------------------------------------------------
(* Adding to the end of a queue, and taking from its front. *)
LEMMA AppendOnce ==
  ASSUME NEW T, NEW q \in Seq(T), NEW x \in T, NEW s
  PROVE  /\ Append(q, x) \in Seq(T)
         /\ s \in Range(Append(q, x)) <=> s \in Range(q) \/ s = x
         /\ Once(q, s) /\ (x = s => s \notin Range(q)) => Once(Append(q, x), s)
<1> DEFINE p == Append(q, x)
<1>1. /\ p \in Seq(T) /\ Len(q) \in Nat
      /\ DOMAIN p = 1 .. Len(q) + 1 /\ DOMAIN q = 1 .. Len(q)
      /\ p[Len(q) + 1] = x
      /\ \A i \in 1 .. Len(q) : p[i] = q[i]
  OBVIOUS
<1> HIDE DEF p
<1>2. \A i \in DOMAIN p : i = Len(q) + 1 \/ (i \in DOMAIN q /\ p[i] = q[i])
  BY <1>1
<1>3. s \in Range(p) <=> s \in Range(q) \/ s = x
  <2>1. \A i \in DOMAIN q : i \in DOMAIN p /\ p[i] = q[i]
    BY <1>1
  <2>2. Len(q) + 1 \in DOMAIN p
    BY <1>1
  <2>3. QED
    BY <1>1, <1>2, <2>1, <2>2 DEF Range
<1>4. Once(q, s) /\ (x = s => s \notin Range(q)) => Once(p, s)
  BY <1>1, <1>2 DEF Once, Range
<1>5. QED
  BY <1>1, <1>3, <1>4 DEF p

LEMMA TailOnce ==
  ASSUME NEW T, NEW q \in Seq(T), q # <<>>, NEW s
  PROVE  /\ Head(q) \in T /\ Head(q) \in Range(q) /\ Tail(q) \in Seq(T)
         /\ s \in Range(Tail(q)) => s \in Range(q)
         /\ s \in Range(q) => s = Head(q) \/ s \in Range(Tail(q))
         /\ Once(q, s) => Once(Tail(q), s)
         /\ Once(q, s) /\ s = Head(q) => s \notin Range(Tail(q))
<1> DEFINE p == Tail(q)
<1>1. /\ p \in Seq(T) /\ Len(q) \in Nat \ {0} /\ Head(q) = q[1] /\ q[1] \in T
      /\ DOMAIN p = 1 .. Len(q) - 1 /\ DOMAIN q = 1 .. Len(q)
      /\ \A i \in 1 .. Len(q) - 1 : p[i] = q[i + 1]
  OBVIOUS
<1> HIDE DEF p
<1>2. /\ 1 \in DOMAIN q
      /\ \A i \in DOMAIN p : i + 1 \in DOMAIN q /\ i + 1 # 1 /\ p[i] = q[i + 1]
      /\ \A i \in DOMAIN q : i = 1 \/ (i - 1 \in DOMAIN p /\ p[i - 1] = q[i])
  BY <1>1
<1>3. Head(q) \in Range(q)
  BY <1>1, <1>2 DEF Range
<1>4. s \in Range(p) => s \in Range(q)
  BY <1>2 DEF Range
<1>5. s \in Range(q) => s = Head(q) \/ s \in Range(p)
  BY <1>1, <1>2 DEF Range
<1>6. Once(q, s) => Once(p, s)
  BY <1>1, <1>2 DEF Once
<1>7. Once(q, s) /\ s = Head(q) => s \notin Range(p)
  BY <1>1, <1>2, ZenonT(30) DEF Once, Range
<1>8. QED
  BY <1>1, <1>3, <1>4, <1>5, <1>6, <1>7 DEF p

LEMMA EmptyOnce == ASSUME NEW s PROVE Once(<<>>, s) /\ s \notin Range(<<>>)
BY DEF Once, Range

LEMMA SInvInit == Init => SInv
<1> SUFFICES ASSUME Init, NEW s \in Skbs PROVE SkbInv(s)
  BY TInvInit DEF SInv
<1>1. /\ ~Built(s) /\ kskb # s
  BY DEF Init, Built
<1>2. ~Queued(s) /\ ~InSocket(s)
  BY EmptyOnce DEF Init, Queued, InSocket
<1>3. Single(s)
  BY <1>1, <1>2, EmptyOnce DEF Init, Single, Built, InSocket
<1>4. Placed(s) /\ Counted(s)
  BY <1>1, <1>2 DEF Init, Placed, Counted, KcapdHolds
<1>5. QED
  BY <1>3, <1>4 DEF SkbInv

-----------------------------------------------------------------------------
(* Steps that leave the places alone and take no reference. *)
LEMMA SkbStays ==
  ASSUME NEW s \in Skbs, SkbInv(s), UNCHANGED <<hskb, fresh, cap_skb_queue, rcvq, refs>>,
         kskb' = kskb, kskb = s => kpc' = kpc
  PROVE  SkbInv(s)'
<1>1. KcapdHolds(s)' = KcapdHolds(s)
  BY DEF KcapdHolds
<1>2. UNCHANGED <<Built(s), Queued(s), InSocket(s)>>
  BY DEF Built, Queued, InSocket
<1>3. QED
  BY <1>1, <1>2 DEF SkbInv, Single, Placed, Counted

(* HookBuild gives a fresh skb to a hook that has none; HookQueue puts it  *)
(* on the queue.                                                           *)
LEMMA SkbHook ==
  ASSUME SInv, NEW h \in Cpus, hook_func_queue(h), NEW s \in Skbs PROVE SkbInv(s)'
<1> USE DEF kcapVars, userVars, skbVars
<1>1. /\ SkbInv(s) /\ hskb \in [Cpus -> Skbs \cup {NULL}] /\ fresh \subseteq Skbs
      /\ refs \in [Skbs -> Int] /\ cap_skb_queue \in Seq(Skbs)
  BY DEF SInv, TInv, TypeOK
<1>2. CASE UNCHANGED <<hskb, fresh, cap_skb_queue, rcvq, refs, kskb, kpc>>
  BY <1>1, <1>2, SkbStays
<1>3. ASSUME HookBuild(h), NEW t \in fresh, hskb' = [hskb EXCEPT ![h] = t],
             fresh' = fresh \ {t}, refs' = [refs EXCEPT ![t] = 1]
      PROVE  SkbInv(s)'
  <2>1. UNCHANGED <<cap_skb_queue, rcvq, kskb, kpc>> /\ hskb[h] = NULL
    BY <1>3 DEF HookBuild, SInv, TInv, Locals
  <2>2. UNCHANGED <<Queued(s), InSocket(s), KcapdHolds(s)>>
    BY <2>1 DEF Queued, InSocket, KcapdHolds
  <2>3. hskb'[h] = t /\ \A g \in Cpus : g # h => hskb'[g] = hskb[g]
    BY <1>1, <1>3
  <2>4. Built(s)' <=> Built(s) \/ s = t
    BY <2>1, <2>3 DEF Built
  <2>5. Single(s)'
    <3>1. ASSUME NEW f \in Cpus, NEW g \in Cpus, hskb'[f] = s, hskb'[g] = s PROVE f = g
      BY <1>1, <1>3, <2>3, <3>1 DEF SkbInv, Single, Placed, Built
    <3>2. QED
      BY <1>1, <2>1, <3>1 DEF SkbInv, Single
  <2>6. CASE s = t
    <3>1. Placed(s)'
      BY <1>1, <1>3, <2>1, <2>2, <2>6 DEF SkbInv, Placed
    <3>2. KcapdHolds(s) = 0
      BY <1>1, <1>3, <2>6 DEF SkbInv, Placed, KcapdHolds
    <3>3. Counted(s)'
      BY <1>1, <1>3, <2>1, <2>2, <2>4, <2>6, <3>2 DEF SkbInv, Placed, Counted
    <3>4. QED
      BY <2>5, <3>1, <3>3 DEF SkbInv
  <2>7. CASE s # t
    <3>1. Placed(s)'
      BY <1>1, <1>3, <2>1, <2>2, <2>4, <2>7 DEF SkbInv, Placed
    <3>2. Counted(s)'
      BY <1>1, <1>3, <2>1, <2>2, <2>4, <2>7 DEF SkbInv, Counted
    <3>3. QED
      BY <2>5, <3>1, <3>2 DEF SkbInv
  <2>8. QED
    BY <2>6, <2>7
<1>4. CASE HookQueue(h)
  <2> DEFINE t == hskb[h]
  <2>1. /\ t \in Skbs /\ cap_skb_queue' = Append(cap_skb_queue, t)
        /\ hskb' = [hskb EXCEPT ![h] = NULL]
        /\ UNCHANGED <<fresh, refs, rcvq, kskb, kpc>>
    BY <1>1, <1>4 DEF HookQueue, SInv, TInv, Locals
  <2>2. UNCHANGED <<InSocket(s), KcapdHolds(s)>>
    BY <2>1 DEF InSocket, KcapdHolds
  <2>3. hskb'[h] = NULL /\ \A g \in Cpus : g # h => hskb'[g] = hskb[g]
    BY <1>1, <2>1
  <2>4. Queued(s)' <=> Queued(s) \/ s = t
    BY <1>1, <2>1, AppendOnce DEF Queued
  <2>5. t = s => Built(s) /\ ~Built(s)'
    BY <1>1, <2>3 DEF Built, SkbInv, Single
  <2>6. t # s => (Built(s)' <=> Built(s))
    BY <2>3 DEF Built
  <2>7. Once(cap_skb_queue', s)
    BY <1>1, <2>1, <2>5, AppendOnce DEF SkbInv, Single, Placed, Queued
  <2>8. Single(s)'
    BY <1>1, <2>1, <2>3, <2>7 DEF SkbInv, Single
  <2>9. Placed(s)'
    BY <1>1, <2>1, <2>2, <2>4, <2>5, <2>6 DEF SkbInv, Placed
  <2>10. Counted(s)'
    BY <1>1, <2>1, <2>2, <2>4, <2>5, <2>6 DEF SkbInv, Placed, Counted
  <2>11. QED
    BY <2>8, <2>9, <2>10 DEF SkbInv
<1>5. QED
  BY <1>2, <1>3, <1>4 DEF hook_func_queue, HookRun, HookEnter, HookAlloc, HookBuild,
                          HookWake, HookFree

(* An error reply is no skb; a looped-back packet is consumed. *)
LEMMA SkbReceive ==
  ASSUME SInv, NEW r \in Receivers, cap_receive(r), NEW s \in Skbs PROVE SkbInv(s)'
<1> USE DEF kcapVars, userVars, skbVars, hookVars
<1>1. /\ SkbInv(s) /\ refs \in [Skbs -> Int] /\ rcvq \in [Clients -> Seq(Skbs \cup {ACK})]
      /\ kskb \in Skbs \cup {NULL}
  BY DEF SInv, TInv, TypeOK
<1>2. CASE MutexLock(r) \/ SetPort(r) \/ UpdateTable(r)
  BY <1>1, <1>2, SkbStays DEF MutexLock, SetPort, UpdateTable
<1>3. CASE StartKcapd(r)
  <2>1. UNCHANGED <<hskb, fresh, cap_skb_queue, kskb, refs>> /\ (kskb = s => kpc' = kpc)
    BY <1>3 DEF StartKcapd, SInv, TInv, Locals
  <2>2. CASE UNCHANGED rcvq
    BY <1>1, <2>1, <2>2, SkbStays
  <2>3. CASE rcvq' = [rcvq EXCEPT ![r] = Append(@, ACK)] /\ kpc = "none"
    <3>2. r \in Clients
      BY <1>3, <2>3 DEF StartKcapd, Receivers, SInv, TInv, Locals
    <3>3. \A c \in Clients : /\ s \in Range(rcvq'[c]) <=> s \in Range(rcvq[c])
                             /\ Once(rcvq'[c], s)
      <4>1. /\ s \in Range(Append(rcvq[r], ACK)) <=> s \in Range(rcvq[r])
            /\ Once(Append(rcvq[r], ACK), s)
        BY <1>1, <3>2, AppendOnce DEF SkbInv, Single
      <4>2. QED
        BY <1>1, <2>3, <3>2, <4>1 DEF SkbInv, Single
    <3>4. UNCHANGED <<Built(s), Queued(s)>> /\ (InSocket(s)' <=> InSocket(s))
      BY <2>1, <3>3 DEF Built, Queued, InSocket
    <3>5. KcapdHolds(s)' = KcapdHolds(s)
      BY <2>1 DEF KcapdHolds
    <3>6. Single(s)'
      BY <1>1, <2>1, <3>3 DEF SkbInv, Single
    <3>7. Placed(s)'
      BY <1>1, <2>1, <3>4 DEF SkbInv, Placed
    <3>8. Counted(s)'
      BY <1>1, <2>1, <3>4, <3>5 DEF SkbInv, Counted
    <3>9. QED
      BY <3>6, <3>7, <3>8 DEF SkbInv
  <2>4. QED
    BY <1>3, <2>2, <2>3 DEF StartKcapd
<1>4. CASE MutexUnlock(r)
  <2>1. UNCHANGED <<hskb, fresh, cap_skb_queue, rcvq, kskb>>
    BY <1>4 DEF MutexUnlock
  <2>2. CASE r = Kcapd
    <3>1. /\ kpc = "loopback" /\ kpc' = "sent" /\ kskb \in Skbs
          /\ refs' = [refs EXCEPT ![kskb] = @ - 1]
      BY <1>4, <2>2, <1>1 DEF MutexUnlock, SInv, TInv, Locals
    <3>2. UNCHANGED <<Built(s), Queued(s), InSocket(s)>> /\ Single(s)' /\ Placed(s)'
      BY <1>1, <2>1, <3>1 DEF Built, Queued, InSocket, SkbInv, Single, Placed
    <3>3. CASE kskb = s
      BY <1>1, <2>1, <3>1, <3>2, <3>3 DEF SkbInv, Placed, Counted, KcapdHolds
    <3>4. CASE kskb # s
      BY <1>1, <2>1, <3>1, <3>2, <3>4 DEF SkbInv, Counted, KcapdHolds
    <3>5. QED
      BY <3>3, <3>4
  <2>3. CASE r # Kcapd
    BY <1>1, <1>4, <2>1, <2>3, SkbStays DEF MutexUnlock
  <2>4. QED
    BY <2>2, <2>3
<1>5. QED
  BY <1>2, <1>3, <1>4 DEF cap_receive

(* kcapd's skb: from the queue to its hand, with a second reference for    *)
(* the unicast, which gives it to a socket or drops it.                    *)
LEMMA SkbKcapd ==
  ASSUME SInv, kcapd_thread, NEW s \in Skbs PROVE SkbInv(s)'
<1> USE DEF KcapdUnchanged, hookVars
<1>1. /\ SkbInv(s) /\ refs \in [Skbs -> Int] /\ rcvq \in [Clients -> Seq(Skbs \cup {ACK})]
      /\ kskb \in Skbs \cup {NULL} /\ cap_skb_queue \in Seq(Skbs)
      /\ kpc \in {"reply", "unicast", "loopback", "refused", "sent"} <=> kskb # NULL
  BY DEF SInv, TInv, TypeOK, Locals
<1>2. UNCHANGED <<hskb, fresh, Built(s)>>
  <2>1. UNCHANGED <<hskb, fresh>>
    BY DEF kcapd_thread, KcapdDequeue, KcapdWait, KcapdPrepare, KcapdTest,
           KcapdWoken, KcapdReply, netlink_unicast, KcapdRefused, KcapdSent
  <2>2. QED
    BY <2>1 DEF Built
<1>3. CASE KcapdDequeue
  <2>1. kskb = NULL /\ UNCHANGED <<rcvq, refs, InSocket(s)>> /\ KcapdHolds(s) = 0
    BY <1>1, <1>3 DEF KcapdDequeue, InSocket, KcapdHolds
  <2>2. CASE cap_skb_queue = <<>>
    BY <1>1, <1>2, <1>3, <2>1, <2>2, SkbStays DEF KcapdDequeue
  <2>3. CASE cap_skb_queue # <<>>
    <3>1. /\ kskb' = Head(cap_skb_queue) /\ cap_skb_queue' = Tail(cap_skb_queue)
          /\ kpc' = "reply"
      BY <1>3, <2>3 DEF KcapdDequeue
    <3>2. /\ Once(cap_skb_queue', s)
          /\ Queued(s)' => Queued(s) /\ kskb' # s
          /\ kskb' = s => Queued(s)
          /\ Queued(s) => Queued(s)' \/ kskb' = s
      BY <1>1, <2>3, <3>1, TailOnce DEF SkbInv, Single, Queued
    <3>3. Single(s)'
      BY <1>1, <1>2, <2>1, <3>2 DEF SkbInv, Single
    <3>4. Placed(s)'
      BY <1>1, <1>2, <2>1, <3>2 DEF SkbInv, Placed
    <3>5. KcapdHolds(s)' = IF kskb' = s THEN 1 ELSE 0
      BY <3>1 DEF KcapdHolds
    <3>6. Counted(s)'
      BY <1>1, <1>2, <2>1, <3>2, <3>5 DEF SkbInv, Placed, Counted
    <3>7. QED
      BY <3>3, <3>4, <3>6 DEF SkbInv
  <2>4. QED
    BY <2>2, <2>3
<1>4. CASE \/ KcapdWait \/ KcapdPrepare \/ KcapdTest \/ KcapdWoken
  <2>1. UNCHANGED <<cap_skb_queue, rcvq, refs, kskb>> /\ kskb # s
    BY <1>1, <1>4 DEF KcapdWait, KcapdPrepare, KcapdTest, KcapdWoken
  <2>2. QED
    BY <1>1, <1>2, <2>1, SkbStays
<1>5. ASSUME UNCHANGED <<cap_skb_queue, rcvq>>, kskb \in Skbs, kskb' \in {kskb, NULL},
             kskb # s => refs'[s] = refs[s],
             kskb = s =>
               /\ \/ refs'[s] - KcapdHolds(s)' = refs[s] - KcapdHolds(s)
                  \/ kpc = "refused" /\ kskb' = NULL /\ refs'[s] = refs[s]
               /\ kpc = "sent" => kskb' = NULL
      PROVE  SkbInv(s)'
  <2>1. UNCHANGED <<Queued(s), InSocket(s)>>
    BY <1>5 DEF Queued, InSocket
  <2>2. Single(s)'
    BY <1>1, <1>2, <1>5 DEF SkbInv, Single
  <2>3. Placed(s)'
    BY <1>1, <1>2, <1>5, <2>1 DEF SkbInv, Placed
  <2>4. CASE kskb # s
    <3>1. KcapdHolds(s) = 0 /\ KcapdHolds(s)' = 0 /\ kskb' # s
      BY <1>5, <2>4 DEF KcapdHolds
    <3>2. Counted(s) /\ refs'[s] = refs[s]
      BY <1>1, <1>5, <2>4 DEF SkbInv
    <3>3. Counted(s)'
      BY <1>2, <2>1, <2>4, <3>1, <3>2 DEF Counted
    <3>4. QED
      BY <2>2, <2>3, <3>3 DEF SkbInv
  <2>5. CASE kskb = s
    <3>1. /\ KcapdHolds(s) \in {1, 2} /\ KcapdHolds(s)' \in {0, 1, 2}
          /\ kskb' # s => KcapdHolds(s)' = 0
      BY <2>5 DEF KcapdHolds
    <3>2. ~Built(s) /\ ~Queued(s)
      BY <1>1, <2>5 DEF SkbInv, Placed
    <3>3. refs[s] \in Int /\ refs'[s] \in Int
      BY <1>1, TInvKcapd DEF SInv, TInv, TypeOK
    <3>4. /\ InSocket(s) => refs[s] = 1 + KcapdHolds(s)
          /\ ~InSocket(s) => refs[s] = KcapdHolds(s)
      BY <1>1, <2>5 DEF SkbInv, Counted
    <3>5. ASSUME refs'[s] - KcapdHolds(s)' = refs[s] - KcapdHolds(s)
          PROVE  Counted(s)'
      <4>1. /\ InSocket(s) => refs'[s] = 1 + KcapdHolds(s)'
            /\ ~InSocket(s) => refs'[s] = KcapdHolds(s)'
        BY <3>1, <3>3, <3>4, <3>5
      <4>2. QED
        BY <1>2, <2>1, <3>1, <3>2, <4>1 DEF Counted
    <3>6. ASSUME kpc = "refused", kskb' = NULL, refs'[s] = refs[s]
          PROVE  Counted(s)'
      <4>1. ~InSocket(s) /\ refs'[s] = 1 /\ kskb' # s
        BY <1>1, <2>5, <3>4, <3>6 DEF SkbInv, Placed, KcapdHolds
      <4>2. QED
        BY <1>2, <2>1, <3>2, <4>1 DEF Counted
    <3>7. Counted(s)'
      BY <1>5, <2>5, <3>5, <3>6
    <3>8. QED
      BY <2>2, <2>3, <3>7 DEF SkbInv
  <2>6. QED
    BY <2>4, <2>5
<1>6. CASE KcapdReply
  <2>1. /\ kskb \in Skbs /\ kpc = "reply" /\ kpc' = "unicast"
        /\ refs' = [refs EXCEPT ![kskb] = @ + 1]
        /\ UNCHANGED <<cap_skb_queue, rcvq, kskb>>
    BY <1>1, <1>6 DEF KcapdReply
  <2>2. QED
    BY <1>1, <1>5, <2>1 DEF KcapdHolds
<1>7. CASE netlink_unicast
  <2>1. kskb \in Skbs /\ kpc = "unicast" /\ UNCHANGED <<cap_skb_queue, kskb>>
    BY <1>1, <1>7 DEF netlink_unicast
  <2>2. CASE /\ kport \in Clients /\ kpc' = "sent" /\ UNCHANGED refs
             /\ rcvq' = [rcvq EXCEPT ![kport] = Append(@, kskb)]
    <3>1. \A c \in Clients :
            /\ c # kport => rcvq'[c] = rcvq[c]
            /\ c = kport => rcvq'[c] = Append(rcvq[c], kskb)
      BY <1>1, <2>2
    <3>2. \A c \in Clients :
            /\ s \in Range(rcvq'[c]) <=> s \in Range(rcvq[c]) \/ (c = kport /\ s = kskb)
            /\ Once(rcvq'[c], s)
      <4>1. /\ s \in Range(Append(rcvq[kport], kskb)) <=> s \in Range(rcvq[kport]) \/ s = kskb
            /\ Once(rcvq[kport], s) /\ (kskb = s => s \notin Range(rcvq[kport]))
                 => Once(Append(rcvq[kport], kskb), s)
        <5>1. rcvq[kport] \in Seq(Skbs \cup {ACK}) /\ kskb \in Skbs \cup {ACK}
          BY <1>1, <2>1, <2>2
        <5>2. QED
          BY <5>1, AppendOnce
      <4>2. kskb = s => s \notin Range(rcvq[kport])
        BY <1>1, <2>1, <2>2 DEF SkbInv, Placed, InSocket
      <4>3. QED
        BY <1>1, <2>2, <3>1, <4>1, <4>2 DEF SkbInv, Single
    <3>3. InSocket(s)' <=> InSocket(s) \/ s = kskb
      BY <2>2, <3>2 DEF InSocket
    <3>4. s = kskb => ~InSocket(s)
      BY <1>1, <2>1 DEF SkbInv, Placed
    <3>5. Single(s)'
      BY <1>1, <1>2, <2>1, <3>2, <3>4 DEF SkbInv, Single, InSocket
    <3>6. Queued(s)' <=> Queued(s)
      BY <2>1 DEF Queued
    <3>7. Placed(s)'
      BY <1>1, <1>2, <2>1, <2>2, <3>3, <3>6 DEF SkbInv, Placed
    <3>8. /\ KcapdHolds(s) = IF s = kskb THEN 2 ELSE 0
          /\ KcapdHolds(s)' = IF s = kskb THEN 1 ELSE 0
      BY <2>1, <2>2 DEF KcapdHolds
    <3>9. Counted(s)'
      BY <1>1, <1>2, <2>1, <2>2, <3>3, <3>4, <3>6, <3>8 DEF SkbInv, Placed, Counted
    <3>10. QED
      BY <3>5, <3>7, <3>9 DEF SkbInv
  <2>3. CASE UNCHANGED rcvq /\ kpc' = "refused" /\ refs' = [refs EXCEPT ![kskb] = @ - 1]
    BY <1>1, <1>5, <2>1, <2>3 DEF KcapdHolds
  <2>4. CASE UNCHANGED <<rcvq, refs>> /\ kpc' = "loopback"
    BY <1>1, <1>5, <2>1, <2>4 DEF KcapdHolds
  <2>5. QED
    BY <1>7, <2>2, <2>3, <2>4 DEF netlink_unicast
<1>8. CASE KcapdRefused
  <2>1. /\ kskb \in Skbs /\ kpc = "refused" /\ kskb' = NULL
        /\ UNCHANGED <<cap_skb_queue, rcvq, refs>>
    BY <1>1, <1>8 DEF KcapdRefused
  <2>2. QED
    BY <1>1, <1>5, <2>1 DEF KcapdHolds
<1>9. CASE KcapdSent
  <2>1. /\ kskb \in Skbs /\ kpc = "sent" /\ kskb' = NULL
        /\ refs' = [refs EXCEPT ![kskb] = @ - 1]
        /\ UNCHANGED <<cap_skb_queue, rcvq>>
    BY <1>1, <1>9 DEF KcapdSent
  <2>2. QED
    BY <1>1, <1>5, <2>1 DEF KcapdHolds
<1>10. QED
  BY <1>3, <1>4, <1>6, <1>7, <1>8, <1>9 DEF kcapd_thread

(* A client consumes the first message of its socket, or closes the socket *)
(* and drops them all.                                                     *)
LEMMA SkbClient ==
  ASSUME SInv, NEW c \in Clients, user_client(c), NEW s \in Skbs PROVE SkbInv(s)'
<1> USE DEF UserUnchanged, kcapVars, hookVars
<1>1. /\ SkbInv(s) /\ refs \in [Skbs -> Int] /\ rcvq \in [Clients -> Seq(Skbs \cup {ACK})]
  BY DEF SInv, TInv, TypeOK
<1>2. UNCHANGED <<hskb, fresh, cap_skb_queue, kskb, kpc>>
  BY DEF user_client, ClientStart, ClientRecv, ClientExit, ClientKilled, Close
<1>3. UNCHANGED <<Built(s), Queued(s), KcapdHolds(s)>>
  BY <1>2 DEF Built, Queued, KcapdHolds
<1>4. CASE ClientStart(c)
  BY <1>1, <1>2, <1>4, SkbStays DEF ClientStart
<1>5. ASSUME NEW q, rcvq' = [rcvq EXCEPT ![c] = q], Once(q, s),
             s \in Range(q) => s \in Range(rcvq[c]),
             refs'[s] = IF s \in Range(rcvq[c]) /\ s \notin Range(q)
                        THEN refs[s] - 1 ELSE refs[s]
      PROVE  SkbInv(s)'
  <2>1. rcvq'[c] = q /\ \A d \in Clients : d # c => rcvq'[d] = rcvq[d]
    BY <1>1, <1>5
  <2>2. Single(s)'
    BY <1>1, <1>2, <1>5, <2>1 DEF SkbInv, Single
  <2>3. InSocket(s)' => InSocket(s)
    BY <1>5, <2>1 DEF InSocket
  <2>4. Placed(s)'
    BY <1>1, <1>2, <1>3, <2>3 DEF SkbInv, Placed
  <2>5. CASE s \in Range(rcvq[c]) /\ s \notin Range(q)
    <3>1. InSocket(s) /\ ~InSocket(s)'
      BY <1>1, <2>1, <2>5 DEF InSocket, SkbInv, Single
    <3>2. KcapdHolds(s) \in Nat /\ (kskb # s => KcapdHolds(s) = 0)
      BY DEF KcapdHolds
    <3>3. ~Built(s) /\ ~Queued(s)
      BY <1>1, <3>1 DEF SkbInv, Placed
    <3>4. refs[s] = 1 + KcapdHolds(s) /\ refs[s] \in Int
      BY <1>1, <3>1 DEF SkbInv, Counted
    <3>5. refs'[s] = refs[s] - 1
      BY <1>5, <2>5
    <3>6. refs'[s] = KcapdHolds(s)
      BY <3>2, <3>4, <3>5
    <3>7. Counted(s)'
      BY <1>2, <1>3, <3>1, <3>2, <3>3, <3>6 DEF Counted
    <3>8. QED
      BY <2>2, <2>4, <3>7 DEF SkbInv
  <2>6. CASE ~(s \in Range(rcvq[c]) /\ s \notin Range(q))
    <3>1. refs'[s] = refs[s] /\ (InSocket(s) => InSocket(s)')
      BY <1>5, <2>1, <2>6 DEF InSocket
    <3>2. Counted(s)
      BY <1>1 DEF SkbInv
    <3>3. Counted(s)'
      BY <1>2, <1>3, <2>3, <3>1, <3>2 DEF Counted
    <3>4. QED
      BY <2>2, <2>4, <3>3 DEF SkbInv
  <2>7. QED
    BY <2>5, <2>6
<1>6. CASE ClientRecv(c)
  <2> DEFINE q == Tail(rcvq[c])
  <2>1. rcvq[c] \in Seq(Skbs \cup {ACK}) /\ rcvq[c] # <<>> /\ Once(rcvq[c], s)
    BY <1>1, <1>6 DEF ClientRecv, SkbInv, Single
  <2>2. /\ rcvq' = [rcvq EXCEPT ![c] = q]
        /\ refs'[s] = IF s = Head(rcvq[c]) THEN refs[s] - 1 ELSE refs[s]
    BY <1>6, ZenonT(30) DEF ClientRecv, recv_from_kernel
  <2>3. /\ Once(q, s) /\ (s \in Range(q) => s \in Range(rcvq[c]))
        /\ s = Head(rcvq[c]) <=> s \in Range(rcvq[c]) /\ s \notin Range(q)
    BY <2>1, TailOnce
  <2> HIDE DEF q
  <2>4. QED
    BY <1>5, <2>2, <2>3, ZenonT(30)
<1>7. CASE ClientExit(c) \/ ClientKilled(c)
  BY <1>5, <1>7, EmptyOnce, ZenonT(30) DEF ClientExit, ClientKilled, Close
<1>8. QED
  BY <1>4, <1>6, <1>7 DEF user_client

LEMMA SInvNext == SInv /\ [Next]_vars => SInv'
<1> SUFFICES ASSUME SInv, [Next]_vars PROVE SInv'
  OBVIOUS
<1>1. ASSUME UNCHANGED vars, NEW s \in Skbs PROVE SkbInv(s)'
  BY <1>1, SkbStays DEF vars, hookVars, skbVars, kcapVars, userVars, SInv
<1>2. \A s \in Skbs : SkbInv(s)'
  BY <1>1, SkbHook, SkbReceive, SkbKcapd, SkbClient DEF Next
<1>3. QED
  BY <1>2, TInvNext DEF SInv

(* At most one hook, one position of the queue and one socket. *)
LEMMA HoldsIsPlaces ==
  ASSUME NEW s \in Skbs, SkbInv(s)
  PROVE  Holds(s) = (IF Built(s) THEN 1 ELSE 0) + (IF Queued(s) THEN 1 ELSE 0)
                      + KcapdHolds(s) + (IF InSocket(s) THEN 1 ELSE 0)
<1>1. ASSUME NEW S, \A x, y \in S : x = y
      PROVE  Cardinality(S) = IF S = {} THEN 0 ELSE 1
  <2>1. CASE S = {}
    BY <2>1, FS_EmptySet
  <2>2. CASE S # {}
    <3>1. PICK x \in S : TRUE
      BY <2>2
    <3>2. S = {x}
      BY <1>1, <3>1
    <3>3. QED
      BY <2>2, <3>2, FS_Singleton, ZenonT(30)
  <2>3. QED
    BY <2>1, <2>2
<1> DEFINE H == {h \in Cpus : hskb[h] = s}
           P == {i \in DOMAIN cap_skb_queue : cap_skb_queue[i] = s}
           C == {c \in Clients : s \in Range(rcvq[c])}
<1>2. Cardinality(H) = IF Built(s) THEN 1 ELSE 0
  <2>1. (\A x, y \in H : x = y) /\ (H = {} <=> ~Built(s))
    BY DEF SkbInv, Single, Built
  <2>2. QED
    BY <1>1, <2>1
<1>3. Cardinality(P) = IF Queued(s) THEN 1 ELSE 0
  <2>1. (\A x, y \in P : x = y) /\ (P = {} <=> ~Queued(s))
    BY DEF SkbInv, Single, Once, Queued, Range
  <2>2. QED
    BY <1>1, <2>1
<1>4. Cardinality(C) = IF InSocket(s) THEN 1 ELSE 0
  <2>1. (\A x, y \in C : x = y) /\ (C = {} <=> ~InSocket(s))
    BY DEF SkbInv, Single, InSocket
  <2>2. QED
    BY <1>1, <2>1
<1>5. QED
  BY <1>2, <1>3, <1>4 DEF Holds, Occurrences

(* The count of an skb is the number of references that hooks, the queue,  *)
(* kcapd and sockets have, or one more when they have none, for any number *)
(* of cpus, clients and packets.                                           *)
THEOREM HeldAlwaysLive == Spec => []SkbHeldIsLive
<1>1. SInv => SkbHeldIsLive
  <2> SUFFICES ASSUME SInv, NEW s \in Skbs
               PROVE  refs[s] = Holds(s) \/ (Holds(s) = 0 /\ refs[s] = 1)
    BY DEF SkbHeldIsLive
  <2>1. SkbInv(s) /\ refs[s] \in Int
    BY DEF SInv, TInv, TypeOK
  <2>2. Holds(s) = (IF Built(s) THEN 1 ELSE 0) + (IF Queued(s) THEN 1 ELSE 0)
                      + KcapdHolds(s) + (IF InSocket(s) THEN 1 ELSE 0)
    BY <2>1, HoldsIsPlaces
  <2>3. KcapdHolds(s) \in Nat /\ (kskb # s => KcapdHolds(s) = 0)
    BY DEF KcapdHolds
  <2>4. QED
    BY <2>1, <2>2, <2>3 DEF SkbInv, Placed, Counted
<1>2. QED
  BY <1>1, SInvInit, SInvNext, PTL DEF Spec

=============================================================================
