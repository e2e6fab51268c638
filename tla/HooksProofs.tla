---------------------------- MODULE HooksProofs ----------------------------
(***************************************************************************)
(* Theorems about the modules that hang functions of theirs into others,   *)
(* for every value of their constants: the notifiers of regchain.c, the    *)
(* probes of kprobe.c and the return probe of funcexectime.c.              *)
(***************************************************************************)
EXTENDS NotifierChain, Probes, FuncExecTime, TLAPS

-----------------------------------------------------------------------------
(* The notifier chain, for any number of notifiers.  The chain is the      *)
(* interval Lo..Hi in order; a notifier that was unregistered since        *)
(* unregister_notifier began still points to the one after it, so from any *)
(* notifier up to Hi the walk goes up by one.                              *)

(* Two sequences one after the other. *)
LEMMA Joined ==
  ASSUME NEW S, NEW p \in Seq(S), NEW q \in Seq(S)
  PROVE  /\ p \o q \in Seq(S) /\ Len(p \o q) = Len(p) + Len(q)
         /\ \A j \in 1..(Len(p) + Len(q)) :
              (p \o q)[j] = IF j <= Len(p) THEN p[j] ELSE q[j - Len(p)]
OBVIOUS

(* A sequence with its element k taken out. *)
CutAt(s, k) == SubSeq(s, 1, k - 1) \o SubSeq(s, k + 1, Len(s))

LEMMA Cut ==
  ASSUME NEW S, NEW s \in Seq(S), NEW k \in 1..Len(s)
  PROVE  /\ CutAt(s, k) \in Seq(S) /\ Len(CutAt(s, k)) = Len(s) - 1
         /\ \A j \in 1..(Len(s) - 1) : CutAt(s, k)[j] = IF j < k THEN s[j] ELSE s[j + 1]
<1> DEFINE r == CutAt(s, k)
           p == SubSeq(s, 1, k - 1)
           q == SubSeq(s, k + 1, Len(s))
           l == Len(s)
<1>0. l \in Nat /\ k \in Int /\ 1 <= k /\ k <= l
  OBVIOUS
<1>1. /\ p \in Seq(S) /\ Len(p) = k - 1
      /\ \A j \in 1..(k - 1) : p[j] = s[j]
  OBVIOUS
<1>2. /\ q \in Seq(S) /\ Len(q) = l - k
      /\ \A j \in 1..(l - k) : q[j] = s[k + j]
  OBVIOUS
<1>3. r = p \o q
  BY DEF CutAt
<1> HIDE DEF p, q, r
<1>4. /\ r \in Seq(S) /\ Len(r) = Len(p) + Len(q)
      /\ \A j \in 1..(Len(p) + Len(q)) : r[j] = IF j <= Len(p) THEN p[j] ELSE q[j - Len(p)]
  <2>1. p \in Seq(S) /\ q \in Seq(S)
    BY <1>1, <1>2
  <2>2. /\ p \o q \in Seq(S) /\ Len(p \o q) = Len(p) + Len(q)
        /\ \A j \in 1..(Len(p) + Len(q)) : (p \o q)[j] = IF j <= Len(p) THEN p[j] ELSE q[j - Len(p)]
    BY <2>1, Joined, Zenon
  <2>3. QED
    BY <1>3, <2>2, Zenon
<1> HIDE DEF l
<1>5. Len(r) = l - 1
  <2>1. Len(r) = (k - 1) + (l - k)
    BY <1>1, <1>2, <1>4, Zenon
  <2>2. QED
    BY <1>0, <2>1
<1>6. ASSUME NEW j \in 1..(l - 1)
      PROVE  r[j] = IF j < k THEN s[j] ELSE s[j + 1]
  <2>1. CASE j < k
    <3>1. j \in 1..(k - 1) /\ j <= Len(p) /\ j \in 1..(Len(p) + Len(q))
      BY <1>0, <1>1, <1>2, <2>1
    <3>2. r[j] = s[j]
      BY <1>1, <1>4, <3>1
    <3>3. QED
      BY <2>1, <3>2
  <2>2. CASE ~(j < k)
    <3>1. j - (k - 1) \in 1..(l - k) /\ k + (j - (k - 1)) = j + 1 /\ ~(j <= Len(p)) /\ j \in 1..(Len(p) + Len(q))
      BY <1>0, <1>1, <1>2, <2>2
    <3>2. r[j] = q[j - (k - 1)]
      BY <1>1, <1>4, <3>1
    <3>3. QED
      BY <1>2, <2>2, <3>1, <3>2
  <2>3. QED
    BY <2>1, <2>2
<1>7. QED
  BY <1>4, <1>5, <1>6 DEF l, r

Lo == IF reg = "out" THEN 1 ELSE nth
Hi == IF reg = "out" THEN nth - 1 ELSE N

CTypes ==
  /\ test_chain \in Seq(1..N) /\ after \in [1..N -> 0..N]
  /\ reg \in {"out", "in", "leaving"} /\ nth \in 1..N
  /\ npc \in {"out", "load", "call", "in", "oops"}
  /\ nb \in 0..N /\ next_nb \in 0..N
  /\ called \in Seq(1..N) /\ stable \in SUBSET (1..N)
  /\ reg = "in" => nth = 1

Chained ==
  /\ Len(test_chain) = Hi - Lo + 1
  /\ \A k \in 1..Len(test_chain) : test_chain[k] = Lo + k - 1
  /\ reg = "leaving" => \A n \in 1..(nth - 1) : after[n] = n + 1

(* Where the walk stands: what it called is behind nb. *)
Walked ==
  /\ OncePerEvent
  /\ npc \in {"load", "call"} =>
       nb <= Hi /\ (nb # 0 => \A k \in 1..Len(called) : called[k] < nb)
  /\ npc = "call" =>
       nb # 0 /\ next_nb <= Hi /\ (next_nb # 0 => next_nb = nb + 1)

Called == {called[k] : k \in 1..Len(called)}

(* What stays on the chain was called or is ahead of the walk. *)
Heard ==
  /\ \A n \in stable : Lo <= n /\ n <= Hi
  /\ npc = "load" => \A n \in stable : n \in Called \/ (nb # 0 /\ nb <= n)
  /\ npc = "call" =>
       \A n \in stable : n \in Called \/ n = nb \/ (next_nb # 0 /\ next_nb <= n)

CInv == CTypes /\ Chained /\ Walked /\ Heard

LEMMA CInvInit == NotifierInit => CInv
BY NAssumption DEF NotifierInit, Notifiers, NoBlock, OncePerEvent, CInv, CTypes, Chained,
   Walked, Heard, Called, Lo, Hi

(* The entries of a sequence. *)
LEMMA Indexed ==
  ASSUME NEW S, NEW s \in Seq(S)
  PROVE  DOMAIN s = 1..Len(s) /\ Len(s) \in Nat /\ \A k \in 1..Len(s) : s[k] \in S
OBVIOUS

(* Both ends are numbers, and the chain is a sequence of them. *)
LEMMA Ends ==
  ASSUME CTypes
  PROVE  /\ Lo \in 1..N /\ Hi \in 0..N /\ Lo \in Int /\ Hi \in Int
         /\ DOMAIN test_chain = 1..Len(test_chain) /\ Len(test_chain) \in Nat
         /\ \A k \in 1..Len(test_chain) : test_chain[k] \in 1..N
<1>1. Lo \in 1..N /\ Hi \in 0..N
  <2>1. CASE reg = "out"
    BY <2>1, NAssumption DEF CTypes, Lo, Hi
  <2>2. CASE reg # "out"
    BY <2>2, NAssumption DEF CTypes, Lo, Hi
  <2>3. QED
    BY <2>1, <2>2
<1>2. /\ DOMAIN test_chain = 1..Len(test_chain) /\ Len(test_chain) \in Nat
      /\ \A k \in 1..Len(test_chain) : test_chain[k] \in 1..N
  <2>1. test_chain \in Seq(1..N)
    BY DEF CTypes
  <2>2. QED
    BY <2>1, Indexed, Zenon
<1>3. QED
  BY <1>1, <1>2, NAssumption

(* The next pointer of a notifier up to Hi leads to the one after it. *)
LEMMA NextIsNext ==
  ASSUME CTypes, Chained, NEW n \in 1..Hi
  PROVE  NextOf(n) = IF n = Hi THEN 0 ELSE n + 1
<1> USE NAssumption
<1>0. /\ Lo \in Int /\ Hi \in Int /\ N \in Int /\ n \in Int /\ 1 <= n /\ n <= Hi
      /\ DOMAIN test_chain = 1..Len(test_chain) /\ Len(test_chain) \in Nat
      /\ Len(test_chain) = Hi - Lo + 1
      /\ \A k \in 1..Len(test_chain) : test_chain[k] = Lo + k - 1
  BY Ends DEF Chained
<1>1. CASE Lo <= n
  <2>1. n - Lo + 1 \in 1..Len(test_chain) /\ test_chain[n - Lo + 1] = n
    BY <1>0, <1>1
  <2>2. Place(n) \in DOMAIN test_chain /\ test_chain[Place(n)] = n
    BY <1>0, <2>1 DEF Place
  <2>3. Place(n) = n - Lo + 1
    <3>1. Place(n) \in Int /\ n = Lo + Place(n) - 1
      BY <1>0, <2>2
    <3>2. Lo \in Int /\ n \in Int
      BY <1>0
    <3>3. QED
      BY <3>1, <3>2
  <2>4. NextOf(n) = IF Place(n) = Len(test_chain) THEN 0 ELSE test_chain[Place(n) + 1]
    BY <2>2 DEF NextOf, NoBlock
  <2>5. QED
    BY <1>0, <1>1, <2>3, <2>4
<1>2. CASE n < Lo
  <2>1. reg = "leaving" /\ n \in 1..(nth - 1)
    BY <1>0, <1>2 DEF CTypes, Lo
  <2>2. ~ \E k \in DOMAIN test_chain : test_chain[k] = n
    BY <1>0, <1>2
  <2>3. NextOf(n) = after[n]
    BY <2>2 DEF NextOf
  <2>4. n # Hi
    BY <1>0, <2>1 DEF CTypes, Hi
  <2>5. QED
    BY <2>1, <2>3, <2>4 DEF Chained
<1>3. QED
  BY <1>0, <1>1, <1>2

LEMMA CInvRegister ==
  ASSUME CInv, reg_notifier
  PROVE  CInv'
<1> USE NAssumption DEF CInv
<1>1. /\ reg = "out" /\ test_chain' = Append(test_chain, nth) /\ after' = after
      /\ IF nth = N THEN reg' = "in" /\ nth' = 1 ELSE reg' = reg /\ nth' = nth + 1
      /\ UNCHANGED <<event, npc, nb, next_nb, called, stable>>
  BY DEF reg_notifier, register_test_notifier, walkVars
<1>2. CTypes'
  <2>1. test_chain' \in Seq(1..N)
    BY <1>1 DEF CTypes
  <2>2. reg' \in {"out", "in", "leaving"} /\ nth' \in 1..N /\ (reg' = "in" => nth' = 1)
    BY <1>1 DEF CTypes
  <2>3. QED
    BY <1>1, <2>1, <2>2 DEF CTypes
<1>3. Lo = 1 /\ Lo' = 1 /\ Hi = nth - 1 /\ Hi' = nth
  BY <1>1 DEF Lo, Hi, CTypes
<1>4. Chained'
  <2>1. Len(test_chain') = Len(test_chain) + 1
    BY <1>1 DEF CTypes
  <2>2. \A k \in 1..Len(test_chain') : test_chain'[k] = k
    BY <1>1, <1>3, <2>1 DEF CTypes, Chained
  <2>3. reg' # "leaving"
    BY <1>1
  <2>4. QED
    BY <1>3, <2>1, <2>2, <2>3, Ends DEF Chained
<1>5. Walked'
  BY <1>1, <1>3 DEF Walked, OncePerEvent, CTypes
<1>6. Heard'
  <2>1. Called' = Called
    BY <1>1 DEF Called
  <2>2. \A n \in stable : n \in Int
    BY DEF CTypes
  <2>3. QED
    BY <1>1, <1>3, <2>1, <2>2 DEF Heard, CTypes
<1>7. QED
  BY <1>2, <1>4, <1>5, <1>6

LEMMA CInvUnregister ==
  ASSUME CInv, unregister_notifier
  PROVE  CInv'
<1> USE NAssumption DEF CInv
<1>1. /\ reg \in {"in", "leaving"} /\ stable' = stable \ {nth}
      /\ after' = [after EXCEPT ![nth] = NextOf(nth)] /\ test_chain' = Unlinked(nth)
      /\ IF nth = N
         THEN /\ reg' = "out" /\ nth' = 1
              /\ npc' = IF npc \in {"load", "call"} /\ nb # 0 THEN "oops" ELSE npc
         ELSE reg' = "leaving" /\ nth' = nth + 1 /\ npc' = npc
      /\ UNCHANGED <<nb, next_nb, called>>
  BY DEF unregister_notifier, unregister_test_notifier, NoBlock
<1>2. /\ Lo = nth /\ Hi = N
      /\ IF nth = N THEN Lo' = 1 /\ Hi' = 0 ELSE Lo' = nth + 1 /\ Hi' = N
  <2>1. CASE nth = N
    BY <1>1, <2>1 DEF Lo, Hi
  <2>2. CASE nth # N
    BY <1>1, <2>2 DEF Lo, Hi
  <2>3. QED
    BY <2>1, <2>2
<1>3. NextOf(nth) = IF nth = N THEN 0 ELSE nth + 1
  <2>1. nth \in 1..Hi
    BY <1>2 DEF CTypes
  <2>2. NextOf(nth) = IF nth = Hi THEN 0 ELSE nth + 1
    BY <2>1, NextIsNext, Zenon
  <2>3. QED
    BY <1>2, <2>2
<1>4. Place(nth) = 1
  <2>1. /\ DOMAIN test_chain = 1..Len(test_chain) /\ Len(test_chain) = N - nth + 1
        /\ \A k \in 1..Len(test_chain) : test_chain[k] = nth + k - 1
    BY <1>2, Ends DEF Chained
  <2>2. nth \in Int /\ nth <= N
    BY DEF CTypes
  <2>3. 1 \in DOMAIN test_chain /\ test_chain[1] = nth
    BY <2>1, <2>2
  <2>4. Place(nth) \in DOMAIN test_chain /\ test_chain[Place(nth)] = nth
    BY <2>3 DEF Place
  <2>5. QED
    BY <2>1, <2>2, <2>4
<1>5. /\ test_chain' \in Seq(1..N) /\ Len(test_chain') = Len(test_chain) - 1
      /\ \A k \in 1..Len(test_chain') : test_chain'[k] = test_chain[k + 1]
  <2>1. 1 \in 1..Len(test_chain) /\ Len(test_chain) \in Nat /\ test_chain \in Seq(1..N)
    BY <1>2, Ends DEF CTypes, Chained
  <2>2. test_chain' = CutAt(test_chain, 1)
    BY <1>1, <1>4, Zenon DEF Unlinked, CutAt
  <2>3. /\ test_chain' \in Seq(1..N) /\ Len(test_chain') = Len(test_chain) - 1
        /\ \A j \in 1..(Len(test_chain) - 1) :
             test_chain'[j] = IF j < 1 THEN test_chain[j] ELSE test_chain[j + 1]
    BY <2>1, <2>2, Cut, Zenon
  <2>4. ASSUME NEW k \in 1..Len(test_chain')
        PROVE  test_chain'[k] = test_chain[k + 1]
    <3>1. k \in 1..(Len(test_chain) - 1) /\ ~ (k < 1)
      BY <2>1, <2>3
    <3>2. QED
      BY <2>3, <3>1
  <2>5. QED
    BY <2>3, <2>4
<1>6. CTypes'
  <2>1. after' \in [1..N -> 0..N]
    BY <1>1, <1>3 DEF CTypes
  <2>2. reg' \in {"out", "leaving"} /\ nth' \in 1..N
    BY <1>1 DEF CTypes
  <2>3. npc' \in {"out", "load", "call", "in", "oops"} /\ stable' \in SUBSET (1..N)
    BY <1>1 DEF CTypes
  <2>4. nb' \in 0..N /\ next_nb' \in 0..N /\ called' \in Seq(1..N)
    BY <1>1 DEF CTypes
  <2>5. QED
    BY <1>5, <2>1, <2>2, <2>3, <2>4, Zenon DEF CTypes
<1>7. Chained'
  <2>1. /\ Len(test_chain') = Hi' - Lo' + 1
        /\ \A k \in 1..Len(test_chain') : test_chain'[k] = Lo' + k - 1
    <3>1. CASE nth = N
      BY <1>2, <1>5, <3>1, Ends DEF Chained
    <3>2. CASE nth # N
      <4>1. Lo \in Int /\ N \in Int /\ Len(test_chain) = N - Lo + 1 /\ Lo' = Lo + 1 /\ Hi' = N
        BY <1>2, <3>2, Ends DEF Chained
      <4>2. ASSUME NEW k \in 1..Len(test_chain')
            PROVE  test_chain'[k] = Lo' + k - 1
        <5>1. k + 1 \in 1..Len(test_chain)
          BY <1>5, <4>1
        <5>2. test_chain'[k] = Lo + (k + 1) - 1
          BY <1>5, <5>1 DEF Chained
        <5>3. QED
          BY <4>1, <5>2
      <4>3. QED
        BY <1>5, <4>1, <4>2
    <3>3. QED
      BY <3>1, <3>2
  <2>2. ASSUME reg' = "leaving", NEW n \in 1..(nth' - 1)
        PROVE  after'[n] = n + 1
    <3>1. nth # N /\ nth' = nth + 1 /\ nth \in 1..N /\ n \in 1..nth
      BY <1>1, <2>2 DEF CTypes
    <3>2. CASE n = nth
      BY <1>1, <1>3, <3>1, <3>2 DEF CTypes
    <3>3. CASE n # nth
      <4>1. reg = "leaving" /\ n \in 1..(nth - 1)
        BY <1>1, <3>1, <3>3 DEF CTypes
      <4>2. after'[n] = after[n]
        BY <1>1, <3>1, <3>3 DEF CTypes
      <4>3. QED
        BY <4>1, <4>2 DEF Chained
    <3>4. QED
      BY <3>2, <3>3
  <2>3. QED
    BY <2>1, <2>2 DEF Chained
<1>8. Walked'
  BY <1>1, <1>2 DEF Walked, OncePerEvent, CTypes
<1>9. Heard'
  <2>1. /\ nth \in Int /\ N \in Int
        /\ \A n \in stable' : n \in stable /\ n \in Int /\ nth < n /\ n <= N
    <3>1. nth \in Int /\ N \in Int /\ \A n \in stable : n \in Int
      BY DEF CTypes
    <3>2. \A n \in stable : nth <= n /\ n <= N
      BY <1>2 DEF Heard
    <3>3. \A n \in stable' : n \in stable /\ n # nth
      BY <1>1
    <3>4. QED
      BY <3>1, <3>2, <3>3
  <2>2. CASE nth = N
    <3>1. stable' = {}
      BY <2>1, <2>2
    <3>2. QED
      BY <3>1 DEF Heard
  <2>3. CASE nth # N
    <3>1. Lo' = nth + 1 /\ Hi' = N /\ npc' = npc
      BY <1>1, <1>2, <2>3
    <3>2. \A n \in stable' : Lo' <= n /\ n <= Hi'
      BY <2>1, <3>1
    <3>3. QED
      BY <1>1, <2>1, <3>1, <3>2 DEF Heard, Called
  <2>4. QED
    BY <2>2, <2>3
<1>10. QED
  BY <1>6, <1>7, <1>8, <1>9

(* An event is sent, or the last one is over. *)
LEMMA CInvSend ==
  ASSUME CInv, call_notifier
  PROVE  CInv'
<1> USE NAssumption DEF CInv
<1>1. UNCHANGED <<test_chain, after, reg, nth>> /\ called' = <<>>
  BY DEF call_notifier, chainVars, SendEvent
<1>2. Lo' = Lo /\ Hi' = Hi /\ Chained' /\ Lo \in 1..N /\ Hi \in 0..N
  <2>1. Lo' = Lo /\ Hi' = Hi
    BY <1>1 DEF Lo, Hi
  <2>2. QED
    BY <1>1, <2>1, Ends DEF Chained
<1>3. CASE \E e \in {1, 2} : SendEvent(e)
  <2>1. /\ npc' = "load" /\ next_nb' = 0
        /\ nb' = IF test_chain = <<>> THEN 0 ELSE test_chain[1]
        /\ stable' = {test_chain[k] : k \in DOMAIN test_chain}
    BY <1>3 DEF SendEvent, First, NoBlock, CTypes
  <2>2. nb' \in 0..N /\ nb' <= Hi /\ (nb' = 0 \/ nb' = Lo) /\ (nb' = 0 => Len(test_chain) = 0)
    <3>1. CASE test_chain = <<>>
      BY <1>2, <2>1, <3>1
    <3>2. CASE test_chain # <<>>
      <4>1. 1 \in 1..Len(test_chain)
        BY <3>2 DEF CTypes
      <4>2. QED
        BY <1>2, <2>1, <3>2, <4>1, Ends DEF Chained
    <3>3. QED
      BY <3>1, <3>2
  <2>3. \A n \in stable' : n \in 1..N /\ Lo <= n /\ n <= Hi /\ nb' # 0
    BY <1>2, <2>1, <2>2, Ends DEF Chained
  <2>4. CTypes'
    <3>1. /\ test_chain' \in Seq(1..N) /\ after' \in [1..N -> 0..N]
          /\ reg' \in {"out", "in", "leaving"} /\ nth' \in 1..N /\ (reg' = "in" => nth' = 1)
      BY <1>1 DEF CTypes
    <3>2. called' \in Seq(1..N) /\ next_nb' \in 0..N
      BY <1>1, <2>1
    <3>3. stable' \in SUBSET (1..N)
      BY <2>3
    <3>4. QED
      BY <2>1, <2>2, <3>1, <3>2, <3>3, Zenon DEF CTypes
  <2>5. Walked'
    BY <1>1, <1>2, <2>1, <2>2 DEF Walked, OncePerEvent
  <2>6. Heard'
    BY <1>1, <1>2, <2>1, <2>2, <2>3 DEF Heard
  <2>7. QED
    BY <1>2, <2>4, <2>5, <2>6
<1>4. CASE npc' = "in" /\ stable' = {} /\ UNCHANGED <<nb, next_nb>>
  BY <1>1, <1>2, <1>4 DEF CTypes, Walked, OncePerEvent, Heard
<1>5. QED
  BY <1>3, <1>4 DEF call_notifier

LEMMA CInvWalk ==
  ASSUME CInv, Load \/ Notify \/ uncall_notifier
  PROVE  CInv'
<1> USE NAssumption DEF CInv
<1>1. UNCHANGED <<test_chain, after, reg, nth, stable>>
  BY DEF Load, Notify, uncall_notifier, chainVars
<1>2. Lo' = Lo /\ Hi' = Hi /\ Chained' /\ Lo \in 1..N /\ Hi \in 0..N
  <2>1. Lo' = Lo /\ Hi' = Hi
    BY <1>1 DEF Lo, Hi
  <2>2. QED
    BY <1>1, <2>1, Ends DEF Chained
<1>3. CASE Load
  <2>1. npc = "load" /\ nb # 0 /\ npc' = "call" /\ next_nb' = NextOf(nb)
        /\ UNCHANGED <<nb, called>>
    BY <1>3 DEF Load, NoBlock
  <2>2. nb \in 1..Hi
    BY <1>2, <2>1 DEF Walked, CTypes
  <2>3. next_nb' = IF nb = Hi THEN 0 ELSE nb + 1
    BY <2>1, <2>2, NextIsNext
  <2>4. CTypes' /\ Walked'
    BY <1>1, <1>2, <2>1, <2>2, <2>3 DEF CTypes, Walked, OncePerEvent
  <2>5. Heard'
    <3>1. Called' = Called
      BY <2>1 DEF Called
    <3>2. \A n \in stable : n \in Int
      BY DEF CTypes
    <3>3. QED
      BY <1>1, <1>2, <2>1, <2>2, <2>3, <3>1, <3>2 DEF Heard
  <2>6. QED
    BY <1>2, <2>4, <2>5
<1>4. CASE Notify
  <2>1. npc = "call" /\ called' = Append(called, nb) /\ nb' = next_nb /\ npc' = "load"
        /\ next_nb' = next_nb
    BY <1>4 DEF Notify
  <2>2. nb \in 1..N
    BY <2>1 DEF Walked, CTypes
  <2>3. CTypes'
    BY <1>1, <2>1, <2>2 DEF CTypes
  <2>4. /\ DOMAIN called' = 1..(Len(called) + 1) /\ Len(called') = Len(called) + 1
        /\ DOMAIN called = 1..Len(called)
        /\ \A k \in 1..Len(called) : called'[k] = called[k]
        /\ called'[Len(called) + 1] = nb
    BY <2>1, <2>2 DEF CTypes
  <2>5. \A k \in 1..Len(called) : called[k] < nb
    BY <2>1, <2>2 DEF Walked
  <2>6. OncePerEvent'
    <3>1. \A j, k \in 1..Len(called) : j < k => called[j] < called[k]
      BY <2>4 DEF Walked, OncePerEvent
    <3>2. ASSUME NEW j \in 1..(Len(called) + 1), NEW k \in 1..(Len(called) + 1), j < k
          PROVE  called'[j] < called'[k]
      <4>1. Len(called) \in Nat
        BY DEF CTypes
      <4>2. CASE k = Len(called) + 1
        BY <2>4, <2>5, <3>2, <4>1, <4>2
      <4>3. CASE k \in 1..Len(called)
        BY <2>4, <3>1, <3>2, <4>1, <4>3
      <4>4. QED
        BY <4>1, <4>2, <4>3
    <3>3. QED
      BY <2>4, <3>2 DEF OncePerEvent
  <2>7. nb' # 0 => \A k \in 1..Len(called') : called'[k] < nb'
    BY <2>1, <2>2, <2>4, <2>5 DEF Walked, CTypes
  <2>8. Walked'
    BY <1>2, <2>1, <2>6, <2>7 DEF Walked
  <2>9. \A n : n \in Called \/ n = nb => n \in Called'
    <3>1. Len(called) \in Nat
      BY DEF CTypes
    <3>2. QED
      BY <2>4, <3>1 DEF Called
  <2>10. Heard'
    BY <1>1, <1>2, <2>1, <2>9 DEF Heard
  <2>11. QED
    BY <1>2, <2>3, <2>8, <2>10
<1>5. CASE uncall_notifier
  BY <1>1, <1>2, <1>5 DEF uncall_notifier, CTypes, Walked, OncePerEvent, Heard
<1>6. QED
  BY <1>3, <1>4, <1>5

LEMMA CInvNext ==
  ASSUME CInv, [NotifierNext]_notifierVars
  PROVE  CInv'
<1>1. CASE UNCHANGED notifierVars
  BY <1>1 DEF notifierVars, chainVars, walkVars, CInv, CTypes, Chained, Walked, OncePerEvent, Heard, Called, Lo, Hi
<1>2. QED
  BY <1>1, CInvRegister, CInvUnregister, CInvSend, CInvWalk DEF NotifierNext

LEMMA CInvHolds == NotifierSpec => []CInv
BY CInvInit, CInvNext, PTL DEF NotifierSpec

(* buildchain.c, notify.c: no notifier gets an event twice or out of turn, *)
(* whatever is registered and unregistered during the walk.                *)
THEOREM AlwaysOncePerEvent == NotifierSpec => []OncePerEvent
<1>1. CInv => OncePerEvent
  BY DEF CInv, Walked, OncePerEvent
<1>2. QED
  BY <1>1, CInvHolds, PTL

(* buildchain.c, notify.c: a notifier that stays registered for the whole  *)
(* walk gets the event, also when others are unregistered under the walk.  *)
THEOREM StableAlwaysHear == NotifierSpec => []StableHear
<1>1. CInv => StableHear
  BY DEF CInv, CTypes, Heard, Called, StableHear, NoBlock
<1>2. QED
  BY <1>1, CInvHolds, PTL

-----------------------------------------------------------------------------
(* kprobe.c, for arrays of any length and any number of cpus. *)
Whole(A) == A \subseteq planted \/ A \cap planted = {}

BTypes ==
  /\ probe \in {"init", "bad", "live", "exit", "gone"}
  /\ i \in Nat /\ to \in Nat
  /\ planted \subseteq All
  /\ cpu \in [Cpus -> All \cup {0}]

(* How far each function has come, told by what is planted: of an array    *)
(* that is being registered the probes before i, of one that is unwound    *)
(* those from i to the refused one, of all that are removed those from i.  *)
Progress ==
  /\ probe = "init" =>
       /\ i \in All
       /\ \A n \in planted : n < i
       /\ i \in Debug => \A n \in Debug : n < i => n \in planted
       /\ i \in JDebug => Whole(Debug) /\ \A n \in JDebug : n < i => n \in planted
  /\ probe = "bad" =>
       \/ /\ to \in Debug /\ i \in 3..to
          /\ \A n \in Debug \cup JDebug : n \in planted <=> i <= n /\ n < to
       \/ /\ to \in JDebug /\ i \in 3 + NDebug .. to /\ Whole(Debug)
          /\ \A n \in JDebug : n \in planted <=> i <= n /\ n < to
  /\ probe = "live" => Whole(Debug) /\ Whole(JDebug)
  /\ probe = "exit" => i >= 1 /\ \A n \in planted : n >= i
  /\ probe = "gone" => planted = {}

(* A handler runs only of a probe that is planted. *)
Running == \A c \in Cpus : cpu[c] # 0 => cpu[c] \in planted

BInv == BTypes /\ Progress /\ Running

LEMMA BInvInit == ASSUME ProbesInit PROVE BInv
BY ProbeAssumption DEF ProbesInit, BInv, BTypes, Progress, Running, All, Debug, JDebug, Whole

LEMMA BInvPlant ==
  ASSUME BInv, probe = "init", Plant, UNCHANGED cpu
  PROVE  BInv'
<1> USE ProbeAssumption DEF BInv, BTypes, Plant, Continue
<1>1. i \in All /\ planted' = planted \cup {i} /\ i' = i + 1 /\ UNCHANGED <<to, cpu>>
  BY DEF Progress
<1>2. BTypes' /\ Running'
  BY <1>1 DEF All, Running
<1>3. Progress'
  <2>1. \A n \in planted : n < i
    BY DEF Progress
  <2>2. CASE i \in 1..2
    BY <1>1, <2>1, <2>2 DEF Progress, All, Debug, JDebug, Whole
  <2>3. CASE i \in Debug
    <3>1. \A n \in Debug : n <= i => n \in planted'
      BY <1>1, <2>3 DEF Progress, Debug, All
    <3>2. i + 1 \notin Debug => Debug \subseteq planted'
      BY <2>3, <3>1 DEF Debug
    <3>3. JDebug \cap planted' = {}
      BY <1>1, <2>1, <2>3 DEF Debug, JDebug, All
    <3>4. QED
      BY <1>1, <2>1, <2>3, <3>1, <3>2, <3>3 DEF Progress, All, Debug, JDebug, Whole
  <2>4. CASE i \in JDebug
    <3>1. Whole(Debug)'
      BY <1>1, <2>4 DEF Progress, Whole, Debug, JDebug
    <3>2. \A n \in JDebug : n <= i => n \in planted'
      BY <1>1, <2>4 DEF Progress, JDebug, All
    <3>3. i + 1 \notin All => JDebug \subseteq planted'
      BY <2>4, <3>2 DEF JDebug, All
    <3>4. QED
      BY <1>1, <2>1, <2>4, <3>1, <3>2, <3>3 DEF Progress, All, Debug, JDebug, Whole
  <2>5. QED
    BY <1>1, <2>2, <2>3, <2>4 DEF All, Debug, JDebug
<1>4. QED
  BY <1>2, <1>3

LEMMA BInvKprobeInit ==
  ASSUME BInv, kprobe_init PROVE BInv'
<1> USE ProbeAssumption DEF BInv, BTypes
<1>1. CASE Plant
  BY <1>1, BInvPlant DEF kprobe_init
<1>2. CASE i <= 2 /\ Continue(3 + NDebug) /\ UNCHANGED <<to, planted>>
  <2>1. /\ probe = "init" /\ i' = 3 + NDebug /\ UNCHANGED <<to, planted, cpu>>
        /\ probe' = IF 3 + NDebug \in All THEN "init" ELSE "live"
    BY <1>2 DEF kprobe_init, Continue
  <2>2. \A n \in planted : n \in 1..2
    BY <1>2, <2>1 DEF Progress, All
  <2>3. Whole(Debug)' /\ JDebug \cap planted' = {}
    BY <2>1, <2>2 DEF Debug, JDebug, Whole
  <2>4. QED
    BY <2>1, <2>2, <2>3 DEF Progress, Running, All, Debug, JDebug, Whole
<1>3. CASE i > 2 /\ probe' = "bad" /\ i' = 3 /\ to' = i /\ UNCHANGED planted
  <2>1. probe = "init" /\ i \in Debug /\ UNCHANGED cpu
    BY <1>3 DEF kprobe_init, Debug
  <2>2. QED
    BY <1>3, <2>1 DEF Progress, Running, All, Debug, JDebug
<1>4. QED
  BY <1>1, <1>2, <1>3 DEF kprobe_init

LEMMA BInvJprobeInit ==
  ASSUME BInv, jprobe_init PROVE BInv'
<1> USE ProbeAssumption DEF BInv, BTypes
<1>1. CASE Plant
  BY <1>1, BInvPlant DEF jprobe_init
<1>2. CASE probe' = "bad" /\ i' = 3 + NDebug /\ to' = i /\ UNCHANGED planted
  <2>1. probe = "init" /\ i \in JDebug /\ UNCHANGED cpu
    BY <1>2 DEF jprobe_init
  <2>2. QED
    BY <1>2, <2>1 DEF Progress, Running, All, JDebug, Whole
<1>3. QED
  BY <1>1, <1>2 DEF jprobe_init

LEMMA BInvUnwind ==
  ASSUME BInv, Unwind PROVE BInv'
<1> USE ProbeAssumption DEF BInv, BTypes
<1>1. probe = "bad" /\ UNCHANGED <<to, cpu>>
  BY DEF Unwind
<1>2. CASE i < to
  <2>1. /\ i' = i + 1 /\ UNCHANGED probe
        /\ planted' = planted \ {i} /\ \A c \in Cpus : cpu[c] # i
    BY <1>2 DEF Unwind, Unregister
  <2>2. QED
    BY <1>1, <1>2, <2>1 DEF Progress, Running, Debug, JDebug, Whole
<1>3. CASE i >= to
  <2>1. UNCHANGED planted
    BY <1>3 DEF Unwind
  <2>2. CASE to \in Debug
    <3>1. /\ i' = 3 + NDebug
          /\ probe' = IF 3 + NDebug \in All THEN "init" ELSE "live"
      BY <1>3, <2>2 DEF Unwind, Continue
    <3>2. (Debug \cup JDebug) \cap planted = {}
      BY <1>1, <1>3, <2>2 DEF Progress, Debug, JDebug
    <3>3. QED
      BY <1>1, <2>1, <3>1, <3>2 DEF Progress, Running, All, Debug, JDebug, Whole
  <2>3. CASE to \notin Debug
    <3>1. i' = 3 + NDebug + NJprobe /\ probe' = "live"
      BY <1>3, <2>3 DEF Unwind, Continue, All
    <3>2. Whole(Debug) /\ JDebug \cap planted = {}
      BY <1>1, <1>3, <2>3 DEF Progress, Debug, JDebug
    <3>3. QED
      BY <1>1, <2>1, <3>1, <3>2 DEF Progress, Running, Whole
  <2>4. QED
    BY <2>2, <2>3
<1>4. QED
  BY <1>2, <1>3

LEMMA BInvExit ==
  ASSUME BInv, rmmod \/ probe_exit PROVE BInv'
<1> USE ProbeAssumption DEF BInv, BTypes
<1>1. CASE rmmod
  BY <1>1 DEF rmmod, Progress, Running, All
<1>2. CASE Remove
  BY <1>2 DEF Remove, Unregister, Progress, Running, All
<1>3. CASE probe = "exit" /\ i \notin All /\ probe' = "gone" /\ UNCHANGED <<i, to, planted, cpu>>
  BY <1>3 DEF Progress, Running, All
<1>4. QED
  BY <1>1, <1>2, <1>3 DEF probe_exit, kprobe_exit, jprobe_exit

LEMMA BInvNext ==
  ASSUME BInv, [ProbesNext]_probesVars PROVE BInv'
<1>1. ASSUME NEW c \in Cpus, Hit(c) \/ Leave(c) PROVE BInv'
  BY <1>1 DEF Hit, Leave, BInv, BTypes, Progress, Running, Whole
<1>2. CASE UNCHANGED probesVars
  BY <1>2 DEF probesVars, BInv, BTypes, Progress, Running, Whole
<1>3. QED
  BY <1>1, <1>2, BInvKprobeInit, BInvJprobeInit, BInvUnwind, BInvExit DEF ProbesNext, probe_init

LEMMA BInvHolds == ProbesSpec => []BInv
BY BInvInit, BInvNext, PTL DEF ProbesSpec

(* kprobe.c: when the module is gone nothing is planted and no handler     *)
(* runs, whichever registrations failed.                                   *)
THEOREM GoneAlwaysUnplanted == ProbesSpec => []GoneIsUnplanted
<1>1. BInv => GoneIsUnplanted
  BY DEF BInv, BTypes, Progress, Running, GoneIsUnplanted
<1>2. QED
  BY <1>1, BInvHolds, PTL

(* kprobe.c: once probe_init is done each array is planted as a whole or   *)
(* not at all.                                                             *)
THEOREM ArraysAlwaysWhole == ProbesSpec => []ArraysWhole
<1>1. BInv => ArraysWhole
  BY DEF BInv, Progress, Whole, ArraysWhole
<1>2. QED
  BY <1>1, BInvHolds, PTL

-----------------------------------------------------------------------------
(* funcexectime.c, for any number of callers and instances. *)
(* Types of the variables the argument is about. *)
FTypes ==
  /\ call \in [Tasks -> {"out", "entry", "in", "return", "print"}]
  /\ ri \in [Tasks -> Instances \cup {NONE}]
  /\ free \subseteq Instances
  /\ stamp \in [Instances -> Tasks \cup {NONE}]
  /\ took \in [Tasks -> Tasks \cup {NONE}]

(* The kernel's pool: an instance is free or with one call. *)
Pooled ==
  /\ \A t \in Tasks : ri[t] # NONE => ri[t] \notin free
  /\ \A t, u \in Tasks : ri[t] = ri[u] /\ ri[t] # NONE => t = u

(* A call in a handler has an instance, and from its entry to its return   *)
(* the stamp in its instance is its own: nobody else has the instance.     *)
Stamped ==
  /\ \A t \in Tasks : InHandler(t) => ri[t] # NONE
  /\ \A t \in Tasks : call[t] = "out" => ri[t] = NONE
  /\ \A t \in Tasks :
       call[t] \in {"in", "return", "print"} /\ ri[t] # NONE => stamp[ri[t]] = t

(* Unless the probe is there no call has an instance. *)
Unprobed == fet \notin {"live", "exit"} => \A t \in Tasks : ri[t] = NONE

FInv == FTypes /\ Pooled /\ Stamped /\ OwnDuration /\ Unprobed

LEMMA FInvInit == ASSUME FetInit PROVE FInv
<1> USE NONEAssumption DEF FetInit
<1>1. FTypes
  BY DEF FTypes
<1>2. \A t \in Tasks : call[t] = "out" /\ ri[t] = NONE
  OBVIOUS
<1>3. Pooled /\ Stamped /\ OwnDuration /\ Unprobed
  BY <1>2 DEF Pooled, Stamped, OwnDuration, Unprobed, InHandler
<1>4. QED
  BY <1>1, <1>3 DEF FInv

LEMMA FInvCall ==
  ASSUME FInv, NEW t \in Tasks, Call(t) PROVE FInv'
<1> USE NONEAssumption DEF FInv, FTypes, InHandler
<1>1. CASE fet # "live" \/ free = {}
  <2>1. /\ call[t] = "out" /\ call' = [call EXCEPT ![t] = "in"]
        /\ UNCHANGED <<fet, ri, free, stamp, took>>
    BY <1>1 DEF Call
  <2>2. ri[t] = NONE
    BY <2>1 DEF Stamped
  <2>3. QED
    BY <2>1, <2>2 DEF Pooled, Stamped, OwnDuration, Unprobed
<1>2. CASE fet = "live" /\ free # {}
  <2>1. PICK x \in free :
          /\ call[t] = "out" /\ call' = [call EXCEPT ![t] = "entry"]
          /\ ri' = [ri EXCEPT ![t] = x] /\ free' = free \ {x}
          /\ UNCHANGED <<fet, stamp, took>>
    BY <1>2 DEF Call
  <2>2. ri[t] = NONE /\ x # NONE /\ x \in Instances /\ \A u \in Tasks : ri[u] # x
    BY <2>1 DEF Stamped, Pooled
  <2>3. Pooled'
    BY <2>1, <2>2 DEF Pooled
  <2>4. Stamped'
    BY <2>1, <2>2 DEF Stamped
  <2>5. QED
    BY <1>2, <2>1, <2>2, <2>3, <2>4 DEF OwnDuration, Unprobed
<1>3. QED
  BY <1>1, <1>2

LEMMA FInvEntry ==
  ASSUME FInv, NEW t \in Tasks, entry_handler(t) PROVE FInv'
<1> USE NONEAssumption DEF FInv, FTypes, InHandler
<1>1. /\ call[t] = "entry" /\ call' = [call EXCEPT ![t] = "in"] /\ UNCHANGED <<fet, took>>
      /\ ri[t] \in Instances /\ ri[t] \notin free
  BY DEF entry_handler, Stamped, Pooled
<1>2. CASE t \in Kthreads
  <2>1. /\ ri' = [ri EXCEPT ![t] = NONE] /\ free' = free \cup {ri[t]}
        /\ UNCHANGED stamp
    BY <1>2 DEF entry_handler, recycle_rp_inst
  <2>2. Pooled'
    BY <1>1, <2>1 DEF Pooled
  <2>3. QED
    BY <1>1, <2>1, <2>2 DEF Stamped, OwnDuration, Unprobed
<1>3. CASE t \notin Kthreads
  <2>1. stamp' = [stamp EXCEPT ![ri[t]] = t] /\ UNCHANGED <<ri, free>>
    BY <1>3 DEF entry_handler
  <2>2. \A u \in Tasks : u # t => ri[u] # ri[t]
    BY <1>1 DEF Pooled
  <2>3. Stamped'
    BY <1>1, <2>1, <2>2 DEF Stamped
  <2>4. QED
    BY <1>1, <2>1, <2>3 DEF Pooled, OwnDuration, Unprobed
<1>4. QED
  BY <1>2, <1>3

LEMMA FInvReturn ==
  ASSUME FInv, NEW t \in Tasks, Return(t) PROVE FInv'
<1> USE NONEAssumption DEF FInv, FTypes, InHandler
<1>1. CASE ri[t] # NONE
  BY <1>1 DEF Return, Pooled, Stamped, OwnDuration, Unprobed
<1>2. CASE ri[t] = NONE
  <2>1. /\ call[t] = "in" /\ call' = [call EXCEPT ![t] = "out"]
        /\ stamp' = [x \in Instances |-> IF stamp[x] = t THEN NONE ELSE stamp[x]]
        /\ UNCHANGED <<fet, ri, free, took>>
    BY <1>2 DEF Return, Ended
  <2>2. FTypes' /\ Pooled'
    BY <2>1 DEF Pooled
  <2>3. Stamped'
    BY <1>2, <2>1 DEF Stamped
  <2>4. QED
    BY <2>1, <2>2, <2>3 DEF OwnDuration, Unprobed
<1>3. QED
  BY <1>1, <1>2

LEMMA FInvRet ==
  ASSUME FInv, NEW t \in Tasks, ret_handler(t) PROVE FInv'
<1> USE NONEAssumption DEF FInv, FTypes, InHandler
<1>1. CASE call[t] = "return"
  <2>1. /\ took' = [took EXCEPT ![t] = stamp[ri[t]]]
        /\ call' = [call EXCEPT ![t] = "print"]
        /\ UNCHANGED <<fet, ri, free, stamp>>
    BY <1>1 DEF ret_handler
  <2>2. stamp[ri[t]] = t
    BY <1>1 DEF Stamped
  <2>3. QED
    BY <1>1, <2>1, <2>2 DEF Pooled, Stamped, OwnDuration, Unprobed
<1>2. CASE call[t] = "print"
  <2>1. /\ call' = [call EXCEPT ![t] = "out"]
        /\ ri' = [ri EXCEPT ![t] = NONE] /\ free' = free \cup {ri[t]}
        /\ took' = [took EXCEPT ![t] = t]
        /\ stamp' = [x \in Instances |-> IF stamp[x] = t THEN NONE ELSE stamp[x]]
        /\ UNCHANGED fet
    BY <1>2 DEF ret_handler, recycle_rp_inst, Ended
  <2>2. ri[t] \in Instances
    BY <1>2 DEF Stamped
  <2>3. Pooled'
    BY <2>1, <2>2 DEF Pooled
  <2>4. Stamped'
    BY <2>1, <2>2 DEF Stamped
  <2>5. QED
    BY <2>1, <2>2, <2>3, <2>4 DEF OwnDuration, Unprobed
<1>3. QED
  BY <1>1, <1>2 DEF ret_handler

LEMMA FInvModule ==
  ASSUME FInv, fet_init \/ fet_exit PROVE FInv'
<1> USE NONEAssumption DEF FInv, FTypes, InHandler
<1>1. CASE fet \in {"init", "live"} /\ UNCHANGED callVars
  BY <1>1 DEF fet_init, fet_exit, callVars, Pooled, Stamped, OwnDuration, Unprobed
<1>2. CASE fet = "exit" /\ fet_exit
  <2>1. /\ \A t \in Tasks : ~InHandler(t)
        /\ ri' = [t \in Tasks |-> NONE] /\ free' = Instances
        /\ UNCHANGED <<call, stamp, took>>
    BY <1>2 DEF fet_exit
  <2>2. QED
    BY <2>1 DEF Pooled, Stamped, OwnDuration, Unprobed
<1>3. QED
  BY <1>1, <1>2 DEF fet_init, fet_exit

LEMMA FInvNext == ASSUME FInv, [FetNext]_fetVars PROVE FInv'
<1>1. CASE UNCHANGED fetVars
  BY <1>1 DEF fetVars, callVars, FInv, FTypes, InHandler, Pooled, Stamped, OwnDuration, Unprobed
<1>2. QED
  BY <1>1, FInvCall, FInvEntry, FInvReturn, FInvRet, FInvModule DEF FetNext

LEMMA FInvHolds == FetSpec => []FInv
BY FInvInit, FInvNext, PTL DEF FetSpec

(* funcexectime.c: the duration printed for a call is measured from that   *)
(* call's own entry, although instances are used again by other calls.     *)
THEOREM DurationsAreOwn == FetSpec => []OwnDuration
<1>1. FInv => OwnDuration
  BY DEF FInv, OwnDuration
<1>2. QED
  BY <1>1, FInvHolds, PTL

(* funcexectime.c: unregister_kretprobe leaves no handler running.         *)
THEOREM GoneAlwaysQuiet == FetSpec => []GoneIsQuiet
<1>1. FInv => GoneIsQuiet
  BY DEF FInv, Unprobed, Stamped, GoneIsQuiet
<1>2. QED
  BY <1>1, FInvHolds, PTL
=============================================================================
