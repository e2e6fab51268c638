--------------------------- MODULE NetlinkProofs ---------------------------
(***************************************************************************)
(* Theorems about netlink.c beside those on Capture: loading and unloading *)
(* it (CapLifecycle) and its rate limiter (RateCheck), for every value of  *)
(* their constants.                                                        *)
(***************************************************************************)
EXTENDS CapLifecycle, RateCheck, FiniteSetTheorems, WellFoundedInduction, TLAPS

-----------------------------------------------------------------------------
(* Loading and unloading: what commands and app_init share.                *)

LTypes ==
  /\ cap_nlk_portid \in Ports /\ usrtab \in [Slots -> Ports] /\ usrcnt \in Nat
  /\ rpc \in [Receivers -> {"out", "lock", "check", "port", "table", "unlock"}]
  /\ rop \in [Receivers -> {"CAP_ADD", "CAP_DEL", "CAP_GET_PACKET"}]
  /\ upc \in [Clients -> {"start", "add", "recv", "del", "exit", "closed"}]
  /\ zeroed \in Nat /\ (mod \in {"create", "usertab"} => zeroed < MAX_TAB_SIZE)

(* Who is inside cap_receive has the mutex; a client that is not in        *)
(* sendmsg is outside; kcapd's messages do not touch port or table.        *)
Held ==
  /\ \A r \in Receivers : rpc[r] \in {"check", "port", "table", "unlock"} => cap_cmd_mutex = r
  /\ \A c \in Clients : upc[c] \notin {"add", "del"} => rpc[c] = "out"
  /\ rop[Kcapd] = "CAP_GET_PACKET"
  /\ \A r \in Receivers : rpc[r] \in {"port", "table"} => rop[r] # "CAP_GET_PACKET"

(* What a command that has set the port finds there when it comes to the   *)
(* table.                                                                  *)
Tabled ==
  \A r \in Receivers : rpc[r] = "table" =>
    cap_nlk_portid \in IF rop[r] = "CAP_ADD" THEN {r, Kernel} ELSE {Kernel}

LInv == LTypes /\ Held /\ Tabled /\ UsersCounted /\ LivePortRegistered

Taken == {i \in Slots : usrtab[i] # Kernel}

LEMMA TakenFinite ==
  ASSUME usrtab \in [Slots -> Ports]
  PROVE  /\ IsFiniteSet(Taken) /\ Cardinality(Taken) \in Nat
         /\ (\A i \in Slots : usrtab[i] # Kernel) => Cardinality(Taken) = MAX_TAB_SIZE
<1>1. IsFiniteSet(Slots) /\ Cardinality(Slots) = MAX_TAB_SIZE
  BY FS_Interval, SizesAssumption DEF Slots
<1>2. IsFiniteSet(Taken)
  BY <1>1, FS_Subset DEF Taken
<1>3. ASSUME \A i \in Slots : usrtab[i] # Kernel PROVE Taken = Slots
  BY <1>3 DEF Taken
<1>4. QED
  BY <1>1, <1>2, <1>3, FS_CardinalityType

(* Joining, leaving and clearing a slot keep the count an upper bound. *)
LEMMA TableBound ==
  ASSUME usrtab \in [Slots -> Ports], usrcnt \in Nat, UsersCounted, NEW p \in Clients,
         user_join(p) \/ user_leave(p)
  PROVE  usrtab' \in [Slots -> Ports] /\ usrcnt' \in Nat /\ UsersCounted'
<1>1. /\ IsFiniteSet(Taken) /\ Cardinality(Taken) \in Nat /\ MAX_TAB_SIZE \in Nat
      /\ Cardinality(Taken) <= usrcnt /\ usrcnt <= MAX_TAB_SIZE
  BY TakenFinite, SizesAssumption DEF UsersCounted, Taken
<1>2. CASE UNCHANGED tabVars
  BY <1>2 DEF tabVars, UsersCounted
<1>3. ASSUME NEW i \in Slots, FirstSlot(i, Kernel), usrtab' = [usrtab EXCEPT ![i] = p],
             usrcnt < MAX_TAB_SIZE, usrcnt' = usrcnt + 1
      PROVE  usrtab' \in [Slots -> Ports] /\ usrcnt' \in Nat /\ UsersCounted'
  <2>1. Taken' = Taken \cup {i} /\ i \notin Taken
    BY <1>3, NamesAssumption DEF Taken, FirstSlot
  <2>2. Cardinality(Taken \cup {i}) = Cardinality(Taken) + 1
    BY <1>1, <2>1, FS_AddElement, Zenon
  <2>3. Cardinality(Taken') = Cardinality(Taken) + 1
    BY <2>1, <2>2
  <2>4. UsersCounted'
    BY <1>1, <1>3, <2>3 DEF UsersCounted, Taken
  <2>5. QED
    BY <1>1, <1>3, <2>4 DEF Ports
<1>4. ASSUME NEW i \in Slots, FirstSlot(i, p), usrtab' = [usrtab EXCEPT ![i] = Kernel],
             usrcnt > 0, usrcnt' = usrcnt - 1
      PROVE  usrtab' \in [Slots -> Ports] /\ usrcnt' \in Nat /\ UsersCounted'
  <2>1. Taken' = Taken \ {i} /\ i \in Taken
    BY <1>4, NamesAssumption DEF Taken, FirstSlot
  <2>2. Cardinality(Taken \ {i}) = Cardinality(Taken) - 1
    BY <1>1, <2>1, FS_RemoveElement, Zenon
  <2>3. Cardinality(Taken') = Cardinality(Taken) - 1
    BY <2>1, <2>2
  <2>4. UsersCounted'
    BY <1>1, <1>4, <2>3 DEF UsersCounted, Taken
  <2>5. QED
    BY <1>1, <1>4, <2>4 DEF Ports
<1>5. QED
  BY <1>2, <1>3, <1>4 DEF user_join, user_leave

LEMMA LInvInit == LifeInit => LInv
<1> SUFFICES ASSUME LifeInit PROVE LInv
  OBVIOUS
<1>1. Taken = {} /\ usrcnt = 0 /\ Cardinality({}) = 0
  BY FS_EmptySet DEF LifeInit, Init, Taken
<1>2. UsersCounted
  BY <1>1, SizesAssumption DEF UsersCounted, Taken
<1>3. QED
  BY <1>2, SizesAssumption DEF LifeInit, Init, LInv, LTypes, Held, Tabled,
                                  LivePortRegistered, Receivers, Ports

(* A step that leaves port, table and commands alone. *)
LEMMA LInvKept ==
  ASSUME LInv, UNCHANGED <<portVars, tabVars, recvVars, zeroed>>,
         mod' \in {"create", "usertab"} => mod \in {"create", "usertab"},
         mod' = "live" => mod = "live",
         upc' \in [Clients -> {"start", "add", "recv", "del", "exit", "closed"}],
         \A c \in Clients : upc'[c] \notin {"add", "del"} => upc[c] \notin {"add", "del"}
  PROVE  LInv'
<1>1. UNCHANGED <<cap_nlk_portid, usrtab, usrcnt, cap_cmd_mutex, rpc, rop, zeroed>>
  BY DEF portVars, tabVars, recvVars
<1>2. LTypes' /\ Tabled' /\ UsersCounted'
  BY <1>1 DEF LInv, LTypes, Tabled, UsersCounted
<1>3. Held' /\ LivePortRegistered'
  BY <1>1 DEF LInv, Held, LivePortRegistered, PortRegistered
<1>4. QED
  BY <1>2, <1>3 DEF LInv

(* usertab_init clears a slot that a command may have filled. *)
LEMMA LInvUsertab == ASSUME LInv, usertab_init PROVE LInv'
<1>1. /\ mod = "usertab" /\ mod' # "live" /\ zeroed \in Slots
      /\ usrtab' = [usrtab EXCEPT ![zeroed] = Kernel] /\ zeroed' = zeroed + 1
      /\ mod' # "create" /\ (zeroed + 1 = MAX_TAB_SIZE => mod' # "usertab")
      /\ UNCHANGED <<cap_nlk_portid, usrcnt, cap_cmd_mutex, rpc, rop, upc>>
  BY SizesAssumption DEF usertab_init, LInv, LTypes, Slots, portVars, recvVars, userVars
<1>2. Cardinality(Taken') <= Cardinality(Taken)
  <2>1. Taken' \in SUBSET Taken
    BY <1>1 DEF LInv, LTypes, Taken
  <2>2. IsFiniteSet(Taken)
    BY TakenFinite DEF LInv, LTypes
  <2>3. QED
    BY <2>1, <2>2, FS_Subset
<1>3. Cardinality(Taken) \in Nat /\ Cardinality(Taken') \in Nat
  <2>1. usrtab \in [Slots -> Ports] /\ usrtab' \in [Slots -> Ports]
    BY <1>1 DEF LInv, LTypes, Ports
  <2>2. IsFiniteSet(Taken) /\ Taken' \in SUBSET Taken
    BY <1>1, <2>1, TakenFinite DEF Taken
  <2>3. QED
    BY <2>2, FS_Subset, FS_CardinalityType
<1>4. UsersCounted'
  BY <1>1, <1>2, <1>3, SizesAssumption DEF LInv, LTypes, UsersCounted, Taken
<1>5. LTypes'
  BY <1>1, SizesAssumption DEF LInv, LTypes, Ports, Slots
<1>6. Held' /\ Tabled' /\ LivePortRegistered'
  BY <1>1 DEF LInv, Held, Tabled, LivePortRegistered
<1>7. QED
  BY <1>4, <1>5, <1>6 DEF LInv

(* The port is cleared at the end of app_init, and by kcapd. *)
LEMMA LInvCleared ==
  ASSUME LInv, cap_nlk_portid' = Kernel, mod' = mod \/ mod' = "live",
         UNCHANGED <<usrtab, usrcnt, cap_cmd_mutex, rpc, rop, upc, zeroed>>
  PROVE  LInv'
<1>1. LTypes' /\ Held'
  BY DEF LInv, LTypes, Held, Ports
<1>2. Tabled' /\ UsersCounted' /\ LivePortRegistered'
  BY DEF LInv, Tabled, UsersCounted, LivePortRegistered, PortRegistered
<1>3. QED
  BY <1>1, <1>2 DEF LInv

LEMMA LInvModule == ASSUME LInv, app_init \/ app_exit PROVE LInv'
<1>1. CASE netlink_kernel_create \/ cap_hook_init \/ skb_queue_head_init \/ app_exit
  <2>1. /\ UNCHANGED <<portVars, tabVars, recvVars, upc, zeroed>>
        /\ mod' # "live" /\ mod' # "create" /\ (mod' = "usertab" => mod = "create")
    BY <1>1 DEF netlink_kernel_create, cap_hook_init, skb_queue_head_init, app_exit, vars, userVars
  <2>2. QED
    BY <2>1, LInvKept DEF LInv, LTypes
<1>2. QED
  BY <1>1, LInvUsertab, LInvCleared DEF app_init, ClearPort, tabVars, recvVars, userVars

(* Commands.  The step of r changes its own rpc only. *)
LEMMA LInvUpdateTable ==
  ASSUME LInv, NEW r \in Receivers, UpdateTable(r), UNCHANGED lifeVars PROVE LInv'
<1>1. /\ rpc[r] = "table" /\ cap_cmd_mutex = r /\ r # Kcapd
      /\ UNCHANGED <<cap_nlk_portid, cap_cmd_mutex, rop, upc, mod, zeroed>>
      /\ rpc' = [rpc EXCEPT ![r] = "unlock"]
      /\ \/ rop[r] = "CAP_ADD" /\ user_join(r)
         \/ rop[r] = "CAP_DEL" /\ user_leave(r)
  BY DEF UpdateTable, Goto, LInv, LTypes, Held, portVars, userVars, lifeVars
<1>2. r \in Clients
  BY <1>1 DEF Receivers
<1>3. usrtab' \in [Slots -> Ports] /\ usrcnt' \in Nat /\ UsersCounted'
  BY <1>1, <1>2, TableBound DEF LInv, LTypes
<1>4. LTypes' /\ Held'
  BY <1>1, <1>3 DEF LInv, LTypes, Held
<1>5. Tabled'
  BY <1>1 DEF LInv, LTypes, Held, Tabled
<1>6. PortRegistered'
  <2>1. CASE cap_nlk_portid = Kernel
    BY <1>1, <2>1 DEF PortRegistered
  <2>2. CASE cap_nlk_portid # Kernel
    <3>1. cap_nlk_portid = r /\ user_join(r)
      BY <1>1, <2>2 DEF LInv, Tabled
    <3>2. CASE \E i \in Slots : usrtab' = [usrtab EXCEPT ![i] = r]
      BY <1>1, <3>1, <3>2 DEF PortRegistered, LInv, LTypes
    <3>3. CASE /\ usrcnt >= MAX_TAB_SIZE \/ \A i \in Slots : usrtab[i] # Kernel
               /\ UNCHANGED tabVars
      <4>1. /\ Cardinality(Taken) \in Nat /\ MAX_TAB_SIZE \in Nat /\ usrcnt \in Nat
            /\ (\A i \in Slots : usrtab[i] # Kernel) => Cardinality(Taken) = MAX_TAB_SIZE
        BY TakenFinite, SizesAssumption DEF LInv, LTypes
      <4>2. Cardinality(Taken) <= usrcnt /\ usrcnt <= MAX_TAB_SIZE
        BY DEF LInv, UsersCounted, Taken
      <4>3. usrcnt = MAX_TAB_SIZE
        BY <3>3, <4>1, <4>2
      <4>4. QED
        BY <3>3, <4>3 DEF PortRegistered, tabVars
    <3>4. QED
      BY <3>1, <3>2, <3>3 DEF user_join
  <2>3. QED
    BY <2>1, <2>2
<1>7. QED
  BY <1>3, <1>4, <1>5, <1>6 DEF LInv, LivePortRegistered

LEMMA LInvSetPort ==
  ASSUME LInv, NEW r \in Receivers, SetPort(r), UNCHANGED lifeVars PROVE LInv'
<1>1. /\ rpc[r] = "port" /\ cap_cmd_mutex = r /\ r # Kcapd /\ rop[r] # "CAP_GET_PACKET"
      /\ UNCHANGED <<usrtab, usrcnt, cap_cmd_mutex, rop, upc, mod, zeroed>>
      /\ rpc' = [rpc EXCEPT ![r] = "table"]
      /\ cap_nlk_portid' = IF rop[r] = "CAP_ADD" THEN r ELSE Kernel
  BY DEF SetPort, Goto, LInv, LTypes, Held, tabVars, userVars, lifeVars
<1>2. r \in Clients
  BY <1>1 DEF Receivers
<1>3. LTypes' /\ Held' /\ UsersCounted'
  BY <1>1, <1>2 DEF LInv, LTypes, Held, UsersCounted, Ports
<1>4. \A q \in Receivers : rpc'[q] = "table" => q = r
  BY <1>1 DEF LInv, LTypes, Held
<1>5. Tabled'
  BY <1>1, <1>4 DEF Tabled
<1>6. PortRegistered'
  BY <1>1 DEF PortRegistered, LInv, LTypes
<1>7. QED
  BY <1>3, <1>5, <1>6 DEF LInv, LivePortRegistered

(* The other steps of a command leave port and table alone, and none is at *)
(* the table before or after.                                              *)
LEMMA LInvMoves ==
  ASSUME LInv, NEW r \in Receivers, rpc[r] # "table",
         NEW l \in {"out", "lock", "check", "port", "unlock"},
         rpc' = [rpc EXCEPT ![r] = l], UNCHANGED <<portVars, tabVars, lifeVars>>,
         rop' = rop \/ (l = "lock" /\ \E o \in {"CAP_ADD", "CAP_DEL", "CAP_GET_PACKET"} :
                                        rop' = [rop EXCEPT ![r] = o]),
         cap_nlk_portid # Kernel /\ rpc[cap_nlk_portid] = "table" => cap_cmd_mutex' = cap_cmd_mutex,
         LTypes', Held'
  PROVE  LInv'
<1>1. UNCHANGED <<cap_nlk_portid, usrtab, usrcnt, mod, zeroed>>
  BY DEF portVars, tabVars, lifeVars
<1>2. /\ \A q \in Receivers : rpc'[q] = "table" <=> rpc[q] = "table"
      /\ \A q \in Receivers : rpc[q] = "table" => rop'[q] = rop[q]
  BY DEF LInv, LTypes
<1>3. Tabled' /\ UsersCounted'
  BY <1>1, <1>2 DEF LInv, Tabled, UsersCounted
<1>4. PortRegistered => PortRegistered'
  <2>1. cap_nlk_portid # Kernel => cap_nlk_portid \in Receivers
    BY DEF LInv, LTypes, Ports, Receivers
  <2>2. QED
    BY <1>1, <1>2, <2>1 DEF PortRegistered
<1>5. QED
  BY <1>1, <1>3, <1>4 DEF LInv, LivePortRegistered

LEMMA LInvReceive ==
  ASSUME LInv, NEW r \in Receivers, cap_receive(r), UNCHANGED lifeVars PROVE LInv'
<1>1. CASE MutexLock(r)
  <2>1. /\ rpc[r] = "lock" /\ cap_cmd_mutex = NoOwner /\ cap_cmd_mutex' = r
        /\ rpc' = [rpc EXCEPT ![r] = "check"]
        /\ UNCHANGED <<portVars, tabVars, rop, upc>>
    BY <1>1 DEF MutexLock, Goto, userVars
  <2>2. \A q \in Receivers : rpc[q] \notin {"check", "port", "table", "unlock"}
    BY <2>1, NamesAssumption DEF LInv, Held
  <2>3. LTypes' /\ Held'
    BY <2>1, <2>2 DEF LInv, LTypes, Held, portVars, tabVars, lifeVars
  <2>4. cap_nlk_portid # Kernel => rpc[cap_nlk_portid] # "table"
    BY <2>2 DEF LInv, LTypes, Ports, Receivers
  <2>5. QED
    BY <2>1, <2>3, <2>4, LInvMoves, Zenon
<1>2. CASE StartKcapd(r)
  <2>1. PICK l \in {"port", "unlock"} :
          /\ rpc[r] = "check" /\ rpc' = [rpc EXCEPT ![r] = l]
          /\ (l = "port" => rop[r] # "CAP_GET_PACKET")
          /\ UNCHANGED <<portVars, tabVars, cap_cmd_mutex, rop, upc>>
    BY <1>2 DEF StartKcapd, AfterCheck, Goto
  <2>2. LTypes' /\ Held'
    BY <2>1 DEF LInv, LTypes, Held, portVars, tabVars, lifeVars
  <2>3. QED
    BY <2>1, <2>2, LInvMoves, Zenon
<1>3. CASE MutexUnlock(r)
  <2>1. /\ rpc[r] = "unlock" /\ rpc' = [rpc EXCEPT ![r] = "out"]
        /\ UNCHANGED <<portVars, tabVars, rop>>
        /\ upc' = IF r = Kcapd THEN upc
                  ELSE [upc EXCEPT ![r] = IF @ = "add" THEN "recv" ELSE "exit"]
    BY <1>3 DEF MutexUnlock, Goto
  <2>2. \A q \in Receivers : rpc[q] \in {"check", "port", "table", "unlock"} => q = r
    BY <2>1 DEF LInv, Held
  <2>3. LTypes'
    BY <2>1 DEF LInv, LTypes, Receivers, portVars, tabVars, lifeVars
  <2>4. Held'
    BY <2>1, <2>2, NamesAssumption DEF LInv, LTypes, Held, Receivers
  <2>5. cap_nlk_portid # Kernel => rpc[cap_nlk_portid] # "table"
    BY <2>1, <2>2 DEF LInv, LTypes, Ports, Receivers
  <2>6. QED
    BY <2>1, <2>3, <2>4, <2>5, LInvMoves, Zenon
<1>4. QED
  BY <1>1, <1>2, <1>3, LInvSetPort, LInvUpdateTable DEF cap_receive

LEMMA LInvHook == ASSUME LInv, NEW h \in Cpus, Hook(h), UNCHANGED lifeVars PROVE LInv'
<1>1. UNCHANGED <<portVars, tabVars, recvVars, userVars>>
  BY DEF Hook, HookEnter, HookAlloc, HookBuild, HookWake, HookFree, HookQueue, QueueUnready
<1>2. QED
  BY <1>1, LInvKept DEF LInv, LTypes, userVars, lifeVars

(* kcapd may clear the port, or send itself a message. *)
LEMMA LInvKcapd == ASSUME LInv, Kcapd_thread, UNCHANGED lifeVars PROVE LInv'
<1> USE DEF Kcapd_thread, KcapdUnchanged, portVars, tabVars, recvVars, lifeVars
<1>1. CASE KcapdRefused
  BY <1>1, LInvCleared DEF KcapdRefused
<1>2. CASE UNCHANGED <<portVars, tabVars, recvVars, upc>>
  BY <1>2, LInvKept DEF LInv, LTypes
<1>3. CASE netlink_unicast /\ rpc' = [rpc EXCEPT ![Kcapd] = "lock"]
                           /\ rop' = [rop EXCEPT ![Kcapd] = "CAP_GET_PACKET"]
                           /\ UNCHANGED cap_cmd_mutex
  <2>1. /\ UNCHANGED <<portVars, tabVars, cap_cmd_mutex, upc>>
        /\ Kcapd \in Receivers /\ Kcapd \notin Clients /\ rpc[Kcapd] # "table"
    BY <1>3, NamesAssumption DEF netlink_unicast, Receivers, LInv, Held
  <2>2. LTypes' /\ Held'
    BY <1>3, <2>1 DEF LInv, LTypes, Held
  <2>3. QED
    BY <1>3, <2>1, <2>2, LInvMoves, Zenon
<1>4. QED
  BY <1>1, <1>2, <1>3, Zenon
     DEF kcapd_thread, KcapdDequeue, KcapdWait, KcapdPrepare, KcapdTest, KcapdWoken, KcapdReply,
         netlink_unicast, KcapdSent

(* A client enters a command, or runs outside. *)
LEMMA LInvClient ==
  ASSUME LInv, NEW c \in Clients, Client(c), UNCHANGED lifeVars PROVE LInv'
<1> USE DEF UserUnchanged, lifeVars
<1>1. UNCHANGED <<portVars, tabVars, cap_cmd_mutex>>
  BY DEF Client, user_client, ClientStart, ClientRecv, ClientExit, ClientKilled, Close, SendRefused
<1>2. ASSUME upc[c] \in {"start", "recv"}, NEW o \in {"CAP_ADD", "CAP_DEL"}, send_to_kernel(c, o),
             NEW l \in {"add", "del"}, upc' = [upc EXCEPT ![c] = l]
      PROVE  LInv'
  <2>1. /\ c \in Receivers /\ c # Kcapd /\ rpc[c] = "out" /\ rpc' = [rpc EXCEPT ![c] = "lock"]
        /\ rop' = [rop EXCEPT ![c] = o]
    BY <1>2, NamesAssumption DEF send_to_kernel, Receivers, LInv, Held
  <2>2. LTypes' /\ Held'
    BY <1>1, <1>2, <2>1 DEF LInv, LTypes, Held, Receivers, portVars, tabVars
  <2>3. QED
    BY <1>1, <2>1, <2>2, LInvMoves, Zenon
<1>3. ASSUME UNCHANGED <<rpc, rop>>, upc' = upc \/ (upc[c] \notin {"add", "del"} /\
             \E l \in {"recv", "exit", "closed"} : upc' = [upc EXCEPT ![c] = l])
      PROVE  LInv'
  BY <1>1, <1>3, LInvKept DEF LInv, LTypes, recvVars
<1>4. CASE ClientStart(c)
  BY <1>2, <1>4 DEF ClientStart
<1>5. CASE ClientRecv(c)
  BY <1>2, <1>3, <1>5 DEF ClientRecv
<1>6. CASE ClientExit(c) \/ ClientKilled(c)
  BY <1>3, <1>6 DEF ClientExit, ClientKilled, Close
<1>7. CASE SendRefused(c)
  BY <1>3, <1>7, Zenon DEF SendRefused
<1>8. QED
  BY <1>4, <1>5, <1>6, <1>7, Zenon DEF Client, user_client

LEMMA LInvNext == LInv /\ [LifeNext]_allVars => LInv'
<1>1. ASSUME LInv, UNCHANGED allVars PROVE LInv'
  BY <1>1, LInvKept DEF allVars, lifeVars, vars, userVars, LInv, LTypes
<1>2. QED
  BY <1>1, LInvModule, LInvReceive, LInvHook, LInvKcapd, LInvClient DEF LifeNext

(* netlink.c: commands that race usertab_init never leave usrcnt too low   *)
(* nor above MAX_TAB_SIZE, for any number of clients and slots.            *)
THEOREM UsersAlwaysCounted == LifeSpec => []UsersCounted
<1>1. LInv => UsersCounted
  BY DEF LInv
<1>2. QED
  BY <1>1, LInvInit, LInvNext, PTL DEF LifeSpec

(* netlink.c: the port captured for after app_init is registered, refused  *)
(* a slot, or just being entered, whatever commands ran during app_init.   *)
THEOREM LivePortAlwaysRegistered == LifeSpec => []LivePortRegistered
<1>1. LInv => LivePortRegistered
  BY DEF LInv
<1>2. QED
  BY <1>1, LInvInit, LInvNext, PTL DEF LifeSpec

-----------------------------------------------------------------------------
(* A set of natural numbers that is not empty has a least element. *)
LEMMA Least ==
  ASSUME NEW T \in SUBSET Nat, T # {}
  PROVE  \E e \in T : \A j \in T : e <= j
<1>1. PICK e \in T : \A j \in T : ~ (<<j, e>> \in OpToRel(<, Nat))
  BY NatLessThanWellFounded, WFMin, Zenon
<1>2. \A j \in T : ~ (j < e)
  BY <1>1, Zenon DEF OpToRel
<1>3. QED
  BY <1>2

(* The rate limiter, for every limit, HZ and width of jiffies.             *)

RTypes ==
  /\ cap_rate_limit \in Nat /\ packets \in Nat
  /\ jiffies \in 0..(Width - 1) /\ last_check \in 0..(Width - 1)
  /\ passed \in Seq(Nat)

(* Ages grow along passed and are below HZ. *)
Aged ==
  /\ \A k \in 1..Len(passed) : passed[k] < HZ
  /\ \A j, k \in 1..Len(passed) : j <= k => passed[j] <= passed[k]

(* The count now running did not start in the last second, and all that    *)
(* passed in it belongs to that count;                                     *)
OneCount == Len(passed) <= packets /\ Len(passed) < cap_rate_limit

(* or it was started by the d-th newest, and what is older belongs to the  *)
(* count before: the start of that one is more than a second ago.          *)
TwoCounts(d) ==
  /\ d \in 1..Len(passed) /\ Elapsed < HZ /\ passed[d] = Elapsed
  /\ d <= cap_rate_limit /\ d <= packets + 1
  /\ Len(passed) - d < cap_rate_limit

Counted == cap_rate_limit > 0 => OneCount \/ \E d \in 1..Len(passed) : TwoCounts(d)

RateInv == RTypes /\ Aged /\ Counted

LEMMA WidthIsNat == Width \in Nat /\ Width > 2 * HZ /\ HZ \in Nat \ {0}
BY RateAssumption DEF Width

(* Elapsed counts up by one while it is below HZ, also where jiffies wraps. *)
LEMMA ElapsedTicks ==
  ASSUME RTypes
  PROVE  /\ Elapsed \in Nat
         /\ last_check' = jiffies /\ jiffies' = jiffies => Elapsed' = 0
         /\ Tick => jiffies' \in 0..(Width - 1)
         /\ Tick /\ Elapsed < HZ => Elapsed' = Elapsed + 1
<1> DEFINE W == Width
<1>1. W \in Nat \ {0} /\ W > 2 * HZ /\ HZ \in Nat \ {0}
  BY WidthIsNat
<1>2. jiffies \in 0..(W - 1) /\ last_check \in 0..(W - 1)
  BY DEF RTypes
<1>3. Elapsed = (jiffies - last_check) % W
  BY DEF Elapsed
<1>4. Elapsed' = (jiffies' - last_check') % W
  BY DEF Elapsed, Width
<1>5. Tick => jiffies' = (jiffies + 1) % W /\ last_check' = last_check
  BY DEF Tick
<1> HIDE DEF W
<1>6. Elapsed = IF jiffies >= last_check THEN jiffies - last_check ELSE jiffies - last_check + W
  <2>1. CASE jiffies >= last_check
    <3>1. jiffies - last_check \in 0..(W - 1)
      BY <1>1, <1>2, <2>1
    <3>2. (jiffies - last_check) % W = jiffies - last_check
      BY <1>1, <3>1
    <3>3. QED
      BY <1>3, <2>1, <3>2
  <2>2. CASE ~ (jiffies >= last_check)
    <3>1. jiffies - last_check \in (-W)..(-1)
      BY <1>1, <1>2, <2>2
    <3>2. (jiffies - last_check) % W = jiffies - last_check + W
      BY <1>1, <3>1
    <3>3. QED
      BY <1>3, <2>2, <3>2
  <2>3. QED
    BY <2>1, <2>2
<1>7. ASSUME last_check' = jiffies, jiffies' = jiffies PROVE Elapsed' = 0
  <2>1. 0 % W = 0
    BY <1>1
  <2>2. jiffies' - last_check' = 0
    BY <1>2, <1>7
  <2>3. QED
    BY <1>4, <2>1, <2>2
<1>8. ASSUME Tick
      PROVE  jiffies' = IF jiffies = W - 1 THEN 0 ELSE jiffies + 1
  <2>1. CASE jiffies = W - 1
    <3>1. W % W = 0 /\ jiffies + 1 = W
      BY <1>1, <2>1
    <3>2. QED
      BY <1>5, <1>8, <2>1, <3>1
  <2>2. CASE jiffies # W - 1
    <3>1. jiffies + 1 \in 0..(W - 1)
      BY <1>1, <1>2, <2>2
    <3>2. (jiffies + 1) % W = jiffies + 1
      BY <1>1, <3>1
    <3>3. QED
      BY <1>5, <1>8, <2>2, <3>2
  <2>3. QED
    BY <2>1, <2>2
<1>9. ASSUME Tick PROVE jiffies' \in 0..(W - 1)
  BY <1>1, <1>2, <1>8, <1>9
<1>10. ASSUME Tick, Elapsed < HZ PROVE Elapsed' = Elapsed + 1
  <2>1. Elapsed + 1 < W /\ Elapsed \in Nat
    BY <1>1, <1>2, <1>6, <1>10
  <2>2. last_check' = last_check
    BY <1>5, <1>10
  <2>3. CASE jiffies >= last_check /\ jiffies # W - 1
    <3>1. jiffies' - last_check' = Elapsed + 1
      BY <1>2, <1>6, <1>8, <1>10, <2>2, <2>3
    <3>2. Elapsed + 1 \in 0..(W - 1)
      BY <1>1, <2>1
    <3>3. (Elapsed + 1) % W = Elapsed + 1
      BY <1>1, <3>2
    <3>4. QED
      BY <1>4, <3>1, <3>3
  <2>4. CASE ~ (jiffies >= last_check /\ jiffies # W - 1)
    <3> DEFINE x == jiffies' - last_check'
    <3>1. x = Elapsed + 1 - W
      BY <1>1, <1>2, <1>6, <1>8, <1>10, <2>2, <2>4
    <3>2. x \in (-W)..(-1)
      BY <1>1, <2>1, <3>1
    <3> HIDE DEF x
    <3>3. x % W = x + W
      BY <1>1, <3>2
    <3>4. Elapsed' = x + W
      BY <1>4, <3>3 DEF x
    <3>5. QED
      BY <1>1, <2>1, <3>1, <3>4
  <2>5. QED
    BY <2>3, <2>4
<1>11. Elapsed \in Nat
  BY <1>1, <1>2, <1>6
<1>12. QED
  BY <1>7, <1>9, <1>10, <1>11 DEF W

(* What a jiffy leaves of passed is its newest part, one jiffy older. *)
LEMMA Older ==
  ASSUME RTypes, Aged, Tick
  PROVE  \E k \in 0..Len(passed) :
           /\ passed' \in Seq(Nat) /\ Len(passed') = k
           /\ \A j \in 1..k : passed'[j] = passed[j] + 1 /\ passed[j] + 1 < HZ
           /\ \A j \in 1..Len(passed) : passed[j] + 1 < HZ => j <= k
<1>1. passed \in Seq(Nat) /\ DOMAIN passed = 1..Len(passed) /\ Len(passed) \in Nat
  BY DEF RTypes
<1>2. \A j \in 1..Len(passed) : passed[j] \in Nat
  BY <1>1
<1> DEFINE n == Len(passed)
           T == {j \in 1..(n + 1) : j = n + 1 \/ ~ (passed[j] + 1 < HZ)}
<1>3. T \in SUBSET Nat /\ n + 1 \in T
  BY <1>1
<1>4. PICK e \in T : \A j \in T : e <= j
  BY <1>3, Least, Zenon
<1>5. e \in 1..(n + 1) /\ (e = n + 1 \/ ~ (passed[e] + 1 < HZ))
  BY <1>4
<1>6. \A j \in 1..(e - 1) : j \in 1..n /\ passed[j] + 1 < HZ
  BY <1>1, <1>4, <1>5
<1>7. ASSUME NEW j \in 1..n, passed[j] + 1 < HZ PROVE j \in 1..(e - 1)
  <2>1. ASSUME e <= j PROVE FALSE
    <3>1. e \in 1..n /\ ~ (passed[e] + 1 < HZ)
      BY <1>1, <1>5, <2>1
    <3>2. passed[e] <= passed[j]
      BY <2>1, <3>1 DEF Aged
    <3>3. QED
      BY <1>2, <1>7, <3>1, <3>2, WidthIsNat
  <2>2. QED
    BY <1>1, <1>5, <2>1
<1> HIDE DEF T
<1>8. Recent = 1..(e - 1)
  BY <1>1, <1>6, <1>7 DEF Recent
<1>9. passed' = [j \in 1..(e - 1) |-> passed[j] + 1]
  BY <1>8 DEF Tick
<1>10. e - 1 \in 0..n /\ e - 1 \in Nat
  BY <1>1, <1>5
<1>11. passed' \in Seq(Nat) /\ Len(passed') = e - 1
  <2>1. \A j \in 1..(e - 1) : passed[j] + 1 \in Nat
    BY <1>2, <1>6
  <2>2. passed' \in [1..(e - 1) -> Nat]
    BY <1>9, <2>1
  <2> DEFINE m == e - 1
  <2>3. m \in Nat /\ passed' \in [1..m -> Nat]
    BY <1>10, <2>2
  <2> HIDE DEF m
  <2>4. passed' \in Seq(Nat) /\ Len(passed') = m
    BY <2>3
  <2>5. QED
    BY <2>4 DEF m
<1>12. QED
  BY <1>1, <1>5, <1>6, <1>7, <1>9, <1>10, <1>11

LEMMA RateInvInit == RateInit => RateInv
<1> SUFFICES ASSUME RateInit PROVE RateInv
  OBVIOUS
<1>1. cap_rate_limit \in Nat /\ packets = 0 /\ last_check = 0 /\ passed = <<>>
      /\ jiffies \in 0..(Width - 1)
  BY RateAssumption DEF RateInit
<1>2. passed \in Seq(Nat) /\ Len(passed) = 0
  BY <1>1
<1>3. QED
  BY <1>1, <1>2, WidthIsNat DEF RateInv, RTypes, Aged, Counted, OneCount

LEMMA RateInvTick == ASSUME RateInv, Tick PROVE RateInv'
<1> USE DEF RateInv
<1>1. UNCHANGED <<cap_rate_limit, last_check, packets>>
  BY DEF Tick
<1>2. PICK k \in 0..Len(passed) :
        /\ passed' \in Seq(Nat) /\ Len(passed') = k
        /\ \A j \in 1..k : passed'[j] = passed[j] + 1 /\ passed[j] + 1 < HZ
        /\ \A j \in 1..Len(passed) : passed[j] + 1 < HZ => j <= k
  BY Older
<1>3. Len(passed) \in Nat /\ \A j \in 1..Len(passed) : passed[j] \in Nat
  BY DEF RTypes
<1>4. RTypes'
  BY <1>1, <1>2, ElapsedTicks DEF RTypes, Width
<1>5. Aged'
  <2>1. \A j \in 1..k : j \in 1..Len(passed)
    BY <1>2, <1>3
  <2>2. \A j \in 1..Len(passed') : passed'[j] < HZ
    BY <1>2
  <2>3. \A i, j \in 1..Len(passed') : i <= j => passed'[i] <= passed'[j]
    <3>1. TAKE i, j \in 1..Len(passed')
    <3>2. /\ passed'[i] = passed[i] + 1 /\ passed'[j] = passed[j] + 1
          /\ passed[i] \in Nat /\ passed[j] \in Nat
      BY <1>2, <1>3, <2>1
    <3>3. i <= j => passed[i] <= passed[j]
      BY <1>2, <2>1 DEF Aged
    <3>4. QED
      BY <3>2, <3>3
  <2>4. QED
    BY <2>2, <2>3 DEF Aged
<1>6. ASSUME cap_rate_limit > 0, OneCount PROVE OneCount'
  BY <1>1, <1>2, <1>3, <1>6 DEF OneCount, RTypes
<1>7. ASSUME cap_rate_limit > 0, NEW d \in 1..Len(passed), TwoCounts(d)
      PROVE  OneCount' \/ TwoCounts(d)'
  <2>1. Elapsed < HZ /\ passed[d] = Elapsed /\ d <= cap_rate_limit /\ d <= packets + 1
        /\ Len(passed) - d < cap_rate_limit
    BY <1>7 DEF TwoCounts
  <2>2. Elapsed' = Elapsed + 1 /\ Elapsed \in Nat
    BY <2>1, ElapsedTicks
  <2>3. CASE Elapsed + 1 < HZ
    <3>1. d \in 1..k
      BY <1>2, <2>1, <2>3
    <3>2. passed'[d] = Elapsed' /\ Elapsed' < HZ
      BY <1>2, <2>1, <2>2, <2>3, <3>1
    <3>3. QED
      BY <1>1, <1>2, <1>3, <2>1, <3>1, <3>2 DEF TwoCounts, RTypes
  <2>4. CASE ~ (Elapsed + 1 < HZ)
    <3>1. ~ (d \in 1..k)
      BY <1>2, <2>1, <2>4
    <3>2. k < d
      BY <1>2, <1>3, <3>1
    <3>3. QED
      BY <1>1, <1>2, <2>1, <3>2 DEF OneCount, RTypes
  <2>5. QED
    BY <2>3, <2>4
<1>8. Counted'
  <2>1. CASE OneCount
    BY <1>1, <1>6, <2>1 DEF Counted
  <2>2. ASSUME NEW d \in 1..Len(passed), TwoCounts(d), cap_rate_limit > 0 PROVE Counted'
    BY <1>7, <2>2 DEF Counted, TwoCounts
  <2>3. QED
    BY <1>1, <2>1, <2>2 DEF Counted
<1>9. QED
  BY <1>4, <1>5, <1>8

(* A sequence put before another. *)
LEMMA Joined ==
  ASSUME NEW S, NEW p \in Seq(S), NEW q \in Seq(S)
  PROVE  /\ p \o q \in Seq(S) /\ Len(p \o q) = Len(p) + Len(q)
         /\ \A j \in 1..(Len(p) + Len(q)) :
              (p \o q)[j] = IF j <= Len(p) THEN p[j] ELSE q[j - Len(p)]
OBVIOUS

(* A call that passes is the newest, and the others are one place further. *)
LEMMA Newest ==
  ASSUME RTypes, Aged, Pass
  PROVE  /\ passed' \in Seq(Nat) /\ Len(passed') = Len(passed) + 1 /\ Len(passed) \in Nat
         /\ passed'[1] = 0 /\ \A j \in 1..Len(passed) : passed'[j + 1] = passed[j]
         /\ Aged'
<1>1. passed \in Seq(Nat) /\ Len(passed) \in Nat /\ <<0>> \in Seq(Nat) /\ Len(<<0>>) = 1
      /\ <<0>>[1] = 0 /\ passed' = <<0>> \o passed
  BY DEF RTypes, Pass
<1>2. /\ <<0>> \o passed \in Seq(Nat) /\ Len(<<0>> \o passed) = Len(<<0>>) + Len(passed)
      /\ \A j \in 1..(Len(<<0>>) + Len(passed)) : (<<0>> \o passed)[j] =
           IF j <= Len(<<0>>) THEN <<0>>[j] ELSE passed[j - Len(<<0>>)]
  BY <1>1, Joined, Zenon
<1>3. /\ passed' \in Seq(Nat) /\ Len(passed') = Len(passed) + 1
      /\ \A j \in 1..(Len(passed) + 1) : passed'[j] = IF j <= 1 THEN 0 ELSE passed[j - 1]
  BY <1>1, <1>2
<1>4. passed'[1] = 0 /\ \A j \in 1..Len(passed) : passed'[j + 1] = passed[j]
  BY <1>1, <1>3
<1>5. \A j \in 1..Len(passed) : passed[j] \in Nat
  BY <1>1
<1>6. Aged'
  <2>1. \A j \in 2..(Len(passed) + 1) : j - 1 \in 1..Len(passed) /\ passed'[j] = passed[j - 1]
    BY <1>1, <1>3
  <2>2. \A j \in 1..(Len(passed) + 1) : j = 1 \/ j \in 2..(Len(passed) + 1)
    BY <1>1
  <2>3. ASSUME NEW j \in 1..Len(passed') PROVE passed'[j] < HZ
    <3>1. CASE j = 1
      BY <1>4, <3>1, WidthIsNat
    <3>2. CASE j \in 2..(Len(passed) + 1)
      BY <2>1, <3>2 DEF Aged
    <3>3. QED
      BY <1>3, <2>2, <3>1, <3>2
  <2>4. ASSUME NEW j \in 1..Len(passed'), NEW k \in 1..Len(passed'), j <= k
        PROVE  passed'[j] <= passed'[k]
    <3>1. CASE j = 1
      <4>1. passed'[j] = 0 /\ passed'[k] \in Nat
        BY <1>3, <1>4, <3>1
      <4>2. QED
        BY <4>1
    <3>2. CASE j # 1
      <4>1. j - 1 \in 1..Len(passed) /\ k - 1 \in 1..Len(passed) /\ j - 1 <= k - 1
        BY <1>1, <1>3, <2>4, <3>2
      <4>2. passed'[j] = passed[j - 1] /\ passed'[k] = passed[k - 1]
        BY <1>1, <1>3, <2>4, <3>2
      <4>3. QED
        BY <4>1, <4>2 DEF Aged
    <3>3. QED
      BY <3>1, <3>2
  <2>5. QED
    BY <2>3, <2>4 DEF Aged
<1>7. QED
  BY <1>1, <1>3, <1>4, <1>6

LEMMA RateInvCheck == ASSUME RateInv, cap_rate_check PROVE RateInv'
<1> USE DEF RateInv
<1>1. UNCHANGED <<cap_rate_limit, jiffies>>
  BY DEF cap_rate_check
<1>2. Len(passed) \in Nat /\ Elapsed \in Nat
  BY ElapsedTicks DEF RTypes
<1>3. CASE cap_rate_limit = 0 /\ Pass /\ UNCHANGED <<last_check, packets>>
  BY <1>1, <1>3, Newest DEF RTypes, Counted, Width
<1>4. CASE /\ cap_rate_limit > 0 /\ packets + 1 < cap_rate_limit
           /\ packets' = packets + 1 /\ Pass /\ last_check' = last_check
  <2>1. Elapsed' = Elapsed
    BY <1>1, <1>4 DEF Elapsed, Width
  <2>2. CASE OneCount
    <3>1. OneCount'
      BY <1>1, <1>2, <1>4, <2>2, Newest DEF OneCount, RTypes
    <3>2. QED
      BY <1>1, <1>4, <3>1, Newest DEF RTypes, Counted, Width
  <2>3. ASSUME NEW d \in 1..Len(passed), TwoCounts(d) PROVE RateInv'
    <3>1. d + 1 \in 1..Len(passed') /\ passed'[d + 1] = passed[d] /\ Len(passed') = Len(passed) + 1
      BY <1>2, <1>4, Newest
    <3>2. TwoCounts(d + 1)'
      BY <1>1, <1>2, <1>4, <2>1, <2>3, <3>1 DEF TwoCounts, RTypes
    <3>3. QED
      BY <1>1, <1>4, <3>1, <3>2, Newest DEF RTypes, Counted, Width
  <2>4. QED
    BY <1>4, <2>2, <2>3 DEF Counted
<1>5. CASE /\ cap_rate_limit > 0 /\ packets + 1 >= cap_rate_limit /\ Elapsed > HZ
           /\ last_check' = jiffies /\ packets' = 0 /\ Pass
  <2>1. Elapsed' = 0
    BY <1>1, <1>5, ElapsedTicks
  <2>2. OneCount
    BY <1>2, <1>5, WidthIsNat DEF Counted, TwoCounts
  <2>3. 1 \in 1..Len(passed') /\ passed'[1] = 0 /\ Len(passed') = Len(passed) + 1
    BY <1>2, <1>5, Newest
  <2>4. TwoCounts(1)'
    BY <1>1, <1>2, <1>5, <2>1, <2>2, <2>3, WidthIsNat DEF TwoCounts, OneCount, RTypes
  <2>5. QED
    BY <1>1, <1>5, <2>3, <2>4, Newest DEF RTypes, Counted, Width
<1>6. CASE /\ cap_rate_limit > 0 /\ packets' = packets + 1 /\ UNCHANGED <<last_check, passed>>
  <2>1. Elapsed' = Elapsed
    BY <1>1, <1>6 DEF Elapsed, Width
  <2>2. RTypes' /\ Aged'
    BY <1>1, <1>6 DEF RTypes, Aged, Width
  <2>3. OneCount => OneCount'
    BY <1>1, <1>2, <1>6 DEF OneCount, RTypes
  <2>4. \A d \in 1..Len(passed) : TwoCounts(d) => TwoCounts(d)'
    BY <1>1, <1>2, <1>6, <2>1 DEF TwoCounts, RTypes
  <2>5. QED
    BY <1>6, <2>2, <2>3, <2>4 DEF Counted
<1>7. QED
  BY <1>3, <1>4, <1>5, <1>6 DEF cap_rate_check

(* cap_rate_check: however the calls fall around the start of a new count, *)
(* fewer than 2 * cap_rate_limit pass in any second.                       *)
THEOREM BurstAlwaysBounded == RateSpec => []BurstBounded
<1>1. RateInit => RateInv
  BY RateInvInit
<1>2. RateInv /\ [RateNext]_rateVars => RateInv'
  <2>1. ASSUME RateInv, UNCHANGED rateVars PROVE RateInv'
    <3>1. Elapsed' = Elapsed
      BY <2>1 DEF rateVars, Elapsed, Width
    <3>2. QED
      BY <2>1, <3>1 DEF rateVars, RateInv, RTypes, Aged, Counted, OneCount, TwoCounts, Width
  <2>2. QED
    BY <2>1, RateInvTick, RateInvCheck DEF RateNext
<1>3. RateInv => BurstBounded
  <2> SUFFICES ASSUME RateInv, cap_rate_limit > 0 PROVE Len(passed) <= 2 * cap_rate_limit - 1
    BY DEF BurstBounded, InLastSecond
  <2>1. Len(passed) \in Nat /\ cap_rate_limit \in Nat
    BY DEF RateInv, RTypes
  <2>2. CASE OneCount
    BY <2>1, <2>2 DEF OneCount
  <2>3. ASSUME NEW d \in 1..Len(passed), TwoCounts(d) PROVE Len(passed) <= 2 * cap_rate_limit - 1
    BY <2>1, <2>3 DEF TwoCounts
  <2>4. QED
    BY <2>2, <2>3 DEF RateInv, Counted
<1>4. QED
  BY <1>1, <1>2, <1>3, PTL DEF RateSpec
=============================================================================
