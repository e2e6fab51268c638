-------------------------- MODULE InterfaceProofs --------------------------
(***************************************************************************)
(* Theorems about what user space sets through an interface of its own:    *)
(* netctrl's commands over netlink, for any number of apps and any command *)
(* lines, and foobar.c's files under /proc, for every FOOBAR_LEN, text and *)
(* number of readers and writers.                                          *)
(***************************************************************************)
EXTENDS NetCtrl, ProcFoobar, TLAPS

-----------------------------------------------------------------------------
(* netctrl.                                                                *)

(* What holds of the constants: O is the set of options.                   *)
Given(O) == CommandLines \subseteq Seq(O) /\ NULL \notin Apps

Locations == {"parse", "main", "send", "lock", "msg", "unlock", "foreign", "done", "lost"}

CtlTypes(O) ==
  /\ args \in [Apps -> CommandLines] /\ left \in [Apps -> Seq(O)]
  /\ DOMAIN g_sys_cmd = Apps
  /\ ret \in [Apps -> {0, -1}]
  /\ apc \in [Apps -> Locations]

(* Whoever is between mutex_lock and mutex_unlock owns the mutex.          *)
Owned == \A a \in Apps : apc[a] \in {"msg", "unlock"} => netctrl_mutex = a

Empty == [type |-> 0, arg |-> NULL]

(* n options of line have been taken, none of them without argument, g is  *)
(* what the last of them stored, and rest is what is left.                 *)
Taken(n, line, rest, g) ==
  /\ n \in 0 .. Len(line)
  /\ Len(rest) = Len(line) - n
  /\ \A i \in 1 .. Len(rest) : rest[i] = line[i + n]
  /\ \A i \in 1 .. n : line[i].arg # NULL
  /\ g = IF n = 0 THEN Empty ELSE Store(line[n])

(* Parsing has ended with ret 0 only at the end of the line. *)
Parsed ==
  \A a \in Apps :
    /\ apc[a] = "parse" => ret[a] = 0
    /\ ret[a] = 0 =>
         \E n \in Nat : /\ Taken(n, args[a], left[a], g_sys_cmd[a])
                        /\ apc[a] # "parse" => n = Len(args[a])
    /\ apc[a] \in {"send", "lock", "msg", "unlock", "foreign"} =>
         ret[a] = 0 /\ g_sys_cmd[a].type \in Valid

CtlInv(O) == CtlTypes(O) /\ Owned /\ Parsed /\ HandledAsAsked

LEMMA CtlInvInit == ASSUME NEW O, Given(O), Init PROVE CtlInv(O)
<1>1. CtlTypes(O) /\ Owned /\ HandledAsAsked
  BY DEF Init, Given, CtlTypes, Owned, HandledAsAsked, Locations
<1>2. ASSUME NEW a \in Apps PROVE Taken(0, args[a], left[a], g_sys_cmd[a])
  BY <1>2 DEF Init, Given, Taken, Empty
<1>3. Parsed
  BY <1>2, Zenon DEF Init, Parsed
<1>4. QED
  BY <1>1, <1>3 DEF CtlInv

(* One more option taken. *)
LEMMA TakenMore ==
  ASSUME NEW O, NEW line \in Seq(O), NEW rest \in Seq(O), NEW g, NEW n \in Nat,
         Taken(n, line, rest, g), rest # <<>>, Head(rest).arg # NULL
  PROVE  Taken(n + 1, line, Tail(rest), Store(Head(rest))) /\ Tail(rest) \in Seq(O)
<1>1. Len(rest) >= 1 /\ Head(rest) = line[n + 1] /\ n + 1 \in 1 .. Len(line)
  BY DEF Taken
<1>2. /\ Tail(rest) \in Seq(O) /\ Len(Tail(rest)) = Len(rest) - 1
      /\ \A i \in 1 .. Len(rest) - 1 : Tail(rest)[i] = rest[i + 1]
  BY <1>1
<1>3. ASSUME NEW i \in 1 .. Len(Tail(rest)) PROVE Tail(rest)[i] = line[i + (n + 1)]
  <2>1. Len(rest) \in Nat /\ \A j \in 1 .. Len(rest) : rest[j] = line[j + n]
    BY DEF Taken
  <2>2. /\ i \in 1 .. Len(rest) - 1 /\ i + 1 \in 1 .. Len(rest)
        /\ (i + 1) + n = i + (n + 1)
    BY <1>2, <2>1
  <2>3. Tail(rest)[i] = rest[i + 1] /\ rest[i + 1] = line[(i + 1) + n]
    BY <1>2, <2>1, <2>2, Zenon
  <2>4. QED
    BY <2>2, <2>3, Zenon
<1>4. \A i \in 1 .. n + 1 : line[i].arg # NULL
  BY <1>1 DEF Taken
<1>5. QED
  BY <1>1, <1>2, <1>3, <1>4 DEF Taken

(* Nothing left: the whole line was taken. *)
LEMMA TakenAll ==
  ASSUME NEW O, NEW line \in Seq(O), NEW g, NEW n \in Nat, Taken(n, line, <<>>, g)
  PROVE  n = Len(line)
BY DEF Taken

(* A command that was parsed to the end is what the line asks for. *)
LEMMA TakenIsAsked ==
  ASSUME NEW O, Given(O), CtlTypes(O), NEW a \in Apps,
         Taken(Len(args[a]), args[a], left[a], g_sys_cmd[a]),
         g_sys_cmd[a].type \in Valid
  PROVE  /\ g_sys_cmd[a] \in Asked(a)
         /\ g_sys_cmd[a].type = NETCTRL_AUTH_IP => g_sys_cmd[a].arg[2] \in Seq(Byte)
<1> DEFINE line == args[a]
<1>1. line \in CommandLines /\ line \in Seq(O) /\ Len(line) \in Nat
  BY DEF CtlTypes, Given
<1>2. Len(line) # 0
  BY DEF Taken, Empty, Valid, NETCTRL_AUTH_IP, NETCTRL_AUTH_PORT, NETCTRL_AUTH_ID
<1>3. line # <<>> /\ \A i \in DOMAIN line : line[i].arg # NULL
  BY <1>1, <1>2 DEF Taken
<1>4. Len(line) \in DOMAIN line
  BY <1>1, <1>2
<1>5. /\ g_sys_cmd[a] = Store(line[Len(line)])
      /\ line[Len(line)].opt \in {"i", "p", "d"} /\ line[Len(line)].arg \in Seq(Byte)
  BY <1>1, <1>2, <1>3, <1>4, CommandLinesAssumption DEF Taken
<1>6. g_sys_cmd[a] \in Asked(a)
  BY <1>3, <1>5 DEF Asked
<1>7. g_sys_cmd[a].type = NETCTRL_AUTH_IP => g_sys_cmd[a].arg[2] \in Seq(Byte)
  BY <1>5 DEF Store, NETCTRL_AUTH_IP, NETCTRL_AUTH_PORT, NETCTRL_AUTH_ID
<1>8. QED
  BY <1>6, <1>7

(* The cut loses only what does not fit, and what is read behind it adds   *)
(* to the end.                                                             *)
LEMMA CopiedArrives ==
  ASSUME NEW g, g.type = NETCTRL_AUTH_IP, g.arg[2] \in Seq(Byte), NEW arg \in Copied(g)
  PROVE  Arrives(arg[2], g.arg[2])
<1> DEFINE text == g.arg[2]
           ip == strncpy(text)
<1>1. PICK rest \in IF Len(ip) < IP_LEN THEN {<<>>} ELSE Behind : arg = <<"pdata", ip \o rest>>
  BY DEF Copied
<1>2. text \in Seq(Byte) /\ arg[2] = ip \o rest
  BY <1>1
<1> HIDE DEF text
<1>3. CASE Len(text) < IP_LEN
  <2>1. ip = text /\ rest = <<>>
    BY <1>1, <1>3 DEF strncpy
  <2>2. QED
    BY <1>2, <1>3, <2>1 DEF Arrives, text
<1>4. CASE ~(Len(text) < IP_LEN)
  <2>1. ip \in Seq(Byte) /\ Len(ip) = IP_LEN /\ \A i \in 1 .. IP_LEN : ip[i] = text[i]
    BY <1>2, <1>4, LengthAssumption DEF strncpy
  <2>2. rest \in Seq(Byte)
    BY <1>1, <2>1, LengthAssumption DEF Behind
  <2>3. /\ Len(ip \o rest) >= IP_LEN
        /\ \A i \in 1 .. IP_LEN : (ip \o rest)[i] = text[i]
    BY <2>1, <2>2, LengthAssumption
  <2>4. QED
    BY <1>2, <1>4, <2>3, Zenon DEF Arrives, text
<1>5. QED
  BY <1>3, <1>4

-----------------------------------------------------------------------------
LEMMA HandledStays ==
  ASSUME HandledAsAsked, UNCHANGED <<args, heard>> PROVE HandledAsAsked'
BY Zenon DEF HandledAsAsked, Asked

(* A step of app a outside parsing moves a alone, and into the kernel only *)
(* with a command.                                                         *)
LEMMA ParsedMoves ==
  ASSUME NEW O, CtlTypes(O), Parsed, UNCHANGED appVars, NEW a \in Apps, NEW l \in Locations,
         Goto(a, l), apc[a] # "parse", l # "parse",
         l \in {"send", "lock", "msg", "unlock", "foreign"} =>
           ret[a] = 0 /\ g_sys_cmd[a].type \in Valid
  PROVE  CtlTypes(O)' /\ Parsed'
<1>1. /\ apc' \in [Apps -> Locations] /\ apc'[a] = l
      /\ \A b \in Apps : b # a => apc'[b] = apc[b]
  BY DEF CtlTypes, Goto
<1>2. UNCHANGED <<args, left, g_sys_cmd, ret>>
  BY DEF appVars
<1>3. CtlTypes(O)'
  BY <1>1, <1>2 DEF CtlTypes
<1>4. ASSUME NEW b \in Apps
      PROVE  /\ apc'[b] = "parse" => ret[b] = 0
             /\ apc'[b] = "parse" <=> apc[b] = "parse"
             /\ apc'[b] \in {"send", "lock", "msg", "unlock", "foreign"} =>
                  ret[b] = 0 /\ g_sys_cmd[b].type \in Valid
  BY <1>1 DEF Parsed
<1>5. Parsed'
  BY <1>2, <1>4 DEF Parsed
<1>6. QED
  BY <1>3, <1>5

LEMMA InvParse ==
  ASSUME NEW O, Given(O), CtlInv(O), NEW a \in Apps, syscmd_parse_args(a) PROVE CtlInv(O)'
<1> USE DEF CtlInv
<1>1. /\ apc[a] = "parse" /\ ret[a] = 0 /\ args[a] \in Seq(O) /\ left[a] \in Seq(O)
      /\ UNCHANGED <<args, netctrl_mutex, heard>>
  BY DEF syscmd_parse_args, Parsed, CtlTypes, Given
<1>2. HandledAsAsked'
  BY <1>1, HandledStays
<1>3. PICK n \in Nat : Taken(n, args[a], left[a], g_sys_cmd[a])
  BY <1>1 DEF Parsed
<1>4. CASE left[a] = <<>> /\ Goto(a, "main") /\ UNCHANGED <<left, g_sys_cmd, ret>>
  <2>1. n = Len(args[a])
    BY <1>1, <1>3, <1>4, TakenAll
  <2>2. apc' \in [Apps -> Locations] /\ apc' = [apc EXCEPT ![a] = "main"]
    BY <1>4 DEF CtlTypes, Goto, Locations
  <2>3. CtlTypes(O)' /\ Owned'
    BY <1>1, <1>4, <2>2 DEF CtlTypes, Owned
  <2>4. Parsed'
    BY <1>1, <1>3, <1>4, <2>1, <2>2 DEF CtlTypes, Parsed
  <2>5. QED
    BY <1>2, <2>3, <2>4
<1>5. CASE ret' = [ret EXCEPT ![a] = -1] /\ Goto(a, "main") /\ UNCHANGED <<left, g_sys_cmd>>
  <2>1. apc' \in [Apps -> Locations] /\ apc' = [apc EXCEPT ![a] = "main"]
    BY <1>5 DEF CtlTypes, Goto, Locations
  <2>2. CtlTypes(O)' /\ Owned'
    BY <1>1, <1>5, <2>1 DEF CtlTypes, Owned
  <2>3. Parsed'
    BY <1>1, <1>5, <2>1 DEF CtlTypes, Parsed
  <2>4. QED
    BY <1>2, <2>2, <2>3
<1>6. CASE /\ left[a] # <<>> /\ Head(left[a]).arg # NULL
           /\ g_sys_cmd' = [g_sys_cmd EXCEPT ![a] = Store(Head(left[a]))]
           /\ left' = [left EXCEPT ![a] = Tail(@)]
           /\ UNCHANGED <<apc, ret>>
  <2>1. /\ Taken(n + 1, args[a], Tail(left[a]), Store(Head(left[a])))
        /\ Tail(left[a]) \in Seq(O) /\ n + 1 \in Nat
    BY <1>1, <1>3, <1>6, TakenMore
  <2>2. /\ left'[a] = Tail(left[a]) /\ g_sys_cmd'[a] = Store(Head(left[a]))
        /\ \A b \in Apps : b # a => left'[b] = left[b] /\ g_sys_cmd'[b] = g_sys_cmd[b]
    BY <1>6 DEF CtlTypes
  <2>3. CtlTypes(O)' /\ Owned'
    BY <1>1, <1>6, <2>1 DEF CtlTypes, Owned
  <2>4. ASSUME NEW b \in Apps
        PROVE  ret[b] = 0 => \E m \in Nat :
                 /\ Taken(m, args[b], left'[b], g_sys_cmd'[b])
                 /\ apc[b] # "parse" => m = Len(args[b])
    <3>1. CASE b = a
      BY <1>1, <2>1, <2>2, <3>1
    <3>2. CASE b # a
      BY <2>2, <3>2 DEF Parsed
    <3>3. QED
      BY <3>1, <3>2
  <2>5. Parsed'
    BY <1>1, <1>6, <2>2, <2>4 DEF Parsed
  <2>6. QED
    BY <1>2, <2>3, <2>5
<1>7. QED
  BY <1>4, <1>5, <1>6 DEF syscmd_parse_args

LEMMA InvSend ==
  ASSUME NEW O, Given(O), CtlInv(O), NEW a \in Apps,
         syscmd_proc(a) \/ send_msg_to_kernel(a)
  PROVE  CtlInv(O)'
<1> USE DEF CtlInv
<1>1. UNCHANGED <<appVars, args, netctrl_mutex, heard>> /\ apc[a] \in {"main", "send"}
  BY DEF syscmd_proc, send_msg_to_kernel, appVars
<1>2. PICK l \in {"send", "done", "lock", "foreign"} :
        /\ Goto(a, l)
        /\ l # "done" => ret[a] = 0 /\ g_sys_cmd[a].type \in Valid
  BY DEF syscmd_proc, send_msg_to_kernel, Parsed
<1>3. CtlTypes(O)' /\ Parsed'
  BY <1>1, <1>2, ParsedMoves DEF Locations
<1>4. Owned'
  BY <1>1, <1>2 DEF Owned, Goto, CtlTypes
<1>5. QED
  BY <1>1, <1>3, <1>4, HandledStays

(* The mutex is taken only when free, so by an app that no other is beside; *)
(* what is handled under it was parsed to the end.                          *)
LEMMA InvKernel ==
  ASSUME NEW O, Given(O), CtlInv(O), NEW a \in Apps, kernel(a) PROVE CtlInv(O)'
<1> USE DEF CtlInv
<1>1. /\ UNCHANGED <<appVars, args>>
      /\ apc[a] \in {"lock", "msg", "unlock", "foreign"}
      /\ ret[a] = 0 /\ g_sys_cmd[a].type \in Valid
  BY DEF kernel, netctrl_receive, netctrl_receive_msg, netctrl_receive_skb,
         cap_receive, appVars, Parsed
<1>2. PICK l \in {"msg", "unlock", "done"} : Goto(a, l)
  BY DEF kernel, netctrl_receive, netctrl_receive_msg, netctrl_receive_skb, cap_receive
<1>3. CtlTypes(O)' /\ Parsed'
  BY <1>1, <1>2, ParsedMoves DEF Locations
<1>4. CASE netctrl_receive(a)
  <2>1. Owned'
    BY <1>4 DEF netctrl_receive, Owned, Goto, CtlTypes, Given
  <2>2. QED
    BY <1>1, <1>3, <1>4, <2>1, HandledStays DEF netctrl_receive
<1>5. CASE netctrl_receive_msg(a)
  <2>1. Owned'
    BY <1>5 DEF netctrl_receive_msg, Owned, Goto, CtlTypes
  <2>2. Taken(Len(args[a]), args[a], left[a], g_sys_cmd[a])
    BY <1>1 DEF Parsed
  <2>3. /\ g_sys_cmd[a] \in Asked(a)
        /\ g_sys_cmd[a].type = NETCTRL_AUTH_IP => g_sys_cmd[a].arg[2] \in Seq(Byte)
    BY <1>1, <2>2, TakenIsAsked
  <2>4. HandledAsAsked'
    <3>1. CASE UNCHANGED heard
      BY <1>1, <3>1, HandledStays
    <3>2. ASSUME NEW arg \in Copied(g_sys_cmd[a]),
                 heard' = heard \cup {[by |-> "netctrl", pid |-> a,
                                       type |-> g_sys_cmd[a].type, arg |-> arg]}
          PROVE  HandledAsAsked'
      <4> DEFINE new == [by |-> "netctrl", pid |-> a, type |-> g_sys_cmd[a].type, arg |-> arg]
      <4>1. UNCHANGED args /\ heard' = heard \cup {new}
        BY <1>1, <3>2
      <4>2. IF g_sys_cmd[a].type = NETCTRL_AUTH_IP
            THEN Arrives(arg[2], g_sys_cmd[a].arg[2]) ELSE arg = g_sys_cmd[a].arg
        <5>1. CASE g_sys_cmd[a].type = NETCTRL_AUTH_IP
          BY <2>3, <5>1, CopiedArrives, Zenon
        <5>2. CASE g_sys_cmd[a].type # NETCTRL_AUTH_IP
          BY <5>2, Zenon DEF Copied
        <5>3. QED
          BY <5>1, <5>2, Zenon
      <4>3. new.pid = a /\ new.type = g_sys_cmd[a].type /\ new.arg = arg
        BY Zenon
      <4> HIDE DEF new
      <4>4. \E c \in Asked(new.pid) :
              /\ new.type = c.type
              /\ IF c.type = NETCTRL_AUTH_IP THEN Arrives(new.arg[2], c.arg[2])
                                             ELSE new.arg = c.arg
        BY <2>3, <4>2, <4>3, Zenon
      <4>5. \A b : Asked(b)' = Asked(b)
        BY <4>1 DEF Asked
      <4>6. QED
        BY <4>1, <4>4, <4>5, Zenon DEF HandledAsAsked
    <3>3. QED
      BY <1>5, <3>1, <3>2 DEF netctrl_receive_msg
  <2>5. QED
    BY <1>3, <2>1, <2>4
<1>6. CASE netctrl_receive_skb(a)
  <2>1. Owned'
    BY <1>6 DEF netctrl_receive_skb, Owned, Goto, CtlTypes
  <2>2. QED
    BY <1>1, <1>3, <1>6, <2>1, HandledStays DEF netctrl_receive_skb
<1>7. CASE cap_receive(a)
  <2>1. Owned'
    BY <1>7 DEF cap_receive, Owned, Goto, CtlTypes
  <2>2. HandledAsAsked'
    <3>1. \A m \in heard : Asked(m.pid)' = Asked(m.pid)
      BY <1>1 DEF Asked
    <3>2. \A m \in heard' : m \in heard \/ m.by = "netlink"
      BY <1>7 DEF cap_receive
    <3>3. QED
      BY <3>1, <3>2 DEF HandledAsAsked
  <2>3. QED
    BY <1>3, <2>1, <2>2
<1>8. QED
  BY <1>4, <1>5, <1>6, <1>7 DEF kernel

(* Unloading resets the mutex, and takes away those that were inside; if   *)
(* it faults, both stay.                                                   *)
LEMMA InvModules ==
  ASSUME NEW O, Given(O), CtlInv(O), netctrl_init \/ netctrl_exit \/ capture_module
  PROVE  CtlInv(O)'
<1> USE DEF CtlInv
<1>1. UNCHANGED <<args, left, g_sys_cmd, ret, heard>>
  BY DEF netctrl_init, netctrl_exit, capture_module, appVars
<1>2. HandledAsAsked'
  BY <1>1, HandledStays
<1>3. CASE UNCHANGED <<apc, netctrl_mutex>>
  BY <1>1, <1>2, <1>3 DEF CtlTypes, Owned, Parsed
<1>4. CASE /\ netctrl_mutex' = NULL
           /\ apc' = [a \in Apps |-> IF InKernel(a) THEN "lost" ELSE apc[a]]
  <2>1. apc' \in [Apps -> Locations]
    BY <1>4 DEF CtlTypes, Locations
  <2>2. \A a \in Apps : IF InKernel(a) THEN apc'[a] = "lost" ELSE apc'[a] = apc[a]
    BY <1>4
  <2>3. Owned'
    BY <2>2 DEF Owned, InKernel
  <2>4. Parsed'
    BY <1>1, <2>2 DEF Parsed, InKernel
  <2>5. QED
    BY <1>1, <1>2, <2>1, <2>3, <2>4 DEF CtlTypes
<1>5. QED
  BY <1>3, <1>4 DEF netctrl_init, netctrl_exit, capture_module

LEMMA CtlInvNext == ASSUME NEW O, Given(O), CtlInv(O), [Next]_vars PROVE CtlInv(O)'
<1>1. CASE UNCHANGED vars
  BY <1>1, HandledStays DEF vars, appVars, CtlInv, CtlTypes, Owned, Parsed
<1>2. QED
  BY <1>1, InvParse, InvSend, InvKernel, InvModules DEF Next, app

(* netctrl.c: messages are handled one at a time, through failures and     *)
(* through unloading and loading the module again.                         *)
THEOREM AlwaysOneAtATime ==
  ASSUME NEW O, Given(O) PROVE Spec => []OneAtATime
<1>1. Init => CtlInv(O)
  BY CtlInvInit
<1>2. CtlInv(O) /\ [Next]_vars => CtlInv(O)'
  BY CtlInvNext
<1>3. CtlInv(O) => OneAtATime
  BY DEF CtlInv, Owned, OneAtATime
<1>4. QED
  BY <1>1, <1>2, <1>3, PTL DEF Spec

(* app.c, netctrl.c: what netctrl handles is the last option of the        *)
(* command line it came from, an address as far as its array goes, and no  *)
(* line with a bad option is handled.                                      *)
THEOREM AlwaysHandledAsAsked ==
  ASSUME NEW O, Given(O) PROVE Spec => []HandledAsAsked
<1>1. Init => CtlInv(O)
  BY CtlInvInit
<1>2. CtlInv(O) /\ [Next]_vars => CtlInv(O)'
  BY CtlInvNext
<1>3. CtlInv(O) => HandledAsAsked
  BY DEF CtlInv
<1>4. QED
  BY <1>1, <1>2, <1>3, PTL DEF Spec

-----------------------------------------------------------------------------
(* foobar.c.  Inv is about value and the calls inside the two functions,   *)
(* Files about the entries that the module creates and removes.            *)

Calls == [busy : BOOLEAN, pos : Nat, text : Seq(Bytes), alone : BOOLEAN, fault : BOOLEAN]

Types ==
  /\ value \in [0..FOOBAR_LEN -> Bytes \cup {NUL}]
  /\ rd \in [Readers -> Calls]
  /\ wr \in [Writers -> Calls]
  /\ last \in Seq(Bytes) \cup {Unknown}

(* The last byte of value is NUL, and no reader is past it. *)
Bounded ==
  /\ value[FOOBAR_LEN] = NUL
  /\ \A r \in Readers : rd[r].pos <= FOOBAR_LEN

(* Calls are inside only while the functions of foo are set. *)
Gate ==
  foo_file \notin {"ready", "closing"} =>
    /\ \A r \in Readers : ~rd[r].busy
    /\ \A w \in Writers : ~wr[w].busy

(* v holds the text t and its terminator. *)
Holds(v, t) ==
  /\ Len(t) <= FOOBAR_LEN
  /\ \A j \in 1..Len(t) : v[j - 1] = t[j]
  /\ v[Len(t)] = NUL

(* When the last text is known nobody writes and value holds it; a writer  *)
(* that had no other beside it has copied what it passed; a reader without *)
(* a writer beside it has read a beginning of the last text.               *)
Register ==
  /\ last # Unknown => Holds(value, last) /\ \A w \in Writers : ~wr[w].busy
  /\ \A w \in Writers : wr[w].busy => wr[w].pos <= length(w)
  /\ \A w \in Writers : wr[w].busy /\ wr[w].alone =>
       /\ ~wr[w].fault
       /\ \A v \in Writers : wr[v].busy => v = w
       /\ \A j \in 1..wr[w].pos : value[j - 1] = wr[w].text[j]
  /\ \A r \in Readers : rd[r].busy /\ rd[r].alone =>
       /\ last # Unknown
       /\ Len(rd[r].text) = rd[r].pos /\ rd[r].pos <= Len(last)
       /\ \A j \in 1..rd[r].pos : rd[r].text[j] = last[j]

Inv == Types /\ Bounded /\ Gate /\ Register

LEMMA StoredFits ==
  ASSUME NEW t \in Seq(Bytes), Len(t) <= FOOBAR_LEN
  PROVE  /\ Stored(t) \in [0..FOOBAR_LEN -> Bytes \cup {NUL}]
         /\ Stored(t)[FOOBAR_LEN] = NUL
         /\ Holds(Stored(t), t)
<1>1. Len(t) \in Nat /\ \A j \in 1..Len(t) : t[j] \in Bytes
  OBVIOUS
<1>2. \A j \in 0..FOOBAR_LEN : Stored(t)[j] = IF j < Len(t) THEN t[j + 1] ELSE NUL
  BY DEF Stored
<1>3. \A j \in 0..FOOBAR_LEN : j < Len(t) => t[j + 1] \in Bytes
  BY TextAssumption, <1>1
<1>4. Stored(t) \in [0..FOOBAR_LEN -> Bytes \cup {NUL}]
  BY <1>3 DEF Stored
<1>5. FOOBAR_LEN \in 0..FOOBAR_LEN /\ Len(t) \in 0..FOOBAR_LEN
  BY TextAssumption, <1>1
<1>6. Stored(t)[FOOBAR_LEN] = NUL /\ Stored(t)[Len(t)] = NUL
  BY TextAssumption, <1>1, <1>2, <1>5
<1>7. ASSUME NEW j \in 1..Len(t) PROVE Stored(t)[j - 1] = t[j]
  <2>1. j - 1 \in 0..FOOBAR_LEN /\ j - 1 < Len(t) /\ (j - 1) + 1 = j
    BY TextAssumption, <1>1
  <2>2. QED
    BY <1>2, <2>1
<1>8. QED
  BY <1>4, <1>6, <1>7 DEF Holds

LEMMA InvInit == ASSUME ProcInit PROVE Inv
<1>1. <<>> \in Seq(Bytes) /\ Len(<<>>) = 0
  OBVIOUS
<1>2. Idle \in Calls /\ ~Idle.busy /\ Idle.pos = 0
  BY <1>1 DEF Idle, Calls
<1>3. value \in [0..FOOBAR_LEN -> Bytes \cup {NUL}] /\ value[FOOBAR_LEN] = NUL
  <2>1. Len(<<>>) <= FOOBAR_LEN
    BY <1>1, TextAssumption
  <2>2. QED
    BY <1>1, <2>1, StoredFits, Zenon DEF ProcInit
<1>4. QED
  BY TextAssumption, <1>2, <1>3 DEF ProcInit, Inv, Types, Bounded, Gate, Register

LEMMA InvReadBegin ==
  ASSUME Inv, NEW r \in Readers, ReadBegin(r) PROVE Inv'
<1> DEFINE c == [busy |-> TRUE, pos |-> 0, text |-> <<>>, alone |-> last # Unknown,
                 fault |-> FALSE]
<1>1. /\ foo_file = "ready" /\ rd' = [rd EXCEPT ![r] = c]
      /\ UNCHANGED <<foo_file, value, wr, last>>
  BY DEF ReadBegin, modVars
<1>2. c \in Calls /\ c.pos = 0 /\ c.busy /\ c.text = <<>> /\ (c.alone => last # Unknown)
  <2>1. CASE last = Unknown
    <3>1. c = [busy |-> TRUE, pos |-> 0, text |-> <<>>, alone |-> FALSE, fault |-> FALSE]
      BY <2>1, Zenon
    <3>2. QED
      BY <3>1 DEF Calls
  <2>2. CASE last # Unknown
    BY <2>2 DEF Calls
  <2>3. QED
    BY <2>1, <2>2
<1>3. last # Unknown => Len(last) \in Nat
  BY DEF Inv, Types
<1> HIDE DEF c
<1>4. Types' /\ Bounded' /\ Gate'
  BY TextAssumption, <1>1, <1>2 DEF Inv, Types, Bounded, Gate
<1>5. Register'
  BY <1>1, <1>2, <1>3 DEF Inv, Types, Register, Holds, length
<1>6. QED
  BY <1>4, <1>5 DEF Inv

(* A reader that meets a byte is not at the end of value, nor, if it reads *)
(* the last text, at the end of that.                                      *)
LEMMA InvSprintf ==
  ASSUME Inv, NEW r \in Readers, sprintf(r)
  PROVE  /\ Inv'
         /\ rd[r].alone /\ ~rd'[r].busy => rd[r].text = last
<1> DEFINE p == rd[r].pos
<1>1. /\ rd[r].busy /\ p \in 0..FOOBAR_LEN /\ rd[r].text \in Seq(Bytes)
      /\ UNCHANGED <<foo_file, value, wr, last>>
  BY DEF sprintf, modVars, Inv, Types, Calls
<1>2. rd[r].alone => /\ last \in Seq(Bytes) /\ Holds(value, last) /\ last # Unknown
                     /\ Len(rd[r].text) = p /\ p <= Len(last)
                     /\ \A j \in 1..p : rd[r].text[j] = last[j]
  BY <1>1 DEF Inv, Types, Register
<1>3. CASE value[p] = NUL
  <2>1. rd' = [rd EXCEPT ![r] = Idle]
    BY <1>3 DEF sprintf
  <2>2. Idle \in Calls /\ ~Idle.busy /\ Idle.pos = 0
    BY DEF Idle, Calls
  <2>3. Inv'
    BY TextAssumption, <1>1, <2>1, <2>2 DEF Inv, Types, Bounded, Gate, Register, Holds, length
  <2>4. ASSUME rd[r].alone PROVE rd[r].text = last
    <3>1. Len(last) \in Nat /\ \A j \in 1..Len(last) : last[j] \in Bytes
      BY <1>2, <2>4
    <3>2. p < Len(last) => value[p] = last[p + 1] /\ p + 1 \in 1..Len(last)
      BY <1>1, <1>2, <2>4, <3>1 DEF Holds
    <3>3. p = Len(last)
      BY TextAssumption, <1>1, <1>2, <1>3, <2>4, <3>1, <3>2
    <3>4. QED
      BY <1>1, <1>2, <2>4, <3>3
  <2>5. QED
    BY <2>3, <2>4
<1>4. CASE value[p] # NUL
  <2>1. /\ value[p] \in Bytes /\ p < FOOBAR_LEN
    BY TextAssumption, <1>1, <1>4 DEF Inv, Types, Bounded
  <2> DEFINE t == Append(rd[r].text, value[p])
  <2>2. /\ t \in Seq(Bytes) /\ Len(t) = Len(rd[r].text) + 1
        /\ t[Len(rd[r].text) + 1] = value[p]
        /\ \A j \in 1..Len(rd[r].text) : t[j] = rd[r].text[j]
    BY <1>1, <2>1
  <2> HIDE DEF t
  <2>3. rd' = [rd EXCEPT ![r].pos = p + 1, ![r].text = t]
    BY <1>4 DEF sprintf, t
  <2>4. /\ rd' \in [Readers -> Calls]
        /\ \A q \in Readers : q # r => rd'[q] = rd[q]
        /\ rd'[r].busy /\ rd'[r].pos = p + 1 /\ rd'[r].text = t
        /\ rd'[r].alone = rd[r].alone
    BY <1>1, <2>2, <2>3 DEF Inv, Types, Calls
  <2>5. Types' /\ Bounded' /\ Gate'
    <3>1. Types'
      BY <1>1, <2>4 DEF Inv, Types
    <3>2. ASSUME NEW q \in Readers PROVE rd'[q].pos <= FOOBAR_LEN
      <4>1. CASE q = r
        BY TextAssumption, <1>1, <2>1, <2>4, <4>1
      <4>2. CASE q # r
        BY <2>4, <4>2 DEF Inv, Bounded
      <4>3. QED
        BY <4>1, <4>2
    <3>3. Gate'
      BY <1>1, <2>4 DEF Inv, Gate
    <3>4. QED
      BY <1>1, <3>1, <3>2, <3>3 DEF Inv, Bounded
  <2>6. ASSUME rd[r].alone
        PROVE  /\ Len(t) = p + 1 /\ p + 1 <= Len(last)
               /\ \A j \in 1..p + 1 : t[j] = last[j]
    <3>1. Len(last) \in Nat
      BY <1>2, <2>6
    <3>2. p # Len(last)
      BY <1>2, <1>4, <2>6 DEF Holds
    <3>3. p + 1 \in 1..Len(last)
      BY <1>1, <1>2, <2>6, <3>1, <3>2
    <3>4. last[p + 1] = value[p]
      BY <1>1, <1>2, <2>6, <3>3 DEF Holds
    <3>5. \A j \in 1..p + 1 : j = p + 1 \/ j \in 1..p
      BY <1>1
    <3>6. \A j \in 1..p : t[j] = last[j]
      BY <1>2, <2>2, <2>6
    <3>7. t[p + 1] = last[p + 1] /\ Len(t) = p + 1
      BY <1>2, <2>2, <2>6, <3>4
    <3>8. QED
      BY <3>1, <3>3, <3>5, <3>6, <3>7
  <2>7. Register'
    <3>1. UNCHANGED <<value, wr, last>>
      BY <1>1
    <3>2. /\ last' # Unknown => Holds(value', last') /\ \A w \in Writers : ~wr'[w].busy
          /\ \A w \in Writers : wr'[w].busy => wr'[w].pos <= length(w)'
          /\ \A w \in Writers : wr'[w].busy /\ wr'[w].alone =>
               /\ ~wr'[w].fault
               /\ \A v \in Writers : wr'[v].busy => v = w
               /\ \A j \in 1..wr'[w].pos : value'[j - 1] = wr'[w].text[j]
      BY <3>1, Zenon DEF Inv, Register, Holds, length
    <3>3. ASSUME NEW q \in Readers, rd'[q].busy, rd'[q].alone
          PROVE  /\ last # Unknown
                 /\ Len(rd'[q].text) = rd'[q].pos /\ rd'[q].pos <= Len(last)
                 /\ \A j \in 1..rd'[q].pos : rd'[q].text[j] = last[j]
      <4>1. CASE q = r
        BY <1>2, <2>4, <2>6, <3>3, <4>1
      <4>2. CASE q # r
        <5>1. rd'[q] = rd[q]
          BY <2>4, <4>2
        <5>2. QED
          BY <3>3, <5>1 DEF Inv, Register
      <4>3. QED
        BY <4>1, <4>2
    <3>4. QED
      BY <3>1, <3>2, <3>3, Zenon DEF Register
  <2>8. QED
    BY <2>4, <2>5, <2>7 DEF Inv
<1>5. QED
  BY <1>3, <1>4

LEMMA InvWriteBegin ==
  ASSUME Inv, NEW w \in Writers, NEW text \in Texts, WriteBegin(w, text)
  PROVE  Inv'
<1> USE DEF Inv
<1>1. /\ foo_file = "ready" /\ ~wr[w].busy /\ last' = Unknown
      /\ UNCHANGED <<foo_file, value>>
  BY DEF WriteBegin, modVars
<1>2. text \in Seq(Bytes) /\ Len(text) \in Nat
  <2> HIDE DEF Inv
  <2>1. QED
    BY TextAssumption
<1> DEFINE others == \E v \in Writers : wr[v].busy
           c == [busy |-> TRUE, pos |-> 0, text |-> text, alone |-> ~others, fault |-> FALSE]
<1>3. /\ c \in Calls /\ c.busy /\ ~c.fault /\ c.pos = 0 /\ c.text = text
      /\ c.alone => ~others
  <2>1. CASE others
    <3>1. c = [busy |-> TRUE, pos |-> 0, text |-> text, alone |-> FALSE, fault |-> FALSE]
      BY <2>1, Zenon
    <3>2. QED
      BY <1>2, <3>1, Zenon DEF Calls
  <2>2. CASE ~others
    <3>1. c = [busy |-> TRUE, pos |-> 0, text |-> text, alone |-> TRUE, fault |-> FALSE]
      BY <2>2, Zenon
    <3>2. QED
      BY <1>2, <2>2, <3>1, Zenon DEF Calls
  <2> HIDE DEF c, others
  <2>3. QED
    BY <2>1, <2>2, Zenon
<1>4. wr' = [v \in Writers |-> IF v = w THEN c ELSE [wr[v] EXCEPT !.alone = FALSE]]
  BY DEF WriteBegin
<1> HIDE DEF c, others
<1>5. /\ wr' \in [Writers -> Calls] /\ wr'[w] = c
      /\ \A v \in Writers : v # w =>
           /\ wr'[v].busy = wr[v].busy /\ wr'[v].pos = wr[v].pos
           /\ wr'[v].text = wr[v].text /\ ~wr'[v].alone
  BY Zenon, <1>3, <1>4 DEF Types, Calls
<1>6. /\ rd' \in [Readers -> Calls]
      /\ \A r \in Readers : rd'[r].pos = rd[r].pos /\ ~rd'[r].alone
  BY Zenon DEF WriteBegin, Types, Calls
<1>7. Types' /\ Bounded' /\ Gate'
  BY <1>1, <1>5, <1>6 DEF Types, Bounded, Gate
<1>8. \A v \in Writers : wr'[v].busy => wr'[v].pos <= length(v)'
  BY TextAssumption, <1>2, <1>3, <1>5 DEF Register, length
<1>9. \A v \in Writers : wr'[v].busy /\ wr'[v].alone =>
        /\ ~wr'[v].fault
        /\ \A u \in Writers : wr'[u].busy => u = v
        /\ \A j \in 1..wr'[v].pos : value'[j - 1] = wr'[v].text[j]
  BY <1>3, <1>5 DEF others
<1>10. QED
  BY <1>1, <1>6, <1>7, <1>8, <1>9 DEF Register

LEMMA InvCopy ==
  ASSUME Inv, NEW w \in Writers, copy_from_user(w) PROVE Inv'
<1> USE DEF Inv
<1> DEFINE p == wr[w].pos
           t == wr[w].text
<1>1. /\ wr[w].busy /\ p \in Nat /\ t \in Seq(Bytes)
      /\ UNCHANGED <<foo_file, rd, last>>
  BY DEF copy_from_user, modVars, Types, Calls
<1>2. /\ length(w) \in Nat /\ length(w) <= FOOBAR_LEN /\ length(w) <= Len(t)
      /\ Len(t) \in Nat
  BY TextAssumption, <1>1 DEF length
<1>3. last = Unknown
  BY <1>1 DEF Register
<1>4. \A r \in Readers : rd[r].busy => ~rd[r].alone
  BY <1>3 DEF Register
<1> DEFINE b == IF wr[w].fault THEN NUL ELSE t[p + 1]
<1>5. CASE /\ p < length(w)
           /\ value' = [value EXCEPT ![p] = b]
           /\ wr' = [wr EXCEPT ![w].pos = p + 1]
  <2>1. p \in 0..FOOBAR_LEN /\ p # FOOBAR_LEN /\ b \in Bytes \cup {NUL}
    BY TextAssumption, <1>1, <1>2, <1>5
  <2> HIDE DEF b
  <2>2. /\ value' \in [0..FOOBAR_LEN -> Bytes \cup {NUL}] /\ value'[p] = b
        /\ value'[FOOBAR_LEN] = NUL
        /\ \A j \in 0..FOOBAR_LEN : j # p => value'[j] = value[j]
    BY TextAssumption, <1>5, <2>1 DEF Types, Bounded
  <2>3. /\ wr' \in [Writers -> Calls]
        /\ wr'[w].busy /\ wr'[w].pos = p + 1 /\ wr'[w].text = t
        /\ wr'[w].alone = wr[w].alone /\ wr'[w].fault = wr[w].fault
        /\ \A v \in Writers : v # w => wr'[v] = wr[v]
    <3>1. p + 1 \in Nat /\ wr[w] \in Calls /\ wr \in [Writers -> Calls]
      BY <1>1 DEF Types
    <3>2. [wr[w] EXCEPT !.pos = p + 1] \in Calls
      BY <3>1 DEF Calls
    <3>3. wr' = [wr EXCEPT ![w] = [wr[w] EXCEPT !.pos = p + 1]]
      BY <1>5, <3>1
    <3>4. wr' \in [Writers -> Calls] /\ \A v \in Writers : v # w => wr'[v] = wr[v]
      BY <3>1, <3>2, <3>3
    <3>5. wr'[w] = [wr[w] EXCEPT !.pos = p + 1]
      BY <3>1, <3>3
    <3>6. QED
      BY <1>1, <3>1, <3>4, <3>5 DEF Calls
  <2>4. Types' /\ Bounded' /\ Gate'
    BY <1>1, <2>2, <2>3 DEF Types, Bounded, Gate
  <2>5. \A v \in Writers : length(v)' = length(v)
    BY <2>3 DEF length
  <2>6. \A v \in Writers : wr'[v].busy => wr'[v].pos <= length(v)'
    BY <1>1, <1>2, <1>5, <2>3, <2>5 DEF Register
  <2>7. ASSUME NEW v \in Writers, wr'[v].busy, wr'[v].alone
        PROVE  /\ ~wr'[v].fault
               /\ \A u \in Writers : wr'[u].busy => u = v
               /\ \A j \in 1..wr'[v].pos : value'[j - 1] = wr'[v].text[j]
    <3>1. /\ wr[v].busy /\ wr[v].alone /\ ~wr[v].fault
          /\ \A u \in Writers : wr[u].busy => u = v
          /\ \A j \in 1..wr[v].pos : value[j - 1] = wr[v].text[j]
      BY <1>1, <2>3, <2>7 DEF Register
    <3>2. v = w
      BY <1>1, <3>1
    <3>3. \A u \in Writers : wr'[u].busy => u = v
      BY <2>3, <3>1, <3>2
    <3>4. ASSUME NEW j \in 1..p + 1 PROVE value'[j - 1] = t[j]
      <4>1. CASE j = p + 1
        BY <1>1, <2>2, <3>1, <3>2, <4>1 DEF b
      <4>2. CASE j \in 1..p
        <5>1. j - 1 \in 0..FOOBAR_LEN /\ j - 1 # p
          BY TextAssumption, <1>1, <2>1, <4>2
        <5>2. QED
          BY <2>2, <3>1, <3>2, <4>2, <5>1
      <4>3. QED
        BY <1>1, <4>1, <4>2
    <3>5. wr'[v].pos = p + 1 /\ wr'[v].text = t /\ ~wr'[v].fault
      BY <2>3, <3>1, <3>2
    <3>6. QED
      BY <3>3, <3>4, <3>5, Zenon
  <2>8. Register'
    BY <1>1, <1>3, <1>4, <2>6, <2>7 DEF Register
  <2>9. QED
    BY <2>4, <2>8
<1>6. CASE wr' = [wr EXCEPT ![w] = Idle] /\ UNCHANGED value
  <2>1. Idle \in Calls /\ ~Idle.busy
    BY DEF Idle, Calls
  <2>2. /\ wr' \in [Writers -> Calls] /\ ~wr'[w].busy
        /\ \A v \in Writers : v # w => wr'[v] = wr[v]
    BY <1>6, <2>1 DEF Types
  <2>3. Types' /\ Bounded' /\ Gate'
    BY <1>1, <1>6, <2>2 DEF Types, Bounded, Gate
  <2>4. Register'
    BY <1>1, <1>3, <1>4, <1>6, <2>2 DEF Register, length
  <2>5. QED
    BY <2>3, <2>4
<1>7. CASE wr' = [wr EXCEPT ![w].fault = TRUE, ![w].alone = FALSE] /\ UNCHANGED value
  <2>1. /\ wr' \in [Writers -> Calls]
        /\ wr'[w].busy /\ wr'[w].pos = p /\ wr'[w].text = t /\ ~wr'[w].alone
        /\ \A v \in Writers : v # w => wr'[v] = wr[v]
    BY <1>1, <1>7, Zenon DEF Types, Calls
  <2>2. Types' /\ Bounded' /\ Gate'
    BY <1>1, <1>7, <2>1 DEF Types, Bounded, Gate
  <2>3. Register'
    BY <1>1, <1>3, <1>4, <1>7, <2>1 DEF Register, length
  <2>4. QED
    BY <2>2, <2>3
<1>8. QED
  BY <1>5, <1>6, <1>7, Zenon DEF copy_from_user

LEMMA InvTerminate ==
  ASSUME Inv, NEW w \in Writers, Terminate(w) PROVE Inv'
<1> USE DEF Inv
<1> DEFINE n == length(w)
           t == wr[w].text
<1>1. /\ wr[w].busy /\ wr[w].pos = n /\ t \in Seq(Bytes)
      /\ value' = [value EXCEPT ![n] = NUL]
      /\ wr' = [wr EXCEPT ![w] = Idle]
      /\ last' = IF wr[w].alone THEN Cut(t) ELSE Unknown
      /\ UNCHANGED <<foo_file, rd>>
  BY DEF Terminate, modVars, Types, Calls
<1>2. /\ Len(t) \in Nat /\ n \in 0..FOOBAR_LEN /\ n <= Len(t)
      /\ Cut(t) \in Seq(Bytes) /\ Len(Cut(t)) = n /\ \A j \in 1..n : Cut(t)[j] = t[j]
  BY TextAssumption, <1>1 DEF length, Cut
<1> HIDE DEF n
<1>3. /\ value' \in [0..FOOBAR_LEN -> Bytes \cup {NUL}] /\ value'[n] = NUL
      /\ value'[FOOBAR_LEN] = NUL
      /\ \A j \in 0..FOOBAR_LEN : j # n => value'[j] = value[j]
  BY TextAssumption, <1>1, <1>2 DEF Types, Bounded
<1>4. Idle \in Calls /\ ~Idle.busy
  BY DEF Idle, Calls
<1>5. /\ wr' \in [Writers -> Calls] /\ ~wr'[w].busy
      /\ \A v \in Writers : v # w => wr'[v] = wr[v]
  BY <1>1, <1>4 DEF Types
<1>6. Types' /\ Bounded' /\ Gate'
  BY <1>1, <1>2, <1>3, <1>5 DEF Types, Bounded, Gate
<1>7. \A r \in Readers : rd[r].busy => ~rd[r].alone
  BY <1>1 DEF Register
<1>8. ASSUME wr[w].alone
      PROVE  Holds(value', Cut(t)) /\ \A v \in Writers : ~wr'[v].busy
  <2>1. /\ \A v \in Writers : wr[v].busy => v = w
        /\ \A j \in 1..n : value[j - 1] = t[j]
    BY <1>1, <1>8 DEF Register
  <2>2. ASSUME NEW j \in 1..n PROVE value'[j - 1] = Cut(t)[j]
    <3>1. j - 1 \in 0..FOOBAR_LEN /\ j - 1 # n
      BY TextAssumption, <1>2
    <3>2. QED
      BY <1>2, <1>3, <2>1, <3>1, Zenon
  <2>3. \A v \in Writers : ~wr'[v].busy
    BY <1>5, <2>1, Zenon
  <2>4. Len(Cut(t)) <= FOOBAR_LEN /\ value'[Len(Cut(t))] = NUL
    BY TextAssumption, <1>2, <1>3
  <2>5. QED
    BY <1>2, <2>2, <2>3, <2>4, Zenon DEF Holds
<1>9. ASSUME NEW v \in Writers, wr'[v].busy
      PROVE  /\ ~wr[w].alone /\ ~wr'[v].alone
             /\ wr'[v].pos <= length(v)'
  <2>1. v # w /\ wr[v].busy /\ wr'[v] = wr[v]
    BY <1>5, <1>9, Zenon
  <2>2. QED
    BY <1>1, <2>1 DEF Register, length
<1>10. Register'
  BY <1>1, <1>7, <1>8, <1>9, Zenon DEF Register
<1>11. QED
  BY <1>6, <1>10

(* foo_file leaves "ready" and "closing" only when nobody is inside, and   *)
(* Publish, which stores Foo, comes before.                                *)
LEMMA InvModule ==
  ASSUME Inv, Module \/ proctest_exit PROVE Inv'
<1> USE DEF Inv
<1>1. CASE UNCHANGED fileVars /\ Gate'
  BY <1>1 DEF fileVars, Types, Bounded, Register, Holds, length
<1>2. CASE Create
  BY <1>1, <1>2 DEF Create, Gate, fileVars, Entry
<1>3. CASE Publish
  <2>1. CASE foo_file = "data"
    BY <1>1, <1>3, <2>1 DEF Publish, Gate, fileVars
  <2>2. CASE foo_file = "bare"
    <3>1. /\ foo_file' = "data" /\ value' = Stored(Foo) /\ last' = Foo
          /\ UNCHANGED <<rd, wr>>
      BY <1>3, <2>2 DEF Publish
    <3>2. /\ \A r \in Readers : ~rd[r].busy
          /\ \A w \in Writers : ~wr[w].busy
      BY <2>2 DEF Gate
    <3>3. /\ Stored(Foo) \in [0..FOOBAR_LEN -> Bytes \cup {NUL}]
          /\ Stored(Foo)[FOOBAR_LEN] = NUL /\ Holds(Stored(Foo), Foo)
      BY TextAssumption, StoredFits
    <3>4. Types' /\ Bounded' /\ Gate'
      BY TextAssumption, <3>1, <3>2, <3>3 DEF Types, Bounded, Gate
    <3>5. Register'
      BY <3>1, <3>2, <3>3 DEF Register
    <3>6. QED
      BY <3>4, <3>5
  <2>3. QED
    BY <1>3, <2>1, <2>2 DEF Publish
<1>4. CASE remove_proc_entry
  BY <1>1, <1>4 DEF remove_proc_entry, Gate, Inside, fileVars, Entry
<1>5. CASE proctest_exit
  BY <1>1, <1>5 DEF proctest_exit, Gate, fileVars
<1>6. QED
  BY <1>2, <1>3, <1>4, <1>5 DEF Module, proctest_init

LEMMA InvNext == ASSUME Inv, [ProcNext]_procVars PROVE Inv'
<1>1. CASE UNCHANGED procVars
  BY <1>1 DEF procVars, fileVars, modVars, Inv, Types, Bounded, Gate, Register, Holds, length
<1>2. CASE \E r \in Readers : proc_read_foobar(r)
  BY <1>2, InvReadBegin, InvSprintf DEF proc_read_foobar
<1>3. CASE \E w \in Writers : proc_write_foobar(w)
  BY <1>3, InvWriteBegin, InvCopy, InvTerminate DEF proc_write_foobar
<1>4. QED
  BY <1>1, <1>2, <1>3, InvModule DEF ProcNext

(* Only its own sprintf ends a read. *)
LEMMA ReadEnds ==
  ASSUME Inv, [ProcNext]_procVars,
         NEW r \in Readers, rd[r].busy, ~rd'[r].busy
  PROVE  sprintf(r)
<1> USE DEF Inv, Types, Calls
<1>1. CASE UNCHANGED rd
  BY <1>1
<1>2. ASSUME NEW q \in Readers, proc_read_foobar(q) PROVE sprintf(r)
  <2>1. CASE q = r
    BY <1>2, <2>1 DEF proc_read_foobar, ReadBegin
  <2>2. CASE q # r
    BY <1>2, <2>2 DEF proc_read_foobar, ReadBegin, sprintf
  <2>3. QED
    BY <2>1, <2>2
<1>3. ASSUME NEW w \in Writers, proc_write_foobar(w) PROVE sprintf(r)
  <2>1. CASE \E text \in Texts : WriteBegin(w, text)
    <3>1. rd'[r] = [rd[r] EXCEPT !.alone = FALSE] /\ rd[r] \in Calls
      BY <2>1 DEF WriteBegin
    <3>2. rd'[r].busy
      BY <3>1, Zenon
    <3>3. QED
      BY <3>2
  <2>2. CASE copy_from_user(w) \/ Terminate(w)
    BY <1>1, <2>2 DEF copy_from_user, Terminate
  <2>3. QED
    BY <1>3, <2>1, <2>2 DEF proc_write_foobar
<1>4. CASE Module \/ proctest_exit
  BY <1>1, <1>4 DEF Module, proctest_init, Create, Publish, remove_proc_entry,
                    proctest_exit, fileVars
<1>5. CASE UNCHANGED procVars
  BY <1>1, <1>5 DEF procVars, fileVars
<1>6. QED
  BY <1>2, <1>3, <1>4, <1>5 DEF ProcNext

(* No reader is past value, and a read that no write overlapped ends with  *)
(* the last text.                                                          *)
LEMMA InvReads == ASSUME Inv PROVE ReadsInside
BY DEF Inv, Bounded, ReadsInside

LEMMA InvQuiet ==
  ASSUME Inv, [ProcNext]_procVars,
         NEW r \in Readers, rd[r].busy, rd[r].alone, ~rd'[r].busy
  PROVE  rd[r].text = last
BY ReadEnds, InvSprintf

-----------------------------------------------------------------------------
(* proctest_init and proctest_exit.  The first k entries of Entries: *)
Made(k) == {Entries[j] : j \in 1..k}

(* The entries there are, and how far foo is, for every place of the       *)
(* module: before Entries[at] is created, or after it and before it is     *)
(* removed.                                                                *)
Files ==
  /\ ptest \in {"init", "undo", "failed", "live", "exit", "gone"}
  /\ ptest = "init" =>
       /\ entry \in 1..5
       /\ exists = IF foo_file \in {"bare", "data"} THEN Made(entry) ELSE Made(entry - 1)
       /\ entry < 3 => foo_file = "none"
       /\ entry = 3 => foo_file \in {"none", "bare", "data"}
       /\ entry > 3 => foo_file = "ready"
  /\ ptest = "live" => entry = 5
  /\ ptest \in {"undo", "live", "exit"} =>
       /\ entry \in 1..5 /\ exists = Made(entry)
       /\ entry < 3 => foo_file = "none"
       /\ entry = 3 => foo_file \in {"ready", "closing"}
       /\ entry > 3 => foo_file = "ready"
  /\ ptest \in {"failed", "gone"} => exists = {} /\ foo_file = "none"

(* Entries has no duplicates, and foo is the third. *)
LEMMA MadeGrows ==
  /\ Made(0) = {}
  /\ \A k \in 1..5 : Made(k) = Made(k - 1) \cup {Entries[k]} /\ Entries[k] \notin Made(k - 1)
  /\ \A k \in 1..5 : Entries[k] = "foo" <=> k = 3
  /\ DOMAIN Entries = 1..5 /\ Len(Entries) = 5
<1>1. DOMAIN Entries = 1..5 /\ Len(Entries) = 5
  BY DEF Entries
<1>2. \A j, k \in 1..5 : Entries[j] = Entries[k] => j = k
  BY DEF Entries
<1>3. \A k \in 1..5 : Entries[k] = "foo" <=> k = 3
  BY DEF Entries
<1>4. Made(0) = {}
  BY DEF Made
<1>5. ASSUME NEW k \in 1..5
      PROVE  Made(k) = Made(k - 1) \cup {Entries[k]} /\ Entries[k] \notin Made(k - 1)
  <2>1. 1..k = (1..(k - 1)) \cup {k} /\ \A j \in 1..(k - 1) : j \in 1..5 /\ j # k
    OBVIOUS
  <2>2. QED
    BY <1>2, <2>1 DEF Made
<1>6. QED
  BY <1>1, <1>3, <1>4, <1>5

LEMMA FilesInit == ProcInit => Files
<1>1. Made(1 - 1) = {}
  BY MadeGrows
<1>2. QED
  BY <1>1 DEF ProcInit, Files

LEMMA FilesNext == ASSUME Files, [ProcNext]_procVars PROVE Files'
<1> USE DEF Files
<1>1. CASE UNCHANGED modVars
  BY <1>1 DEF modVars
<1>2. CASE Create
  BY <1>2, MadeGrows DEF Create, Entry
<1>3. CASE Publish
  BY <1>3, MadeGrows DEF Publish, Entry
<1>4. CASE remove_proc_entry
  BY <1>4, MadeGrows DEF remove_proc_entry, Entry
<1>5. CASE proctest_exit
  BY <1>5 DEF proctest_exit
<1>6. CASE \E r \in Readers : proc_read_foobar(r)
  BY <1>1, <1>6 DEF proc_read_foobar, ReadBegin, sprintf
<1>7. CASE \E w \in Writers : proc_write_foobar(w)
  BY <1>1, <1>7 DEF proc_write_foobar, WriteBegin, copy_from_user, Terminate
<1>8. CASE UNCHANGED procVars
  BY <1>1, <1>8 DEF procVars
<1>9. QED
  BY <1>2, <1>3, <1>4, <1>5, <1>6, <1>7, <1>8, Zenon DEF ProcNext, Module, proctest_init

(* With the calls shut out before foo goes, that is AllOrNothing. *)
LEMMA FilesGive == ASSUME Files, Gate PROVE AllOrNothing
<1>1. ptest = "live" => exists = {Entries[j] : j \in DOMAIN Entries} /\ foo_file = "ready"
  BY MadeGrows DEF Files, Made
<1>2. ptest \in {"failed", "gone"} => exists = {} /\ ~Inside
  BY DEF Files, Gate, Inside
<1>3. QED
  BY <1>1, <1>2 DEF AllOrNothing

-----------------------------------------------------------------------------
LEMMA InvHolds == ProcSpec => [](Inv /\ Files)
<1>1. ProcInit => Inv /\ Files
  BY InvInit, FilesInit
<1>2. Inv /\ Files /\ [ProcNext]_procVars => (Inv /\ Files)'
  BY InvNext, FilesNext
<1>3. QED
  BY <1>1, <1>2, PTL DEF ProcSpec

(* foobar.c: proc_read_foobar never reads past value, whatever is written  *)
(* meanwhile.                                                              *)
THEOREM ReadsAlwaysInside == ProcSpec => []ReadsInside
<1>1. Inv => ReadsInside
  BY InvReads
<1>2. QED
  BY <1>1, InvHolds, PTL

(* foobar.c: a read that no write overlaps returns the last text written,  *)
(* cut to FOOBAR_LEN, if that write had no other beside it and did not     *)
(* fault.                                                                  *)
THEOREM ReadsAreQuiet == ProcSpec => QuietRead
<1> DEFINE Q == \A r \in Readers :
                  rd[r].busy /\ rd[r].alone /\ ~rd'[r].busy => rd[r].text = last
<1>1. Inv /\ [ProcNext]_procVars => [Q]_procVars
  BY InvQuiet
<1>2. QED
  BY <1>1, InvHolds, PTL DEF ProcSpec, QuietRead

(* foobar.c: proctest_init creates all its entries or leaves none, and     *)
(* nobody is inside when they are gone.                                    *)
THEOREM FilesAllOrNothing == ProcSpec => []AllOrNothing
<1>1. Inv /\ Files => AllOrNothing
  BY FilesGive DEF Inv
<1>2. QED
  BY <1>1, InvHolds, PTL
=============================================================================
