------------------------------ MODULE NetCtrl ------------------------------
(***************************************************************************)
(* The control channel of src/netctrl: app.c, a program that turns its     *)
(* command line into one netlink message, and netctrl.c, the module that   *)
(* handles such messages.  Several runs of app are concurrent; netctrl may *)
(* be loaded and unloaded, and so may the capture module src/netlink,      *)
(* which opens port 0 of the same protocol, NETLINK_USERSOCK: only one of  *)
(* them has it at a time.                                                  *)
(*                                                                         *)
(* A text is the sequence of its bytes, without the NUL at its end.        *)
(* Number gives the value of atoi on the texts that start with a number.   *)
(***************************************************************************)
EXTENDS Integers, Sequences

CONSTANTS
  Apps,          \* runs of app, each with its pid
  CommandLines,  \* sequences of options [opt, arg], opt as getopt_long reports it
  Byte,          \* what texts are made of, NUL not among them
  Number,        \* atoi on the texts where it is not 0
  IP_LEN,        \* sizeof(ip.ip)
  NLMSG_ALIGNTO,
  NULL           \* an option without argument; no owner of the mutex or of port 0

(* i, p and d have a required argument, the others none. *)
ASSUME CommandLinesAssumption ==
  \A line \in CommandLines : \A i \in DOMAIN line :
    IF line[i].arg = NULL THEN line[i].opt \in {"h", "?"}
    ELSE line[i].opt \in {"i", "p", "d"} /\ line[i].arg \in Seq(Byte)

ASSUME LengthAssumption == IP_LEN \in Nat /\ NLMSG_ALIGNTO \in Nat

NETCTRL_AUTH_IP == 1
NETCTRL_AUTH_PORT == 2
NETCTRL_AUTH_ID == 3
Valid == {NETCTRL_AUTH_IP, NETCTRL_AUTH_PORT, NETCTRL_AUTH_ID}

VARIABLES
  args, left,     \* each app's command line, and what getopt has not seen yet
  g_sys_cmd, ret, \* the command parsed so far; syscmd_parse_args' result
  apc,            \* where each app is, its system call included
  owner,          \* the module that has port 0: NULL, "netctrl" or "netlink"
  ctl,            \* netctrl: "out", "hooks", "live", "exiting", "oops"
  hooked,         \* netctrl_hooks are registered
  netctrl_mutex,
  heard           \* what was handled: records [by, pid, type, arg]

appVars == <<args, left, g_sys_cmd, ret>>
ctlVars == <<owner, ctl, hooked>>
vars == <<appVars, apc, ctlVars, netctrl_mutex, heard>>

Init ==
  /\ args \in [Apps -> CommandLines] /\ left = args
  /\ g_sys_cmd = [a \in Apps |-> [type |-> 0, arg |-> NULL]]
  /\ ret = [a \in Apps |-> 0]
  /\ apc = [a \in Apps |-> "parse"]
  /\ owner = NULL /\ ctl = "out" /\ hooked = FALSE
  /\ netctrl_mutex = NULL
  /\ heard = {}

Goto(a, l) == apc' = [apc EXCEPT ![a] = l]

-----------------------------------------------------------------------------
(* app. *)

atoi(text) == IF text \in DOMAIN Number THEN Number[text] ELSE 0

(* What option o stores into g_sys_cmd: its data or, in the same union,    *)
(* its pdata.                                                              *)
Store(o) ==
  CASE o.opt = "d" -> [type |-> NETCTRL_AUTH_ID, arg |-> <<"data", atoi(o.arg)>>]
    [] o.opt = "p" -> [type |-> NETCTRL_AUTH_PORT, arg |-> <<"data", atoi(o.arg)>>]
    [] o.opt = "i" -> [type |-> NETCTRL_AUTH_IP, arg |-> <<"pdata", o.arg>>]

(* Altered: an option without argument is skipped. *)
syscmd_parse_args_Skip(a) ==
  /\ apc[a] = "parse"
  /\ IF left[a] = <<>>
     THEN Goto(a, "main") /\ UNCHANGED <<left, g_sys_cmd, ret>>
     ELSE /\ left' = [left EXCEPT ![a] = Tail(@)]
          /\ g_sys_cmd' = [g_sys_cmd EXCEPT ![a] =
               IF Head(left[a]).arg = NULL THEN @ ELSE Store(Head(left[a]))]
          /\ UNCHANGED <<apc, ret>>
  /\ UNCHANGED <<args, ctlVars, netctrl_mutex, heard>>

(* The loop over getopt_long.  h takes no argument and a bad option has    *)
(* none, so both end the loop at the test of optarg.                       *)
syscmd_parse_args(a) ==
  /\ apc[a] = "parse"
  /\ \/ /\ left[a] = <<>>
        /\ Goto(a, "main")
        /\ UNCHANGED <<left, g_sys_cmd, ret>>
     \/ /\ left[a] # <<>> /\ Head(left[a]).arg = NULL
        /\ ret' = [ret EXCEPT ![a] = -1]
        /\ Goto(a, "main")
        /\ UNCHANGED <<left, g_sys_cmd>>
     \/ /\ left[a] # <<>> /\ Head(left[a]).arg # NULL
        /\ g_sys_cmd' = [g_sys_cmd EXCEPT ![a] = Store(Head(left[a]))]
        /\ left' = [left EXCEPT ![a] = Tail(@)]
        /\ UNCHANGED <<apc, ret>>
  /\ UNCHANGED <<args, ctlVars, netctrl_mutex, heard>>

(* main after parsing: syscmd_proc only if ret is 0, and a command only if *)
(* a type was set.                                                         *)
syscmd_proc(a) ==
  /\ apc[a] = "main"
  /\ Goto(a, IF ret[a] = 0 /\ g_sys_cmd[a].type \in Valid THEN "send" ELSE "done")
  /\ UNCHANGED <<appVars, ctlVars, netctrl_mutex, heard>>

(* calloc, socket or bind fails, or port 0 has no owner: nothing is sent   *)
(* and main returns 0.  Else sendmsg runs the owner's input function.      *)
send_msg_to_kernel(a) ==
  /\ apc[a] = "send"
  /\ \/ Goto(a, "done")
     \/ owner = "netctrl" /\ Goto(a, "lock")
     \/ owner = "netlink" /\ Goto(a, "foreign")
  /\ UNCHANGED <<appVars, ctlVars, netctrl_mutex, heard>>

(* The text that syscmd_set_auth_ip leaves in ip.ip: one that does not fit *)
(* is cut, and one of IP_LEN bytes or more has no NUL after it.            *)
strncpy(text) == IF Len(text) < IP_LEN THEN text ELSE SubSeq(text, 1, IP_LEN)

-----------------------------------------------------------------------------
(* netctrl_receive, in the context of the sending app.                     *)

(* datalen is NLMSG_ALIGNTO bytes too many: so much of what lies behind    *)
(* the message is copied with it, and zeros come after that.               *)
Behind == UNION {[1 .. n -> Byte] : n \in 0 .. NLMSG_ALIGNTO}

(* What netctrl_proc_msg may find in the copy of command g: an address     *)
(* without NUL is read on into what lay behind the message.                *)
Copied(g) ==
  IF g.type # NETCTRL_AUTH_IP THEN {g.arg}
  ELSE LET ip == strncpy(g.arg[2])
       IN {<<"pdata", ip \o rest>> :
             rest \in IF Len(ip) < IP_LEN THEN {<<>>} ELSE Behind}

(* Altered: the mutex is not waited for. *)
netctrl_receive_NoWait(a) ==
  /\ apc[a] = "lock"
  /\ netctrl_mutex' = a
  /\ Goto(a, "msg")
  /\ UNCHANGED <<appVars, ctlVars, heard>>

netctrl_receive(a) ==
  /\ apc[a] = "lock" /\ netctrl_mutex = NULL
  /\ netctrl_mutex' = a
  /\ Goto(a, "msg")
  /\ UNCHANGED <<appVars, ctlVars, heard>>

(* Altered: the error return leaves the mutex locked. *)
netctrl_receive_msg_NoUnlock(a) ==
  /\ apc[a] = "msg"
  /\ \/ \E arg \in Copied(g_sys_cmd[a]) :
          heard' = heard \cup
            {[by |-> "netctrl", pid |-> a, type |-> g_sys_cmd[a].type, arg |-> arg]}
        /\ Goto(a, "unlock")
     \/ Goto(a, "done") /\ UNCHANGED heard
  /\ UNCHANGED <<appVars, ctlVars, netctrl_mutex>>

(* netctrl_netlink_ok passes the three types.  kzalloc may fail, which is  *)
(* answered with an error; else netctrl_proc_msg handles the copy.         *)
netctrl_receive_msg(a) ==
  /\ apc[a] = "msg"
  /\ \/ /\ g_sys_cmd[a].type \in Valid
        /\ \E arg \in Copied(g_sys_cmd[a]) :
             heard' = heard \cup
               {[by |-> "netctrl", pid |-> a, type |-> g_sys_cmd[a].type, arg |-> arg]}
     \/ UNCHANGED heard
  /\ Goto(a, "unlock")
  /\ UNCHANGED <<appVars, ctlVars, netctrl_mutex>>

(* One message per skb: the loop ends, the mutex is released, sendmsg      *)
(* returns and app closes its socket and exits.                            *)
netctrl_receive_skb(a) ==
  /\ apc[a] = "unlock"
  /\ netctrl_mutex' = NULL
  /\ Goto(a, "done")
  /\ UNCHANGED <<appVars, ctlVars, heard>>

(* The same message in the capture module, where type 1 is CAP_DEL, type 2 *)
(* is refused and type 3 is CAP_GET_PACKET.                                *)
cap_receive(a) ==
  /\ apc[a] = "foreign"
  /\ heard' = IF g_sys_cmd[a].type = 2 THEN heard
              ELSE heard \cup {[by |-> "netlink", pid |-> a,
                                type |-> g_sys_cmd[a].type, arg |-> NULL]}
  /\ Goto(a, "done")
  /\ UNCHANGED <<appVars, ctlVars, netctrl_mutex>>

-----------------------------------------------------------------------------
(* Loading and unloading. *)

(* The four hooks accept every packet; registering them may fail. *)
netctrl_hooks_init == hooked' \in BOOLEAN

(* netlink_kernel_create fails while the other module has port 0; the      *)
(* result of netctrl_hooks_init is not looked at.                          *)
netctrl_init ==
  /\ \/ /\ ctl = "out" /\ owner = NULL
        /\ owner' = "netctrl" /\ ctl' = "hooks"
        /\ UNCHANGED hooked
     \/ /\ ctl = "hooks"
        /\ netctrl_hooks_init /\ ctl' = "live"
        /\ UNCHANGED owner
  /\ UNCHANGED <<appVars, apc, netctrl_mutex, heard>>

InKernel(a) == apc[a] \in {"lock", "msg", "unlock"}

(* Nothing waits for commands that are still inside: the module's code     *)
(* goes away under them.  If registering the hooks had failed,             *)
(* nf_unregister_hooks takes entries off a list that they are not on: it   *)
(* faults, rmmod dies and the module stays, neither loaded nor gone.       *)
netctrl_exit ==
  \/ /\ ctl = "live"
     /\ ctl' = "exiting" /\ owner' = NULL
     /\ UNCHANGED <<appVars, apc, hooked, netctrl_mutex, heard>>
  \/ /\ ctl = "exiting" /\ ~hooked
     /\ ctl' = "oops"
     /\ UNCHANGED <<appVars, apc, owner, hooked, netctrl_mutex, heard>>
  \/ /\ ctl = "exiting" /\ hooked
     /\ ctl' = "out" /\ hooked' = FALSE
     /\ netctrl_mutex' = NULL
     /\ apc' = [a \in Apps |-> IF InKernel(a) THEN "lost" ELSE apc[a]]
     /\ UNCHANGED <<appVars, owner, heard>>

(* The capture module's app_init and app_exit, as far as port 0 goes.      *)
capture_module ==
  /\ \/ owner = NULL /\ owner' = "netlink"
     \/ owner = "netlink" /\ owner' = NULL
  /\ UNCHANGED <<appVars, apc, ctl, hooked, netctrl_mutex, heard>>

-----------------------------------------------------------------------------
app(a) == syscmd_parse_args(a) \/ syscmd_proc(a) \/ send_msg_to_kernel(a)
kernel(a) == \/ netctrl_receive(a) \/ netctrl_receive_msg(a)
             \/ netctrl_receive_skb(a) \/ cap_receive(a)

Next ==
  \/ \E a \in Apps : app(a) \/ kernel(a)
  \/ netctrl_init \/ netctrl_exit \/ capture_module

(* A process that can run is scheduled; nobody has to load or unload.      *)
Spec == Init /\ [][Next]_vars /\ \A a \in Apps : WF_vars(app(a)) /\ WF_vars(kernel(a))

-----------------------------------------------------------------------------
(* What the command line of app a asks for: its last option, provided no   *)
(* option is bad or asks for help.                                         *)
Asked(a) ==
  IF args[a] = <<>> \/ \E i \in DOMAIN args[a] : args[a][i].arg = NULL
  THEN {} ELSE {Store(args[a][Len(args[a])])}

(* An address shorter than the array arrives as it is; of a longer one the *)
(* first IP_LEN bytes do, and what follows them is anything.               *)
Arrives(text, asked) ==
  IF Len(asked) < IP_LEN THEN text = asked
  ELSE Len(text) >= IP_LEN /\ \A i \in 1 .. IP_LEN : text[i] = asked[i]

(* netctrl handles what an app was asked for and nothing else: no command  *)
(* comes out of a rejected command line, an earlier option that a later    *)
(* one overrides, or a mix of two concurrent messages.  A number arrives   *)
(* unchanged, an address as far as the array of the message holds it.      *)
HandledAsAsked ==
  \A m \in heard : m.by = "netctrl" =>
    \E c \in Asked(m.pid) :
      /\ m.type = c.type
      /\ IF c.type = NETCTRL_AUTH_IP THEN Arrives(m.arg[2], c.arg[2]) ELSE m.arg = c.arg

(* The module handles messages one at a time, across kzalloc failures and  *)
(* across unloading and loading it again: whoever is between mutex_lock    *)
(* and mutex_unlock is the only one.                                       *)
OneAtATime ==
  \A a, b \in Apps :
    apc[a] \in {"msg", "unlock"} /\ apc[b] \in {"msg", "unlock"} => a = b

(* Every app ends, whatever fails on the way and however many others send, *)
(* unless the module is unloaded under it.                                 *)
AppsEnd == \A a \in Apps : <>(apc[a] \in {"done", "lost"})

(* app.c:15 says of its protocol number "should correct with kernel ID":   *)
(* app's messages are for netctrl and are not handled by another module.   *)
HeardByNetctrl == \A m \in heard : m.by = "netctrl"
=============================================================================
