------------------------------ MODULE NetDevs ------------------------------
(***************************************************************************)
(* src/mon/mon.c and src/nic/nic.c: two modules that each create a network *)
(* device and put a handler on interrupt 16, which they share.  insmod and *)
(* rmmod of the two interleave, and every call may fail; the failures of   *)
(* register_netdev, request_irq and nf_register_hooks are not acted upon.  *)
(*                                                                         *)
(* A handler is known by its cookie, the address of the device.  mon sets  *)
(* a destructor, so its device is freed inside unregister_netdev, before   *)
(* free_irq, and nic may be given the same address in between.  nic sets   *)
(* none and never frees its device.                                        *)
(***************************************************************************)
EXTENDS Integers, Sequences

CONSTANTS NULL, Addrs   \* addresses that alloc_etherdev can return

(* No module or device is at the address NULL. *)
ASSUME NULLAssumption == NULL \notin Addrs /\ NULL \notin {"mon", "nic"}

Mods == {"mon", "nic"}

VARIABLES
  loc,     \* where each module's init or exit function is
  dev,     \* the device it works on: the local dev, dev_mon, nic_netdev
  owner,   \* the module that allocated an address, NULL if it is free
  named,   \* modules whose device is registered
  line,    \* the handlers on the interrupt, oldest first
  hooked,  \* nic's netfilter hooks are registered
  refused  \* devices that register_netdev refused

devsVars == <<loc, dev, owner, named, line, hooked, refused>>

DevsInit ==
  /\ loc = [m \in Mods |-> "out"]
  /\ dev = [m \in Mods |-> NULL]
  /\ owner = [a \in Addrs |-> NULL]
  /\ named = {} /\ line = <<>> /\ hooked = FALSE /\ refused = {}

Goto(m, l) == loc' = [loc EXCEPT ![m] = l]

-----------------------------------------------------------------------------
(* Loading. *)

(* A device of that name may be there already: then nothing is created.    *)
dev_get_by_name(m) ==
  /\ loc[m] = "out"
  /\ Goto(m, "alloc") \/ Goto(m, "live")
  /\ dev' = [dev EXCEPT ![m] = NULL]
  /\ UNCHANGED <<owner, named, line, hooked, refused>>

(* If it fails, create_dev_mon returns 0 and nic_init -ENOMEM. *)
alloc_etherdev(m) ==
  /\ loc[m] = "alloc"
  /\ \/ \E a \in Addrs :
          /\ owner[a] = NULL
          /\ owner' = [owner EXCEPT ![a] = m]
          /\ dev' = [dev EXCEPT ![m] = a]
          /\ Goto(m, "register")
     \/ /\ Goto(m, IF m = "mon" THEN "live" ELSE "out")
        /\ UNCHANGED <<owner, dev>>
  /\ UNCHANGED <<named, line, hooked, refused>>

(* The rtnl mutex is held inside single steps only, unless nic's rmmod has *)
(* died with it.                                                           *)
rtnl_lock == loc["nic"] # "oops"

(* The result is not tested. *)
register_netdev(m) ==
  /\ loc[m] = "register" /\ rtnl_lock
  /\ \/ named' = named \cup {m} /\ UNCHANGED refused
     \/ refused' = refused \cup {dev[m]} /\ UNCHANGED named
  /\ Goto(m, "request")
  /\ UNCHANGED <<dev, owner, line, hooked>>

(* A failure is printed and otherwise ignored. *)
request_irq(m) ==
  /\ loc[m] = "request"
  /\ \/ line' = Append(line, [mod |-> m, cookie |-> dev[m]])
     \/ UNCHANGED line
  /\ Goto(m, IF m = "mon" THEN "live" ELSE "hooks")
  /\ UNCHANGED <<dev, owner, named, hooked, refused>>

nic_hooks_init ==
  /\ loc["nic"] = "hooks"
  /\ hooked' \in BOOLEAN
  /\ Goto("nic", "live")
  /\ UNCHANGED <<dev, owner, named, line, refused>>

create_dev_mon ==
  \/ dev_get_by_name("mon") \/ alloc_etherdev("mon")
  \/ register_netdev("mon") \/ request_irq("mon")

nic_init ==
  \/ dev_get_by_name("nic") \/ alloc_etherdev("nic")
  \/ register_netdev("nic") \/ request_irq("nic") \/ nic_hooks_init

-----------------------------------------------------------------------------
(* Unloading. *)

(* Nothing is undone if there is no device. *)
Begin(m) ==
  /\ loc[m] = "live"
  /\ Goto(m, IF dev[m] = NULL THEN "out" ELSE "unregister")
  /\ UNCHANGED <<dev, owner, named, line, hooked, refused>>

(* Altered: the destructor is free_netdev for nic only. *)
unregister_netdev_Kept(m) ==
  /\ loc[m] = "unregister" /\ rtnl_lock
  /\ named' = named \ {m}
  /\ owner' = IF m = "nic" THEN [owner EXCEPT ![dev[m]] = NULL] ELSE owner
  /\ Goto(m, "free_irq")
  /\ UNCHANGED <<dev, line, hooked, refused>>

(* A device that was not registered is left as it is, with a warning;      *)
(* otherwise the destructor runs, if there is one.                         *)
unregister_netdev(m) ==
  /\ loc[m] = "unregister" /\ rtnl_lock
  /\ named' = named \ {m}
  /\ owner' = IF m = "mon" /\ m \in named
              THEN [owner EXCEPT ![dev[m]] = NULL] ELSE owner
  /\ Goto(m, "free_irq")
  /\ UNCHANGED <<dev, line, hooked, refused>>

(* The handlers left by free_irq(16, cookie): the oldest one with that     *)
(* cookie is taken off; if there is none, only a warning is printed.       *)
Without(cookie) ==
  LET hits == {i \in DOMAIN line : line[i].cookie = cookie}
      first == CHOOSE i \in hits : \A j \in hits : i <= j
  IN IF hits = {} THEN line
     ELSE SubSeq(line, 1, first - 1) \o SubSeq(line, first + 1, Len(line))

(* Altered: no cookie, so the first handler is taken. *)
free_irq_Any(m) ==
  /\ loc[m] = "free_irq"
  /\ line' = IF line = <<>> THEN line ELSE Tail(line)
  /\ dev' = [dev EXCEPT ![m] = NULL]
  /\ Goto(m, IF m = "mon" THEN "out" ELSE "unhook")
  /\ UNCHANGED <<owner, named, hooked, refused>>

(* free_irq, then dev_mon or nic_netdev is NULL. *)
free_irq(m) ==
  /\ loc[m] = "free_irq"
  /\ line' = Without(dev[m])
  /\ dev' = [dev EXCEPT ![m] = NULL]
  /\ Goto(m, IF m = "mon" THEN "out" ELSE "unhook")
  /\ UNCHANGED <<owner, named, hooked, refused>>

(* If nf_register_hooks had failed, the hook it failed at was never on the *)
(* list that it is taken off here: a fault, and rmmod dies holding rtnl.   *)
nf_unregister_hooks ==
  /\ loc["nic"] = "unhook"
  /\ hooked' = FALSE
  /\ Goto("nic", IF hooked THEN "out" ELSE "oops")
  /\ UNCHANGED <<dev, owner, named, line, refused>>

delete_dev_mon == Begin("mon") \/ unregister_netdev("mon") \/ free_irq("mon")

(* Altered: nic_fini returns after free_irq. *)
nic_fini_KeepHooks ==
  \/ Begin("nic") \/ unregister_netdev("nic") \/ free_irq("nic")
  \/ /\ loc["nic"] = "unhook" /\ Goto("nic", "out")
     /\ UNCHANGED <<dev, owner, named, line, hooked, refused>>

nic_fini ==
  \/ Begin("nic") \/ unregister_netdev("nic") \/ free_irq("nic") \/ nf_unregister_hooks

DevsNext == create_dev_mon \/ delete_dev_mon \/ nic_init \/ nic_fini

DevsSpec == DevsInit /\ [][DevsNext]_devsVars

-----------------------------------------------------------------------------
Handles(m) == \E i \in DOMAIN line : line[i].mod = m

(* mon has freed its device and not yet its handler. *)
Window == loc["mon"] = "free_irq"

(* When a module is out, whatever failed while it was loaded, it has no    *)
(* device in the name space, no hooks and no handler on the interrupt: its *)
(* code is not called any more.  Only in the Window may a handler of nic   *)
(* be left, and it goes before mon is out: if nic was given mon's address, *)
(* each takes the other's handler.                                         *)
OutIsOut ==
  \A m \in Mods : loc[m] = "out" =>
    /\ m \notin named
    /\ m = "nic" => ~hooked
    /\ Handles(m) => m = "nic" /\ Window

(* The same without the exception: refuted when nic is loaded and unloaded *)
(* between two statements of delete_dev_mon.                               *)
OutIsOutAlways == \A m \in Mods : loc[m] = "out" => ~Handles(m)

(* A handler is taken off the interrupt by its own module only, except in  *)
(* the Window.                                                             *)
TakenByOwner ==
  [][\A m \in Mods : Handles(m) /\ ~Handles(m)' =>
       Window \/ (loc[m] = "free_irq" /\ loc'[m] # "free_irq")]_devsVars

(* Of the devices mon allocated, only those that register_netdev refused   *)
(* are left when mon is out: no other path leaks one.                      *)
OnlyRefusedLeak ==
  loc["mon"] = "out" =>
    \A a \in Addrs : owner[a] = "mon" => a \in refused

(* The same for nic is refuted by every loading and unloading. *)
NicFreesDevice == loc["nic"] = "out" => \A a \in Addrs : owner[a] # "nic"

(* A handler's cookie and name are in memory of its module: refuted by     *)
(* delete_dev_mon between unregister_netdev and free_irq.                  *)
CookieIsLive == \A i \in DOMAIN line : owner[line[i].cookie] = line[i].mod
=============================================================================
