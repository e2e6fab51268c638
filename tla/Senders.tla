------------------------------ MODULE Senders ------------------------------
(***************************************************************************)
(* src/nic/tcp.c, udp.c and garp.c send packets through eth0 while they    *)
(* are loaded.  Each takes a reference on the device by its name and gives *)
(* it back; unregistering the device waits for all references.             *)
(*                                                                         *)
(* eth0 goes in steps: its name is taken away ("unlisted"), its in_device  *)
(* is destroyed ("bare"), and when nobody refers to it it is "gone".       *)
(***************************************************************************)
EXTENDS SkbFrames

CONSTANTS
  NULL,
  HardLens, Rooms,   \* what a device may ask for: link header, room
  MaxAddrs           \* most addresses on eth0

(* Sizes are not negative, and there is a device. *)
ASSUME SizeAssumption ==
  /\ PAYLOAD \in Nat /\ ADDR_LEN \in Nat
  /\ HardLens \subseteq Nat /\ HardLens # {}
  /\ Rooms \subseteq Nat

Programs == {"tcp", "udp", "garp"}

VARIABLES
  eth0, asks,   \* the state of the device, and what it asks for
  refs,         \* its reference count
  spc,          \* each program: "start", "round", "alloc", "xmit", "put", "done", "oops"
  frame,        \* the packet it has built, NULL if none
  kept,         \* programs that returned without giving their reference back
  again,        \* programs that freed an skb that was not theirs any more
  round, left   \* garp: calls of garp_send_gratuitous_arp made, addresses left

loopVars == <<round, left>>
senderVars == <<eth0, asks, refs, spc, frame, kept, again, loopVars>>

SendersInit ==
  /\ eth0 = "up" /\ asks \in [hard : HardLens, head : Rooms, tail : Rooms]
  /\ refs = 0
  /\ spc = [p \in Programs |-> "start"]
  /\ frame = [p \in Programs |-> NULL]
  /\ kept = {} /\ again = {} /\ round = 0 /\ left = 0

Goto(p, l) == spc' = [spc EXCEPT ![p] = l]

(* eth0 is unregistered. *)
unregister_netdevice ==
  /\ \/ eth0 = "up" /\ eth0' = "unlisted"
     \/ eth0 = "unlisted" /\ eth0' = "bare"
     \/ eth0 = "bare" /\ refs = 0 /\ eth0' = "gone"
  /\ UNCHANGED <<asks, refs, spc, frame, kept, again, loopVars>>

dev_get_by_name(p) ==
  /\ spc[p] = "start"
  /\ IF eth0 = "up"
     THEN refs' = refs + 1 /\ Goto(p, IF p = "garp" THEN "round" ELSE "alloc")
     ELSE Goto(p, "done") /\ UNCHANGED refs
  /\ UNCHANGED <<eth0, asks, frame, kept, again, loopVars>>

dev_put(p) ==
  /\ spc[p] = "put"
  /\ refs' = refs - 1
  /\ Goto(p, "done")
  /\ UNCHANGED <<eth0, asks, frame, kept, again, loopVars>>

-----------------------------------------------------------------------------
(* tcp.c and udp.c: create_new_skb. *)

Build(p) == IF p = "tcp" THEN tcp_skb(asks) ELSE IF p = "udp" THEN udp_skb(asks) ELSE garp_create(asks)

(* If there is no memory the function returns with its reference.          *)
alloc_skb(p) ==
  /\ p \in {"tcp", "udp"} /\ spc[p] = "alloc"
  /\ \/ /\ frame' = [frame EXCEPT ![p] = Build(p)]
        /\ Goto(p, "xmit")
        /\ UNCHANGED kept
     \/ Goto(p, "done") /\ kept' = kept \cup {p} /\ UNCHANGED frame
  /\ UNCHANGED <<eth0, asks, refs, again, loopVars>>

(* dev_queue_xmit takes the skb over whatever it returns; if that is       *)
(* negative the skb is freed once more.                                    *)
Xmit(p, next) ==
  /\ spc[p] = "xmit"
  /\ frame' = [frame EXCEPT ![p] = NULL]
  /\ again' = again \/ again' = again \cup {p}
  /\ Goto(p, next)
  /\ UNCHANGED <<eth0, asks, refs, kept, loopVars>>

(* Altered: the error path frees the skb only. *)
create_new_skb_NoPut(p) ==
  \/ dev_get_by_name(p) \/ alloc_skb(p) \/ dev_put(p)
  \/ p \in {"tcp", "udp"} /\ (Xmit(p, "put") \/ Xmit(p, "done"))

create_new_skb(p) ==
  \/ dev_get_by_name(p) \/ alloc_skb(p) \/ dev_put(p)
  \/ p \in {"tcp", "udp"} /\ Xmit(p, "put")

-----------------------------------------------------------------------------
(* garp.c: three rounds over the addresses of eth0, whose list is read     *)
(* without a lock, so each round may find another number of them.  The     *)
(* in_device is not tested.                                                *)
garp_send_gratuitous_arp ==
  /\ spc["garp"] = "round"
  /\ IF round = 3 THEN Goto("garp", "put") /\ UNCHANGED loopVars
     ELSE IF eth0 = "bare" THEN Goto("garp", "oops") /\ UNCHANGED loopVars
     ELSE /\ left' \in 0..MaxAddrs
          /\ round' = round + 1
          /\ Goto("garp", IF left' = 0 THEN "round" ELSE "alloc")
  /\ UNCHANGED <<eth0, asks, refs, frame, kept, again>>

(* An address for which there is no memory is passed over. *)
garp_send ==
  \/ /\ spc["garp"] = "alloc"
     /\ \/ /\ frame' = [frame EXCEPT !["garp"] = Build("garp")]
           /\ Goto("garp", "xmit") /\ UNCHANGED left
        \/ /\ left' = left - 1
           /\ Goto("garp", IF left = 1 THEN "round" ELSE "alloc")
           /\ UNCHANGED frame
     /\ UNCHANGED <<eth0, asks, refs, kept, again, round>>
  \/ /\ spc["garp"] = "xmit"
     /\ frame' = [frame EXCEPT !["garp"] = NULL]
     /\ again' = again \/ again' = again \cup {"garp"}
     /\ left' = left - 1
     /\ Goto("garp", IF left = 1 THEN "round" ELSE "alloc")
     /\ UNCHANGED <<eth0, asks, refs, kept, round>>

garp_init == dev_get_by_name("garp") \/ garp_send_gratuitous_arp \/ garp_send \/ dev_put("garp")

SendersNext ==
  \/ unregister_netdevice
  \/ create_new_skb("tcp") \/ create_new_skb("udp") \/ garp_init

(* Loading that has begun goes on; nobody has to unregister eth0. *)
SendersSpec ==
  /\ SendersInit /\ [][SendersNext]_senderVars
  /\ \A p \in {"tcp", "udp"} : WF_senderVars(create_new_skb(p))
  /\ WF_senderVars(garp_init)
  /\ WF_senderVars(eth0 # "up" /\ unregister_netdevice)

-----------------------------------------------------------------------------
(* Whatever is handed to dev_queue_xmit fits its buffer and the device     *)
(* (nic/README puzzles over "protocol 0800 is buggy", the kernel's message *)
(* for a network header outside the frame).                                *)
FramesFit == \A p \in Programs : frame[p] # NULL => Fits(asks, frame[p])

(* No program uses a device that is freed: once eth0 is gone each of them  *)
(* is past its dev_put or finds no eth0 at all, whatever way it came       *)
(* there; one that kept its reference or died with it holds eth0 back.     *)
UsedIsThere ==
  eth0 = "gone" => kept = {} /\ \A p \in Programs : spc[p] \in {"start", "done"}

(* eth0 can be unregistered: every sender that is under way lets go of it, *)
(* also when sending fails, except tcp.c and udp.c when alloc_skb fails,   *)
(* and garp.c when the in_device goes under it.                            *)
DeviceCanGo ==
  eth0 # "up" ~> (eth0 = "gone" \/ kept # {} \/ spc["garp"] = "oops")

(* Without the exceptions: refuted. *)
DeviceCanAlwaysGo == eth0 # "up" ~> eth0 = "gone"

(* An skb is freed by whoever has it: refuted when dev_queue_xmit fails. *)
FreedByOwner == again = {}

(* The transport checksum covers all that follows the network header:      *)
(* refuted by tcp.c and udp.c, which take it before the payload is there.  *)
ChecksumCoversPayload ==
  \A p \in Programs : frame[p] # NULL => frame[p].summed = frame[p].skb.tail
=============================================================================
