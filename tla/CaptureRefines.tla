--------------------------- MODULE CaptureRefines ---------------------------
(* Capture implements CapChannel.                                          *)
EXTENDS Capture

(* Packets on their way: the one kcapd has taken and not yet handed to a   *)
(* socket or given up, then the queue.                                     *)
Line ==
  (IF kpc \in {"reply", "unicast", "loopback", "refused"} THEN <<kskb>> ELSE <<>>)
    \o cap_skb_queue

(* Packets that have been on the queue: allocated and out of the hook.     *)
Seen == {s \in Skbs : s \notin fresh /\ \A h \in Cpus : hskb[h] # s}

Channel == INSTANCE CapChannel WITH
  Packets <- Skbs, Readers <- Clients, Error <- ACK,
  seen <- Seen, line <- Line, inbox <- rcvq

(* In-order, at-most-once delivery: every step of hooks, kcapd, commands   *)
(* and clients is a step of the channel or changes nothing in it.          *)
ImplementsChannel == Channel!Spec
=============================================================================
