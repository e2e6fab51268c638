----------------------------- MODULE MCCapture -----------------------------
(* Instances of Capture for TLC. *)
EXTENDS CaptureRefines, TLC

Symmetry == Permutations(Clients) \cup Permutations(Cpus)
              \cup Permutations(Buffers) \cup Permutations(Skbs)

(* netlink.c:97: "number of outstanding cap_buffers allowed".  The limit is *)
(* 64 in the source, 1 here.                                                *)
cap_backlog_limit == 1
BacklogBounded == Len(cap_skb_queue) <= cap_backlog_limit
=============================================================================
