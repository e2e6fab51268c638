----------------------------- MODULE RateCheck -----------------------------
(***************************************************************************)
(* cap_rate_check (src/netlink/netlink.c:259-285), the rate limiter in     *)
(* front of cap_skb_queue.  Its callers are serialised by a spinlock, so a *)
(* call is one step.  jiffies is an unsigned counter of JiffyBits bits     *)
(* that wraps; elapsed is computed modulo its width.                       *)
(*                                                                         *)
(* The source leaves cap_rate_limit at 0, where every call passes, and has *)
(* nothing that sets it; this module says what each value would do.        *)
(***************************************************************************)
EXTENDS Integers, Sequences

CONSTANTS
  Limits,          \* values of cap_rate_limit
  HZ,              \* jiffies per second
  JiffyBits,       \* width of unsigned long
  MaxBurst         \* bound on packets, and on calls passed in one second

ASSUME RateAssumption ==
  /\ Limits \subseteq Nat
  /\ HZ \in Nat \ {0}
  /\ JiffyBits \in Nat /\ 2 ^ JiffyBits > 2 * HZ
  /\ MaxBurst \in Nat

VARIABLES
  cap_rate_limit,        \* packets per second, 0 for no limit
  jiffies,
  last_check, packets,   \* the static variables of cap_rate_check
  passed                 \* the calls let through in the last HZ jiffies,
                         \*   newest first: how many jiffies ago each was

rateVars == <<cap_rate_limit, jiffies, last_check, packets, passed>>

Width == 2 ^ JiffyBits
Elapsed == (jiffies - last_check) % Width

(* The module may be loaded at any value of jiffies.                       *)
RateInit ==
  /\ cap_rate_limit \in Limits
  /\ jiffies \in 0 .. Width - 1
  /\ last_check = 0 /\ packets = 0
  /\ passed = <<>>

Recent == {i \in DOMAIN passed : passed[i] + 1 < HZ}

(* Time passes. *)
Tick ==
  /\ jiffies' = (jiffies + 1) % Width
  /\ passed' = [i \in Recent |-> passed[i] + 1]
  /\ UNCHANGED <<cap_rate_limit, last_check, packets>>

Pass == passed' = <<0>> \o passed

(* Altered: a new count starts without remembering when. *)
cap_rate_check_NoStamp ==
  /\ packets < MaxBurst /\ Len(passed) < MaxBurst
  /\ IF cap_rate_limit = 0 THEN Pass /\ UNCHANGED packets
     ELSE IF packets + 1 < cap_rate_limit THEN packets' = packets + 1 /\ Pass
     ELSE IF Elapsed > HZ THEN packets' = 0 /\ Pass
     ELSE packets' = packets + 1 /\ UNCHANGED passed
  /\ UNCHANGED <<cap_rate_limit, jiffies, last_check>>

(* A call: below the limit it passes; at the limit it passes only if more  *)
(* than a second has gone by, and then starts a new count.                 *)
cap_rate_check ==
  /\ packets < MaxBurst /\ Len(passed) < MaxBurst
  /\ \/ /\ cap_rate_limit = 0
        /\ Pass /\ UNCHANGED <<last_check, packets>>
     \/ /\ cap_rate_limit > 0 /\ packets + 1 < cap_rate_limit
        /\ packets' = packets + 1
        /\ Pass /\ UNCHANGED last_check
     \/ /\ cap_rate_limit > 0 /\ packets + 1 >= cap_rate_limit /\ Elapsed > HZ
        /\ last_check' = jiffies /\ packets' = 0
        /\ Pass
     \/ /\ cap_rate_limit > 0 /\ packets + 1 >= cap_rate_limit /\ Elapsed <= HZ
        /\ packets' = packets + 1
        /\ UNCHANGED <<last_check, passed>>
  /\ UNCHANGED <<cap_rate_limit, jiffies>>

RateNext == Tick \/ cap_rate_check

RateSpec == RateInit /\ [][RateNext]_rateVars

-----------------------------------------------------------------------------
(* Calls let through in the last second. *)
InLastSecond == Len(passed)

(* However the calls fall around the start of a new count, no second sees  *)
(* more than 2 * cap_rate_limit - 1 packets, wrap-around of jiffies        *)
(* included.                                                               *)
BurstBounded == cap_rate_limit > 0 => InLastSecond <= 2 * cap_rate_limit - 1

(* netlink.c:92: "if cap_rate_limit is non-zero, limit the rate of sending *)
(* caprured packets to that number per second".                            *)
RateLimited == cap_rate_limit > 0 => InLastSecond <= cap_rate_limit
=============================================================================
