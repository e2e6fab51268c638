----------------------------- MODULE CapChannel -----------------------------
(***************************************************************************)
(* What the capture module promises its clients, without threads, locks or *)
(* buffers: captured packets form one line, packets leave it only from the *)
(* front, each to one client or to nobody, and a client reads what it was  *)
(* given in that order.  No packet is delivered twice, to two clients, or  *)
(* ahead of an earlier one; packets may be lost, but only at the front or  *)
(* with a client that goes away.  An error reply to a command comes in     *)
(* between, in the same stream.                                            *)
(***************************************************************************)
EXTENDS Sequences

CONSTANTS
  Packets, Readers,
  Error      \* an error reply

VARIABLES
  seen,      \* packets captured so far
  line,      \* packets captured and not yet handled, oldest first
  inbox      \* packets and replies given to each reader and not yet read

chanVars == <<seen, line, inbox>>

Init ==
  /\ seen = {}
  /\ line = <<>>
  /\ inbox = [r \in Readers |-> <<>>]

Capture(p) ==
  /\ p \notin seen
  /\ seen' = seen \cup {p}
  /\ line' = Append(line, p)
  /\ UNCHANGED inbox

Deliver(r) ==
  /\ line # <<>>
  /\ inbox' = [inbox EXCEPT ![r] = Append(@, Head(line))]
  /\ line' = Tail(line)
  /\ UNCHANGED seen

Lose ==
  /\ line # <<>>
  /\ line' = Tail(line)
  /\ UNCHANGED <<seen, inbox>>

Reply(r) ==
  /\ inbox' = [inbox EXCEPT ![r] = Append(@, Error)]
  /\ UNCHANGED <<seen, line>>

Read(r) ==
  /\ inbox[r] # <<>>
  /\ inbox' = [inbox EXCEPT ![r] = Tail(@)]
  /\ UNCHANGED <<seen, line>>

Leave(r) ==
  /\ inbox' = [inbox EXCEPT ![r] = <<>>]
  /\ UNCHANGED <<seen, line>>

Next ==
  \/ \E p \in Packets : Capture(p)
  \/ \E r \in Readers : Deliver(r) \/ Reply(r) \/ Read(r) \/ Leave(r)
  \/ Lose

Spec == Init /\ [][Next]_chanVars
=============================================================================
