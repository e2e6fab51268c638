----------------------------- MODULE MCNetCtrl -----------------------------
EXTENDS NetCtrl, TLC

Opt(o, a) == [opt |-> o, arg |-> a]
Port == Opt("p", <<"8">>)
Id == Opt("d", <<"x">>)
Ip == Opt("i", <<"8">>)
FullIp == Opt("i", <<"8", "x">>)
LongIp == Opt("i", <<"x", "8", "x">>)
Help == Opt("h", NULL)
Bad == Opt("?", NULL)

(* One option of each kind, none, one overridden by another, a good option *)
(* before and after a bad one and before help, and, with arrays of two     *)
(* bytes, an address that just fills its array and one that is too long.   *)
MCCommandLines ==
  {<<>>, <<Port>>, <<Id>>, <<Ip>>, <<FullIp>>, <<LongIp>>, <<Ip, Port>>,
   <<Port, Bad>>, <<Bad, Id>>, <<LongIp, Help>>}
MCNumber == (<<"8">> :> 8) @@ (<<"8", "x">> :> 8)
=============================================================================
