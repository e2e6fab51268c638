----------------------------- MODULE MonIoctl -----------------------------
(***************************************************************************)
(* The private ioctls of src/mon/mon.c, as `iwpriv mon setlover lover` and *)
(* the like reach them.  The wireless core calls them one at a time.       *)
(*                                                                         *)
(* A buffer is a sequence of bytes in which NUL ends a text.  A caller's   *)
(* buffer has any length; the bytes of a setter are told apart from those  *)
(* of a getter, whose own buffer get_lover writes over.                    *)
(***************************************************************************)
EXTENDS Integers, Sequences

CONSTANTS
  NUL, Set, Get,   \* bytes: the terminator, a setter's and a getter's
  LOVER,           \* sizeof(g_lover), 32
  IOCTL_CHAR128,   \* size of the bounce buffer, 128
  MaxData          \* longest buffer of a caller

(* A text holds no NUL, and g_lover is shorter than the bounce buffer. *)
ASSUME LoverAssumption ==
  /\ NUL \notin {Set, Get}
  /\ LOVER \in Nat /\ IOCTL_CHAR128 \in Nat /\ LOVER < IOCTL_CHAR128
  /\ MaxData \in Nat

VARIABLES
  g_maxsta, g_lover,
  reply,           \* the last ioctl: command, its buffer, result, text returned
  asked            \* the text last given to setlover

ioctlVars == <<g_maxsta, g_lover, reply, asked>>

Buffers(b) == UNION {[1..n -> {NUL, b}] : n \in 0..MaxData}

(* The text in a buffer: what is before its first NUL. *)
Text(s) == LET ends == {i \in DOMAIN s : s[i] = NUL}
           IN IF ends = {} THEN s ELSE SubSeq(s, 1, (CHOOSE i \in ends : \A j \in ends : i <= j) - 1)

Zeros(n) == [i \in 1..n |-> NUL]

IoctlInit ==
  /\ g_maxsta = 1
  /\ g_lover = Zeros(LOVER) /\ asked = <<>>
  /\ reply = [cmd |-> "none", own |-> <<>>, ret |-> "ok", text |-> <<>>]

-----------------------------------------------------------------------------
(* setmaxsta; any other sub-command is -EOPNOTSUPP. *)
ioctl_setpara_mon(param, value) ==
  /\ g_maxsta' = IF param = "SET_MAXSTA" THEN value ELSE g_maxsta
  /\ reply' = [cmd |-> param, own |-> <<>>, text |-> <<>>,
               ret |-> IF param = "SET_MAXSTA" THEN "ok" ELSE "EOPNOTSUPP"]
  /\ UNCHANGED <<g_lover, asked>>

(* getmaxsta: the sub-command's own cell is overwritten with the number.   *)
ioctl_getpara_mon(param) ==
  /\ reply' = [cmd |-> param, own |-> <<>>,
               text |-> IF param = "GET_MAXSTA" THEN <<g_maxsta>> ELSE <<>>,
               ret |-> IF param = "GET_MAXSTA" THEN "ok" ELSE "EOPNOTSUPP"]
  /\ UNCHANGED <<g_maxsta, g_lover, asked>>

(* kzalloc, copy_from_user of at most IOCTL_CHAR128 bytes, last byte NUL.  *)
Bounce(data) == [i \in 1..IOCTL_CHAR128 |->
                   IF i \in DOMAIN data /\ i < IOCTL_CHAR128 THEN data[i] ELSE NUL]

set_lover(s) == g_lover' = SubSeq(s, 1, LOVER)

(* Altered: as much is copied as g_lover's text has. *)
get_lover_Strlen(s) == [i \in 1..IOCTL_CHAR128 |->
                   IF i \in DOMAIN Text(g_lover) THEN g_lover[i] ELSE s[i]]

get_lover(s) == [i \in 1..IOCTL_CHAR128 |->
                   IF i <= LOVER THEN g_lover[i]
                   ELSE IF i = IOCTL_CHAR128 THEN NUL ELSE s[i]]

(* hello only prints; an unknown command is printed and succeeds; copying  *)
(* to the caller may fail.  Copying from it may too, after a part: that is *)
(* not tested, and the same as if the buffer had been shorter.  kzalloc is *)
(* not tested either: the write through NULL ends the caller, which holds  *)
(* the lock of the wireless core.                                          *)
ioctl_char128_mon(flags, data) ==
  LET s == Bounce(data)
  IN /\ \/ /\ flags = "SET_LOVER"
           /\ set_lover(s) /\ asked' = Text(s)
           /\ reply' = [cmd |-> flags, own |-> data, ret |-> "ok", text |-> <<>>]
        \/ /\ flags = "GET_LOVER"
           /\ \E ret \in {"ok", "EFAULT"} :
                reply' = [cmd |-> flags, own |-> data, ret |-> ret,
                          text |-> IF ret = "ok" THEN Text(get_lover(s)) ELSE <<>>]
           /\ UNCHANGED <<g_lover, asked>>
        \/ /\ flags \in {"HELLO", "unknown"}
           /\ reply' = [cmd |-> flags, own |-> data, ret |-> "ok", text |-> <<>>]
           /\ UNCHANGED <<g_lover, asked>>
        \/ /\ reply' = [cmd |-> flags, own |-> data, ret |-> "oops", text |-> <<>>]
           /\ UNCHANGED <<g_lover, asked>>
     /\ UNCHANGED g_maxsta

IoctlNext ==
  /\ reply.ret # "oops"
  /\ \/ \E p \in {"SET_MAXSTA", "unknown"}, v \in {-1, 0} : ioctl_setpara_mon(p, v)
     \/ \E p \in {"GET_MAXSTA", "unknown"} : ioctl_getpara_mon(p)
     \/ \E d \in Buffers(Set) : ioctl_char128_mon("SET_LOVER", d)
     \/ \E d \in Buffers(Get) : ioctl_char128_mon("GET_LOVER", d)
     \/ \E f \in {"HELLO", "unknown"} : ioctl_char128_mon(f, <<>>)

IoctlSpec == IoctlInit /\ [][IoctlNext]_ioctlVars

-----------------------------------------------------------------------------
(* getlover returns the text of the last setlover if that is shorter than  *)
(* g_lover, whatever is in the getter's buffer.  Of a longer one it        *)
(* returns what g_lover holds, which has no terminator then, and what the  *)
(* getter's own buffer has after it; never more than the bounce buffer.    *)
GetIsSet ==
  reply.cmd = "GET_LOVER" /\ reply.ret = "ok" =>
    /\ Len(reply.text) < IOCTL_CHAR128
    /\ IF Len(asked) < LOVER THEN reply.text = asked
       ELSE reply.text = SubSeq(asked, 1, LOVER)
              \o Text(SubSeq(Bounce(reply.own), LOVER + 1, IOCTL_CHAR128))

(* A short form, refuted by a text of LOVER bytes or more: getlover        *)
(* returns the text that was set, cut to the size of g_lover.              *)
GetIsCut ==
  reply.cmd = "GET_LOVER" /\ reply.ret = "ok" =>
    reply.text = SubSeq(asked, 1, IF Len(asked) < LOVER THEN Len(asked) ELSE LOVER)
=============================================================================
