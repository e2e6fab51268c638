--------------------------- MODULE NetDevsProofs ---------------------------
(***************************************************************************)
(* The inductive invariant of mon.c and nic.c, for any set of addresses,   *)
(* and what it gives: what is left of a module that is out, what leaks,    *)
(* and who takes a handler off the interrupt they share.                   *)
(***************************************************************************)
EXTENDS NetDevs, MonIoctl, WellFoundedInduction, TLAPS

(* Two sequences one after the other. *)
LEMMA Joined ==
  ASSUME NEW S, NEW p \in Seq(S), NEW q \in Seq(S)
  PROVE  /\ p \o q \in Seq(S) /\ Len(p \o q) = Len(p) + Len(q)
         /\ \A j \in 1..(Len(p) + Len(q)) :
              (p \o q)[j] = IF j <= Len(p) THEN p[j] ELSE q[j - Len(p)]
OBVIOUS

(* A sequence with its element k taken out. *)
CutAt(s, k) == SubSeq(s, 1, k - 1) \o SubSeq(s, k + 1, Len(s))

LEMMA Cut ==
  ASSUME NEW S, NEW s \in Seq(S), NEW k \in 1..Len(s)
  PROVE  /\ CutAt(s, k) \in Seq(S) /\ Len(CutAt(s, k)) = Len(s) - 1
         /\ \A j \in 1..(Len(s) - 1) : CutAt(s, k)[j] = IF j < k THEN s[j] ELSE s[j + 1]
<1> DEFINE r == CutAt(s, k)
           p == SubSeq(s, 1, k - 1)
           q == SubSeq(s, k + 1, Len(s))
           l == Len(s)
<1>0. l \in Nat /\ k \in Int /\ 1 <= k /\ k <= l
  OBVIOUS
<1>1. /\ p \in Seq(S) /\ Len(p) = k - 1
      /\ \A j \in 1..(k - 1) : p[j] = s[j]
  OBVIOUS
<1>2. /\ q \in Seq(S) /\ Len(q) = l - k
      /\ \A j \in 1..(l - k) : q[j] = s[k + j]
  OBVIOUS
<1>3. r = p \o q
  BY DEF CutAt
<1> HIDE DEF p, q, r
<1>4. /\ r \in Seq(S) /\ Len(r) = Len(p) + Len(q)
      /\ \A j \in 1..(Len(p) + Len(q)) : r[j] = IF j <= Len(p) THEN p[j] ELSE q[j - Len(p)]
  <2>1. p \in Seq(S) /\ q \in Seq(S)
    BY <1>1, <1>2
  <2>2. /\ p \o q \in Seq(S) /\ Len(p \o q) = Len(p) + Len(q)
        /\ \A j \in 1..(Len(p) + Len(q)) : (p \o q)[j] = IF j <= Len(p) THEN p[j] ELSE q[j - Len(p)]
    BY <2>1, Joined, Zenon
  <2>3. QED
    BY <1>3, <2>2, Zenon
<1> HIDE DEF l
<1>5. Len(r) = l - 1
  <2>1. Len(r) = (k - 1) + (l - k)
    BY <1>1, <1>2, <1>4, Zenon
  <2>2. QED
    BY <1>0, <2>1
<1>6. ASSUME NEW j \in 1..(l - 1)
      PROVE  r[j] = IF j < k THEN s[j] ELSE s[j + 1]
  <2>1. CASE j < k
    <3>1. j \in 1..(k - 1) /\ j <= Len(p) /\ j \in 1..(Len(p) + Len(q))
      BY <1>0, <1>1, <1>2, <2>1
    <3>2. r[j] = s[j]
      BY <1>1, <1>4, <3>1
    <3>3. QED
      BY <2>1, <3>2
  <2>2. CASE ~(j < k)
    <3>1. j - (k - 1) \in 1..(l - k) /\ k + (j - (k - 1)) = j + 1 /\ ~(j <= Len(p)) /\ j \in 1..(Len(p) + Len(q))
      BY <1>0, <1>1, <1>2, <2>2
    <3>2. r[j] = q[j - (k - 1)]
      BY <1>1, <1>4, <3>1
    <3>3. QED
      BY <1>2, <2>2, <3>1, <3>2
  <2>3. QED
    BY <2>1, <2>2
<1>7. QED
  BY <1>4, <1>5, <1>6 DEF l, r

(* A set of natural numbers that is not empty has a least element. *)
LEMMA Least ==
  ASSUME NEW T \in SUBSET Nat, T # {}
  PROVE  \E e \in T : \A j \in T : e <= j
<1>1. PICK e \in T : \A j \in T : ~ (<<j, e>> \in OpToRel(<, Nat))
  BY NatLessThanWellFounded, WFMin, Zenon
<1>2. \A j \in T : ~ (j < e)
  BY <1>1, Zenon DEF OpToRel
<1>3. QED
  BY <1>2

-----------------------------------------------------------------------------
(* The private ioctls of mon.c, for buffers and texts of any length.       *)

(* Sequences with the same elements are equal. *)
LEMMA SameElements ==
  ASSUME NEW S, NEW p \in Seq(S), NEW q \in Seq(S), Len(p) = Len(q),
         \A j \in 1..Len(p) : p[j] = q[j]
  PROVE  p = q
OBVIOUS

(* The text of s ends before s[e]. *)
EndsAt(s, e) == s[e] = NUL /\ \A j \in 1..(e - 1) : s[j] # NUL

LEMMA SomeEnd ==
  ASSUME NEW S, NEW s \in Seq(S), NEW n \in 1..Len(s), s[n] = NUL
  PROVE  \E e \in 1..Len(s) : EndsAt(s, e)
<1> DEFINE T == {e \in 1..Len(s) : s[e] = NUL}
<1>1. T \in SUBSET Nat /\ T # {} /\ Len(s) \in Nat
  OBVIOUS
<1>2. PICK e \in T : \A j \in T : e <= j
  BY <1>1, Least, Zenon
<1>3. ASSUME NEW j \in 1..(e - 1)
      PROVE  s[j] # NUL
  <2>1. j \in 1..Len(s) /\ ~ (e <= j)
    BY <1>1, <1>2
  <2>2. QED
    BY <1>2, <2>1
<1>4. QED
  BY <1>2, <1>3 DEF EndsAt

LEMMA TextCut ==
  ASSUME NEW S, NEW s \in Seq(S), NEW e \in 1..Len(s), EndsAt(s, e)
  PROVE  /\ Text(s) \in Seq(S) /\ Len(Text(s)) = e - 1
         /\ \A j \in 1..(e - 1) : Text(s)[j] = s[j]
<1> DEFINE T == {j \in DOMAIN s : s[j] = NUL}
           c == CHOOSE j \in T : \A k \in T : j <= k
<1>1. DOMAIN s = 1..Len(s) /\ Len(s) \in Nat
  OBVIOUS
<1>2. e \in T /\ \A k \in T : e <= k
  BY <1>1 DEF EndsAt
<1>3. c \in T /\ \A k \in T : c <= k
  BY <1>2, Zenon
<1>4. c = e
  BY <1>1, <1>2, <1>3
<1>5. Text(s) = IF T = {} THEN s ELSE SubSeq(s, 1, c - 1)
  BY DEF Text
<1> HIDE DEF c
<1>6. Text(s) = SubSeq(s, 1, e - 1)
  BY <1>2, <1>4, <1>5, Zenon
<1> HIDE DEF T
<1>7. QED
  BY <1>1, <1>6

Chars == {NUL, Set, Get}

ITypes ==
  /\ g_lover \in Seq(Chars) /\ Len(g_lover) = LOVER
  /\ asked \in Seq(Chars) /\ Len(asked) < IOCTL_CHAR128

(* g_lover begins with the text asked for and, if there is room, its NUL. *)
Holds ==
  /\ \A k \in 1..Len(asked) : asked[k] # NUL
  /\ \A k \in 1..LOVER :
       /\ k <= Len(asked) => g_lover[k] = asked[k]
       /\ k = Len(asked) + 1 => g_lover[k] = NUL

IInv == ITypes /\ Holds /\ GetIsSet

(* The bounce buffer always ends in a NUL. *)
LEMMA Bounced ==
  ASSUME NEW b \in {Set, Get}, NEW data \in Buffers(b)
  PROVE  /\ Bounce(data) \in Seq(Chars) /\ Len(Bounce(data)) = IOCTL_CHAR128
         /\ Bounce(data)[IOCTL_CHAR128] = NUL
<1>1. \A k \in DOMAIN data : data[k] \in Chars
  BY DEF Buffers, Chars
<1>2. Bounce(data) \in [1..IOCTL_CHAR128 -> Chars]
  BY <1>1 DEF Bounce, Chars
<1>3. IOCTL_CHAR128 \in 1..IOCTL_CHAR128
  BY LoverAssumption
<1>4. Bounce(data)[IOCTL_CHAR128] = NUL
  BY <1>3, LoverAssumption DEF Bounce
<1>5. QED
  BY <1>2, <1>4, LoverAssumption

LEMMA IInvInit == ASSUME IoctlInit PROVE IInv
<1>1. g_lover = [k \in 1..LOVER |-> NUL] /\ asked = <<>> /\ reply.cmd = "none"
  BY DEF IoctlInit, Zeros
<1>2. g_lover \in Seq(Chars) /\ Len(g_lover) = LOVER
  <2>1. g_lover \in [1..LOVER -> Chars]
    BY <1>1 DEF Chars
  <2>2. QED
    BY <2>1, LoverAssumption
<1>3. asked \in Seq(Chars) /\ Len(asked) = 0
  BY <1>1
<1>4. QED
  BY <1>1, <1>2, <1>3, LoverAssumption DEF IInv, ITypes, Holds, GetIsSet

(* setlover. *)
LEMMA IInvSet ==
  ASSUME IInv, NEW data \in Buffers(Set), set_lover(Bounce(data)),
         asked' = Text(Bounce(data))
  PROVE  ITypes' /\ Holds'
<1> DEFINE s == Bounce(data)
<1>1. s \in Seq(Chars) /\ Len(s) = IOCTL_CHAR128 /\ s[IOCTL_CHAR128] = NUL
  BY Bounced
<1>2. g_lover' = SubSeq(s, 1, LOVER) /\ asked' = Text(s)
  BY DEF set_lover
<1> HIDE DEF s
<1>3. PICK e \in 1..IOCTL_CHAR128 : EndsAt(s, e)
  <2>1. IOCTL_CHAR128 \in 1..Len(s)
    BY <1>1, LoverAssumption
  <2>2. QED
    BY <1>1, <2>1, SomeEnd
<1>4. /\ asked' \in Seq(Chars) /\ Len(asked') = e - 1
      /\ \A j \in 1..(e - 1) : asked'[j] = s[j]
  BY <1>1, <1>2, <1>3, TextCut
<1>5. /\ g_lover' \in Seq(Chars) /\ Len(g_lover') = LOVER
      /\ \A k \in 1..LOVER : g_lover'[k] = s[k]
  BY <1>1, <1>2, LoverAssumption
<1>6. ITypes'
  BY <1>3, <1>4, <1>5, LoverAssumption DEF ITypes
<1>7. Holds'
  <2>1. \A k \in 1..(e - 1) : s[k] # NUL
    BY <1>3 DEF EndsAt
  <2>2. s[e] = NUL /\ e \in Int
    BY <1>3 DEF EndsAt
  <2>3. \A k \in 1..Len(asked') : asked'[k] # NUL
    BY <1>4, <2>1
  <2>4. ASSUME NEW k \in 1..LOVER
        PROVE  /\ k <= Len(asked') => g_lover'[k] = asked'[k]
               /\ k = Len(asked') + 1 => g_lover'[k] = NUL
    BY <1>4, <1>5, <2>2, LoverAssumption
  <2>5. QED
    BY <2>3, <2>4 DEF Holds
<1>8. QED
  BY <1>6, <1>7

(* getlover: t is what is copied to the caller. *)
LEMMA IInvGet ==
  ASSUME IInv, NEW data \in Buffers(Get)
  PROVE  LET got == Text(get_lover(Bounce(data)))
         IN  /\ Len(got) < IOCTL_CHAR128
             /\ IF Len(asked) < LOVER THEN got = asked
                ELSE got = SubSeq(asked, 1, LOVER)
                       \o Text(SubSeq(Bounce(data), LOVER + 1, IOCTL_CHAR128))
<1> DEFINE M == IOCTL_CHAR128
           s == Bounce(data)
           t == get_lover(s)
           got == Text(t)
<1>0. M \in Nat /\ LOVER \in Nat /\ LOVER < M
  BY LoverAssumption
<1>1. s \in Seq(Chars) /\ Len(s) = M /\ s[M] = NUL
  BY Bounced
<1>2. t = [k \in 1..M |-> IF k <= LOVER THEN g_lover[k] ELSE IF k = M THEN NUL ELSE s[k]]
  BY DEF get_lover
<1>3. /\ asked \in Seq(Chars) /\ Len(asked) \in Nat
      /\ \A k \in 1..Len(asked) : asked[k] # NUL
      /\ \A k \in 1..LOVER : /\ k <= Len(asked) => g_lover[k] = asked[k]
                             /\ k = Len(asked) + 1 => g_lover[k] = NUL
  BY DEF IInv, ITypes, Holds
<1> HIDE DEF M, s, t
<1>4. t \in Seq(Chars) /\ Len(t) = M
  <2>1. \A k \in 1..LOVER : g_lover[k] \in Chars
    BY DEF IInv, ITypes
  <2>2. \A k \in 1..M : s[k] \in Chars
    BY <1>1
  <2>3. ASSUME NEW k \in 1..M
        PROVE  (IF k <= LOVER THEN g_lover[k] ELSE IF k = M THEN NUL ELSE s[k]) \in Chars
    BY <1>0, <2>1, <2>2 DEF Chars
  <2>4. t \in [1..M -> Chars]
    BY <1>2, <2>3
  <2>5. QED
    BY <1>0, <2>4
<1>5. /\ \A k \in 1..LOVER : t[k] = g_lover[k]
      /\ \A k \in (LOVER + 1)..M : t[k] = s[k]
  BY <1>0, <1>1, <1>2
<1>6. CASE Len(asked) < LOVER
  <2> DEFINE e == Len(asked) + 1
  <2>1. e \in 1..Len(t) /\ EndsAt(t, e)
    <3>1. e \in 1..Len(t) /\ e \in 1..LOVER /\ e - 1 = Len(asked)
      BY <1>0, <1>3, <1>4, <1>6
    <3>2. t[e] = NUL
      BY <1>3, <1>5, <3>1
    <3>3. \A j \in 1..(e - 1) : t[j] # NUL
      BY <1>0, <1>3, <1>5, <1>6
    <3>4. QED
      BY <3>1, <3>2, <3>3, Zenon DEF EndsAt
  <2>2. got \in Seq(Chars) /\ Len(got) = e - 1 /\ \A j \in 1..(e - 1) : got[j] = t[j]
    BY <1>4, <2>1, TextCut
  <2>3. Len(got) = Len(asked) /\ \A j \in 1..Len(got) : got[j] = asked[j]
    BY <1>0, <1>3, <1>5, <1>6, <2>2
  <2>4. got = asked
    BY <1>3, <2>2, <2>3, SameElements
  <2>5. QED
    BY <1>0, <1>3, <1>6, <2>4 DEF M, s, t
<1>7. CASE ~ (Len(asked) < LOVER)
  <2> DEFINE u == SubSeq(s, LOVER + 1, M)
             a == SubSeq(asked, 1, LOVER)
             v == Text(u)
  <2>1. /\ u \in Seq(Chars) /\ Len(u) = M - LOVER
        /\ \A k \in 1..(M - LOVER) : u[k] = s[LOVER + k]
    BY <1>0, <1>1
  <2>2. /\ a \in Seq(Chars) /\ Len(a) = LOVER
        /\ \A k \in 1..LOVER : a[k] = asked[k]
    BY <1>0, <1>3, <1>7
  <2> HIDE DEF u, a
  <2>3. PICK e \in 1..(M - LOVER) : EndsAt(u, e)
    <3>1. M - LOVER \in 1..Len(u) /\ u[M - LOVER] = NUL
      BY <1>0, <1>1, <2>1
    <3>2. \E e \in 1..Len(u) : EndsAt(u, e)
      BY <2>1, <3>1, SomeEnd
    <3>3. QED
      BY <2>1, <3>2
  <2>4. v \in Seq(Chars) /\ Len(v) = e - 1 /\ \A k \in 1..(e - 1) : v[k] = u[k]
    BY <2>1, <2>3, TextCut
  <2>5. \A k \in 1..LOVER : t[k] = asked[k] /\ t[k] # NUL
    BY <1>0, <1>3, <1>5, <1>7
  <2>6. \A k \in 1..(M - LOVER) : t[LOVER + k] = u[k]
    BY <1>0, <1>5, <2>1
  <2>7. LOVER + e \in 1..Len(t) /\ EndsAt(t, LOVER + e)
    <3>1. LOVER + e \in 1..Len(t)
      BY <1>0, <1>4, <2>3
    <3>2. t[LOVER + e] = NUL
      BY <2>3, <2>6 DEF EndsAt
    <3>3. ASSUME NEW k \in 1..((LOVER + e) - 1)
          PROVE  t[k] # NUL
      <4>1. CASE k <= LOVER
        BY <1>0, <2>5, <4>1
      <4>2. CASE ~ (k <= LOVER)
        <5>1. k - LOVER \in 1..(e - 1) /\ k - LOVER \in 1..(M - LOVER) /\ LOVER + (k - LOVER) = k
          BY <1>0, <2>3, <4>2
        <5>2. u[k - LOVER] # NUL
          BY <2>3, <5>1 DEF EndsAt
        <5>3. QED
          BY <2>6, <5>1, <5>2
      <4>3. QED
        BY <4>1, <4>2
    <3>4. QED
      BY <3>1, <3>2, <3>3, Zenon DEF EndsAt
  <2>8. /\ got \in Seq(Chars) /\ Len(got) = (LOVER + e) - 1
        /\ \A j \in 1..((LOVER + e) - 1) : got[j] = t[j]
    BY <1>4, <2>7, TextCut, Zenon
  <2>9. /\ a \o v \in Seq(Chars) /\ Len(a \o v) = Len(a) + Len(v)
        /\ \A j \in 1..(Len(a) + Len(v)) :
             (a \o v)[j] = IF j <= Len(a) THEN a[j] ELSE v[j - Len(a)]
    BY <2>2, <2>4, Joined, Zenon
  <2>10. ASSUME NEW j \in 1..Len(got)
         PROVE  got[j] = (a \o v)[j]
    <3>1. j \in 1..((LOVER + e) - 1) /\ j \in 1..(Len(a) + Len(v))
      BY <1>0, <2>2, <2>3, <2>4, <2>8
    <3>2. CASE j <= LOVER
      BY <1>0, <2>2, <2>5, <2>8, <2>9, <3>1, <3>2
    <3>3. CASE ~ (j <= LOVER)
      <4>1. j - LOVER \in 1..(e - 1) /\ j - LOVER \in 1..(M - LOVER) /\ LOVER + (j - LOVER) = j
        BY <1>0, <2>3, <3>1, <3>3
      <4>2. got[j] = u[j - LOVER]
        BY <2>6, <2>8, <3>1, <4>1
      <4>3. (a \o v)[j] = v[j - LOVER]
        BY <2>2, <2>9, <3>1, <3>3
      <4>4. QED
        BY <2>4, <4>1, <4>2, <4>3
    <3>4. QED
      BY <3>2, <3>3, Zenon
  <2>11. got = a \o v
    <3>1. Len(got) = Len(a \o v)
      BY <1>0, <2>2, <2>3, <2>4, <2>8, <2>9
    <3>2. got \in Seq(Chars) /\ a \o v \in Seq(Chars)
      BY <2>8, <2>9
    <3>3. QED
      BY <2>10, <3>1, <3>2, SameElements, Zenon
  <2>12. Len(got) < M
    BY <1>0, <2>3, <2>8
  <2>13. QED
    BY <1>7, <2>11, <2>12, Zenon DEF M, s, t, u, a
<1>8. QED
  BY <1>6, <1>7, Zenon DEF M, s, t

LEMMA IInvChar128 ==
  ASSUME IInv, NEW b \in {Set, Get}, NEW data \in Buffers(b), NEW flags,
         flags = "SET_LOVER" => b = Set, flags = "GET_LOVER" => b = Get,
         ioctl_char128_mon(flags, data)
  PROVE  IInv'
<1>1. CASE /\ flags = "SET_LOVER"
           /\ set_lover(Bounce(data)) /\ asked' = Text(Bounce(data))
           /\ reply'.cmd = flags
  BY <1>1, IInvSet, Zenon DEF IInv, GetIsSet
<1>2. CASE UNCHANGED <<g_lover, asked>> /\ (reply'.cmd # "GET_LOVER" \/ reply'.ret # "ok")
  BY <1>2 DEF IInv, ITypes, Holds, GetIsSet
<1>3. CASE /\ flags = "GET_LOVER" /\ UNCHANGED <<g_lover, asked>>
           /\ reply'.own = data /\ reply'.text = Text(get_lover(Bounce(data)))
  <2>1. ITypes' /\ Holds'
    BY <1>3 DEF IInv, ITypes, Holds
  <2>2. GetIsSet'
    BY <1>3, IInvGet, Zenon DEF GetIsSet
  <2>3. QED
    BY <2>1, <2>2 DEF IInv
<1>4. QED
  BY <1>1, <1>2, <1>3 DEF ioctl_char128_mon

LEMMA IInvNext ==
  ASSUME IInv, [IoctlNext]_ioctlVars
  PROVE  IInv'
<1>1. CASE UNCHANGED ioctlVars
  BY <1>1 DEF ioctlVars, IInv, ITypes, Holds, GetIsSet
<1>2. CASE \/ \E p \in {"SET_MAXSTA", "unknown"}, v \in {-1, 0} : ioctl_setpara_mon(p, v)
           \/ \E p \in {"GET_MAXSTA", "unknown"} : ioctl_getpara_mon(p)
  <2>1. UNCHANGED <<g_lover, asked>> /\ reply'.cmd # "GET_LOVER"
    BY <1>2 DEF ioctl_setpara_mon, ioctl_getpara_mon
  <2>2. QED
    BY <2>1 DEF IInv, ITypes, Holds, GetIsSet
<1>3. CASE \E d \in Buffers(Set) : ioctl_char128_mon("SET_LOVER", d)
  BY <1>3, IInvChar128
<1>4. CASE \E d \in Buffers(Get) : ioctl_char128_mon("GET_LOVER", d)
  BY <1>4, IInvChar128
<1>5. CASE \E f \in {"HELLO", "unknown"} : ioctl_char128_mon(f, <<>>)
  <2>1. <<>> \in Buffers(Set)
    BY LoverAssumption DEF Buffers
  <2>2. QED
    BY <1>5, <2>1, IInvChar128
<1>6. QED
  BY <1>1, <1>2, <1>3, <1>4, <1>5 DEF IoctlNext

LEMMA IInvHolds == IoctlSpec => []IInv
BY IInvInit, IInvNext, PTL DEF IoctlSpec

(* mon.c: getlover returns what setlover was given, whatever the getter's  *)
(* buffer holds, if it is shorter than g_lover, and what of it is kept     *)
(* followed by the getter's own bytes if it is not.                        *)
THEOREM GetIsAlwaysSet == IoctlSpec => []GetIsSet
<1>1. IInv => GetIsSet
  BY DEF IInv
<1>2. QED
  BY <1>1, IInvHolds, PTL

-----------------------------------------------------------------------------
(* mon.c and nic.c, for any set of addresses. *)

Handler == [mod : {"mon", "nic"}, cookie : Addrs]

DTypes ==
  /\ loc \in [{"mon", "nic"} -> {"out", "alloc", "register", "request", "hooks", "live",
                                 "unregister", "free_irq", "unhook", "oops"}]
  /\ dev \in [{"mon", "nic"} -> Addrs \cup {NULL}]
  /\ owner \in [Addrs -> {"mon", "nic", NULL}]
  /\ named \in SUBSET {"mon", "nic"} /\ refused \in SUBSET Addrs
  /\ hooked \in BOOLEAN
  /\ line \in Seq(Handler)
  /\ loc["mon"] \notin {"hooks", "unhook", "oops"}

(* A device belongs to the module that works on it, until mon frees it. *)
Owned ==
  /\ \A m \in {"mon", "nic"} :
       /\ loc[m] \in {"out", "alloc", "unhook"} => dev[m] = NULL
       /\ loc[m] \in {"register", "request", "hooks", "unregister", "free_irq"} => dev[m] # NULL
  /\ dev["mon"] # NULL /\ loc["mon"] # "free_irq" => owner[dev["mon"]] = "mon"
  /\ dev["nic"] # NULL => owner[dev["nic"]] = "nic"

MonLine(k) ==
  /\ line[k].mod = "mon" /\ line[k].cookie = dev["mon"]
  /\ loc["mon"] \in {"live", "unregister", "free_irq"}

NicLine(k) ==
  /\ line[k].mod = "nic" /\ line[k].cookie = dev["nic"]
  /\ loc["nic"] \in {"hooks", "live", "unregister", "free_irq"}

(* The handler of nic that is left when nic took mon's instead of its own. *)
Stray(k) ==
  /\ line[k].mod = "nic" /\ line[k].cookie = dev["mon"] /\ line[k].cookie # dev["nic"]
  /\ loc["mon"] = "free_irq" /\ owner[line[k].cookie] = "nic"
  /\ \A j \in 1..Len(line) : line[j].mod # "mon"

Lined == \A k \in 1..Len(line) : MonLine(k) \/ NicLine(k) \/ Stray(k)

(* Of two handlers with one cookie the older is mon's, the other nic's. *)
Ordered ==
  \A j, k \in 1..Len(line) :
    j < k /\ line[j].cookie = line[k].cookie => line[j].mod = "mon" /\ line[k].mod = "nic"

Attached ==
  /\ \A m \in named : loc[m] \in {"request", "hooks", "live", "unregister"} /\ dev[m] # NULL
  /\ hooked => \/ loc["nic"] \in {"live", "unregister", "free_irq"} /\ dev["nic"] # NULL
               \/ loc["nic"] = "unhook"

(* A device of mon's is refused, or mon is going to free it. *)
Leaked ==
  \A a \in Addrs : owner[a] = "mon" /\ a \notin refused =>
    /\ a = dev["mon"]
    /\ \/ loc["mon"] = "register"
       \/ loc["mon"] \in {"request", "live", "unregister"} /\ "mon" \in named

DInv == DTypes /\ Owned /\ Lined /\ Ordered /\ Attached /\ Leaked

LEMMA DInvInit == ASSUME DevsInit PROVE DInv
<1>1. DTypes
  <2>1. loc["mon"] = "out"
    BY DEF DevsInit, Mods
  <2>2. line \in Seq(Handler)
    BY DEF DevsInit
  <2>3. QED
    BY <2>1, <2>2, Zenon DEF DevsInit, Mods, DTypes
<1>2. Owned /\ Attached /\ Leaked
  <2>1. /\ \A m \in {"mon", "nic"} : loc[m] = "out" /\ dev[m] = NULL
        /\ \A a \in Addrs : owner[a] = NULL
        /\ named = {} /\ hooked = FALSE
    BY DEF DevsInit, Mods
  <2>2. QED
    BY <2>1, NULLAssumption DEF Owned, Attached, Leaked
<1>3. Lined /\ Ordered
  BY DEF DevsInit, Lined, Ordered
<1>4. QED
  BY <1>1, <1>2, <1>3 DEF DInv

LEMMA OnLine ==
  ASSUME DTypes, NEW k \in 1..Len(line)
  PROVE  /\ line[k] \in Handler /\ line[k].cookie \in Addrs /\ line[k].cookie # NULL
         /\ line[k].mod \in {"mon", "nic"}
<1>1. line[k] \in Handler
  BY DEF DTypes
<1>2. QED
  BY <1>1, NULLAssumption DEF Handler

(* The steps that leave the handlers and the owners as they are. *)
LEMMA DInvLook ==
  ASSUME DInv, NEW m \in {"mon", "nic"}, dev_get_by_name(m)
  PROVE  DInv'
<1>1. /\ loc[m] = "out" /\ UNCHANGED <<owner, named, line, hooked, refused>>
      /\ \E l \in {"alloc", "live"} : loc' = [loc EXCEPT ![m] = l]
      /\ dev' = [dev EXCEPT ![m] = NULL]
  BY DEF dev_get_by_name, Goto
<1>2. DTypes'
  BY <1>1 DEF DInv, DTypes
<1>3. Owned'
  BY <1>1 DEF DInv, DTypes, Owned
<1>4. Lined' /\ Ordered'
  BY <1>1 DEF DInv, DTypes, Owned, Lined, Ordered, MonLine, NicLine, Stray
<1>5. Attached' /\ Leaked'
  BY <1>1 DEF DInv, DTypes, Owned, Attached, Leaked
<1>6. QED
  BY <1>2, <1>3, <1>4, <1>5 DEF DInv

LEMMA DInvRegister ==
  ASSUME DInv, NEW m \in {"mon", "nic"}, register_netdev(m)
  PROVE  DInv'
<1>1. /\ loc[m] = "register" /\ UNCHANGED <<dev, owner, line, hooked>>
      /\ loc' = [loc EXCEPT ![m] = "request"]
      /\ \/ named' = named \cup {m} /\ refused' = refused
         \/ refused' = refused \cup {dev[m]} /\ named' = named
  BY DEF register_netdev, Goto
<1>2. DTypes'
  BY <1>1, Zenon DEF DInv, DTypes, Owned
<1>3. Owned'
  BY <1>1 DEF DInv, DTypes, Owned
<1>4. Lined' /\ Ordered'
  BY <1>1 DEF DInv, DTypes, Owned, Lined, Ordered, MonLine, NicLine, Stray
<1>5. Attached'
  BY <1>1, Zenon DEF DInv, DTypes, Owned, Attached
<1>6. Leaked'
  BY <1>1 DEF DInv, DTypes, Owned, Attached, Leaked
<1>7. QED
  BY <1>2, <1>3, <1>4, <1>5, <1>6 DEF DInv

LEMMA DInvBegin ==
  ASSUME DInv, NEW m \in {"mon", "nic"}, Begin(m)
  PROVE  DInv'
<1>1. /\ loc[m] = "live" /\ UNCHANGED <<dev, owner, named, line, hooked, refused>>
      /\ \/ dev[m] = NULL /\ loc' = [loc EXCEPT ![m] = "out"]
         \/ dev[m] # NULL /\ loc' = [loc EXCEPT ![m] = "unregister"]
  BY Zenon DEF Begin, Goto
<1>2. DTypes'
  BY <1>1 DEF DInv, DTypes, Owned
<1>3. Owned'
  BY <1>1 DEF DInv, DTypes, Owned
<1>4. Lined' /\ Ordered'
  <2>1. \A k \in 1..Len(line) : line[k].cookie # NULL
    BY OnLine DEF DInv
  <2>2. QED
    BY <1>1, <2>1 DEF DInv, DTypes, Lined, Ordered, MonLine, NicLine, Stray
<1>5. Attached'
  BY <1>1 DEF DInv, DTypes, Owned, Attached
<1>6. Leaked'
  BY <1>1, NULLAssumption DEF DInv, DTypes, Owned, Attached, Leaked
<1>7. QED
  BY <1>2, <1>3, <1>4, <1>5, <1>6 DEF DInv

LEMMA DInvHooks ==
  ASSUME DInv, nic_hooks_init \/ nf_unregister_hooks
  PROVE  DInv'
<1>1. /\ UNCHANGED <<dev, owner, named, line, refused>> /\ hooked' \in BOOLEAN
      /\ \/ loc["nic"] = "hooks" /\ loc' = [loc EXCEPT !["nic"] = "live"]
         \/ /\ loc["nic"] = "unhook" /\ ~hooked'
            /\ \E l \in {"out", "oops"} : loc' = [loc EXCEPT !["nic"] = l]
  BY Zenon DEF nic_hooks_init, nf_unregister_hooks, Goto
<1>2. DTypes'
  BY <1>1 DEF DInv, DTypes, Owned
<1>3. Owned'
  BY <1>1 DEF DInv, DTypes, Owned
<1>4. Lined' /\ Ordered'
  BY <1>1 DEF DInv, DTypes, Owned, Lined, Ordered, MonLine, NicLine, Stray
<1>5. Attached'
  BY <1>1 DEF DInv, DTypes, Owned, Attached
<1>6. Leaked'
  BY <1>1 DEF DInv, DTypes, Owned, Attached, Leaked
<1>7. QED
  BY <1>2, <1>3, <1>4, <1>5, <1>6 DEF DInv

LEMMA DInvAlloc ==
  ASSUME DInv, NEW m \in {"mon", "nic"}, alloc_etherdev(m)
  PROVE  DInv'
<1>1. loc[m] = "alloc" /\ UNCHANGED <<named, line, hooked, refused>>
  BY DEF alloc_etherdev
<1>2. CASE UNCHANGED <<owner, dev>> /\ \E l \in {"live", "out"} : loc' = [loc EXCEPT ![m] = l]
  <2>1. DTypes'
    BY <1>1, <1>2 DEF DInv, DTypes, Owned
  <2>2. Owned'
    BY <1>1, <1>2 DEF DInv, DTypes, Owned
  <2>3. Lined' /\ Ordered'
    BY <1>1, <1>2 DEF DInv, DTypes, Lined, Ordered, MonLine, NicLine, Stray
  <2>4. Attached' /\ Leaked'
    BY <1>1, <1>2 DEF DInv, DTypes, Attached, Leaked
  <2>5. QED
    BY <2>1, <2>2, <2>3, <2>4 DEF DInv
<1>3. CASE \E a \in Addrs : /\ owner[a] = NULL /\ owner' = [owner EXCEPT ![a] = m]
                            /\ dev' = [dev EXCEPT ![m] = a]
                            /\ loc' = [loc EXCEPT ![m] = "register"]
  <2>1. PICK a \in Addrs : /\ owner[a] = NULL /\ owner' = [owner EXCEPT ![a] = m]
                           /\ dev' = [dev EXCEPT ![m] = a]
                           /\ loc' = [loc EXCEPT ![m] = "register"]
    BY <1>3, Zenon
  <2>2. /\ owner'[a] = m /\ dev'[m] = a /\ loc'[m] = "register" /\ a # NULL
        /\ \A b \in Addrs \ {a} : owner'[b] = owner[b]
        /\ \A x \in {"mon", "nic"} \ {m} : dev'[x] = dev[x] /\ loc'[x] = loc[x]
    BY <2>1, NULLAssumption DEF DInv, DTypes
  <2>3. DTypes'
    BY <1>1, <2>1 DEF DInv, DTypes
  <2>4. \A b \in Addrs : owner[b] \in {"mon", "nic"} => owner'[b] = owner[b]
    BY <2>1, <2>2, NULLAssumption DEF DInv
  <2>5. Owned'
    BY <1>1, <2>1, <2>2, <2>4, NULLAssumption DEF DInv, DTypes, Owned
  <2>6. Lined' /\ Ordered'
    <3>1. \A k \in 1..Len(line) : line[k].cookie \in Addrs
      BY OnLine DEF DInv
    <3>2. ASSUME NEW k \in 1..Len(line)
          PROVE  (MonLine(k) \/ NicLine(k) \/ Stray(k))'
      <4>1. CASE MonLine(k)
        BY <1>1, <2>2, <4>1 DEF MonLine
      <4>2. CASE NicLine(k)
        BY <1>1, <2>2, <4>2 DEF NicLine
      <4>3. CASE Stray(k)
        <5>1. owner[line[k].cookie] = "nic" /\ line[k].cookie # a
          BY <2>1, <4>3, NULLAssumption DEF DInv, Stray
        <5>2. loc'["mon"] = "free_irq" /\ dev'["mon"] = dev["mon"] /\ dev'["nic"] \in {dev["nic"], a}
          BY <1>1, <2>2, <4>3 DEF Stray
        <5>3. owner'[line[k].cookie] = "nic"
          BY <2>4, <3>1, <5>1
        <5>4. QED
          BY <1>1, <4>3, <5>1, <5>2, <5>3 DEF Stray
      <4>4. QED
        BY <4>1, <4>2, <4>3 DEF DInv, Lined
    <3>3. QED
      BY <1>1, <3>2 DEF DInv, Lined, Ordered
  <2>7. Attached'
    BY <1>1, <2>2 DEF DInv, DTypes, Attached
  <2>8. Leaked'
    BY <1>1, <2>2 DEF DInv, DTypes, Leaked
  <2>9. QED
    BY <2>3, <2>5, <2>6, <2>7, <2>8 DEF DInv
<1>4. QED
  BY <1>2, <1>3 DEF alloc_etherdev, Goto

LEMMA DInvUnregister ==
  ASSUME DInv, NEW m \in {"mon", "nic"}, unregister_netdev(m)
  PROVE  DInv'
<1>1. /\ loc[m] = "unregister" /\ named' = named \ {m} /\ UNCHANGED <<dev, line, hooked, refused>>
      /\ loc' = [loc EXCEPT ![m] = "free_irq"]
      /\ owner' = IF m = "mon" /\ m \in named THEN [owner EXCEPT ![dev[m]] = NULL] ELSE owner
  BY DEF unregister_netdev, Goto
<1>2. dev[m] \in Addrs /\ owner[dev[m]] = m
  BY <1>1 DEF DInv, DTypes, Owned
<1>3. \A b \in Addrs : owner[b] = "nic" => owner'[b] = "nic"
  BY <1>1, <1>2 DEF DInv, DTypes
<1>4. \A b \in Addrs : owner'[b] = "mon" =>
        owner[b] = "mon" /\ ~ (m = "mon" /\ m \in named /\ b = dev["mon"])
  BY <1>1, <1>2, NULLAssumption DEF DInv, DTypes
<1>5. DTypes'
  <2>1. owner' \in [Addrs -> {"mon", "nic", NULL}]
    BY <1>1, <1>2 DEF DInv, DTypes
  <2>2. QED
    BY <1>1, <2>1 DEF DInv, DTypes
<1>6. Owned'
  <2>1. m # "mon" => owner' = owner
    BY <1>1
  <2>2. QED
    BY <1>1, <1>2, <1>3, <2>1 DEF DInv, DTypes, Owned
<1>7. Lined' /\ Ordered'
  <2>1. \A k \in 1..Len(line) : line[k].cookie \in Addrs
    BY OnLine DEF DInv
  <2>2. QED
    BY <1>1, <1>3, <2>1 DEF DInv, DTypes, Lined, Ordered, MonLine, NicLine, Stray
<1>8. Attached'
  BY <1>1 DEF DInv, DTypes, Attached
<1>9. Leaked'
  BY <1>1, <1>4 DEF DInv, DTypes, Leaked
<1>10. QED
  BY <1>5, <1>6, <1>7, <1>8, <1>9 DEF DInv

LEMMA DInvRequest ==
  ASSUME DInv, NEW m \in {"mon", "nic"}, request_irq(m)
  PROVE  DInv'
<1>1. /\ loc[m] = "request" /\ UNCHANGED <<dev, owner, named, hooked, refused>>
      /\ \/ m = "mon" /\ loc' = [loc EXCEPT ![m] = "live"]
         \/ m = "nic" /\ loc' = [loc EXCEPT ![m] = "hooks"]
      /\ line' = line \/ line' = Append(line, [mod |-> m, cookie |-> dev[m]])
  BY Zenon DEF request_irq, Goto
<1>2. dev[m] \in Addrs /\ dev[m] # NULL
  BY <1>1 DEF DInv, DTypes, Owned
<1>3. DTypes'
  <2>1. [mod |-> m, cookie |-> dev[m]] \in Handler
    BY <1>2 DEF Handler
  <2>2. line' \in Seq(Handler)
    BY <1>1, <2>1 DEF DInv, DTypes
  <2>3. QED
    BY <1>1, <2>2 DEF DInv, DTypes
<1>4. Owned' /\ Attached'
  BY <1>1 DEF DInv, DTypes, Owned, Attached
<1>5. Leaked'
  BY <1>1 DEF DInv, DTypes, Leaked
<1>6. \A k \in 1..Len(line) :
        \/ m = "mon" /\ NicLine(k) /\ line[k].cookie # dev["mon"]
        \/ m = "nic" /\ MonLine(k)
        \/ m = "nic" /\ Stray(k)
  BY <1>1, <1>2 DEF DInv, DTypes, Owned, Lined, MonLine, NicLine, Stray
<1>7. CASE line' = line
  <2>1. Lined'
    BY <1>1, <1>6, <1>7 DEF DInv, DTypes, Lined, MonLine, NicLine, Stray
  <2>2. Ordered'
    BY <1>7 DEF DInv, Ordered
  <2>3. QED
    BY <1>3, <1>4, <1>5, <2>1, <2>2 DEF DInv
<1>8. CASE line' = Append(line, [mod |-> m, cookie |-> dev[m]])
  <2> DEFINE n == Len(line) + 1
  <2>1. Len(line) \in Nat
    BY DEF DInv, DTypes
  <2>2. /\ Len(line') = n /\ line'[n].mod = m /\ line'[n].cookie = dev[m]
        /\ \A k \in 1..Len(line) : line'[k] = line[k]
    BY <1>8 DEF DInv, DTypes
  <2>3. 1..Len(line') = 1..Len(line) \cup {n}
    BY <2>1, <2>2
  <2>4. ASSUME NEW k \in 1..Len(line'), k = n
        PROVE  (MonLine(k) \/ NicLine(k) \/ Stray(k))'
    <3>1. line'[k].mod = m /\ line'[k].cookie = dev'[m]
      BY <1>1, <2>2, <2>4
    <3>2. \/ m = "mon" /\ loc'["mon"] = "live"
          \/ m = "nic" /\ loc'["nic"] = "hooks"
      BY <1>1 DEF DInv, DTypes
    <3>3. QED
      BY <3>1, <3>2 DEF MonLine, NicLine
  <2>5. ASSUME NEW k \in 1..Len(line)
        PROVE  (MonLine(k) \/ NicLine(k) \/ Stray(k))'
    <3>1. CASE m = "mon" /\ NicLine(k)
      BY <1>1, <2>2, <3>1 DEF DInv, DTypes, NicLine
    <3>2. CASE m = "nic" /\ MonLine(k)
      BY <1>1, <2>2, <3>2 DEF DInv, DTypes, MonLine
    <3>3. CASE m = "nic" /\ Stray(k)
      <4>1. \A j \in 1..Len(line') : line'[j].mod # "mon"
        BY <2>2, <2>3, <3>3 DEF Stray
      <4>2. QED
        BY <1>1, <2>2, <3>3, <4>1 DEF DInv, DTypes, Stray
    <3>4. QED
      BY <1>6, <3>1, <3>2, <3>3
  <2>6. Lined'
    BY <2>3, <2>4, <2>5 DEF Lined
  <2>7. Ordered'
    <3>1. ASSUME NEW j \in 1..Len(line'), NEW k \in 1..Len(line'),
                 j < k, line'[j].cookie = line'[k].cookie
          PROVE  line'[j].mod = "mon" /\ line'[k].mod = "nic"
      <4>1. j \in 1..Len(line)
        BY <2>1, <2>2, <3>1
      <4>2. CASE k \in 1..Len(line)
        BY <2>2, <3>1, <4>1, <4>2 DEF DInv, Ordered
      <4>3. CASE k = n
        <5>1. line[j].cookie = dev[m] /\ line'[k].mod = m /\ line'[j] = line[j]
          BY <2>2, <3>1, <4>1, <4>3
        <5>2. m = "nic" /\ MonLine(j)
          BY <1>6, <4>1, <5>1 DEF Stray
        <5>3. QED
          BY <5>1, <5>2 DEF MonLine
      <4>4. QED
        BY <2>3, <4>2, <4>3
    <3>2. QED
      BY <3>1 DEF Ordered
  <2>8. QED
    BY <1>3, <1>4, <1>5, <2>6, <2>7 DEF DInv
<1>9. QED
  BY <1>1, <1>7, <1>8

(* What free_irq does: the oldest handler with that cookie is taken out. *)
FreedAt(c, k) ==
  /\ line[k].cookie = c /\ \A j \in 1..(k - 1) : line[j].cookie # c
  /\ Without(c) = CutAt(line, k)

LEMMA Freed ==
  ASSUME DTypes, NEW c
  PROVE  \/ Without(c) = line /\ \A k \in 1..Len(line) : line[k].cookie # c
         \/ \E k \in 1..Len(line) : FreedAt(c, k)
<1> DEFINE hits == {k \in DOMAIN line : line[k].cookie = c}
           first == CHOOSE k \in hits : \A j \in hits : k <= j
<1>1. DOMAIN line = 1..Len(line) /\ Len(line) \in Nat
  BY DEF DTypes
<1>2. Without(c) = IF hits = {} THEN line ELSE CutAt(line, first)
  BY DEF Without, CutAt
<1>3. CASE hits = {}
  BY <1>1, <1>2, <1>3
<1>4. CASE hits # {}
  <2>1. hits \in SUBSET Nat
    BY <1>1
  <2>2. \E k \in hits : \A j \in hits : k <= j
    BY <1>4, <2>1, Least, Zenon
  <2>3. first \in hits /\ \A j \in hits : first <= j
    BY <2>2, Zenon
  <2> HIDE DEF first
  <2>4. first \in 1..Len(line) /\ line[first].cookie = c
    BY <1>1, <2>3
  <2>5. ASSUME NEW j \in 1..(first - 1)
        PROVE  line[j].cookie # c
    <3>1. j \in DOMAIN line /\ ~ (first <= j)
      BY <1>1, <2>4
    <3>2. QED
      BY <2>3, <3>1
  <2>6. FreedAt(c, first)
    BY <1>2, <1>4, <2>4, <2>5, Zenon DEF FreedAt
  <2>7. QED
    BY <2>4, <2>6
<1>5. QED
  BY <1>3, <1>4

(* Where the handler at j was before the one at k was taken out. *)
Old(k, j) == IF j < k THEN j ELSE j + 1

LEMMA Shifted ==
  ASSUME DTypes, NEW k \in 1..Len(line), line' = CutAt(line, k)
  PROVE  /\ line' \in Seq(Handler) /\ Len(line') \in Nat
         /\ \A j \in 1..Len(line') :
              Old(k, j) \in 1..Len(line) /\ Old(k, j) # k /\ line'[j] = line[Old(k, j)]
         /\ \A j, l \in 1..Len(line') : j < l => Old(k, j) < Old(k, l)
         /\ \A j \in 1..Len(line) : j # k => \E l \in 1..Len(line') : line'[l] = line[j]
<1>1. line \in Seq(Handler) /\ Len(line) \in Nat /\ k \in Int /\ 1 <= k /\ k <= Len(line)
  BY DEF DTypes
<1>2. /\ line' \in Seq(Handler) /\ Len(line') = Len(line) - 1
      /\ \A j \in 1..(Len(line) - 1) : line'[j] = IF j < k THEN line[j] ELSE line[j + 1]
  BY <1>1, Cut, Zenon
<1>3. \A j \in 1..Len(line') : line'[j] = line[Old(k, j)]
  BY <1>1, <1>2 DEF Old
<1>4. /\ \A j \in 1..Len(line') : Old(k, j) \in 1..Len(line) /\ Old(k, j) # k
      /\ \A j, l \in 1..Len(line') : j < l => Old(k, j) < Old(k, l)
  BY <1>1, <1>2 DEF Old
<1>5. ASSUME NEW j \in 1..Len(line), j # k
      PROVE  \E l \in 1..Len(line') : line'[l] = line[j]
  <2>1. CASE j < k
    <3>1. j \in 1..Len(line') /\ Old(k, j) = j
      BY <1>1, <1>2, <2>1 DEF Old
    <3>2. QED
      BY <1>3, <3>1
  <2>2. CASE ~ (j < k)
    <3>1. j - 1 \in 1..Len(line') /\ Old(k, j - 1) = j
      BY <1>1, <1>2, <1>5, <2>2 DEF Old
    <3>2. QED
      BY <1>3, <3>1
  <2>3. QED
    BY <2>1, <2>2
<1>6. Len(line') \in Nat
  BY <1>1, <1>2
<1>7. QED
  BY <1>2, <1>3, <1>4, <1>5, <1>6, Zenon

(* Taking a handler out keeps the order of the others. *)
LEMMA DInvOrder ==
  ASSUME DInv, NEW c, line' = Without(c)
  PROVE  line' \in Seq(Handler) /\ Ordered'
<1>1. DTypes /\ Ordered
  BY DEF DInv
<1>2. CASE line' = line
  BY <1>1, <1>2 DEF DTypes, Ordered
<1>3. ASSUME NEW k \in 1..Len(line), line' = CutAt(line, k)
      PROVE  line' \in Seq(Handler) /\ Ordered'
  <2>1. /\ line' \in Seq(Handler)
        /\ \A j \in 1..Len(line') : Old(k, j) \in 1..Len(line) /\ line'[j] = line[Old(k, j)]
        /\ \A j, l \in 1..Len(line') : j < l => Old(k, j) < Old(k, l)
    BY <1>1, <1>3, Shifted
  <2>2. QED
    BY <1>1, <2>1 DEF Ordered
<1>4. QED
  BY <1>1, <1>2, <1>3, Freed DEF FreedAt

(* delete_dev_mon takes out mon's handler, or the one nic left. *)
LEMMA DInvFreeMon ==
  ASSUME DInv, free_irq("mon")
  PROVE  DInv'
<1>1. /\ loc["mon"] = "free_irq" /\ line' = Without(dev["mon"])
      /\ dev' = [dev EXCEPT !["mon"] = NULL] /\ loc' = [loc EXCEPT !["mon"] = "out"]
      /\ UNCHANGED <<owner, named, hooked, refused>>
  BY DEF free_irq, Goto
<1>2. line' \in Seq(Handler) /\ Ordered'
  BY <1>1, DInvOrder
<1>3. DTypes' /\ Owned' /\ Attached'
  BY <1>1, <1>2 DEF DInv, DTypes, Owned, Attached
<1>4. Leaked'
  BY <1>1 DEF DInv, DTypes, Leaked
<1>5. ASSUME NEW j \in 1..Len(line'), NEW o \in 1..Len(line), line'[j] = line[o], NicLine(o)
      PROVE  NicLine(j)'
  BY <1>1, <1>5 DEF DInv, DTypes, NicLine
<1>6. Lined'
  <2>1. CASE line' = line /\ \A k \in 1..Len(line) : line[k].cookie # dev["mon"]
    <3>1. \A k \in 1..Len(line) : NicLine(k)
      BY <2>1 DEF DInv, Lined, MonLine, Stray
    <3>2. QED
      BY <1>5, <2>1, <3>1 DEF Lined
  <2>2. ASSUME NEW k \in 1..Len(line), FreedAt(dev["mon"], k)
        PROVE  Lined'
    <3>1. line' = CutAt(line, k) /\ line[k].cookie = dev["mon"]
      BY <1>1, <2>2 DEF FreedAt
    <3>2. \A j \in 1..Len(line') :
            Old(k, j) \in 1..Len(line) /\ Old(k, j) # k /\ line'[j] = line[Old(k, j)]
      BY <3>1, Shifted DEF DInv
    <3>3. ASSUME NEW o \in 1..Len(line), o # k
          PROVE  NicLine(o)
      <4>1. line[o].cookie = dev["mon"] => line[k].mod = "mon" /\ line[o].mod = "nic"
        <5>1. CASE o < k
          <6>1. o \in 1..(k - 1)
            BY <5>1
          <6>2. QED
            BY <2>2, <6>1 DEF FreedAt
        <5>2. CASE k < o
          BY <3>1, <5>2 DEF DInv, Ordered
        <5>3. QED
          BY <3>3, <5>1, <5>2
      <4>2. QED
        BY <4>1 DEF DInv, Lined, MonLine, Stray
    <3>4. QED
      BY <1>5, <3>2, <3>3 DEF Lined
  <2>3. QED
    BY <1>1, <2>1, <2>2, Freed DEF DInv
<1>7. QED
  BY <1>2, <1>3, <1>4, <1>6 DEF DInv

(* nic_fini takes out nic's handler or, if mon's has the same cookie, that *)
(* one: then nic's is left, for mon to take.                               *)
LEMMA DInvFreeNic ==
  ASSUME DInv, free_irq("nic")
  PROVE  DInv'
<1>1. /\ loc["nic"] = "free_irq" /\ line' = Without(dev["nic"])
      /\ dev' = [dev EXCEPT !["nic"] = NULL] /\ loc' = [loc EXCEPT !["nic"] = "unhook"]
      /\ UNCHANGED <<owner, named, hooked, refused>>
  BY DEF free_irq, Goto
<1>2. line' \in Seq(Handler) /\ Ordered'
  BY <1>1, DInvOrder
<1>3. DTypes' /\ Owned' /\ Attached'
  BY <1>1, <1>2 DEF DInv, DTypes, Owned, Attached
<1>4. Leaked'
  BY <1>1 DEF DInv, DTypes, Leaked
<1>5. dev'["nic"] = NULL /\ dev'["mon"] = dev["mon"] /\ loc'["mon"] = loc["mon"]
  BY <1>1 DEF DInv, DTypes
<1>6. ASSUME NEW j \in 1..Len(line'), NEW o \in 1..Len(line), line'[j] = line[o], MonLine(o)
      PROVE  MonLine(j)'
  BY <1>5, <1>6 DEF MonLine
<1>7. ASSUME NEW j \in 1..Len(line'), NEW o \in 1..Len(line), line'[j] = line[o],
             line[o].mod = "nic", line[o].cookie = dev["mon"], loc["mon"] = "free_irq",
             owner[line[o].cookie] = "nic", \A l \in 1..Len(line') : line'[l].mod # "mon"
      PROVE  Stray(j)'
  BY <1>1, <1>5, <1>7, OnLine DEF Stray, DInv
<1>8. Lined'
  <2>1. CASE line' = line /\ \A k \in 1..Len(line) : line[k].cookie # dev["nic"]
    <3>1. \A k \in 1..Len(line) : MonLine(k) \/ Stray(k)
      BY <2>1 DEF DInv, Lined, NicLine
    <3>2. ASSUME NEW k \in 1..Len(line)
          PROVE  MonLine(k)' \/ Stray(k)'
      <4>1. CASE MonLine(k)
        BY <1>6, <2>1, <4>1
      <4>2. CASE Stray(k)
        <5>1. /\ line[k].mod = "nic" /\ line[k].cookie = dev["mon"] /\ loc["mon"] = "free_irq"
              /\ owner[line[k].cookie] = "nic" /\ \A l \in 1..Len(line') : line'[l].mod # "mon"
          BY <2>1, <4>2 DEF Stray
        <5>2. QED
          BY <1>7, <2>1, <5>1
      <4>3. QED
        BY <3>1, <4>1, <4>2
    <3>3. QED
      BY <2>1, <3>2 DEF Lined
  <2>2. ASSUME NEW k \in 1..Len(line), FreedAt(dev["nic"], k)
        PROVE  Lined'
    <3>1. line' = CutAt(line, k) /\ line[k].cookie = dev["nic"]
      BY <1>1, <2>2 DEF FreedAt
    <3>2. \A j \in 1..Len(line') :
            Old(k, j) \in 1..Len(line) /\ Old(k, j) # k /\ line'[j] = line[Old(k, j)]
      BY <3>1, Shifted DEF DInv
    <3>3. ASSUME NEW o \in 1..Len(line), o # k, line[o].cookie = dev["nic"]
          PROVE  line[k].mod = "mon" /\ line[o].mod = "nic"
      <4>1. CASE o < k
        <5>1. o \in 1..(k - 1)
          BY <4>1
        <5>2. QED
          BY <2>2, <3>3, <5>1 DEF FreedAt
      <4>2. CASE k < o
        BY <3>1, <3>3, <4>2 DEF DInv, Ordered
      <4>3. QED
        BY <3>3, <4>1, <4>2
    <3>4. ASSUME NEW j \in 1..Len(line')
          PROVE  (MonLine(j) \/ NicLine(j) \/ Stray(j))'
      <4> DEFINE o == Old(k, j)
      <4>1. o \in 1..Len(line) /\ o # k /\ line'[j] = line[o]
        BY <3>2
      <4> HIDE DEF o
      <4>2. CASE MonLine(o)
        BY <1>6, <4>1, <4>2
      <4>3. CASE NicLine(o)
        <5>1. line[k].mod = "mon" /\ line[o].mod = "nic" /\ line[o].cookie = dev["nic"]
          BY <3>3, <4>1, <4>3 DEF NicLine
        <5>2. MonLine(k)
          BY <5>1 DEF DInv, Lined, MonLine, NicLine, Stray
        <5>3. dev["mon"] = dev["nic"] /\ dev["nic"] \in Addrs /\ dev["nic"] # NULL
          BY <3>1, <5>2, OnLine DEF MonLine, DInv
        <5>4. loc["mon"] = "free_irq" /\ owner[dev["nic"]] = "nic"
          BY <5>3 DEF DInv, Owned
        <5>5. ASSUME NEW l \in 1..Len(line'), line'[l].mod = "mon"
              PROVE  FALSE
          <6>1. Old(k, l) \in 1..Len(line) /\ Old(k, l) # k /\ line[Old(k, l)].mod = "mon"
            BY <3>2, <5>5
          <6>2. line[Old(k, l)].cookie = dev["nic"]
            BY <5>3, <6>1 DEF DInv, Lined, MonLine, NicLine, Stray
          <6>3. QED
            BY <3>3, <6>1, <6>2
        <5>6. QED
          BY <1>7, <4>1, <5>1, <5>3, <5>4, <5>5
      <4>4. CASE Stray(o)
        <5>1. \A l \in 1..Len(line') : line'[l].mod # "mon"
          BY <3>2, <4>4 DEF Stray
        <5>2. QED
          BY <1>7, <4>1, <4>4, <5>1 DEF Stray
      <4>5. QED
        BY <4>1, <4>2, <4>3, <4>4 DEF DInv, Lined
    <3>5. QED
      BY <3>4 DEF Lined
  <2>3. QED
    BY <1>1, <2>1, <2>2, Freed DEF DInv
<1>9. QED
  BY <1>2, <1>3, <1>4, <1>8 DEF DInv

LEMMA DInvNext ==
  ASSUME DInv, [DevsNext]_devsVars
  PROVE  DInv'
<1>1. CASE UNCHANGED devsVars
  BY <1>1 DEF devsVars, DInv, DTypes, Owned, Lined, MonLine, NicLine, Stray, Ordered, Attached, Leaked
<1>2. CASE create_dev_mon \/ delete_dev_mon
  BY <1>2, DInvLook, DInvAlloc, DInvRegister, DInvRequest, DInvBegin, DInvUnregister, DInvFreeMon
     DEF create_dev_mon, delete_dev_mon
<1>3. CASE nic_init \/ nic_fini
  BY <1>3, DInvLook, DInvAlloc, DInvRegister, DInvRequest, DInvHooks, DInvBegin, DInvUnregister,
     DInvFreeNic DEF nic_init, nic_fini
<1>4. QED
  BY <1>1, <1>2, <1>3 DEF DevsNext

(* Only free_irq takes a handler out, and never one of another module      *)
(* unless mon is between unregister_netdev and free_irq.                   *)
LEMMA DInvTaken ==
  ASSUME DInv, [DevsNext]_devsVars, NEW m \in {"mon", "nic"}, Handles(m), ~ Handles(m)'
  PROVE  loc["mon"] = "free_irq" \/ (loc[m] = "free_irq" /\ loc'[m] # "free_irq")
<1>1. DOMAIN line = 1..Len(line) /\ DTypes
  BY DEF DInv, DTypes
<1>2. PICK k \in 1..Len(line) : line[k].mod = m
  BY <1>1 DEF Handles
<1>3. ASSUME line' = line PROVE FALSE
  BY <1>3 DEF Handles
<1>4. ASSUME NEW x \in {"mon", "nic"}, request_irq(x) PROVE FALSE
  <2>1. CASE line' = line
    BY <1>3, <2>1
  <2>2. CASE line' = Append(line, [mod |-> x, cookie |-> dev[x]])
    <3>1. k \in DOMAIN line' /\ line'[k] = line[k]
      <4>1. line \in Seq(Handler)
        BY <1>1 DEF DTypes
      <4>2. QED
        BY <2>2, <4>1
    <3>2. QED
      BY <1>2, <3>1 DEF Handles
  <2>3. QED
    BY <1>4, <2>1, <2>2 DEF request_irq
<1>5. ASSUME NEW x \in {"mon", "nic"}, free_irq(x)
      PROVE  loc["mon"] = "free_irq" \/ (loc[m] = "free_irq" /\ loc'[m] # "free_irq")
  <2>1. loc[x] = "free_irq" /\ loc'[x] # "free_irq" /\ line' = Without(dev[x])
    BY <1>1, <1>5 DEF free_irq, Goto, DTypes
  <2>2. CASE x = "mon"
    BY <2>1, <2>2
  <2>3. CASE x = "nic" /\ m = "nic"
    BY <2>1, <2>3
  <2>4. CASE x = "nic" /\ m = "mon"
    <3>1. PICK c \in 1..Len(line) : FreedAt(dev["nic"], c)
      BY <1>1, <1>3, <2>1, <2>4, Freed
    <3>2. CASE c = k
      <4>1. MonLine(k)
        BY <1>2, <2>4 DEF DInv, Lined, MonLine, NicLine, Stray
      <4>2. dev["mon"] = dev["nic"] /\ dev["mon"] # NULL
        BY <1>1, <3>1, <3>2, <4>1, OnLine DEF FreedAt, MonLine
      <4>3. QED
        BY <4>2 DEF DInv, Owned
    <3>3. CASE c # k
      <4>1. line' = CutAt(line, c)
        BY <2>1, <2>4, <3>1 DEF FreedAt
      <4>2. line' \in Seq(Handler) /\ \E l \in 1..Len(line') : line'[l] = line[k]
        BY <1>1, <3>3, <4>1, Shifted
      <4>3. DOMAIN line' = 1..Len(line')
        BY <4>2
      <4>4. QED
        BY <1>2, <4>2, <4>3 DEF Handles
    <3>4. QED
      BY <3>2, <3>3
  <2>5. QED
    BY <2>2, <2>3, <2>4
<1>6. \/ line' = line
      \/ \E x \in {"mon", "nic"} : request_irq(x) \/ free_irq(x)
  BY DEF DevsNext, devsVars, create_dev_mon, delete_dev_mon, nic_init, nic_fini,
         dev_get_by_name, alloc_etherdev, register_netdev, nic_hooks_init,
         Begin, unregister_netdev, nf_unregister_hooks
<1>7. QED
  BY <1>3, <1>4, <1>5, <1>6

(* The invariant gives the safety properties. *)
LEMMA DInvGives == DInv => OutIsOut /\ OnlyRefusedLeak
<1>1. DInv => DOMAIN line = 1..Len(line)
  <2>1. line \in Seq(Handler) => DOMAIN line = 1..Len(line)
    OBVIOUS
  <2>2. QED
    BY <2>1, Zenon DEF DInv, DTypes
<1>2. ASSUME DInv
      PROVE  OutIsOut
  <2>1. ASSUME NEW m \in Mods, loc[m] = "out"
        PROVE  m \notin named /\ (m = "nic" => ~hooked)
    BY <1>2, <2>1 DEF DInv, Attached
  <2>2. ASSUME NEW m \in Mods, loc[m] = "out", Handles(m)
        PROVE  m = "nic" /\ Window
    <3>1. PICK k \in 1..Len(line) : line[k].mod = m
      BY <1>1, <1>2, <2>2 DEF Handles
    <3>2. CASE MonLine(k)
      BY <2>2, <3>1, <3>2 DEF MonLine
    <3>3. CASE NicLine(k)
      BY <2>2, <3>1, <3>3 DEF NicLine
    <3>4. CASE Stray(k)
      BY <3>1, <3>4 DEF Stray, Window
    <3>5. QED
      BY <1>2, <3>2, <3>3, <3>4 DEF DInv, Lined
  <2>3. QED
    BY <2>1, <2>2 DEF OutIsOut
<1>3. DInv => OnlyRefusedLeak
  BY DEF DInv, Leaked, OnlyRefusedLeak
<1>4. QED
  BY <1>2, <1>3

LEMMA DInvHolds == DevsSpec => []DInv
BY DInvInit, DInvNext, PTL DEF DevsSpec

(* mon.c, nic.c: when a module is out it has no device in the name space,  *)
(* no hooks and no handler on the interrupt, but for nic's handler while   *)
(* mon has freed its device and not its handler.                           *)
THEOREM OutIsAlwaysOut == DevsSpec => []OutIsOut
BY DInvGives, DInvHolds, PTL

(* mon.c: only a device that register_netdev refused is not freed. *)
THEOREM OnlyRefusedAreLeaked == DevsSpec => []OnlyRefusedLeak
BY DInvGives, DInvHolds, PTL

(* mon.c, nic.c: a handler on the shared interrupt is taken off by its own *)
(* module's free_irq, or while mon has freed its device and not its        *)
(* handler.                                                                *)
THEOREM AlwaysTakenByOwner == DevsSpec => TakenByOwner
<1> DEFINE Q == \A m \in Mods : Handles(m) /\ ~ Handles(m)' =>
                  Window \/ (loc[m] = "free_irq" /\ loc'[m] # "free_irq")
<1>1. DInv /\ [DevsNext]_devsVars => [Q]_devsVars
  BY DInvTaken DEF Mods, Window
<1>2. QED
  BY <1>1, DInvHolds, PTL DEF DevsSpec, TakenByOwner
=============================================================================
