----------------------------- MODULE SkbFrames -----------------------------
(***************************************************************************)
(* The packets that src/nic/tcp.c, udp.c and garp.c build: where in the    *)
(* buffer of an skb each of them puts its headers, for a device that asks  *)
(* for hard bytes of link header, head bytes before and tail bytes behind  *)
(* the frame.  Positions count from the start of the buffer.               *)
(***************************************************************************)
EXTENDS Integers

CONSTANTS
  PAYLOAD,     \* sizeof(payload)
  ADDR_LEN     \* dev->addr_len

IPHDR == 20
TCPHDR == 20
UDPHDR == 8
ETH_HLEN == 14

Devices == [hard : Nat, head : Nat, tail : Nat]

LL_RESERVED_SPACE(dev) == ((dev.hard + dev.head) \div 16) * 16 + 16

arp_hdr_len == 8 + (ADDR_LEN + 4) * 2

(* alloc_skb, skb_reserve and skb_reset_network_header. *)
Reserved(size, n) == [data |-> n, nh |-> n, tail |-> n, end |-> size]

skb_put(s, n) == [s EXCEPT !.tail = @ + n]

skb_push(s, n) == [s EXCEPT !.data = @ - n]

(* The checksum of a transport header is taken before the payload is put.  *)
tcp_skb(dev) ==
  LET len == PAYLOAD + LL_RESERVED_SPACE(dev) + IPHDR + TCPHDR + dev.tail
      hdrs == skb_put(skb_put(Reserved(len, LL_RESERVED_SPACE(dev)), IPHDR), TCPHDR)
  IN [skb |-> skb_push(skb_put(hdrs, PAYLOAD), ETH_HLEN),
      tot_len |-> PAYLOAD + IPHDR + TCPHDR,
      summed |-> hdrs.tail]

udp_skb(dev) ==
  LET len == PAYLOAD + LL_RESERVED_SPACE(dev) + IPHDR + UDPHDR + dev.tail
      hdrs == skb_put(skb_put(Reserved(len, LL_RESERVED_SPACE(dev)), IPHDR), UDPHDR)
  IN [skb |-> skb_push(skb_put(hdrs, PAYLOAD), ETH_HLEN),
      tot_len |-> PAYLOAD + IPHDR + UDPHDR,
      summed |-> hdrs.tail]

(* Altered: the room in front of the frame is not reserved. *)
garp_create_NoReserve(dev) ==
  LET size == arp_hdr_len + LL_RESERVED_SPACE(dev) + dev.tail
      arp == skb_put(Reserved(size, 0), arp_hdr_len)
  IN [skb |-> skb_push(arp, ETH_HLEN),
      tot_len |-> 8 + ADDR_LEN + 4 + ADDR_LEN + 4,
      summed |-> arp.tail]

(* eth_header pushes the link header; what is then filled in is the fixed  *)
(* part and two pairs of hardware and protocol address.                    *)
garp_create(dev) ==
  LET size == arp_hdr_len + LL_RESERVED_SPACE(dev) + dev.tail
      arp == skb_put(Reserved(size, LL_RESERVED_SPACE(dev)), arp_hdr_len)
  IN [skb |-> skb_push(arp, ETH_HLEN),
      tot_len |-> 8 + ADDR_LEN + 4 + ADDR_LEN + 4,
      summed |-> arp.tail]

-----------------------------------------------------------------------------
(* A frame lies in its buffer with the room that the device asked for      *)
(* before and behind it; its network header is inside, directly behind the *)
(* link header; and the length it claims is the one it has.                *)
Fits(dev, f) ==
  /\ f.skb.data >= 0 /\ (dev.hard >= ETH_HLEN => f.skb.data >= dev.head)
  /\ f.skb.tail + dev.tail <= f.skb.end
  /\ f.skb.nh = f.skb.data + ETH_HLEN
  /\ f.skb.nh + f.tot_len = f.skb.tail
=============================================================================
