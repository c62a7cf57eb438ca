------------------------------- MODULE Subnets -------------------------------
(***************************************************************************)
(* The address arithmetic of if_info.c.  An address and a mask are sets of *)
(* bits, the highest bit of the first octet being Bits - 1; every function *)
(* of the source takes both through inet_addr and ntohl, which agree on    *)
(* that numbering.  An address text may end in a prefix length; NoPrefix   *)
(* stands for one that does not.                                           *)
(***************************************************************************)
EXTENDS Integers, FiniteSets

CONSTANT Octet   \* bits of an octet; an IPv4 address has four, a word of IPv6 too

ASSUME OctetAssumption == Octet \in Nat \ {0}

VARIABLES ip, ipLen,      \* one address and its prefix length
          sub, subLen     \* another

subnetvars == <<ip, ipLen, sub, subLen>>

Bits == 4 * Octet
Addresses == SUBSET (0..(Bits - 1))
NoPrefix == -1
PrefixLens == 0..Bits

\* Mutant of get_netmask_addr: the mask grows from the low end.
get_netmask_addrLow(len) ==
  IF len = NoPrefix THEN 0..(3 * Octet - 1) ELSE 0..(len - 1)

\* Without a prefix the mask is 0xffffff, the three LOW octets.
get_netmask_addr(len) ==
  IF len = NoPrefix THEN 0..(3 * Octet - 1)
                    ELSE {Bits - 1 - i : i \in 0..(len - 1)}

get_mask_addr(len) == IF len = NoPrefix THEN 3 * Octet ELSE len

is_in_same_subnet(a, b, bLen) ==
  a \intersect get_netmask_addr(bLen) = b \intersect get_netmask_addr(bLen)

\* Both have a prefix of their own; different masks are never the same subnet.
isin_same_subnet(a, aLen, b, bLen) ==
  /\ get_netmask_addr(aLen) = get_netmask_addr(bLen)
  /\ is_in_same_subnet(a, b, bLen)

\* This one takes 24 bits where there is no prefix.
get_broadcast_addr(a, aLen) ==
  LET mask == {Bits - 1 - i : i \in 0..(get_mask_addr(aLen) - 1)}
  IN (a \intersect mask) \union ((0..(Bits - 1)) \ mask)

get_netmask_str(len) == get_netmask_addr(len)

get_submask_addr(a, aLen) == a \intersect get_netmask_addr(aLen)

\* The prefix length of a mask text: how many bits it has, wherever they are.
get_mask_subnet(mask) == Cardinality(mask)

\* IPv6 addresses here are four words of Octet bits; word w of an address is its
\* w-th quarter from the top.  The code shifts the first word that it does not take
\* whole to the right, by as many bits as it should have kept.  (It shifts in the byte
\* order of the host, and the shift by a whole word, of a prefix that is the whole
\* address, is undefined; neither matters for the prefix the property is about.)
Word(a, w) == {b - (3 - w) * Octet : b \in a \intersect ((3 - w) * Octet .. (4 - w) * Octet - 1)}
Shifted(word, n) == {b - n : b \in {x \in word : x >= n}}

\* How many words are compared whole, before the one that is shifted.
WholeWords(len) == IF len >= 3 * Octet THEN 0
                   ELSE IF len >= 2 * Octet THEN 1
                   ELSE IF len >= Octet THEN 2 ELSE 3

\* The second prefix length is read from the first address again, so that the two
\* are never found different (value1 = atoi(str+1)).
check_ipv6_same_subnet(a, aLen, b, bLen) ==
  IF aLen = NoPrefix \/ bLen = NoPrefix THEN -1
  ELSE LET w == WholeWords(aLen)
           n == aLen - (3 - w) * Octet
       IN IF /\ \A v \in 0..(w - 1) : Word(a, v) = Word(b, v)
             /\ Shifted(Word(a, w), n) = Shifted(Word(b, w), n)
          THEN 0 ELSE -1

\* Any two addresses, each with or without a prefix.
SubnetInit ==
  /\ ip \in Addresses /\ sub \in Addresses
  /\ ipLen \in PrefixLens \union {NoPrefix}
  /\ subLen \in PrefixLens \union {NoPrefix}

-----------------------------------------------------------------------------
(* Reference: an address is a number, a prefix its first digits. *)

\* The number that the first len digits of an address are.
Leading(a, len) ==
  LET f[i \in 0..Bits] ==
        IF i = 0 THEN 0 ELSE 2 * f[i - 1] + (IF Bits - i \in a THEN 1 ELSE 0)
  IN f[len]

Number(a) == Leading(a, Bits)

\* x with len more digits, all of them d.
Padded(x, len, d) == LET f[i \in 0..Bits] == IF i = 0 THEN x ELSE 2 * f[i - 1] + d IN f[len]

\* With prefixes, two addresses are in one subnet exactly if they begin with the
\* same bits; the broadcast address is the highest of the subnet, the subnet
\* address the lowest, and the length of a mask is the length it was made from.
\* Without a prefix, broadcast and length take three octets.  Of the IPv6 prefixes
\* the right bits are compared for the one that is half of an address, the /64 of
\* an ordinary network (if_info.c:461-697, 738-805).
SubnetsAgree ==
  /\ subLen # NoPrefix =>
       /\ is_in_same_subnet(ip, sub, subLen)
            <=> Leading(ip, subLen) = Leading(sub, subLen)
       /\ isin_same_subnet(ip, ipLen, sub, subLen) /\ ipLen # NoPrefix
            => ipLen = subLen /\ Leading(ip, subLen) = Leading(sub, subLen)
       /\ Number(get_submask_addr(sub, subLen))
            = Padded(Leading(sub, subLen), Bits - subLen, 0)
       /\ get_mask_subnet(get_netmask_str(subLen)) = subLen
  /\ LET len == get_mask_addr(subLen)
     IN Number(get_broadcast_addr(sub, subLen)) = Padded(Leading(sub, len), Bits - len, 1)
  /\ ipLen = 2 * Octet /\ subLen = 2 * Octet =>
       (check_ipv6_same_subnet(ip, ipLen, sub, subLen) = 0
          <=> Leading(ip, 2 * Octet) = Leading(sub, 2 * Octet))

=============================================================================
