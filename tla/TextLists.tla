------------------------------ MODULE TextLists ------------------------------
(***************************************************************************)
(* The other readers and writers of lists in texts: the VLAN lists, which  *)
(* are made by the loop of PortMaps, and the rows of numbers of the stored *)
(* configuration.                                                          *)
(*                                                                         *)
(* A row is the sequence of its numbers; a text that ends in its delimiter *)
(* has one more piece, the empty one after it, and an empty piece is the   *)
(* number 0 (atoi).  Anything that is not a number is left out.            *)
(***************************************************************************)
EXTENDS PortMaps, SequencesExt

CONSTANTS Cells,     \* numbers in the rows
          MaxCells,  \* bound: numbers of a row
          MaxRows,   \* bound: rows of a table
          Hex,       \* values of a hexadecimal digit, 16
          Octets     \* octets of a hardware address, 6

ASSUME TextAssumption == /\ Cells \subseteq Nat /\ MaxCells \in Nat /\ MaxRows \in Nat
                         /\ Hex \in Nat \ {0} /\ Octets \in Nat \ {0}

VARIABLES rows,      \* a stored table: rows of numbers
          digits,    \* a stored text of one digit per port
          mac        \* a hardware address, two digits per octet

textvars == <<rows, digits, mac>>

-----------------------------------------------------------------------------
(* VLAN lists.  An item whose ends are equal stands for a single number. *)

\* The elements that are marked.  An empty text is one empty piece, which is the number
\* 0, and neither reader asks for a number above 0, as str2bit does.
VlanIds(list) == IF list = <<>> THEN {0} ELSE PortsOf(list)

\* str2vlan marks the numbers in one array and, for the next calls, in another.
str2vlan(list, total) ==
  LET ids == VlanIds(list) IN [value |-> ids, total |-> total \union ids]

\* 0 stands for an end that is not known yet.
str2vlan_info(list) ==
  LET low[j \in 0..Len(list)] ==
        IF j = 0 THEN 0
        ELSE IF low[j - 1] = 0 \/ list[j][1] < low[j - 1] THEN list[j][1] ELSE low[j - 1]
      high[j \in 0..Len(list)] ==
        IF j = 0 THEN 0
        ELSE IF high[j - 1] = 0 \/ high[j - 1] < list[j][2] THEN list[j][2] ELSE high[j - 1]
  IN [value |-> VlanIds(list), mmin |-> low[Len(list)], mmax |-> high[Len(list)]]

\* A range that begins above the number ends the search: the list is taken to ascend.
\* Mutant of check_vlan_include: the end of a range is not in it.
check_vlan_includeOpen(vlanid, list) ==
  LET stops == {j \in DOMAIN list : IF list[j][1] = list[j][2] THEN vlanid = list[j][1]
                                    ELSE vlanid < list[j][2]}
  IN stops # {} /\ list[Min(stops)][1] <= vlanid

check_vlan_include(vlanid, list) ==
  LET stops == {j \in DOMAIN list : IF list[j][1] = list[j][2] THEN vlanid = list[j][1]
                                    ELSE vlanid <= list[j][2]}
  IN stops # {} /\ list[Min(stops)][1] <= vlanid

Ascending(list) == \A j, k \in DOMAIN list : j < k => list[j][2] < list[k][1]

-----------------------------------------------------------------------------
(* Rows of numbers *)

\* Every number is followed by the delimiter.
arr_to_str_i(arr) == Append(arr, 0)

\* At most num pieces are read, the rest of the array is 0; the result is how many.
\* Mutant of str_to_arr_i: one number too few is read.
str_to_arr_iShort(pieces, num) ==
  LET n == Min({Len(pieces), num - 1})
  IN [count |-> n, arr |-> [i \in 1..num |-> IF i <= n THEN pieces[i] ELSE 0]]

str_to_arr_i(pieces, num) ==
  LET n == Min({Len(pieces), num})
  IN [count |-> n, arr |-> [i \in 1..num |-> IF i <= n THEN pieces[i] ELSE 0]]

\* At most outer rows, of each at most inner numbers, one after the other: a short
\* row is not filled up.  The text ends in a delimiter: after it is a row of a 0.
str_to_arr_cfg(table, inner, outer) ==
  LET pieces == Append(table, <<0>>)
      taken(j) == SubSeq(pieces[j], 1, Min({Len(pieces[j]), inner}))
  IN FlattenSeq([j \in 1..Min({Len(pieces), outer}) |-> taken(j)])

\* The rows of a text, one after each delimiter.
bcm_get_entry_number(table) == Len(table)

\* These two begin to look behind the first character.  Of an empty text that is
\* behind its end, and they count whatever is in memory there.
bcm_get_no_PNUM_entry_number(table) == IF table = <<>> THEN Nat ELSE {Len(table)}
bcm_get_ipmc_number(table) == IF table = <<>> THEN Nat ELSE {Len(table)}

\* The numbers of a multicast entry: the first of its row, and what stands behind the
\* next three commas, which are those of the next row where this one is short.
bcm_get_ipmc_entry(table) ==
  [j \in DOMAIN table |->
     LET behind == FlattenSeq([i \in 1..(Len(table) - j + 1) |-> Tail(table[j + i - 1])])
     IN IF Len(behind) < 3 THEN <<>> ELSE <<table[j][1]>> \o SubSeq(behind, 1, 3)]

\* The row of VLAN numbers of the ports, in a text of len characters.  A text that is
\* too short for a digit and a comma for each port gives VLAN 1 everywhere, and -1; a
\* long one that has too few numbers makes the loop look for a comma at NULL.
VlanOf(v) == IF v = 0 THEN 1 ELSE v

bcm_get_pvid_from_entry(row, len) ==
  IF len < 2 * PNUM THEN [result |-> -1, vids |-> [i \in 1..PNUM |-> 1]]
  ELSE IF Len(row) + 1 < PNUM THEN [result |-> "crash", vids |-> <<>>]
  ELSE [result |-> 0, vids |-> [i \in 1..PNUM |-> IF i <= Len(row) THEN VlanOf(row[i]) ELSE 1]]

\* The ports of a voice group: the first has to be below PNUM, the others below 28.
LastVoicePort == 28
bcm_port_based_vlan_get(row) ==
  ({row[1]} \intersect 1..(PNUM - 1))
  \union ({row[j] : j \in 2..Len(row)} \intersect 1..(LastVoicePort - 1))

-----------------------------------------------------------------------------
(* The settings of the ports: one digit per port; a text of another length than *)
(* there are ports is the default.                                              *)

\* Only three speeds are read: case '4' runs on into the default.
nvram_port_seepd_get(conf, port) ==
  IF Len(conf) # PNUM THEN [autoge |-> 1, speed |-> 0]
  ELSE IF conf[port] \in 1..3 THEN [autoge |-> 0, speed |-> conf[port]]
  ELSE [autoge |-> 1, speed |-> 0]

nvram_port_duplex_get(conf, port) == IF Len(conf) # PNUM THEN 4 ELSE conf[port]
nvram_port_flow_get(conf, port) == IF Len(conf) # PNUM THEN 0 ELSE IF conf[port] = 1 THEN 1 ELSE 0

nvram_port_enable_get(conf, port) == IF Len(conf) # PNUM THEN 1 ELSE IF conf[port] = 0 THEN 0 ELSE 1

\* 1 where the port is enabled.  A longer text is read too.
get_port_disable(conf, port) ==
  IF Len(conf) < PNUM THEN 1 ELSE IF conf[phy[port]] = 1 THEN 1 ELSE 0

-----------------------------------------------------------------------------
(* Hardware addresses *)

\* The loop of both readers of an address: shift by a digit, add the next.
InBase(base, s) ==
  LET val[i \in 0..Len(s)] == IF i = 0 THEN 0 ELSE val[i - 1] * base + s[i]
  IN val[Len(s)]

str2mac(hexdigits) == InBase(Hex, hexdigits)
str2mac_blackhole(hexdigits) == str2mac(hexdigits)
cli_str2mac(hexdigits) ==
  [o \in 1..(Len(hexdigits) \div 2) |-> hexdigits[2 * o - 1] * Hex + hexdigits[2 * o]]

\* From octets; where char is signed, an octet of the upper half counts below 0.
Signed(octet) == IF 2 * octet >= Hex * Hex THEN octet - Hex * Hex ELSE octet
hex2mac(octets) == InBase(Hex * Hex, [o \in DOMAIN octets |-> Signed(octets[o])])

-----------------------------------------------------------------------------
Rows == UNION {[1..n -> Cells] : n \in 1..MaxCells}

\* A table, a text of digits that may have another length than the ports, or an address.
TextInit ==
  \/ rows \in UNION {[1..n -> Rows] : n \in 0..MaxRows} /\ digits = <<>> /\ mac = <<>>
  \/ rows = <<>> /\ digits \in UNION {[1..n -> 0..4] : n \in (PNUM - 1)..(PNUM + 1)} /\ mac = <<>>
  \/ rows = <<>> /\ digits = <<>> /\ mac \in [1..(2 * Octets) -> 0..(Hex - 1)]

-----------------------------------------------------------------------------
\* Of any list, made by the code or typed in any order, the readers mark the same
\* numbers and find their ends.  Where there is no number, the empty text, both mark
\* element 0 of the caller's array, which is no VLAN: a caller may count VLANs only
\* from 1 on.  A number that check_vlan_include finds is in the list, and
\* in a list that ascends, such as bit2vlan makes, it finds every number
\* (bcmutils.c:270-306, 462-502, vlan.c:350-401, nvram_conf.c:41-80).
VlanListsAgree ==
  form = "list" =>
    LET info == str2vlan_info(value)
        made == bit2vlan(asked)
        marked == IF asked = {} THEN {0} ELSE asked
        finds(list) == {v \in AllPorts : check_vlan_include(v, list)}
    IN /\ str2vlan(value, {}).value = marked /\ info.value = marked
       /\ asked # {} => info.mmin = Min(asked) /\ info.mmax = Max(asked)
       /\ finds(value) \subseteq asked
       /\ Ascending(value) => finds(value) = asked
       /\ Ascending(made) /\ finds(made) = asked

\* What is stored is what is read: a row that arr_to_str_i wrote is read back by a
\* reader that asks for as many numbers, a table by one that asks for its size; the
\* counters of rows agree; multicast entries of four numbers are read as they are, in a
\* table whose other rows have them too; the VLANs of all ports are read where there is one for each;
\* a voice group has its ports below the last one; an address is the same number by
\* digits and by octets, as long as no octet has its highest bit set; the two readers of
\* port_enable agree on every text of zeros and ones that is not longer than there are
\* ports; the speed, duplex and flow that are read are of one port, and automatic
\* exactly where no speed is (str.c:27-129, vlan.c:252-307, 601-695, ipmc.c:194-235, mac.c:23-75,
\* gmrp.c:10-20, port.c:35-52, 703-782).
RowsKept ==
  /\ \A j \in DOMAIN rows :
       /\ str_to_arr_i(arr_to_str_i(rows[j]), Len(rows[j]))
            = [count |-> Len(rows[j]), arr |-> rows[j]]
       /\ LET pvids == bcm_get_pvid_from_entry(rows[j], 2 * Len(rows[j]))
          IN pvids.result = (IF Len(rows[j]) < PNUM THEN -1 ELSE 0)
             /\ \A i \in 1..PNUM : pvids.vids[i] = (IF Len(rows[j]) < PNUM THEN 1
                                                    ELSE VlanOf(rows[j][i]))
       /\ ToSet(rows[j]) \intersect 1..(PNUM - 1) \subseteq bcm_port_based_vlan_get(rows[j])
  /\ rows # <<>> /\ (\A j \in DOMAIN rows : Len(rows[j]) = Len(rows[1])) =>
       str_to_arr_cfg(rows, Len(rows[1]), Len(rows)) = FlattenSeq(rows)
  /\ bcm_get_entry_number(rows) \in
       bcm_get_no_PNUM_entry_number(rows) \intersect bcm_get_ipmc_number(rows)
  /\ (\A j \in DOMAIN rows : Len(rows[j]) = 4) => bcm_get_ipmc_entry(rows) = rows
  /\ mac # <<>> =>
       LET octets == cli_str2mac(mac)
       IN (\A o \in DOMAIN octets : 2 * octets[o] < Hex * Hex) =>
             hex2mac(octets) = str2mac(mac)
  /\ digits # <<>> /\ Len(digits) <= PNUM /\ ToSet(digits) \subseteq {0, 1} =>
       \A p \in AllPorts : get_port_disable(digits, p) = nvram_port_enable_get(digits, p)
  /\ Len(digits) = PNUM =>
       \A p \in AllPorts :
         LET setting == nvram_port_seepd_get(digits, p)
         IN /\ setting.autoge = 1 <=> setting.speed = 0
            /\ setting.speed \in {0, nvram_port_duplex_get(digits, p)}
            /\ nvram_port_flow_get(digits, p) = 1 => setting.speed = 1

=============================================================================
