------------------------------ MODULE PortMaps ------------------------------
(***************************************************************************)
(* A set of ports travels through the library in five forms, and each      *)
(* conversion of bcmutils.c and mac.c takes one and makes another:         *)
(*                                                                         *)
(*   "list"   a text such as 1,3-5                                         *)
(*   "names"  a text such as f0/1,g0/2, typed by a user                    *)
(*   "ones"   a bitmap, bit p for port p                                   *)
(*   "zeros"  a bitmap or a text of 0 and 1, bit p - 1 for port p          *)
(*   "phys"   a bitmap, bit phy[p] for port p, what the chip is told       *)
(*                                                                         *)
(* No type of C tells them apart.  A behaviour is a set of ports and a     *)
(* chain of conversions, each applied to the form it is written for.       *)
(*                                                                         *)
(* A bitmap is the set of its bits; a list is the sequence of its items,   *)
(* each a pair of first and last number, equal when the item has no -.     *)
(***************************************************************************)
EXTENDS Integers, Sequences, FiniteSetsExt

CONSTANTS PNUM,      \* ports of the switch
          GNUM,      \* of them, gigabit ports
          XPORT,     \* 1 where the compiler is told so, and 0 where it is told nothing
          MaxItems   \* bound: items of a text that a user types

\* The last port that phy[64] of bcmutils.h has a number for.
LastPort == 28

ASSUME PortAssumption == /\ PNUM \in 1..LastPort /\ GNUM \in 1..PNUM
                         /\ XPORT \in {0, 1} /\ MaxItems \in Nat

VARIABLES form,      \* the form the set of ports is in
          value,     \* the value in that form
          asked      \* history: the ports that were meant

portvars == <<form, value, asked>>

FNUM == PNUM - GNUM
AllPorts == 1..PNUM
NoPort == -1

\* The highest bit of a word.
Top == 31

phy[i \in 0..63] == IF i <= LastPort THEN i ELSE 0

Items == {it \in AllPorts \X AllPorts : it[1] <= it[2]}
PortsOf(list) == UNION {list[j][1]..list[j][2] : j \in DOMAIN list}

-----------------------------------------------------------------------------
(* From a bitmap to a list: the loop of bit2str and bit2vlan over the ports.  *)
(* out is the text so far, last and run the variables lastis and tcount.      *)

CloseItem(out, hi) == [out EXCEPT ![Len(out)] = <<@[1], hi>>]

\* Mutant of ListPass: a run that reaches the last port is not closed.
ListPassOpen(has, i, s) ==
  IF i \in has
  THEN [out |-> IF ~s.last THEN Append(s.out, <<i, i>>) ELSE s.out,
        last |-> TRUE, run |-> s.run + 1]
  ELSE [out |-> IF s.last /\ s.run > 1 THEN CloseItem(s.out, i - 1) ELSE s.out,
        last |-> FALSE, run |-> 0]

ListPass(has, i, s) ==
  IF i \in has
  THEN [out |-> IF ~s.last THEN Append(s.out, <<i, i>>)
                ELSE IF i = PNUM THEN CloseItem(s.out, i) ELSE s.out,
        last |-> TRUE, run |-> s.run + 1]
  ELSE [out |-> IF s.last /\ s.run > 1 THEN CloseItem(s.out, i - 1) ELSE s.out,
        last |-> FALSE, run |-> 0]

ListStart == [out |-> <<>>, last |-> FALSE, run |-> 0]

ListLoop(has) ==
  LET f[i \in 0..PNUM] == IF i = 0 THEN ListStart ELSE ListPass(has, i, f[i - 1])
  IN f[PNUM].out

bit2str(phys) == ListLoop({p \in AllPorts : phy[p] \in phys})
bit2vlan(ones) == ListLoop({p \in AllPorts : p \in ones})

-----------------------------------------------------------------------------
(* From a text to a bitmap, and from one bitmap to another *)

\* Numbers that are not above 0 set no bit; an item whose end is below its start
\* sets none either.
str2bit(list) == {k \in PortsOf(list) : k > 0}

\* What str2bit made of the digits behind a prefix is shifted to where the ports of
\* that type begin; gigabit ports stay where they are if XPORT is 1.
ShiftLeft(bits, n) == {b + n : b \in bits}

ChunkBits(chunk) ==
  LET bits == str2bit(<<chunk.item>>)
  IN CASE chunk.type = "g" /\ XPORT # 1 -> ShiftLeft(bits, phy[FNUM + 1] - phy[1])
       [] chunk.type = "t" -> ShiftLeft(bits, phy[GNUM])
       [] OTHER -> bits

\* The chunks between the commas.  As long as a type letter is to come, a chunk needs
\* one of f, g, t (the last one may have p instead), or is dropped; when none is to
\* come, the rest is one list.
cli_str2bitmap(chunks) ==
  LET n == Len(chunks)
      lettered(j) == \E k \in j..n : chunks[k].type # "none"
      known(j) == chunks[j].type \in {"f", "g", "t"} \union (IF j = n THEN {"p"} ELSE {})
  IN UNION {IF lettered(j) /\ ~known(j) THEN {} ELSE ChunkBits(chunks[j]) : j \in 1..n}

port2phy_64(zeros) == {phy[i + 1] : i \in {j \in 0..(PNUM - 1) : j \in zeros}}
str2phy_64(zeros) == {phy[i + 1] : i \in {j \in 0..(PNUM - 1) : j \in zeros}}
phy2port_64(phys) == {i \in AllPorts : phy[i] \in phys}

\* These two map every bit of a word, those above LastPort to phy[] = 0.
port2phy(ones) == {phy[i] : i \in {j \in 0..Top : j \in ones}}
pmap_port2phy(ones) == {phy[i] : i \in {j \in 0..Top : j \in ones}}

\* A text whose character i says whether port i is meant (character 0 is the port of
\* the processor).
parse_input(ones) == {phy[i] : i \in ones}

\* The lowest port of a bitmap.
pmap2port(ones) == IF ones \intersect AllPorts = {} THEN NoPort
                   ELSE Min(ones \intersect AllPorts)

-----------------------------------------------------------------------------
(* The machine *)

Convert(from, to, result) ==
  /\ form = from
  /\ form' = to /\ value' = result /\ UNCHANGED asked

\* A user types a text of ports, in any order and overlapping.
TypeList ==
  \E n \in 1..MaxItems : \E list \in [1..n -> Items] :
    /\ form' = "list" /\ value' = list /\ asked' = PortsOf(list)

\* What a port is called: the fast ports come before the gigabit ports, and where there
\* are ports beyond the gigabit ones, those are the first and the others are of type t.
\* A port has its number among the ports of its type.
TypeOf(p) == IF XPORT = 1 THEN IF p <= GNUM THEN "g" ELSE "t"
             ELSE IF p <= FNUM THEN "f" ELSE "g"

PortsOfType(type) == {p \in AllPorts : TypeOf(p) = type}

PlaceInType(p) == Cardinality({q \in 1..p : TypeOf(q) = TypeOf(p)})

NamedPorts(chunk) == {p \in PortsOfType(chunk.type) : PlaceInType(p) \in chunk.item[1]..chunk.item[2]}

\* A user names ports of the switch by type, each text with its prefix.
Chunks == {c \in [type : {"f", "g", "t"}, item : Items] :
             c.item[2] <= Cardinality(PortsOfType(c.type))}

TypeNames ==
  \E n \in 1..MaxItems : \E chunks \in [1..n -> Chunks] :
    /\ form' = "names" /\ value' = chunks
    /\ asked' = UNION {NamedPorts(chunks[j]) : j \in 1..n}

\* A program has a map or a text of characters with bit p - 1 for port p.
GiveMap ==
  \E ports \in SUBSET AllPorts :
    /\ form' = "zeros" /\ value' = {p - 1 : p \in ports} /\ asked' = ports

PortInit == form = "phys" /\ value = {} /\ asked = {}

PortNext ==
  \/ TypeList \/ TypeNames \/ GiveMap
  \/ Convert("list", "ones", str2bit(value))
  \/ Convert("names", "ones", cli_str2bitmap(value))
  \/ Convert("zeros", "phys", port2phy_64(value))
  \/ Convert("zeros", "phys", str2phy_64(value))
  \/ Convert("phys", "ones", phy2port_64(value))
  \/ Convert("phys", "list", bit2str(value))
  \/ Convert("ones", "list", bit2vlan(value))
  \/ Convert("ones", "phys", port2phy(value))
  \/ Convert("ones", "phys", pmap_port2phy(value))
  \/ Convert("ones", "phys", parse_input(value))

PortSpec == PortInit /\ [][PortNext]_portvars

-----------------------------------------------------------------------------
Denoted ==
  CASE form = "list" -> PortsOf(value)
    [] form = "names" -> UNION {NamedPorts(value[j]) : j \in DOMAIN value}
    [] form = "ones" -> value
    [] form = "zeros" -> {b + 1 : b \in value}
    [] form = "phys" -> {p \in AllPorts : phy[p] \in value}

\* However a set of ports was given, by numbers, by the names a port of its type has, or
\* as a map, and whatever conversions it went through, each applied to the form it takes,
\* it is the same set; the lowest port is found in it (bcmutils.c:199-620).
SamePorts ==
  /\ Denoted = asked
  /\ form = "ones" => pmap2port(value) = (IF asked = {} THEN NoPort ELSE Min(asked))

=============================================================================
