------------------------------ MODULE TrunkScan ------------------------------
(***************************************************************************)
(* Which trunk group is a port in?  The library asks the chip for one      *)
(* group after the other (trunk.c:33-49), one request each, while other    *)
(* processes move ports between the groups.                                *)
(***************************************************************************)
EXTENDS Integers

CONSTANTS Scanners,    \* processes that ask
          TrunkPorts,  \* ports that may be in a group
          TNUM         \* groups

ASSUME TrunkAssumption == TNUM \in Nat \ {0}

VARIABLES members,     \* members[g]: the ports of group g, in the chip
          spc,         \* spc[s]: where scanner s is
          sport,       \* sport[s]: the port it asks about
          group,       \* group[s]: the group it asks for next
          maps,        \* maps[s]: the ports of the group it asked for last (u_port_map)
          answer,      \* answer[s]: what it returns, 0 for no group
          refused,     \* history: a request of the scan was refused
          been,        \* history: the groups the port was in during the scan
          moved        \* history: the port was put in or out of a group during the scan

trunkvars == <<members, spc, sport, group, maps, answer, refused, been, moved>>

Groups == 1..TNUM
GroupsOf(m, p) == {g \in Groups : p \in m[g]}

TrunkInit ==
  /\ members = [g \in Groups |-> {}]
  /\ spc = [s \in Scanners |-> "out"]
  /\ sport \in [Scanners -> TrunkPorts]
  /\ group = [s \in Scanners |-> 1]
  /\ maps = [s \in Scanners |-> {}]
  /\ answer = [s \in Scanners |-> 0]
  /\ refused = [s \in Scanners |-> FALSE]
  /\ been = [s \in Scanners |-> {}]
  /\ moved = [s \in Scanners |-> FALSE]

-----------------------------------------------------------------------------
(* Other processes change the groups, each by one request. *)

Change(m) ==
  /\ m # members
  /\ members' = m
  /\ been' = [s \in Scanners |-> IF spc[s] = "scan" THEN been[s] \union GroupsOf(m, sport[s])
                                 ELSE been[s]]
  /\ moved' = [s \in Scanners |->
                 moved[s] \/ (spc[s] = "scan" /\ GroupsOf(m, sport[s]) # GroupsOf(members, sport[s]))]
  /\ UNCHANGED <<spc, sport, group, maps, answer, refused>>

bcm_set_trunk_port(g, enable, p) ==
  Change([members EXCEPT ![g] = IF enable THEN @ \union {p} ELSE @ \ {p}])

bcm_trunk_set(g, ports) == Change([members EXCEPT ![g] = ports])

bcm_trunk_disable(g) == Change([members EXCEPT ![g] = {}])

bcm_trunk_remove_all == Change([g \in Groups |-> {}])

-----------------------------------------------------------------------------
(* The scan *)

BeginScan(s) ==
  /\ spc[s] = "out"
  /\ spc' = [spc EXCEPT ![s] = "scan"]
  /\ group' = [group EXCEPT ![s] = 1]
  /\ maps' = [maps EXCEPT ![s] = {}]
  /\ refused' = [refused EXCEPT ![s] = FALSE]
  /\ been' = [been EXCEPT ![s] = GroupsOf(members, sport[s])]
  /\ moved' = [moved EXCEPT ![s] = FALSE]
  /\ UNCHANGED <<members, sport, answer>>

\* cli_get_port_trunk_status fills the map, or fails and leaves the one it had.  Its
\* result is not looked at.
AskGroup(s, map) ==
  IF sport[s] \in map
  THEN /\ spc' = [spc EXCEPT ![s] = "return"]
       /\ answer' = [answer EXCEPT ![s] = group[s]]
       /\ UNCHANGED group
  ELSE /\ group' = [group EXCEPT ![s] = @ + 1]
       /\ UNCHANGED <<spc, answer>>

cli_get_port_trunk_status(s) ==
  /\ spc[s] = "scan" /\ group[s] <= TNUM
  /\ \/ /\ maps' = [maps EXCEPT ![s] = members[group[s]]]
        /\ UNCHANGED refused
     \/ /\ refused' = [refused EXCEPT ![s] = TRUE]
        /\ UNCHANGED maps
  /\ AskGroup(s, maps'[s])
  /\ UNCHANGED <<members, sport, been, moved>>

\* Mutant of EndScan: the last group is not asked for.
EndScanEarly(s) ==
  /\ spc[s] = "scan" /\ group[s] >= TNUM
  /\ answer' = [answer EXCEPT ![s] = 0]
  /\ spc' = [spc EXCEPT ![s] = "return"]
  /\ UNCHANGED <<members, sport, group, maps, refused, been, moved>>

EndScan(s) ==
  /\ spc[s] = "scan" /\ group[s] > TNUM
  /\ answer' = [answer EXCEPT ![s] = 0]
  /\ spc' = [spc EXCEPT ![s] = "return"]
  /\ UNCHANGED <<members, sport, group, maps, refused, been, moved>>

LeaveScan(s) ==
  /\ spc[s] = "return"
  /\ spc' = [spc EXCEPT ![s] = "out"]
  /\ UNCHANGED <<members, sport, group, maps, answer, refused, been, moved>>

TrunkNext ==
  \/ \E g \in Groups :
       \/ \E enable \in BOOLEAN, p \in TrunkPorts : bcm_set_trunk_port(g, enable, p)
       \/ \E ports \in SUBSET TrunkPorts : bcm_trunk_set(g, ports)
       \/ bcm_trunk_disable(g)
  \/ bcm_trunk_remove_all
  \/ \E s \in Scanners : BeginScan(s) \/ cli_get_port_trunk_status(s) \/ EndScan(s) \/ LeaveScan(s)

TrunkSpec == TrunkInit /\ [][TrunkNext]_trunkvars

-----------------------------------------------------------------------------
TrunkTypeOK ==
  /\ members \in [Groups -> SUBSET TrunkPorts]
  /\ spc \in [Scanners -> {"out", "scan", "return"}]
  /\ sport \in [Scanners -> TrunkPorts]
  /\ group \in [Scanners -> 1..(TNUM + 1)]
  /\ maps \in [Scanners -> SUBSET TrunkPorts]
  /\ answer \in [Scanners -> 0..TNUM]
  /\ refused \in [Scanners -> BOOLEAN]
  /\ been \in [Scanners -> SUBSET Groups]
  /\ moved \in [Scanners -> BOOLEAN]

\* A group the scan answers held the port at some time during the call, even where a
\* request failed and the map of an earlier group was looked at again; and it answers
\* that there is none only if the port was in no group at some time, was moved while
\* it looked, or a request failed (trunk.c:38-48).
TrunkGroupOfPort ==
  \A s \in Scanners : spc[s] = "return" =>
    IF answer[s] # 0 THEN answer[s] \in been[s] /\ sport[s] \in maps[s]
    ELSE refused[s] \/ moved[s] \/ been[s] = {}

=============================================================================
