------------------------------ MODULE MCDevice -------------------------------
(***************************************************************************)
(* The parts of the library around the switch chip that do not touch one   *)
(* another, checked together: a behaviour is about one of them, chosen at  *)
(* the start, and the others stay as they are.                             *)
(***************************************************************************)
EXTENDS FlowStats, MsClock, Subnets, TextLists, SwitchChip, TrunkScan, MacList

VARIABLE part

vars == <<part, flowvars, clockvars, subnetvars, portvars, textvars, switchvars, trunkvars, macvars>>

Parts == {"flow", "clock", "subnets", "ports", "texts", "switch", "trunk", "macs"}

\* Where a part has several initial states, one is enough while another is examined.
Init ==
  /\ part \in Parts
  /\ FlowInit /\ PortInit /\ MacInit
  /\ IF part = "clock" THEN ClockInit ELSE halves = 0 /\ since = 0 /\ started = 0
  /\ IF part = "subnets" THEN SubnetInit
     ELSE ip = {} /\ sub = {} /\ ipLen = NoPrefix /\ subLen = NoPrefix
  /\ IF part = "texts" THEN TextInit ELSE rows = <<>> /\ digits = <<>> /\ mac = <<>>
  /\ SwitchInit /\ (part # "switch" => reg = Reg({}, {}, {}))
  /\ TrunkInit /\ (part # "trunk" => \A s \in Scanners : sport[s] = CHOOSE p \in TrunkPorts : TRUE)

Stay(others) == UNCHANGED <<part, others>>

Next ==
  \/ /\ part = "flow" /\ FlowNext
     /\ Stay(<<clockvars, subnetvars, portvars, textvars, switchvars, trunkvars, macvars>>)
  \/ /\ part = "clock" /\ ClockNext
     /\ Stay(<<flowvars, subnetvars, portvars, textvars, switchvars, trunkvars, macvars>>)
  \/ /\ part = "ports" /\ PortNext
     /\ Stay(<<flowvars, clockvars, subnetvars, textvars, switchvars, trunkvars, macvars>>)
  \/ /\ part = "switch" /\ SwitchNext
     /\ Stay(<<flowvars, clockvars, subnetvars, portvars, textvars, trunkvars, macvars>>)
  \/ /\ part = "trunk" /\ TrunkNext
     /\ Stay(<<flowvars, clockvars, subnetvars, portvars, textvars, switchvars, macvars>>)
  \/ /\ part = "macs" /\ MacNext
     /\ Stay(<<flowvars, clockvars, subnetvars, portvars, textvars, switchvars, trunkvars>>)

\* The fairness of the traffic figures, in the behaviours that are about them.
Fairness ==
  /\ \A r \in Readers : WF_flowvars(part = "flow" /\ ReaderStep(r))
  /\ WF_flowvars(part = "flow" /\ WriterStep)

Spec == Init /\ [][Next]_vars /\ Fairness

=============================================================================
