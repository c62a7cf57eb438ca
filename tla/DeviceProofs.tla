--------------------------- MODULE DeviceProofs ------------------------------
(***************************************************************************)
(* Parts of the device library, for every value of their constants: the    *)
(* figures one reader of the shared segment returns, the scan for the      *)
(* trunk group of a port, the time a limit sees on a clock that wraps,     *)
(* what the success of a call on the switch chip means, the forms a set of *)
(* ports and a list of VLANs take, the list of the learned addresses, the  *)
(* arithmetic of subnets, and the rows of the stored configuration.        *)
(***************************************************************************)
EXTENDS FlowStats, TrunkScan, MsClock, SwitchChip, TextLists, MacList, Subnets,
        DataInduction, SequenceTheorems, FiniteSetTheorems, TLAPS

-----------------------------------------------------------------------------
(* The traffic figures: the inductive invariant, in parts *)

\* A reader stays within the figures it was asked for.
InRange ==
  \A r \in Readers : rat[r] \in Figures /\ rto[r] \in Figures /\ rat[r] <= rto[r]

\* The flag of the daemon is up while it writes, and when it is down the figures are of
\* one refresh; those it has passed are of the refresh it is in.
WriterWhole ==
  /\ wpc = "write" => writing
  /\ wpc \in {"rest", "raise"} => ~writing
  /\ wat # 0
  /\ ~writing => \A i, j \in Figures : figure[i] = figure[j]
  /\ wpc = "write" => \A i \in Figures : i < wat => figure[i] = round

\* A reader that was not raced keeps the daemon out while it reads.
ReaderApart ==
  \A r \in Readers :
    /\ rpc[r] \in {"test", "mark"} => got[r] = {}
    /\ rpc[r] = "mark" /\ ~raced[r] => ~writing
    /\ rpc[r] = "read" /\ ~raced[r] =>
         /\ reading /\ ~writing /\ wpc # "raise"
         /\ \A v \in got[r], i \in Figures : v = figure[i]

FlowInv == FlowTypeOK /\ InRange /\ WriterWhole /\ ReaderApart /\ TornOnlyByRace

-----------------------------------------------------------------------------
(* Every call attaches with a range of figures. *)

LEMMA PairInFigures ==
  /\ 1 \in Figures /\ 2 * FlowPorts \in Figures
  /\ \A port \in 1..FlowPorts : 2 * port - 1 \in Figures /\ 2 * port \in Figures
BY FlowAssumption, SMT DEF Figures

LEMMA CallsAttach ==
  ASSUME NEW r \in Readers,
         \/ bcm_get_all_txrx_average_rate_bps(r)
         \/ bcm_get_all_txrx_average_rate_pps(r)
         \/ \E port \in 1..FlowPorts :
              \/ bcm_get_port_txrx_average_rate_bps(r, port)
              \/ bcm_get_port_txrx_average_rate_pps(r, port)
  PROVE  \E from, to \in Figures : from <= to /\ Attach(r, from, to)
<1>1. CASE bcm_get_all_txrx_average_rate_bps(r) \/ bcm_get_all_txrx_average_rate_pps(r)
  <2>1. Attach(r, 1, 2 * FlowPorts)
    BY <1>1 DEF bcm_get_all_txrx_average_rate_bps, bcm_get_all_txrx_average_rate_pps
  <2>2. 1 <= 2 * FlowPorts
    BY FlowAssumption, SMT
  <2>q. QED BY <2>1, <2>2, PairInFigures
<1>2. CASE \E port \in 1..FlowPorts : \/ bcm_get_port_txrx_average_rate_bps(r, port)
                                      \/ bcm_get_port_txrx_average_rate_pps(r, port)
  <2>1. PICK port \in 1..FlowPorts : Attach(r, 2 * port - 1, 2 * port)
    BY <1>2 DEF bcm_get_port_txrx_average_rate_bps, bcm_get_port_txrx_average_rate_pps
  <2>2. 2 * port - 1 <= 2 * port
    BY FlowAssumption, SMT
  <2>q. QED BY <2>1, <2>2, PairInFigures
<1>q. QED BY <1>1, <1>2

-----------------------------------------------------------------------------
(* The invariant holds at first, and every action keeps it. *)

LEMMA FlowInitInv == FlowInit => FlowInv
<1> SUFFICES ASSUME FlowInit PROVE FlowInv
  OBVIOUS
<1>1. FlowTypeOK
  <2>1. writing \in BOOLEAN /\ reading \in BOOLEAN /\ raced \in [Readers -> BOOLEAN]
    BY DEF FlowInit
  <2>2. got \in [Readers -> SUBSET Nat]
    BY DEF FlowInit
  <2>3. /\ figure \in [Figures -> Nat] /\ wpc \in WriterAt /\ wat \in Nat /\ round \in Nat
        /\ rpc \in [Readers -> ReaderAt] /\ reads \in [Readers -> Nat]
        /\ rat \in [Readers -> Nat] /\ rto \in [Readers -> Nat]
    BY SMT DEF FlowInit, WriterAt, ReaderAt
  <2>q. QED BY <2>1, <2>2, <2>3 DEF FlowTypeOK
<1>2. InRange
  BY PairInFigures, SMT DEF FlowInit, InRange
<1>3. WriterWhole /\ ReaderApart /\ TornOnlyByRace
  BY SMT DEF FlowInit, WriterWhole, ReaderApart, TornOnlyByRace, Figures
<1>q. QED BY <1>1, <1>2, <1>3 DEF FlowInv

LEMMA AttachInv ==
  ASSUME FlowInv, NEW r \in Readers, NEW from \in Figures, NEW to \in Figures,
         from <= to, Attach(r, from, to)
  PROVE  FlowInv'
<1> USE DEF FlowInv, Attach, writer
<1>1. FlowTypeOK'
  <2>1. writing' \in BOOLEAN /\ reading' \in BOOLEAN /\ raced' \in [Readers -> BOOLEAN]
    BY DEF FlowTypeOK
  <2>2. got' \in [Readers -> SUBSET Nat]
    BY DEF FlowTypeOK
  <2>3. from \in Nat /\ to \in Nat
    BY FlowAssumption, SMT DEF Figures
  <2>4. /\ figure' \in [Figures -> Nat] /\ wpc' \in WriterAt /\ wat' \in Nat /\ round' \in Nat
        /\ rpc' \in [Readers -> ReaderAt] /\ reads' \in [Readers -> Nat]
        /\ rat' \in [Readers -> Nat] /\ rto' \in [Readers -> Nat]
    BY <2>3, SMT DEF FlowTypeOK, ReaderAt
  <2>q. QED BY <2>1, <2>2, <2>4 DEF FlowTypeOK
<1>2. InRange'
  BY SMT DEF FlowTypeOK, InRange
<1>3. WriterWhole'
  BY SMT DEF WriterWhole
<1>4. ReaderApart'
  BY SMT DEF FlowTypeOK, ReaderApart
<1>5. TornOnlyByRace'
  BY SMT DEF FlowTypeOK, TornOnlyByRace
<1>q. QED BY <1>1, <1>2, <1>3, <1>4, <1>5 DEF FlowInv

LEMMA ReaderStepInv ==
  ASSUME FlowInv, NEW r \in Readers, ReaderStep(r) \/ ReaderDies(r)
  PROVE  FlowInv'
<1> USE DEF FlowInv, writer
<1>1. CASE TestWriting(r)
  <2>1. FlowTypeOK' /\ InRange' /\ WriterWhole' /\ TornOnlyByRace'
    BY <1>1, SMT DEF TestWriting, FlowTypeOK, ReaderAt, InRange, WriterWhole, TornOnlyByRace
  <2>2. ReaderApart'
    BY <1>1, SMT DEF TestWriting, FlowTypeOK, ReaderApart
  <2>q. QED BY <2>1, <2>2
<1>2. CASE MarkReading(r)
  <2>1. FlowTypeOK' /\ InRange' /\ WriterWhole' /\ TornOnlyByRace'
    BY <1>2, SMT DEF MarkReading, FlowTypeOK, ReaderAt, InRange, WriterWhole, TornOnlyByRace
  <2>2. ReaderApart'
    <3>1. ASSUME NEW q \in Readers, q # r
          PROVE  rpc'[q] = rpc[q] /\ raced'[q] = raced[q] /\ got'[q] = got[q]
      BY <1>2, <3>1 DEF MarkReading, FlowTypeOK
    <3>2. /\ rpc'[r] = "read" /\ got'[r] = {} /\ reading'
          /\ ~raced'[r] => ~raced[r] /\ ~writing /\ wpc # "raise"
      BY <1>2 DEF MarkReading, FlowTypeOK, ReaderApart
    <3>3. UNCHANGED <<writing, wpc, figure>>
      BY <1>2 DEF MarkReading
    <3>q. QED BY <3>1, <3>2, <3>3, SMT DEF ReaderApart, Figures
  <2>q. QED BY <2>1, <2>2
<1>3. CASE ReadFigure(r)
  <2>1. figure[rat[r]] \in Nat
    BY DEF FlowTypeOK, InRange
  <2>2. got' = [got EXCEPT ![r] = @ \union {figure[rat[r]]}]
    BY <1>3 DEF ReadFigure
  <2>3. FlowTypeOK'
    BY <1>3, <2>1, SMT DEF ReadFigure, FlowTypeOK, ReaderAt
  <2>4. InRange'
    <3>1. CASE rat[r] = rto[r]
      BY <1>3, <3>1, SMT DEF ReadFigure, InRange
    <3>2. CASE rat[r] # rto[r]
      <4>1. rat[r] + 1 \in Figures /\ rat[r] + 1 <= rto[r]
        BY <3>2, FlowAssumption, SMT DEF InRange, Figures
      <4>2. rat' = [rat EXCEPT ![r] = rat[r] + 1] /\ rto' = rto
        BY <1>3, <3>2 DEF ReadFigure
      <4>q. QED BY <4>1, <4>2, SMT DEF FlowTypeOK, InRange
    <3>q. QED BY <3>1, <3>2
  <2>5. WriterWhole'
    BY <1>3, SMT DEF ReadFigure, WriterWhole
  <2>6. ReaderApart'
    <3>1. ~raced[r] => \A i \in Figures : figure[rat[r]] = figure[i]
      BY <1>3, SMT DEF ReadFigure, ReaderApart, WriterWhole, InRange
    <3>q. QED BY <1>3, <3>1, SMT DEF ReadFigure, FlowTypeOK, ReaderApart
  <2>7. TornOnlyByRace'
    <3>1. ~raced[r] => \A v \in got[r] : v = figure[rat[r]]
      BY <1>3, SMT DEF ReadFigure, ReaderApart, InRange
    <3>q. QED BY <1>3, <3>1, SMT DEF ReadFigure, FlowTypeOK, TornOnlyByRace
  <2>q. QED BY <2>3, <2>4, <2>5, <2>6, <2>7
<1>4. CASE ClearReading(r)
  <2>1. FlowTypeOK' /\ InRange' /\ WriterWhole' /\ TornOnlyByRace'
    <3>1. writing' \in BOOLEAN /\ reading' \in BOOLEAN /\ raced' \in [Readers -> BOOLEAN]
      BY <1>4 DEF ClearReading, FlowTypeOK
    <3>2. rpc' \in [Readers -> ReaderAt]
      BY <1>4, SMT DEF ClearReading, FlowTypeOK, ReaderAt
    <3>3. UNCHANGED <<figure, wpc, wat, round, rat, rto, got, reads>>
      BY <1>4 DEF ClearReading
    <3>4. FlowTypeOK'
      BY <3>1, <3>2, <3>3 DEF FlowTypeOK
    <3>5. InRange' /\ WriterWhole'
      BY <1>4, <3>3, SMT DEF ClearReading, InRange, WriterWhole
    <3>6. TornOnlyByRace'
      BY <1>4, <3>3 DEF ClearReading, TornOnlyByRace
    <3>q. QED BY <3>4, <3>5, <3>6
  <2>2. ReaderApart'
    BY <1>4, SMT DEF ClearReading, FlowTypeOK, ReaderApart
  <2>q. QED BY <2>1, <2>2
<1>5. CASE ReaderDies(r)
  <2>1. FlowTypeOK' /\ InRange' /\ WriterWhole' /\ TornOnlyByRace'
    BY <1>5, SMT DEF ReaderDies, FlowTypeOK, ReaderAt, InRange, WriterWhole, TornOnlyByRace
  <2>2. ReaderApart'
    BY <1>5, SMT DEF ReaderDies, FlowTypeOK, ReaderApart
  <2>q. QED BY <2>1, <2>2
<1>q. QED BY <1>1, <1>2, <1>3, <1>4, <1>5 DEF ReaderStep

LEMMA WriterStepInv ==
  ASSUME FlowInv, WriterStep \/ WriterDies
  PROVE  FlowInv'
<1> USE DEF FlowInv, reader
<1>1. CASE WriterTests
  <2>1. FlowTypeOK' /\ InRange' /\ WriterWhole' /\ TornOnlyByRace'
    BY <1>1, SMT DEF WriterTests, FlowTypeOK, WriterAt, InRange, WriterWhole, TornOnlyByRace
  <2>2. ReaderApart'
    BY <1>1, SMT DEF WriterTests, FlowTypeOK, ReaderApart
  <2>q. QED BY <2>1, <2>2
<1>2. CASE WriterRaises
  <2>1. FlowTypeOK' /\ InRange' /\ TornOnlyByRace'
    BY <1>2, SMT DEF WriterRaises, FlowTypeOK, WriterAt, InRange, TornOnlyByRace
  <2>2. WriterWhole'
    BY <1>2, SMT DEF WriterRaises, FlowTypeOK, WriterWhole, Figures
  <2>3. ReaderApart'
    <3>1. ASSUME NEW q \in Readers
          PROVE  ~raced'[q] => ~raced[q] /\ rpc[q] # "mark"
      BY <1>2 DEF WriterRaises
    <3>2. UNCHANGED <<reading, figure, rpc, got>> /\ wpc = "raise"
      BY <1>2 DEF WriterRaises
    <3>q. QED BY <3>1, <3>2, SMT DEF ReaderApart
  <2>q. QED BY <2>1, <2>2, <2>3
<1>3. CASE WriterWrites
  <2>1. FlowTypeOK' /\ InRange' /\ TornOnlyByRace'
    BY <1>3, SMT DEF WriterWrites, FlowTypeOK, WriterAt, InRange, TornOnlyByRace
  <2>2. WriterWhole'
    BY <1>3, SMT DEF WriterWrites, FlowTypeOK, WriterWhole, Figures
  <2>3. ReaderApart'
    BY <1>3, SMT DEF WriterWrites, FlowTypeOK, WriterWhole, ReaderApart
  <2>q. QED BY <2>1, <2>2, <2>3
<1>4. CASE WriterLowers
  <2>1. FlowTypeOK' /\ InRange' /\ TornOnlyByRace'
    <3>1. writing' \in BOOLEAN /\ wpc' \in WriterAt
      BY <1>4 DEF WriterLowers, WriterAt
    <3>2. UNCHANGED <<reading, figure, wat, round, rpc, rat, rto, got, reads, raced>>
      BY <1>4 DEF WriterLowers
    <3>q. QED BY <3>1, <3>2 DEF FlowTypeOK, InRange, TornOnlyByRace
  <2>2. WriterWhole'
    <3>1. \A i \in Figures : i < wat
      BY <1>4, FlowAssumption, SMT DEF WriterLowers, FlowTypeOK, WriterWhole, Figures
    <3>q. QED BY <1>4, <3>1, SMT DEF WriterLowers, FlowTypeOK, WriterWhole
  <2>3. ReaderApart'
    BY <1>4, SMT DEF WriterLowers, FlowTypeOK, WriterWhole, ReaderApart
  <2>q. QED BY <2>1, <2>2, <2>3
<1>5. CASE WriterDies
  <2>1. FlowTypeOK' /\ InRange' /\ WriterWhole' /\ TornOnlyByRace'
    BY <1>5, SMT DEF WriterDies, FlowTypeOK, WriterAt, InRange, WriterWhole, TornOnlyByRace
  <2>2. ReaderApart'
    BY <1>5, SMT DEF WriterDies, FlowTypeOK, ReaderApart
  <2>q. QED BY <2>1, <2>2
<1>q. QED BY <1>1, <1>2, <1>3, <1>4, <1>5 DEF WriterStep

LEMMA FlowNextInv == FlowInv /\ [FlowNext]_flowvars => FlowInv'
<1> SUFFICES ASSUME FlowInv, [FlowNext]_flowvars PROVE FlowInv'
  OBVIOUS
<1>1. CASE WriterStep \/ WriterDies
  BY <1>1, WriterStepInv
<1>2. ASSUME NEW r \in Readers, ReaderStep(r) \/ ReaderDies(r) PROVE FlowInv'
  BY <1>2, ReaderStepInv
<1>3. ASSUME NEW r \in Readers,
             \/ bcm_get_all_txrx_average_rate_bps(r)
             \/ bcm_get_all_txrx_average_rate_pps(r)
             \/ \E port \in 1..FlowPorts :
                  \/ bcm_get_port_txrx_average_rate_bps(r, port)
                  \/ bcm_get_port_txrx_average_rate_pps(r, port)
      PROVE  FlowInv'
  <2>1. PICK from, to \in Figures : from <= to /\ Attach(r, from, to)
    BY <1>3, CallsAttach
  <2>q. QED BY <2>1, AttachInv
<1>4. CASE UNCHANGED flowvars
  BY <1>4, SMT DEF flowvars, FlowInv, FlowTypeOK, InRange, WriterWhole, ReaderApart, TornOnlyByRace
<1>q. QED BY <1>1, <1>2, <1>3, <1>4 DEF FlowNext

-----------------------------------------------------------------------------
\* The type invariant of the traffic figures (port.c:54-282): a reader never looks
\* outside the segment, however many there are.
THEOREM FlowTypeCorrect == FlowSpec => [](FlowTypeOK /\ InRange)
<1>1. FlowInv => FlowTypeOK /\ InRange
  BY DEF FlowInv
<1>q. QED BY <1>1, FlowInitInv, FlowNextInv, PTL DEF FlowSpec

\* The figures of one call are of one refresh, unless the daemon passed the flag of
\* this reader, or another reader lowered it (port.c:75-89).
THEOREM TornOnlyByRaceCorrect == FlowSpec => []TornOnlyByRace
<1>1. FlowInv => TornOnlyByRace
  BY DEF FlowInv
<1>q. QED BY <1>1, FlowInitInv, FlowNextInv, PTL DEF FlowSpec

-----------------------------------------------------------------------------
(* The trunk scan *)

\* While a scan goes on, the groups of its port are among those noted; as long as the
\* port was not moved they are these, and as long as no request failed none of them
\* has been passed.
ScanInv ==
  \A s \in Scanners : spc[s] = "scan" =>
    /\ sport[s] \notin maps[s]
    /\ GroupsOf(members, sport[s]) \subseteq been[s]
    /\ ~moved[s] => been[s] = GroupsOf(members, sport[s])
    /\ ~moved[s] /\ ~refused[s] => \A g \in been[s] : group[s] <= g

TrunkInv == TrunkTypeOK /\ ScanInv /\ TrunkGroupOfPort

LEMMA TrunkInitInv == TrunkInit => TrunkInv
<1> SUFFICES ASSUME TrunkInit PROVE TrunkInv
  OBVIOUS
<1>1. TrunkTypeOK
  <2>1. /\ members \in [Groups -> SUBSET TrunkPorts] /\ maps \in [Scanners -> SUBSET TrunkPorts]
        /\ been \in [Scanners -> SUBSET Groups]
        /\ refused \in [Scanners -> BOOLEAN] /\ moved \in [Scanners -> BOOLEAN]
        /\ spc \in [Scanners -> {"out", "scan", "return"}] /\ sport \in [Scanners -> TrunkPorts]
    BY DEF TrunkInit
  <2>2. group \in [Scanners -> 1..(TNUM + 1)] /\ answer \in [Scanners -> 0..TNUM]
    BY TrunkAssumption, SMT DEF TrunkInit
  <2>q. QED BY <2>1, <2>2 DEF TrunkTypeOK
<1>2. ScanInv /\ TrunkGroupOfPort
  BY SMT DEF TrunkInit, ScanInv, TrunkGroupOfPort
<1>q. QED BY <1>1, <1>2 DEF TrunkInv

\* Whatever the groups become, in one request.
LEMMA ChangeInv ==
  ASSUME TrunkInv, NEW m \in [Groups -> SUBSET TrunkPorts], Change(m)
  PROVE  TrunkInv'
<1> USE DEF TrunkInv
<1>1. UNCHANGED <<spc, sport, group, maps, answer, refused>> /\ members' = m
  BY DEF Change
<1>2. \A p : GroupsOf(m, p) \subseteq Groups
  BY DEF GroupsOf
<1>3. ASSUME NEW s \in Scanners
      PROVE  /\ been'[s] = IF spc[s] = "scan" THEN been[s] \union GroupsOf(m, sport[s]) ELSE been[s]
             /\ moved'[s] = (moved[s] \/ (spc[s] = "scan" /\
                               GroupsOf(m, sport[s]) # GroupsOf(members, sport[s])))
  BY DEF Change
<1>4. TrunkTypeOK'
  <2>1. been' \in [Scanners -> SUBSET Groups]
    BY <1>2, <1>3 DEF Change, TrunkTypeOK
  <2>2. moved' \in [Scanners -> BOOLEAN]
    BY DEF Change, TrunkTypeOK
  <2>q. QED BY <1>1, <2>1, <2>2 DEF TrunkTypeOK
<1>5. ScanInv'
  <2> SUFFICES ASSUME NEW s \in Scanners, spc[s] = "scan"
               PROVE  /\ sport[s] \notin maps[s]
                      /\ GroupsOf(m, sport[s]) \subseteq been'[s]
                      /\ ~moved'[s] => been'[s] = GroupsOf(m, sport[s])
                      /\ ~moved'[s] /\ ~refused[s] => \A g \in been'[s] : group[s] <= g
    BY <1>1 DEF ScanInv
  <2>1. been'[s] = been[s] \union GroupsOf(m, sport[s])
    BY <1>3
  <2>2. ~moved'[s] => ~moved[s] /\ GroupsOf(m, sport[s]) = GroupsOf(members, sport[s])
    BY <1>3
  <2>3. ~moved'[s] => been'[s] = been[s] /\ been[s] = GroupsOf(m, sport[s])
    BY <2>1, <2>2 DEF ScanInv
  <2>q. QED BY <2>1, <2>2, <2>3 DEF ScanInv
<1>6. TrunkGroupOfPort'
  <2>1. \A s \in Scanners : spc[s] = "return" => been'[s] = been[s] /\ (moved[s] => moved'[s])
    BY <1>3
  <2>q. QED BY <1>1, <2>1 DEF TrunkGroupOfPort
<1>q. QED BY <1>4, <1>5, <1>6

LEMMA RequestsChange ==
  ASSUME TrunkTypeOK,
         \/ \E g \in Groups :
              \/ \E enable \in BOOLEAN, p \in TrunkPorts : bcm_set_trunk_port(g, enable, p)
              \/ \E ports \in SUBSET TrunkPorts : bcm_trunk_set(g, ports)
              \/ bcm_trunk_disable(g)
         \/ bcm_trunk_remove_all
  PROVE  \E m \in [Groups -> SUBSET TrunkPorts] : Change(m)
<1>1. ASSUME NEW g \in Groups, NEW ports \in SUBSET TrunkPorts
      PROVE  [members EXCEPT ![g] = ports] \in [Groups -> SUBSET TrunkPorts]
  BY DEF TrunkTypeOK
<1>2. ASSUME NEW g \in Groups, NEW enable \in BOOLEAN, NEW p \in TrunkPorts,
             bcm_set_trunk_port(g, enable, p)
      PROVE  \E m \in [Groups -> SUBSET TrunkPorts] : Change(m)
  <2> DEFINE ports == IF enable THEN members[g] \union {p} ELSE members[g] \ {p}
  <2>1. ports \in SUBSET TrunkPorts
    BY DEF TrunkTypeOK
  <2>2. [members EXCEPT ![g] = IF enable THEN @ \union {p} ELSE @ \ {p}]
          = [members EXCEPT ![g] = ports]
    BY DEF TrunkTypeOK
  <2>3. Change([members EXCEPT ![g] = ports])
    BY <1>2, <2>2 DEF bcm_set_trunk_port
  <2>q. QED BY <1>1, <2>1, <2>3
<1>3. ASSUME NEW g \in Groups, NEW ports \in SUBSET TrunkPorts, bcm_trunk_set(g, ports)
      PROVE  \E m \in [Groups -> SUBSET TrunkPorts] : Change(m)
  BY <1>1, <1>3 DEF bcm_trunk_set
<1>4. ASSUME NEW g \in Groups, bcm_trunk_disable(g)
      PROVE  \E m \in [Groups -> SUBSET TrunkPorts] : Change(m)
  BY <1>1, <1>4 DEF bcm_trunk_disable
<1>5. ASSUME bcm_trunk_remove_all
      PROVE  \E m \in [Groups -> SUBSET TrunkPorts] : Change(m)
  <2>1. [g \in Groups |-> {}] \in [Groups -> SUBSET TrunkPorts]
    OBVIOUS
  <2>q. QED BY <1>5, <2>1 DEF bcm_trunk_remove_all
<1>q. QED BY <1>2, <1>3, <1>4, <1>5

\* The steps of a scan.
LEMMA ScanStepInv ==
  ASSUME TrunkInv, NEW s \in Scanners,
         BeginScan(s) \/ cli_get_port_trunk_status(s) \/ EndScan(s) \/ LeaveScan(s)
  PROVE  TrunkInv'
<1> USE DEF TrunkInv
<1>0. ASSUME UNCHANGED members, NEW p PROVE GroupsOf(members', p) = GroupsOf(members, p)
  BY <1>0
<1>1. CASE BeginScan(s)
  <2>1. UNCHANGED <<members, sport, answer>> /\ GroupsOf(members, sport[s]) \subseteq Groups
    BY <1>1 DEF BeginScan, GroupsOf
  <2>2. TrunkTypeOK'
    <3>1. been' \in [Scanners -> SUBSET Groups] /\ maps' \in [Scanners -> SUBSET TrunkPorts]
      BY <1>1, <2>1 DEF BeginScan, TrunkTypeOK
    <3>2. refused' \in [Scanners -> BOOLEAN] /\ moved' \in [Scanners -> BOOLEAN]
          /\ spc' \in [Scanners -> {"out", "scan", "return"}]
      BY <1>1 DEF BeginScan, TrunkTypeOK
    <3>3. group' \in [Scanners -> 1..(TNUM + 1)]
      BY <1>1, TrunkAssumption, SMT DEF BeginScan, TrunkTypeOK
    <3>q. QED BY <2>1, <3>1, <3>2, <3>3 DEF TrunkTypeOK
  <2>3. /\ group'[s] = 1 /\ maps'[s] = {} /\ ~moved'[s] /\ ~refused'[s] /\ spc'[s] = "scan"
        /\ been'[s] = GroupsOf(members, sport[s])
    BY <1>1 DEF BeginScan, TrunkTypeOK
  <2>4. \A g \in Groups : 1 <= g
    BY TrunkAssumption, SMT DEF Groups
  <2>5. ASSUME NEW q \in Scanners, q # s
        PROVE  /\ spc'[q] = spc[q] /\ group'[q] = group[q] /\ maps'[q] = maps[q]
               /\ refused'[q] = refused[q] /\ been'[q] = been[q] /\ moved'[q] = moved[q]
    BY <1>1, <2>5 DEF BeginScan, TrunkTypeOK
  <2>6. ScanInv'
    BY <2>1, <2>3, <2>4, <2>5, <1>0 DEF ScanInv
  <2>7. TrunkGroupOfPort'
    BY <2>1, <2>3, <2>5 DEF TrunkGroupOfPort
  <2>q. QED BY <2>2, <2>6, <2>7
<1>2. CASE cli_get_port_trunk_status(s)
  <2>1. UNCHANGED <<members, sport, been, moved>> /\ spc[s] = "scan" /\ group[s] <= TNUM
    BY <1>2 DEF cli_get_port_trunk_status
  <2>2. group[s] \in Groups /\ group[s] + 1 \in 1..(TNUM + 1)
    BY <2>1, TrunkAssumption, SMT DEF TrunkTypeOK, Groups
  <2>3. /\ sport[s] \notin maps[s] /\ GroupsOf(members, sport[s]) \subseteq been[s]
        /\ ~moved[s] => been[s] = GroupsOf(members, sport[s])
        /\ ~moved[s] /\ ~refused[s] => \A g \in been[s] : group[s] <= g
    BY <2>1 DEF ScanInv
  <2>4. ASSUME NEW q \in Scanners, q # s
        PROVE  /\ spc'[q] = spc[q] /\ group'[q] = group[q] /\ maps'[q] = maps[q]
               /\ answer'[q] = answer[q] /\ refused'[q] = refused[q]
    BY <1>2, <2>4 DEF cli_get_port_trunk_status, AskGroup, TrunkTypeOK
  <2>5. \/ maps'[s] = members[group[s]] /\ refused'[s] = refused[s]
        \/ maps'[s] = maps[s] /\ refused'[s]
    BY <1>2 DEF cli_get_port_trunk_status, TrunkTypeOK
  <2>6. AskGroup(s, maps'[s])
    BY <1>2 DEF cli_get_port_trunk_status
  <2>7. TrunkTypeOK'
    <3>1. maps' \in [Scanners -> SUBSET TrunkPorts] /\ refused' \in [Scanners -> BOOLEAN]
      BY <1>2, <2>2 DEF cli_get_port_trunk_status, TrunkTypeOK
    <3>2. /\ group' \in [Scanners -> 1..(TNUM + 1)] /\ answer' \in [Scanners -> 0..TNUM]
          /\ spc' \in [Scanners -> {"out", "scan", "return"}]
      <4>1. group[s] \in 0..TNUM
        BY <2>2, TrunkAssumption, SMT DEF Groups
      <4>2. CASE sport[s] \in maps'[s]
        <5>1. /\ spc' = [spc EXCEPT ![s] = "return"] /\ answer' = [answer EXCEPT ![s] = group[s]]
              /\ UNCHANGED group
          BY <2>1, <2>6, <4>2 DEF AskGroup
        <5>q. QED BY <4>1, <5>1 DEF TrunkTypeOK
      <4>3. CASE sport[s] \notin maps'[s]
        <5>1. UNCHANGED <<spc, answer>> /\ group' = [group EXCEPT ![s] = group[s] + 1]
          BY <2>1, <2>6, <4>3 DEF AskGroup
        <5>q. QED BY <2>2, <5>1 DEF TrunkTypeOK
      <4>q. QED BY <4>2, <4>3
    <3>q. QED BY <2>1, <3>1, <3>2 DEF TrunkTypeOK
  <2>8. CASE sport[s] \in maps'[s]
    <3>1. spc'[s] = "return" /\ answer'[s] = group[s] /\ UNCHANGED group
      BY <2>6, <2>8 DEF AskGroup, TrunkTypeOK
    <3>2. group[s] \in been[s] /\ group[s] # 0
      BY <2>2, <2>3, <2>5, <2>8, SMT DEF GroupsOf, Groups
    <3>3. ScanInv'
      BY <2>1, <2>4, <3>1, <1>0 DEF ScanInv
    <3>4. TrunkGroupOfPort'
      BY <2>1, <2>4, <2>8, <3>1, <3>2 DEF TrunkGroupOfPort
    <3>q. QED BY <2>7, <3>3, <3>4
  <2>9. CASE sport[s] \notin maps'[s]
    <3>1. UNCHANGED <<spc, answer>> /\ group'[s] = group[s] + 1
      BY <2>6, <2>9 DEF AskGroup, TrunkTypeOK
    <3>2. ~moved[s] /\ ~refused'[s] => \A g \in been[s] : group'[s] <= g
      <4> SUFFICES ASSUME ~moved[s], ~refused'[s], NEW g \in been[s] PROVE group'[s] <= g
        OBVIOUS
      <4>1. g \in Groups /\ sport[s] \in members[g] /\ group[s] <= g
        BY <2>3, <2>5 DEF GroupsOf
      <4>2. g # group[s]
        BY <2>5, <2>9, <4>1
      <4>q. QED BY <2>2, <3>1, <4>1, <4>2, TrunkAssumption, SMT DEF Groups
    <3>3. ScanInv'
      BY <2>1, <2>3, <2>4, <2>9, <3>1, <3>2, <1>0 DEF ScanInv
    <3>4. TrunkGroupOfPort'
      BY <2>1, <2>4, <3>1 DEF TrunkGroupOfPort
    <3>q. QED BY <2>7, <3>3, <3>4
  <2>q. QED BY <2>8, <2>9
<1>3. CASE EndScan(s)
  <2>1. UNCHANGED <<members, sport, group, maps, refused, been, moved>> /\ spc[s] = "scan"
    BY <1>3 DEF EndScan
  <2>2. TrunkTypeOK'
    <3>1. spc' \in [Scanners -> {"out", "scan", "return"}]
      BY <1>3 DEF EndScan, TrunkTypeOK
    <3>2. answer' \in [Scanners -> 0..TNUM]
      BY <1>3, TrunkAssumption, SMT DEF EndScan, TrunkTypeOK
    <3>q. QED BY <2>1, <3>1, <3>2 DEF TrunkTypeOK
  <2>3. spc'[s] = "return" /\ answer'[s] = 0
    BY <1>3 DEF EndScan, TrunkTypeOK
  <2>4. ASSUME NEW q \in Scanners, q # s PROVE spc'[q] = spc[q] /\ answer'[q] = answer[q]
    BY <1>3, <2>4 DEF EndScan, TrunkTypeOK
  <2>5. refused[s] \/ moved[s] \/ been[s] = {}
    <3> SUFFICES ASSUME ~refused[s], ~moved[s], NEW g \in been[s] PROVE FALSE
      OBVIOUS
    <3>1. g \in Groups /\ group[s] <= g
      BY <2>1 DEF ScanInv, TrunkTypeOK
    <3>2. group[s] \in 1..(TNUM + 1) /\ group[s] > TNUM
      BY <1>3 DEF EndScan, TrunkTypeOK
    <3>q. QED BY <3>1, <3>2, TrunkAssumption, SMT DEF Groups
  <2>6. ScanInv'
    BY <2>1, <2>3, <2>4, <1>0 DEF ScanInv
  <2>7. TrunkGroupOfPort'
    BY <2>1, <2>3, <2>4, <2>5 DEF TrunkGroupOfPort
  <2>q. QED BY <2>2, <2>6, <2>7
<1>4. CASE LeaveScan(s)
  <2>1. UNCHANGED <<members, sport, group, maps, answer, refused, been, moved>>
    BY <1>4 DEF LeaveScan
  <2>2. TrunkTypeOK'
    BY <1>4, <2>1 DEF LeaveScan, TrunkTypeOK
  <2>3. spc'[s] = "out" /\ \A q \in Scanners : q # s => spc'[q] = spc[q]
    BY <1>4 DEF LeaveScan, TrunkTypeOK
  <2>4. ScanInv'
    BY <2>1, <2>3, <1>0 DEF ScanInv
  <2>5. TrunkGroupOfPort'
    BY <2>1, <2>3 DEF TrunkGroupOfPort
  <2>q. QED BY <2>2, <2>4, <2>5
<1>q. QED BY <1>1, <1>2, <1>3, <1>4

LEMMA TrunkNextInv == TrunkInv /\ [TrunkNext]_trunkvars => TrunkInv'
<1> SUFFICES ASSUME TrunkInv, [TrunkNext]_trunkvars PROVE TrunkInv'
  OBVIOUS
<1>1. ASSUME NEW s \in Scanners,
             BeginScan(s) \/ cli_get_port_trunk_status(s) \/ EndScan(s) \/ LeaveScan(s)
      PROVE  TrunkInv'
  BY <1>1, ScanStepInv
<1>2. CASE \/ \E g \in Groups :
                \/ \E enable \in BOOLEAN, p \in TrunkPorts : bcm_set_trunk_port(g, enable, p)
                \/ \E ports \in SUBSET TrunkPorts : bcm_trunk_set(g, ports)
                \/ bcm_trunk_disable(g)
           \/ bcm_trunk_remove_all
  <2>1. PICK m \in [Groups -> SUBSET TrunkPorts] : Change(m)
    BY <1>2, RequestsChange DEF TrunkInv
  <2>q. QED BY <2>1, ChangeInv
<1>3. CASE UNCHANGED trunkvars
  BY <1>3 DEF trunkvars, TrunkInv, TrunkTypeOK, ScanInv, TrunkGroupOfPort, GroupsOf
<1>q. QED BY <1>1, <1>2, <1>3 DEF TrunkNext

\* The type invariant of the trunk scan, for any scanners, ports and groups.
THEOREM TrunkTypeCorrect == TrunkSpec => []TrunkTypeOK
<1>1. TrunkInv => TrunkTypeOK
  BY DEF TrunkInv
<1>q. QED BY <1>1, TrunkInitInv, TrunkNextInv, PTL DEF TrunkSpec

\* The group bcm_get_port_trunk_member answers held the port during the call, whatever
\* the other processes do and whichever requests fail (trunk.c:33-49).
THEOREM TrunkGroupOfPortCorrect == TrunkSpec => []TrunkGroupOfPort
<1>1. TrunkInv => TrunkGroupOfPort
  BY DEF TrunkInv
<1>q. QED BY <1>1, TrunkInitInv, TrunkNextInv, PTL DEF TrunkSpec
-----------------------------------------------------------------------------
(* The clock *)

\* Milliseconds at half h, before they are cut to 32 bits.
Millis(h) == (h \div 2) + (h % 2)

ClockInv ==
  /\ halves \in Nat /\ since \in Nat /\ since <= halves
  /\ started = Millis(since) % Width

\* What a remainder is, and that there is only one.
LEMMA RemainderUnique ==
  ASSUME NEW q \in Int, NEW r \in Nat, NEW p \in Int, NEW t \in Nat,
         r < Width, t < Width, Width * q + r = Width * p + t
  PROVE  r = t
<1> Width \in Nat \ {0, 1}
  BY ClockAssumption
<1>1. CASE q = p
  BY <1>1, SMT
<1>2. CASE q < p
  <2>1. PICK d \in Nat : p = q + 1 + d
    <3>1. p - q - 1 \in Nat /\ p = q + 1 + (p - q - 1)
      BY <1>2, SMT
    <3>q. QED BY <3>1
  <2>2. Width * p = Width * q + Width + Width * d
    BY <2>1, SMT
  <2>3. Width * d >= 0
    BY SMT
  <2>q. QED BY <2>2, <2>3, SMT
<1>3. CASE p < q
  <2>1. PICK d \in Nat : q = p + 1 + d
    <3>1. q - p - 1 \in Nat /\ q = p + 1 + (q - p - 1)
      BY <1>3, SMT
    <3>q. QED BY <3>1
  <2>2. Width * q = Width * p + Width + Width * d
    BY <2>1, SMT
  <2>3. Width * d >= 0
    BY SMT
  <2>q. QED BY <2>2, <2>3, SMT
<1>q. QED BY <1>1, <1>2, <1>3, SMT

LEMMA DivisionOf ==
  ASSUME NEW x \in Nat
  PROVE  /\ x \div Width \in Int /\ x % Width \in Nat /\ x % Width < Width
         /\ x = Width * (x \div Width) + (x % Width)
BY ClockAssumption, SMT

\* A little later the remainder is as much greater, or has wrapped once.
LEMMA RemainderLater ==
  ASSUME NEW x \in Nat, NEW d \in Nat, d < Width
  PROVE  (x + d) % Width = IF (x % Width) + d < Width THEN (x % Width) + d
                            ELSE (x % Width) + d - Width
<1> Width \in Nat \ {0, 1}
  BY ClockAssumption
<1> DEFINE q == x \div Width
           r == x % Width
           p == (x + d) \div Width
           t == (x + d) % Width
<1>1. q \in Int /\ r \in Nat /\ r < Width /\ x = Width * q + r
  BY DivisionOf
<1>2. x + d \in Nat
  BY SMT
<1>3. p \in Int /\ t \in Nat /\ t < Width /\ x + d = Width * p + t
  BY <1>2, DivisionOf
<1> HIDE DEF q, r, p, t
<1>4. CASE r + d < Width
  <2>1. r + d \in Nat /\ Width * q + (r + d) = Width * p + t
    BY <1>1, <1>3, SMT
  <2>2. r + d = t
    BY <1>1, <1>3, <1>4, <2>1, RemainderUnique
  <2>q. QED BY <1>4, <2>2 DEF r, t
<1>5. CASE ~(r + d < Width)
  <2>1. r + d - Width \in Nat /\ r + d - Width < Width
    BY <1>1, <1>5, SMT
  <2>2. Width * (q + 1) = Width * q + Width /\ q + 1 \in Int
    BY <1>1, SMT
  <2>3. Width * q \in Int /\ Width * p \in Int
    BY <1>1, <1>3, SMT
  <2>4. Width * (q + 1) + (r + d - Width) = Width * p + t
    BY <1>1, <1>3, <2>2, <2>3, SMT
  <2>5. r + d - Width = t
    BY <1>3, <2>1, <2>2, <2>4, RemainderUnique
  <2>q. QED BY <1>5, <2>5 DEF r, t
<1>q. QED BY <1>4, <1>5

LEMMA MillisLater ==
  ASSUME NEW s \in Nat, NEW h \in Nat, s <= h
  PROVE  /\ Millis(s) \in Nat /\ Millis(h) \in Nat /\ Millis(s) <= Millis(h)
         /\ 2 * (Millis(h) - Millis(s)) - (h - s) \in {-1, 0, 1}
BY SMT DEF Millis

LEMMA ClockStep ==
  /\ ClockInit => ClockInv
  /\ ClockInv /\ [ClockNext]_clockvars => ClockInv'
<1>1. ClockInit => ClockInv
  BY ClockAssumption, SMT DEF ClockInit, ClockInv, CurrentTime, Millis
<1>2. ASSUME ClockInv, [ClockNext]_clockvars PROVE ClockInv'
  BY <1>2, SMT DEF ClockInv, ClockNext, ClockTicks, TakeStartTime, clockvars, CurrentTime, Millis
<1>q. QED BY <1>1, <1>2

\* A limit sees the time that passed, on a clock of any width (SPP_Util.c:83-91), as
\* long as less than the range of the clock has passed.
THEOREM ElapsedIsRealCorrect == ClockSpec => []ElapsedIsReal
<1>1. ClockInv => ElapsedIsReal
  <2> SUFFICES ASSUME ClockInv, halves - since < 2 * (Width - 1)
               PROVE  2 * ElapsedTime(started) - (halves - since) \in {-1, 0, 1}
    BY DEF ElapsedIsReal
  <2> Width \in Nat \ {0, 1}
    BY ClockAssumption
  <2> DEFINE x == Millis(since)
             d == Millis(halves) - Millis(since)
  <2>1. halves \in Nat /\ since \in Nat /\ since <= halves /\ started = x % Width
    BY DEF ClockInv
  <2>2. /\ x \in Nat /\ d \in Nat /\ x + d = Millis(halves)
        /\ 2 * d - (halves - since) \in {-1, 0, 1}
    <3>1. /\ Millis(since) \in Nat /\ Millis(halves) \in Nat /\ Millis(since) <= Millis(halves)
          /\ 2 * (Millis(halves) - Millis(since)) - (halves - since) \in {-1, 0, 1}
      BY <2>1, MillisLater
    <3>2. x \in Nat /\ d \in Nat /\ x + d = Millis(halves)
      BY <3>1, SMT
    <3>q. QED BY <3>1, <3>2
  <2> HIDE DEF x, d
  <2>3. d < Width
    BY <2>1, <2>2, SMT
  <2>4. CurrentTime = (x + d) % Width
    BY <2>2 DEF CurrentTime, Millis
  <2>5. x % Width \in Nat /\ x % Width < Width
    BY <2>2, DivisionOf
  <2>6. CurrentTime = IF started + d < Width THEN started + d ELSE started + d - Width
    BY <2>1, <2>2, <2>3, <2>4, RemainderLater
  <2>7. ElapsedTime(started) = d
    BY <2>1, <2>2, <2>3, <2>5, <2>6, SMT DEF ElapsedTime
  <2>q. QED BY <2>2, <2>7
<1>q. QED BY <1>1, ClockStep, PTL DEF ClockSpec

-----------------------------------------------------------------------------
(* Calls on the switch chip: the tables *)

\* No function makes two requests.
LEMMA OneRequest ==
  ASSUME NEW c \in Calls, NEW d \in Calls, c[1] = d[1]
  PROVE  c = d
BY SMTT(60) DEF Calls, StpCalls, MstpCalls, AclCalls, AclMoreCalls, VlanCalls, VlanTableCalls,
     DoubleTagCalls, PortBasedCalls, CounterCalls, PortCalls, PortSetCalls, PortFrameCalls,
     MacLimitCalls, MacCalls, MacDeleteCalls, QosCalls, TrunkCalls, LinkCalls, RateCalls,
     HostCalls, RouteCalls, Ipv6Calls, MirrorCalls, MulticastCalls, MulticastMoreCalls,
     GroupCalls, I2cCalls, AuthCalls, TrustCalls, ControlCalls, RegisterCalls

\* But for the misleading ones, the functions that are named for a question make the
\* requests that read the register they are about, and no others do.
LEMMA AskersRead ==
  ASSUME NEW c \in Calls, c[1] \notin Misleading,
         NEW r \in Registers, c[2] \in Requests(r)
  PROVE  c[1] \in Asks <=> c[2] \in r.get
BY SMTT(60) DEF Calls, StpCalls, MstpCalls, AclCalls, AclMoreCalls, VlanCalls, VlanTableCalls,
     DoubleTagCalls, PortBasedCalls, CounterCalls, PortCalls, PortSetCalls, PortFrameCalls,
     MacLimitCalls, MacCalls, MacDeleteCalls, QosCalls, TrunkCalls, LinkCalls, RateCalls,
     HostCalls, RouteCalls, Ipv6Calls, MirrorCalls, MulticastCalls, MulticastMoreCalls,
     GroupCalls, I2cCalls, AuthCalls, TrustCalls, ControlCalls, RegisterCalls,
     Misleading, Asks, Registers, Requests, Reg,
     Stubs, SpiStubs, TrunkStubs, CounterStubs, ArpRateStubs, MirrorStubs, AuthStubs,
     RateStubs, Dhcp6Stubs, MacStubs, PortStubs, GmrpStubs, RouteStubs

\* And of the others, those that are named for a removal make those that clear it.
LEMMA RemoversClear ==
  ASSUME NEW c \in Calls, c[1] \notin Misleading, c[1] \notin Asks,
         NEW r \in Registers, c[2] \in Requests(r)
  PROVE  c[1] \in Removes <=> c[2] \in r.clear
BY SMTT(60) DEF Calls, StpCalls, MstpCalls, AclCalls, AclMoreCalls, VlanCalls, VlanTableCalls,
     DoubleTagCalls, PortBasedCalls, CounterCalls, PortCalls, PortSetCalls, PortFrameCalls,
     MacLimitCalls, MacCalls, MacDeleteCalls, QosCalls, TrunkCalls, LinkCalls, RateCalls,
     HostCalls, RouteCalls, Ipv6Calls, MirrorCalls, MulticastCalls, MulticastMoreCalls,
     GroupCalls, I2cCalls, AuthCalls, TrustCalls, ControlCalls, RegisterCalls,
     Misleading, Asks, Removes, Registers, Requests, Reg,
     Stubs, SpiStubs, TrunkStubs, CounterStubs, ArpRateStubs, MirrorStubs, AuthStubs,
     RateStubs, Dhcp6Stubs, MacStubs, PortStubs, GmrpStubs, RouteStubs

\* A function that reaches its request is in the table, with a request about the
\* register.
LEMMA RequestAbout ==
  ASSUME NEW r \in Registers, NEW f \in FunctionsOn(r), f \notin Stubs
  PROVE  \E c \in Calls : c[1] = f /\ c[2] \in Requests(r) /\ Request(f) = c[2]
<1>1. PICK c \in Calls : c[1] = f /\ c[2] \in Requests(r)
  BY DEF FunctionsOn
<1> DEFINE d == CHOOSE e \in Calls : e[1] = f
<1>2. d \in Calls /\ d[1] = f
  BY <1>1
<1> HIDE DEF d
<1>3. d = c
  BY <1>1, <1>2, OneRequest
<1>4. Request(f) = d[2]
  BY DEF Request, d
<1>q. QED BY <1>1, <1>3, <1>4

-----------------------------------------------------------------------------
(* Calls on the switch chip: the inductive invariant *)

UnderWay == {"open", "reopen", "request"}

SwitchTyped ==
  /\ reg \in Registers
  /\ at \in [Callers -> {"out", "return"} \cup UnderWay]
  /\ DOMAIN fn = Callers /\ DOMAIN arg = Callers /\ DOMAIN out = Callers
  /\ DOMAIN res = Callers /\ DOMAIN told = Callers
  /\ overtaken \in [Callers -> BOOLEAN]

\* A call that has a request to make is about the register.
AboutRegister ==
  \A p \in Callers : at[p] \in UnderWay => fn[p] \in FunctionsOn(reg) /\ fn[p] \notin Stubs

\* What p goes by once its call has returned: while the call is under way, what it went by
\* before; at the end of a call, what its result says.
Goes(p) == IF at[p] = "return" THEN Told(p) ELSE told[p]

Right(p) == Goes(p) # Nothing /\ ~overtaken[p] => chip = Goes(p)

SwitchInv == SwitchTyped /\ AboutRegister /\ \A p \in Callers : Right(p)

LEMMA SwitchInitInv == SwitchInit => SwitchInv
<1> SUFFICES ASSUME SwitchInit PROVE SwitchInv
  OBVIOUS
<1>1. SwitchTyped
  BY DEF SwitchInit, SwitchTyped, UnderWay
<1>2. AboutRegister
  BY DEF SwitchInit, AboutRegister, UnderWay
<1>3. \A p \in Callers : Right(p)
  BY DEF SwitchInit, Right, Goes
<1>q. QED BY <1>1, <1>2, <1>3 DEF SwitchInv

\* A step of caller p leaves the others where they are, so that they stay right if it
\* leaves the chip too, or overtakes them.
LEMMA OthersStay ==
  ASSUME SwitchInv, SwitchTyped', NEW p \in Callers, reg' = reg,
         \A q \in Callers \ {p} :
           /\ at'[q] = at[q] /\ fn'[q] = fn[q] /\ arg'[q] = arg[q]
           /\ out'[q] = out[q] /\ res'[q] = res[q] /\ told'[q] = told[q]
           /\ overtaken'[q] \/ (chip' = chip /\ overtaken'[q] = overtaken[q]),
         at'[p] \in UnderWay => fn'[p] \in FunctionsOn(reg) /\ fn'[p] \notin Stubs,
         Right(p)'
  PROVE  SwitchInv'
<1>1. AboutRegister'
  BY DEF SwitchInv, AboutRegister
<1>2. ASSUME NEW q \in Callers PROVE Right(q)'
  <2>1. CASE q = p
    BY <2>1
  <2>2. CASE q # p
    <3>1. Goes(q)' = Goes(q)
      BY <2>2 DEF Goes, Told
    <3>2. overtaken'[q] \/ (chip' = chip /\ overtaken'[q] = overtaken[q])
      BY <2>2
    <3>3. Right(q)
      BY DEF SwitchInv
    <3>q. QED BY <3>1, <3>2, <3>3 DEF Right
  <2>q. QED BY <2>1, <2>2
<1>q. QED BY <1>1, <1>2 DEF SwitchInv

LEMMA CallSwitchInv ==
  ASSUME SwitchInv, NEW p \in Callers, CallSwitch(p)
  PROVE  SwitchInv'
<1>1. SwitchTyped'
  BY DEF CallSwitch, SwitchInv, SwitchTyped, UnderWay
<1>2. PICK f \in FunctionsOn(reg), v \in Values :
        /\ fn' = [fn EXCEPT ![p] = f]
        /\ arg' = [arg EXCEPT ![p] = v]
        /\ \/ /\ f \notin Stubs
              /\ at' = [at EXCEPT ![p] = IF f \in OpensDevice THEN "open" ELSE "request"]
              /\ UNCHANGED res
           \/ /\ f \in Stubs \union {"get_port_stp_status"}
              /\ at' = [at EXCEPT ![p] = "return"]
              /\ UNCHANGED res
           \/ /\ f = "get_port_txrx_status"
              /\ at' = [at EXCEPT ![p] = "return"]
              /\ res' = [res EXCEPT ![p] = -1]
  BY DEF CallSwitch
<1>3. UNCHANGED <<reg, chip, out, told, overtaken>>
  BY DEF CallSwitch
<1>4. fn'[p] = f /\ at[p] = "out"
  BY <1>2 DEF CallSwitch, SwitchInv, SwitchTyped
<1>5. at'[p] \in UnderWay => f \notin Stubs
  BY <1>2 DEF SwitchInv, SwitchTyped, UnderWay
<1>6. at'[p] = "return" => f \in Misleading
  BY <1>2 DEF SwitchInv, SwitchTyped, Misleading
<1>7. \A q \in Callers \ {p} : /\ at'[q] = at[q] /\ fn'[q] = fn[q] /\ arg'[q] = arg[q]
                              /\ out'[q] = out[q] /\ res'[q] = res[q] /\ told'[q] = told[q]
  BY <1>2, <1>3 DEF SwitchInv, SwitchTyped
<1>8. Right(p)'
  <2>1. Goes(p)' \in {Nothing, told[p]} /\ Goes(p) = told[p]
    BY <1>3, <1>4, <1>6 DEF Goes, Told
  <2>q. QED BY <1>3, <2>1 DEF SwitchInv, Right
<1>q. QED BY <1>1, <1>3, <1>4, <1>5, <1>7, <1>8, OthersStay

\* A failed open is reported, and a descriptor that is open is there for the request.
LEMMA OpenInv ==
  ASSUME SwitchInv, NEW p \in Callers, Open(p) \/ OpenAgain(p)
  PROVE  SwitchInv'
<1>1. SwitchTyped'
  BY DEF Open, OpenAgain, SwitchInv, SwitchTyped, UnderWay
<1>2. UNCHANGED <<reg, chip, fn, arg, out, told, overtaken>>
  BY DEF Open, OpenAgain
<1>3. fn[p] \in FunctionsOn(reg) /\ fn[p] \notin Stubs /\ at[p] # "return"
  BY DEF Open, OpenAgain, SwitchInv, AboutRegister, UnderWay
<1>4. at'[p] = "return" => res'[p] = -1
  BY DEF Open, OpenAgain, SwitchInv, SwitchTyped
<1>5. \A q \in Callers \ {p} : /\ at'[q] = at[q] /\ fn'[q] = fn[q] /\ arg'[q] = arg[q]
                              /\ out'[q] = out[q] /\ res'[q] = res[q] /\ told'[q] = told[q]
  BY <1>2 DEF Open, OpenAgain, SwitchInv, SwitchTyped
<1>6. Right(p)'
  <2>1. Goes(p)' \in {Nothing, told[p]} /\ Goes(p) = told[p]
    BY <1>2, <1>3, <1>4 DEF Goes, Told
  <2>q. QED BY <1>2, <2>1 DEF SwitchInv, Right
<1>q. QED BY <1>1, <1>2, <1>3, <1>4, <1>5, <1>6, OthersStay

\* What the request does is what the function is named for.
LEMMA RequestDoneInv ==
  ASSUME SwitchInv, NEW p \in Callers, RequestDone(p)
  PROVE  SwitchInv'
<1>1. UNCHANGED <<reg, fn, arg, told>> /\ at' = [at EXCEPT ![p] = "return"]
  BY DEF RequestDone
<1>2. at[p] = "request" /\ fn[p] \in FunctionsOn(reg) /\ fn[p] \notin Stubs
  BY DEF RequestDone, SwitchInv, AboutRegister, UnderWay
<1>3. PICK c \in Calls : c[1] = fn[p] /\ c[2] \in Requests(reg) /\ Request(fn[p]) = c[2]
  BY <1>2, RequestAbout DEF SwitchInv, SwitchTyped
<1>4. IF c[2] \in reg.get
      THEN /\ \E v \in Answers(fn[p], chip) : out' = [out EXCEPT ![p] = v]
           /\ overtaken' = [overtaken EXCEPT ![p] = FALSE] /\ UNCHANGED chip
      ELSE /\ chip' \in IF c[2] \in reg.clear THEN {Cleared} ELSE Written(fn[p], arg[p])
           /\ overtaken' = [q \in Callers |-> q # p] /\ UNCHANGED out
  BY <1>3 DEF RequestDone
<1>5. PICK r \in Granted(fn[p]) : res' = [res EXCEPT ![p] = r]
  BY DEF RequestDone
<1>6. SwitchTyped'
  <2>1. overtaken' \in [Callers -> BOOLEAN] /\ DOMAIN out' = Callers
    BY <1>4 DEF SwitchInv, SwitchTyped
  <2>2. DOMAIN res' = Callers
    BY <1>5 DEF SwitchInv, SwitchTyped
  <2>3. at' \in [Callers -> {"out", "return"} \cup UnderWay]
    BY <1>1 DEF SwitchInv, SwitchTyped
  <2>q. QED BY <1>1, <2>1, <2>2, <2>3 DEF SwitchInv, SwitchTyped
<1>7. fn'[p] = fn[p] /\ at'[p] = "return"
  BY <1>1 DEF SwitchInv, SwitchTyped
<1>8. Right(p)'
  <2>1. CASE fn[p] \in Misleading
    BY <1>7, <2>1 DEF Right, Goes, Told
  <2>2. CASE fn[p] \notin Misleading
    <3>1. r = 0 /\ Answers(fn[p], chip) = {chip} /\ Written(fn[p], arg[p]) = {arg[p]}
      BY <2>2, SMT DEF Granted, Answers, Written, Misleading
    <3>2. res'[p] = 0
      BY <1>5, <3>1 DEF SwitchInv, SwitchTyped
    <3>3. fn[p] \in Asks <=> c[2] \in reg.get
      BY <1>3, <2>2, AskersRead DEF SwitchInv, SwitchTyped
    <3>4. CASE fn[p] \in Asks
      <4>1. chip' = chip /\ out'[p] = chip
        BY <1>4, <3>1, <3>3, <3>4 DEF SwitchInv, SwitchTyped
      <4>2. Goes(p)' = out'[p]
        BY <1>7, <2>2, <3>2, <3>4 DEF Goes, Told
      <4>q. QED BY <4>1, <4>2 DEF Right
    <3>5. CASE fn[p] \notin Asks
      <4>1. fn[p] \in Removes <=> c[2] \in reg.clear
        BY <1>3, <2>2, <3>5, RemoversClear DEF SwitchInv, SwitchTyped
      <4>2. chip' = IF fn[p] \in Removes THEN Cleared ELSE arg[p]
        BY <1>4, <3>1, <3>3, <3>5, <4>1
      <4>3. Goes(p)' = IF fn[p] \in Removes THEN Cleared ELSE arg[p]
        BY <1>1, <1>7, <2>2, <3>2, <3>5 DEF Goes, Told
      <4>q. QED BY <4>2, <4>3 DEF Right
    <3>q. QED BY <3>4, <3>5
  <2>q. QED BY <2>1, <2>2
<1>9. ASSUME NEW q \in Callers \ {p}
      PROVE  /\ at'[q] = at[q] /\ fn'[q] = fn[q] /\ arg'[q] = arg[q]
             /\ out'[q] = out[q] /\ res'[q] = res[q] /\ told'[q] = told[q]
             /\ overtaken'[q] \/ (chip' = chip /\ overtaken'[q] = overtaken[q])
  <2>1. at'[q] = at[q] /\ fn'[q] = fn[q] /\ arg'[q] = arg[q] /\ told'[q] = told[q]
    BY <1>1 DEF SwitchInv, SwitchTyped
  <2>2. res'[q] = res[q]
    BY <1>5 DEF SwitchInv, SwitchTyped
  <2>3. CASE c[2] \in reg.get
    BY <1>4, <2>1, <2>2, <2>3 DEF SwitchInv, SwitchTyped
  <2>4. CASE c[2] \notin reg.get
    BY <1>4, <2>1, <2>2, <2>4 DEF SwitchInv, SwitchTyped
  <2>q. QED BY <2>3, <2>4
<1>q. QED BY <1>1, <1>6, <1>7, <1>8, <1>9, OthersStay DEF UnderWay

\* A refused request is reported, but by the functions that are named; a call that
\* returns leaves its caller with what its result says.
LEMMA RefusedOrLeftInv ==
  ASSUME SwitchInv, NEW p \in Callers, RequestRefused(p) \/ ReturnFromSwitch(p)
  PROVE  SwitchInv'
<1>1. SwitchTyped'
  BY DEF RequestRefused, ReturnFromSwitch, SwitchInv, SwitchTyped, UnderWay
<1>2. UNCHANGED <<reg, chip, overtaken>>
  BY DEF RequestRefused, ReturnFromSwitch
<1>3. at'[p] \notin UnderWay
  BY DEF RequestRefused, ReturnFromSwitch, SwitchInv, SwitchTyped, UnderWay
<1>4. Goes(p)' \in {Nothing, Goes(p)}
  <2>1. CASE RequestRefused(p)
    <3>1. at[p] = "request" /\ at'[p] = "return" /\ UNCHANGED <<fn, told>>
      BY <2>1 DEF RequestRefused, SwitchInv, SwitchTyped
    <3>2. fn[p] \notin Misleading => res'[p] = -1
      BY <2>1 DEF RequestRefused, Refused, Misleading, SwitchInv, SwitchTyped
    <3>q. QED BY <3>1, <3>2 DEF Goes, Told
  <2>2. CASE ReturnFromSwitch(p)
    <3>1. at[p] = "return" /\ at'[p] = "out" /\ told'[p] = Told(p)
      BY <2>2 DEF ReturnFromSwitch, SwitchInv, SwitchTyped
    <3>q. QED BY <3>1 DEF Goes
  <2>q. QED BY <2>1, <2>2
<1>5. \A q \in Callers \ {p} : /\ at'[q] = at[q] /\ fn'[q] = fn[q] /\ arg'[q] = arg[q]
                              /\ out'[q] = out[q] /\ res'[q] = res[q] /\ told'[q] = told[q]
  BY DEF RequestRefused, ReturnFromSwitch, SwitchInv, SwitchTyped
<1>6. Right(p)'
  BY <1>2, <1>4 DEF SwitchInv, Right
<1>q. QED BY <1>1, <1>2, <1>3, <1>5, <1>6, OthersStay

LEMMA SwitchNextInv == SwitchInv /\ [SwitchNext]_switchvars => SwitchInv'
<1> SUFFICES ASSUME SwitchInv, [SwitchNext]_switchvars PROVE SwitchInv'
  OBVIOUS
<1>1. CASE SwitchNext
  BY <1>1, CallSwitchInv, OpenInv, RequestDoneInv, RefusedOrLeftInv DEF SwitchNext
<1>2. CASE UNCHANGED switchvars
  BY <1>2 DEF switchvars, SwitchInv, SwitchTyped, AboutRegister, Right, Goes, Told
<1>q. QED BY <1>1, <1>2

\* For any processes, values and sequences of calls, failures and refusals, the chip
\* holds what the calls of a process reported, as long as no other one writes there and
\* it keeps off the functions that Misleading names.
THEOREM ReportedIsHeldCorrect == SwitchSpec => []ReportedIsHeld
<1>1. SwitchInv => ReportedIsHeld
  BY DEF SwitchInv, Right, Goes, ReportedIsHeld
<1>q. QED BY <1>1, SwitchInitInv, SwitchNextInv, PTL DEF SwitchSpec

-----------------------------------------------------------------------------
(* The sets of ports: every conversion keeps the set.  The loop that writes a list is *)
(* a recursive function; what it computes is proved by induction over its passes.     *)

LEMMA PortNumbers ==
  PNUM \in Nat \ {0} /\ PNUM <= 28 /\ GNUM \in 1..PNUM /\ XPORT \in {0, 1} /\ MaxItems \in Nat
BY PortAssumption DEF LastPort

LEMMA PhyIdentity ==
  ASSUME NEW i \in AllPorts PROVE phy[i] = i
BY PortNumbers DEF phy, LastPort, AllPorts

ListStates == [out : Seq(Nat \X Nat), last : BOOLEAN, run : Nat]

LEMMA CloseItemStays ==
  ASSUME NEW items \in Seq(Nat \X Nat), NEW hi \in Nat
  PROVE  /\ CloseItem(items, hi) \in Seq(Nat \X Nat)
         /\ Len(CloseItem(items, hi)) = Len(items)
         /\ \A j \in 1..Len(items) :
              CloseItem(items, hi)[j] = IF j = Len(items) THEN <<items[j][1], hi>> ELSE items[j]
<1>1. CASE Len(items) = 0
  <2>1. items = <<>>
    BY <1>1
  <2>2. CloseItem(items, hi) = items
    BY <2>1 DEF CloseItem
  <2>q. QED BY <1>1, <2>2
<1>2. CASE Len(items) # 0
  <2>1. Len(items) \in 1..Len(items)
    BY <1>2
  <2>2. <<items[Len(items)][1], hi>> \in Nat \X Nat
    BY <2>1
  <2>q. QED BY <2>1, <2>2 DEF CloseItem
<1>q. QED BY <1>1, <1>2

LEMMA PassStays ==
  ASSUME NEW has, NEW i \in 1..PNUM, NEW s \in ListStates
  PROVE  ListPass(has, i, s) \in ListStates
<1>1. /\ s.out \in Seq(Nat \X Nat) /\ s.last \in BOOLEAN /\ s.run \in Nat
      /\ i \in Nat /\ i - 1 \in Nat
  BY PortNumbers DEF ListStates
<1>2. Append(s.out, <<i, i>>) \in Seq(Nat \X Nat)
  BY <1>1
<1>3. CloseItem(s.out, i) \in Seq(Nat \X Nat) /\ CloseItem(s.out, i - 1) \in Seq(Nat \X Nat)
  BY <1>1, CloseItemStays
<1>q. QED BY <1>1, <1>2, <1>3 DEF ListPass, ListStates

LEMMA ListRun ==
  ASSUME NEW has
  PROVE  \E f \in [0..PNUM -> ListStates] :
           /\ f[0] = ListStart
           /\ \A i \in 1..PNUM : f[i] = ListPass(has, i, f[i - 1])
           /\ ListLoop(has) = f[PNUM].out
<1> DEFINE body == [p \in (1..PNUM) \X ListStates |-> ListPass(has, p[1], p[2])]
           Loop(f) == [i \in 0..PNUM |-> IF i = 0 THEN ListStart ELSE ListPass(has, i, f[i - 1])]
           F == CHOOSE f : f = Loop(f)
<1>1. PNUM \in Nat /\ ListStart \in ListStates
  BY PortNumbers DEF ListStart, ListStates
<1>2. body \in Bodies(PNUM, ListStates)
  BY PassStays DEF Bodies
<1>3. \A i \in 1..PNUM, s \in ListStates : body[<<i, s>>] = ListPass(has, i, s)
  OBVIOUS
<1> HIDE DEF body
<1>4. PICK g : States(g, PNUM, ListStates, ListStart, body)
  BY <1>1, <1>2, LoopStates
<1>5. /\ g \in [0..PNUM -> ListStates] /\ g[0] = ListStart
      /\ \A i \in 1..PNUM : g[i] = ListPass(has, i, g[i - 1])
  <2>1. g \in [0..PNUM -> ListStates] /\ g[0] = ListStart
    BY <1>4 DEF States
  <2>2. ASSUME NEW i \in 1..PNUM PROVE g[i] = ListPass(has, i, g[i - 1])
    <3>1. g[i] = body[<<i, g[i - 1]>>]
      BY <1>4 DEF States
    <3>2. g[i - 1] \in ListStates
      BY <1>1, <2>1
    <3>q. QED BY <1>3, <3>1, <3>2
  <2>q. QED BY <2>1, <2>2
<1>6. g = Loop(g)
  BY <1>1, <1>5
<1>7. F = Loop(F)
  BY <1>6, Zenon
<1>8. ListLoop(has) = F[PNUM].out
  BY Zenon DEF ListLoop
<1>9. 0..PNUM \subseteq {i \in 0..PNUM : F[i] = g[i]}
  <2> HIDE DEF F
  <2> DEFINE K == {i \in 0..PNUM : F[i] = g[i]}
  <2>1. 0 \in K
    BY <1>1, <1>5, <1>7
  <2>2. ASSUME NEW i \in 0..(PNUM - 1), i \in K PROVE i + 1 \in K
    <3>1. i + 1 \in 1..PNUM /\ i + 1 \in 0..PNUM /\ (i + 1) - 1 = i /\ i + 1 # 0
      BY <1>1
    <3>2. F[i + 1] = ListPass(has, i + 1, F[i])
      BY <1>7, <3>1
    <3>3. g[i + 1] = ListPass(has, i + 1, g[i])
      BY <1>5, <3>1
    <3>q. QED BY <2>2, <3>1, <3>2, <3>3
  <2> HIDE DEF K
  <2>3. 0..PNUM \subseteq K
    BY <1>1, <2>1, <2>2, UpTo
  <2>q. QED BY <2>3 DEF K
<1>10. ListLoop(has) = g[PNUM].out
  BY <1>1, <1>8, <1>9
<1>q. QED BY <1>5, <1>10

\* The first m items are the runs of has up to e, in ascending order.
RunsUpTo(items, m, e, has) ==
  /\ \A j \in 1..m : 1 <= items[j][1] /\ items[j][1] <= items[j][2] /\ items[j][2] <= e
  /\ \A j, k \in 1..m : j < k => items[j][2] < items[k][1]
  /\ \A k \in 1..e : k \in has <=> \E j \in 1..m : items[j][1] <= k /\ k <= items[j][2]

\* After pass i all items are, but the last one while its run goes on, which is open.
ListInv(has, i, items, last, run) ==
  IF last
  THEN /\ run \in 1..i /\ Len(items) >= 1
       /\ \A k \in (i - run + 1)..i : k \in has
       /\ items[Len(items)] = <<i - run + 1, IF i = PNUM /\ run > 1 THEN i ELSE i - run + 1>>
       /\ RunsUpTo(items, Len(items) - 1, i - run, has)
  ELSE run = 0 /\ RunsUpTo(items, Len(items), i, has)

LEMMA SameRuns ==
  ASSUME NEW items, NEW other, NEW m \in Nat, NEW e \in Nat, NEW has,
         RunsUpTo(items, m, e, has), \A j \in 1..m : other[j] = items[j]
  PROVE  RunsUpTo(other, m, e, has)
BY DEF RunsUpTo

LEMMA NoMore ==
  ASSUME NEW items \in Seq(Nat \X Nat), NEW m \in 0..Len(items), NEW e \in Nat, NEW has,
         RunsUpTo(items, m, e, has), e + 1 \notin has
  PROVE  RunsUpTo(items, m, e + 1, has)
<1>1. \A j \in 1..m : items[j][1] \in Nat /\ items[j][2] \in Nat
  OBVIOUS
<1>2. \A j \in 1..m : items[j][2] <= e
  BY DEF RunsUpTo
<1>3. ASSUME NEW k \in 1..(e + 1)
      PROVE  k \in has <=> \E j \in 1..m : items[j][1] <= k /\ k <= items[j][2]
  <2>1. CASE k \in 1..e
    BY <2>1 DEF RunsUpTo
  <2>2. CASE k = e + 1
    <3>1. ASSUME NEW j \in 1..m PROVE ~ (k <= items[j][2])
      <4>1. items[j][2] <= e /\ items[j][2] \in Nat
        BY <1>1, <1>2
      <4>q. QED BY <2>2, <4>1
    <3>2. k \notin has
      BY <2>2
    <3>q. QED BY <3>1, <3>2
  <2>3. k \in 1..e \/ k = e + 1
    OBVIOUS
  <2>q. QED BY <2>1, <2>2, <2>3
<1>4. ASSUME NEW j \in 1..m
      PROVE  1 <= items[j][1] /\ items[j][1] <= items[j][2] /\ items[j][2] <= e + 1
  <2>1. 1 <= items[j][1] /\ items[j][1] <= items[j][2]
    BY DEF RunsUpTo
  <2>2. items[j][2] <= e /\ items[j][2] \in Nat
    BY <1>1, <1>2
  <2>q. QED BY <2>1, <2>2
<1>5. \A j, k \in 1..m : j < k => items[j][2] < items[k][1]
  BY DEF RunsUpTo
<1>q. QED BY <1>3, <1>4, <1>5 DEF RunsUpTo

LEMMA LastOrEarlier ==
  ASSUME NEW m \in Nat, m - 1 \in Nat
  PROVE  \A j : j \in 1..m <=> j \in 1..(m - 1) \/ j = m
OBVIOUS

LEMMA OneMore ==
  ASSUME NEW items \in Seq(Nat \X Nat), NEW m \in 1..Len(items), NEW e \in Nat, NEW has,
         RunsUpTo(items, m - 1, e, has), items[m][1] = e + 1, items[m][2] > e,
         \A k \in (e + 1)..items[m][2] : k \in has
  PROVE  RunsUpTo(items, m, items[m][2], has)
<1>1. m \in Nat /\ m - 1 \in Nat /\ \A j \in 1..m : items[j][1] \in Nat /\ items[j][2] \in Nat
  OBVIOUS
<1>0. \A j \in 1..(m - 1) : 1 <= items[j][1] /\ items[j][1] <= items[j][2] /\ items[j][2] <= e
  BY DEF RunsUpTo
<1>2. ASSUME NEW j \in 1..m
      PROVE  1 <= items[j][1] /\ items[j][1] <= items[j][2] /\ items[j][2] <= items[m][2]
  <2>1. CASE j \in 1..(m - 1)
    <3>1. 1 <= items[j][1] /\ items[j][1] <= items[j][2] /\ items[j][2] <= e
      BY <1>0, <2>1
    <3>2. m \in 1..m /\ items[m][2] \in Nat /\ items[j][2] \in Nat
      BY <1>1, SMTT(30)
    <3>q. QED BY <3>1, <3>2, SMTT(30)
  <2>2. CASE j = m
    BY <1>1, <2>2
  <2>q. QED BY <2>1, <2>2
<1>3. ASSUME NEW j \in 1..m, NEW k \in 1..m, j < k PROVE items[j][2] < items[k][1]
  <2>1. j \in 1..(m - 1) /\ items[j][2] <= e
    <3>1. j \in 1..(m - 1)
      BY <1>1, <1>3
    <3>q. QED BY <1>0, <3>1
  <2>2. CASE k \in 1..(m - 1)
    <3>1. \A a, b \in 1..(m - 1) : a < b => items[a][2] < items[b][1]
      BY DEF RunsUpTo
    <3>2. j \in 1..(m - 1)
      BY <2>1
    <3>q. QED BY <1>3, <2>2, <3>1, <3>2
  <2>3. CASE k = m
    <3>1. items[k][1] = e + 1
      BY <2>3
    <3>2. items[j][2] \in Nat /\ items[j][2] <= e
      BY <1>1, <2>1
    <3>3. items[j][2] < e + 1
      BY <3>2, SMTT(30)
    <3>q. QED BY <3>1, <3>3
  <2>4. k \in 1..(m - 1) \/ k = m
    BY <1>1
  <2>q. QED BY <2>2, <2>3, <2>4
<1>4. ASSUME NEW k \in 1..items[m][2]
      PROVE  k \in has <=> \E j \in 1..m : items[j][1] <= k /\ k <= items[j][2]
  <2>1. CASE k \in 1..e
    <3>1. ~ (items[m][1] <= k)
      BY <1>1, <2>1
    <3>2. k \in has <=> \E j \in 1..(m - 1) : items[j][1] <= k /\ k <= items[j][2]
      BY <2>1 DEF RunsUpTo
    <3>3. \A j : j \in 1..m <=> j \in 1..(m - 1) \/ j = m
      BY <1>1, LastOrEarlier, Zenon
    <3>q. QED BY <3>1, <3>2, <3>3, ZenonT(30)
  <2>2. CASE k \in (e + 1)..items[m][2]
    BY <1>1, <2>2
  <2>3. k \in 1..e \/ k \in (e + 1)..items[m][2]
    BY <1>1
  <2>q. QED BY <2>1, <2>2, <2>3
<1>q. QED BY <1>2, <1>3, <1>4 DEF RunsUpTo

LEMMA ListStep ==
  ASSUME NEW has \in SUBSET AllPorts, NEW i \in 1..PNUM,
         NEW items \in Seq(Nat \X Nat), NEW last \in BOOLEAN, NEW run \in Nat,
         ListInv(has, i - 1, items, last, run),
         NEW t, t = ListPass(has, i, [out |-> items, last |-> last, run |-> run])
  PROVE  ListInv(has, i, t.out, t.last, t.run)
<1> DEFINE e == (i - 1) - run
           n == Len(items)
           hi == IF i \in has THEN i ELSE i - 1
           closed == CloseItem(items, hi)
           opened == Append(items, <<i, i>>)
<1>1. i \in Nat /\ i - 1 \in Nat /\ PNUM \in Nat /\ i <= PNUM /\ n \in Nat
  BY PortNumbers
<1>2. t = IF i \in has
          THEN [out |-> IF ~last THEN opened ELSE IF i = PNUM THEN closed ELSE items,
                last |-> TRUE, run |-> run + 1]
          ELSE [out |-> IF last /\ run > 1 THEN closed ELSE items, last |-> FALSE, run |-> 0]
  BY DEF ListPass
<1>3. CASE i \in has /\ ~last
  <2>1. run = 0 /\ RunsUpTo(items, n, i - 1, has)
    BY <1>3 DEF ListInv
  <2>2. Len(opened) = n + 1 /\ opened[n + 1] = <<i, i>> /\ \A j \in 1..n : opened[j] = items[j]
    BY <1>1
  <2>3. t.out = opened /\ t.last /\ t.run = 1
    BY <1>2, <1>3, <2>1
  <2> HIDE DEF opened, n
  <2>4. RunsUpTo(opened, n, i - 1, has)
    BY <1>1, <2>1, <2>2, SameRuns
  <2>5. Len(opened) - 1 = n /\ Len(opened) >= 1 /\ i - 1 + 1 = i /\ 1 \in 1..i
        /\ \A k \in i..i : k \in has
    BY <1>1, <1>3, <2>2
  <2>6. opened[Len(opened)] = <<i - 1 + 1, IF i = PNUM /\ 1 > 1 THEN i ELSE i - 1 + 1>>
    BY <1>1, <2>2, <2>5
  <2> HIDE DEF hi, closed
  <2>7. ListInv(has, i, opened, TRUE, 1)
    BY <2>4, <2>5, <2>6 DEF ListInv
  <2>q. QED BY <2>3, <2>7 DEF ListInv
<1>4. CASE last
  <2>1. /\ run \in 1..(i - 1) /\ n >= 1
        /\ \A k \in (e + 1)..(i - 1) : k \in has
        /\ items[n] = <<e + 1, e + 1>>
        /\ RunsUpTo(items, n - 1, e, has)
    BY <1>1, <1>4 DEF ListInv
  <2>2. /\ e \in Nat /\ n \in 1..n /\ n - 1 \in Nat /\ e = i - (run + 1)
        /\ run + 1 \in 1..i /\ run + 1 > 1 /\ e < i - 1 /\ hi \in Nat /\ n = Len(items)
    <3>1. hi \in Nat
      BY <1>1
    <3> HIDE DEF hi
    <3>2. n = Len(items)
      OBVIOUS
    <3>3. n \in Nat /\ n >= 1
      BY <1>1, <2>1
    <3> HIDE DEF n
    <3>4. n \in 1..n /\ n - 1 \in Nat
      BY <3>3
    <3>5. run \in 1..(i - 1) /\ i \in Nat
      BY <1>1, <2>1
    <3>6. \A r, h \in Nat : r \in 1..(h - 1)
            => /\ (h - 1) - r \in Nat /\ (h - 1) - r = h - (r + 1) /\ r + 1 \in 1..h
               /\ r + 1 > 1 /\ (h - 1) - r < h - 1
      OBVIOUS
    <3>7. /\ e \in Nat /\ e = i - (run + 1) /\ run + 1 \in 1..i /\ run + 1 > 1 /\ e < i - 1
      BY <3>5, <3>6
    <3>q. QED BY <3>1, <3>2, <3>4, <3>7
  <2> HIDE DEF e, n, hi
  <2>3. /\ closed \in Seq(Nat \X Nat) /\ Len(closed) = n
        /\ \A j \in 1..n : closed[j] = IF j = n THEN <<items[j][1], hi>> ELSE items[j]
    <3>1. hi \in Nat /\ n = Len(items)
      BY <2>2
    <3>2. /\ closed \in Seq(Nat \X Nat) /\ Len(closed) = Len(items)
          /\ \A j \in 1..Len(items) :
               closed[j] = IF j = Len(items) THEN <<items[j][1], hi>> ELSE items[j]
      BY <3>1, CloseItemStays, ZenonT(30)
    <3> HIDE DEF closed
    <3>q. QED BY <3>1, <3>2
  <2> HIDE DEF closed
  <2>4. closed[n] = <<e + 1, hi>> /\ \A j \in 1..(n - 1) : closed[j] = items[j]
    <3>1. closed[n] = <<items[n][1], hi>>
      BY <2>2, <2>3
    <3>2. items[n][1] = e + 1
      BY <2>1
    <3>3. \A j \in 1..(n - 1) : j \in 1..n /\ j # n
      BY <1>1
    <3>q. QED BY <2>3, <3>1, <3>2, <3>3
  <2>5. RunsUpTo(closed, n - 1, e, has)
    BY <2>1, <2>2, <2>4, SameRuns, ZenonT(30)
  <2>6. CASE i \in has
    <3>1. ASSUME NEW k \in (e + 1)..i PROVE k \in has
      <4>1. k \in (e + 1)..(i - 1) \/ k = i
        BY <1>1, <2>2
      <4>q. QED BY <2>1, <2>6, <4>1
    <3>2. t.last /\ t.run = run + 1 /\ t.out = IF i = PNUM THEN closed ELSE items
      BY <1>2, <1>4, <2>6
    <3>3. hi = i
      BY <2>6 DEF hi
    <3>4. i - (run + 1) + 1 = e + 1
      BY <1>1, <2>2
    <3>q. QED BY <1>1, <2>1, <2>2, <2>3, <2>4, <2>5, <3>1, <3>2, <3>3, <3>4 DEF ListInv
  <2>7. CASE i \notin has
    <3>1. ~t.last /\ t.run = 0 /\ t.out = IF run > 1 THEN closed ELSE items
      BY <1>2, <1>4, <2>7
    <3>2. hi = i - 1
      BY <2>7 DEF hi
    <3>3. ASSUME NEW o \in Seq(Nat \X Nat), Len(o) = n, o[n][1] = e + 1, o[n][2] = i - 1,
                 RunsUpTo(o, n - 1, e, has)
          PROVE  RunsUpTo(o, n, i, has)
      <4>1. n \in 1..Len(o) /\ o[n][2] > e /\ \A k \in (e + 1)..o[n][2] : k \in has
        BY <1>1, <2>1, <2>2, <3>3
      <4>2. RunsUpTo(o, n, o[n][2], has)
        BY <2>2, <3>3, <4>1, OneMore
      <4>3. (i - 1) + 1 = i /\ n \in 0..Len(o)
        BY <1>1, <2>2, <3>3
      <4>4. RunsUpTo(o, n, (i - 1) + 1, has)
        BY <1>1, <2>7, <3>3, <4>2, <4>3, NoMore
      <4>q. QED BY <4>3, <4>4
    <3>4. CASE run > 1
      <4>1. closed[n][1] = e + 1 /\ closed[n][2] = i - 1
        BY <2>4, <3>2
      <4>2. RunsUpTo(closed, n, i, has)
        BY <2>3, <2>5, <3>3, <4>1
      <4>q. QED BY <2>3, <3>1, <3>4, <4>2 DEF ListInv
    <3>5. CASE ~(run > 1)
      <4>1. items[n][1] = e + 1 /\ items[n][2] = i - 1
        BY <1>1, <2>1, <2>2, <3>5
      <4>2. RunsUpTo(items, n, i, has)
        BY <2>1, <2>2, <3>3, <4>1
      <4>q. QED BY <2>2, <3>1, <3>5, <4>2 DEF ListInv
    <3>q. QED BY <3>4, <3>5
  <2>q. QED BY <2>6, <2>7
<1>5. CASE i \notin has /\ ~last
  <2>1. run = 0 /\ RunsUpTo(items, n, i - 1, has) /\ n \in 0..Len(items) /\ (i - 1) + 1 = i
    BY <1>1, <1>5 DEF ListInv
  <2>2. ~t.last /\ t.run = 0 /\ t.out = items
    BY <1>2, <1>5
  <2>3. RunsUpTo(items, n, (i - 1) + 1, has)
    BY <1>1, <1>5, <2>1, NoMore
  <2>q. QED BY <2>1, <2>2, <2>3 DEF ListInv
<1>q. QED BY <1>3, <1>4, <1>5

\* What bit2str and bit2vlan write: the numbers of has, as runs in ascending order.
LEMMA ListLoopRight ==
  ASSUME NEW has \in SUBSET AllPorts
  PROVE  /\ ListLoop(has) \in Seq(Items)
         /\ PortsOf(ListLoop(has)) = has
         /\ Ascending(ListLoop(has))
<1>1. PICK f \in [0..PNUM -> ListStates] :
        /\ f[0] = ListStart
        /\ \A i \in 1..PNUM : f[i] = ListPass(has, i, f[i - 1])
        /\ ListLoop(has) = f[PNUM].out
  BY ListRun
<1> DEFINE K == {i \in 0..PNUM : ListInv(has, i, f[i].out, f[i].last, f[i].run)}
<1>2. PNUM \in Nat /\ PNUM >= 1
  BY PortNumbers
<1>3. 0 \in K
  BY <1>1, <1>2 DEF ListInv, ListStart, RunsUpTo
<1>4. ASSUME NEW i \in 0..(PNUM - 1), i \in K PROVE i + 1 \in K
  <2>1. i + 1 \in 1..PNUM /\ i + 1 \in 0..PNUM /\ (i + 1) - 1 = i /\ f[i] \in ListStates
    BY <1>2
  <2>2. /\ f[i].out \in Seq(Nat \X Nat) /\ f[i].last \in BOOLEAN /\ f[i].run \in Nat
        /\ f[i] = [out |-> f[i].out, last |-> f[i].last, run |-> f[i].run]
    BY <2>1 DEF ListStates
  <2>3. f[i + 1] = ListPass(has, i + 1, [out |-> f[i].out, last |-> f[i].last, run |-> f[i].run])
    BY <1>1, <2>1, <2>2
  <2>4. ListInv(has, (i + 1) - 1, f[i].out, f[i].last, f[i].run)
    BY <1>4, <2>1
  <2>5. ListInv(has, i + 1, f[i + 1].out, f[i + 1].last, f[i + 1].run)
    BY <2>1, <2>2, <2>3, <2>4, ListStep
  <2>q. QED BY <2>1, <2>5
<1>5. PNUM \in K
  <2> HIDE DEF K
  <2>1. 0..PNUM \subseteq K
    BY <1>2, <1>3, <1>4, UpTo
  <2>q. QED BY <1>2, <2>1
<1> DEFINE list == f[PNUM].out
           m == Len(list)
<1>6. list \in Seq(Nat \X Nat) /\ f[PNUM].last \in BOOLEAN /\ f[PNUM].run \in Nat /\ m \in Nat
  BY <1>1, <1>2 DEF ListStates
<1>7. ListInv(has, PNUM, list, f[PNUM].last, f[PNUM].run)
  BY <1>5
<1> HIDE DEF list, K
<1>8. RunsUpTo(list, m, PNUM, has)
  <2>1. CASE f[PNUM].last
    <3> DEFINE run == f[PNUM].run
               e == PNUM - run
    <3>1. /\ run \in 1..PNUM /\ m >= 1 /\ \A k \in (e + 1)..PNUM : k \in has
          /\ list[m] = <<e + 1, IF run > 1 THEN PNUM ELSE e + 1>>
          /\ RunsUpTo(list, m - 1, e, has)
      BY <1>2, <1>7, <2>1 DEF ListInv
    <3>2. e \in Nat /\ m \in 1..m /\ list[m][1] = e + 1 /\ list[m][2] = PNUM /\ PNUM > e
      BY <1>2, <1>6, <3>1
    <3> HIDE DEF e, run
    <3>3. \A k \in (e + 1)..list[m][2] : k \in has
      BY <3>1, <3>2
    <3>4. RunsUpTo(list, m, list[m][2], has)
      BY <1>6, <3>1, <3>2, <3>3, OneMore
    <3>q. QED BY <3>2, <3>4
  <2>2. CASE ~f[PNUM].last
    BY <1>7, <2>2 DEF ListInv
  <2>q. QED BY <2>1, <2>2
<1>9. ASSUME NEW j \in 1..m PROVE list[j] \in Items
  <2>1. list[j] \in Nat \X Nat
    BY <1>6
  <2>2. 1 <= list[j][1] /\ list[j][1] <= list[j][2] /\ list[j][2] <= PNUM
    BY <1>8 DEF RunsUpTo
  <2>q. QED BY <1>2, <2>1, <2>2 DEF Items, AllPorts
<1>10. list \in Seq(Items)
  BY <1>6, <1>9, SMTT(30)
<1>11. DOMAIN list = 1..m
  BY <1>6
<1>12. Ascending(list)
  BY <1>8, <1>11 DEF Ascending, RunsUpTo
<1>13. PortsOf(list) = has
  <2>1. ASSUME NEW k \in has PROVE k \in PortsOf(list)
    <3>1. k \in 1..PNUM
      BY DEF AllPorts
    <3>2. PICK j \in 1..m : list[j][1] <= k /\ k <= list[j][2]
      BY <1>8, <3>1 DEF RunsUpTo
    <3>3. list[j][1] \in Nat /\ list[j][2] \in Nat /\ k \in Nat
      BY <1>2, <1>6, <3>1
    <3>q. QED BY <1>11, <3>2, <3>3 DEF PortsOf
  <2>2. ASSUME NEW k \in PortsOf(list) PROVE k \in has
    <3>1. PICK j \in 1..m : k \in list[j][1]..list[j][2]
      BY <1>11 DEF PortsOf
    <3>2. list[j][1] \in Nat /\ list[j][2] \in Nat /\ 1 <= list[j][1] /\ list[j][2] <= PNUM
      BY <1>6, <1>8 DEF RunsUpTo
    <3>3. k \in 1..PNUM /\ list[j][1] <= k /\ k <= list[j][2]
      BY <1>2, <3>1, <3>2
    <3>q. QED BY <1>8, <3>3 DEF RunsUpTo
  <2>q. QED BY <2>1, <2>2
<1>q. QED BY <1>1, <1>10, <1>12, <1>13 DEF list

-----------------------------------------------------------------------------
(* The conversions *)

\* What a value is in its form.
ValueTyped ==
  CASE form = "list" -> value \in Seq(Items)
    [] form = "names" -> value \in Seq(Chunks)
    [] form = "ones" -> value \in SUBSET AllPorts
    [] form = "zeros" -> value \in SUBSET (0..(PNUM - 1))
    [] form = "phys" -> value \in SUBSET AllPorts

PortInv ==
  /\ form \in {"list", "names", "ones", "zeros", "phys"}
  /\ ValueTyped /\ asked \in SUBSET AllPorts /\ Denoted = asked

LEMMA PortsOfItems ==
  ASSUME NEW list \in Seq(Items) PROVE PortsOf(list) \in SUBSET AllPorts /\ str2bit(list) = PortsOf(list)
<1>1. PNUM \in Nat
  BY PortNumbers
<1>2. ASSUME NEW j \in DOMAIN list, NEW k \in list[j][1]..list[j][2] PROVE k \in AllPorts
  <2>1. list[j] \in Items
    OBVIOUS
  <2>q. QED BY <1>1, <1>2, <2>1 DEF Items, AllPorts
<1>3. PortsOf(list) \in SUBSET AllPorts
  BY <1>2 DEF PortsOf
<1>q. QED BY <1>1, <1>3 DEF str2bit, AllPorts

LEMMA OneItem ==
  ASSUME NEW it \in Items
  PROVE  <<it>> \in Seq(Items) /\ PortsOf(<<it>>) = it[1]..it[2]
<1>1. <<it>> \in Seq(Items)
  OBVIOUS
<1>2. DOMAIN <<it>> = {1} /\ <<it>>[1] = it
  OBVIOUS
<1>q. QED BY <1>1, <1>2 DEF PortsOf

\* Where the ports of a type are those from a + 1 to b, a port of it has the number that
\* is a less, and a chunk names the ports a behind its numbers.
LEMMA TypeRange ==
  ASSUME NEW a \in Nat, NEW b \in Nat, b <= PNUM,
         NEW chunk \in Chunks, PortsOfType(chunk.type) = (a + 1)..b
  PROVE  NamedPorts(chunk) = {a + k : k \in chunk.item[1]..chunk.item[2]}
<1> DEFINE t == chunk.type
           lo == chunk.item[1]
           hi == chunk.item[2]
<1>1. PNUM \in Nat /\ AllPorts = 1..PNUM
  BY PortNumbers DEF AllPorts
<1>2. lo \in Nat /\ hi \in Nat /\ 1 <= lo
  BY <1>1 DEF Chunks, Items
<1>3. hi <= IF a + 1 > b THEN 0 ELSE b - (a + 1) + 1
  <2>1. a + 1 \in Int /\ b \in Int
    OBVIOUS
  <2>2. hi <= Cardinality((a + 1)..b)
    BY DEF Chunks
  <2>q. QED BY <2>1, <2>2, FS_Interval
<1>4. ASSUME NEW p \in (a + 1)..b PROVE PlaceInType(p) = p - a
  <2>1. TypeOf(p) = t /\ p \in Nat /\ p <= PNUM
    BY <1>1, <1>4 DEF PortsOfType
  <2>2. \A q \in 1..p : TypeOf(q) = TypeOf(p) <=> q \in (a + 1)..b
    <3>1. \A q \in 1..p : q \in AllPorts
      BY <1>1, <2>1
    <3>2. \A q \in AllPorts : TypeOf(q) = t <=> q \in (a + 1)..b
      <4>1. PortsOfType(t) = (a + 1)..b
        OBVIOUS
      <4> HIDE DEF t
      <4>q. QED BY <4>1, Zenon DEF PortsOfType
    <3> HIDE DEF t
    <3>q. QED BY <2>1, <3>1, <3>2, Zenon
  <2>3. {q \in 1..p : TypeOf(q) = TypeOf(p)} = (a + 1)..p
    <3>1. {q \in 1..p : TypeOf(q) = TypeOf(p)} = {q \in 1..p : q \in (a + 1)..b}
      BY <2>2, Zenon
    <3>2. p <= b /\ \A q \in 1..p : q \in (a + 1)..b <=> q \in (a + 1)..p
      BY <1>4, <2>1
    <3>3. \A q \in (a + 1)..p : q \in 1..p
      BY <2>1
    <3>q. QED BY <3>1, <3>2, <3>3
  <2>4. Cardinality((a + 1)..p) = p - (a + 1) + 1
    <3>1. a + 1 \in Int /\ p \in Int /\ ~(a + 1 > p)
      BY <1>4
    <3>q. QED BY <3>1, FS_Interval
  <2>5. PlaceInType(p) = Cardinality((a + 1)..p)
    BY <2>3, Zenon DEF PlaceInType
  <2>6. p - (a + 1) + 1 = p - a
    BY <2>1
  <2>q. QED BY <2>4, <2>5, <2>6, Zenon
<1>5. NamedPorts(chunk) = {p \in (a + 1)..b : PlaceInType(p) \in lo..hi}
  <2>1. NamedPorts(chunk) = {p \in PortsOfType(chunk.type) : PlaceInType(p) \in lo..hi}
    BY Zenon DEF NamedPorts
  <2>2. PortsOfType(chunk.type) = (a + 1)..b
    OBVIOUS
  <2>q. QED BY <2>1, <2>2, Zenon
<1> HIDE DEF t, lo, hi
<1>6. {p \in (a + 1)..b : PlaceInType(p) \in lo..hi} = {p \in (a + 1)..b : p - a \in lo..hi}
  BY <1>4
<1>7. {p \in (a + 1)..b : p - a \in lo..hi} = {a + k : k \in lo..hi}
  <2>1. ASSUME NEW p \in (a + 1)..b, p - a \in lo..hi PROVE p \in {a + k : k \in lo..hi}
    <3>1. p = a + (p - a)
      BY <2>1
    <3>q. QED BY <2>1, <3>1
  <2>2. ASSUME NEW k \in lo..hi PROVE a + k \in (a + 1)..b /\ (a + k) - a \in lo..hi
    BY <1>2, <1>3
  <2>q. QED BY <2>1, <2>2
<1>q. QED BY <1>5, <1>6, <1>7 DEF lo, hi

\* The ports of each type, in both ways to compile the library.
LEMMA TypesRight ==
  /\ FNUM \in Nat /\ GNUM \in Nat /\ FNUM <= PNUM /\ GNUM <= PNUM
  /\ XPORT = 1 => /\ PortsOfType("f") = (0 + 1)..0 /\ PortsOfType("g") = (0 + 1)..GNUM
                   /\ PortsOfType("t") = (GNUM + 1)..PNUM
  /\ XPORT # 1 => /\ PortsOfType("f") = (0 + 1)..FNUM /\ PortsOfType("g") = (FNUM + 1)..PNUM
                   /\ PortsOfType("t") = (GNUM + 1)..GNUM
<1>1. FNUM \in Nat /\ GNUM \in Nat /\ FNUM <= PNUM /\ GNUM <= PNUM /\ PNUM \in Nat
  BY PortNumbers DEF FNUM
<1>2. AllPorts = 1..PNUM
  BY DEF AllPorts
<1>3. CASE XPORT = 1
  <2>1. \A p \in AllPorts : TypeOf(p) = IF p <= GNUM THEN "g" ELSE "t"
    BY <1>3 DEF TypeOf
  <2>2. PortsOfType("f") = (0 + 1)..0
    BY <2>1 DEF PortsOfType
  <2>3. PortsOfType("g") = (0 + 1)..GNUM
    BY <1>1, <1>2, <2>1 DEF PortsOfType
  <2>4. PortsOfType("t") = (GNUM + 1)..PNUM
    BY <1>1, <1>2, <2>1 DEF PortsOfType
  <2>q. QED BY <1>1, <1>3, <2>2, <2>3, <2>4
<1>4. CASE XPORT # 1
  <2>1. \A p \in AllPorts : TypeOf(p) = IF p <= FNUM THEN "f" ELSE "g"
    BY <1>4 DEF TypeOf
  <2>2. PortsOfType("f") = (0 + 1)..FNUM
    BY <1>1, <1>2, <2>1 DEF PortsOfType
  <2>3. PortsOfType("g") = (FNUM + 1)..PNUM
    BY <1>1, <1>2, <2>1 DEF PortsOfType
  <2>4. PortsOfType("t") = {}
    BY <2>1 DEF PortsOfType
  <2>q. QED BY <1>1, <1>4, <2>2, <2>3, <2>4
<1>q. QED BY <1>3, <1>4

LEMMA ChunkRight ==
  ASSUME NEW chunk \in Chunks PROVE ChunkBits(chunk) = NamedPorts(chunk)
<1>1. /\ PNUM \in Nat /\ GNUM \in 1..PNUM /\ FNUM + 1 \in AllPorts /\ GNUM \in AllPorts
      /\ 1 \in AllPorts /\ FNUM \in Nat
  BY PortNumbers DEF FNUM, AllPorts
<1>2. phy[FNUM + 1] - phy[1] = FNUM /\ phy[GNUM] = GNUM
  BY <1>1, PhyIdentity
<1>3. chunk.type \in {"f", "g", "t"} /\ chunk.item \in Items
  BY DEF Chunks
<1> DEFINE lo == chunk.item[1]
           hi == chunk.item[2]
<1>4. str2bit(<<chunk.item>>) = lo..hi
  BY <1>3, OneItem, PortsOfItems
<1>5. \A a, b \in Nat :
        b <= PNUM /\ PortsOfType(chunk.type) = (a + 1)..b => NamedPorts(chunk) = {a + k : k \in lo..hi}
  BY TypeRange
<1>6. lo \in Nat /\ hi \in Nat
  BY <1>1, <1>3 DEF Items, AllPorts
<1> HIDE DEF lo, hi
<1>0. {0 + k : k \in lo..hi} = lo..hi
  BY <1>6
<1>7. CASE chunk.type = "g" /\ XPORT # 1
  <2>1. ChunkBits(chunk) = {b + FNUM : b \in lo..hi}
    BY <1>2, <1>4, <1>7 DEF ChunkBits, ShiftLeft
  <2>2. NamedPorts(chunk) = {FNUM + k : k \in lo..hi}
    BY <1>1, <1>5, <1>7, TypesRight
  <2>q. QED BY <1>1, <1>6, <2>1, <2>2
<1>8. CASE chunk.type = "t"
  <2>1. ChunkBits(chunk) = {b + GNUM : b \in lo..hi}
    BY <1>2, <1>4, <1>8 DEF ChunkBits, ShiftLeft
  <2>2. NamedPorts(chunk) = {GNUM + k : k \in lo..hi}
    BY <1>1, <1>5, <1>8, TypesRight
  <2>q. QED BY <1>1, <1>6, <2>1, <2>2
<1>9. CASE chunk.type = "f" \/ (chunk.type = "g" /\ XPORT = 1)
  <2>1. ChunkBits(chunk) = lo..hi
    BY <1>4, <1>9 DEF ChunkBits
  <2>2. \E b \in Nat : b <= PNUM /\ PortsOfType(chunk.type) = (0 + 1)..b
    <3>1. CASE XPORT = 1 /\ chunk.type = "f"
      BY <1>1, <3>1, TypesRight, SMTT(30)
    <3>2. CASE XPORT = 1 /\ chunk.type = "g"
      BY <1>1, <3>2, TypesRight
    <3>3. CASE XPORT # 1 /\ chunk.type = "f"
      BY <1>1, <3>3, TypesRight
    <3>q. QED BY <1>9, <3>1, <3>2, <3>3
  <2>3. NamedPorts(chunk) = {0 + k : k \in lo..hi}
    BY <1>5, <2>2
  <2>q. QED BY <1>0, <2>1, <2>3
<1>q. QED BY <1>3, <1>7, <1>8, <1>9

LEMMA NamesRight ==
  ASSUME NEW chunks \in Seq(Chunks)
  PROVE  /\ cli_str2bitmap(chunks) = UNION {NamedPorts(chunks[j]) : j \in DOMAIN chunks}
         /\ cli_str2bitmap(chunks) \in SUBSET AllPorts
<1>1. DOMAIN chunks = 1..Len(chunks) /\ \A j \in 1..Len(chunks) : chunks[j] \in Chunks
  OBVIOUS
<1>2. \A j \in 1..Len(chunks) :
        /\ chunks[j].type \in {"f", "g", "t"}
        /\ ChunkBits(chunks[j]) = NamedPorts(chunks[j])
        /\ NamedPorts(chunks[j]) \subseteq AllPorts
  BY <1>1, ChunkRight DEF Chunks, NamedPorts, PortsOfType
<1>3. cli_str2bitmap(chunks) = UNION {NamedPorts(chunks[j]) : j \in 1..Len(chunks)}
  BY <1>2 DEF cli_str2bitmap
<1>q. QED BY <1>1, <1>2, <1>3

\* Each conversion keeps the set of ports.
LEMMA BitmapsRight ==
  /\ \A bits \in SUBSET (0..(PNUM - 1)) :
       /\ port2phy_64(bits) = {b + 1 : b \in bits} /\ str2phy_64(bits) = {b + 1 : b \in bits}
       /\ {b + 1 : b \in bits} \in SUBSET AllPorts
  /\ \A ports \in SUBSET AllPorts :
       /\ phy2port_64(ports) = ports /\ port2phy(ports) = ports /\ pmap_port2phy(ports) = ports
       /\ parse_input(ports) = ports /\ {p \in AllPorts : phy[p] \in ports} = ports
       /\ {p \in AllPorts : p \in ports} = ports
<1>1. PNUM \in Nat /\ AllPorts \subseteq 0..Top
  BY PortNumbers DEF AllPorts, Top
<1>2. ASSUME NEW bits \in SUBSET (0..(PNUM - 1))
      PROVE  /\ port2phy_64(bits) = {b + 1 : b \in bits}
             /\ str2phy_64(bits) = {b + 1 : b \in bits}
             /\ {b + 1 : b \in bits} \in SUBSET AllPorts
  <2>1. \A b \in bits : b \in 0..(PNUM - 1) /\ b + 1 \in AllPorts
    BY <1>1 DEF AllPorts
  <2>2. \A b \in bits : phy[b + 1] = b + 1
    BY <2>1, PhyIdentity
  <2>3. {j \in 0..(PNUM - 1) : j \in bits} = bits
    OBVIOUS
  <2>4. {phy[i + 1] : i \in bits} = {b + 1 : b \in bits}
    BY <2>2
  <2>q. QED BY <2>1, <2>3, <2>4 DEF port2phy_64, str2phy_64
<1>3. ASSUME NEW ports \in SUBSET AllPorts
      PROVE  /\ phy2port_64(ports) = ports /\ port2phy(ports) = ports
             /\ pmap_port2phy(ports) = ports /\ parse_input(ports) = ports
             /\ {p \in AllPorts : phy[p] \in ports} = ports
             /\ {p \in AllPorts : p \in ports} = ports
  <2>1. \A p \in AllPorts : phy[p] = p
    BY PhyIdentity
  <2>2. {j \in 0..Top : j \in ports} = ports
    BY <1>1
  <2>3. {phy[i] : i \in ports} = ports
    BY <2>1
  <2>4. {p \in AllPorts : phy[p] \in ports} = ports
    BY <2>1
  <2>q. QED BY <2>2, <2>3, <2>4 DEF phy2port_64, port2phy, pmap_port2phy, parse_input
<1>q. QED BY <1>2, <1>3

LEMMA PortStep == PortInv /\ [PortNext]_portvars => PortInv'
<1> SUFFICES ASSUME PortInv, [PortNext]_portvars PROVE PortInv'
  OBVIOUS
<1> USE DEF PortInv, ValueTyped, Denoted
<1>1. CASE TypeList
  <2>1. PICK n \in 1..MaxItems : \E list \in [1..n -> Items] :
          form' = "list" /\ value' = list /\ asked' = PortsOf(list)
    BY <1>1 DEF TypeList
  <2>2. n \in Nat
    BY PortNumbers
  <2>3. value' \in Seq(Items) /\ form' = "list" /\ asked' = PortsOf(value')
    BY <2>1, <2>2, SeqDef
  <2>q. QED BY <2>3, PortsOfItems
<1>2. CASE TypeNames
  <2>1. PICK n \in 1..MaxItems : \E chunks \in [1..n -> Chunks] :
          form' = "names" /\ value' = chunks /\ asked' = UNION {NamedPorts(chunks[j]) : j \in 1..n}
    BY <1>2 DEF TypeNames
  <2>2. n \in Nat
    BY PortNumbers
  <2>3. /\ value' \in Seq(Chunks) /\ form' = "names"
        /\ asked' = UNION {NamedPorts(value'[j]) : j \in DOMAIN value'}
    BY <2>1, <2>2, SeqDef
  <2>q. QED BY <2>3, NamesRight
<1>3. CASE GiveMap
  <2>1. PICK ports \in SUBSET AllPorts :
          form' = "zeros" /\ value' = {p - 1 : p \in ports} /\ asked' = ports
    BY <1>3 DEF GiveMap
  <2>2. \A p \in ports : p - 1 \in 0..(PNUM - 1) /\ (p - 1) + 1 = p
    BY PortNumbers DEF AllPorts
  <2>3. {b + 1 : b \in {p - 1 : p \in ports}} = ports
    BY <2>2
  <2>4. {p - 1 : p \in ports} \in SUBSET (0..(PNUM - 1))
    BY <2>2
  <2>q. QED BY <2>1, <2>3, <2>4
<1>4. CASE Convert("list", "ones", str2bit(value))
  BY <1>4, PortsOfItems DEF Convert
<1>5. CASE Convert("names", "ones", cli_str2bitmap(value))
  BY <1>5, NamesRight DEF Convert
<1>6. CASE Convert("zeros", "phys", port2phy_64(value)) \/ Convert("zeros", "phys", str2phy_64(value))
  <2>1. value' = {b + 1 : b \in value} /\ form' = "phys" /\ asked' = asked /\ form = "zeros"
    BY <1>6, BitmapsRight DEF Convert
  <2>2. value' = asked /\ asked \in SUBSET AllPorts
    BY <2>1
  <2>3. {p \in AllPorts : phy[p] \in asked} = asked
    BY <2>2, BitmapsRight
  <2>q. QED BY <2>1, <2>2, <2>3
<1>7. CASE Convert("phys", "ones", phy2port_64(value))
  BY <1>7, BitmapsRight DEF Convert
<1>8. CASE Convert("phys", "list", bit2str(value))
  BY <1>8, BitmapsRight, ListLoopRight DEF Convert, bit2str
<1>9. CASE Convert("ones", "list", bit2vlan(value))
  BY <1>9, BitmapsRight, ListLoopRight DEF Convert, bit2vlan
<1>10. CASE \/ Convert("ones", "phys", port2phy(value))
            \/ Convert("ones", "phys", pmap_port2phy(value))
            \/ Convert("ones", "phys", parse_input(value))
  <2>1. form = "ones" /\ form' = "phys" /\ asked' = asked /\ value = asked
    BY <1>10 DEF Convert
  <2>2. asked \in SUBSET AllPorts
    OBVIOUS
  <2>3. value' = asked
    BY <1>10, <2>1, <2>2, BitmapsRight DEF Convert
  <2>4. {p \in AllPorts : phy[p] \in asked} = asked
    BY <2>2, BitmapsRight
  <2>q. QED BY <2>1, <2>2, <2>3, <2>4
<1>11. CASE UNCHANGED portvars
  BY <1>11 DEF portvars
<1>q. QED BY <1>1, <1>2, <1>3, <1>4, <1>5, <1>6, <1>7, <1>8, <1>9, <1>10, <1>11 DEF PortNext

\* A value denotes the ports that were meant, in every form (bcmutils.c:199-620).
THEOREM PortInvCorrect == PortSpec => []PortInv
<1>1. PortInit => PortInv
  BY DEF PortInit, PortInv, ValueTyped, Denoted
<1>q. QED BY <1>1, PortStep, PTL DEF PortSpec

\* Whatever conversions a set of ports goes through, it stays the same set, and its
\* lowest port is found (bcmutils.c:199-620).
THEOREM SamePortsCorrect == PortSpec => []SamePorts
<1>1. PortInv => SamePorts
  <2> SUFFICES ASSUME PortInv PROVE SamePorts
    OBVIOUS
  <2>1. form = "ones" => value = asked /\ asked \intersect AllPorts = asked
    BY DEF PortInv, ValueTyped, Denoted
  <2>q. QED BY <2>1 DEF PortInv, SamePorts, pmap2port
<1>q. QED BY <1>1, PortInvCorrect, PTL

-----------------------------------------------------------------------------
(* The readers of VLAN lists *)

\* A pass of the loop of str2vlan_info over the items, for either end.
LowPass(list, j, low) ==
  IF low = 0 \/ list[j][1] < low THEN list[j][1] ELSE low
HighPass(list, j, high) ==
  IF high = 0 \/ high < list[j][2] THEN list[j][2] ELSE high

LEMMA LowRun ==
  ASSUME NEW list \in Seq(Items)
  PROVE  \E f : /\ f = [j \in 0..Len(list) |-> IF j = 0 THEN 0 ELSE LowPass(list, j, f[j - 1])]
               /\ f \in [0..Len(list) -> 0..PNUM] /\ f[0] = 0
               /\ \A j \in 1..Len(list) : f[j] = LowPass(list, j, f[j - 1])
<1> DEFINE n == Len(list)
           body == [p \in (1..n) \X (0..PNUM) |-> LowPass(list, p[1], p[2])]
<1>1. n \in Nat /\ PNUM \in Nat /\ 0 \in 0..PNUM
  BY PortNumbers
<1>2. \A j \in 1..n : list[j][1] \in 0..PNUM
  BY PortNumbers DEF Items, AllPorts
<1>3. body \in Bodies(n, 0..PNUM)
  BY <1>2 DEF Bodies, LowPass
<1>4. \A j \in 1..n, b \in 0..PNUM : body[<<j, b>>] = LowPass(list, j, b)
  OBVIOUS
<1> HIDE DEF body, n
<1>5. PICK f : States(f, n, 0..PNUM, 0, body)
  BY <1>1, <1>3, LoopStates
<1>6. f \in [0..n -> 0..PNUM] /\ f[0] = 0
  BY <1>5 DEF States
<1>7. \A j \in 1..n : f[j] = body[<<j, f[j - 1]>>]
  BY <1>5 DEF States
<1>8. ASSUME NEW j \in 1..n PROVE f[j] = LowPass(list, j, f[j - 1])
  <2>1. f[j - 1] \in 0..PNUM
    BY <1>1, <1>6
  <2>q. QED BY <1>4, <1>7, <2>1
<1>9. f = [j \in 0..n |-> IF j = 0 THEN 0 ELSE LowPass(list, j, f[j - 1])]
  BY <1>1, <1>6, <1>8
<1>q. QED BY <1>6, <1>8, <1>9 DEF n

LEMMA HighRun ==
  ASSUME NEW list \in Seq(Items)
  PROVE  \E f : /\ f = [j \in 0..Len(list) |-> IF j = 0 THEN 0 ELSE HighPass(list, j, f[j - 1])]
               /\ f \in [0..Len(list) -> 0..PNUM] /\ f[0] = 0
               /\ \A j \in 1..Len(list) : f[j] = HighPass(list, j, f[j - 1])
<1> DEFINE n == Len(list)
           body == [p \in (1..n) \X (0..PNUM) |-> HighPass(list, p[1], p[2])]
<1>1. n \in Nat /\ PNUM \in Nat /\ 0 \in 0..PNUM
  BY PortNumbers
<1>2. \A j \in 1..n : list[j][2] \in 0..PNUM
  BY PortNumbers DEF Items, AllPorts
<1>3. body \in Bodies(n, 0..PNUM)
  BY <1>2 DEF Bodies, HighPass
<1>4. \A j \in 1..n, b \in 0..PNUM : body[<<j, b>>] = HighPass(list, j, b)
  OBVIOUS
<1> HIDE DEF body, n
<1>5. PICK f : States(f, n, 0..PNUM, 0, body)
  BY <1>1, <1>3, LoopStates
<1>6. f \in [0..n -> 0..PNUM] /\ f[0] = 0
  BY <1>5 DEF States
<1>7. \A j \in 1..n : f[j] = body[<<j, f[j - 1]>>]
  BY <1>5 DEF States
<1>8. ASSUME NEW j \in 1..n PROVE f[j] = HighPass(list, j, f[j - 1])
  <2>1. f[j - 1] \in 0..PNUM
    BY <1>1, <1>6
  <2>q. QED BY <1>4, <1>7, <2>1
<1>9. f = [j \in 0..n |-> IF j = 0 THEN 0 ELSE HighPass(list, j, f[j - 1])]
  BY <1>1, <1>6, <1>8
<1>q. QED BY <1>6, <1>8, <1>9 DEF n


\* str2vlan_info is a run of the two loops.
LEMMA InfoRun ==
  ASSUME NEW list \in Seq(Items)
  PROVE  \E low, high \in [0..Len(list) -> 0..PNUM] :
           /\ low[0] = 0 /\ \A j \in 1..Len(list) : low[j] = LowPass(list, j, low[j - 1])
           /\ high[0] = 0 /\ \A j \in 1..Len(list) : high[j] = HighPass(list, j, high[j - 1])
           /\ str2vlan_info(list) =
                [value |-> VlanIds(list), mmin |-> low[Len(list)], mmax |-> high[Len(list)]]
<1> DEFINE LLoop(f) == [j \in 0..Len(list) |-> IF j = 0 THEN 0 ELSE LowPass(list, j, f[j - 1])]
           HLoop(f) == [j \in 0..Len(list) |-> IF j = 0 THEN 0 ELSE HighPass(list, j, f[j - 1])]
           L == CHOOSE f : f = LLoop(f)
           H == CHOOSE f : f = HLoop(f)
           n == Len(list)
<1>1. PICK f : /\ f = LLoop(f) /\ f \in [0..n -> 0..PNUM] /\ f[0] = 0
               /\ \A j \in 1..n : f[j] = LowPass(list, j, f[j - 1])
  BY LowRun
<1>2. PICK g : /\ g = HLoop(g) /\ g \in [0..n -> 0..PNUM] /\ g[0] = 0
               /\ \A j \in 1..n : g[j] = HighPass(list, j, g[j - 1])
  BY HighRun
<1>3. L = LLoop(L)
  BY <1>1, Zenon
<1>4. H = HLoop(H)
  BY <1>2, Zenon
<1>5. str2vlan_info(list) = [value |-> VlanIds(list), mmin |-> L[n], mmax |-> H[n]]
  BY Zenon DEF str2vlan_info, LowPass, HighPass
<1>6. n \in Nat
  OBVIOUS
<1> HIDE DEF n
<1>7. 0..n \subseteq {i \in 0..n : L[i] = f[i] /\ H[i] = g[i]}
  <2> HIDE DEF L, H
  <2> DEFINE K == {i \in 0..n : L[i] = f[i] /\ H[i] = g[i]}
  <2>1. 0 \in K
    BY <1>1, <1>2, <1>3, <1>4, <1>6 DEF n
  <2>2. ASSUME NEW i \in 0..(n - 1), i \in K PROVE i + 1 \in K
    <3>1. i + 1 \in 1..n /\ i + 1 \in 0..n /\ (i + 1) - 1 = i /\ i + 1 # 0
      BY <1>6
    <3>2. L[i + 1] = LowPass(list, i + 1, L[i]) /\ H[i + 1] = HighPass(list, i + 1, H[i])
      BY <1>3, <1>4, <3>1 DEF n
    <3>3. f[i + 1] = LowPass(list, i + 1, f[i]) /\ g[i + 1] = HighPass(list, i + 1, g[i])
      BY <1>1, <1>2, <3>1
    <3>q. QED BY <2>2, <3>1, <3>2, <3>3
  <2> HIDE DEF K
  <2>3. 0..n \subseteq K
    BY <1>6, <2>1, <2>2, UpTo
  <2>q. QED BY <2>3 DEF K
<1>8. L[n] = f[n] /\ H[n] = g[n]
  <2> HIDE DEF L, H
  <2>1. n \in 0..n
    BY <1>6
  <2>q. QED BY <1>7, <2>1
<1>9. str2vlan_info(list) = [value |-> VlanIds(list), mmin |-> f[n], mmax |-> g[n]]
  BY <1>5, <1>8
<1>10. /\ f \in [0..n -> 0..PNUM] /\ f[0] = 0
       /\ \A j \in 1..n : f[j] = LowPass(list, j, f[j - 1])
  BY <1>1
<1>11. /\ g \in [0..n -> 0..PNUM] /\ g[0] = 0
       /\ \A j \in 1..n : g[j] = HighPass(list, j, g[j - 1])
  BY <1>2
<1> HIDE DEF L, H, LLoop, HLoop
<1>q. QED BY <1>9, <1>10, <1>11 DEF n

\* A list names no port only if it is empty.
LEMMA MarkedRight ==
  ASSUME NEW list \in Seq(Items)
  PROVE  list = <<>> <=> PortsOf(list) = {}
<1>1. ASSUME list # <<>> PROVE PortsOf(list) # {}
  <2>1. 1 \in DOMAIN list /\ list[1] \in Items
    BY <1>1
  <2>2. list[1][1] \in AllPorts /\ list[1][1] \in list[1][1]..list[1][2]
    BY <2>1, PortNumbers DEF Items, AllPorts
  <2>q. QED BY <2>1, <2>2 DEF PortsOf
<1>2. ASSUME list = <<>> PROVE PortsOf(list) = {}
  BY <1>2 DEF PortsOf
<1>q. QED BY <1>1, <1>2

LEMMA InfoRight ==
  ASSUME NEW list \in Seq(Items), PortsOf(list) # {}
  PROVE  /\ str2vlan_info(list).mmin = Min(PortsOf(list))
         /\ str2vlan_info(list).mmax = Max(PortsOf(list))
<1> DEFINE n == Len(list)
<1>1. PICK low, high \in [0..n -> 0..PNUM] :
        /\ low[0] = 0 /\ \A j \in 1..n : low[j] = LowPass(list, j, low[j - 1])
        /\ high[0] = 0 /\ \A j \in 1..n : high[j] = HighPass(list, j, high[j - 1])
        /\ str2vlan_info(list) = [value |-> VlanIds(list), mmin |-> low[n], mmax |-> high[n]]
  BY InfoRun
<1>2. n \in Nat /\ PNUM \in Nat /\ DOMAIN list = 1..n
  BY PortNumbers
<1>3. \A j \in 1..n : /\ list[j][1] \in Nat /\ list[j][2] \in Nat
                      /\ 1 <= list[j][1] /\ list[j][1] <= list[j][2]
  BY <1>2 DEF Items, AllPorts
<1> HIDE DEF n
<1> DEFINE Ends(i, lo, hi) ==
             IF i = 0 THEN lo = 0 /\ hi = 0
             ELSE /\ lo > 0 /\ hi > 0
                  /\ \E j \in 1..i : lo = list[j][1]
                  /\ \E j \in 1..i : hi = list[j][2]
                  /\ \A j \in 1..i : lo <= list[j][1] /\ list[j][2] <= hi
           K == {i \in 0..n : Ends(i, low[i], high[i])}
<1>4. 0 \in K
  BY <1>1, <1>2
<1>5. ASSUME NEW i \in 0..(n - 1), i \in K PROVE i + 1 \in K
  <2>1. /\ i + 1 \in 1..n /\ i + 1 \in 0..n /\ (i + 1) - 1 = i /\ i + 1 # 0
        /\ i \in Nat /\ i + 1 \in 1..(i + 1) /\ 1..i \subseteq 1..n
    BY <1>2
  <2>2. /\ low[i + 1] = LowPass(list, i + 1, low[i])
        /\ high[i + 1] = HighPass(list, i + 1, high[i])
    BY <1>1, <2>1
  <2> DEFINE lo == low[i]
             hi == high[i]
             a == list[i + 1][1]
             b == list[i + 1][2]
  <2>3. lo \in Nat /\ hi \in Nat /\ a \in Nat /\ b \in Nat /\ 1 <= a /\ a <= b
    BY <1>2, <1>3, <2>1
  <2>4. /\ low[i + 1] = IF lo = 0 \/ a < lo THEN a ELSE lo
        /\ high[i + 1] = IF hi = 0 \/ hi < b THEN b ELSE hi
    BY <2>2 DEF LowPass, HighPass
  <2>5. Ends(i, lo, hi)
    BY <1>5
  <2> HIDE DEF lo, hi
  <2>6. Ends(i + 1, low[i + 1], high[i + 1])
    <3>1. low[i + 1] > 0 /\ high[i + 1] > 0
      BY <2>3, <2>4
    <3>2. \E j \in 1..(i + 1) : low[i + 1] = list[j][1]
      <4>1. CASE low[i + 1] = a
        BY <2>1, <4>1
      <4>2. CASE low[i + 1] # a
        <5>1. lo # 0 /\ low[i + 1] = lo
          BY <2>4, <4>2
        <5>2. i # 0
          BY <2>5, <5>1
        <5>3. PICK j \in 1..i : lo = list[j][1]
          BY <2>5, <5>2
        <5>q. QED BY <2>1, <5>1, <5>3
      <4>q. QED BY <4>1, <4>2
    <3>3. \E j \in 1..(i + 1) : high[i + 1] = list[j][2]
      <4>1. CASE high[i + 1] = b
        BY <2>1, <4>1
      <4>2. CASE high[i + 1] # b
        <5>1. hi # 0 /\ high[i + 1] = hi
          BY <2>4, <4>2
        <5>2. i # 0
          BY <2>5, <5>1
        <5>3. PICK j \in 1..i : hi = list[j][2]
          BY <2>5, <5>2
        <5>q. QED BY <2>1, <5>1, <5>3
      <4>q. QED BY <4>1, <4>2
    <3>4. ASSUME NEW j \in 1..(i + 1)
          PROVE  low[i + 1] <= list[j][1] /\ list[j][2] <= high[i + 1]
      <4>1. CASE j = i + 1
        BY <2>3, <2>4, <4>1
      <4>2. CASE j \in 1..i
        <5>1. lo <= list[j][1] /\ list[j][2] <= hi /\ lo > 0 /\ hi > 0
          BY <2>1, <2>5, <4>2
        <5>2. list[j][1] \in Nat /\ list[j][2] \in Nat
          BY <1>3, <2>1, <4>2
        <5> HIDE DEF a, b
        <5>q. QED BY <2>3, <2>4, <5>1, <5>2, SMTT(30)
      <4>q. QED BY <2>1, <4>1, <4>2
    <3>q. QED BY <2>1, <3>1, <3>2, <3>3, <3>4
  <2>q. QED BY <2>1, <2>6
<1>6. Ends(n, low[n], high[n])
  <2> HIDE DEF Ends
  <2>0. \A i \in K : Ends(i, low[i], high[i])
    OBVIOUS
  <2> HIDE DEF K
  <2>1. 0..n \subseteq K
    BY <1>2, <1>4, <1>5, UpTo
  <2>2. n \in K
    BY <1>2, <2>1
  <2>q. QED BY <2>0, <2>2
<1> HIDE DEF K
<1> DEFINE P == PortsOf(list)
<1>7. \A k : k \in P <=> \E j \in 1..n : k \in list[j][1]..list[j][2]
  BY <1>2 DEF PortsOf
<1>8. n # 0
  BY <1>2, <1>7
<1>9. low[n] \in P /\ \A k \in P : low[n] <= k
  <2>1. PICK j \in 1..n : low[n] = list[j][1]
    BY <1>6, <1>8
  <2>2. low[n] \in P
    BY <1>3, <1>7, <2>1
  <2>3. ASSUME NEW k \in P PROVE low[n] <= k
    <3>1. PICK i \in 1..n : k \in list[i][1]..list[i][2]
      BY <1>7
    <3>2. low[n] <= list[i][1]
      BY <1>6, <1>8
    <3>q. QED BY <1>3, <2>1, <3>1, <3>2
  <2>q. QED BY <2>2, <2>3
<1>10. high[n] \in P /\ \A k \in P : high[n] >= k
  <2>1. PICK j \in 1..n : high[n] = list[j][2]
    BY <1>6, <1>8
  <2>2. high[n] \in P
    BY <1>3, <1>7, <2>1
  <2>3. ASSUME NEW k \in P PROVE high[n] >= k
    <3>1. PICK i \in 1..n : k \in list[i][1]..list[i][2]
      BY <1>7
    <3>2. list[i][2] <= high[n]
      BY <1>6, <1>8
    <3>q. QED BY <1>3, <2>1, <3>1, <3>2
  <2>q. QED BY <2>2, <2>3
<1>11. P \subseteq Nat
  BY <1>3, <1>7
<1> HIDE DEF P
<1>12. low[n] = Min(P) /\ high[n] = Max(P)
  <2>1. Min(P) \in P /\ \A k \in P : Min(P) <= k
    BY <1>9 DEF Min
  <2>2. Max(P) \in P /\ \A k \in P : Max(P) >= k
    BY <1>10 DEF Max
  <2>3. Min(P) <= low[n] /\ low[n] <= Min(P) /\ Min(P) \in Nat /\ low[n] \in Nat
    BY <1>9, <1>11, <2>1
  <2>4. Max(P) >= high[n] /\ high[n] >= Max(P) /\ Max(P) \in Nat /\ high[n] \in Nat
    BY <1>10, <1>11, <2>2
  <2>5. low[n] = Min(P)
    BY <2>3
  <2>6. high[n] = Max(P)
    BY <2>4
  <2>q. QED BY <2>5, <2>6
<1>q. QED BY <1>1, <1>12 DEF P

\* What check_vlan_include finds is in the list; in an ascending list it finds all.
LEMMA IncludeRight ==
  ASSUME NEW list \in Seq(Items), NEW v \in AllPorts
  PROVE  /\ check_vlan_include(v, list) => v \in PortsOf(list)
         /\ Ascending(list) /\ v \in PortsOf(list) => check_vlan_include(v, list)
<1> DEFINE stops == {j \in DOMAIN list : IF list[j][1] = list[j][2] THEN v = list[j][1]
                                         ELSE v <= list[j][2]}
           m == Min(stops)
<1>1. check_vlan_include(v, list) <=> stops # {} /\ list[m][1] <= v
  BY DEF check_vlan_include
<1>2. v \in Nat /\ DOMAIN list \in SUBSET Nat
  BY PortNumbers DEF AllPorts
<1>3. \A j \in DOMAIN list : list[j][1] \in Nat /\ list[j][2] \in Nat /\ list[j][1] <= list[j][2]
  BY PortNumbers DEF Items, AllPorts
<1>4. stops # {} => m \in stops /\ \A j \in stops : m <= j
  <2> HAVE stops # {}
  <2>1. stops \in SUBSET Nat
    BY <1>2
  <2> HIDE DEF stops
  <2>2. \E x \in stops : \A y \in stops : x <= y
    BY <2>1, LeastNumber
  <2>q. QED BY <2>2 DEF Min
<1>5. stops # {} => m \in DOMAIN list /\ v <= list[m][2]
  BY <1>2, <1>3, <1>4
<1>6. ASSUME stops # {}, list[m][1] <= v PROVE v \in PortsOf(list)
  <2>1. m \in DOMAIN list /\ v \in list[m][1]..list[m][2]
    BY <1>2, <1>3, <1>5, <1>6
  <2> HIDE DEF m
  <2>q. QED BY <2>1 DEF PortsOf
<1>7. ASSUME Ascending(list), v \in PortsOf(list) PROVE stops # {} /\ list[m][1] <= v
  <2>1. PICK j \in DOMAIN list : v \in list[j][1]..list[j][2]
    BY <1>7 DEF PortsOf
  <2>2. list[j][1] <= v /\ v <= list[j][2]
    BY <1>3, <2>1
  <2>3. j \in stops
    BY <1>2, <1>3, <2>2
  <2>4. m \in DOMAIN list /\ v <= list[m][2] /\ m <= j
    BY <1>4, <1>5, <2>3
  <2> HIDE DEF m, stops
  <2>5. ~ (m < j)
    <3> SUFFICES ASSUME m < j PROVE FALSE
      OBVIOUS
    <3>1. list[m][2] < list[j][1]
      BY <1>7, <2>4 DEF Ascending
    <3>q. QED BY <1>2, <1>3, <2>2, <2>4, <3>1
  <2>6. m = j
    BY <1>2, <2>4, <2>5
  <2>q. QED BY <2>2, <2>3, <2>6
<1>q. QED BY <1>1, <1>6, <1>7

\* The readers of VLAN lists agree on every list, typed or made by bit2vlan
\* (bcmutils.c:270-306, 462-502, vlan.c:350-401, nvram_conf.c:41-80).
THEOREM VlanListsAgreeCorrect == PortSpec => []VlanListsAgree
<1>1. PortInv => VlanListsAgree
  <2> SUFFICES ASSUME PortInv, form = "list" PROVE VlanListsAgree
    BY DEF VlanListsAgree
  <2> DEFINE info == str2vlan_info(value)
             made == bit2vlan(asked)
             marked == IF asked = {} THEN {0} ELSE asked
             finds(list) == {v \in AllPorts : check_vlan_include(v, list)}
  <2>1. value \in Seq(Items) /\ PortsOf(value) = asked /\ asked \in SUBSET AllPorts
    BY DEF PortInv, ValueTyped, Denoted
  <2>2. made \in Seq(Items) /\ PortsOf(made) = asked /\ Ascending(made)
    <3>1. {p \in AllPorts : p \in asked} = asked
      BY <2>1
    <3>2. made = ListLoop(asked)
      BY <3>1 DEF bit2vlan
    <3> HIDE DEF made
    <3>q. QED BY <2>1, <3>2, ListLoopRight
  <2> HIDE DEF made
  <2>0. VlanIds(value) = marked
    BY <2>1, MarkedRight DEF VlanIds
  <2> HIDE DEF marked
  <2>3. str2vlan(value, {}).value = marked
    BY <2>0 DEF str2vlan
  <2>4. info.value = marked
    <3>1. info.value = VlanIds(value)
      BY <2>1, InfoRun
    <3>q. QED BY <2>0, <3>1
  <2>5. asked # {} => info.mmin = Min(asked) /\ info.mmax = Max(asked)
    BY <2>1, InfoRight
  <2> HIDE DEF info
  <2>6. finds(value) \subseteq asked /\ (Ascending(value) => finds(value) = asked)
    BY <2>1, IncludeRight
  <2>7. finds(made) = asked
    BY <2>1, <2>2, IncludeRight
  <2> HIDE DEF finds
  <2>q. QED
    <3>1. /\ str2vlan(value, {}).value = marked /\ info.value = marked
          /\ asked # {} => info.mmin = Min(asked) /\ info.mmax = Max(asked)
          /\ finds(value) \subseteq asked
          /\ Ascending(value) => finds(value) = asked
          /\ Ascending(made) /\ finds(made) = asked
      BY <2>2, <2>3, <2>4, <2>5, <2>6, <2>7
    <3>q. QED BY <3>1 DEF VlanListsAgree, info, made, marked, finds
<1>q. QED BY <1>1, PortInvCorrect, PTL

-----------------------------------------------------------------------------
(* The list of learned addresses *)

\* s is the members of T in order.
Lists(s, T) ==
  /\ s \in Seq(T) /\ Ordered(s)
  /\ \A m \in T : \E i \in DOMAIN s : s[i] = m

LEMMA Greatest ==
  ASSUME NEW T \in SUBSET Nat, IsFiniteSet(T), T # {}
  PROVE  \E x \in T : \A y \in T : y <= x
<1> DEFINE F == {U \in SUBSET T : U # {} => \E x \in U : \A y \in U : y <= x}
<1>1. {} \in F
  OBVIOUS
<1>2. ASSUME NEW U \in SUBSET T, NEW x \in T, U \in F PROVE U \cup {x} \in F
  <2>1. CASE U = {}
    <3>1. x \in U \cup {x} /\ \A y \in U \cup {x} : y <= x
      BY <2>1
    <3>q. QED BY <3>1
  <2>2. CASE U # {}
    <3>1. PICK z \in U : \A y \in U : y <= z
      BY <1>2, <2>2
    <3>2. CASE z <= x
      <4>1. \A y \in U : y \in Nat /\ y <= z
        BY <3>1
      <4>2. \A y \in U \cup {x} : y <= x
        BY <3>2, <4>1
      <4>q. QED BY <4>2
    <3>3. CASE ~ (z <= x)
      <4>1. \A y \in U \cup {x} : y <= z
        BY <3>1, <3>3
      <4>q. QED BY <4>1
    <3>q. QED BY <3>2, <3>3
  <2>q. QED BY <2>1, <2>2
<1> HIDE DEF F
<1>3. T \in F
  BY <1>1, <1>2, MemberByMember
<1>q. QED BY <1>3 DEF F

\* Every finite set of numbers can be written in order.
LEMMA Listable ==
  ASSUME NEW S \in SUBSET Nat, IsFiniteSet(S)
  PROVE  \E s \in [1..Cardinality(S) -> S] : Lists(s, S)
<1> DEFINE n == Cardinality(S)
           Done(T) == \E s \in [1..Cardinality(T) -> T] : Lists(s, T)
           K == {k \in 0..n : \A T \in SUBSET S : Cardinality(T) = k => Done(T)}
<1>1. n \in Nat
  BY FS_CardinalityType
<1>2. 0 \in K
  <2>1. ASSUME NEW T \in SUBSET S, Cardinality(T) = 0 PROVE Done(T)
    <3>1. T = {} /\ Cardinality(T) = 0
      BY <2>1, FS_Subset, FS_EmptySet
    <3>2. <<>> \in [1..Cardinality(T) -> T]
      BY <3>1
    <3>3. Lists(<<>>, T)
      BY <3>1 DEF Lists, Ordered
    <3>q. QED BY <3>2, <3>3
  <2>q. QED BY <1>1, <2>1
<1>3. ASSUME NEW k \in 0..(n - 1), k \in K PROVE k + 1 \in K
  <2>1. ASSUME NEW T \in SUBSET S, Cardinality(T) = k + 1 PROVE Done(T)
    <3>0. k \in Nat /\ k + 1 # 0
      BY <1>1
    <3>1. IsFiniteSet(T) /\ T # {} /\ k \in Nat
      BY <2>1, <3>0, FS_Subset, FS_EmptySet
    <3>2. PICK x \in T : \A y \in T : y <= x
      BY <3>1, Greatest
    <3> DEFINE U == T \ {x}
    <3>3. IsFiniteSet(U) /\ Cardinality(U) = k
      <4>1. IsFiniteSet(U) /\ Cardinality(U) = Cardinality(T) - 1
        BY <3>1, FS_RemoveElement
      <4>q. QED BY <2>1, <3>1, <4>1
    <3>4. PICK s \in [1..k -> U] : Lists(s, U)
      BY <1>3, <3>3
    <3> DEFINE t == [i \in 1..(k + 1) |-> IF i = k + 1 THEN x ELSE s[i]]
    <3>5. t \in [1..(k + 1) -> T] /\ t \in Seq(T) /\ DOMAIN t = 1..(k + 1) /\ DOMAIN s = 1..k
      <4>1. \A i \in 1..k : s[i] \in T
        OBVIOUS
      <4>2. t \in [1..(k + 1) -> T]
        BY <3>1, <4>1
      <4>3. k + 1 \in Nat
        BY <3>1
      <4>q. QED BY <4>2, <4>3, SeqDef
    <3>6. \A i \in 1..k : t[i] = s[i] /\ s[i] \in U /\ i \in 1..(k + 1)
      BY <3>1
    <3>7. t[k + 1] = x /\ k + 1 \in 1..(k + 1)
      BY <3>1
    <3> HIDE DEF t
    <3>8. Ordered(t)
      <4> SUFFICES ASSUME NEW i \in 1..(k + 1), NEW j \in 1..(k + 1), i < j
                   PROVE  t[i] < t[j]
        BY <3>5 DEF Ordered
      <4>1. i \in 1..k
        BY <3>1
      <4>2. CASE j \in 1..k
        BY <3>4, <3>5, <3>6, <4>1, <4>2 DEF Lists, Ordered
      <4>3. CASE j = k + 1
        <5>1. t[i] \in U /\ t[i] \in Nat /\ x \in Nat /\ t[i] <= x /\ t[i] # x
          BY <3>2, <3>6, <4>1
        <5>q. QED BY <3>7, <4>3, <5>1
      <4>q. QED BY <3>1, <4>2, <4>3
    <3>9. \A m \in T : \E i \in DOMAIN t : t[i] = m
      <4> TAKE m \in T
      <4>1. CASE m = x
        BY <3>5, <3>7, <4>1
      <4>2. CASE m # x
        <5>1. PICK i \in 1..k : s[i] = m
          BY <3>4, <3>5, <4>2 DEF Lists
        <5>q. QED BY <3>5, <3>6, <5>1
      <4>q. QED BY <4>1, <4>2
    <3>q. QED BY <2>1, <3>5, <3>8, <3>9 DEF Lists
  <2>q. QED BY <1>1, <2>1
<1>4. n \in K
  <2> HIDE DEF K
  <2>1. 0..n \subseteq K
    <3> HIDE DEF n
    <3>q. QED BY <1>1, <1>2, <1>3, UpTo
  <2>q. QED BY <1>1, <2>1
<1>q. QED BY <1>4

LEMMA LinesList ==
  ASSUME NEW S \in SUBSET Nat, IsFiniteSet(S) PROVE Lists(Lines(S), S)
<1>1. \E s \in [1..Cardinality(S) -> S] :
        Ordered(s) /\ \A m \in S : \E i \in DOMAIN s : s[i] = m
  BY Listable DEF Lists
<1>2. /\ Lines(S) \in [1..Cardinality(S) -> S]
      /\ Ordered(Lines(S)) /\ \A m \in S : \E i \in DOMAIN Lines(S) : Lines(S)[i] = m
  BY <1>1 DEF Lines
<1>3. Cardinality(S) \in Nat
  BY FS_CardinalityType
<1>q. QED BY <1>2, <1>3, SeqDef DEF Lists

\* There is one way to do it.
LEMMA FirstOther ==
  ASSUME NEW S \in SUBSET Nat, NEW a, NEW b, Lists(a, S), Lists(b, S),
         NEW i \in 1..Len(a), i \in 1..Len(b) => a[i] < b[i],
         \A k \in Nat : k \in 1..Len(a) /\ k < i => k \in 1..Len(b) /\ a[k] = b[k]
  PROVE  FALSE
<1>1. /\ a \in Seq(S) /\ b \in Seq(S) /\ Len(a) \in Nat /\ Len(b) \in Nat
      /\ DOMAIN a = 1..Len(a) /\ DOMAIN b = 1..Len(b)
  BY DEF Lists
<1>2. PICK j \in 1..Len(b) : b[j] = a[i]
  <2>1. a[i] \in S
    BY <1>1
  <2>q. QED BY <1>1, <2>1 DEF Lists
<1>3. i \in Nat /\ j \in Nat /\ a[i] \in Nat
  <2>1. i \in Nat /\ j \in Nat
    BY <1>1
  <2>2. a[i] \in S
    BY <1>1
  <2>q. QED BY <2>1, <2>2
<1>4. CASE j < i
  <2>1. j \in 1..Len(a) /\ i \in 1..Len(a)
    BY <1>1, <1>3, <1>4
  <2>2. a[j] = b[j]
    BY <1>3, <1>4, <2>1
  <2>3. \A x, y \in 1..Len(a) : x < y => a[x] < a[y]
    BY <1>1 DEF Lists, Ordered
  <2>4. a[j] < a[i]
    BY <1>4, <2>1, <2>3
  <2>q. QED BY <1>2, <1>3, <2>2, <2>4
<1>5. CASE i <= j
  <2>1. i \in 1..Len(b)
    BY <1>1, <1>3, <1>5
  <2>2. b[i] \in Nat /\ a[i] < b[i]
    <3>1. b[i] \in S
      BY <1>1, <2>1
    <3>q. QED BY <2>1, <3>1
  <2>3. \A x, y \in 1..Len(b) : x < y => b[x] < b[y]
    BY <1>1 DEF Lists, Ordered
  <2>4. i = j \/ b[i] < b[j]
    BY <1>3, <1>5, <2>1, <2>3
  <2>q. QED BY <1>2, <1>3, <2>2, <2>4
<1>q. QED BY <1>3, <1>4, <1>5

LEMMA ListsOnce ==
  ASSUME NEW S \in SUBSET Nat, NEW s, NEW t, Lists(s, S), Lists(t, S)
  PROVE  s = t
<1>1. s \in Seq(S) /\ t \in Seq(S) /\ Len(s) \in Nat /\ Len(t) \in Nat
  BY DEF Lists
<1> DEFINE Same(i) == /\ i \in 1..Len(s) => i \in 1..Len(t) /\ s[i] = t[i]
                      /\ i \in 1..Len(t) => i \in 1..Len(s) /\ t[i] = s[i]
           D == {i \in Nat : ~Same(i)}
<1>3. ASSUME D # {} PROVE FALSE
  <2>1. PICK i \in D : \A k \in D : i <= k
    BY <1>3, LeastNumber
  <2>2. i \in Nat /\ ~Same(i) /\ \A k \in Nat : k < i => Same(k)
    BY <2>1
  <2> HIDE DEF D
  <2>3. \A k \in Nat : k \in 1..Len(s) /\ k < i => k \in 1..Len(t) /\ s[k] = t[k]
    BY <2>2
  <2>4. \A k \in Nat : k \in 1..Len(t) /\ k < i => k \in 1..Len(s) /\ t[k] = s[k]
    BY <2>2
  <2>5. i \in 1..Len(s) => s[i] \in Nat
    <3>1. i \in 1..Len(s) => s[i] \in S
      BY <1>1
    <3>q. QED BY <3>1
  <2>6. i \in 1..Len(t) => t[i] \in Nat
    <3>1. i \in 1..Len(t) => t[i] \in S
      BY <1>1
    <3>q. QED BY <3>1
  <2>7. CASE i \in 1..Len(s) /\ (i \in 1..Len(t) => s[i] < t[i])
    BY <2>3, <2>7, FirstOther
  <2>8. CASE i \in 1..Len(t) /\ (i \in 1..Len(s) => t[i] < s[i])
    BY <2>4, <2>8, FirstOther
  <2>9. CASE i \in 1..Len(s) /\ i \in 1..Len(t) /\ s[i] # t[i]
    BY <2>5, <2>6, <2>7, <2>8, <2>9
  <2>q. QED BY <2>2, <2>7, <2>8, <2>9
<1>4. \A i \in Nat : Same(i)
  BY <1>3
<1> HIDE DEF D
<1>5. Len(s) = Len(t)
  <2>1. CASE Len(s) < Len(t)
    <3>1. Len(t) \in 1..Len(t) /\ Len(t) \notin 1..Len(s)
      BY <1>1, <2>1
    <3>q. QED BY <1>1, <1>4, <3>1
  <2>2. CASE Len(t) < Len(s)
    <3>1. Len(s) \in 1..Len(s) /\ Len(s) \notin 1..Len(t)
      BY <1>1, <2>2
    <3>q. QED BY <1>1, <1>4, <3>1
  <2>q. QED BY <1>1, <2>1, <2>2
<1>6. \A i \in 1..Len(s) : s[i] = t[i]
  <2> TAKE i \in 1..Len(s)
  <2>1. i \in Nat /\ Same(i)
    BY <1>1, <1>4
  <2>q. QED BY <2>1
<1>q. QED BY <1>1, <1>5, <1>6, SeqEqual

-----------------------------------------------------------------------------
\* The lines that lister q has read of the file it has open, and what it has of them.
ReadSoFar(q) ==
  {files[stream[q]][i] : i \in {j \in DOMAIN files[stream[q]] : j < line[q]}} \ Inner

MacTypeOK ==
  /\ learned \in SUBSET Macs
  /\ files \in Seq(Seq(Macs)) /\ path \in 0..Len(files)
  /\ mpc \in [Listers -> {"out", "ask", "open", "stale", "read", "reread", "return", "return old"}]
  /\ stream \in [Listers -> 0..Len(files)]
  /\ \A q \in Listers : mpc[q] \in {"read", "reread"} => stream[q] # 0
  /\ line \in [Listers -> Nat \ {0}]
  /\ listed \in [Listers -> Seq(Macs)]
  /\ known \in [Listers -> SUBSET Macs] /\ alone \in [Listers -> BOOLEAN]

\* What a lister has may come from its own request or a later one: all of it was in
\* the chip since the call began.
Calling(q) ==
  /\ mpc[q] # "out" => learned \subseteq known[q]
  /\ mpc[q] = "open" /\ path # 0 => \A i \in DOMAIN files[path] : files[path][i] \in known[q]
  /\ mpc[q] = "read" =>
       /\ \A i \in DOMAIN files[stream[q]] : files[stream[q]][i] \in known[q]
  /\ mpc[q] \in {"read", "return"} => \A i \in DOMAIN listed[q] : listed[q][i] \in known[q]
  /\ mpc[q] \in {"ask", "open", "stale"} => listed[q] = <<>>

\* A lister that was alone since its request reads the table there is.
Undisturbed(q) ==
  alone[q] =>
    /\ mpc[q] \notin {"ask", "stale", "reread"}
    /\ mpc[q] = "open" => path # 0 /\ files[path] = Lines(learned)
    /\ mpc[q] = "read" =>
         /\ files[stream[q]] = Lines(learned)
         /\ Lists(listed[q], ReadSoFar(q))
    /\ mpc[q] = "return" => Lists(listed[q], learned \ Inner)

MacInv == MacTypeOK /\ \A q \in Listers : Calling(q) /\ Undisturbed(q)

LEMMA LinesOf ==
  ASSUME NEW T \in SUBSET Macs
  PROVE  /\ Lines(T) \in Seq(Macs) /\ Lists(Lines(T), T)
         /\ \A i \in DOMAIN Lines(T) : Lines(T)[i] \in T
<1>1. IsFiniteSet(T) /\ T \in SUBSET Nat
  BY MacAssumption, FS_Subset
<1>2. Lists(Lines(T), T)
  BY <1>1, LinesList
<1>3. Lines(T) \in Seq(T)
  BY <1>2 DEF Lists
<1>4. \A i \in DOMAIN Lines(T) : Lines(T)[i] \in T
  BY <1>3
<1>5. Lines(T) \in Seq(Macs)
  BY <1>3, SeqMonotonic
<1>q. QED BY <1>2, <1>4, <1>5

\* The table in the file is of now, and it is the only file that changes.
LEMMA TableWritten ==
  ASSUME MacTypeOK, WriteTable
  PROVE  /\ files' \in Seq(Seq(Macs)) /\ path' \in 1..Len(files') /\ Len(files) <= Len(files')
         /\ files'[path'] = Lines(learned)
         /\ \A i \in 1..Len(files) : i # path' => files'[i] = files[i]
<1>1. Lines(learned) \in Seq(Macs)
  BY LinesOf DEF MacTypeOK
<1>2. files \in Seq(Seq(Macs)) /\ path \in 0..Len(files) /\ Len(files) \in Nat
  <2>1. files \in Seq(Seq(Macs)) /\ path \in 0..Len(files)
    BY DEF MacTypeOK
  <2>q. QED BY <2>1, LenProperties
<1> DEFINE L == Lines(learned)
<1> HIDE DEF L
<1>3. L \in Seq(Macs)
  BY <1>1 DEF L
<1>4. CASE path # 0
  <2>1. files' = [files EXCEPT ![path] = L] /\ path' = path
    BY <1>4 DEF WriteTable, L
  <2>2. path \in 1..Len(files)
    BY <1>2, <1>4
  <2>q. QED BY <1>2, <1>3, <2>1, <2>2 DEF L
<1>5. CASE path = 0
  <2>1. files' = Append(files, L) /\ path' = Len(files')
    BY <1>5 DEF WriteTable, L
  <2>2. /\ files' \in Seq(Seq(Macs)) /\ Len(files') = Len(files) + 1
        /\ files'[Len(files) + 1] = L
        /\ \A i \in 1..Len(files) : files'[i] = files[i]
    BY <1>2, <1>3, <2>1
  <2>q. QED BY <1>2, <2>1, <2>2 DEF L
<1>q. QED BY <1>4, <1>5

\* A step that leaves the files and what lister q has and knows.
LEMMA OtherListersStay ==
  ASSUME MacTypeOK, NEW q \in Listers, Calling(q), Undisturbed(q),
         mpc'[q] = mpc[q], stream'[q] = stream[q], line'[q] = line[q],
         listed'[q] = listed[q], known'[q] = known[q], learned' = learned,
         alone'[q] \in {FALSE, alone[q]},
         \/ files' = files /\ path' \in {0, path} /\ (alone'[q] => path' = path \/ mpc[q] # "open")
         \/ WriteTable /\ alone'[q] = FALSE
  PROVE  Calling(q)' /\ Undisturbed(q)'
<1>1. CASE files' = files /\ path' \in {0, path} /\ (alone'[q] => path' = path \/ mpc[q] # "open")
  <2>1. Calling(q)'
    BY <1>1 DEF Calling
  <2>2. ReadSoFar(q)' = ReadSoFar(q)
    BY <1>1 DEF ReadSoFar
  <2>3. Undisturbed(q)'
    BY <1>1, <2>2 DEF Undisturbed, Lists, Ordered
  <2>q. QED BY <2>1, <2>3
<1>2. CASE WriteTable /\ alone'[q] = FALSE
  <2>1. Undisturbed(q)'
    BY <1>2 DEF Undisturbed
  <2>2. /\ files'[path'] = Lines(learned) /\ path' # 0
        /\ \A i \in 1..Len(files) : i # path' => files'[i] = files[i]
    <3>1. /\ files' \in Seq(Seq(Macs)) /\ path' \in 1..Len(files')
          /\ files'[path'] = Lines(learned)
          /\ \A i \in 1..Len(files) : i # path' => files'[i] = files[i]
      BY <1>2, TableWritten
    <3>2. Len(files') \in Nat
      BY <3>1, LenProperties
    <3>q. QED BY <3>1, <3>2
  <2>3. \A i \in DOMAIN Lines(learned) : Lines(learned)[i] \in learned
    BY LinesOf DEF MacTypeOK
  <2>4. mpc[q] \in {"open", "read"} => learned \subseteq known[q]
    BY DEF Calling
  <2>5. mpc[q] = "read" => stream[q] \in 1..Len(files)
    <3>1. files \in Seq(Seq(Macs)) /\ stream[q] \in 0..Len(files)
      BY DEF MacTypeOK
    <3>2. Len(files) \in Nat
      BY <3>1, LenProperties
    <3>3. mpc[q] = "read" => stream[q] # 0
      BY DEF MacTypeOK
    <3>q. QED BY <3>1, <3>2, <3>3
  <2>6. mpc[q] = "read" =>
          \A i \in DOMAIN files'[stream[q]] : files'[stream[q]][i] \in known[q]
    <3>1. CASE stream[q] = path'
      BY <2>2, <2>3, <2>4, <3>1
    <3>2. CASE stream[q] # path'
      BY <2>2, <2>5, <3>2 DEF Calling
    <3>q. QED BY <3>1, <3>2
  <2>7. Calling(q)'
    BY <2>2, <2>3, <2>4, <2>6 DEF Calling
  <2>q. QED BY <2>1, <2>7
<1>q. QED BY <1>1, <1>2

Places == {"out", "ask", "open", "stale", "read", "reread", "return", "return old"}

LEMMA MacTyped == MacTypeOK /\ [MacNext]_macvars => MacTypeOK'
<1> SUFFICES ASSUME MacTypeOK, [MacNext]_macvars PROVE MacTypeOK'
  OBVIOUS
<1> DEFINE FileOK == /\ files \in Seq(Seq(Macs)) /\ path \in 0..Len(files)
                     /\ stream \in [Listers -> 0..Len(files)]
           PlaceOK == /\ mpc \in [Listers -> Places]
                      /\ \A q \in Listers : mpc[q] \in {"read", "reread"} => stream[q] # 0
           ListerOK == /\ learned \in SUBSET Macs
                       /\ line \in [Listers -> Nat \ {0}] /\ listed \in [Listers -> Seq(Macs)]
                       /\ known \in [Listers -> SUBSET Macs] /\ alone \in [Listers -> BOOLEAN]
<1>1. MacTypeOK <=> FileOK /\ PlaceOK /\ ListerOK
  BY DEF MacTypeOK, Places
<1>2. MacTypeOK' <=> FileOK' /\ PlaceOK' /\ ListerOK'
  BY DEF MacTypeOK, Places
<1>3. Inner \subseteq Macs /\ Len(files) \in Nat
  BY <1>1, MacAssumption, LenProperties
<1>4. ASSUME WriteTable, stream' = stream PROVE FileOK'
  <2>1. files' \in Seq(Seq(Macs)) /\ path' \in 1..Len(files') /\ Len(files) <= Len(files')
    BY <1>4, TableWritten
  <2>2. Len(files') \in Nat
    BY <2>1, LenProperties
  <2>3. 0..Len(files) \subseteq 0..Len(files') /\ path' \in 0..Len(files')
    BY <1>3, <2>1, <2>2
  <2>4. stream' \in [Listers -> 0..Len(files')]
    BY <1>1, <1>4, <2>3
  <2>q. QED BY <2>1, <2>3, <2>4
<1>5. ASSUME files' = files, stream' = stream, path' \in {0, path} PROVE FileOK'
  BY <1>1, <1>3, <1>5
<1>6. \A q \in Listers : Others(q) \in [Listers -> BOOLEAN]
  <2>1. \A o \in Listers : alone[o] \in BOOLEAN
    BY <1>1
  <2>q. QED BY <2>1, Zenon DEF Others
<1>7. ASSUME NEW m \in Macs, Learn(m) PROVE MacTypeOK'
  <2>1. FileOK' /\ PlaceOK'
    BY <1>1, <1>5, <1>7 DEF Learn
  <2> HIDE DEF FileOK, PlaceOK
  <2>2. ListerOK'
    BY <1>1, <1>7 DEF Learn
  <2>q. QED BY <1>2, <2>1, <2>2
<1>8. CASE bcm_get_all_mac
  <2>1. FileOK'
    BY <1>4, <1>8 DEF bcm_get_all_mac
  <2> HIDE DEF FileOK
  <2>2. PlaceOK' /\ ListerOK'
    BY <1>1, <1>8 DEF bcm_get_all_mac
  <2>q. QED BY <1>2, <2>1, <2>2
<1>9. ASSUME NEW q \in Listers, OpenForList(q) PROVE MacTypeOK'
  <2>1. FileOK'
    BY <1>5, <1>9 DEF OpenForList
  <2>2. PlaceOK'
    BY <1>1, <1>9 DEF OpenForList, Places
  <2> HIDE DEF FileOK, PlaceOK
  <2>3. ListerOK'
    BY <1>1, <1>9 DEF OpenForList
  <2>q. QED BY <1>2, <2>1, <2>2, <2>3
<1>10. ASSUME NEW q \in Listers, AskDriver(q) PROVE MacTypeOK'
  <2>1. FileOK'
    BY <1>4, <1>10 DEF AskDriver
  <2> HIDE DEF FileOK
  <2>2. PlaceOK'
    BY <1>1, <1>10 DEF AskDriver, Places
  <2> HIDE DEF PlaceOK
  <2>3. alone' \in [Listers -> BOOLEAN]
    BY <1>6, <1>10 DEF AskDriver
  <2>4. ListerOK'
    BY <1>1, <1>10, <2>3 DEF AskDriver
  <2>q. QED BY <1>2, <2>1, <2>2, <2>4
<1>11. ASSUME NEW q \in Listers, AskRefused(q) PROVE MacTypeOK'
  <2>1. FileOK'
    BY <1>5, <1>11 DEF AskRefused
  <2> HIDE DEF FileOK
  <2>2. PlaceOK' /\ ListerOK'
    BY <1>1, <1>11 DEF AskRefused, Places
  <2>q. QED BY <1>2, <2>1, <2>2
<1>12. ASSUME NEW q \in Listers, OpenList(q) PROVE MacTypeOK'
  <2>1. FileOK'
    BY <1>1, <1>12 DEF OpenList
  <2> HIDE DEF ListerOK
  <2>2. PlaceOK'
    BY <1>1, <1>12 DEF OpenList, Places
  <2> USE DEF ListerOK
  <2> HIDE DEF FileOK, PlaceOK
  <2>3. ListerOK'
    BY <1>1, <1>12 DEF OpenList
  <2>q. QED BY <1>2, <2>1, <2>2, <2>3
<1>13. ASSUME NEW q \in Listers, ReadLine(q) PROVE MacTypeOK'
  <2> DEFINE L == files[stream[q]]
             m == L[line[q]]
  <2>1. stream[q] \in 1..Len(files)
    BY <1>1, <1>3, <1>13 DEF ReadLine
  <2>2. L \in Seq(Macs)
    BY <1>1, <2>1
  <2>3. line[q] \in 1..Len(L) /\ line[q] + 1 \in Nat \ {0}
    BY <1>1, <1>13, <2>2, LenProperties DEF ReadLine
  <2>4. m \in Macs
    BY <2>2, <2>3
  <2>5. listed' = [listed EXCEPT ![q] = IF m \in Inner THEN @ ELSE Append(@, m)]
    BY <1>13 DEF ReadLine
  <2> HIDE DEF m, L
  <2>6. listed' \in [Listers -> Seq(Macs)]
    BY <1>1, <2>4, <2>5
  <2>7. line' \in [Listers -> Nat \ {0}]
    BY <1>1, <1>13, <2>3 DEF ReadLine
  <2>8. FileOK' /\ PlaceOK'
    BY <1>1, <1>5, <1>13 DEF ReadLine
  <2> HIDE DEF FileOK, PlaceOK
  <2>9. ListerOK'
    BY <1>1, <1>13, <2>6, <2>7 DEF ReadLine
  <2>q. QED BY <1>2, <2>8, <2>9
<1>14. ASSUME NEW q \in Listers, EndOfList(q) PROVE MacTypeOK'
  <2>1. FileOK'
    BY <1>5, <1>14 DEF EndOfList
  <2> HIDE DEF FileOK
  <2>2. PlaceOK'
    BY <1>1, <1>14 DEF EndOfList, Places
  <2> HIDE DEF PlaceOK
  <2>3. alone' \in [Listers -> BOOLEAN]
    BY <1>6, <1>14 DEF EndOfList
  <2>4. ListerOK'
    BY <1>1, <1>14, <2>3 DEF EndOfList
  <2>q. QED BY <1>2, <2>1, <2>2, <2>4
<1>15. ASSUME NEW q \in Listers, LeaveList(q) PROVE MacTypeOK'
  <2>1. FileOK'
    BY <1>5, <1>15 DEF LeaveList
  <2> HIDE DEF FileOK
  <2>2. PlaceOK' /\ ListerOK'
    BY <1>1, <1>15 DEF LeaveList, Places
  <2>q. QED BY <1>2, <2>1, <2>2
<1>16. CASE UNCHANGED macvars
  <2>1. FileOK'
    BY <1>5, <1>16 DEF macvars
  <2> HIDE DEF FileOK
  <2>2. PlaceOK' /\ ListerOK'
    BY <1>1, <1>16 DEF macvars
  <2>q. QED BY <1>2, <2>1, <2>2
<1>q. QED BY <1>7, <1>8, <1>9, <1>10, <1>11, <1>12, <1>13, <1>14, <1>15, <1>16 DEF MacNext

LEMMA LearnStays ==
  ASSUME MacTypeOK, NEW m \in Macs, Learn(m), NEW q \in Listers, Calling(q)
  PROVE  Calling(q)' /\ Undisturbed(q)'
<1>1. /\ known'[q] = known[q] \union learned' /\ alone'[q] = FALSE
      /\ mpc' = mpc /\ stream' = stream /\ files' = files /\ path' = path /\ listed' = listed
  BY DEF Learn, MacTypeOK
<1>2. Undisturbed(q)'
  BY <1>1 DEF Undisturbed
<1>3. Calling(q)'
  BY <1>1 DEF Calling
<1>q. QED BY <1>2, <1>3

\* What a request that succeeds leaves to its lister.
LEMMA AskRight ==
  ASSUME MacTypeOK, NEW q \in Listers, Calling(q), AskDriver(q)
  PROVE  Calling(q)' /\ Undisturbed(q)'
<1>1. /\ mpc[q] = "ask" /\ mpc'[q] = "open" /\ listed' = listed /\ known' = known
      /\ learned' = learned /\ WriteTable
  BY DEF AskDriver, MacTypeOK
<1>2. files'[path'] = Lines(learned) /\ path' # 0
  <2>1. /\ files' \in Seq(Seq(Macs)) /\ path' \in 1..Len(files')
        /\ files'[path'] = Lines(learned)
    BY <1>1, TableWritten
  <2>2. Len(files') \in Nat
    BY <2>1, LenProperties
  <2>q. QED BY <2>1, <2>2
<1>3. \A i \in DOMAIN Lines(learned) : Lines(learned)[i] \in learned
  BY LinesOf DEF MacTypeOK
<1>4. learned \subseteq known[q] /\ listed[q] = <<>>
  BY <1>1 DEF Calling
<1>5. Calling(q)'
  BY <1>1, <1>2, <1>3, <1>4 DEF Calling
<1>6. Undisturbed(q)'
  BY <1>1, <1>2 DEF Undisturbed
<1>q. QED BY <1>5, <1>6

LEMMA OpenRight ==
  ASSUME MacTypeOK, NEW q \in Listers, Calling(q), Undisturbed(q), OpenList(q)
  PROVE  Calling(q)' /\ Undisturbed(q)'
<1>1. /\ mpc[q] \in {"open", "stale"} /\ stream'[q] = path /\ line'[q] = 1
      /\ mpc'[q] = IF path = 0 THEN "return" ELSE IF mpc[q] = "open" THEN "read" ELSE "reread"
      /\ listed' = listed /\ known' = known /\ learned' = learned /\ alone' = alone
      /\ files' = files /\ path' = path
  BY DEF OpenList, MacTypeOK
<1>2. listed[q] = <<>> /\ learned \subseteq known[q]
  BY <1>1 DEF Calling
<1>3. Calling(q)'
  BY <1>1, <1>2 DEF Calling
<1>4. CASE alone[q]
  <2>1. mpc[q] = "open" /\ path # 0 /\ files[path] = Lines(learned)
    BY <1>1, <1>4 DEF Undisturbed
  <2>2. Lines(learned) \in Seq(Macs)
    BY LinesOf DEF MacTypeOK
  <2>3. ReadSoFar(q)' = {}
    <3>1. DOMAIN Lines(learned) = 1..Len(Lines(learned))
      BY <2>2
    <3>2. \A j \in DOMAIN Lines(learned) : ~ (j < 1)
      BY <2>2, <3>1, LenProperties
    <3>q. QED BY <1>1, <2>1, <3>2 DEF ReadSoFar
  <2>4. Lists(<<>>, {})
    BY DEF Lists, Ordered
  <2>5. Lists(listed[q], ReadSoFar(q))'
    BY <1>1, <1>2, <2>3, <2>4 DEF Lists, Ordered
  <2>q. QED BY <1>1, <1>3, <2>1, <2>5 DEF Undisturbed
<1>5. CASE ~alone[q]
  <2>1. ~alone'[q]
    BY <1>1, <1>5
  <2>q. QED BY <1>3, <2>1 DEF Undisturbed
<1>q. QED BY <1>4, <1>5

\* One more in order.
LEMMA ListsMore ==
  ASSUME NEW T \in SUBSET Nat, NEW s, Lists(s, T), NEW m \in Nat, \A x \in T : x < m
  PROVE  Lists(Append(s, m), T \cup {m})
<1> DEFINE n == Len(s)
           t == Append(s, m)
           U == T \cup {m}
<1>1. s \in Seq(T) /\ s \in Seq(U) /\ n \in Nat /\ DOMAIN s = 1..n
  <2>1. s \in Seq(T)
    BY DEF Lists
  <2>q. QED BY <2>1, SeqMonotonic, LenProperties
<1>2. /\ t \in Seq(U) /\ Len(t) = n + 1 /\ t[n + 1] = m
      /\ \A i \in 1..n : t[i] = s[i]
  BY <1>1, AppendProperties
<1>3. DOMAIN t = 1..(n + 1)
  BY <1>2
<1>4. \A i \in 1..n : s[i] \in T
  BY <1>1
<1> HIDE DEF t, n
<1>5. Ordered(t)
  <2> SUFFICES ASSUME NEW i \in 1..(n + 1), NEW j \in 1..(n + 1), i < j PROVE t[i] < t[j]
    BY <1>3 DEF Ordered
  <2>1. i \in 1..n
    BY <1>1
  <2>2. CASE j \in 1..n
    BY <1>1, <1>2, <2>1, <2>2 DEF Lists, Ordered
  <2>3. CASE j = n + 1
    BY <1>2, <1>4, <2>1, <2>3
  <2>4. j \in 1..n \/ j = n + 1
    BY <1>1
  <2>q. QED BY <2>2, <2>3, <2>4
<1>6. \A x \in U : \E i \in DOMAIN t : t[i] = x
  <2> TAKE x \in U
  <2>1. CASE x = m
    <3>1. n + 1 \in DOMAIN t
      BY <1>1, <1>3
    <3>q. QED BY <1>2, <2>1, <3>1
  <2>2. CASE x \in T
    <3>1. PICK i \in 1..n : s[i] = x
      BY <1>1, <2>2 DEF Lists
    <3>2. i \in DOMAIN t
      BY <1>1, <1>3
    <3>q. QED BY <1>2, <3>1, <3>2
  <2>q. QED BY <2>1, <2>2
<1>q. QED BY <1>2, <1>5, <1>6 DEF Lists, t

LEMMA ReadRight ==
  ASSUME MacTypeOK, NEW q \in Listers, Calling(q), Undisturbed(q), ReadLine(q)
  PROVE  Calling(q)' /\ Undisturbed(q)'
<1> DEFINE L == files[stream[q]]
           k == line[q]
           m == L[k]
<1>1. /\ mpc[q] \in {"read", "reread"} /\ mpc' = mpc /\ k <= Len(L)
      /\ listed'[q] = IF m \in Inner THEN listed[q] ELSE Append(listed[q], m)
      /\ line'[q] = k + 1 /\ known' = known /\ learned' = learned /\ alone' = alone
      /\ files' = files /\ path' = path /\ stream' = stream
  BY DEF ReadLine, MacTypeOK
<1>2. L \in Seq(Macs) /\ Len(L) \in Nat /\ DOMAIN L = 1..Len(L) /\ k \in 1..Len(L)
  <2>1. files \in Seq(Seq(Macs)) /\ stream[q] \in 0..Len(files) /\ stream[q] # 0
    BY <1>1 DEF MacTypeOK
  <2>2. stream[q] \in 1..Len(files)
    BY <2>1, LenProperties
  <2>3. L \in Seq(Macs)
    BY <2>1, <2>2
  <2>4. Len(L) \in Nat /\ k \in Nat \ {0}
    BY <2>3, LenProperties DEF MacTypeOK
  <2>q. QED BY <1>1, <2>3, <2>4
<1>3. m \in Macs /\ listed[q] \in Seq(Macs) /\ Macs \subseteq Nat
  <2>1. listed[q] \in Seq(Macs)
    BY DEF MacTypeOK
  <2>2. m \in Macs
    BY <1>2
  <2>q. QED BY <2>1, <2>2, MacAssumption
<1>4. Calling(q)'
  <2>1. CASE mpc[q] = "read"
    <3>1. m \in known[q] /\ learned \subseteq known[q]
          /\ \A i \in DOMAIN L : L[i] \in known[q]
      BY <1>2, <2>1 DEF Calling
    <3>2. \A i \in DOMAIN listed[q] : listed[q][i] \in known[q]
      BY <2>1 DEF Calling
    <3> HIDE DEF m, L, k
    <3>3. \A i \in DOMAIN listed'[q] : listed'[q][i] \in known[q]
      <4>1. CASE m \in Inner
        BY <1>1, <3>2, <4>1
      <4>2. CASE m \notin Inner
        <5>1. listed'[q] = Append(listed[q], m)
          BY <1>1, <4>2
        <5>2. /\ DOMAIN listed'[q] = 1..(Len(listed[q]) + 1)
              /\ DOMAIN listed[q] = 1..Len(listed[q])
              /\ listed'[q][Len(listed[q]) + 1] = m
              /\ \A i \in 1..Len(listed[q]) : listed'[q][i] = listed[q][i]
          BY <1>3, <5>1
        <5>3. Len(listed[q]) \in Nat
          BY <1>3, LenProperties
        <5>q. QED BY <3>1, <3>2, <5>2, <5>3
      <4>q. QED BY <4>1, <4>2
    <3>4. \A i \in DOMAIN files'[stream'[q]] : files'[stream'[q]][i] \in known'[q]
      BY <1>1, <3>1 DEF L
    <3>q. QED BY <1>1, <2>1, <3>1, <3>3, <3>4 DEF Calling
  <2>2. CASE mpc[q] = "reread"
    BY <1>1, <2>2 DEF Calling
  <2>q. QED BY <1>1, <2>1, <2>2
<1>5. Undisturbed(q)'
  <2>1. CASE ~alone[q]
    BY <1>1, <2>1 DEF Undisturbed
  <2>2. CASE alone[q]
    <3>1. mpc[q] = "read" /\ L = Lines(learned) /\ Lists(listed[q], ReadSoFar(q))
      BY <1>1, <2>2 DEF Undisturbed
    <3>2. ReadSoFar(q) = {L[i] : i \in {j \in 1..Len(L) : j < k}} \ Inner
      BY <1>2 DEF ReadSoFar
    <3>3. ReadSoFar(q)' = {L[i] : i \in {j \in 1..Len(L) : j < k + 1}} \ Inner
      BY <1>1, <1>2 DEF ReadSoFar
    <3>4. Ordered(L)
      <4>1. Lists(Lines(learned), learned)
        BY LinesOf DEF MacTypeOK
      <4>q. QED BY <3>1, <4>1 DEF Lists
    <3>5. {j \in 1..Len(L) : j < k + 1} = {j \in 1..Len(L) : j < k} \cup {k}
      BY <1>2
    <3>6. ReadSoFar(q)' = IF m \in Inner THEN ReadSoFar(q) ELSE ReadSoFar(q) \cup {m}
      <4>1. {L[i] : i \in {j \in 1..Len(L) : j < k + 1}}
              = {L[i] : i \in {j \in 1..Len(L) : j < k}} \cup {m}
        BY <3>5
      <4>q. QED BY <3>2, <3>3, <4>1
    <3>7. ReadSoFar(q) \in SUBSET Nat /\ \A x \in ReadSoFar(q) : x < m
      <4> SUFFICES ASSUME NEW x \in ReadSoFar(q) PROVE x \in Nat /\ x < m
        OBVIOUS
      <4>1. PICK i \in 1..Len(L) : i < k /\ L[i] = x
        BY <3>2
      <4>2. x \in Macs
        BY <1>2, <4>1
      <4>3. L[i] < L[k]
        BY <1>2, <3>4, <4>1 DEF Ordered
      <4>q. QED BY <1>3, <4>1, <4>2, <4>3
    <3>8. m \in Nat
      BY <1>3
    <3> HIDE DEF m, L, k
    <3>9. Lists(listed'[q], ReadSoFar(q)')
      <4>1. CASE m \in Inner
        BY <1>1, <3>1, <3>6, <4>1
      <4>2. CASE m \notin Inner
        BY <1>1, <3>1, <3>6, <3>7, <3>8, <4>2, ListsMore
      <4>q. QED BY <4>1, <4>2
    <3>10. Lists(listed[q], ReadSoFar(q))'
      BY <3>9 DEF Lists, Ordered
    <3>11. files'[stream'[q]] = Lines(learned')
      BY <1>1, <3>1 DEF L
    <3>12. mpc'[q] = "read"
      BY <1>1, <3>1
    <3>q. QED BY <3>10, <3>11, <3>12 DEF Undisturbed
  <2>q. QED BY <2>1, <2>2
<1>q. QED BY <1>4, <1>5

LEMMA EndRight ==
  ASSUME MacTypeOK, NEW q \in Listers, Calling(q), Undisturbed(q), EndOfList(q)
  PROVE  Calling(q)' /\ Undisturbed(q)'
<1> DEFINE L == files[stream[q]]
<1>1. /\ mpc[q] \in {"read", "reread"} /\ line[q] > Len(L)
      /\ mpc'[q] = (IF mpc[q] = "read" THEN "return" ELSE "return old")
      /\ listed' = listed /\ known' = known /\ learned' = learned /\ alone'[q] = alone[q]
      /\ files' = files
  BY DEF EndOfList, Others, MacTypeOK
<1>2. Calling(q)'
  BY <1>1 DEF Calling
<1>3. Undisturbed(q)'
  <2>1. CASE ~alone[q]
    BY <1>1, <2>1 DEF Undisturbed
  <2>2. CASE alone[q]
    <3>1. mpc[q] = "read" /\ L = Lines(learned) /\ Lists(listed[q], ReadSoFar(q))
      BY <1>1, <2>2 DEF Undisturbed
    <3>2. Lists(L, learned)
      BY <3>1, LinesOf DEF MacTypeOK
    <3>3. L \in Seq(learned) /\ Len(L) \in Nat /\ DOMAIN L = 1..Len(L)
      BY <3>2, LenProperties DEF Lists
    <3>4. {j \in DOMAIN L : j < line[q]} = DOMAIN L
      <4> DEFINE n == Len(L)
      <4>1. line[q] \in Nat /\ line[q] > n /\ n \in Nat
        BY <1>1, <3>3 DEF MacTypeOK
      <4> HIDE DEF n
      <4>2. \A j \in 1..n : j < line[q]
        BY <4>1
      <4>3. {j \in 1..Len(L) : j < line[q]} = 1..Len(L)
        BY <4>2 DEF n
      <4>q. QED BY <3>3, <4>3
    <3>5. {L[i] : i \in DOMAIN L} = learned
      <4>1. \A i \in DOMAIN L : L[i] \in learned
        BY <3>3
      <4>q. QED BY <3>2, <4>1 DEF Lists
    <3>6. ReadSoFar(q) = learned \ Inner
      BY <3>4, <3>5 DEF ReadSoFar
    <3>7. Lists(listed[q], learned \ Inner)'
      BY <1>1, <3>1, <3>6 DEF Lists, Ordered
    <3>q. QED BY <1>1, <3>1, <3>7 DEF Undisturbed
  <2>q. QED BY <2>1, <2>2
<1>q. QED BY <1>2, <1>3

LEMMA MacStep == MacInv /\ [MacNext]_macvars => MacInv'
<1> SUFFICES ASSUME MacInv, [MacNext]_macvars, NEW o \in Listers
             PROVE  Calling(o)' /\ Undisturbed(o)'
  BY MacTyped DEF MacInv
<1>1. MacTypeOK /\ \A q \in Listers : Calling(q) /\ Undisturbed(q)
  BY DEF MacInv
<1>2. ASSUME NEW m \in Macs, Learn(m) PROVE Calling(o)' /\ Undisturbed(o)'
  BY <1>1, <1>2, LearnStays
<1>3. CASE bcm_get_all_mac
  <2>1. /\ alone'[o] = FALSE /\ WriteTable /\ learned' = learned
        /\ mpc' = mpc /\ stream' = stream /\ line' = line /\ listed' = listed /\ known' = known
    BY <1>3 DEF bcm_get_all_mac
  <2>q. QED BY <1>1, <2>1, OtherListersStay
<1>4. ASSUME NEW q \in Listers, OpenForList(q) PROVE Calling(o)' /\ Undisturbed(o)'
  <2>1. CASE o = q
    <3>1. /\ mpc'[o] = "ask" /\ listed'[o] = <<>> /\ known'[o] = learned /\ alone'[o] = FALSE
          /\ learned' = learned
      BY <1>1, <1>4, <2>1 DEF OpenForList, MacTypeOK
    <3>q. QED BY <3>1 DEF Calling, Undisturbed
  <2>2. CASE o # q
    <3>1. /\ mpc'[o] = mpc[o] /\ listed'[o] = listed[o] /\ known'[o] = known[o]
          /\ alone'[o] = alone[o] /\ learned' = learned /\ files' = files /\ path' = path
          /\ stream' = stream /\ line' = line
      BY <1>1, <1>4, <2>2 DEF OpenForList, MacTypeOK
    <3>q. QED BY <1>1, <3>1, OtherListersStay
  <2>q. QED BY <2>1, <2>2
<1>5. ASSUME NEW q \in Listers, AskDriver(q) PROVE Calling(o)' /\ Undisturbed(o)'
  <2>1. CASE o = q
    BY <1>1, <1>5, <2>1, AskRight
  <2>2. CASE o # q
    <3>1. /\ mpc'[o] = mpc[o] /\ listed' = listed /\ known' = known /\ WriteTable
          /\ alone'[o] = FALSE /\ learned' = learned /\ stream' = stream /\ line' = line
      BY <1>1, <1>5, <2>2 DEF AskDriver, Others, MacTypeOK
    <3>q. QED BY <1>1, <3>1, OtherListersStay
  <2>q. QED BY <2>1, <2>2
<1>6. ASSUME NEW q \in Listers, AskRefused(q) PROVE Calling(o)' /\ Undisturbed(o)'
  <2>1. /\ listed' = listed /\ known' = known /\ alone' = alone /\ learned' = learned
        /\ files' = files /\ path' = path /\ stream' = stream /\ line' = line
    BY <1>6 DEF AskRefused
  <2>2. CASE o = q
    <3>1. mpc[o] = "ask" /\ mpc'[o] = "stale"
      BY <1>1, <1>6, <2>2 DEF AskRefused, MacTypeOK
    <3>q. QED BY <1>1, <2>1, <3>1 DEF Calling, Undisturbed
  <2>3. CASE o # q
    <3>1. mpc'[o] = mpc[o]
      BY <1>1, <1>6, <2>3 DEF AskRefused, MacTypeOK
    <3>q. QED BY <1>1, <2>1, <3>1, OtherListersStay
  <2>q. QED BY <2>2, <2>3
<1>7. ASSUME NEW q \in Listers, OpenList(q) PROVE Calling(o)' /\ Undisturbed(o)'
  <2>1. CASE o = q
    BY <1>1, <1>7, <2>1, OpenRight
  <2>2. CASE o # q
    <3>1. /\ mpc'[o] = mpc[o] /\ stream'[o] = stream[o] /\ line'[o] = line[o]
          /\ listed' = listed /\ known' = known /\ alone' = alone /\ learned' = learned
          /\ files' = files /\ path' = path
      BY <1>1, <1>7, <2>2 DEF OpenList, MacTypeOK
    <3>q. QED BY <1>1, <3>1, OtherListersStay
  <2>q. QED BY <2>1, <2>2
<1>8. ASSUME NEW q \in Listers, ReadLine(q) PROVE Calling(o)' /\ Undisturbed(o)'
  <2>1. CASE o = q
    BY <1>1, <1>8, <2>1, ReadRight
  <2>2. CASE o # q
    <3>1. /\ mpc' = mpc /\ stream' = stream /\ line'[o] = line[o] /\ listed'[o] = listed[o]
          /\ known' = known /\ alone' = alone /\ learned' = learned
          /\ files' = files /\ path' = path
      BY <1>1, <1>8, <2>2 DEF ReadLine, MacTypeOK
    <3>q. QED BY <1>1, <3>1, OtherListersStay
  <2>q. QED BY <2>1, <2>2
<1>9. ASSUME NEW q \in Listers, EndOfList(q) PROVE Calling(o)' /\ Undisturbed(o)'
  <2>1. CASE o = q
    BY <1>1, <1>9, <2>1, EndRight
  <2>2. CASE o # q
    <3>1. /\ mpc'[o] = mpc[o] /\ stream' = stream /\ line' = line /\ listed' = listed
          /\ known' = known /\ alone'[o] = FALSE /\ learned' = learned
          /\ files' = files /\ path' = 0
      BY <1>1, <1>9, <2>2 DEF EndOfList, Others, MacTypeOK
    <3>q. QED BY <1>1, <3>1, OtherListersStay
  <2>q. QED BY <2>1, <2>2
<1>10. ASSUME NEW q \in Listers, LeaveList(q) PROVE Calling(o)' /\ Undisturbed(o)'
  <2>1. /\ listed' = listed /\ known' = known /\ alone' = alone /\ learned' = learned
        /\ files' = files /\ path' = path /\ stream' = stream /\ line' = line
    BY <1>10 DEF LeaveList
  <2>2. CASE o = q
    <3>1. mpc'[o] = "out"
      BY <1>1, <1>10, <2>2 DEF LeaveList, MacTypeOK
    <3>q. QED BY <2>1, <3>1 DEF Calling, Undisturbed
  <2>3. CASE o # q
    <3>1. mpc'[o] = mpc[o]
      BY <1>1, <1>10, <2>3 DEF LeaveList, MacTypeOK
    <3>q. QED BY <1>1, <2>1, <3>1, OtherListersStay
  <2>q. QED BY <2>2, <2>3
<1>11. CASE UNCHANGED macvars
  BY <1>1, <1>11, OtherListersStay DEF macvars
<1>q. QED BY <1>2, <1>3, <1>4, <1>5, <1>6, <1>7, <1>8, <1>9, <1>10, <1>11 DEF MacNext

\* What a lister has, reads and may read was in the chip since its call began, and is the
\* whole table while nobody disturbs it (mac.c:101-157).
THEOREM MacInvCorrect == MacSpec => []MacInv
<1>1. MacInit => MacInv
  <2> SUFFICES ASSUME MacInit PROVE MacInv
    OBVIOUS
  <2>1. MacTypeOK
    BY MacAssumption DEF MacInit, MacTypeOK
  <2>2. \A q \in Listers : mpc[q] = "out" /\ alone[q] = FALSE
    BY DEF MacInit
  <2>q. QED BY <2>1, <2>2 DEF MacInv, Calling, Undisturbed
<1>q. QED BY <1>1, MacStep, PTL DEF MacSpec

\* For any processes, addresses, files and changes of the table, a list whose request
\* succeeded names only addresses of the chip, and all of them in order if nobody else
\* was at the file (mac.c:114-156).
THEOREM ListedWasThereCorrect == MacSpec => []ListedWasThere
<1>1. MacInv => ListedWasThere
  <2> SUFFICES ASSUME MacInv, NEW q \in Listers, mpc[q] = "return"
               PROVE  /\ \A i \in DOMAIN listed[q] : listed[q][i] \in known[q]
                      /\ alone[q] => listed[q] = Lines(learned \ Inner)
    BY DEF ListedWasThere
  <2>1. MacTypeOK /\ Calling(q) /\ Undisturbed(q)
    BY DEF MacInv
  <2>2. \A i \in DOMAIN listed[q] : listed[q][i] \in known[q]
    BY <2>1 DEF Calling
  <2>3. ASSUME alone[q] PROVE listed[q] = Lines(learned \ Inner)
    <3>1. Lists(listed[q], learned \ Inner)
      BY <2>1, <2>3 DEF Undisturbed
    <3>2. learned \ Inner \in SUBSET Macs /\ learned \ Inner \in SUBSET Nat
      BY <2>1, MacAssumption DEF MacTypeOK
    <3>3. Lists(Lines(learned \ Inner), learned \ Inner)
      BY <3>2, LinesOf
    <3>q. QED BY <3>1, <3>2, <3>3, ListsOnce
  <2>q. QED BY <2>2, <2>3
<1>q. QED BY <1>1, MacInvCorrect, PTL

-----------------------------------------------------------------------------
(* The addresses of if_info.c: a prefix, a mask and a padded prefix as digits *)

Bit(a, k) == IF k \in a THEN 1 ELSE 0

\* f follows the digits d[1], d[2], ... from x on.
Follows(f, x, d) ==
  /\ f \in [0..Bits -> Nat] /\ f[0] = x
  /\ \A i \in 1..Bits : f[i] = 2 * f[i - 1] + d[i]

LEMMA BitsType == Bits \in Nat /\ Octet \in Nat /\ 1 <= Octet /\ Bits = 4 * Octet
BY OctetAssumption DEF Bits

\* A number is defined by its digits, however many they are.
LEMMA DigitsRun ==
  ASSUME NEW x \in Nat, NEW d \in [1..Bits -> Nat]
  PROVE  \E f : Follows(f, x, d)
<1> DEFINE body == [p \in (1..Bits) \X Nat |-> 2 * p[2] + d[p[1]]]
<1>1. body \in Bodies(Bits, Nat) /\ \A i \in 1..Bits, y \in Nat : body[<<i, y>>] = 2 * y + d[i]
  BY DEF Bodies
<1> HIDE DEF body
<1>2. PICK f : States(f, Bits, Nat, x, body)
  BY <1>1, BitsType, LoopStates
<1>3. \A i \in 1..Bits : i - 1 \in 0..Bits
  BY BitsType
<1>4. Follows(f, x, d)
  BY <1>1, <1>2, <1>3 DEF States, Follows
<1>q. QED BY <1>4

\* The digits of an address, from the highest on.
DigitsOf(a) == [i \in 1..Bits |-> Bit(a, Bits - i)]

LEMMA LeadingRuns ==
  ASSUME NEW a
  PROVE  /\ Leading(a, 0) = 0
         /\ \A i \in 0..Bits : Leading(a, i) \in Nat
         /\ \A i \in 1..Bits : Leading(a, i) = 2 * Leading(a, i - 1) + Bit(a, Bits - i)
<1> DEFINE Loop(f) == [i \in 0..Bits |-> IF i = 0 THEN 0
                                         ELSE 2 * f[i - 1] + (IF Bits - i \in a THEN 1 ELSE 0)]
           F == CHOOSE f : f = Loop(f)
<1>1. DigitsOf(a) \in [1..Bits -> Nat]
  BY DEF DigitsOf, Bit
<1>2. PICK g : Follows(g, 0, DigitsOf(a))
  BY <1>1, DigitsRun
<1>3. g \in [0..Bits -> Nat] /\ g[0] = 0
  BY <1>2 DEF Follows
<1>4. \A i \in 1..Bits : g[i] = 2 * g[i - 1] + Bit(a, Bits - i)
  BY <1>2 DEF Follows, DigitsOf
<1>5. g = Loop(g)
  <2>1. \A i \in 0..Bits : i = 0 \/ i \in 1..Bits
    BY BitsType
  <2>2. \A i \in 0..Bits : g[i] = IF i = 0 THEN 0
                                 ELSE 2 * g[i - 1] + (IF Bits - i \in a THEN 1 ELSE 0)
    BY <1>3, <1>4, <2>1 DEF Bit
  <2>3. g = [i \in 0..Bits |-> g[i]]
    BY <1>3
  <2>q. QED BY <2>2, <2>3
<1>6. F = Loop(F)
  BY <1>5, Zenon
<1>7. \A i : Leading(a, i) = F[i]
  BY Zenon DEF Leading
<1>8. F[0] = 0 /\ \A i \in 1..Bits : F[i] = 2 * F[i - 1] + Bit(a, Bits - i)
  <2>1. 0 \in 0..Bits /\ \A i \in 1..Bits : i \in 0..Bits /\ i # 0
    BY BitsType
  <2> HIDE DEF F
  <2>q. QED BY <1>6, <2>1 DEF Bit
<1>9. 0..Bits \subseteq {i \in 0..Bits : F[i] \in Nat}
  <2> HIDE DEF F
  <2> DEFINE K == {i \in 0..Bits : F[i] \in Nat}
  <2>1. 0 \in K
    BY <1>8, BitsType
  <2>2. ASSUME NEW i \in 0..(Bits - 1), i \in K PROVE i + 1 \in K
    <3>1. i + 1 \in 1..Bits /\ i + 1 \in 0..Bits /\ (i + 1) - 1 = i
      BY BitsType
    <3>2. F[i + 1] = 2 * F[i] + Bit(a, Bits - (i + 1))
      BY <1>8, <3>1
    <3>3. Bit(a, Bits - (i + 1)) \in Nat
      BY DEF Bit
    <3>q. QED BY <2>2, <3>1, <3>2, <3>3
  <2> HIDE DEF K
  <2>3. 0..Bits \subseteq K
    BY <2>1, <2>2, BitsType, UpTo
  <2>q. QED BY <2>3 DEF K
<1> HIDE DEF F
<1>q. QED BY <1>7, <1>8, <1>9

LEMMA PaddedRuns ==
  ASSUME NEW x \in Nat, NEW c \in Nat
  PROVE  /\ Padded(x, 0, c) = x
         /\ \A i \in 1..Bits : Padded(x, i, c) = 2 * Padded(x, i - 1, c) + c
<1> DEFINE Loop(f) == [i \in 0..Bits |-> IF i = 0 THEN x ELSE 2 * f[i - 1] + c]
           F == CHOOSE f : f = Loop(f)
           d == [i \in 1..Bits |-> c]
<1>1. d \in [1..Bits -> Nat] /\ \A i \in 1..Bits : d[i] = c
  OBVIOUS
<1> HIDE DEF d
<1>2. PICK g : Follows(g, x, d)
  BY <1>1, DigitsRun
<1>3. g \in [0..Bits -> Nat] /\ g[0] = x /\ \A i \in 1..Bits : g[i] = 2 * g[i - 1] + c
  BY <1>1, <1>2 DEF Follows
<1>4. g = Loop(g)
  <2>1. \A i \in 0..Bits : i = 0 \/ i \in 1..Bits
    BY BitsType
  <2>2. \A i \in 0..Bits : g[i] = IF i = 0 THEN x ELSE 2 * g[i - 1] + c
    BY <1>3, <2>1
  <2>3. g = [i \in 0..Bits |-> g[i]]
    BY <1>3
  <2>q. QED BY <2>2, <2>3
<1>5. F = Loop(F)
  BY <1>4, Zenon
<1>6. \A i : Padded(x, i, c) = F[i]
  BY Zenon DEF Padded
<1>7. 0 \in 0..Bits /\ \A i \in 1..Bits : i \in 0..Bits /\ i # 0
  BY BitsType
<1> HIDE DEF F
<1>q. QED BY <1>5, <1>6, <1>7

\* a and b have the same bits from lo to hi.
Alike(a, b, lo, hi) == \A k \in lo..hi : k \in a <=> k \in b

\* A prefix is the same number exactly if it has the same bits.
LEMMA SamePrefix ==
  ASSUME NEW a, NEW b, NEW n \in 0..Bits
  PROVE  Leading(a, n) = Leading(b, n) <=> Alike(a, b, Bits - n, Bits - 1)
<1> DEFINE K == {m \in 0..Bits : Leading(a, m) = Leading(b, m) <=> Alike(a, b, Bits - m, Bits - 1)}
<1>1. 0 \in K
  <2>1. Leading(a, 0) = 0 /\ Leading(b, 0) = 0
    BY LeadingRuns
  <2>2. Alike(a, b, Bits - 0, Bits - 1) /\ 0 \in 0..Bits
    BY BitsType DEF Alike
  <2>q. QED BY <2>1, <2>2
<1>2. ASSUME NEW m \in 0..(Bits - 1), m \in K PROVE m + 1 \in K
  <2>1. /\ m + 1 \in 1..Bits /\ m + 1 \in 0..Bits /\ m \in 0..Bits /\ (m + 1) - 1 = m
    BY BitsType
  <2> DEFINE k == Bits - (m + 1)
  <2>2. /\ Leading(a, m + 1) = 2 * Leading(a, m) + Bit(a, k) /\ Leading(a, m) \in Nat
    BY <2>1, LeadingRuns
  <2>3. /\ Leading(b, m + 1) = 2 * Leading(b, m) + Bit(b, k) /\ Leading(b, m) \in Nat
    BY <2>1, LeadingRuns
  <2>4. Leading(a, m + 1) = Leading(b, m + 1)
          <=> Leading(a, m) = Leading(b, m) /\ (k \in a <=> k \in b)
    <3>1. ASSUME NEW x \in Nat, NEW y \in Nat, NEW s \in {0, 1}, NEW t \in {0, 1}
          PROVE  2 * x + s = 2 * y + t <=> x = y /\ s = t
      OBVIOUS
    <3>2. Bit(a, k) \in {0, 1} /\ Bit(b, k) \in {0, 1} /\ (Bit(a, k) = Bit(b, k) <=> (k \in a <=> k \in b))
      BY DEF Bit
    <3> HIDE DEF k
    <3>q. QED BY <2>2, <2>3, <3>1, <3>2
  <2>5. Alike(a, b, k, Bits - 1)
          <=> Alike(a, b, Bits - m, Bits - 1) /\ (k \in a <=> k \in b)
    <3>1. k..(Bits - 1) = ((Bits - m)..(Bits - 1)) \cup {k}
      BY BitsType
    <3> HIDE DEF k
    <3>q. QED BY <3>1 DEF Alike
  <2>q. QED BY <1>2, <2>1, <2>4, <2>5
<1>3. 0..Bits \subseteq K
  <2> HIDE DEF K
  <2>q. QED BY <1>1, <1>2, BitsType, UpTo
<1>q. QED BY <1>3

\* Where the rest of the bits are all c, the number is the prefix and that many c.
LEMMA PrefixPadded ==
  ASSUME NEW a, NEW b, NEW n \in 0..Bits, NEW c \in {0, 1},
         Alike(a, b, Bits - n, Bits - 1),
         \A k \in 0..(Bits - n - 1) : Bit(b, k) = c
  PROVE  Number(b) = Padded(Leading(a, n), Bits - n, c)
<1> DEFINE x == Leading(a, n)
           K == {m \in 0..(Bits - n) : Leading(b, n + m) = Padded(x, m, c)}
<1>1. x \in Nat /\ c \in Nat /\ Bits - n \in Nat
  <2>1. x \in Nat
    BY LeadingRuns
  <2>2. c \in Nat /\ Bits - n \in Nat
    BY BitsType
  <2>q. QED BY <2>1, <2>2
<1>2. 0 \in K
  <2>1. Leading(b, n) = x
    BY SamePrefix
  <2>2. Padded(x, 0, c) = x
    BY <1>1, PaddedRuns
  <2>3. n + 0 = n /\ 0 \in 0..(Bits - n)
    BY <1>1
  <2>q. QED BY <2>1, <2>2, <2>3
<1>3. ASSUME NEW m \in 0..((Bits - n) - 1), m \in K PROVE m + 1 \in K
  <2>1. /\ n + (m + 1) \in 1..Bits /\ (n + (m + 1)) - 1 = n + m
        /\ m + 1 \in 1..Bits /\ (m + 1) - 1 = m /\ m + 1 \in 0..(Bits - n)
        /\ Bits - (n + (m + 1)) \in 0..(Bits - n - 1)
    BY BitsType
  <2>2. Leading(b, n + (m + 1)) = 2 * Leading(b, n + m) + Bit(b, Bits - (n + (m + 1)))
    BY <2>1, LeadingRuns
  <2>3. Padded(x, m + 1, c) = 2 * Padded(x, m, c) + c
    <3> HIDE DEF x
    <3>q. QED BY <1>1, <2>1, PaddedRuns
  <2>4. Bit(b, Bits - (n + (m + 1))) = c
    BY <2>1
  <2>q. QED BY <1>3, <2>1, <2>2, <2>3, <2>4
<1>4. 0..(Bits - n) \subseteq K
  <2> HIDE DEF K
  <2>q. QED BY <1>1, <1>2, <1>3, UpTo
<1>5. Bits - n \in K /\ n + (Bits - n) = Bits
  BY <1>1, <1>4, BitsType
<1>q. QED BY <1>5 DEF Number

\* A mask is the highest bits, as many as its length says.
LEMMA MaskIs ==
  ASSUME NEW len \in PrefixLens
  PROVE  /\ get_netmask_addr(len) = (Bits - len)..(Bits - 1)
         /\ {Bits - 1 - i : i \in 0..(len - 1)} = (Bits - len)..(Bits - 1)
         /\ get_mask_subnet(get_netmask_addr(len)) = len
<1> DEFINE m == {Bits - 1 - i : i \in 0..(len - 1)}
<1>1. len \in 0..Bits /\ len \in Int /\ len # NoPrefix
  BY BitsType DEF PrefixLens, NoPrefix
<1>2. m = (Bits - len)..(Bits - 1)
  <2>1. ASSUME NEW k \in (Bits - len)..(Bits - 1) PROVE k \in m
    <3>1. Bits - 1 - k \in 0..(len - 1) /\ Bits - 1 - (Bits - 1 - k) = k
      BY <1>1, BitsType
    <3>q. QED BY <3>1
  <2>2. ASSUME NEW k \in m PROVE k \in (Bits - len)..(Bits - 1)
    BY <1>1, BitsType
  <2>q. QED BY <2>1, <2>2
<1>3. get_netmask_addr(len) = m
  BY <1>1 DEF get_netmask_addr
<1>4. Cardinality((Bits - len)..(Bits - 1)) = len
  <2>1. Bits - len \in Int /\ Bits - 1 \in Int
    BY <1>1, BitsType
  <2>2. Cardinality((Bits - len)..(Bits - 1))
          = IF Bits - len > Bits - 1 THEN 0 ELSE (Bits - 1) - (Bits - len) + 1
    BY <2>1, FS_Interval
  <2>q. QED BY <1>1, <2>2, BitsType
<1>q. QED BY <1>2, <1>3, <1>4 DEF get_mask_subnet

\* Two addresses agree under a mask exactly if they have the same bits there.
LEMMA SameUnderMask ==
  ASSUME NEW a, NEW b, NEW lo, NEW hi
  PROVE  a \intersect (lo..hi) = b \intersect (lo..hi) <=> Alike(a, b, lo, hi)
BY DEF Alike

LEMMA SubnetIsPrefix ==
  ASSUME NEW a, NEW b, NEW len \in PrefixLens
  PROVE  is_in_same_subnet(a, b, len) <=> Leading(a, len) = Leading(b, len)
<1>1. is_in_same_subnet(a, b, len) <=> Alike(a, b, Bits - len, Bits - 1)
  BY MaskIs, SameUnderMask DEF is_in_same_subnet
<1>q. QED BY <1>1, SamePrefix DEF PrefixLens

\* The subnet address is the prefix followed by zeros.
LEMMA LowestOfSubnet ==
  ASSUME NEW a \in Addresses, NEW len \in PrefixLens
  PROVE  Number(get_submask_addr(a, len)) = Padded(Leading(a, len), Bits - len, 0)
<1> DEFINE s == a \intersect ((Bits - len)..(Bits - 1))
<1>1. get_submask_addr(a, len) = s
  BY MaskIs DEF get_submask_addr
<1>2. len \in 0..Bits
  BY DEF PrefixLens
<1>3. Alike(a, s, Bits - len, Bits - 1)
  BY DEF Alike
<1>4. ASSUME NEW k \in 0..(Bits - len - 1) PROVE Bit(s, k) = 0
  <2>1. k \notin (Bits - len)..(Bits - 1)
    BY <1>2, BitsType
  <2>q. QED BY <2>1 DEF Bit
<1> HIDE DEF s
<1>5. Number(s) = Padded(Leading(a, len), Bits - len, 0)
  BY <1>2, <1>3, <1>4, PrefixPadded
<1>q. QED BY <1>1, <1>5

\* The broadcast address is the prefix followed by ones.
LEMMA HighestOfSubnet ==
  ASSUME NEW a \in Addresses, NEW aLen \in PrefixLens \cup {NoPrefix}
  PROVE  LET len == get_mask_addr(aLen)
         IN Number(get_broadcast_addr(a, aLen)) = Padded(Leading(a, len), Bits - len, 1)
<1> DEFINE len == get_mask_addr(aLen)
           s == (a \intersect ((Bits - len)..(Bits - 1)))
                  \cup ((0..(Bits - 1)) \ ((Bits - len)..(Bits - 1)))
<1>1. len \in PrefixLens /\ len \in 0..Bits
  BY BitsType DEF get_mask_addr, PrefixLens, NoPrefix
<1> HIDE DEF len
<1>2. {Bits - 1 - i : i \in 0..(len - 1)} = (Bits - len)..(Bits - 1)
  BY <1>1, MaskIs
<1>3. get_broadcast_addr(a, aLen) = s
  BY <1>2 DEF get_broadcast_addr, len
<1>4. Alike(a, s, Bits - len, Bits - 1)
  BY <1>1, BitsType DEF Alike
<1>5. ASSUME NEW k \in 0..(Bits - len - 1) PROVE Bit(s, k) = 1
  <2>1. k \in 0..(Bits - 1) /\ k \notin (Bits - len)..(Bits - 1)
    BY <1>1, BitsType
  <2>q. QED BY <2>1 DEF Bit
<1> HIDE DEF s
<1>6. Number(s) = Padded(Leading(a, len), Bits - len, 1)
  BY <1>1, <1>4, <1>5, PrefixPadded
<1>q. QED BY <1>3, <1>6 DEF len

\* Two words are the same exactly if the addresses have the same bits there.
LEMMA SameWord ==
  ASSUME NEW a \in Addresses, NEW b \in Addresses, NEW w \in 0..3
  PROVE  Word(a, w) = Word(b, w) <=> Alike(a, b, (3 - w) * Octet, (4 - w) * Octet - 1)
<1> DEFINE lo == (3 - w) * Octet
           hi == (4 - w) * Octet - 1
<1>1. lo \in Int /\ hi \in Int
  BY BitsType
<1>2. Word(a, w) = {x - lo : x \in a \cap (lo..hi)} /\ Word(b, w) = {x - lo : x \in b \cap (lo..hi)}
  BY DEF Word
<1> HIDE DEF lo, hi
<1>3. ASSUME Word(a, w) = Word(b, w), NEW k \in lo..hi, NEW c, NEW d,
             c \in {a, b}, d \in {a, b}, k \in c
      PROVE  k \in d
  <2>1. k - lo \in {x - lo : x \in d \cap (lo..hi)}
    BY <1>2, <1>3
  <2>2. PICK x \in d \cap (lo..hi) : x - lo = k - lo
    BY <2>1
  <2>3. x = k
    BY <1>1, <1>3, <2>2
  <2>q. QED BY <2>2, <2>3
<1>4. Alike(a, b, lo, hi) => a \cap (lo..hi) = b \cap (lo..hi)
  BY DEF Alike
<1>5. Word(a, w) = Word(b, w) <=> Alike(a, b, lo, hi)
  BY <1>2, <1>3, <1>4 DEF Alike
<1>q. QED BY <1>5 DEF lo, hi

\* Of an IPv6 prefix of half an address, two whole words are compared: the shift by
\* the length that is left is by nothing.
LEMMA HalfAddress ==
  ASSUME NEW a \in Addresses, NEW b \in Addresses
  PROVE  check_ipv6_same_subnet(a, 2 * Octet, b, 2 * Octet) = 0
           <=> Leading(a, 2 * Octet) = Leading(b, 2 * Octet)
<1> DEFINE len == 2 * Octet
<1>1. /\ len \in 0..Bits /\ len # NoPrefix /\ WholeWords(len) = 1
      /\ len - (3 - 1) * Octet = 0 /\ 0..(1 - 1) = {0} /\ Bits - len = 2 * Octet
  BY BitsType DEF NoPrefix, WholeWords
<1>2. ASSUME NEW c \in Addresses PROVE Shifted(Word(c, 1), 0) = Word(c, 1)
  <2>1. c \subseteq 0..(Bits - 1)
    BY DEF Addresses
  <2>2. \A y \in Word(c, 1) : y \in Int /\ y >= 0 /\ y - 0 = y
    <3>1. \A x \in c \cap ((3 - 1) * Octet .. (4 - 1) * Octet - 1) :
             x - (3 - 1) * Octet \in Int /\ x - (3 - 1) * Octet >= 0
      BY BitsType
    <3>q. QED BY <3>1 DEF Word
  <2>3. {y \in Word(c, 1) : y >= 0} = Word(c, 1)
    BY <2>2
  <2>4. {y - 0 : y \in Word(c, 1)} = Word(c, 1)
    BY <2>2
  <2>q. QED BY <2>3, <2>4 DEF Shifted
<1>3. check_ipv6_same_subnet(a, len, b, len) = 0
        <=> Word(a, 0) = Word(b, 0) /\ Word(a, 1) = Word(b, 1)
  <2>1. check_ipv6_same_subnet(a, len, b, len)
          = IF /\ \A v \in {0} : Word(a, v) = Word(b, v)
               /\ Shifted(Word(a, 1), 0) = Shifted(Word(b, 1), 0)
            THEN 0 ELSE -1
    <3> HIDE DEF len
    <3>q. QED BY <1>1 DEF check_ipv6_same_subnet
  <2>q. QED BY <1>2, <2>1
<1>4. Word(a, 0) = Word(b, 0) <=> Alike(a, b, 3 * Octet, Bits - 1)
  <2>1. (3 - 0) * Octet = 3 * Octet /\ (4 - 0) * Octet - 1 = Bits - 1 /\ 0 \in 0..3
    BY BitsType
  <2>q. QED BY <2>1, SameWord
<1>5. Word(a, 1) = Word(b, 1) <=> Alike(a, b, 2 * Octet, 3 * Octet - 1)
  <2>1. (3 - 1) * Octet = 2 * Octet /\ (4 - 1) * Octet - 1 = 3 * Octet - 1 /\ 1 \in 0..3
    BY BitsType
  <2>q. QED BY <2>1, SameWord
<1>6. (2 * Octet)..(Bits - 1) = ((2 * Octet)..(3 * Octet - 1)) \cup ((3 * Octet)..(Bits - 1))
  BY BitsType
<1>7. Alike(a, b, 2 * Octet, Bits - 1)
        <=> Alike(a, b, 2 * Octet, 3 * Octet - 1) /\ Alike(a, b, 3 * Octet, Bits - 1)
  BY <1>6 DEF Alike
<1>8. Leading(a, len) = Leading(b, len) <=> Alike(a, b, 2 * Octet, Bits - 1)
  <2> HIDE DEF len
  <2>q. QED BY <1>1, SamePrefix
<1>q. QED BY <1>3, <1>4, <1>5, <1>7, <1>8

\* With a prefix, two addresses are in one subnet exactly if they begin with the same
\* bits; the broadcast address is the highest of the subnet and the subnet address the
\* lowest, whatever the width of an octet (if_info.c:461-697, 738-805).  The component
\* has no steps: the theorem is about every pair of addresses and prefixes.
THEOREM SubnetsAgreeCorrect == SubnetInit => SubnetsAgree
<1> SUFFICES ASSUME SubnetInit PROVE SubnetsAgree
  OBVIOUS
<1>1. /\ ip \in Addresses /\ sub \in Addresses
      /\ ipLen \in PrefixLens \cup {NoPrefix} /\ subLen \in PrefixLens \cup {NoPrefix}
  BY DEF SubnetInit
<1>2. ASSUME subLen # NoPrefix
      PROVE  /\ is_in_same_subnet(ip, sub, subLen)
                   <=> Leading(ip, subLen) = Leading(sub, subLen)
             /\ isin_same_subnet(ip, ipLen, sub, subLen) /\ ipLen # NoPrefix
                   => ipLen = subLen /\ Leading(ip, subLen) = Leading(sub, subLen)
             /\ Number(get_submask_addr(sub, subLen))
                   = Padded(Leading(sub, subLen), Bits - subLen, 0)
             /\ get_mask_subnet(get_netmask_str(subLen)) = subLen
  <2>1. subLen \in PrefixLens
    BY <1>1, <1>2
  <2>2. is_in_same_subnet(ip, sub, subLen) <=> Leading(ip, subLen) = Leading(sub, subLen)
    BY <2>1, SubnetIsPrefix
  <2>3. get_mask_subnet(get_netmask_addr(subLen)) = subLen
    BY <2>1, MaskIs
  <2>4. ASSUME isin_same_subnet(ip, ipLen, sub, subLen), ipLen # NoPrefix
        PROVE  ipLen = subLen /\ Leading(ip, subLen) = Leading(sub, subLen)
    <3>1. get_netmask_addr(ipLen) = get_netmask_addr(subLen) /\ is_in_same_subnet(ip, sub, subLen)
      BY <2>4 DEF isin_same_subnet
    <3>2. ipLen \in PrefixLens
      BY <1>1, <2>4
    <3>3. get_mask_subnet(get_netmask_addr(ipLen)) = ipLen
      BY <3>2, MaskIs
    <3>q. QED BY <2>2, <2>3, <3>1, <3>3
  <2>5. Number(get_submask_addr(sub, subLen)) = Padded(Leading(sub, subLen), Bits - subLen, 0)
    BY <1>1, <2>1, LowestOfSubnet
  <2>q. QED BY <2>2, <2>3, <2>4, <2>5 DEF get_netmask_str
<1>3. LET len == get_mask_addr(subLen)
      IN Number(get_broadcast_addr(sub, subLen)) = Padded(Leading(sub, len), Bits - len, 1)
  BY <1>1, HighestOfSubnet
<1>4. ipLen = 2 * Octet /\ subLen = 2 * Octet =>
        (check_ipv6_same_subnet(ip, ipLen, sub, subLen) = 0
           <=> Leading(ip, 2 * Octet) = Leading(sub, 2 * Octet))
  BY <1>1, HalfAddress
<1>q. QED BY <1>2, <1>3, <1>4 DEF SubnetsAgree

-----------------------------------------------------------------------------
(* The rows of the stored configuration *)

\* What the texts are, however many rows and numbers.
RowsTyped ==
  /\ rows \in Seq(Seq(Cells)) /\ \A j \in DOMAIN rows : Len(rows[j]) >= 1
  /\ digits \in Seq(0..4)
  /\ mac = <<>> \/ mac \in [1..(2 * Octets) -> 0..(Hex - 1)]

LEMMA TextTyped == TextInit => RowsTyped
<1> SUFFICES ASSUME TextInit PROVE RowsTyped
  OBVIOUS
<1>1. \A r \in Rows : r \in Seq(Cells) /\ Len(r) >= 1
  BY TextAssumption DEF Rows
<1>2. ASSUME NEW n \in 0..MaxRows, rows \in [1..n -> Rows]
      PROVE  rows \in Seq(Seq(Cells)) /\ \A j \in DOMAIN rows : Len(rows[j]) >= 1
  <2>1. n \in Nat /\ DOMAIN rows = 1..n /\ \A j \in 1..n : rows[j] \in Seq(Cells) /\ Len(rows[j]) >= 1
    BY <1>1, <1>2, TextAssumption
  <2>2. rows \in [1..n -> Seq(Cells)]
    BY <1>2, <2>1
  <2>q. QED BY <2>1, <2>2
<1>3. ASSUME NEW n \in (PNUM - 1)..(PNUM + 1), digits \in [1..n -> 0..4]
      PROVE  digits \in Seq(0..4)
  BY <1>3, PortNumbers
<1>4. <<>> \in Seq(Seq(Cells)) /\ <<>> \in Seq(0..4) /\ DOMAIN <<>> = {}
  OBVIOUS
<1>q. QED BY <1>2, <1>3, <1>4 DEF TextInit, RowsTyped

LEMMA LesserOf ==
  ASSUME NEW m \in Nat, NEW n \in Nat, m <= n
  PROVE  Min({n, m}) = m /\ Min({m, n}) = m
BY DEF Min

\* A row that was written is read back.
LEMMA RowReadBack ==
  ASSUME NEW row \in Seq(Cells)
  PROVE  str_to_arr_i(arr_to_str_i(row), Len(row)) = [count |-> Len(row), arr |-> row]
<1> DEFINE n == Len(row)
           pieces == Append(row, 0)
<1>1. n \in Nat /\ Len(pieces) = n + 1 /\ \A i \in 1..n : pieces[i] = row[i]
  OBVIOUS
<1>2. Min({Len(pieces), n}) = n
  BY <1>1, LesserOf
<1>3. [i \in 1..n |-> IF i <= n THEN pieces[i] ELSE 0] = row
  BY <1>1
<1> HIDE DEF n, pieces
<1>4. str_to_arr_i(pieces, n) = [count |-> n, arr |-> [i \in 1..n |-> IF i <= n THEN pieces[i] ELSE 0]]
  BY <1>2 DEF str_to_arr_i
<1>q. QED BY <1>3, <1>4 DEF n, pieces, arr_to_str_i

\* The VLANs of the ports are read where there is one for each.
LEMMA VlansRead ==
  ASSUME NEW row \in Seq(Cells)
  PROVE  LET pvids == bcm_get_pvid_from_entry(row, 2 * Len(row))
         IN /\ pvids.result = (IF Len(row) < PNUM THEN -1 ELSE 0)
            /\ \A i \in 1..PNUM : pvids.vids[i] = (IF Len(row) < PNUM THEN 1 ELSE VlanOf(row[i]))
<1>1. Len(row) \in Nat /\ (2 * Len(row) < 2 * PNUM <=> Len(row) < PNUM)
      /\ (Len(row) + 1 < PNUM => Len(row) < PNUM)
      /\ \A i \in 1..PNUM : ~(Len(row) < PNUM) => i <= Len(row)
  BY PortNumbers
<1>q. QED BY <1>1 DEF bcm_get_pvid_from_entry

\* No port below the last is left out of a voice group.
LEMMA VoiceRead ==
  ASSUME NEW row \in Seq(Cells), Len(row) >= 1
  PROVE  ToSet(row) \intersect 1..(PNUM - 1) \subseteq bcm_port_based_vlan_get(row)
<1> SUFFICES ASSUME NEW j \in DOMAIN row, row[j] \in 1..(PNUM - 1)
             PROVE  row[j] \in bcm_port_based_vlan_get(row)
  BY DEF ToSet
<1>1. j = 1 \/ j \in 2..Len(row)
  OBVIOUS
<1>2. row[j] \in 1..(LastVoicePort - 1)
  <2>1. \A x \in 1..(PNUM - 1) : x \in 1..(LastVoicePort - 1)
    BY PortNumbers DEF LastVoicePort
  <2>q. QED BY <2>1
<1>q. QED BY <1>1, <1>2 DEF bcm_port_based_vlan_get

\* A table of rows of one length is read as one row.
LEMMA TableRead ==
  ASSUME NEW table \in Seq(Seq(Cells)), table # <<>>,
         \A j \in DOMAIN table : Len(table[j]) = Len(table[1])
  PROVE  str_to_arr_cfg(table, Len(table[1]), Len(table)) = FlattenSeq(table)
<1> DEFINE n == Len(table)
           w == Len(table[1])
           pieces == Append(table, <<0>>)
           taken(j) == SubSeq(pieces[j], 1, Min({Len(pieces[j]), w}))
<1>1. n \in Nat /\ Len(pieces) = n + 1 /\ DOMAIN table = 1..n
      /\ \A j \in 1..n : pieces[j] = table[j] /\ table[j] \in Seq(Cells)
  OBVIOUS
<1>2. Min({Len(pieces), n}) = n
  <2> HIDE DEF n, pieces
  <2>1. n + 1 \in Nat /\ n <= n + 1
    BY <1>1
  <2>q. QED BY <1>1, <2>1, LesserOf
<1>3. ASSUME NEW j \in 1..n PROVE taken(j) = table[j]
  <2>1. Len(table[j]) = w /\ Len(table[j]) \in Nat /\ pieces[j] = table[j] /\ table[j] \in Seq(Cells)
    BY <1>1
  <2> HIDE DEF w, pieces
  <2>2. Min({Len(pieces[j]), w}) = Len(table[j])
    BY <2>1, LesserOf
  <2>q. QED BY <2>1, <2>2, SubSeqFull
<1>4. [j \in 1..n |-> taken(j)] = table
  <2> HIDE DEF taken
  <2>1. table = [j \in 1..n |-> table[j]]
    BY <1>1
  <2>q. QED BY <1>3, <2>1
<1>5. str_to_arr_cfg(table, w, n) = FlattenSeq([j \in 1..n |-> taken(j)])
  <2> HIDE DEF n, w
  <2>q. QED BY <1>2 DEF str_to_arr_cfg
<1>q. QED BY <1>4, <1>5

\* Sequences that are joined begin with the first of them.
LEMMA JoinedBegins ==
  ASSUME NEW S, NEW t \in Seq(Seq(S)), Len(t) >= 1
  PROVE  /\ FlattenSeq(t) \in Seq(S) /\ Len(FlattenSeq(t)) >= Len(t[1])
         /\ \A k \in 1..Len(t[1]) : FlattenSeq(t)[k] = t[1][k]
<1> DEFINE n == Len(t)
           Loop(f) == [i \in 1..n |-> IF i = 1 THEN t[i] ELSE f[i - 1] \o t[i]]
           F == CHOOSE f : f = Loop(f)
           body == [p \in (1..n) \X Seq(S) |-> p[2] \o t[p[1]]]
<1>1. n \in Nat /\ n >= 1 /\ \A i \in 1..n : t[i] \in Seq(S)
  OBVIOUS
<1>2. body \in Bodies(n, Seq(S)) /\ \A i \in 1..n, s \in Seq(S) : body[<<i, s>>] = s \o t[i]
  <2> HIDE DEF n
  <2>1. \A i \in 1..n, s \in Seq(S) : s \o t[i] \in Seq(S)
    BY <1>1
  <2>2. \A p \in (1..n) \X Seq(S) : p[2] \o t[p[1]] \in Seq(S)
    BY <2>1
  <2>q. QED BY <2>2 DEF Bodies
<1> HIDE DEF body, n
<1>3. <<>> \in Seq(S)
  OBVIOUS
<1>4. PICK h : States(h, n, Seq(S), <<>>, body)
  BY <1>1, <1>2, <1>3, LoopStates
<1>5. /\ \A i \in 0..n : h[i] \in Seq(S)
      /\ h[0] = <<>>
      /\ \A i \in 1..n : h[i] = h[i - 1] \o t[i]
  <2>1. \A i \in 1..n : i - 1 \in 0..n
    BY <1>1
  <2>q. QED BY <1>2, <1>4, <2>1 DEF States
<1> DEFINE g == [i \in 1..n |-> h[i]]
<1>6. g = Loop(g)
  <2>1. h[1] = t[1]
    <3>1. 1 \in 1..n /\ 1 - 1 = 0
      BY <1>1
    <3>2. h[1] = h[1 - 1] \o t[1]
      BY <1>5, <3>1
    <3>3. <<>> \o t[1] = t[1]
      BY <1>1, <3>1, ConcatEmptySeq
    <3>q. QED BY <1>5, <3>1, <3>2, <3>3
  <2>2. ASSUME NEW i \in 1..n PROVE h[i] = IF i = 1 THEN t[i] ELSE g[i - 1] \o t[i]
    <3>1. i = 1 \/ i - 1 \in 1..n
      BY <1>1
    <3>q. QED BY <1>5, <2>1, <3>1
  <2>q. QED BY <2>2
<1>7. F = Loop(F)
  <2> HIDE DEF g
  <2>q. QED BY <1>6, Zenon
<1>8. FlattenSeq(t) = F[n]
  <2>1. ~(Len(t) = 0)
    BY <1>1 DEF n
  <2>q. QED BY <2>1, Zenon DEF FlattenSeq, n
<1> HIDE DEF F
<1>9. F[1] = t[1] /\ \A i \in 2..n : F[i] = F[i - 1] \o t[i]
  <2>1. 1 \in 1..n /\ \A i \in 2..n : i \in 1..n /\ i # 1
    BY <1>1
  <2>q. QED BY <1>7, <2>1
<1> DEFINE K == {i \in 0..(n - 1) : /\ F[i + 1] \in Seq(S) /\ Len(F[i + 1]) >= Len(t[1])
                                    /\ \A k \in 1..Len(t[1]) : F[i + 1][k] = t[1][k]}
<1>10. 0 \in K
  <2>1. 0 + 1 = 1 /\ 0 \in 0..(n - 1) /\ t[1] \in Seq(S)
    BY <1>1
  <2>2. Len(t[1]) \in Nat
    BY <2>1
  <2>q. QED BY <1>9, <2>1, <2>2
<1>11. ASSUME NEW i \in 0..((n - 1) - 1), i \in K PROVE i + 1 \in K
  <2>1. i + 2 \in 2..n /\ (i + 2) - 1 = i + 1 /\ (i + 1) + 1 = i + 2 /\ i + 1 \in 0..(n - 1) /\ i + 2 \in 1..n
    BY <1>1
  <2>2. F[i + 2] = F[i + 1] \o t[i + 2] /\ t[i + 2] \in Seq(S)
    BY <1>1, <1>9, <2>1
  <2>3. F[i + 1] \in Seq(S) /\ Len(F[i + 1]) >= Len(t[1])
        /\ \A k \in 1..Len(t[1]) : F[i + 1][k] = t[1][k]
    BY <1>11
  <2>4. /\ F[i + 2] \in Seq(S) /\ Len(F[i + 2]) = Len(F[i + 1]) + Len(t[i + 2])
        /\ \A k \in 1..Len(F[i + 1]) : F[i + 2][k] = F[i + 1][k]
    <3>1. F[i + 2] \in Seq(S) /\ Len(F[i + 2]) = Len(F[i + 1]) + Len(t[i + 2])
      BY <2>2, <2>3, ConcatProperties
    <3>2. ASSUME NEW k \in 1..Len(F[i + 1]) PROVE F[i + 2][k] = F[i + 1][k]
      <4>1. Len(F[i + 1]) \in Nat /\ Len(t[i + 2]) \in Nat
        BY <2>2, <2>3, LenProperties
      <4>3. \A x, y \in Nat : \A z \in 1..x : z \in 1..(x + y) /\ z <= x
        OBVIOUS
      <4>2. k \in 1..(Len(F[i + 1]) + Len(t[i + 2])) /\ k <= Len(F[i + 1])
        BY <4>1, <4>3
      <4>q. QED BY <2>2, <2>3, <4>2, ConcatProperties
    <3>q. QED BY <3>1, <3>2
  <2>5. Len(t[1]) \in Nat /\ Len(F[i + 1]) \in Nat /\ Len(t[i + 2]) \in Nat
    BY <1>1, <2>2, <2>3, LenProperties
  <2>6. Len(F[i + 2]) >= Len(t[1])
    <3>1. \A x, y, z \in Nat : x >= z => x + y >= z
      OBVIOUS
    <3>q. QED BY <2>3, <2>4, <2>5, <3>1
  <2>7. ASSUME NEW k \in 1..Len(t[1]) PROVE F[i + 2][k] = t[1][k]
    <3>1. k \in 1..Len(F[i + 1])
      BY <2>3, <2>5
    <3>q. QED BY <2>3, <2>4, <3>1
  <2>8. /\ F[(i + 1) + 1] \in Seq(S) /\ Len(F[(i + 1) + 1]) >= Len(t[1])
        /\ \A k \in 1..Len(t[1]) : F[(i + 1) + 1][k] = t[1][k]
    BY <2>1, <2>4, <2>6, <2>7
  <2>q. QED BY <2>1, <2>8
<1>12. 0..(n - 1) \subseteq K
  <2>1. n - 1 \in Nat
    BY <1>1
  <2> HIDE DEF K
  <2>q. QED BY <1>10, <1>11, <2>1, UpTo
<1>13. n - 1 \in K /\ (n - 1) + 1 = n
  <2> HIDE DEF K
  <2>q. QED BY <1>1, <1>12
<1>14. /\ F[(n - 1) + 1] \in Seq(S) /\ Len(F[(n - 1) + 1]) >= Len(t[1])
       /\ \A k \in 1..Len(t[1]) : F[(n - 1) + 1][k] = t[1][k]
  BY <1>13
<1>q. QED BY <1>8, <1>13, <1>14

LEMMA FourIsSome ==
  ASSUME NEW s, Len(s) = 4
  PROVE  s # <<>>
<1>1. Len(<<>>) = 0
  OBVIOUS
<1>2. SUFFICES ASSUME s = <<>> PROVE FALSE
  OBVIOUS
<1>3. Len(<<>>) = 4
  BY <1>2
<1>q. QED BY <1>1, <1>3

\* Multicast entries of four numbers are read as they are.
LEMMA EntriesRead ==
  ASSUME NEW table \in Seq(Seq(Cells)), \A j \in DOMAIN table : Len(table[j]) = 4
  PROVE  bcm_get_ipmc_entry(table) = table
<1> DEFINE behind(j) == FlattenSeq([i \in 1..(Len(table) - j + 1) |-> Tail(table[j + i - 1])])
           read(j) == IF Len(behind(j)) < 3 THEN <<>> ELSE <<table[j][1]>> \o SubSeq(behind(j), 1, 3)
<1>1. ASSUME NEW j \in DOMAIN table PROVE read(j) = table[j]
  <2> DEFINE m == Len(table) - j + 1
             t == [i \in 1..m |-> Tail(table[j + i - 1])]
             row == table[j]
  <2>1. m \in Nat /\ m >= 1 /\ \A i \in 1..m : j + i - 1 \in DOMAIN table
    <3>1. Len(table) \in Nat /\ DOMAIN table = 1..Len(table)
      BY LenProperties
    <3>q. QED BY <3>1
  <2>2. ASSUME NEW k \in DOMAIN table
        PROVE  table[k] \in Seq(Cells) /\ Tail(table[k]) \in Seq(Cells)
    <3>1. table[k] \in Seq(Cells)
      BY LenProperties
    <3>2. table[k] # <<>>
      BY FourIsSome
    <3>q. QED BY <3>1, <3>2, HeadTailProperties
  <2>3. t \in Seq(Seq(Cells)) /\ Len(t) = m /\ t[1] = Tail(row)
    <3>1. t \in [1..m -> Seq(Cells)]
      BY <2>1, <2>2
    <3>2. j + 1 - 1 = j /\ 1 \in 1..m
      BY <2>1
    <3> HIDE DEF m
    <3>q. QED BY <2>1, <3>1, <3>2
  <2>4. row \in Seq(Cells) /\ Len(row) = 4
    BY <2>2
  <2>5. Len(Tail(row)) = 3 /\ \A k \in 1..3 : Tail(row)[k] = row[k + 1]
    <3> HIDE DEF row
    <3>1. row # <<>>
      BY <2>4, FourIsSome
    <3>2. /\ Len(Tail(row)) = Len(row) - 1
          /\ \A k \in 1..Len(Tail(row)) : Tail(row)[k] = row[k + 1]
      BY <2>4, <3>1, HeadTailProperties
    <3>3. Len(Tail(row)) = 3
      BY <2>4, <3>2
    <3>q. QED BY <3>2, <3>3
  <2>6. behind(j) = FlattenSeq(t)
    OBVIOUS
  <2> HIDE DEF t, row, m, behind
  <2>7. /\ behind(j) \in Seq(Cells) /\ Len(behind(j)) >= 3
        /\ \A k \in 1..3 : behind(j)[k] = row[k + 1]
    <3>1. /\ FlattenSeq(t) \in Seq(Cells) /\ Len(FlattenSeq(t)) >= Len(t[1])
          /\ \A k \in 1..Len(t[1]) : FlattenSeq(t)[k] = t[1][k]
      BY <2>1, <2>3, JoinedBegins
    <3>q. QED BY <2>3, <2>5, <2>6, <3>1
  <2>8. <<row[1]>> \o SubSeq(behind(j), 1, 3) = row
    <3> DEFINE b == SubSeq(behind(j), 1, 3)
    <3>1. b \in Seq(Cells) /\ Len(b) = 3 /\ \A k \in 1..3 : b[k] = row[k + 1]
      BY <2>7
    <3> HIDE DEF b
    <3> DEFINE c == <<row[1]>> \o b
    <3>2. c \in Seq(Cells) /\ Len(c) = 4 /\ c[1] = row[1] /\ \A k \in 1..3 : c[k + 1] = b[k]
      <4> DEFINE a == <<row[1]>>
      <4>1. row[1] \in Cells
        <5>1. 1 \in 1..Len(row)
          BY <2>4
        <5>q. QED BY <2>4, <5>1, ElementOfSeq
      <4>2. a \in Seq(Cells) /\ Len(a) = 1 /\ a[1] = row[1]
        BY <4>1
      <4> HIDE DEF a
      <4>3. /\ a \o b \in Seq(Cells) /\ Len(a \o b) = 1 + 3
            /\ \A k \in 1..(1 + 3) : (a \o b)[k] = IF k <= 1 THEN a[k] ELSE b[k - 1]
        <5>0. a \in Seq(Cells) /\ b \in Seq(Cells)
          BY <3>1, <4>2
        <5>1. a \o b \in Seq(Cells) /\ Len(a \o b) = Len(a) + Len(b)
          BY <5>0, ConcatProperties
        <5>2. ASSUME NEW k \in 1..(Len(a) + Len(b))
              PROVE  (a \o b)[k] = IF k <= Len(a) THEN a[k] ELSE b[k - Len(a)]
          BY <5>0, ConcatProperties
        <5>q. QED BY <3>1, <4>2, <5>1, <5>2
      <4>4. (a \o b)[1] = row[1]
        BY <4>2, <4>3, SMTT(30)
      <4>5. ASSUME NEW k \in 1..3 PROVE (a \o b)[k + 1] = b[k]
        <5>1. k + 1 \in 1..(1 + 3) /\ ~(k + 1 <= 1) /\ (k + 1) - 1 = k
          OBVIOUS
        <5>q. QED BY <4>3, <5>1
      <4>q. QED BY <4>3, <4>4, <4>5 DEF a
    <3> HIDE DEF c
    <3>3. \A k \in 1..4 : c[k] = row[k]
      <4>1. \A k \in 1..4 : k = 1 \/ (k - 1 \in 1..3 /\ (k - 1) + 1 = k)
        OBVIOUS
      <4>q. QED BY <3>1, <3>2, <4>1
    <3>4. c = row
      BY <2>4, <3>2, <3>3, SMTT(30)
    <3>q. QED BY <3>4 DEF c, b
  <2>9. ~(Len(behind(j)) < 3)
    BY <2>7
  <2>q. QED BY <2>8, <2>9 DEF row
<1>2. bcm_get_ipmc_entry(table) = [j \in DOMAIN table |-> read(j)]
  BY DEF bcm_get_ipmc_entry
<1> HIDE DEF read
<1>3. table = [j \in DOMAIN table |-> table[j]]
  OBVIOUS
<1>q. QED BY <1>1, <1>2, <1>3

\* The states of a fold of numbers: f is the value after each of n of them.
FoldsTo(f, n, base, d) ==
  /\ f \in [0..n -> Int] /\ f[0] = 0
  /\ \A i \in 1..n : f[i] = f[i - 1] * base + d[i]

LEMMA FoldExists ==
  ASSUME NEW n \in Nat, NEW base \in Int, NEW d, \A i \in 1..n : d[i] \in Int
  PROVE  \E f : FoldsTo(f, n, base, d)
<1> DEFINE body == [p \in (1..n) \X Int |-> p[2] * base + d[p[1]]]
<1>1. body \in Bodies(n, Int) /\ \A i \in 1..n, y \in Int : body[<<i, y>>] = y * base + d[i]
  <2>1. \A i \in 1..n, y \in Int : y * base + d[i] \in Int
    OBVIOUS
  <2>2. \A p \in (1..n) \X Int : p[2] * base + d[p[1]] \in Int
    BY <2>1
  <2>q. QED BY <2>2 DEF Bodies
<1> HIDE DEF body
<1>2. PICK f : States(f, n, Int, 0, body)
  BY <1>1, LoopStates
<1>3. f \in [0..n -> Int] /\ f[0] = 0 /\ \A i \in 1..n : f[i] = body[<<i, f[i - 1]>>]
  BY <1>2 DEF States
<1>4. ASSUME NEW i \in 1..n PROVE f[i] = f[i - 1] * base + d[i]
  <2>1. i - 1 \in 0..n
    OBVIOUS
  <2>2. f[i - 1] \in Int
    BY <1>3, <2>1
  <2>q. QED BY <1>1, <1>3, <2>2
<1>q. QED BY <1>3, <1>4 DEF FoldsTo

LEMMA InBaseFolds ==
  ASSUME NEW n \in Nat, NEW base \in Int, NEW d \in [1..n -> Int]
  PROVE  \E f : FoldsTo(f, n, base, d) /\ InBase(base, d) = f[n]
<1> DEFINE Loop(f) == [i \in 0..n |-> IF i = 0 THEN 0 ELSE f[i - 1] * base + d[i]]
           F == CHOOSE f : f = Loop(f)
<1>1. \A i \in 1..n : d[i] \in Int
  OBVIOUS
<1>2. PICK g : FoldsTo(g, n, base, d)
  BY <1>1, FoldExists
<1>3. g = Loop(g)
  <2>1. \A i \in 0..n : g[i] = IF i = 0 THEN 0 ELSE g[i - 1] * base + d[i]
    <3>1. \A i \in 0..n : i = 0 \/ i \in 1..n
      OBVIOUS
    <3>q. QED BY <1>2, <3>1 DEF FoldsTo
  <2>2. g = [i \in 0..n |-> g[i]]
    BY <1>2 DEF FoldsTo
  <2>q. QED BY <2>1, <2>2
<1>4. F = Loop(F)
  BY <1>3, Zenon
<1>5. Len(d) = n
  OBVIOUS
<1>6. InBase(base, d) = F[n]
  BY <1>5, Zenon DEF InBase
<1>7. FoldsTo(F, n, base, d)
  <2> HIDE DEF F
  <2> DEFINE K == {i \in 0..n : F[i] \in Int}
  <2>1. F[0] = 0 /\ \A i \in 1..n : F[i] = F[i - 1] * base + d[i]
    BY <1>4
  <2>2. 0 \in K
    BY <2>1
  <2>3. ASSUME NEW i \in 0..(n - 1), i \in K PROVE i + 1 \in K
    <3>1. i + 1 \in 1..n /\ (i + 1) - 1 = i /\ i + 1 \in 0..n
      OBVIOUS
    <3>2. F[i + 1] = F[i] * base + d[i + 1] /\ F[i] \in Int /\ d[i + 1] \in Int
      BY <1>1, <2>1, <2>3, <3>1
    <3>3. F[i] * base + d[i + 1] \in Int
      BY <1>1, <3>2
    <3>q. QED BY <3>1, <3>2, <3>3
  <2>4. 0..n \subseteq K
    <3> HIDE DEF K
    <3>q. QED BY <2>2, <2>3, UpTo
  <2>5. F \in [0..n -> Int]
    <3>1. F = [i \in 0..n |-> F[i]]
      BY <1>4
    <3>2. \A i \in 0..n : F[i] \in Int
      BY <2>4
    <3> DEFINE G == [i \in 0..n |-> F[i]]
    <3>3. G \in [0..n -> Int]
      BY <3>2
    <3>q. QED BY <3>1, <3>3
  <2>q. QED BY <2>1, <2>5 DEF FoldsTo
<1>q. QED BY <1>6, <1>7

LEMMA TwoDigits ==
  ASSUME NEW x \in Int, NEW b \in Int, NEW d \in Int, NEW e \in Int
  PROVE  (x * b + d) * b + e = x * (b * b) + (d * b + e)
<1>1. (x * b + d) * b = (x * b) * b + d * b
  OBVIOUS
<1>2. (x * b) * b = x * (b * b)
  OBVIOUS
<1>3. \A u, v, w \in Int : (u + v) + w = u + (v + w)
  OBVIOUS
<1>4. x * (b * b) \in Int /\ d * b \in Int
  OBVIOUS
<1>q. QED BY <1>1, <1>2, <1>3, <1>4

\* An address is the same number by digits and by octets, whatever the base.
LEMMA AddressRead ==
  ASSUME NEW a \in [1..(2 * Octets) -> 0..(Hex - 1)],
         \A o \in DOMAIN cli_str2mac(a) : 2 * cli_str2mac(a)[o] < Hex * Hex
  PROVE  hex2mac(cli_str2mac(a)) = str2mac(a)
<1> DEFINE n == Octets
           B == Hex * Hex
           octs == cli_str2mac(a)
           d == [o \in DOMAIN octs |-> Signed(octs[o])]
<1>1. n \in Nat /\ n >= 1 /\ Hex \in Int /\ B \in Int
  BY TextAssumption
<1>2. octs = [o \in 1..n |-> a[2 * o - 1] * Hex + a[2 * o]]
  <2>1. Len(a) = 2 * n
    BY <1>1
  <2>2. (2 * n) \div 2 = n
    BY <1>1
  <2>q. QED BY <2>1, <2>2 DEF cli_str2mac
<1>3. \A i \in 1..(2 * n) : a[i] \in Int
  BY <1>1
<1>4. \A o \in 1..n : octs[o] \in Int /\ octs[o] = a[2 * o - 1] * Hex + a[2 * o]
  <2>1. ASSUME NEW o \in 1..n PROVE a[2 * o - 1] * Hex + a[2 * o] \in Int
    <3>1. 2 * o - 1 \in 1..(2 * n) /\ 2 * o \in 1..(2 * n)
      BY <1>1
    <3>2. a[2 * o - 1] \in Int /\ a[2 * o] \in Int
      BY <1>3, <3>1
    <3>q. QED BY <1>1, <3>2
  <2>q. QED BY <1>2, <2>1
<1>5. DOMAIN octs = 1..n /\ \A o \in 1..n : 2 * octs[o] < B
  BY <1>2
<1> HIDE DEF octs, n
<1>6. ASSUME NEW o \in 1..n PROVE Signed(octs[o]) = octs[o]
  <2>1. octs[o] \in Int /\ 2 * octs[o] < B
    BY <1>4, <1>5
  <2>2. ~(2 * octs[o] >= B)
    BY <1>1, <2>1
  <2>q. QED BY <2>2 DEF Signed
<1>7. d \in [1..n -> Int] /\ \A o \in 1..n : d[o] = octs[o]
  BY <1>4, <1>5, <1>6
<1>8. hex2mac(octs) = InBase(B, d)
  BY DEF hex2mac
<1> HIDE DEF d, B
<1>9. PICK h : FoldsTo(h, n, B, d) /\ InBase(B, d) = h[n]
  BY <1>1, <1>7, InBaseFolds
<1>10. PICK s : FoldsTo(s, 2 * n, Hex, a) /\ InBase(Hex, a) = s[2 * n]
  <2>1. a \in [1..(2 * n) -> Int] /\ 2 * n \in Nat
    BY <1>1, <1>3 DEF n
  <2>q. QED BY <1>1, <2>1, InBaseFolds
<1> DEFINE K == {k \in 0..n : h[k] = s[2 * k]}
<1>11. 0 \in K
  BY <1>1, <1>9, <1>10 DEF FoldsTo
<1>12. ASSUME NEW k \in 0..(n - 1), k \in K PROVE k + 1 \in K
  <2>1. /\ k \in 0..n /\ k + 1 \in 1..n /\ k + 1 \in 0..n /\ (k + 1) - 1 = k /\ 2 * k \in 0..(2 * n)
        /\ 2 * k + 1 \in 1..(2 * n) /\ (2 * k + 1) - 1 = 2 * k
        /\ 2 * k + 2 \in 1..(2 * n) /\ (2 * k + 2) - 1 = 2 * k + 1
        /\ 2 * (k + 1) - 1 = 2 * k + 1 /\ 2 * (k + 1) = 2 * k + 2
    BY <1>1
  <2>2. h[k + 1] = h[k] * B + d[k + 1] /\ h[k] \in Int
    BY <1>9, <2>1 DEF FoldsTo
  <2>3. d[k + 1] = a[2 * k + 1] * Hex + a[2 * k + 2]
    <3>1. d[k + 1] = a[2 * (k + 1) - 1] * Hex + a[2 * (k + 1)]
      BY <1>4, <1>7, <2>1
    <3>q. QED BY <2>1, <3>1
  <2>4. s[2 * k + 1] = s[2 * k] * Hex + a[2 * k + 1] /\ s[2 * k] \in Int
    BY <1>10, <2>1 DEF FoldsTo
  <2>5. s[2 * k + 2] = s[2 * k + 1] * Hex + a[2 * k + 2]
    BY <1>10, <2>1 DEF FoldsTo
  <2>6. a[2 * k + 1] \in Int /\ a[2 * k + 2] \in Int
    BY <1>3, <2>1 DEF n
  <2>7. (s[2 * k] * Hex + a[2 * k + 1]) * Hex + a[2 * k + 2]
          = s[2 * k] * (Hex * Hex) + (a[2 * k + 1] * Hex + a[2 * k + 2])
    BY <1>1, <2>4, <2>6, TwoDigits, SMTT(30)
  <2>8. h[k] = s[2 * k]
    BY <1>12
  <2>9. h[k + 1] = s[2 * k + 2]
    BY <2>2, <2>3, <2>4, <2>5, <2>7, <2>8 DEF B
  <2>q. QED BY <2>1, <2>9
<1>13. 0..n \subseteq K
  <2> HIDE DEF K
  <2>q. QED BY <1>1, <1>11, <1>12, UpTo
<1>14. n \in K
  <2> HIDE DEF K
  <2>q. QED BY <1>1, <1>13
<1>15. h[n] = s[2 * n]
  BY <1>14
<1>q. QED BY <1>8, <1>9, <1>10, <1>15 DEF str2mac, octs

\* The readers of the settings agree on every text.
LEMMA SettingsRead ==
  ASSUME NEW conf \in Seq(0..4), NEW p \in AllPorts
  PROVE  /\ Len(conf) <= PNUM /\ ToSet(conf) \subseteq {0, 1}
              => get_port_disable(conf, p) = nvram_port_enable_get(conf, p)
         /\ Len(conf) = PNUM =>
              LET setting == nvram_port_seepd_get(conf, p)
              IN /\ setting.autoge = 1 <=> setting.speed = 0
                 /\ setting.speed \in {0, nvram_port_duplex_get(conf, p)}
                 /\ nvram_port_flow_get(conf, p) = 1 => setting.speed = 1
<1>1. phy[p] = p
  BY PhyIdentity
<1>2. Len(conf) \in Nat /\ PNUM \in Nat /\ p \in 1..PNUM
  BY PortNumbers DEF AllPorts
<1>3. Len(conf) = PNUM => conf[p] \in 0..4 /\ conf[p] \in ToSet(conf)
  BY <1>2 DEF ToSet
<1>4. ASSUME Len(conf) <= PNUM, ToSet(conf) \subseteq {0, 1}
      PROVE  get_port_disable(conf, p) = nvram_port_enable_get(conf, p)
  <2>1. CASE Len(conf) = PNUM
    <3>1. conf[p] = 0 \/ conf[p] = 1
      BY <1>3, <1>4, <2>1
    <3>q. QED BY <1>1, <1>2, <2>1, <3>1 DEF get_port_disable, nvram_port_enable_get
  <2>2. CASE Len(conf) < PNUM
    BY <1>2, <2>2 DEF get_port_disable, nvram_port_enable_get
  <2>q. QED BY <1>2, <1>4, <2>1, <2>2
<1>5. ASSUME Len(conf) = PNUM
      PROVE  LET setting == nvram_port_seepd_get(conf, p)
             IN /\ setting.autoge = 1 <=> setting.speed = 0
                /\ setting.speed \in {0, nvram_port_duplex_get(conf, p)}
                /\ nvram_port_flow_get(conf, p) = 1 => setting.speed = 1
  BY <1>3, <1>5 DEF nvram_port_seepd_get, nvram_port_duplex_get, nvram_port_flow_get
<1>q. QED BY <1>4, <1>5

\* What is stored is what is read, for tables of any size, texts of any length and
\* addresses of any number of octets (str.c:27-129, vlan.c:252-307, 601-695,
\* ipmc.c:194-235, mac.c:23-75, gmrp.c:10-20, port.c:35-52, 703-782).  The readers are
\* functions: the theorem is about every value they can be given.
THEOREM RowsKeptCorrect == TextInit => RowsKept
<1> SUFFICES ASSUME TextInit PROVE RowsKept
  OBVIOUS
<1>1. RowsTyped
  BY TextTyped
<1>2. ASSUME NEW j \in DOMAIN rows
      PROVE  /\ str_to_arr_i(arr_to_str_i(rows[j]), Len(rows[j]))
                  = [count |-> Len(rows[j]), arr |-> rows[j]]
             /\ LET pvids == bcm_get_pvid_from_entry(rows[j], 2 * Len(rows[j]))
                IN pvids.result = (IF Len(rows[j]) < PNUM THEN -1 ELSE 0)
                   /\ \A i \in 1..PNUM : pvids.vids[i] = (IF Len(rows[j]) < PNUM THEN 1
                                                          ELSE VlanOf(rows[j][i]))
             /\ ToSet(rows[j]) \intersect 1..(PNUM - 1) \subseteq bcm_port_based_vlan_get(rows[j])
  <2>1. rows[j] \in Seq(Cells) /\ Len(rows[j]) >= 1
    BY <1>1 DEF RowsTyped
  <2>q. QED BY <2>1, RowReadBack, VlansRead, VoiceRead
<1>3. rows # <<>> /\ (\A j \in DOMAIN rows : Len(rows[j]) = Len(rows[1])) =>
        str_to_arr_cfg(rows, Len(rows[1]), Len(rows)) = FlattenSeq(rows)
  BY <1>1, TableRead DEF RowsTyped
<1>4. bcm_get_entry_number(rows) \in
        bcm_get_no_PNUM_entry_number(rows) \intersect bcm_get_ipmc_number(rows)
  <2>1. Len(rows) \in Nat
    BY <1>1 DEF RowsTyped
  <2>q. QED BY <2>1 DEF bcm_get_entry_number, bcm_get_no_PNUM_entry_number, bcm_get_ipmc_number
<1>5. (\A j \in DOMAIN rows : Len(rows[j]) = 4) => bcm_get_ipmc_entry(rows) = rows
  BY <1>1, EntriesRead DEF RowsTyped
<1>6. mac # <<>> =>
        LET octets == cli_str2mac(mac)
        IN (\A o \in DOMAIN octets : 2 * octets[o] < Hex * Hex) =>
              hex2mac(octets) = str2mac(mac)
  BY <1>1, AddressRead DEF RowsTyped
<1>7. /\ digits # <<>> /\ Len(digits) <= PNUM /\ ToSet(digits) \subseteq {0, 1} =>
           \A p \in AllPorts : get_port_disable(digits, p) = nvram_port_enable_get(digits, p)
      /\ Len(digits) = PNUM =>
           \A p \in AllPorts :
             LET setting == nvram_port_seepd_get(digits, p)
             IN /\ setting.autoge = 1 <=> setting.speed = 0
                /\ setting.speed \in {0, nvram_port_duplex_get(digits, p)}
                /\ nvram_port_flow_get(digits, p) = 1 => setting.speed = 1
  <2>1. digits \in Seq(0..4)
    BY <1>1 DEF RowsTyped
  <2>q. QED BY <2>1, SettingsRead
<1>q. QED BY <1>2, <1>3, <1>4, <1>5, <1>6, <1>7 DEF RowsKept

=============================================================================
