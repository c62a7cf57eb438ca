------------------------------ MODULE FlowStats ------------------------------
(***************************************************************************)
(* The traffic figures of the ports live in a shared memory segment       *)
(* (struct shared_use_st).  A daemon that is not in this repository        *)
(* refreshes them; the library reads them (port.c).  The two flags of the  *)
(* segment are tested and then set in two steps, by both sides, and all    *)
(* readers share one of them.                                              *)
(*                                                                         *)
(* A figure is the number of the refresh it was written by; the daemon     *)
(* goes on for ever, and the numbers come round again after MaxRound.      *)
(* Port p has the figures 2p-1 and 2p (sent and received).                 *)
(***************************************************************************)
EXTENDS Naturals, FiniteSets

CONSTANTS Readers,   \* processes that call the library
          FlowPorts, \* ports
          MaxRound,  \* bound: the last number of a refresh
          MaxReads   \* bound: calls of a reader

ASSUME FlowAssumption == FlowPorts \in Nat \ {0} /\ MaxRound \in Nat /\ MaxReads \in Nat

VARIABLES writing,   \* flag of the writer
          reading,   \* flag of the readers
          figure,    \* figure[i]: the refresh figure i was written by
          wpc,       \* where the writer is
          wat,       \* the figure it writes next
          round,     \* the refresh it is in
          rpc,       \* rpc[r]: where reader r is
          rat,       \* rat[r]: the figure it reads next
          rto,       \* rto[r]: the last figure it reads
          got,       \* got[r]: the refreshes it has read figures of
          raced,     \* history: a flag did not keep r and the writer apart
          reads      \* reads[r]: calls of r so far

flowvars == <<writing, reading, figure, wpc, wat, round, rpc, rat, rto, got, raced, reads>>
writer == <<figure, wpc, wat, round>>
reader == <<rpc, rat, rto, got, reads>>

Figures == 1..(2 * FlowPorts)
WriterAt == {"rest", "raise", "write", "gone"}
ReaderAt == {"out", "test", "mark", "read", "clear", "gone"}

FlowInit ==
  /\ writing = FALSE /\ reading = FALSE
  /\ figure = [i \in Figures |-> 0]
  /\ wpc = "rest" /\ wat = 1 /\ round = 0
  /\ rpc = [r \in Readers |-> "out"]
  /\ rat = [r \in Readers |-> 1] /\ rto = [r \in Readers |-> 1]
  /\ got = [r \in Readers |-> {}]
  /\ raced = [r \in Readers |-> FALSE]
  /\ reads = [r \in Readers |-> 0]

-----------------------------------------------------------------------------
(* The readers *)

\* Attach the segment and begin to read the figures from..to; without the segment
\* the library ends the whole process (exit(0)).
Attach(r, from, to) ==
  /\ rpc[r] = "out" /\ reads[r] < MaxReads
  /\ \/ rpc' = [rpc EXCEPT ![r] = "test"]
     \/ rpc' = [rpc EXCEPT ![r] = "gone"]
  /\ rat' = [rat EXCEPT ![r] = from] /\ rto' = [rto EXCEPT ![r] = to]
  /\ got' = [got EXCEPT ![r] = {}]
  /\ raced' = [raced EXCEPT ![r] = FALSE]
  /\ reads' = [reads EXCEPT ![r] = @ + 1]
  /\ UNCHANGED <<writing, reading, writer>>

bcm_get_all_txrx_average_rate_bps(r) == Attach(r, 1, 2 * FlowPorts)
bcm_get_port_txrx_average_rate_bps(r, port) == Attach(r, 2 * port - 1, 2 * port)
bcm_get_all_txrx_average_rate_pps(r) == Attach(r, 1, 2 * FlowPorts)
bcm_get_port_txrx_average_rate_pps(r, port) == Attach(r, 2 * port - 1, 2 * port)

\* while (shared->writing) sleep(1): the reader goes on when it sees the flag down.
\* Mutant of TestWriting: the loop does not look.
TestWritingNever(r) ==
  /\ rpc[r] = "test"
  /\ rpc' = [rpc EXCEPT ![r] = "mark"]
  /\ UNCHANGED <<writing, reading, writer, rat, rto, got, raced, reads>>

\* Mutant of TestWriting: it waits for the other readers too.
TestWritingAlone(r) ==
  /\ rpc[r] = "test" /\ ~writing /\ ~reading
  /\ rpc' = [rpc EXCEPT ![r] = "mark"]
  /\ UNCHANGED <<writing, reading, writer, rat, rto, got, raced, reads>>

TestWriting(r) ==
  /\ rpc[r] = "test" /\ ~writing
  /\ rpc' = [rpc EXCEPT ![r] = "mark"]
  /\ UNCHANGED <<writing, reading, writer, rat, rto, got, raced, reads>>

\* shared->reading = 1.  A writer that has already looked at the flag does not see it.
MarkReading(r) ==
  /\ rpc[r] = "mark"
  /\ reading' = TRUE
  /\ rpc' = [rpc EXCEPT ![r] = "read"]
  /\ raced' = [raced EXCEPT ![r] = @ \/ wpc = "raise"]
  /\ UNCHANGED <<writing, writer, rat, rto, got, reads>>

ReadFigure(r) ==
  /\ rpc[r] = "read"
  /\ got' = [got EXCEPT ![r] = @ \union {figure[rat[r]]}]
  /\ IF rat[r] = rto[r]
     THEN rpc' = [rpc EXCEPT ![r] = "clear"] /\ UNCHANGED rat
     ELSE rat' = [rat EXCEPT ![r] = @ + 1] /\ UNCHANGED rpc
  /\ UNCHANGED <<writing, reading, writer, rto, raced, reads>>

\* shared->reading = 0, whoever else is reading; detach and return, or end the process
\* where detaching fails (exit(0)).
ClearReading(r) ==
  /\ rpc[r] = "clear"
  /\ reading' = FALSE
  /\ \/ rpc' = [rpc EXCEPT ![r] = "out"]
     \/ rpc' = [rpc EXCEPT ![r] = "gone"]
  /\ raced' = [q \in Readers |-> raced[q] \/ (q # r /\ rpc[q] = "read")]
  /\ UNCHANGED <<writing, writer, rat, rto, got, reads>>

\* The process of a reader is killed; the flag stays as it is.
ReaderDies(r) ==
  /\ rpc[r] \notin {"out", "gone"}
  /\ rpc' = [rpc EXCEPT ![r] = "gone"]
  /\ UNCHANGED <<writing, reading, writer, rat, rto, got, raced, reads>>

-----------------------------------------------------------------------------
(* The daemon: external, taken to use the flags as the readers do *)

WriterTests ==
  /\ wpc = "rest" /\ ~reading
  /\ wpc' = "raise"
  /\ UNCHANGED <<writing, reading, figure, wat, round, reader, raced>>

WriterRaises ==
  /\ wpc = "raise"
  /\ writing' = TRUE /\ wpc' = "write" /\ wat' = 1
  /\ round' = IF round = MaxRound THEN 0 ELSE round + 1
  /\ raced' = [r \in Readers |-> raced[r] \/ rpc[r] = "mark"]
  /\ UNCHANGED <<reading, figure, reader>>

WriterWrites ==
  /\ wpc = "write" /\ wat \in Figures
  /\ figure' = [figure EXCEPT ![wat] = round]
  /\ wat' = wat + 1
  /\ UNCHANGED <<writing, reading, wpc, round, reader, raced>>

WriterLowers ==
  /\ wpc = "write" /\ wat \notin Figures
  /\ writing' = FALSE /\ wpc' = "rest"
  /\ UNCHANGED <<reading, figure, wat, round, reader, raced>>

WriterDies ==
  /\ wpc \in {"raise", "write"}
  /\ wpc' = "gone"
  /\ UNCHANGED <<writing, reading, figure, wat, round, reader, raced>>

-----------------------------------------------------------------------------
ReaderStep(r) ==
  TestWriting(r) \/ MarkReading(r) \/ ReadFigure(r) \/ ClearReading(r)

WriterStep == WriterTests \/ WriterRaises \/ WriterWrites \/ WriterLowers

FlowNext ==
  \/ \E r \in Readers :
       \/ bcm_get_all_txrx_average_rate_bps(r)
       \/ bcm_get_all_txrx_average_rate_pps(r)
       \/ \E port \in 1..FlowPorts :
            \/ bcm_get_port_txrx_average_rate_bps(r, port)
            \/ bcm_get_port_txrx_average_rate_pps(r, port)
       \/ ReaderStep(r)
       \/ ReaderDies(r)
  \/ WriterStep
  \/ WriterDies

\* A reader and the daemon that can take a step take it.
FlowFairness ==
  /\ \A r \in Readers : WF_flowvars(ReaderStep(r))
  /\ WF_flowvars(WriterStep)

FlowSpec == FlowInit /\ [][FlowNext]_flowvars

-----------------------------------------------------------------------------
FlowTypeOK ==
  /\ writing \in BOOLEAN /\ reading \in BOOLEAN
  /\ figure \in [Figures -> Nat]
  /\ wpc \in WriterAt /\ wat \in Nat /\ round \in Nat
  /\ rpc \in [Readers -> ReaderAt]
  /\ rat \in [Readers -> Nat] /\ rto \in [Readers -> Nat]
  /\ got \in [Readers -> SUBSET Nat]
  /\ raced \in [Readers -> BOOLEAN]
  /\ reads \in [Readers -> Nat]

\* The figures one call returns are of one refresh, unless a flag was passed
\* between its test and its use: by the daemon while this reader was about to raise
\* its own, or by another reader that lowered the flag they share (port.c:75-89).
TornOnlyByRace ==
  \A r \in Readers : ~raced[r] => \A v, w \in got[r] : v = w

\* Only the flag of the daemon keeps a reader waiting, and only by being up again and
\* again (port.c:75-78): not other readers, nor what killed ones left behind.  A reader
\* that looks once a second may find it up every time, and does so for ever if the daemon
\* died in a refresh; the code does nothing against either.
ReaderReturns ==
  \A r \in Readers :
    rpc[r] = "test" ~> (rpc[r] \in {"out", "gone"} \/ []<>writing)

=============================================================================
