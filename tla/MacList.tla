------------------------------- MODULE MacList -------------------------------
(***************************************************************************)
(* The addresses the chip has learned are listed in three steps            *)
(* (mac.c:101-157): the driver is asked to write them to the file          *)
(* /var/mac, the file is read line by line, and removed.  All processes    *)
(* share that file; the result of the request is not looked at.            *)
(***************************************************************************)
EXTENDS Integers, Sequences, FiniteSets

CONSTANTS Listers,   \* processes that list
          Macs,      \* addresses, numbers in the order of the table
          Inner,     \* addresses on a port that has no number on the front
          MaxFiles,  \* bound: files that are ever made
          MaxLearn   \* bound: changes of the table

ASSUME MacAssumption == Macs \subseteq Nat /\ IsFiniteSet(Macs) /\ Inner \subseteq Macs

VARIABLES learned,   \* the addresses in the chip
          files,     \* files[i]: the lines of the i-th file made
          path,      \* which of them is /var/mac, 0 for none
          mpc,       \* mpc[q]: where lister q is
          stream,    \* stream[q]: the file it has open
          line,      \* line[q]: the line it reads next
          listed,    \* listed[q]: the addresses it has copied to the caller
          known,     \* history: the addresses in the chip at some time during the call
          alone,     \* history: the request succeeded and no one else was at the file or the chip
          changes    \* changes of the table so far

macvars == <<learned, files, path, mpc, stream, line, listed, known, alone, changes>>

\* The driver writes the table in order.
Ordered(s) == \A i, j \in DOMAIN s : i < j => s[i] < s[j]
Lines(table) ==
  CHOOSE s \in [1..Cardinality(table) -> table] :
    Ordered(s) /\ \A m \in table : \E i \in DOMAIN s : s[i] = m
Others(q) == [o \in Listers |-> IF o # q THEN FALSE ELSE alone[o]]

MacInit ==
  /\ learned = Macs
  /\ files = <<>> /\ path = 0
  /\ mpc = [q \in Listers |-> "out"]
  /\ stream = [q \in Listers |-> 0] /\ line = [q \in Listers |-> 1]
  /\ listed = [q \in Listers |-> <<>>]
  /\ known = [q \in Listers |-> {}]
  /\ alone = [q \in Listers |-> FALSE]
  /\ changes = 0

\* The chip learns an address or forgets one.
Learn(m) ==
  /\ changes < MaxLearn
  /\ learned' = IF m \in learned THEN learned \ {m} ELSE learned \union {m}
  /\ known' = [q \in Listers |-> known[q] \union learned']
  /\ alone' = [q \in Listers |-> FALSE]
  /\ changes' = changes + 1
  /\ UNCHANGED <<files, path, mpc, stream, line, listed>>

\* The driver (external) empties the file, or makes one, and writes the table to it.
WriteTable ==
  IF path # 0
  THEN files' = [files EXCEPT ![path] = Lines(learned)] /\ UNCHANGED path
  ELSE files' = Append(files, Lines(learned)) /\ path' = Len(files')

\* Another tool asks for the table and leaves the file for its reader.
bcm_get_all_mac ==
  /\ Len(files) < MaxFiles
  /\ WriteTable
  /\ alone' = [q \in Listers |-> FALSE]
  /\ UNCHANGED <<learned, mpc, stream, line, listed, known, changes>>

\* The device is opened. Without it the call returns -1 and changes nothing.
OpenForList(q) ==
  /\ mpc[q] = "out"
  /\ mpc' = [mpc EXCEPT ![q] = "ask"]
  /\ listed' = [listed EXCEPT ![q] = <<>>]
  /\ known' = [known EXCEPT ![q] = learned]
  /\ alone' = [alone EXCEPT ![q] = FALSE]
  /\ UNCHANGED <<learned, files, path, stream, line, changes>>

AskDriver(q) ==
  /\ mpc[q] = "ask" /\ Len(files) < MaxFiles
  /\ WriteTable
  /\ mpc' = [mpc EXCEPT ![q] = "open"]
  /\ alone' = [Others(q) EXCEPT ![q] = TRUE]
  /\ UNCHANGED <<learned, stream, line, listed, known, changes>>

\* The request fails and the call goes on: a file that is there is an old one.
AskRefused(q) ==
  /\ mpc[q] = "ask"
  /\ mpc' = [mpc EXCEPT ![q] = "stale"]
  /\ UNCHANGED <<learned, files, path, stream, line, listed, known, alone, changes>>

\* Without a file the list is empty.
OpenList(q) ==
  /\ mpc[q] \in {"open", "stale"}
  /\ IF path = 0 THEN mpc' = [mpc EXCEPT ![q] = "return"]
                 ELSE mpc' = [mpc EXCEPT ![q] = IF mpc[q] = "open" THEN "read" ELSE "reread"]
  /\ stream' = [stream EXCEPT ![q] = path]
  /\ line' = [line EXCEPT ![q] = 1]
  /\ UNCHANGED <<learned, files, path, listed, known, alone, changes>>

\* A line is copied if its port has a number on the front.
ReadLine(q) ==
  /\ mpc[q] \in {"read", "reread"} /\ line[q] <= Len(files[stream[q]])
  /\ LET m == files[stream[q]][line[q]]
     IN listed' = [listed EXCEPT ![q] = IF m \in Inner THEN @ ELSE Append(@, m)]
  /\ line' = [line EXCEPT ![q] = @ + 1]
  /\ UNCHANGED <<learned, files, path, mpc, stream, known, alone, changes>>

\* Mutant of EndOfList: the last line is taken for the end.
EndOfListEarly(q) ==
  /\ mpc[q] \in {"read", "reread"} /\ line[q] >= Len(files[stream[q]])
  /\ path' = 0
  /\ alone' = Others(q)
  /\ mpc' = [mpc EXCEPT ![q] = IF mpc[q] = "read" THEN "return" ELSE "return old"]
  /\ UNCHANGED <<learned, files, stream, line, listed, known, changes>>

\* fclose, which others do not notice, and unlink("/var/mac"): the file of the moment,
\* whoever made it. The break at the 8192nd address (mac.c:145), with which a full table
\* loses its last one, is left out.
EndOfList(q) ==
  /\ mpc[q] \in {"read", "reread"} /\ line[q] > Len(files[stream[q]])
  /\ path' = 0
  /\ alone' = Others(q)
  /\ mpc' = [mpc EXCEPT ![q] = IF mpc[q] = "read" THEN "return" ELSE "return old"]
  /\ UNCHANGED <<learned, files, stream, line, listed, known, changes>>

LeaveList(q) ==
  /\ mpc[q] \in {"return", "return old"}
  /\ mpc' = [mpc EXCEPT ![q] = "out"]
  /\ UNCHANGED <<learned, files, path, stream, line, listed, known, alone, changes>>

MacNext ==
  \/ \E m \in Macs : Learn(m)
  \/ bcm_get_all_mac
  \/ \E q \in Listers :
       \/ OpenForList(q) \/ AskDriver(q) \/ AskRefused(q) \/ OpenList(q)
       \/ ReadLine(q) \/ EndOfList(q) \/ LeaveList(q)

MacSpec == MacInit /\ [][MacNext]_macvars

-----------------------------------------------------------------------------
\* Whatever other processes do to the file they share, a list whose own request
\* succeeded names only addresses the chip held at some time during the call; and it
\* is the whole table, in order, if nobody else touched the file and the table did not
\* change (mac.c:114-156).
ListedWasThere ==
  \A q \in Listers : mpc[q] = "return" =>
    /\ \A i \in DOMAIN listed[q] : listed[q][i] \in known[q]
    /\ alone[q] => listed[q] = Lines(learned \ Inner)

=============================================================================
