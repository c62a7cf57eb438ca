------------------------------- MODULE MsClock -------------------------------
(***************************************************************************)
(* The millisecond clock of the PoE code (SPP_Util.c): every time limit of *)
(* the serial protocol is a start time and the time elapsed since.  The    *)
(* clock is a 32-bit number, which wraps after 49 days; Width is 2^32.     *)
(*                                                                         *)
(* The machine's time runs in half milliseconds.                           *)
(***************************************************************************)
EXTENDS Integers

CONSTANTS Width,     \* values of a UINT32
          MaxHalves  \* bound: how long a behaviour lasts

ASSUME ClockAssumption == Width \in Nat \ {0, 1} /\ MaxHalves \in Nat

VARIABLES halves,    \* half milliseconds of CLOCK_MONOTONIC
          started,   \* the start time a limit was taken at, as CurrentTime gave it
          since      \* history: halves when it was taken

clockvars == <<halves, started, since>>

\* The code rounds to the nearest millisecond and keeps 32 bits. It returns 0 when
\* clock_gettime fails (SPP_Util.c:69), which it does not for CLOCK_MONOTONIC; that is
\* left out.
CurrentTime == ((halves \div 2) + (halves % 2)) % Width

\* Mutant of ElapsedTime: the wrap counts one too little.
ElapsedTimeShort(start) ==
  IF CurrentTime >= start THEN CurrentTime - start
                          ELSE (Width - 1 - start) + CurrentTime

ElapsedTime(start) ==
  IF CurrentTime >= start THEN CurrentTime - start
                          ELSE (Width - 1 - start) + CurrentTime + 1

\* The machine may have been up for any time when the process starts.
ClockInit ==
  /\ halves \in 0..(2 * Width)
  /\ since = halves
  /\ started = CurrentTime

ClockTicks ==
  /\ halves < MaxHalves
  /\ halves' = halves + 1
  /\ UNCHANGED <<started, since>>

\* A limit begins: StartTime = CurrentTime().
TakeStartTime ==
  /\ started' = CurrentTime /\ since' = halves
  /\ UNCHANGED halves

ClockNext == ClockTicks \/ TakeStartTime

ClockSpec == ClockInit /\ [][ClockNext]_clockvars

-----------------------------------------------------------------------------
\* The time a limit sees is the time that passed, to half a millisecond, wherever
\* the clock stood and whether it wrapped meanwhile, for limits shorter than the
\* range of the clock (SPP_Util.c:83-91).
ElapsedIsReal ==
  halves - since < 2 * (Width - 1) =>
     2 * ElapsedTime(started) - (halves - since) \in {-1, 0, 1}

=============================================================================
