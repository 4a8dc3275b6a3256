------------------------------- MODULE Windows -------------------------------
(***************************************************************************)
(* faust/windows.py: hopping windows (a tumbling window is one with        *)
(* step = size).  Timestamps are whole seconds; a window is named by the   *)
(* second it starts at.                                                    *)
(***************************************************************************)
EXTENDS Integers, FiniteSets

CONSTANTS
    size, step, expires     \* of HoppingWindow, in seconds

ASSUME WindowAssumption ==
    size \in Nat \ {0} /\ step \in 1..size /\ expires \in Nat

(* HoppingWindow._start_initial_range                                      *)
StartInitialRange(ts) == (ts \div step) * step - size + step

(* ranges: range(start, timestamp + 1, step)                               *)
Ranges(ts) ==
    {s \in StartInitialRange(ts)..ts : (s - StartInitialRange(ts)) % step = 0}

(* current                                                                 *)
CurrentStart(ts) ==
    LET start == StartInitialRange(ts)
    IN  start + step * ((ts - start) \div step)

(* WindowRange_from_start, in tenths of a second.                          *)
RangeEnd(start) == 10 * (start + size) - 1

(* Mutant: the time to keep a window is left out.                          *)
StaleAtOnce(start, now) ==
    expires # 0 /\ RangeEnd(start) <= 10 * CurrentStart(now)

(* stale, for the end of the window that starts at `start`.                *)
Stale(start, now) ==
    expires # 0 /\ RangeEnd(start) <= 10 * CurrentStart(now - expires)
=============================================================================
