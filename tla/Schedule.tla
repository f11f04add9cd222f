------------------------------ MODULE Schedule ------------------------------
(***************************************************************************)
(* The interval of Collector::run: tokio's Interval with                   *)
(* MissedTickBehavior::Skip.  Its ticks lie on a grid of Period that       *)
(* begins when the first collection is over; a tick that is taken late is  *)
(* taken once, and the next one is due at the next point of the grid.      *)
(***************************************************************************)
EXTENDS Integers

CONSTANTS
    Period,         \* scrape_interval
    MaxLate         \* bound: how long a tick is watched being overdue

VARIABLES
    due,            \* time to the next tick, negative when it is overdue
    position,       \* time since the latest point of the grid
    taken           \* history: ticks taken since that point, up to 2

vars == <<due, position, taken>>

Init == due = Period /\ position = 0 /\ taken = 0

\* interval() and the first tick, which is due at once and is consumed.
Begin == due' = Period /\ position' = 0 /\ taken' = 0

IsDue == due <= 0

\* A slip the runs must notice: the behaviour is left at its default, which
\* makes up for every missed tick.
NextDueBurst == due + Period

\* The next point of the grid after now.
NextDueSkip == Period - ((-due) % Period)

Tick ==
    /\ IsDue
    /\ due' = NextDueSkip
    /\ taken' = IF taken = 2 THEN 2 ELSE taken + 1
    /\ UNCHANGED position

Elapse ==
    /\ due > -MaxLate
    /\ due' = due - 1
    /\ position' = (position + 1) % Period
    /\ taken' = IF position' = 0 THEN 0 ELSE taken
=============================================================================
