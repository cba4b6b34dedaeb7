------------------------------ MODULE UnixTime ------------------------------
(***************************************************************************)
(* How a unit puts a time into an answer (lidar_recv.c:331).  It keeps the *)
(* time as a double of seconds and sends (long)t1 and                      *)
(* (long)((t2-(long)t3)*1000000), where t1, t2 and t3 are three loads of   *)
(* that double; its client adds the two up.  Times are counted in          *)
(* microseconds and not negative.                                          *)
(***************************************************************************)
EXTENDS Integers

CONSTANT Second    \* microseconds of a second

ASSUME SecondAssumption == Second \in Nat \ {0}

\* (long)t, in microseconds.
WholeSeconds(t) == (t \div Second) * Second

\* (long)x for a distance x of t to a second.  A double of today's seconds is off
\* by up to an eighth of a microsecond unless it is whole, so cutting off the
\* fraction may bring x one nearer to zero.
Truncations(t, x) ==
    IF t % Second = 0 THEN {x} ELSE IF x > 0 THEN {x - 1, x} ELSE {x, x + 1}

\* Mutant of ReplyTimes: the seconds are not taken off the microseconds.
ReplyTimesUnreduced(t1, t2, t3) == {WholeSeconds(t1) + x : x \in Truncations(t2, t2)}

\* The times an answer may carry.
ReplyTimes(t1, t2, t3) ==
    {WholeSeconds(t1) + x : x \in Truncations(t2, t2 - WholeSeconds(t3))}
=============================================================================
