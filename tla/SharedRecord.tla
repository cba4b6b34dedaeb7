---------------------------- MODULE SharedRecord ----------------------------
(***************************************************************************)
(* What lidar_send.c and lidar_recv.c promise of the globals their threads *)
(* share without a lock: values 1, 2, ... are written one after the other  *)
(* by one thread, word by word, and other threads copy them word by word.  *)
(*                                                                         *)
(* A copy may mix several values, but every word of it is from a value no  *)
(* older than the last one complete when the copy was begun and no newer   *)
(* than the last one begun when it is shown; where the code orders its     *)
(* accesses, some words are moreover never newer than others.              *)
(***************************************************************************)
EXTENDS Integers

CONSTANTS
    Readers,       \* threads that copy the record
    Lag            \* pairs <<a, b>> of words: a is never newer than b

Idle == -1

VARIABLES
    begun,         \* the last value the writer began to write
    done,          \* the last value it had written entirely
    reading,       \* per reader: "done" when it began its copy, or Idle
    shown          \* copies on the air or on their way to a client

vars == <<begun, done, reading, shown>>

Init ==
    /\ begun = 0 /\ done = 0
    /\ reading = [r \in Readers |-> Idle]
    /\ shown = {}

\* A copy that a reader which began when low was complete may show.
Regular(m, low, high) ==
    /\ m.floor = low
    /\ \A w \in DOMAIN m.word : low <= m.word[w] /\ m.word[w] <= high
    /\ \A p \in Lag : {p[1], p[2]} \subseteq DOMAIN m.word =>
                         m.word[p[1]] <= m.word[p[2]]

\* A value, the last one again or a later one, is begun.
Begin ==
    /\ begun' \in Nat /\ begun <= begun'
    /\ UNCHANGED <<done, reading, shown>>

\* The value begun is entirely written.
End == done' = begun /\ UNCHANGED <<begun, reading, shown>>

StartRead(r) ==
    /\ reading[r] = Idle
    /\ reading' = [reading EXCEPT ![r] = done]
    /\ UNCHANGED <<begun, done, shown>>

\* A copy is shown, or what should show it fails.
Show(r) ==
    /\ reading[r] # Idle
    /\ reading' = [reading EXCEPT ![r] = Idle]
    /\ shown \subseteq shown'
    /\ \A m \in shown' \ shown : Regular(m, reading[r], begun)
    /\ \A m, n \in shown' \ shown : m = n
    /\ UNCHANGED <<begun, done>>

\* Copies are taken by whom they were meant for, or lost.
Consume == shown' \subseteq shown /\ UNCHANGED <<begun, done, reading>>

Next == Begin \/ End \/ Consume \/ \E r \in Readers : StartRead(r) \/ Show(r)

Spec == Init /\ [][Next]_vars

----------------------------------------------------------------------------
(* Properties *)

\* No copy holds a word older than what was complete when it was begun, nor
\* one from the future.
CopiesRegular ==
    \A m \in shown : \A w \in DOMAIN m.word :
        m.floor <= m.word[w] /\ m.word[w] <= begun
=============================================================================
