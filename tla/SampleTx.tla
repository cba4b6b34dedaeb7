------------------------------ MODULE SampleTx ------------------------------
(***************************************************************************)
(* The eight sample senders of the V2X stack, mde/mocar/samples/X/X_main.c *)
(* for X in Samples.  main() initialises the stack, registers a callback,  *)
(* creates and arms one timer and sleeps; every expiry runs                *)
(* v2x_X_tx_handle() in a thread of its own, which fills a message, sends  *)
(* it and, where the message owns allocated parts, frees them.             *)
(*                                                                         *)
(* The programs differ in how they fill the message, and that is what the  *)
(* plan of a sample says: part k is what the k-th calloc() of the fill     *)
(* function should return, which pointer the code tests then, and where    *)
(* the pointer to it is kept.                                              *)
(***************************************************************************)
EXTENDS Integers, FiniteSets

CONSTANTS
    Handlers,      \* threads that may be inside v2x_X_tx_handle() at once
    States,        \* MAX_INTERSECTION_LANE_NUM, movement states of a SPAT
    MsgCountMod,   \* the number of a message is taken modulo this
    MaxTx          \* bound: timer expiries

ASSUME SampleAssumption ==
    States \in Nat \ {0} /\ MsgCountMod \in Nat \ {0} /\ MaxTx \in Nat

VARIABLES
    sample,      \* which of the programs this is
    main,        \* where main() is, or how the process ended
    count,       \* the static message counter of the fill function
    tx,          \* the transmit handlers
    sent,        \* messages handed to the radio
    leaked,      \* parts no pointer leads to any more, with their message
    failedAt,    \* the part whose failed allocation the process died of
    started,     \* history: handlers started
    overlapped   \* history: two handlers ran at once

vars == <<sample, main, count, tx, sent, leaked, failedAt, started, overlapped>>

----------------------------------------------------------------------------
(* The plans.
     parts   calloc() calls of a complete fill
     tests   the part to which the pointer belongs that is tested after each
     within  the parts whose pointers lead from the message to a part
     late    parts to which only a local variable points until all are there
     numbers the message carries the counter
     counts  the counter is incremented                                    *)

Plain == [parts |-> 0, tests |-> <<>>, within |-> <<>>, late |-> {},
          numbers |-> FALSE, counts |-> FALSE]

Bsm == [Plain EXCEPT !.numbers = TRUE, !.counts = TRUE]
Rsa == [Plain EXCEPT !.numbers = TRUE, !.counts = TRUE]
Rtcm == [Plain EXCEPT !.numbers = TRUE, !.counts = TRUE]
Srm == Plain
Ssm == Plain

\* Mutant of Map: the last test looks at the pointer before, which was tested.
MapBlind == [Plain EXCEPT !.parts = 3, !.tests = <<1, 2, 2>>,
                          !.within = <<{1}, {1, 2}, {1, 2, 3}>>, !.counts = TRUE]

\* The intersection, its lane, the lane's points.
Map == [Plain EXCEPT !.parts = 3, !.tests = <<1, 2, 3>>,
                     !.within = <<{1}, {1, 2}, {1, 2, 3}>>, !.counts = TRUE]

\* The intersection, its States movement states, one event list for each; the
\* test after the latter is of movement_states->movement_event, the first list.
Spat == [Plain EXCEPT !.parts = 2 + States,
                      !.tests = [k \in 1..(2 + States) |-> IF k <= 3 THEN k ELSE 3],
                      !.within = [k \in 1..(2 + States) |->
                                    IF k = 1 THEN {1} ELSE {1, 2, k}]]

\* The data frame and its advisory codes, both in local variables at first, and
\* the frame until the end; the counter is never incremented.
Tim == [Plain EXCEPT !.parts = 2, !.tests = <<1, 2>>, !.within = <<{1}, {1, 2}>>,
                     !.late = {1, 2}, !.numbers = TRUE]

Plans == [bsm |-> Bsm, rsa |-> Rsa, rtcm |-> Rtcm, srm |-> Srm, ssm |-> Ssm,
          map |-> Map, spat |-> Spat, tim |-> Tim]
Samples == {"bsm", "rsa", "rtcm", "srm", "ssm", "map", "spat", "tim"}
Plan == Plans[sample]
Numbered == Plan.numbers /\ Plan.counts

\* part is the part dealt with; got those whose calloc() succeeded, linked those
\* to which the message or another part points.
IdleTx == [pc |-> "idle", seq |-> 0, number |-> 0, reg |-> 0,
           part |-> 0, got |-> {}, linked |-> {}]
Busy == {h \in Handlers : tx[h].pc # "idle"}

Init ==
    /\ sample \in Samples
    /\ main = "init" /\ count = 0
    /\ tx = [h \in Handlers |-> IdleTx]
    /\ sent = {} /\ leaked = {} /\ failedAt = 0
    /\ started = 0 /\ overlapped = FALSE

----------------------------------------------------------------------------
(* main() *)

BootOrder == [init |-> "register", register |-> "create", create |-> "arm",
              arm |-> "sleep"]

\* mde_v2x_init(), mde_v2x_register_X(), v2x_create_timer(), v2x_set_timer():
\* one more succeeds, or fails and main() returns -1.
Boot ==
    /\ main \in DOMAIN BootOrder
    /\ main' \in {BootOrder[main], "exited"}
    /\ UNCHANGED <<sample, count, tx, sent, leaked, failedAt, started, overlapped>>

----------------------------------------------------------------------------
(* v2x_X_tx_handle(), run by handler thread h *)

\* The timer expires: memset, and on to the fill function.
Expire(h) ==
    /\ main = "sleep" /\ tx[h].pc = "idle" /\ started < MaxTx
    /\ tx' = [tx EXCEPT ![h] = [IdleTx EXCEPT !.pc = "number", !.seq = started]]
    /\ started' = started + 1
    /\ overlapped' = (overlapped \/ Busy # {})
    /\ UNCHANGED <<sample, main, count, sent, leaked, failedAt>>

\* msg_count = count % 128, in the samples that number their messages.
Number(h) ==
    /\ main = "sleep" /\ tx[h].pc = "number"
    /\ tx' = [tx EXCEPT ![h].number = IF Plan.numbers THEN count % MsgCountMod ELSE 0,
                        ![h].pc = IF Plan.counts THEN "inc" ELSE "calloc"]
    /\ UNCHANGED <<sample, main, count, sent, leaked, failedAt, started, overlapped>>

\* count++ is a load ...
LoadInc(h) ==
    /\ main = "sleep" /\ tx[h].pc = "inc"
    /\ tx' = [tx EXCEPT ![h].reg = count, ![h].pc = "put"]
    /\ UNCHANGED <<sample, main, count, sent, leaked, failedAt, started, overlapped>>

\* ... and a store.
StoreInc(h) ==
    /\ main = "sleep" /\ tx[h].pc = "put"
    /\ count' = tx[h].reg + 1
    /\ tx' = [tx EXCEPT ![h].pc = "calloc"]
    /\ UNCHANGED <<sample, main, sent, leaked, failedAt, started, overlapped>>

\* Mutant of Alloc: the loop over the parts runs once too often.
AllocBeyond(h) ==
    /\ main = "sleep" /\ tx[h].pc = "calloc" /\ tx[h].part <= Plan.parts
    /\ tx' = [tx EXCEPT ![h].pc = "test", ![h].part = @ + 1, ![h].got = @ \cup {tx[h].part}]
    /\ UNCHANGED <<sample, main, count, sent, leaked, failedAt, started, overlapped>>

\* calloc() returns one more part, or NULL.
Alloc(h) ==
    /\ main = "sleep" /\ tx[h].pc = "calloc" /\ tx[h].part < Plan.parts
    /\ LET k == tx[h].part + 1
       IN  \E new \in {{}, {k}} :
             tx' = [tx EXCEPT ![h].pc = "test", ![h].part = k, ![h].got = @ \cup new,
                              ![h].linked = @ \cup (new \ Plan.late)]
    /\ UNCHANGED <<sample, main, count, sent, leaked, failedAt, started, overlapped>>

\* Mutant of Test: the handler ignores what the fill function returns.
TestIgnored(h) ==
    /\ main = "sleep" /\ tx[h].pc = "test"
    /\ tx' = [tx EXCEPT ![h].pc =
                 IF Plan.tests[tx[h].part] \in tx[h].got THEN "write" ELSE "send"]
    /\ UNCHANGED <<sample, main, count, sent, leaked, failedAt, started, overlapped>>

\* The test after calloc(): if the pointer it looks at is NULL, the fill function
\* returns -1.
Test(h) ==
    /\ main = "sleep" /\ tx[h].pc = "test"
    /\ tx' = [tx EXCEPT ![h].pc =
                 IF Plan.tests[tx[h].part] \in tx[h].got THEN "write" ELSE "drop"]
    /\ UNCHANGED <<sample, main, count, sent, leaked, failedAt, started, overlapped>>

\* The part is filled, through its own pointer ...
Write(h) ==
    /\ main = "sleep" /\ tx[h].pc = "write" /\ tx[h].part \in tx[h].got
    /\ tx' = [tx EXCEPT ![h].pc = "calloc"]
    /\ UNCHANGED <<sample, main, count, sent, leaked, failedAt, started, overlapped>>

\* ... which faults if that is NULL.
WriteNull(h) ==
    /\ main = "sleep" /\ tx[h].pc = "write" /\ tx[h].part \notin tx[h].got
    /\ main' = "crashed" /\ failedAt' = tx[h].part
    /\ UNCHANGED <<sample, count, tx, sent, leaked, started, overlapped>>

\* No part is missing: what only local variables point to is linked, and the fill
\* function returns 0.
Filled(h) ==
    /\ main = "sleep" /\ tx[h].pc = "calloc" /\ tx[h].part = Plan.parts
    /\ tx' = [tx EXCEPT ![h].pc = "send", ![h].linked = @ \cup Plan.late]
    /\ UNCHANGED <<sample, main, count, sent, leaked, failedAt, started, overlapped>>

Message(h) == [seq |-> tx[h].seq, number |-> tx[h].number, parts |-> tx[h].got]

\* mde_v2x_send_X() transmits the message, or fails and it is dropped.
Send(h) ==
    /\ main = "sleep" /\ tx[h].pc = "send"
    /\ sent' \in {sent, sent \cup {Message(h)}}
    /\ tx' = [tx EXCEPT ![h].pc = "free"]
    /\ UNCHANGED <<sample, main, count, leaked, failedAt, started, overlapped>>

\* The parts mde_v2x_msg_X_free() finds when it follows the message's pointers.
Reachable(h) == {k \in tx[h].got : Plan.within[k] \subseteq tx[h].linked}

\* Mutant of Free: only a message that was filled is freed.
FreeIfFilled(h) ==
    /\ main = "sleep" /\ tx[h].pc \in {"drop", "free"}
    /\ leaked' = leaked \cup ({tx[h].seq} \X
                   (IF tx[h].pc = "drop" THEN tx[h].got ELSE {}))
    /\ tx' = [tx EXCEPT ![h] = IdleTx]
    /\ UNCHANGED <<sample, main, count, sent, failedAt, started, overlapped>>

\* On every way out the message is freed (where it has parts), and the handler
\* returns.
Free(h) ==
    /\ main = "sleep" /\ tx[h].pc \in {"drop", "free"}
    /\ leaked' = leaked \cup ({tx[h].seq} \X (tx[h].got \ Reachable(h)))
    /\ tx' = [tx EXCEPT ![h] = IdleTx]
    /\ UNCHANGED <<sample, main, count, sent, failedAt, started, overlapped>>

Handle(h) == Number(h) \/ LoadInc(h) \/ StoreInc(h) \/ Alloc(h) \/ Test(h)
               \/ Write(h) \/ WriteNull(h) \/ Filled(h) \/ Send(h) \/ Free(h)

Next == Boot \/ \E h \in Handlers : Expire(h) \/ Handle(h)

Spec == Init /\ [][Next]_vars
----------------------------------------------------------------------------
(* Properties *)

HandlerStates == {"idle", "number", "inc", "put", "calloc", "test", "write", "send",
                  "drop", "free"}

\* Type correctness of the senders.
TypeOK ==
    /\ sample \in Samples
    /\ main \in {"init", "register", "create", "arm", "sleep", "exited", "crashed"}
    /\ count \in Nat
    /\ tx \in [Handlers -> [pc : HandlerStates, seq : Nat, number : Nat, reg : Nat,
                            part : 0..Plan.parts, got : SUBSET (1..Plan.parts),
                            linked : SUBSET (1..Plan.parts)]]
    /\ sent \subseteq [seq : Nat, number : Nat, parts : SUBSET (1..Plan.parts)]
    /\ leaked \subseteq Nat \X Nat
    /\ failedAt \in Nat
    /\ started \in Nat /\ overlapped \in BOOLEAN

\* Whatever allocation fails and whatever handlers overlap, a handler leaks
\* nothing, except that v2x_msg_fill_tim() loses the data frame when there is
\* no memory for its advisory codes.
LeakOnlyTimFrame == \A p \in leaked : sample = "tim" /\ p[2] = 1

\* No failed allocation kills a sample, except that of an event list of
\* v2x_msg_fill_spat() other than the first.
CrashOnlySpatEvent == main = "crashed" => sample = "spat" /\ failedAt > 3

\* What is sent is complete: no message with a missing part is ever sent.
SentWhole == \A m \in sent : m.parts = 1..Plan.parts

\* While no two handlers overlap, messages are numbered one after the other;
\* a sample that does not count numbers all of them 0.
NumberedInOrder ==
    \A m \in sent :
        IF Numbered
        THEN ~overlapped => m.number = m.seq % MsgCountMod
        ELSE m.number = 0

----------------------------------------------------------------------------
(* What makes them inductive *)

\* What a handler has, by where it is: all the parts before the one it deals with,
\* and that one unless its calloc() failed.
HasParts(h) ==
    /\ tx[h].got \subseteq 1..tx[h].part
    /\ \A k \in 1..tx[h].part : k < tx[h].part => k \in tx[h].got
    /\ tx[h].pc \in {"idle", "number", "inc", "put"} => tx[h].part = 0
    /\ tx[h].pc = "calloc" => tx[h].got = 1..tx[h].part
    /\ tx[h].pc \in {"test", "write", "drop"} => tx[h].part > 0
    /\ tx[h].pc = "write" => Plan.tests[tx[h].part] \in tx[h].got
    /\ tx[h].pc = "drop" => Plan.tests[tx[h].part] \notin tx[h].got
    /\ tx[h].pc \in {"send", "free"} => tx[h].got = 1..Plan.parts
    /\ tx[h].linked = IF tx[h].pc \in {"send", "free"} THEN tx[h].got \cup Plan.late
                     ELSE tx[h].got \ Plan.late

PartsInv == \A h \in Handlers : HasParts(h)

\* The counter and the numbers stay zero where the sample does not count.
ZeroNumbers ==
    ~Numbered =>
      /\ ~Plan.counts => count = 0 /\ \A h \in Handlers : tx[h].pc \notin {"inc", "put"}
      /\ \A h \in Handlers : tx[h].number = 0

Tally ==
    Numbered /\ ~overlapped =>
      /\ \A h, g \in Busy : h = g
      /\ Busy = {} => count = started
      /\ \A h \in Busy :
           /\ started = tx[h].seq + 1
           /\ count = IF tx[h].pc \in {"number", "inc", "put"}
                      THEN tx[h].seq ELSE started
           /\ tx[h].pc # "number" => tx[h].number = tx[h].seq % MsgCountMod
           /\ tx[h].pc = "put" => tx[h].reg = count

NumberInv == ZeroNumbers /\ Tally /\ NumberedInOrder
=============================================================================
