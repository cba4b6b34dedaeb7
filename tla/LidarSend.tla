----------------------------- MODULE LidarSend -----------------------------
(***************************************************************************)
(* The road-side unit: mde/mocar/samples/lidar_send/lidar_send.c.          *)
(*                                                                         *)
(* Three kinds of thread share the file's globals without a lock:          *)
(*   - main() accepts one TCP client at a time, decodes each request       *)
(*     "x,y,theta,vel,sec,usec" straight into the globals, field by field, *)
(*     and answers "angle,sec,usec";                                       *)
(*   - every expiry of every armed 50 ms timer runs v2x_bsm_tx_handle() in *)
(*     a thread of its own (SIGEV_THREAD), which copies the globals into a *)
(*     BSM and transmits it;                                               *)
(*   - the stack's receive thread runs v2x_bsm_recv_handle().              *)
(*                                                                         *)
(* A request is named by its number s: the s-th lidar sample, whose        *)
(* position fields and time stamp all carry the number s.  A double of the *)
(* 32-bit target is a pair of words, stored and loaded one at a time.      *)
(***************************************************************************)
EXTENDS Integers, Sequences, FiniteSets

CONSTANTS
    Handlers,      \* threads that may be inside v2x_bsm_tx_handle() at once
    Halves,        \* the machine words of one double
    Angles,        \* angles a vehicle may report
    Parts,         \* complete fields one recv() may deliver, out of NFIELD
    InOrder,       \* TRUE iff words are stored and loaded in program order
    MsgCountMod,   \* MAX_BSM_MSG_COUNT
    TimerLimit,    \* timers the system lets the process create
    MaxSample,     \* bound: lidar samples
    MaxTx,         \* bound: timer expiries
    MaxConn        \* bound: client connections

NFIELD == 6

ASSUME ConstantsAssumption ==
    /\ Halves # {}
    /\ InOrder \in BOOLEAN
    /\ Parts \subseteq 1..NFIELD
    /\ MsgCountMod \in Nat \ {0}
    /\ TimerLimit \in Nat
    /\ MaxSample \in Nat /\ MaxTx \in Nat /\ MaxConn \in Nat
    /\ 0 \notin Angles

VARIABLES
    (* main() *)
    pc, req, todo, count_calibr,
    (* globals shared by the threads *)
    mem, angle_recv, unixtime_recv, msgcount,
    (* transmit handlers, armed timers, what was put on the air *)
    tx, timers, air,
    (* the TCP connection and its client *)
    conn, inbox, outbox, waiting, calibrated, sample, connects,
    (* history: handlers started, overlap seen, last sample acknowledged *)
    started, overlapped, acked

mainVars == <<pc, req, todo, count_calibr>>
sharedVars == <<mem, angle_recv, unixtime_recv, msgcount>>
txVars == <<tx, timers, air>>
tcpVars == <<conn, inbox, outbox, waiting, calibrated, sample, connects>>
history == <<started, overlapped, acked>>
vars == <<mainVars, sharedVars, txVars, tcpVars, history>>

----------------------------------------------------------------------------
(* The globals x_recv ... unixtime_send, word by word. *)

Fields == {"x", "y", "theta", "vel", "time"}
Words == Fields \X Halves
Position == {w \in Words : w[1] # "time"}
Stamp == {w \in Words : w[1] = "time"}

\* Mutant of StoreRank: unixtime_send is assigned before the position.
StampFirst == [x |-> 2, y |-> 3, theta |-> 4, vel |-> 5, time |-> 1]

\* The order in which main() stores the fields, and a handler loads them.
StoreRank == [x |-> 1, y |-> 2, theta |-> 3, vel |-> 4, time |-> 5]
LoadRank == [time |-> 1, x |-> 2, y |-> 3, theta |-> 4, vel |-> 5]

\* w may be the next of the words todo to be accessed.
MayAccess(w, pending, rank) ==
    InOrder => \A v \in pending : rank[w[1]] <= rank[v[1]]

\* What a message of n fields makes main() store: the time only after "usec".
Targets(n) == {w \in Position : StoreRank[w[1]] <= n}
                \cup (IF n = NFIELD THEN Stamp ELSE {})

NoRequest == [s |-> 0, n |-> 0]
Requests == [s : Nat, n : 1..NFIELD]
Replies == [clock : BOOLEAN, time : Nat, angle : Angles \cup {0}]
BSMs == [count : Nat, word : [Words -> Nat], seq : Nat, floor : Nat]
IdleTx == [pc |-> "idle", count |-> 0, reg |-> 0, unread |-> {},
           snap |-> [w \in Words |-> 0], seq |-> 0, floor |-> 0]

Alive == pc \notin {"crashed", "exited"}
Busy == {h \in Handlers : tx[h].pc # "idle"}

Init ==
    /\ pc = "accept" /\ req = NoRequest /\ todo = {} /\ count_calibr = 0
    /\ mem = [w \in Words |-> 0]
    /\ angle_recv = 0 /\ unixtime_recv = 0 /\ msgcount = 0
    /\ tx = [h \in Handlers |-> IdleTx] /\ timers = 0 /\ air = {}
    /\ conn = "none" /\ inbox = NoRequest /\ outbox = <<>>
    /\ waiting = FALSE /\ calibrated = FALSE /\ sample = 1 /\ connects = 0
    /\ started = 0 /\ overlapped = FALSE /\ acked = 0

----------------------------------------------------------------------------
(* main() *)

\* Mutant of Accept: the result of timer_create() is ignored.
AcceptUnchecked ==
    /\ pc = "accept" /\ conn \in {"backlog", "hungup"}
    /\ timers' = timers + 1 /\ count_calibr' = 0 /\ pc' = "recv"
    /\ conn' = IF conn = "backlog" THEN "open" ELSE "closed"
    /\ UNCHANGED <<req, todo, sharedVars, tx, air, inbox, outbox, waiting,
                   calibrated, sample, connects, history>>

\* Mutant of Accept: count_calibr is not reset for a new connection.
AcceptKeepsCalibration ==
    /\ pc = "accept" /\ conn \in {"backlog", "hungup"} /\ timers < TimerLimit
    /\ timers' = timers + 1 /\ pc' = "recv"
    /\ conn' = IF conn = "backlog" THEN "open" ELSE "closed"
    /\ UNCHANGED <<req, todo, count_calibr, sharedVars, tx, air, inbox, outbox,
                   waiting, calibrated, sample, connects, history>>

\* accept, register the callback, create and arm one more timer.
Accept ==
    /\ pc = "accept" /\ conn \in {"backlog", "hungup"} /\ timers < TimerLimit
    /\ timers' = timers + 1
    /\ count_calibr' = 0
    /\ conn' = IF conn = "backlog" THEN "open" ELSE "closed"
    /\ pc' = "recv"
    /\ UNCHANGED <<req, todo, sharedVars, tx, air, inbox, outbox, waiting,
                   calibrated, sample, connects, history>>

\* Registering the callback or creating the timer fails: return -1.
AcceptFails ==
    /\ pc = "accept" /\ conn \in {"backlog", "hungup"}
    /\ pc' = "exited"
    /\ UNCHANGED <<req, todo, count_calibr, sharedVars, txVars, tcpVars, history>>

\* recv() returns the client's message, or a prefix of n of its fields.
Recv ==
    /\ pc = "recv" /\ inbox # NoRequest
    /\ \E n \in Parts :
         /\ req' = [inbox EXCEPT !.n = n]
         /\ todo' = Targets(n)
    /\ inbox' = NoRequest
    /\ pc' = "store"
    /\ UNCHANGED <<count_calibr, sharedVars, txVars, conn, outbox, waiting,
                   calibrated, sample, connects, history>>

\* Mutant of RecvEnd: the break is missing.
RecvEndNoBreak ==
    /\ pc = "recv" /\ conn = "closed" /\ inbox' = NoRequest
    /\ UNCHANGED <<mainVars, sharedVars, txVars, conn, outbox, waiting,
                   calibrated, sample, connects, history>>

\* recv() returns 0 or -1: close and go back to accept; the timer stays armed.
RecvEnd ==
    /\ pc = "recv" /\ conn = "closed"
    /\ conn' = "none" /\ inbox' = NoRequest /\ outbox' = <<>> /\ waiting' = FALSE
    /\ pc' = "accept"
    /\ UNCHANGED <<req, todo, count_calibr, sharedVars, txVars,
                   calibrated, sample, connects, history>>

\* x_recv=strtod(p,NULL); ... unixtime_send=...: one word of one field.
Store ==
    /\ pc = "store"
    /\ \E w \in todo :
         /\ MayAccess(w, todo, StoreRank)
         /\ mem' = [mem EXCEPT ![w] = req.s]
         /\ todo' = todo \ {w}
    /\ UNCHANGED <<pc, req, count_calibr, angle_recv, unixtime_recv, msgcount,
                   txVars, tcpVars, history>>

\* strtok() found no further field and strtod(NULL)/atoi(NULL) faults.
Crash ==
    /\ pc = "store" /\ todo = {} /\ req.n < NFIELD
    /\ pc' = "crashed"
    /\ UNCHANGED <<req, todo, count_calibr, sharedVars, txVars, tcpVars, history>>

\* What Reply changes, for the answers sent.
Answer(replies) ==
    /\ outbox' = IF conn = "open" THEN outbox \o replies ELSE outbox
    /\ count_calibr' = 1
    /\ acked' = req.s
    /\ pc' = "recv"
    /\ UNCHANGED <<req, todo, sharedVars, txVars, conn, inbox, waiting,
                   calibrated, sample, connects, started, overlapped>>

CurrentReply == [clock |-> count_calibr = 0, angle |-> angle_recv,
                 time |-> IF count_calibr = 0 THEN 0 ELSE unixtime_recv]

\* Mutants of Reply: it answers before the request is decoded; it answers
\* twice; it waits until a vehicle has reported an angle.
ReplyEarly == pc = "store" /\ req.n = NFIELD /\ Answer(<<CurrentReply>>)
ReplyTwice == /\ pc = "store" /\ todo = {} /\ req.n = NFIELD
              /\ Answer(<<CurrentReply, CurrentReply>>)
ReplyOnceHeard == /\ pc = "store" /\ todo = {} /\ req.n = NFIELD
                  /\ angle_recv # 0 /\ Answer(<<CurrentReply>>)

\* The first answer of a connection carries this host's clock, the others
\* unixtime_recv.  An answer to a client that is gone is lost.
Reply ==
    /\ pc = "store" /\ todo = {} /\ req.n = NFIELD
    /\ Answer(<<CurrentReply>>)

Main == Accept \/ AcceptFails \/ Recv \/ RecvEnd \/ Store \/ Crash \/ Reply

----------------------------------------------------------------------------
(* v2x_bsm_tx_handle(), run by handler thread h *)

\* A timer expires: memset, and on to v2x_fill_bsm_msg().
Expire(h) ==
    /\ Alive /\ timers > 0 /\ tx[h].pc = "idle" /\ started < MaxTx
    /\ tx' = [tx EXCEPT ![h] = [IdleTx EXCEPT !.pc = "count", !.unread = Words,
                                              !.seq = started, !.floor = acked]]
    /\ started' = started + 1
    /\ overlapped' = (overlapped \/ Busy # {})
    /\ UNCHANGED <<mainVars, sharedVars, timers, air, tcpVars, acked>>

\* usr_bsm->msgcount = msgcount % MAX_BSM_MSG_COUNT
LoadCount(h) ==
    /\ Alive /\ tx[h].pc = "count"
    /\ tx' = [tx EXCEPT ![h].count = msgcount % MsgCountMod, ![h].pc = "inc"]
    /\ UNCHANGED <<mainVars, sharedVars, timers, air, tcpVars, history>>

\* msgcount++ is a load ...
LoadInc(h) ==
    /\ Alive /\ tx[h].pc = "inc"
    /\ tx' = [tx EXCEPT ![h].reg = msgcount, ![h].pc = "put"]
    /\ UNCHANGED <<mainVars, sharedVars, timers, air, tcpVars, history>>

\* Mutant of StoreInc: the count read is stored back unchanged.
StoreIncLost(h) ==
    /\ Alive /\ tx[h].pc = "put"
    /\ msgcount' = tx[h].reg
    /\ tx' = [tx EXCEPT ![h].pc = "fields"]
    /\ UNCHANGED <<mainVars, mem, angle_recv, unixtime_recv, timers, air,
                   tcpVars, history>>

\* ... and a store.
StoreInc(h) ==
    /\ Alive /\ tx[h].pc = "put"
    /\ msgcount' = tx[h].reg + 1
    /\ tx' = [tx EXCEPT ![h].pc = "fields"]
    /\ UNCHANGED <<mainVars, mem, angle_recv, unixtime_recv, timers, air,
                   tcpVars, history>>

\* usr_bsm->unix_time = unixtime_send; ... ->latitude = x_recv; ...
LoadWord(h) ==
    /\ Alive /\ tx[h].pc = "fields"
    /\ \E w \in tx[h].unread :
         /\ MayAccess(w, tx[h].unread, LoadRank)
         /\ tx' = [tx EXCEPT ![h].snap[w] = mem[w], ![h].unread = @ \ {w}]
    /\ UNCHANGED <<mainVars, sharedVars, timers, air, tcpVars, history>>

BSM(h) == [count |-> tx[h].count, word |-> tx[h].snap,
           seq |-> tx[h].seq, floor |-> tx[h].floor]

\* mde_v2x_send_bsm() transmits the message, or fails and it is dropped.
SendBsm(h) ==
    /\ Alive /\ tx[h].pc = "fields" /\ tx[h].unread = {}
    /\ air' \in {air, air \cup {BSM(h)}}
    /\ tx' = [tx EXCEPT ![h] = IdleTx]
    /\ UNCHANGED <<mainVars, sharedVars, timers, tcpVars, history>>

Transmit == \E h \in Handlers : Expire(h) \/ LoadCount(h) \/ LoadInc(h)
                                  \/ StoreInc(h) \/ LoadWord(h) \/ SendBsm(h)

\* v2x_bsm_recv_handle(): only the angle is kept, not unix_time.
RecvBsm ==
    /\ Alive /\ timers > 0
    /\ angle_recv' \in Angles
    /\ UNCHANGED <<mainVars, mem, unixtime_recv, msgcount, txVars, tcpVars, history>>

----------------------------------------------------------------------------
(* The client, lidar_ros/src/listener.cpp, one process per connection *)

Connect ==
    /\ Alive /\ conn = "none" /\ connects < MaxConn
    /\ conn' = "backlog" /\ connects' = connects + 1 /\ calibrated' = FALSE
    /\ UNCHANGED <<mainVars, sharedVars, txVars, inbox, outbox, waiting, sample,
                   history>>

\* gpsCallback() picks up a later sample.
NewSample ==
    /\ sample < MaxSample
    /\ sample' = sample + 1
    /\ UNCHANGED <<mainVars, sharedVars, txVars, conn, inbox, outbox, waiting,
                   calibrated, connects, history>>

\* send(): the whole of the current sample; the client then blocks in recv().
ClientSend ==
    /\ conn \in {"backlog", "open"} /\ ~waiting
    /\ inbox' = [s |-> sample, n |-> NFIELD]
    /\ waiting' = TRUE
    /\ UNCHANGED <<mainVars, sharedVars, txVars, conn, outbox, calibrated,
                   sample, connects, history>>

ClientRecv ==
    /\ conn = "open" /\ waiting /\ outbox # <<>>
    /\ outbox' = Tail(outbox) /\ waiting' = FALSE /\ calibrated' = TRUE
    /\ UNCHANGED <<mainVars, sharedVars, txVars, conn, inbox, sample, connects,
                   history>>

\* The client exits or is killed, also while its connection is still queued.
ClientClose ==
    /\ conn \in {"backlog", "open"}
    /\ conn' = IF conn = "open" THEN "closed" ELSE "hungup"
    /\ outbox' = <<>>
    /\ UNCHANGED <<mainVars, sharedVars, txVars, inbox, waiting, calibrated,
                   sample, connects, history>>

Client == Connect \/ NewSample \/ ClientSend \/ ClientRecv \/ ClientClose

Next == Main \/ Transmit \/ RecvBsm \/ Client

\* The kernel schedules main(); a peer that is connected need not send.
Fairness == WF_vars(Main)

Spec == Init /\ [][Next]_vars
FairSpec == Spec /\ Fairness

----------------------------------------------------------------------------
(* Properties *)

TypeMain ==
    /\ pc \in {"accept", "recv", "store", "crashed", "exited"}
    /\ req \in Requests \cup {NoRequest}
    /\ todo \subseteq Words
    /\ count_calibr \in {0, 1}
    /\ timers \in 0..TimerLimit

TypeShared ==
    /\ mem \in [Words -> Nat]
    /\ angle_recv \in Angles \cup {0}
    /\ unixtime_recv \in Nat
    /\ msgcount \in Nat

TypeTx ==
    /\ tx \in [Handlers ->
                 [pc : {"idle", "count", "inc", "put", "fields"}, count : Nat,
                  reg : Nat, unread : SUBSET Words, snap : [Words -> Nat],
                  seq : Nat, floor : Nat]]
    /\ air \subseteq BSMs

TypeTcp ==
    /\ conn \in {"none", "backlog", "hungup", "open", "closed"}
    /\ inbox \in Requests \cup {NoRequest}
    /\ outbox \in Seq(Replies)
    /\ waiting \in BOOLEAN /\ calibrated \in BOOLEAN
    /\ sample \in Nat /\ connects \in Nat

TypeHistory ==
    started \in Nat /\ overlapped \in BOOLEAN /\ acked \in Nat

\* Type correctness of every variable of lidar_send.c and its client.
TypeOK == TypeMain /\ TypeShared /\ TypeTx /\ TypeTcp /\ TypeHistory

\* No BSM claims to be newer than the data in it: main() stores the time stamp
\* after the position and a handler copies it before the position, so whatever
\* the interleaving, no word of the time is newer than a word of the position.
\* A receiver that extrapolates by its delay never uses too small a delay.
StampNotNewer ==
    InOrder => \A b \in air : \A p \in Position, t \in Stamp :
                  b.word[t] <= b.word[p]

\* No BSM carries data older than the last request that had been answered when
\* its handler started, in whatever order the memory accesses take place.
NotStale == \A b \in air : \A w \in Words : b.floor <= b.word[w]

\* While no two handlers ever overlap, messages are numbered one after the
\* other modulo MAX_BSM_MSG_COUNT (a failed send leaves a gap, not a repeat).
NumberedInOrder ==
    ~overlapped => \A b \in air : b.count = b.seq % MsgCountMod

\* main() answers each request once: what the client waits for is its request,
\* main()'s work on it or exactly one answer; an idle client finds no answer.
OneAnswerPerRequest ==
    LET inWork == IF pc \in {"store", "crashed"} THEN 1 ELSE 0
        inWire == IF inbox # NoRequest THEN 1 ELSE 0
    IN  conn \in {"backlog", "open"} =>
          inWire + inWork + Len(outbox) = IF waiting THEN 1 ELSE 0

\* The answer a client calibrates its clock with (its first) carries this
\* host's clock, and no later one does, across any number of connections.
CalibrationAnswer ==
    \A i \in 1..Len(outbox) : outbox[i].clock = ~calibrated

\* A request is eventually answered, unless its client goes or the unit dies.
RequestAnswered ==
    (conn = "open" /\ inbox # NoRequest) ~> (outbox # <<>> \/ conn # "open" \/ ~Alive)

\* A client that hangs up does not block the unit: it returns to accept().
BackToAccept == (conn = "closed") ~> (conn = "none" \/ ~Alive)

----------------------------------------------------------------------------
(* The globals as a shared record: main() writes samples, handlers copy them. *)

Record == INSTANCE SharedRecord WITH
    Readers <- Handlers,
    Lag <- IF InOrder THEN Stamp \X Position ELSE {},
    begun <- req.s,
    done <- acked,
    reading <- [h \in Handlers |-> IF tx[h].pc = "idle" THEN -1 ELSE tx[h].floor],
    shown <- {[word |-> b.word, floor |-> b.floor] : b \in air}

\* Whatever the interleaving, what the unit broadcasts is what an atomic writer
\* and readers that pick each word from the values current meanwhile would.
BroadcastsRecord == Record!Spec

----------------------------------------------------------------------------
(* What makes NotStale, StampNotNewer, NumberedInOrder, OneAnswerPerRequest *)
(* and CalibrationAnswer inductive                                          *)

\* Requests are served in the order of the samples they carry.
ServedInOrder ==
    /\ \A w \in Words : mem[w] <= req.s
    /\ req.s <= sample
    /\ inbox # NoRequest => req.s <= inbox.s /\ inbox.s <= sample

\* What main() need no longer store for the request is in memory.
StoredSoFar ==
    pc = "store" => /\ todo \subseteq Targets(req.n)
                    /\ \A w \in Targets(req.n) \ todo : mem[w] = req.s

AboveFloor ==
    /\ \A w \in Words : acked <= mem[w]
    /\ \A h \in Handlers :
         /\ tx[h].floor <= acked
         /\ tx[h].pc \in {"count", "inc", "put"} => tx[h].unread = Words
         /\ \A w \in Words \ tx[h].unread : tx[h].floor <= tx[h].snap[w]

\* What a handler copied had been asked of main() before.
CopiesBelow == \A h \in Handlers : \A w \in Words : tx[h].snap[w] <= req.s

StampBehind ==
    InOrder => \A p \in Position, t \in Stamp :
      /\ mem[t] <= mem[p]
      /\ \A h \in Handlers :
           /\ t \in tx[h].unread => p \in tx[h].unread
           /\ t \notin tx[h].unread =>
                tx[h].snap[t] <= IF p \in tx[h].unread THEN mem[p] ELSE tx[h].snap[p]

Numbering ==
    ~overlapped =>
      /\ \A h, g \in Busy : h = g
      /\ Busy = {} => msgcount = started
      /\ \A h \in Busy :
           /\ started = tx[h].seq + 1
           /\ msgcount = IF tx[h].pc = "fields" THEN started ELSE tx[h].seq
           /\ tx[h].pc # "count" => tx[h].count = tx[h].seq % MsgCountMod
           /\ tx[h].pc = "put" => tx[h].reg = msgcount

\* The connection main() is busy with, and what is left on the others.
Connected ==
    /\ pc = "accept" => conn \in {"none", "backlog", "hungup"}
    /\ pc \in {"recv", "store"} => conn \in {"open", "closed"}
    /\ conn = "none" => pc = "accept" /\ inbox = NoRequest /\ ~waiting
    /\ conn = "backlog" => pc \in {"accept", "exited"} /\ ~calibrated
    /\ conn # "open" => outbox = <<>>

\* main() and its client agree on whether the first answer was sent.
Agreed == conn = "open" => (count_calibr = 1) = (calibrated \/ outbox # <<>>)

DataInv == ServedInOrder /\ StoredSoFar /\ AboveFloor /\ NotStale
OrderInv == DataInv /\ StampBehind /\ StampNotNewer
RecordInv == OrderInv /\ CopiesBelow
NumberInv == Numbering /\ NumberedInOrder
ExchangeInv == Connected /\ Agreed /\ OneAnswerPerRequest /\ CalibrationAnswer
=============================================================================
