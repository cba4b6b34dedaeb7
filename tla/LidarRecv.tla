----------------------------- MODULE LidarRecv -----------------------------
(***************************************************************************)
(* The on-board unit: mde/mocar/samples/lidar_recv/lidar_recv.c.           *)
(*                                                                         *)
(* Without a lock between them                                             *)
(*   - the stack's receive thread runs v2x_bsm_recv_handle(), which stores *)
(*     position and time of each BSM in the globals, field by field;       *)
(*   - main() decodes each request "angle,sec,usec" of its TCP client and  *)
(*     answers "x,y,theta,vel,sec,usec" from those globals, the time of    *)
(*     which it loads three times;                                         *)
(*   - timer handlers put the client's angle into a BSM and transmit it.   *)
(*                                                                         *)
(* BSMs and requests are named by their numbers; a global holds, word by   *)
(* word, the number of the BSM or request its value came with.  Stores and *)
(* loads of one handler take place in any order: C leaves the order in     *)
(* which sprintf()'s arguments are evaluated open.                         *)
(***************************************************************************)
EXTENDS Integers, Sequences, FiniteSets, UnixTime

CONSTANTS
    Handlers,      \* threads that may be inside v2x_bsm_tx_handle() at once
    Position,      \* the coordinates a BSM gives: x, y, theta, vel
    Halves,        \* the machine words of one double
    Parts,         \* complete fields one recv() may deliver, out of NFIELD
    Times,         \* the times a received BSM may carry
    MsgCountMod,   \* MAX_BSM_MSG_COUNT
    TimerLimit,    \* timers the system lets the process create
    MaxBsm,        \* bound: BSMs received
    MaxRequest,    \* bound: requests of the clients
    MaxTx,         \* bound: timer expiries
    MaxConn        \* bound: client connections

NFIELD == 3

ASSUME RecvAssumption ==
    /\ Position \cap {"time", "sec", "base"} = {}
    /\ Halves # {} /\ Parts \subseteq 1..NFIELD
    /\ Times \subseteq Nat /\ MsgCountMod \in Nat \ {0} /\ TimerLimit \in Nat
    /\ MaxBsm \in Nat /\ MaxRequest \in Nat /\ MaxTx \in Nat /\ MaxConn \in Nat

VARIABLES
    (* main(): where it is, the request, what it has still to store, the answer
       it is formatting *)
    pc, req, todo, count_calibr, fmt,
    (* globals shared by the threads *)
    mem, angle_recv, msgcount,
    (* receive thread: the times of the BSMs so far, words of the last to store *)
    heard, unstored,
    (* transmit handlers, armed timers, what was put on the air *)
    tx, timers, air,
    (* the TCP connection and its client *)
    conn, inbox, outbox, waiting, calibrated, requests, connects,
    (* history: handlers started, last request answered *)
    started, acked

mainVars == <<pc, req, todo, count_calibr, fmt>>
sharedVars == <<mem, angle_recv, msgcount>>
rxVars == <<heard, unstored>>
txVars == <<tx, timers, air, started>>
tcpVars == <<conn, inbox, outbox, waiting, calibrated, requests, connects>>
vars == <<mainVars, sharedVars, rxVars, txVars, tcpVars, acked>>

----------------------------------------------------------------------------
(* The globals, and what main() loads of them for an answer. *)

Fields == Position \cup {"time"}
Words == Fields \X Halves

\* (long)unixtime_recv, (long)((unixtime_recv-(long)unixtime_recv)*1000000)
TimeLoads == {"sec", "time", "base"}
Loads == (Position \cup TimeLoads) \X Halves
Loaded(l) == IF l[1] \in TimeLoads THEN <<"time", l[2]>> ELSE l

\* The first answer of a connection has this host's clock for its time.
LoadsFor(count) == IF count = 0 THEN Position \X Halves ELSE Loads

NoRequest == [k |-> 0, n |-> 0]
Requests == [k : Nat, n : 1..NFIELD]
NoAnswer == [word |-> [l \in Loads |-> 0], unread |-> {}, floor |-> 0]
Replies == [clock : BOOLEAN, word : [Loads -> Nat], floor : Nat, top : Nat]
BSMs == [count : Nat, angle : [Halves -> Nat], floor : Nat, top : Nat]
IdleTx == [pc |-> "idle", count |-> 0, reg |-> 0, unread |-> {},
           angle |-> [h \in Halves |-> 0], floor |-> 0]

Alive == pc \notin {"crashed", "exited"}

\* BSMs that v2x_bsm_recv_handle() has stored entirely.
Stored == IF unstored = {} THEN Len(heard) ELSE Len(heard) - 1

Init ==
    /\ pc = "accept" /\ req = NoRequest /\ todo = {} /\ count_calibr = 0
    /\ fmt = NoAnswer
    /\ mem = [w \in Words |-> 0] /\ angle_recv = [h \in Halves |-> 0]
    /\ msgcount = 0 /\ heard = <<>> /\ unstored = {}
    /\ tx = [h \in Handlers |-> IdleTx] /\ timers = 0 /\ air = {} /\ started = 0
    /\ conn = "none" /\ inbox = NoRequest /\ outbox = <<>>
    /\ waiting = FALSE /\ calibrated = FALSE /\ requests = 0 /\ connects = 0
    /\ acked = 0

----------------------------------------------------------------------------
(* main() *)

\* What Accept changes, for the value count_calibr gets and the timers allowed.
AcceptWith(count, limit) ==
    /\ pc = "accept" /\ conn \in {"backlog", "hungup"} /\ timers < limit
    /\ timers' = timers + 1
    /\ count_calibr' = count
    /\ conn' = IF conn = "backlog" THEN "open" ELSE "closed"
    /\ pc' = "recv"
    /\ UNCHANGED <<req, todo, fmt, sharedVars, rxVars, tx, air, started, inbox,
                   outbox, waiting, calibrated, requests, connects, acked>>

\* Mutants of Accept: count_calibr is not reset for a new connection; the result
\* of timer_create() is ignored.
AcceptKeepsCalibration == AcceptWith(count_calibr, TimerLimit)
AcceptUnchecked == AcceptWith(0, timers + 1)

\* accept, register the callback, create and arm one more timer.
Accept == AcceptWith(0, TimerLimit)

\* Registering the callback or creating the timer fails: return -1.
AcceptFails ==
    /\ pc = "accept" /\ conn \in {"backlog", "hungup"}
    /\ pc' = "exited"
    /\ UNCHANGED <<req, todo, count_calibr, fmt, sharedVars, rxVars, txVars,
                   tcpVars, acked>>

\* recv() returns the client's message, or a prefix of n of its fields.
Recv ==
    /\ pc = "recv" /\ inbox # NoRequest
    /\ \E n \in Parts : req' = [inbox EXCEPT !.n = n]
    /\ todo' = Halves
    /\ inbox' = NoRequest
    /\ pc' = "store"
    /\ UNCHANGED <<count_calibr, fmt, sharedVars, rxVars, txVars, conn, outbox,
                   waiting, calibrated, requests, connects, acked>>

\* recv() returns 0 or -1: close and go back to accept; the timer stays armed.
RecvEnd ==
    /\ pc = "recv" /\ conn = "closed"
    /\ conn' = "none" /\ inbox' = NoRequest /\ outbox' = <<>> /\ waiting' = FALSE
    /\ pc' = "accept"
    /\ UNCHANGED <<req, todo, count_calibr, fmt, sharedVars, rxVars, txVars,
                   calibrated, requests, connects, acked>>

\* angle_recv=strtod(p,NULL), one word of it.
StoreAngle ==
    /\ pc = "store"
    /\ \E h \in todo : /\ angle_recv' = [angle_recv EXCEPT ![h] = req.k]
                       /\ todo' = todo \ {h}
    /\ UNCHANGED <<pc, req, count_calibr, fmt, mem, msgcount, rxVars, txVars,
                   tcpVars, acked>>

\* strtok() found no further field and atoi(NULL) faults.
Crash ==
    /\ pc = "store" /\ todo = {} /\ req.n < NFIELD
    /\ pc' = "crashed"
    /\ UNCHANGED <<req, todo, count_calibr, fmt, sharedVars, rxVars, txVars,
                   tcpVars, acked>>

\* What Decoded changes, for the words the answer needs to load.
FormatWith(loads) ==
    /\ pc = "store" /\ todo = {} /\ req.n = NFIELD
    /\ fmt' = [fmt EXCEPT !.unread = loads, !.floor = Stored]
    /\ pc' = "format"
    /\ UNCHANGED <<req, todo, count_calibr, sharedVars, rxVars, txVars, tcpVars,
                   acked>>

\* Mutant of Decoded: later answers repeat the first one's position.
DecodedPositionOnce ==
    FormatWith(LoadsFor(count_calibr) \ (IF count_calibr = 0 THEN {} ELSE Position \X Halves))

\* The request is decoded: on to sprintf().
Decoded == FormatWith(LoadsFor(count_calibr))

\* sprintf() is handed one more word of x_recv, ..., unixtime_recv.
LoadWord ==
    /\ pc = "format"
    /\ \E l \in fmt.unread :
         fmt' = [fmt EXCEPT !.word[l] = mem[Loaded(l)], !.unread = @ \ {l}]
    /\ UNCHANGED <<pc, req, todo, count_calibr, sharedVars, rxVars, txVars,
                   tcpVars, acked>>

\* What Reply changes, for the answers sent.
Answer(replies) ==
    /\ pc = "format" /\ fmt.unread = {}
    /\ outbox' = IF conn = "open" THEN outbox \o replies ELSE outbox
    /\ count_calibr' = 1
    /\ acked' = req.k
    /\ pc' = "recv"
    /\ UNCHANGED <<req, todo, fmt, sharedVars, rxVars, txVars, conn, inbox,
                   waiting, calibrated, requests, connects>>

CurrentReply == [clock |-> count_calibr = 0, word |-> fmt.word,
                 floor |-> fmt.floor, top |-> Len(heard)]

\* Mutant of Reply: only the first request of a connection is answered.
ReplyOnce == Answer(IF count_calibr = 0 THEN <<CurrentReply>> ELSE <<>>)

\* send(); an answer to a client that is gone is lost.
Reply == Answer(<<CurrentReply>>)

Main == Accept \/ AcceptFails \/ Recv \/ RecvEnd \/ StoreAngle \/ Crash
          \/ Decoded \/ LoadWord \/ Reply

----------------------------------------------------------------------------
(* v2x_bsm_recv_handle(), run by the stack's receive thread *)

\* A BSM arrives.
Receive ==
    /\ Alive /\ timers > 0 /\ unstored = {} /\ Len(heard) < MaxBsm
    /\ \E t \in Times : heard' = Append(heard, t)
    /\ unstored' = Words
    /\ UNCHANGED <<mainVars, sharedVars, txVars, tcpVars, acked>>

\* x_recv=user_bsm->latitude; ... unixtime_recv=user_bsm->unix_time; one word.
StoreWord ==
    /\ Alive
    /\ \E w \in unstored : /\ mem' = [mem EXCEPT ![w] = Len(heard)]
                           /\ unstored' = unstored \ {w}
    /\ UNCHANGED <<mainVars, angle_recv, msgcount, heard, txVars, tcpVars, acked>>

----------------------------------------------------------------------------
(* v2x_bsm_tx_handle(), run by handler thread h *)

\* A timer expires: memset, and on to v2x_fill_bsm_msg().
Expire(h) ==
    /\ Alive /\ timers > 0 /\ tx[h].pc = "idle" /\ started < MaxTx
    /\ tx' = [tx EXCEPT ![h] = [IdleTx EXCEPT !.pc = "count", !.unread = Halves,
                                              !.floor = acked]]
    /\ started' = started + 1
    /\ UNCHANGED <<mainVars, sharedVars, rxVars, timers, air, tcpVars, acked>>

\* usr_bsm->msgcount = msgcount % MAX_BSM_MSG_COUNT
LoadCount(h) ==
    /\ Alive /\ tx[h].pc = "count"
    /\ tx' = [tx EXCEPT ![h].count = msgcount % MsgCountMod, ![h].pc = "inc"]
    /\ UNCHANGED <<mainVars, sharedVars, rxVars, timers, air, started, tcpVars, acked>>

\* msgcount++ is a load ...
LoadInc(h) ==
    /\ Alive /\ tx[h].pc = "inc"
    /\ tx' = [tx EXCEPT ![h].reg = msgcount, ![h].pc = "put"]
    /\ UNCHANGED <<mainVars, sharedVars, rxVars, timers, air, started, tcpVars, acked>>

\* ... and a store.
StoreInc(h) ==
    /\ Alive /\ tx[h].pc = "put"
    /\ msgcount' = tx[h].reg + 1
    /\ tx' = [tx EXCEPT ![h].pc = "angle"]
    /\ UNCHANGED <<mainVars, mem, angle_recv, rxVars, timers, air, started,
                   tcpVars, acked>>

\* Mutant of LoadAngle: one word is copied and the other taken to be the same.
LoadAngleOnce(h) ==
    /\ Alive /\ tx[h].pc = "angle"
    /\ \E w \in tx[h].unread :
         tx' = [tx EXCEPT ![h].unread = {}, ![h].angle[w] = angle_recv[w]]
    /\ UNCHANGED <<mainVars, sharedVars, rxVars, timers, air, started, tcpVars, acked>>

\* usr_bsm->angle = angle_recv, one word of it.
LoadAngle(h) ==
    /\ Alive /\ tx[h].pc = "angle"
    /\ \E w \in tx[h].unread :
         tx' = [tx EXCEPT ![h].unread = @ \ {w}, ![h].angle[w] = angle_recv[w]]
    /\ UNCHANGED <<mainVars, sharedVars, rxVars, timers, air, started, tcpVars, acked>>

BSM(h) == [count |-> tx[h].count, angle |-> tx[h].angle,
           floor |-> tx[h].floor, top |-> req.k]

\* mde_v2x_send_bsm() transmits the message, or fails and it is dropped.
SendBsm(h) ==
    /\ Alive /\ tx[h].pc = "angle" /\ tx[h].unread = {}
    /\ air' \in {air, air \cup {BSM(h)}}
    /\ tx' = [tx EXCEPT ![h] = IdleTx]
    /\ UNCHANGED <<mainVars, sharedVars, rxVars, timers, started, tcpVars, acked>>

Transmit == \E h \in Handlers : Expire(h) \/ LoadCount(h) \/ LoadInc(h)
                                  \/ StoreInc(h) \/ LoadAngle(h) \/ SendBsm(h)

----------------------------------------------------------------------------
(* The client, TCP_Scripts/test_tcp_3/TCP_Client2.c, one per connection *)

Connect ==
    /\ Alive /\ conn = "none" /\ connects < MaxConn
    /\ conn' = "backlog" /\ connects' = connects + 1 /\ calibrated' = FALSE
    /\ UNCHANGED <<mainVars, sharedVars, rxVars, txVars, inbox, outbox, waiting,
                   requests, acked>>

\* send(); the client then blocks in recv().
ClientSend ==
    /\ conn \in {"backlog", "open"} /\ ~waiting /\ requests < MaxRequest
    /\ requests' = requests + 1
    /\ inbox' = [k |-> requests + 1, n |-> NFIELD]
    /\ waiting' = TRUE
    /\ UNCHANGED <<mainVars, sharedVars, rxVars, txVars, conn, outbox,
                   calibrated, connects, acked>>

ClientRecv ==
    /\ conn = "open" /\ waiting /\ outbox # <<>>
    /\ outbox' = Tail(outbox) /\ waiting' = FALSE /\ calibrated' = TRUE
    /\ UNCHANGED <<mainVars, sharedVars, rxVars, txVars, conn, inbox, requests,
                   connects, acked>>

\* The client exits or is killed, also while its connection is still queued.
ClientClose ==
    /\ conn \in {"backlog", "open"}
    /\ conn' = IF conn = "open" THEN "closed" ELSE "hungup"
    /\ outbox' = <<>>
    /\ UNCHANGED <<mainVars, sharedVars, rxVars, txVars, inbox, waiting,
                   calibrated, requests, connects, acked>>

Client == Connect \/ ClientSend \/ ClientRecv \/ ClientClose

Next == Main \/ Receive \/ StoreWord \/ Transmit \/ Client

\* The kernel schedules main(); nothing else is promised.
Fairness == WF_vars(Main)

Spec == Init /\ [][Next]_vars
FairSpec == Spec /\ Fairness

----------------------------------------------------------------------------
(* The time of an answer, which its client puts together. *)

TimeOf(i) == IF i = 0 THEN 0 ELSE heard[i]

\* The BSM a load of an answer came from, if the load was not torn.
Source(r, load) == r.word[<<load, CHOOSE h \in Halves : TRUE>>]
Intact(r) == \A load \in TimeLoads : \A h \in Halves :
               r.word[<<load, h>>] = Source(r, load)
TimesIn(r) == ReplyTimes(TimeOf(Source(r, "sec")), TimeOf(Source(r, "time")),
                         TimeOf(Source(r, "base")))

----------------------------------------------------------------------------
(* Properties *)

TypeMain ==
    /\ pc \in {"accept", "recv", "store", "format", "crashed", "exited"}
    /\ req \in Requests \cup {NoRequest}
    /\ todo \subseteq Halves
    /\ count_calibr \in {0, 1}
    /\ fmt \in [word : [Loads -> Nat], unread : SUBSET Loads, floor : Nat]
    /\ timers \in 0..TimerLimit

TypeShared ==
    /\ mem \in [Words -> Nat]
    /\ angle_recv \in [Halves -> Nat]
    /\ msgcount \in Nat
    /\ heard \in Seq(Times) /\ unstored \subseteq Words
    /\ unstored # {} => heard # <<>>

TypeTx ==
    /\ tx \in [Handlers ->
                 [pc : {"idle", "count", "inc", "put", "angle"}, count : Nat,
                  reg : Nat, unread : SUBSET Halves, angle : [Halves -> Nat],
                  floor : Nat]]
    /\ air \subseteq BSMs
    /\ started \in Nat

TypeTcp ==
    /\ conn \in {"none", "backlog", "hungup", "open", "closed"}
    /\ inbox \in Requests \cup {NoRequest}
    /\ outbox \in Seq(Replies)
    /\ waiting \in BOOLEAN /\ calibrated \in BOOLEAN
    /\ requests \in Nat /\ connects \in Nat /\ acked \in Nat

\* Type correctness of every variable of lidar_recv.c and its client.
TypeOK == TypeMain /\ TypeShared /\ TypeTx /\ TypeTcp

\* What an answer needs of the globals, it took from BSMs no older than the last
\* one entirely stored when main() had decoded the request, and begun before it
\* answered: without a reception in between all of it is from one BSM.
ReplyRegular ==
    \A i \in 1..Len(outbox) :
        LET r == outbox[i]
        IN  \A l \in LoadsFor(IF r.clock THEN 0 ELSE 1) :
              r.floor <= r.word[l] /\ r.word[l] <= r.top

\* The three loads of unixtime_recv may meet three BSMs; while none of those it
\* can meet is from another second (and no load is torn) the time in the answer
\* is nevertheless the time of one of them, or what truncation leaves of it: a
\* microsecond less, but never of the second before.
ReplyTimeHeard ==
    \A i \in 1..Len(outbox) :
        LET r == outbox[i]
            met == r.floor..r.top
        IN  /\ ~r.clock /\ Intact(r)
            /\ \A b, c \in met : WholeSeconds(TimeOf(b)) = WholeSeconds(TimeOf(c))
            => \A t \in TimesIn(r) : \E b \in met :
                 /\ t \in {TimeOf(b) - 1, TimeOf(b)}
                 /\ WholeSeconds(t) = WholeSeconds(TimeOf(b))

\* The angle in a BSM is, word by word, from a request no older than the last
\* answered when its handler started and none the unit had not yet received.
AngleRegular ==
    \A b \in air : \A h \in Halves : b.floor <= b.angle[h] /\ b.angle[h] <= b.top

\* The answer client2 calibrates its clock with (its first) carries this host's
\* clock, and no later one does, across any number of connections.
CalibrationAnswer ==
    \A i \in 1..Len(outbox) : outbox[i].clock = ~calibrated

\* A client that waits is eventually answered, unless it goes or the unit dies,
\* however many BSMs arrive while main() formats the answer.
ClientAnswered ==
    (conn = "open" /\ waiting) ~> (outbox # <<>> \/ conn # "open" \/ ~Alive)

----------------------------------------------------------------------------
(* The globals as two shared records: the receive thread writes BSMs and main()
   copies them for its answers; main() writes angles and the handlers copy them. *)

\* Of an answer, the words it shows.
Copy(r) == [word |-> [l \in LoadsFor(IF r.clock THEN 0 ELSE 1) |-> r.word[l]],
            floor |-> r.floor]

Answers == INSTANCE SharedRecord WITH
    Readers <- {"main"},
    Lag <- {},
    begun <- Len(heard),
    done <- Stored,
    reading <- [r \in {"main"} |-> IF pc = "format" THEN fmt.floor ELSE -1],
    shown <- {Copy(outbox[i]) : i \in DOMAIN outbox}

Angles == INSTANCE SharedRecord WITH
    Readers <- Handlers,
    Lag <- {},
    begun <- req.k,
    done <- acked,
    reading <- [h \in Handlers |-> IF tx[h].pc = "idle" THEN -1 ELSE tx[h].floor],
    shown <- {[word |-> b.angle, floor |-> b.floor] : b \in air}

\* What client2 is answered is what it would get if the receive thread wrote
\* each BSM at once and main() picked each word from the BSMs current meanwhile.
AnswersRecord == Answers!Spec

\* The same of the angles that handlers copy while main() decodes requests.
BroadcastsAngles == Angles!Spec

----------------------------------------------------------------------------
(* What makes ReplyRegular, AngleRegular and CalibrationAnswer inductive *)

\* The globals hold the last BSM, but for the words still to be stored.
LastBsmStored ==
    \A w \in Words :
        mem[w] = IF w \in unstored THEN Len(heard) - 1 ELSE Len(heard)

FormatInRange ==
    pc = "format" =>
        /\ fmt.floor <= Stored
        /\ \A l \in LoadsFor(count_calibr) \ fmt.unread :
              fmt.floor <= fmt.word[l] /\ fmt.word[l] <= Len(heard)

\* Requests are served in the order they were sent.
ServedInOrder ==
    /\ req.k <= requests
    /\ inbox # NoRequest => req.k <= inbox.k /\ inbox.k <= requests
    /\ pc = "store" => \A h \in Halves \ todo : angle_recv[h] = req.k
    /\ pc = "format" => \A h \in Halves : angle_recv[h] = req.k
    /\ \A h \in Halves : acked <= angle_recv[h] /\ angle_recv[h] <= req.k

AngleInRange ==
    \A g \in Handlers :
        /\ tx[g].floor <= acked
        /\ tx[g].pc \in {"count", "inc", "put"} => tx[g].unread = Halves
        /\ \A h \in Halves \ tx[g].unread :
              tx[g].floor <= tx[g].angle[h] /\ tx[g].angle[h] <= req.k

AnswersPast == \A i \in 1..Len(outbox) : outbox[i].top <= Len(heard)

\* The connection main() is busy with, and what is left on the others.
Connected ==
    /\ pc = "accept" => conn \in {"none", "backlog", "hungup"}
    /\ pc \in {"recv", "store", "format"} => conn \in {"open", "closed"}
    /\ conn = "none" => pc = "accept" /\ inbox = NoRequest /\ ~waiting
    /\ conn = "backlog" => pc \in {"accept", "exited"} /\ ~calibrated
    /\ conn # "open" => outbox = <<>>

\* A request is in the wire, in work or answered, once, while it is waited for.
AnsweredOnce ==
    LET inWork == IF pc \in {"store", "format", "crashed"} THEN 1 ELSE 0
        inWire == IF inbox # NoRequest THEN 1 ELSE 0
    IN  conn \in {"backlog", "open"} =>
          inWire + inWork + Len(outbox) = IF waiting THEN 1 ELSE 0

\* main() and its client agree on whether the first answer was sent.
Agreed == conn = "open" => (count_calibr = 1) = (calibrated \/ outbox # <<>>)

ReplyInv == LastBsmStored /\ FormatInRange /\ ReplyRegular /\ AnswersPast
AngleInv == ServedInOrder /\ AngleInRange /\ AngleRegular
ExchangeInv == Connected /\ Agreed /\ AnsweredOnce /\ CalibrationAnswer
=============================================================================
