-------------------------- MODULE LidarSendProofs --------------------------
(***************************************************************************)
(* TLAPS proofs about the road-side unit, for every number of handler      *)
(* threads, words per double, samples and connections.                     *)
(***************************************************************************)
EXTENDS LidarSend, TLAPS

----------------------------------------------------------------------------
(* Words and ranks *)

\* Every word is a word of the position or of the time stamp, not both.
LEMMA WordsSplit ==
    /\ Words = Position \cup Stamp
    /\ Position \cap Stamp = {}
    /\ Position \subseteq Words /\ Stamp \subseteq Words
BY DEF Position, Stamp, Words

\* The time stamp is the last field main() stores and the first a handler loads.
LEMMA Ranks ==
    ASSUME NEW p \in Position, NEW t \in Stamp
    PROVE  /\ StoreRank[p[1]] \in 1..4 /\ StoreRank[t[1]] = 5
           /\ LoadRank[p[1]] \in 2..5 /\ LoadRank[t[1]] = 1
<1>1. p[1] \in {"x", "y", "theta", "vel"}
  BY DEF Position, Words, Fields
<1>2. t[1] = "time"
  BY DEF Stamp
<1> QED BY <1>1, <1>2 DEF StoreRank, LoadRank

\* A whole message makes main() store every word.
LEMMA AllTargets == Targets(NFIELD) = Words
<1>1. ASSUME NEW p \in Position PROVE StoreRank[p[1]] <= 6
  <2>1. p[1] \in {"x", "y", "theta", "vel"}
    BY DEF Position, Words, Fields
  <2> QED BY <2>1 DEF StoreRank
<1> QED BY <1>1, WordsSplit DEF Targets, NFIELD

LEMMA WordsExist == Words # {}
<1>1. PICK half : half \in Halves
  BY ConstantsAssumption
<1>2. <<"x", half>> \in Words
  BY <1>1 DEF Words, Fields
<1> QED BY <1>2

LEMMA TargetsAreWords == \A n : Targets(n) \subseteq Words
BY WordsSplit DEF Targets

----------------------------------------------------------------------------
(* Type correctness, one lemma per group of variables *)

LEMMA TypeInit == Init => TypeOK
<1> SUFFICES ASSUME Init PROVE TypeOK
  OBVIOUS
<1> USE DEF Init
<1>1. TypeMain
  BY ConstantsAssumption DEF TypeMain
<1>2. TypeShared
  BY DEF TypeShared
<1>3. TypeTx
  BY DEF TypeTx, IdleTx
<1>4. TypeTcp
  <2>1. outbox \in Seq(Replies)
    OBVIOUS
  <2>2. waiting \in BOOLEAN /\ calibrated \in BOOLEAN
    OBVIOUS
  <2>3. sample \in Nat /\ connects \in Nat
    OBVIOUS
  <2> QED BY <2>1, <2>2, <2>3 DEF TypeTcp
<1>5. TypeHistory
  BY DEF TypeHistory
<1> QED BY <1>1, <1>2, <1>3, <1>4, <1>5 DEF TypeOK

\* Only main() touches its own variables and the set of armed timers.
LEMMA TypeMainStep == TypeOK /\ [Next]_vars => TypeMain'
<1> SUFFICES ASSUME TypeOK, [Next]_vars PROVE TypeMain'
  OBVIOUS
<1> USE DEF TypeOK, TypeMain, mainVars, txVars
<1>1. CASE Accept
  BY <1>1, ConstantsAssumption DEF Accept
<1>2. CASE AcceptFails
  BY <1>2 DEF AcceptFails
<1>3. CASE Recv
  <2>1. PICK n \in Parts : req' = [inbox EXCEPT !.n = n] /\ todo' = Targets(n)
    BY <1>3 DEF Recv
  <2>2. n \in 1..NFIELD
    BY ConstantsAssumption
  <2>3. inbox \in Requests
    BY <1>3 DEF Recv, TypeTcp
  <2>4. req' \in Requests
    BY <2>1, <2>2, <2>3 DEF Requests
  <2> QED BY <1>3, <2>1, <2>4, TargetsAreWords DEF Recv
<1>4. CASE RecvEnd
  BY <1>4 DEF RecvEnd
<1>5. CASE Store
  BY <1>5 DEF Store
<1>6. CASE Crash
  BY <1>6 DEF Crash
<1>7. CASE Reply
  BY <1>7 DEF Reply, Answer
<1>8. CASE Transmit
  BY <1>8 DEF Transmit, Expire, LoadCount, LoadInc, StoreInc, LoadWord, SendBsm
<1>9. CASE RecvBsm
  BY <1>9 DEF RecvBsm
<1>10. CASE Client
  BY <1>10 DEF Client, Connect, NewSample, ClientSend, ClientRecv, ClientClose
<1>11. CASE UNCHANGED vars
  BY <1>11 DEF vars
<1> QED BY <1>1, <1>2, <1>3, <1>4, <1>5, <1>6, <1>7, <1>8, <1>9, <1>10, <1>11
        DEF Next, Main

\* The globals are written by main(), the handlers and the receive callback.
LEMMA TypeSharedStep == TypeOK /\ [Next]_vars => TypeShared'
<1> SUFFICES ASSUME TypeOK, [Next]_vars PROVE TypeShared'
  OBVIOUS
<1> USE DEF TypeOK, TypeShared, sharedVars
<1>1. CASE Accept \/ AcceptFails \/ Recv \/ RecvEnd \/ Crash \/ Reply
  BY <1>1 DEF Accept, AcceptFails, Recv, RecvEnd, Crash, Reply, Answer
<1>2. CASE Store
  <2>1. req.s \in Nat
    BY DEF TypeMain, Requests, NoRequest
  <2> QED BY <1>2, <2>1 DEF Store
<1>3. ASSUME NEW h \in Handlers, StoreInc(h) PROVE TypeShared'
  <2>1. tx[h].reg + 1 \in Nat
    BY DEF TypeTx
  <2> QED BY <1>3, <2>1 DEF StoreInc
<1>4. ASSUME NEW h \in Handlers,
             Expire(h) \/ LoadCount(h) \/ LoadInc(h) \/ LoadWord(h) \/ SendBsm(h)
      PROVE  TypeShared'
  BY <1>4 DEF Expire, LoadCount, LoadInc, LoadWord, SendBsm
<1>5. CASE RecvBsm
  BY <1>5 DEF RecvBsm
<1>6. CASE Client
  BY <1>6 DEF Client, Connect, NewSample, ClientSend, ClientRecv, ClientClose
<1>7. CASE UNCHANGED vars
  BY <1>7 DEF vars
<1> QED BY <1>1, <1>2, <1>3, <1>4, <1>5, <1>6, <1>7 DEF Next, Main, Transmit

\* Only the handlers touch their frames and the air.
LEMMA TypeTxStep == TypeOK /\ [Next]_vars => TypeTx'
<1> SUFFICES ASSUME TypeOK, [Next]_vars PROVE TypeTx'
  OBVIOUS
<1> USE DEF TypeOK, TypeTx, txVars
<1>1. CASE Main
  BY <1>1 DEF Main, Accept, AcceptFails, Recv, RecvEnd, Store, Crash, Reply, Answer
<1>2. CASE Transmit
  <2> SUFFICES ASSUME NEW h \in Handlers,
                      \/ Expire(h) \/ LoadCount(h) \/ LoadInc(h)
                      \/ StoreInc(h) \/ LoadWord(h) \/ SendBsm(h)
               PROVE  TypeTx'
    BY <1>2 DEF Transmit
  <2>1. CASE Expire(h)
    BY <2>1 DEF Expire, IdleTx, TypeHistory
  <2>2. CASE LoadCount(h)
    <3>1. msgcount % MsgCountMod \in Nat
      BY ConstantsAssumption DEF TypeShared
    <3> QED BY <2>2, <3>1 DEF LoadCount
  <2>3. CASE LoadInc(h)
    BY <2>3 DEF LoadInc, TypeShared
  <2>4. CASE StoreInc(h)
    BY <2>4 DEF StoreInc
  <2>5. CASE LoadWord(h)
    <3>1. PICK w \in tx[h].unread :
            tx' = [tx EXCEPT ![h].snap[w] = mem[w], ![h].unread = @ \ {w}]
      BY <2>5 DEF LoadWord
    <3>2. w \in Words /\ mem[w] \in Nat
      BY DEF TypeShared
    <3>3. [tx[h].snap EXCEPT ![w] = mem[w]] \in [Words -> Nat]
      BY <3>2
    <3>4. tx' = [tx EXCEPT ![h] = [tx[h] EXCEPT
                   !.snap = [tx[h].snap EXCEPT ![w] = mem[w]],
                   !.unread = tx[h].unread \ {w}]]
      BY <3>1
    <3>5. air' = air
      BY <2>5 DEF LoadWord
    <3> QED BY <3>3, <3>4, <3>5
  <2>6. CASE SendBsm(h)
    <3>1. BSM(h) \in BSMs
      BY DEF BSM, BSMs
    <3> QED BY <2>6, <3>1 DEF SendBsm, IdleTx
  <2> QED BY <2>1, <2>2, <2>3, <2>4, <2>5, <2>6
<1>3. CASE RecvBsm
  BY <1>3 DEF RecvBsm
<1>4. CASE Client
  BY <1>4 DEF Client, Connect, NewSample, ClientSend, ClientRecv, ClientClose
<1>5. CASE UNCHANGED vars
  BY <1>5 DEF vars
<1> QED BY <1>1, <1>2, <1>3, <1>4, <1>5 DEF Next

\* The connection belongs to main() and the client.
LEMMA TypeTcpStep == TypeOK /\ [Next]_vars => TypeTcp'
<1> SUFFICES ASSUME TypeOK, [Next]_vars PROVE TypeTcp'
  OBVIOUS
<1> USE DEF TypeOK, TypeTcp, tcpVars
<1>1. CASE Accept
  BY <1>1 DEF Accept
<1>2. CASE AcceptFails \/ Store \/ Crash
  BY <1>2 DEF AcceptFails, Store, Crash
<1>3. CASE Recv
  BY <1>3 DEF Recv
<1>4. CASE RecvEnd
  <2>1. outbox' \in Seq(Replies)
    BY <1>4 DEF RecvEnd
  <2>2. waiting' \in BOOLEAN
    BY <1>4 DEF RecvEnd
  <2> QED BY <1>4, <2>1, <2>2 DEF RecvEnd
<1>5. CASE Reply
  <2>1. CurrentReply \in Replies
    <3>1. (count_calibr = 0) \in BOOLEAN
      OBVIOUS
    <3>2. (IF count_calibr = 0 THEN 0 ELSE unixtime_recv) \in Nat
      BY DEF TypeShared
    <3>3. angle_recv \in Angles \cup {0}
      BY DEF TypeShared
    <3> QED BY <3>1, <3>2, <3>3 DEF Replies, CurrentReply
  <2>2. outbox' \in {outbox, outbox \o <<CurrentReply>>}
    BY <1>5 DEF Reply, Answer
  <2>3. outbox' \in Seq(Replies)
    BY <2>1, <2>2
  <2> QED BY <1>5, <2>3 DEF Reply, Answer
<1>6. CASE Transmit
  BY <1>6 DEF Transmit, Expire, LoadCount, LoadInc, StoreInc, LoadWord, SendBsm
<1>7. CASE RecvBsm
  BY <1>7 DEF RecvBsm
<1>8. CASE Client
  <2>1. CASE Connect
    <3>1. calibrated' \in BOOLEAN
      BY <2>1 DEF Connect
    <3>2. connects' \in Nat
      BY <2>1 DEF Connect
    <3> QED BY <2>1, <3>1, <3>2 DEF Connect
  <2>2. CASE NewSample
    BY <2>2 DEF NewSample
  <2>3. CASE ClientSend
    <3>1. [s |-> sample, n |-> NFIELD] \in Requests
      BY DEF Requests, NFIELD
    <3> QED BY <2>3, <3>1 DEF ClientSend
  <2>4. CASE ClientRecv
    <3>1. outbox' \in Seq(Replies)
      BY <2>4 DEF ClientRecv
    <3>2. waiting' \in BOOLEAN /\ calibrated' \in BOOLEAN
      BY <2>4 DEF ClientRecv
    <3> QED BY <2>4, <3>1, <3>2 DEF ClientRecv
  <2>5. CASE ClientClose
    BY <2>5 DEF ClientClose
  <2> QED BY <1>8, <2>1, <2>2, <2>3, <2>4, <2>5 DEF Client
<1>9. CASE UNCHANGED vars
  BY <1>9 DEF vars
<1> QED BY <1>1, <1>2, <1>3, <1>4, <1>5, <1>6, <1>7, <1>8, <1>9 DEF Next, Main

LEMMA TypeHistoryStep == TypeOK /\ [Next]_vars => TypeHistory'
<1> SUFFICES ASSUME TypeOK, [Next]_vars PROVE TypeHistory'
  OBVIOUS
<1> USE DEF TypeOK, TypeHistory, history
<1>1. CASE Accept \/ AcceptFails \/ Recv \/ RecvEnd \/ Store \/ Crash
  BY <1>1 DEF Accept, AcceptFails, Recv, RecvEnd, Store, Crash
<1>2. CASE Reply
  BY <1>2 DEF Reply, Answer, TypeMain, Requests, NoRequest
<1>3. ASSUME NEW h \in Handlers, Expire(h) PROVE TypeHistory'
  BY <1>3 DEF Expire
<1>4. ASSUME NEW h \in Handlers, \/ LoadCount(h) \/ LoadInc(h) \/ StoreInc(h)
                                 \/ LoadWord(h) \/ SendBsm(h)
      PROVE  TypeHistory'
  BY <1>4 DEF LoadCount, LoadInc, StoreInc, LoadWord, SendBsm
<1>5. CASE RecvBsm
  BY <1>5 DEF RecvBsm
<1>6. CASE Client
  BY <1>6 DEF Client, Connect, NewSample, ClientSend, ClientRecv, ClientClose
<1>7. CASE UNCHANGED vars
  BY <1>7 DEF vars
<1> QED BY <1>1, <1>2, <1>3, <1>4, <1>5, <1>6, <1>7 DEF Next, Main, Transmit

LEMMA TypeStep == TypeOK /\ [Next]_vars => TypeOK'
BY TypeMainStep, TypeSharedStep, TypeTxStep, TypeTcpStep, TypeHistoryStep
   DEF TypeOK

\* Every variable of the road-side unit keeps its type, for all constants.
THEOREM TypeCorrect == Spec => []TypeOK
BY TypeInit, TypeStep, PTL DEF Spec

----------------------------------------------------------------------------
(* No BSM carries data older than the last answered request *)

\* Handlers and the receive callback leave main() and the request data alone.
LEMMA OthersKeepData ==
    (\E h \in Handlers : \/ Expire(h) \/ LoadCount(h) \/ LoadInc(h)
                          \/ StoreInc(h) \/ LoadWord(h) \/ SendBsm(h))
      \/ RecvBsm \/ UNCHANGED vars
      => UNCHANGED <<pc, req, todo, mem, inbox, sample, acked>>
BY DEF Expire, LoadCount, LoadInc, StoreInc, LoadWord, SendBsm, RecvBsm, vars,
       mainVars, sharedVars, tcpVars, history

LEMMA ServedStep ==
    TypeOK /\ ServedInOrder /\ StoredSoFar /\ [Next]_vars
      => ServedInOrder' /\ StoredSoFar'
<1> SUFFICES ASSUME TypeOK, ServedInOrder, StoredSoFar, [Next]_vars
             PROVE  ServedInOrder' /\ StoredSoFar'
  OBVIOUS
<1> USE DEF ServedInOrder, StoredSoFar
<1>t. /\ mem \in [Words -> Nat] /\ sample \in Nat /\ todo \subseteq Words
      /\ req.s \in Nat /\ inbox.s \in Nat
  BY DEF TypeOK, TypeMain, TypeShared, TypeTcp, Requests, NoRequest
<1>1. CASE Accept \/ AcceptFails \/ Crash \/ Reply
  BY <1>1, <1>t DEF Accept, AcceptFails, Crash, Reply, Answer, sharedVars, tcpVars
<1>2. CASE Recv
  <2>1. PICK n \in Parts : req' = [inbox EXCEPT !.n = n] /\ todo' = Targets(n)
    BY <1>2 DEF Recv
  <2>2. inbox \in Requests
    BY <1>2 DEF Recv, TypeOK, TypeTcp
  <2>3. req'.s = inbox.s /\ req'.n = n
    BY <2>1, <2>2 DEF Requests
  <2>4. UNCHANGED <<mem, sample>> /\ inbox' = NoRequest /\ inbox # NoRequest
    BY <1>2 DEF Recv, sharedVars
  <2>5. ServedInOrder'
    BY <2>3, <2>4, <1>t
  <2>6. StoredSoFar'
    BY <2>1, <2>3
  <2> QED BY <2>5, <2>6
<1>3. CASE RecvEnd
  BY <1>3, <1>t DEF RecvEnd, sharedVars
<1>4. CASE Store
  <2>1. PICK w \in todo : mem' = [mem EXCEPT ![w] = req.s] /\ todo' = todo \ {w}
    BY <1>4 DEF Store
  <2>2. UNCHANGED <<pc, req, inbox, sample>> /\ pc = "store"
    BY <1>4 DEF Store, tcpVars
  <2>3. \A v \in Words : mem'[v] = IF v = w THEN req.s ELSE mem[v]
    BY <2>1, <1>t
  <2>4. ServedInOrder'
    BY <2>2, <2>3, <1>t
  <2>5. StoredSoFar'
    BY <2>1, <2>2, <2>3, TargetsAreWords
  <2> QED BY <2>4, <2>5
<1>5. CASE Client
  <2>1. UNCHANGED <<pc, req, todo, mem>>
    BY <1>5 DEF Client, Connect, NewSample, ClientSend, ClientRecv, ClientClose,
                mainVars, sharedVars
  <2>2. CASE NewSample
    BY <2>1, <2>2, <1>t DEF NewSample
  <2>3. CASE ClientSend
    BY <2>1, <2>3, <1>t DEF ClientSend
  <2>4. CASE Connect \/ ClientRecv \/ ClientClose
    BY <2>1, <2>4, <1>t DEF Connect, ClientRecv, ClientClose
  <2> QED BY <1>5, <2>2, <2>3, <2>4 DEF Client
<1>6. CASE Transmit \/ RecvBsm \/ UNCHANGED vars
  BY <1>6, <1>t, OthersKeepData DEF Transmit
<1> QED BY <1>1, <1>2, <1>3, <1>4, <1>5, <1>6 DEF Next, Main

\* The words of memory never go back, and the last request acknowledged is in.
LEMMA MemoryGrows ==
    TypeOK /\ ServedInOrder /\ StoredSoFar /\ AboveFloor /\ [Next]_vars
      => /\ \A w \in Words : mem[w] <= mem'[w] /\ acked' <= mem'[w]
         /\ acked <= acked'
<1> SUFFICES ASSUME TypeOK, ServedInOrder, StoredSoFar, AboveFloor, [Next]_vars
             PROVE  /\ \A w \in Words : mem[w] <= mem'[w] /\ acked' <= mem'[w]
                    /\ acked <= acked'
  OBVIOUS
<1>t. /\ mem \in [Words -> Nat] /\ req.s \in Nat /\ acked \in Nat
      /\ todo \subseteq Words
  BY DEF TypeOK, TypeMain, TypeShared, TypeHistory, Requests, NoRequest
<1>a. \A w \in Words : acked <= mem[w] /\ mem[w] <= req.s
  BY DEF AboveFloor, ServedInOrder
<1>1. CASE UNCHANGED <<mem, acked>>
  BY <1>1, <1>a, <1>t
<1>2. CASE Store
  <2>1. PICK w \in todo : mem' = [mem EXCEPT ![w] = req.s]
    BY <1>2 DEF Store
  <2>2. acked' = acked
    BY <1>2 DEF Store, history
  <2>3. \A v \in Words : mem'[v] = IF v = w THEN req.s ELSE mem[v]
    BY <2>1, <1>t
  <2> QED BY <2>2, <2>3, <1>a, <1>t
<1>3. CASE Reply
  <2>1. /\ pc = "store" /\ todo = {} /\ req.n = NFIELD
        /\ acked' = req.s /\ mem' = mem
    BY <1>3 DEF Reply, Answer, sharedVars
  <2>2. \A w \in Words : mem[w] = req.s
    BY <2>1, AllTargets DEF StoredSoFar
  <2>3. acked <= req.s
    BY <1>a, <1>t, WordsExist
  <2> QED BY <2>1, <2>2, <2>3, <1>a, <1>t
<1>4. CASE Main /\ ~Store /\ ~Reply
  BY <1>4, <1>1 DEF Main, Accept, AcceptFails, Recv, RecvEnd, Crash, sharedVars,
                    history
<1>5. CASE Transmit \/ RecvBsm \/ UNCHANGED vars
  BY <1>5, <1>1, OthersKeepData DEF Transmit
<1>6. CASE Client
  BY <1>6, <1>1 DEF Client, Connect, NewSample, ClientSend, ClientRecv,
                    ClientClose, sharedVars, history
<1> QED BY <1>2, <1>3, <1>4, <1>5, <1>6 DEF Next

\* What one step does to a handler's frame, with the updates of records and
\* functions carried out.
LEMMA FrameStep ==
    ASSUME TypeOK, NEW h \in Handlers,
           \/ Expire(h) \/ LoadCount(h) \/ LoadInc(h)
           \/ StoreInc(h) \/ LoadWord(h) \/ SendBsm(h)
    PROVE  /\ \A g \in Handlers \ {h} : tx'[g] = tx[g]
           /\ Expire(h) => tx'[h] = [IdleTx EXCEPT !.pc = "count", !.unread = Words,
                                          !.seq = started, !.floor = acked]
           /\ LoadCount(h) => tx'[h] = [tx[h] EXCEPT !.count = msgcount % MsgCountMod,
                                                   !.pc = "inc"]
           /\ LoadInc(h) => tx'[h] = [tx[h] EXCEPT !.reg = msgcount, !.pc = "put"]
           /\ StoreInc(h) => tx'[h] = [tx[h] EXCEPT !.pc = "fields"]
           /\ LoadWord(h) => \E w \in tx[h].unread :
                 /\ MayAccess(w, tx[h].unread, LoadRank)
                 /\ tx'[h] = [tx[h] EXCEPT !.snap = [tx[h].snap EXCEPT ![w] = mem[w]],
                                         !.unread = tx[h].unread \ {w}]
           /\ SendBsm(h) => tx'[h] = IdleTx
           /\ ~SendBsm(h) => air' = air
<1> DEFINE Frame == [pc : {"idle", "count", "inc", "put", "fields"}, count : Nat,
                     reg : Nat, unread : SUBSET Words, snap : [Words -> Nat],
                     seq : Nat, floor : Nat]
<1>t. tx \in [Handlers -> Frame]
  BY DEF TypeOK, TypeTx
<1>1. CASE Expire(h)
  BY <1>1, <1>t DEF Expire, SendBsm, LoadCount, LoadInc, StoreInc, LoadWord, IdleTx
<1>2. CASE LoadCount(h)
  BY <1>2, <1>t DEF Expire, SendBsm, LoadCount, LoadInc, StoreInc, LoadWord
<1>3. CASE LoadInc(h)
  BY <1>3, <1>t DEF Expire, SendBsm, LoadCount, LoadInc, StoreInc, LoadWord
<1>4. CASE StoreInc(h)
  BY <1>4, <1>t DEF Expire, SendBsm, LoadCount, LoadInc, StoreInc, LoadWord
<1>5. CASE LoadWord(h)
  <2>1. PICK w \in tx[h].unread :
          /\ MayAccess(w, tx[h].unread, LoadRank)
          /\ tx' = [tx EXCEPT ![h].snap[w] = mem[w], ![h].unread = @ \ {w}]
    BY <1>5 DEF LoadWord
  <2>2. tx' = [tx EXCEPT ![h] = [tx[h] EXCEPT
                 !.snap = [tx[h].snap EXCEPT ![w] = mem[w]],
                 !.unread = tx[h].unread \ {w}]]
    BY <2>1
  <2>3. air' = air
    BY <1>5 DEF LoadWord
  <2> QED BY <1>5, <2>1, <2>2, <2>3, <1>t
       DEF Expire, SendBsm, LoadCount, LoadInc, StoreInc, LoadWord
<1>6. CASE SendBsm(h)
  BY <1>6, <1>t DEF Expire, SendBsm, LoadCount, LoadInc, StoreInc, LoadWord
<1> QED BY <1>1, <1>2, <1>3, <1>4, <1>5, <1>6

\* Only a handler changes a frame or the air.
LEMMA OthersKeepFrames ==
    Main \/ RecvBsm \/ Client \/ UNCHANGED vars => UNCHANGED <<tx, air>>
BY DEF Main, Accept, AcceptFails, Recv, RecvEnd, Store, Crash, Reply, Answer, RecvBsm,
       Client, Connect, NewSample, ClientSend, ClientRecv, ClientClose, vars, txVars

\* A step of v2x_bsm_tx_handle() keeps every frame and BSM above its floor.
LEMMA FloorStep ==
    TypeOK /\ ServedInOrder /\ StoredSoFar /\ AboveFloor /\ NotStale /\ [Next]_vars
      => AboveFloor' /\ NotStale'
<1> SUFFICES ASSUME TypeOK, ServedInOrder, StoredSoFar, AboveFloor, NotStale,
                    [Next]_vars
             PROVE  AboveFloor' /\ NotStale'
  OBVIOUS
<1>m. /\ \A w \in Words : mem[w] <= mem'[w] /\ acked' <= mem'[w]
      /\ acked <= acked'
  BY MemoryGrows
<1>t. /\ mem \in [Words -> Nat] /\ mem' \in [Words -> Nat]
      /\ acked \in Nat /\ acked' \in Nat
      /\ \A g \in Handlers : /\ tx[g].floor \in Nat /\ tx[g].snap \in [Words -> Nat]
                              /\ tx[g].unread \subseteq Words
  BY TypeStep DEF TypeOK, TypeShared, TypeTx, TypeHistory
<1>1. CASE UNCHANGED <<tx, air>>
  <2>1. AboveFloor'
    BY <1>1, <1>m, <1>t DEF AboveFloor
  <2> QED BY <1>1, <2>1 DEF NotStale
<1>2. ASSUME NEW h \in Handlers,
             \/ Expire(h) \/ LoadCount(h) \/ LoadInc(h)
             \/ StoreInc(h) \/ LoadWord(h) \/ SendBsm(h)
      PROVE  AboveFloor' /\ NotStale'
  <2> DEFINE Ok(f) ==
        /\ f.floor <= acked'
        /\ f.pc \in {"count", "inc", "put"} => f.unread = Words
        /\ \A w \in Words \ f.unread : f.floor <= f.snap[w]
  <2>1. \A g \in Handlers : Ok(tx[g])
    BY <1>m, <1>t DEF AboveFloor
  <2>2. \A g \in Handlers \ {h} : tx'[g] = tx[g]
    BY <1>2, FrameStep
  <2>0. UNCHANGED <<mem, acked>>
    BY <1>2, OthersKeepData
  <2>3. Ok(tx'[h])
    <3>1. CASE Expire(h)
      <4>1. tx'[h] = [IdleTx EXCEPT !.pc = "count", !.unread = Words,
                                    !.seq = started, !.floor = acked]
        BY <1>2, <3>1, FrameStep
      <4> QED BY <4>1, <1>m, <1>t DEF IdleTx
    <3>2. CASE LoadCount(h) \/ LoadInc(h) \/ StoreInc(h)
      <4>1. /\ tx'[h].floor = tx[h].floor /\ tx'[h].unread = tx[h].unread
            /\ tx'[h].snap = tx[h].snap
            /\ tx[h].pc \in {"count", "inc", "put"}
        <5>1. CASE LoadCount(h)
          <6>1. tx'[h] = [tx[h] EXCEPT !.count = msgcount % MsgCountMod, !.pc = "inc"]
            BY <1>2, <5>1, FrameStep
          <6>2. tx[h].pc = "count"
            BY <5>1 DEF LoadCount
          <6> QED BY <6>1, <6>2 DEF TypeOK, TypeTx
        <5>2. CASE LoadInc(h)
          <6>1. tx'[h] = [tx[h] EXCEPT !.reg = msgcount, !.pc = "put"]
            BY <1>2, <5>2, FrameStep
          <6>2. tx[h].pc = "inc"
            BY <5>2 DEF LoadInc
          <6> QED BY <6>1, <6>2 DEF TypeOK, TypeTx
        <5>3. CASE StoreInc(h)
          <6>1. tx'[h] = [tx[h] EXCEPT !.pc = "fields"]
            BY <1>2, <5>3, FrameStep
          <6>2. tx[h].pc = "put"
            BY <5>3 DEF StoreInc
          <6> QED BY <6>1, <6>2 DEF TypeOK, TypeTx
        <5> QED BY <3>2, <5>1, <5>2, <5>3
      <4> QED BY <4>1, <2>1
    <3>3. CASE LoadWord(h)
      <4>1. PICK w \in tx[h].unread :
              tx'[h] = [tx[h] EXCEPT !.snap = [tx[h].snap EXCEPT ![w] = mem[w]],
                                     !.unread = tx[h].unread \ {w}]
        BY <1>2, <3>3, FrameStep
      <4>2. /\ tx'[h].floor = tx[h].floor /\ tx'[h].pc = tx[h].pc
            /\ tx'[h].unread = tx[h].unread \ {w}
            /\ tx'[h].snap = [tx[h].snap EXCEPT ![w] = mem[w]]
        BY <4>1 DEF TypeOK, TypeTx
      <4>3. tx[h].pc = "fields"
        BY <3>3 DEF LoadWord
      <4>4. tx[h].floor <= mem[w]
        BY <2>1, <1>m, <1>t, <2>0
      <4> QED BY <4>2, <4>3, <4>4, <2>1, <1>t
    <3>4. CASE SendBsm(h)
      <4>1. tx'[h] = IdleTx
        BY <1>2, <3>4, FrameStep
      <4>2. tx[h].unread = {} /\ tx[h].floor <= acked'
        BY <3>4, <2>1 DEF SendBsm
      <4>3. 0 <= acked'
        BY <1>t
      <4> QED BY <4>1, <4>3 DEF IdleTx
    <3> QED BY <1>2, <3>1, <3>2, <3>3, <3>4
  <2>4. AboveFloor'
    BY <2>1, <2>2, <2>3, <1>m DEF AboveFloor
  <2>5. NotStale'
    <3>1. CASE SendBsm(h)
      <4>1. \A w \in Words : tx[h].floor <= tx[h].snap[w]
        BY <3>1, <2>1 DEF SendBsm
      <4>2. \A w \in Words : BSM(h).floor <= BSM(h).word[w]
        BY <4>1 DEF BSM
      <4> QED BY <3>1, <4>2 DEF SendBsm, NotStale
    <3>2. CASE ~SendBsm(h)
      BY <1>2, <3>2, FrameStep DEF NotStale
    <3> QED BY <3>1, <3>2
  <2> QED BY <2>4, <2>5
<1> QED BY <1>1, <1>2, OthersKeepFrames DEF Next, Transmit

\* For all constants and all memory orders: no BSM is older than the last
\* request acknowledged before its handler started.
THEOREM BroadcastNotStale == Spec => []NotStale
<1>1. Init => DataInv
  BY DEF Init, DataInv, ServedInOrder, StoredSoFar, AboveFloor, NotStale, IdleTx,
         NoRequest
<1>2. TypeOK /\ DataInv /\ [Next]_vars => DataInv'
  BY ServedStep, FloorStep DEF DataInv
<1>3. DataInv => NotStale
  BY DEF DataInv
<1> QED BY <1>1, <1>2, <1>3, TypeCorrect, PTL DEF Spec

----------------------------------------------------------------------------
(* No BSM claims to be newer than its data *)

\* When main() comes to store a word of the time stamp, the position it
\* belongs to is in memory.
LEMMA StampLast ==
    ASSUME TypeOK, StoredSoFar, InOrder, pc = "store",
           NEW t \in Stamp, t \in todo, MayAccess(t, todo, StoreRank)
    PROVE  \A p \in Position : mem[p] = req.s
<1> SUFFICES ASSUME NEW p \in Position PROVE mem[p] = req.s
  OBVIOUS
<1>1. p \notin todo
  <2>1. SUFFICES ASSUME p \in todo PROVE FALSE
    OBVIOUS
  <2>2. StoreRank[t[1]] <= StoreRank[p[1]]
    BY <2>1 DEF MayAccess
  <2> QED BY <2>2, Ranks
<1>2. p \in Targets(req.n)
  <2>1. req.n = NFIELD
    BY WordsSplit DEF StoredSoFar, Targets
  <2> QED BY <2>1, AllTargets, WordsSplit
<1> QED BY <1>1, <1>2 DEF StoredSoFar

\* main()'s stores keep the stamp in memory behind the position in memory.
LEMMA MemoryStampStep ==
    TypeOK /\ ServedInOrder /\ StoredSoFar /\ StampBehind /\ InOrder /\ [Next]_vars
      => \A p \in Position, t \in Stamp : mem'[t] <= mem'[p]
<1> SUFFICES ASSUME TypeOK, ServedInOrder, StoredSoFar, StampBehind, InOrder,
                    [Next]_vars, NEW p \in Position, NEW t \in Stamp
             PROVE  mem'[t] <= mem'[p]
  OBVIOUS
<1>t. /\ mem \in [Words -> Nat] /\ req.s \in Nat /\ todo \subseteq Words
      /\ p \in Words /\ t \in Words /\ p # t
  BY WordsSplit DEF TypeOK, TypeMain, TypeShared, Requests, NoRequest
<1>i. mem[t] <= mem[p] /\ mem[p] <= req.s /\ mem[t] <= req.s
  BY <1>t DEF StampBehind, ServedInOrder
<1>1. CASE UNCHANGED mem
  BY <1>1, <1>i
<1>2. CASE Store
  <2>1. PICK w \in todo : MayAccess(w, todo, StoreRank) /\ mem' = [mem EXCEPT ![w] = req.s]
    BY <1>2 DEF Store
  <2>2. pc = "store"
    BY <1>2 DEF Store
  <2>3. CASE w = t
    BY <2>1, <2>2, <2>3, <1>t, StampLast
  <2>4. CASE w # t
    BY <2>1, <2>4, <1>t, <1>i
  <2> QED BY <2>3, <2>4
<1>3. CASE Main /\ ~Store
  BY <1>3, <1>1 DEF Main, Accept, AcceptFails, Recv, RecvEnd, Crash, Reply, Answer, sharedVars
<1>4. CASE Transmit \/ RecvBsm \/ UNCHANGED vars
  BY <1>4, <1>1, OthersKeepData DEF Transmit
<1>5. CASE Client
  BY <1>5, <1>1 DEF Client, Connect, NewSample, ClientSend, ClientRecv,
                    ClientClose, sharedVars
<1> QED BY <1>2, <1>3, <1>4, <1>5 DEF Next

\* A handler's copies keep the stamp it holds behind the position it holds, or
\* will find in memory.
LEMMA StampStep ==
    /\ TypeOK /\ DataInv /\ StampBehind /\ StampNotNewer /\ [Next]_vars
    => StampBehind' /\ StampNotNewer'
<1> SUFFICES ASSUME TypeOK, DataInv, StampBehind, StampNotNewer, [Next]_vars, InOrder
             PROVE  StampBehind' /\ StampNotNewer'
  BY DEF StampBehind, StampNotNewer
<1> DEFINE Ok(f, p, t, m) ==
      /\ t \in f.unread => p \in f.unread
      /\ t \notin f.unread =>
           f.snap[t] <= IF p \in f.unread THEN m[p] ELSE f.snap[p]
<1>t. /\ mem \in [Words -> Nat] /\ mem' \in [Words -> Nat]
      /\ \A g \in Handlers : tx[g].snap \in [Words -> Nat] /\ tx[g].unread \subseteq Words
  BY TypeStep DEF TypeOK, TypeShared, TypeTx
<1>s. \A p \in Position, t \in Stamp : mem'[t] <= mem'[p]
  BY MemoryStampStep DEF DataInv
<1>m. \A w \in Words : mem[w] <= mem'[w]
  BY MemoryGrows DEF DataInv
<1>f. \A p \in Position, t \in Stamp, g \in Handlers : Ok(tx[g], p, t, mem')
  BY <1>m, <1>t, WordsSplit DEF StampBehind
<1>1. CASE UNCHANGED <<tx, air>>
  BY <1>1, <1>s, <1>f DEF StampBehind, StampNotNewer
<1>2. ASSUME NEW h \in Handlers,
             \/ Expire(h) \/ LoadCount(h) \/ LoadInc(h)
             \/ StoreInc(h) \/ LoadWord(h) \/ SendBsm(h)
      PROVE  StampBehind' /\ StampNotNewer'
  <2>0. mem' = mem
    BY <1>2, OthersKeepData
  <2>1. \A g \in Handlers \ {h} : tx'[g] = tx[g]
    BY <1>2, FrameStep
  <2>2. ASSUME NEW p \in Position, NEW t \in Stamp PROVE Ok(tx'[h], p, t, mem')
    <3>1. CASE Expire(h)
      <4>1. tx'[h].unread = Words
        BY <1>2, <3>1, FrameStep DEF IdleTx
      <4> QED BY <4>1, WordsSplit
    <3>2. CASE LoadCount(h)
      <4>1. tx'[h] = [tx[h] EXCEPT !.count = msgcount % MsgCountMod, !.pc = "inc"]
        BY <1>2, <3>2, FrameStep
      <4>2. tx'[h].unread = tx[h].unread /\ tx'[h].snap = tx[h].snap
        BY <4>1 DEF TypeOK, TypeTx
      <4> QED BY <4>2, <1>f
    <3>3. CASE LoadInc(h)
      <4>1. tx'[h] = [tx[h] EXCEPT !.reg = msgcount, !.pc = "put"]
        BY <1>2, <3>3, FrameStep
      <4>2. tx'[h].unread = tx[h].unread /\ tx'[h].snap = tx[h].snap
        BY <4>1 DEF TypeOK, TypeTx
      <4> QED BY <4>2, <1>f
    <3>4. CASE StoreInc(h)
      <4>1. tx'[h] = [tx[h] EXCEPT !.pc = "fields"]
        BY <1>2, <3>4, FrameStep
      <4>2. tx'[h].unread = tx[h].unread /\ tx'[h].snap = tx[h].snap
        BY <4>1 DEF TypeOK, TypeTx
      <4> QED BY <4>2, <1>f
    <3>5. CASE LoadWord(h)
      <4>1. PICK w \in tx[h].unread :
              /\ MayAccess(w, tx[h].unread, LoadRank)
              /\ tx'[h] = [tx[h] EXCEPT !.snap = [tx[h].snap EXCEPT ![w] = mem[w]],
                                      !.unread = tx[h].unread \ {w}]
        BY <1>2, <3>5, FrameStep
      <4>2. /\ tx'[h].unread = tx[h].unread \ {w}
            /\ tx'[h].snap = [tx[h].snap EXCEPT ![w] = mem[w]]
        BY <4>1 DEF TypeOK, TypeTx
      <4>3. \A v \in Words : tx'[h].snap[v] = IF v = w THEN mem[w] ELSE tx[h].snap[v]
        BY <4>2, <1>t
      <4>4. CASE w = p
        <5>1. t \notin tx[h].unread
          <6>1. SUFFICES ASSUME t \in tx[h].unread PROVE FALSE
            OBVIOUS
          <6>2. LoadRank[p[1]] <= LoadRank[t[1]]
            BY <4>1, <4>4, <6>1 DEF MayAccess
          <6> QED BY <6>2, Ranks
        <5>2. tx[h].snap[t] <= mem[p]
          BY <5>1, <4>1, <4>4, <1>f, <2>0
        <5> QED BY <5>1, <5>2, <4>2, <4>3, <4>4, WordsSplit
      <4>5. CASE w = t
        <5>1. p \in tx[h].unread /\ p # w
          BY <4>1, <4>5, <1>f, WordsSplit
        <5> QED BY <5>1, <4>2, <4>3, <4>5, <1>s, <2>0, WordsSplit
      <4>6. CASE w # p /\ w # t
        BY <4>2, <4>3, <4>6, <1>f, <2>0, WordsSplit
      <4> QED BY <4>4, <4>5, <4>6
    <3>6. CASE SendBsm(h)
      <4>1. tx'[h] = IdleTx
        BY <1>2, <3>6, FrameStep
      <4> QED BY <4>1, WordsSplit DEF IdleTx
    <3> QED BY <1>2, <3>1, <3>2, <3>3, <3>4, <3>5, <3>6
  <2>3. StampBehind'
    <3>1. ASSUME NEW p \in Position, NEW t \in Stamp, NEW g \in Handlers
          PROVE  Ok(tx'[g], p, t, mem')
      BY <2>1, <2>2, <1>f
    <3> QED BY <3>1, <1>s DEF StampBehind
  <2>4. StampNotNewer'
    <3>1. CASE SendBsm(h)
      <4>1. \A p \in Position, t \in Stamp : BSM(h).word[t] <= BSM(h).word[p]
        BY <3>1, <1>f DEF SendBsm, BSM
      <4> QED BY <3>1, <4>1 DEF SendBsm, StampNotNewer
    <3>2. CASE ~SendBsm(h)
      BY <1>2, <3>2, FrameStep DEF StampNotNewer
    <3> QED BY <3>1, <3>2
  <2> QED BY <2>3, <2>4
<1> QED BY <1>1, <1>2, OthersKeepFrames DEF Next, Transmit

\* With accesses in program order, for all constants: the time stamp of a BSM
\* is never newer than any part of the position it is broadcast with.
THEOREM BroadcastStampNotNewer == Spec => []StampNotNewer
<1>1. Init => OrderInv
  BY WordsSplit DEF Init, OrderInv, DataInv, ServedInOrder, StoredSoFar, AboveFloor,
         NotStale, StampBehind, StampNotNewer, IdleTx, NoRequest
<1>2. TypeOK /\ OrderInv /\ [Next]_vars => OrderInv'
  BY ServedStep, FloorStep, StampStep DEF OrderInv, DataInv
<1>3. OrderInv => StampNotNewer
  BY DEF OrderInv
<1> QED BY <1>1, <1>2, <1>3, TypeCorrect, PTL DEF Spec

----------------------------------------------------------------------------
(* Numbering *)

\* While handlers do not overlap, msgcount counts the handlers that have
\* stored it, and the one handler at work holds its own number.
LEMMA NumberingStep ==
    TypeOK /\ Numbering /\ NumberedInOrder /\ [Next]_vars
      => Numbering' /\ NumberedInOrder'
<1> SUFFICES ASSUME TypeOK, Numbering, NumberedInOrder, [Next]_vars, ~overlapped'
             PROVE  Numbering' /\ NumberedInOrder'
  BY DEF Numbering, NumberedInOrder
<1>t. /\ msgcount \in Nat /\ started \in Nat
      /\ \A g \in Handlers : tx[g].seq \in Nat /\ tx[g].reg \in Nat
                             /\ tx[g].pc \in {"idle", "count", "inc", "put", "fields"}
  BY DEF TypeOK, TypeShared, TypeTx, TypeHistory
<1>1. CASE UNCHANGED <<tx, air, msgcount, started, overlapped>>
  BY <1>1 DEF Numbering, NumberedInOrder, Busy
<1>2. ASSUME NEW h \in Handlers,
             \/ Expire(h) \/ LoadCount(h) \/ LoadInc(h)
             \/ StoreInc(h) \/ LoadWord(h) \/ SendBsm(h)
      PROVE  Numbering' /\ NumberedInOrder'
  <2>1. \A g \in Handlers \ {h} : tx'[g] = tx[g]
    BY <1>2, FrameStep
  <2>2. ~overlapped
    BY <1>2 DEF Expire, LoadCount, LoadInc, StoreInc, LoadWord, SendBsm, history
  <2>3. /\ \A g, k \in Busy : g = k
        /\ Busy = {} => msgcount = started
        /\ h \in Busy =>
             /\ started = tx[h].seq + 1
             /\ msgcount = IF tx[h].pc = "fields" THEN started ELSE tx[h].seq
             /\ tx[h].pc # "count" => tx[h].count = tx[h].seq % MsgCountMod
             /\ tx[h].pc = "put" => tx[h].reg = msgcount
    BY <2>2 DEF Numbering
  <2>4. ASSUME tx'[h].pc # "idle", Busy \subseteq {h},
               /\ started' = tx'[h].seq + 1
               /\ msgcount' = IF tx'[h].pc = "fields" THEN started' ELSE tx'[h].seq
               /\ tx'[h].pc # "count" => tx'[h].count = tx'[h].seq % MsgCountMod
               /\ tx'[h].pc = "put" => tx'[h].reg = msgcount'
        PROVE  Numbering'
    <3>1. Busy' = {h}
      BY <2>1, <2>4 DEF Busy
    <3> QED BY <3>1, <2>4 DEF Numbering
  <2>5. CASE Expire(h)
    <3>1. tx'[h] = [IdleTx EXCEPT !.pc = "count", !.unread = Words,
                                  !.seq = started, !.floor = acked]
      BY <1>2, <2>5, FrameStep
    <3>2. tx'[h].pc = "count" /\ tx'[h].seq = started
      BY <3>1 DEF IdleTx
    <3>3. /\ Busy = {} /\ started' = started + 1 /\ msgcount' = msgcount
          /\ air' = air
      BY <2>5 DEF Expire, sharedVars
    <3>4. Numbering'
      BY <3>2, <3>3, <2>3, <2>4, <1>t
    <3> QED BY <3>4, <3>3, <2>2 DEF NumberedInOrder
  <2>6. CASE ~Expire(h)
    <3>1. h \in Busy
      BY <1>2, <2>6 DEF Busy, LoadCount, LoadInc, StoreInc, LoadWord, SendBsm
    <3>2. Busy \subseteq {h} /\ started' = started
      <4>1. started' = started
        BY <1>2, <2>6 DEF LoadCount, LoadInc, StoreInc, LoadWord, SendBsm, history
      <4> QED BY <4>1, <2>3, <3>1
    <3>3. CASE LoadCount(h)
      <4>1. tx'[h] = [tx[h] EXCEPT !.count = msgcount % MsgCountMod, !.pc = "inc"]
        BY <1>2, <3>3, FrameStep
      <4>2. /\ tx'[h].pc = "inc" /\ tx'[h].seq = tx[h].seq
            /\ tx'[h].count = msgcount % MsgCountMod
        BY <4>1 DEF TypeOK, TypeTx
      <4>3. tx[h].pc = "count" /\ msgcount' = msgcount /\ air' = air
        BY <3>3 DEF LoadCount, sharedVars
      <4>4. Numbering'
        BY <4>2, <4>3, <3>1, <3>2, <2>3, <2>4
      <4> QED BY <4>3, <4>4, <2>2 DEF NumberedInOrder
    <3>4. CASE LoadInc(h)
      <4>1. tx'[h] = [tx[h] EXCEPT !.reg = msgcount, !.pc = "put"]
        BY <1>2, <3>4, FrameStep
      <4>2. /\ tx'[h].pc = "put" /\ tx'[h].seq = tx[h].seq
            /\ tx'[h].count = tx[h].count /\ tx'[h].reg = msgcount
        BY <4>1 DEF TypeOK, TypeTx
      <4>3. tx[h].pc = "inc" /\ msgcount' = msgcount /\ air' = air
        BY <3>4 DEF LoadInc, sharedVars
      <4>4. Numbering'
        BY <4>2, <4>3, <3>1, <3>2, <2>3, <2>4
      <4> QED BY <4>3, <4>4, <2>2 DEF NumberedInOrder
    <3>5. CASE StoreInc(h)
      <4>1. tx'[h] = [tx[h] EXCEPT !.pc = "fields"]
        BY <1>2, <3>5, FrameStep
      <4>2. /\ tx'[h].pc = "fields" /\ tx'[h].seq = tx[h].seq
            /\ tx'[h].count = tx[h].count
        BY <4>1 DEF TypeOK, TypeTx
      <4>3. tx[h].pc = "put" /\ msgcount' = tx[h].reg + 1 /\ air' = air
        BY <3>5 DEF StoreInc
      <4>4. Numbering'
        BY <4>2, <4>3, <3>1, <3>2, <2>3, <2>4
      <4> QED BY <4>3, <4>4, <2>2 DEF NumberedInOrder
    <3>6. CASE LoadWord(h)
      <4>1. PICK w \in tx[h].unread :
              tx'[h] = [tx[h] EXCEPT !.snap = [tx[h].snap EXCEPT ![w] = mem[w]],
                                     !.unread = tx[h].unread \ {w}]
        BY <1>2, <3>6, FrameStep
      <4>2. /\ tx'[h].pc = tx[h].pc /\ tx'[h].seq = tx[h].seq
            /\ tx'[h].count = tx[h].count
        BY <4>1 DEF TypeOK, TypeTx
      <4>3. tx[h].pc = "fields" /\ msgcount' = msgcount /\ air' = air
        BY <3>6 DEF LoadWord, sharedVars
      <4>4. Numbering'
        BY <4>2, <4>3, <3>1, <3>2, <2>3, <2>4
      <4> QED BY <4>3, <4>4, <2>2 DEF NumberedInOrder
    <3>7. CASE SendBsm(h)
      <4>1. tx'[h].pc = "idle"
        <5>1. tx'[h] = IdleTx
          BY <1>2, <3>7, FrameStep
        <5> QED BY <5>1 DEF IdleTx
      <4>2. tx[h].pc = "fields" /\ msgcount' = msgcount
        BY <3>7 DEF SendBsm, sharedVars
      <4>3. Busy' = {}
        BY <4>1, <3>2, <2>1 DEF Busy
      <4>4. msgcount' = started'
        BY <4>2, <3>1, <3>2, <2>3
      <4>5. Numbering'
        BY <4>3, <4>4 DEF Numbering
      <4>6. BSM(h).count = BSM(h).seq % MsgCountMod
        BY <4>2, <3>1, <2>3 DEF BSM
      <4> QED BY <4>5, <4>6, <3>7, <2>2 DEF SendBsm, NumberedInOrder
    <3> QED BY <1>2, <2>6, <3>3, <3>4, <3>5, <3>6, <3>7
  <2> QED BY <2>5, <2>6
<1>3. Main \/ RecvBsm \/ Client \/ UNCHANGED vars
        => UNCHANGED <<tx, air, msgcount, started, overlapped>>
  <2>1. Main => UNCHANGED <<tx, air, msgcount, started, overlapped>>
    BY DEF Main, Accept, AcceptFails, Recv, RecvEnd, Store, Crash, Reply, Answer,
           sharedVars, txVars, history
  <2>2. Client => UNCHANGED <<tx, air, msgcount, started, overlapped>>
    BY DEF Client, Connect, NewSample, ClientSend, ClientRecv, ClientClose,
           sharedVars, txVars, history
  <2>3. RecvBsm \/ UNCHANGED vars => UNCHANGED <<tx, air, msgcount, started, overlapped>>
    BY DEF RecvBsm, vars, sharedVars, txVars, history
  <2> QED BY <2>1, <2>2, <2>3
<1> QED BY <1>1, <1>2, <1>3 DEF Next, Transmit

\* For all constants: as long as no handler has started while another was at
\* work, the BSMs are numbered 0, 1, 2, ... modulo MAX_BSM_MSG_COUNT.
THEOREM NumberedUnlessOverlap == Spec => []NumberedInOrder
<1>1. Init => NumberInv
  BY DEF Init, NumberInv, Numbering, NumberedInOrder, Busy, IdleTx
<1>2. TypeOK /\ NumberInv /\ [Next]_vars => NumberInv'
  BY NumberingStep DEF NumberInv
<1>3. NumberInv => NumberedInOrder
  BY DEF NumberInv
<1> QED BY <1>1, <1>2, <1>3, TypeCorrect, PTL DEF Spec

----------------------------------------------------------------------------
(* What is broadcast implements SharedRecord *)

\* Only recv() changes the request, and to a later sample's or the same one's.
LEMMA RequestsGrow ==
    ASSUME TypeOK, ServedInOrder, [Next]_vars
    PROVE  /\ req'.s \in Nat /\ req.s <= req'.s
           /\ ~Recv => req' = req
<1>0. req.s \in Nat /\ inbox.s \in Nat
  BY DEF TypeOK, TypeMain, TypeTcp, Requests, NoRequest
<1>1. CASE Recv
  <2>1. PICK n \in Parts : req' = [inbox EXCEPT !.n = n]
    BY <1>1 DEF Recv
  <2>2. inbox \in Requests /\ inbox # NoRequest
    BY <1>1 DEF Recv, TypeOK, TypeTcp
  <2>3. req'.s = inbox.s
    BY <2>1, <2>2 DEF Requests
  <2> QED BY <1>0, <1>1, <2>2, <2>3 DEF ServedInOrder
<1>2. CASE ~Recv
  <2>1. CASE Main
    BY <1>0, <1>2, <2>1 DEF Main, Accept, AcceptFails, RecvEnd, Store, Crash, Reply,
                            Answer
  <2>2. CASE Transmit \/ RecvBsm \/ UNCHANGED vars
    BY <1>0, <2>2, OthersKeepData DEF Transmit
  <2>3. CASE Client
    BY <1>0, <2>3 DEF Client, Connect, NewSample, ClientSend, ClientRecv,
                      ClientClose, mainVars
  <2> QED BY <2>1, <2>2, <2>3 DEF Next
<1> QED BY <1>1, <1>2

LEMMA BelowStep == TypeOK /\ ServedInOrder /\ CopiesBelow /\ [Next]_vars => CopiesBelow'
<1> SUFFICES ASSUME TypeOK, ServedInOrder, CopiesBelow, [Next]_vars PROVE CopiesBelow'
  OBVIOUS
<1>0. req'.s \in Nat /\ req.s \in Nat /\ req.s <= req'.s
  BY RequestsGrow DEF TypeOK, TypeMain, Requests, NoRequest
<1>t. /\ mem \in [Words -> Nat]
      /\ \A g \in Handlers : tx[g].snap \in [Words -> Nat] /\ tx[g].unread \subseteq Words
  BY DEF TypeOK, TypeShared, TypeTx
<1>1. CASE UNCHANGED <<tx, air>>
  BY <1>0, <1>t, <1>1 DEF CopiesBelow
<1>2. ASSUME NEW h \in Handlers,
             \/ Expire(h) \/ LoadCount(h) \/ LoadInc(h)
             \/ StoreInc(h) \/ LoadWord(h) \/ SendBsm(h)
      PROVE  CopiesBelow'
  <2>1. \A g \in Handlers \ {h} : tx'[g] = tx[g]
    BY <1>2, FrameStep
  <2>2. \A w \in Words : tx'[h].snap[w] <= req'.s
    <3>1. CASE Expire(h) \/ SendBsm(h)
      <4>1. CASE Expire(h)
        <5>1. tx'[h] = [IdleTx EXCEPT !.pc = "count", !.unread = Words,
                                      !.seq = started, !.floor = acked]
          BY <1>2, <4>1, FrameStep
        <5> QED BY <1>0, <5>1 DEF IdleTx
      <4>2. CASE SendBsm(h)
        <5>1. tx'[h] = IdleTx
          BY <1>2, <4>2, FrameStep
        <5> QED BY <1>0, <5>1 DEF IdleTx
      <4> QED BY <3>1, <4>1, <4>2
    <3>2. CASE LoadWord(h)
      <4>1. PICK w \in tx[h].unread :
              tx'[h] = [tx[h] EXCEPT !.snap = [tx[h].snap EXCEPT ![w] = mem[w]],
                                     !.unread = tx[h].unread \ {w}]
        BY <1>2, <3>2, FrameStep
      <4>2. tx'[h].snap = [tx[h].snap EXCEPT ![w] = mem[w]]
        BY <4>1 DEF TypeOK, TypeTx
      <4>3. mem[w] <= req.s
        BY <1>t DEF ServedInOrder
      <4>4. \A v \in Words : tx'[h].snap[v] <= req.s
        BY <1>t, <4>2, <4>3 DEF CopiesBelow
      <4>5. \A v \in Words : tx'[h].snap[v] \in Nat
        BY <1>t, <4>2
      <4> QED BY <1>0, <4>4, <4>5
    <3>3. CASE LoadCount(h) \/ LoadInc(h) \/ StoreInc(h)
      <4>1. tx'[h].snap = tx[h].snap
        BY <1>t, <3>3 DEF LoadCount, LoadInc, StoreInc, TypeOK, TypeTx
      <4> QED BY <1>0, <1>t, <4>1 DEF CopiesBelow
    <3> QED BY <1>2, <3>1, <3>2, <3>3
  <2> QED BY <1>0, <1>t, <2>1, <2>2 DEF CopiesBelow
<1> QED BY <1>1, <1>2, OthersKeepFrames DEF Next, Transmit

\* One step of the unit is one of the record's, or none.
LEMMA RecordStep ==
    TypeOK /\ RecordInv /\ [Next]_vars => [Record!Next]_(Record!vars)
<1> SUFFICES ASSUME TypeOK, RecordInv, [Next]_vars PROVE [Record!Next]_(Record!vars)
  OBVIOUS
<1> USE DEF RecordInv, OrderInv, DataInv
<1> DEFINE Copies == {[word |-> b.word, floor |-> b.floor] : b \in air}
           Frames == [g \in Handlers |-> IF tx[g].pc = "idle" THEN -1 ELSE tx[g].floor]
<1>t. \A g \in Handlers : tx[g].floor \in Nat /\ tx[g].snap \in [Words -> Nat]
  BY DEF TypeOK, TypeTx
<1>1. CASE UNCHANGED <<req, acked, tx, air>>
  BY <1>1 DEF Record!vars
<1>2. CASE Recv
  <2>1. UNCHANGED <<acked, tx, air>>
    BY <1>2 DEF Recv, txVars, history
  <2> QED BY <1>2, <2>1, RequestsGrow DEF Record!Next, Record!Begin
<1>3. CASE Reply
  <2>1. acked' = req.s /\ UNCHANGED <<req, tx, air>>
    BY <1>3 DEF Reply, Answer, txVars
  <2> QED BY <2>1 DEF Record!Next, Record!End
<1>4. ASSUME NEW h \in Handlers,
             \/ Expire(h) \/ LoadCount(h) \/ LoadInc(h)
             \/ StoreInc(h) \/ LoadWord(h) \/ SendBsm(h)
      PROVE  [Record!Next]_(Record!vars)
  <2>0. UNCHANGED <<req, acked>>
    BY <1>4, OthersKeepData
  <2>1. \A g \in Handlers \ {h} : tx'[g] = tx[g]
    BY <1>4, FrameStep
  <2>2. CASE Expire(h)
    <3>1. tx[h].pc = "idle" /\ air' = air
      BY <2>2 DEF Expire
    <3>2. tx'[h].pc = "count" /\ tx'[h].floor = acked
      BY <1>4, <2>2, FrameStep DEF IdleTx
    <3>3. Frames[h] = -1 /\ Frames' = [Frames EXCEPT ![h] = acked]
      BY <2>1, <3>1, <3>2
    <3> QED BY <2>0, <3>1, <3>3 DEF Record!Next, Record!StartRead, Record!Idle
  <2>3. CASE LoadCount(h) \/ LoadInc(h) \/ StoreInc(h) \/ LoadWord(h)
    <3>1. /\ tx[h].pc # "idle" /\ tx'[h].pc # "idle"
          /\ tx'[h].floor = tx[h].floor /\ air' = air
      <4>1. CASE LoadCount(h) \/ LoadInc(h) \/ StoreInc(h)
        BY <4>1 DEF LoadCount, LoadInc, StoreInc, TypeOK, TypeTx
      <4>2. CASE LoadWord(h)
        <5>1. PICK w \in tx[h].unread :
                tx'[h] = [tx[h] EXCEPT !.snap = [tx[h].snap EXCEPT ![w] = mem[w]],
                                       !.unread = tx[h].unread \ {w}]
          BY <1>4, <4>2, FrameStep
        <5>2. tx'[h].floor = tx[h].floor /\ tx'[h].pc = tx[h].pc
          BY <5>1 DEF TypeOK, TypeTx
        <5> QED BY <4>2, <5>2 DEF LoadWord
      <4> QED BY <2>3, <4>1, <4>2
    <3>2. Frames' = Frames
      BY <2>1, <3>1
    <3> QED BY <2>0, <3>1, <3>2 DEF Record!vars
  <2>4. CASE SendBsm(h)
    <3>1. /\ tx[h].pc = "fields" /\ tx[h].unread = {}
          /\ air' = air \/ air' = air \cup {BSM(h)}
      BY <2>4 DEF SendBsm
    <3>2. tx'[h].pc = "idle"
      <4>1. tx'[h] = IdleTx
        BY <1>4, <2>4, FrameStep
      <4> QED BY <4>1 DEF IdleTx
    <3>3. Frames[h] = tx[h].floor /\ Frames' = [Frames EXCEPT ![h] = -1]
      BY <2>1, <3>1, <3>2
    <3> DEFINE m == [word |-> tx[h].snap, floor |-> tx[h].floor]
    <3>4. m.floor = tx[h].floor /\ m.word = tx[h].snap /\ DOMAIN m.word = Words
      BY <1>t
    <3>5. Copies' = Copies \/ Copies' = Copies \cup {m}
      BY <3>1 DEF BSM
    <3>6. Record!Regular(m, Frames[h], req.s)
      <4>1. \A w \in Words : tx[h].floor <= tx[h].snap[w] /\ tx[h].snap[w] <= req.s
        BY <3>1 DEF AboveFloor, CopiesBelow
      <4>2. \A t \in Stamp, p \in Position : InOrder => tx[h].snap[t] <= tx[h].snap[p]
        BY <3>1 DEF StampBehind
      <4>3. \A p \in (IF InOrder THEN Stamp \X Position ELSE {}) :
               m.word[p[1]] <= m.word[p[2]]
        BY <3>4, <4>2
      <4> HIDE DEF m, Frames
      <4> QED BY <3>3, <3>4, <4>1, <4>3 DEF Record!Regular
    <3>7. Frames[h] # -1
      BY <1>t, <3>3
    <3>8. Copies \subseteq Copies' /\ Copies' \ Copies \subseteq {m}
      BY <3>5
    <3>9. Record!Show(h)
      <4> HIDE DEF m
      <4> QED BY <2>0, <3>3, <3>6, <3>7, <3>8 DEF Record!Show, Record!Idle
    <3> QED BY <3>9 DEF Record!Next
  <2> QED BY <1>4, <2>2, <2>3, <2>4
<1>5. CASE Main /\ ~Recv /\ ~Reply
  BY <1>1, <1>5 DEF Main, Accept, AcceptFails, RecvEnd, Store, Crash, txVars, history
<1>6. CASE RecvBsm \/ UNCHANGED vars
  BY <1>1, <1>6, OthersKeepData, OthersKeepFrames
<1>7. CASE Client
  BY <1>1, <1>7, OthersKeepFrames DEF Client, Connect, NewSample, ClientSend,
                                      ClientRecv, ClientClose, mainVars, history
<1> QED BY <1>2, <1>3, <1>4, <1>5, <1>6, <1>7 DEF Next, Transmit

\* For all constants, what the unit broadcasts is what SharedRecord allows.
THEOREM BroadcastImplementsRecord == Spec => BroadcastsRecord
<1>1. Init => RecordInv
  <2>1. Init => OrderInv
    BY WordsSplit DEF Init, OrderInv, DataInv, ServedInOrder, StoredSoFar, AboveFloor,
           NotStale, StampBehind, StampNotNewer, IdleTx, NoRequest
  <2>2. Init => CopiesBelow
    BY DEF Init, CopiesBelow, IdleTx, NoRequest
  <2> QED BY <2>1, <2>2 DEF RecordInv
<1>2. TypeOK /\ RecordInv /\ [Next]_vars => RecordInv'
  BY ServedStep, FloorStep, StampStep, BelowStep DEF RecordInv, OrderInv, DataInv
<1>3. Init => Record!Init
  BY DEF Init, Record!Init, Record!Idle, IdleTx, NoRequest
<1> QED BY <1>1, <1>2, <1>3, RecordStep, TypeCorrect, PTL
        DEF Spec, BroadcastsRecord, Record!Spec

----------------------------------------------------------------------------
(* One answer for each request, the first of a connection with the clock *)

LEMMA OthersKeepExchange ==
    Store \/ Transmit \/ RecvBsm \/ NewSample \/ UNCHANGED vars
      => UNCHANGED <<pc, count_calibr, conn, inbox, outbox, waiting, calibrated>>
BY DEF Store, Transmit, Expire, LoadCount, LoadInc, StoreInc, LoadWord, SendBsm, RecvBsm,
       NewSample, vars, mainVars, tcpVars

LEMMA ConnectedStep == TypeOK /\ Connected /\ [Next]_vars => Connected'
<1> SUFFICES ASSUME TypeOK, Connected, [Next]_vars PROVE Connected'
  OBVIOUS
<1> USE DEF Connected
<1>1. CASE Accept \/ AcceptFails \/ Recv \/ RecvEnd \/ Crash
  BY <1>1 DEF Accept, AcceptFails, Recv, RecvEnd, Crash, txVars, tcpVars, sharedVars
<1>2. CASE Reply
  BY <1>2 DEF Reply, Answer
<1>3. CASE Connect \/ ClientSend \/ ClientClose
  BY <1>3 DEF Connect, ClientSend, ClientClose, mainVars, Alive
<1>4. CASE ClientRecv
  BY <1>4 DEF ClientRecv, mainVars
<1>5. CASE Store \/ Transmit \/ RecvBsm \/ NewSample \/ UNCHANGED vars
  BY <1>5, OthersKeepExchange
<1> QED BY <1>1, <1>2, <1>3, <1>4, <1>5 DEF Next, Main, Client

\* What is in the wire, in work and answered adds up to what is waited for.
LEMMA OneAnswerStep ==
    TypeOK /\ Connected /\ OneAnswerPerRequest /\ [Next]_vars => OneAnswerPerRequest'
<1> SUFFICES ASSUME TypeOK, Connected, OneAnswerPerRequest, [Next]_vars
             PROVE  OneAnswerPerRequest'
  OBVIOUS
<1> USE DEF OneAnswerPerRequest
<1>0. outbox \in Seq(Replies) /\ Len(outbox) \in Nat /\ (outbox = <<>> => Len(outbox) = 0)
  BY DEF TypeOK, TypeTcp
<1>1. CASE Accept \/ AcceptFails
  BY <1>1, <1>0 DEF Accept, AcceptFails, tcpVars, Connected
<1>2. CASE Recv
  BY <1>2, <1>0 DEF Recv, Connected
<1>3. CASE RecvEnd
  BY <1>3 DEF RecvEnd
<1>4. CASE Crash
  BY <1>4 DEF Crash, tcpVars
<1>5. CASE Reply
  <2>1. CASE conn = "open"
    <3>1. outbox' = outbox \o <<CurrentReply>> /\ pc = "store" /\ pc' = "recv"
          /\ UNCHANGED <<inbox, waiting>>
      BY <1>5, <2>1 DEF Reply, Answer
    <3>2. Len(outbox') = Len(outbox) + 1
      BY <3>1, <1>0
    <3> HIDE DEF CurrentReply
    <3> QED BY <3>1, <3>2, <2>1, <1>0
  <2>2. CASE conn # "open"
    BY <1>5, <2>2 DEF Reply, Answer, Connected
  <2> QED BY <2>1, <2>2
<1>6. CASE Connect
  BY <1>6, <1>0 DEF Connect, Connected, mainVars
<1>7. CASE ClientSend
  <2>1. (inbox' # NoRequest /\ inbox = NoRequest) \/ conn \notin {"backlog", "open"}
    BY <1>7, <1>0 DEF ClientSend, NoRequest, NFIELD, TypeOK, TypeTcp
  <2> QED BY <1>7, <2>1, <1>0 DEF ClientSend, mainVars
<1>8. CASE ClientRecv
  <2>1. Len(outbox') = Len(outbox) - 1
    BY <1>8, <1>0 DEF ClientRecv
  <2> QED BY <1>8, <2>1, <1>0 DEF ClientRecv, mainVars
<1>9. CASE ClientClose
  BY <1>9 DEF ClientClose
<1>10. CASE Store \/ Transmit \/ RecvBsm \/ NewSample \/ UNCHANGED vars
  BY <1>10, OthersKeepExchange
<1> QED BY <1>1, <1>2, <1>3, <1>4, <1>5, <1>6, <1>7, <1>8, <1>9, <1>10 DEF Next, Main, Client

\* The answer just sent is the only one, and carries the clock iff it is the
\* first.
LEMMA CalibrationStep ==
    TypeOK /\ ExchangeInv /\ [Next]_vars => Agreed' /\ CalibrationAnswer'
<1> SUFFICES ASSUME TypeOK, ExchangeInv, [Next]_vars PROVE Agreed' /\ CalibrationAnswer'
  OBVIOUS
<1> USE DEF Agreed, CalibrationAnswer
<1>0. /\ outbox \in Seq(Replies) /\ Len(outbox) \in Nat /\ (outbox = <<>> => Len(outbox) = 0)
      /\ count_calibr \in {0, 1} /\ calibrated \in BOOLEAN
      /\ Connected /\ Agreed /\ CalibrationAnswer
  BY DEF TypeOK, TypeTcp, TypeMain, ExchangeInv
<1>1. CASE Accept
  BY <1>1, <1>0 DEF Accept, Connected
<1>2. CASE AcceptFails \/ Recv \/ Crash
  BY <1>2, <1>0 DEF AcceptFails, Recv, Crash, tcpVars
<1>3. CASE RecvEnd
  BY <1>3, <1>0 DEF RecvEnd
<1>4. CASE Reply
  <2>1. CASE conn = "open"
    <3>1. Len(outbox) = 0
      <4>1. Len(outbox) + 1 <= 1
        BY <1>4, <2>1, <1>0 DEF Reply, ExchangeInv, OneAnswerPerRequest
      <4> QED BY <4>1, <1>0
    <3>2. outbox = <<>>
      BY <3>1, <1>0
    <3>3. outbox' = <<CurrentReply>> /\ count_calibr' = 1 /\ UNCHANGED <<conn, calibrated>>
      BY <1>4, <2>1, <3>2 DEF Reply, Answer
    <3>4. (count_calibr = 1) = calibrated
      BY <3>2, <2>1, <1>0
    <3>5. CurrentReply.clock = ~calibrated
      BY <3>4, <1>0 DEF CurrentReply
    <3> HIDE DEF CurrentReply
    <3> QED BY <3>3, <3>5
  <2>2. CASE conn # "open"
    BY <1>4, <2>2, <1>0 DEF Reply, Answer
  <2> QED BY <2>1, <2>2
<1>5. CASE Connect
  BY <1>5, <1>0 DEF Connect, Connected
<1>6. CASE ClientSend
  BY <1>6, <1>0 DEF ClientSend, mainVars
<1>7. CASE ClientRecv
  <2>1. Len(outbox) <= 1
    BY <1>7, <1>0 DEF ClientRecv, ExchangeInv, OneAnswerPerRequest
  <2>2. outbox' = <<>>
    BY <2>1, <1>7, <1>0 DEF ClientRecv
  <2> QED BY <2>2, <1>7, <1>0 DEF ClientRecv, mainVars
<1>8. CASE ClientClose
  BY <1>8, <1>0 DEF ClientClose
<1>9. CASE Store \/ Transmit \/ RecvBsm \/ NewSample \/ UNCHANGED vars
  BY <1>9, <1>0, OthersKeepExchange
<1> QED BY <1>1, <1>2, <1>3, <1>4, <1>5, <1>6, <1>7, <1>8, <1>9 DEF Next, Main, Client

LEMMA ExchangeStep == TypeOK /\ ExchangeInv /\ [Next]_vars => ExchangeInv'
BY ConnectedStep, OneAnswerStep, CalibrationStep DEF ExchangeInv

LEMMA ExchangeInit == Init => ExchangeInv
BY DEF Init, ExchangeInv, Connected, Agreed, OneAnswerPerRequest, CalibrationAnswer

\* In every interleaving with hang-ups, crashes and further clients, a request
\* is answered once: what a client waits for is under way exactly once.
THEOREM EachRequestAnsweredOnce == Spec => []OneAnswerPerRequest
<1>1. ExchangeInv => OneAnswerPerRequest
  BY DEF ExchangeInv
<1> QED BY <1>1, ExchangeInit, ExchangeStep, TypeCorrect, PTL DEF Spec

\* The first answer of every connection, and no other, carries the clock.
THEOREM FirstAnswerCalibrates == Spec => []CalibrationAnswer
<1>1. ExchangeInv => CalibrationAnswer
  BY DEF ExchangeInv
<1> QED BY <1>1, ExchangeInit, ExchangeStep, TypeCorrect, PTL DEF Spec
=============================================================================
