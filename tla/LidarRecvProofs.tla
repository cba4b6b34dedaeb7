-------------------------- MODULE LidarRecvProofs --------------------------
(***************************************************************************)
(* TLAPS proofs about the on-board unit, for every number of handler       *)
(* threads, coordinates, words per double, BSMs, requests and connections. *)
(***************************************************************************)
EXTENDS LidarRecv, TLAPS

----------------------------------------------------------------------------
(* Type correctness, one lemma per group of variables *)

LEMMA TypeInit == Init => TypeOK
<1> SUFFICES ASSUME Init PROVE TypeOK
  OBVIOUS
<1> USE DEF Init
<1>1. TypeMain
  <2>1. fmt \in [word : [Loads -> Nat], unread : SUBSET Loads, floor : Nat]
    BY DEF NoAnswer
  <2> QED BY <2>1, RecvAssumption DEF TypeMain
<1>2. TypeShared
  BY DEF TypeShared
<1>3. TypeTx
  BY DEF TypeTx, IdleTx
<1>4. TypeTcp
  <2>1. outbox \in Seq(Replies)
    OBVIOUS
  <2>2. waiting \in BOOLEAN /\ calibrated \in BOOLEAN
    OBVIOUS
  <2>3. requests \in Nat /\ connects \in Nat /\ acked \in Nat
    OBVIOUS
  <2> QED BY <2>1, <2>2, <2>3 DEF TypeTcp
<1> QED BY <1>1, <1>2, <1>3, <1>4 DEF TypeOK

LEMMA LoadsForAreLoads == \A count : LoadsFor(count) \subseteq Loads
BY DEF LoadsFor, Loads

\* What sprintf() is handed is a word of a global.
LEMMA LoadedIsWord == ASSUME NEW l \in Loads PROVE Loaded(l) \in Words
<1>1. PICK f \in Position \cup TimeLoads, h \in Halves : l = <<f, h>>
  BY DEF Loads
<1>2. CASE f \in TimeLoads
  BY <1>1, <1>2 DEF Loaded, Words, Fields
<1>3. CASE f \notin TimeLoads
  BY <1>1, <1>3 DEF Loaded, Words, Fields
<1> QED BY <1>2, <1>3

LEMMA StoredIsNat == TypeShared => Stored \in Nat /\ Stored <= Len(heard)
<1> SUFFICES ASSUME TypeShared PROVE Stored \in Nat /\ Stored <= Len(heard)
  OBVIOUS
<1>1. Len(heard) \in Nat /\ (heard # <<>> => Len(heard) >= 1)
  BY DEF TypeShared
<1> QED BY <1>1 DEF Stored, TypeShared

\* Only main() touches its own variables and the set of armed timers.
LEMMA TypeMainStep == TypeOK /\ [Next]_vars => TypeMain'
<1> SUFFICES ASSUME TypeOK, [Next]_vars PROVE TypeMain'
  OBVIOUS
<1> USE DEF TypeOK, TypeMain, mainVars, txVars
<1>1. CASE Accept
  BY <1>1, RecvAssumption DEF Accept, AcceptWith
<1>2. CASE AcceptFails
  BY <1>2 DEF AcceptFails
<1>3. CASE Recv
  <2>1. PICK n \in Parts : req' = [inbox EXCEPT !.n = n]
    BY <1>3 DEF Recv
  <2>2. n \in 1..NFIELD
    BY RecvAssumption
  <2>3. inbox \in Requests
    BY <1>3 DEF Recv, TypeTcp
  <2>4. req' \in Requests
    BY <2>1, <2>2, <2>3 DEF Requests
  <2> QED BY <1>3, <2>4 DEF Recv
<1>4. CASE RecvEnd
  BY <1>4 DEF RecvEnd
<1>5. CASE StoreAngle
  BY <1>5 DEF StoreAngle
<1>6. CASE Crash
  BY <1>6 DEF Crash
<1>7. CASE Decoded
  <2>1. fmt' = [fmt EXCEPT !.unread = LoadsFor(count_calibr), !.floor = Stored]
    BY <1>7 DEF Decoded, FormatWith
  <2>2. fmt' \in [word : [Loads -> Nat], unread : SUBSET Loads, floor : Nat]
    BY <2>1, LoadsForAreLoads, StoredIsNat
  <2> QED BY <1>7, <2>2 DEF Decoded, FormatWith
<1>8. CASE LoadWord
  <2>1. PICK l \in fmt.unread :
          fmt' = [fmt EXCEPT !.word[l] = mem[Loaded(l)], !.unread = @ \ {l}]
    BY <1>8 DEF LoadWord
  <2>2. l \in Loads /\ mem[Loaded(l)] \in Nat
    BY LoadedIsWord DEF TypeShared
  <2>3. [fmt.word EXCEPT ![l] = mem[Loaded(l)]] \in [Loads -> Nat]
    BY <2>2
  <2>4. fmt' \in [word : [Loads -> Nat], unread : SUBSET Loads, floor : Nat]
    BY <2>1, <2>3
  <2> QED BY <1>8, <2>4 DEF LoadWord
<1>9. CASE Reply
  BY <1>9 DEF Reply, Answer
<1>10. CASE Transmit
  BY <1>10 DEF Transmit, Expire, LoadCount, LoadInc, StoreInc, LoadAngle, SendBsm
<1>11. CASE Receive \/ StoreWord
  BY <1>11 DEF Receive, StoreWord
<1>12. CASE Client
  BY <1>12 DEF Client, Connect, ClientSend, ClientRecv, ClientClose
<1>13. CASE UNCHANGED vars
  BY <1>13 DEF vars
<1> QED BY <1>1, <1>2, <1>3, <1>4, <1>5, <1>6, <1>7, <1>8, <1>9, <1>10, <1>11,
           <1>12, <1>13 DEF Next, Main

\* The globals are written by main(), the handlers and the receive thread.
LEMMA TypeSharedStep == TypeOK /\ [Next]_vars => TypeShared'
<1> SUFFICES ASSUME TypeOK, [Next]_vars PROVE TypeShared'
  OBVIOUS
<1> USE DEF TypeOK, TypeShared, sharedVars, rxVars
<1>1. CASE Accept \/ AcceptFails \/ Recv \/ RecvEnd \/ Crash \/ Decoded
             \/ LoadWord \/ Reply
  BY <1>1 DEF Accept, AcceptWith, AcceptFails, Recv, RecvEnd, Crash, Decoded,
              FormatWith, LoadWord, Reply, Answer
<1>2. CASE StoreAngle
  <2>1. req.k \in Nat
    BY DEF TypeMain, Requests, NoRequest
  <2> QED BY <1>2, <2>1 DEF StoreAngle
<1>3. ASSUME NEW h \in Handlers, StoreInc(h) PROVE TypeShared'
  <2>1. tx[h].reg + 1 \in Nat
    BY DEF TypeTx
  <2> QED BY <1>3, <2>1 DEF StoreInc
<1>4. ASSUME NEW h \in Handlers,
             Expire(h) \/ LoadCount(h) \/ LoadInc(h) \/ LoadAngle(h) \/ SendBsm(h)
      PROVE  TypeShared'
  BY <1>4 DEF Expire, LoadCount, LoadInc, LoadAngle, SendBsm
<1>5. CASE Receive
  <2>1. PICK t \in Times : heard' = Append(heard, t)
    BY <1>5 DEF Receive
  <2>2. heard' \in Seq(Times) /\ heard' # <<>>
    BY <2>1
  <2> QED BY <1>5, <2>2 DEF Receive
<1>6. CASE StoreWord
  <2>1. PICK w \in unstored : /\ mem' = [mem EXCEPT ![w] = Len(heard)]
                              /\ unstored' = unstored \ {w}
    BY <1>6 DEF StoreWord
  <2>2. Len(heard) \in Nat
    OBVIOUS
  <2>3. mem' \in [Words -> Nat]
    BY <2>1, <2>2
  <2>4. unstored' \subseteq Words /\ unstored # {} /\ heard' = heard
    BY <1>6, <2>1 DEF StoreWord
  <2> QED BY <1>6, <2>3, <2>4 DEF StoreWord
<1>7. CASE Client
  BY <1>7 DEF Client, Connect, ClientSend, ClientRecv, ClientClose
<1>8. CASE UNCHANGED vars
  BY <1>8 DEF vars
<1> QED BY <1>1, <1>2, <1>3, <1>4, <1>5, <1>6, <1>7, <1>8 DEF Next, Main, Transmit

\* Only the handlers touch their frames and the air.
LEMMA TypeTxStep == TypeOK /\ [Next]_vars => TypeTx'
<1> SUFFICES ASSUME TypeOK, [Next]_vars PROVE TypeTx'
  OBVIOUS
<1> USE DEF TypeOK, TypeTx, txVars
<1>1. CASE Main
  BY <1>1 DEF Main, Accept, AcceptWith, AcceptFails, Recv, RecvEnd, StoreAngle,
              Crash, Decoded, FormatWith, LoadWord, Reply, Answer
<1>2. CASE Transmit
  <2> SUFFICES ASSUME NEW h \in Handlers,
                      \/ Expire(h) \/ LoadCount(h) \/ LoadInc(h)
                      \/ StoreInc(h) \/ LoadAngle(h) \/ SendBsm(h)
               PROVE  TypeTx'
    BY <1>2 DEF Transmit
  <2>1. CASE Expire(h)
    <3>1. acked \in Nat
      BY DEF TypeTcp
    <3>2. [IdleTx EXCEPT !.pc = "count", !.unread = Halves, !.floor = acked]
            \in [pc : {"idle", "count", "inc", "put", "angle"}, count : Nat,
                 reg : Nat, unread : SUBSET Halves, angle : [Halves -> Nat],
                 floor : Nat]
      BY <3>1 DEF IdleTx
    <3> QED BY <2>1, <3>2 DEF Expire
  <2>2. CASE LoadCount(h)
    <3>1. msgcount % MsgCountMod \in Nat
      BY RecvAssumption DEF TypeShared
    <3> QED BY <2>2, <3>1 DEF LoadCount
  <2>3. CASE LoadInc(h)
    <3>1. msgcount \in Nat
      BY DEF TypeShared
    <3> QED BY <2>3, <3>1 DEF LoadInc
  <2>4. CASE StoreInc(h)
    BY <2>4 DEF StoreInc
  <2>5. CASE LoadAngle(h)
    <3>1. PICK w \in tx[h].unread :
            tx' = [tx EXCEPT ![h].unread = @ \ {w}, ![h].angle[w] = angle_recv[w]]
      BY <2>5 DEF LoadAngle
    <3>2. w \in Halves /\ angle_recv[w] \in Nat
      BY DEF TypeShared
    <3>3. [tx[h].angle EXCEPT ![w] = angle_recv[w]] \in [Halves -> Nat]
      BY <3>2
    <3> DEFINE frame == [tx[h] EXCEPT
                   !.unread = tx[h].unread \ {w},
                   !.angle = [tx[h].angle EXCEPT ![w] = angle_recv[w]]]
    <3>4. tx' = [tx EXCEPT ![h] = frame]
      BY <3>1
    <3>5. frame \in [pc : {"idle", "count", "inc", "put", "angle"}, count : Nat,
                     reg : Nat, unread : SUBSET Halves, angle : [Halves -> Nat],
                     floor : Nat]
      <4>1. tx[h] \in [pc : {"idle", "count", "inc", "put", "angle"}, count : Nat,
                       reg : Nat, unread : SUBSET Halves, angle : [Halves -> Nat],
                       floor : Nat]
        OBVIOUS
      <4>2. tx[h].unread \ {w} \in SUBSET Halves
        BY <4>1
      <4> QED BY <3>3, <4>1, <4>2
    <3>6. air' = air /\ started' = started
      BY <2>5 DEF LoadAngle
    <3> HIDE DEF frame
    <3> QED BY <3>4, <3>5, <3>6
  <2>6. CASE SendBsm(h)
    <3>1. req.k \in Nat
      BY DEF TypeMain, Requests, NoRequest
    <3>2. BSM(h) \in BSMs
      BY <3>1 DEF BSM, BSMs
    <3>3. IdleTx \in [pc : {"idle", "count", "inc", "put", "angle"}, count : Nat,
                      reg : Nat, unread : SUBSET Halves, angle : [Halves -> Nat],
                      floor : Nat]
      BY DEF IdleTx
    <3>4. air' \subseteq BSMs
      BY <2>6, <3>2 DEF SendBsm
    <3> QED BY <2>6, <3>3, <3>4 DEF SendBsm
  <2> QED BY <2>1, <2>2, <2>3, <2>4, <2>5, <2>6
<1>3. CASE Receive \/ StoreWord
  BY <1>3 DEF Receive, StoreWord
<1>4. CASE Client
  BY <1>4 DEF Client, Connect, ClientSend, ClientRecv, ClientClose
<1>5. CASE UNCHANGED vars
  BY <1>5 DEF vars
<1> QED BY <1>1, <1>2, <1>3, <1>4, <1>5 DEF Next

LEMMA CurrentReplyType == TypeOK => CurrentReply \in Replies
<1> SUFFICES ASSUME TypeOK PROVE CurrentReply \in Replies
  OBVIOUS
<1>1. (count_calibr = 0) \in BOOLEAN
  OBVIOUS
<1>2. fmt.word \in [Loads -> Nat] /\ fmt.floor \in Nat
  BY DEF TypeOK, TypeMain
<1>3. Len(heard) \in Nat
  BY DEF TypeOK, TypeShared
<1> QED BY <1>1, <1>2, <1>3 DEF Replies, CurrentReply

\* The connection belongs to main() and the client.
LEMMA TypeTcpStep == TypeOK /\ [Next]_vars => TypeTcp'
<1> SUFFICES ASSUME TypeOK, [Next]_vars PROVE TypeTcp'
  OBVIOUS
<1> USE DEF TypeOK, TypeTcp, tcpVars
<1>1. CASE Accept
  BY <1>1 DEF Accept, AcceptWith
<1>2. CASE AcceptFails \/ StoreAngle \/ Crash \/ Decoded \/ LoadWord
  BY <1>2 DEF AcceptFails, StoreAngle, Crash, Decoded, FormatWith, LoadWord
<1>3. CASE Recv
  BY <1>3 DEF Recv
<1>4. CASE RecvEnd
  <2>1. outbox' \in Seq(Replies)
    BY <1>4 DEF RecvEnd
  <2>2. waiting' \in BOOLEAN
    BY <1>4 DEF RecvEnd
  <2> QED BY <1>4, <2>1, <2>2 DEF RecvEnd
<1>5. CASE Reply
  <2>1. outbox' \in {outbox, outbox \o <<CurrentReply>>}
    BY <1>5 DEF Reply, Answer
  <2>2. outbox' \in Seq(Replies)
    BY <2>1, CurrentReplyType
  <2>3. acked' \in Nat
    BY <1>5 DEF Reply, Answer, TypeMain, Requests, NoRequest
  <2> QED BY <1>5, <2>2, <2>3 DEF Reply, Answer
<1>6. CASE Transmit
  BY <1>6 DEF Transmit, Expire, LoadCount, LoadInc, StoreInc, LoadAngle, SendBsm
<1>7. CASE Receive \/ StoreWord
  BY <1>7 DEF Receive, StoreWord
<1>8. CASE Client
  <2>1. CASE Connect
    <3>1. calibrated' \in BOOLEAN
      BY <2>1 DEF Connect
    <3>2. connects' \in Nat
      BY <2>1 DEF Connect
    <3> QED BY <2>1, <3>1, <3>2 DEF Connect
  <2>2. CASE ClientSend
    <3>1. [k |-> requests + 1, n |-> NFIELD] \in Requests
      BY DEF Requests, NFIELD
    <3> QED BY <2>2, <3>1 DEF ClientSend
  <2>3. CASE ClientRecv
    <3>1. outbox' \in Seq(Replies)
      BY <2>3 DEF ClientRecv
    <3>2. waiting' \in BOOLEAN /\ calibrated' \in BOOLEAN
      BY <2>3 DEF ClientRecv
    <3> QED BY <2>3, <3>1, <3>2 DEF ClientRecv
  <2>4. CASE ClientClose
    BY <2>4 DEF ClientClose
  <2> QED BY <1>8, <2>1, <2>2, <2>3, <2>4 DEF Client
<1>9. CASE UNCHANGED vars
  BY <1>9 DEF vars
<1> QED BY <1>1, <1>2, <1>3, <1>4, <1>5, <1>6, <1>7, <1>8, <1>9 DEF Next, Main

LEMMA TypeStep == TypeOK /\ [Next]_vars => TypeOK'
BY TypeMainStep, TypeSharedStep, TypeTxStep, TypeTcpStep DEF TypeOK

\* Every variable of the on-board unit keeps its type, for all constants.
THEOREM RecvTypeCorrect == Spec => []TypeOK
BY TypeInit, TypeStep, PTL DEF Spec

----------------------------------------------------------------------------
(* An answer comes from the BSMs received while it was formatted *)

\* The client, the handlers and their timers leave the received data alone.
LEMMA OthersKeepReceived ==
    Transmit \/ Client \/ UNCHANGED vars
      => UNCHANGED <<pc, count_calibr, fmt, mem, heard, unstored>>
BY DEF Transmit, Expire, LoadCount, LoadInc, StoreInc, LoadAngle, SendBsm,
       Client, Connect, ClientSend, ClientRecv, ClientClose, vars, mainVars,
       sharedVars, rxVars

\* The receive thread leaves main() alone.
LEMMA ReceiveKeepsMain ==
    Receive \/ StoreWord => UNCHANGED <<pc, count_calibr, fmt, outbox>>
BY DEF Receive, StoreWord, mainVars, tcpVars

\* main() does not touch what the receive thread writes.
LEMMA MainKeepsReceived == Main => UNCHANGED <<mem, heard, unstored>>
BY DEF Main, Accept, AcceptWith, AcceptFails, Recv, RecvEnd, StoreAngle, Crash,
       Decoded, FormatWith, LoadWord, Reply, Answer, sharedVars, rxVars

\* The globals hold the last BSM, but for the words still to be stored.
LEMMA StoredStep == TypeOK /\ LastBsmStored /\ [Next]_vars => LastBsmStored'
<1> SUFFICES ASSUME TypeOK, LastBsmStored, [Next]_vars PROVE LastBsmStored'
  OBVIOUS
<1>t. /\ mem \in [Words -> Nat] /\ unstored \subseteq Words
      /\ heard \in Seq(Times) /\ Len(heard) \in Nat
  BY DEF TypeOK, TypeShared
<1>1. CASE Main \/ Transmit \/ Client \/ UNCHANGED vars
  <2>1. UNCHANGED <<mem, heard, unstored>>
    BY <1>1, MainKeepsReceived, OthersKeepReceived
  <2> QED BY <2>1 DEF LastBsmStored
<1>2. CASE Receive
  <2>1. PICK t \in Times : heard' = Append(heard, t)
    BY <1>2 DEF Receive
  <2>2. unstored = {} /\ unstored' = Words /\ mem' = mem
    BY <1>2 DEF Receive, sharedVars
  <2>3. Len(heard') = Len(heard) + 1
    BY <2>1, <1>t
  <2> QED BY <2>2, <2>3, <1>t DEF LastBsmStored
<1>3. CASE StoreWord
  <2>1. PICK w \in unstored : /\ mem' = [mem EXCEPT ![w] = Len(heard)]
                              /\ unstored' = unstored \ {w}
    BY <1>3 DEF StoreWord
  <2>2. heard' = heard
    BY <1>3 DEF StoreWord
  <2> QED BY <2>1, <2>2, <1>t DEF LastBsmStored
<1> QED BY <1>1, <1>2, <1>3 DEF Next

\* What has been received and stored only grows.
LEMMA ReceivedGrows ==
    TypeOK /\ [Next]_vars => Len(heard) <= Len(heard') /\ Stored <= Stored'
<1> SUFFICES ASSUME TypeOK, [Next]_vars
             PROVE  Len(heard) <= Len(heard') /\ Stored <= Stored'
  OBVIOUS
<1>t. /\ heard \in Seq(Times) /\ Len(heard) \in Nat
  BY DEF TypeOK, TypeShared
<1>1. CASE Main \/ Transmit \/ Client \/ UNCHANGED vars
  <2>1. UNCHANGED <<mem, heard, unstored>>
    BY <1>1, MainKeepsReceived, OthersKeepReceived
  <2> QED BY <2>1, <1>t DEF Stored
<1>2. CASE Receive
  <2>1. PICK t \in Times : heard' = Append(heard, t)
    BY <1>2 DEF Receive
  <2>2. unstored = {} /\ unstored' = Words
    BY <1>2 DEF Receive
  <2>3. Len(heard') = Len(heard) + 1
    BY <2>1, <1>t
  <2> QED BY <2>2, <2>3, <1>t DEF Stored
<1>3. CASE StoreWord
  <2>1. unstored # {} /\ heard' = heard
    BY <1>3 DEF StoreWord
  <2> QED BY <2>1, <1>t DEF Stored
<1> QED BY <1>1, <1>2, <1>3 DEF Next

\* What a global holds is from the last BSM stored or one after it.
LEMMA WordInRange ==
    ASSUME TypeOK, LastBsmStored, NEW w \in Words
    PROVE  mem[w] \in Nat /\ Stored <= mem[w] /\ mem[w] <= Len(heard)
<1>1. Len(heard) \in Nat /\ mem[w] \in Nat
  BY DEF TypeOK, TypeShared
<1>2. CASE unstored = {}
  BY <1>1, <1>2 DEF Stored, LastBsmStored
<1>3. CASE unstored # {}
  BY <1>1, <1>3 DEF Stored, LastBsmStored
<1> QED BY <1>2, <1>3

LEMMA FormatStep ==
    TypeOK /\ LastBsmStored /\ FormatInRange /\ [Next]_vars => FormatInRange'
<1> SUFFICES ASSUME TypeOK, LastBsmStored, FormatInRange, [Next]_vars, pc' = "format"
             PROVE  /\ fmt'.floor <= Stored'
                    /\ \A l \in LoadsFor(count_calibr') \ fmt'.unread :
                          fmt'.floor <= fmt'.word[l] /\ fmt'.word[l] <= Len(heard')
  BY DEF FormatInRange
<1>t. /\ fmt \in [word : [Loads -> Nat], unread : SUBSET Loads, floor : Nat]
      /\ Stored \in Nat /\ Len(heard) \in Nat
  BY StoredIsNat DEF TypeOK, TypeMain, TypeShared
<1>n. /\ Stored' \in Nat /\ Len(heard') \in Nat
      /\ fmt' \in [word : [Loads -> Nat], unread : SUBSET Loads, floor : Nat]
  <2>1. TypeOK'
    BY TypeStep
  <2>2. Len(heard') \in Nat /\ (heard' # <<>> => Len(heard') >= 1)
    BY <2>1 DEF TypeOK, TypeShared
  <2>3. Stored' \in Nat
    BY <2>1, <2>2 DEF Stored, TypeOK, TypeShared
  <2> QED BY <2>1, <2>2, <2>3 DEF TypeOK, TypeMain
<1>g. Len(heard) <= Len(heard') /\ Stored <= Stored'
  BY ReceivedGrows
<1>l. LoadsFor(count_calibr) \subseteq Loads
  BY LoadsForAreLoads
<1>1. CASE UNCHANGED <<pc, count_calibr, fmt>>
  <2>1. pc = "format"
    BY <1>1
  <2>2. \A l \in LoadsFor(count_calibr) \ fmt.unread : fmt.word[l] \in Nat
    BY <1>t, <1>l
  <2>3. fmt.floor \in Nat /\ fmt.floor <= Stored
    BY <1>t, <2>1 DEF FormatInRange
  <2>4. fmt.floor <= Stored'
    BY <2>3, <1>t, <1>n, <1>g
  <2>5. \A l \in LoadsFor(count_calibr) \ fmt.unread :
           fmt.floor <= fmt.word[l] /\ fmt.word[l] <= Len(heard')
    BY <2>1, <2>2, <1>t, <1>n, <1>g DEF FormatInRange
  <2> QED BY <1>1, <2>4, <2>5
<1>2. CASE Decoded
  <2>1. fmt' = [fmt EXCEPT !.unread = LoadsFor(count_calibr), !.floor = Stored]
    BY <1>2 DEF Decoded, FormatWith
  <2>2. fmt'.unread = LoadsFor(count_calibr) /\ fmt'.floor = Stored
    BY <2>1, <1>t
  <2>3. count_calibr' = count_calibr
    BY <1>2 DEF Decoded, FormatWith
  <2> QED BY <2>2, <2>3, <1>g
<1>3. CASE LoadWord
  <2>1. PICK l \in fmt.unread :
          fmt' = [fmt EXCEPT !.word[l] = mem[Loaded(l)], !.unread = @ \ {l}]
    BY <1>3 DEF LoadWord
  <2>2. pc = "format" /\ UNCHANGED <<count_calibr, heard, unstored>>
    BY <1>3 DEF LoadWord, rxVars
  <2>3. l \in Loads
    BY <1>t
  <2>4. /\ mem[Loaded(l)] \in Nat
        /\ Stored <= mem[Loaded(l)] /\ mem[Loaded(l)] <= Len(heard)
    BY <2>3, LoadedIsWord, WordInRange
  <2>5. fmt'.floor = fmt.floor /\ fmt'.unread = fmt.unread \ {l}
    BY <2>1, <1>t
  <2>6. \A k \in Loads :
          fmt'.word[k] = IF k = l THEN mem[Loaded(l)] ELSE fmt.word[k]
    BY <2>1, <2>3, <1>t
  <2>7. fmt.floor \in Nat /\ fmt.floor <= Stored
    BY <2>2, <1>t DEF FormatInRange
  <2>8. ASSUME NEW k \in LoadsFor(count_calibr) \ fmt'.unread
        PROVE  fmt.floor <= fmt'.word[k] /\ fmt'.word[k] <= Len(heard)
    <3>1. k \in Loads
      BY <1>l
    <3>2. CASE k = l
      BY <3>1, <3>2, <2>4, <2>6, <2>7, <1>t
    <3>3. CASE k # l
      BY <3>1, <3>3, <2>2, <2>5, <2>6 DEF FormatInRange
    <3> QED BY <3>2, <3>3
  <2>9. Stored' = Stored /\ Len(heard') = Len(heard)
    BY <2>2 DEF Stored
  <2> QED BY <2>2, <2>5, <2>7, <2>8, <2>9
<1>4. CASE Accept \/ AcceptFails \/ Recv \/ RecvEnd \/ Crash \/ Reply
  BY <1>4 DEF Accept, AcceptWith, AcceptFails, Recv, RecvEnd, Crash, Reply, Answer
<1>5. CASE StoreAngle
  BY <1>1, <1>5 DEF StoreAngle
<1>6. CASE Receive \/ StoreWord
  BY <1>1, <1>6, ReceiveKeepsMain
<1>7. CASE Transmit \/ Client \/ UNCHANGED vars
  BY <1>1, <1>7, OthersKeepReceived
<1> QED BY <1>2, <1>3, <1>4, <1>5, <1>6, <1>7 DEF Next, Main

\* An answer main() sends took what it needs in the range it states.
LEMMA AnswerInRange ==
    ASSUME TypeOK, FormatInRange, pc = "format", fmt.unread = {},
           NEW l \in LoadsFor(IF CurrentReply.clock THEN 0 ELSE 1)
    PROVE  /\ CurrentReply.floor <= CurrentReply.word[l]
           /\ CurrentReply.word[l] <= CurrentReply.top
<1>1. /\ CurrentReply.clock = (count_calibr = 0) /\ CurrentReply.word = fmt.word
      /\ CurrentReply.floor = fmt.floor /\ CurrentReply.top = Len(heard)
  BY DEF CurrentReply
<1>2. count_calibr \in {0, 1}
  BY DEF TypeOK, TypeMain
<1>3. l \in LoadsFor(count_calibr)
  BY <1>1, <1>2
<1> QED BY <1>1, <1>3 DEF FormatInRange

LEMMA RegularStep ==
    TypeOK /\ FormatInRange /\ ReplyRegular /\ [Next]_vars => ReplyRegular'
<1> SUFFICES ASSUME TypeOK, FormatInRange, ReplyRegular, [Next]_vars
             PROVE  ReplyRegular'
  OBVIOUS
<1>t. outbox \in Seq(Replies) /\ CurrentReply \in Replies
  BY CurrentReplyType DEF TypeOK, TypeTcp
<1>1. CASE UNCHANGED outbox
  BY <1>1 DEF ReplyRegular
<1>2. CASE outbox' = <<>>
  BY <1>2 DEF ReplyRegular
<1>3. CASE Reply
  <2>1. pc = "format" /\ fmt.unread = {}
    BY <1>3 DEF Reply, Answer
  <2>2. outbox' \in {outbox, outbox \o <<CurrentReply>>}
    BY <1>3 DEF Reply, Answer
  <2>3. CASE outbox' = outbox \o <<CurrentReply>>
    <3>1. Len(outbox') = Len(outbox) + 1
      BY <2>3, <1>t
    <3>2. \A i \in 1..Len(outbox') :
            outbox'[i] = IF i <= Len(outbox) THEN outbox[i] ELSE CurrentReply
      BY <2>3, <1>t
    <3>3. ASSUME NEW i \in 1..Len(outbox'),
                 NEW l \in LoadsFor(IF outbox'[i].clock THEN 0 ELSE 1)
          PROVE  outbox'[i].floor <= outbox'[i].word[l]
                   /\ outbox'[i].word[l] <= outbox'[i].top
      <4>1. CASE i <= Len(outbox)
        <5>1. i \in 1..Len(outbox) /\ outbox'[i] = outbox[i]
          BY <3>1, <3>2, <4>1, <1>t
        <5> QED BY <5>1 DEF ReplyRegular
      <4>2. CASE ~(i <= Len(outbox))
        <5>1. outbox'[i] = CurrentReply
          BY <3>2, <4>2
        <5> QED BY <2>1, <5>1, AnswerInRange
      <4> QED BY <4>1, <4>2
    <3> QED BY <3>3 DEF ReplyRegular
  <2> QED BY <1>1, <2>2, <2>3
<1>4. CASE ClientRecv
  <2>1. outbox' = Tail(outbox) /\ outbox # <<>>
    BY <1>4 DEF ClientRecv
  <2>2. Len(outbox') = Len(outbox) - 1
    BY <2>1, <1>t
  <2>3. \A i \in 1..Len(outbox') :
          i + 1 \in 1..Len(outbox) /\ outbox'[i] = outbox[i + 1]
    BY <2>1, <2>2, <1>t
  <2> QED BY <2>3 DEF ReplyRegular
<1>5. CASE RecvEnd \/ ClientClose
  BY <1>2, <1>5 DEF RecvEnd, ClientClose
<1>6. CASE Accept \/ AcceptFails \/ Recv \/ StoreAngle \/ Crash \/ Decoded \/ LoadWord
  BY <1>1, <1>6 DEF Accept, AcceptWith, AcceptFails, Recv, StoreAngle, Crash,
                    Decoded, FormatWith, LoadWord, tcpVars
<1>7. CASE Receive \/ StoreWord \/ Transmit \/ Connect \/ ClientSend \/ UNCHANGED vars
  BY <1>1, <1>7, ReceiveKeepsMain DEF Transmit, Expire, LoadCount, LoadInc, StoreInc,
                    LoadAngle, SendBsm, Connect, ClientSend, vars, tcpVars
<1> QED BY <1>3, <1>4, <1>5, <1>6, <1>7 DEF Next, Main, Client

LEMMA PastStep == TypeOK /\ AnswersPast /\ [Next]_vars => AnswersPast'
<1> SUFFICES ASSUME TypeOK, AnswersPast, [Next]_vars PROVE AnswersPast'
  OBVIOUS
<1>t. /\ outbox \in Seq(Replies) /\ CurrentReply \in Replies
      /\ Len(heard) \in Nat /\ CurrentReply.top = Len(heard)
  BY CurrentReplyType DEF TypeOK, TypeTcp, TypeShared, CurrentReply
<1>g. Len(heard) <= Len(heard') /\ Len(heard') \in Nat
  BY ReceivedGrows, TypeStep DEF TypeOK, TypeShared
<1>r. \A r \in Replies : r.top \in Nat
  BY DEF Replies
<1>s. \A i \in 1..Len(outbox) : outbox[i].top \in Nat /\ outbox[i].top <= Len(heard')
  <2> TAKE i \in 1..Len(outbox)
  <2>1. outbox[i] \in Replies
    BY <1>t
  <2>2. outbox[i].top <= Len(heard)
    BY DEF AnswersPast
  <2> QED BY <2>1, <2>2, <1>t, <1>g, <1>r
<1>1. CASE outbox' \in {outbox, <<>>}
  BY <1>1, <1>s DEF AnswersPast
<1>2. CASE outbox' = outbox \o <<CurrentReply>>
  <2> SUFFICES ASSUME NEW i \in 1..Len(outbox') PROVE outbox'[i].top <= Len(heard')
    BY DEF AnswersPast
  <2>1. Len(outbox') = Len(outbox) + 1
    BY <1>2, <1>t
  <2>2. outbox'[i] = IF i <= Len(outbox) THEN outbox[i] ELSE CurrentReply
    BY <1>2, <1>t
  <2>3. CASE i <= Len(outbox)
    <3>1. i \in 1..Len(outbox)
      BY <2>1, <2>3, <1>t
    <3> QED BY <2>2, <2>3, <3>1, <1>s
  <2>4. CASE ~(i <= Len(outbox))
    BY <2>2, <2>4, <1>t, <1>g
  <2> QED BY <2>3, <2>4
<1>3. CASE ClientRecv
  <2>1. outbox' = Tail(outbox) /\ outbox # <<>>
    BY <1>3 DEF ClientRecv
  <2>2. \A i \in 1..Len(outbox') :
          i + 1 \in 1..Len(outbox) /\ outbox'[i] = outbox[i + 1]
    BY <2>1, <1>t
  <2> QED BY <2>2, <1>s DEF AnswersPast
<1>4. CASE RecvEnd \/ ClientClose \/ Reply
  BY <1>1, <1>2, <1>4 DEF RecvEnd, ClientClose, Reply, Answer
<1>6. CASE Accept \/ AcceptFails \/ Recv \/ StoreAngle \/ Crash \/ Decoded \/ LoadWord
  BY <1>1, <1>6 DEF Accept, AcceptWith, AcceptFails, Recv, StoreAngle, Crash,
                    Decoded, FormatWith, LoadWord, tcpVars
<1>7. CASE Receive \/ StoreWord \/ Transmit \/ Connect \/ ClientSend \/ UNCHANGED vars
  BY <1>1, <1>7, ReceiveKeepsMain DEF Transmit, Expire, LoadCount, LoadInc, StoreInc,
                    LoadAngle, SendBsm, Connect, ClientSend, vars, tcpVars
<1> QED BY <1>3, <1>4, <1>6, <1>7 DEF Next, Main, Client

LEMMA ReplyInvInit == Init => ReplyInv
BY DEF Init, ReplyInv, LastBsmStored, FormatInRange, ReplyRegular, AnswersPast

THEOREM ReplyInvariance == Spec => [](TypeOK /\ ReplyInv)
<1>1. TypeOK /\ ReplyInv /\ [Next]_vars => (TypeOK /\ ReplyInv)'
  BY TypeStep, StoredStep, FormatStep, RegularStep, PastStep DEF ReplyInv
<1> QED BY TypeInit, ReplyInvInit, <1>1, PTL DEF Spec

\* Every answer (lidar_recv.c:324 and 331) comes, word by word, from BSMs no
\* older than the last stored when the request was decoded, and none later than
\* the answer, in whatever order words are stored and loaded.
THEOREM AnswersRegular == Spec => []ReplyRegular
BY ReplyInvariance, PTL DEF ReplyInv

----------------------------------------------------------------------------
(* The time in an answer *)

\* A time that is not whole and the microsecond before it are of one second.
LEMMA MicrosecondBefore ==
    ASSUME NEW t \in Nat, t % Second # 0
    PROVE  WholeSeconds(t - 1) = WholeSeconds(t) /\ WholeSeconds(t) < t
<1>1. Second \in Nat \ {0}
  BY SecondAssumption
<1> DEFINE q == t \div Second
           m == t % Second
<1>2. q \in Int /\ m \in 0..(Second - 1) /\ t = Second * q + m
  BY <1>1
<1>3. m >= 1
  BY <1>2
<1> HIDE DEF q, m
<1>4. (t - 1) \div Second = q
  BY <1>1, <1>2, <1>3
<1>5. q * Second = Second * q
  BY <1>1, <1>2
<1> QED BY <1>1, <1>2, <1>3, <1>4, <1>5 DEF WholeSeconds, q

\* Whole seconds and the rest, of times of the same second, make up a time or the
\* microsecond before it.
LEMMA TimePutTogether ==
    ASSUME NEW t1 \in Nat, NEW t2 \in Nat, NEW t3 \in Nat,
           WholeSeconds(t1) = WholeSeconds(t2), WholeSeconds(t3) = WholeSeconds(t2),
           NEW t \in ReplyTimes(t1, t2, t3)
    PROVE  t \in {t2 - 1, t2} /\ WholeSeconds(t) = WholeSeconds(t2)
<1>1. WholeSeconds(t2) \in Int
  BY SecondAssumption DEF WholeSeconds
<1>2. PICK x \in Truncations(t2, t2 - WholeSeconds(t2)) : t = WholeSeconds(t2) + x
  BY DEF ReplyTimes
<1>3. CASE t2 % Second = 0
  <2>1. x = t2 - WholeSeconds(t2)
    BY <1>2, <1>3 DEF Truncations
  <2>2. t = t2
    BY <1>1, <1>2, <2>1
  <2> QED BY <2>2
<1>4. CASE t2 % Second # 0
  <2>1. WholeSeconds(t2 - 1) = WholeSeconds(t2) /\ t2 - WholeSeconds(t2) > 0
    BY <1>1, <1>4, MicrosecondBefore
  <2>2. x \in {t2 - WholeSeconds(t2) - 1, t2 - WholeSeconds(t2)}
    BY <1>2, <1>4, <2>1 DEF Truncations
  <2>3. t \in {t2 - 1, t2}
    BY <1>1, <1>2, <2>2
  <2> QED BY <2>1, <2>3
<1> QED BY <1>3, <1>4

LEMMA TimesAreNat ==
    ASSUME TypeOK, NEW i \in 0..Len(heard)
    PROVE  TimeOf(i) \in Nat
<1>1. heard \in Seq(Times) /\ Len(heard) \in Nat
  BY DEF TypeOK, TypeShared
<1>2. CASE i = 0
  BY <1>2 DEF TimeOf
<1>3. CASE i # 0
  <2>1. heard[i] \in Times
    BY <1>1, <1>3
  <2> QED BY <2>1, <1>3, RecvAssumption DEF TimeOf
<1> QED BY <1>2, <1>3

LEMMA TimeHeard == TypeOK /\ ReplyRegular /\ AnswersPast => ReplyTimeHeard
<1> SUFFICES ASSUME TypeOK, ReplyRegular, AnswersPast, NEW i \in 1..Len(outbox),
                    ~outbox[i].clock,
                    \A b, c \in outbox[i].floor..outbox[i].top :
                       WholeSeconds(TimeOf(b)) = WholeSeconds(TimeOf(c))
             PROVE  \A t \in TimesIn(outbox[i]) : \E b \in outbox[i].floor..outbox[i].top :
                       /\ t \in {TimeOf(b) - 1, TimeOf(b)}
                       /\ WholeSeconds(t) = WholeSeconds(TimeOf(b))
  BY DEF ReplyTimeHeard
<1> DEFINE r == outbox[i]
<1>1. r \in Replies /\ r.floor \in Nat /\ r.top \in Nat /\ r.top <= Len(heard)
  <2>1. r \in Replies
    BY DEF TypeOK, TypeTcp
  <2> QED BY <2>1 DEF Replies, AnswersPast
<1>2. ASSUME NEW load \in TimeLoads
      PROVE  Source(r, load) \in r.floor..r.top /\ TimeOf(Source(r, load)) \in Nat
  <2>1. (CHOOSE h \in Halves : TRUE) \in Halves
    BY RecvAssumption
  <2>2. <<load, CHOOSE h \in Halves : TRUE>> \in Loads
    BY <2>1 DEF Loads
  <2>3. Loads = LoadsFor(IF r.clock THEN 0 ELSE 1)
    BY DEF LoadsFor
  <2>4. r.floor <= Source(r, load) /\ Source(r, load) <= r.top
    BY <2>2, <2>3 DEF ReplyRegular, Source
  <2>5. Source(r, load) \in Nat
    BY <2>2, <1>1 DEF Source, Replies
  <2>6. Len(heard) \in Nat
    BY DEF TypeOK, TypeShared
  <2>7. Source(r, load) \in 0..Len(heard)
    BY <2>4, <2>5, <2>6, <1>1
  <2> QED BY <2>4, <2>5, <2>7, <1>1, TimesAreNat
<1> HIDE DEF r
<1>3. "sec" \in TimeLoads /\ "time" \in TimeLoads /\ "base" \in TimeLoads
  BY DEF TimeLoads
<1>4. \A load \in TimeLoads :
         WholeSeconds(TimeOf(Source(r, load))) = WholeSeconds(TimeOf(Source(r, "time")))
  BY <1>2, <1>3 DEF r
<1>5. ASSUME NEW t \in TimesIn(r)
      PROVE  /\ t \in {TimeOf(Source(r, "time")) - 1, TimeOf(Source(r, "time"))}
             /\ WholeSeconds(t) = WholeSeconds(TimeOf(Source(r, "time")))
  BY <1>2, <1>3, <1>4, <1>5, TimePutTogether DEF TimesIn
<1> QED BY <1>2, <1>3, <1>5 DEF r

\* Although unixtime_recv is loaded three times without a lock
\* (lidar_recv.c:331) and truncated, the time in an answer is one that was received
\* or the microsecond before it, unless a BSM of another second arrives meanwhile.
THEOREM AnswerTimesHeard == Spec => []ReplyTimeHeard
BY ReplyInvariance, TimeHeard, PTL DEF ReplyInv

----------------------------------------------------------------------------
(* The angle in a BSM *)

\* The handlers and the receive thread leave requests and the angle alone.
LEMMA OthersKeepRequests ==
    Transmit \/ Receive \/ StoreWord \/ UNCHANGED vars
      => UNCHANGED <<pc, req, todo, angle_recv, inbox, requests, acked>>
BY DEF Transmit, Expire, LoadCount, LoadInc, StoreInc, LoadAngle, SendBsm,
       Receive, StoreWord, vars, mainVars, sharedVars, tcpVars

LEMMA RequestTypes ==
    TypeOK => /\ req.k \in Nat /\ inbox.k \in Nat /\ requests \in Nat /\ acked \in Nat
              /\ todo \subseteq Halves /\ angle_recv \in [Halves -> Nat]
BY DEF TypeOK, TypeMain, TypeShared, TypeTcp, Requests, NoRequest

LEMMA ServedStep == TypeOK /\ ServedInOrder /\ [Next]_vars => ServedInOrder'
<1> SUFFICES ASSUME TypeOK, ServedInOrder, [Next]_vars PROVE ServedInOrder'
  OBVIOUS
<1> USE DEF ServedInOrder
<1>t. /\ req.k \in Nat /\ inbox.k \in Nat /\ requests \in Nat /\ acked \in Nat
      /\ todo \subseteq Halves /\ angle_recv \in [Halves -> Nat]
  BY RequestTypes
<1>1. CASE Accept \/ AcceptFails \/ Crash
  BY <1>1, <1>t DEF Accept, AcceptWith, AcceptFails, Crash, sharedVars, tcpVars
<1>2. CASE Recv
  <2>1. PICK n \in Parts : req' = [inbox EXCEPT !.n = n]
    BY <1>2 DEF Recv
  <2>2. inbox \in Requests
    BY <1>2 DEF Recv, TypeOK, TypeTcp
  <2>3. req'.k = inbox.k
    BY <2>1, <2>2 DEF Requests
  <2>4. /\ inbox # NoRequest /\ inbox' = NoRequest /\ todo' = Halves /\ pc' = "store"
        /\ UNCHANGED <<angle_recv, requests, acked>>
    BY <1>2 DEF Recv, sharedVars
  <2> QED BY <2>3, <2>4, <1>t
<1>3. CASE RecvEnd
  BY <1>3, <1>t DEF RecvEnd, sharedVars
<1>4. CASE StoreAngle
  <2>1. PICK h \in todo : /\ angle_recv' = [angle_recv EXCEPT ![h] = req.k]
                          /\ todo' = todo \ {h}
    BY <1>4 DEF StoreAngle
  <2>2. pc = "store" /\ UNCHANGED <<pc, req, inbox, requests, acked>>
    BY <1>4 DEF StoreAngle, tcpVars
  <2>3. \A g \in Halves : angle_recv'[g] = IF g = h THEN req.k ELSE angle_recv[g]
    BY <2>1, <1>t
  <2>4. acked <= req.k
    BY <2>1, <1>t
  <2> QED BY <2>1, <2>2, <2>3, <2>4, <1>t
<1>5. CASE Decoded
  <2>1. /\ pc = "store" /\ todo = {} /\ pc' = "format"
        /\ UNCHANGED <<req, todo, angle_recv, inbox, requests, acked>>
    BY <1>5 DEF Decoded, FormatWith, sharedVars, tcpVars
  <2> QED BY <2>1, <1>t
<1>6. CASE LoadWord
  BY <1>6, <1>t DEF LoadWord, sharedVars, tcpVars
<1>7. CASE Reply
  <2>1. /\ pc = "format" /\ pc' = "recv" /\ acked' = req.k
        /\ UNCHANGED <<req, todo, angle_recv, inbox, requests>>
    BY <1>7 DEF Reply, Answer, sharedVars
  <2> QED BY <2>1, <1>t
<1>8. CASE Transmit \/ Receive \/ StoreWord \/ UNCHANGED vars
  BY <1>8, OthersKeepRequests
<1>9. CASE Connect \/ ClientRecv \/ ClientClose
  BY <1>9 DEF Connect, ClientRecv, ClientClose, mainVars, sharedVars
<1>10. CASE ClientSend
  <2>1. /\ requests' = requests + 1 /\ inbox' = [k |-> requests + 1, n |-> NFIELD]
        /\ UNCHANGED <<pc, req, todo, angle_recv, acked>>
    BY <1>10 DEF ClientSend, mainVars, sharedVars
  <2>2. inbox'.k = requests + 1
    BY <2>1
  <2> QED BY <2>1, <2>2, <1>t
<1> QED BY <1>1, <1>2, <1>3, <1>4, <1>5, <1>6, <1>7, <1>8, <1>9, <1>10
        DEF Next, Main, Client

\* Requests are answered, and received, in their order.
LEMMA RequestsGrow ==
    TypeOK /\ ServedInOrder /\ [Next]_vars
      => /\ acked <= acked' /\ req.k <= req'.k
         /\ acked' \in Nat /\ req'.k \in Nat
<1> SUFFICES ASSUME TypeOK, ServedInOrder, [Next]_vars
             PROVE  /\ acked <= acked' /\ req.k <= req'.k
                    /\ acked' \in Nat /\ req'.k \in Nat
  OBVIOUS
<1>t. /\ req.k \in Nat /\ inbox.k \in Nat /\ acked \in Nat
      /\ angle_recv \in [Halves -> Nat]
  BY RequestTypes
<1>1. acked <= req.k
  BY <1>t, RecvAssumption DEF ServedInOrder
<1>2. CASE Reply
  BY <1>1, <1>2, <1>t DEF Reply, Answer
<1>3. CASE Recv
  <2>1. PICK n \in Parts : req' = [inbox EXCEPT !.n = n]
    BY <1>3 DEF Recv
  <2>2. inbox \in Requests /\ inbox # NoRequest
    BY <1>3 DEF Recv, TypeOK, TypeTcp
  <2>3. req'.k = inbox.k
    BY <2>1, <2>2 DEF Requests
  <2>4. acked' = acked
    BY <1>3 DEF Recv
  <2> QED BY <2>2, <2>3, <2>4, <1>t DEF ServedInOrder
<1>4. CASE Accept \/ AcceptFails \/ RecvEnd \/ StoreAngle \/ Crash \/ Decoded \/ LoadWord
  <2>1. UNCHANGED <<req, acked>>
    BY <1>4 DEF Accept, AcceptWith, AcceptFails, RecvEnd, StoreAngle, Crash,
                Decoded, FormatWith, LoadWord
  <2> QED BY <2>1, <1>t
<1>5. CASE Transmit \/ Receive \/ StoreWord \/ UNCHANGED vars
  BY <1>5, <1>t, OthersKeepRequests
<1>6. CASE Client
  BY <1>6, <1>t DEF Client, Connect, ClientSend, ClientRecv, ClientClose, mainVars
<1> QED BY <1>2, <1>3, <1>4, <1>5, <1>6 DEF Next, Main

\* The parts of AngleInRange, about one handler's frame.
FrameInRange(frame, low, high) ==
    /\ frame.floor <= low
    /\ frame.pc \in {"count", "inc", "put"} => frame.unread = Halves
    /\ \A h \in Halves \ frame.unread :
          frame.floor <= frame.angle[h] /\ frame.angle[h] <= high

Frames == [pc : {"idle", "count", "inc", "put", "angle"}, count : Nat,
           reg : Nat, unread : SUBSET Halves, angle : [Halves -> Nat], floor : Nat]

LEMMA FrameWidens ==
    ASSUME NEW frame \in Frames, NEW low \in Nat, NEW high \in Nat,
           NEW low2 \in Nat, NEW high2 \in Nat,
           FrameInRange(frame, low, high), low <= low2, high <= high2
    PROVE  FrameInRange(frame, low2, high2)
<1>1. frame.floor \in Nat /\ frame.angle \in [Halves -> Nat]
  BY DEF Frames
<1> QED BY <1>1 DEF FrameInRange

\* The angle loaded, or the whole frame set up anew, is in range.
LEMMA HandlerStep ==
    ASSUME TypeOK, ServedInOrder, AngleInRange, NEW h \in Handlers,
           \/ Expire(h) \/ LoadCount(h) \/ LoadInc(h)
           \/ StoreInc(h) \/ LoadAngle(h) \/ SendBsm(h)
    PROVE  \A g \in Handlers : FrameInRange(tx'[g], acked, req.k)
<1>t. tx \in [Handlers -> Frames] /\ acked \in Nat /\ req.k \in Nat
        /\ angle_recv \in [Halves -> Nat]
  BY RequestTypes DEF TypeOK, TypeTx, Frames
<1>f. \A g \in Handlers : FrameInRange(tx[g], acked, req.k)
  BY DEF AngleInRange, FrameInRange
<1>h. tx[h] \in Frames
  BY <1>t
<1>1. CASE Expire(h)
  <2> DEFINE frame == [IdleTx EXCEPT !.pc = "count", !.unread = Halves, !.floor = acked]
  <2>1. tx' = [tx EXCEPT ![h] = frame]
    BY <1>1 DEF Expire
  <2>2. FrameInRange(frame, acked, req.k)
    BY <1>t DEF FrameInRange, IdleTx
  <2> HIDE DEF frame
  <2> QED BY <2>1, <2>2, <1>t, <1>f
<1>2. CASE LoadCount(h)
  <2> DEFINE frame == [tx[h] EXCEPT !.count = msgcount % MsgCountMod, !.pc = "inc"]
  <2>1. tx' = [tx EXCEPT ![h] = frame] /\ tx[h].pc = "count"
    BY <1>2 DEF LoadCount
  <2>2. FrameInRange(frame, acked, req.k)
    BY <2>1, <1>f, <1>h DEF FrameInRange, Frames
  <2> HIDE DEF frame
  <2> QED BY <2>1, <2>2, <1>t, <1>f
<1>3. CASE LoadInc(h)
  <2> DEFINE frame == [tx[h] EXCEPT !.reg = msgcount, !.pc = "put"]
  <2>1. tx' = [tx EXCEPT ![h] = frame] /\ tx[h].pc = "inc"
    BY <1>3 DEF LoadInc
  <2>2. FrameInRange(frame, acked, req.k)
    BY <2>1, <1>f, <1>h DEF FrameInRange, Frames
  <2> HIDE DEF frame
  <2> QED BY <2>1, <2>2, <1>t, <1>f
<1>4. CASE StoreInc(h)
  <2> DEFINE frame == [tx[h] EXCEPT !.pc = "angle"]
  <2>1. tx' = [tx EXCEPT ![h] = frame] /\ tx[h].pc = "put"
    BY <1>4 DEF StoreInc
  <2>2. FrameInRange(frame, acked, req.k)
    BY <2>1, <1>f, <1>h DEF FrameInRange, Frames
  <2> HIDE DEF frame
  <2> QED BY <2>1, <2>2, <1>t, <1>f
<1>5. CASE LoadAngle(h)
  <2>1. PICK w \in tx[h].unread :
          tx' = [tx EXCEPT ![h].unread = @ \ {w}, ![h].angle[w] = angle_recv[w]]
    BY <1>5 DEF LoadAngle
  <2> DEFINE frame == [tx[h] EXCEPT !.unread = tx[h].unread \ {w},
                         !.angle = [tx[h].angle EXCEPT ![w] = angle_recv[w]]]
  <2>2. tx' = [tx EXCEPT ![h] = frame] /\ tx[h].pc = "angle"
    <3>1. tx' = [tx EXCEPT ![h] = frame]
      BY <2>1
    <3>2. tx[h].pc = "angle"
      BY <1>5 DEF LoadAngle
    <3> QED BY <3>1, <3>2
  <2>3. w \in Halves /\ tx[h].angle \in [Halves -> Nat] /\ tx[h].floor \in Nat
    BY <1>h DEF Frames
  <2>4. /\ frame.pc = tx[h].pc /\ frame.floor = tx[h].floor
        /\ frame.unread = tx[h].unread \ {w}
        /\ \A k \in Halves : frame.angle[k] = IF k = w THEN angle_recv[w] ELSE tx[h].angle[k]
    BY <2>3, <1>h DEF Frames
  <2>5. tx[h].floor <= angle_recv[w] /\ angle_recv[w] <= req.k
    BY <2>3, <1>t, <1>f DEF ServedInOrder, FrameInRange
  <2> HIDE DEF frame
  <2>6. FrameInRange(frame, acked, req.k)
    BY <2>2, <2>3, <2>4, <2>5, <1>f DEF FrameInRange
  <2> QED BY <2>2, <2>6, <1>t, <1>f
<1>6. CASE SendBsm(h)
  <2>1. tx' = [tx EXCEPT ![h] = IdleTx] /\ tx[h].pc = "angle" /\ tx[h].unread = {}
    BY <1>6 DEF SendBsm
  <2>2. ASSUME IdleTx.unread = {} PROVE FrameInRange(IdleTx, acked, req.k)
    BY <1>t DEF FrameInRange, IdleTx
  <2>3. IdleTx.unread = {}
    BY DEF IdleTx
  <2>4. FrameInRange(IdleTx, acked, req.k)
    BY <2>2, <2>3
  <2> QED BY <2>1, <2>4, <1>t, <1>f
<1> QED BY <1>1, <1>2, <1>3, <1>4, <1>5, <1>6

LEMMA AngleStep ==
    TypeOK /\ ServedInOrder /\ AngleInRange /\ [Next]_vars => AngleInRange'
<1> SUFFICES ASSUME TypeOK, ServedInOrder, AngleInRange, [Next]_vars
             PROVE  \A g \in Handlers : FrameInRange(tx'[g], acked', req'.k)
  BY DEF AngleInRange, FrameInRange
<1>t. tx \in [Handlers -> Frames] /\ acked \in Nat /\ req.k \in Nat
  BY RequestTypes DEF TypeOK, TypeTx, Frames
<1>g. acked <= acked' /\ req.k <= req'.k /\ acked' \in Nat /\ req'.k \in Nat
  BY RequestsGrow
<1>1. CASE UNCHANGED tx
  <2> SUFFICES ASSUME NEW g \in Handlers
               PROVE  FrameInRange(tx[g], acked', req'.k)
    BY <1>1
  <2>1. FrameInRange(tx[g], acked, req.k)
    BY DEF AngleInRange, FrameInRange
  <2> QED BY <2>1, <1>t, <1>g, FrameWidens
<1>2. CASE Transmit
  <2>1. UNCHANGED <<req, acked>>
    BY <1>2, OthersKeepRequests
  <2>2. PICK h \in Handlers : \/ Expire(h) \/ LoadCount(h) \/ LoadInc(h)
                              \/ StoreInc(h) \/ LoadAngle(h) \/ SendBsm(h)
    BY <1>2 DEF Transmit
  <2> QED BY <2>1, <2>2, HandlerStep
<1>3. CASE Main
  BY <1>1, <1>3 DEF Main, Accept, AcceptWith, AcceptFails, Recv, RecvEnd, StoreAngle,
       Crash, Decoded, FormatWith, LoadWord, Reply, Answer, txVars
<1>4. CASE Receive \/ StoreWord \/ Client \/ UNCHANGED vars
  BY <1>1, <1>4 DEF Receive, StoreWord, Client, Connect, ClientSend, ClientRecv,
       ClientClose, vars, txVars
<1> QED BY <1>2, <1>3, <1>4 DEF Next

LEMMA AirStep == TypeOK /\ AngleInRange /\ AngleRegular /\ [Next]_vars => AngleRegular'
<1> SUFFICES ASSUME TypeOK, AngleInRange, AngleRegular, [Next]_vars
             PROVE  AngleRegular'
  OBVIOUS
<1>1. CASE UNCHANGED air
  BY <1>1 DEF AngleRegular
<1>2. ASSUME NEW h \in Handlers, SendBsm(h) PROVE AngleRegular'
  <2>1. tx[h].unread = {} /\ air' \in {air, air \cup {BSM(h)}}
    BY <1>2 DEF SendBsm
  <2>2. \A w \in Halves : BSM(h).floor <= BSM(h).angle[w] /\ BSM(h).angle[w] <= BSM(h).top
    BY <2>1 DEF AngleInRange, BSM
  <2> QED BY <2>1, <2>2 DEF AngleRegular
<1>3. ASSUME NEW h \in Handlers, \/ Expire(h) \/ LoadCount(h) \/ LoadInc(h)
                                 \/ StoreInc(h) \/ LoadAngle(h)
      PROVE  AngleRegular'
  BY <1>1, <1>3 DEF Expire, LoadCount, LoadInc, StoreInc, LoadAngle
<1>4. CASE Main
  BY <1>1, <1>4 DEF Main, Accept, AcceptWith, AcceptFails, Recv, RecvEnd, StoreAngle,
       Crash, Decoded, FormatWith, LoadWord, Reply, Answer, txVars
<1>5. CASE Receive \/ StoreWord \/ Client \/ UNCHANGED vars
  BY <1>1, <1>5 DEF Receive, StoreWord, Client, Connect, ClientSend, ClientRecv,
       ClientClose, vars, txVars
<1> QED BY <1>2, <1>3, <1>4, <1>5 DEF Next, Transmit

LEMMA AngleInvInit == Init => AngleInv
BY DEF Init, AngleInv, ServedInOrder, AngleInRange, AngleRegular, NoRequest, IdleTx

\* The angle in a BSM (lidar_recv.c:155) is never from before the last answered
\* request, for any number of overlapping handlers and any order of accesses.
THEOREM AnglesRegular == Spec => []AngleRegular
<1>1. TypeOK /\ AngleInv /\ [Next]_vars => (TypeOK /\ AngleInv)'
  BY TypeStep, ServedStep, AngleStep, AirStep DEF AngleInv
<1>2. TypeOK /\ AngleInv => AngleRegular
  BY DEF AngleInv
<1> QED BY TypeInit, AngleInvInit, <1>1, <1>2, PTL DEF Spec

----------------------------------------------------------------------------
(* Both pairs of writer and readers implement SharedRecord *)

\* One step of the unit is one of the record of BSMs, or none.
LEMMA AnswersStep ==
    TypeOK /\ ReplyInv /\ [Next]_vars => [Answers!Next]_(Answers!vars)
<1> SUFFICES ASSUME TypeOK, ReplyInv, [Next]_vars PROVE [Answers!Next]_(Answers!vars)
  OBVIOUS
<1> USE DEF ReplyInv
<1> DEFINE Copies == {Copy(outbox[i]) : i \in DOMAIN outbox}
           Formatting == [r \in {"main"} |-> IF pc = "format" THEN fmt.floor ELSE -1]
<1>t. /\ outbox \in Seq(Replies) /\ heard \in Seq(Times) /\ Len(heard) \in Nat
      /\ fmt \in [word : [Loads -> Nat], unread : SUBSET Loads, floor : Nat]
  BY DEF TypeOK, TypeTcp, TypeShared, TypeMain
<1>1. ASSUME UNCHANGED <<heard, unstored, fmt>>, pc' = pc \/ {pc, pc'} \cap {"format"} = {},
             Copies' \subseteq Copies
      PROVE  [Answers!Next]_(Answers!vars)
  <2>1. Formatting' = Formatting
    BY <1>1
  <2>2. Stored' = Stored
    BY <1>1 DEF Stored
  <2> QED BY <1>1, <2>1, <2>2 DEF Answers!Next, Answers!Consume
<1>2. CASE Receive
  <2>1. PICK t \in Times : heard' = Append(heard, t)
    BY <1>2 DEF Receive
  <2>2. unstored = {} /\ unstored' = Words /\ UNCHANGED <<pc, fmt, outbox>>
    BY <1>2, ReceiveKeepsMain DEF Receive
  <2>3. Len(heard') = Len(heard) + 1
    BY <2>1, <1>t
  <2>4. Words # {}
    <3>1. PICK half : half \in Halves
      BY RecvAssumption
    <3>2. <<"time", half>> \in Words
      BY <3>1 DEF Words, Fields
    <3> QED BY <3>2
  <2>5. Stored' = Stored
    BY <1>t, <2>2, <2>3, <2>4 DEF Stored
  <2>6. Len(heard') \in Nat /\ Len(heard) <= Len(heard')
    BY <1>t, <2>3
  <2> QED BY <2>2, <2>5, <2>6 DEF Answers!Next, Answers!Begin
<1>3. CASE StoreWord
  <2>1. PICK w \in unstored : unstored' = unstored \ {w}
    BY <1>3 DEF StoreWord
  <2>2. heard' = heard /\ UNCHANGED <<pc, fmt, outbox>>
    BY <1>3, ReceiveKeepsMain DEF StoreWord
  <2>3. CASE unstored' = {}
    <3>1. Stored' = Len(heard)
      BY <2>2, <2>3 DEF Stored
    <3> QED BY <2>2, <3>1 DEF Answers!Next, Answers!End
  <2>4. CASE unstored' # {}
    <3>1. Stored' = Stored
      BY <2>1, <2>2, <2>4 DEF Stored
    <3> QED BY <2>2, <3>1 DEF Answers!vars
  <2> QED BY <2>3, <2>4
<1>4. CASE Decoded
  <2>1. /\ pc = "store" /\ pc' = "format"
        /\ fmt' = [fmt EXCEPT !.unread = LoadsFor(count_calibr), !.floor = Stored]
        /\ UNCHANGED <<heard, unstored, outbox>>
    BY <1>4 DEF Decoded, FormatWith, rxVars, tcpVars
  <2>2. fmt'.floor = Stored
    BY <1>t, <2>1
  <2>3. /\ Formatting["main"] = -1
        /\ Formatting' = [Formatting EXCEPT !["main"] = Stored]
    BY <2>1, <2>2
  <2>4. Stored' = Stored
    BY <2>1 DEF Stored
  <2> QED BY <2>1, <2>3, <2>4 DEF Answers!Next, Answers!StartRead, Answers!Idle
<1>5. CASE LoadWord
  <2>1. PICK l \in fmt.unread :
          fmt' = [fmt EXCEPT !.word[l] = mem[Loaded(l)], !.unread = @ \ {l}]
    BY <1>5 DEF LoadWord
  <2>2. pc = "format" /\ UNCHANGED <<pc, heard, unstored, outbox>>
    BY <1>5 DEF LoadWord, rxVars, tcpVars
  <2>3. fmt'.floor = fmt.floor
    BY <1>t, <2>1
  <2>4. Formatting' = Formatting
    BY <2>2, <2>3
  <2>5. Stored' = Stored
    BY <2>2 DEF Stored
  <2> QED BY <2>2, <2>4, <2>5 DEF Answers!vars
<1>6. CASE Reply
  <2>1. /\ pc = "format" /\ fmt.unread = {} /\ pc' = "recv"
        /\ outbox' = outbox \/ outbox' = outbox \o <<CurrentReply>>
        /\ UNCHANGED <<heard, unstored>>
    BY <1>6 DEF Reply, Answer, rxVars
  <2>2. Formatting["main"] = fmt.floor /\ Formatting' = [Formatting EXCEPT !["main"] = -1]
    BY <2>1
  <2> DEFINE m == Copy(CurrentReply)
  <2>3. Copies \subseteq Copies' /\ Copies' \ Copies \subseteq {m}
    <3>1. CASE outbox' = outbox
      BY <3>1
    <3>2. CASE outbox' = outbox \o <<CurrentReply>>
      <4>0. CurrentReply \in Replies
        BY CurrentReplyType
      <4>1. /\ DOMAIN outbox = 1..Len(outbox) /\ DOMAIN outbox' = 1..(Len(outbox) + 1)
            /\ Len(outbox) \in Nat
            /\ \A i \in 1..Len(outbox) : outbox'[i] = outbox[i]
            /\ outbox'[Len(outbox) + 1] = CurrentReply
        BY <1>t, <3>2, <4>0
      <4>2. \A i \in 1..(Len(outbox) + 1) : i \in 1..Len(outbox) \/ i = Len(outbox) + 1
        BY <4>1
      <4>3. 1..Len(outbox) \subseteq 1..(Len(outbox) + 1)
        BY <4>1
      <4> HIDE DEF m
      <4>4. \A i \in 1..Len(outbox) : Copy(outbox'[i]) = Copy(outbox[i])
        BY <4>1
      <4>5. Copy(outbox'[Len(outbox) + 1]) = m
        BY <4>1 DEF m
      <4> QED BY <4>1, <4>2, <4>3, <4>4, <4>5
    <3> QED BY <2>1, <3>1, <3>2
  <2>4. Answers!Regular(m, fmt.floor, Len(heard))
    <3>1. /\ m.floor = fmt.floor
          /\ DOMAIN m.word = LoadsFor(IF CurrentReply.clock THEN 0 ELSE 1)
          /\ \A l \in DOMAIN m.word : m.word[l] = CurrentReply.word[l]
      BY DEF Copy, CurrentReply
    <3>2. \A l \in LoadsFor(IF CurrentReply.clock THEN 0 ELSE 1) :
            /\ CurrentReply.floor <= CurrentReply.word[l]
            /\ CurrentReply.word[l] <= CurrentReply.top
      BY <2>1, AnswerInRange
    <3>3. CurrentReply.floor = fmt.floor /\ CurrentReply.top = Len(heard)
      BY DEF CurrentReply
    <3> HIDE DEF m
    <3> QED BY <3>1, <3>2, <3>3 DEF Answers!Regular
  <2>5. Formatting["main"] # -1
    BY <1>t, <2>2
  <2>6. Stored' = Stored
    BY <2>1 DEF Stored
  <2>7. Answers!Show("main")
    <3> HIDE DEF m
    <3> QED BY <2>1, <2>2, <2>3, <2>4, <2>5, <2>6 DEF Answers!Show, Answers!Idle
  <2> QED BY <2>7 DEF Answers!Next
<1>7. CASE Accept \/ AcceptFails \/ Recv \/ Crash \/ StoreAngle
  <2>1. UNCHANGED <<heard, unstored, fmt, outbox>>
    BY <1>7 DEF Accept, AcceptWith, AcceptFails, Recv, Crash, StoreAngle, rxVars, tcpVars
  <2>2. pc' = pc \/ {pc, pc'} \cap {"format"} = {}
    BY <1>7 DEF Accept, AcceptWith, AcceptFails, Recv, Crash, StoreAngle
  <2>3. Copies' = Copies
    BY <2>1
  <2> QED BY <1>1, <2>1, <2>2, <2>3
<1>8. CASE RecvEnd
  <2>1. UNCHANGED <<heard, unstored, fmt>> /\ outbox' = <<>>
    BY <1>8 DEF RecvEnd, rxVars
  <2>2. {pc, pc'} \cap {"format"} = {}
    BY <1>8 DEF RecvEnd
  <2>3. Copies' \subseteq Copies
    BY <2>1
  <2> QED BY <1>1, <2>1, <2>2, <2>3
<1>9. CASE Transmit \/ Client \/ UNCHANGED vars
  <2>1. UNCHANGED <<pc, heard, unstored, fmt>>
    BY <1>9, OthersKeepReceived
  <2>2. outbox' = outbox \/ outbox' = <<>> \/ (outbox' = Tail(outbox) /\ outbox # <<>>)
    BY <1>9 DEF Transmit, Expire, LoadCount, LoadInc, StoreInc, LoadAngle, SendBsm,
           Client, Connect, ClientSend, ClientRecv, ClientClose, vars, tcpVars
  <2>3. Copies' \subseteq Copies
    <3>1. CASE outbox' = outbox \/ outbox' = <<>>
      BY <3>1
    <3>2. CASE outbox' = Tail(outbox) /\ outbox # <<>>
      <4>1. \A i \in DOMAIN outbox' : i + 1 \in DOMAIN outbox /\ outbox'[i] = outbox[i + 1]
        BY <1>t, <3>2
      <4> QED BY <4>1
    <3> QED BY <2>2, <3>1, <3>2
  <2> QED BY <1>1, <2>1, <2>3
<1> QED BY <1>2, <1>3, <1>4, <1>5, <1>6, <1>7, <1>8, <1>9 DEF Next, Main

\* For all constants, what client2 is answered is what SharedRecord allows.
THEOREM AnswersImplementRecord == Spec => AnswersRecord
<1>1. Init => Answers!Init
  BY DEF Init, Answers!Init, Answers!Idle, Stored
<1> QED BY <1>1, AnswersStep, ReplyInvariance, PTL
        DEF Spec, AnswersRecord, Answers!Spec

\* A handler changes its own frame only.
LEMMA FrameStep ==
    ASSUME TypeOK, NEW h \in Handlers,
           \/ Expire(h) \/ LoadCount(h) \/ LoadInc(h)
           \/ StoreInc(h) \/ LoadAngle(h) \/ SendBsm(h)
    PROVE  /\ \A g \in Handlers \ {h} : tx'[g] = tx[g]
           /\ Expire(h) => tx'[h].pc = "count" /\ tx'[h].floor = acked
           /\ SendBsm(h) => tx'[h].pc = "idle"
           /\ ~Expire(h) /\ ~SendBsm(h) => /\ tx[h].pc # "idle" /\ tx'[h].pc # "idle"
                                           /\ tx'[h].floor = tx[h].floor
<1>t. tx \in [Handlers -> Frames]
  BY DEF TypeOK, TypeTx, Frames
<1>h. tx[h] \in Frames
  BY <1>t
<1>1. CASE Expire(h)
  <2>1. /\ \A g \in Handlers \ {h} : tx'[g] = tx[g]
        /\ tx'[h] = [IdleTx EXCEPT !.pc = "count", !.unread = Halves, !.floor = acked]
    BY <1>1, <1>t DEF Expire
  <2>2. tx'[h].pc = "count" /\ tx'[h].floor = acked
    BY <2>1 DEF IdleTx
  <2>3. ~SendBsm(h)
    BY <1>1 DEF Expire, SendBsm
  <2> QED BY <1>1, <2>1, <2>2, <2>3
<1>2. CASE LoadCount(h) \/ LoadInc(h) \/ StoreInc(h)
  <2>1. \A g \in Handlers \ {h} : tx'[g] = tx[g]
    BY <1>2, <1>t DEF LoadCount, LoadInc, StoreInc
  <2>2. /\ tx[h].pc \in {"count", "inc", "put"} /\ tx'[h].pc # "idle"
        /\ tx'[h].floor = tx[h].floor
    BY <1>2, <1>t, <1>h DEF LoadCount, LoadInc, StoreInc, Frames
  <2>3. ~Expire(h) /\ ~SendBsm(h)
    BY <2>2 DEF Expire, SendBsm
  <2> QED BY <2>1, <2>2, <2>3
<1>3. CASE LoadAngle(h)
  <2>1. PICK w \in tx[h].unread :
          tx' = [tx EXCEPT ![h].unread = @ \ {w}, ![h].angle[w] = angle_recv[w]]
    BY <1>3 DEF LoadAngle
  <2>2. \A g \in Handlers \ {h} : tx'[g] = tx[g]
    BY <2>1, <1>t
  <2>3. tx'[h].pc = tx[h].pc /\ tx'[h].floor = tx[h].floor
    BY <2>1, <1>t, <1>h DEF Frames
  <2>4. tx[h].pc = "angle" /\ tx[h].unread # {}
    BY <2>1, <1>3 DEF LoadAngle
  <2>5. ~Expire(h) /\ ~SendBsm(h)
    BY <2>4 DEF Expire, SendBsm
  <2> QED BY <2>2, <2>3, <2>4, <2>5
<1>4. CASE SendBsm(h)
  <2>1. tx' = [tx EXCEPT ![h] = IdleTx] /\ tx[h].pc = "angle"
    BY <1>4 DEF SendBsm
  <2>2. tx'[h].pc = "idle"
    BY <2>1, <1>t DEF IdleTx
  <2>3. \A g \in Handlers \ {h} : tx'[g] = tx[g]
    BY <2>1, <1>t
  <2>4. ~Expire(h)
    BY <2>1 DEF Expire
  <2> QED BY <1>4, <2>2, <2>3, <2>4
<1> QED BY <1>1, <1>2, <1>3, <1>4

\* One step of the unit is one of the record of angles, or none.
LEMMA AnglesStep ==
    TypeOK /\ AngleInv /\ [Next]_vars => [Angles!Next]_(Angles!vars)
<1> SUFFICES ASSUME TypeOK, AngleInv, [Next]_vars PROVE [Angles!Next]_(Angles!vars)
  OBVIOUS
<1> USE DEF AngleInv
<1> DEFINE Copies == {[word |-> b.angle, floor |-> b.floor] : b \in air}
           Reading == [g \in Handlers |-> IF tx[g].pc = "idle" THEN -1 ELSE tx[g].floor]
<1>t. \A g \in Handlers : tx[g].floor \in Nat /\ tx[g].angle \in [Halves -> Nat]
  BY DEF TypeOK, TypeTx
<1>1. CASE UNCHANGED <<req, acked, tx, air>>
  BY <1>1 DEF Angles!vars
<1>2. CASE Recv
  <2>1. UNCHANGED <<acked, tx, air>>
    BY <1>2 DEF Recv, txVars
  <2> QED BY <1>2, <2>1, RequestsGrow DEF Angles!Next, Angles!Begin
<1>3. CASE Reply
  <2>1. acked' = req.k /\ UNCHANGED <<req, tx, air>>
    BY <1>3 DEF Reply, Answer, txVars
  <2> QED BY <2>1 DEF Angles!Next, Angles!End
<1>4. ASSUME NEW h \in Handlers,
             \/ Expire(h) \/ LoadCount(h) \/ LoadInc(h)
             \/ StoreInc(h) \/ LoadAngle(h) \/ SendBsm(h)
      PROVE  [Angles!Next]_(Angles!vars)
  <2>0. UNCHANGED <<req, acked>>
    <3>1. Transmit
      BY <1>4 DEF Transmit
    <3> QED BY <3>1, OthersKeepRequests
  <2>1. \A g \in Handlers \ {h} : tx'[g] = tx[g]
    BY <1>4, FrameStep
  <2>2. CASE Expire(h)
    <3>1. tx[h].pc = "idle" /\ air' = air
      BY <2>2 DEF Expire
    <3>2. tx'[h].pc = "count" /\ tx'[h].floor = acked
      BY <1>4, <2>2, FrameStep
    <3>3. Reading[h] = -1 /\ Reading' = [Reading EXCEPT ![h] = acked]
      BY <2>1, <3>1, <3>2
    <3> QED BY <2>0, <3>1, <3>3 DEF Angles!Next, Angles!StartRead, Angles!Idle
  <2>3. CASE ~Expire(h) /\ ~SendBsm(h)
    <3>1. tx[h].pc # "idle" /\ tx'[h].pc # "idle" /\ tx'[h].floor = tx[h].floor
      BY <1>4, <2>3, FrameStep
    <3>2. air' = air
      BY <1>4, <2>3 DEF LoadCount, LoadInc, StoreInc, LoadAngle
    <3>3. Reading' = Reading
      BY <2>1, <3>1
    <3> QED BY <2>0, <3>2, <3>3 DEF Angles!vars
  <2>4. CASE SendBsm(h)
    <3>1. /\ tx[h].pc = "angle" /\ tx[h].unread = {}
          /\ air' = air \/ air' = air \cup {BSM(h)}
      BY <2>4 DEF SendBsm
    <3>2. tx'[h].pc = "idle"
      BY <1>4, <2>4, FrameStep
    <3>3. Reading[h] = tx[h].floor /\ Reading' = [Reading EXCEPT ![h] = -1]
      BY <2>1, <3>1, <3>2
    <3> DEFINE m == [word |-> tx[h].angle, floor |-> tx[h].floor]
    <3>4. m.floor = tx[h].floor /\ m.word = tx[h].angle /\ DOMAIN m.word = Halves
      BY <1>t
    <3>5. Copies' = Copies \/ Copies' = Copies \cup {m}
      BY <3>1 DEF BSM
    <3>6. Angles!Regular(m, Reading[h], req.k)
      <4>1. \A w \in Halves : tx[h].floor <= tx[h].angle[w] /\ tx[h].angle[w] <= req.k
        BY <3>1 DEF AngleInRange
      <4> HIDE DEF m, Reading
      <4> QED BY <3>3, <3>4, <4>1 DEF Angles!Regular
    <3>7. Reading[h] # -1
      BY <1>t, <3>3
    <3>8. Copies \subseteq Copies' /\ Copies' \ Copies \subseteq {m}
      BY <3>5
    <3>9. Angles!Show(h)
      <4> HIDE DEF m
      <4> QED BY <2>0, <3>3, <3>6, <3>7, <3>8 DEF Angles!Show, Angles!Idle
    <3> QED BY <3>9 DEF Angles!Next
  <2> QED BY <2>2, <2>3, <2>4
<1>5. CASE Main /\ ~Recv /\ ~Reply
  BY <1>1, <1>5 DEF Main, Accept, AcceptWith, AcceptFails, RecvEnd, StoreAngle, Crash,
                    Decoded, FormatWith, LoadWord, txVars
<1>6. CASE Receive \/ StoreWord \/ Client \/ UNCHANGED vars
  BY <1>1, <1>6 DEF Receive, StoreWord, Client, Connect, ClientSend, ClientRecv,
       ClientClose, vars, mainVars, txVars
<1> QED BY <1>2, <1>3, <1>4, <1>5, <1>6 DEF Next, Transmit

\* For all constants, the angles broadcast are what SharedRecord allows.
THEOREM AnglesImplementRecord == Spec => BroadcastsAngles
<1>1. TypeOK /\ AngleInv /\ [Next]_vars => (TypeOK /\ AngleInv)'
  BY TypeStep, ServedStep, AngleStep, AirStep DEF AngleInv
<1>2. Init => Angles!Init
  BY DEF Init, Angles!Init, Angles!Idle, IdleTx, NoRequest
<1> QED BY TypeInit, AngleInvInit, <1>1, <1>2, AnglesStep, PTL
        DEF Spec, BroadcastsAngles, Angles!Spec

----------------------------------------------------------------------------
(* The first answer of a connection, and no other, carries the clock *)

LEMMA OthersKeepExchange ==
    StoreAngle \/ LoadWord \/ Receive \/ StoreWord \/ Transmit \/ UNCHANGED vars
      => UNCHANGED <<pc, count_calibr, conn, inbox, outbox, waiting, calibrated>>
BY DEF StoreAngle, LoadWord, Receive, StoreWord, Transmit, Expire, LoadCount, LoadInc, StoreInc, LoadAngle, SendBsm,
       vars, mainVars, tcpVars

LEMMA ConnectedStep == TypeOK /\ Connected /\ [Next]_vars => Connected'
<1> SUFFICES ASSUME TypeOK, Connected, [Next]_vars PROVE Connected'
  OBVIOUS
<1> USE DEF Connected
<1>1. CASE Accept \/ AcceptFails \/ Recv \/ RecvEnd \/ Crash \/ Decoded
  BY <1>1 DEF Accept, AcceptWith, AcceptFails, Recv, RecvEnd, Crash, Decoded, FormatWith,
              tcpVars
<1>2. CASE Reply
  BY <1>2 DEF Reply, Answer
<1>3. CASE Connect \/ ClientSend \/ ClientClose
  BY <1>3 DEF Connect, ClientSend, ClientClose, mainVars, Alive
<1>4. CASE ClientRecv
  BY <1>4 DEF ClientRecv, mainVars
<1>5. CASE StoreAngle \/ LoadWord \/ Receive \/ StoreWord \/ Transmit \/ UNCHANGED vars
  BY <1>5, OthersKeepExchange
<1> QED BY <1>1, <1>2, <1>3, <1>4, <1>5 DEF Next, Main, Client

\* What is in the wire, in work and answered adds up to what is waited for.
LEMMA AnsweredOnceStep ==
    TypeOK /\ Connected /\ AnsweredOnce /\ [Next]_vars => AnsweredOnce'
<1> SUFFICES ASSUME TypeOK, Connected, AnsweredOnce, [Next]_vars
             PROVE  AnsweredOnce'
  OBVIOUS
<1> USE DEF AnsweredOnce
<1>0. outbox \in Seq(Replies) /\ Len(outbox) \in Nat /\ (outbox = <<>> => Len(outbox) = 0)
  BY DEF TypeOK, TypeTcp
<1>1. CASE Accept \/ AcceptFails
  BY <1>1, <1>0 DEF Accept, AcceptWith, AcceptFails, tcpVars, Connected
<1>2. CASE Recv
  BY <1>2, <1>0 DEF Recv, Connected
<1>3. CASE RecvEnd
  BY <1>3 DEF RecvEnd
<1>4. CASE Crash \/ Decoded
  BY <1>4 DEF Crash, Decoded, FormatWith, tcpVars
<1>5. CASE Reply
  <2>1. CASE conn = "open"
    <3>1. outbox' = outbox \o <<CurrentReply>> /\ pc = "format" /\ pc' = "recv"
          /\ UNCHANGED <<inbox, waiting>>
      BY <1>5, <2>1 DEF Reply, Answer
    <3>2. Len(outbox') = Len(outbox) + 1
      BY <3>1, <1>0
    <3> HIDE DEF CurrentReply
    <3> QED BY <3>1, <3>2, <2>1, <1>0
  <2>2. CASE conn # "open"
    BY <1>5, <2>2 DEF Reply, Answer, Connected
  <2> QED BY <2>1, <2>2
<1>6. CASE Connect
  BY <1>6, <1>0 DEF Connect, Connected, mainVars
<1>7. CASE ClientSend
  <2>1. (inbox' # NoRequest /\ inbox = NoRequest) \/ conn \notin {"backlog", "open"}
    BY <1>7, <1>0 DEF ClientSend, NoRequest, NFIELD, TypeOK, TypeTcp
  <2> QED BY <1>7, <2>1, <1>0 DEF ClientSend, mainVars
<1>8. CASE ClientRecv
  <2>1. Len(outbox') = Len(outbox) - 1
    BY <1>8, <1>0 DEF ClientRecv
  <2> QED BY <1>8, <2>1, <1>0 DEF ClientRecv, mainVars
<1>9. CASE ClientClose
  BY <1>9 DEF ClientClose
<1>10. CASE StoreAngle \/ LoadWord \/ Receive \/ StoreWord \/ Transmit \/ UNCHANGED vars
  BY <1>10, OthersKeepExchange
<1> QED BY <1>1, <1>2, <1>3, <1>4, <1>5, <1>6, <1>7, <1>8, <1>9, <1>10 DEF Next, Main, Client

\* The answer just sent is the only one, and carries the clock iff it is the
\* first.
LEMMA CalibrationStep ==
    TypeOK /\ ExchangeInv /\ [Next]_vars => Agreed' /\ CalibrationAnswer'
<1> SUFFICES ASSUME TypeOK, ExchangeInv, [Next]_vars PROVE Agreed' /\ CalibrationAnswer'
  OBVIOUS
<1> USE DEF Agreed, CalibrationAnswer
<1>0. /\ outbox \in Seq(Replies) /\ Len(outbox) \in Nat /\ (outbox = <<>> => Len(outbox) = 0)
      /\ count_calibr \in {0, 1} /\ calibrated \in BOOLEAN
      /\ Connected /\ Agreed /\ CalibrationAnswer
  BY DEF TypeOK, TypeTcp, TypeMain, ExchangeInv
<1>1. CASE Accept
  BY <1>1, <1>0 DEF Accept, AcceptWith, Connected
<1>2. CASE AcceptFails \/ Recv \/ Crash \/ Decoded
  BY <1>2, <1>0 DEF AcceptFails, Recv, Crash, Decoded, FormatWith, tcpVars
<1>3. CASE RecvEnd
  BY <1>3, <1>0 DEF RecvEnd
<1>4. CASE Reply
  <2>1. CASE conn = "open"
    <3>1. Len(outbox) = 0
      <4>1. Len(outbox) + 1 <= 1
        BY <1>4, <2>1, <1>0 DEF Reply, Answer, ExchangeInv, AnsweredOnce
      <4> QED BY <4>1, <1>0
    <3>2. outbox = <<>>
      BY <3>1, <1>0
    <3>3. outbox' = <<CurrentReply>> /\ count_calibr' = 1 /\ UNCHANGED <<conn, calibrated>>
      BY <1>4, <2>1, <3>2 DEF Reply, Answer
    <3>4. (count_calibr = 1) = calibrated
      BY <3>2, <2>1, <1>0
    <3>5. CurrentReply.clock = ~calibrated
      BY <3>4, <1>0 DEF CurrentReply
    <3> HIDE DEF CurrentReply
    <3> QED BY <3>3, <3>5
  <2>2. CASE conn # "open"
    BY <1>4, <2>2, <1>0 DEF Reply, Answer
  <2> QED BY <2>1, <2>2
<1>5. CASE Connect
  BY <1>5, <1>0 DEF Connect, Connected
<1>6. CASE ClientSend
  BY <1>6, <1>0 DEF ClientSend, mainVars
<1>7. CASE ClientRecv
  <2>1. Len(outbox) <= 1
    BY <1>7, <1>0 DEF ClientRecv, ExchangeInv, AnsweredOnce
  <2>2. outbox' = <<>>
    BY <2>1, <1>7, <1>0 DEF ClientRecv
  <2> QED BY <2>2, <1>7, <1>0 DEF ClientRecv, mainVars
<1>8. CASE ClientClose
  BY <1>8, <1>0 DEF ClientClose
<1>9. CASE StoreAngle \/ LoadWord \/ Receive \/ StoreWord \/ Transmit \/ UNCHANGED vars
  BY <1>9, <1>0, OthersKeepExchange
<1> QED BY <1>1, <1>2, <1>3, <1>4, <1>5, <1>6, <1>7, <1>8, <1>9 DEF Next, Main, Client

LEMMA ExchangeStep == TypeOK /\ ExchangeInv /\ [Next]_vars => ExchangeInv'
BY ConnectedStep, AnsweredOnceStep, CalibrationStep DEF ExchangeInv

LEMMA ExchangeInit == Init => ExchangeInv
BY DEF Init, ExchangeInv, Connected, Agreed, AnsweredOnce, CalibrationAnswer

\* The first answer of every connection, and no other, carries the clock.
THEOREM FirstAnswersCalibrate == Spec => []CalibrationAnswer
<1>1. ExchangeInv => CalibrationAnswer
  BY DEF ExchangeInv
<1> QED BY <1>1, ExchangeInit, ExchangeStep, RecvTypeCorrect, PTL DEF Spec
=============================================================================
