--------------------------- MODULE ChatPairProofs ---------------------------
(***************************************************************************)
(* TLAPS proofs about the chat programs, for every size of the buffer,     *)
(* every length of line and every way TCP delivers the bytes.              *)
(***************************************************************************)
EXTENDS ChatPair, TLAPS

LEMMA PieceBounds == ASSUME NEW n \in Nat, n > 0
                     PROVE  Piece(n) \in 1..Room /\ Piece(n) <= n
BY ChatAssumption DEF Piece, Room

LEMMA Peers == ASSUME NEW s \in Sides
               PROVE  /\ Peer(s) \in Sides /\ Peer(s) # s /\ Peer(Peer(s)) = s
                      /\ \A r \in Sides : r = s \/ r = Peer(s)
BY DEF Sides, Peer

----------------------------------------------------------------------------
LEMMA TypeStep == TypeOK /\ [Next]_vars => TypeOK'
<1> SUFFICES ASSUME TypeOK, [Next]_vars PROVE TypeOK'
  OBVIOUS
<1> USE ChatAssumption DEF TypeOK
<1>1. ASSUME NEW s \in Sides, Enter(s) PROVE TypeOK'
  BY <1>1 DEF Enter
<1>2. ASSUME NEW s \in Sides, Write(s) PROVE TypeOK'
  <2>1. Piece(keyboard[s]) \in Nat /\ Piece(keyboard[s]) > 0
        /\ Piece(keyboard[s]) <= keyboard[s]
    BY <1>2, PieceBounds DEF Write, WriteAs, Room
  <2>2. keyboard' \in [Sides -> Nat] /\ stream' \in [Sides -> Nat]
    <3>1. keyboard' = [keyboard EXCEPT ![s] = @ - Piece(keyboard[s])]
      BY <1>2 DEF Write, WriteAs
    <3>2. stream' = [stream EXCEPT ![Peer(s)] = @ + (Piece(keyboard[s]) - 1)]
      BY <1>2 DEF Write, WriteAs
    <3>3. keyboard[s] - Piece(keyboard[s]) \in Nat
      BY <2>1
    <3>4. stream[Peer(s)] + (Piece(keyboard[s]) - 1) \in Nat
      BY <2>1, Peers
    <3> HIDE DEF TypeOK
    <3>5. keyboard' \in [Sides -> Nat]
      BY <3>1, <3>3 DEF TypeOK
    <3> QED BY <3>2, <3>4, <3>5 DEF TypeOK
  <2>3. pc' \in [Sides -> {"type", "wait", "done"}]
    BY <1>2 DEF Write, WriteAs
  <2> QED BY <1>2, <2>2, <2>3 DEF Write, WriteAs
<1>3. ASSUME NEW s \in Sides, EndOfInput(s) PROVE TypeOK'
  BY <1>3 DEF EndOfInput
<1>4. ASSUME NEW s \in Sides, Receive(s) PROVE TypeOK'
  <2>1. stream' \in [Sides -> Nat]
    BY <1>4 DEF Receive
  <2>2. split' \in BOOLEAN
    BY <1>4 DEF Receive
  <2> QED BY <1>4, <2>1, <2>2 DEF Receive
<1>5. ASSUME NEW s \in Sides, PeerGone(s) PROVE TypeOK'
  BY <1>5 DEF PeerGone
<1>6. CASE UNCHANGED vars
  BY <1>6 DEF vars
<1> QED BY <1>1, <1>2, <1>3, <1>4, <1>5, <1>6 DEF Next

\* Every variable of the chat programs keeps its type.
THEOREM ChatTypeCorrect == Spec => []TypeOK
<1>1. Init => TypeOK
  <2> SUFFICES ASSUME Init PROVE TypeOK
    OBVIOUS
  <2>1. /\ pc \in [Sides -> {"type", "wait", "done"}]
        /\ keyboard \in [Sides -> Nat] /\ stream \in [Sides -> Nat]
    BY DEF Init
  <2>2. entered \subseteq Nat /\ lines \in Nat /\ split \in BOOLEAN
    BY DEF Init
  <2> QED BY <2>1, <2>2 DEF TypeOK
<1> QED BY <1>1, TypeStep, PTL DEF Spec

----------------------------------------------------------------------------
(* Lines and what is left of them *)

\* A whole piece taken off what is left of a line leaves what is left of it.
LEMMA TakePiece ==
    ASSUME NEW n \in Nat, entered \subseteq Nat, LeftOver(n), n > Room
    PROVE  LeftOver(n - Room)
<1>0. PICK m \in entered : \E k \in 0..m : n + k * Room = m + 1
  BY DEF LeftOver
<1>1. PICK k \in 0..m : n + k * Room = m + 1
  BY <1>0
<1>2. Room \in Nat /\ Room > 1 /\ m \in Nat /\ k \in Nat
  BY ChatAssumption DEF Room
<1> HIDE DEF Room
<1>3. (k + 1) * Room = k * Room + Room
  BY <1>2
<1>4. k * Room >= k
  BY <1>2
<1>5. (n - Room) + (k + 1) * Room = m + 1
  BY <1>1, <1>2, <1>3
<1>6. k + 1 \in 0..m
  BY <1>1, <1>2, <1>4
<1> QED BY <1>5, <1>6 DEF LeftOver

\* A newline is read alone only at the end of a line of whole pieces.
LEMMA LoneNewline ==
    ASSUME entered \subseteq Nat, LeftOver(1)
    PROVE  \E n \in entered : \E k \in 0..n : n = k * Room
<1>0. PICK m \in entered : \E k \in 0..m : 1 + k * Room = m + 1
  BY DEF LeftOver
<1>1. PICK k \in 0..m : 1 + k * Room = m + 1
  BY <1>0
<1>2. Room \in Nat /\ m \in Nat /\ k \in Nat
  BY ChatAssumption DEF Room
<1> HIDE DEF Room
<1>3. m = k * Room
  BY <1>1, <1>2
<1> QED BY <1>3

LEMMA BlockedStep == TypeOK /\ BlockedInv /\ [Next]_vars => BlockedInv'
<1> SUFFICES ASSUME TypeOK, BlockedInv, [Next]_vars PROVE BlockedInv'
  OBVIOUS
<1> USE DEF TypeOK, BlockedInv
<1>1. ASSUME NEW s \in Sides, Enter(s) PROVE BlockedInv'
  <2>1. PICK n \in Lengths : /\ keyboard' = [keyboard EXCEPT ![s] = n + 1]
                             /\ entered' = entered \cup {n}
    BY <1>1 DEF Enter
  <2>2. \E k \in 0..n : n + 1 + k * Room = n + 1
    <3>1. n \in Nat /\ Room \in Nat /\ 0 * Room = 0
      BY ChatAssumption DEF Room
    <3> QED BY <3>1
  <2>3. (\A r \in Sides : keyboard[r] > 0 => LeftOver(keyboard[r]))'
    BY <2>1, <2>2 DEF LeftOver
  <2>4. ~Stuck'
    BY <1>1 DEF Enter, Stuck
  <2> QED BY <2>3, <2>4 DEF StuckOnlyAfterMultiple
<1>2. ASSUME NEW s \in Sides, Write(s) PROVE BlockedInv'
  <2>1. /\ keyboard' = [keyboard EXCEPT ![s] = @ - Piece(keyboard[s])]
        /\ stream' = [stream EXCEPT ![Peer(s)] = @ + (Piece(keyboard[s]) - 1)]
        /\ entered' = entered /\ keyboard[s] > 0
    BY <1>2 DEF Write, WriteAs
  <2>2. keyboard'[s] > 0 => LeftOver(keyboard'[s])
    BY <2>1, TakePiece, ChatAssumption DEF Piece, Room
  <2>3. (\A r \in Sides : keyboard[r] > 0 => LeftOver(keyboard[r]))'
    BY <2>1, <2>2 DEF LeftOver
  <2>4. StuckOnlyAfterMultiple'
    <3> SUFFICES ASSUME Stuck' PROVE StuckOnlyAfterMultiple'
      BY DEF StuckOnlyAfterMultiple
    <3>1. stream[Peer(s)] + (Piece(keyboard[s]) - 1) = 0
      BY <2>1, Peers DEF Stuck
    <3>2. Piece(keyboard[s]) = 1
      BY <3>1, <2>1, Peers, PieceBounds, ChatAssumption DEF Room
    <3>3. keyboard[s] = 1
      BY <3>2, ChatAssumption DEF Piece, Room
    <3>4. \E n \in entered : \E k \in 0..n : n = k * Room
      BY <3>3, LoneNewline
    <3> QED BY <3>4, <2>1 DEF StuckOnlyAfterMultiple
  <2> QED BY <2>3, <2>4
<1>3. ASSUME NEW s \in Sides, EndOfInput(s) \/ Receive(s) \/ PeerGone(s)
      PROVE  BlockedInv'
  <2>1. UNCHANGED <<keyboard, entered>> /\ ~Stuck'
    BY <1>3 DEF EndOfInput, Receive, PeerGone, Stuck
  <2> QED BY <2>1 DEF StuckOnlyAfterMultiple, LeftOver
<1>4. CASE UNCHANGED vars
  BY <1>4 DEF vars, StuckOnlyAfterMultiple, Stuck, LeftOver
<1> QED BY <1>1, <1>2, <1>3, <1>4 DEF Next

\* For every size of the buffer, the programs block each other only after a
\* line of a multiple of sizeof(buf)-1 characters was entered.
THEOREM StuckOnlyAfterMultiples == Spec => []StuckOnlyAfterMultiple
<1>1. Init => BlockedInv
  BY DEF Init, BlockedInv, StuckOnlyAfterMultiple, Stuck, Sides
<1> QED BY <1>1, BlockedStep, ChatTypeCorrect, PTL DEF Spec, BlockedInv

----------------------------------------------------------------------------
LEMMA TurnStep == TypeOK /\ TurnInv /\ [Next]_vars => TurnInv'
<1> SUFFICES ASSUME TypeOK, TurnInv, [Next]_vars, ~split' PROVE TurnInv'
  BY DEF TurnInv
<1> USE DEF TypeOK, TurnInv
<1>1. ASSUME NEW s \in Sides, Enter(s) PROVE TurnInv'
  BY <1>1 DEF Enter
<1>2. ASSUME NEW s \in Sides, Write(s) PROVE TurnInv'
  <2>1. /\ stream' = [stream EXCEPT ![Peer(s)] = @ + (Piece(keyboard[s]) - 1)]
        /\ pc' = [pc EXCEPT ![s] = "wait"] /\ pc[s] = "type" /\ ~split
    BY <1>2 DEF Write, WriteAs
  <2>2. \A r \in Sides : pc'[r] # "type"
    BY <2>1, Peers
  <2>3. stream'[s] = 0
    BY <2>1, Peers
  <2> QED BY <2>2, <2>3
<1>3. ASSUME NEW s \in Sides, Receive(s) PROVE TurnInv'
  <2>0. PICK n \in 1..stream[s] : /\ stream' = [stream EXCEPT ![s] = @ - n]
                                  /\ split' = (split \/ n < stream[s])
    BY <1>3 DEF Receive
  <2>a. ~split /\ ~(n < stream[s])
    BY <2>0
  <2>b. stream[s] - n = 0
    BY <2>a
  <2>1. /\ ~split /\ stream' = [stream EXCEPT ![s] = 0] /\ stream[s] > 0
        /\ pc' = [pc EXCEPT ![s] = "type"]
    BY <2>0, <2>a, <2>b, <1>3 DEF Receive
  <2>2. stream[Peer(s)] = 0
    BY <2>1, Peers
  <2>3. \A r \in Sides : stream'[r] = 0
    BY <2>1, <2>2, Peers
  <2>4. pc[Peer(s)] # "type"
    BY <2>1, Peers
  <2>5. \A r \in Sides : pc'[r] = "type" => r = s
    BY <2>1, <2>4, Peers
  <2> QED BY <2>3, <2>5, Peers
<1>4. ASSUME NEW s \in Sides, EndOfInput(s) \/ PeerGone(s) PROVE TurnInv'
  <2>1. pc' = [pc EXCEPT ![s] = "done"] /\ UNCHANGED <<stream, split>>
    BY <1>4 DEF EndOfInput, PeerGone
  <2> QED BY <2>1, Peers
<1>5. CASE UNCHANGED vars
  BY <1>5 DEF vars
<1> QED BY <1>1, <1>2, <1>3, <1>4, <1>5 DEF Next

\* Unless TCP splits a message, at most one user at a time is asked for a line.
THEOREM TakesTurns == Spec => []InTurn
<1>1. Init => TurnInv
  BY DEF Init, TurnInv, Sides, Peer
<1>2. TypeOK /\ TurnInv => InTurn
  BY Peers DEF TurnInv, InTurn, Sides
<1> QED BY <1>1, <1>2, TurnStep, ChatTypeCorrect, PTL DEF Spec
=============================================================================
