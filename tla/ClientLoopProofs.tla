-------------------------- MODULE ClientLoopProofs --------------------------
(***************************************************************************)
(* What holds of the clients' loop for every period, every pattern of      *)
(* polls and every difference of the two clocks.                           *)
(***************************************************************************)
EXTENDS ClientLoop, TLAPS

USE LoopAssumption

\* Half rounds to an integer that is off by at most one half.
LEMMA HalfBounds ==
    ASSUME NEW x \in Int
    PROVE  /\ Half(x) \in Int
           /\ 2 * Half(x) <= x + 1
           /\ x <= 2 * Half(x) + 1
<1>1. CASE x >= 0
  BY <1>1 DEF Half
<1>2. CASE x < 0
  BY <1>2 DEF Half
<1> QED
  BY <1>1, <1>2

\* An answer read between sending and receiving gives a difference of the
\* clocks that is off by at most half the time between the two.
LEMMA DifferenceBounds ==
    ASSUME NEW send \in Int, NEW recv \in Int, NEW th \in Int,
           server_time \in Int,
           send + th <= server_time, server_time <= recv + th
    PROVE  /\ Difference(send, recv) \in Int
           /\ 2 * (Difference(send, recv) - th) <= (recv - send) + 1
           /\ 2 * (th - Difference(send, recv)) <= (recv - send) + 1
<1> DEFINE x == 2 * server_time - recv - send
<1>1. x \in Int
  OBVIOUS
<1>2. /\ Half(x) \in Int
      /\ 2 * Half(x) <= x + 1
      /\ x <= 2 * Half(x) + 1
  BY <1>1, HalfBounds
<1>3. Difference(send, recv) = Half(x)
  BY DEF Difference
<1>4. 2 * (Half(x) - th) <= (recv - send) + 1
  BY <1>2
<1>5. 2 * (th - Half(x)) <= (recv - send) + 1
  BY <1>2
<1> QED
  BY <1>2, <1>3, <1>4, <1>5

\* A program that has just started satisfies the invariant.
LEMMA InitInv == Init => Inv
<1>1. Init => TypeOK
  <2> SUFFICES ASSUME Init PROVE TypeOK
    OBVIOUS
  <2>1. gone \in BOOLEAN
    BY DEF Init
  <2>2. theta \in Int /\ tar_time \in Nat /\ first \in Nat
    BY DEF Init
  <2> QED
    BY <2>1, <2>2 DEF Init, TypeOK
<1>2. Init => PaceInv /\ CalibrationInv
  BY DEF Init, PaceInv, CalibrationInv, NotTooFast, Calibrated
<1>3. Init => AnswerInv
  BY DEF Init, AnswerInv
<1> QED
  BY <1>1, <1>2, <1>3 DEF Inv

\* Every step of the loop, of the unit and of the clock keeps the invariant.
LEMMA StepInv == Inv /\ [Next]_vars => Inv'
<1> SUFFICES ASSUME Inv, [Next]_vars PROVE Inv'
  OBVIOUS
<1> USE DEF Inv, TypeOK, PaceInv, CalibrationInv, AnswerInv, NotTooFast, Calibrated,
            pacing, calibration
<1>1. CASE Tick
  BY <1>1 DEF Tick
<1>2. CASE PollIdle
  <2>1. ~Due /\ now >= lastPoll
    BY <1>2 DEF PollIdle
  <2>2. MaxGap <= Period => now <= tar_time
    BY <2>1 DEF Due
  <2> QED
    BY <1>2, <2>2 DEF PollIdle
<1>3. CASE Fire
  <2>1. first + sent * Period <= now
    BY <1>3 DEF Fire, FireFor, Due
  <2>2. tar_time + Period = first + (sent + 1) * Period
    BY <1>3
  <2>3. (sent + 1) - 1 = sent
    OBVIOUS
  <2>4. NotTooFast'
    BY <1>3, <2>1, <2>3 DEF Fire, FireFor
  <2>5. TypeOK'
    BY <1>3 DEF Fire, FireFor
  <2>6. PaceInv'
    BY <1>3, <2>2, <2>4 DEF Fire, FireFor
  <2>7. CalibrationInv' /\ AnswerInv'
    BY <1>3 DEF Fire, FireFor
  <2> QED
    BY <2>5, <2>6, <2>7
<1>4. CASE Send
  BY <1>4 DEF Send
<1>5. CASE Answer
  BY <1>5 DEF Answer
<1>6. CASE Recv
  <2> USE DEF Recv, Calibrate
  <2>1. /\ client_time_send \in Int /\ now \in Int /\ theta \in Int
        /\ server_time \in Int /\ client_time_send <= now
        /\ client_time_send + theta <= server_time
        /\ server_time <= now + theta
    BY <1>6
  <2>2. /\ Difference(client_time_send, now) \in Int
        /\ 2 * (Difference(client_time_send, now) - theta)
             <= (now - client_time_send) + 1
        /\ 2 * (theta - Difference(client_time_send, now))
             <= (now - client_time_send) + 1
    BY <2>1, DifferenceBounds
  <2>3. TypeOK' /\ PaceInv'
    BY <1>6, <2>1, <2>2
  <2>4. CalibrationInv'
    BY <1>6, <2>1, <2>2
  <2>5. AnswerInv'
    BY <1>6
  <2> QED
    BY <2>3, <2>4, <2>5
<1>7. CASE RecvNothing
  <2>1. Leftovers \subseteq Int
    OBVIOUS
  <2>2. server_time' \in Int
    BY <1>7, <2>1 DEF RecvNothing, DecodeLeftover
  <2>3. Half(2 * server_time' - now - client_time_send) \in Int
    BY <2>2, HalfBounds
  <2>4. TypeOK' /\ PaceInv'
    BY <1>7, <2>2, <2>3 DEF RecvNothing, DecodeLeftover
  <2>5. CalibrationInv' /\ AnswerInv'
    BY <1>7 DEF RecvNothing, DecodeLeftover
  <2> QED
    BY <2>4, <2>5
<1>8. CASE SendFails \/ RecvFails
  BY <1>8 DEF SendFails, RecvFails
<1>9. CASE UnitEnds
  BY <1>9 DEF UnitEnds
<1>10. CASE UNCHANGED vars
  BY <1>10 DEF vars
<1> QED
  BY <1>1, <1>2, <1>3, <1>4, <1>5, <1>6, <1>7, <1>8, <1>9, <1>10 DEF Next

\* The invariant holds throughout.
THEOREM Invariance == Spec => []Inv
BY InitInv, StepInv, PTL DEF Spec

\* All variables of the loop keep their types.
THEOREM LoopTypeCorrect == Spec => []TypeOK
<1>1. Inv => TypeOK
  BY DEF Inv
<1> QED
  BY <1>1, Invariance, PTL

\* With polls at most a period apart (listener.cpp:101) the loop never reaches
\* the state in which it can send no more.
THEOREM NeverWedged == Spec => []NotWedged
<1>1. Inv => NotWedged
  BY DEF Inv, TypeOK, PaceInv, NotWedged
<1> QED
  BY <1>1, Invariance, PTL

\* However late polls are, the client keeps within tcp_freq (listener.cpp:103).
THEOREM NeverTooFast == Spec => []NotTooFast
<1>1. Inv => NotTooFast
  BY DEF Inv, PaceInv
<1> QED
  BY <1>1, Invariance, PTL

\* The calibration (listener.cpp:143) is off by at most half its exchange.
THEOREM AlwaysCalibrated == Spec => []Calibrated
<1>1. Inv => Calibrated
  BY DEF Inv, CalibrationInv
<1> QED
  BY <1>1, Invariance, PTL

\* Whenever the unit ends the connection, no answer is decoded twice
\* (listener.cpp:127 to 133), however often the loop polls on.
THEOREM NeverAnswerTwice == Spec => []NoAnswerTwice
<1>1. Inv => NoAnswerTwice
  BY DEF Inv, TypeOK, AnswerInv, NoAnswerTwice
<1> QED
  BY <1>1, Invariance, PTL
=============================================================================
