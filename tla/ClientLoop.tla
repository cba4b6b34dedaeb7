----------------------------- MODULE ClientLoop -----------------------------
(***************************************************************************)
(* The loop of the two TCP clients, lidar_ros/src/listener.cpp and         *)
(* TCP_Scripts/test_tcp_3/TCP_Client2.c: a poll of the clock every         *)
(* millisecond, an exchange with the V2X unit whenever the next target     *)
(* time is reached, the calibration of the clock by the first answer, and  *)
(* what the client does when the unit ends the connection.                 *)
(*                                                                         *)
(* now is the client's clock; the unit's clock shows now + theta.          *)
(***************************************************************************)
EXTENDS Integers

CONSTANTS
    Period,        \* 1000000/tcp_freq
    FirstDelays,   \* from the start to the first tar_time
    StampAtPoll,   \* whether the exchange is stamped with the poll's reading of
                   \* the clock (TCP_Client2) or a later one (listener)
    Thetas,        \* how far the unit's clock may be ahead
    Leftovers,     \* times that a buffer never written to may decode to
    MaxGap,        \* the longest time from one poll of the clock to the next
    MaxNow         \* bound: the time at which the clock stops

ASSUME LoopAssumption ==
    /\ Period \in Nat \ {0} /\ MaxGap \in Nat \ {0}
    /\ FirstDelays \subseteq Nat /\ Thetas \subseteq Int
    /\ Leftovers \subseteq Int
    /\ StampAtPoll \in BOOLEAN /\ MaxNow \in Nat

VARIABLES
    now, theta,
    (* the pacing variables of the loop *)
    last_time, tar_time,
    (* the exchange: where the loop is, when it sent, the answer *)
    pc, client_time_send, server_time,
    (* the calibration *)
    dtime, count_calibr,
    (* the unit has ended the connection *)
    gone,
    (* history: the last poll, the first target, exchanges begun, the time the
       calibrating exchange took, answers given by the unit and decoded here *)
    lastPoll, first, sent, rtt, given, decoded

pacing == <<last_time, tar_time, lastPoll, first, sent>>
calibration == <<dtime, count_calibr, rtt, decoded>>
vars == <<now, theta, pacing, pc, client_time_send, server_time, calibration,
          gone, given>>

Init ==
    /\ now = 0 /\ theta \in Thetas
    /\ last_time = 0 /\ tar_time \in FirstDelays
    /\ pc = "poll" /\ client_time_send = 0 /\ server_time = 0
    /\ dtime = 0 /\ count_calibr = 0
    /\ lastPoll = 0 /\ first = tar_time /\ sent = 0 /\ rtt = 0
    /\ gone = FALSE /\ given = 0 /\ decoded = 0

----------------------------------------------------------------------------
\* Time passes in usleep(1000), in the exchange and while others run.
Tick ==
    /\ now < lastPoll + MaxGap /\ now < MaxNow
    /\ now' = now + 1
    /\ UNCHANGED <<theta, pacing, pc, client_time_send, server_time, calibration,
                   gone, given>>

\* Mutant of Due: the poll has to hit the target.
DueAtTarget == last_time <= tar_time /\ now = tar_time

\* if (last_time<=tar_time&&curr_time>=tar_time)
Due == last_time <= tar_time /\ now >= tar_time

PollIdle ==
    /\ pc = "poll" /\ now > lastPoll /\ ~Due
    /\ lastPoll' = now
    /\ UNCHANGED <<now, theta, last_time, tar_time, first, sent, pc,
                   client_time_send, server_time, calibration, gone, given>>

\* What a poll that finds the target reached changes, for the next target.
FireFor(next) ==
    /\ pc = "poll" /\ now > lastPoll /\ Due
    /\ tar_time' = next
    /\ last_time' = now
    /\ lastPoll' = now
    /\ sent' = sent + 1
    /\ pc' = "fired"
    /\ UNCHANGED <<now, theta, first, client_time_send, server_time, calibration,
                   gone, given>>

\* Mutant of Fire: targets are half a period apart.
FireHurried == FireFor(tar_time + (Period \div 2))

\* tar_time+=1000000/tcp_freq; last_time = curr_time
Fire == FireFor(tar_time + Period)

\* spinOnce() (in listener) has taken its time; send().
Send ==
    /\ pc = "fired"
    /\ client_time_send' = IF StampAtPoll THEN lastPoll ELSE now
    /\ pc' = "sent"
    /\ UNCHANGED <<now, theta, pacing, server_time, calibration, gone, given>>

\* send() to a unit that has gone raises SIGPIPE or returns -1.
SendFails ==
    /\ pc = "fired" /\ gone
    /\ pc' = "dead"
    /\ UNCHANGED <<now, theta, pacing, client_time_send, server_time, calibration,
                   gone, given>>

\* The unit answers with its clock (its first answer of the connection).
Answer ==
    /\ pc = "sent" /\ ~gone
    /\ server_time' = now + theta
    /\ given' = given + 1
    /\ pc' = "answered"
    /\ UNCHANGED <<now, theta, pacing, client_time_send, calibration, gone>>

\* The unit exits, crashes or closes the connection.
UnitEnds ==
    /\ ~gone
    /\ gone' = TRUE
    /\ UNCHANGED <<now, theta, pacing, pc, client_time_send, server_time,
                   calibration, given>>

\* C's division of a long by 2 rounds towards zero.
Half(x) == IF x >= 0 THEN x \div 2 ELSE -((-x) \div 2)

\* Mutant of Difference: the send time is added instead of subtracted.
DifferenceSign(send, recv) == Half(2 * server_time - recv + send)

\* dtime=(2*server_time-client_time_recv-client_time_send)/2
Difference(send, recv) == Half(2 * server_time - recv - send)

\* What is done with a decoded answer, for the value count_calibr gets.
Calibrate(count) ==
    /\ IF count_calibr = 0
         THEN /\ dtime' = Difference(client_time_send, now)
              /\ rtt' = now - client_time_send
         ELSE UNCHANGED <<dtime, rtt>>
    /\ count_calibr' = count
    /\ decoded' = decoded + 1
    /\ pc' = "poll"
    /\ UNCHANGED <<now, theta, pacing, client_time_send, gone, given>>

\* Mutant of Recv: count_calibr++ for count_calibr=1, every time.
RecvCountingUp ==
    pc = "answered" /\ Calibrate(count_calibr + 1) /\ UNCHANGED server_time

\* recv() returns an answer; the first one calibrates.
Recv == pc = "answered" /\ Calibrate(1) /\ UNCHANGED server_time

\* recv() returned 0 and the buffer still holds what it did before: if that is
\* text that can be decoded, it is.
DecodeLeftover(text) ==
    /\ pc = "sent" /\ gone /\ text
    /\ server_time' \in Leftovers
    /\ dtime' = IF count_calibr = 0
                  THEN Half(2 * server_time' - now - client_time_send) ELSE dtime
    /\ rtt' = rtt /\ count_calibr' = 1 /\ decoded' = decoded + 1
    /\ pc' = "poll"
    /\ UNCHANGED <<now, theta, pacing, client_time_send, gone, given>>

\* Mutant of RecvNothing: the last answer can be decoded once more.
DecodeLastAgain == DecodeLeftover(TRUE)

\* strtok() has cut an answer that was decoded after its first field; only a
\* buffer never written to may still hold one.  The byte before the buffer, which
\* buf[num-1] overwrites when num is 0, is taken to be of no use to the program.
RecvNothing == DecodeLeftover(given = 0)

\* recv() returned -1, or 0 and strtok() finds no second field: atoi(NULL).
RecvFails ==
    /\ pc = "sent" /\ gone
    /\ pc' = "dead"
    /\ UNCHANGED <<now, theta, pacing, client_time_send, server_time, calibration,
                   gone, given>>

Next == Tick \/ PollIdle \/ Fire \/ Send \/ SendFails \/ Answer \/ UnitEnds
          \/ Recv \/ RecvNothing \/ RecvFails

\* The loop is scheduled, a unit that is there answers, recv() returns when it has
\* gone, and time does not stand still.
Fairness == WF_vars(Tick) /\ WF_vars(PollIdle) /\ WF_vars(Fire)
              /\ WF_vars(Send \/ SendFails)
              /\ WF_vars(Answer \/ Recv \/ RecvNothing \/ RecvFails)

Spec == Init /\ [][Next]_vars
FairSpec == Spec /\ Fairness

----------------------------------------------------------------------------
(* Properties *)

TypeOK ==
    /\ now \in Nat /\ theta \in Int
    /\ last_time \in Nat /\ tar_time \in Nat
    /\ pc \in {"poll", "fired", "sent", "answered", "dead"}
    /\ client_time_send \in Nat /\ server_time \in Int
    /\ dtime \in Int /\ count_calibr \in {0, 1}
    /\ lastPoll \in Nat /\ first \in Nat /\ sent \in Nat /\ rtt \in Nat
    /\ gone \in BOOLEAN /\ given \in Nat /\ decoded \in Nat

\* If no two polls are more than a period apart the loop stays able to fire: a
\* poll that fires after last_time has passed the next target never fires again.
NotWedged == MaxGap <= Period => last_time <= tar_time

\* The k-th exchange never starts before the k-th target, so over any time the
\* client sends no more than tcp_freq asks for, bursts after a stall included.
NotTooFast == sent > 0 => first + (sent - 1) * Period <= now

\* The clock difference the first answer gives is off by at most half the time
\* that exchange took, rounding included, whichever clock is ahead.
Calibrated ==
    (count_calibr = 1 /\ given > 0) =>
                        /\ 2 * (dtime - theta) <= rtt + 1
                        /\ 2 * (theta - dtime) <= rtt + 1

\* No answer is decoded twice when the unit ends the connection, which the loop
\* does not test for; only a client never answered may decode what is no answer.
NoAnswerTwice == decoded <= given \/ given = 0

\* README.md:158 of the repository says of listener that it publishes the topic
\* "through tcp to the road side v2x device": a target that has come is always
\* followed by an exchange, as long as the clock goes on (bound: MaxNow) and the
\* client has not ended with the unit's connection.
KeepsSending ==
    \A k \in 0..(MaxNow \div Period) :
        (sent = k /\ tar_time <= now /\ now < MaxNow) ~> (sent > k \/ pc = "dead")

----------------------------------------------------------------------------
(* What makes the properties inductive *)

PaceInv ==
    /\ last_time <= lastPoll /\ lastPoll <= now /\ now <= lastPoll + MaxGap
    /\ MaxGap <= Period => lastPoll <= tar_time
    /\ tar_time = first + sent * Period
    /\ NotTooFast

CalibrationInv ==
    /\ pc \in {"sent", "answered"} => client_time_send <= now
    /\ pc = "answered" => /\ client_time_send + theta <= server_time
                          /\ server_time <= now + theta
    /\ Calibrated

\* Answers are decoded one by one until the unit is gone.
AnswerInv ==
    /\ given = 0 => (pc # "answered" /\ (decoded > 0 => gone))
    /\ given > 0 => given = decoded + (IF pc = "answered" THEN 1 ELSE 0)
    /\ count_calibr = 1 <=> decoded > 0

Inv == TypeOK /\ PaceInv /\ CalibrationInv /\ AnswerInv
=============================================================================
