----------------------------- MODULE NtpClient -----------------------------
(***************************************************************************)
(* The clock client: NTP/ntpclient-2015/ntpclient.c, from the end of its   *)
(* option parsing to the end of primary_loop(), with the network and the   *)
(* server it talks to.                                                     *)
(*                                                                         *)
(* now is the server's time, now + offset this host's.  Datagrams stay in  *)
(* the network until delivered, perhaps never, in any order and, where     *)
(* Duplicates, more than once.  A probe is named by its number, as if no   *)
(* two probes ever carried the same 64-bit transmit timestamp.             *)
(***************************************************************************)
EXTENDS Integers, FiniteSets

CONSTANTS
    Counts, Goodnesses, Cycles,    \* values given with -c, -g and -i
    Lives, Sets, Checks,           \* whether -l, -s, and not -t, are given
    Offsets,                       \* how far off the clock may be at first
    MinInterval,                   \* MIN_INTERVAL
    Duplicates,                    \* whether the network duplicates
    MaxProbes, MaxMeasured,        \* bounds: probes sent, answers accepted,
    MaxInFlight                    \*   answers in the network at once

ASSUME NtpAssumption ==
    /\ Counts \subseteq Nat /\ Goodnesses \subseteq Nat /\ Cycles \subseteq Nat
    /\ Lives \subseteq BOOLEAN /\ Sets \subseteq BOOLEAN /\ Checks \subseteq BOOLEAN
    /\ Offsets \subseteq Int
    /\ MinInterval \in Nat \ {0}
    /\ Duplicates \in BOOLEAN
    /\ MaxProbes \in Nat /\ MaxMeasured \in Nat /\ MaxInFlight \in Nat

VARIABLES
    (* struct ntp_control *)
    probe_count, goodness, cycle_time, live, set_clock, cross_check, time_of_send,
    (* primary_loop(): where it is, probes sent, time left for select() *)
    pc, probes_sent, to,
    (* the clocks and the network *)
    now, offset, requests, replies,
    (* history: when the last probe was sent, answers accepted, samples given
       to the phase lock, the probe last answered, whether one was answered
       again, whether some answer's round trip beat the goodness *)
    lastSend, measured, fed, answered, repeated, beaten

control == <<probe_count, goodness, cycle_time, live, cross_check>>
answers == <<measured, fed, answered, repeated, beaten>>
vars == <<control, set_clock, time_of_send, pc, probes_sent, to, now, offset,
          requests, replies, lastSend, answers>>

NoProbe == [id |-> 0, org |-> 0, sent |-> 0]
Probes == [id : Nat, org : Int, sent : Nat]
Replies == [id : Nat, org : Int, sent : Nat, xmt : Nat, sane : BOOLEAN]

Init ==
    /\ probe_count \in Counts /\ goodness \in Goodnesses /\ cycle_time \in Cycles
    /\ live \in Lives /\ set_clock \in Sets /\ cross_check \in Checks
    /\ time_of_send = NoProbe
    /\ pc = "main" /\ probes_sent = 0 /\ to = 0
    /\ now = 0 /\ offset \in Offsets /\ requests = {} /\ replies = {}
    /\ lastSend = 0 /\ measured = 0 /\ fed = 0
    /\ answered = 0 /\ repeated = FALSE /\ beaten = FALSE

----------------------------------------------------------------------------
(* main(): what it makes of the options *)

\* Mutant of OneShot: the interval is enforced for one-shot use only.
OneShotInverted(count) == count # 1

\* The minimum interval of RFC 4330 does not bind a client that sends one probe.
OneShot(count) == count = 1

\* -s alone means -c 1.
EffectiveCount ==
    IF set_clock /\ ~live /\ goodness = 0 /\ probe_count = 0 THEN 1 ELSE probe_count

Start ==
    /\ pc = "main" /\ pc' = "select"
    /\ probe_count' = EffectiveCount
    /\ cycle_time' = IF ~OneShot(EffectiveCount) /\ cycle_time < MinInterval
                       THEN MinInterval ELSE cycle_time
    /\ UNCHANGED <<goodness, live, cross_check, set_clock, time_of_send,
                   probes_sent, to, now, offset, requests, replies, lastSend,
                   answers>>

----------------------------------------------------------------------------
(* primary_loop() *)

CountReached == probes_sent >= probe_count /\ probe_count # 0

\* Mutant of LastTimeout: with -l the loop goes on waiting.
LastTimeoutUnlessLive ==
    /\ pc = "select" /\ to = 0 /\ CountReached /\ ~live
    /\ pc' = "done"
    /\ UNCHANGED <<control, set_clock, time_of_send, probes_sent, to, now, offset,
                   requests, replies, lastSend, answers>>

\* select() times out after the last probe: the loop ends, also with -l.
LastTimeout ==
    /\ pc = "select" /\ to = 0 /\ CountReached
    /\ pc' = "done"
    /\ UNCHANGED <<control, set_clock, time_of_send, probes_sent, to, now, offset,
                   requests, replies, lastSend, answers>>

\* select() times out earlier: send the next probe.
SendProbe ==
    /\ pc = "select" /\ to = 0 /\ ~CountReached /\ probes_sent < MaxProbes
    /\ LET probe == [id |-> probes_sent + 1, org |-> now + offset, sent |-> now]
       IN  /\ time_of_send' = probe
           /\ requests' = requests \cup {probe}
    /\ probes_sent' = probes_sent + 1
    /\ to' = cycle_time
    /\ lastSend' = now
    /\ UNCHANGED <<control, set_clock, pc, now, offset, replies, answers>>

\* After an answer, or a failed recvfrom(): stop setting the clock, and stop,
\* once an answer is good enough or all probes are sent.
EndTest(error) ==
    LET enough == (error < goodness /\ goodness # 0) \/ CountReached
    IN  /\ set_clock' = (set_clock /\ ~enough)
        /\ pc' = IF enough /\ ~live THEN "done" ELSE pc

\* recvfrom() fails or returns a datagram of an impossible size.
RecvFails ==
    /\ pc = "select" /\ requests # {}
    /\ EndTest(goodness)
    /\ UNCHANGED <<control, time_of_send, probes_sent, to, now, offset, requests,
                   replies, lastSend, answers>>

\* Mutant of Sound: the originate timestamp is not compared.
SoundAnyOrigin(r) == cross_check => r.sane

\* The checks of rfc1305print(): sane stands for those on LI, VN, mode,
\* transmit time, delay, dispersion and stratum.
Sound(r) == cross_check => r.sane /\ r.id = time_of_send.id

Leave(r) == IF Duplicates THEN replies' \in {replies, replies \ {r}}
                          ELSE replies' = replies \ {r}

\* A datagram from another port, or one rfc1305print() rejects, is dropped.
Reject ==
    /\ pc = "select"
    /\ \E r \in replies : ~Sound(r) /\ replies' = replies \ {r}
    /\ UNCHANGED <<control, set_clock, time_of_send, pc, probes_sent, to, now,
                   offset, requests, lastSend, answers>>

\* el_time - st_time: this host's clock at arrival less the originate time.
Slop(r) == now + offset - r.org

\* What accepting answer r changes, with the uncertainty error.
AcceptAs(r, error) ==
    /\ pc = "select" /\ measured < MaxMeasured
    /\ Sound(r)
    /\ offset' = IF set_clock THEN r.xmt - now ELSE offset
    /\ fed' = IF live THEN fed + 1 ELSE fed
    /\ measured' = measured + 1
    /\ answered' = r.id
    /\ repeated' = (repeated \/ r.id = answered)
    /\ beaten' = (beaten \/ now - r.sent < goodness)
    /\ EndTest(error)
    /\ Leave(r)
    /\ UNCHANGED <<control, time_of_send, probes_sent, to, now, requests, lastSend>>

\* Mutant of AcceptReply: the uncertainty is what the clock was off by.
AcceptReplyBySkew == \E r \in replies : AcceptAs(r, now + offset - r.xmt)

\* An answer passes: step the clock, feed the phase lock, test for the end.
AcceptReply == \E r \in replies : AcceptAs(r, Slop(r))

----------------------------------------------------------------------------
(* The server and the passing of time *)

\* The server answers a probe, once or again, perhaps unsynchronised.
Serve ==
    /\ Cardinality(replies) < MaxInFlight
    /\ \E p \in requests, sane \in BOOLEAN :
         /\ replies' = replies \cup {[id |-> p.id, org |-> p.org, sent |-> p.sent,
                                      xmt |-> now, sane |-> sane]}
         /\ requests' \in {requests \ {p}} \cup (IF Duplicates THEN {requests} ELSE {})
    /\ UNCHANGED <<control, set_clock, time_of_send, pc, probes_sent, to, now,
                   offset, lastSend, answers>>

\* Mutant of Tick: select() is given a wait already over.
TickOverrun ==
    /\ pc = "select" /\ to > -1
    /\ now' = now + 1 /\ to' = to - 1
    /\ UNCHANGED <<control, set_clock, time_of_send, pc, probes_sent, offset,
                   requests, replies, lastSend, answers>>

\* select() waits; the loop handles a timeout before time moves on.
Tick ==
    /\ pc = "select" /\ to > 0
    /\ now' = now + 1 /\ to' = to - 1
    /\ UNCHANGED <<control, set_clock, time_of_send, pc, probes_sent, offset,
                   requests, replies, lastSend, answers>>

Next == \/ Start \/ LastTimeout \/ SendProbe
        \/ RecvFails \/ Reject \/ AcceptReply
        \/ Serve \/ Tick

\* The process runs and time passes; no datagram need ever arrive.
Fairness == WF_vars(Start) /\ WF_vars(LastTimeout) /\ WF_vars(SendProbe)
              /\ WF_vars(Tick)

Spec == Init /\ [][Next]_vars
FairSpec == Spec /\ Fairness

----------------------------------------------------------------------------
(* Properties *)

TypeOK ==
    /\ probe_count \in Nat /\ goodness \in Nat /\ cycle_time \in Nat
    /\ live \in BOOLEAN /\ set_clock \in BOOLEAN /\ cross_check \in BOOLEAN
    /\ time_of_send \in Probes
    /\ pc \in {"main", "select", "done"}
    /\ probes_sent \in Nat /\ to \in Nat
    /\ now \in Nat /\ offset \in Int
    /\ requests \subseteq Probes /\ replies \subseteq Replies
    /\ lastSend \in Nat /\ measured \in Nat /\ fed \in Nat /\ answered \in Nat
    /\ repeated \in BOOLEAN /\ beaten \in BOOLEAN

\* RFC 4330's "MUST NOT send more often than every 15 seconds": whatever the
\* options and whatever arrives meanwhile, probes are MinInterval apart.
ProbesApart ==
    [][probes_sent' # probes_sent /\ probes_sent > 0
         => now - lastSend >= MinInterval]_vars

\* However datagrams are delayed and duplicated, with cross-checking a step
\* leaves the clock behind the server's, never ahead, by at most one cycle.
StepWithinCycle ==
    [][offset' # offset /\ cross_check
         => offset' <= 0 /\ -offset' <= cycle_time]_vars

\* However datagrams are delayed, with cross-checking, a loop that was to go on
\* until an answer is good enough stops only after such an answer, unless it
\* took two answers to one probe.
StopsOnceGood ==
    (pc = "done" /\ probe_count = 0 /\ cross_check /\ ~repeated) => beaten

\* With a probe count the client stops, even if nothing is ever answered.
Terminates == (probe_count # 0) ~> (pc = "done")

\* ntpclient README:149: with -s and -l the client "will jump-set first and
\* then phase lock": no step of the clock once the phase lock has a sample.
JumpThenLock == [][offset' # offset => fed = 0]_vars

----------------------------------------------------------------------------
(* What makes ProbesApart, StepWithinCycle and StopsOnceGood inductive *)

\* The timeout of select() measures the time since the last probe.
TimerInv ==
    /\ pc = "main" => probes_sent = 0 /\ to = 0
    /\ pc # "main" => probe_count = 1 \/ cycle_time >= MinInterval
    /\ probes_sent > 0 => /\ now - lastSend = cycle_time - to
                          /\ to <= cycle_time

\* An answer to the last probe was stamped since that probe was sent.
StampInv ==
    /\ time_of_send.id = probes_sent
    /\ lastSend <= now
    /\ \A p \in requests : p.id \in 1..probes_sent
    /\ \A r \in replies : /\ r.id \in 1..probes_sent
                          /\ r.xmt <= now
                          /\ r.id = probes_sent => lastSend <= r.xmt

\* While the last probe is unanswered the clock still runs as it did when that
\* probe was stamped, so the round trip of its first answer is measured right.
OriginInv ==
    /\ answered <= probes_sent
    /\ \A p \in requests : p.id = probes_sent => p = time_of_send
    /\ \A r \in replies : r.id = probes_sent => /\ r.org = time_of_send.org
                                               /\ r.sent = time_of_send.sent
    /\ (cross_check /\ answered # probes_sent)
         => time_of_send.org = time_of_send.sent + offset

Inv == TypeOK /\ TimerInv /\ StampInv /\ OriginInv /\ StopsOnceGood
=============================================================================
