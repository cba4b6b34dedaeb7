------------------------------ MODULE V2XRelay ------------------------------
(***************************************************************************)
(* The way of a lidar sample through the whole system: talker publishes    *)
(* it, listener stamps it with the road-side unit's time and sends it to   *)
(* that unit (lidar_send.c), which broadcasts it; the on-board unit        *)
(* (lidar_recv.c) stores what it hears and answers TCP_Client2, which      *)
(* computes from the stamp how old the position is and extrapolates it.    *)
(*                                                                         *)
(* Four clocks are involved, two computers' and two units', and any of     *)
(* them may be stepped at any time, by ntpclient or otherwise.  Each unit  *)
(* is its abstract record (SharedRecord, which LidarSend and LidarRecv are *)
(* shown to implement), of the doubles "pos" (any one coordinate) and      *)
(* "time", word by word, and shows the copies Regular allows; samples,     *)
(* requests and BSMs are named by when they were published and by their    *)
(* numbers.                                                                *)
(***************************************************************************)
EXTENDS Integers, Sequences, FiniteSets, UnixTime

CONSTANTS
    Handlers,      \* threads that may be inside lidar_send's transmit handler
    Halves,        \* the machine words of one double
    InOrder,       \* lidar_send's stores and loads take place in program order
    Offsets,       \* how far the hosts' clocks may be ahead of true time at first
    Settings,      \* which of them may be set, and how far ahead
    MaxSteps,      \* bound: steps of the hosts' clocks
    MaxNow,        \* bound: true time
    MaxAsked,      \* bound: requests of listener
    MaxAir,        \* bound: BSMs broadcast
    MaxHeard,      \* bound: BSMs received
    MaxAnswers     \* bound: requests of TCP_Client2

\* The computers of listener and TCP_Client2, and the units they talk to.
Hosts == {"pc", "rsu", "obu", "obpc"}

ASSUME RelayAssumption ==
    /\ Halves # {} /\ InOrder \in BOOLEAN
    /\ Offsets \subseteq [Hosts -> Int] /\ Settings \subseteq Hosts \X Int
    /\ MaxSteps \in Nat /\ MaxNow \in Nat /\ MaxAsked \in Nat /\ MaxAir \in Nat
    /\ MaxHeard \in Nat /\ MaxAnswers \in Nat

VARIABLES
    (* true time; how far the hosts' clocks are ahead of it, how often set *)
    now, off, steps,
    (* the sample waiting in the topic, or taken last, and how far ahead the
       clock was that stamped it *)
    topic,
    (* listener: where it is, its exchange, its calibration *)
    lpc, lsent, lserver, ldtime, lcalibr,
    (* the road-side unit: requests received, last one stored, handlers, air *)
    asked, stored, reading, air,
    (* the on-board unit: BSMs received, last one stored, copy being made *)
    heard, kept, copying,
    (* TCP_Client2: where it is, the answer, its calibration *)
    cpc, csent, answer, cdtime, ccalibr, exchanges,
    (* history of the exchanges that calibrated a client: how far ahead the
       unit's clock was, and the computer's when it sent and when it received
       together, and how long it took *)
    rsuAt, obuAt, pcAt, obpcAt, lrtt, crtt

clocks == <<now, off, steps>>
lvars == <<lpc, lsent, lserver, ldtime, lcalibr, rsuAt, pcAt, lrtt>>
rsuVars == <<asked, stored, reading, air>>
obuVars == <<heard, kept, copying>>
cvars == <<cpc, csent, answer, cdtime, ccalibr, exchanges, obuAt, obpcAt, crtt>>
vars == <<clocks, topic, lvars, rsuVars, obuVars, cvars>>

----------------------------------------------------------------------------
(* The two units *)

Words == {"pos", "time"} \X Halves

\* lidar_recv.c loads the time of an answer three times.
TimeLoads == {"sec", "time", "base"}
Loads == ({"pos"} \cup TimeLoads) \X Halves
Loaded(l) == IF l[1] \in TimeLoads THEN <<"time", l[2]>> ELSE l

\* Mutant of StampLag: the handler copies the position before the time.
StampAhead == IF InOrder THEN ({"pos"} \X Halves) \X ({"time"} \X Halves) ELSE {}

\* main() stores the time last and the handler copies it first, which orders the
\* words where the accesses take place in that order.
StampLag == IF InOrder THEN ({"time"} \X Halves) \X ({"pos"} \X Halves) ELSE {}

Rsu == INSTANCE SharedRecord WITH
    Readers <- Handlers, Lag <- StampLag,
    begun <- Len(asked), done <- stored, reading <- reading, shown <- {}

Obu == INSTANCE SharedRecord WITH
    Readers <- {"main"}, Lag <- {},
    begun <- Len(heard), done <- kept,
    reading <- [r \in {"main"} |-> copying], shown <- {}

\* The globals of a unit that has received nothing are zero.
NoRequest == [born |-> 0, ahead |-> 0, stamp |-> 0, calibr |-> 0]
NoBsm == [w \in Words |-> 0]
Request(k) == IF k = 0 THEN NoRequest ELSE asked[k]
Bsm(m) == IF m = 0 THEN NoBsm ELSE heard[m]

\* What a host's clock showed at a time, and where that is not used.
Reading(r) == r.at + r.ahead
Unread == [at |-> 0, ahead |-> 0]

NoAnswer == [floor |-> 0, top |-> 0, clock |-> 0]

Init ==
    /\ now = 1 /\ off \in Offsets /\ steps = 0
    /\ topic = [born |-> 0, ahead |-> 0]
    /\ lpc = "poll" /\ lsent = Unread /\ lserver = 0
    /\ ldtime = 0 /\ lcalibr = 0
    /\ asked = <<>> /\ stored = 0 /\ reading = [h \in Handlers |-> -1] /\ air = {}
    /\ heard = <<>> /\ kept = 0 /\ copying = -1
    /\ cpc = "poll" /\ csent = Unread /\ answer = NoAnswer
    /\ cdtime = 0 /\ ccalibr = 0 /\ exchanges = 0
    /\ rsuAt = 0 /\ obuAt = 0 /\ pcAt = 0 /\ obpcAt = 0 /\ lrtt = 0 /\ crtt = 0

----------------------------------------------------------------------------
Tick ==
    /\ now < MaxNow
    /\ now' = now + 1
    /\ UNCHANGED <<off, steps, topic, lvars, rsuVars, obuVars, cvars>>

\* ntpclient -s sets a host's clock, late or early, to about its server's.
Step(host, ahead) ==
    /\ steps < MaxSteps /\ off[host] # ahead
    /\ off' = [off EXCEPT ![host] = ahead]
    /\ steps' = steps + 1
    /\ UNCHANGED <<now, topic, lvars, rsuVars, obuVars, cvars>>

(* talker and listener *)

\* talker stamps a sample with its computer's clock; the queue keeps the last.
Publish ==
    /\ Len(asked) < MaxAsked
    /\ topic' = [born |-> now, ahead |-> off["pc"]]
    /\ UNCHANGED <<clocks, lvars, rsuVars, obuVars, cvars>>

\* C's division of a long by 2 rounds towards zero.
Half(x) == IF x >= 0 THEN x \div 2 ELSE -((-x) \div 2)

\* client_time_send=lidar_time_sec*1000000+lidar_time_usec+dtime, zero the time
\* of a sample not yet heard of.
StampOf(sample) == sample.born + sample.ahead + ldtime

RequestOf(sample) ==
    [born |-> sample.born, ahead |-> sample.ahead, stamp |-> StampOf(sample),
     calibr |-> IF sample.born = 0 THEN 0 ELSE lcalibr]

\* spinOnce() takes the sample that waits; it is stamped, sent and received by
\* main() of lidar_send.c, which begins to store it ...
ListenerSends ==
    /\ lpc = "poll" /\ Len(asked) < MaxAsked
    /\ asked' = Append(asked, RequestOf(topic))
    /\ lsent' = IF lcalibr = 0 THEN [at |-> now, ahead |-> off["pc"]] ELSE Unread
    /\ lpc' = "sent"
    /\ UNCHANGED <<clocks, topic, lserver, ldtime, lcalibr, rsuAt, pcAt, lrtt, air,
                   obuVars, cvars>>
    /\ Rsu!Begin

\* ... and answers once it has stored it, the first time with its clock.
RsuAnswers ==
    /\ lpc = "sent"
    /\ stored' = Len(asked)
    /\ IF lcalibr = 0
         THEN lserver' = now + off["rsu"] /\ rsuAt' = off["rsu"]
         ELSE UNCHANGED <<lserver, rsuAt>>
    /\ lpc' = "answered"
    /\ UNCHANGED <<asked, air, clocks, topic, lsent, ldtime, lcalibr, pcAt, lrtt,
                   obuVars, cvars>>
    /\ Rsu!End

\* dtime=(2*server_time-client_time_recv-client_time_send)/2
Difference(server, send, recv) == Half(2 * server - recv - send)

\* recv() returns: the first answer calibrates, the others are not used.
ListenerReceives ==
    /\ lpc = "answered"
    /\ IF lcalibr = 0
         THEN /\ ldtime' = Difference(lserver, Reading(lsent), now + off["pc"])
              /\ lrtt' = now - lsent.at
              /\ pcAt' = lsent.ahead + off["pc"]
         ELSE UNCHANGED <<ldtime, lrtt, pcAt>>
    /\ lcalibr' = 1
    /\ lpc' = "poll" /\ lsent' = Unread /\ lserver' = 0
    /\ UNCHANGED <<clocks, topic, rsuAt, rsuVars, obuVars, cvars>>

(* The broadcast *)

\* A transmit handler of lidar_send.c begins its copy ...
Expire(h) ==
    /\ Cardinality(air) < MaxAir
    /\ reading' = [reading EXCEPT ![h] = stored]
    /\ UNCHANGED <<asked, air, clocks, topic, lvars, obuVars, cvars>>
    /\ Rsu!StartRead(h)

\* The copies a handler may have made.
Copies(h) ==
    {word \in [Words -> reading[h]..Len(asked)] :
       Rsu!Regular([word |-> word, floor |-> reading[h]], reading[h], Len(asked))}

\* ... and broadcasts it.
Broadcast(h) ==
    /\ reading[h] >= 0
    /\ \E word \in Copies(h) : air' = air \cup {word}
    /\ reading' = [reading EXCEPT ![h] = -1]
    /\ UNCHANGED <<asked, clocks, topic, lvars, obuVars, cvars>>
    /\ Rsu!Show(h)

\* v2x_bsm_recv_handle() of lidar_recv.c is handed any BSM that is on the air,
\* early, late, out of order or once more, or never ...
ObuHears ==
    /\ kept = Len(heard) /\ Len(heard) < MaxHeard
    /\ \E word \in air : heard' = Append(heard, word)
    /\ UNCHANGED <<kept, copying, clocks, topic, lvars, rsuVars, cvars>>
    /\ Obu!Begin

\* ... and has stored it.
ObuStores ==
    /\ kept < Len(heard)
    /\ kept' = Len(heard)
    /\ UNCHANGED <<heard, copying, clocks, topic, lvars, rsuVars, cvars>>
    /\ Obu!End

(* TCP_Client2 *)

Client2Sends ==
    /\ cpc = "poll" /\ exchanges < MaxAnswers
    /\ exchanges' = exchanges + 1
    /\ csent' = IF ccalibr = 0 THEN [at |-> now, ahead |-> off["obpc"]] ELSE Unread
    /\ cpc' = "sent"
    /\ UNCHANGED <<clocks, topic, lvars, rsuVars, obuVars, answer, cdtime, ccalibr, obuAt,
                   obpcAt, crtt>>

\* main() of lidar_recv.c has decoded the request ...
ObuDecodes ==
    /\ cpc = "sent"
    /\ copying' = kept
    /\ cpc' = "taken"
    /\ UNCHANGED <<heard, clocks, topic, lvars, rsuVars, csent, answer, cdtime, ccalibr,
                   exchanges, obuAt, obpcAt, crtt>>
    /\ Obu!StartRead("main")

\* ... and answers it, the first time with its clock.
ObuAnswers ==
    /\ cpc = "taken"
    /\ IF ccalibr = 0
         THEN /\ answer' = [NoAnswer EXCEPT !.clock = now + off["obu"]]
              /\ obuAt' = off["obu"]
         ELSE /\ answer' = [floor |-> copying, top |-> Len(heard), clock |-> 0]
              /\ obuAt' = obuAt
    /\ copying' = -1
    /\ cpc' = "answered"
    /\ UNCHANGED <<heard, clocks, topic, lvars, rsuVars, csent, cdtime, ccalibr,
                   exchanges, obpcAt, crtt>>
    /\ Obu!Show("main")

\* Mutant of CommuDelay: dtime is taken off instead of added.
CommuDelaySign(server) == (now + off["obpc"]) - server - cdtime

\* commu_delay=client_time_recv-server_time+dtime
CommuDelay(server) == (now + off["obpc"]) - server + cdtime

\* What the answer under way may hold: any copy that the unit may have made.
Contents ==
    {word \in [Loads -> answer.floor..answer.top] :
       Obu!Regular([word |-> word, floor |-> answer.floor], answer.floor, answer.top)}

\* The request that a word of it came from, and the one that a time in it came
\* from if it was not torn.
Source(word, l) == Request(Bsm(word[l])[Loaded(l)])
Stamped(word, load) == Source(word, <<load, CHOOSE h \in Halves : TRUE>>)
Intact(word) ==
    \A load \in TimeLoads, h \in Halves : Source(word, <<load, h>>) = Stamped(word, load)

\* The two loads of whole seconds met times of one second.
OneSecond(word) ==
    WholeSeconds(Stamped(word, "sec").stamp) = WholeSeconds(Stamped(word, "base").stamp)

\* What server_time may be.
ServerTimes(word) ==
    ReplyTimes(Stamped(word, "sec").stamp, Stamped(word, "time").stamp,
               Stamped(word, "base").stamp)

\* recv() returns: the first answer calibrates, with the later ones the position
\* is extrapolated by CommuDelay of one of ServerTimes.
Client2Receives ==
    /\ cpc = "answered"
    /\ IF ccalibr = 0
         THEN /\ cdtime' = Difference(answer.clock, Reading(csent), now + off["obpc"])
              /\ crtt' = now - csent.at
              /\ obpcAt' = csent.ahead + off["obpc"]
         ELSE UNCHANGED <<cdtime, crtt, obpcAt>>
    /\ ccalibr' = 1
    /\ cpc' = "poll" /\ csent' = Unread /\ answer' = NoAnswer
    /\ UNCHANGED <<clocks, topic, lvars, rsuVars, obuVars, exchanges, obuAt>>

\* Bound: the last answer is not under way yet.
Followed == exchanges < MaxAnswers \/ cpc \in {"sent", "taken"}

Next ==
    \/ Tick \/ \E s \in Settings : Step(s[1], s[2])
    \/ Followed /\ (Publish \/ ListenerSends \/ RsuAnswers \/ ListenerReceives)
    \/ Followed /\ \E h \in Handlers : Expire(h) \/ Broadcast(h)
    \/ Followed /\ (ObuHears \/ ObuStores)
    \/ Client2Sends \/ ObuDecodes \/ ObuAnswers \/ Client2Receives

Spec == Init /\ [][Next]_vars

----------------------------------------------------------------------------
(* Properties *)

Phases == {"poll", "sent", "taken", "answered"}
RequestType == [born : Nat, ahead : Int, stamp : Int, calibr : {0, 1}]
AnswerType == [floor : Nat, top : Nat, clock : Int]
ReadingType == [at : Nat, ahead : Int]

TypeClocks ==
    /\ now \in Nat /\ off \in [Hosts -> Int] /\ steps \in Nat
    /\ topic \in [born : 0..now, ahead : Int]

TypeListener ==
    /\ lpc \in Phases /\ lsent \in ReadingType /\ lserver \in Int /\ ldtime \in Int
    /\ lcalibr \in {0, 1} /\ rsuAt \in Int /\ pcAt \in Int /\ lrtt \in Nat

TypeRsu ==
    /\ asked \in Seq(RequestType) /\ stored \in Nat
    /\ stored = IF lpc = "sent" THEN Len(asked) - 1 ELSE Len(asked)
    /\ reading \in [Handlers -> -1..Len(asked)]
    /\ \A word \in air : word \in [Words -> 0..Len(asked)]

TypeObu ==
    /\ heard \in Seq([Words -> Nat]) /\ kept \in {Len(heard), Len(heard) - 1} \cap Nat
    /\ copying \in -1..Len(heard)
    /\ (cpc = "taken") = (copying # -1)

TypeClient ==
    /\ cpc \in Phases /\ csent \in ReadingType /\ answer \in AnswerType
    /\ cdtime \in Int /\ ccalibr \in {0, 1} /\ exchanges \in Nat
    /\ obuAt \in Int /\ obpcAt \in Int /\ crtt \in Nat

\* Type correctness; samples are not from the future, and a unit is never more
\* than one BSM or request behind what it received.
TypeOK == TypeClocks /\ TypeListener /\ TypeRsu /\ TypeObu /\ TypeClient

\* x is off by at most half of duration, rounding included; both are doubled.
Within(x, duration) == x <= duration + 1 /\ -x <= duration + 1

\* What TCP_Client2 extrapolates by when it receives an answer is the true age of
\* the stamped sample, plus how much further ahead the on-board unit's clock was
\* than the road-side unit's when they calibrated their clients, plus how far
\* TCP_Client2's clock, and less how far listener's, has been set since, give or
\* take half of the calibrating exchanges and a microsecond of truncation.  What
\* the radio does and any later step of the units' clocks do not enter it.  It
\* takes that no time was torn and that the two loads of whole seconds met times
\* of one second: otherwise the delay is wrong by seconds.
DelayRight ==
    (cpc = "answered" /\ ccalibr = 1) =>
      \A word \in Contents :
        LET from == Stamped(word, "time")
            age == now - from.born
            units == obuAt - rsuAt
            set == (2 * off["obpc"] - obpcAt) - (2 * from.ahead - pcAt)
        IN  (from.calibr = 1 /\ Intact(word) /\ OneSecond(word)) =>
              \A server \in ServerTimes(word) :
                Within(2 * CommuDelay(server) - 2 * age - 2 * units - set,
                       lrtt + crtt + 3)

\* While lidar_send's accesses take place in order, and unless a BSM was received
\* while the answer was put together, no word of the position that is
\* extrapolated is older than any of the stamp, whatever BSMs were lost, repeated
\* or overtaken.
PositionFresh ==
    (InOrder /\ cpc = "answered" /\ ccalibr = 1 /\ answer.floor = answer.top) =>
      \A word \in Contents, load \in TimeLoads, g, h \in Halves :
        Source(word, <<load, g>>).born <= Source(word, <<"pos", h>>).born

----------------------------------------------------------------------------
(* What makes the properties inductive *)

\* The exchanges with listener, its calibration and the stamps it gives.
ListenerInv ==
    /\ lpc # "poll" => lsent.at <= now
    /\ (lpc = "answered" /\ lcalibr = 0) =>
          lsent.at + rsuAt <= lserver /\ lserver <= now + rsuAt
    /\ lcalibr = 1 => Within(2 * ldtime + pcAt - 2 * rsuAt, lrtt)

StampInv ==
    \A k \in 1..Len(asked) : asked[k].calibr = 1 =>
        /\ lcalibr = 1
        /\ Within(2 * (asked[k].stamp - asked[k].born - asked[k].ahead - rsuAt) + pcAt,
                  lrtt)

\* Samples are sent in the order in which they were published.
AskedInv ==
    /\ \A k \in 1..Len(asked) : asked[k].born <= topic.born
    /\ \A j, k \in 1..Len(asked) : j <= k => asked[j].born <= asked[k].born

\* The exchanges with TCP_Client2 and its calibration.
ClientInv ==
    /\ cpc # "poll" => csent.at <= now
    /\ (cpc = "answered" /\ ccalibr = 0) =>
          csent.at + obuAt <= answer.clock /\ answer.clock <= now + obuAt
    /\ ccalibr = 1 => Within(2 * cdtime + obpcAt - 2 * obuAt, crtt)

\* The stamp of a BSM is not newer than its position.
StampBehind(word) ==
    InOrder => \A g, h \in Halves : word[<<"time", g>>] <= word[<<"pos", h>>]

\* On its way the stamp stays behind the position, up to the answer.
RadioInv ==
    /\ \A word \in air : StampBehind(word)
    /\ \A m \in 1..Len(heard) : /\ StampBehind(heard[m])
                                /\ \A w \in Words : heard[m][w] <= Len(asked)
    /\ (cpc = "answered" /\ ccalibr = 1) =>
          answer.floor <= answer.top /\ answer.top <= Len(heard)

RelayInv == ListenerInv /\ StampInv /\ AskedInv /\ ClientInv /\ RadioInv
=============================================================================
