# V2X_SJTU: a verification project

TLA+ models of the programs of this repository that run with state and
concurrency, TLC runs that check them on small instances, and TLAPS proofs of
their main properties for all values of the constants. Paths below are relative
to `src/`.

## 1. The system

A lidar by the road measures a vehicle; the road-side V2X unit broadcasts the
sample; the unit on board receives it, and the vehicle's controller extrapolates
the position by the measured delay.

    talker --topic--> listener --TCP--> lidar_send  ~~radio~~>  lidar_recv --TCP--> client2
                               <--TCP--             <~~radio~~             <--TCP--
                         (angle, time)                             (angle)
    ntpclient  <--UDP-->  an NTP server          (on hosts whose clocks matter)

| Component | Source | State | Operations | Modelled by |
|---|---|---|---|---|
| road-side unit | `mde/mocar/samples/lidar_send/lidar_send.c` | globals `x_recv … unixtime_send`, `angle_recv`, `msgcount`; armed timers; one TCP connection | `main()`, timer handler, receive callback | `LidarSend` |
| on-board unit | `mde/mocar/samples/lidar_recv/lidar_recv.c` | the same globals, used the other way round | the same | `LidarRecv` |
| `talker` | `lidar_ros/src/talker.cpp` | the sample | publish with the present time | `V2XRelay` |
| `listener` | `lidar_ros/src/listener.cpp` | last sample; `last_time`, `tar_time`, `dtime`, `count_calibr` | topic callback, timed exchange, calibration | `ClientLoop`; its side of the connection in `LidarSend`; its stamps in `V2XRelay` |
| `client2` | `TCP_Scripts/test_tcp_3/TCP_Client2.c` | as `listener`, and the delay | timed exchange, calibration, extrapolation | `ClientLoop`; its side of the connection in `LidarRecv`; the delay in `V2XRelay` |
| `ntpclient` | `NTP/ntpclient-2015/ntpclient.c` | `struct ntp_control`, the host's clock | probe, check and accept an answer, step the clock, stop | `NtpClient` |
| phase lock | `NTP/ntpclient-2015/phaselock.c` | ring of 16 measurements, two hulls | `contemplate_data()` | `PhaseLock` |
| chat pair | `TCP_Scripts/test_tcp_1`, `test_tcp_2` | one buffer each, one connection | read a line, send, receive | `ChatPair` |
| vendor samples | `mde/mocar/samples/{bsm,map,rsa,rtcm,spat,srm,ssm,tim}` | `msgcount`; the parts of one message | boot, fill, send, free | `SampleTx` |
| echo server, first client, `adjtimex`, awk/perl tools, SDK headers | see `PROJECT.json` | none, or the data only | | not modelled |

How they interact:

* **Threads of a unit** share globals with no lock. `main()` runs the TCP
  side; each expiry of each armed 50 ms timer starts a thread (`SIGEV_THREAD`)
  that fills and sends a BSM; the stack calls the receive callback in a thread of
  its own. Every accepted connection creates one more timer, and none is ever
  deleted.
* **Client and unit** exchange one message each way, in lockstep: the client
  blocks in `recv()` after each `send()`. The first answer of a connection
  carries the unit's clock, and the client calibrates with it.
* **`ntpclient`** exchanges UDP datagrams with a server and steps or slews the
  clock that the other programs on that host read.

What is hard: memory shared word by word between threads (a `double` is two
words on the 32-bit ARM target); clients that vanish at any moment; a client
that must catch up without flooding and without stopping; datagrams lost,
delayed and duplicated while the very clock that times them is stepped.
`PROJECT.json` lists each hazard at its line.

Correct means, for each component:

* road-side unit: a BSM is not older than what its handler could have read, does
  not pretend to be newer than it is, is numbered; every request is answered
  once; exactly the first answer calibrates; the unit survives its clients;
* on-board unit: an answer is from BSMs of the moment it was formatted and has a time
  that was received, but for a microsecond and the crossing of a second; the angle sent
  is current; the client is not left waiting;
* the clients: never faster than asked for, never silent for ever, calibrated to
  half an exchange;
* `ntpclient`: not faster than RFC 4330 allows, never misled by an old or
  duplicated answer by more than a cycle, stops when and only when it should;
* phase lock: the lines it calls consistent are those that are, the host's true
  rate among them, and it never steers the wrong way;
* the whole: where the stamp was put together within one second, the delay `client2`
  extrapolates by is the sample's true age, up to the disagreement of the clocks, and
  the position it extrapolates is as fresh as its stamp;
* the samples: no part of a message is lost or used when memory runs out, and what is
  sent is complete;
* the chat pair: the users take turns, and neither program is left blocked.

## 2. Modules

| Module | What it is |
|---|---|
| `LidarSend`, `MCLidarSend`, `LidarSendProofs` | the road-side unit and its client; symmetry for TLC; theorems |
| `LidarRecv`, `MCLidarRecv`, `LidarRecvProofs` | the on-board unit and its client |
| `ClientLoop`, `MCClientLoop`, `ClientLoopProofs` | timing and calibration of both clients |
| `NtpClient`, `MCNtpClient`, `NtpClientProofs` | the clock client with network, server and clocks |
| `UnixTime` | how an answer's time is put together from three loads of a double, for `LidarRecv` and `V2XRelay` |
| `SharedRecord` | abstract: a record one thread writes and others copy, which both units implement |
| `V2XRelay`, `MCV2XRelay`, `V2XRelayProofs` | the whole way of a sample, units abstracted to `SharedRecord` |
| `PhaseLock`, `MCPhaseLock`, `PhaseLockProofs` | the phase lock of the clock client, with the clock it disciplines |
| `SampleTx`, `SampleTxProofs` | the eight vendor samples (no MC module needed) |
| `ChatPair`, `ChatPairProofs` | the two chat programs (no MC module: a .cfg can write its constants) |

### LidarSend

| In the model | In the code |
|---|---|
| `pc` | where `main()` is: `accept()`, `recv()`, decoding, returned (`exited`) or faulted (`crashed`) |
| `mem[<<field, half>>]` | one machine word of `x_recv … unixtime_send`; its value is the number of the sample it came from |
| `req`, `todo` | the request being decoded, the words still to be assigned |
| `tx[h]` | the locals of one run of `v2x_bsm_tx_handle()`: what it read so far |
| `timers` | timers created (line 281); `TimerLimit` is the system's limit |
| `air` | BSMs transmitted, with `seq` (order of the handlers' start) and `floor` (last request answered at that start), which the code does not have |
| `conn`, `inbox`, `outbox` | the connection: queued in the backlog, hung up in there, open, closed by the client; what is in flight each way |
| `waiting`, `calibrated`, `sample` | the client: blocked in `recv()`, `count_calibr` of the client, number of the latest lidar sample |
| `started`, `overlapped`, `acked` | history for the properties |

Actions: `Accept`, `AcceptFails` (261–293: registering, creating, arming a timer),
`Recv`, `RecvEnd`, `Store` (one word of the assignments 302–314), `Crash` (a
message cut short: `strtok()` returns NULL and `atoi(NULL)` faults), `Reply`;
`Expire`, `LoadCount`, `LoadInc`, `StoreInc` (`msgcount++` is not atomic),
`LoadWord`, `SendBsm`; `RecvBsm`; and the client's `Connect`, `NewSample`,
`ClientSend`, `ClientRecv`, `ClientClose`.

### LidarRecv

As `LidarSend` with the data flowing the other way. `Receive` and `StoreWord` are
`v2x_bsm_recv_handle()` (203–211), `heard` the time stamps of the BSMs so far;
`Decoded`, `LoadWord`, `Reply` are the formatting of an answer (319–335). The answer's
time expression loads `unixtime_recv` three times: the loads `"sec"`, `"time"` and
`"base"` of `TimeLoads`. `ReplyTimes` of `UnixTime` puts them together as the code and
the client do: `(long)((unixtime_recv-(long)unixtime_recv)*1000000)` cuts off the
fraction of a double that lies up to an eighth of a microsecond beside the time it
stands for, so the result is exact or one nearer to zero (`Truncations`). Timer handlers
take only `angle_recv` from `main()`.

### SharedRecord and the refinements

The globals of a unit are written by one thread and copied by others with no
lock. `SharedRecord` says what that amounts to: a value is begun and ended, a
copy is begun and shown, and every word of it comes from a value no older than
the last one ended when it began and no newer than the last one begun when it
ends; for the pairs in `Lag`, one word is never newer than the other. Three
refinements instantiate it: `LidarSend!BroadcastsRecord` (handlers copy what
`main()` decodes; `Lag` pairs the time with the position when accesses are in
program order), `LidarRecv!AnswersRecord` (`main()` copies what the receive
thread stores) and `LidarRecv!BroadcastsAngles` (handlers copy the angle). Each is
checked as a property and proved. `V2XRelay` uses the abstract record in place of
the units: its actions of a unit contain the corresponding action of
`SharedRecord` (`Rsu!Begin`, `Obu!Show("main")`, ...).

### V2XRelay

True time is `now`; `off` says how far ahead of it the clocks of the four hosts are,
two computers and two units, and `Step` is `ntpclient -s` on any of those that
`Settings` names. A sample is named by the time it was published (0: none yet), and
goes with how far ahead the clock was that stamped it. `asked` are the requests
`lidar_send` received, `heard` the BSMs `lidar_recv` received: any that is on the `air`,
so a BSM may be lost, repeated or overtaken. A record is a position and a time, each of
the words `Halves`; `StampLag` orders the words of a BSM only where `InOrder` says that
the accesses take place in program order, as `LidarSend` does. An answer loads the
position once and the time three times, word by word (`Loads`): `Contents` are all the
copies `SharedRecord` allows it, from any mixture of BSMs, and `ServerTimes` what
`client2` may read in it. `Difference` is the calibration, `StampOf` what `listener`
puts on a sample, `CommuDelay` what `client2` extrapolates by.

### ClientLoop

`Fire`/`PollIdle` are the test and the assignments of `listener.cpp:98–105`
(`TCP_Client2.c:78–85`), `Send`, `Answer`, `Recv` the exchange and the calibration
(`listener.cpp:106–146`), `Tick` the passing of time in sleeps, in the exchange
and while others run. `StampAtPoll` tells the two clients apart: `client2` stamps
its message with the reading of the poll, `listener` reads the clock again after
`ros::spinOnce()`. `Half` is C's division, towards zero. `UnitEnds` closes the
connection at any point: `SendFails` and `RecvFails` are the client's death,
`RecvNothing` what the untested `recv()` of 0 bytes leads to. `strtok()` cut the
buffer when it was decoded, so the second field of old text is missing and
`atoi(NULL)` faults; only a buffer that never received anything may hold text
(`Leftovers`, any times) that decodes. With nothing received the code also writes a
zero before the buffer (`buf[num-1]`, `listener.cpp:127`, `TCP_Client2.c:104`): undefined
in C, and left out of the model.

### NtpClient

`Start` is what `main()` makes of the options (670–704), the rest
`primary_loop()`: `LastTimeout`, `SendProbe` (the two outcomes of a timeout),
`RecvFails`, `Reject`, `AcceptReply` (the outcomes of a datagram), `EndTest` what
follows every datagram but a rejected one. `Serve` is the server, `Tick` is
`select()` counting down its timeout. The clock is `now + offset`.

### PhaseLock

`d_ring` is the ring, oldest first, with times relative to the newest (the code uses
differences only). `Envelope` is pass 1, `maxseg`/`minseg` with
`MinCrossings`/`MaxCrossings` the walks of passes 2 and 3, `Corners` and `polygon` the
splice of pass 4, `find_df`, `Delta` and `delta_freq` pass 5, `Clamped` lines 328-329.
`Hosts` says how an oscillator drifts and at what frequency it runs when `ntpclient`
starts, which may be beyond the limit: the kernel allows ±500 ppm and `-f`
(`ntpclient.c:622-626`) is not checked. `Answers` are an error and an error bar, which
is negative where `min_delay` (line 206) is more than the code measured. With such bars
the two crossings may lie so that line 175 divides by zero or by a negative number
(`Den`); the conversion of no number to `int` may yield anything (`computed_freq`). The
entries of the segment arrays are sets: the order in which corners are visited is
irrelevant to a minimum, and the entries which lines 281, 291, 297 and 307 overwrite are
not read afterwards. `Measure` is the caller (`ntpclient.c:403-415`): the host's clock
drifts by `drift + freq` between answers, the server's answer confines the skew to a bar
that it may miss. `SetTime` is a step by `set_time()` under the lock. Doubles are exact
rationals on a grid (the module's header gives the units), so ties are exact: every
distance of two times in a ring, at most `(RING_SIZE - 1) * MaxGap`, divides `Scale`,
hence every slope is an integer and `\div` loses nothing (`LineThrough`). The recursion
over the ring is by recursive functions.

### SampleTx

`sample` is which of the eight programs runs. Its record in `Plans` lists the `calloc()`
calls of its fill function: for each, whose pointer the code tests afterwards (`tests`),
through which pointers the free function reaches the part (`within`), and whether it is
kept in a local variable until the end (`late`). `Alloc` is any of the calls, which may
fail; `Test` looks at the pointer named; `Write` or, when it is NULL, `WriteNull` fills
the part through its own pointer. `Boot` is `main()`; `Expire`, `Number`, `LoadInc`,
`StoreInc`, `Filled`, `Send`, `Free` the rest of the transmit handler. `Reachable` is what
the free function of the stack finds by following the message's pointers.

### ChatPair

`pc[s]` is what side `s` blocks on: the keyboard (`type`) or the socket (`wait`).
`keyboard[s]` counts the bytes of the line entered that are still unread,
`stream[s]` those on the way to `s`. `Write` reads at most `sizeof(buf)-1` bytes,
cuts off the last and writes the rest, perhaps nothing (`tcp_client.c:56–72`);
`Receive` takes some or all of what is on the way; `PeerGone` is a socket read that
returns 0 or -1. The clients read `sizeof(buf)` bytes and then end the text with
`buf[size]` (`test_tcp_1/tcp_client.c:73-76`, `test_tcp_2/tcp_client.c:61-64`), one byte
beyond a buffer that was filled, which takes a peer that wrote several pieces in a row;
the size is modelled, the write beyond is undefined in C and left out.

## 3. Runs

| Run | Question | Instance |
|---|---|---|
| `rsu_broadcast` | Is what handlers broadcast, while `main()` decodes requests under their hands, what copies of an atomic writer's record may show, with no stamp newer than the data and the right number? `BroadcastsRecord`, `StampNotNewer`, `NumberedInOrder` | 1 handler at a time, 2 samples, 3 expiries, 5 fields of one word, numbers modulo 2 |
| `rsu_session` | Is each request answered once, each client calibrated by its first answer only, and does the unit come back to `accept()` whatever clients do? `TypeOK`, `OneAnswerPerRequest`, `CalibrationAnswer`, `RequestAnswered`, `BackToAccept` | 3 connections, 2 timers, whole and truncated messages |
| `obu_reply` | Which BSMs may an answer mix, and is its time one that was received, or the microsecond before? `AnswersRecord`, `ReplyTimeHeard` | 3 BSMs at times 4, 5, 6 with a second boundary at 6, 2 coordinates |
| `obu_session` | Is the client answered and calibrated, and the angle on the air current? `TypeOK`, `CalibrationAnswer`, `BroadcastsAngles`, `ClientAnswered` | 3 connections, 2 timers, 2 requests, doubles of two words |
| `loop_paced` | Does the client keep sending, not too fast, well calibrated, and take no answer twice when the unit goes? `TypeOK`, `NotWedged`, `NotTooFast`, `Calibrated`, `NoAnswerTwice`, `KeepsSending` | period 4, gaps up to 4, clocks 2 behind to 2 ahead, 13 ticks |
| `relay` | Is the delay right and the position as fresh as its stamp, over four clocks and a radio that loses, delays, repeats and reorders? `DelayRight`, `PositionFresh` | 2 requests, 2 BSMs broadcast and 2 received, in either order, either one twice or one only; 2 exchanges of client2, 3 ticks to a second; clocks 2 to 5 ahead, one tick, one step back of the clock of client2's computer |
| `ntp_loop` | Are probes spaced, steps bounded, stops justified and certain? `TypeOK`, `StopsOnceGood`, `ProbesApart`, `StepWithinCycle`, `Terminates` | every option, a clock 6 ticks behind or ahead, 2 probes, 2 accepted answers, duplicates |
| `phase_lock` | Does the lock find exactly the consistent lines, keep the true rate among them, find the least shift and steer the right way? `TypeOK`, `BoxExact`, `TruthInBox`, `LeastShift`, `SteersRight` | a ring of 4, 5 measurements, 2 gaps; answers within their bar, early and late, and with a negative bar; a slow host, and a fast one that starts beyond the frequency limit |
| `samples` | What is lost, or dies, when an allocation fails, and is anything incomplete sent? `TypeOK`, `LeakOnlyTimFrame`, `CrashOnlySpatEvent`, `SentWhole` | all eight, 2 handlers at once, 3 expiries, 32 movement states (up to 34 allocations) |
| `chat` | When do the programs block each other, talk at once, or outlive their peer? `TypeOK`, `StuckOnlyAfterMultiple`, `InTurn`, `EndsWithPeer` | a buffer of 4, lines of 0 to 4 and of 6 characters, 4 lines |
| `loop_stall`, `ntp_set_and_lock` | Does the code do what its README says of it? It does not (section 6). | one property each, the smallest instance that shows it |

All passing runs finish with no error. `CHECK_DEADLOCK FALSE` is set because every
model may stop: at its bounds, and in the code when `main()` returns, the
process faults or the client is told to stop after a count.

**Bounds and why they are enough.** A stale or torn value needs one old and one new
sample: two samples or requests, three BSMs (one whole, one being stored when the
formatting begins, one arriving meanwhile). `MsgCountMod = 2` makes the counter wrap
within three expiries. Three connections with two timers let one client's state leak
into the next and reach the limit of `timer_create()`. Times 4, 5, 6 with 3 ticks to the
second give two BSMs of one second and one of the next. A period of 4 ticks with gaps up
to 4 puts polls before, at and after a target. Two probes with a cycle of 1 (raised to
3) and of 4 let an answer arrive before and after the next probe. A buffer of 4 makes
lines of 0, 3 and 6 characters whole multiples of 3, the others not. A ring of 4 has
hulls of one to three segments, interior corners and one measurement that falls out of
it; 5 measurements let a correction be felt by the next; a ring that mixes two settings
of the clock (`ntpclient`'s `-s` with `-l`) may have no consistent line; the code's ring
of 16 is covered by the theorems, for which any size will do. In `relay` two requests
mix in a BSM and two BSMs in an answer, the tick may fall into an exchange, between
exchanges or on the way, and with 3 ticks to a second the two stamps lie in one second
or in two; longer times, torn doubles, steps of the other three clocks and any number of
handlers are covered by the theorems, which have no bound. A frequency of 5 with a limit
of 3 is beyond it by more than one correction in some rings, by less in others.
`rsu_broadcast` runs one handler with accesses in program order and whole doubles;
overlapping handlers, torn doubles and accesses in any order are covered by the theorems
of section 5, which have no bound on any of these. `MaxSample`, `MaxTx`, `MaxConn`,
`MaxBsm`, `MaxRequest`, `MaxProbes`, `MaxMeasured`, `MaxInFlight`, `MaxNow`, `MaxLines`,
`MaxAsked`, `MaxAir`, `MaxHeard`, `MaxAnswers`, `MaxSteps` are bounds in guards; no
program has them. The relay's run ends with the last answer (`Followed`). The invariants
do not depend on them. `KeepsSending` is stated for targets before `MaxNow`, where the
clock stops.

**Fairness.** Units: weak fairness of `Main` only. The kernel runs a ready
thread; a client need never send, a timer need never be served, no BSM need
arrive. `RequestAnswered`, `BackToAccept` and `ClientAnswered` allow for the
client's disappearance and the unit's death. Clients: weak fairness of every
action but `UnitEnds`; the loop is an ordinary process, a unit that is there answers
(which `RequestAnswered` and `ClientAnswered` show of the units), and `recv()` returns
when it is gone. `V2XRelay`, `PhaseLock` and `SampleTx` state safety only. `ntpclient`: weak
fairness of its own steps and of time; nothing of the network or the server, so
`Terminates` holds with all answers lost. Chat pair: weak fairness of reads of the
socket that can return; users need not type.

**Mutants.** Next to some definitions a mutant, commented as such, makes a
plausible mistake (a reset forgotten, the time stored first, a check dropped);
each property of each passing run is violated by one.

## 4. What the models assume

* The target is a 32-bit ARM, compiled without optimisation: a word is stored or loaded
  at once, a `double` in two steps. Accesses of different words may be reordered within
  a request, a handler or an answer (`InOrder = FALSE` in `LidarSend`; always in
  `LidarRecv`), not across the system calls that separate requests. `InOrder = TRUE` is
  thus more than the target grants: what `StampNotNewer` and `PositionFresh` say is said
  for it alone, and nothing takes its place where the accesses are reordered.
  `angle_recv` in `LidarSend` is atomic: no property is about it.
* Values are named by the sample, BSM or request they came with; what
  `sprintf()`/`strtod()` make of a number is left out. The conversion of the time in an
  answer (`lidar_recv.c:331`) is in `UnixTime`, with the microsecond that truncation
  takes; times are whole microseconds, not negative, and small enough for a double to
  tell them apart.
* Clients keep lockstep, so a message never shares the wire with another; a
  message may be cut, at the end of a field. What stays in the buffer from an
  earlier message is ignored.
* A unit's answer to a client that is gone is lost; the signal that a second
  write would raise cannot occur, as `main()` reads between writes.
* Failure to register, create or arm ends `main()`; arming is part of creating.
* The stack calls the receive callback from one thread, from the first
  registration on.
* NTP: no two probes carry the same 64-bit timestamp; the loop serves a timeout
  before the clock moves on; set-up and `-r` replay, a failing clock call
  (which exits), a negative `-i` and fractions of the time unit are left out;
  so is what slewing does to the clock between two steps, hence `-l` only
  counts the samples fed to the phase lock, which `PhaseLock` takes up. Loss is implicit: a
  datagram need not be delivered.
* Phase lock: two measurements are 1 to `MaxGap` units of time apart and the times in
  the ring are exact, though the code passes `arrival->coarse` (`ntpclient.c:411`),
  whole seconds of the host's own clock, which is off by its drift and by up to a
  second; frequency and skew lie on a grid. The code bounds no gap; `MaxGap` only makes
  a `Scale` exist that all distances divide (600 s is a unit by choice: any other does
  as well). The kernel takes the frequency it is given at once.
* Relay: the units are their records; one exchange is in flight at a time for each
  client; true time is whole ticks, so `DelayRight` allows for the rounding of two
  divisions. Any clock may be stepped during or after a calibrating exchange: what the
  unit's clock was ahead when it was read (`rsuAt`, `obuAt`) and the computer's when the
  request was sent and when the answer came, added up (`pcAt`, `obpcAt`), is what
  counts. `DelayRight` speaks of answers none of whose three loads of the time is torn
  and whose two loads of whole seconds met one second; of others the delay is wrong by
  whole seconds or worse, in the code as in the model.
* Samples: a failed `calloc()` is the only failure inside a fill function; the free
  function of the binary stack follows the message's pointers.
* The client's clock in `ClientLoop` is not stepped during the run.
* Chat pair: every line ends with a newline, the input ends between lines, and the
  text itself does not matter.

## 5. Theorems

All are proved by TLAPS for every value of the constants that satisfies the
module's `ASSUME`, which only types the constants (`Halves` nonempty, moduli and
periods positive); `PhaseLock`'s also says that the grid is fine enough (`Scale`).

* **LidarSend.** `TypeCorrect`. `BroadcastNotStale`: no BSM is older than the
  last request answered before its handler started, with any number of handlers
  and any order of accesses. `BroadcastStampNotNewer`: with accesses in program
  order a BSM's time is no newer than any word of its position.
  `NumberedUnlessOverlap`. `NotStale` is not inductive: a handler's half-made
  copy and `main()`'s half-done stores must be described. `DataInv` adds that
  requests are served in order (`ServedInOrder`), that what need no
  longer be stored is in memory (`StoredSoFar`), and that what a handler has read
  is above its floor (`AboveFloor`). `StampBehind` adds for each pair of a time
  word and a position word what each may be, by which of the two the handler
  has still to read. `Numbering` says where the counter is at each step of a lone
  handler. `BroadcastImplementsRecord`: the unit implements `SharedRecord`, every step
  a step of it or a stutter, from the same invariant. `EachRequestAnsweredOnce` and
  `FirstAnswerCalibrates`, from `ExchangeInv`: what is on the wire either way fits
  where client and unit are, and both agree on whether the connection has been
  calibrated (`Agreed`).
* **LidarRecv.** `RecvTypeCorrect`; `AnswersRegular` from `ReplyInv` (the globals
  hold the last BSM but for the words still to store; a word formatted lies
  between the last BSM stored before formatting and the last begun);
  `AnswerTimesHeard` from that and a lemma on the arithmetic of the time, which is
  where the truncated microsecond and the condition on the second come from;
  `AnglesRegular` from `AngleInv`. `AnswersImplementRecord` and
  `AnglesImplementRecord`: both are refinements of `SharedRecord`.
  `FirstAnswersCalibrate`, as for `LidarSend`.
* **ClientLoop.** `LoopTypeCorrect`; `NeverWedged`, for polls no more than a
  period apart; `NeverTooFast`, with no such condition, as
  `tar_time = first + sent * Period`; `AlwaysCalibrated`, from two lemmas on
  the rounding of a signed division; `NeverAnswerTwice`, as answers are decoded one
  by one until the unit is gone (`AnswerInv`).
* **V2XRelay.** `RelayTypeCorrect`, `DelaysRight`, `PositionsFresh`, from `RelayInv`:
  each calibration is within half its exchange of the clocks then (`ListenerInv`,
  `ClientInv`), so is each stamp (`StampInv`), requests are in the order of their samples
  (`AskedInv`), and with accesses in order the stamp stays behind the position from BSM
  to answer (`RadioInv`). The delay's bound is the sum of the two and the truncation.
* **SampleTx.** `TypeCorrect`, `NothingElseLeaks`, `NothingElseCrashes`,
  `SentComplete`, from what a handler holds wherever it is (`PartsInv`): a part is written
  only after the pointer tested for it was found; and `NumberedUnlessOverlap`, which
  `Tally` makes inductive.
* **NtpClient.** `NtpTypeCorrect`; `ProbesAlwaysApart`, as `to` measures the time
  since the last probe (`TimerInv`); `StepsWithinCycle`, as an answer to the last
  probe was stamped after it (`StampInv`); `StopsWhenGood`, as the clock is not
  stepped between a probe and its first answer (`OriginInv`).
* **PhaseLock.** `LockTypeCorrect`, `BoxAlwaysExact`, `TruthAlwaysInBox`,
  `ShiftAlwaysLeast`, `SteersAlwaysRight`: all the run checks, for a ring of any size,
  any hosts, limits and starting frequencies, and any measurements; of a ring with a
  negative bar only the types are claimed, and of one whose measurements are all within
  their bars that its box holds the truth (no bar of it can be negative). `IInv` says
  that the ring is in order (`Ring`: without it slopes mean nothing), that the latest
  `honest` measurements contain skews that went from one to the next as the host's drift
  and the frequency of each interval make them (`Held`: `honest` is but a number and
  alone not inductive), and that the last verdict was right (`Verified`). The argument
  for a full ring:
  - the corrections of pass 1 telescope, so the true skews come to lie on one
    line, inside every bar, whose slope is the host's rate (`TrueLine`, `TrueRate`);
  - a walk along the flattest segments stays below all points, those before a
    segment included, though `search()` looks ahead only (`UpperSupports`);
  - a crossing that passes line 238 against its two neighbours clears the whole
    hull (`LowCrosses`); crossings of both passes can exist together only when lines
    are consistent, and are then the extreme ones (`Exact`). Conversely the
    steepest line from an upper to a lower end starts on the hull and passes
    line 238, barring ties (`FoundLow`, `FoundHigh`);
  - so both extremes are consistent lines (`BoxLines`), every corner lies between
    them, and the extremes alone give both shifts (`ExtremesDecide`): whatever
    lines 296-307 put between them is irrelevant;
  - both cannot need a shift, nor can the way to the centre lead back (`Steering`);
  - whatever the bars, the new frequency is one that lines 328-329 let through
    (`InRange`).
* **ChatPair.** `ChatTypeCorrect`; `StuckOnlyAfterMultiples`, as what is left of a line
  plus some whole pieces is the line (`LeftOver`), so a lone newline ends a line
  of whole pieces; `TakesTurns`, as whoever types finds nothing on the way (`TurnInv`).

Only model-checked: liveness (`RequestAnswered`, `BackToAccept`,
`ClientAnswered`, `KeepsSending`, `Terminates`, `EndsWithPeer`), which is out of the
prover's reach under fairness, and the two disagreements. Every safety property
the runs check is a theorem.

The library's induction theorems take an operator as parameter, which the installed
provers cannot instantiate. `PhaseLockProofs` takes induction from the
well-foundedness of `<` on `Nat`, which speaks of a relation and a set: a set of
numbers that holds 0 and the successor of each of its members holds all
(`SetInduction`). The set of the indices for which something is so serves as the
induction hypothesis; that is how the two recursive functions of the model are shown
to be defined at each index (`CumDef`, `WalkDef`), how walks are followed and sums
telescoped. No module declares a recursive operator.

## 6. Where code and documentation disagree

| Run | Documentation | Code |
|---|---|---|
| `ntp_set_and_lock` | `ntpclient.c:531`, `README:149`: `-s -l` sets the clock once, then locks | with `-l`, `-s` alone implies no `-c 1` (line 670): every answer steps the clock |
| `loop_stall` | `README.md:158`: the samples are published to the unit | after a stall longer than a period `last_time > tar_time` for ever |

Noted by reading, with no run:

* `lidar_send.c:207` is commented out, so answers after the first carry time zero;
  `listener.cpp:137` says they carry the vehicle's. Nothing uses it.
* `lidar_send.c:92-93`: overlapping handlers of leaked timers can give two BSMs one
  number; `v2x_msg_bsm.h:25` calls it a sequence number. The numbering is exact while
  they do not overlap (`NumberedInOrder`).
* `ntpclient.c:533`: a second copy of an answer, after the first stepped the clock
  back, gives a negative uncertainty, which `-g` takes for a good one; hence the
  exception in `StopsOnceGood`.
* `listener.cpp:34` copies `msg->x` to `y`; `ntpclient -c` counts probes
  (`ntpclient.c:507`) where its `README:57` speaks of measurements.
* `phaselock.c:296` and `307` name `max_imin` and `save_max` where the symmetry with
  lines 280-281 and 291 asks for `min_imin` and `save_min`. It does no harm: the entries are not
  read again, and in a ring without a negative bar the corners between the two crossings
  do not matter anyway (`ExtremesDecide`).
* `phaselock.c:238`, `258`: the comparisons are strict, so on an exact tie of three
  ends, or where an error bar is exactly 0, "inconsistent" is printed although a whole
  region is consistent; `BoxExact` and `TruthInBox` except both. The second case came
  to light in the proof (`FoundLow` needs the bars not to be empty); with
  `Answers = {<<0, 0>>, <<0, 2>>}` TLC finds such a ring if `NoTies` does not ask for it.
* `phaselock.c:289` and `305` guard against a splice that finds no corner after a
  crossing was found; that cannot happen (`Verdict`).
* `phaselock.c:206` subtracts `min_delay` from the error bar; where that makes it
  negative the box can come out inverted, and the lock steers by it. `ntpclient`'s
  `README:82` promises "inconsistent" lines for a `min_delay` set too high. The model has
  such bars; `BoxExact`, `LeastShift` and `SteersRight` speak of rings without one
  (`Proper`).
* `phaselock.c:328-329` clamp to ±250 ppm the frequency `-f` set unchecked
  (`ntpclient.c:622-626`) or the kernel held before, up to ±500 ppm: the first box then
  moves it to the limit, also when every consistent line asks for the other direction.
  Hence `Clamped(freq)`, not `freq`, in `SteersRight`.
* `phaselock.c:74-79` tells the meaning of `sign` the wrong way round, and 162-164
  say of `find_df_center()` that it is not used because a flag is never set: the flag
  is indeed never set (`SteersRight`), but line 320 calls it regardless.

## 7. Not modelled

* The binary SDK (external in the unit models) and its headers; the free functions of
  the samples are modelled by what the samples rely on.
* `ntpclient`'s conversions between `struct timeval` and NTP fractions, its log lines
  and `-r` replay: arithmetic on data that `NtpClient` counts in ticks. Replay calls
  the modelled `contemplate_data()` with numbers read from a file.
* Two answers within one second reach `contemplate_data()` with a time difference of
  zero; what IEEE division makes of it is beyond the exact rationals of `PhaseLock`.
* `adjtimex` (one system call around option parsing) and the awk and perl filters
  (offline, no state of the system).
* The echo server and the first client of `test_tcp_3`: the exchange and the
  calibration are `client2`'s; the echo is sent with another buffer's length
  (`TCP_Server.c:82`), a matter of its payload alone.
* The trigonometry of `client2` (floating point) and message fields that are
  constants.

Worth adding: overlapping handlers in `V2XRelay`'s run (its theorems have no
such bound), and a model of `-r` replay should its log format come to matter.
