--------------------------- MODULE V2XRelayProofs ---------------------------
(***************************************************************************)
(* What holds of a sample's way from talker to TCP_Client2 for every       *)
(* difference and every step of the clocks, any duration of the exchanges, *)
(* any number of samples, handlers and BSMs, and whatever the radio loses, *)
(* delays or reorders.                                                     *)
(***************************************************************************)
EXTENDS V2XRelay, TLAPS

\* Every step of the system, by the part of it that takes it.
ListenerStep == ListenerSends \/ RsuAnswers \/ ListenerReceives
RadioStep == (\E h \in Handlers : Expire(h) \/ Broadcast(h)) \/ ObuHears \/ ObuStores
Client2Step == Client2Sends \/ ObuDecodes \/ ObuAnswers \/ Client2Receives
ClockStep == Tick \/ (\E s \in Settings : Step(s[1], s[2])) \/ Publish

LEMMA ByPart == Next => ClockStep \/ ListenerStep \/ RadioStep \/ Client2Step
BY DEF Next, ClockStep, ListenerStep, RadioStep, Client2Step

\* What the parts leave alone.
LEMMA ClockFrame == ClockStep => UNCHANGED <<lvars, rsuVars, obuVars, cvars>>
BY DEF ClockStep, Tick, Step, Publish, clocks

LEMMA ListenerFrame ==
    ListenerStep => UNCHANGED <<clocks, topic, reading, air, obuVars, cvars>>
BY DEF ListenerStep, ListenerSends, RsuAnswers, ListenerReceives,
       rsuVars, Rsu!Begin, Rsu!End

LEMMA RadioFrame ==
    RadioStep => UNCHANGED <<clocks, topic, lvars, asked, stored, copying, cvars>>
BY DEF RadioStep, Expire, Broadcast, ObuHears, ObuStores, rsuVars, obuVars,
       Rsu!StartRead, Rsu!Show, Obu!Begin, Obu!End

LEMMA Client2Frame ==
    Client2Step => UNCHANGED <<clocks, topic, lvars, rsuVars, heard, kept>>
BY DEF Client2Step, Client2Sends, ObuDecodes, ObuAnswers, Client2Receives, obuVars,
       Obu!StartRead, Obu!Show

\* C's halving gives an integer that is off by at most one half.
LEMMA HalfBounds ==
    ASSUME NEW x \in Int
    PROVE  Half(x) \in Int /\ 2 * Half(x) <= x + 1 /\ x <= 2 * Half(x) + 1
<1>1. CASE x >= 0
  BY <1>1 DEF Half
<1>2. CASE x < 0
  BY <1>2 DEF Half
<1> QED BY <1>1, <1>2

\* A bound by a time also holds later.
LEMMA Later ==
    \A x, t, u, c \in Int : x <= t + c /\ t <= u => x <= u + c
OBVIOUS

\* A unit that reads its clock, at ahead of true time, between a client's sending
\* and receiving, whose computer's clock was sa and ra ahead then, gives it the
\* difference of the clocks.
LEMMA DifferenceBounds ==
    ASSUME NEW send \in Int, NEW recv \in Int, NEW server \in Int,
           NEW at \in Int, NEW sa \in Int, NEW ra \in Int,
           send + at <= server, server <= recv + at
    PROVE  /\ Difference(server, send + sa, recv + ra) \in Int
           /\ Within(2 * Difference(server, send + sa, recv + ra) + (sa + ra) - 2 * at,
                     recv - send)
<1> DEFINE x == 2 * server - (recv + ra) - (send + sa)
<1>1. x \in Int
  OBVIOUS
<1>2. Half(x) \in Int /\ 2 * Half(x) <= x + 1 /\ x <= 2 * Half(x) + 1
  BY <1>1, HalfBounds
<1>3. Difference(server, send + sa, recv + ra) = Half(x)
  BY DEF Difference
<1>4. 2 * Half(x) + (sa + ra) - 2 * at <= (recv - send) + 1
  BY <1>2
<1>5. -(2 * Half(x) + (sa + ra) - 2 * at) <= (recv - send) + 1
  BY <1>2
<1> HIDE DEF x
<1> QED BY <1>2, <1>3, <1>4, <1>5 DEF Within

----------------------------------------------------------------------------
(* Types *)

LEMMA TypeInit == Init => TypeOK
<1> SUFFICES ASSUME Init PROVE TypeOK
  OBVIOUS
<1> USE DEF Init
<1>1. TypeClocks
  BY RelayAssumption DEF TypeClocks
<1>2. TypeListener
  BY DEF TypeListener, Phases, Unread, ReadingType
<1>3. TypeRsu
  BY DEF TypeRsu
<1>4. TypeObu
  BY DEF TypeObu
<1>5. TypeClient
  BY DEF TypeClient, Phases, AnswerType, NoAnswer, Unread, ReadingType
<1> QED BY <1>1, <1>2, <1>3, <1>4, <1>5 DEF TypeOK

LEMMA TypeClocksStep == TypeOK /\ [Next]_vars => TypeClocks'
<1> SUFFICES ASSUME TypeOK, [Next]_vars PROVE TypeClocks'
  OBVIOUS
<1> USE DEF TypeOK, TypeClocks, clocks
<1>1. CASE Tick
  BY <1>1 DEF Tick
<1>2. ASSUME NEW s \in Settings, Step(s[1], s[2]) PROVE TypeClocks'
  <2>1. s[1] \in Hosts /\ s[2] \in Int
    BY RelayAssumption
  <2>2. off' = [off EXCEPT ![s[1]] = s[2]] /\ steps' = steps + 1 /\ UNCHANGED <<now, topic>>
    BY <1>2 DEF Step
  <2> QED BY <2>1, <2>2
<1>3. CASE Publish
  <2>1. off["pc"] \in Int
    BY DEF Hosts
  <2>2. topic' = [born |-> now, ahead |-> off["pc"]] /\ UNCHANGED <<now, off, steps>>
    BY <1>3 DEF Publish
  <2> QED BY <2>1, <2>2
<1>4. CASE ListenerStep
  BY <1>4, ListenerFrame
<1>5. CASE RadioStep
  BY <1>5, RadioFrame
<1>6. CASE Client2Step
  BY <1>6, Client2Frame
<1>7. CASE UNCHANGED vars
  BY <1>7 DEF vars
<1> QED BY <1>1, <1>2, <1>3, <1>4, <1>5, <1>6, <1>7, ByPart DEF ClockStep

\* What a calibration reads is a number.
LEMMA Clocks ==
    ASSUME TypeClocks
    PROVE  now \in Int /\ now \in Nat /\ \A host \in Hosts : off[host] \in Int
BY DEF TypeClocks

LEMMA ReadingIs ==
    ASSUME NEW r \in ReadingType
    PROVE  r.at \in Int /\ r.at \in Nat /\ r.ahead \in Int /\ Reading(r) = r.at + r.ahead
BY DEF ReadingType, Reading

LEMMA ReadNow ==
    ASSUME TypeClocks, NEW host \in Hosts
    PROVE  Unread \in ReadingType /\ [at |-> now, ahead |-> off[host]] \in ReadingType
BY Clocks DEF Unread, ReadingType

LEMMA TypeListenerStep == TypeOK /\ ListenerInv /\ [Next]_vars => TypeListener'
<1> SUFFICES ASSUME TypeOK, ListenerInv, [Next]_vars PROVE TypeListener'
  OBVIOUS
<1> USE DEF TypeOK, TypeListener, Phases
<1>c. now \in Nat /\ now \in Int /\ off["pc"] \in Int /\ off["rsu"] \in Int
  BY Clocks DEF Hosts
<1>1. CASE ClockStep
  BY <1>1, ClockFrame DEF lvars
<1>2. CASE ListenerSends
  <2>1. lsent' \in ReadingType
    BY <1>2, ReadNow DEF ListenerSends, Hosts
  <2> QED BY <1>2, <2>1 DEF ListenerSends
<1>3. CASE RsuAnswers
  BY <1>3, <1>c DEF RsuAnswers
<1>4. CASE ListenerReceives
  <2>1. lsent' \in ReadingType
    BY <1>4, ReadNow DEF ListenerReceives, Hosts
  <2>2. CASE lcalibr = 0
    <3>0. /\ lsent.at \in Int /\ lsent.ahead \in Int
          /\ Reading(lsent) = lsent.at + lsent.ahead /\ lserver \in Int /\ rsuAt \in Int
          /\ lsent.at + rsuAt <= lserver /\ lserver <= now + rsuAt /\ lsent.at <= now
      BY <1>4, <2>2, ReadingIs DEF ListenerReceives, ListenerInv
    <3>1. Difference(lserver, Reading(lsent), now + off["pc"]) \in Int
      <4>1. Difference(lserver, lsent.at + lsent.ahead, now + off["pc"]) \in Int
        <5> HIDE DEF TypeOK, TypeListener
        <5> QED BY <1>c, <3>0, DifferenceBounds
      <4> QED BY <3>0, <4>1
    <3>2. now - lsent.at \in Nat /\ lsent.ahead + off["pc"] \in Int
      BY <1>c, <3>0
    <3> QED BY <1>4, <2>1, <2>2, <3>1, <3>2 DEF ListenerReceives
  <2>3. CASE lcalibr # 0
    BY <1>4, <2>1, <2>3 DEF ListenerReceives
  <2> QED BY <2>2, <2>3
<1>5. CASE RadioStep
  BY <1>5, RadioFrame DEF lvars
<1>6. CASE Client2Step
  BY <1>6, Client2Frame DEF lvars
<1>7. CASE UNCHANGED vars
  BY <1>7 DEF vars, lvars
<1> QED BY <1>1, <1>2, <1>3, <1>4, <1>5, <1>6, <1>7, ByPart DEF ListenerStep

\* The request that is sent.
LEMMA SentType == TypeOK => RequestOf(topic) \in RequestType
<1> SUFFICES ASSUME TypeOK PROVE RequestOf(topic) \in RequestType
  OBVIOUS
<1>1. topic.born \in Nat /\ topic.ahead \in Int /\ ldtime \in Int /\ lcalibr \in {0, 1}
  BY DEF TypeOK, TypeClocks, TypeListener
<1>2. StampOf(topic) \in Int
  BY <1>1 DEF StampOf
<1> QED BY <1>1, <1>2 DEF RequestOf, RequestType

LEMMA TypeRsuStep == TypeOK /\ [Next]_vars => TypeRsu'
<1> SUFFICES ASSUME TypeOK, [Next]_vars PROVE TypeRsu'
  OBVIOUS
<1> USE DEF TypeOK, TypeRsu
<1>1. CASE ClockStep
  BY <1>1, ClockFrame DEF rsuVars, lvars
<1>2. CASE ListenerSends
  <2> DEFINE sent == RequestOf(topic)
  <2>1. sent \in RequestType
    BY SentType
  <2>2. /\ asked' = Append(asked, sent) /\ stored' = stored
        /\ UNCHANGED <<reading, air>> /\ lpc = "poll" /\ lpc' = "sent"
    BY <1>2 DEF ListenerSends, Rsu!Begin
  <2> HIDE DEF sent
  <2>3. asked' \in Seq(RequestType) /\ Len(asked') = Len(asked) + 1 /\ Len(asked) \in Nat
    BY <2>1, <2>2
  <2>4. stored = Len(asked) /\ stored \in Nat
    BY <2>2
  <2>5. /\ stored' \in Nat
        /\ stored' = IF lpc' = "sent" THEN Len(asked') - 1 ELSE Len(asked')
    BY <2>2, <2>3, <2>4
  <2>6. reading' \in [Handlers -> -1..Len(asked')]
    BY <2>2, <2>3
  <2>7. \A word \in air' : word \in [Words -> 0..Len(asked')]
    <3>1. 0..Len(asked) \subseteq 0..Len(asked')
      BY <2>3
    <3> QED BY <2>2, <3>1
  <2> QED BY <2>3, <2>5, <2>6, <2>7
<1>3. CASE RsuAnswers
  <2>1. /\ stored' = Len(asked) /\ UNCHANGED <<asked, reading, air>>
        /\ lpc' = "answered"
    BY <1>3 DEF RsuAnswers, Rsu!End
  <2> QED BY <2>1
<1>4. CASE ListenerReceives
  <2>1. UNCHANGED rsuVars /\ lpc = "answered" /\ lpc' = "poll"
    BY <1>4 DEF ListenerReceives
  <2> QED BY <2>1 DEF rsuVars
<1>5. ASSUME NEW h \in Handlers, Expire(h) PROVE TypeRsu'
  <2>1. reading' = [reading EXCEPT ![h] = stored] /\ UNCHANGED <<asked, stored, air, lpc>>
    BY <1>5 DEF Expire, Rsu!StartRead, lvars
  <2>2. stored \in -1..Len(asked)
    OBVIOUS
  <2> QED BY <2>1, <2>2
<1>6. ASSUME NEW h \in Handlers, Broadcast(h) PROVE TypeRsu'
  <2>1. PICK word \in [Words -> reading[h]..Len(asked)] : air' = air \cup {word}
    BY <1>6 DEF Broadcast, Copies
  <2>2. /\ reading' = [reading EXCEPT ![h] = -1] /\ UNCHANGED <<asked, stored, lpc>>
        /\ reading[h] >= 0
    BY <1>6 DEF Broadcast, Rsu!Show, lvars
  <2>3. reading[h]..Len(asked) \subseteq 0..Len(asked)
    BY <2>2
  <2>4. word \in [Words -> 0..Len(asked)]
    BY <2>3
  <2>5. reading' \in [Handlers -> -1..Len(asked')]
    BY <2>2
  <2> QED BY <2>1, <2>2, <2>4, <2>5
<1>7. CASE ObuHears \/ ObuStores
  BY <1>7 DEF ObuHears, ObuStores, rsuVars, lvars
<1>8. CASE Client2Step
  BY <1>8, Client2Frame DEF rsuVars, lvars
<1>9. CASE UNCHANGED vars
  BY <1>9 DEF vars, rsuVars, lvars
<1> QED BY <1>1, <1>2, <1>3, <1>4, <1>5, <1>6, <1>7, <1>8, <1>9, ByPart
        DEF ListenerStep, RadioStep

\* What is received was broadcast.
LEMMA HeardType ==
    ASSUME TypeOK, ObuHears
    PROVE  /\ heard' \in Seq([Words -> Nat]) /\ Len(heard') = Len(heard) + 1
           /\ kept = Len(heard) /\ UNCHANGED <<kept, copying, cpc>>
           /\ \A m \in 1..Len(heard) : heard'[m] = heard[m]
           /\ heard'[Len(heard) + 1] \in air
<1> USE DEF TypeOK, TypeObu
<1>1. PICK word \in air : heard' = Append(heard, word)
  BY DEF ObuHears
<1>2. word \in [Words -> Nat]
  <2>1. 0..Len(asked) \subseteq Nat
    OBVIOUS
  <2> QED BY <2>1 DEF TypeRsu
<1>3. kept = Len(heard) /\ UNCHANGED <<kept, copying, cpc>>
  BY DEF ObuHears, cvars
<1> QED BY <1>1, <1>2, <1>3

LEMMA TypeObuStep == TypeOK /\ [Next]_vars => TypeObu'
<1> SUFFICES ASSUME TypeOK, [Next]_vars PROVE TypeObu'
  OBVIOUS
<1> USE DEF TypeOK, TypeObu
<1>1. CASE ClockStep
  BY <1>1, ClockFrame DEF obuVars, cvars
<1>2. CASE ListenerStep
  BY <1>2, ListenerFrame DEF obuVars, cvars
<1>3. CASE \E h \in Handlers : Expire(h) \/ Broadcast(h)
  BY <1>3 DEF Expire, Broadcast, obuVars, cvars
<1>4. CASE ObuHears
  BY <1>4, HeardType
<1>5. CASE ObuStores
  <2>1. kept' = Len(heard) /\ UNCHANGED <<heard, copying, cpc>>
    BY <1>5 DEF ObuStores, cvars
  <2> QED BY <2>1
<1>6. CASE Client2Sends \/ Client2Receives
  <2>1. UNCHANGED <<heard, kept, copying>> /\ cpc # "taken" /\ cpc' # "taken"
    BY <1>6 DEF Client2Sends, Client2Receives, obuVars
  <2> QED BY <2>1
<1>7. CASE ObuDecodes
  <2>1. copying' = kept /\ cpc' = "taken" /\ UNCHANGED <<heard, kept>>
    BY <1>7, Client2Frame DEF ObuDecodes, Client2Step
  <2> QED BY <2>1
<1>8. CASE ObuAnswers
  <2>1. copying' = -1 /\ cpc' = "answered" /\ UNCHANGED <<heard, kept>>
    BY <1>8, Client2Frame DEF ObuAnswers, Client2Step
  <2> QED BY <2>1
<1>9. CASE UNCHANGED vars
  BY <1>9 DEF vars, obuVars, cvars
<1> QED BY <1>1, <1>2, <1>3, <1>4, <1>5, <1>6, <1>7, <1>8, <1>9, ByPart
        DEF RadioStep, Client2Step

LEMMA TypeClientStep == TypeOK /\ ClientInv /\ [Next]_vars => TypeClient'
<1> SUFFICES ASSUME TypeOK, ClientInv, [Next]_vars PROVE TypeClient'
  OBVIOUS
<1> USE DEF TypeOK, TypeClient, Phases
<1>c. now \in Nat /\ now \in Int /\ off["obpc"] \in Int /\ off["obu"] \in Int
  BY Clocks DEF Hosts
<1>1. CASE ClockStep
  BY <1>1, ClockFrame DEF cvars
<1>2. CASE ListenerStep
  BY <1>2, ListenerFrame DEF cvars
<1>3. CASE RadioStep
  BY <1>3, RadioFrame DEF cvars
<1>4. CASE Client2Sends
  <2>1. csent' \in ReadingType
    BY <1>4, ReadNow DEF Client2Sends, Hosts
  <2> QED BY <1>4, <2>1 DEF Client2Sends
<1>5. CASE ObuDecodes
  BY <1>5 DEF ObuDecodes
<1>6. CASE ObuAnswers
  <2>1. cpc = "taken" /\ cpc' = "answered"
        /\ UNCHANGED <<csent, cdtime, ccalibr, exchanges, obpcAt, crtt>>
    BY <1>6 DEF ObuAnswers
  <2>2. answer' \in AnswerType /\ obuAt' \in Int
    <3>1. CASE ccalibr = 0
      <4>1. now + off["obu"] \in Int
        BY <1>c
      <4>2. [NoAnswer EXCEPT !.clock = now + off["obu"]] \in AnswerType
        BY <4>1 DEF NoAnswer, AnswerType
      <4> QED BY <1>6, <1>c, <3>1, <4>2 DEF ObuAnswers
    <3>2. CASE ccalibr # 0
      <4>1. copying \in Nat /\ Len(heard) \in Nat
        BY <2>1 DEF TypeObu
      <4>2. [floor |-> copying, top |-> Len(heard), clock |-> 0] \in AnswerType
        BY <4>1 DEF AnswerType
      <4> QED BY <1>6, <3>2, <4>2 DEF ObuAnswers
    <3> QED BY <3>1, <3>2
  <2> QED BY <2>1, <2>2
<1>7. CASE Client2Receives
  <2>1. NoAnswer \in AnswerType /\ Unread \in ReadingType
    BY ReadNow DEF NoAnswer, AnswerType, Hosts
  <2>2. /\ cpc = "answered" /\ cpc' = "poll" /\ csent' = Unread /\ answer' = NoAnswer
        /\ ccalibr' = 1 /\ UNCHANGED <<exchanges, obuAt>>
    BY <1>7 DEF Client2Receives
  <2>3. CASE ccalibr = 0
    <3>1. /\ csent.at \in Int /\ csent.ahead \in Int /\ answer.clock \in Int
          /\ obuAt \in Int /\ Reading(csent) = csent.at + csent.ahead
          /\ csent.at + obuAt <= answer.clock /\ answer.clock <= now + obuAt
          /\ csent.at <= now
      BY <2>2, <2>3, ReadingIs DEF ClientInv, AnswerType
    <3>2. Difference(answer.clock, Reading(csent), now + off["obpc"]) \in Int
      <4>1. Difference(answer.clock, csent.at + csent.ahead, now + off["obpc"]) \in Int
        <5> HIDE DEF TypeOK, TypeClient
        <5> QED BY <1>c, <3>1, DifferenceBounds
      <4> QED BY <3>1, <4>1
    <3>3. now - csent.at \in Nat /\ csent.ahead + off["obpc"] \in Int
      BY <1>c, <3>1
    <3>4. cdtime' \in Int /\ crtt' \in Nat /\ obpcAt' \in Int
      BY <1>7, <2>3, <3>2, <3>3 DEF Client2Receives
    <3> QED BY <2>1, <2>2, <3>4
  <2>4. CASE ccalibr # 0
    <3>1. UNCHANGED <<cdtime, crtt, obpcAt>>
      BY <1>7, <2>4 DEF Client2Receives
    <3> QED BY <2>1, <2>2, <3>1
  <2> QED BY <2>3, <2>4
<1>8. CASE UNCHANGED vars
  BY <1>8 DEF vars, cvars
<1> QED BY <1>1, <1>2, <1>3, <1>4, <1>5, <1>6, <1>7, <1>8, ByPart DEF Client2Step

LEMMA TypeStep == TypeOK /\ RelayInv /\ [Next]_vars => TypeOK'
BY TypeClocksStep, TypeListenerStep, TypeRsuStep, TypeObuStep, TypeClientStep
   DEF TypeOK, RelayInv

----------------------------------------------------------------------------
(* The two calibrations and the stamps *)

\* Time goes on when clocks are stepped.
LEMMA TimeGoesOn == TypeClocks /\ ClockStep => now' \in Nat /\ now <= now'
BY DEF ClockStep, Tick, Step, Publish, clocks, TypeClocks

LEMMA ListenerInvStep == TypeOK /\ ListenerInv /\ [Next]_vars => ListenerInv'
<1> SUFFICES ASSUME TypeOK, ListenerInv, [Next]_vars PROVE ListenerInv'
  OBVIOUS
<1> USE DEF TypeOK, TypeListener, ListenerInv
<1>c. now \in Nat /\ now \in Int /\ off["pc"] \in Int /\ off["rsu"] \in Int
  BY Clocks DEF Hosts
<1>r. /\ lsent.at \in Int /\ lsent.at \in Nat /\ lsent.ahead \in Int
      /\ Reading(lsent) = lsent.at + lsent.ahead
  BY ReadingIs
<1>1. CASE ClockStep
  <2>1. UNCHANGED lvars /\ now <= now' /\ now' \in Nat
    BY <1>1, ClockFrame, TimeGoesOn
  <2>2. UNCHANGED <<lpc, lsent, lserver, ldtime, lcalibr, rsuAt, pcAt, lrtt>>
    BY <2>1 DEF lvars
  <2>3. lpc # "poll" => lsent.at <= now'
    BY <1>c, <1>r, <2>1
  <2>4. (lpc = "answered" /\ lcalibr = 0) =>
           lsent.at + rsuAt <= lserver /\ lserver <= now' + rsuAt
    <3> SUFFICES ASSUME lpc = "answered", lcalibr = 0
                 PROVE  lsent.at + rsuAt <= lserver /\ lserver <= now' + rsuAt
      OBVIOUS
    <3>1. lsent.at + rsuAt <= lserver /\ lserver <= now + rsuAt
      OBVIOUS
    <3>2. now' \in Int /\ lserver \in Int /\ rsuAt \in Int
      BY <2>1
    <3> HIDE DEF TypeOK, TypeListener, ListenerInv
    <3> QED BY <1>c, <2>1, <3>1, <3>2, Later
  <2> QED BY <2>2, <2>3, <2>4
<1>2. CASE ListenerSends
  <2>1. /\ lsent' = IF lcalibr = 0 THEN [at |-> now, ahead |-> off["pc"]] ELSE Unread
        /\ lpc' = "sent" /\ UNCHANGED <<now, ldtime, lcalibr, rsuAt, pcAt, lrtt>>
    BY <1>2 DEF ListenerSends, clocks
  <2>2. lsent'.at <= now'
    <3>1. Unread.at = 0
      BY DEF Unread
    <3> QED BY <1>c, <2>1, <3>1
  <2> QED BY <2>1, <2>2
<1>3. CASE RsuAnswers
  <2>1. /\ lpc = "sent" /\ lpc' = "answered"
        /\ UNCHANGED <<now, lsent, ldtime, lcalibr, pcAt, lrtt>>
    BY <1>3 DEF RsuAnswers, clocks
  <2>2. CASE lcalibr = 0
    <3>1. lserver' = now + off["rsu"] /\ rsuAt' = off["rsu"]
      BY <1>3, <2>2 DEF RsuAnswers
    <3>2. lsent.at + off["rsu"] <= now + off["rsu"]
      BY <1>c, <1>r, <2>1
    <3> QED BY <2>1, <2>2, <3>1, <3>2
  <2>3. CASE lcalibr # 0
    <3>1. UNCHANGED <<lserver, rsuAt>>
      BY <1>3, <2>3 DEF RsuAnswers
    <3> QED BY <2>1, <2>3, <3>1
  <2> QED BY <2>2, <2>3
<1>4. CASE ListenerReceives
  <2>1. lpc = "answered" /\ lpc' = "poll" /\ lcalibr' = 1 /\ UNCHANGED rsuAt
    BY <1>4 DEF ListenerReceives
  <2>2. CASE lcalibr = 0
    <3>1. /\ lserver \in Int /\ rsuAt \in Int
          /\ lsent.at + rsuAt <= lserver /\ lserver <= now + rsuAt
      BY <2>1, <2>2
    <3>2. /\ ldtime' = Difference(lserver, lsent.at + lsent.ahead, now + off["pc"])
          /\ lrtt' = now - lsent.at /\ pcAt' = lsent.ahead + off["pc"]
      BY <1>4, <1>r, <2>2 DEF ListenerReceives
    <3>3. Within(2 * ldtime' + pcAt' - 2 * rsuAt, lrtt')
      <4> HIDE DEF TypeOK, TypeListener, ListenerInv
      <4> QED BY <1>c, <1>r, <3>1, <3>2, DifferenceBounds
    <3> QED BY <2>1, <3>3
  <2>3. CASE lcalibr # 0
    <3>1. UNCHANGED <<ldtime, pcAt, lrtt>>
      BY <1>4, <2>3 DEF ListenerReceives
    <3> QED BY <2>1, <2>3, <3>1
  <2> QED BY <2>2, <2>3
<1>5. CASE RadioStep
  BY <1>5, RadioFrame DEF lvars, clocks
<1>6. CASE Client2Step
  BY <1>6, Client2Frame DEF lvars, clocks
<1>7. CASE UNCHANGED vars
  BY <1>7 DEF vars, lvars, clocks
<1> QED BY <1>1, <1>2, <1>3, <1>4, <1>5, <1>6, <1>7, ByPart DEF ListenerStep

LEMMA ClientInvStep == TypeOK /\ ClientInv /\ [Next]_vars => ClientInv'
<1> SUFFICES ASSUME TypeOK, ClientInv, [Next]_vars PROVE ClientInv'
  OBVIOUS
<1> USE DEF TypeOK, TypeClient, ClientInv
<1>c. now \in Nat /\ now \in Int /\ off["obpc"] \in Int /\ off["obu"] \in Int
  BY Clocks DEF Hosts
<1>r. /\ csent.at \in Int /\ csent.at \in Nat /\ csent.ahead \in Int
      /\ Reading(csent) = csent.at + csent.ahead /\ answer.clock \in Int
  BY ReadingIs DEF AnswerType
<1>1. CASE ClockStep
  <2>1. UNCHANGED cvars /\ now <= now' /\ now' \in Nat
    BY <1>1, ClockFrame, TimeGoesOn
  <2>2. UNCHANGED <<cpc, csent, answer, cdtime, ccalibr, obuAt, obpcAt, crtt>>
    BY <2>1 DEF cvars
  <2>3. cpc # "poll" => csent.at <= now'
    BY <1>c, <1>r, <2>1
  <2>4. (cpc = "answered" /\ ccalibr = 0) =>
           csent.at + obuAt <= answer.clock /\ answer.clock <= now' + obuAt
    <3> SUFFICES ASSUME cpc = "answered", ccalibr = 0
                 PROVE  csent.at + obuAt <= answer.clock /\ answer.clock <= now' + obuAt
      OBVIOUS
    <3>1. csent.at + obuAt <= answer.clock /\ answer.clock <= now + obuAt
      OBVIOUS
    <3>2. now' \in Int /\ obuAt \in Int
      BY <2>1
    <3> HIDE DEF TypeOK, TypeClient, ClientInv
    <3> QED BY <1>c, <1>r, <2>1, <3>1, <3>2, Later
  <2> QED BY <2>2, <2>3, <2>4
<1>2. CASE ListenerStep
  BY <1>2, ListenerFrame DEF cvars, clocks
<1>3. CASE RadioStep
  BY <1>3, RadioFrame DEF cvars, clocks
<1>4. CASE Client2Sends
  <2>1. /\ csent' = IF ccalibr = 0 THEN [at |-> now, ahead |-> off["obpc"]] ELSE Unread
        /\ cpc' = "sent" /\ UNCHANGED <<now, cdtime, ccalibr, obuAt, obpcAt, crtt>>
    BY <1>4 DEF Client2Sends, clocks
  <2>2. csent'.at <= now'
    <3>1. Unread.at = 0
      BY DEF Unread
    <3> QED BY <1>c, <2>1, <3>1
  <2> QED BY <2>1, <2>2
<1>5. CASE ObuDecodes
  <2>1. /\ cpc = "sent" /\ cpc' = "taken"
        /\ UNCHANGED <<now, csent, cdtime, ccalibr, obuAt, obpcAt, crtt>>
    BY <1>5 DEF ObuDecodes, clocks
  <2> QED BY <2>1
<1>6. CASE ObuAnswers
  <2>1. /\ cpc = "taken" /\ cpc' = "answered"
        /\ UNCHANGED <<now, csent, cdtime, ccalibr, obpcAt, crtt>>
    BY <1>6 DEF ObuAnswers, clocks
  <2>2. CASE ccalibr = 0
    <3>1. obuAt' = off["obu"] /\ answer' = [NoAnswer EXCEPT !.clock = now + off["obu"]]
      BY <1>6, <2>2 DEF ObuAnswers
    <3>2. answer'.clock = now + off["obu"]
      BY <3>1 DEF NoAnswer
    <3>3. csent.at + off["obu"] <= now + off["obu"]
      BY <1>c, <1>r, <2>1
    <3>4. csent'.at <= now'
      BY <2>1
    <3>5. csent'.at + obuAt' <= answer'.clock /\ answer'.clock <= now' + obuAt'
      BY <1>c, <2>1, <3>1, <3>2, <3>3
    <3> HIDE DEF TypeOK, TypeClient
    <3> QED BY <2>1, <2>2, <3>4, <3>5
  <2>3. CASE ccalibr # 0
    <3>1. obuAt' = obuAt
      BY <1>6, <2>3 DEF ObuAnswers
    <3> QED BY <2>1, <2>3, <3>1
  <2> QED BY <2>2, <2>3
<1>7. CASE Client2Receives
  <2>1. cpc = "answered" /\ cpc' = "poll" /\ ccalibr' = 1 /\ UNCHANGED obuAt
    BY <1>7 DEF Client2Receives
  <2>2. CASE ccalibr = 0
    <3>1. /\ obuAt \in Int
          /\ csent.at + obuAt <= answer.clock /\ answer.clock <= now + obuAt
      BY <2>1, <2>2
    <3>2. /\ cdtime' = Difference(answer.clock, csent.at + csent.ahead, now + off["obpc"])
          /\ crtt' = now - csent.at /\ obpcAt' = csent.ahead + off["obpc"]
      BY <1>7, <1>r, <2>2 DEF Client2Receives
    <3>3. Within(2 * cdtime' + obpcAt' - 2 * obuAt, crtt')
      <4> HIDE DEF TypeOK, TypeClient, ClientInv
      <4> QED BY <1>c, <1>r, <3>1, <3>2, DifferenceBounds
    <3> QED BY <2>1, <3>3
  <2>3. CASE ccalibr # 0
    <3>1. UNCHANGED <<cdtime, obpcAt, crtt>>
      BY <1>7, <2>3 DEF Client2Receives
    <3> QED BY <2>1, <2>3, <3>1
  <2> QED BY <2>2, <2>3
<1>8. CASE UNCHANGED vars
  BY <1>8 DEF vars, cvars, clocks
<1> HIDE DEF TypeOK, TypeClient, ClientInv
<1> QED BY <1>1, <1>2, <1>3, <1>4, <1>5, <1>6, <1>7, <1>8, ByPart DEF Client2Step

\* A stamp is as far off as the calibration it was made with, which stays.
LEMMA StampInvStep == TypeOK /\ ListenerInv /\ StampInv /\ [Next]_vars => StampInv'
<1> SUFFICES ASSUME TypeOK, ListenerInv, StampInv, [Next]_vars PROVE StampInv'
  OBVIOUS
<1> USE DEF StampInv
<1>1. CASE UNCHANGED <<asked, lcalibr, rsuAt, pcAt, lrtt>>
  BY <1>1
<1>2. CASE ListenerSends
  <2> DEFINE sent == RequestOf(topic)
  <2>1. asked' = Append(asked, sent) /\ UNCHANGED <<lcalibr, rsuAt, pcAt, lrtt>>
    BY <1>2 DEF ListenerSends
  <2>2. sent \in RequestType
    BY SentType
  <2>3. sent.calibr = 1 =>
          lcalibr = 1 /\ Within(2 * (sent.stamp - sent.born - sent.ahead - rsuAt) + pcAt, lrtt)
    <3> SUFFICES ASSUME sent.calibr = 1
                 PROVE  /\ lcalibr = 1
                        /\ Within(2 * (sent.stamp - sent.born - sent.ahead - rsuAt) + pcAt,
                                  lrtt)
      OBVIOUS
    <3>1. /\ lcalibr = 1 /\ sent.stamp = topic.born + topic.ahead + ldtime
          /\ sent.born = topic.born /\ sent.ahead = topic.ahead
      BY DEF RequestOf, StampOf
    <3>2. /\ topic.born \in Int /\ topic.ahead \in Int /\ ldtime \in Int /\ rsuAt \in Int
          /\ pcAt \in Int
      BY DEF TypeOK, TypeClocks, TypeListener
    <3> HIDE DEF sent
    <3>3. 2 * (sent.stamp - sent.born - sent.ahead - rsuAt) + pcAt
            = 2 * ldtime + pcAt - 2 * rsuAt
      BY <3>1, <3>2
    <3> QED BY <3>1, <3>3 DEF ListenerInv
  <2> HIDE DEF sent
  <2>4. /\ \A k \in 1..Len(asked) : asked'[k] = asked[k]
        /\ asked'[Len(asked) + 1] = sent /\ Len(asked') = Len(asked) + 1
        /\ Len(asked) \in Nat
    BY <2>1, <2>2 DEF TypeOK, TypeRsu
  <2>5. \A k \in 1..Len(asked') : k \in 1..Len(asked) \/ k = Len(asked) + 1
    BY <2>4
  <2> QED BY <2>1, <2>3, <2>4, <2>5
<1>3. CASE RsuAnswers \/ ListenerReceives
  <2>1. CASE lcalibr = 0
    <3>1. asked' = asked
      BY <1>3 DEF RsuAnswers, ListenerReceives, rsuVars
    <3> QED BY <2>1, <3>1
  <2>2. CASE lcalibr # 0
    <3>1. UNCHANGED <<asked, rsuAt, pcAt, lrtt>>
      BY <1>3, <2>2 DEF RsuAnswers, ListenerReceives, rsuVars
    <3>2. lcalibr = 1 /\ lcalibr' = 1
      BY <1>3, <2>2 DEF RsuAnswers, ListenerReceives, TypeOK, TypeListener
    <3> QED BY <3>1, <3>2
  <2> QED BY <2>1, <2>2
<1>4. CASE ClockStep \/ UNCHANGED vars
  BY <1>1, <1>4, ClockFrame DEF lvars, rsuVars, vars
<1>5. CASE RadioStep
  BY <1>1, <1>5, RadioFrame DEF lvars
<1>6. CASE Client2Step
  BY <1>1, <1>6, Client2Frame DEF lvars, rsuVars
<1> QED BY <1>2, <1>3, <1>4, <1>5, <1>6, ByPart DEF ListenerStep

----------------------------------------------------------------------------
(* The order of samples, requests and words *)

LEMMA AskedInvStep == TypeOK /\ AskedInv /\ [Next]_vars => AskedInv'
<1> SUFFICES ASSUME TypeOK, AskedInv, [Next]_vars PROVE AskedInv'
  OBVIOUS
<1> USE DEF AskedInv
<1>t. /\ asked \in Seq(RequestType) /\ topic.born \in Nat /\ Len(asked) \in Nat
      /\ now \in Nat /\ topic.born <= now
      /\ \A k \in 1..Len(asked) : asked[k].born \in Nat
  <2>1. asked \in Seq(RequestType) /\ topic \in [born : 0..now, ahead : Int] /\ now \in Nat
    BY DEF TypeOK, TypeRsu, TypeClocks
  <2>2. \A k \in 1..Len(asked) : asked[k] \in RequestType
    BY <2>1
  <2> QED BY <2>1, <2>2 DEF RequestType
<1>1. CASE UNCHANGED <<asked, topic>>
  BY <1>1
<1>2. CASE ListenerSends
  <2> DEFINE sent == RequestOf(topic)
  <2>1. asked' = Append(asked, sent) /\ topic' = topic
    BY <1>2 DEF ListenerSends
  <2>2. sent \in RequestType /\ sent.born = topic.born
    BY SentType DEF RequestOf
  <2> HIDE DEF sent
  <2>3. /\ \A k \in 1..Len(asked) : asked'[k] = asked[k]
        /\ asked'[Len(asked) + 1] = sent /\ Len(asked') = Len(asked) + 1
    BY <1>t, <2>1, <2>2
  <2>4. \A k \in 1..Len(asked') : k \in 1..Len(asked) \/ k = Len(asked) + 1
    BY <1>t, <2>3
  <2>5. \A k \in 1..Len(asked') : asked'[k].born <= topic.born
    BY <1>t, <2>2, <2>3, <2>4
  <2>6. \A j, k \in 1..Len(asked') : j <= k => asked'[j].born <= asked'[k].born
    <3> SUFFICES ASSUME NEW j \in 1..Len(asked'), NEW k \in 1..Len(asked'), j <= k
                 PROVE  asked'[j].born <= asked'[k].born
      OBVIOUS
    <3>1. CASE k = Len(asked) + 1
      BY <2>2, <2>3, <2>5, <3>1
    <3>2. CASE k \in 1..Len(asked)
      <4>1. j \in 1..Len(asked)
        BY <1>t, <2>3, <3>2
      <4> QED BY <2>3, <3>2, <4>1
    <3> QED BY <2>4, <3>1, <3>2
  <2> QED BY <2>1, <2>5, <2>6
<1>3. CASE ClockStep
  <2>1. asked' = asked
    BY <1>3, ClockFrame DEF rsuVars
  <2>2. topic'.born \in Nat /\ topic.born <= topic'.born
    <3>1. topic' = topic \/ topic'.born = now
      BY <1>3 DEF ClockStep, Tick, Step, Publish
    <3> QED BY <1>t, <3>1
  <2> QED BY <1>t, <2>1, <2>2
<1>4. CASE RsuAnswers \/ ListenerReceives
  BY <1>1, <1>4 DEF RsuAnswers, ListenerReceives, rsuVars
<1>5. CASE RadioStep
  BY <1>1, <1>5, RadioFrame
<1>6. CASE Client2Step
  BY <1>1, <1>6, Client2Frame DEF rsuVars
<1>7. CASE UNCHANGED vars
  BY <1>1, <1>7 DEF vars, rsuVars
<1> QED BY <1>2, <1>3, <1>4, <1>5, <1>6, <1>7, ByPart DEF ListenerStep

\* What a handler copies is ordered as its unit's accesses are.
LEMMA CopiesBehind ==
    ASSUME NEW h \in Handlers, NEW word \in Copies(h)
    PROVE  StampBehind(word)
<1> SUFFICES ASSUME InOrder, NEW g \in Halves, NEW k \in Halves
             PROVE  word[<<"time", g>>] <= word[<<"pos", k>>]
  BY DEF StampBehind
<1>1. /\ word \in [Words -> reading[h]..Len(asked)]
      /\ Rsu!Regular([word |-> word, floor |-> reading[h]], reading[h], Len(asked))
  BY DEF Copies
<1>2. <<(<<"time", g>>), (<<"pos", k>>)>> \in StampLag
  BY DEF StampLag
<1>3. <<"time", g>> \in Words /\ <<"pos", k>> \in Words
  BY DEF Words
<1>4. \A p \in StampLag : {p[1], p[2]} \subseteq DOMAIN word => word[p[1]] <= word[p[2]]
  BY <1>1 DEF Rsu!Regular
<1>5. DOMAIN word = Words
  BY <1>1
<1> QED BY <1>2, <1>3, <1>4, <1>5

LEMMA RadioInvStep == TypeOK /\ RadioInv /\ [Next]_vars => RadioInv'
<1> SUFFICES ASSUME TypeOK, RadioInv, [Next]_vars PROVE RadioInv'
  OBVIOUS
<1>t. /\ Len(heard) \in Nat /\ Len(asked) \in Nat /\ heard \in Seq([Words -> Nat])
      /\ \A m \in 1..Len(heard) : heard[m] \in [Words -> Nat]
      /\ answer.top \in Nat
  BY DEF TypeOK, TypeObu, TypeRsu, TypeClient, AnswerType
<1>1. CASE UNCHANGED <<air, heard, cpc, ccalibr, answer>> /\ Len(asked) <= Len(asked')
           /\ Len(asked') \in Nat
  <2>1. \A m \in 1..Len(heard), w \in Words : heard[m][w] <= Len(asked')
    <3> SUFFICES ASSUME NEW m \in 1..Len(heard), NEW w \in Words
                 PROVE  heard[m][w] <= Len(asked')
      OBVIOUS
    <3>1. heard[m][w] <= Len(asked) /\ heard[m][w] \in Nat
      BY <1>t DEF RadioInv
    <3> QED BY <1>t, <1>1, <3>1
  <2> QED BY <1>1, <2>1 DEF RadioInv, StampBehind
<1>2. CASE ListenerStep
  <2>1. UNCHANGED <<air, heard, cpc, ccalibr, answer>>
    BY <1>2, ListenerFrame DEF obuVars, cvars
  <2>2. Len(asked) <= Len(asked') /\ Len(asked') \in Nat
    <3>1. CASE ListenerSends
      <4>1. Len(asked') = Len(asked) + 1
        BY <3>1, SentType DEF ListenerSends, TypeOK, TypeRsu
      <4> QED BY <1>t, <4>1
    <3>2. CASE RsuAnswers \/ ListenerReceives
      BY <1>t, <3>2 DEF RsuAnswers, ListenerReceives, rsuVars
    <3> QED BY <1>2, <3>1, <3>2 DEF ListenerStep
  <2> QED BY <1>1, <2>1, <2>2
<1>3. CASE ClockStep \/ UNCHANGED vars \/ (\E h \in Handlers : Expire(h)) \/ ObuStores
  BY <1>1, <1>3, <1>t, ClockFrame
     DEF Expire, ObuStores, rsuVars, obuVars, cvars, vars, Rsu!StartRead
<1>4. ASSUME NEW h \in Handlers, Broadcast(h) PROVE RadioInv'
  <2>1. PICK word \in Copies(h) : air' = air \cup {word}
    BY <1>4 DEF Broadcast
  <2>2. UNCHANGED <<asked, heard, cpc, ccalibr, answer>>
    BY <1>4 DEF Broadcast, obuVars, cvars
  <2>3. \A b \in air' : StampBehind(b)
    BY <2>1, CopiesBehind DEF RadioInv
  <2> QED BY <2>2, <2>3 DEF RadioInv, StampBehind
<1>5. CASE ObuHears
  <2>1. UNCHANGED <<asked, air, cpc, ccalibr, answer>>
    BY <1>5 DEF ObuHears, rsuVars, cvars
  <2>2. /\ Len(heard') = Len(heard) + 1 /\ heard'[Len(heard) + 1] \in air
        /\ \A m \in 1..Len(heard) : heard'[m] = heard[m]
    BY <1>5, HeardType
  <2>3. \A b \in air : StampBehind(b) /\ \A w \in Words : b[w] <= Len(asked)
    <3> SUFFICES ASSUME NEW b \in air
                 PROVE  StampBehind(b) /\ \A w \in Words : b[w] <= Len(asked)
      OBVIOUS
    <3>1. b \in [Words -> 0..Len(asked)]
      BY DEF TypeOK, TypeRsu
    <3> QED BY <1>t, <3>1 DEF RadioInv
  <2>4. \A m \in 1..Len(heard') : m \in 1..Len(heard) \/ m = Len(heard) + 1
    BY <1>t, <2>2
  <2>5. \A m \in 1..Len(heard') : /\ StampBehind(heard'[m])
                                  /\ \A w \in Words : heard'[m][w] <= Len(asked)
    BY <2>2, <2>3, <2>4 DEF RadioInv
  <2>6. answer.top <= Len(heard) => answer.top <= Len(heard')
    BY <1>t, <2>2
  <2> QED BY <2>1, <2>5, <2>6 DEF RadioInv, StampBehind
<1>6. CASE Client2Sends \/ ObuDecodes \/ Client2Receives
  <2>1. UNCHANGED <<air, heard, asked>> /\ cpc' # "answered"
    BY <1>6, Client2Frame DEF Client2Step, Client2Sends, ObuDecodes, Client2Receives, rsuVars
  <2> QED BY <2>1 DEF RadioInv, StampBehind
<1>7. CASE ObuAnswers
  <2>1. UNCHANGED <<air, heard, asked, ccalibr>>
    BY <1>7, Client2Frame DEF Client2Step, ObuAnswers, rsuVars
  <2>2. CASE ccalibr = 0
    BY <2>1, <2>2 DEF RadioInv, StampBehind
  <2>3. CASE ccalibr # 0
    <3>1. answer' = [floor |-> copying, top |-> Len(heard), clock |-> 0]
      BY <1>7, <2>3 DEF ObuAnswers
    <3>2. copying <= Len(heard)
      BY <1>t DEF TypeOK, TypeObu
    <3>3. answer'.floor <= answer'.top /\ answer'.top <= Len(heard)
      BY <1>t, <3>1, <3>2
    <3> QED BY <2>1, <3>3 DEF RadioInv, StampBehind
  <2> QED BY <2>2, <2>3
<1> QED BY <1>2, <1>3, <1>4, <1>5, <1>6, <1>7, ByPart DEF RadioStep, Client2Step

----------------------------------------------------------------------------
LEMMA RelayInit == Init => RelayInv
<1> SUFFICES ASSUME Init PROVE RelayInv
  OBVIOUS
<1>1. ListenerInv /\ ClientInv
  BY DEF Init, ListenerInv, ClientInv
<1>2. StampInv /\ AskedInv
  BY DEF Init, StampInv, AskedInv
<1>3. RadioInv
  BY DEF Init, RadioInv
<1> QED BY <1>1, <1>2, <1>3 DEF RelayInv

THEOREM RelayInvariance == Spec => [](TypeOK /\ RelayInv)
<1>1. TypeOK /\ RelayInv /\ [Next]_vars => RelayInv'
  BY ListenerInvStep, StampInvStep, AskedInvStep, ClientInvStep, RadioInvStep DEF RelayInv
<1> QED BY TypeInit, RelayInit, TypeStep, <1>1, PTL DEF Spec

\* Every variable of the relay keeps its type (lidar_send.c, lidar_recv.c and
\* their clients).
THEOREM RelayTypeCorrect == Spec => []TypeOK
BY RelayInvariance, PTL

\* The words of an answer are those of BSMs, and these are requests.
LEMMA AnswerWords ==
    ASSUME TypeOK, RadioInv, cpc = "answered", ccalibr = 1, NEW word \in Contents,
           NEW l \in Loads
    PROVE  /\ word[l] \in 0..Len(heard)
           /\ Bsm(word[l])[Loaded(l)] \in 0..Len(asked)
<1>t. /\ Len(heard) \in Nat /\ Len(asked) \in Nat /\ heard \in Seq([Words -> Nat])
      /\ answer.floor \in Nat /\ answer.top \in Nat
  BY DEF TypeOK, TypeObu, TypeRsu, TypeClient, AnswerType
<1>1. word[l] \in answer.floor..answer.top
  BY DEF Contents
<1>2. word[l] \in 0..Len(heard)
  BY <1>t, <1>1 DEF RadioInv
<1>3. Loaded(l) \in Words
  BY DEF Loaded, Loads, Words, TimeLoads
<1>4. CASE word[l] = 0
  BY <1>t, <1>2, <1>3, <1>4 DEF Bsm, NoBsm
<1>5. CASE word[l] # 0
  <2>1. word[l] \in 1..Len(heard) /\ Bsm(word[l]) = heard[word[l]]
    BY <1>t, <1>2, <1>5 DEF Bsm
  <2>2. heard[word[l]] \in [Words -> Nat]
    BY <1>t, <2>1
  <2>3. heard[word[l]][Loaded(l)] \in Nat /\ heard[word[l]][Loaded(l)] <= Len(asked)
    BY <1>3, <2>1, <2>2 DEF RadioInv
  <2> QED BY <1>t, <1>2, <2>1, <2>3
<1> QED BY <1>4, <1>5

\* A request that was calibrated is one that was sent.
LEMMA CalibratedIsAsked ==
    ASSUME NEW k \in 0..Len(asked), Request(k).calibr = 1
    PROVE  k \in 1..Len(asked) /\ Request(k) = asked[k]
<1>1. k # 0
  BY DEF Request, NoRequest
<1> QED BY <1>1 DEF Request

\* Every load of an answer is of some half; each is of a request.
LEMMA StampedIs ==
    ASSUME TypeOK, RadioInv, cpc = "answered", ccalibr = 1, NEW word \in Contents,
           NEW load \in TimeLoads
    PROVE  \E k \in 0..Len(asked) : Stamped(word, load) = Request(k)
<1> DEFINE h == CHOOSE g \in Halves : TRUE
<1>1. h \in Halves
  BY RelayAssumption
<1>2. <<load, h>> \in Loads
  BY <1>1 DEF Loads
<1> HIDE DEF h
<1>3. Bsm(word[<<load, h>>])[Loaded(<<load, h>>)] \in 0..Len(asked)
  BY <1>2, AnswerWords
<1>4. Stamped(word, load) = Request(Bsm(word[<<load, h>>])[Loaded(<<load, h>>)])
  BY DEF Stamped, Source, h
<1> QED BY <1>3, <1>4

\* When its seconds are of one second, an answer's time is that of the middle
\* load, or a microsecond nearer to that second.
LEMMA TimeOfOneSecond ==
    ASSUME NEW t1 \in Int, NEW t2 \in Int, NEW t3 \in Int,
           WholeSeconds(t1) = WholeSeconds(t3), NEW t \in ReplyTimes(t1, t2, t3)
    PROVE  t \in Int /\ t - t2 <= 1 /\ t2 - t <= 1
<1>1. WholeSeconds(t3) \in Int
  BY SecondAssumption DEF WholeSeconds
<1>2. PICK x \in Truncations(t2, t2 - WholeSeconds(t3)) : t = WholeSeconds(t3) + x
  BY DEF ReplyTimes
<1>3. x \in {t2 - WholeSeconds(t3) - 1, t2 - WholeSeconds(t3), t2 - WholeSeconds(t3) + 1}
  BY <1>2 DEF Truncations
<1> QED BY <1>1, <1>2, <1>3

\* For all constants, commu_delay (TCP_Client2.c:131) is the age of the sample
\* whose time was answered, up to half of the calibrating exchanges, the units'
\* clocks at that time, what the computers' clocks were set by since and the
\* microsecond that lidar_recv.c:331 may cut off, where its three loads are of whole
\* times and the two of seconds of one second.
THEOREM DelaysRight == Spec => []DelayRight
<1>1. TypeOK /\ RelayInv => DelayRight
  <2> SUFFICES ASSUME TypeOK, RelayInv, cpc = "answered", ccalibr = 1,
                      NEW word \in Contents, Stamped(word, "time").calibr = 1,
                      OneSecond(word), NEW server \in ServerTimes(word)
               PROVE  LET from == Stamped(word, "time")
                      IN  Within(2 * CommuDelay(server) - 2 * (now - from.born)
                                   - 2 * (obuAt - rsuAt)
                                   - ((2 * off["obpc"] - obpcAt)
                                        - (2 * from.ahead - pcAt)),
                                 lrtt + crtt + 3)
    BY DEF DelayRight
  <2> DEFINE from == Stamped(word, "time")
  <2>1. /\ asked \in Seq(RequestType) /\ Len(asked) \in Nat /\ RadioInv
        /\ now \in Int /\ off["obpc"] \in Int
        /\ cdtime \in Int /\ rsuAt \in Int /\ obuAt \in Int /\ pcAt \in Int
        /\ obpcAt \in Int /\ lrtt \in Int /\ crtt \in Int
    BY Clocks DEF RelayInv, TypeOK, TypeRsu, TypeListener, TypeClient, Hosts
  <2>2. \A load \in TimeLoads : Stamped(word, load).stamp \in Int
    <3> SUFFICES ASSUME NEW load \in TimeLoads PROVE Stamped(word, load).stamp \in Int
      OBVIOUS
    <3>1. PICK k \in 0..Len(asked) : Stamped(word, load) = Request(k)
      BY <2>1, StampedIs
    <3>2. CASE k = 0
      BY <3>1, <3>2 DEF Request, NoRequest
    <3>3. CASE k # 0
      <4>1. k \in 1..Len(asked) /\ Stamped(word, load) = asked[k]
        BY <2>1, <3>1, <3>3 DEF Request
      <4>2. asked[k] \in RequestType
        BY <2>1, <4>1
      <4> QED BY <4>1, <4>2 DEF RequestType
    <3> QED BY <3>2, <3>3
  <2>3. PICK k \in 1..Len(asked) : from = asked[k]
    <3>1. PICK k \in 0..Len(asked) : from = Request(k)
      BY <2>1, StampedIs DEF TimeLoads
    <3> QED BY <3>1, CalibratedIsAsked
  <2>4. asked[k] \in RequestType
    BY <2>1, <2>3
  <2>5. from.stamp \in Int /\ from.born \in Int /\ from.ahead \in Int
    BY <2>3, <2>4 DEF RequestType
  <2>6. Within(2 * (from.stamp - from.born - from.ahead - rsuAt) + pcAt, lrtt)
    BY <2>3 DEF RelayInv, StampInv
  <2>7. Within(2 * cdtime + obpcAt - 2 * obuAt, crtt)
    BY DEF RelayInv, ClientInv
  <2>8. server \in Int /\ server - from.stamp <= 1 /\ from.stamp - server <= 1
    BY <2>2, TimeOfOneSecond DEF ServerTimes, OneSecond, TimeLoads
  <2> DEFINE stamp == from.stamp
             born == from.born
             ahead == from.ahead
             offPc == off["obpc"]
  <2>9. stamp \in Int /\ born \in Int /\ ahead \in Int /\ offPc \in Int
    BY <2>1, <2>5
  <2>10. Within(2 * (stamp - born - ahead - rsuAt) + pcAt, lrtt)
    BY <2>6
  <2>11. server - stamp <= 1 /\ stamp - server <= 1
    BY <2>8
  \* The arithmetic of a delay: server is within 1 of a stamp.
  <2>12. Within(2 * ((now + offPc) - server + cdtime) - 2 * (now - born)
                  - 2 * (obuAt - rsuAt) - ((2 * offPc - obpcAt) - (2 * ahead - pcAt)),
                lrtt + crtt + 3)
    <3> HIDE DEF stamp, born, ahead, offPc
    <3>1. /\ now \in Int /\ cdtime \in Int /\ rsuAt \in Int /\ obuAt \in Int
          /\ pcAt \in Int /\ obpcAt \in Int /\ lrtt \in Int /\ crtt \in Int
          /\ server \in Int
      BY <2>1, <2>8
    <3> QED BY <2>7, <2>9, <2>10, <2>11, <3>1 DEF Within
  <2> QED BY <2>12 DEF CommuDelay
<1> QED BY <1>1, RelayInvariance, PTL

\* For all constants, while lidar_send.c's accesses take place in order no word of
\* an answered position is older than its stamp unless a BSM was received while
\* lidar_recv.c put the answer together.
THEOREM PositionsFresh == Spec => []PositionFresh
<1>1. TypeOK /\ RelayInv => PositionFresh
  <2> SUFFICES ASSUME TypeOK, RelayInv, InOrder, cpc = "answered", ccalibr = 1,
                      answer.floor = answer.top,
                      NEW word \in Contents, NEW load \in TimeLoads,
                      NEW g \in Halves, NEW h \in Halves
               PROVE  Source(word, <<load, g>>).born <= Source(word, <<"pos", h>>).born
    BY DEF PositionFresh
  <2> DEFINE s == <<load, g>>
             p == <<"pos", h>>
             m == answer.top
             j == Bsm(m)[<<"time", g>>]
             k == Bsm(m)[p]
  <2>1. s \in Loads /\ p \in Loads /\ Loaded(s) = <<"time", g>> /\ Loaded(p) = p
    BY DEF Loads, TimeLoads, Loaded
  <2>2. word[s] = m /\ word[p] = m
    <3>1. answer.floor \in Nat /\ answer.top \in Nat
      BY DEF TypeOK, TypeClient, AnswerType
    <3> QED BY <2>1, <3>1 DEF Contents
  <2>3. m \in 0..Len(heard) /\ j \in 0..Len(asked) /\ k \in 0..Len(asked)
    BY <2>1, <2>2, AnswerWords DEF RelayInv
  <2>4. j <= k
    <3>1. CASE m = 0
      BY <2>3, <3>1 DEF Bsm, NoBsm, Words
    <3>2. CASE m # 0
      <4>1. m \in 1..Len(heard) /\ Bsm(m) = heard[m]
        BY <2>3, <3>2 DEF Bsm
      <4> QED BY <4>1 DEF RelayInv, RadioInv, StampBehind
    <3> QED BY <3>1, <3>2
  <2>5. Source(word, s) = Request(j) /\ Source(word, p) = Request(k)
    BY <2>1, <2>2 DEF Source
  <2> HIDE DEF j, k, s, p
  <2>6. Len(asked) \in Nat /\ \A i \in 1..Len(asked) : asked[i].born \in Nat
    <3>1. asked \in Seq(RequestType)
      BY DEF TypeOK, TypeRsu
    <3>2. \A i \in 1..Len(asked) : asked[i] \in RequestType
      BY <3>1
    <3> QED BY <3>1, <3>2 DEF RequestType
  <2>7. Request(j).born <= Request(k).born
    <3>1. CASE j = 0
      <4>1. Request(j).born = 0
        BY <3>1 DEF Request, NoRequest
      <4>2. Request(k).born \in Nat
        BY <2>3, <2>6 DEF Request, NoRequest
      <4> QED BY <4>1, <4>2
    <3>2. CASE j # 0
      <4>1. j \in 1..Len(asked) /\ k \in 1..Len(asked)
        BY <2>3, <2>4, <2>6, <3>2
      <4>2. Request(j) = asked[j] /\ Request(k) = asked[k]
        BY <4>1 DEF Request
      <4> QED BY <2>4, <4>1, <4>2 DEF RelayInv, AskedInv
    <3> QED BY <3>1, <3>2
  <2> QED BY <2>5, <2>7 DEF s, p
<1> QED BY <1>1, RelayInvariance, PTL
=============================================================================
