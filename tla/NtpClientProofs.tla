-------------------------- MODULE NtpClientProofs --------------------------
(***************************************************************************)
(* TLAPS proofs about the clock client, for every option, every length of  *)
(* the network's delays and any number of probes and duplicates.           *)
(***************************************************************************)
EXTENDS NtpClient, TLAPS

LEMMA InitInv == Init => Inv
<1> SUFFICES ASSUME Init PROVE Inv
  OBVIOUS
<1> USE NtpAssumption DEF Init
<1>1. TypeOK
  <2>1. live \in BOOLEAN /\ set_clock \in BOOLEAN /\ cross_check \in BOOLEAN
    OBVIOUS
  <2>2. repeated \in BOOLEAN /\ beaten \in BOOLEAN
    OBVIOUS
  <2>3. time_of_send \in Probes
    BY DEF Probes, NoProbe
  <2>4. probe_count \in Nat /\ goodness \in Nat /\ cycle_time \in Nat /\ offset \in Int
    OBVIOUS
  <2> QED BY <2>1, <2>2, <2>3, <2>4 DEF TypeOK
<1>2. TimerInv
  BY DEF TimerInv
<1>3. StampInv
  BY DEF StampInv, NoProbe
<1>4. OriginInv
  BY DEF OriginInv
<1>5. StopsOnceGood
  BY DEF StopsOnceGood
<1> QED BY <1>1, <1>2, <1>3, <1>4, <1>5 DEF Inv

\* The datagrams an accepted or rejected answer leaves were there before.
LEMMA LeaveSubset == ASSUME NEW r, Leave(r) PROVE replies' \subseteq replies
BY DEF Leave

----------------------------------------------------------------------------
LEMMA TypeStep == Inv /\ [Next]_vars => TypeOK'
<1> SUFFICES ASSUME Inv, [Next]_vars PROVE TypeOK'
  OBVIOUS
<1> USE NtpAssumption DEF Inv, TypeOK, control, answers
<1>1. CASE Start
  BY <1>1 DEF Start, EffectiveCount
<1>2. CASE LastTimeout
  BY <1>2 DEF LastTimeout
<1>3. CASE SendProbe
  <2>1. [id |-> probes_sent + 1, org |-> now + offset, sent |-> now] \in Probes
    BY DEF Probes
  <2> QED BY <1>3, <2>1 DEF SendProbe
<1>4. CASE RecvFails
  BY <1>4 DEF RecvFails, EndTest
<1>5. CASE Reject
  BY <1>5 DEF Reject
<1>6. CASE AcceptReply
  <2>1. PICK r \in replies : AcceptAs(r, Slop(r))
    BY <1>6 DEF AcceptReply
  <2>2. offset' \in Int
    BY <2>1 DEF AcceptAs, Replies
  <2>3. pc' \in {"main", "select", "done"}
    BY <2>1 DEF AcceptAs, EndTest
  <2>4. set_clock' \in BOOLEAN
    BY <2>1 DEF AcceptAs, EndTest
  <2>5. repeated' \in BOOLEAN /\ beaten' \in BOOLEAN
    BY <2>1 DEF AcceptAs
  <2>6. replies' \subseteq Replies
    BY <2>1, LeaveSubset DEF AcceptAs
  <2>7. measured' \in Nat /\ fed' \in Nat /\ answered' \in Nat
    BY <2>1 DEF AcceptAs, Replies
  <2> QED BY <2>1, <2>2, <2>3, <2>4, <2>5, <2>6, <2>7 DEF AcceptAs
<1>7. CASE Serve
  <2>1. PICK p \in requests, sane \in BOOLEAN :
          /\ replies' = replies \cup {[id |-> p.id, org |-> p.org, sent |-> p.sent,
                                       xmt |-> now, sane |-> sane]}
          /\ requests' \in {requests \ {p}} \cup (IF Duplicates THEN {requests} ELSE {})
    BY <1>7 DEF Serve
  <2>2. [id |-> p.id, org |-> p.org, sent |-> p.sent, xmt |-> now, sane |-> sane]
          \in Replies
    BY DEF Probes, Replies
  <2>3. requests' \subseteq Probes
    BY <2>1
  <2>4. replies' \subseteq Replies
    BY <2>1, <2>2
  <2> QED BY <1>7, <2>3, <2>4 DEF Serve
<1>8. CASE Tick
  BY <1>8 DEF Tick
<1>9. CASE UNCHANGED vars
  BY <1>9 DEF vars
<1> QED BY <1>1, <1>2, <1>3, <1>4, <1>5, <1>6, <1>7, <1>8, <1>9 DEF Next

LEMMA TimerStep == Inv /\ [Next]_vars => TimerInv'
<1> SUFFICES ASSUME Inv, [Next]_vars PROVE TimerInv'
  OBVIOUS
<1> USE NtpAssumption DEF Inv, TimerInv, control, answers
<1>t. /\ probe_count \in Nat /\ cycle_time \in Nat /\ probes_sent \in Nat
      /\ to \in Nat /\ now \in Nat /\ lastSend \in Nat
  BY DEF TypeOK
<1>1. CASE Start
  BY <1>1, <1>t DEF Start, OneShot
<1>2. CASE LastTimeout
  BY <1>2, <1>t DEF LastTimeout
<1>3. CASE SendProbe
  BY <1>3, <1>t DEF SendProbe
<1>4. CASE RecvFails
  BY <1>4, <1>t DEF RecvFails, EndTest
<1>5. CASE Reject
  BY <1>5, <1>t DEF Reject
<1>6. CASE AcceptReply
  BY <1>6, <1>t DEF AcceptReply, AcceptAs, EndTest
<1>7. CASE Serve
  BY <1>7, <1>t DEF Serve
<1>8. CASE Tick
  BY <1>8, <1>t DEF Tick
<1>9. CASE UNCHANGED vars
  BY <1>9, <1>t DEF vars
<1> QED BY <1>1, <1>2, <1>3, <1>4, <1>5, <1>6, <1>7, <1>8, <1>9 DEF Next

LEMMA StampStep == Inv /\ [Next]_vars => StampInv'
<1> SUFFICES ASSUME Inv, [Next]_vars PROVE StampInv'
  OBVIOUS
<1> USE DEF Inv, StampInv, control, answers
<1>t. /\ probes_sent \in Nat /\ now \in Nat /\ lastSend \in Nat
      /\ requests \subseteq Probes /\ replies \subseteq Replies
  BY DEF TypeOK
<1>1. CASE Start \/ LastTimeout \/ RecvFails
  BY <1>1 DEF Start, LastTimeout, RecvFails
<1>2. CASE SendProbe
  <2> DEFINE probe == [id |-> probes_sent + 1, org |-> now + offset, sent |-> now]
  <2>1. /\ time_of_send' = probe /\ requests' = requests \cup {probe}
        /\ probes_sent' = probes_sent + 1 /\ lastSend' = now
        /\ now' = now /\ replies' = replies
    BY <1>2 DEF SendProbe
  <2>2. \A p \in requests' : p.id \in 1..probes_sent'
    BY <2>1, <1>t
  <2>3. \A r \in replies : r.id \in 1..probes_sent' /\ r.id # probes_sent'
    BY <2>1, <1>t
  <2> QED BY <2>1, <2>2, <2>3, <1>t
<1>3. CASE Reject
  <2>1. replies' \subseteq replies
    BY <1>3 DEF Reject
  <2> QED BY <1>3, <2>1 DEF Reject
<1>4. CASE AcceptReply
  <2>1. replies' \subseteq replies
    BY <1>4, LeaveSubset DEF AcceptReply, AcceptAs
  <2> QED BY <1>4, <2>1 DEF AcceptReply, AcceptAs
<1>5. CASE Serve
  <2>1. PICK p \in requests, sane \in BOOLEAN :
          /\ replies' = replies \cup {[id |-> p.id, org |-> p.org, sent |-> p.sent,
                                       xmt |-> now, sane |-> sane]}
          /\ requests' \in {requests \ {p}} \cup (IF Duplicates THEN {requests} ELSE {})
    BY <1>5 DEF Serve
  <2>2. requests' \subseteq requests
    BY <2>1
  <2>3. UNCHANGED <<time_of_send, probes_sent, now, lastSend>>
    BY <1>5 DEF Serve
  <2>4. \A r \in replies' : /\ r.id \in 1..probes_sent /\ r.xmt <= now
                            /\ r.id = probes_sent => lastSend <= r.xmt
    BY <2>1, <1>t
  <2> QED BY <2>2, <2>3, <2>4
<1>6. CASE Tick
  <2>1. \A r \in replies : r.xmt \in Nat
    BY <1>t DEF Replies
  <2> QED BY <1>6, <1>t, <2>1 DEF Tick
<1>7. CASE UNCHANGED vars
  BY <1>7 DEF vars
<1> QED BY <1>1, <1>2, <1>3, <1>4, <1>5, <1>6, <1>7 DEF Next

LEMMA OriginStep == Inv /\ [Next]_vars => OriginInv'
<1> SUFFICES ASSUME Inv, [Next]_vars PROVE OriginInv'
  OBVIOUS
<1> USE DEF Inv, OriginInv, control, answers
<1>t. /\ probes_sent \in Nat /\ now \in Nat /\ offset \in Int /\ answered \in Nat
      /\ requests \subseteq Probes /\ replies \subseteq Replies
  BY DEF TypeOK
<1>1. CASE Start \/ LastTimeout \/ RecvFails \/ Tick
  BY <1>1 DEF Start, LastTimeout, RecvFails, Tick
<1>2. CASE SendProbe
  <2> DEFINE probe == [id |-> probes_sent + 1, org |-> now + offset, sent |-> now]
  <2>1. /\ time_of_send' = probe /\ requests' = requests \cup {probe}
        /\ probes_sent' = probes_sent + 1 /\ offset' = offset
        /\ answered' = answered /\ replies' = replies
    BY <1>2 DEF SendProbe
  <2>2. \A p \in requests : p.id # probes_sent'
    BY <2>1, <1>t DEF StampInv
  <2>3. \A r \in replies : r.id # probes_sent'
    BY <2>1, <1>t DEF StampInv
  <2>4. time_of_send'.org = time_of_send'.sent + offset'
    BY <2>1, <1>t
  <2> QED BY <2>1, <2>2, <2>3, <2>4, <1>t
<1>3. CASE Reject
  <2>1. replies' \subseteq replies
    BY <1>3 DEF Reject
  <2> QED BY <1>3, <2>1 DEF Reject
<1>4. CASE AcceptReply
  <2>1. PICK r \in replies : AcceptAs(r, Slop(r))
    BY <1>4 DEF AcceptReply
  <2>2. /\ replies' \subseteq replies /\ answered' = r.id
        /\ UNCHANGED <<time_of_send, probes_sent, requests, cross_check>>
    BY <2>1, LeaveSubset DEF AcceptAs
  <2>3. answered' <= probes_sent
    BY <2>2, <1>t DEF StampInv
  <2>4. cross_check => answered' = probes_sent
    BY <2>1, <2>2 DEF AcceptAs, Sound, StampInv
  <2> QED BY <2>2, <2>3, <2>4
<1>5. CASE Serve
  <2>1. PICK p \in requests, sane \in BOOLEAN :
          /\ replies' = replies \cup {[id |-> p.id, org |-> p.org, sent |-> p.sent,
                                       xmt |-> now, sane |-> sane]}
          /\ requests' \in {requests \ {p}} \cup (IF Duplicates THEN {requests} ELSE {})
    BY <1>5 DEF Serve
  <2>2. requests' \subseteq requests
    BY <2>1
  <2>3. UNCHANGED <<time_of_send, probes_sent, offset, answered, cross_check>>
    BY <1>5 DEF Serve
  <2>4. \A r \in replies' : r.id = probes_sent => /\ r.org = time_of_send.org
                                                  /\ r.sent = time_of_send.sent
    BY <2>1
  <2> QED BY <2>2, <2>3, <2>4
<1>6. CASE UNCHANGED vars
  BY <1>6 DEF vars
<1> QED BY <1>1, <1>2, <1>3, <1>4, <1>5, <1>6 DEF Next

LEMMA StopStep == Inv /\ [Next]_vars => StopsOnceGood'
<1> SUFFICES ASSUME Inv, [Next]_vars,
                    pc' = "done", probe_count' = 0, cross_check', ~repeated'
             PROVE  beaten'
  BY DEF StopsOnceGood
<1> USE DEF Inv, StopsOnceGood, control, answers
<1>t. /\ probes_sent \in Nat /\ now \in Nat /\ offset \in Int /\ goodness \in Nat
      /\ replies \subseteq Replies
  BY DEF TypeOK
<1>1. CASE AcceptReply
  <2>1. PICK r \in replies : AcceptAs(r, Slop(r))
    BY <1>1 DEF AcceptReply
  <2>2. /\ pc = "select" /\ probe_count = 0 /\ cross_check /\ r.id # answered
        /\ EndTest(Slop(r))
    BY <2>1 DEF AcceptAs
  <2>3. Slop(r) < goodness
    BY <2>2 DEF EndTest, CountReached
  <2>4. r.id = probes_sent
    BY <2>1, <2>2 DEF AcceptAs, Sound, StampInv
  <2>5. r.org = r.sent + offset
    BY <2>2, <2>4 DEF OriginInv
  <2>6. Slop(r) = now - r.sent
    BY <2>5, <1>t DEF Slop, Replies
  <2> QED BY <2>1, <2>3, <2>6 DEF AcceptAs
<1>2. CASE RecvFails
  BY <1>2, <1>t DEF RecvFails, EndTest, CountReached
<1>3. CASE LastTimeout
  BY <1>3 DEF LastTimeout, CountReached
<1>4. CASE Start \/ SendProbe \/ Reject \/ Serve \/ Tick
  BY <1>4 DEF Start, SendProbe, Reject, Serve, Tick
<1>5. CASE UNCHANGED vars
  BY <1>5 DEF vars
<1> QED BY <1>1, <1>2, <1>3, <1>4, <1>5 DEF Next

LEMMA Invariance == Spec => []Inv
<1>1. Inv /\ [Next]_vars => Inv'
  BY TypeStep, TimerStep, StampStep, OriginStep, StopStep DEF Inv
<1> QED BY <1>1, InitInv, PTL DEF Spec

\* A loop that stops on -g with its answers cross-checked, and took at most one
\* answer to each probe, had an answer whose round trip beat the goodness.
THEOREM StopsWhenGood == Spec => []StopsOnceGood
BY Invariance, PTL DEF Inv

\* Every variable of the clock client keeps its type.
THEOREM NtpTypeCorrect == Spec => []TypeOK
BY Invariance, PTL DEF Inv

----------------------------------------------------------------------------
\* With any options at all, two probes are at least MIN_INTERVAL apart.
THEOREM ProbesAlwaysApart == Spec => ProbesApart
<1>1. Inv /\ [Next]_vars => [probes_sent' # probes_sent /\ probes_sent > 0
                               => now - lastSend >= MinInterval]_vars
  <2> SUFFICES ASSUME Inv, Next, probes_sent' # probes_sent, probes_sent > 0
               PROVE  now - lastSend >= MinInterval
    OBVIOUS
  <2>1. SendProbe
    BY DEF Next, Start, LastTimeout, RecvFails, Reject, AcceptReply, AcceptAs,
           Serve, Tick
  <2>2. pc # "main" /\ to = 0 /\ ~CountReached
    BY <2>1 DEF SendProbe
  <2>3. probe_count # 1
    BY <2>2 DEF CountReached, Inv, TypeOK
  <2> QED BY <2>2, <2>3, NtpAssumption DEF Inv, TypeOK, TimerInv
<1> QED BY <1>1, Invariance, PTL DEF Spec, ProbesApart

\* With cross-checking, whatever the network delays and duplicates, a step
\* never puts the clock ahead, nor more than a cycle behind.
THEOREM StepsWithinCycle == Spec => StepWithinCycle
<1>1. Inv /\ [Next]_vars => [offset' # offset /\ cross_check
                               => offset' <= 0 /\ -offset' <= cycle_time]_vars
  <2> SUFFICES ASSUME Inv, Next, offset' # offset, cross_check
               PROVE  offset' <= 0 /\ -offset' <= cycle_time
    OBVIOUS
  <2>1. AcceptReply
    BY DEF Next, Start, LastTimeout, SendProbe, RecvFails, Reject, Serve, Tick
  <2>2. PICK r \in replies : AcceptAs(r, Slop(r))
    BY <2>1 DEF AcceptReply
  <2>3. offset' = r.xmt - now
    BY <2>2 DEF AcceptAs
  <2>4. r.id = probes_sent
    BY <2>2 DEF AcceptAs, Sound, Inv, StampInv
  <2>5. r.xmt \in Nat /\ lastSend <= r.xmt /\ r.xmt <= now /\ probes_sent > 0
    BY <2>4 DEF Inv, StampInv, TypeOK, Replies
  <2>6. now - lastSend <= cycle_time
    BY <2>5 DEF Inv, TimerInv, TypeOK
  <2> QED BY <2>3, <2>5, <2>6 DEF Inv, TypeOK
<1> QED BY <1>1, Invariance, PTL DEF Spec, StepWithinCycle
=============================================================================
