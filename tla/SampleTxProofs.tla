--------------------------- MODULE SampleTxProofs ---------------------------
(***************************************************************************)
(* TLAPS proofs about the sample senders, for every sample, number of      *)
(* handler threads, movement states and expiries.                          *)
(***************************************************************************)
EXTENDS SampleTx, TLAPS

----------------------------------------------------------------------------
(* The plans *)

\* What is used of a plan p, that of a sample that is "spat", or "tim", or not.
GoodPlan(p, spat, tim) ==
    /\ p.parts \in Nat /\ p.late \subseteq 1..p.parts
    /\ p.late # {} => tim /\ p.parts = 2
    /\ \A k \in 1..p.parts : /\ p.tests[k] \in 1..k
                             /\ p.tests[k] # k => spat /\ k > 3
                             /\ p.within[k] \subseteq 1..k

\* The plans of the samples that allocate nothing, and of the others.
LEMMA PlainPlans ==
    \A p \in {Bsm, Rsa, Rtcm, Srm, Ssm} : GoodPlan(p, FALSE, FALSE)
<1>1. /\ Bsm.parts = 0 /\ Bsm.late = {} /\ Rsa.parts = 0 /\ Rsa.late = {}
      /\ Rtcm.parts = 0 /\ Rtcm.late = {} /\ Srm.parts = 0 /\ Srm.late = {}
      /\ Ssm.parts = 0 /\ Ssm.late = {}
  BY DEF Bsm, Rsa, Rtcm, Srm, Ssm, Plain
<1>2. 1..0 = {}
  OBVIOUS
<1> QED BY <1>1, <1>2 DEF GoodPlan

LEMMA MapPlan == GoodPlan(Map, FALSE, FALSE)
<1>1. /\ Map.parts = 3 /\ Map.late = {} /\ Map.tests = <<1, 2, 3>>
      /\ Map.within = <<{1}, {1, 2}, {1, 2, 3}>>
  BY DEF Map, Plain
<1>2. \A k \in 1..3 : Map.tests[k] = k /\ Map.within[k] \subseteq 1..k
  BY <1>1
<1> QED BY <1>1, <1>2 DEF GoodPlan

LEMMA SpatPlan == GoodPlan(Spat, TRUE, FALSE)
<1>1. /\ Spat.parts = 2 + States /\ Spat.late = {}
      /\ Spat.tests = [k \in 1..(2 + States) |-> IF k <= 3 THEN k ELSE 3]
      /\ Spat.within = [k \in 1..(2 + States) |-> IF k = 1 THEN {1} ELSE {1, 2, k}]
  BY DEF Spat, Plain
<1>2. 2 + States \in Nat
  BY SampleAssumption
<1>3. ASSUME NEW k \in 1..(2 + States)
      PROVE  /\ Spat.tests[k] \in 1..k /\ (Spat.tests[k] # k => k > 3)
             /\ Spat.within[k] \subseteq 1..k
  <2>1. k \in Nat /\ k >= 1
    BY <1>2
  <2>2. Spat.tests[k] = IF k <= 3 THEN k ELSE 3
    BY <1>1
  <2>3. Spat.within[k] = IF k = 1 THEN {1} ELSE {1, 2, k}
    BY <1>1
  <2>4. Spat.tests[k] \in 1..k /\ (Spat.tests[k] # k => k > 3)
    BY <2>1, <2>2
  <2>5. Spat.within[k] \subseteq 1..k
    BY <2>1, <2>3
  <2> QED BY <2>4, <2>5
<1> QED BY <1>1, <1>2, <1>3 DEF GoodPlan

LEMMA TimPlan == GoodPlan(Tim, FALSE, TRUE)
<1>1. /\ Tim.parts = 2 /\ Tim.late = {1, 2} /\ Tim.tests = <<1, 2>>
      /\ Tim.within = <<{1}, {1, 2}>>
  BY DEF Tim, Plain
<1>2. \A k \in 1..2 : Tim.tests[k] = k /\ Tim.within[k] \subseteq 1..k
  BY <1>1
<1> QED BY <1>1, <1>2 DEF GoodPlan

\* The plan of the sample that runs.
LEMMA PlanFacts ==
    ASSUME sample \in Samples
    PROVE  GoodPlan(Plan, sample = "spat", sample = "tim")
<1>1. CASE sample \in {"bsm", "rsa", "rtcm", "srm", "ssm"}
  <2>1. Plan \in {Bsm, Rsa, Rtcm, Srm, Ssm}
    BY <1>1 DEF Plan, Plans
  <2> QED BY <2>1, PlainPlans DEF GoodPlan
<1>2. CASE sample = "map"
  <2>1. Plan = Map
    BY <1>2 DEF Plan, Plans
  <2> QED BY <2>1, MapPlan DEF GoodPlan
<1>3. CASE sample = "spat"
  <2>1. Plan = Spat
    BY <1>3 DEF Plan, Plans
  <2> QED BY <1>3, <2>1, SpatPlan DEF GoodPlan
<1>4. CASE sample = "tim"
  <2>1. Plan = Tim
    BY <1>4 DEF Plan, Plans
  <2> QED BY <1>4, <2>1, TimPlan DEF GoodPlan
<1> QED BY <1>1, <1>2, <1>3, <1>4 DEF Samples

\* The plan is that of the sample, which never changes.
LEMMA PlanConstant == [Next]_vars => sample' = sample /\ Plan' = Plan
BY DEF Next, Boot, Handle, Expire, Number, LoadInc, StoreInc, Alloc, Test, Write,
       WriteNull, Filled, Send, Free, vars, Plan

----------------------------------------------------------------------------
(* Type correctness *)

Parts == 1..Plan.parts
TxType == [pc : HandlerStates, seq : Nat, number : Nat, reg : Nat,
           part : 0..Plan.parts, got : SUBSET Parts, linked : SUBSET Parts]

LEMMA ParametersFixed ==
    ASSUME TypeOK, [Next]_vars
    PROVE  /\ sample' = sample /\ Plan' = Plan /\ Parts' = Parts /\ TxType' = TxType
           /\ GoodPlan(Plan, sample = "spat", sample = "tim")
           /\ tx \in [Handlers -> TxType]
BY PlanConstant, PlanFacts DEF TypeOK, Parts, TxType, HandlerStates

\* Every step of a handler changes the record of that handler only, and to one
\* of the right type.
LEMMA TypeTx ==
    ASSUME TypeOK, NEW h \in Handlers, Expire(h) \/ Handle(h)
    PROVE  tx' \in [Handlers -> TxType]
<1>1. /\ Plan.parts \in Nat /\ Plan.late \subseteq Parts /\ tx \in [Handlers -> TxType]
  <2>1. [Next]_vars
    BY DEF Next
  <2> QED BY <2>1, ParametersFixed DEF GoodPlan, Parts
<1>2. started \in Nat /\ count \in Nat /\ count % MsgCountMod \in Nat
  BY SampleAssumption DEF TypeOK
<1>3. /\ tx[h] \in TxType /\ tx[h].got \subseteq Parts /\ tx[h].linked \subseteq Parts
      /\ 0 \in 0..Plan.parts
  BY <1>1 DEF TxType
<1> USE DEF TxType, HandlerStates
<1>4. CASE Expire(h)
  <2>1. [IdleTx EXCEPT !.pc = "number", !.seq = started] \in TxType
    <3>1. IdleTx \in TxType
      BY <1>3 DEF IdleTx
    <3> QED BY <1>2, <3>1
  <2> QED BY <1>1, <1>4, <2>1 DEF Expire
<1>5. CASE Number(h)
  BY <1>1, <1>2, <1>5 DEF Number
<1>6. CASE LoadInc(h)
  BY <1>1, <1>2, <1>6 DEF LoadInc
<1>7. CASE StoreInc(h) \/ Test(h) \/ Write(h) \/ Send(h)
  BY <1>1, <1>7 DEF StoreInc, Test, Write, Send
<1>8. CASE Alloc(h)
  <2> DEFINE k == tx[h].part + 1
  <2>1. k \in 0..Plan.parts /\ k \in Parts
    BY <1>1, <1>3, <1>8 DEF Alloc, Parts
  <2>2. PICK new \in {{}, {k}} :
          tx' = [tx EXCEPT ![h].pc = "test", ![h].part = k, ![h].got = @ \cup new,
                           ![h].linked = @ \cup (new \ Plan.late)]
    BY <1>8 DEF Alloc
  <2>3. /\ tx[h].got \cup new \subseteq Parts
        /\ tx[h].linked \cup (new \ Plan.late) \subseteq Parts
    BY <1>3, <2>1
  <2> DEFINE t == [tx[h] EXCEPT !.pc = "test", !.part = k, !.got = @ \cup new,
                                !.linked = @ \cup (new \ Plan.late)]
  <2>4. t \in TxType
    BY <1>3, <2>1, <2>3
  <2>5. tx' = [tx EXCEPT ![h] = t]
    BY <1>1, <2>2
  <2> HIDE DEF t
  <2> QED BY <1>1, <2>4, <2>5
<1>9. CASE WriteNull(h)
  BY <1>1, <1>9 DEF WriteNull
<1>10. CASE Filled(h)
  <2>1. tx[h].linked \cup Plan.late \subseteq Parts
    BY <1>1, <1>3
  <2> DEFINE t == [tx[h] EXCEPT !.pc = "send", !.linked = @ \cup Plan.late]
  <2>2. t \in TxType
    BY <1>3, <2>1
  <2>3. tx' = [tx EXCEPT ![h] = t]
    BY <1>1, <1>10 DEF Filled
  <2> HIDE DEF t
  <2> QED BY <1>1, <2>2, <2>3
<1>11. CASE Free(h)
  <2>1. IdleTx \in TxType
    BY <1>1 DEF IdleTx
  <2> QED BY <1>1, <1>11, <2>1 DEF Free
<1> QED BY <1>4, <1>5, <1>6, <1>7, <1>8, <1>9, <1>10, <1>11 DEF Handle

LEMMA TypeInit == Init => TypeOK
<1> SUFFICES ASSUME Init PROVE TypeOK
  OBVIOUS
<1>1. sample \in Samples
  BY DEF Init
<1>2. Plan.parts \in Nat
  BY <1>1, PlanFacts DEF GoodPlan
<1>3. tx \in [Handlers -> TxType]
  BY <1>2 DEF Init, IdleTx, TxType, HandlerStates
<1> QED BY <1>1, <1>3 DEF Init, TypeOK, TxType, Parts

LEMMA TypeNext == TypeOK /\ [Next]_vars => TypeOK'
<1> SUFFICES ASSUME TypeOK, [Next]_vars PROVE TypeOK'
  OBVIOUS
<1>0. sample' \in Samples /\ Plan' = Plan /\ tx \in [Handlers -> TxType]
  BY ParametersFixed DEF TypeOK
<1>1. CASE UNCHANGED vars
  BY <1>0, <1>1 DEF vars, TypeOK
<1>2. CASE Boot
  BY <1>0, <1>2 DEF Boot, BootOrder, TypeOK
<1>3. ASSUME NEW h \in Handlers, Expire(h) PROVE TypeOK'
  <2>1. overlapped' \in BOOLEAN
    BY <1>3 DEF Expire, TypeOK
  <2>2. started' \in Nat
    BY <1>3 DEF Expire, TypeOK
  <2> QED BY <1>0, <1>3, <2>1, <2>2, TypeTx DEF Expire, TypeOK, TxType, Parts
<1>4. ASSUME NEW h \in Handlers, Handle(h) PROVE TypeOK'
  <2>0. tx[h] \in TxType
    BY <1>0
  <2>1. tx' \in [Handlers -> TxType]
    BY <1>4, TypeTx
  <2>2. main' \in {"init", "register", "create", "arm", "sleep", "exited", "crashed"}
    BY <1>4 DEF Handle, Number, LoadInc, StoreInc, Alloc, Test, Write, WriteNull,
                Filled, Send, Free, TypeOK
  <2>3. count' \in Nat
    BY <1>4, <2>0 DEF Handle, Number, LoadInc, StoreInc, Alloc, Test, Write,
                      WriteNull, Filled, Send, Free, TypeOK, TxType
  <2>4. failedAt' \in Nat
    <3>1. tx[h].part \in Nat
      BY <2>0 DEF TxType
    <3> QED BY <1>4, <3>1 DEF Handle, Number, LoadInc, StoreInc, Alloc, Test, Write,
                              WriteNull, Filled, Send, Free, TypeOK
  <2>5. sent' \subseteq [seq : Nat, number : Nat, parts : SUBSET Parts]
    <3>1. Message(h) \in [seq : Nat, number : Nat, parts : SUBSET Parts]
      BY <2>0 DEF Message, TxType
    <3> QED BY <1>4, <3>1 DEF Handle, Number, LoadInc, StoreInc, Alloc, Test, Write,
                              WriteNull, Filled, Send, Free, TypeOK, Parts
  <2>6. leaked' \subseteq Nat \X Nat
    <3>1. tx[h].seq \in Nat /\ tx[h].got \subseteq Nat
      BY <2>0 DEF TxType, Parts
    <3>2. {tx[h].seq} \X (tx[h].got \ Reachable(h)) \subseteq Nat \X Nat
      BY <3>1
    <3> QED BY <1>4, <3>2 DEF Handle, Number, LoadInc, StoreInc, Alloc, Test, Write,
                              WriteNull, Filled, Send, Free, TypeOK
  <2>7. started' = started /\ overlapped' = overlapped
    BY <1>4 DEF Handle, Number, LoadInc, StoreInc, Alloc, Test, Write, WriteNull,
                Filled, Send, Free
  <2> QED BY <1>0, <2>1, <2>2, <2>3, <2>4, <2>5, <2>6, <2>7
          DEF TypeOK, TxType, Parts
<1> QED BY <1>1, <1>2, <1>3, <1>4 DEF Next

\* The senders keep their types.
THEOREM TypeCorrect == Spec => []TypeOK
<1>1. Init => TypeOK
  BY TypeInit
<1>2. TypeOK /\ [Next]_vars => TypeOK'
  BY TypeNext
<1> QED BY <1>1, <1>2, PTL DEF Spec

----------------------------------------------------------------------------
(* What a step does to the handlers *)

\* The other handlers are left alone, and what the timer does to its own.
LEMMA HandlerStep ==
    ASSUME TypeOK, NEW h \in Handlers, Expire(h) \/ Handle(h)
    PROVE  /\ \A g \in Handlers \ {h} : tx'[g] = tx[g]
           /\ Expire(h) => tx'[h].pc = "number" /\ tx'[h].seq = started
                             /\ tx'[h].number = 0
<1>1. tx \in [Handlers -> TxType]
  BY DEF TypeOK, TxType, Parts
<1>2. CASE Expire(h)
  BY <1>1, <1>2 DEF Expire, IdleTx
<1>3. CASE Handle(h)
  BY <1>1, <1>3 DEF Expire, Handle, Number, LoadInc, StoreInc, Alloc,
                    Test, Write, WriteNull, Filled, Send, Free
<1> QED BY <1>2, <1>3

\* Where its own calloc() failed, a handler has the parts before.
LEMMA Missing ==
    ASSUME TypeOK, NEW h \in Handlers, HasParts(h), tx[h].part > 0
    PROVE  /\ tx[h].part \in 1..Plan.parts
           /\ tx[h].part \in tx[h].got => tx[h].got = 1..tx[h].part
           /\ tx[h].part \notin tx[h].got => tx[h].got = 1..(tx[h].part - 1)
           /\ tx[h].pc = "drop" => tx[h].part \notin tx[h].got
<1>1. GoodPlan(Plan, sample = "spat", sample = "tim") /\ tx[h] \in TxType
  BY PlanFacts DEF TypeOK, TxType, Parts
<1>2. tx[h].part \in 1..Plan.parts /\ tx[h].part \in Nat
  BY <1>1 DEF TxType
<1>3. \A k \in 1..tx[h].part : k < tx[h].part => k \in tx[h].got
  BY DEF HasParts
<1>4. tx[h].got \subseteq 1..tx[h].part
  BY DEF HasParts
<1>5. \A k \in 1..tx[h].part : k = tx[h].part \/ k < tx[h].part
  BY <1>2
<1>6. 1..(tx[h].part - 1) = {k \in 1..tx[h].part : k < tx[h].part}
  BY <1>2
<1>7. tx[h].part \in tx[h].got => tx[h].got = 1..tx[h].part
  BY <1>3, <1>4, <1>5
<1>8. tx[h].part \notin tx[h].got => tx[h].got = 1..(tx[h].part - 1)
  BY <1>3, <1>4, <1>5, <1>6
<1>9. tx[h].pc = "drop" => tx[h].part \notin tx[h].got
  <2> SUFFICES ASSUME tx[h].pc = "drop", tx[h].part \in tx[h].got PROVE FALSE
    OBVIOUS
  <2>1. Plan.tests[tx[h].part] \in 1..tx[h].part
    BY <1>1, <1>2 DEF GoodPlan
  <2> QED BY <1>7, <2>1 DEF HasParts
<1> QED BY <1>2, <1>7, <1>8, <1>9

\* Every step keeps what a handler has in line with where it is.
LEMMA PartsStep ==
    ASSUME TypeOK, PartsInv, NEW h \in Handlers, Expire(h) \/ Handle(h)
    PROVE  HasParts(h)'
<1>0. /\ Plan' = Plan /\ tx \in [Handlers -> TxType] /\ tx[h] \in TxType /\ HasParts(h)
      /\ GoodPlan(Plan, sample = "spat", sample = "tim")
  <2>1. [Next]_vars
    BY DEF Next
  <2> QED BY <2>1, ParametersFixed DEF PartsInv
<1>t. /\ tx[h].part \in Nat /\ tx[h].part <= Plan.parts /\ Plan.parts \in Nat
      /\ Plan.late \subseteq 1..Plan.parts
  BY <1>0 DEF TxType, GoodPlan
<1>e. \A k : 1..0 = {} /\ {} \subseteq k
  OBVIOUS
<1>1. CASE Expire(h) \/ Free(h)
  <2>1. /\ tx'[h].pc \in {"number", "idle"} /\ tx'[h].part = 0 /\ tx'[h].got = {}
        /\ tx'[h].linked = {}
    <3>1. CASE Expire(h)
      BY <1>0, <3>1 DEF Expire, IdleTx
    <3>2. CASE Free(h)
      BY <1>0, <3>2 DEF Free, IdleTx
    <3> QED BY <1>1, <3>1, <3>2
  <2> QED BY <1>0, <1>e, <2>1 DEF HasParts
<1>2. CASE Number(h) \/ LoadInc(h) \/ StoreInc(h)
  <2>1. /\ tx'[h].pc \in {"inc", "put", "calloc"}
        /\ tx'[h].part = tx[h].part /\ tx'[h].got = tx[h].got
        /\ tx'[h].linked = tx[h].linked /\ tx[h].pc \in {"number", "inc", "put"}
    BY <1>0, <1>2 DEF Number, LoadInc, StoreInc, TxType
  <2>2. tx[h].part = 0 /\ tx[h].got = {} /\ tx[h].linked = tx[h].got \ Plan.late
    BY <1>0, <1>e, <2>1 DEF HasParts
  <2> QED BY <1>0, <1>e, <2>1, <2>2 DEF HasParts
<1>3. CASE Alloc(h)
  <2> DEFINE k == tx[h].part + 1
  <2>1. PICK new \in {{}, {k}} :
          tx' = [tx EXCEPT ![h].pc = "test", ![h].part = k, ![h].got = @ \cup new,
                           ![h].linked = @ \cup (new \ Plan.late)]
    BY <1>3 DEF Alloc
  <2>2. /\ tx'[h].pc = "test" /\ tx'[h].part = k /\ tx'[h].got = tx[h].got \cup new
        /\ tx'[h].linked = tx[h].linked \cup (new \ Plan.late)
    BY <1>0, <2>1 DEF TxType
  <2>3. tx[h].got = 1..tx[h].part /\ tx[h].linked = tx[h].got \ Plan.late
    BY <1>0, <1>3 DEF Alloc, HasParts
  <2>4. tx'[h].got \subseteq 1..k /\ k > 0
    BY <1>t, <2>2, <2>3
  <2>5. \A j \in 1..k : j < k => j \in tx'[h].got
    BY <1>t, <2>2, <2>3
  <2>6. tx'[h].linked = tx'[h].got \ Plan.late
    BY <2>2, <2>3
  <2> HIDE DEF k
  <2> QED BY <1>0, <2>2, <2>4, <2>5, <2>6 DEF HasParts
<1>4. CASE Test(h)
  <2>1. /\ tx[h].pc = "test" /\ tx'[h].part = tx[h].part /\ tx'[h].got = tx[h].got
        /\ tx'[h].linked = tx[h].linked
        /\ tx'[h].pc = IF Plan.tests[tx[h].part] \in tx[h].got THEN "write" ELSE "drop"
    BY <1>0, <1>4 DEF Test, TxType
  <2> QED BY <1>0, <2>1 DEF HasParts
<1>5. CASE Write(h)
  <2>1. /\ tx[h].pc = "write" /\ tx[h].part \in tx[h].got /\ tx'[h].pc = "calloc"
        /\ tx'[h].part = tx[h].part /\ tx'[h].got = tx[h].got
        /\ tx'[h].linked = tx[h].linked
    BY <1>0, <1>5 DEF Write, TxType
  <2>2. tx[h].part > 0
    BY <1>0, <2>1 DEF HasParts
  <2>3. tx[h].got = 1..tx[h].part
    BY <1>0, <2>1, <2>2, Missing
  <2> QED BY <1>0, <2>1, <2>3 DEF HasParts
<1>6. CASE WriteNull(h)
  <2>1. tx' = tx
    BY <1>6 DEF WriteNull
  <2> QED BY <1>0, <2>1 DEF HasParts
<1>7. CASE Filled(h)
  <2>1. /\ tx[h].pc = "calloc" /\ tx[h].part = Plan.parts /\ tx'[h].pc = "send"
        /\ tx'[h].part = tx[h].part /\ tx'[h].got = tx[h].got
        /\ tx'[h].linked = tx[h].linked \cup Plan.late
    BY <1>0, <1>7 DEF Filled, TxType
  <2>2. tx[h].got = 1..Plan.parts /\ tx[h].linked = tx[h].got \ Plan.late
    BY <1>0, <2>1 DEF HasParts
  <2>3. tx'[h].linked = tx'[h].got \cup Plan.late
    BY <2>1, <2>2
  <2> QED BY <1>0, <2>1, <2>2, <2>3 DEF HasParts
<1>8. CASE Send(h)
  <2>1. /\ tx[h].pc = "send" /\ tx'[h].pc = "free"
        /\ tx'[h].part = tx[h].part /\ tx'[h].got = tx[h].got
        /\ tx'[h].linked = tx[h].linked
    BY <1>0, <1>8 DEF Send, TxType
  <2> QED BY <1>0, <2>1 DEF HasParts
<1> QED BY <1>1, <1>2, <1>3, <1>4, <1>5, <1>6, <1>7, <1>8 DEF Handle

LEMMA PartsNext == TypeOK /\ PartsInv /\ [Next]_vars => PartsInv'
<1> SUFFICES ASSUME TypeOK, PartsInv, [Next]_vars, NEW g \in Handlers PROVE HasParts(g)'
  BY DEF PartsInv
<1>0. Plan' = Plan /\ HasParts(g)
  BY ParametersFixed DEF PartsInv
<1>1. CASE tx'[g] = tx[g]
  BY <1>0, <1>1 DEF HasParts
<1>2. CASE UNCHANGED vars \/ Boot
  BY <1>1, <1>2 DEF vars, Boot
<1>3. ASSUME NEW h \in Handlers, Expire(h) \/ Handle(h) PROVE HasParts(g)'
  <2>1. CASE g = h
    BY <1>3, <2>1, PartsStep
  <2>2. CASE g # h
    BY <1>1, <1>3, <2>2, HandlerStep
  <2> QED BY <2>1, <2>2
<1> QED BY <1>2, <1>3 DEF Next

LEMMA PartsInvariance == Spec => [](TypeOK /\ PartsInv)
<1>1. Init => PartsInv
  <2> SUFFICES ASSUME Init, NEW h \in Handlers PROVE HasParts(h)
    BY DEF PartsInv
  <2>1. tx[h] = IdleTx
    BY DEF Init
  <2>2. /\ tx[h].pc = "idle" /\ tx[h].part = 0 /\ tx[h].got = {} /\ tx[h].linked = {}
    BY <2>1 DEF IdleTx
  <2>3. 1..0 = {}
    OBVIOUS
  <2> QED BY <2>2, <2>3 DEF HasParts
<1> QED BY <1>1, PartsNext, TypeInit, TypeNext, PTL DEF Spec

----------------------------------------------------------------------------
(* Leaks and crashes *)

\* What cannot be reached when a handler frees its message.
LEMMA LostParts ==
    ASSUME TypeOK, PartsInv, NEW h \in Handlers, Free(h), NEW k \in tx[h].got \ Reachable(h)
    PROVE  sample = "tim" /\ k = 1
<1>0. /\ GoodPlan(Plan, sample = "spat", sample = "tim") /\ tx[h] \in TxType /\ HasParts(h)
  BY PlanFacts DEF TypeOK, TxType, Parts, PartsInv
<1>1. k \in 1..Plan.parts /\ tx[h].got \subseteq 1..Plan.parts
  BY <1>0 DEF TxType, Parts
<1>2. Plan.within[k] \subseteq 1..k /\ ~(Plan.within[k] \subseteq tx[h].linked)
  BY <1>0, <1>1 DEF GoodPlan, Reachable
<1>3. CASE tx[h].pc = "free"
  <2>1. tx[h].got = 1..Plan.parts /\ tx[h].linked = tx[h].got \cup Plan.late
    BY <1>0, <1>3 DEF HasParts
  <2>2. 1..k \subseteq 1..Plan.parts
    BY <1>0, <1>1 DEF GoodPlan
  <2> QED BY <1>2, <2>1, <2>2
<1>4. CASE tx[h].pc = "drop"
  <2>1. tx[h].part > 0 /\ tx[h].linked = tx[h].got \ Plan.late
    BY <1>0, <1>4 DEF HasParts
  <2>2. /\ tx[h].part \in 1..Plan.parts /\ tx[h].got = 1..(tx[h].part - 1)
    BY <1>0, <1>4, <2>1, Missing
  <2>3. k < tx[h].part /\ 1..k \subseteq tx[h].got
    BY <1>0, <2>2 DEF GoodPlan
  <2>4. Plan.late # {}
    BY <1>2, <2>1, <2>3
  <2>5. sample = "tim" /\ Plan.parts = 2
    BY <1>0, <2>4 DEF GoodPlan
  <2> QED BY <1>1, <2>2, <2>3, <2>5
<1> QED BY <1>3, <1>4 DEF Free

LEMMA LeakNext ==
    TypeOK /\ PartsInv /\ LeakOnlyTimFrame /\ [Next]_vars => LeakOnlyTimFrame'
<1> SUFFICES ASSUME TypeOK, PartsInv, LeakOnlyTimFrame, [Next]_vars
             PROVE  LeakOnlyTimFrame'
  OBVIOUS
<1>0. sample' = sample
  BY ParametersFixed
<1>1. ASSUME NEW h \in Handlers, Free(h) PROVE LeakOnlyTimFrame'
  <2>1. \A k \in tx[h].got \ Reachable(h) : sample = "tim" /\ k = 1
    BY <1>1, LostParts
  <2> QED BY <1>0, <1>1, <2>1 DEF Free, LeakOnlyTimFrame
<1>2. ASSUME \A h \in Handlers : ~Free(h) PROVE LeakOnlyTimFrame'
  <2>1. leaked' = leaked
    BY <1>2 DEF Next, vars, Boot, Expire, Handle, Number, LoadInc, StoreInc, Alloc,
                Test, Write, WriteNull, Filled, Send
  <2> QED BY <1>0, <2>1 DEF LeakOnlyTimFrame
<1> QED BY <1>1, <1>2

\* A handler leaks nothing but the data frame of a TIM without memory for its
\* advisory codes, whichever allocations fail.
THEOREM NothingElseLeaks == Spec => []LeakOnlyTimFrame
<1>1. Init => LeakOnlyTimFrame
  BY DEF Init, LeakOnlyTimFrame
<1> QED BY <1>1, LeakNext, PartsInvariance, PTL DEF Spec

LEMMA CrashNext ==
    TypeOK /\ PartsInv /\ CrashOnlySpatEvent /\ [Next]_vars => CrashOnlySpatEvent'
<1> SUFFICES ASSUME TypeOK, PartsInv, CrashOnlySpatEvent, [Next]_vars
             PROVE  CrashOnlySpatEvent'
  OBVIOUS
<1>0. sample' = sample /\ GoodPlan(Plan, sample = "spat", sample = "tim")
  BY ParametersFixed
<1>1. ASSUME NEW h \in Handlers, WriteNull(h) PROVE CrashOnlySpatEvent'
  <2>1. /\ tx[h].pc = "write" /\ tx[h].part \notin tx[h].got /\ HasParts(h)
    BY <1>1 DEF WriteNull, PartsInv
  <2>2. tx[h].part > 0 /\ Plan.tests[tx[h].part] # tx[h].part
    BY <2>1 DEF HasParts
  <2>3. tx[h].part \in 1..Plan.parts
    BY <2>1, <2>2, Missing
  <2>4. sample = "spat" /\ tx[h].part > 3
    BY <1>0, <2>2, <2>3 DEF GoodPlan
  <2> QED BY <1>0, <1>1, <2>4 DEF WriteNull, CrashOnlySpatEvent
<1>2. ASSUME \A h \in Handlers : ~WriteNull(h) PROVE CrashOnlySpatEvent'
  <2>1. failedAt' = failedAt /\ (main' = main \/ Boot)
    BY <1>2 DEF Next, vars, Boot, Expire, Handle, Number, LoadInc, StoreInc, Alloc,
                Test, Write, Filled, Send, Free
  <2>2. main' = "crashed" => main = "crashed"
    BY <2>1 DEF Boot, BootOrder
  <2> QED BY <1>0, <2>1, <2>2 DEF CrashOnlySpatEvent
<1> QED BY <1>1, <1>2

\* No failed allocation kills a sample but that of a later event list of a SPAT:
\* every other test looks at the pointer that is then written through.
THEOREM NothingElseCrashes == Spec => []CrashOnlySpatEvent
<1>1. Init => CrashOnlySpatEvent
  BY DEF Init, CrashOnlySpatEvent
<1> QED BY <1>1, CrashNext, PartsInvariance, PTL DEF Spec

----------------------------------------------------------------------------
(* What is sent *)

LEMMA SentNext == TypeOK /\ PartsInv /\ SentWhole /\ [Next]_vars => SentWhole'
<1> SUFFICES ASSUME TypeOK, PartsInv, SentWhole, [Next]_vars PROVE SentWhole'
  OBVIOUS
<1>0. Plan' = Plan
  BY ParametersFixed
<1>1. ASSUME NEW h \in Handlers, Send(h) PROVE SentWhole'
  <2>1. Message(h).parts = 1..Plan.parts
    BY <1>1 DEF Send, Message, PartsInv, HasParts
  <2> QED BY <1>0, <1>1, <2>1 DEF Send, SentWhole
<1>2. ASSUME \A h \in Handlers : ~Send(h) PROVE SentWhole'
  <2>1. sent' = sent
    BY <1>2 DEF Next, vars, Boot, Expire, Handle, Number, LoadInc, StoreInc, Alloc,
                Test, Write, WriteNull, Filled, Free
  <2> QED BY <1>0, <2>1 DEF SentWhole
<1> QED BY <1>1, <1>2

\* Every message sent has all its parts.
THEOREM SentComplete == Spec => []SentWhole
<1>1. Init => SentWhole
  BY DEF Init, SentWhole
<1> QED BY <1>1, SentNext, PartsInvariance, PTL DEF Spec

----------------------------------------------------------------------------
(* The numbers of the messages *)

\* What the steps do to the counter and to the numbers taken from it.
LEMMA CountStep ==
    ASSUME TypeOK, NEW h \in Handlers, Handle(h)
    PROVE  /\ overlapped' = overlapped /\ started' = started /\ Numbered' = Numbered
           /\ tx[h].pc # "idle"
           /\ Free(h) => tx'[h].pc = "idle" /\ tx'[h].number = 0
                         /\ tx[h].pc \in {"drop", "free"}
           /\ ~Free(h) => tx'[h].pc # "idle" /\ tx'[h].seq = tx[h].seq
           /\ ~StoreInc(h) => count' = count
           /\ StoreInc(h) => /\ tx[h].pc = "put" /\ count' = tx[h].reg + 1
                             /\ tx'[h].pc = "calloc" /\ tx'[h].number = tx[h].number
           /\ LoadInc(h) => /\ tx[h].pc = "inc" /\ tx'[h].pc = "put"
                            /\ tx'[h].reg = count /\ tx'[h].number = tx[h].number
           /\ Number(h) => /\ tx[h].pc = "number"
                           /\ tx'[h].pc = IF Plan.counts THEN "inc" ELSE "calloc"
                           /\ tx'[h].number = IF Plan.numbers THEN count % MsgCountMod
                                                             ELSE 0
           /\ Number(h) \/ LoadInc(h) \/ StoreInc(h) \/ Free(h)
                \/ /\ {tx[h].pc, tx'[h].pc} \subseteq
                        {"calloc", "test", "write", "send", "drop", "free"}
                   /\ tx'[h].number = tx[h].number
           /\ Send(h) \/ sent' = sent
<1>1. tx \in [Handlers -> TxType]
  BY DEF TypeOK, TxType, Parts
<1>2. Numbered' = Numbered
  <2>1. [Next]_vars
    BY DEF Next
  <2> QED BY <2>1, PlanConstant DEF Numbered
<1>3. overlapped' = overlapped /\ started' = started
  BY DEF Handle, Number, LoadInc, StoreInc, Alloc, Test, Write, WriteNull, Filled,
         Send, Free
<1> USE DEF TxType, HandlerStates
<1>4. CASE Number(h)
  BY <1>1, <1>2, <1>3, <1>4 DEF Number, LoadInc, StoreInc, Free
<1>5. CASE ~Number(h)
  BY <1>1, <1>2, <1>3, <1>5 DEF Handle, Number, LoadInc, StoreInc, Alloc, Test, Write,
                                WriteNull, Filled, Send, Free, IdleTx
<1> QED BY <1>4, <1>5

LEMMA ZeroNext == TypeOK /\ ZeroNumbers /\ [Next]_vars => ZeroNumbers'
<1> SUFFICES ASSUME TypeOK, ZeroNumbers, [Next]_vars, ~Numbered' PROVE ZeroNumbers'
  BY DEF ZeroNumbers
<1>0. Plan' = Plan /\ ~Numbered
  BY ParametersFixed DEF Numbered
<1>1. CASE UNCHANGED vars \/ Boot
  BY <1>0, <1>1 DEF vars, Boot, ZeroNumbers
<1>2. ASSUME NEW h \in Handlers, Expire(h) PROVE ZeroNumbers'
  <2>1. count' = count
    BY <1>2 DEF Expire
  <2>2. tx'[h].pc = "number" /\ tx'[h].number = 0
    BY <1>2, HandlerStep
  <2>3. \A g \in Handlers \ {h} : tx'[g] = tx[g]
    BY <1>2, HandlerStep
  <2> QED BY <1>0, <2>1, <2>2, <2>3 DEF ZeroNumbers
<1>3. ASSUME NEW h \in Handlers, Handle(h) PROVE ZeroNumbers'
  <2>1. \A g \in Handlers \ {h} : tx'[g] = tx[g]
    BY <1>3, HandlerStep
  <2>2. ~Plan.counts => count = 0 /\ tx[h].pc \notin {"inc", "put"}
    BY <1>0 DEF ZeroNumbers
  <2>3. ~Plan.counts => count' = 0 /\ tx'[h].pc \notin {"inc", "put"}
    BY <1>3, <2>2, CountStep
  <2>4. tx'[h].number = 0
    <3>1. tx[h].number = 0
      BY <1>0 DEF ZeroNumbers
    <3>2. CASE Number(h)
      <4>1. CASE Plan.numbers
        <5>1. count = 0
          BY <1>0, <2>2, <4>1 DEF Numbered
        <5>2. tx'[h].number = count % MsgCountMod
          BY <1>3, <3>2, <4>1, CountStep
        <5> QED BY <5>1, <5>2, SampleAssumption
      <4>2. CASE ~Plan.numbers
        BY <1>3, <3>2, <4>2, CountStep
      <4> QED BY <4>1, <4>2
    <3>3. CASE ~Number(h)
      BY <1>3, <3>1, <3>3, CountStep
    <3> QED BY <3>2, <3>3
  <2> QED BY <1>0, <2>1, <2>3, <2>4 DEF ZeroNumbers
<1> QED BY <1>1, <1>2, <1>3 DEF Next

LEMMA TallyNext ==
    TypeOK /\ ZeroNumbers /\ Tally /\ NumberedInOrder /\ [Next]_vars
      => Tally' /\ NumberedInOrder'
<1> SUFFICES ASSUME TypeOK, ZeroNumbers, Tally, NumberedInOrder, [Next]_vars
             PROVE  Tally' /\ NumberedInOrder'
  OBVIOUS
<1>0. Plan' = Plan /\ Numbered' = Numbered
  BY ParametersFixed DEF Numbered
<1>m. MsgCountMod \in Nat \ {0}
  BY SampleAssumption
<1>t. /\ tx \in [Handlers -> TxType] /\ tx' \in [Handlers -> TxType]
      /\ count \in Nat /\ started \in Nat
  BY TypeNext, ParametersFixed DEF TypeOK, TxType, Parts
<1>1. CASE UNCHANGED vars \/ Boot
  BY <1>0, <1>1 DEF vars, Boot, Tally, NumberedInOrder, Busy
<1>2. ASSUME NEW h \in Handlers, Expire(h) PROVE Tally' /\ NumberedInOrder'
  <2>1. sent' = sent /\ count' = count /\ started' = started + 1
    BY <1>2 DEF Expire
  <2>2. overlapped' = FALSE => overlapped = FALSE /\ Busy = {}
    BY <1>2 DEF Expire, TypeOK
  <2>3. ~overlapped' => ~overlapped /\ Busy = {}
    BY <1>2 DEF Expire
  <2>4. tx'[h].pc = "number" /\ tx'[h].seq = started
    BY <1>2, HandlerStep
  <2>5. \A g \in Handlers \ {h} : tx'[g] = tx[g]
    BY <1>2, HandlerStep
  <2>6. NumberedInOrder'
    BY <1>0, <2>1, <2>3 DEF NumberedInOrder
  <2>7. ASSUME Numbered, ~overlapped' PROVE Tally'
    <3>1. Busy = {} /\ count = started
      BY <2>3, <2>7 DEF Tally
    <3>2. \A g \in Busy' : g = h
      BY <2>5, <3>1 DEF Busy
    <3>3. count' = tx'[h].seq /\ started' = tx'[h].seq + 1
      BY <2>1, <2>4, <3>1
    <3>4. Busy' # {}
      BY <2>4 DEF Busy
    <3> QED BY <2>4, <3>2, <3>3, <3>4 DEF Tally
  <2> QED BY <1>0, <2>6, <2>7 DEF Tally
<1>3. ASSUME NEW h \in Handlers, Handle(h) PROVE Tally' /\ NumberedInOrder'
  <2>0. overlapped' = overlapped /\ started' = started
    BY <1>3, CountStep
  <2>1. \A g \in Handlers \ {h} : tx'[g] = tx[g]
    BY <1>3, HandlerStep
  <2>2. h \in Busy
    BY <1>3, CountStep DEF Busy
  <2>3. ASSUME Numbered, ~overlapped PROVE Tally'
    <3>1. \A g \in Busy : g = h
      BY <2>2, <2>3 DEF Tally
    <3>2. \A g \in Busy' : g = h
      BY <2>1, <3>1 DEF Busy
    <3>3. /\ started = tx[h].seq + 1
          /\ count = IF tx[h].pc \in {"number", "inc", "put"}
                     THEN tx[h].seq ELSE started
          /\ tx[h].pc # "number" => tx[h].number = tx[h].seq % MsgCountMod
          /\ tx[h].pc = "put" => tx[h].reg = count
      BY <2>2, <2>3 DEF Tally
    <3>4. CASE Free(h)
      <4>1. Busy' = {} /\ count' = started'
        BY <1>3, <2>0, <3>2, <3>3, <3>4, CountStep DEF Busy, StoreInc
      <4> QED BY <4>1 DEF Tally
    <3>5. CASE ~Free(h)
      <4>1. tx'[h].seq = tx[h].seq /\ tx'[h].pc # "idle"
        BY <1>3, <3>5, CountStep
      <4>2. Busy' # {}
        BY <4>1 DEF Busy
      <4>3. /\ count' = IF tx'[h].pc \in {"number", "inc", "put"}
                        THEN tx'[h].seq ELSE started'
            /\ tx'[h].pc # "number" => tx'[h].number = tx'[h].seq % MsgCountMod
            /\ tx'[h].pc = "put" => tx'[h].reg = count'
        <5>1. CASE Number(h)
          <6>1. tx'[h].pc = "inc" /\ tx'[h].number = count % MsgCountMod
            BY <1>3, <2>3, <5>1, CountStep DEF Numbered
          <6>2. tx[h].pc = "number" /\ count' = count
            BY <1>3, <5>1, CountStep DEF Number
          <6> QED BY <3>3, <4>1, <6>1, <6>2
        <5>2. CASE LoadInc(h)
          <6>1. count' = count
            BY <5>2 DEF LoadInc
          <6> QED BY <1>3, <3>3, <4>1, <5>2, <6>1, CountStep
        <5>3. CASE StoreInc(h)
          <6>1. count' = started' /\ tx'[h].pc = "calloc"
            BY <1>3, <1>t, <2>0, <3>3, <5>3, CountStep
          <6>2. tx'[h].number = tx[h].seq % MsgCountMod
            BY <1>3, <3>3, <5>3, CountStep
          <6> QED BY <4>1, <6>1, <6>2
        <5>4. CASE ~Number(h) /\ ~LoadInc(h) /\ ~StoreInc(h)
          <6>1. /\ {tx[h].pc, tx'[h].pc} \subseteq
                     {"calloc", "test", "write", "send", "drop", "free"}
                /\ tx'[h].number = tx[h].number /\ count' = count
            BY <1>3, <3>5, <5>4, CountStep
          <6> QED BY <2>0, <3>3, <4>1, <6>1
        <5> QED BY <5>1, <5>2, <5>3, <5>4
      <4>4. started' = tx'[h].seq + 1
        BY <2>0, <3>3, <4>1
      <4> QED BY <3>2, <4>2, <4>3, <4>4 DEF Tally
    <3> QED BY <3>4, <3>5
  <2>4. NumberedInOrder'
    <3>1. CASE Send(h)
      <4>1. tx[h].pc = "send"
        BY <3>1 DEF Send
      <4>2. Numbered /\ ~overlapped => tx[h].number = tx[h].seq % MsgCountMod
        BY <2>2, <4>1 DEF Tally
      <4>3. ~Numbered => tx[h].number = 0
        BY DEF ZeroNumbers
      <4>4. sent' = sent \/ sent' = sent \cup {Message(h)}
        BY <3>1 DEF Send
      <4>5. Message(h).number = tx[h].number /\ Message(h).seq = tx[h].seq
        BY DEF Message
      <4>6. ASSUME NEW m \in sent'
            PROVE  /\ Numbered /\ ~overlapped => m.number = m.seq % MsgCountMod
                   /\ ~Numbered => m.number = 0
        <5>1. CASE m \in sent
          BY <5>1 DEF NumberedInOrder
        <5>2. CASE m = Message(h)
          BY <4>2, <4>3, <4>5, <5>2
        <5> QED BY <4>4, <4>6, <5>1, <5>2
      <4> QED BY <1>0, <2>0, <4>6 DEF NumberedInOrder
    <3>2. CASE ~Send(h)
      BY <1>0, <1>3, <2>0, <3>2, CountStep DEF NumberedInOrder
    <3> QED BY <3>1, <3>2
  <2> QED BY <1>0, <2>0, <2>3, <2>4 DEF Tally
<1> QED BY <1>1, <1>2, <1>3 DEF Next

\* Samples that count number their messages one after the other until two
\* handlers overlap; the others number them 0.
THEOREM NumberedUnlessOverlap == Spec => []NumberedInOrder
<1>1. Init => NumberInv
  BY DEF Init, NumberInv, ZeroNumbers, Tally, NumberedInOrder, Busy, IdleTx
<1>2. TypeOK /\ NumberInv /\ [Next]_vars => NumberInv'
  BY ZeroNext, TallyNext DEF NumberInv
<1>3. NumberInv => NumberedInOrder
  BY DEF NumberInv
<1> QED BY <1>1, <1>2, <1>3, TypeCorrect, PTL DEF Spec
=============================================================================
