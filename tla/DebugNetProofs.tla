--------------------------- MODULE DebugNetProofs ---------------------------
(***************************************************************************)
(* Theorems about the debug net: about DebugRecordCache, for any number of *)
(* clones and saves, and about RttStream, for any wires.                   *)
(*                                                                         *)
(* The record.  How often can a clone still meet the old one after a save? *)
(* Once for what it holds or finds in the cache, once for every old record *)
(* that is fetched but not yet written to the cache.  The sum of these     *)
(* debts and the failures so far never grows between saves, and right      *)
(* after a save it is at most the number of clones: when the cache is      *)
(* filled, the clone that filled it is not fetching.                       *)
(*                                                                         *)
(* The stream.  The body of a wire, by the format alone, is what has been  *)
(* delivered and then what the format makes of the rest, read from where   *)
(* the line in hand began: every step of a decoder moves some of the one   *)
(* to the other, in pieces of whatever length.                             *)
(***************************************************************************)
EXTENDS DebugRecordCache, RttStream,
        FiniteSetTheorems, SequenceTheorems, WellFoundedInduction, TLAPS

-----------------------------------------------------------------------------
(* THE RECORD *)

N == Cardinality(Callers)

(* Old records on their way into the cache.                                *)
StalePuts == {q \in Callers : call[q].pc = "put" /\ call[q].rec < saved}

(* Does p hold the old record, or find it in the cache?                    *)
StaleFor(p) ==
  \/ call[p].pc = "call" /\ call[p].rec < saved
  \/ call[p].pc # "clear" /\ cache # 0 /\ cache < saved
Debt(p) == IF StaleFor(p) THEN 1 ELSE 0

Filler == cache # 0 => \E q \in Callers : call[q].pc \notin {"fetch", "put"}

DebtIsBounded ==
  \A p \in Callers : fails[p] + Debt(p) + Cardinality(StalePuts) <= N

IInv == TypeOK /\ Filler /\ DebtIsBounded
-----------------------------------------------------------------------------
(* Counting clones.                                                        *)
LEMMA Clones == N \in Nat \ {0}
<1>1. N \in Nat
  BY CallersAssumption, FS_CardinalityType DEF N
<1>2. N # 0
  BY CallersAssumption, FS_EmptySet DEF N
<1> QED BY <1>1, <1>2

LEMMA SomeClones ==
  ASSUME NEW T \in SUBSET Callers
  PROVE  /\ IsFiniteSet(T) /\ Cardinality(T) \in Nat /\ Cardinality(T) <= N
         /\ \A q \in T : Cardinality(T \ {q}) = Cardinality(T) - 1
         /\ \A S \in SUBSET T : Cardinality(S) <= Cardinality(T)
         /\ T # Callers => Cardinality(T) <= N - 1
<1>1. IsFiniteSet(T) /\ Cardinality(T) <= N
  BY CallersAssumption, FS_Subset DEF N
<1>2. Cardinality(T) \in Nat
  BY <1>1, FS_CardinalityType
<1>3. \A q \in T : Cardinality(T \ {q}) = Cardinality(T) - 1
  BY <1>1, FS_RemoveElement
<1>4. \A S \in SUBSET T : Cardinality(S) <= Cardinality(T)
  BY <1>1, FS_Subset
<1>5. T # Callers => Cardinality(T) # N
  BY CallersAssumption, FS_Subset DEF N
<1> QED BY <1>1, <1>2, <1>3, <1>4, <1>5, Clones, SMTT(30)

(* What a call may become.                                                 *)
CallOK(c) ==
  /\ c \in Call /\ c.rec <= saved
  /\ c.pc \in {"put", "call"} => c.rec # 0

LEMMA CallFields ==
  ASSUME TypeOK, NEW p \in Callers
  PROVE  /\ CallOK(call[p]) /\ CallOK(Idle)
         /\ \A s \in {"gate", "record", "fetch", "clear"} : CallOK([call[p] EXCEPT !.pc = s])
         /\ call[p].rec # 0 => CallOK([call[p] EXCEPT !.pc = "call"])
         /\ \A v \in 1..saved : /\ CallOK([call[p] EXCEPT !.pc = "call", !.rec = v])
                               /\ CallOK([call[p] EXCEPT !.pc = "put", !.rec = v])
         /\ \A op \in Kind, s \in {"gate", "record"} :
              CallOK([Idle EXCEPT !.op = op, !.pc = s])
<1>1. call[p] \in Call /\ CallOK(call[p]) /\ saved \in 1..MaxSaves /\ MaxSaves \in Nat
  BY OpsAssumption DEF TypeOK, CallOK, Version
<1>2. Idle \in Call /\ Idle.pc = "idle" /\ Idle.rec = 0
  BY <1>1 DEF Idle, Call, Step
<1>3. ASSUME NEW c \in Call, NEW s \in Step
      PROVE  /\ [c EXCEPT !.pc = s] \in Call
             /\ [c EXCEPT !.pc = s].pc = s /\ [c EXCEPT !.pc = s].rec = c.rec
  BY DEF Call
<1>4. ASSUME NEW c \in Call, NEW v \in 1..saved
      PROVE  /\ [c EXCEPT !.rec = v] \in Call
             /\ [c EXCEPT !.rec = v].pc = c.pc /\ [c EXCEPT !.rec = v].rec = v
  BY <1>1 DEF Call
<1>5. ASSUME NEW c \in Call, NEW op \in Kind
      PROVE  /\ [c EXCEPT !.op = op] \in Call
             /\ [c EXCEPT !.op = op].pc = c.pc /\ [c EXCEPT !.op = op].rec = c.rec
  BY DEF Call, Kind
<1>6. CallOK(Idle)
  BY <1>1, <1>2 DEF CallOK
<1>7. ASSUME NEW s \in {"gate", "record", "fetch", "clear"}
      PROVE  CallOK([call[p] EXCEPT !.pc = s])
  <2> DEFINE c == [call[p] EXCEPT !.pc = s]
  <2>0. s \in Step
    BY DEF Step
  <2>1. c \in Call /\ c.pc = s /\ c.rec = call[p].rec
    BY <1>1, <1>3, <2>0
  <2> HIDE DEF c
  <2>2. CallOK(c)
    BY <1>1, <2>1 DEF CallOK
  <2> QED BY <2>2 DEF c
<1>8. ASSUME call[p].rec # 0 PROVE CallOK([call[p] EXCEPT !.pc = "call"])
  <2> DEFINE c == [call[p] EXCEPT !.pc = "call"]
  <2>0. "call" \in Step
    BY DEF Step
  <2>1. c \in Call /\ c.pc = "call" /\ c.rec = call[p].rec
    BY <1>1, <1>3, <2>0
  <2> HIDE DEF c
  <2>2. CallOK(c)
    BY <1>1, <1>8, <2>1 DEF CallOK
  <2> QED BY <2>2 DEF c
<1>9. ASSUME NEW v \in 1..saved, NEW s \in {"call", "put"}
      PROVE  CallOK([call[p] EXCEPT !.pc = s, !.rec = v])
  <2> DEFINE c == [call[p] EXCEPT !.pc = s]
            d == [c EXCEPT !.rec = v]
  <2>0. s \in Step
    BY DEF Step
  <2>1. c \in Call /\ c.pc = s
    BY <1>1, <1>3, <2>0
  <2>2. d \in Call /\ d.pc = s /\ d.rec = v
    <3> HIDE DEF c
    <3> QED BY <1>4, <2>1
  <2>3. CallOK(d)
    <3> HIDE DEF d
    <3> QED BY <1>1, <2>2 DEF CallOK
  <2> QED BY <2>3
<1>10. ASSUME NEW op \in Kind, NEW s \in {"gate", "record"}
       PROVE  CallOK([Idle EXCEPT !.op = op, !.pc = s])
  <2> DEFINE c == [Idle EXCEPT !.op = op]
            d == [c EXCEPT !.pc = s]
  <2>0. s \in Step
    BY DEF Step
  <2>1. c \in Call /\ c.rec = 0
    BY <1>2, <1>5
  <2>2. d \in Call /\ d.pc = s /\ d.rec = 0
    <3> HIDE DEF c
    <3> QED BY <1>3, <2>0, <2>1
  <2>3. CallOK(d)
    <3> HIDE DEF d
    <3> QED BY <1>1, <2>2 DEF CallOK
  <2> QED BY <2>3
<1> QED BY <1>1, <1>6, <1>7, <1>8, <1>9, <1>10

LEMMA UpdateType ==
  ASSUME TypeOK, NEW p \in Callers, NEW c, CallOK(c), Update(p, c),
         saved' = saved, cache' \in 0..saved,
         seen' \in [Callers -> 0..MaxSaves], \A q \in Callers : seen'[q] <= saved,
         fails' \in [Callers -> 0..Enough]
  PROVE  TypeOK'
<1>1. call' \in [Callers -> Call] /\ \A q \in Callers : CallOK(call'[q])
  BY DEF TypeOK, CallOK, Update
<1> QED BY <1>1 DEF TypeOK, CallOK

(* Every variable keeps its type.                                          *)
LEMMA TypeStep == TypeOK /\ [Next]_vars => TypeOK'
<1> SUFFICES ASSUME TypeOK, [Next]_vars PROVE TypeOK'
  OBVIOUS
<1> USE OpsAssumption
<1>a. /\ Enough \in Nat /\ Enough # 0
      /\ saved \in 1..MaxSaves /\ cache \in 0..saved
  BY Clones DEF Enough, N, TypeOK, Version
<1>b. /\ seen \in [Callers -> 0..MaxSaves] /\ \A q \in Callers : seen[q] <= saved
      /\ fails \in [Callers -> 0..Enough]
  BY Clones DEF Enough, N, TypeOK, Version
<1>1. ASSUME NEW p \in Callers, Begin(p) PROVE TypeOK'
  <2>1. PICK c : CallOK(c) /\ Update(p, c)
    BY <1>1, CallFields DEF Begin
  <2> QED BY <1>a, <1>b, <1>1, <2>1, UpdateType, SMTT(30) DEF Begin
<1>2. ASSUME NEW p \in Callers, Gate(p) PROVE TypeOK'
  <2>1. PICK c : CallOK(c) /\ Update(p, c)
    BY <1>2, CallFields DEF Gate
  <2> QED BY <1>a, <1>b, <1>2, <2>1, UpdateType, SMTT(30) DEF Gate
<1>3. ASSUME NEW p \in Callers, NetRecord(p) PROVE TypeOK'
  <2>1. cache # 0 => cache \in 1..saved
    BY <1>a, SMTT(30)
  <2>2. PICK c : CallOK(c) /\ Update(p, c)
    BY <1>3, <2>1, CallFields DEF NetRecord
  <2> QED BY <1>a, <1>b, <1>3, <2>2, UpdateType DEF NetRecord
<1>4. ASSUME NEW p \in Callers, NetsList(p) PROVE TypeOK'
  <2>1. saved \in 1..saved
    BY <1>a, SMTT(30)
  <2>2. PICK c : CallOK(c) /\ Update(p, c)
    BY <1>4, <2>1, CallFields DEF NetsList
  <2> QED BY <1>a, <1>b, <1>4, <2>2, UpdateType DEF NetsList
<1>5. ASSUME NEW p \in Callers, Put(p) PROVE TypeOK'
  <2>1. call[p].rec # 0 /\ call[p].rec \in 0..saved
    BY <1>a, <1>b, <1>5, SMTT(30) DEF Put, TypeOK, Call
  <2>2. CallOK([call[p] EXCEPT !.pc = "call"])
    BY <2>1, CallFields
  <2> QED BY <1>a, <1>b, <1>5, <2>1, <2>2, UpdateType DEF Put
<1>6. ASSUME NEW p \in Callers, Fail(p) PROVE TypeOK'
  <2>1. fails' \in [Callers -> 0..Enough]
    BY <1>a, <1>b, <1>6 DEF Fail, Count
  <2>2. seen' \in [Callers -> 0..MaxSaves] /\ \A q \in Callers : seen'[q] <= saved
    BY <1>a, <1>b, <1>6, SMTT(30) DEF Fail
  <2>3. PICK c : CallOK(c) /\ Update(p, c)
    BY <1>6, CallFields, ZenonT(30) DEF Fail
  <2> QED BY <1>a, <1>b, <1>6, <2>1, <2>2, <2>3, UpdateType DEF Fail
<1>7. ASSUME NEW p \in Callers, Clear(p) PROVE TypeOK'
  <2>1. 0 \in 0..saved
    BY <1>a, SMTT(30)
  <2> QED BY <1>a, <1>b, <1>7, <2>1, CallFields, UpdateType DEF Clear
<1>8. ASSUME NEW p \in Callers, Succeed(p) PROVE TypeOK'
  BY <1>a, <1>b, <1>8, CallFields, UpdateType, ZenonT(30) DEF Succeed
<1>9. ASSUME NEW p \in Callers, Cancel(p) PROVE TypeOK'
  BY <1>a, <1>b, <1>9, CallFields, UpdateType DEF Cancel
<1>10. CASE Save
  BY <1>a, <1>b, <1>10 DEF Save, TypeOK, Call, Version
<1>11. CASE UNCHANGED vars
  BY <1>11 DEF vars, TypeOK
<1> QED
  BY <1>1, <1>2, <1>3, <1>4, <1>5, <1>6, <1>7, <1>8, <1>9, <1>10, <1>11 DEF Next

-----------------------------------------------------------------------------
(* The step and the record of p after an action of p, all else the same.   *)
Becomes(p, pc, rec) ==
  /\ call'[p].pc = pc /\ call'[p].rec = rec
  /\ \A q \in Callers : q # p => call'[q] = call[q]

LEMMA Moves ==
  ASSUME TypeOK, NEW p \in Callers
  PROVE  /\ Begin(p) => \E s \in {"gate", "record"} : Becomes(p, s, 0)
         /\ Gate(p) => Becomes(p, "record", call[p].rec) \/ Becomes(p, "idle", 0)
         /\ NetRecord(p) => \/ cache # 0 /\ Becomes(p, "call", cache)
                            \/ cache = 0 /\ Becomes(p, "fetch", call[p].rec)
         /\ NetsList(p) => Becomes(p, "put", saved) \/ Becomes(p, "idle", 0)
         /\ Put(p) => Becomes(p, "call", call[p].rec)
         /\ Fail(p) => \/ Invalidates(call[p].op) /\ Becomes(p, "clear", call[p].rec)
                       \/ ~Invalidates(call[p].op) /\ Becomes(p, "idle", 0)
         /\ Clear(p) \/ Succeed(p) \/ Cancel(p) => Becomes(p, "idle", 0)
<1>1. call[p] \in Call /\ DOMAIN call = Callers
  BY DEF TypeOK
<1>2. ASSUME NEW c, NEW s, NEW v, Update(p, c), c.pc = s, c.rec = v
      PROVE  Becomes(p, s, v)
  BY <1>1, <1>2 DEF Update, Becomes, TypeOK
<1>3. Update(p, Idle) => Becomes(p, "idle", 0)
  BY <1>2 DEF Idle
<1>4. ASSUME NEW s, Update(p, [call[p] EXCEPT !.pc = s])
      PROVE  Becomes(p, s, call[p].rec)
  <2> DEFINE c == [call[p] EXCEPT !.pc = s]
  <2>1. c.pc = s /\ c.rec = call[p].rec
    BY <1>1 DEF Call
  <2>2. Update(p, c)
    BY <1>4
  <2> HIDE DEF c
  <2> QED BY <1>2, <2>1, <2>2
<1>5. ASSUME NEW s, NEW v, Update(p, [call[p] EXCEPT !.pc = s, !.rec = v])
      PROVE  Becomes(p, s, v)
  <2> DEFINE c == [call[p] EXCEPT !.pc = s, !.rec = v]
  <2>1. c.pc = s /\ c.rec = v
    BY <1>1 DEF Call
  <2>2. Update(p, c)
    BY <1>5
  <2> HIDE DEF c
  <2> QED BY <1>2, <2>1, <2>2
<1>6. ASSUME NEW op, NEW s, Update(p, [Idle EXCEPT !.op = op, !.pc = s])
      PROVE  Becomes(p, s, 0)
  <2> DEFINE c == [Idle EXCEPT !.op = op, !.pc = s]
  <2>1. c.pc = s /\ c.rec = 0
    BY DEF Idle
  <2>2. Update(p, c)
    BY <1>6
  <2> HIDE DEF c
  <2> QED BY <1>2, <2>1, <2>2
<1>7. ASSUME Begin(p) PROVE \E s \in {"gate", "record"} : Becomes(p, s, 0)
  <2>1. PICK op \in Ops :
          Update(p, [Idle EXCEPT !.op = op, !.pc = IF op = "gated" THEN "gate" ELSE "record"])
    BY <1>7 DEF Begin
  <2>2. Becomes(p, IF op = "gated" THEN "gate" ELSE "record", 0)
    BY <1>6, <2>1
  <2> QED BY <2>2
<1>8. ASSUME Gate(p) PROVE Becomes(p, "record", call[p].rec) \/ Becomes(p, "idle", 0)
  BY <1>3, <1>4, <1>8, Zenon DEF Gate
<1>9. ASSUME NetRecord(p)
      PROVE  \/ cache # 0 /\ Becomes(p, "call", cache)
             \/ cache = 0 /\ Becomes(p, "fetch", call[p].rec)
  <2>1. CASE cache # 0
    <3>1. Update(p, [call[p] EXCEPT !.pc = "call", !.rec = cache])
      BY <1>9, <2>1 DEF NetRecord
    <3> QED BY <1>5, <2>1, <3>1
  <2>2. CASE cache = 0
    <3>1. Update(p, [call[p] EXCEPT !.pc = "fetch"])
      BY <1>9, <2>2 DEF NetRecord
    <3> QED BY <1>4, <2>2, <3>1
  <2> QED BY <2>1, <2>2
<1>10. ASSUME NetsList(p) PROVE Becomes(p, "put", saved) \/ Becomes(p, "idle", 0)
  BY <1>3, <1>5, <1>10, Zenon DEF NetsList
<1>12. ASSUME Put(p) PROVE Becomes(p, "call", call[p].rec)
  BY <1>4, <1>12, Zenon DEF Put
<1>13. ASSUME Fail(p)
       PROVE  \/ Invalidates(call[p].op) /\ Becomes(p, "clear", call[p].rec)
              \/ ~Invalidates(call[p].op) /\ Becomes(p, "idle", 0)
  <2>1. CASE Invalidates(call[p].op)
    <3>1. Update(p, [call[p] EXCEPT !.pc = "clear"])
      BY <1>13, <2>1 DEF Fail
    <3> QED BY <1>4, <2>1, <3>1
  <2>2. CASE ~Invalidates(call[p].op)
    BY <1>3, <1>13, <2>2 DEF Fail
  <2> QED BY <2>1, <2>2
<1>11. Clear(p) \/ Succeed(p) \/ Cancel(p) => Becomes(p, "idle", 0)
  BY <1>3 DEF Clear, Succeed, Cancel
<1> QED BY <1>7, <1>8, <1>9, <1>10, <1>11, <1>12, <1>13

LEMMA FillerStep == TypeOK /\ Filler /\ [Next]_vars => Filler'
<1> SUFFICES ASSUME TypeOK, Filler, [Next]_vars, cache' # 0
             PROVE  \E q \in Callers : call'[q].pc \notin {"fetch", "put"}
  BY DEF Filler
<1>1. ASSUME NEW p \in Callers, NEW s, NEW v, Becomes(p, s, v), s \notin {"fetch", "put"}
      PROVE  \E q \in Callers : call'[q].pc \notin {"fetch", "put"}
  BY <1>1 DEF Becomes
<1>2. ASSUME NEW p \in Callers, Begin(p) \/ Gate(p) \/ Put(p) \/ Fail(p) \/ Succeed(p) \/ Cancel(p) \/ Clear(p)
      PROVE  \E q \in Callers : call'[q].pc \notin {"fetch", "put"}
  BY <1>1, <1>2, Moves
<1>3. ASSUME NEW p \in Callers, NetRecord(p)
      PROVE  \E q \in Callers : call'[q].pc \notin {"fetch", "put"}
  <2>1. cache # 0
    BY <1>3 DEF NetRecord
  <2> QED BY <1>1, <1>3, <2>1, Moves
<1>4. ASSUME NEW p \in Callers, NetsList(p)
      PROVE  \E q \in Callers : call'[q].pc \notin {"fetch", "put"}
  <2>1. cache # 0 /\ call[p].pc = "fetch"
    BY <1>4 DEF NetsList
  <2>2. PICK q \in Callers : call[q].pc \notin {"fetch", "put"}
    BY <2>1 DEF Filler
  <2>3. call'[q] = call[q]
    BY <1>4, <2>1, <2>2, Moves DEF Becomes
  <2> QED BY <2>2, <2>3
<1>5. CASE Save
  BY <1>5 DEF Save, Filler
<1>6. CASE UNCHANGED vars
  BY <1>6 DEF vars, Filler
<1> QED BY <1>2, <1>3, <1>4, <1>5, <1>6 DEF Next

-----------------------------------------------------------------------------
(* A step between saves after which nobody has failed more, and no old     *)
(* record is new on its way, keeps the bound.                              *)
LEMMA DebtShrinks ==
  ASSUME TypeOK, DebtIsBounded, TypeOK',
         StalePuts' \subseteq StalePuts,
         \A q \in Callers : fails'[q] <= fails[q] /\ (StaleFor(q)' => StaleFor(q))
  PROVE  DebtIsBounded'
<1> SUFFICES ASSUME NEW q \in Callers
             PROVE  fails'[q] + Debt(q)' + Cardinality(StalePuts') <= N
  BY DEF DebtIsBounded
<1>1. Cardinality(StalePuts') <= Cardinality(StalePuts)
  BY SomeClones DEF StalePuts
<1>2. Cardinality(StalePuts') \in Nat /\ Cardinality(StalePuts) \in Nat
  BY SomeClones DEF StalePuts
<1>3. fails[q] \in Nat /\ fails'[q] \in Nat
  BY Clones DEF TypeOK, Enough, N
<1>4. Debt(q)' <= Debt(q) /\ Debt(q)' \in Nat /\ Debt(q) \in Nat
  BY DEF Debt
<1>5. fails[q] + Debt(q) + Cardinality(StalePuts) <= N
  BY DEF DebtIsBounded
<1>6. fails'[q] <= fails[q]
  OBVIOUS
<1> QED BY <1>1, <1>2, <1>3, <1>4, <1>5, <1>6, Clones

LEMMA PutStep ==
  ASSUME TypeOK, DebtIsBounded, TypeOK', NEW p \in Callers, Put(p)
  PROVE  DebtIsBounded'
<1>1. /\ call[p].pc = "put" /\ cache' = call[p].rec
      /\ saved' = saved /\ fails' = fails
      /\ Becomes(p, "call", call[p].rec)
  BY Moves DEF Put
<1>2. CASE call[p].rec < saved
  <2>1. StalePuts' = StalePuts \ {p} /\ p \in StalePuts
    BY <1>1, <1>2 DEF StalePuts, Becomes
  <2>2. /\ Cardinality(StalePuts') = Cardinality(StalePuts) - 1
        /\ Cardinality(StalePuts) \in Nat
    BY <2>1, SomeClones DEF StalePuts
  <2> SUFFICES ASSUME NEW q \in Callers
               PROVE  fails'[q] + Debt(q)' + Cardinality(StalePuts') <= N
    BY DEF DebtIsBounded
  <2>3. Debt(q)' \in {0, 1} /\ Debt(q) \in {0, 1}
    BY DEF Debt
  <2>4. fails[q] \in Nat /\ fails'[q] = fails[q]
    BY <1>1, Clones DEF TypeOK, Enough, N
  <2>5. fails[q] + Debt(q) + Cardinality(StalePuts) <= N
    BY DEF DebtIsBounded
  <2> QED BY <2>2, <2>3, <2>4, <2>5, Clones
<1>3. CASE ~(call[p].rec < saved)
  <2>1. call[p].rec = saved
    <3>1. call[p].rec <= saved /\ saved \in Nat /\ call[p] \in Call
      BY OpsAssumption DEF TypeOK, Version
    <3>2. call[p].rec \in Nat
      BY <3>1, OpsAssumption DEF Call
    <3> QED BY <1>3, <3>1, <3>2
  <2>2. StalePuts' \subseteq StalePuts
    BY <1>1 DEF StalePuts, Becomes
  <2>3. ASSUME NEW q \in Callers PROVE StaleFor(q)' => StaleFor(q)
    BY <1>1, <2>1 DEF StaleFor, Becomes, TypeOK, Version
  <2>4. \A q \in Callers : fails'[q] <= fails[q]
    BY <1>1, Clones DEF TypeOK, Enough, N
  <2> QED BY <2>2, <2>3, <2>4, DebtShrinks
<1> QED BY <1>2, <1>3

LEMMA FailStep ==
  ASSUME TypeOK, DebtIsBounded, TypeOK', NEW p \in Callers, Fail(p)
  PROVE  DebtIsBounded'
<1>1. /\ call[p].pc = "call" /\ cache' = cache /\ saved' = saved
      /\ fails' = IF call[p].rec < saved /\ call[p].op # "stream"
                    THEN [fails EXCEPT ![p] = Count(@)] ELSE fails
      /\ \/ call[p].op # "stream" /\ Becomes(p, "clear", call[p].rec)
         \/ call[p].op = "stream" /\ Becomes(p, "idle", 0)
  BY Moves DEF Fail, Invalidates
<1>2. StalePuts' \subseteq StalePuts
  BY <1>1 DEF StalePuts, Becomes
<1>3. ASSUME NEW q \in Callers PROVE StaleFor(q)' => StaleFor(q)
  BY <1>1 DEF StaleFor, Becomes
<1>4. CASE ~(call[p].rec < saved /\ call[p].op # "stream")
  <2>1. \A q \in Callers : fails'[q] <= fails[q]
    BY <1>1, <1>4, Clones DEF TypeOK, Enough, N
  <2> QED BY <1>2, <1>3, <2>1, DebtShrinks
<1>5. CASE call[p].rec < saved /\ call[p].op # "stream"
  <2> SUFFICES ASSUME NEW q \in Callers
               PROVE  fails'[q] + Debt(q)' + Cardinality(StalePuts') <= N
    BY DEF DebtIsBounded
  <2>1. /\ Cardinality(StalePuts') <= Cardinality(StalePuts)
        /\ Cardinality(StalePuts') \in Nat /\ Cardinality(StalePuts) \in Nat
    BY <1>2, SomeClones DEF StalePuts
  <2>2. fails[q] \in Nat /\ fails'[q] \in Nat
    BY Clones DEF TypeOK, Enough, N
  <2>3. fails[q] + Debt(q) + Cardinality(StalePuts) <= N
    BY DEF DebtIsBounded
  <2>4. CASE q = p
    <3>1. Debt(q) = 1
      BY <1>1, <1>5, <2>4 DEF Debt, StaleFor
    <3>2. Debt(q)' = 0
      BY <1>1, <1>5, <2>4 DEF Debt, StaleFor, Becomes
    <3>3. fails'[q] <= fails[q] + 1
      BY <1>1, <1>5, <2>2, <2>4 DEF Count, TypeOK
    <3> QED BY <2>1, <2>2, <2>3, <3>1, <3>2, <3>3, Clones
  <2>5. CASE q # p
    <3>1. fails'[q] = fails[q]
      BY <1>1, <1>5, <2>5 DEF TypeOK
    <3>2. Debt(q)' <= Debt(q) /\ Debt(q)' \in Nat /\ Debt(q) \in Nat
      BY <1>3 DEF Debt
    <3> QED BY <2>1, <2>2, <2>3, <3>1, <3>2, Clones
  <2> QED BY <2>4, <2>5
<1> QED BY <1>4, <1>5

(* A save: no failure counts any more, and old records may be on their way *)
(* from all clones but one.                                                *)
LEMMA SaveStep ==
  ASSUME TypeOK, Filler, TypeOK', Save
  PROVE  DebtIsBounded'
<1> SUFFICES ASSUME NEW q \in Callers
             PROVE  fails'[q] + Debt(q)' + Cardinality(StalePuts') <= N
  BY DEF DebtIsBounded
<1>1. fails'[q] = 0 /\ call' = call /\ cache' = cache
  BY DEF Save
<1>2. /\ Cardinality(StalePuts') \in Nat /\ Cardinality(StalePuts') <= N
      /\ StalePuts' # Callers => Cardinality(StalePuts') <= N - 1
  BY SomeClones DEF StalePuts
<1>3. CASE StaleFor(q)'
  <2>1. \E r \in Callers : call[r].pc # "put"
    BY <1>1, <1>3 DEF StaleFor, Filler
  <2>2. StalePuts' # Callers
    BY <1>1, <2>1 DEF StalePuts
  <2>3. Debt(q)' = 1
    BY <1>3 DEF Debt
  <2> QED BY <1>1, <1>2, <2>2, <2>3, Clones
<1>4. CASE ~StaleFor(q)'
  <2>1. Debt(q)' = 0
    BY <1>4 DEF Debt
  <2> QED BY <1>1, <1>2, <2>1, Clones
<1> QED BY <1>3, <1>4

LEMMA DebtStep ==
  IInv /\ TypeOK' /\ [Next]_vars => DebtIsBounded'
<1> SUFFICES ASSUME IInv, TypeOK', [Next]_vars PROVE DebtIsBounded'
  OBVIOUS
<1> USE DEF IInv
<1>0. \A q \in Callers : fails[q] <= fails[q]
  BY Clones DEF TypeOK, Enough, N
<1>1. ASSUME NEW p \in Callers, NEW s, NEW v, Becomes(p, s, v), s \notin {"put", "call"},
             saved' = saved, cache' \in {cache, 0}, fails' = fails,
             call[p].pc # "clear" \/ cache' = 0
      PROVE  DebtIsBounded'
  <2>1. StalePuts' \subseteq StalePuts
    BY <1>1 DEF StalePuts, Becomes
  <2>2. ASSUME NEW q \in Callers PROVE StaleFor(q)' => StaleFor(q)
    BY <1>1 DEF StaleFor, Becomes
  <2> QED BY <1>0, <1>1, <2>1, <2>2, DebtShrinks
<1>2. ASSUME NEW p \in Callers, Begin(p) \/ Gate(p) \/ Clear(p) \/ Succeed(p) \/ Cancel(p)
      PROVE  DebtIsBounded'
  <2>1. /\ saved' = saved /\ cache' \in {cache, 0} /\ fails' = fails
        /\ call[p].pc # "clear" \/ cache' = 0
    BY <1>2 DEF Begin, Gate, Clear, Succeed, Cancel
  <2>2. \E s \in {"gate", "record", "idle"} : \E v : Becomes(p, s, v)
    BY <1>2, Moves
  <2> QED BY <1>1, <2>1, <2>2
<1>3. ASSUME NEW p \in Callers, NetRecord(p) PROVE DebtIsBounded'
  <2>1. /\ call[p].pc = "record"
        /\ saved' = saved /\ cache' = cache /\ fails' = fails
        /\ \/ cache # 0 /\ Becomes(p, "call", cache)
           \/ cache = 0 /\ Becomes(p, "fetch", call[p].rec)
    BY <1>3, Moves DEF NetRecord
  <2>2. StalePuts' \subseteq StalePuts
    BY <2>1 DEF StalePuts, Becomes
  <2>3. ASSUME NEW q \in Callers PROVE StaleFor(q)' => StaleFor(q)
    BY <2>1 DEF StaleFor, Becomes
  <2> QED BY <1>0, <2>1, <2>2, <2>3, DebtShrinks
<1>4. ASSUME NEW p \in Callers, NetsList(p) PROVE DebtIsBounded'
  <2>1. /\ call[p].pc = "fetch"
        /\ saved' = saved /\ cache' = cache /\ fails' = fails
        /\ Becomes(p, "put", saved) \/ Becomes(p, "idle", 0)
    BY <1>4, Moves DEF NetsList
  <2>2. StalePuts' \subseteq StalePuts
    BY <2>1 DEF StalePuts, Becomes, TypeOK, Version
  <2>3. ASSUME NEW q \in Callers PROVE StaleFor(q)' => StaleFor(q)
    BY <2>1 DEF StaleFor, Becomes
  <2> QED BY <1>0, <2>1, <2>2, <2>3, DebtShrinks
<1>5. CASE UNCHANGED vars
  <2>1. StalePuts' \subseteq StalePuts /\ fails' = fails
    BY <1>5 DEF vars, StalePuts
  <2>2. ASSUME NEW q \in Callers PROVE StaleFor(q)' => StaleFor(q)
    BY <1>5 DEF vars, StaleFor
  <2> QED BY <1>0, <2>1, <2>2, DebtShrinks
<1> QED BY <1>2, <1>3, <1>4, <1>5, PutStep, FailStep, SaveStep DEF Next

-----------------------------------------------------------------------------
LEMMA Start == Init => IInv
<1> SUFFICES ASSUME Init PROVE IInv
  OBVIOUS
<1> USE OpsAssumption
<1>1. TypeOK
  <2>1. 0 \in 0..Enough
    BY Clones DEF Enough, N
  <2>2. Idle \in Call /\ Idle.rec = 0 /\ Idle.pc = "idle"
    BY DEF Idle, Call, Step
  <2> QED BY <2>1, <2>2 DEF Init, TypeOK, Version
<1>2. Filler
  BY DEF Init, Filler
<1>3. StalePuts = {}
  BY DEF Init, StalePuts, Idle
<1>4. \A p \in Callers : fails[p] = 0 /\ Debt(p) = 0
  BY DEF Init, Debt, StaleFor, Idle
<1>5. DebtIsBounded
  BY <1>3, <1>4, Clones, FS_EmptySet DEF DebtIsBounded
<1> QED BY <1>1, <1>2, <1>5 DEF IInv

(* The inductive invariant holds in every reachable state.                 *)
THEOREM Invariance == Spec => []IInv
<1>1. IInv /\ [Next]_vars => IInv'
  BY TypeStep, FillerStep, DebtStep DEF IInv
<1> QED BY <1>1, Start, PTL DEF Spec

(* Every variable keeps its type; no record is from the future.            *)
THEOREM TypeCorrect == Spec => []TypeOK
<1>1. IInv => TypeOK
  BY DEF IInv
<1> QED BY <1>1, Invariance, PTL

(* However many clones race, each meets the old record after a save at     *)
(* most as often as there are clones.                                      *)
THEOREM BoundedRetries == Spec => []StaleIsBounded
<1>1. IInv => StaleIsBounded
  <2> SUFFICES ASSUME IInv, NEW p \in Callers PROVE fails[p] <= N
    BY DEF StaleIsBounded, N
  <2>1. fails[p] \in Nat /\ Debt(p) \in Nat
    BY Clones DEF IInv, TypeOK, Enough, N, Debt
  <2>2. Cardinality(StalePuts) \in Nat
    BY SomeClones DEF StalePuts
  <2>3. fails[p] + Debt(p) + Cardinality(StalePuts) <= N
    BY DEF IInv, DebtIsBounded
  <2> QED BY <2>1, <2>2, <2>3, Clones
<1> QED BY <1>1, Invariance, PTL

-----------------------------------------------------------------------------
(* A handle without clones.  What it fetches is at least as new as what it *)
(* last failed with, and so is the cache, until a failure empties it.      *)
LoneOps == \A p \in Callers : call[p].pc # "idle" => call[p].op \in Ops

LoneFresh ==
  \A p \in Callers :
    /\ call[p].pc \in {"put", "call"} => call[p].rec >= seen[p]
    /\ cache # 0 /\ call[p].pc # "clear" => cache >= seen[p]

LEMMA OpsStep == TypeOK /\ LoneOps /\ [Next]_vars => LoneOps'
<1> SUFFICES ASSUME TypeOK, LoneOps, [Next]_vars, NEW q \in Callers, call'[q].pc # "idle"
             PROVE  call'[q].op \in Ops
  BY DEF LoneOps
<1>1. ASSUME NEW p \in Callers, NEW c, Update(p, c), c.op \in Ops \/ c.pc = "idle"
      PROVE  call'[q].op \in Ops
  BY <1>1 DEF Update, TypeOK, LoneOps
<1>2. \A p \in Callers : call[p] \in Call /\ (call[p].pc # "idle" => call[p].op \in Ops)
  BY DEF TypeOK, LoneOps
<1>3. ASSUME NEW p \in Callers, call[p].pc # "idle", NEW s, Update(p, [call[p] EXCEPT !.pc = s])
      PROVE  call'[q].op \in Ops
  <2> DEFINE c == [call[p] EXCEPT !.pc = s]
  <2>1. c.op \in Ops /\ Update(p, c)
    BY <1>2, <1>3 DEF Call
  <2> HIDE DEF c
  <2> QED BY <1>1, <2>1
<1>4. ASSUME NEW p \in Callers, call[p].pc # "idle", NEW s, NEW v,
             Update(p, [call[p] EXCEPT !.pc = s, !.rec = v])
      PROVE  call'[q].op \in Ops
  <2> DEFINE c == [call[p] EXCEPT !.pc = s, !.rec = v]
  <2>1. c.op \in Ops /\ Update(p, c)
    BY <1>2, <1>4 DEF Call
  <2> HIDE DEF c
  <2> QED BY <1>1, <2>1
<1>5. ASSUME NEW p \in Callers, Update(p, Idle) PROVE call'[q].op \in Ops
  BY <1>1, <1>5 DEF Idle
<1>6. ASSUME NEW p \in Callers, Begin(p) PROVE call'[q].op \in Ops
  <2>1. PICK op \in Ops :
          Update(p, [Idle EXCEPT !.op = op, !.pc = IF op = "gated" THEN "gate" ELSE "record"])
    BY <1>6 DEF Begin
  <2> DEFINE c == [Idle EXCEPT !.op = op, !.pc = IF op = "gated" THEN "gate" ELSE "record"]
  <2>2. c.op \in Ops /\ Update(p, c)
    BY <2>1 DEF Idle
  <2> HIDE DEF c
  <2> QED BY <1>1, <2>2
<1>7. ASSUME NEW p \in Callers, NetRecord(p) PROVE call'[q].op \in Ops
  <2>1. call[p].pc # "idle"
    BY <1>7 DEF NetRecord
  <2>2. \/ Update(p, [call[p] EXCEPT !.pc = "call", !.rec = cache])
        \/ Update(p, [call[p] EXCEPT !.pc = "fetch"])
    BY <1>7 DEF NetRecord
  <2> QED BY <1>3, <1>4, <2>1, <2>2, Zenon
<1>8. ASSUME NEW p \in Callers, Gate(p) \/ NetsList(p) \/ Put(p) PROVE call'[q].op \in Ops
  <2>1. call[p].pc # "idle"
    BY <1>8 DEF Gate, NetsList, Put
  <2> QED BY <1>3, <1>4, <1>5, <1>8, <2>1, Zenon DEF Gate, NetsList, Put
<1>9. ASSUME NEW p \in Callers, Fail(p) PROVE call'[q].op \in Ops
  <2>1. call[p].pc # "idle"
    BY <1>9 DEF Fail
  <2>2. Update(p, [call[p] EXCEPT !.pc = "clear"]) \/ Update(p, Idle)
    BY <1>9 DEF Fail
  <2> QED BY <1>3, <1>5, <2>1, <2>2, Zenon
<1>10. ASSUME NEW p \in Callers, Clear(p) \/ Succeed(p) \/ Cancel(p) PROVE call'[q].op \in Ops
  BY <1>5, <1>10 DEF Clear, Succeed, Cancel
<1>11. CASE Save \/ UNCHANGED vars
  BY <1>2, <1>11 DEF Save, vars
<1> QED BY <1>6, <1>7, <1>8, <1>9, <1>10, <1>11 DEF Next

LEMMA FreshStep ==
  ASSUME NEW p \in Callers, Callers = {p}, "stream" \notin Ops,
         TypeOK, LoneOps, LoneFresh, [Next]_vars
  PROVE  LoneFresh'
<1>1. /\ call[p].rec <= saved /\ seen[p] <= saved /\ saved \in Nat /\ cache \in Nat
      /\ seen[p] \in Nat
      /\ call[p].pc # "idle" => call[p].op \in Ops
      /\ call[p].pc \in {"put", "call"} => call[p].rec >= seen[p]
      /\ cache # 0 /\ call[p].pc # "clear" => cache >= seen[p]
  BY OpsAssumption DEF TypeOK, Version, LoneOps, LoneFresh
<1> SUFFICES /\ call'[p].pc \in {"put", "call"} => call'[p].rec >= seen'[p]
             /\ cache' # 0 /\ call'[p].pc # "clear" => cache' >= seen'[p]
  BY DEF LoneFresh
<1>2. CASE Begin(p)
  BY <1>1, <1>2, Moves DEF Begin, Becomes
<1>3. CASE Gate(p)
  BY <1>1, <1>3, Moves DEF Gate, Becomes
<1>4. CASE NetRecord(p)
  BY <1>1, <1>4, Moves DEF NetRecord, Becomes
<1>5. CASE NetsList(p)
  BY <1>1, <1>5, Moves DEF NetsList, Becomes
<1>6. CASE Put(p)
  BY <1>1, <1>6, Moves DEF Put, Becomes
<1>7. CASE Fail(p)
  <2>1. call'[p].pc = "clear"
    BY <1>1, <1>7, Moves DEF Fail, Becomes, Invalidates
  <2> QED BY <2>1
<1>8. CASE Clear(p)
  BY <1>1, <1>8, Moves DEF Clear, Becomes
<1>9. CASE Succeed(p) \/ Cancel(p)
  BY <1>1, <1>9, Moves DEF Succeed, Cancel, Becomes
<1>10. CASE Save \/ UNCHANGED vars
  BY <1>1, <1>10 DEF Save, vars
<1> QED BY <1>2, <1>3, <1>4, <1>5, <1>6, <1>7, <1>8, <1>9, <1>10 DEF Next

(* A handle that is not cloned and opens no RTT stream never retries with  *)
(* a record older than the one saved when it last failed.                  *)
THEOREM LoneRetry ==
  ASSUME NEW p, Callers = {p}, "stream" \notin Ops
  PROVE  Spec => []RetryIsFresh
<1> USE DEF IInv
<1>1. Init => LoneOps /\ LoneFresh
  BY DEF Init, LoneOps, LoneFresh, Idle
<1>2. IInv /\ LoneOps /\ LoneFresh /\ [Next]_vars => (LoneOps /\ LoneFresh)'
  BY OpsStep, FreshStep
<1>3. LoneFresh => RetryIsFresh
  BY DEF LoneFresh, RetryIsFresh
<1> QED BY <1>1, <1>2, <1>3, Invariance, PTL DEF Spec

-----------------------------------------------------------------------------
(* THE STREAM *)

(* A set of numbers has a least one, and one with a bound a greatest.      *)
LEMMA Least ==
  ASSUME NEW T, T \subseteq Nat, T # {}
  PROVE  \E m \in T : \A k \in T : m <= k
<1> DEFINE R == OpToRel(<, Nat)
<1>1. IsWellFoundedOn(R, Nat)
  BY NatLessThanWellFounded
<1>2. \A x, y \in Nat : x < y => <<x, y>> \in R
  BY DEF OpToRel
<1> HIDE DEF R
<1>3. PICK m \in T : \A k \in T : ~(<<k, m>> \in R)
  BY <1>1, WFMin
<1>4. \A k \in T : ~(k < m)
  BY <1>2, <1>3
<1> QED BY <1>4

LEMMA Greatest ==
  ASSUME NEW n \in Nat, NEW T, T \subseteq 0..n, T # {}
  PROVE  \E m \in T : \A k \in T : k <= m
<1> DEFINE U == {i \in 0..n : n - i \in T}
<1>1. U \subseteq Nat /\ U # {}
  <2>1. PICK t \in T : TRUE
    OBVIOUS
  <2>2. n - t \in 0..n /\ n - (n - t) = t
    BY <2>1
  <2> QED BY <2>1, <2>2
<1>2. PICK i \in U : \A k \in U : i <= k
  BY <1>1, Least, Zenon
<1>3. \A k \in T : n - k \in U
  OBVIOUS
<1>4. \A k \in T : i <= n - k /\ k \in 0..n
  BY <1>2, <1>3
<1>5. n - i \in T /\ i \in 0..n
  BY <1>2
<1>6. \A k \in T : k <= n - i
  BY <1>4, <1>5
<1> QED BY <1>5, <1>6

LEMMA MinMax ==
  ASSUME NEW n \in Nat, NEW T, T \subseteq 0..n, T # {}
  PROVE  /\ Min(T) \in T /\ \A k \in T : Min(T) <= k
         /\ Max(T) \in T /\ \A k \in T : k <= Max(T)
<1>1. \E m \in T : \A k \in T : m <= k
  <2>1. T \subseteq Nat
    OBVIOUS
  <2> QED BY <2>1, Least, Zenon
<1>2. \E m \in T : \A k \in T : m >= k
  <2>1. PICK m \in T : \A k \in T : k <= m
    BY Greatest, Zenon
  <2>2. \A k \in T : m >= k
    BY <2>1
  <2> QED BY <2>2
<1>3. Min(T) \in T /\ \A k \in T : Min(T) <= k
  BY <1>1, Zenon DEF Min
<1>4. Max(T) \in T /\ \A k \in T : Max(T) >= k
  BY <1>2, Zenon DEF Max
<1>5. \A k \in T : k <= Max(T)
  BY <1>4
<1> QED BY <1>3, <1>4, <1>5

(* The end of the line that goes on at i: its first LF, or none.           *)
LEMMA UptoIs ==
  ASSUME NEW w \in Seq(Symbol), NEW i \in Nat \ {0}
  PROVE  \/ Upto(w, i) = 0 /\ \A k \in i..Len(w) : w[k] # "L"
         \/ /\ Upto(w, i) \in i..Len(w) /\ w[Upto(w, i)] = "L"
            /\ \A k \in i..(Upto(w, i) - 1) : w[k] # "L"
<1> DEFINE T == {k \in i..Len(w) : w[k] = "L"}
<1>1. Upto(w, i) = IF T # {} THEN Min(T) ELSE 0
  BY DEF Upto, SelectInSubSeq
<1>2. Len(w) \in Nat /\ T \subseteq 0..Len(w)
  BY LenProperties
<1>3. CASE T = {}
  BY <1>1, <1>3
<1>4. CASE T # {}
  <2>1. Min(T) \in T /\ \A k \in T : Min(T) <= k
    BY <1>2, <1>4, MinMax
  <2>2. Upto(w, i) \in i..Len(w) /\ w[Upto(w, i)] = "L" /\ \A k \in T : Upto(w, i) <= k
    BY <1>1, <1>4, <2>1
  <2>3. \A k \in i..(Upto(w, i) - 1) : k \in i..Len(w) /\ ~(Upto(w, i) <= k)
    BY <1>2, <2>2
  <2> QED BY <2>2, <2>3
<1> QED BY <1>3, <1>4

NoLF(w, i, j) == \A k \in i..j : w[k] # "L"

LEMMA ChompIs ==
  ASSUME NEW l \in Seq(Symbol), l # <<>>
  PROVE  Chomp(l) \in Seq(Symbol)
<1>1. \A s \in Seq(Symbol) : s # <<>> => Front(s) \in Seq(Symbol)
  <2> SUFFICES ASSUME NEW s \in Seq(Symbol), s # <<>>
               PROVE  SubSeq(s, 1, Len(s) - 1) \in Seq(Symbol)
    BY DEF Front
  <2>1. Len(s) \in Nat /\ Len(s) # 0
    BY LenProperties, EmptySeq
  <2>2. \A k \in 1..(Len(s) - 1) : s[k] \in Symbol
    BY <2>1, ElementOfSeq
  <2> QED BY <2>1, <2>2
<1>2. Front(l) \in Seq(Symbol)
  BY <1>1
<1> QED BY <1>1, <1>2 DEF Chomp

LEMMA TextIs ==
  ASSUME NEW w \in Seq(Symbol), NEW i \in Nat \ {0}, Upto(w, i) # 0
  PROVE  Text(w, i) \in Seq(Symbol)
<1>1. Upto(w, i) \in i..Len(w)
  BY UptoIs
<1>2. SubSeq(w, i, Upto(w, i)) \in Seq(Symbol) /\ Len(SubSeq(w, i, Upto(w, i))) = Upto(w, i) - i + 1
  BY <1>1, LenProperties, SubSeqProperties
<1>3. SubSeq(w, i, Upto(w, i)) # <<>>
  <2>1. Upto(w, i) - i + 1 # 0
    BY <1>1
  <2> QED BY <1>2, <2>1, EmptySeq
<1> QED BY <1>2, <1>3, ChompIs DEF Text

(* The digits of a size line.                                              *)
LEMMA DigitsAre ==
  ASSUME NEW text \in Seq(Symbol), IsSize(text)
  PROVE  Digits(text) \in Seq(Digit)
<1> DEFINE semi == SelectInSeq(text, LAMBDA c : c = ";")
           head0 == IF semi = 0 THEN text ELSE SubSeq(text, 1, semi - 1)
           F == {i \in 1..Len(head0) : head0[i] # "C"}
           from == SelectInSeq(head0, LAMBDA c : c # "C")
           to == SelectLastInSeq(head0, LAMBDA c : c # "C")
           S == {i \in 1..Len(text) : text[i] = ";"}
<1>0. semi = IF S # {} THEN Min(S) ELSE 0
  BY DEF SelectInSeq
<1>3. Digits(text) = IF from = 0 THEN <<>> ELSE SubSeq(head0, from, to)
  BY DEF Digits
<1>5. from = (IF F # {} THEN Min(F) ELSE 0) /\ to = (IF F # {} THEN Max(F) ELSE 0)
  BY DEF SelectInSeq, SelectLastInSeq
<1> HIDE DEF semi, from, to
<1> HIDE DEF head0
<1>1. semi \in 0..Len(text)
  <2>1. Len(text) \in Nat
    BY LenProperties
  <2>2. S \subseteq 1..Len(text)
    BY Zenon
  <2> HIDE DEF S
  <2>6. S \subseteq 0..Len(text)
    BY <2>1, <2>2
  <2>3. S # {} => Min(S) \in S
    BY <2>1, <2>6, MinMax
  <2>4. CASE S = {}
    BY <1>0, <2>1, <2>4
  <2>5. CASE S # {}
    BY <1>0, <2>6, <2>3, <2>5
  <2> QED BY <2>4, <2>5
<1> USE DEF head0
<1>2. head0 \in Seq(Symbol)
  <2>1. CASE semi = 0
    BY <2>1
  <2>2. CASE semi # 0
    <3>1. Len(text) \in Nat /\ \A k \in 1..(semi - 1) : text[k] \in Symbol
      BY <1>1, LenProperties, ElementOfSeq
    <3>2. SubSeq(text, 1, semi - 1) \in Seq(Symbol)
      BY <1>1, <2>2, <3>1
    <3> QED BY <2>2, <3>2
  <2> QED BY <2>1, <2>2
<1> HIDE DEF head0, S
<1>4. Len(head0) \in Nat /\ F \subseteq 0..Len(head0)
  BY <1>2, LenProperties
<1>6. F # {} => from \in 1..Len(head0) /\ to \in from..Len(head0)
  <2> SUFFICES ASSUME F # {} PROVE from \in 1..Len(head0) /\ to \in from..Len(head0)
    OBVIOUS
  <2>1. Min(F) \in F /\ Max(F) \in F /\ Min(F) <= Max(F)
    BY <1>4, MinMax
  <2> QED BY <1>4, <1>5, <2>1
<1>7. Digits(text) # <<>> /\ ToSet(Digits(text)) \subseteq Digit
  BY DEF IsSize
<1>8. from # 0
  BY <1>3, <1>7
<1>9. from \in 1..Len(head0) /\ to \in from..Len(head0)
  BY <1>5, <1>6, <1>8
<1> DEFINE d == SubSeq(head0, from, to)
<1>10. d \in Seq(Symbol)
  BY <1>2, <1>4, <1>9, SubSeqProperties
<1> HIDE DEF d
<1>11. \A i \in 1..Len(d) : d[i] \in Digit
  <2>1. Digits(text) = d
    BY <1>3, <1>8 DEF d
  <2>2. \A i \in DOMAIN d : d[i] \in Digit
    BY <1>7, <2>1 DEF ToSet
  <2> QED BY <1>10, <2>2
<1>12. d \in Seq(Digit)
  BY <1>10, <1>11
<1> QED BY <1>3, <1>8, <1>12 DEF d

LEMMA ShiftIs ==
  ASSUME NEW n \in Nat, NEW c \in Digit
  PROVE  Shift(n, c) \in Nat
BY DEF Shift, Value, Digit

(* The recursion in Size is sound: a size is a number.                     *)
Grow(f, d, n) == [i \in 0..n |-> IF i = 0 THEN 0 ELSE Shift(f[i - 1], d[i])]

LEMMA SizeIs ==
  ASSUME NEW text \in Seq(Symbol), IsSize(text)
  PROVE  Size(text) \in Nat
<1> DEFINE d == Digits(text)
           n == Len(d)
           Bad == {k \in 0..n : ~ \E f : f = Grow(f, d, k)}
<1>1. d \in Seq(Digit) /\ n \in Nat
  BY DigitsAre, LenProperties
<1>2. Bad = {}
  <2> SUFFICES ASSUME Bad # {} PROVE FALSE
    OBVIOUS
  <2>4. Bad \subseteq Nat
    BY <1>1
  <2>1. PICK k \in Bad : \A j \in Bad : k <= j
    BY <2>4, Least, Zenon
  <2>2. CASE k = 0
    <3> DEFINE f == [i \in 0..0 |-> 0]
    <3>1. f = Grow(f, d, 0)
      BY DEF Grow
    <3> QED BY <2>1, <2>2, <3>1
  <2>3. CASE k # 0
    <3>1. k \in 1..n /\ k - 1 \in 0..n /\ k - 1 \notin Bad
      BY <1>1, <2>1, <2>3
    <3>2. PICK g : g = Grow(g, d, k - 1)
      BY <3>1
    <3> DEFINE f == [i \in 0..k |-> IF i = k THEN Shift(g[k - 1], d[k]) ELSE g[i]]
    <3>3. \A i \in 0..k : f[i] = IF i = 0 THEN 0 ELSE Shift(f[i - 1], d[i])
      <4> SUFFICES ASSUME NEW i \in 0..k
                   PROVE  f[i] = IF i = 0 THEN 0 ELSE Shift(f[i - 1], d[i])
        OBVIOUS
      <4>1. CASE i = k
        BY <3>1, <4>1
      <4>2. CASE i # k
        <5>1. f[i] = g[i] /\ i \in 0..(k - 1) /\ (i # 0 => i - 1 \in 0..(k - 1) /\ f[i - 1] = g[i - 1])
          BY <1>1, <3>1, <4>2
        <5>2. g[i] = IF i = 0 THEN 0 ELSE Shift(g[i - 1], d[i])
          BY <3>2, <5>1, Zenon DEF Grow
        <5> QED BY <5>1, <5>2
      <4> QED BY <4>1, <4>2
    <3>4. f = Grow(f, d, k)
      <4>1. f = [i \in 0..k |-> f[i]]
        OBVIOUS
      <4> HIDE DEF f
      <4> QED BY <3>3, <4>1, Zenon DEF Grow
    <3> QED BY <2>1, <3>4
  <2> QED BY <2>2, <2>3
<1> DEFINE g == CHOOSE f : f = Grow(f, d, n)
<1>3. g = Grow(g, d, n)
  <2>1. n \in 0..n
    BY <1>1
  <2>2. \E f : f = Grow(f, d, n)
    BY <1>2, <2>1, Zenon
  <2> QED BY <2>2, Zenon
<1>4. Size(text) = g[n]
  BY Zenon DEF Size, Grow
<1> HIDE DEF g, d
<1>5. \A i \in 0..n : g[i] = IF i = 0 THEN 0 ELSE Shift(g[i - 1], d[i])
  BY <1>3, Zenon DEF Grow
<1> DEFINE W == {k \in 0..n : g[k] \notin Nat}
<1>6. W = {}
  <2> SUFFICES ASSUME W # {} PROVE FALSE
    OBVIOUS
  <2>6. W \subseteq Nat
    BY <1>1
  <2>1. PICK k \in W : \A j \in W : k <= j
    BY <2>6, Least, Zenon
  <2>2. k # 0
    BY <1>5, <2>1
  <2>3. k \in 1..n /\ k - 1 \in 0..n /\ g[k - 1] \in Nat
    BY <1>1, <2>1, <2>2
  <2>4. d[k] \in Digit
    BY <1>1, <2>3, ElementOfSeq
  <2>5. g[k] = Shift(g[k - 1], d[k])
    BY <1>5, <2>3
  <2> QED BY <2>1, <2>3, <2>4, <2>5, ShiftIs
<1> QED BY <1>1, <1>4, <1>6

-----------------------------------------------------------------------------
(* Bodies.                                                                 *)
Ending == {"end", "eof", "invalid"}
BodyType == [out : Seq(Symbol), res : Ending]

LEMMA ThenIs ==
  ASSUME NEW p \in Seq(Symbol), NEW body \in BodyType
  PROVE  /\ Then(p, body) \in BodyType /\ Then(<<>>, body) = body
         /\ Then(p, body).out = p \o body.out /\ Then(p, body).res = body.res
         /\ \A q \in Seq(Symbol) : Then(q, Then(p, body)) = Then(q \o p, body)
<1>1. body.out \in Seq(Symbol) /\ body.res \in Ending /\ body = [out |-> body.out, res |-> body.res]
  BY DEF BodyType
<1>2. p \o body.out \in Seq(Symbol) /\ <<>> \o body.out = body.out
  BY <1>1
<1>3. \A q \in Seq(Symbol) : q \o (p \o body.out) = (q \o p) \o body.out
  BY <1>1, ConcatAssociative
<1> QED BY <1>1, <1>2, <1>3 DEF Then, BodyType

LEMMA PartIs ==
  ASSUME NEW w \in Seq(Symbol), NEW i \in Nat \ {0}, NEW n \in Nat, i + n <= Len(w) + 1
  PROVE  /\ SubSeq(w, i, i + n - 1) \in Seq(Symbol) /\ Len(SubSeq(w, i, i + n - 1)) = n
         /\ \A k \in 1..n : SubSeq(w, i, i + n - 1)[k] = w[i + k - 1]
<1> DEFINE s == [k \in 1..n |-> w[i + k - 1]]
<1>1. SubSeq(w, i, i + n - 1) = s
  BY LenProperties
<1>2. \A k \in 1..n : w[i + k - 1] \in Symbol
  <2> TAKE k \in 1..n
  <2>1. Len(w) \in Nat /\ i + k - 1 \in 1..Len(w)
    BY LenProperties
  <2> QED BY <2>1, ElementOfSeq
<1>3. s \in Seq(Symbol) /\ Len(s) = n
  BY <1>2
<1> QED BY <1>1, <1>3

LEMMA JoinIs ==
  ASSUME NEW w \in Seq(Symbol), NEW i \in Nat \ {0}, NEW m \in Nat, NEW c \in Nat,
         i + m + c <= Len(w) + 1
  PROVE  SubSeq(w, i, i + (m + c) - 1) = SubSeq(w, i, i + m - 1) \o SubSeq(w, i + m, i + m + c - 1)
<1> DEFINE p == SubSeq(w, i, i + (m + c) - 1)
           q == SubSeq(w, i, i + m - 1)
           r == SubSeq(w, i + m, i + m + c - 1)
<1>0. /\ Len(w) \in Nat /\ m + c \in Nat /\ i + (m + c) <= Len(w) + 1
      /\ i + m <= Len(w) + 1 /\ i + m \in Nat \ {0}
  BY LenProperties
<1>1. p \in Seq(Symbol) /\ Len(p) = m + c /\ \A x \in 1..(m + c) : p[x] = w[i + x - 1]
  BY <1>0, PartIs
<1>2. q \in Seq(Symbol) /\ Len(q) = m /\ \A x \in 1..m : q[x] = w[i + x - 1]
  BY <1>0, PartIs
<1>3. r \in Seq(Symbol) /\ Len(r) = c /\ \A x \in 1..c : r[x] = w[i + m + x - 1]
  BY <1>0, PartIs
<1> HIDE DEF p, q, r
<1>4. Len(q \o r) = m + c /\ q \o r \in Seq(Symbol)
  BY <1>2, <1>3, ConcatProperties
<1>5. ASSUME NEW x \in 1..(m + c)
      PROVE  (q \o r)[x] = p[x]
  <2>1. CASE x <= m
    <3>1. x \in 1..m /\ x \in 1..(Len(q) + Len(r))
      BY <1>2, <1>3, <2>1
    <3>2. (q \o r)[x] = q[x]
      <4>1. x <= Len(q)
        BY <1>2, <2>1
      <4> QED BY <1>2, <1>3, <3>1, <4>1, ConcatProperties, Zenon
    <3> QED BY <1>1, <1>2, <3>1, <3>2
  <2>2. CASE x > m
    <3>1. /\ x - m \in 1..c /\ i + m + (x - m) - 1 = i + x - 1
          /\ x \in 1..(Len(q) + Len(r)) /\ ~(x <= Len(q)) /\ x - Len(q) = x - m
      <4>1. x - m \in 1..c /\ i + m + (x - m) - 1 = i + x - 1
        BY <2>2
      <4>2. x \in 1..(Len(q) + Len(r)) /\ ~(x <= Len(q)) /\ x - Len(q) = x - m
        BY <1>2, <1>3, <2>2
      <4> QED BY <4>1, <4>2
    <3>2. (q \o r)[x] = r[x - m]
      <4>1. (q \o r)[x] = IF x <= Len(q) THEN q[x] ELSE r[x - Len(q)]
        BY <1>2, <1>3, <3>1, ConcatProperties, Zenon
      <4> QED BY <3>1, <4>1, Zenon
    <3>3. r[x - m] = w[i + m + (x - m) - 1]
      BY <1>3, <3>1
    <3>4. p[x] = w[i + x - 1]
      BY <1>1, <1>5
    <3> QED BY <3>1, <3>2, <3>3, <3>4
  <2>3. x <= m \/ x > m
    BY <1>5
  <2> QED BY <2>1, <2>2, <2>3, Zenon
<1>6. p = q \o r
  BY <1>1, <1>4, <1>5, SeqEqual
<1> QED BY <1>6 DEF p, q, r

(* What is said of bodies that begin later, and stays the same when only   *)
(* what is said of earlier ones changes.                                   *)
Later(f, w, i) == \A k \in (i + 1)..(Len(w) + 1) : f[k] \in BodyType
Alike(f, g, w, i) == \A k \in (i + 1)..(Len(w) + 1) : f[k] = g[k]

LEMMA PayloadIs ==
  ASSUME NEW w \in Seq(Symbol), NEW i \in 1..(Len(w) + 1), NEW n \in Nat, NEW f, NEW j \in Nat,
         j < i, Later(f, w, j)
  PROVE  /\ FromPayload(w, i, n, f) \in BodyType
         /\ \A g : Alike(f, g, w, j) => FromPayload(w, i, n, g) = FromPayload(w, i, n, f)
<1> DEFINE k == i + n
           e == IF k - 1 < Len(w) THEN k - 1 ELSE Len(w)
           p == SubSeq(w, i, e)
           u == Upto(w, k)
<1>1. Len(w) \in Nat /\ i \in Nat \ {0} /\ k \in Nat \ {0}
  BY LenProperties
<1>2. p \in Seq(Symbol)
  <2> DEFINE m == e - i + 1
  <2>1. m \in Nat /\ i + m <= Len(w) + 1 /\ i + m - 1 = e
    BY <1>1
  <2> QED BY <1>1, <2>1, PartIs
<1>3. u # 0 /\ k <= Len(w) => u + 1 \in (j + 1)..(Len(w) + 1)
  <2>1. u = 0 \/ u \in k..Len(w)
    BY <1>1, UptoIs
  <2> QED BY <1>1, <2>1
<1>4. \A g : FromPayload(w, i, n, g) =
        IF k > Len(w) \/ u = 0 THEN [out |-> p, res |-> "eof"]
        ELSE IF Text(w, k) # <<>> THEN [out |-> p, res |-> "invalid"]
        ELSE Then(p, g[u + 1])
  BY DEF FromPayload
<1> HIDE DEF u, p, k
<1>5. CASE k > Len(w) \/ u = 0 \/ Text(w, k) # <<>>
  <2>1. [out |-> p, res |-> "eof"] \in BodyType /\ [out |-> p, res |-> "invalid"] \in BodyType
    BY <1>2 DEF BodyType, Ending
  <2> QED BY <1>4, <1>5, <2>1
<1>6. CASE ~(k > Len(w) \/ u = 0 \/ Text(w, k) # <<>>)
  <2>1. u + 1 \in (j + 1)..(Len(w) + 1)
    BY <1>1, <1>3, <1>6
  <2>2. f[u + 1] \in BodyType /\ \A g : Alike(f, g, w, j) => g[u + 1] = f[u + 1]
    BY <2>1 DEF Later, Alike
  <2>3. \A g : FromPayload(w, i, n, g) = Then(p, g[u + 1])
    BY <1>4, <1>6
  <2> QED BY <1>2, <2>2, <2>3, ThenIs
<1> QED BY <1>5, <1>6

LEMMA LineIs ==
  ASSUME NEW w \in Seq(Symbol), NEW i \in 1..(Len(w) + 1), NEW f, Later(f, w, i)
  PROVE  /\ FromSize(w, i, f) \in BodyType
         /\ \A g : Alike(f, g, w, i) => FromSize(w, i, g) = FromSize(w, i, f)
<1> DEFINE j == Upto(w, i)
           n == Size(Text(w, i))
<1>1. Len(w) \in Nat /\ i \in Nat \ {0}
  BY LenProperties
<1>2. CASE i > Len(w) \/ j = 0 \/ ~IsSize(Text(w, i)) \/ n = 0
  <2>1. <<>> \in Seq(Symbol) /\ Trailer(w, j + 1) \in Ending
    BY DEF Trailer, Ending
  <2>2. \A r \in Ending : [out |-> <<>>, res |-> r] \in BodyType
    BY <2>1 DEF BodyType
  <2>3. \A g : FromSize(w, i, g) =
          [out |-> <<>>, res |-> IF i > Len(w) THEN "end" ELSE IF j = 0 THEN "eof"
                                 ELSE IF ~IsSize(Text(w, i)) THEN "invalid"
                                 ELSE Trailer(w, j + 1)]
    BY <1>2 DEF FromSize
  <2> QED BY <2>1, <2>2, <2>3 DEF Ending
<1>3. CASE ~(i > Len(w) \/ j = 0 \/ ~IsSize(Text(w, i)) \/ n = 0)
  <2>1. n \in Nat
    BY <1>1, <1>3, TextIs, SizeIs
  <2>2. j \in i..Len(w)
    BY <1>1, <1>3, UptoIs
  <2>3. j + 1 \in 1..(Len(w) + 1) /\ i < j + 1
    BY <1>1, <2>2
  <2>4. \A g : FromSize(w, i, g) = FromPayload(w, j + 1, n, g)
    BY <1>3 DEF FromSize
  <2> HIDE DEF j, n
  <2> QED BY <1>1, <2>1, <2>3, <2>4, PayloadIs
<1> QED BY <1>2, <1>3

(* The recursion in Body goes forward over the wire and is sound.          *)
Whole(f, w) == [i \in 1..(Len(w) + 1) |-> FromSize(w, i, f)]

LEMMA WholeExists ==
  ASSUME NEW w \in Seq(Symbol)
  PROVE  \E f : f = Whole(f, w)
<1> DEFINE Z == Len(w) + 1
           F == [1..Z -> BodyType]
           Right(f, m) == \A i \in m..Z : f[i] = FromSize(w, i, f)
           Good == {m \in 1..(Z + 1) : \E f \in F : Right(f, m)}
<1>1. Z \in Nat \ {0}
  BY LenProperties
<1>2. Z + 1 \in Good
  <2>1. [out |-> <<>>, res |-> "end"] \in BodyType
    BY DEF BodyType, Ending
  <2>2. [i \in 1..Z |-> [out |-> <<>>, res |-> "end"]] \in F
    BY <2>1
  <2>3. Z + 1 \in 1..(Z + 1) /\ \A f : Right(f, Z + 1)
    BY <1>1
  <2> QED BY <2>2, <2>3
<1>3. Good \subseteq Nat /\ Good # {}
  BY <1>1, <1>2
<1>4. PICK m \in Good : \A k \in Good : m <= k
  BY <1>3, Least, Zenon
<1>5. PICK f \in F : Right(f, m)
  BY <1>4
<1>6. m \in 1..(Z + 1)
  BY <1>4
<1>7. ASSUME m # 1
      PROVE  FALSE
  <2> DEFINE p == m - 1
             g == [f EXCEPT ![p] = FromSize(w, p, f)]
  <2>1. p \in 1..Z /\ p < m
    BY <1>1, <1>6, <1>7
  <2>2. \A i \in p..Z : i \in 1..(Len(w) + 1) /\ Later(f, w, i)
    BY <1>1, <1>5, <2>1 DEF Later
  <2>3. FromSize(w, p, f) \in BodyType
    <3>1. p \in 1..(Len(w) + 1) /\ Later(f, w, p)
      BY <2>1, <2>2
    <3> HIDE DEF p
    <3> QED BY <3>1, LineIs
  <2>4. g \in F /\ \A i \in m..Z : g[i] = f[i]
    BY <1>1, <1>5, <1>6, <2>1, <2>3
  <2>5. g[p] = FromSize(w, p, f)
    BY <1>5, <2>1
  <2> HIDE DEF g
  <2>6. \A i \in p..Z : Alike(f, g, w, i)
    BY <1>1, <1>6, <2>1, <2>4 DEF Alike
  <2>7. \A i \in p..Z : FromSize(w, i, g) = FromSize(w, i, f)
    BY <2>2, <2>6, LineIs
  <2>8. \A i \in p..Z : g[i] = FromSize(w, i, g)
    <3> SUFFICES ASSUME NEW i \in p..Z
                 PROVE  g[i] = FromSize(w, i, g)
      OBVIOUS
    <3>1. CASE i = p
      BY <2>5, <2>7, <3>1
    <3>2. CASE i # p
      <4>1. i \in m..Z
        BY <1>1, <1>6, <2>1, <3>2
      <4> QED BY <1>5, <2>4, <2>7, <4>1
    <3> QED BY <3>1, <3>2
  <2>9. p \in Good
    <3>1. p \in 1..(Z + 1)
      BY <1>1, <2>1
    <3>2. \E h \in F : Right(h, p)
      BY <2>4, <2>8, Zenon
    <3> HIDE DEF p, Right, F
    <3> QED BY <3>1, <3>2
  <2>10. m <= p
    BY <1>4, <2>9, Zenon
  <2> HIDE DEF Good
  <2> QED BY <1>1, <1>6, <2>1, <2>10
<1>8. f = [i \in 1..Z |-> FromSize(w, i, f)]
  BY <1>5, <1>7
<1> QED BY <1>8 DEF Whole

LEMMA BodyIs ==
  ASSUME NEW w \in Seq(Symbol), NEW i \in 1..(Len(w) + 1)
  PROVE  /\ BodyFrom(w)[i] \in BodyType /\ Later(BodyFrom(w), w, i)
         /\ BodyFrom(w)[i] = FromSize(w, i, BodyFrom(w))
<1> DEFINE Z == Len(w) + 1
           b == CHOOSE f : f = Whole(f, w)
           W == {k \in 1..Z : b[k] \notin BodyType}
<1>1. b = Whole(b, w)
  BY WholeExists, Zenon
<1>2. BodyFrom(w) = b
  BY Zenon DEF BodyFrom, Whole
<1> HIDE DEF b
<1>3. \A k \in 1..Z : b[k] = FromSize(w, k, b)
  BY <1>1, Zenon DEF Whole
<1>4. Z \in Nat
  BY LenProperties
<1>5. W = {}
  <2> SUFFICES ASSUME W # {} PROVE FALSE
    OBVIOUS
  <2>1. W \subseteq 0..Z
    BY <1>4
  <2>2. PICK k \in W : \A l \in W : l <= k
    BY <1>4, <2>1, Greatest, Zenon
  <2>3. Later(b, w, k)
    BY <1>4, <2>2 DEF Later
  <2>4. k \in 1..(Len(w) + 1)
    BY <2>2
  <2>5. FromSize(w, k, b) \in BodyType
    BY <2>3, <2>4, LineIs
  <2> QED BY <1>3, <2>2, <2>4, <2>5
<1>6. \A k \in 1..Z : b[k] \in BodyType
  BY <1>5
<1>7. Later(b, w, i)
  BY <1>4, <1>6 DEF Later
<1> QED BY <1>2, <1>3, <1>6, <1>7

(* Payload taken off leaves the rest of the body; a trailer line, the rest *)
(* of the trailers.                                                        *)
LEMMA PayloadOff ==
  ASSUME NEW w \in Seq(Symbol), NEW i \in 1..(Len(w) + 1), NEW n \in Nat, NEW m \in 0..n,
         i + m <= Len(w) + 1, NEW f, Later(f, w, i - 1)
  PROVE  FromPayload(w, i, n, f) = Then(SubSeq(w, i, i + m - 1), FromPayload(w, i + m, n - m, f))
<1> DEFINE k == i + n
           e == IF k - 1 < Len(w) THEN k - 1 ELSE Len(w)
           p == SubSeq(w, i, e)
           q == SubSeq(w, i, i + m - 1)
           r == SubSeq(w, i + m, e)
           u == Upto(w, k)
<1>1. Len(w) \in Nat /\ i \in Nat \ {0} /\ k \in Nat \ {0} /\ i + m \in Nat \ {0} /\ i + m + (n - m) = k
  BY LenProperties
<1>2. p \in Seq(Symbol) /\ q \in Seq(Symbol) /\ r \in Seq(Symbol) /\ p = q \o r
  <2> DEFINE c == e - i + 1 - m
  <2>1. /\ c \in Nat /\ m \in Nat /\ i + m + c <= Len(w) + 1 /\ i + m <= Len(w) + 1 /\ m + c \in Nat
        /\ i + (m + c) - 1 = e /\ i + m + c - 1 = e /\ i + (m + c) <= Len(w) + 1
    <3>1. e \in Nat /\ i + m - 1 <= e /\ e <= Len(w) /\ m \in Nat
      BY <1>1
    <3> HIDE DEF e
    <3> QED BY <1>1, <3>1
  <2> HIDE DEF c, e
  <2>2. SubSeq(w, i, i + (m + c) - 1) = SubSeq(w, i, i + m - 1) \o SubSeq(w, i + m, i + m + c - 1)
    BY <1>1, <2>1, JoinIs, SMTT(30)
  <2>3. SubSeq(w, i, i + (m + c) - 1) \in Seq(Symbol)
    BY <1>1, <2>1, PartIs
  <2>4. SubSeq(w, i, i + m - 1) \in Seq(Symbol)
    BY <1>1, <2>1, PartIs
  <2>5. SubSeq(w, i + m, i + m + c - 1) \in Seq(Symbol)
    BY <1>1, <2>1, PartIs
  <2> QED BY <2>1, <2>2, <2>3, <2>4, <2>5
<1>3. FromPayload(w, i, n, f) =
        IF k > Len(w) \/ u = 0 THEN [out |-> p, res |-> "eof"]
        ELSE IF Text(w, k) # <<>> THEN [out |-> p, res |-> "invalid"]
        ELSE Then(p, f[u + 1])
  BY DEF FromPayload
<1>4. FromPayload(w, i + m, n - m, f) =
        IF k > Len(w) \/ u = 0 THEN [out |-> r, res |-> "eof"]
        ELSE IF Text(w, k) # <<>> THEN [out |-> r, res |-> "invalid"]
        ELSE Then(r, f[u + 1])
  BY <1>1 DEF FromPayload
<1>5. ~(k > Len(w) \/ u = 0) => f[u + 1] \in BodyType
  <2> SUFFICES ASSUME ~(k > Len(w) \/ u = 0) PROVE f[u + 1] \in BodyType
    OBVIOUS
  <2>1. u \in k..Len(w)
    BY <1>1, UptoIs
  <2>2. u + 1 \in (i - 1 + 1)..(Len(w) + 1)
    BY <1>1, <2>1
  <2> QED BY <2>2 DEF Later
<1> HIDE DEF k, p, q, r, u
<1>6. \A x \in Ending : [out |-> p, res |-> x] = Then(q, [out |-> r, res |-> x])
  BY <1>2 DEF Then
<1>7. ASSUME NEW body \in BodyType
      PROVE  Then(p, body) = Then(q, Then(r, body))
  BY <1>2, ThenIs
<1> QED BY <1>3, <1>4, <1>5, <1>6, <1>7 DEF q, Ending

LEMMA TrailerOff ==
  ASSUME NEW w \in Seq(Symbol), NEW i \in 1..Len(w), Upto(w, i) # 0
  PROVE  Trailer(w, i) = IF Text(w, i) = <<>> THEN "end" ELSE Trailer(w, Upto(w, i) + 1)
<1> DEFINE j == Upto(w, i)
<1>1. Len(w) \in Nat /\ i \in Nat \ {0} /\ j \in i..Len(w) /\ w[j] = "L"
      /\ \A k \in i..(j - 1) : w[k] # "L"
  BY LenProperties, UptoIs
<1>2. i \in Begins(w, i)
  BY <1>1 DEF Begins
<1>3. CASE Text(w, i) = <<>>
  BY <1>2, <1>3 DEF Trailer
<1>4. CASE Text(w, i) # <<>>
  <2> HIDE DEF j
  <2>1. \A k \in Begins(w, i) : k = i \/ k \in Begins(w, j + 1)
    <3> SUFFICES ASSUME NEW k \in Begins(w, i), k # i
                 PROVE  k \in Begins(w, j + 1)
      OBVIOUS
    <3>1. k \in i..Len(w) /\ w[k - 1] = "L"
      BY DEF Begins
    <3>2. k - 1 \in i..Len(w) /\ ~(k - 1 \in i..(j - 1))
      BY <1>1, <3>1
    <3>3. k \in (j + 1)..Len(w)
      BY <1>1, <3>1, <3>2
    <3> QED BY <3>1, <3>3 DEF Begins
  <2>2. \A k \in Begins(w, j + 1) : k \in Begins(w, i)
    <3> SUFFICES ASSUME NEW k \in Begins(w, j + 1)
                 PROVE  k \in Begins(w, i)
      OBVIOUS
    <3>1. k \in (j + 1)..Len(w) /\ (k = j + 1 \/ w[k - 1] = "L")
      BY DEF Begins
    <3>2. k \in i..Len(w) /\ (k = j + 1 => w[k - 1] = w[j])
      BY <1>1, <3>1
    <3> QED BY <1>1, <3>1, <3>2 DEF Begins
  <2>3. (\E k \in Begins(w, i) : Upto(w, k) # 0 /\ Text(w, k) = <<>>)
          <=> (\E k \in Begins(w, j + 1) : Upto(w, k) # 0 /\ Text(w, k) = <<>>)
    BY <1>4, <2>1, <2>2
  <2>4. ~(i > Len(w)) /\ (j + 1 > Len(w) => w[Len(w)] = "L")
    <3>1. j + 1 > Len(w) => j = Len(w)
      BY <1>1
    <3> QED BY <1>1, <3>1
  <2>5. Trailer(w, i) = Trailer(w, j + 1)
    BY <2>3, <2>4 DEF Trailer
  <2> QED BY <1>4, <2>5 DEF j
<1> QED BY <1>3, <1>4

-----------------------------------------------------------------------------
(* What is left of the body when the decoder is in state st at i, with n   *)
(* bytes of payload to come.                                               *)
RestAt(w, st, n, i) ==
  CASE st = "size"                -> BodyFrom(w)[i]
    [] st \in {"data", "dataend"} -> FromPayload(w, i, n, BodyFrom(w))
    [] st = "trailers"            -> [out |-> <<>>, res |-> Trailer(w, i)]
Nothing(r) == [out |-> <<>>, res |-> r]

LEMMA NothingIs ==
  ASSUME NEW r \in Ending, NEW p \in Seq(Symbol)
  PROVE  Nothing(r) \in BodyType /\ Then(p, Nothing(r)) = [out |-> p, res |-> r]
<1>1. <<>> \in Seq(Symbol) /\ p \o <<>> = p
  OBVIOUS
<1> QED BY <1>1 DEF Nothing, BodyType, Then

LEMMA RestIs ==
  ASSUME NEW w \in Seq(Symbol), NEW st \in State, NEW n \in Nat, NEW i \in 1..(Len(w) + 1)
  PROVE  RestAt(w, st, n, i) \in BodyType
<1>1. CASE st = "size"
  BY <1>1, BodyIs DEF RestAt
<1>2. CASE st \in {"data", "dataend"}
  <2>1. Len(w) \in Nat
    BY LenProperties
  <2>2. Later(BodyFrom(w), w, i - 1)
    <3> SUFFICES ASSUME NEW k \in (i - 1 + 1)..(Len(w) + 1)
                 PROVE  BodyFrom(w)[k] \in BodyType
      BY DEF Later
    <3>1. k \in 1..(Len(w) + 1)
      BY <2>1
    <3> QED BY <3>1, BodyIs
  <2>3. i - 1 \in Nat /\ i - 1 < i
    BY <2>1
  <2>4. FromPayload(w, i, n, BodyFrom(w)) \in BodyType
    BY <2>2, <2>3, PayloadIs
  <2> QED BY <1>2, <2>4 DEF RestAt
<1>3. CASE st = "trailers"
  <2>1. Trailer(w, i) \in Ending
    BY DEF Trailer, Ending
  <2>2. <<>> \in Seq(Symbol)
    OBVIOUS
  <2>3. Nothing(Trailer(w, i)) \in BodyType
    BY <2>1, <2>2, NothingIs
  <2> QED BY <1>3, <2>3 DEF RestAt, Nothing
<1> QED BY <1>1, <1>2, <1>3 DEF State

(* Nothing is left where the wire ends, nor of a line it ends in.          *)
LEMMA NoneLeft ==
  ASSUME NEW w \in Seq(Symbol), NEW i \in 1..(Len(w) + 1), NEW n \in Nat,
         NEW f, i = Len(w) + 1 \/ (Upto(w, i) = 0 /\ n = 0)
  PROVE  FromPayload(w, i, n, f) = Nothing("eof")
<1> DEFINE k == i + n
           e == IF k - 1 < Len(w) THEN k - 1 ELSE Len(w)
<1>1. Len(w) \in Nat /\ i \in Nat \ {0}
  BY LenProperties
<1>2. e = i - 1
  BY <1>1
<1>3. SubSeq(w, i, e) = <<>>
  <2>1. 0 \in Nat /\ i + 0 <= Len(w) + 1 /\ i + 0 - 1 = i - 1
    BY <1>1
  <2>2. SubSeq(w, i, i - 1) \in Seq(Symbol) /\ Len(SubSeq(w, i, i - 1)) = 0
    BY <1>1, <2>1, PartIs
  <2> QED BY <1>2, <2>2, EmptySeq
<1>4. k > Len(w) \/ Upto(w, k) = 0
  BY <1>1
<1> QED BY <1>3, <1>4 DEF FromPayload, Nothing

LEMMA AtTheEnd ==
  ASSUME NEW w \in Seq(Symbol), NEW st \in State, NEW n \in Nat, NEW i, i = Len(w) + 1
  PROVE  RestAt(w, st, n, i) = Nothing(IF st \in {"data", "dataend"} THEN "eof" ELSE "end")
<1>1. Len(w) \in Nat /\ i \in 1..(Len(w) + 1) /\ i > Len(w)
  BY LenProperties
<1>2. CASE st = "size"
  BY <1>1, <1>2, BodyIs DEF RestAt, FromSize, Nothing
<1>3. CASE st \in {"data", "dataend"}
  <2>1. FromPayload(w, i, n, BodyFrom(w)) = Nothing("eof")
    BY <1>1, NoneLeft
  <2> QED BY <1>3, <2>1 DEF RestAt
<1>4. CASE st = "trailers"
  BY <1>1, <1>4 DEF RestAt, Nothing, Trailer
<1> QED BY <1>2, <1>3, <1>4 DEF State

LEMMA WithinALine ==
  ASSUME NEW w \in Seq(Symbol), NEW st \in State \ {"data"}, NEW i \in 1..Len(w), Upto(w, i) = 0
  PROVE  RestAt(w, st, 0, i) = Nothing("eof")
<1>1. Len(w) \in Nat /\ i \in 1..(Len(w) + 1) /\ ~(i > Len(w)) /\ i \in Nat \ {0}
  BY LenProperties
<1>2. \A k \in i..Len(w) : w[k] # "L"
  BY <1>1, UptoIs
<1>3. CASE st = "size"
  BY <1>1, <1>3, BodyIs DEF RestAt, FromSize, Nothing
<1>4. CASE st = "dataend"
  BY <1>1, <1>4, NoneLeft DEF RestAt
<1>5. CASE st = "trailers"
  <2>1. w[Len(w)] # "L"
    BY <1>1, <1>2
  <2>2. \A k \in Begins(w, i) : k = i
    <3> SUFFICES ASSUME NEW k \in Begins(w, i), k # i PROVE FALSE
      OBVIOUS
    <3>1. k \in i..Len(w) /\ w[k - 1] = "L"
      BY DEF Begins
    <3>2. k - 1 \in i..Len(w)
      BY <1>1, <3>1
    <3> QED BY <1>2, <3>1, <3>2
  <2>3. Trailer(w, i) = "eof"
    BY <1>1, <2>1, <2>2 DEF Trailer
  <2> QED BY <1>5, <2>3 DEF RestAt, Nothing
<1> QED BY <1>3, <1>4, <1>5 DEF State

(* What a whole line leads to.                                             *)
LEMMA AfterALine ==
  ASSUME NEW w \in Seq(Symbol), NEW i \in 1..Len(w), Upto(w, i) # 0
  PROVE  LET text == Text(w, i)
             j    == Upto(w, i) + 1
         IN /\ ~IsSize(text) => RestAt(w, "size", 0, i) = Nothing("invalid")
            /\ IsSize(text) => /\ Size(text) \in Nat
                               /\ RestAt(w, "size", 0, i) =
                                    RestAt(w, IF Size(text) = 0 THEN "trailers" ELSE "data", Size(text), j)
            /\ RestAt(w, "dataend", 0, i) =
                 IF text = <<>> THEN RestAt(w, "size", 0, j) ELSE Nothing("invalid")
            /\ RestAt(w, "trailers", 0, i) =
                 IF text = <<>> THEN Nothing("end") ELSE RestAt(w, "trailers", 0, j)
<1> DEFINE text == Text(w, i)
           j == Upto(w, i) + 1
<1>1. Len(w) \in Nat /\ i \in 1..(Len(w) + 1) /\ ~(i > Len(w)) /\ i \in Nat \ {0}
  BY LenProperties
<1>2. Upto(w, i) \in i..Len(w)
  BY <1>1, UptoIs
<1>3. j \in 1..(Len(w) + 1)
  BY <1>1, <1>2
<1>4. RestAt(w, "size", 0, i) = FromSize(w, i, BodyFrom(w))
  BY <1>1, BodyIs DEF RestAt
<1>5. ~IsSize(text) => RestAt(w, "size", 0, i) = Nothing("invalid")
  BY <1>1, <1>4 DEF FromSize, Nothing
<1>6. ASSUME IsSize(text)
      PROVE  /\ Size(text) \in Nat
             /\ RestAt(w, "size", 0, i) =
                  RestAt(w, IF Size(text) = 0 THEN "trailers" ELSE "data", Size(text), j)
  <2>1. Size(text) \in Nat
    BY <1>1, <1>6, TextIs, SizeIs
  <2>2. CASE Size(text) = 0
    BY <1>1, <1>4, <1>6, <2>1, <2>2 DEF FromSize, RestAt
  <2>3. CASE Size(text) # 0
    BY <1>1, <1>4, <1>6, <2>1, <2>3 DEF FromSize, RestAt
  <2> QED BY <2>1, <2>2, <2>3
<1>7. RestAt(w, "dataend", 0, i) = IF text = <<>> THEN RestAt(w, "size", 0, j) ELSE Nothing("invalid")
  <2>1. i + 0 = i /\ (i - 1 < Len(w))
    BY <1>1
  <2>2. SubSeq(w, i, i - 1) = <<>>
    <3>1. 0 \in Nat /\ i + 0 <= Len(w) + 1 /\ i + 0 - 1 = i - 1
      BY <1>1
    <3>2. SubSeq(w, i, i - 1) \in Seq(Symbol) /\ Len(SubSeq(w, i, i - 1)) = 0
      BY <1>1, <3>1, PartIs
    <3> QED BY <3>2, EmptySeq
  <2>3. FromPayload(w, i, 0, BodyFrom(w)) =
          IF text # <<>> THEN [out |-> <<>>, res |-> "invalid"] ELSE Then(<<>>, BodyFrom(w)[j])
    BY <1>1, <2>1, <2>2 DEF FromPayload
  <2>4. BodyFrom(w)[j] \in BodyType
    BY <1>3, BodyIs
  <2>5. Then(<<>>, BodyFrom(w)[j]) = BodyFrom(w)[j]
    BY <2>4, ThenIs
  <2> QED BY <2>3, <2>5 DEF RestAt, Nothing
<1>8. RestAt(w, "trailers", 0, i) = IF text = <<>> THEN Nothing("end") ELSE RestAt(w, "trailers", 0, j)
  BY TrailerOff DEF RestAt, Nothing
<1> QED BY <1>5, <1>6, <1>7, <1>8

LEMMA AfterPayload ==
  ASSUME NEW w \in Seq(Symbol), NEW i \in 1..(Len(w) + 1), NEW n \in Nat, NEW m \in 0..n,
         i + m <= Len(w) + 1, NEW st \in {"data", "dataend"}
  PROVE  RestAt(w, "data", n, i) = Then(SubSeq(w, i, i + m - 1), RestAt(w, st, n - m, i + m))
<1>1. Later(BodyFrom(w), w, i - 1)
  <2> SUFFICES ASSUME NEW k \in (i - 1 + 1)..(Len(w) + 1)
               PROVE  BodyFrom(w)[k] \in BodyType
    BY DEF Later
  <2>1. k \in 1..(Len(w) + 1)
    BY LenProperties
  <2> QED BY <2>1, BodyIs
<1>2. FromPayload(w, i, n, BodyFrom(w)) =
        Then(SubSeq(w, i, i + m - 1), FromPayload(w, i + m, n - m, BodyFrom(w)))
  BY <1>1, PayloadOff
<1> QED BY <1>2 DEF RestAt

LEMMA PrefixIs ==
  ASSUME NEW p \in Seq(Symbol), NEW q \in Seq(Symbol)
  PROVE  IsPrefix(p, p \o q)
<1>1. Len(p) \in Nat /\ Len(q) \in Nat /\ Len(p \o q) = Len(p) + Len(q) /\ p \o q \in Seq(Symbol)
  BY LenProperties, ConcatProperties
<1>2. \A k \in 1..Len(p) : (p \o q)[k] = p[k]
  BY <1>1, ConcatProperties
<1>3. Len(p) <= Len(p \o q)
  BY <1>1
<1>4. \A s \in Seq(Symbol) : Len(p) <= Len(s) /\ (\A k \in 1..Len(p) : s[k] = p[k])
        => SubSeq(s, 1, Len(p)) = p
  <2> SUFFICES ASSUME NEW s \in Seq(Symbol), Len(p) <= Len(s), \A k \in 1..Len(p) : s[k] = p[k]
               PROVE  SubSeq(s, 1, Len(p)) = p
    OBVIOUS
  <2> DEFINE t == SubSeq(s, 1, 1 + Len(p) - 1)
  <2>1. 1 \in Nat \ {0} /\ 1 + Len(p) <= Len(s) + 1 /\ 1 + Len(p) - 1 = Len(p)
    BY <1>1, LenProperties
  <2>2. t \in Seq(Symbol) /\ Len(t) = Len(p) /\ \A k \in 1..Len(p) : t[k] = s[1 + k - 1]
    BY <1>1, <2>1, PartIs
  <2> HIDE DEF t
  <2>3. \A k \in 1..Len(p) : t[k] = p[k]
    <3> TAKE k \in 1..Len(p)
    <3>1. 1 + k - 1 = k
      BY <1>1
    <3> QED BY <2>2, <3>1
  <2>4. t = p
    BY <2>2, <2>3, SeqEqual
  <2> QED BY <2>1, <2>4 DEF t
<1>5. SubSeq(p, 1, Len(p)) = p /\ SubSeq(p \o q, 1, Len(p)) = p
  BY <1>1, <1>2, <1>3, <1>4
<1> QED BY <1>3, <1>5 DEF IsPrefix

-----------------------------------------------------------------------------
(* THE INVARIANT *)

DecoderType ==
  /\ wire \in Seq(Symbol) /\ kind \in Decoders /\ pos \in 0..Len(wire)
  /\ dec \in [st : State, left : Nat, line : Seq(Symbol)]
  /\ out \in Seq(Symbol) /\ res \in Ending \cup {"none"}

(* Where the line that is being read begins, or the payload that is next.  *)
LineStart == pos + 1 - Len(dec.line)

(* Until the body ends, the line so far is a part of the wire with no LF.  *)
LineSoFar ==
  res = "none" =>
    /\ Len(dec.line) <= pos /\ NoLF(wire, LineStart, pos)
    /\ dec.line = SubSeq(wire, LineStart, LineStart + Len(dec.line) - 1)
    /\ dec.st = "data" \/ kind # "chunked" => dec.line = <<>>

(* What has been delivered and what is left are the body.                  *)
Balance ==
  Chunked =>
    /\ IsPrefix(out, Body(wire).out)
    /\ res = "none" => /\ Body(wire) = Then(out, RestAt(wire, dec.st, dec.left, LineStart))
                       /\ dec.st # "data" => dec.left = 0
    /\ res # "none" => \/ [out |-> out, res |-> res] = Body(wire)
                       \/ res = "invalid" /\ ~Fits(wire)

(* A body that is not chunked is delivered as it is.                       *)
AsItIs ==
  ~Chunked =>
    /\ dec.st = "data" /\ out = SubSeq(wire, 1, pos) /\ res # "invalid"
    /\ kind = "length" => /\ pos <= Length /\ dec.left = Length - pos
                          /\ res = "end" => pos = Length
                          /\ res = "eof" => pos = Len(wire) /\ pos < Length
    /\ kind = "close"  => /\ res # "none" => res = "end" /\ pos = Len(wire)

DecoderInv == DecoderType /\ LineSoFar /\ Balance /\ AsItIs

(* What the head has decided, and nothing told before the refusal is.      *)
AsAnswered ==
  /\ client \in {"blocking", "async"} /\ head \in ResponseHead
  /\ kind = Decoder(client, head)
  /\ phase \in {"asking", "open", "refused", "done"}
  /\ phase # "done" => told = "none"
  /\ phase = "open" => Opens(client, head)
  /\ phase = "refused" => ~Opens(client, head) /\ ~IsDenial

StreamInv == DecoderInv /\ AsAnswered /\ RefusalIsTold

-----------------------------------------------------------------------------
LEMMA Places ==
  ASSUME NEW n \in Nat, NEW p \in 0..n, NEW l \in Nat, l <= p
  PROVE  /\ p + 1 - l \in 1..(p + 1) /\ p + 1 - l \in 1..(n + 1) /\ p + 1 - l + l = p + 1
         /\ l = 0 <=> p + 1 - l = p + 1
OBVIOUS

LEMMA NoLine ==
  ASSUME NEW w \in Seq(Symbol), NEW p \in 0..Len(w)
  PROVE  SubSeq(w, p + 1, p + 1 + 0 - 1) = <<>> /\ (p + 1)..p = {}
<1> DEFINE s == SubSeq(w, p + 1, p + 1 + 0 - 1)
<1>1. Len(w) \in Nat
  BY LenProperties
<1>2. p + 1 \in Nat \ {0} /\ 0 \in Nat /\ p + 1 + 0 <= Len(w) + 1
  BY <1>1
<1>3. s \in Seq(Symbol) /\ Len(s) = 0
  BY <1>2, PartIs
<1>4. (p + 1)..p = {}
  BY <1>1
<1> QED BY <1>3, <1>4, EmptySeq

LEMMA StartIs ==
  ASSUME DecoderInv, res = "none"
  PROVE  /\ Len(wire) \in Nat /\ Len(dec.line) \in Nat /\ pos \in 0..Len(wire)
         /\ LineStart \in 1..(pos + 1) /\ LineStart \in 1..(Len(wire) + 1) /\ LineStart + Len(dec.line) = pos + 1
         /\ dec.line = <<>> <=> LineStart = pos + 1
<1>1. Len(wire) \in Nat /\ dec.line \in Seq(Symbol) /\ pos \in 0..Len(wire) /\ Len(dec.line) <= pos
  BY LenProperties DEF DecoderInv, DecoderType, LineSoFar
<1>2. Len(dec.line) \in Nat /\ (dec.line = <<>> <=> Len(dec.line) = 0)
  BY <1>1, LenProperties, EmptySeq
<1>3. LineStart = pos + 1 - Len(dec.line)
  BY DEF LineStart
<1>4. /\ LineStart \in 1..(pos + 1) /\ LineStart \in 1..(Len(wire) + 1) /\ LineStart + Len(dec.line) = pos + 1
      /\ Len(dec.line) = 0 <=> LineStart = pos + 1
  BY <1>1, <1>2, <1>3, Places, Zenon
<1> QED BY <1>1, <1>2, <1>4

(* The body ends: with nothing left, or over a line that is too long.      *)
LEMMA Stops ==
  ASSUME DecoderInv, Chunked, res = "none", Same, NEW r \in Ending, Finish(r), pos' \in 0..Len(wire),
         \/ RestAt(wire, dec.st, dec.left, LineStart) = Nothing(r)
         \/ r = "invalid" /\ ~Fits(wire)
  PROVE  DecoderInv'
<1>1. res' = r /\ res' # "none" /\ wire' = wire /\ kind' = kind /\ out' = out /\ dec' = dec /\ Chunked'
  BY DEF Finish, Same, Ending, Chunked
<1>2. DecoderType' /\ LineSoFar' /\ AsItIs'
  BY <1>1 DEF DecoderInv, DecoderType, LineSoFar, AsItIs, Ending
<1>3. CASE RestAt(wire, dec.st, dec.left, LineStart) = Nothing(r)
  <2>1. Body(wire) = [out |-> out, res |-> r]
    BY <1>3, NothingIs DEF DecoderInv, DecoderType, Balance
  <2> QED BY <1>1, <1>2, <2>1 DEF DecoderInv, Balance
<1>4. CASE r = "invalid" /\ ~Fits(wire)
  BY <1>1, <1>2, <1>4 DEF DecoderInv, Balance
<1> QED BY <1>3, <1>4

(* It goes on behind a line.                                               *)
LEMMA GoesOn ==
  ASSUME DecoderInv, Chunked, res = "none", Same, NEW st \in State, NEW n \in Nat, Goto(st, n),
         st # "data" => n = 0, pos' \in 0..Len(wire),
         RestAt(wire, dec.st, dec.left, LineStart) = RestAt(wire, st, n, pos' + 1)
  PROVE  DecoderInv'
<1>1. /\ res' = "none" /\ wire' = wire /\ kind' = kind /\ out' = out /\ Chunked'
      /\ dec' = [st |-> st, left |-> n, line |-> <<>>]
  BY DEF Goto, Same, Chunked
<1>2. dec'.st = st /\ dec'.left = n /\ dec'.line = <<>> /\ Len(dec'.line) = 0 /\ <<>> \in Seq(Symbol)
  BY <1>1
<1>7. pos' \in Nat
  BY LenProperties DEF DecoderInv, DecoderType
<1>3. LineStart' = pos' + 1
  BY <1>2, <1>7 DEF LineStart
<1>4. DecoderType' /\ AsItIs'
  BY <1>1, <1>2 DEF DecoderInv, DecoderType, AsItIs
<1>5. LineSoFar'
  <2>1. SubSeq(wire, pos' + 1, pos' + 1 + 0 - 1) = <<>> /\ (pos' + 1)..pos' = {}
    BY NoLine DEF DecoderInv, DecoderType
  <2>2. 0 <= pos'
    BY <1>7
  <2> QED BY <1>1, <1>2, <1>3, <1>7, <2>1, <2>2 DEF LineSoFar, NoLF
<1>6. Balance'
  BY <1>1, <1>2, <1>3 DEF DecoderInv, Balance
<1> QED BY <1>4, <1>5, <1>6 DEF DecoderInv

(* A whole line has been read.                                             *)
LEMMA LineRead ==
  ASSUME DecoderInv, Chunked, Reading, Same, LineStart <= Len(wire),
         Upto(wire, LineStart) # 0, pos' = Upto(wire, LineStart), OnLine(Text(wire, LineStart))
  PROVE  DecoderInv'
<1> DEFINE text == Text(wire, LineStart)
<1>1. /\ res = "none" /\ wire \in Seq(Symbol) /\ LineStart \in 1..Len(wire) /\ Len(wire) \in Nat
      /\ dec.st \in {"size", "dataend", "trailers"} /\ dec.left = 0
  BY StartIs DEF DecoderInv, DecoderType, Reading, Balance
<1>2. pos' \in 0..Len(wire)
  BY <1>1, UptoIs
<1>3. "end" \in Ending /\ "eof" \in Ending /\ "invalid" \in Ending
  BY DEF Ending
<1>4. CASE dec.st = "size"
  <2>1. CASE ~IsSize(text)
    <3>1. RestAt(wire, dec.st, dec.left, LineStart) = Nothing("invalid") /\ Finish("invalid")
      BY <1>1, <1>4, <2>1, AfterALine DEF OnLine
    <3> QED BY <1>1, <1>2, <1>3, <3>1, Stops
  <2>2. CASE IsSize(text) /\ Size(text) = 0
    <3>1. RestAt(wire, dec.st, dec.left, LineStart) = RestAt(wire, "trailers", 0, pos' + 1) /\ Goto("trailers", 0)
      BY <1>1, <1>4, <2>2, AfterALine DEF OnLine
    <3>2. "trailers" \in State /\ 0 \in Nat
      BY DEF State
    <3> QED BY <1>1, <1>2, <3>1, <3>2, GoesOn
  <2>3. CASE IsSize(text) /\ Size(text) # 0
    <3>1. /\ RestAt(wire, dec.st, dec.left, LineStart) = RestAt(wire, "data", Size(text), pos' + 1)
          /\ Goto("data", Size(text)) /\ Size(text) \in Nat
      BY <1>1, <1>4, <2>3, AfterALine DEF OnLine
    <3>2. "data" \in State
      BY DEF State
    <3> QED BY <1>1, <1>2, <3>1, <3>2, GoesOn
  <2> QED BY <2>1, <2>2, <2>3
<1>5. CASE dec.st = "dataend"
  <2>1. CASE text = <<>>
    <3>1. RestAt(wire, dec.st, dec.left, LineStart) = RestAt(wire, "size", 0, pos' + 1) /\ Goto("size", 0)
      BY <1>1, <1>5, <2>1, AfterALine DEF OnLine
    <3>2. "size" \in State /\ 0 \in Nat
      BY DEF State
    <3> QED BY <1>1, <1>2, <3>1, <3>2, GoesOn
  <2>2. CASE text # <<>>
    <3>1. RestAt(wire, dec.st, dec.left, LineStart) = Nothing("invalid") /\ Finish("invalid")
      BY <1>1, <1>5, <2>2, AfterALine DEF OnLine
    <3> QED BY <1>1, <1>2, <1>3, <3>1, Stops
  <2> QED BY <2>1, <2>2
<1>6. CASE dec.st = "trailers"
  <2>1. CASE text = <<>>
    <3>1. RestAt(wire, dec.st, dec.left, LineStart) = Nothing("end") /\ Finish("end")
      BY <1>1, <1>6, <2>1, AfterALine DEF OnLine
    <3> QED BY <1>1, <1>2, <1>3, <3>1, Stops
  <2>2. CASE text # <<>>
    <3>1. RestAt(wire, dec.st, dec.left, LineStart) = RestAt(wire, "trailers", 0, pos' + 1) /\ Goto("trailers", 0)
      BY <1>1, <1>6, <2>2, AfterALine DEF OnLine
    <3>2. "trailers" \in State /\ 0 \in Nat
      BY DEF State
    <3> QED BY <1>1, <1>2, <3>1, <3>2, GoesOn
  <2> QED BY <2>1, <2>2
<1> QED BY <1>1, <1>4, <1>5, <1>6

(* The connection is closed, between two lines or within one.              *)
LEMMA StreamEnds ==
  ASSUME DecoderInv, Chunked, Reading, Same, More = 0, dec.line = <<>>, pos' = pos, OnEnd
  PROVE  DecoderInv'
<1>1. /\ res = "none" /\ wire \in Seq(Symbol) /\ LineStart = Len(wire) + 1 /\ pos' \in 0..Len(wire)
      /\ dec.st \in State \ {"data"} /\ dec.left \in Nat
  BY StartIs DEF DecoderInv, DecoderType, Reading, More, State
<1>2. "end" \in Ending /\ "eof" \in Ending
  BY DEF Ending
<1>3. CASE dec.st = "dataend"
  <2>1. RestAt(wire, dec.st, dec.left, LineStart) = Nothing("eof") /\ Finish("eof")
    BY <1>1, <1>3, AtTheEnd DEF OnEnd
  <2> QED BY <1>1, <1>2, <2>1, Stops
<1>4. CASE dec.st # "dataend"
  <2>1. RestAt(wire, dec.st, dec.left, LineStart) = Nothing("end") /\ Finish("end")
    BY <1>1, <1>4, AtTheEnd DEF OnEnd
  <2> QED BY <1>1, <1>2, <2>1, Stops
<1> QED BY <1>3, <1>4

LEMMA LineCut ==
  ASSUME DecoderInv, Chunked, Reading, Same, LineStart <= Len(wire), Upto(wire, LineStart) = 0,
         pos' \in 0..Len(wire), Finish("eof")
  PROVE  DecoderInv'
<1>1. /\ res = "none" /\ wire \in Seq(Symbol) /\ LineStart \in 1..Len(wire)
      /\ dec.st \in State \ {"data"} /\ dec.left = 0
  BY StartIs DEF DecoderInv, DecoderType, Reading, State, Balance
<1>2. RestAt(wire, dec.st, dec.left, LineStart) = Nothing("eof")
  BY <1>1, WithinALine
<1>3. "eof" \in Ending
  BY DEF Ending
<1> QED BY <1>1, <1>2, <1>3, Stops

LEMMA TooLong ==
  ASSUME DecoderInv, Chunked, Reading, Same, pos' \in 0..Len(wire), Finish("invalid"),
         pos' >= LineStart + MaxLine, NoLF(wire, LineStart, pos')
  PROVE  DecoderInv'
<1>1. res = "none" /\ LineStart \in 1..(Len(wire) + 1) /\ Len(wire) \in Nat /\ MaxLine \in Nat
  BY StartIs, DecoderAssumption DEF Reading
<1>2. LineStart \in 1..(Len(wire) - MaxLine) /\ \A j \in LineStart..(LineStart + MaxLine) : j \in LineStart..pos'
  BY <1>1
<1>3. ~Fits(wire)
  BY <1>2 DEF Fits, NoLF
<1>4. "invalid" \in Ending
  BY DEF Ending
<1> QED BY <1>1, <1>3, <1>4, Stops

(* A piece, and the line it is added to: s is where the line begins.       *)
LEMMA PieceIs ==
  ASSUME NEW w \in Seq(Symbol), NEW p \in 0..Len(w), NEW n \in Nat, n > 0, p + n <= Len(w)
  PROVE  /\ SubSeq(w, p + 1, p + n) \in Seq(Symbol) /\ Len(SubSeq(w, p + 1, p + n)) = n
         /\ Last(SubSeq(w, p + 1, p + n)) = w[p + n]
<1>1. p + 1 \in Nat \ {0} /\ p + 1 + n <= Len(w) + 1 /\ p + 1 + n - 1 = p + n /\ n \in 1..n
  BY LenProperties
<1> DEFINE s == SubSeq(w, p + 1, p + 1 + n - 1)
<1>2. s \in Seq(Symbol) /\ Len(s) = n /\ s[n] = w[p + 1 + n - 1]
  BY <1>1, PartIs
<1> QED BY <1>1, <1>2 DEF Last

LEMMA LineGrows ==
  ASSUME NEW w \in Seq(Symbol), NEW p \in 0..Len(w), NEW n \in Nat, n > 0, p + n <= Len(w),
         NEW s \in 1..(p + 1), NoLF(w, s, p),
         Upto(w, p + 1) = 0 \/ p + n <= Upto(w, p + 1)
  PROVE  LET l == SubSeq(w, s, s + (p + 1 - s) - 1) \o SubSeq(w, p + 1, p + n)
         IN /\ l \in Seq(Symbol) /\ Len(l) = p + n + 1 - s /\ l # <<>>
            /\ l = SubSeq(w, s, p + n) /\ Last(l) = w[p + n]
            /\ w[p + n] = "L" => Upto(w, s) = p + n
            /\ w[p + n] # "L" => NoLF(w, s, p + n)
<1> DEFINE a == p + 1 - s
           l == SubSeq(w, s, s + a - 1) \o SubSeq(w, p + 1, p + n)
<1>1. /\ Len(w) \in Nat /\ a \in Nat /\ s \in Nat \ {0} /\ s + a = p + 1 /\ s + a + n <= Len(w) + 1
      /\ a + n \in Nat /\ s + (a + n) <= Len(w) + 1 /\ s + (a + n) - 1 = p + n /\ s + a + n - 1 = p + n
      /\ a + n \in 1..(a + n) /\ a + n = p + n + 1 - s
  BY LenProperties
<1> HIDE DEF a
<1>2. l = SubSeq(w, s, s + (a + n) - 1)
  <2>1. SubSeq(w, s, s + (a + n) - 1) = SubSeq(w, s, s + a - 1) \o SubSeq(w, s + a, s + a + n - 1)
    BY <1>1, JoinIs
  <2> QED BY <1>1, <2>1
<1>3. l \in Seq(Symbol) /\ Len(l) = a + n /\ l[a + n] = w[s + (a + n) - 1]
  <2> DEFINE t == SubSeq(w, s, s + (a + n) - 1)
  <2>1. t \in Seq(Symbol) /\ Len(t) = a + n /\ t[a + n] = w[s + (a + n) - 1]
    BY <1>1, PartIs
  <2> QED BY <1>2, <2>1
<1> HIDE DEF l
<1>4. Last(l) = w[p + n] /\ l # <<>>
  BY <1>1, <1>3, EmptySeq DEF Last
<1>5. \A k \in s..(p + n - 1) : w[k] # "L"
  <2>1. \A k \in (p + 1)..(p + n - 1) : w[k] # "L"
    <3>0. p + 1 \in Nat \ {0}
      BY <1>1
    <3>1. CASE Upto(w, p + 1) = 0
      <4>1. \A k \in (p + 1)..Len(w) : w[k] # "L"
        BY <3>0, <3>1, UptoIs
      <4> QED BY <1>1, <4>1
    <3>2. CASE Upto(w, p + 1) # 0 /\ p + n <= Upto(w, p + 1)
      <4>1. Upto(w, p + 1) \in (p + 1)..Len(w) /\ \A k \in (p + 1)..(Upto(w, p + 1) - 1) : w[k] # "L"
        BY <3>0, <3>2, UptoIs
      <4> QED BY <1>1, <3>2, <4>1
    <3> QED BY <3>1, <3>2
  <2>2. \A k \in s..(p + n - 1) : k \in s..p \/ k \in (p + 1)..(p + n - 1)
    BY <1>1
  <2> QED BY <2>1, <2>2 DEF NoLF
<1>6. ASSUME w[p + n] = "L"
      PROVE  Upto(w, s) = p + n
  <2>1. p + n \in s..Len(w)
    BY <1>1
  <2>2. Upto(w, s) \in s..Len(w) /\ w[Upto(w, s)] = "L" /\ \A k \in s..(Upto(w, s) - 1) : w[k] # "L"
    BY <1>1, <1>6, <2>1, UptoIs
  <2>3. ~(Upto(w, s) \in s..(p + n - 1)) /\ ~(p + n \in s..(Upto(w, s) - 1))
    BY <1>5, <1>6, <2>2
  <2> QED BY <1>1, <2>1, <2>2, <2>3
<1>7. ASSUME w[p + n] # "L"
      PROVE  NoLF(w, s, p + n)
  <2>1. \A k \in s..(p + n) : k = p + n \/ k \in s..(p + n - 1)
    BY <1>1
  <2> QED BY <1>5, <1>7, <2>1 DEF NoLF
<1>8. l = SubSeq(w, s, p + n) /\ Len(l) = p + n + 1 - s
  BY <1>1, <1>2, <1>3
<1> QED BY <1>3, <1>4, <1>6, <1>7, <1>8 DEF l, a

LEMMA NoEnd ==
  ASSUME NEW w \in Seq(Symbol), NEW i \in Nat \ {0}, NoLF(w, i, Len(w))
  PROVE  Upto(w, i) = 0
BY UptoIs DEF NoLF

-----------------------------------------------------------------------------
LEMMA InvRead_line ==
  ASSUME DecoderInv, Read_line
  PROVE  DecoderInv'
<1> DEFINE n == IF LineEnd = 0 THEN More ELSE LineEnd - pos
           m == IF n > MaxLine + 2 THEN MaxLine + 2 ELSE n
<1>1. /\ kind = "blocking" /\ Reading /\ Same /\ Chunked /\ res = "none" /\ pos' = pos + m
      /\ \/ m = 0 /\ OnEnd
         \/ m > 0 /\ Last(Piece(m)) = "L" /\ OnLine(Chomp(Piece(m)))
         \/ m > 0 /\ Last(Piece(m)) # "L" /\ Finish(IF m > MaxLine THEN "invalid" ELSE "eof")
  BY DEF Read_line, Chunked, Reading
<1>2. /\ wire \in Seq(Symbol) /\ Len(wire) \in Nat /\ pos \in 0..Len(wire) /\ MaxLine \in Nat
      /\ dec.line = <<>> /\ LineStart = pos + 1 /\ LineEnd = Upto(wire, pos + 1)
  BY <1>1, StartIs, DecoderAssumption DEF DecoderInv, DecoderType, LineSoFar, LineEnd, Upto
<1>3. pos + 1 \in Nat \ {0} /\ (LineEnd = 0 \/ LineEnd \in (pos + 1)..Len(wire))
  BY <1>2, UptoIs
<1>4. More = Len(wire) - pos
  BY DEF More
<1>5. /\ n \in 0..(Len(wire) - pos) /\ m \in 0..n /\ (m = 0 => n = 0 /\ LineEnd = 0)
      /\ (m <= MaxLine => m = n) /\ (LineEnd # 0 => pos + m <= LineEnd)
  BY <1>2, <1>3, <1>4
<1>6. (m = n /\ LineEnd # 0 => pos + m = LineEnd) /\ (m = n /\ LineEnd = 0 => pos + m = Len(wire))
  BY <1>2, <1>3, <1>4, <1>5
<1>7. pos' \in 0..Len(wire)
  BY <1>1, <1>2, <1>5
<1> HIDE DEF m, n
<1>8. CASE m = 0 /\ OnEnd
  BY <1>1, <1>2, <1>4, <1>5, <1>6, <1>8, StreamEnds
<1>9. CASE m > 0
  <2>1. m \in Nat /\ pos + m <= Len(wire) /\ pos + 1 \in 1..(pos + 1) /\ \A k \in (pos + 1)..pos : FALSE
    BY <1>2, <1>5, <1>9
  <2>2. /\ Last(Piece(m)) = wire[pos + m] /\ Piece(m) = SubSeq(wire, pos + 1, pos + m)
        /\ LineStart <= Len(wire)
    BY <1>2, <1>9, <2>1, PieceIs DEF Piece
  <2>3. /\ wire[pos + m] = "L" => Upto(wire, pos + 1) = pos + m
        /\ wire[pos + m] # "L" => NoLF(wire, pos + 1, pos + m)
    <3>1. Upto(wire, pos + 1) = 0 \/ pos + m <= Upto(wire, pos + 1)
      BY <1>2, <1>5
    <3>2. NoLF(wire, pos + 1, pos)
      BY <2>1 DEF NoLF
    <3> QED BY <1>2, <1>9, <2>1, <3>1, <3>2, LineGrows
  <2>4. CASE Last(Piece(m)) = "L" /\ OnLine(Chomp(Piece(m)))
    <3>1. Upto(wire, LineStart) = pos' /\ Upto(wire, LineStart) # 0
      BY <1>1, <1>2, <2>1, <2>2, <2>3, <2>4, <1>9
    <3>2. Chomp(Piece(m)) = Text(wire, LineStart)
      BY <1>1, <1>2, <2>2, <3>1 DEF Text
    <3> QED BY <1>1, <2>2, <2>4, <3>1, <3>2, LineRead
  <2>5. CASE Last(Piece(m)) # "L" /\ Finish(IF m > MaxLine THEN "invalid" ELSE "eof")
    <3>1. CASE m > MaxLine
      <4>1. pos' >= LineStart + MaxLine
        BY <1>1, <1>2, <1>5, <3>1
      <4> QED BY <1>1, <1>2, <1>7, <2>2, <2>3, <2>5, <3>1, <4>1, TooLong
    <3>2. CASE ~(m > MaxLine)
      <4>1. m = n
        BY <1>2, <1>5, <2>1, <3>2
      <4>2. LineEnd = 0
        <5> SUFFICES ASSUME LineEnd # 0 PROVE FALSE
          OBVIOUS
        <5>1. wire[LineEnd] = "L" /\ pos + m = LineEnd
          BY <1>2, <1>3, <1>6, <4>1, UptoIs
        <5> QED BY <2>2, <2>5, <5>1
      <4> QED BY <1>1, <1>2, <1>7, <2>2, <2>5, <3>2, <4>2, LineCut
    <3> QED BY <3>1, <3>2
  <2> QED BY <1>1, <1>9, <2>4, <2>5
<1> QED BY <1>1, <1>8, <1>9

LEMMA InvPoll_line ==
  ASSUME DecoderInv, Poll_line
  PROVE  DecoderInv'
<1>1. kind = "chunked" /\ Reading /\ Same /\ Chunked /\ res = "none"
  BY DEF Poll_line, Chunked, Reading
<1>2. /\ wire \in Seq(Symbol) /\ Len(wire) \in Nat /\ pos \in 0..Len(wire) /\ MaxLine \in Nat
      /\ LineStart \in 1..(pos + 1) /\ Len(dec.line) \in Nat /\ LineStart + Len(dec.line) = pos + 1
      /\ (dec.line = <<>> <=> LineStart = pos + 1) /\ LineEnd = Upto(wire, pos + 1)
      /\ NoLF(wire, LineStart, pos)
  BY <1>1, StartIs, DecoderAssumption DEF DecoderInv, DecoderType, LineSoFar, LineEnd, Upto
<1>3. More = Len(wire) - pos
  BY DEF More
<1>4. CASE More = 0 /\ pos' = pos /\ dec.line = <<>> /\ OnEnd
  BY <1>1, <1>4, StreamEnds
<1>5. CASE More = 0 /\ pos' = pos /\ dec.line # <<>> /\ Finish("eof")
  <2>1. pos = Len(wire) /\ LineStart \in Nat \ {0} /\ LineStart <= Len(wire) /\ pos' \in 0..Len(wire)
    BY <1>2, <1>3, <1>5
  <2>2. Upto(wire, LineStart) = 0
    BY <1>2, <2>1, NoEnd
  <2> QED BY <1>1, <1>5, <2>1, <2>2, LineCut
<1>6. ASSUME NEW n \in 1..More, LineEnd = 0 \/ pos + n <= LineEnd, pos' = pos + n,
             LET l == dec.line \o Piece(n) IN
               \/ Last(l) = "L" /\ OnLine(Chomp(l))
               \/ Last(l) # "L" /\ Len(l) > MaxLine + 1 /\ Finish("invalid")
               \/ Last(l) # "L" /\ Len(l) <= MaxLine + 1
                    /\ dec' = [dec EXCEPT !.line = l] /\ UNCHANGED <<out, res>>
      PROVE  DecoderInv'
  <2> DEFINE l == dec.line \o Piece(n)
  <2>1. n \in Nat /\ n > 0 /\ pos + n <= Len(wire) /\ pos' \in 0..Len(wire)
    BY <1>2, <1>3, <1>6
  <2>2. dec.line = SubSeq(wire, LineStart, LineStart + (pos + 1 - LineStart) - 1)
    <3>1. pos + 1 - LineStart = Len(dec.line)
      BY <1>2
    <3> QED BY <1>1, <3>1 DEF DecoderInv, LineSoFar
  <2>3. /\ l \in Seq(Symbol) /\ Len(l) = pos + n + 1 - LineStart /\ l # <<>>
        /\ l = SubSeq(wire, LineStart, pos + n) /\ Last(l) = wire[pos + n]
        /\ wire[pos + n] = "L" => Upto(wire, LineStart) = pos + n
        /\ wire[pos + n] # "L" => NoLF(wire, LineStart, pos + n)
    <3>1. Upto(wire, pos + 1) = 0 \/ pos + n <= Upto(wire, pos + 1)
      BY <1>2, <1>6
    <3>2. Piece(n) = SubSeq(wire, pos + 1, pos + n)
      BY DEF Piece
    <3>3. n \in Nat /\ n > 0 /\ pos + n <= Len(wire)
      BY <2>1
    <3>4. wire \in Seq(Symbol) /\ pos \in 0..Len(wire) /\ LineStart \in 1..(pos + 1) /\ NoLF(wire, LineStart, pos)
      BY <1>2
    <3> DEFINE j == SubSeq(wire, LineStart, LineStart + (pos + 1 - LineStart) - 1) \o SubSeq(wire, pos + 1, pos + n)
    <3>5. j = l
      BY <2>2, <3>2
    <3>6. /\ j \in Seq(Symbol) /\ Len(j) = pos + n + 1 - LineStart /\ j # <<>>
          /\ j = SubSeq(wire, LineStart, pos + n) /\ Last(j) = wire[pos + n]
          /\ wire[pos + n] = "L" => Upto(wire, LineStart) = pos + n
          /\ wire[pos + n] # "L" => NoLF(wire, LineStart, pos + n)
      BY <3>1, <3>3, <3>4, LineGrows
    <3> HIDE DEF j, l
    <3> QED BY <3>5, <3>6
  <2>4. LineStart <= Len(wire)
    BY <1>2, <2>1
  <2> HIDE DEF l
  <2>5. CASE Last(l) = "L" /\ OnLine(Chomp(l))
    <3>1. Upto(wire, LineStart) = pos' /\ Upto(wire, LineStart) # 0
      BY <1>2, <1>6, <2>1, <2>3, <2>5
    <3>2. Chomp(l) = Text(wire, LineStart)
      BY <1>6, <2>3, <3>1 DEF Text
    <3> QED BY <1>1, <2>4, <2>5, <3>1, <3>2, LineRead
  <2>6. CASE Last(l) # "L" /\ Len(l) > MaxLine + 1 /\ Finish("invalid")
    <3>1. pos' >= LineStart + MaxLine
      BY <1>2, <1>6, <2>1, <2>3, <2>6
    <3> QED BY <1>1, <1>6, <2>1, <2>3, <2>6, <3>1, TooLong
  <2>7. CASE Last(l) # "L" /\ dec' = [dec EXCEPT !.line = l] /\ UNCHANGED <<out, res>>
    <3>1. /\ dec'.st = dec.st /\ dec'.left = dec.left /\ dec'.line = l
          /\ dec' \in [st : State, left : Nat, line : Seq(Symbol)]
          /\ wire' = wire /\ kind' = kind /\ out' = out /\ res' = res /\ Chunked'
          /\ dec.st # "data"
      BY <1>1, <2>3, <2>7 DEF DecoderInv, DecoderType, Same, Chunked, Reading
    <3>2. LineStart' = pos' + 1 - Len(l)
      BY <3>1 DEF LineStart
    <3>3. LineStart' = LineStart /\ Len(l) <= pos' /\ LineStart + Len(l) - 1 = pos'
      <4>1. /\ pos + n + 1 - Len(l) = LineStart /\ Len(l) <= pos + n /\ LineStart + Len(l) - 1 = pos + n
        BY <1>2, <2>1, <2>3
      <4> QED BY <1>6, <3>2, <4>1
    <3>4. DecoderType'
      BY <2>1, <3>1 DEF DecoderInv, DecoderType
    <3>5. LineSoFar'
      BY <1>1, <1>6, <2>3, <2>7, <3>1, <3>3 DEF LineSoFar
    <3>6. Balance' /\ AsItIs'
      BY <1>1, <3>1, <3>3 DEF DecoderInv, Balance, AsItIs
    <3> QED BY <3>4, <3>5, <3>6 DEF DecoderInv
  <2> QED BY <1>6, <2>5, <2>6, <2>7 DEF l
<1> QED BY <1>4, <1>5, <1>6 DEF Poll_line

LEMMA InvPayload ==
  ASSUME DecoderInv, Payload
  PROVE  DecoderInv'
<1>1. /\ res = "none" /\ dec.st = "data" /\ Same /\ wire' = wire /\ kind' = kind
      /\ wire \in Seq(Symbol) /\ Len(wire) \in Nat /\ pos \in 0..Len(wire) /\ kind \in Decoders
      /\ dec.line = <<>> /\ LineStart = pos + 1 /\ More = Len(wire) - pos
      /\ dec \in [st : State, left : Nat, line : Seq(Symbol)] /\ out \in Seq(Symbol) /\ Chunked' = Chunked
  BY StartIs DEF Payload, DecoderInv, DecoderType, LineSoFar, More, Same, Chunked
<1>2. CASE More = 0 /\ pos' = pos /\ (Chunked \/ (kind = "length" /\ dec.left > 0)) /\ Finish("eof")
  <2>1. CASE Chunked
    <3>1. LineStart = Len(wire) + 1 /\ pos' \in 0..Len(wire)
      BY <1>1, <1>2
    <3>2. RestAt(wire, dec.st, dec.left, LineStart) = Nothing("eof")
      BY <1>1, <3>1, AtTheEnd
    <3>3. "eof" \in Ending
      BY DEF Ending
    <3> QED BY <1>1, <1>2, <2>1, <3>1, <3>2, <3>3, Stops
  <2>2. CASE ~Chunked /\ kind = "length" /\ dec.left > 0
    <3>1. /\ res' = "eof" /\ out' = out /\ dec' = dec /\ pos = Len(wire) /\ ~Chunked'
      BY <1>1, <1>2, <2>2 DEF Finish
    <3>2. DecoderType' /\ LineSoFar' /\ Balance'
      BY <1>1, <1>2, <2>2, <3>1 DEF DecoderInv, DecoderType, LineSoFar, Balance, Ending
    <3>3. dec.left = Length - pos /\ Length \in Nat /\ pos < Length
      BY <1>1, <2>2, DecoderAssumption DEF DecoderInv, AsItIs
    <3>4. AsItIs'
      BY <1>1, <1>2, <2>2, <3>1, <3>3 DEF DecoderInv, AsItIs
    <3> QED BY <3>2, <3>4 DEF DecoderInv
  <2> QED BY <1>2, <2>1, <2>2
<1>3. ASSUME NEW n \in 1..More, kind # "close" => n <= dec.left,
             pos' = pos + n /\ out' = out \o Piece(n) /\ res' = res,
             dec' = IF kind = "close" THEN dec
                    ELSE [dec EXCEPT !.left = @ - n,
                                     !.st = IF Chunked /\ dec.left = n THEN "dataend" ELSE "data"]
      PROVE  DecoderInv'
  <2> DEFINE st == IF Chunked /\ dec.left = n THEN "dataend" ELSE "data"
  <2>1. n \in Nat /\ n > 0 /\ pos + n <= Len(wire) /\ pos + n \in 0..Len(wire) /\ dec.left \in Nat
    BY <1>1, <1>3
  <2>2. Piece(n) \in Seq(Symbol) /\ Piece(n) = SubSeq(wire, pos + 1, pos + n)
    BY <1>1, <2>1, PieceIs DEF Piece
  <2>3. (kind # "close" => dec.left - n \in Nat) /\ st \in {"data", "dataend"} /\ st \in State
    BY <1>3, <2>1 DEF State
  <2>4. /\ dec'.line = <<>> /\ Len(dec'.line) = 0
        /\ dec' \in [st : State, left : Nat, line : Seq(Symbol)]
        /\ kind # "close" => dec'.st = st /\ dec'.left = dec.left - n
        /\ kind = "close" => dec'.st = "data"
    <3> HIDE DEF st
    <3>1. dec' = IF kind = "close" THEN dec ELSE [dec EXCEPT !.left = dec.left - n, !.st = st]
      BY <1>3 DEF st
    <3>2. CASE kind = "close"
      BY <1>1, <3>1, <3>2
    <3>3. CASE kind # "close"
      BY <1>1, <2>3, <3>1, <3>3
    <3> QED BY <3>2, <3>3
  <2> HIDE DEF st
  <2>5. DecoderType'
    BY <1>1, <1>3, <2>1, <2>2, <2>4 DEF DecoderType
  <2>6. LineStart' = pos + n + 1
    <3>1. LineStart' = pos' + 1 - Len(dec'.line)
      BY DEF LineStart
    <3> QED BY <1>1, <1>3, <2>1, <2>4, <3>1
  <2>7. LineSoFar'
    <3>1. SubSeq(wire, pos + n + 1, pos + n + 1 + 0 - 1) = <<>> /\ (pos + n + 1)..(pos + n) = {}
      BY <1>1, <2>1, NoLine
    <3>2. 0 <= pos + n
      BY <1>1, <2>1
    <3> QED BY <1>1, <1>3, <2>4, <2>6, <3>1, <3>2 DEF LineSoFar, NoLF
  <2>8. CASE Chunked
    <3>1. kind # "close" /\ n \in 0..dec.left /\ LineStart \in 1..(Len(wire) + 1) /\ LineStart + n <= Len(wire) + 1
          /\ LineStart + n - 1 = pos + n /\ LineStart + n = LineStart'
      BY <1>1, <1>3, <2>1, <2>6, <2>8, SMTT(30) DEF Chunked
    <3>2. RestAt(wire, "data", dec.left, LineStart)
            = Then(SubSeq(wire, LineStart, LineStart + n - 1), RestAt(wire, st, dec.left - n, LineStart + n))
      <4>1. /\ wire \in Seq(Symbol) /\ LineStart \in 1..(Len(wire) + 1) /\ dec.left \in Nat /\ n \in 0..dec.left
            /\ LineStart + n <= Len(wire) + 1 /\ st \in {"data", "dataend"}
        BY <1>1, <2>1, <2>3, <3>1
      <4> QED BY <4>1, AfterPayload
    <3> DEFINE rest == RestAt(wire, st, dec.left - n, LineStart + n)
    <3>3. LineStart + n \in 1..(Len(wire) + 1)
      BY <1>1, <2>1
    <3>4. rest \in BodyType
      BY <1>1, <2>3, <3>1, <3>3, RestIs
    <3>5. RestAt(wire, "data", dec.left, LineStart) = Then(Piece(n), rest)
      BY <1>1, <2>2, <3>1, <3>2
    <3> HIDE DEF rest
    <3>6. Body(wire) = Then(out, Then(Piece(n), rest))
      BY <1>1, <2>8, <3>5 DEF DecoderInv, Balance
    <3>7. Body(wire) = Then(out', rest) /\ out' \in Seq(Symbol)
      <4>1. out' = out \o Piece(n) /\ out \o Piece(n) \in Seq(Symbol)
        BY <1>1, <1>3, <2>2
      <4>2. Then(out, Then(Piece(n), rest)) = Then(out \o Piece(n), rest)
        BY <1>1, <2>2, <3>4, ThenIs, Zenon
      <4> QED BY <3>6, <4>1, <4>2
    <3>8. IsPrefix(out', Body(wire).out)
      <4>1. Body(wire).out = out' \o rest.out /\ rest.out \in Seq(Symbol)
        BY <3>4, <3>7, ThenIs DEF BodyType
      <4> QED BY <3>7, <4>1, PrefixIs
    <3>9. dec'.st # "data" => dec'.left = 0
      BY <1>1, <2>1, <2>4, <3>1 DEF st
    <3>10. Balance'
      BY <1>1, <1>3, <2>4, <3>1, <3>7, <3>8, <3>9 DEF Balance, rest
    <3>11. AsItIs'
      BY <1>1, <2>8 DEF AsItIs
    <3> QED BY <2>5, <2>7, <3>10, <3>11 DEF DecoderInv
  <2>9. CASE ~Chunked
    <3>1. out' = SubSeq(wire, 1, pos + n)
      <4>1. 1 + (pos + n) - 1 = pos + n /\ 1 + pos - 1 = pos /\ 1 + pos + n - 1 = pos + n
            /\ 1 + pos + n <= Len(wire) + 1 /\ pos \in Nat /\ 1 \in Nat \ {0} /\ 1 + pos = pos + 1
        BY <1>1, <2>1
      <4>2. SubSeq(wire, 1, pos + n) = SubSeq(wire, 1, pos) \o SubSeq(wire, pos + 1, pos + n)
        <5>1. SubSeq(wire, 1, 1 + (pos + n) - 1) = SubSeq(wire, 1, 1 + pos - 1) \o SubSeq(wire, 1 + pos, 1 + pos + n - 1)
          <6>1. /\ wire \in Seq(Symbol) /\ 1 \in Nat \ {0} /\ pos \in Nat /\ n \in Nat
                /\ 1 + pos + n <= Len(wire) + 1
            BY <1>1, <2>1, <4>1
          <6> QED BY <6>1, JoinIs
        <5> QED BY <4>1, <5>1
      <4> QED BY <1>3, <2>2, <2>9, <4>2 DEF DecoderInv, AsItIs
    <3>2. dec'.st = "data"
      BY <1>1, <2>4, <2>9 DEF st
    <3>3. kind = "length" => pos + n <= Length /\ dec'.left = Length - (pos + n)
      <4> SUFFICES ASSUME kind = "length"
                   PROVE  pos + n <= Length /\ dec'.left = Length - (pos + n)
        OBVIOUS
      <4>1. dec.left = Length - pos /\ Length \in Nat /\ n <= dec.left /\ dec'.left = dec.left - n
        BY <1>3, <2>4, <2>9, DecoderAssumption DEF DecoderInv, AsItIs
      <4> QED BY <1>1, <2>1, <4>1
    <3>4. AsItIs'
      BY <1>1, <1>3, <2>9, <3>1, <3>2, <3>3 DEF AsItIs
    <3>5. Balance'
      BY <1>1, <2>9 DEF Balance
    <3> QED BY <2>5, <2>7, <3>4, <3>5 DEF DecoderInv
  <2> QED BY <2>8, <2>9
<1> QED BY <1>2, <1>3 DEF Payload

LEMMA InvEnded ==
  ASSUME DecoderInv, Ended
  PROVE  DecoderInv'
<1>1. /\ res = "none" /\ wire' = wire /\ kind' = kind /\ pos' = pos /\ dec' = dec /\ out' = out
      /\ res' = "end" /\ ~Chunked /\ ~Chunked'
      /\ (kind = "length" /\ dec.left = 0) \/ (kind = "close" /\ More = 0)
  BY DEF Ended, Same, Finish, Chunked
<1>2. DecoderType' /\ LineSoFar' /\ Balance'
  BY <1>1 DEF DecoderInv, DecoderType, LineSoFar, Balance, Ending
<1>3. /\ kind = "length" => pos = Length
      /\ kind = "close" => pos = Len(wire)
  <2>1. Len(wire) \in Nat /\ pos \in 0..Len(wire) /\ Length \in Nat
    BY LenProperties, DecoderAssumption DEF DecoderInv, DecoderType
  <2>2. kind = "length" => dec.left = Length - pos
    BY <1>1 DEF DecoderInv, AsItIs
  <2> QED BY <1>1, <2>1, <2>2 DEF More
<1>4. AsItIs'
  BY <1>1, <1>3 DEF DecoderInv, AsItIs
<1> QED BY <1>2, <1>4 DEF DecoderInv

LEMMA DecoderStep ==
  DecoderInv /\ Decode => DecoderInv'
BY InvRead_line, InvPoll_line, InvPayload, InvEnded DEF Decode

LEMMA DecoderStutter ==
  DecoderInv /\ UNCHANGED decoderVars => DecoderInv'
BY DEF decoderVars, DecoderInv, DecoderType, LineSoFar, LineStart, NoLF, Balance, AsItIs, Chunked

LEMMA DecoderStart ==
  ASSUME DecoderInit, wire \in Seq(Symbol)
  PROVE  DecoderInv
<1>1. /\ kind \in Decoders /\ pos = 0 /\ out = <<>> /\ res = "none" /\ dec.line = <<>>
      /\ dec = [st   |-> IF Chunked THEN "size" ELSE "data",
                left |-> IF kind = "length" THEN Length ELSE 0, line |-> <<>>]
      /\ <<>> \in Seq(Symbol) /\ Len(<<>>) = 0 /\ Len(wire) \in Nat /\ Length \in Nat
  BY LenProperties, DecoderAssumption DEF DecoderInit
<1>2. LineStart = 1
  BY <1>1 DEF LineStart
<1>3. DecoderType
  BY <1>1 DEF DecoderType, State
<1>4. SubSeq(wire, 1, 0) = <<>> /\ 1..0 = {}
  <2>1. 0 \in 0..Len(wire) /\ 0 + 1 = 1 /\ 0 + 1 + 0 - 1 = 0
    BY <1>1
  <2>2. SubSeq(wire, 0 + 1, 0 + 1 + 0 - 1) = <<>> /\ (0 + 1)..0 = {}
    BY <2>1, NoLine
  <2> QED BY <2>1, <2>2
<1>5. LineSoFar
  BY <1>1, <1>2, <1>4 DEF LineSoFar, NoLF
<1>6. Balance
  <2> SUFFICES ASSUME Chunked PROVE Balance
    BY DEF Balance
  <2>1. 1 \in 1..(Len(wire) + 1)
    BY <1>1
  <2>2. Body(wire) \in BodyType /\ RestAt(wire, dec.st, dec.left, 1) = Body(wire)
    BY <1>1, <2>1, BodyIs DEF Body, RestAt
  <2>3. Body(wire) = Then(out, RestAt(wire, dec.st, dec.left, LineStart))
    BY <1>1, <1>2, <2>2, ThenIs
  <2>4. IsPrefix(out, Body(wire).out)
    <3>1. Body(wire).out \in Seq(Symbol) /\ <<>> \o Body(wire).out = Body(wire).out
      BY <2>2 DEF BodyType
    <3>2. IsPrefix(<<>>, <<>> \o Body(wire).out)
      BY <1>1, <3>1, PrefixIs
    <3> QED BY <1>1, <3>1, <3>2
  <2>5. dec.left = 0
    BY <1>1 DEF Chunked
  <2> QED BY <1>1, <2>3, <2>4, <2>5 DEF Balance
<1>7. AsItIs
  BY <1>1, <1>4 DEF AsItIs, Chunked
<1> QED BY <1>3, <1>5, <1>6, <1>7 DEF DecoderInv

LEMMA StreamStart == RttInit => StreamInv
<1> SUFFICES ASSUME RttInit PROVE StreamInv
  OBVIOUS
<1>1. client \in {"blocking", "async"} /\ head \in ResponseHead /\ head.framing \in Framing
  BY StreamAssumption DEF RttInit, ResponseHead
<1>2. wire \in Seq(Symbol)
  BY <1>1, StreamAssumption, DecoderAssumption DEF RttInit
<1>3. DecoderInv
  BY <1>2, DecoderStart DEF RttInit
<1>4. AsAnswered /\ RefusalIsTold
  BY <1>1 DEF RttInit, AsAnswered, RefusalIsTold
<1> QED BY <1>3, <1>4 DEF StreamInv

-----------------------------------------------------------------------------
(* What has been delivered, against the body that was meant.               *)
LEMMA DeliveredIsMeant ==
  ASSUME DecoderInv, NEW f \in Framing,
         kind = f \/ (kind = "blocking" /\ f = "chunked")
  PROVE  /\ IsPrefix(out, Meant(f).out)
         /\ res # "none" =>
              [out |-> out, res |-> res] = Meant(f) \/ (Chunked /\ res = "invalid" /\ ~Fits(wire))
<1>1. /\ wire \in Seq(Symbol) /\ Len(wire) \in Nat /\ pos \in 0..Len(wire) /\ out \in Seq(Symbol)
      /\ Length \in Nat /\ res \in Ending \cup {"none"}
  BY LenProperties, DecoderAssumption DEF DecoderInv, DecoderType
<1>2. CASE f = "chunked"
  <2>1. Chunked /\ Meant(f) = Body(wire)
    BY <1>2 DEF Chunked, Meant
  <2> QED BY <2>1 DEF DecoderInv, Balance
<1>3. ASSUME NEW n \in 0..Len(wire), pos <= n
      PROVE  IsPrefix(SubSeq(wire, 1, pos), SubSeq(wire, 1, n))
  <2>1. /\ 1 \in Nat \ {0} /\ pos \in Nat /\ n - pos \in Nat /\ 1 + pos + (n - pos) <= Len(wire) + 1
        /\ 1 + (pos + (n - pos)) - 1 = n /\ 1 + pos - 1 = pos /\ 1 + pos + (n - pos) - 1 = n
        /\ 1 + pos <= Len(wire) + 1 /\ 1 + pos \in Nat \ {0}
    BY <1>1, <1>3
  <2>2. SubSeq(wire, 1, 1 + (pos + (n - pos)) - 1)
          = SubSeq(wire, 1, 1 + pos - 1) \o SubSeq(wire, 1 + pos, 1 + pos + (n - pos) - 1)
    BY <1>1, <2>1, JoinIs
  <2>3. SubSeq(wire, 1, 1 + pos - 1) \in Seq(Symbol)
    BY <1>1, <2>1, PartIs
  <2>4. SubSeq(wire, 1 + pos, 1 + pos + (n - pos) - 1) \in Seq(Symbol)
    BY <1>1, <2>1, PartIs
  <2>5. IsPrefix(SubSeq(wire, 1, 1 + pos - 1), SubSeq(wire, 1, 1 + (pos + (n - pos)) - 1))
    BY <2>2, <2>3, <2>4, PrefixIs
  <2> QED BY <2>1, <2>5
<1>4. wire = SubSeq(wire, 1, Len(wire))
  <2>1. 1 \in Nat \ {0} /\ 1 + Len(wire) - 1 = Len(wire) /\ 1 + Len(wire) <= Len(wire) + 1
    BY <1>1
  <2> DEFINE s == SubSeq(wire, 1, 1 + Len(wire) - 1)
  <2>2. s \in Seq(Symbol) /\ Len(s) = Len(wire) /\ \A k \in 1..Len(wire) : s[k] = wire[1 + k - 1]
    BY <1>1, <2>1, PartIs
  <2> HIDE DEF s
  <2>3. \A k \in 1..Len(wire) : s[k] = wire[k]
    <3> TAKE k \in 1..Len(wire)
    <3>1. 1 + k - 1 = k
      BY <1>1
    <3> QED BY <2>2, <3>1
  <2>4. s = wire
    BY <1>1, <2>2, <2>3, SeqEqual
  <2> QED BY <2>1, <2>4 DEF s
<1>5. f # "chunked" => kind = f /\ ~Chunked /\ out = SubSeq(wire, 1, pos)
  BY DEF DecoderInv, AsItIs, Chunked, Framing
<1>6. CASE f = "length"
  <2>1. /\ kind = "length" /\ pos <= Length /\ out = SubSeq(wire, 1, pos) /\ res # "invalid"
        /\ res = "end" => pos = Length
        /\ res = "eof" => pos = Len(wire) /\ pos < Length
    BY <1>5, <1>6 DEF DecoderInv, AsItIs
  <2>2. CASE Length <= Len(wire)
    <3>1. Meant(f) = [out |-> SubSeq(wire, 1, Length), res |-> "end"]
      BY <1>6, <2>2 DEF Meant
    <3>2. Length \in 0..Len(wire) /\ res # "eof"
      BY <1>1, <2>1, <2>2
    <3>3. IsPrefix(out, SubSeq(wire, 1, Length))
      BY <1>3, <2>1, <3>2
    <3>4. res # "none" => res = "end" /\ out = SubSeq(wire, 1, Length)
      BY <1>1, <2>1, <3>2 DEF Ending
    <3>5. Meant(f).out = SubSeq(wire, 1, Length) /\ (res # "none" => [out |-> out, res |-> res] = Meant(f))
      <4> DEFINE whole == SubSeq(wire, 1, Length)
      <4>1. Meant(f) = [out |-> whole, res |-> "end"] /\ (res # "none" => res = "end" /\ out = whole)
        BY <3>1, <3>4
      <4> HIDE DEF whole
      <4>2. Meant(f).out = whole /\ (res # "none" => [out |-> out, res |-> res] = Meant(f))
        BY <4>1
      <4> QED BY <4>2 DEF whole
    <3> QED BY <3>3, <3>5
  <2>3. CASE ~(Length <= Len(wire))
    <3>1. Meant(f) = [out |-> wire, res |-> "eof"]
      BY <1>6, <2>3 DEF Meant
    <3>2. Len(wire) \in 0..Len(wire) /\ pos <= Len(wire) /\ res # "end"
      BY <1>1, <2>1, <2>3
    <3>3. IsPrefix(out, wire)
      BY <1>3, <1>4, <2>1, <3>2
    <3>4. res # "none" => res = "eof" /\ out = wire
      BY <1>1, <1>4, <2>1, <3>2 DEF Ending
    <3>5. Meant(f).out = wire /\ (res # "none" => [out |-> out, res |-> res] = Meant(f))
      BY <3>1, <3>4
    <3> QED BY <3>3, <3>5
  <2> QED BY <2>2, <2>3
<1>7. CASE f = "close"
  <2>1. Meant(f) = [out |-> wire, res |-> "end"]
    BY <1>7 DEF Meant
  <2>2. Len(wire) \in 0..Len(wire) /\ pos <= Len(wire)
    BY <1>1
  <2>3. IsPrefix(out, wire)
    BY <1>3, <1>4, <1>5, <1>7, <2>2
  <2>4. res # "none" => res = "end" /\ pos = Len(wire)
    BY <1>5, <1>7 DEF DecoderInv, AsItIs
  <2> QED BY <1>4, <1>5, <1>7, <2>1, <2>3, <2>4
<1> QED BY <1>2, <1>6, <1>7 DEF Framing

LEMMA OpenIsBody == StreamInv => StreamIsBody
<1> SUFFICES ASSUME StreamInv, phase = "open" PROVE StreamIsBody
  BY DEF StreamIsBody
<1>1. head.framing \in Framing /\ Opens(client, head) /\ kind = Decoder(client, head)
  BY DEF StreamInv, AsAnswered, ResponseHead
<1>2. kind = head.framing \/ (kind = "blocking" /\ head.framing = "chunked")
  BY <1>1 DEF Decoder, HandFramed
<1> QED BY <1>1, <1>2, DeliveredIsMeant DEF StreamInv, StreamIsBody

(* What a refusal is told as.                                              *)
LEMMA RefuseStep ==
  ASSUME StreamInv, Refuse
  PROVE  RefusalIsTold'
<1> DEFINE body == IF client = "async" \/ res = "end" THEN out ELSE <<>>
           busy == head.status = 503 /\ head.busy /\ ~head.discovery
           meant == Meant(head.framing)
<1>1. /\ phase = "refused" /\ told' = Parse_debug(head, body)
      /\ client = "blocking" => res # "none"
      /\ client' = client /\ head' = head /\ wire' = wire /\ out' = out /\ res' = res /\ kind' = kind
      /\ client \in {"blocking", "async"} /\ head \in ResponseHead /\ head.framing \in Framing
      /\ ~Opens(client, head) /\ ~IsDenial /\ kind = Decoder(client, head)
  BY DEF Refuse, Tell, Same_answer, decoderVars, StreamInv, AsAnswered, ResponseHead
<1>3. told' = "probeBusy" => busy
  BY <1>1 DEF Parse_debug, IsDenial
<1>4. told' = "box" /\ busy => body # Json
  BY <1>1 DEF Parse_debug
<1>5. ASSUME body # Json, meant.out = Json, res # "none", Fits(wire),
             client = "blocking" => meant.res = "end" /\ ~HandFramed(head)
      PROVE  FALSE
  <2>1. kind = head.framing
    BY <1>1, <1>5 DEF Decoder
  <2>2. [out |-> out, res |-> res] = meant
    BY <1>1, <1>5, <2>1, DeliveredIsMeant DEF StreamInv
  <2>3. out = meant.out /\ res = meant.res
    BY <2>2
  <2> QED BY <1>1, <1>5, <2>3
<1>6. told' = "box" /\ busy =>
        \/ meant.out # Json \/ res = "none" \/ ~Fits(wire)
        \/ client = "blocking" /\ (meant.res # "end" \/ HandFramed(head))
  BY <1>4, <1>5
<1> HIDE DEF body
<1>7. told' = "probeBusy" => busy'
  BY <1>1, <1>3
<1>8. meant' = meant /\ (Fits(wire))' = Fits(wire)
  BY <1>1 DEF Meant, Fits
<1>9. told' = "box" /\ busy' =>
        \/ meant'.out # Json \/ res' = "none" \/ ~Fits(wire)'
        \/ client' = "blocking" /\ (meant'.res # "end" \/ HandFramed(head'))
  <2>1. busy' = busy
    BY <1>1, Zenon
  <2> HIDE DEF busy, meant
  <2> QED BY <1>1, <1>6, <1>8, <2>1, Zenon
<1> QED BY <1>7, <1>9 DEF RefusalIsTold

LEMMA StreamStep == StreamInv /\ [RttNext]_rttVars => StreamInv'
<1> SUFFICES ASSUME StreamInv, [RttNext]_rttVars PROVE StreamInv'
  OBVIOUS
<1>1. CASE NoAnswer
  <2>1. DecoderInv'
    BY <1>1, DecoderStutter DEF NoAnswer, StreamInv
  <2>2. AsAnswered' /\ told' # "probeBusy" /\ told' # "box"
    BY <1>1 DEF NoAnswer, Tell, Same_answer, decoderVars, StreamInv, AsAnswered
  <2> QED BY <2>1, <2>2 DEF StreamInv, RefusalIsTold
<1>2. CASE Answered
  <2>1. DecoderInv'
    BY <1>2, DecoderStutter DEF Answered, StreamInv
  <2>2. AsAnswered' /\ told' # "probeBusy" /\ told' # "box"
    BY <1>2 DEF Answered, Tell, Same_answer, decoderVars, StreamInv, AsAnswered, IsDenial
  <2> QED BY <2>1, <2>2 DEF StreamInv, RefusalIsTold
<1>3. CASE Read
  <2>1. DecoderInv'
    BY <1>3, DecoderStep DEF Read, StreamInv
  <2>2. kind' = kind
    BY <1>3 DEF Read, Decode, Read_line, Poll_line, Payload, Ended, Same
  <2>3. AsAnswered' /\ told' # "probeBusy" /\ told' # "box"
    BY <1>3, <2>2 DEF Read, Same_answer, StreamInv, AsAnswered, IsDenial
  <2> QED BY <2>1, <2>3 DEF StreamInv, RefusalIsTold
<1>4. CASE Refuse
  <2>1. DecoderInv'
    BY <1>4, DecoderStutter DEF Refuse, StreamInv
  <2>2. AsAnswered'
    <3>1. phase' = "done" /\ UNCHANGED <<client, head, kind>> /\ ~IsDenial /\ phase = "refused"
      <4>1. phase' = "done" /\ UNCHANGED <<client, head>> /\ phase = "refused" /\ UNCHANGED decoderVars
        BY <1>4 DEF Refuse, Tell, Same_answer
      <4>2. UNCHANGED kind
        BY <4>1 DEF decoderVars
      <4> QED BY <4>1, <4>2 DEF StreamInv, AsAnswered
    <3>2. ~IsDenial'
      BY <3>1 DEF IsDenial
    <3> QED BY <3>1, <3>2 DEF StreamInv, AsAnswered
  <2> QED BY <1>4, <2>1, <2>2, RefuseStep DEF StreamInv
<1>5. CASE UNCHANGED rttVars
  <2>1. DecoderInv'
    BY <1>5, DecoderStutter DEF rttVars, StreamInv
  <2>2. AsAnswered'
    BY <1>5 DEF rttVars, decoderVars, StreamInv, AsAnswered, IsDenial
  <2>3. RefusalIsTold'
    <3>1. UNCHANGED <<client, head, wire, res, told>>
      BY <1>5 DEF rttVars, decoderVars
    <3>2. RefusalIsTold' <=> RefusalIsTold
      BY <3>1 DEF RefusalIsTold, Meant, Fits
    <3> QED BY <3>2 DEF StreamInv
  <2> QED BY <2>1, <2>2, <2>3 DEF StreamInv
<1> QED BY <1>1, <1>2, <1>3, <1>4, <1>5 DEF RttNext

(* The decoder keeps the balance of what it has delivered and what is      *)
(* left, and the phase and what is told are those the head decided.        *)
THEOREM StreamInvariance == RttSpec => []StreamInv
<1> QED BY StreamStart, StreamStep, PTL DEF RttSpec

(* Whatever the box sends, wherever it is cut and in whatever pieces it    *)
(* arrives, an open stream is the body that was framed, ended as the       *)
(* format ends it, or refused over a line longer than the limit.           *)
THEOREM StreamIsItsBody == RttSpec => []StreamIsBody
<1> QED BY OpenIsBody, StreamInvariance, PTL

(* A refusal is a busy probe only when it says so, and one that says so is *)
(* missed only when its body did not come whole to this client.            *)
THEOREM RefusalIsTrue == RttSpec => []RefusalIsTold
<1>1. StreamInv => RefusalIsTold
  BY DEF StreamInv
<1> QED BY <1>1, StreamInvariance, PTL
=============================================================================
