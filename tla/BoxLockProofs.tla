---------------------------- MODULE BoxLockProofs ----------------------------
(***************************************************************************)
(* Theorems about BoxLock, for any number of programs, users and calls,    *)
(* also of programs that share a user.                                     *)
(*                                                                         *)
(* A guard and the lock on the box are two things that only messages keep  *)
(* together.  What carries the proofs is what is known of every request    *)
(* under way: it says what its program asked and, as long as all its       *)
(* user's calls were answered, the program still waits for it.             *)
(***************************************************************************)
EXTENDS BoxLock, TLAPS

Program == [pc : {"idle", "call", "dead"}, op : Op \cup {"drop", "none"},
            guard : BOOLEAN, calls : 0..MaxCalls]

(* What a request says of its operation.                                   *)
Sound(m) ==
  /\ m.user = UserOf[m.by]
  /\ m.force <=> m.op = "unlock_force"
  /\ m.ttl <=> m.op = "lock_with"
  /\ m.route = "acquire" <=> m.op \in {"lock_guard", "lock", "lock_with"}
  /\ m.route = "heartbeat" <=> m.op = "heartbeat"

UnderWay ==
  \A m \in net :
    /\ Sound(m)
    /\ m.n <= prog[m.by].calls
    /\ WaitsFor(m) => prog[m.by].op = m.op
    /\ m.user \notin loose => WaitsFor(m) /\ m.op \notin {"lock", "lock_with"}

(* No two requests of a program have a number.                             *)
Numbered == \A m, k \in net : m.by = k.by /\ m.n = k.n => m = k

(* A guard that is being dropped is no guard any more.                     *)
Dropping(p) == prog[p].pc = "call" /\ prog[p].op = "drop"
Dropped == \A p \in Programs : Dropping(p) => ~prog[p].guard

(* A lock of a user all of whose calls were answered has a guard, or one   *)
(* whose release is under way.                                             *)
Keeps(p, u) == UserOf[p] = u /\ (prog[p].guard \/ Dropping(p))
Kept == \A u \in Users \ loose : lock.user = u => \E p \in Programs : Keeps(p, u)

StaleHasTtl == lock.stale => lock.ttl

IInv == TypeOK /\ UnderWay /\ Numbered /\ Dropped /\ Kept /\ StaleHasTtl /\ GuardHolds

-----------------------------------------------------------------------------
LEMMA InitInv == Init => IInv
<1> SUFFICES ASSUME Init PROVE IInv
  OBVIOUS
<1> USE DEF Init
<1>1. Start \in Program
  BY LockAssumption DEF Start, Program
<1>2. TypeOK
  BY <1>1 DEF TypeOK, Program, Free
<1>3. lock.user = None /\ ~lock.stale /\ \A p \in Programs : ~prog[p].guard /\ prog[p].pc = "idle"
  BY DEF Free, Start
<1>4. UnderWay /\ Numbered /\ Dropped /\ Kept /\ StaleHasTtl /\ GuardHolds
  BY <1>3, LockAssumption DEF UnderWay, Numbered, Dropped, Dropping, Kept, StaleHasTtl, GuardHolds
<1> QED BY <1>2, <1>4 DEF IInv

(* A request as Asks makes it.                                             *)
LEMMA AsksIs ==
  ASSUME TypeOK, NEW p \in Programs, NEW op \in Op \cup {"drop"}, prog[p].calls < MaxCalls
  PROVE  /\ Asks(p, op) \in Request /\ Sound(Asks(p, op))
         /\ Asks(p, op).by = p /\ Asks(p, op).op = op
         /\ Asks(p, op).n = prog[p].calls + 1
<1>1. /\ prog[p].calls \in 0..MaxCalls /\ MaxCalls \in Nat /\ UserOf[p] \in Users
      /\ prog[p].calls + 1 \in 1..MaxCalls
  BY LockAssumption DEF TypeOK
<1> DEFINE route == CASE op \in {"lock_guard", "lock", "lock_with"} -> "acquire"
                      [] op = "heartbeat" -> "heartbeat"
                      [] op \in {"unlock", "unlock_force", "drop"} -> "unlock"
<1>2. /\ route \in {"acquire", "heartbeat", "unlock"}
      /\ route = "acquire" <=> op \in {"lock_guard", "lock", "lock_with"}
      /\ route = "heartbeat" <=> op = "heartbeat"
  BY DEF Op
<1>3. Asks(p, op) = [by |-> p, n |-> prog[p].calls + 1, user |-> UserOf[p], op |-> op,
                     ttl |-> op = "lock_with", force |-> op = "unlock_force", route |-> route]
  BY DEF Asks, Wire
<1> HIDE DEF route
<1> DEFINE ttl == op = "lock_with"
           force == op = "unlock_force"
           new == [by |-> p, n |-> prog[p].calls + 1, user |-> UserOf[p], op |-> op,
                   ttl |-> ttl, force |-> force, route |-> route]
<1>4. new \in Request
  <2>1. ttl \in BOOLEAN /\ force \in BOOLEAN
    OBVIOUS
  <2> HIDE DEF ttl, force
  <2> QED BY <1>1, <1>2, <2>1 DEF Request
<1>5. /\ new.by = p /\ new.n = prog[p].calls + 1 /\ new.user = UserOf[p] /\ new.op = op
      /\ new.route = route
  OBVIOUS
<1>6. (new.ttl <=> op = "lock_with") /\ (new.force <=> op = "unlock_force")
  BY Zenon
<1> HIDE DEF new
<1>7. Sound(new)
  BY <1>2, <1>5, <1>6 DEF Sound
<1>8. Asks(p, op) = new
  BY <1>3 DEF new
<1> QED BY <1>4, <1>5, <1>7, <1>8

(* A call begins, and nothing but the program, its request and what is     *)
(* remembered of its user changes.                                         *)
LEMMA SendInv ==
  ASSUME IInv, NEW p \in Programs, NEW op \in Op \cup {"drop"}, NEW guard \in BOOLEAN,
         prog[p].pc = "idle", prog[p].calls < MaxCalls, Send(p, op, guard),
         op = "drop" => ~guard, guard => prog[p].guard,
         prog[p].guard => guard \/ op = "drop",
         UNCHANGED lock, loose' \in SUBSET Users, loose \subseteq loose',
         op \in {"lock", "lock_with"} => UserOf[p] \in loose',
         robbed' \in SUBSET Programs, robbed \ {p} \subseteq robbed',
         guard /\ p \in robbed => p \in robbed'
  PROVE  IInv'
<1> USE DEF IInv
<1> DEFINE new == Asks(p, op)
<1>1. /\ new \in Request /\ Sound(new) /\ new.by = p /\ new.op = op
      /\ new.n = prog[p].calls + 1
  BY AsksIs
<1>2. /\ prog' = [prog EXCEPT ![p].pc = "call", ![p].op = op, ![p].guard = guard,
                              ![p].calls = @ + 1]
      /\ net' = net \cup {new}
  BY DEF Send
<1> HIDE DEF new
<1>3. prog \in [Programs -> Program] /\ prog[p].calls \in 0..MaxCalls /\ MaxCalls \in Nat
  BY LockAssumption DEF TypeOK, Program
<1>4. /\ prog'[p] = [pc |-> "call", op |-> op, guard |-> guard, calls |-> prog[p].calls + 1]
      /\ \A q \in Programs \ {p} : prog'[q] = prog[q]
      /\ prog' \in [Programs -> Program]
  BY <1>2, <1>3 DEF Program
<1>5. TypeOK'
  BY <1>1, <1>2, <1>4 DEF TypeOK, Program
<1>6. UnderWay'
  <2> SUFFICES ASSUME NEW m \in net'
               PROVE  /\ Sound(m)
                      /\ m.n <= prog'[m.by].calls
                      /\ WaitsFor(m)' => prog'[m.by].op = m.op
                      /\ m.user \notin loose' => WaitsFor(m)' /\ m.op \notin {"lock", "lock_with"}
    BY DEF UnderWay, Sound
  <2>1. CASE m = new
    BY <1>1, <1>3, <1>4, <2>1 DEF WaitsFor, Sound
  <2>2. CASE m \in net /\ m.by = p
    <3>1. Sound(m) /\ m.n <= prog[p].calls /\ m.user \in loose /\ m.n \in Nat
      BY <2>2, <1>3 DEF UnderWay, WaitsFor, TypeOK, Request
    <3> QED BY <1>3, <1>4, <2>2, <3>1 DEF WaitsFor
  <2>3. CASE m \in net /\ m.by # p
    <3>1. m.by \in Programs /\ prog'[m.by] = prog[m.by]
      BY <1>4, <2>3 DEF TypeOK, Request
    <3> QED BY <2>3, <3>1 DEF UnderWay, WaitsFor
  <2> QED BY <1>2, <2>1, <2>2, <2>3
<1>a. Numbered'
  <2>1. \A m \in net : m.by = p => m.n # new.n
    BY <1>1, <1>3 DEF UnderWay, TypeOK, Request
  <2> QED BY <1>1, <1>2, <2>1 DEF Numbered
<1>7. Dropped'
  BY <1>4 DEF Dropped, Dropping
<1>8. Kept'
  <2> SUFFICES ASSUME NEW u \in Users \ loose', lock.user = u
               PROVE  \E q \in Programs : Keeps(q, u)'
    BY DEF Kept, Keeps, Dropping
  <2>1. PICK q \in Programs : Keeps(q, u)
    BY DEF Kept
  <2>2. Keeps(q, u)'
    BY <1>4, <2>1 DEF Keeps, Dropping
  <2> QED BY <2>2
<1>9. StaleHasTtl' /\ GuardHolds'
  BY <1>4 DEF StaleHasTtl, GuardHolds
<1> QED BY <1>5, <1>6, <1>a, <1>7, <1>8, <1>9
-----------------------------------------------------------------------------
(* The end of a call.                                                      *)
LEMMA OverIs ==
  ASSUME TypeOK, NEW p \in Programs, NEW ok \in BOOLEAN, Over(p, ok)
  PROVE  /\ prog' \in [Programs -> Program]
         /\ prog'[p].pc = "idle" /\ prog'[p].op = "none" /\ prog'[p].calls = prog[p].calls
         /\ prog'[p].guard <=> prog[p].guard \/ (prog[p].op = "lock_guard" /\ ok)
         /\ \A q \in Programs \ {p} : prog'[q] = prog[q]
<1> DEFINE g == prog[p].guard \/ (prog[p].op = "lock_guard" /\ ok)
<1>1. prog \in [Programs -> Program] /\ g \in BOOLEAN
  BY DEF TypeOK, Program
<1>2. prog' = [prog EXCEPT ![p].pc = "idle", ![p].op = "none", ![p].guard = g]
  BY DEF Over
<1> HIDE DEF g
<1>3. /\ prog' \in [Programs -> Program]
      /\ prog'[p].pc = "idle" /\ prog'[p].op = "none" /\ prog'[p].calls = prog[p].calls
      /\ prog'[p].guard = g
      /\ \A q \in Programs \ {p} : prog'[q] = prog[q]
  BY <1>1, <1>2 DEF Program
<1> QED BY <1>3 DEF g

(* What the box does to the lock for a request.                            *)
LEMMA EffectIs ==
  ASSUME TypeOK, NEW m \in Request
  PROVE  /\ Effect(m) \in [user : Users \cup {None}, ttl : BOOLEAN, stale : BOOLEAN]
         /\ \/ ~Allowed(m) /\ Effect(m) = lock
            \/ /\ m.route = "acquire" /\ lock.user \in {None, m.user}
               /\ Effect(m).user = m.user /\ ~Effect(m).stale
            \/ /\ m.route = "heartbeat" /\ lock.user = m.user
               /\ Effect(m).user = lock.user /\ ~Effect(m).stale
            \/ m.route = "unlock" /\ Allowed(m) /\ Effect(m) = Free
<1>1. /\ lock \in [user : Users \cup {None}, ttl : BOOLEAN, stale : BOOLEAN]
      /\ m.user \in Users /\ m.ttl \in BOOLEAN /\ m.route \in {"acquire", "heartbeat", "unlock"}
  BY DEF TypeOK, Request
<1>2. CASE ~Allowed(m)
  BY <1>1, <1>2 DEF Effect
<1>3. CASE Allowed(m) /\ m.route = "acquire"
  BY <1>1, <1>3 DEF Effect, Allowed
<1>4. CASE Allowed(m) /\ m.route = "heartbeat"
  BY <1>1, <1>4 DEF Effect, Allowed
<1>5. CASE Allowed(m) /\ m.route = "unlock"
  BY <1>1, <1>5 DEF Effect, Free
<1> QED BY <1>1, <1>2, <1>3, <1>4, <1>5

(* A program stops waiting or dies, and with it what is known of its user. *)
LEMMA LooseInv ==
  ASSUME IInv, NEW p \in Programs, UNCHANGED <<lock, robbed>>, net' \subseteq net,
         prog' \in [Programs -> Program], \A q \in Programs \ {p} : prog'[q] = prog[q],
         prog'[p].pc # "call", prog'[p].calls = prog[p].calls,
         prog'[p].guard <=> prog[p].guard,
         loose' = loose \cup {UserOf[p]}
  PROVE  IInv'
<1> USE DEF IInv
<1>1. TypeOK'
  BY LockAssumption DEF TypeOK, Program
<1>2. UnderWay'
  <2> SUFFICES ASSUME NEW m \in net'
               PROVE  /\ Sound(m)
                      /\ m.n <= prog'[m.by].calls
                      /\ WaitsFor(m)' => prog'[m.by].op = m.op
                      /\ m.user \notin loose' => WaitsFor(m)' /\ m.op \notin {"lock", "lock_with"}
    BY DEF UnderWay, Sound
  <2>1. m.by \in Programs /\ Sound(m) /\ m.n <= prog[m.by].calls
    BY DEF UnderWay, TypeOK, Request
  <2>2. CASE m.by = p
    BY <2>1, <2>2 DEF WaitsFor, Sound
  <2>3. CASE m.by # p
    BY <2>1, <2>3 DEF WaitsFor, UnderWay
  <2> QED BY <2>2, <2>3
<1>3. Numbered'
  BY DEF Numbered
<1>4. Dropped' /\ StaleHasTtl' /\ GuardHolds'
  BY DEF Dropped, Dropping, StaleHasTtl, GuardHolds
<1>5. Kept'
  <2> SUFFICES ASSUME NEW u \in Users \ loose', lock.user = u
               PROVE  \E q \in Programs : Keeps(q, u)'
    BY DEF Kept, Keeps, Dropping
  <2>1. PICK q \in Programs : Keeps(q, u)
    BY DEF Kept
  <2>2. Keeps(q, u)'
    BY <2>1 DEF Keeps, Dropping
  <2> QED BY <2>2
<1> QED BY <1>1, <1>2, <1>3, <1>4, <1>5

-----------------------------------------------------------------------------
(* A request is served.                                                    *)
LEMMA ServeGuard ==
  ASSUME IInv, NEW m \in net, Serve(m)
  PROVE  GuardHolds'
<1> USE DEF IInv
<1> SUFFICES ASSUME NEW q \in Programs, prog'[q].guard, q \notin robbed'
             PROVE  lock'.user = UserOf[q]
  BY DEF GuardHolds
<1>1. m \in Request /\ m.by \in Programs /\ Sound(m) /\ lock' = Effect(m)
  BY DEF UnderWay, TypeOK, Request, Serve
<1>2. q \notin robbed
  BY DEF Serve, Robs
<1>3. CASE prog[q].guard
  <2>1. lock.user = UserOf[q] /\ lock.user \in Users /\ lock.user # None /\ lock # Free
    <3>1. lock.user = UserOf[q]
      BY <1>2, <1>3 DEF GuardHolds
    <3>2. UserOf[q] \in Users /\ None \notin Users
      BY LockAssumption
    <3>3. lock = Free => lock.user = None
      BY DEF Free
    <3> QED BY <3>1, <3>2, <3>3, Zenon
  <2>2. lock' # Free
    <3>1. ~(q = m.by /\ m.op = "drop" /\ WaitsFor(m))
      BY <1>3 DEF UnderWay, WaitsFor, Dropped, Dropping
    <3> QED BY <2>1, <3>1 DEF Serve, Robs
  <2> QED BY <1>1, <2>1, <2>2, EffectIs
<1>4. CASE ~prog[q].guard
  <2>1. WaitsFor(m) /\ (Over(m.by, Allowed(m)) \/ Over(m.by, FALSE))
    <3>1. prog' # prog
      BY <1>4
    <3>2. prog' = prog \/ (WaitsFor(m) /\ (Over(m.by, Allowed(m)) \/ Over(m.by, FALSE)))
      BY Zenon DEF Serve, NoAnswer
    <3> QED BY <3>1, <3>2, Zenon
  <2>2. q = m.by /\ prog[q].op = "lock_guard" /\ Allowed(m)
    <3>1. PICK ok \in {Allowed(m), FALSE} : Over(m.by, ok)
      BY <2>1
    <3>2. ok \in BOOLEAN /\ (ok => Allowed(m))
      BY <3>1 DEF Allowed
    <3>3. q = m.by /\ prog[q].op = "lock_guard" /\ ok
      BY <1>1, <1>4, <3>1, <3>2, OverIs
    <3> QED BY <3>2, <3>3
  <2>3. m.route = "acquire" /\ m.user = UserOf[q]
    BY <1>1, <2>1, <2>2 DEF UnderWay, Sound
  <2> QED BY <1>1, <2>2, <2>3, EffectIs
<1> QED BY <1>3, <1>4

LEMMA ServeKept ==
  ASSUME IInv, NEW m \in net, Serve(m)
  PROVE  Kept'
<1> USE DEF IInv
<1> SUFFICES ASSUME NEW u \in Users \ loose', lock'.user = u
             PROVE  \E q \in Programs : Keeps(q, u)'
  BY DEF Kept, Keeps, Dropping
<1>1. /\ m \in Request /\ m.by \in Programs /\ Sound(m) /\ lock' = Effect(m)
      /\ u # None /\ u \notin loose
  BY LockAssumption DEF UnderWay, TypeOK, Request, Serve, NoAnswer
<1>2. CASE lock.user = u
  <2>1. PICK q \in Programs : Keeps(q, u)
    BY <1>1, <1>2 DEF Kept
  <2>2. CASE q = m.by /\ WaitsFor(m)
    <3>1. Over(q, Allowed(m))
      BY <2>1, <2>2 DEF Serve, NoAnswer, Keeps
    <3>2. prog[q].guard
      <4> SUFFICES ASSUME Dropping(q) PROVE FALSE
        BY <2>1 DEF Keeps
      <4>1. m.op = "drop" /\ m.route = "unlock" /\ m.user = u
        BY <1>1, <2>1, <2>2 DEF UnderWay, Dropping, Sound, Keeps, Request
      <4>2. Allowed(m) /\ Effect(m) = Free
        BY <1>1, <1>2, <4>1, EffectIs DEF Allowed
      <4> QED BY <1>1, <4>2 DEF Free
    <3>3. prog'[q].guard
      BY <3>1, <3>2, OverIs DEF Allowed
    <3> QED BY <2>1, <3>3 DEF Keeps
  <2>3. CASE q # m.by \/ ~WaitsFor(m)
    <3>1. prog'[q] = prog[q]
      <4>1. prog' = prog \/ (WaitsFor(m) /\ \E ok \in BOOLEAN : Over(m.by, ok))
        BY DEF Serve, NoAnswer, Allowed
      <4> QED BY <1>1, <2>3, <4>1, OverIs
    <3> QED BY <2>1, <3>1 DEF Keeps, Dropping
  <2> QED BY <2>2, <2>3
<1>3. CASE lock.user # u
  <2>1. m.route = "acquire" /\ m.user = u
    BY <1>1, <1>3, EffectIs DEF Free
  <2>2. WaitsFor(m) /\ m.op = "lock_guard" /\ UserOf[m.by] = u /\ prog[m.by].op = "lock_guard"
    BY <1>1, <2>1 DEF UnderWay, Sound
  <2>3. Over(m.by, Allowed(m)) /\ Allowed(m)
    <3>1. Allowed(m)
      BY <1>1, <1>3, EffectIs DEF Allowed
    <3>2. ~NoAnswer(m.by)
      BY <2>2 DEF NoAnswer
    <3> QED BY <2>2, <3>1, <3>2 DEF Serve
  <2>4. prog'[m.by].guard
    BY <1>1, <2>2, <2>3, OverIs
  <2> QED BY <1>1, <2>2, <2>4 DEF Keeps
<1> QED BY <1>2, <1>3

LEMMA ServeInv ==
  ASSUME IInv, NEW m \in net, Serve(m)
  PROVE  IInv'
<1> USE DEF IInv
<1>1. /\ m \in Request /\ m.by \in Programs /\ UserOf[m.by] \in Users
      /\ lock' = Effect(m) /\ net' = net \ {m}
  BY LockAssumption DEF TypeOK, Request, Serve
<1>2. \/ UNCHANGED prog
      \/ WaitsFor(m) /\ \E ok \in BOOLEAN : Over(m.by, ok)
  BY DEF Serve, NoAnswer, Allowed
<1>3. /\ prog' \in [Programs -> Program]
      /\ \A q \in Programs \ {m.by} : prog'[q] = prog[q]
      /\ prog'[m.by].calls = prog[m.by].calls
      /\ prog'[m.by] = prog[m.by] \/ (WaitsFor(m) /\ prog'[m.by].pc = "idle")
  BY <1>1, <1>2, OverIs DEF TypeOK, Program
<1>4. loose' \in SUBSET Users /\ loose \subseteq loose' /\ robbed' \in SUBSET Programs
  BY <1>1 DEF Serve, NoAnswer, Robs, TypeOK
<1>5. TypeOK'
  BY <1>1, <1>3, <1>4, EffectIs DEF TypeOK, Program
<1>6. UnderWay'
  <2> SUFFICES ASSUME NEW k \in net'
               PROVE  /\ Sound(k)
                      /\ k.n <= prog'[k.by].calls
                      /\ WaitsFor(k)' => prog'[k.by].op = k.op
                      /\ k.user \notin loose' => WaitsFor(k)' /\ k.op \notin {"lock", "lock_with"}
    BY DEF UnderWay, Sound
  <2>1. /\ k.by \in Programs /\ k \in net /\ k # m
        /\ Sound(k) /\ k.n <= prog[k.by].calls
        /\ WaitsFor(k) => prog[k.by].op = k.op
        /\ k.user \notin loose' => WaitsFor(k) /\ k.op \notin {"lock", "lock_with"}
    BY <1>1, <1>4 DEF UnderWay, TypeOK, Request
  <2>2. CASE prog'[k.by] = prog[k.by]
    BY <2>1, <2>2 DEF WaitsFor
  <2>3. CASE prog'[k.by] # prog[k.by]
    <3>1. k.by = m.by /\ WaitsFor(m) /\ prog'[k.by].pc = "idle"
      BY <1>3, <2>1, <2>3
    <3>2. ~WaitsFor(k)
      BY <2>1, <3>1 DEF WaitsFor, Numbered
    <3> QED BY <1>3, <2>1, <3>1, <3>2 DEF WaitsFor
  <2> QED BY <2>2, <2>3
<1>7. Numbered'
  BY <1>1 DEF Numbered
<1>8. Dropped'
  BY <1>3 DEF Dropped, Dropping
<1>9. StaleHasTtl'
  BY <1>1, EffectIs DEF StaleHasTtl, Free
<1> QED BY <1>5, <1>6, <1>7, <1>8, <1>9, ServeGuard, ServeKept

LEMMA NextInv == IInv /\ [Next]_vars => IInv'
<1> SUFFICES ASSUME IInv, [Next]_vars PROVE IInv'
  OBVIOUS
<1>1. ASSUME NEW p \in Programs, Begin(p) PROVE IInv'
  <2>1. PICK op \in OpsOf[p] :
          /\ op = "lock_guard" => ~prog[p].guard
          /\ Send(p, op, prog[p].guard)
          /\ loose' = loose \cup IF op \in {"lock", "lock_with"} THEN {UserOf[p]} ELSE {}
          /\ robbed' = robbed \ IF op = "lock_guard" THEN {p} ELSE {}
    BY <1>1 DEF Begin
  <2>2. /\ op \in Op /\ op # "drop" /\ prog[p].guard \in BOOLEAN /\ UserOf[p] \in Users
        /\ prog[p].pc = "idle" /\ prog[p].calls < MaxCalls
    BY <1>1, LockAssumption DEF Begin, IInv, TypeOK, Op
  <2>3. /\ loose' \in SUBSET Users /\ loose \subseteq loose'
        /\ op \in {"lock", "lock_with"} => UserOf[p] \in loose'
    BY <2>1, <2>2 DEF IInv, TypeOK
  <2>4. /\ robbed' \in SUBSET Programs /\ robbed \ {p} \subseteq robbed'
        /\ prog[p].guard /\ p \in robbed => p \in robbed'
    BY <2>1 DEF IInv, TypeOK
  <2> QED BY <1>1, <2>1, <2>2, <2>3, <2>4, SendInv DEF Begin
<1>2. ASSUME NEW p \in Programs, Release(p) PROVE IInv'
  <2>1. loose \in SUBSET Users /\ robbed \in SUBSET Programs
    BY DEF IInv, TypeOK
  <2> QED BY <1>2, <2>1, SendInv DEF Release
<1>3. ASSUME NEW p \in Programs, GiveUp(p) PROVE IInv'
  <2>1. net' \subseteq net /\ UNCHANGED <<lock, robbed>>
    BY <1>3 DEF GiveUp
  <2>2. Over(p, FALSE) /\ loose' = loose \cup {UserOf[p]}
    BY <1>3 DEF GiveUp, NoAnswer
  <2> QED BY <2>1, <2>2, OverIs, LooseInv DEF IInv
<1>4. ASSUME NEW p \in Programs, Crash(p) PROVE IInv'
  <2>1. /\ prog' \in [Programs -> Program] /\ \A q \in Programs \ {p} : prog'[q] = prog[q]
        /\ prog'[p].pc = "dead" /\ prog'[p].calls = prog[p].calls
        /\ prog'[p].guard = prog[p].guard
    BY <1>4 DEF Crash, IInv, TypeOK, Program
  <2> QED BY <1>4, <2>1, LooseInv DEF Crash
<1>5. ASSUME NEW m \in net, Serve(m) PROVE IInv'
  BY <1>5, ServeInv
<1>6. CASE Tick
  <2>1. /\ lock' \in [user : Users \cup {None}, ttl : BOOLEAN, stale : BOOLEAN]
        /\ lock'.user = lock.user /\ lock'.ttl
    BY <1>6 DEF Tick, IInv, TypeOK
  <2>2. UNCHANGED <<net, prog, loose, robbed>>
    BY <1>6 DEF Tick
  <2> QED BY <2>1, <2>2 DEF IInv, TypeOK, UnderWay, WaitsFor, Numbered, Dropped, Dropping,
                            Kept, Keeps, StaleHasTtl, GuardHolds
<1>7. CASE Expire
  <2>1. /\ lock' \in [user : Users \cup {None}, ttl : BOOLEAN, stale : BOOLEAN]
        /\ lock'.user = None /\ ~lock'.stale
    BY <1>7 DEF Expire, Free
  <2>2. UNCHANGED <<net, prog, loose>> /\ robbed' \in SUBSET Programs
    BY <1>7 DEF Expire, Robs, IInv, TypeOK
  <2>3. TypeOK' /\ UnderWay' /\ Numbered' /\ Dropped' /\ StaleHasTtl'
    BY <2>1, <2>2 DEF IInv, TypeOK, UnderWay, WaitsFor, Numbered, Dropped, Dropping, StaleHasTtl
  <2>4. Kept'
    BY <2>1, <2>2, LockAssumption DEF IInv, Kept
  <2>5. GuardHolds'
    <3> SUFFICES ASSUME NEW q \in Programs, prog[q].guard, q \notin robbed' PROVE FALSE
      BY <2>2 DEF GuardHolds
    <3>1. lock.user = UserOf[q] /\ UserOf[q] # None
      BY <1>7, LockAssumption DEF Expire, Robs, IInv, GuardHolds
    <3> QED BY <1>7, <3>1 DEF Expire, Robs, Free
  <2> QED BY <2>3, <2>4, <2>5 DEF IInv
<1>8. CASE UNCHANGED vars
  BY <1>8 DEF vars, IInv, TypeOK, UnderWay, WaitsFor, Numbered, Dropped, Dropping,
              Kept, Keeps, StaleHasTtl, GuardHolds
<1> QED
  BY <1>1, <1>2, <1>3, <1>4, <1>5, <1>6, <1>7, <1>8 DEF Next

LEMMA Invariant == Spec => []IInv
  BY InitInv, NextInv, PTL DEF Spec

(* Locks, requests and programs stay what their types say.                 *)
THEOREM TypeCorrect == Spec => []TypeOK
<1>1. IInv => TypeOK
  BY DEF IInv
<1> QED BY <1>1, Invariant, PTL

(* While a guard lives the box is locked for its user, whatever else its   *)
(* program and others do, unless one of the named ways took it.            *)
THEOREM GuardIsLock == Spec => []GuardHolds
<1>1. IInv => GuardHolds
  BY DEF IInv
<1> QED BY <1>1, Invariant, PTL

(* Users that lock by guards only, and all of whose calls were answered,   *)
(* leave nothing locked, also when several of their programs overlap.      *)
THEOREM NothingIsLeft == Spec => []NothingLeft
<1>1. IInv => NothingLeft
  BY DEF IInv, Kept, Keeps, Dropping, NothingLeft
<1> QED BY <1>1, Invariant, PTL

(* No step takes a claim from a user but a call of that user, a forced     *)
(* unlock, or the end of its TTL.                                          *)
THEOREM ClaimsStand == Spec => NeverTaken
<1> DEFINE Stands == lock.user # None /\ lock'.user # lock.user
                       => \/ lock.ttl /\ lock.stale
                          \/ \E m \in net \ net' : UserOf[m.by] = lock.user \/ m.op = "unlock_force"
<1>1. IInv /\ [Next]_vars => Stands
  <2> SUFFICES ASSUME IInv, [Next]_vars, lock.user # None, lock'.user # lock.user
               PROVE  \/ lock.ttl /\ lock.stale
                      \/ \E m \in net \ net' : UserOf[m.by] = lock.user \/ m.op = "unlock_force"
    OBVIOUS
  <2>1. lock' # lock
    OBVIOUS
  <2>2. (\E m \in net : Serve(m)) \/ Tick \/ Expire
    BY <2>1 DEF Next, vars, Begin, Release, GiveUp, Crash
  <2>3. ASSUME NEW m \in net, Serve(m) PROVE Stands
    <3>1. m \in Request /\ Sound(m) /\ lock' = Effect(m) /\ m \in net \ net'
      BY <2>3 DEF IInv, TypeOK, UnderWay, Serve
    <3>2. m.user = lock.user \/ m.force
      BY <3>1, EffectIs DEF Allowed, IInv
    <3>3. UserOf[m.by] = lock.user \/ m.op = "unlock_force"
      BY <3>1, <3>2 DEF Sound
    <3> QED BY <3>1, <3>3
  <2>4. ~Tick
    BY DEF Tick, IInv, TypeOK
  <2>5. CASE Expire
    BY <2>5 DEF Expire, IInv, StaleHasTtl
  <2> QED BY <2>2, <2>3, <2>4, <2>5
<1> QED BY <1>1, Invariant, PTL DEF Spec, NeverTaken
=============================================================================
