------------------------------- MODULE BoxLock -------------------------------
(***************************************************************************)
(* The box lock: LagerBox::lock, lock_with, lock_heartbeat, unlock,        *)
(* unlock_force and lock_guard (src/src/client.rs), whose async twins are  *)
(* in src/src/async_client.rs (no guard there).                            *)
(*                                                                         *)
(* A program has at most one guard and one call at a time.  The box is     *)
(* modelled from what the client's docs and tests say of its four routes.  *)
(* A request is lost or served at any time; a client that has given up on  *)
(* its request does not take it back.                                      *)
(***************************************************************************)
EXTENDS Naturals, FiniteSets

CONSTANTS
  Programs, \* the programs that use the box
  Users,    \* the names they lock it under
  UserOf,   \* the name of each
  OpsOf,    \* the calls each makes
  MaxCalls, \* bound: calls of one program
  Events,   \* what happens besides: see below
  None

(* lost: a request or its answer is lost; late: a request the client gave  *)
(* up on is served afterwards; crash: a program dies; tick: time passes.   *)
Event == {"lost", "late", "crash", "tick"}
Op == {"lock_guard", "lock", "lock_with", "heartbeat", "unlock", "unlock_force"}

ASSUME LockAssumption ==
  /\ UserOf \in [Programs -> Users] /\ None \notin Users
  /\ OpsOf \in [Programs -> SUBSET Op] /\ Events \subseteq Event /\ MaxCalls \in Nat

VARIABLES
  lock,   \* the box's lock
  net,    \* requests under way
  prog,   \* the programs
  loose,  \* history: users with a call that was not answered, a program that died, or
          \* a claim made without a guard
  robbed  \* history: programs whose user lost the lock, since they last asked for a guard,
          \* but by the drop of their own guard, waited for

vars == <<lock, net, prog, loose, robbed>>

Free == [user |-> None, ttl |-> FALSE, stale |-> FALSE]

(* pc: idle, call (op says which), dead.  guard: a BoxLockGuard is alive.  *)
(* calls counts a program's requests and names the one it waits for.       *)
Start == [pc |-> "idle", op |-> "none", guard |-> FALSE, calls |-> 0]

Request ==
  [by : Programs, n : 1..MaxCalls, user : Users, op : Op \cup {"drop"},
   route : {"acquire", "heartbeat", "unlock"}, ttl : BOOLEAN, force : BOOLEAN]

TypeOK ==
  /\ lock \in [user : Users \cup {None}, ttl : BOOLEAN, stale : BOOLEAN]
  /\ net \subseteq Request
  /\ prog \in [Programs -> [pc : {"idle", "call", "dead"}, op : Op \cup {"drop", "none"},
                            guard : BOOLEAN, calls : 0..MaxCalls]]
  /\ loose \subseteq Users /\ robbed \subseteq Programs

-----------------------------------------------------------------------------
(* The client.                                                             *)

Wire(p, op, user, ttl, force) ==
  [by |-> p, n |-> prog[p].calls + 1, user |-> user, op |-> op, ttl |-> ttl, force |-> force,
   route |-> CASE op \in {"lock_guard", "lock", "lock_with"} -> "acquire"
               [] op = "heartbeat" -> "heartbeat"
               [] op \in {"unlock", "unlock_force", "drop"} -> "unlock"]

(* Mutants: every release is forced; lock_with leaves its TTL out.         *)
Asks_Forced(p, op) ==
  Wire(p, op, UserOf[p], op = "lock_with", op \in {"unlock", "unlock_force", "drop"})
Asks_Eternal(p, op) == Wire(p, op, UserOf[p], FALSE, op = "unlock_force")

(* The request of an operation: lock and lock_guard claim the box for      *)
(* good, lock_with (here always with a TTL) until its heartbeats stop.     *)
Asks(p, op) == Wire(p, op, UserOf[p], op = "lock_with", op = "unlock_force")

Send(p, op, guard) ==
  /\ prog' = [prog EXCEPT ![p].pc = "call", ![p].op = op, ![p].guard = guard,
                          ![p].calls = @ + 1]
  /\ net' = net \cup {Asks(p, op)}

(* A call begins.  (MaxCalls leaves room for the release of a guard.)      *)
Begin(p) ==
  /\ prog[p].pc = "idle" /\ prog[p].calls + 1 < MaxCalls
  /\ \E op \in OpsOf[p] :
       /\ op = "lock_guard" => ~prog[p].guard
       /\ Send(p, op, prog[p].guard)
       /\ loose' = loose \cup IF op \in {"lock", "lock_with"} THEN {UserOf[p]} ELSE {}
       /\ robbed' = robbed \ IF op = "lock_guard" THEN {p} ELSE {}
  /\ UNCHANGED lock

(* Mutant: the guard is marked released and its request forgotten.         *)
Release_Unsent(p) ==
  /\ prog[p].pc = "idle" /\ prog[p].guard /\ prog[p].calls < MaxCalls
  /\ prog' = [prog EXCEPT ![p].guard = FALSE]
  /\ UNCHANGED <<lock, net, loose, robbed>>

(* BoxLockGuard::unlock, or the guard is dropped: either way the guard is  *)
(* gone before the request is sent, and whatever comes of it.              *)
Release(p) ==
  /\ prog[p].pc = "idle" /\ prog[p].guard /\ prog[p].calls < MaxCalls
  /\ Send(p, "drop", FALSE)
  /\ UNCHANGED <<lock, loose, robbed>>

(* Mutant: lock_guard does not look at the answer.                         *)
Over_AnyAnswer(p, ok) ==
  prog' = [prog EXCEPT ![p].pc = "idle", ![p].op = "none",
                       ![p].guard = @ \/ prog[p].op = "lock_guard"]

(* The call is over, well or in an error: lock_guard makes its guard only  *)
(* when lock went well.                                                    *)
Over(p, ok) ==
  prog' = [prog EXCEPT ![p].pc = "idle", ![p].op = "none",
                       ![p].guard = @ \/ (prog[p].op = "lock_guard" /\ ok)]

WaitsFor(m) == prog[m.by].pc = "call" /\ prog[m.by].calls = m.n
NoAnswer(p) == Over(p, FALSE) /\ loose' = loose \cup {UserOf[p]}

(* The call times out or its connection breaks: its request is gone, or    *)
(* still under way.                                                        *)
GiveUp(p) ==
  /\ "lost" \in Events
  /\ prog[p].pc = "call" /\ NoAnswer(p)
  /\ \/ net' = {m \in net : ~(m.by = p /\ m.n = prog[p].calls)}
     \/ "late" \in Events /\ UNCHANGED net
  /\ UNCHANGED <<lock, robbed>>

Crash(p) ==
  /\ "crash" \in Events
  /\ prog[p].pc # "dead"
  /\ prog' = [prog EXCEPT ![p].pc = "dead"]
  /\ loose' = loose \cup {UserOf[p]}
  /\ UNCHANGED <<lock, net, robbed>>

-----------------------------------------------------------------------------
(* The box (external).                                                     *)

(* Everyone may do what they ask except with another's lock.               *)
Allowed(m) ==
  \/ lock.user = m.user
  \/ lock.user = None /\ m.route # "heartbeat"
  \/ m.route = "unlock" /\ m.force

Effect(m) ==
  IF ~Allowed(m) THEN lock
  ELSE CASE m.route = "acquire"   -> [user |-> m.user, ttl |-> m.ttl, stale |-> FALSE]
         [] m.route = "heartbeat" -> [lock EXCEPT !.stale = FALSE]
         [] m.route = "unlock"    -> Free

Robs(all) ==
  robbed' = robbed \cup IF lock # Free /\ lock' = Free
                         THEN {p \in all : UserOf[p] = lock.user} ELSE {}

(* A request is served.  Its answer may be lost; nobody may be waiting.    *)
Serve(m) ==
  /\ net' = net \ {m} /\ lock' = Effect(m)
  /\ Robs(IF m.op = "drop" /\ WaitsFor(m) THEN Programs \ {m.by} ELSE Programs)
  /\ \/ WaitsFor(m) /\ Over(m.by, Allowed(m)) /\ UNCHANGED loose
     \/ WaitsFor(m) /\ "lost" \in Events /\ NoAnswer(m.by)
     \/ ~WaitsFor(m) /\ UNCHANGED <<prog, loose>>

(* No heartbeat for a while; none for the lock's TTL.                      *)
Tick ==
  /\ "tick" \in Events /\ lock.ttl /\ ~lock.stale
  /\ lock' = [lock EXCEPT !.stale = TRUE]
  /\ UNCHANGED <<net, prog, loose, robbed>>
Expire == lock.stale /\ lock' = Free /\ Robs(Programs) /\ UNCHANGED <<net, prog, loose>>

-----------------------------------------------------------------------------
Init ==
  /\ lock = Free /\ net = {} /\ loose = {} /\ robbed = {}
  /\ prog = [p \in Programs |-> Start]

Next ==
  \/ \E p \in Programs : Begin(p) \/ Release(p) \/ GiveUp(p) \/ Crash(p)
  \/ \E m \in net : Serve(m)
  \/ Tick \/ Expire

Spec == Init /\ [][Next]_vars

(* The box serves what reaches it and lets time pass.                      *)
FairSpec == Spec /\ WF_vars(\E m \in net : Serve(m)) /\ WF_vars(Tick) /\ WF_vars(Expire)

-----------------------------------------------------------------------------
(* PROPERTIES *)

(* BoxLockGuard::user, "the user holding this claim": while a guard lives, *)
(* the box is locked for its user.  Only an unlock of that name, also by a *)
(* guard of another program, a forced one, a release served after its      *)
(* program gave up on it, and the end of a TTL take the lock from under a  *)
(* guard.                                                                  *)
GuardHolds ==
  \A p \in Programs : prog[p].guard /\ p \notin robbed => lock.user = UserOf[p]

(* "Claim the box for `user` and release the claim when the returned guard *)
(* drops": a user whose programs lock by guards only and whose calls were  *)
(* all answered leaves nothing locked behind.                              *)
NothingLeft ==
  \A u \in Users \ loose :
    lock.user = u => \E p \in Programs : UserOf[p] = u /\ (prog[p].guard \/ prog[p].pc = "call")

(* "A box held by someone else fails with Error::Box": a claim ends by a   *)
(* call of its own user, by unlock_force, or because its TTL ran out, and  *)
(* never by a guard or an unlock of another user.                          *)
NeverTaken ==
  [][lock.user # None /\ lock'.user # lock.user
       => \/ lock.ttl /\ lock.stale
          \/ \E m \in net \ net' : UserOf[m.by] = lock.user \/ m.op = "unlock_force"]_vars

(* "Locks with a TTL auto-expire when heartbeats stop, so a crashed CI     *)
(* runner cannot wedge the box": a user that locks with a TTL only and     *)
(* none of whose programs is alive does not keep the box.                  *)
NotWedged ==
  \A u \in Users :
    (\A p \in Programs : UserOf[p] = u =>
       prog[p].pc = "dead" /\ OpsOf[p] \cap {"lock", "lock_guard"} = {})
      ~> lock.user # u
=============================================================================
