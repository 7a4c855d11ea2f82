-------------------------- MODULE DebugRecordCache --------------------------
(***************************************************************************)
(* The record cache of DebugNet and AsyncDebugNet (src/src/nets/debug.rs). *)
(*                                                                         *)
(* Clones of a handle share one cached copy of the net's saved record.  An *)
(* operation sends the record it finds there, or fetches it first, and a   *)
(* failure empties the cache.  The lock is held for a read or a write of   *)
(* the cache only, so operations of different clones interleave.  A record *)
(* is its version; people re-save the net on the box meanwhile.            *)
(***************************************************************************)
EXTENDS Naturals, FiniteSets

CONSTANTS
  Callers,   \* threads or tasks, each with a clone of the handle
  Ops,       \* the kinds of operation they use
  Async,     \* TRUE: AsyncDebugNet, whose futures can be dropped
  MaxSaves   \* bound: how often the net is re-saved

(* plain: connect, reset, erase ...; gated: asks for a feature first;      *)
(* flash: reports failure in an answer of status 200; stream: rtt.         *)
Kind == {"plain", "gated", "flash", "stream"}

ASSUME CallersAssumption == IsFiniteSet(Callers) /\ Callers # {}
ASSUME OpsAssumption == Ops \subseteq Kind /\ Async \in BOOLEAN /\ MaxSaves \in Nat \ {0}

VARIABLES
  saved,  \* version of the record on the box
  cache,  \* version in the shared cache, 0 when empty
  call,   \* [Callers -> record]: the operation in progress
  seen,   \* [Callers -> version]: history, what was saved when it last failed
  fails   \* [Callers -> Nat]: history, failures of a stale record since the
          \* last save, operations other than stream

vars == <<saved, cache, call, seen, fails>>

Version == 1..MaxSaves
Enough == Cardinality(Callers) + 1   \* bound: fails is not counted further
Step == {"idle", "gate", "record", "fetch", "put", "call", "clear"}
Call == [pc : Step, op : Kind \cup {"none"}, rec : 0..MaxSaves]
Idle == [pc |-> "idle", op |-> "none", rec |-> 0]

TypeOK ==
  /\ saved \in Version
  /\ cache \in 0..saved
  /\ call \in [Callers -> Call]
  /\ seen \in [Callers -> 0..MaxSaves]
  /\ fails \in [Callers -> 0..Enough]
  /\ \A p \in Callers : /\ call[p].rec <= saved /\ seen[p] <= saved
                        /\ call[p].pc \in {"put", "call"} => call[p].rec # 0

Update(p, c) == call' = [call EXCEPT ![p] = c]

-----------------------------------------------------------------------------
(* An operation begins; the gated ones ask /health for their feature.      *)
Begin(p) ==
  /\ call[p].pc = "idle"
  /\ \E op \in Ops :
       Update(p, [Idle EXCEPT !.op = op,
                              !.pc = IF op = "gated" THEN "gate" ELSE "record"])
  /\ UNCHANGED <<saved, cache, seen, fails>>

(* require_debug_feature: served, or the operation ends before the record. *)
Gate(p) ==
  /\ call[p].pc = "gate"
  /\ \/ Update(p, [call[p] EXCEPT !.pc = "record"])
     \/ Update(p, Idle)
  /\ UNCHANGED <<saved, cache, seen, fails>>

(* Mutant: what is in the cache is used, a record or not.                  *)
NetRecord_Blind(p) ==
  /\ call[p].pc = "record"
  /\ Update(p, [call[p] EXCEPT !.pc = "call", !.rec = cache])
  /\ UNCHANGED <<saved, cache, seen, fails>>

(* net_record, first half: under the lock, is there a record?              *)
NetRecord(p) ==
  /\ call[p].pc = "record"
  /\ Update(p, IF cache # 0 THEN [call[p] EXCEPT !.pc = "call", !.rec = cache]
                            ELSE [call[p] EXCEPT !.pc = "fetch"])
  /\ UNCHANGED <<saved, cache, seen, fails>>

(* debug_net_record: the box lists its nets, or cannot, or has no such net.*)
NetsList(p) ==
  /\ call[p].pc = "fetch"
  /\ \/ Update(p, [call[p] EXCEPT !.pc = "put", !.rec = saved])
     \/ Update(p, Idle)
  /\ UNCHANGED <<saved, cache, seen, fails>>

(* net_record, second half: under the lock again, keep what was fetched.   *)
Put(p) ==
  /\ call[p].pc = "put"
  /\ cache' = call[p].rec
  /\ Update(p, [call[p] EXCEPT !.pc = "call"])
  /\ UNCHANGED <<saved, seen, fails>>

Count(n) == IF n < Enough THEN n + 1 ELSE n

(* Mutant: a failure report with status 200 does not empty the cache.      *)
Invalidates_NotFlash(op) == op \notin {"stream", "flash"}
(* Which failures empty the cache: those of call, and a failed flash.  The *)
(* stream is opened without call.                                          *)
Invalidates(op) == op # "stream"

(* The box refuses: a status >= 400, a failed flash, or a lost connection. *)
Fail(p) ==
  LET c == call[p] IN
  /\ c.pc = "call"
  /\ Update(p, IF Invalidates(c.op) THEN [c EXCEPT !.pc = "clear"] ELSE Idle)
  /\ seen' = [seen EXCEPT ![p] = saved]
  /\ fails' = IF c.rec < saved /\ c.op # "stream"
                THEN [fails EXCEPT ![p] = Count(@)] ELSE fails
  /\ UNCHANGED <<saved, cache>>

(* call: a result was an error, the record is dropped.                     *)
Clear(p) ==
  /\ call[p].pc = "clear"
  /\ cache' = 0
  /\ Update(p, Idle)
  /\ UNCHANGED <<saved, seen, fails>>

(* The box accepts the record, a stale one too when its probe still fits;  *)
(* an answer that does not decode ends here as well.                       *)
Succeed(p) ==
  /\ call[p].pc = "call"
  /\ Update(p, Idle)
  /\ UNCHANGED <<saved, cache, seen, fails>>

(* A future is dropped where it waits for the box.                         *)
Cancel(p) ==
  /\ Async /\ call[p].pc \in {"gate", "fetch", "call"}
  /\ Update(p, Idle)
  /\ UNCHANGED <<saved, cache, seen, fails>>

(* Somebody re-saves the net.                                              *)
Save ==
  /\ saved < MaxSaves
  /\ saved' = saved + 1
  /\ fails' = [p \in Callers |-> 0]
  /\ UNCHANGED <<cache, call, seen>>

-----------------------------------------------------------------------------
Init ==
  /\ saved = 1 /\ cache = 0
  /\ call = [p \in Callers |-> Idle]
  /\ seen = [p \in Callers |-> 0]
  /\ fails = [p \in Callers |-> 0]

Next ==
  \/ \E p \in Callers :
       \/ Begin(p) \/ Gate(p) \/ NetRecord(p) \/ NetsList(p) \/ Put(p)
       \/ Fail(p) \/ Clear(p) \/ Succeed(p) \/ Cancel(p)
  \/ Save

Spec == Init /\ [][Next]_vars

-----------------------------------------------------------------------------
(* PROPERTIES *)

(* "The cache is invalidated when an operation fails, so a re-saved net    *)
(* record is picked up on retry" (debug.rs, DebugNet): after an operation  *)
(* failed, the same caller never again sends a record older than the one   *)
(* that was saved then.                                                    *)
RetryIsFresh ==
  \A p \in Callers : call[p].pc = "call" => call[p].rec >= seen[p]

(* What clones that race can count on: each of them meets, after a save,   *)
(* at most as many failures of the old record as there are clones -- its   *)
(* own, and one for every other clone whose fetch was under way and wrote  *)
(* the old record back.                                                    *)
StaleIsBounded == \A p \in Callers : fails[p] <= Cardinality(Callers)
=============================================================================
