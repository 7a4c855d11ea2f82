-------------------------- MODULE GatewayAuthProofs --------------------------
(***************************************************************************)
(* Theorems about GatewayAuth, and BearerToken on top of it, for any       *)
(* number of callers, clients, auth servers and tokens and any events of   *)
(* the environment.                                                        *)
(*                                                                         *)
(* The invariant is a conjunction over the places a token can be in: the   *)
(* store, a snapshot about to be saved, a client's cache, a call.  All of  *)
(* them hold issued tokens only, stores file tokens under their issuer,    *)
(* and a call that has chosen its second credential has chosen well: one   *)
(* of the right server, and not the rejected one if the choice was the     *)
(* client's.                                                               *)
(***************************************************************************)
EXTENDS BearerToken, TLAPS

(* A token anyone holds has been issued.                                   *)
Held(t, n) == t \in Token => t.gen <= n

StoreOK(st, n) ==
  /\ st \in Store
  /\ FiledIn(st)
  /\ \A s \in Servers : Held(st.auth[s].tok, n)

(* The points of a call from which the next request sends c.tok.           *)
Choosing(c) ==
  \/ c.pc \in {"merge", "cache"}
  \/ c.pc \in {"open", "write"} /\ c.then = "cache"
  \/ c.pc = "send" /\ c.sends = 1

(* The points of a call that has been denied and records by whom.          *)
Learning(c) ==
  \/ c.pc \in {"learn", "record"}
  \/ c.pc \in {"open", "write"} /\ c.then = "decide"

CallOK(c, n) ==
  /\ c \in Call
  /\ StoreOK(c.snap, n) /\ Held(c.tok, n) /\ Held(c.first, n)
  /\ c.pc \in {"resolve", "refresh", "merge", "open", "write", "cache", "learn", "record"}
       => c.url \in Servers
  /\ Learning(c) => c.sends # 0
  /\ c.sends = 2 => Learning(c)
  /\ c.pc = "lookup" => c.sends = 0
  /\ Choosing(c) => /\ c.tok \in Token
                    /\ c.tok.srv = c.url
                    /\ c.sends = 1 /\ FromStore(c) => c.tok # c.first

IInv ==
  /\ TypeOK
  /\ StoreOK(store, issued)
  /\ \A c \in Clients : Held(mem[c].tok, issued)
  /\ \A p \in Callers : CallOK(call[p], issued)

-----------------------------------------------------------------------------
(* Overwriting one field of a call with a value of its type: one lemma a   *)
(* field, for the leaves that change several to cite only those.           *)
LEMMA StepUpdate ==
  ASSUME NEW c \in Call, NEW v \in Step PROVE [c EXCEPT !.pc = v] \in Call
  BY DEF Call

LEMMA TokUpdate ==
  ASSUME NEW c \in Call, NEW v \in MaybeToken PROVE [c EXCEPT !.tok = v] \in Call
  BY DEF Call

LEMMA UrlUpdate ==
  ASSUME NEW c \in Call, NEW v \in MaybeServer PROVE [c EXCEPT !.url = v] \in Call
  BY DEF Call

LEMMA EntUpdate ==
  ASSUME NEW c \in Call, NEW v \in Entry PROVE [c EXCEPT !.ent = v] \in Call
  BY DEF Call

LEMMA CookieUpdate ==
  ASSUME NEW c \in Call, NEW v \in 0..MaxGen PROVE [c EXCEPT !.setCookie = v] \in Call
  BY DEF Call

LEMMA SnapUpdate ==
  ASSUME NEW c \in Call, NEW v \in Store PROVE [c EXCEPT !.snap = v] \in Call
  BY DEF Call

LEMMA ThenUpdate ==
  ASSUME NEW c \in Call, NEW v \in {"cache", "decide"} PROVE [c EXCEPT !.then = v] \in Call
  BY DEF Call

(* The empty store and a call not begun, or just finished, satisfy it.     *)
LEMMA EmptyStoreOK == ASSUME NEW n \in Nat PROVE StoreOK(EmptyStore, n)
<1>1. NoEntry \in Entry
  BY BoundAssumption DEF NoEntry, Entry
<1>2. EmptyStore \in Store
  BY <1>1 DEF EmptyStore, Store, MaybeServer
<1>3. \A s \in Servers : EmptyStore.auth[s].tok = None
  BY DEF EmptyStore, NoEntry
<1>4. None \notin Token
  BY NoneAssumption
<1> QED
  BY <1>2, <1>3, <1>4 DEF StoreOK, FiledIn, Held

LEMMA NewCallOK == ASSUME NEW n \in Nat PROVE CallOK(NewCall, n)
<1>1. NewCall \in Call
  BY EmptyStoreOK, BoundAssumption DEF NewCall, Call, NoEntry, Entry, StoreOK,
     MaybeServer, MaybeToken, Step, Result
<1>2. None \notin Token
  BY NoneAssumption
<1> QED
  BY <1>1, <1>2, EmptyStoreOK DEF NewCall, CallOK, Choosing, Learning, Held

LEMMA FinishedOK ==
  ASSUME NEW n \in Nat, NEW res \in Result
  PROVE  CallOK(Finished(res), n)
<1>1. CallOK(NewCall, n)
  BY NewCallOK
<1> QED
  BY <1>1 DEF Finished, CallOK, Call, Choosing, Learning, NewCall, Step

LEMMA DenialOK ==
  ASSUME NEW n \in Nat, NEW status
  PROVE  CallOK(Denial(status), n)
BY FinishedOK DEF Denial, Result

(* Issuing more tokens invalidates nothing.                                *)
LEMMA CallMonotone ==
  ASSUME NEW n \in Nat, NEW k \in Nat, n <= k, NEW c, CallOK(c, n)
  PROVE  CallOK(c, k)
BY DEF CallOK, StoreOK, Held, Token, Choosing

LEMMA UnresolvedOK ==
  ASSUME NEW n \in Nat, NEW c, CallOK(c, n), c.pc \in {"resolve", "refresh"}
  PROVE  CallOK(Unresolved(c), n)
<1>1. CASE c.sends = 0
  <2>1. Unresolved(c) = [c EXCEPT !.pc = "send", !.tok = None]
    BY <1>1 DEF Unresolved
  <2>2. None \notin Token
    BY NoneAssumption
  <2>3. Unresolved(c) \in Call
    <3>1. [c EXCEPT !.pc = "send"] \in Call
      BY StepUpdate DEF Step, CallOK
    <3>2. [[c EXCEPT !.pc = "send"] EXCEPT !.tok = None] \in Call
      BY <3>1, TokUpdate DEF MaybeToken
    <3> QED
      BY <2>1, <3>2
  <2>4. /\ Unresolved(c).pc = "send" /\ Unresolved(c).tok = None
        /\ Unresolved(c).first = c.first /\ Unresolved(c).sends = 0
        /\ Unresolved(c).snap = c.snap
    BY <1>1, <2>1 DEF CallOK, Call
  <2> QED
    BY <2>2, <2>3, <2>4 DEF CallOK, Held, Choosing, Learning
<1>2. CASE c.sends # 0
  BY <1>2, DenialOK DEF Unresolved, CallOK, Call
<1> QED
  BY <1>1, <1>2

LEMMA AfterLearnOK ==
  ASSUME NEW n \in Nat, NEW p \in Callers, NEW c, CallOK(c, n), c.url \in Servers
  PROVE  CallOK(AfterLearn(p, c), n)
<1>1. CASE c.status = 401 /\ c.sends = 1 /\ ClientOf[p] \notin Pinned
  <2> DEFINE d == AfterLearn(p, c)
  <2>1. d = [c EXCEPT !.pc = "resolve", !.snap = EmptyStore]
    BY <1>1 DEF AfterLearn
  <2>2. StoreOK(EmptyStore, n) /\ EmptyStore \in Store
    BY EmptyStoreOK DEF StoreOK
  <2>3. d \in Call
    <3>1. [c EXCEPT !.pc = "resolve"] \in Call
      BY StepUpdate DEF Step, CallOK
    <3>2. [[c EXCEPT !.pc = "resolve"] EXCEPT !.snap = EmptyStore] \in Call
      BY <2>2, <3>1, SnapUpdate
    <3> QED
      BY <2>1, <3>2
  <2>4. /\ d.pc = "resolve" /\ d.snap = EmptyStore /\ d.sends = c.sends
        /\ d.tok = c.tok /\ d.first = c.first /\ d.url = c.url
    BY <2>1 DEF CallOK, Call
  <2> HIDE DEF d
  <2>5. CallOK(d, n)
    BY <1>1, <2>2, <2>3, <2>4 DEF CallOK, Choosing, Learning
  <2> QED
    BY <2>5 DEF d
<1>2. CASE ~(c.status = 401 /\ c.sends = 1 /\ ClientOf[p] \notin Pinned)
  BY <1>2, DenialOK DEF AfterLearn, CallOK, Call
<1> QED
  BY <1>1, <1>2

LEMMA AfterSaveOK ==
  ASSUME NEW n \in Nat, NEW p \in Callers, NEW c, CallOK(c, n),
         c.pc \in {"open", "write"}
  PROVE  CallOK(AfterSave(p, c), n)
<1>1. CASE c.then = "cache"
  <2> DEFINE d == AfterSave(p, c)
  <2>1. d = [c EXCEPT !.pc = "cache", !.snap = EmptyStore]
    BY <1>1 DEF AfterSave
  <2>2. StoreOK(EmptyStore, n) /\ EmptyStore \in Store
    BY EmptyStoreOK DEF StoreOK
  <2>3. d \in Call
    <3>1. [c EXCEPT !.pc = "cache"] \in Call
      BY StepUpdate DEF Step, CallOK
    <3>2. [[c EXCEPT !.pc = "cache"] EXCEPT !.snap = EmptyStore] \in Call
      BY <2>2, <3>1, SnapUpdate
    <3> QED
      BY <2>1, <3>2
  <2>4. /\ d.pc = "cache" /\ d.snap = EmptyStore /\ d.sends = c.sends
        /\ d.tok = c.tok /\ d.first = c.first /\ d.url = c.url /\ d.ent = c.ent
    BY <2>1 DEF CallOK, Call
  <2> HIDE DEF d
  <2>5. CallOK(d, n)
    BY <1>1, <2>2, <2>3, <2>4 DEF CallOK, Choosing, Learning, FromStore
  <2> QED
    BY <2>5 DEF d
<1>2. CASE c.then # "cache"
  BY <1>2, AfterLearnOK DEF AfterSave, CallOK
<1> QED
  BY <1>1, <1>2
-----------------------------------------------------------------------------
(* Putting the next state together: a step that leaves each part in order  *)
(* leaves the invariant true; the history variable follows by itself.      *)
LEMMA Assemble ==
  ASSUME IInv, Observe,
         gate' \in MaybeServer,
         issued' \in 0..MaxGen, issued <= issued',
         session' \in [Servers -> 0..MaxGen],
         valid' \subseteq Token \cup {PinTok},
         stale' \subseteq Token,
         StoreOK(store', issued'),
         mem' \in [Clients -> [url: MaybeServer, tok: Token \cup {None}]],
         \A c \in Clients : Held(mem'[c].tok, issued'),
         call' \in [Callers -> Call],
         \A p \in Callers : CallOK(call'[p], issued')
  PROVE  IInv'
<1>1. store' \in Store
  BY DEF StoreOK
<1>2. (GoodStored \in Token \cup {None})'
  <2>1. CASE gate' = None
    BY <2>1 DEF GoodStored
  <2>2. CASE gate' # None
    <3>1. gate' \in Servers
      BY <2>2 DEF MaybeServer
    <3>2. store'.auth[gate'].tok \in Token \cup {None}
      BY <1>1, <3>1 DEF Store, Entry
    <3> QED
      BY <2>2, <3>2 DEF GoodStored
  <2> QED
    BY <2>1, <2>2
<1>3. witness' \in [Callers -> Token \cup {None}]
  BY <1>2 DEF Observe, IInv, TypeOK
<1>4. TypeOK'
  BY <1>1, <1>3 DEF TypeOK
<1> QED
  BY <1>4 DEF IInv

LEMMA CallChanged ==
  ASSUME IInv, NEW p \in Callers, NEW d, Update(p, d),
         issued' \in 0..MaxGen, issued <= issued', CallOK(d, issued')
  PROVE  /\ call' \in [Callers -> Call]
         /\ \A q \in Callers : CallOK(call'[q], issued')
<1>1. d \in Call /\ call \in [Callers -> Call] /\ call' = [call EXCEPT ![p] = d]
  BY DEF CallOK, IInv, TypeOK, Update
<1>2. issued \in Nat /\ issued' \in Nat
  BY BoundAssumption DEF IInv, TypeOK
<1>3. ASSUME NEW q \in Callers PROVE CallOK(call'[q], issued')
  <2>1. CASE q = p
    BY <1>1, <2>1
  <2>2. CASE q # p
    <3>1. call'[q] = call[q] /\ CallOK(call[q], issued)
      BY <1>1, <2>2 DEF IInv
    <3> QED
      BY <1>2, <3>1, CallMonotone
  <2> QED
    BY <2>1, <2>2
<1> QED
  BY <1>1, <1>3

(* The common shape of a step: one call moves, nothing else does.          *)
LEMMA OnlyTheCall ==
  ASSUME IInv, Observe, NEW p \in Callers, NEW d, Update(p, d),
         UNCHANGED <<world, store, mem>>, CallOK(d, issued)
  PROVE  IInv'
<1>1. issued' = issued /\ issued \in 0..MaxGen /\ issued <= issued'
  BY BoundAssumption DEF world, IInv, TypeOK
<1>2. /\ call' \in [Callers -> Call]
      /\ \A q \in Callers : CallOK(call'[q], issued')
  BY <1>1, CallChanged
<1> QED
  BY <1>1, <1>2, Assemble DEF IInv, TypeOK, world

(* A call and the client's memory move.                                    *)
LEMMA CallAndMemory ==
  ASSUME IInv, Observe, NEW p \in Callers, NEW d, Update(p, d),
         UNCHANGED <<world, store>>, CallOK(d, issued),
         mem' \in [Clients -> [url: MaybeServer, tok: Token \cup {None}]],
         \A c \in Clients : Held(mem'[c].tok, issued)
  PROVE  IInv'
<1>1. issued' = issued /\ issued \in 0..MaxGen /\ issued <= issued'
  BY BoundAssumption DEF world, IInv, TypeOK
<1>2. /\ call' \in [Callers -> Call]
      /\ \A q \in Callers : CallOK(call'[q], issued')
  BY <1>1, CallChanged
<1> QED
  BY <1>1, <1>2, Assemble DEF IInv, TypeOK, world

(* A call and the store move.                                              *)
LEMMA CallAndStore ==
  ASSUME IInv, Observe, NEW p \in Callers, NEW d, Update(p, d),
         UNCHANGED <<world, mem>>, CallOK(d, issued), StoreOK(store', issued)
  PROVE  IInv'
<1>1. issued' = issued /\ issued \in 0..MaxGen /\ issued <= issued'
  BY BoundAssumption DEF world, IInv, TypeOK
<1>2. /\ call' \in [Callers -> Call]
      /\ \A q \in Callers : CallOK(call'[q], issued')
  BY <1>1, CallChanged
<1> QED
  BY <1>1, <1>2, Assemble DEF IInv, TypeOK, world
-----------------------------------------------------------------------------
(* One lemma per step of a call.                                           *)
LEMMA CachedTokenInv ==
  ASSUME IInv, Observe, NEW p \in Callers, CachedToken(p)
  PROVE  IInv'
<1> DEFINE c == ClientOf[p]
<1>1. c \in Clients /\ mem[c].tok \in Token \cup {None} /\ Held(mem[c].tok, issued)
  BY ClientAssumption DEF IInv, TypeOK
<1>2. issued \in Nat /\ None \notin Token /\ PinTok \notin Token /\ None # PinTok
  BY BoundAssumption, NoneAssumption DEF IInv, TypeOK
<1>3. CallOK(NewCall, issued)
  BY <1>2, NewCallOK
<1>4. ASSUME NEW t \in MaybeToken, Held(t, issued)
      PROVE  CallOK([NewCall EXCEPT !.pc = "send", !.tok = t], issued)
  <2> DEFINE d == [NewCall EXCEPT !.pc = "send", !.tok = t]
  <2>1. d \in Call
    <3>1. [NewCall EXCEPT !.pc = "send"] \in Call
      BY <1>3, StepUpdate DEF CallOK, Step
    <3> QED
      BY <3>1, TokUpdate
  <2>2. /\ d.pc = "send" /\ d.tok = t /\ d.sends = 0
        /\ d.first = None /\ d.snap = EmptyStore
    BY DEF NewCall
  <2> HIDE DEF d
  <2>3. CallOK(d, issued)
    BY <1>2, <1>4, <2>1, <2>2, EmptyStoreOK DEF CallOK, Choosing, Learning, Held
  <2> QED
    BY <2>3 DEF d
<1>5. CASE c \in Pinned
  <2>1. Update(p, [NewCall EXCEPT !.pc = "send", !.tok = PinTok])
    BY <1>5 DEF CachedToken
  <2>2. CallOK([NewCall EXCEPT !.pc = "send", !.tok = PinTok], issued)
    BY <1>2, <1>4 DEF MaybeToken, Held
  <2>3. UNCHANGED <<world, store, mem>>
    BY <1>5 DEF CachedToken
  <2> QED
    BY <2>1, <2>2, <2>3, OnlyTheCall
<1>6. CASE c \notin Pinned /\ mem[c].tok # None /\ IsFresh(mem[c].tok)
  <2>1. Update(p, [NewCall EXCEPT !.pc = "send", !.tok = mem[c].tok])
    BY <1>6 DEF CachedToken
  <2>2. CallOK([NewCall EXCEPT !.pc = "send", !.tok = mem[c].tok], issued)
    BY <1>1, <1>4 DEF MaybeToken
  <2>3. UNCHANGED <<world, store, mem>>
    BY <1>6 DEF CachedToken
  <2> QED
    BY <2>1, <2>2, <2>3, OnlyTheCall
<1>7. CASE c \notin Pinned /\ (mem[c].tok # None => ~IsFresh(mem[c].tok))
  <2>1. /\ Update(p, [NewCall EXCEPT !.pc = "lookup"])
        /\ mem' = [mem EXCEPT ![c].tok = None]
        /\ UNCHANGED <<world, store>>
    BY <1>7 DEF CachedToken
  <2>2. CallOK([NewCall EXCEPT !.pc = "lookup"], issued)
    <3> DEFINE d == [NewCall EXCEPT !.pc = "lookup"]
    <3>1. d \in Call
      BY <1>3, StepUpdate DEF CallOK, Step
    <3>2. /\ d.pc = "lookup" /\ d.tok = None /\ d.sends = 0
          /\ d.first = None /\ d.snap = EmptyStore
      BY DEF NewCall
    <3> HIDE DEF d
    <3>3. CallOK(d, issued)
      BY <1>2, <3>1, <3>2, EmptyStoreOK DEF CallOK, Choosing, Learning, Held
    <3> QED
      BY <3>3 DEF d
  <2>3. mem' \in [Clients -> [url: MaybeServer, tok: Token \cup {None}]]
    BY <2>1 DEF IInv, TypeOK
  <2>4. ASSUME NEW k \in Clients PROVE Held(mem'[k].tok, issued)
    BY <1>2, <2>1 DEF IInv, TypeOK, Held
  <2> QED
    BY <2>1, <2>2, <2>3, <2>4, CallAndMemory
<1> QED
  BY <1>5, <1>6, <1>7 DEF CachedToken

LEMMA LookupInv ==
  ASSUME IInv, Observe, NEW p \in Callers, Lookup(p)
  PROVE  IInv'
<1> DEFINE url == mem[ClientOf[p]].url
           c   == call[p]
<1>1. url \in MaybeServer /\ CallOK(c, issued) /\ c \in Call /\ c.pc = "lookup"
  BY ClientAssumption DEF IInv, TypeOK, CallOK, Lookup
<1>2. None \notin Token
  BY NoneAssumption
<1>3. CASE url = None
  <2> DEFINE d == [c EXCEPT !.pc = "send", !.tok = None]
  <2>1. Update(p, d) /\ UNCHANGED <<world, store, mem>>
    BY <1>3 DEF Lookup
  <2>2. d \in Call
    <3>1. [c EXCEPT !.pc = "send"] \in Call
      BY <1>1, StepUpdate DEF Step
    <3> QED
      BY <3>1, TokUpdate DEF MaybeToken
  <2>3. /\ d.pc = "send" /\ d.tok = None /\ d.first = c.first
        /\ d.snap = c.snap /\ d.sends = c.sends
    BY <1>1 DEF Call
  <2> HIDE DEF d
  <2>4. CallOK(d, issued)
    BY <1>1, <1>2, <2>2, <2>3 DEF CallOK, Choosing, Learning, Held
  <2> QED
    BY <2>1, <2>4, OnlyTheCall
<1>4. CASE url # None
  <2> DEFINE d == [c EXCEPT !.pc = "resolve", !.url = url]
  <2>1. Update(p, d) /\ UNCHANGED <<world, store, mem>>
    BY <1>4 DEF Lookup
  <2>2. d \in Call
    <3>1. [c EXCEPT !.pc = "resolve"] \in Call
      BY <1>1, StepUpdate DEF Step
    <3>2. [[c EXCEPT !.pc = "resolve"] EXCEPT !.url = url] \in Call
      BY <1>1, <3>1, UrlUpdate
    <3> QED
      BY <3>2
  <2>3. /\ d.pc = "resolve" /\ d.url = url /\ d.sends = c.sends
        /\ d.tok = c.tok /\ d.first = c.first /\ d.snap = c.snap
    BY <1>1 DEF Call
  <2>4. url \in Servers
    BY <1>1, <1>4 DEF MaybeServer
  <2> HIDE DEF d
  <2>5. CallOK(d, issued)
    BY <1>1, <2>2, <2>3, <2>4 DEF CallOK, Choosing, Learning
  <2> QED
    BY <2>1, <2>5, OnlyTheCall
<1> QED
  BY <1>3, <1>4

LEMMA ResolveInv ==
  ASSUME IInv, Observe, NEW p \in Callers, Resolve(p)
  PROVE  IInv'
<1> DEFINE o   == call[p]
           ent == store.auth[o.url]
           c   == [o EXCEPT !.ent = ent]
<1>1. CallOK(o, issued) /\ o \in Call /\ o.pc = "resolve" /\ o.url \in Servers
  BY DEF IInv, CallOK, Resolve
<1>2. /\ ent \in Entry /\ Held(ent.tok, issued)
      /\ ent.tok # None => ent.tok.srv = o.url
  BY <1>1 DEF IInv, StoreOK, FiledIn, Store
<1>3. CallOK(c, issued) /\ c.pc = "resolve"
  <2>1. c \in Call
    <3> HIDE DEF o, ent
    <3> QED
      BY <1>1, <1>2, EntUpdate
  <2>2. /\ c.pc = o.pc /\ c.tok = o.tok /\ c.first = o.first /\ c.snap = o.snap
        /\ c.url = o.url /\ c.sends = o.sends /\ c.then = o.then
    BY <1>1 DEF Call
  <2> HIDE DEF c
  <2> QED
    BY <1>1, <2>1, <2>2 DEF CallOK, Choosing, Learning
<1>4. UNCHANGED <<world, store, mem>>
  BY DEF Resolve
<1>5. CASE UsableStored(ent.tok, Avoid(p))
  <2> DEFINE d == [c EXCEPT !.pc = "cache", !.tok = ent.tok]
  <2>1. Update(p, d)
    BY <1>5 DEF Resolve
  <2>2. ent.tok \in Token /\ ent.tok \in MaybeToken /\ ent.tok # None
        /\ (o.sends = 1 => ent.tok # o.first)
    <3>1. ent.tok \in Token \cup {None} /\ ent.tok # None
      BY <1>2, <1>5 DEF UsableStored, Entry
    <3>2. o.sends = 1 => ent.tok # o.first
      BY <1>5 DEF UsableStored, Avoid
    <3> HIDE DEF o, ent
    <3> QED
      BY <3>1, <3>2 DEF MaybeToken
  <2>3. d \in Call
    <3> DEFINE e == [c EXCEPT !.pc = "cache"]
               t == ent.tok
    <3>1. e \in Call
      <4>1. "cache" \in Step /\ c \in Call
        BY <1>3 DEF Step, CallOK
      <4> QED
        BY <4>1, StepUpdate, Zenon
    <3>2. d = [e EXCEPT !.tok = t]
      OBVIOUS
    <3>3. t \in MaybeToken
      BY <2>2
    <3> HIDE DEF d, e, t
    <3> QED
      BY <3>1, <3>2, <3>3, TokUpdate, Zenon
  <2>4. /\ d.pc = "cache" /\ d.tok = ent.tok /\ d.first = o.first
        /\ d.snap = o.snap /\ d.url = o.url /\ d.sends = o.sends
    BY <1>1 DEF Call
  <2> HIDE DEF d
  <2>5. CallOK(d, issued)
    BY <1>1, <1>2, <2>2, <2>3, <2>4 DEF CallOK, Choosing, Learning
  <2> QED
    BY <1>4, <2>1, <2>5, OnlyTheCall
<1>6. CASE ~UsableStored(ent.tok, Avoid(p)) /\ ent.cookie = 0
  <2>1. Update(p, Unresolved(c))
    BY <1>6 DEF Resolve
  <2>2. issued \in Nat
    BY BoundAssumption DEF IInv, TypeOK
  <2>3. CallOK(Unresolved(c), issued)
    <3> HIDE DEF c
    <3> QED
      BY <1>3, <2>2, UnresolvedOK
  <2> QED
    BY <1>4, <2>1, <2>3, OnlyTheCall
<1>7. CASE ~UsableStored(ent.tok, Avoid(p)) /\ ent.cookie # 0
  <2> DEFINE d == [c EXCEPT !.pc = "refresh"]
  <2>1. Update(p, d)
    BY <1>7 DEF Resolve
  <2>2. d \in Call
    <3> HIDE DEF c
    <3> QED
      BY <1>3, StepUpdate DEF CallOK, Step
  <2>3. /\ d.pc = "refresh" /\ d.tok = c.tok /\ d.first = c.first
        /\ d.snap = c.snap /\ d.url = c.url /\ d.sends = c.sends
    <3> HIDE DEF c
    <3> QED
      BY <1>3 DEF CallOK, Call
  <2>4. CallOK(d, issued)
    <3> HIDE DEF c, d
    <3> QED
      BY <1>3, <2>2, <2>3 DEF CallOK, Choosing, Learning
  <2> QED
    BY <1>4, <2>1, <2>4, OnlyTheCall
<1> QED
  BY <1>5, <1>6, <1>7

LEMMA RefreshGrantedInv ==
  ASSUME IInv, Observe, NEW p \in Callers, RefreshGranted(p)
  PROVE  IInv'
<1> DEFINE o == call[p]
           n == issued + 1
           new == [srv |-> o.url, gen |-> n]
           T == {new} \cup Reissued(p, o.url)
<1>1. CallOK(o, issued) /\ o \in Call /\ o.pc = "refresh" /\ o.url \in Servers
  BY DEF IInv, CallOK, RefreshGranted
<1>2. /\ issued \in Nat /\ n \in 1..MaxGen /\ n \in 0..MaxGen
      /\ issued' = n /\ issued' \in 0..MaxGen /\ issued <= issued' /\ issued' \in Nat
  BY BoundAssumption DEF RefreshGranted, IInv, TypeOK
<1>3. ASSUME NEW t \in T
      PROVE  t \in Token /\ Held(t, n) /\ t.srv = o.url /\ t \in MaybeToken
  <2>1. t = new \/ t \in [srv: {o.url}, gen: 1..issued]
    BY DEF Reissued
  <2>2. t \in [srv: {o.url}, gen: 1..n]
    <3> HIDE DEF o
    <3>1. CASE t = new
      BY <1>2, <3>1
    <3>2. CASE t \in [srv: {o.url}, gen: 1..issued]
      <4>1. 1..issued \subseteq 1..n
        BY <1>2
      <4> HIDE DEF n
      <4> QED
        BY <3>2, <4>1
    <3> QED
      BY <2>1, <3>1, <3>2
  <2>3. t \in Token /\ t.srv = o.url /\ t.gen <= n
    <3>1. t.srv = o.url /\ t.gen \in 1..n /\ t = [srv |-> t.srv, gen |-> t.gen]
      <4> HIDE DEF o, n, new, T
      <4> QED
        BY <2>2
    <3>2. t.gen \in 1..MaxGen /\ t.gen <= n
      <4> HIDE DEF o, new, T
      <4> QED
        BY <1>2, <3>1, BoundAssumption
    <3> HIDE DEF o, n, new, T
    <3> QED
      BY <1>1, <3>1, <3>2 DEF Token
  <2> QED
    BY <2>3 DEF Held, MaybeToken
<1>5. CallOK(o, n)
  <2> HIDE DEF o
  <2> QED
    BY <1>1, <1>2, CallMonotone
<1>6. CallOK(Unresolved(o), n)
  <2> HIDE DEF o
  <2> QED
    BY <1>1, <1>2, <1>5, UnresolvedOK
<1>7. ASSUME NEW k \in 0..MaxGen, NEW t \in T
      PROVE  CallOK([o EXCEPT !.pc = "merge", !.tok = t, !.ent = NoEntry,
                              !.setCookie = k], n)
  <2> DEFINE d == [o EXCEPT !.pc = "merge", !.tok = t, !.ent = NoEntry,
                            !.setCookie = k]
  <2>1. NoEntry \in Entry
    BY BoundAssumption DEF NoEntry, Entry
  <2>5. t \in Token /\ Held(t, n) /\ t.srv = o.url /\ t \in MaybeToken
    BY <1>3
  <2>2. d \in Call
    <3> HIDE DEF o, T
    <3>1. [o EXCEPT !.pc = "merge"] \in Call
      BY <1>1, StepUpdate DEF Step
    <3>2. [[o EXCEPT !.pc = "merge"] EXCEPT !.tok = t] \in Call
      BY <2>5, <3>1, TokUpdate
    <3>3. [[[o EXCEPT !.pc = "merge"] EXCEPT !.tok = t] EXCEPT !.ent = NoEntry] \in Call
      BY <2>1, <3>2, EntUpdate
    <3> QED
      BY <3>3, CookieUpdate
  <2>3. /\ d.pc = "merge" /\ d.tok = t /\ d.first = o.first /\ d.snap = o.snap
        /\ d.url = o.url /\ d.sends = o.sends /\ d.ent = NoEntry
    <3> HIDE DEF o, T
    <3> QED
      BY <1>1 DEF Call
  <2> HIDE DEF d, o, T
  <2>4. CallOK(d, n)
    BY <1>1, <1>5, <2>2, <2>3, <2>5 DEF CallOK, Choosing, Learning, FromStore
  <2> QED
    BY <2>4 DEF d
<1>8. \E d : Update(p, d) /\ CallOK(d, issued')
  <2>1. PICK t \in T, rotate \in BOOLEAN :
          LET cookie == IF rotate THEN n ELSE 0 IN
          \/ Update(p, [o EXCEPT !.pc = "merge", !.tok = t, !.ent = NoEntry,
                                 !.setCookie = cookie])
          \/ Update(p, Unresolved(o))
    BY DEF RefreshGranted
  <2>2. (IF rotate THEN n ELSE 0) \in 0..MaxGen
    BY <1>2, BoundAssumption
  <2> HIDE DEF o, n, T
  <2> QED
    BY <1>2, <1>6, <1>7, <2>1, <2>2
<1>9. /\ call' \in [Callers -> Call]
      /\ \A q \in Callers : CallOK(call'[q], issued')
  BY <1>2, <1>8, CallChanged
<1>10. /\ session' \in [Servers -> 0..MaxGen]
       /\ valid' \subseteq Token \cup {PinTok}
  <2>1. PICK t \in T, rotate \in BOOLEAN :
          /\ valid' = IF t = new THEN valid \cup {t} ELSE valid
          /\ session' = IF rotate THEN [session EXCEPT ![o.url] = n] ELSE session
    BY DEF RefreshGranted
  <2>2. t \in Token
    BY <1>3
  <2> HIDE DEF o, n, T, new
  <2> QED
    BY <1>1, <1>2, <2>1, <2>2 DEF IInv, TypeOK
<1>11. /\ StoreOK(store', issued')
       /\ \A c \in Clients : Held(mem'[c].tok, issued')
  BY <1>2 DEF RefreshGranted, IInv, StoreOK, Held, Token
<1>12. /\ gate' \in MaybeServer /\ stale' \subseteq Token
       /\ mem' \in [Clients -> [url: MaybeServer, tok: Token \cup {None}]]
  BY DEF RefreshGranted, IInv, TypeOK
<1> QED
  BY <1>2, <1>9, <1>10, <1>11, <1>12, Assemble

LEMMA RefreshFailedInv ==
  ASSUME IInv, Observe, NEW p \in Callers, RefreshFailed(p)
  PROVE  IInv'
<1>1. CallOK(call[p], issued) /\ call[p].pc = "refresh" /\ issued \in Nat
  BY BoundAssumption DEF IInv, TypeOK, RefreshFailed
<1>2. CallOK(Unresolved(call[p]), issued)
  BY <1>1, UnresolvedOK
<1> QED
  BY <1>2, OnlyTheCall DEF RefreshFailed

LEMMA ApplyRefreshInv ==
  ASSUME IInv, Observe, NEW p \in Callers, ApplyRefresh(p)
  PROVE  IInv'
<1> DEFINE c   == call[p]
           old == store.auth[c.url]
           new == [tok |-> c.tok,
                   cookie |-> IF c.setCookie = 0 THEN old.cookie ELSE c.setCookie]
           st  == [store EXCEPT !.auth[c.url] = new]
           d   == [c EXCEPT !.pc = "open", !.then = "cache", !.setCookie = 0,
                            !.snap = st]
<1>1. /\ CallOK(c, issued) /\ c \in Call /\ c.pc = "merge" /\ c.url \in Servers
      /\ c.tok \in Token /\ c.tok.srv = c.url /\ Held(c.tok, issued)
      /\ c.sends = 1 /\ FromStore(c) => c.tok # c.first
  BY DEF IInv, CallOK, Choosing, ApplyRefresh
<1>2. Update(p, d) /\ UNCHANGED <<world, store, mem>>
  BY DEF ApplyRefresh
<1>3. StoreOK(store, issued) /\ store \in Store
  BY DEF IInv, StoreOK
<1>4. new \in Entry /\ new.tok = c.tok
  <2>1. old.cookie \in 0..MaxGen /\ c.setCookie \in 0..MaxGen
    BY <1>1, <1>3 DEF Store, Entry, Call
  <2> HIDE DEF c, old
  <2> QED
    BY <1>1, <2>1 DEF Entry
<1>5. StoreOK(st, issued)
  <2> HIDE DEF c, new
  <2>1. st \in Store
    BY <1>1, <1>3, <1>4 DEF Store
  <2>2. \A s \in Servers : st.auth[s] = IF s = c.url THEN new ELSE store.auth[s]
    BY <1>1, <1>3 DEF Store
  <2> HIDE DEF st
  <2> QED
    BY <1>1, <1>3, <1>4, <2>1, <2>2 DEF StoreOK, FiledIn
<1>6. d \in Call
  <2> HIDE DEF c, st
  <2>1. [c EXCEPT !.pc = "open"] \in Call
    BY <1>1, StepUpdate DEF Step
  <2>2. [[c EXCEPT !.pc = "open"] EXCEPT !.then = "cache"] \in Call
    BY <2>1, ThenUpdate
  <2>3. 0 \in 0..MaxGen
    BY BoundAssumption
  <2>4. [[[c EXCEPT !.pc = "open"] EXCEPT !.then = "cache"] EXCEPT !.setCookie = 0] \in Call
    BY <2>2, <2>3, CookieUpdate
  <2> QED
    BY <1>5, <2>4, SnapUpdate DEF StoreOK
<1>7. /\ d.pc = "open" /\ d.then = "cache" /\ d.snap = st /\ d.tok = c.tok
      /\ d.first = c.first /\ d.url = c.url /\ d.sends = c.sends
      /\ d.ent = c.ent
  <2> HIDE DEF c, st
  <2> QED
    BY <1>1 DEF Call
<1>8. CallOK(d, issued)
  <2> HIDE DEF c, st, d
  <2> QED
    BY <1>1, <1>5, <1>6, <1>7 DEF CallOK, Choosing, Learning, FromStore
<1> HIDE DEF d
<1> QED
  BY <1>2, <1>8, OnlyTheCall

LEMMA SaveOpenInv ==
  ASSUME IInv, Observe, NEW p \in Callers, SaveOpen(p)
  PROVE  IInv'
<1> DEFINE c == call[p]
           d == [c EXCEPT !.pc = "write"]
<1>1. CallOK(c, issued) /\ c \in Call /\ c.pc = "open" /\ issued \in Nat
  BY BoundAssumption DEF IInv, TypeOK, CallOK, SaveOpen
<1>2. UNCHANGED <<world, mem>>
  BY DEF SaveOpen
<1>3. CASE store' = EmptyStore /\ Update(p, d)
  <2>1. d \in Call
    <3> HIDE DEF c
    <3> QED
      BY <1>1, StepUpdate DEF Step
  <2>2. /\ d.pc = "write" /\ d.then = c.then /\ d.snap = c.snap /\ d.tok = c.tok
        /\ d.first = c.first /\ d.url = c.url /\ d.sends = c.sends
        /\ d.ent = c.ent
    <3> HIDE DEF c
    <3> QED
      BY <1>1 DEF Call
  <2>3. CallOK(d, issued)
    <3> HIDE DEF c, d
    <3> QED
      BY <1>1, <2>1, <2>2 DEF CallOK, Choosing, Learning, FromStore
  <2> HIDE DEF d
  <2> QED
    BY <1>1, <1>2, <1>3, <2>3, EmptyStoreOK, CallAndStore
<1>4. CASE UNCHANGED store /\ Update(p, AfterSave(p, c))
  <2>1. CallOK(AfterSave(p, c), issued)
    BY <1>1, AfterSaveOK
  <2> QED
    BY <1>2, <1>4, <2>1, CallAndStore DEF IInv
<1> QED
  BY <1>3, <1>4 DEF SaveOpen

LEMMA SaveWriteInv ==
  ASSUME IInv, Observe, NEW p \in Callers, SaveWrite(p)
  PROVE  IInv'
<1>1. CallOK(call[p], issued) /\ call[p].pc = "write" /\ issued \in Nat
  BY BoundAssumption DEF IInv, TypeOK, SaveWrite
<1>2. CallOK(AfterSave(p, call[p]), issued)
  BY <1>1, AfterSaveOK
<1>3. StoreOK(store', issued)
  BY <1>1, EmptyStoreOK DEF SaveWrite, CallOK
<1> QED
  BY <1>2, <1>3, CallAndStore DEF SaveWrite

LEMMA CacheTokenInv ==
  ASSUME IInv, Observe, NEW p \in Callers, CacheToken(p)
  PROVE  IInv'
<1> DEFINE c == call[p]
           d == [c EXCEPT !.pc = "send"]
<1>1. /\ CallOK(c, issued) /\ c \in Call /\ c.pc = "cache"
      /\ c.tok \in Token /\ Held(c.tok, issued)
  BY DEF IInv, CallOK, Choosing, CacheToken
<1>2. /\ Update(p, d) /\ UNCHANGED <<world, store>>
      /\ mem' = [mem EXCEPT ![ClientOf[p]].tok = c.tok]
  BY DEF CacheToken
<1>3. d \in Call
  <2> HIDE DEF c
  <2> QED
    BY <1>1, StepUpdate DEF Step
<1>4. /\ d.pc = "send" /\ d.snap = c.snap /\ d.tok = c.tok
      /\ d.first = c.first /\ d.url = c.url /\ d.sends = c.sends
      /\ d.ent = c.ent
  <2> HIDE DEF c
  <2> QED
    BY <1>1 DEF Call
<1>5. CallOK(d, issued)
  <2> HIDE DEF c, d
  <2> QED
    BY <1>1, <1>3, <1>4 DEF CallOK, Choosing, Learning, FromStore
<1>6. /\ mem' \in [Clients -> [url: MaybeServer, tok: Token \cup {None}]]
      /\ \A k \in Clients : Held(mem'[k].tok, issued)
  <2> HIDE DEF c
  <2> QED
    BY <1>1, <1>2, ClientAssumption DEF IInv, TypeOK, Held
<1> HIDE DEF d
<1> QED
  BY <1>2, <1>5, <1>6, CallAndMemory

LEMMA SendAnsweredInv ==
  ASSUME IInv, Observe, NEW p \in Callers, SendAnswered(p)
  PROVE  IInv'
<1>1. PICK res \in {"ok", "error"} : Update(p, Finished(res))
  BY DEF SendAnswered
<1>2. issued \in Nat /\ res \in Result
  BY BoundAssumption DEF IInv, TypeOK, Result
<1>3. CallOK(Finished(res), issued)
  BY <1>2, FinishedOK
<1> QED
  BY <1>1, <1>3, OnlyTheCall DEF SendAnswered

(* A call whose request was denied: its first, or its second, with n sent. *)
Learns(c, n, first, status, url) ==
  [c EXCEPT !.sends = n, !.first = first, !.status = status, !.url = url,
            !.pc = "learn"]

(* The statuses of a denial.                                               *)
Codes == {401, 403, 503}

LEMMA LearnsIs ==
  ASSUME NEW c \in Call, NEW n \in {1, 2}, NEW first \in MaybeToken,
         NEW url \in Servers, NEW status \in Codes
  PROVE  /\ Learns(c, n, first, status, url) \in Call
         /\ Learns(c, n, first, status, url).pc = "learn"
         /\ Learns(c, n, first, status, url).sends = n
         /\ Learns(c, n, first, status, url).first = first
         /\ Learns(c, n, first, status, url).tok = c.tok
         /\ Learns(c, n, first, status, url).url = url
         /\ Learns(c, n, first, status, url).status = status
         /\ Learns(c, n, first, status, url).snap = c.snap
<1> DEFINE m == [c EXCEPT !.sends = n]
           a == [m EXCEPT !.first = first]
           b == [a EXCEPT !.status = status]
           k == [b EXCEPT !.url = url]
           d == [k EXCEPT !.pc = "learn"]
<1>1. Learns(c, n, first, status, url) = d
  BY DEF Learns
<1>2. /\ m \in Call
      /\ m.sends = n /\ m.tok = c.tok /\ m.snap = c.snap
  BY DEF Call
<1> HIDE DEF m
<1>3. /\ a \in Call
      /\ a.first = first /\ a.sends = m.sends /\ a.tok = m.tok /\ a.snap = m.snap
  BY <1>2 DEF Call
<1> HIDE DEF a
<1>4. /\ b \in Call
      /\ b.status = status /\ b.sends = a.sends /\ b.first = a.first /\ b.tok = a.tok
      /\ b.snap = a.snap
  BY <1>3 DEF Call, Codes
<1> HIDE DEF b
<1>5. /\ k \in Call
      /\ k.url = url /\ k.status = b.status /\ k.sends = b.sends /\ k.first = b.first
      /\ k.tok = b.tok /\ k.snap = b.snap
  <2>1. url \in MaybeServer
    BY DEF MaybeServer
  <2> QED
    BY <1>4, <2>1 DEF Call
<1> HIDE DEF k
<1>6. "learn" \in Step
  BY DEF Step
<1>7. /\ d \in Call
      /\ d.pc = "learn" /\ d.url = k.url /\ d.status = k.status /\ d.sends = k.sends
      /\ d.first = k.first /\ d.tok = k.tok /\ d.snap = k.snap
  BY <1>5, <1>6 DEF Call
<1> HIDE DEF d
<1> QED
  BY <1>1, <1>2, <1>3, <1>4, <1>5, <1>7

LEMMA LearnsOK ==
  ASSUME NEW n \in Nat, NEW c \in Call, CallOK(c, n), NEW k \in {1, 2},
         NEW first \in MaybeToken, Held(first, n), NEW url \in Servers,
         NEW status \in Codes
  PROVE  CallOK(Learns(c, k, first, status, url), n)
<1> DEFINE d == Learns(c, k, first, status, url)
<1>1. d \in Call
  BY LearnsIs
<1>2. /\ d.pc = "learn" /\ d.sends = k /\ d.first = first
      /\ d.tok = c.tok /\ d.url = url /\ d.snap = c.snap
  BY LearnsIs
<1> HIDE DEF d
<1>3. CallOK(d, n)
  BY <1>1, <1>2 DEF CallOK, Choosing, Learning
<1> QED
  BY <1>3 DEF d

(* Whichever request it was, a denial is learned from or ends the call.    *)
LEMMA DeniedIs ==
  ASSUME NEW p \in Callers, NEW status, NEW heed \in BOOLEAN,
         call[p] \in Call, call[p].sends # 2
  PROVE  \/ /\ call[p].sends = 0
            /\ Denied(p, status, heed) = Learns(call[p], 1, call[p].tok, status, gate)
         \/ /\ call[p].sends = 1
            /\ Denied(p, status, heed) \in
                 {Learns(call[p], 2, call[p].first, status, gate), Denial(status)}
<1> DEFINE o == call[p]
<1>1. o.sends = 0 \/ o.sends = 1
  BY DEF Call
<1>2. CASE o.sends = 0
  <2>1. Sent(p) = [o EXCEPT !.sends = 1, !.first = o.tok]
    BY <1>2 DEF Sent, Call
  <2> HIDE DEF o
  <2>2. Denied(p, status, heed) = Learns(o, 1, o.tok, status, gate)
    BY <1>2, <2>1 DEF Denied, Learns, Call, o
  <2> QED
    BY <1>2, <2>2 DEF o
<1>3. CASE o.sends = 1
  <2>1. Sent(p) = [o EXCEPT !.sends = 2, !.first = o.first]
    BY <1>3 DEF Sent, Call
  <2> HIDE DEF o
  <2>2. Denied(p, status, heed) \in {Learns(o, 2, o.first, status, gate), Denial(status)}
    BY <1>3, <2>1 DEF Denied, Learns, Call, o
  <2> QED
    BY <1>3, <2>2 DEF o
<1> QED
  BY <1>1, <1>2, <1>3

LEMMA TakeTokenInv ==
  ASSUME IInv, Observe, NEW p \in Callers, TakeToken(p)
  PROVE  IInv'
<1>1. Update(p, Finished("taken")) /\ UNCHANGED <<world, store, mem>>
  BY DEF TakeToken
<1>2. CallOK(Finished("taken"), issued)
  BY BoundAssumption, FinishedOK DEF IInv, TypeOK, Result
<1> QED
  BY <1>1, <1>2, OnlyTheCall

LEMMA SendDeniedInv ==
  ASSUME IInv, Observe, NEW p \in Callers, SendDenied(p)
  PROVE  IInv'
<1> DEFINE o == call[p]
<1>1. CallOK(o, issued) /\ o \in Call /\ o.pc = "send" /\ gate \in Servers
  BY DEF IInv, TypeOK, CallOK, SendDenied, MaybeServer
<1>2. PICK status \in Codes, heed \in BOOLEAN : Update(p, Denied(p, status, heed))
  BY DEF SendDenied, Codes
<1>3. issued \in Nat /\ UNCHANGED <<world, store, mem>>
  BY BoundAssumption DEF IInv, TypeOK, SendDenied
<1>4. o.sends # 2
  BY <1>1 DEF CallOK, Learning
<1>5. Denied(p, status, heed) \in {Learns(o, 1, o.tok, status, gate),
                                  Learns(o, 2, o.first, status, gate), Denial(status)}
  BY <1>1, <1>4, DeniedIs
<1> HIDE DEF o
<1>6. /\ CallOK(Learns(o, 1, o.tok, status, gate), issued)
      /\ CallOK(Learns(o, 2, o.first, status, gate), issued)
  <2>1. PICK a, tok, first, url, n :
          a = o /\ tok = o.tok /\ first = o.first /\ url = gate /\ n = issued
    OBVIOUS
  <2>2. /\ CallOK(a, n) /\ a \in Call /\ n \in Nat /\ url \in Servers
        /\ tok \in MaybeToken /\ first \in MaybeToken
        /\ Held(tok, n) /\ Held(first, n)
    BY <1>1, <1>3, <2>1 DEF CallOK, Call
  <2>3. CallOK(Learns(a, 1, tok, status, url), n)
    BY <2>2, LearnsOK
  <2>4. CallOK(Learns(a, 2, first, status, url), n)
    BY <2>2, LearnsOK
  <2> QED
    BY <2>1, <2>3, <2>4
<1>7. CallOK(Denial(status), issued)
  BY <1>3, DenialOK
<1> QED
  BY <1>2, <1>3, <1>5, <1>6, <1>7, OnlyTheCall

LEMMA LearnAuthServerInv ==
  ASSUME IInv, Observe, NEW p \in Callers, LearnAuthServer(p)
  PROVE  IInv'
<1> DEFINE o == call[p]
           d == [o EXCEPT !.pc = "record"]
<1>1. CallOK(o, issued) /\ o \in Call /\ o.pc = "learn" /\ o.url \in Servers
      /\ Learning(o) /\ o.sends # 0 /\ issued \in Nat
  BY BoundAssumption DEF IInv, TypeOK, CallOK, LearnAuthServer, Learning
<1>2. mem' = [mem EXCEPT ![ClientOf[p]].url = o.url] /\ UNCHANGED <<world, store>>
  BY DEF LearnAuthServer
<1>3. CallOK(d, issued)
  <2>1. d \in Call
    <3> HIDE DEF o
    <3> QED
      BY <1>1, StepUpdate DEF Step
  <2>2. /\ d.pc = "record" /\ d.snap = o.snap /\ d.tok = o.tok
        /\ d.first = o.first /\ d.url = o.url /\ d.sends = o.sends
    <3> HIDE DEF o
    <3> QED
      BY <1>1 DEF Call
  <2> HIDE DEF o, d
  <2> QED
    BY <1>1, <2>1, <2>2 DEF CallOK, Choosing, Learning
<1>4. CallOK(AfterLearn(p, o), issued)
  BY <1>1, AfterLearnOK
<1>5. \E e : Update(p, e) /\ CallOK(e, issued)
  <2>1. Update(p, d) \/ Update(p, AfterLearn(p, o))
    BY DEF LearnAuthServer
  <2> HIDE DEF o, d
  <2> QED
    BY <1>3, <1>4, <2>1
<1>6. /\ mem' \in [Clients -> [url: MaybeServer, tok: Token \cup {None}]]
      /\ \A k \in Clients : Held(mem'[k].tok, issued)
  <2> HIDE DEF o
  <2> QED
    BY <1>1, <1>2, ClientAssumption DEF IInv, TypeOK, Held, MaybeServer
<1> QED
  BY <1>2, <1>5, <1>6, CallAndMemory

LEMMA RecordMappingInv ==
  ASSUME IInv, Observe, NEW p \in Callers, RecordMapping(p)
  PROVE  IInv'
<1> DEFINE o  == call[p]
           st == [store EXCEPT !.box = o.url]
           d  == [o EXCEPT !.pc = "open", !.then = "decide", !.snap = st]
<1>1. CallOK(o, issued) /\ o \in Call /\ o.pc = "record" /\ o.url \in Servers
      /\ Learning(o) /\ o.sends # 0 /\ issued \in Nat
  BY BoundAssumption DEF IInv, TypeOK, CallOK, RecordMapping, Learning
<1>2. UNCHANGED <<world, store, mem>>
  BY DEF RecordMapping
<1>3. StoreOK(st, issued)
  <2>1. StoreOK(store, issued) /\ store \in Store
    BY DEF IInv, StoreOK
  <2> HIDE DEF o
  <2>2. st \in Store /\ st.auth = store.auth
    BY <1>1, <2>1 DEF Store, MaybeServer
  <2> HIDE DEF st
  <2> QED
    BY <2>1, <2>2 DEF StoreOK, FiledIn
<1>4. CallOK(d, issued)
  <2>1. d \in Call
    <3> HIDE DEF o, st
    <3>1. [o EXCEPT !.pc = "open"] \in Call
      BY <1>1, StepUpdate DEF Step
    <3>2. [[o EXCEPT !.pc = "open"] EXCEPT !.then = "decide"] \in Call
      BY <3>1, ThenUpdate
    <3> QED
      BY <1>3, <3>2, SnapUpdate DEF StoreOK
  <2>2. /\ d.pc = "open" /\ d.then = "decide" /\ d.snap = st /\ d.tok = o.tok
        /\ d.first = o.first /\ d.url = o.url /\ d.sends = o.sends
    <3> HIDE DEF o, st
    <3> QED
      BY <1>1 DEF Call
  <2> HIDE DEF o, st, d
  <2> QED
    BY <1>1, <1>3, <2>1, <2>2 DEF CallOK, Choosing, Learning
<1>5. CallOK(AfterLearn(p, o), issued)
  BY <1>1, AfterLearnOK
<1>6. \E e : Update(p, e) /\ CallOK(e, issued)
  <2>1. Update(p, d) \/ Update(p, AfterLearn(p, o))
    BY DEF RecordMapping
  <2> HIDE DEF o, d
  <2> QED
    BY <1>4, <1>5, <2>1
<1> QED
  BY <1>2, <1>6, OnlyTheCall
-----------------------------------------------------------------------------
(* One lemma per step of the environment.                                  *)
LEMMA LoginInv ==
  ASSUME IInv, Observe, NEW s \in Servers, Login(s)
  PROVE  IInv'
<1> DEFINE n == issued + 1
           t == [srv |-> s, gen |-> n]
<1>1. /\ issued \in Nat /\ n \in 1..MaxGen /\ n \in 0..MaxGen /\ 0 \in 0..MaxGen
      /\ issued' = n /\ issued' \in 0..MaxGen /\ issued <= issued' /\ issued' \in Nat
  BY BoundAssumption DEF Login, IInv, TypeOK
<1>2. t \in Token /\ Held(t, n) /\ t.srv = s
  BY <1>1 DEF Token, Held
<1>3. PICK cookie \in {0, n} :
        /\ session' = [session EXCEPT ![s] = cookie]
        /\ store' = [store EXCEPT !.auth[s] = [tok |-> t, cookie |-> cookie]]
  BY DEF Login
<1>4. StoreOK(store', issued')
  <2> DEFINE e == [tok |-> t, cookie |-> cookie]
  <2>1. store \in Store /\ StoreOK(store, issued)
    BY DEF IInv, StoreOK
  <2>2. e \in Entry /\ e.tok = t
    <3> HIDE DEF t, n
    <3> QED
      BY <1>1, <1>2 DEF Entry
  <2> HIDE DEF e, t, n
  <2>3. store' \in Store
    BY <1>3, <2>1, <2>2 DEF Store, e
  <2>4. \A k \in Servers : store'.auth[k] = IF k = s THEN e ELSE store.auth[k]
    BY <1>3, <2>1 DEF Store, e
  <2>5. FiledIn(store')
    BY <1>2, <2>1, <2>2, <2>4 DEF FiledIn, StoreOK
  <2>6. ASSUME NEW k \in Servers PROVE Held(store'.auth[k].tok, issued')
    <3>1. CASE k = s
      BY <1>1, <1>2, <2>2, <2>4, <3>1
    <3>2. CASE k # s
      BY <1>1, <2>1, <2>4, <3>2 DEF StoreOK, Held, Token
    <3> QED
      BY <3>1, <3>2
  <2> QED
    BY <2>3, <2>5, <2>6 DEF StoreOK
<1>5. ASSUME NEW p \in Callers PROVE CallOK(call'[p], issued')
  <2>1. call'[p] = call[p] /\ CallOK(call[p], issued)
    BY DEF Login, IInv
  <2> QED
    BY <1>1, <2>1, CallMonotone
<1>6. session' \in [Servers -> 0..MaxGen]
  BY <1>1, <1>3 DEF IInv, TypeOK
<1>7. valid' \subseteq Token \cup {PinTok}
  BY <1>2 DEF Login, IInv, TypeOK
<1>8. \A c \in Clients : Held(mem'[c].tok, issued')
  BY <1>1 DEF Login, IInv, Held, Token
<1>9. /\ gate' \in MaybeServer /\ stale' \subseteq Token
      /\ mem' \in [Clients -> [url: MaybeServer, tok: Token \cup {None}]]
      /\ call' \in [Callers -> Call]
  BY DEF Login, IInv, TypeOK
<1> QED
  BY <1>1, <1>4, <1>5, <1>6, <1>7, <1>8, <1>9, Assemble

(* The steps that only change how gateways and clocks see the tokens.      *)
LEMMA WorldInv ==
  ASSUME IInv, Observe,
         \/ \E t \in Token : GrowStale(t)
         \/ \E t \in Token \cup {PinTok} : Revoke(t)
         \/ Reconfigure
  PROVE  IInv'
<1>1. /\ issued \in Nat /\ issued' = issued /\ session' = session
      /\ store' = store /\ mem' = mem /\ call' = call
  BY BoundAssumption DEF IInv, TypeOK, GrowStale, Revoke, Reconfigure
<1>2. gate' \in MaybeServer
  BY DEF IInv, TypeOK, GrowStale, Revoke, Reconfigure
<1>3. valid' \subseteq Token \cup {PinTok} /\ stale' \subseteq Token
  BY DEF IInv, TypeOK, GrowStale, Revoke, Reconfigure
<1> QED
  BY <1>1, <1>2, <1>3, Assemble DEF IInv, TypeOK

LEMMA NewClientInv ==
  ASSUME IInv, Observe, NEW c \in Clients, NewClient(c)
  PROVE  IInv'
<1>1. issued \in Nat /\ issued' = issued /\ UNCHANGED <<world, store>>
  BY BoundAssumption DEF IInv, TypeOK, NewClient, world
<1>2. CallOK(NewCall, issued) /\ NewCall \in Call
  BY <1>1, NewCallOK DEF CallOK
<1>3. /\ call' \in [Callers -> Call]
      /\ \A p \in Callers : CallOK(call'[p], issued')
  BY <1>1, <1>2 DEF IInv, TypeOK, NewClient
<1>4. /\ mem' \in [Clients -> [url: MaybeServer, tok: Token \cup {None}]]
      /\ \A k \in Clients : Held(mem'[k].tok, issued')
  <2>1. store.box \in MaybeServer /\ None \notin Token
    BY NoneAssumption DEF IInv, TypeOK, Store
  <2> QED
    BY <1>1, <2>1 DEF IInv, TypeOK, NewClient, Held
<1> QED
  BY <1>1, <1>3, <1>4, Assemble DEF IInv, TypeOK, world
-----------------------------------------------------------------------------
LEMMA InitInv == Init => IInv
<1> SUFFICES ASSUME Init PROVE IInv
  OBVIOUS
<1>1. 0 \in Nat /\ issued = 0 /\ 0 \in 0..MaxGen
  BY BoundAssumption DEF Init
<1>2. None \notin Token
  BY NoneAssumption
<1>3. EmptyStore \in Store /\ StoreOK(EmptyStore, 0)
  BY EmptyStoreOK DEF StoreOK
<1>4. PICK box \in MaybeServer :
        /\ store = [EmptyStore EXCEPT !.box = box]
        /\ mem = [c \in Clients |-> [url |-> box, tok |-> None]]
  BY DEF Init
<1>5. StoreOK(store, 0)
  <2>1. store \in Store /\ store.auth = EmptyStore.auth
    BY <1>3, <1>4 DEF Store
  <2> QED
    BY <1>3, <2>1 DEF StoreOK, FiledIn
<1>6. CallOK(NewCall, 0) /\ NewCall \in Call
  BY NewCallOK DEF CallOK
<1>7. \A p \in Callers : CallOK(call[p], issued)
  BY <1>1, <1>6 DEF Init
<1>8. /\ mem \in [Clients -> [url: MaybeServer, tok: Token \cup {None}]]
      /\ \A c \in Clients : Held(mem[c].tok, issued)
  BY <1>2, <1>4 DEF Held
<1>9. TypeOK
  BY <1>1, <1>5, <1>6, <1>8 DEF Init, TypeOK, StoreOK
<1> QED
  BY <1>1, <1>5, <1>7, <1>8, <1>9 DEF IInv

LEMMA NextInv == IInv /\ [Next]_vars => IInv'
<1> SUFFICES ASSUME IInv, [Next]_vars PROVE IInv'
  OBVIOUS
<1>1. ASSUME NEW p \in Callers, Observe, CachedToken(p) \/ Continue(p) PROVE IInv'
  BY <1>1, CachedTokenInv, LookupInv, ResolveInv, RefreshGrantedInv,
     RefreshFailedInv, ApplyRefreshInv, SaveOpenInv, SaveWriteInv,
     CacheTokenInv, TakeTokenInv, SendAnsweredInv, SendDeniedInv, LearnAuthServerInv,
     RecordMappingInv DEF Continue
<1>2. ASSUME Environment, Observe PROVE IInv'
  BY <1>2, LoginInv, WorldInv, NewClientInv DEF Environment
<1>3. CASE UNCHANGED vars
  BY <1>3 DEF vars, IInv, TypeOK
<1> QED
  BY <1>1, <1>2, <1>3 DEF Next

(* The inductive invariant holds in every reachable state.                 *)
THEOREM Invariance == Spec => []IInv
<1>1. Init => IInv
  BY InitInv
<1>2. IInv /\ [Next]_vars => IInv'
  BY NextInv
<1> QED
  BY <1>1, <1>2, PTL DEF Spec

(* Every variable keeps its type: no step of a call, of another process or *)
(* of the gateway leaves a client in a state the code has no case for.     *)
THEOREM TypeCorrect == Spec => []TypeOK
<1>1. IInv => TypeOK
  BY DEF IInv
<1> QED
  BY <1>1, Invariance, PTL

(* The second request of a call carries a token of the server the denial   *)
(* named, and one the client took from the store is never the token just   *)
(* rejected.  A token that came with a refresh may be that one: nothing    *)
(* compares them.                                                          *)
THEOREM RetryAvoidsRejected == Spec => []RetryCredential
<1>1. IInv => RetryCredential
  BY DEF IInv, CallOK, Choosing, RetryCredential
<1> QED
  BY <1>1, Invariance, PTL

(* No interleaving files a token under another auth server.                *)
THEOREM Filed == Spec => []FiledUnderIssuer
<1>1. IInv => FiledUnderIssuer
  BY DEF IInv, CallOK, StoreOK, FiledUnderIssuer
<1> QED
  BY <1>1, Invariance, PTL
-----------------------------------------------------------------------------
(* Pinned clients.  PinnedIsInert is inductive once the types are known.   *)
Inert(p, c) ==
  ClientOf[p] \in Pinned =>
    /\ c.pc \in {"idle", "send", "learn"}
    /\ c.pc # "idle" => c.tok = PinTok
    /\ c.sends = IF c.pc = "learn" THEN 1 ELSE 0

LEMMA FinishedInert ==
  ASSUME NEW p \in Callers, NEW res
  PROVE  Inert(p, Finished(res))
BY DEF Inert, Finished, NewCall

LEMMA DenialInert ==
  ASSUME NEW p \in Callers, NEW status
  PROVE  Inert(p, Denial(status))
<1>1. \E res : Denial(status) = Finished(res)
  BY DEF Denial
<1> QED
  BY <1>1, FinishedInert

(* What a pinned client's caller does, and that others do not touch it.    *)
LEMMA PinnedStep ==
  ASSUME IInv, PinnedIsInert, NEW p \in Callers, CachedToken(p) \/ Continue(p)
  PROVE  PinnedIsInert'
<1>1. \A c \in Call : call' = [call EXCEPT ![p] = c] => call'[p] = c
  BY DEF IInv, TypeOK
<1>2. ClientOf[p] \in Clients /\ call \in [Callers -> Call] /\ call[p] \in Call
  BY ClientAssumption DEF IInv, TypeOK
<1>3. ASSUME NEW d, Update(p, d), Inert(p, d),
             \/ mem' = mem
             \/ /\ ClientOf[p] \notin Pinned
                /\ \E m : mem' = [mem EXCEPT ![ClientOf[p]].tok = m]
             \/ \E u : mem' = [mem EXCEPT ![ClientOf[p]].url = u]
      PROVE  PinnedIsInert'
  <2>1. ASSUME NEW c \in Pinned, c \in Clients, mem[c].tok = None
        PROVE  mem'[c].tok = None
    <3>1. mem \in [Clients -> [url: MaybeServer, tok: Token \cup {None}]]
      BY DEF IInv, TypeOK
    <3>2. ASSUME NEW m, mem' = [mem EXCEPT ![ClientOf[p]].tok = m],
                 ClientOf[p] \notin Pinned
          PROVE  mem'[c] = mem[c]
      BY <2>1, <3>1, <3>2
    <3>3. ASSUME NEW u, mem' = [mem EXCEPT ![ClientOf[p]].url = u]
          PROVE  mem'[c].tok = mem[c].tok
      BY <2>1, <3>1, <3>3
    <3> QED
      BY <1>3, <2>1, <3>2, <3>3
  <2>2. \A q \in Callers : call'[q] = IF q = p THEN d ELSE call[q]
    BY <1>2, <1>3 DEF Update
  <2> QED
    BY <1>3, <2>1, <2>2, ClientAssumption DEF PinnedIsInert, Inert
<1>4. CASE CachedToken(p)
  <2>1. CASE ClientOf[p] \in Pinned
    <3>1. Inert(p, [NewCall EXCEPT !.pc = "send", !.tok = PinTok])
      BY DEF Inert, NewCall
    <3> QED
      BY <1>3, <1>4, <2>1, <3>1 DEF CachedToken
  <2>2. CASE ClientOf[p] \notin Pinned
    <3>1. \A d : Inert(p, d)
      BY <2>2 DEF Inert
    <3> QED
      BY <1>3, <1>4, <2>2, <3>1 DEF CachedToken
  <2> QED
    BY <2>1, <2>2
<1>5. CASE ClientOf[p] \in Pinned /\ Continue(p)
  <2>1. TakeToken(p) \/ SendAnswered(p) \/ SendDenied(p) \/ LearnAuthServer(p)
    BY <1>5 DEF Continue, PinnedIsInert, Lookup, Resolve, RefreshGranted,
       RefreshFailed, ApplyRefresh, SaveOpen, SaveWrite, CacheToken, RecordMapping
  <2>2. CASE TakeToken(p) \/ SendAnswered(p)
    BY <1>3, <2>2, FinishedInert DEF TakeToken, SendAnswered
  <2>3. CASE SendDenied(p)
    <3>1. PICK status \in Codes, heed \in BOOLEAN : Update(p, Denied(p, status, heed))
      BY <2>3 DEF SendDenied, Codes
    <3>2. /\ call[p].tok = PinTok /\ call[p].sends = 0 /\ gate \in Servers
      BY <1>5, <2>3 DEF PinnedIsInert, SendDenied, IInv, TypeOK, MaybeServer
    <3> DEFINE d == Learns(call[p], 1, call[p].tok, status, gate)
    <3>3. Denied(p, status, heed) = d
      BY <1>2, <3>2, DeniedIs
    <3>4. d.pc = "learn" /\ d.tok = PinTok /\ d.sends = 1
      BY <1>2, <3>2, LearnsIs DEF MaybeToken
    <3> HIDE DEF d
    <3>5. Inert(p, d)
      BY <3>4 DEF Inert
    <3> QED
      BY <1>3, <2>3, <3>1, <3>3, <3>5 DEF SendDenied
  <2>4. CASE LearnAuthServer(p)
    <3>1. AfterLearn(p, call[p]) = Denial(call[p].status)
      BY <1>5 DEF AfterLearn
    <3>2. Update(p, Denial(call[p].status))
      BY <1>5, <2>4, <3>1 DEF LearnAuthServer
    <3> QED
      BY <1>3, <2>4, <3>2, DenialInert DEF LearnAuthServer
  <2> QED
    BY <2>1, <2>2, <2>3, <2>4
<1>6. CASE ClientOf[p] \notin Pinned /\ Continue(p)
  <2>1. \A d : Inert(p, d)
    BY <1>6 DEF Inert
  <2>2. \E d : Update(p, d)
    <3>1. CASE RefreshGranted(p)
      BY <3>1 DEF RefreshGranted
    <3>2. CASE RefreshFailed(p) \/ ApplyRefresh(p) \/ CacheToken(p)
      BY <3>2 DEF RefreshFailed, ApplyRefresh, CacheToken
    <3>3. CASE SaveOpen(p) \/ SaveWrite(p)
      BY <3>3 DEF SaveOpen, SaveWrite
    <3>4. CASE TakeToken(p) \/ SendAnswered(p) \/ SendDenied(p)
      BY <3>4 DEF TakeToken, SendAnswered, SendDenied
    <3>5. CASE Lookup(p) \/ Resolve(p)
      BY <3>5 DEF Lookup, Resolve
    <3>6. CASE LearnAuthServer(p) \/ RecordMapping(p)
      BY <3>6 DEF LearnAuthServer, RecordMapping
    <3> QED
      BY <1>6, <3>1, <3>2, <3>3, <3>4, <3>5, <3>6, ZenonT(30) DEF Continue
  <2>3. \/ mem' = mem
        \/ \E m : mem' = [mem EXCEPT ![ClientOf[p]].tok = m]
        \/ \E u : mem' = [mem EXCEPT ![ClientOf[p]].url = u]
    BY <1>6, ZenonT(60) DEF Continue, Lookup, Resolve, RefreshGranted, RefreshFailed,
       ApplyRefresh, SaveOpen, SaveWrite, CacheToken, TakeToken, SendAnswered, SendDenied,
       LearnAuthServer, RecordMapping
  <2> QED
    BY <1>3, <1>6, <2>1, <2>2, <2>3
<1> QED
  BY <1>4, <1>5, <1>6

LEMMA PinnedNext == IInv /\ PinnedIsInert /\ [Next]_vars => PinnedIsInert'
<1> SUFFICES ASSUME IInv, PinnedIsInert, [Next]_vars PROVE PinnedIsInert'
  OBVIOUS
<1>1. ASSUME NEW p \in Callers, CachedToken(p) \/ Continue(p) PROVE PinnedIsInert'
  BY <1>1, PinnedStep
<1>2. ASSUME NEW c \in Clients, NewClient(c) PROVE PinnedIsInert'
  BY <1>2, ClientAssumption DEF NewClient, PinnedIsInert, NewCall, IInv, TypeOK
<1>3. ASSUME call' = call, mem' = mem PROVE PinnedIsInert'
  BY <1>3 DEF PinnedIsInert
<1> QED
  BY <1>1, <1>2, <1>3 DEF Next, Environment, Login, GrowStale, Revoke,
     Reconfigure, vars

(* A pinned client sends its own token, once, and reaches neither the      *)
(* store nor the cache.                                                    *)
THEOREM PinnedInert == Spec => []PinnedIsInert
<1>1. Init => PinnedIsInert
  BY ClientAssumption DEF Init, PinnedIsInert, NewCall
<1>2. IInv /\ PinnedIsInert /\ [Next]_vars => PinnedIsInert'
  BY PinnedNext
<1> QED
  BY <1>1, <1>2, Invariance, PTL DEF Spec

(* No step of a pinned client's caller changes the store.                  *)
THEOREM PinnedWritesNothing == Spec => PinnedNeverWrites
<1> DEFINE Quiet == \A p \in Callers :
             ClientOf[p] \in Pinned /\ call'[p] # call[p] => store' = store
<1>1. IInv /\ PinnedIsInert /\ [Next]_vars => [Quiet]_vars
  <2> SUFFICES ASSUME IInv, PinnedIsInert, Next, store' # store,
                      NEW p \in Callers, ClientOf[p] \in Pinned
               PROVE  call'[p] = call[p]
    OBVIOUS
  <2>1. call \in [Callers -> Call]
    BY DEF IInv, TypeOK
  <2>2. ASSUME NEW q \in Callers, CachedToken(q) \/ Continue(q)
        PROVE  call'[p] = call[p]
    <3>1. SaveOpen(q) \/ SaveWrite(q)
      BY <2>2, ZenonT(30) DEF Continue, CachedToken, Lookup, Resolve, RefreshGranted,
         RefreshFailed, ApplyRefresh, CacheToken, TakeToken, SendAnswered, SendDenied,
         LearnAuthServer, RecordMapping
    <3>2. call[q].pc \in {"open", "write"} /\ \E d : Update(q, d)
      BY <3>1 DEF SaveOpen, SaveWrite
    <3>3. q # p
      BY <3>2 DEF PinnedIsInert
    <3> QED
      BY <2>1, <3>2, <3>3 DEF Update
  <2>3. ASSUME Environment PROVE call'[p] = call[p]
    BY <2>3 DEF Environment, Login, GrowStale, Revoke, Reconfigure, NewClient
  <2> QED
    BY <2>2, <2>3 DEF Next
<1> QED
  BY <1>1, Invariance, PinnedInert, PTL DEF Spec, PinnedNeverWrites
-----------------------------------------------------------------------------
(* No needless sign-in.  While the store keeps a good token w through a    *)
(* call, the second half of that call deals with w's server, has not tried *)
(* w yet, and picks it up from the store rather than refresh.              *)
Served(p, c, w) ==
  /\ c.pc # "idle" /\ c.sends = 1 =>
       /\ c.url = w.srv
       /\ c.status = 401 => c.first # w
       /\ c.pc \in {"cache", "send"} => c.tok = w
       /\ c.pc \notin {"refresh", "merge"}
       /\ c.pc \in {"open", "write"} => c.then = "decide"
       /\ c.pc = "resolve" => c.status = 401
  /\ c.sends = 2 => c.status # 401
  /\ c.pc = "idle" /\ c.res = "authRequired" => ClientOf[p] \in Pinned

WInv ==
  \A p \in Callers :
    witness[p] # None =>
      /\ call[p].pc # "idle" => witness[p] = GoodStored
      /\ Served(p, call[p], witness[p])

LEMMA GoodStoredIs ==
  ASSUME IInv, NEW w, w # None, GoodStored = w
  PROVE  /\ gate \in Servers /\ w = store.auth[gate].tok
         /\ w \in valid /\ w \in Token /\ w.srv = gate /\ IsFresh(w)
<1>1. gate # None /\ w = store.auth[gate].tok /\ w \in valid /\ IsFresh(w)
  BY DEF GoodStored
<1>2. gate \in Servers
  BY <1>1 DEF IInv, TypeOK, MaybeServer
<1>3. w \in Token /\ w.srv = gate
  BY <1>1, <1>2 DEF IInv, StoreOK, FiledIn, Store, Entry
<1> QED
  BY <1>1, <1>2, <1>3

LEMMA FinishedServed ==
  ASSUME NEW p \in Callers, NEW w, NEW res, res # "authRequired"
  PROVE  Served(p, Finished(res), w)
BY DEF Finished, NewCall, Served

LEMMA DenialServed ==
  ASSUME NEW p \in Callers, NEW w, NEW status,
         status # 401 \/ ClientOf[p] \in Pinned
  PROVE  Served(p, Denial(status), w)
<1>1. CASE status # 401
  <2>1. \E res : res # "authRequired" /\ Denial(status) = Finished(res)
    BY <1>1 DEF Denial
  <2> QED
    BY <2>1, FinishedServed
<1>2. CASE ClientOf[p] \in Pinned
  <2>1. \E res : Denial(status) = Finished(res)
    BY DEF Denial
  <2> QED
    BY <1>2, <2>1 DEF Finished, NewCall, Served
<1> QED
  BY <1>1, <1>2

LEMMA UnresolvedServed ==
  ASSUME NEW p \in Callers, NEW w, NEW c \in Call, c.sends = 0
  PROVE  Served(p, Unresolved(c), w)
<1> DEFINE d == Unresolved(c)
<1>1. d.pc = "send" /\ d.sends = 0
  BY DEF Unresolved, Call
<1> HIDE DEF d
<1>2. Served(p, d, w)
  BY <1>1 DEF Served
<1> QED
  BY <1>2 DEF d

LEMMA AfterLearnServed ==
  ASSUME NEW p \in Callers, NEW w, NEW c \in Call, c.pc # "idle",
         c.sends # 0, Served(p, c, w)
  PROVE  Served(p, AfterLearn(p, c), w)
<1>1. CASE c.status = 401 /\ c.sends = 1 /\ ClientOf[p] \notin Pinned
  <2> DEFINE d == AfterLearn(p, c)
  <2>1. d = [c EXCEPT !.pc = "resolve", !.snap = EmptyStore]
    BY <1>1 DEF AfterLearn
  <2>2. /\ d.pc = "resolve" /\ d.sends = 1 /\ d.url = c.url
        /\ d.status = 401 /\ d.first = c.first
    BY <1>1, <2>1 DEF Call
  <2> HIDE DEF d
  <2>3. Served(p, d, w)
    BY <1>1, <2>2 DEF Served
  <2> QED
    BY <2>3 DEF d
<1>2. CASE ~(c.status = 401 /\ c.sends = 1 /\ ClientOf[p] \notin Pinned)
  <2>1. c.status # 401 \/ ClientOf[p] \in Pinned
    BY <1>2 DEF Served, Call
  <2>2. AfterLearn(p, c) = Denial(c.status)
    BY <1>2 DEF AfterLearn
  <2> QED
    BY <2>1, <2>2, DenialServed
<1> QED
  BY <1>1, <1>2

LEMMA AfterSaveServed ==
  ASSUME NEW p \in Callers, NEW w, NEW c \in Call, NEW n, CallOK(c, n),
         c.pc \in {"open", "write"}, Served(p, c, w)
  PROVE  Served(p, AfterSave(p, c), w)
<1>1. CASE c.then = "cache"
  <2> DEFINE d == AfterSave(p, c)
  <2>1. d = [c EXCEPT !.pc = "cache", !.snap = EmptyStore]
    BY <1>1 DEF AfterSave
  <2>2. d.pc = "cache" /\ d.sends = c.sends
    BY <2>1 DEF Call
  <2>3. c.sends # 1 /\ c.sends # 2
    BY <1>1 DEF Served, CallOK, Learning
  <2> HIDE DEF d
  <2>4. Served(p, d, w)
    BY <2>2, <2>3 DEF Served
  <2> QED
    BY <2>4 DEF d
<1>2. CASE c.then # "cache"
  <2>1. c.then = "decide"
    BY <1>2 DEF CallOK, Call
  <2>2. c.sends # 0
    BY <2>1 DEF CallOK, Learning
  <2> QED
    BY <1>2, <2>2, AfterLearnServed DEF AfterSave
<1> QED
  BY <1>1, <1>2

(* The caller's own steps.                                                 *)
LEMMA ContinueServed ==
  ASSUME IInv, PinnedIsInert, NEW p \in Callers, Continue(p),
         NEW w, w # None, w = GoodStored, Served(p, call[p], w)
  PROVE  Served(p, call'[p], w)
<1> DEFINE c == call[p]
<1>1. c \in Call /\ CallOK(c, issued) /\ call \in [Callers -> Call]
  BY DEF IInv, TypeOK
<1>2. /\ gate \in Servers /\ w = store.auth[gate].tok
      /\ w \in valid /\ w \in Token /\ w.srv = gate /\ IsFresh(w)
  BY GoodStoredIs
<1>3. ASSUME NEW d, Update(p, d) PROVE call'[p] = d
  BY <1>1, <1>3 DEF Update
<1>4. /\ c.sends = 0 \/ c.sends = 1 \/ c.sends = 2
      /\ c.sends = 2 => Learning(c) /\ c.status # 401
  BY <1>1 DEF Call, CallOK, Served
<1> HIDE DEF c
<1>5. CASE Lookup(p)
  <2>1. c.sends = 0
    BY <1>1, <1>5 DEF CallOK, Lookup, c
  <2>2. call'[p].pc # "idle" /\ call'[p].sends = c.sends
    BY <1>1, <1>5 DEF Lookup, Update, Call, c
  <2> QED
    BY <2>1, <2>2 DEF Served
<1>6. CASE Resolve(p)
  <2> DEFINE ent == store.auth[c.url]
             e   == [c EXCEPT !.ent = ent]
             d   == [e EXCEPT !.pc = "cache", !.tok = ent.tok]
  <2>1. c.pc = "resolve"
    BY <1>6 DEF Resolve, c
  <2>4. /\ e \in Call /\ e.url = c.url /\ e.first = c.first /\ e.sends = c.sends
        /\ e.status = c.status
    <3>1. ent \in Entry
      BY <1>1, <2>1 DEF CallOK, IInv, TypeOK, Store
    <3> HIDE DEF ent
    <3> QED
      BY <1>1, <3>1 DEF Call
  <2>2. CASE c.sends = 1
    <3>1. ent.tok = w /\ c.status = 401 /\ c.first # w /\ c.url = w.srv
      BY <1>2, <2>1, <2>2 DEF Served, c
    <3>2. UsableStored(ent.tok, Avoid(p))
      BY <1>2, <2>2, <3>1 DEF UsableStored, Avoid, c
    <3>3. Update(p, d)
      BY <1>6, <3>2 DEF Resolve, c
    <3>4. /\ d.pc = "cache" /\ d.tok = w /\ d.url = c.url
          /\ d.first = c.first /\ d.sends = c.sends /\ d.status = c.status
      <4> HIDE DEF e, ent
      <4> QED
        BY <2>4, <3>1 DEF Call
    <3> HIDE DEF d
    <3>5. Served(p, d, w)
      BY <2>2, <3>1, <3>4 DEF Served
    <3> QED
      BY <1>3, <3>3, <3>5
  <2>3. CASE c.sends = 0
    <3> DEFINE f == [e EXCEPT !.pc = "refresh"]
    <3>1. d.pc = "cache" /\ d.sends = 0
      <4> HIDE DEF e, ent
      <4> QED
        BY <2>3, <2>4 DEF Call
    <3>2. e \in Call /\ e.sends = 0
      BY <2>3, <2>4
    <3>3. f.pc = "refresh" /\ f.sends = 0
      <4> HIDE DEF e
      <4> QED
        BY <3>2 DEF Call
    <3>4. Update(p, d) \/ Update(p, Unresolved(e)) \/ Update(p, f)
      BY <1>6 DEF Resolve, c
    <3> HIDE DEF d, e, f
    <3>5. Served(p, d, w) /\ Served(p, f, w) /\ Served(p, Unresolved(e), w)
      BY <3>1, <3>2, <3>3, UnresolvedServed DEF Served
    <3> QED
      BY <1>3, <3>4, <3>5
  <2> QED
    BY <1>4, <2>1, <2>2, <2>3 DEF Learning
<1>7. CASE RefreshGranted(p) \/ RefreshFailed(p)
  <2>1. c.pc = "refresh" /\ c.sends = 0
    BY <1>4, <1>7 DEF RefreshGranted, RefreshFailed, Served, Learning, c
  <2>2. \/ Update(p, Unresolved(c))
        \/ \E t, k : Update(p, [c EXCEPT !.pc = "merge", !.tok = t,
                                         !.ent = NoEntry, !.setCookie = k])
    BY <1>7 DEF RefreshGranted, RefreshFailed, c
  <2>3. ASSUME NEW t, NEW k
        PROVE  Served(p, [c EXCEPT !.pc = "merge", !.tok = t,
                                   !.ent = NoEntry, !.setCookie = k], w)
    <3> DEFINE d == [c EXCEPT !.pc = "merge", !.tok = t, !.ent = NoEntry,
                              !.setCookie = k]
    <3>1. d.pc = "merge" /\ d.sends = 0
      BY <1>1, <2>1 DEF Call
    <3> HIDE DEF d
    <3>2. Served(p, d, w)
      BY <3>1 DEF Served
    <3> QED
      BY <3>2 DEF d
  <2>4. Served(p, Unresolved(c), w)
    BY <1>1, <2>1, UnresolvedServed
  <2>5. ASSUME NEW d, Update(p, d), Served(p, d, w) PROVE Served(p, call'[p], w)
    BY <1>3, <2>5
  <2> QED
    BY <2>2, <2>3, <2>4, <2>5
<1>8. CASE ApplyRefresh(p)
  <2>1. c.pc = "merge" /\ c.sends = 0
    BY <1>4, <1>8 DEF ApplyRefresh, Served, Learning, c
  <2>2. call'[p].pc = "open" /\ call'[p].sends = 0
    BY <1>1, <1>8, <2>1 DEF ApplyRefresh, Update, Call, c
  <2> QED
    BY <2>2 DEF Served
<1>9. CASE SaveOpen(p) \/ SaveWrite(p)
  <2>1. c.pc \in {"open", "write"} /\ Served(p, AfterSave(p, c), w)
    BY <1>1, <1>9, AfterSaveServed DEF SaveOpen, SaveWrite, c
  <2>2. Update(p, AfterSave(p, c)) \/ Update(p, [c EXCEPT !.pc = "write"])
    BY <1>9 DEF SaveOpen, SaveWrite, c
  <2> DEFINE d == [c EXCEPT !.pc = "write"]
  <2>3. /\ d.pc = "write" /\ d.sends = c.sends /\ d.url = c.url /\ d.then = c.then
        /\ d.status = c.status /\ d.first = c.first
    BY <1>1 DEF Call
  <2> HIDE DEF d
  <2>4. Served(p, d, w)
    BY <2>1, <2>3 DEF Served, c
  <2> QED
    BY <1>3, <2>1, <2>2, <2>4 DEF d
<1>10. CASE CacheToken(p)
  <2> DEFINE d == [c EXCEPT !.pc = "send"]
  <2>1. c.pc = "cache" /\ Update(p, d)
    BY <1>10 DEF CacheToken, c
  <2>2. /\ d.pc = "send" /\ d.sends = c.sends /\ d.url = c.url /\ d.tok = c.tok
        /\ d.status = c.status /\ d.first = c.first
    BY <1>1 DEF Call
  <2> HIDE DEF d
  <2>3. Served(p, d, w)
    BY <2>1, <2>2 DEF Served, c
  <2> QED
    BY <1>3, <2>1, <2>3
<1>11. CASE TakeToken(p) \/ SendAnswered(p)
  <2>1. PICK res \in {"ok", "error", "taken"} : Update(p, Finished(res))
    BY <1>11 DEF TakeToken, SendAnswered
  <2> QED
    BY <1>3, <2>1, FinishedServed
<1>12. CASE SendDenied(p)
  <2>1. PICK status \in Codes, heed \in BOOLEAN :
          /\ status = 401 => ~Accepts(c.tok)
          /\ Update(p, Denied(p, status, heed))
    BY <1>12 DEF SendDenied, Codes, c
  <2>2. c.pc = "send" /\ c.sends # 2
    BY <1>4, <1>12 DEF SendDenied, Learning, c
  <2>3. w \in [srv: {gate}, gen: 1..MaxGen]
    BY <1>2 DEF Token
  <2>4. Accepts(w)
    BY <1>2, <2>3 DEF Accepts
  <2>5. c.tok \in MaybeToken /\ c.first \in MaybeToken
    BY <1>1 DEF Call
  <2>6. CASE c.sends = 0
    <3>1. PICK a, tok, url : a = c /\ tok = c.tok /\ url = gate
      OBVIOUS
    <3>2. a \in Call /\ tok \in MaybeToken /\ url \in Servers
      BY <1>1, <1>2, <2>5, <3>1
    <3> DEFINE d == Learns(a, 1, tok, status, url)
    <3>3. Denied(p, status, heed) = d
      BY <1>1, <2>2, <2>6, <3>1, DeniedIs DEF c
    <3>4. /\ d.pc = "learn" /\ d.url = url /\ d.first = tok
          /\ d.status = status /\ d.sends = 1
      BY <3>2, LearnsIs
    <3>5. status = 401 => c.tok # w
      BY <2>1, <2>4
    <3> HIDE DEF d
    <3>6. Served(p, d, w)
      BY <1>2, <3>1, <3>4, <3>5 DEF Served
    <3> QED
      BY <1>3, <2>1, <3>3, <3>6
  <2>7. CASE c.sends = 1
    <3>1. PICK a, first, url : a = c /\ first = c.first /\ url = gate
      OBVIOUS
    <3>2. a \in Call /\ first \in MaybeToken /\ url \in Servers
      BY <1>1, <1>2, <2>5, <3>1
    <3> DEFINE d == Learns(a, 2, first, status, url)
    <3>3. Denied(p, status, heed) \in {d, Denial(status)}
      BY <1>1, <2>2, <2>7, <3>1, DeniedIs DEF c
    <3>4. status # 401
      BY <2>1, <2>2, <2>4, <2>7 DEF Served, c
    <3>5. d.pc = "learn" /\ d.sends = 2 /\ d.status = status
      BY <3>2, LearnsIs
    <3> HIDE DEF d
    <3>6. Served(p, d, w) /\ Served(p, Denial(status), w)
      BY <3>4, <3>5, DenialServed DEF Served
    <3> QED
      BY <1>3, <2>1, <3>3, <3>6
  <2> QED
    BY <1>4, <2>2, <2>6, <2>7
<1>13. CASE LearnAuthServer(p) \/ RecordMapping(p)
  <2>1. c.pc \in {"learn", "record"} /\ c.sends # 0
    BY <1>1, <1>13 DEF LearnAuthServer, RecordMapping, CallOK, Learning, c
  <2>2. Served(p, AfterLearn(p, c), w)
    BY <1>1, <2>1, AfterLearnServed DEF c
  <2> DEFINE d == [c EXCEPT !.pc = "record"]
             st == [store EXCEPT !.box = c.url]
             e == [c EXCEPT !.pc = "open", !.then = "decide", !.snap = st]
  <2>3. /\ d.pc = "record" /\ d.url = c.url /\ d.status = c.status
        /\ d.first = c.first /\ d.sends = c.sends
    BY <1>1 DEF Call
  <2>4. /\ e.pc = "open" /\ e.then = "decide" /\ e.url = c.url
        /\ e.status = c.status /\ e.first = c.first /\ e.sends = c.sends
    BY <1>1 DEF Call
  <2>5. Update(p, AfterLearn(p, c)) \/ Update(p, d) \/ Update(p, e)
    BY <1>13 DEF LearnAuthServer, RecordMapping, c
  <2> HIDE DEF d, e
  <2>6. Served(p, d, w) /\ Served(p, e, w)
    BY <2>1, <2>3, <2>4 DEF Served, c
  <2> QED
    BY <1>3, <2>2, <2>5, <2>6
<1> QED
  BY <1>5, <1>6, <1>7, <1>8, <1>9, <1>10, <1>11, <1>12, <1>13 DEF Continue

(* A step of a caller is not one of another's call.                        *)
LEMMA OtherCalls ==
  ASSUME IInv, NEW q \in Callers, CachedToken(q) \/ Continue(q), NEW p \in Callers, p # q
  PROVE  call'[p] = call[p]
<1>1. \E d : Update(q, d)
  <2>1. CASE RefreshGranted(q)
    BY <2>1 DEF RefreshGranted
  <2>2. CASE RefreshFailed(q) \/ ApplyRefresh(q) \/ CacheToken(q) \/ CachedToken(q)
    BY <2>2 DEF RefreshFailed, ApplyRefresh, CacheToken, CachedToken
  <2>3. CASE SaveOpen(q) \/ SaveWrite(q)
    BY <2>3 DEF SaveOpen, SaveWrite
  <2>4. CASE TakeToken(q) \/ SendAnswered(q) \/ SendDenied(q)
    BY <2>4 DEF TakeToken, SendAnswered, SendDenied
  <2>5. CASE Lookup(q) \/ Resolve(q)
    BY <2>5 DEF Lookup, Resolve
  <2>6. CASE LearnAuthServer(q) \/ RecordMapping(q)
    BY <2>6 DEF LearnAuthServer, RecordMapping
  <2> QED BY <2>1, <2>2, <2>3, <2>4, <2>5, <2>6 DEF Continue
<1> QED BY <1>1 DEF Update, IInv, TypeOK

(* What a step can do to one caller's call.                                *)
LEMMA StepOf ==
  ASSUME IInv, Next, NEW p \in Callers
  PROVE  \/ CachedToken(p)
         \/ Continue(p)
         \/ call'[p] = call[p]
         \/ call'[p] = NewCall
<1>1. ASSUME NEW q \in Callers, CachedToken(q) \/ Continue(q), q # p
      PROVE  call'[p] = call[p]
  BY <1>1, OtherCalls
<1>2. ASSUME Environment PROVE call'[p] = call[p] \/ call'[p] = NewCall
  BY <1>2 DEF Environment, Login, GrowStale, Revoke, Reconfigure, NewClient
<1> QED
  BY <1>1, <1>2 DEF Next

LEMMA WitnessNext == IInv /\ PinnedIsInert /\ WInv /\ [Next]_vars => WInv'
<1> SUFFICES ASSUME IInv, PinnedIsInert, WInv, [Next]_vars PROVE WInv'
  OBVIOUS
<1>1. CASE UNCHANGED vars
  BY <1>1 DEF vars, WInv, Served, GoodStored, IsFresh
<1>2. CASE Next
  <2> SUFFICES ASSUME NEW p \in Callers, witness'[p] # None
               PROVE  /\ call'[p].pc # "idle" => witness'[p] = GoodStored'
                      /\ Served(p, call'[p], witness'[p])
    BY DEF WInv, Served
  <2>1. witness'[p] =
          IF call'[p].pc = "idle" /\ call[p].pc = "idle" THEN witness[p]
          ELSE IF call[p].pc = "idle" \/ witness[p] = GoodStored' THEN GoodStored'
          ELSE None
    BY <1>2 DEF Next, Observe
  <2>2. \/ CachedToken(p)
        \/ Continue(p)
        \/ call'[p] = call[p]
        \/ call'[p] = NewCall
    BY <1>2, StepOf
  <2>3. Served(p, NewCall, witness'[p])
    BY DEF Served, NewCall
  <2>4. CASE call[p].pc # "idle"
    <3>1. witness'[p] = GoodStored' /\ witness[p] = witness'[p]
      BY <2>1, <2>4
    <3>2. witness'[p] = GoodStored /\ Served(p, call[p], witness'[p])
      BY <2>4, <3>1 DEF WInv
    <3>3. ~CachedToken(p)
      BY <2>4 DEF CachedToken
    <3>4. Continue(p) => Served(p, call'[p], witness'[p])
      BY <3>2, ContinueServed
    <3> QED
      BY <2>2, <2>3, <3>1, <3>2, <3>3, <3>4
  <2>5. CASE call[p].pc = "idle" /\ CachedToken(p)
    <3>1. call \in [Callers -> Call]
      BY DEF IInv, TypeOK
    <3>2. call'[p].pc # "idle" /\ call'[p].sends = 0
      <4>1. PICK t : \/ Update(p, [NewCall EXCEPT !.pc = "send", !.tok = t])
                     \/ Update(p, [NewCall EXCEPT !.pc = "lookup"])
        BY <2>5, Zenon DEF CachedToken
      <4>2. \/ call'[p] = [NewCall EXCEPT !.pc = "send", !.tok = t]
            \/ call'[p] = [NewCall EXCEPT !.pc = "lookup"]
        BY <3>1, <4>1 DEF Update
      <4>3. /\ [NewCall EXCEPT !.pc = "send", !.tok = t].pc = "send"
            /\ [NewCall EXCEPT !.pc = "send", !.tok = t].sends = 0
            /\ [NewCall EXCEPT !.pc = "lookup"].pc = "lookup"
            /\ [NewCall EXCEPT !.pc = "lookup"].sends = 0
        BY DEF NewCall
      <4> QED BY <4>2, <4>3
    <3> QED
      BY <2>1, <2>5, <3>2 DEF Served
  <2>6. CASE call[p].pc = "idle" /\ ~CachedToken(p)
    <3>1. ~Continue(p)
      BY <2>6, ZenonT(60) DEF Continue, Lookup, Resolve, RefreshGranted, RefreshFailed,
         ApplyRefresh, SaveOpen, SaveWrite, CacheToken, TakeToken, SendAnswered,
         SendDenied, LearnAuthServer, RecordMapping
    <3>2. call'[p] = call[p] \/ call'[p] = NewCall
      BY <2>2, <2>6, <3>1
    <3>3. call'[p].pc = "idle"
      BY <2>6, <3>2 DEF NewCall
    <3>4. witness'[p] = witness[p]
      BY <2>1, <2>6, <3>3
    <3> QED
      BY <2>3, <3>2, <3>3, <3>4 DEF WInv
  <2> QED
    BY <2>4, <2>5, <2>6
<1> QED
  BY <1>1, <1>2

(* A call that could have been let in with the stored token, had it been   *)
(* read at any moment of the call, does not ask the user to sign in.       *)
THEOREM SignInIsNeeded == Spec => []NoNeedlessSignIn
<1>1. Init => WInv
  BY DEF Init, WInv
<1>2. IInv /\ PinnedIsInert /\ WInv /\ [Next]_vars => WInv'
  BY WitnessNext
<1>3. IInv /\ WInv => NoNeedlessSignIn
  <2> SUFFICES ASSUME IInv, WInv, NEW p \in Callers,
                      call[p].pc = "idle", call[p].res = "authRequired",
                      ClientOf[p] \notin Pinned
               PROVE  witness[p] = None
    BY DEF NoNeedlessSignIn
  <2> QED
    BY DEF WInv, Served
<1> QED
  BY <1>1, <1>2, <1>3, Invariance, PinnedInert, PTL DEF Spec

-----------------------------------------------------------------------------
(* BearerToken implements GatewayAuth: whoever calls bearer_token, the     *)
(* client's token handling is what GatewayAuth specifies, and what is      *)
(* proved above holds there too.                                           *)
LEMMA AskingIs ==
  ASSUME NEW p \in Callers, Asking(p)
  PROVE  CachedToken(p) \/ Continue(p)
<1>1. CASE Ordinary(p) \/ Begin(p) \/ Again(p)
  BY <1>1 DEF Ordinary, Begin, Again
<1>2. CASE Seek(p) \/ Probe(p) \/ Health(p)
  BY <1>2 DEF Seek, Probe, Health
<1>3. CASE Take(p)
  BY <1>3 DEF Take, Continue
<1> QED
  BY <1>1, <1>2, <1>3 DEF Asking

(* Every step is one of GatewayAuth, or a look that changes nothing there. *)
LEMMA BearerStep == [BearerNext]_bearerVars => [Next]_vars
<1> SUFFICES ASSUME [BearerNext]_bearerVars PROVE [Next]_vars
  OBVIOUS
<1>1. CASE (\E p \in Callers : Asking(p)) /\ Observe
  BY <1>1, AskingIs DEF Next
<1>2. CASE Around /\ Observe
  BY <1>2 DEF Around, Next, Environment
<1>3. CASE \E p \in Callers : Ask(p) \/ Settle(p)
  BY <1>3 DEF Ask, Settle
<1>4. CASE UNCHANGED bearerVars
  BY <1>4 DEF bearerVars
<1> QED
  BY <1>1, <1>2, <1>3, <1>4 DEF BearerNext

(* A client whose callers also ask for bearer tokens is a client of        *)
(* GatewayAuth.                                                            *)
THEOREM BearerImplements == BearerSpec => Spec
<1>1. BearerInit => Init
  BY DEF BearerInit
<1>2. [BearerNext]_bearerVars => [Next]_vars
  BY BearerStep
<1> QED
  BY <1>1, <1>2, PTL DEF BearerSpec, Spec

(* Also in and beside bearer_token calls, a retry carries a token of the   *)
(* server that denied, and one taken from the store is not the rejected    *)
(* one.                                                                    *)
THEOREM BearerRetryAvoidsRejected == BearerSpec => []RetryCredential
  BY BearerImplements, RetryAvoidsRejected, PTL

(* Also beside bearer_token calls, a sign-in is only asked for when it is  *)
(* needed.                                                                 *)
THEOREM BearerSignInIsNeeded == BearerSpec => []NoNeedlessSignIn
  BY BearerImplements, SignInIsNeeded, PTL

-----------------------------------------------------------------------------
(* bearer_token tells the truth.  A client that knows of no gateway has no *)
(* token, in memory or in a call.                                          *)
Bare(c) == c.tok = None /\ c.pc \in {"idle", "lookup", "send", "learn"}
Knows(p) == mem[ClientOf[p]].url # None
NothingKnown ==
  \A p \in Callers :
    ClientOf[p] \notin Pinned /\ ~Knows(p) => mem[ClientOf[p]].tok = None /\ Bare(call[p])

LEMMA MemIs ==
  ASSUME IInv, NEW p \in Callers
  PROVE  /\ ClientOf[p] \in Clients /\ ClientOf[p] \in DOMAIN mem
         /\ mem[ClientOf[p]] \in [url: MaybeServer, tok: Token \cup {None}]
         /\ call[p] \in Call /\ CallOK(call[p], issued)
         /\ \A d : Update(p, d) => call'[p] = d
  BY ClientAssumption DEF IInv, TypeOK, Update

(* What a step of a caller does to the memory of a client.                 *)
LEMMA MemStep ==
  ASSUME IInv, NEW q \in Callers, CachedToken(q) \/ Continue(q), NEW p \in Callers
  PROVE  Knows(p) => Knows(p)'
<1>1. /\ mem \in [Clients -> [url: MaybeServer, tok: Token \cup {None}]]
      /\ ClientOf[q] \in Clients /\ ClientOf[p] \in Clients
  BY ClientAssumption DEF IInv, TypeOK
<1>2. \/ mem' = mem
      \/ \E m : mem' = [mem EXCEPT ![ClientOf[q]].tok = m]
      \/ call[q].pc = "learn" /\ mem' = [mem EXCEPT ![ClientOf[q]].url = call[q].url]
  BY ZenonT(60) DEF CachedToken, Continue, Lookup, Resolve, RefreshGranted, RefreshFailed,
     ApplyRefresh, SaveOpen, SaveWrite, CacheToken, TakeToken, SendAnswered, SendDenied,
     LearnAuthServer, RecordMapping
<1>3. ASSUME NEW m, mem' = [mem EXCEPT ![ClientOf[q]].tok = m]
      PROVE  mem'[ClientOf[p]].url = mem[ClientOf[p]].url
  BY <1>1, <1>3
<1>4. ASSUME call[q].pc = "learn", mem' = [mem EXCEPT ![ClientOf[q]].url = call[q].url]
      PROVE  Knows(p) => Knows(p)'
  <2>1. call[q].url # None
    BY <1>4, MemIs, NoneAssumption DEF CallOK
  <2> QED BY <1>1, <1>4, <2>1 DEF Knows
<1> QED BY <1>2, <1>3, <1>4 DEF Knows

LEMMA FinishedBare ==
  ASSUME NEW res
  PROVE  Bare(Finished(res)) /\ Finished(res).pc = "idle" /\ Finished(res).res = res
  BY DEF Bare, Finished, NewCall

LEMMA DenialBare ==
  ASSUME NEW status
  PROVE  /\ Bare(Denial(status)) /\ Denial(status).pc = "idle"
         /\ Denial(status).res \in {"authRequired", "forbidden", "unverified"}
<1>1. \E res \in {"authRequired", "forbidden", "unverified"} : Denial(status) = Finished(res)
  BY DEF Denial
<1> QED BY <1>1, FinishedBare

LEMMA LearnsBare ==
  ASSUME NEW c \in Call, NEW n \in {1, 2}, NEW first \in MaybeToken,
         NEW url \in Servers, NEW status \in Codes, c.tok = None
  PROVE  Bare(Learns(c, n, first, status, url))
<1> DEFINE d == Learns(c, n, first, status, url)
<1>1. d.pc = "learn" /\ d.tok = c.tok
  BY LearnsIs
<1> HIDE DEF d
<1> QED BY <1>1 DEF Bare, d

(* The caller's own steps, as long as its client learns of no gateway.     *)
LEMMA BareStep ==
  ASSUME IInv, NEW p \in Callers, CachedToken(p) \/ Continue(p), ClientOf[p] \notin Pinned,
         ~Knows(p), ~Knows(p)', mem[ClientOf[p]].tok = None, Bare(call[p])
  PROVE  mem'[ClientOf[p]].tok = None /\ Bare(call'[p])
<1>1. CASE CachedToken(p)
  <2>1. /\ mem' = [mem EXCEPT ![ClientOf[p]].tok = None]
        /\ Update(p, [NewCall EXCEPT !.pc = "lookup"])
    BY <1>1 DEF CachedToken
  <2>2. Bare([NewCall EXCEPT !.pc = "lookup"])
    BY DEF Bare, NewCall
  <2> QED BY <2>1, <2>2, MemIs
<1>2. CASE Continue(p)
  <2>1. Lookup(p) \/ TakeToken(p) \/ SendAnswered(p) \/ SendDenied(p) \/ LearnAuthServer(p)
    BY <1>2 DEF Continue, Bare, Resolve, RefreshGranted, RefreshFailed, ApplyRefresh,
       SaveOpen, SaveWrite, CacheToken, RecordMapping
  <2>2. CASE Lookup(p)
    <3>1. Update(p, [call[p] EXCEPT !.pc = "send", !.tok = None]) /\ mem' = mem
      BY <2>2 DEF Lookup, Knows
    <3>2. Bare([call[p] EXCEPT !.pc = "send", !.tok = None])
      BY MemIs DEF Bare, Call
    <3> QED BY <3>1, <3>2, MemIs
  <2>3. CASE TakeToken(p) \/ SendAnswered(p)
    <3>1. \E res : Update(p, Finished(res))
      BY <2>3 DEF TakeToken, SendAnswered
    <3>2. mem' = mem
      BY <2>3 DEF TakeToken, SendAnswered
    <3> QED BY <3>1, <3>2, FinishedBare, MemIs
  <2>4. CASE SendDenied(p)
    <3>1. PICK status \in Codes, heed \in BOOLEAN : Update(p, Denied(p, status, heed))
      BY <2>4 DEF SendDenied, Codes
    <3>2. gate \in Servers /\ mem' = mem /\ call[p].pc = "send"
      BY <2>4 DEF SendDenied, IInv, TypeOK, MaybeServer
    <3>3. call[p].sends # 2 /\ call[p] \in Call
      BY <3>2, MemIs DEF CallOK, Learning
    <3>4. call[p].tok \in MaybeToken /\ call[p].first \in MaybeToken
      BY <3>3 DEF Call
    <3>5. ASSUME NEW n \in {1, 2}, NEW first \in MaybeToken
          PROVE  Bare(Learns(call[p], n, first, status, gate))
      <4>1. call[p].tok = None
        BY DEF Bare
      <4>2. status \in Codes /\ gate \in Servers /\ call[p] \in Call
        BY <3>1, <3>2, <3>3
      <4> QED BY <4>1, <4>2, LearnsBare
    <3>6. Bare(Denied(p, status, heed))
      BY <3>3, <3>4, <3>5, DeniedIs, DenialBare
    <3> QED BY <3>1, <3>2, <3>6, MemIs
  <2>5. CASE LearnAuthServer(p)
    <3>1. mem' = [mem EXCEPT ![ClientOf[p]].url = call[p].url] /\ call[p].pc = "learn"
      BY <2>5 DEF LearnAuthServer
    <3>2. mem'[ClientOf[p]].url = call[p].url /\ call[p].url # None
      BY <3>1, MemIs, NoneAssumption DEF CallOK
    <3> QED BY <3>2 DEF Knows
  <2> QED BY <2>1, <2>2, <2>3, <2>4, <2>5
<1> QED BY <1>1, <1>2

(* The token of a client that still knows of no gateway.                   *)
LEMMA NoTokenYet ==
  ASSUME IInv, NothingKnown, NEW q \in Callers, CachedToken(q) \/ Continue(q),
         NEW p \in Callers, ClientOf[p] \notin Pinned, ~Knows(p)'
  PROVE  mem'[ClientOf[p]].tok = None
<1>1. ~Knows(p) /\ mem[ClientOf[p]].tok = None
  BY MemStep DEF NothingKnown
<1>2. CASE ClientOf[q] = ClientOf[p]
  <2>1. ~Knows(q) /\ ~Knows(q)'
    BY <1>1, <1>2 DEF Knows
  <2>2. Bare(call[q])
    BY <1>2, <2>1 DEF NothingKnown
  <2> QED BY <1>1, <1>2, <2>1, <2>2, BareStep
<1>3. CASE ClientOf[q] # ClientOf[p]
  <2>1. \/ mem' = mem
        \/ \E m : mem' = [mem EXCEPT ![ClientOf[q]].tok = m]
        \/ \E u : mem' = [mem EXCEPT ![ClientOf[q]].url = u]
    BY ZenonT(60) DEF CachedToken, Continue, Lookup, Resolve, RefreshGranted, RefreshFailed,
       ApplyRefresh, SaveOpen, SaveWrite, CacheToken, TakeToken, SendAnswered, SendDenied,
       LearnAuthServer, RecordMapping
  <2>2. mem'[ClientOf[p]] = mem[ClientOf[p]]
    BY <1>3, <2>1, MemIs DEF IInv, TypeOK
  <2> QED BY <1>1, <2>2
<1> QED BY <1>2, <1>3

LEMMA NothingKnownNext == IInv /\ NothingKnown /\ [Next]_vars => NothingKnown'
<1> SUFFICES ASSUME IInv, NothingKnown, [Next]_vars, NEW p \in Callers,
                    ClientOf[p] \notin Pinned, ~Knows(p)'
             PROVE  mem'[ClientOf[p]].tok = None /\ Bare(call'[p])
  BY DEF NothingKnown, Bare
<1>1. ASSUME NEW q \in Callers, CachedToken(q) \/ Continue(q)
      PROVE  mem'[ClientOf[p]].tok = None /\ Bare(call'[p])
  <2>1. mem'[ClientOf[p]].tok = None /\ ~Knows(p)
    BY <1>1, NoTokenYet, MemStep
  <2>2. mem[ClientOf[p]].tok = None /\ Bare(call[p])
    BY <2>1 DEF NothingKnown
  <2>3. CASE q = p
    BY <1>1, <2>1, <2>2, <2>3, BareStep
  <2>4. CASE q # p
    BY <1>1, <2>1, <2>2, <2>4, OtherCalls
  <2> QED BY <2>3, <2>4
<1>2. ASSUME NEW c \in Clients, NewClient(c)
      PROVE  mem'[ClientOf[p]].tok = None /\ Bare(call'[p])
  <2>1. CASE ClientOf[p] = c
    BY <1>2, <2>1, MemIs DEF NewClient, Bare, NewCall
  <2>2. CASE ClientOf[p] # c
    <3>1. mem'[ClientOf[p]] = mem[ClientOf[p]] /\ call'[p] = call[p]
      BY <1>2, <2>2, MemIs DEF NewClient, IInv, TypeOK
    <3> QED BY <3>1 DEF NothingKnown, Knows
  <2> QED BY <2>1, <2>2
<1>3. ASSUME mem' = mem, call' = call
      PROVE  mem'[ClientOf[p]].tok = None /\ Bare(call'[p])
  BY <1>3 DEF NothingKnown, Knows
<1> QED
  BY <1>1, <1>2, <1>3 DEF Next, Environment, Login, GrowStale, Revoke, Reconfigure, vars

LEMMA KnowsNothing == Spec => []NothingKnown
<1>1. Init => NothingKnown
  BY ClientAssumption DEF Init, NothingKnown, Bare, NewCall
<1>2. IInv /\ NothingKnown /\ [Next]_vars => NothingKnown'
  BY NothingKnownNext
<1> QED BY <1>1, <1>2, Invariance, PTL DEF Spec

(***************************************************************************)
(* A call of bearer_token, as its history sees it.  While its client knows *)
(* the gateway and the store keeps a good token, current_token is sure of  *)
(* a token.                                                                *)
(***************************************************************************)
Sure(c) ==
  /\ c.sends = 0
  /\ \/ c.pc = "lookup"
     \/ c.pc = "resolve" /\ c.url = gate
     \/ c.pc \in {"cache", "send"} /\ c.tok # None

(* Something a sign-in would be needless for: the good token stays, and    *)
(* the client is not led astray.                                           *)
Easy(p) == seen[p].good # None /\ ~seen[p].astray

Truthful(p) ==
  LET pc == bearer[p].pc IN
  pc # "no" =>
    /\ p \in Takers
    /\ ClientOf[p] \in Pinned => pc = "first"
    /\ seen[p].good \in {None, GoodStored}
    /\ ~seen[p].astray => mem[ClientOf[p]].url \in {None, gate}
    /\ pc \in {"again", "second", "settle"} /\ ~Knows(p) => seen[p].plain
    /\ pc \in Taking /\ Easy(p) /\ Knows(p) /\ ClientOf[p] \notin Pinned => Sure(call[p])
    /\ pc \in {"ask", "settle"} /\ Easy(p) => ~Knows(p)

BInv ==
  /\ bearer \in [Callers -> [pc : Phase, res : Verdict]]
  /\ \A p \in Callers : Truthful(p)

(* What a step of bearer_token is to the caller that takes it, and to the  *)
(* others.                                                                 *)
Own(p) ==
  \/ Begin(p) \/ Again(p) \/ Seek(p) \/ Take(p) \/ Probe(p) \/ Health(p) \/ Ask(p) \/ Settle(p)
Aside(p) ==
  /\ bearer'[p] = bearer[p]
  /\ bearer[p].pc # "no" => call'[p] = call[p]
  /\ Knows(p) => Knows(p)'

LEMMA MovesOf ==
  ASSUME BInv, NEW q \in Callers
  PROVE  /\ \A pc : To(q, pc) => bearer'[q].pc = pc /\ bearer'[q].res = "none"
         /\ \A res : Return(q, res) => bearer'[q].pc = "no" /\ bearer'[q].res = res
  BY DEF BInv, To, Return

LEMMA OthersMoves ==
  ASSUME BInv, NEW q \in Callers, (\E pc : To(q, pc)) \/ (\E res : Return(q, res)),
         NEW p \in Callers \ {q}
  PROVE  bearer'[p] = bearer[p]
  BY DEF BInv, To, Return

LEMMA OwnMoves ==
  ASSUME NEW q \in Callers, Own(q)
  PROVE  /\ \/ \E pc \in Phase : To(q, pc)
            \/ \E res \in Verdict : Return(q, res)
            \/ bearer' = bearer
         /\ CachedToken(q) \/ Continue(q) \/ UNCHANGED vars
<1>1. CASE Begin(q) \/ Again(q) \/ Probe(q)
  BY <1>1 DEF Begin, Again, Probe, Phase
<1>2. CASE Seek(q)
  BY <1>2 DEF Seek
<1>3. CASE Take(q)
  BY <1>3 DEF Take, Continue, Phase, Verdict
<1>4. CASE Health(q)
  BY <1>4 DEF Health, Phase, Verdict
<1>5. CASE Ask(q) \/ Settle(q)
  BY <1>5 DEF Ask, Settle, Phase, Verdict
<1> QED BY <1>1, <1>2, <1>3, <1>4, <1>5 DEF Own

LEMMA BearerMoves ==
  ASSUME IInv, BInv, BearerNext, NEW p \in Callers
  PROVE  Own(p) \/ Aside(p) \/ bearer'[p] = Fresh
<1>1. ASSUME NEW q \in Callers, Own(q), q # p
      PROVE  Aside(p)
  <2>1. bearer'[p] = bearer[p]
    BY <1>1, OwnMoves, OthersMoves
  <2>2. CASE CachedToken(q) \/ Continue(q)
    BY <1>1, <2>1, <2>2, OtherCalls, MemStep DEF Aside
  <2>3. CASE UNCHANGED vars
    BY <2>1, <2>3 DEF vars, Aside, Knows
  <2> QED BY <1>1, <2>2, <2>3, OwnMoves
<1>2. ASSUME NEW q \in Callers, Ordinary(q)
      PROVE  Aside(p)
  <2>1. bearer' = bearer /\ q \notin Takers /\ (CachedToken(q) \/ Continue(q))
    BY <1>2 DEF Ordinary
  <2>2. bearer[q].pc = "no"
    BY <2>1 DEF BInv, Truthful
  <2> QED BY <2>1, <2>2, OtherCalls, MemStep DEF Aside
<1>3. ASSUME Around
      PROVE  Aside(p) \/ bearer'[p] = Fresh
  <2>1. CASE \E c \in Clients : NewClient(c) /\ bearer' = [q \in Callers |->
                                   IF ClientOf[q] = c THEN Fresh ELSE bearer[q]]
    <3>1. PICK c \in Clients : NewClient(c) /\ bearer' = [q \in Callers |->
                                   IF ClientOf[q] = c THEN Fresh ELSE bearer[q]]
      BY <2>1
    <3>2. CASE ClientOf[p] = c
      BY <3>1, <3>2
    <3>3. CASE ClientOf[p] # c
      <4>1. bearer'[p] = bearer[p]
        BY <3>1, <3>3
      <4>2. call'[p] = call[p] /\ mem'[ClientOf[p]] = mem[ClientOf[p]]
        BY <3>1, <3>3, MemIs DEF NewClient, IInv, TypeOK
      <4> QED BY <4>1, <4>2 DEF Aside, Knows
    <3> QED BY <3>2, <3>3
  <2>2. CASE bearer' = bearer /\ call' = call /\ mem' = mem
    BY <2>2 DEF Aside, Knows
  <2> QED BY <1>3, <2>1, <2>2 DEF Around, Login, GrowStale, Revoke, Reconfigure
<1> QED BY <1>1, <1>2, <1>3 DEF BearerNext, Asking, Own

(* What the history says after a step of a call under way.                 *)
LEMMA BeholdIs ==
  ASSUME Behold, NEW p \in Callers, bearer'[p].pc # "no"
  PROVE  /\ seen'[p].good \in {None, GoodStored'}
         /\ seen'[p].good # None /\ bearer[p].pc # "no" => seen[p].good = GoodStored'
         /\ bearer[p].pc # "no" /\ seen[p].plain => seen'[p].plain
         /\ gate = None => seen'[p].plain
         /\ ~seen'[p].astray =>
              /\ mem'[ClientOf[p]].url \in {None, gate'}
              /\ bearer[p].pc # "no" => ~seen[p].astray
              /\ bearer[p].pc # "health" => mem'[ClientOf[p]].url = mem[ClientOf[p]].url
<1> DEFINE was == IF bearer[p].pc = "no" THEN [Unseen EXCEPT !.good = GoodStored'] ELSE seen[p]
<1>1. seen'[p] =
        [good   |-> IF was.good = GoodStored' THEN was.good ELSE None,
         plain  |-> was.plain \/ gate = None \/ gate' = None,
         astray |-> \/ was.astray \/ mem'[ClientOf[p]].url \notin {None, gate'}
                    \/ bearer[p].pc # "health" /\ mem'[ClientOf[p]].url # mem[ClientOf[p]].url]
  BY DEF Behold
<1>2. bearer[p].pc # "no" => was = seen[p]
  OBVIOUS
<1> HIDE DEF was
<1> DEFINE plain == was.plain \/ gate = None \/ gate' = None
           strays == \/ mem'[ClientOf[p]].url \notin {None, gate'}
                     \/ bearer[p].pc # "health" /\ mem'[ClientOf[p]].url # mem[ClientOf[p]].url
           astray == was.astray \/ strays
<1>3. /\ seen'[p].good = IF was.good = GoodStored' THEN was.good ELSE None
      /\ seen'[p].plain = plain
      /\ seen'[p].astray = astray
  <2>1. seen'[p] = [good |-> IF was.good = GoodStored' THEN was.good ELSE None,
                    plain |-> plain, astray |-> astray]
    BY <1>1, Zenon
  <2> HIDE DEF plain, astray
  <2> QED BY <2>1
<1>4. /\ seen'[p].good \in {None, GoodStored'}
      /\ seen'[p].good # None /\ bearer[p].pc # "no" => seen[p].good = GoodStored'
  BY <1>2, <1>3
<1>5. /\ bearer[p].pc # "no" /\ seen[p].plain => seen'[p].plain
      /\ gate = None => seen'[p].plain
  BY <1>2, <1>3, Zenon
<1>6. ~seen'[p].astray =>
        /\ mem'[ClientOf[p]].url \in {None, gate'}
        /\ bearer[p].pc # "no" => ~seen[p].astray
        /\ bearer[p].pc # "health" => mem'[ClientOf[p]].url = mem[ClientOf[p]].url
  <2>1. ASSUME ~seen'[p].astray PROVE ~was.astray /\ ~strays
    BY <2>1, <1>3, Zenon
  <2>2. ASSUME ~strays
        PROVE  /\ mem'[ClientOf[p]].url \in {None, gate'}
               /\ bearer[p].pc # "health" => mem'[ClientOf[p]].url = mem[ClientOf[p]].url
    BY <2>2
  <2> HIDE DEF strays
  <2> QED BY <1>2, <2>1, <2>2
<1> QED BY <1>4, <1>5, <1>6

LEMMA GoodIsTheGates == IInv /\ GoodStored # None => GoodStored.srv = gate
  BY GoodStoredIs

(* If the good token is still there the gateway is still the same.         *)
LEMMA StillEasy ==
  ASSUME IInv, IInv', Behold, BInv, NEW p \in Callers, bearer[p].pc # "no",
         bearer'[p].pc # "no", Easy(p)'
  PROVE  /\ Easy(p) /\ GoodStored = seen[p].good /\ gate' = gate /\ gate \in Servers
         /\ GoodStored # None
         /\ mem'[ClientOf[p]].url \in {None, gate}
         /\ bearer[p].pc # "health" => (Knows(p)' <=> Knows(p))
<1>1. /\ seen'[p].good # None /\ seen'[p].good = GoodStored' /\ seen[p].good = GoodStored'
      /\ ~seen[p].astray /\ mem'[ClientOf[p]].url \in {None, gate'}
      /\ bearer[p].pc # "health" => mem'[ClientOf[p]].url = mem[ClientOf[p]].url
  BY BeholdIs DEF Easy
<1>2. seen[p].good \in {None, GoodStored}
  BY DEF BInv, Truthful
<1>3. GoodStored = GoodStored' /\ GoodStored # None
  BY <1>1, <1>2
<1>4. gate \in Servers /\ GoodStored.srv = gate
  BY <1>3, GoodStoredIs
<1>5. GoodStored' # None => GoodStored'.srv = gate'
  <2>1. (IInv /\ GoodStored # None => GoodStored.srv = gate)'
    BY GoodIsTheGates, PTL
  <2> QED BY <2>1
<1>6. gate' = gate
  BY <1>3, <1>4, <1>5
<1> QED BY <1>1, <1>2, <1>3, <1>4, <1>6 DEF Easy, Knows

LEMMA CachedSure ==
  ASSUME IInv, NEW p \in Callers, CachedToken(p), ClientOf[p] \notin Pinned
  PROVE  /\ call'[p].sends = 0
         /\ call'[p].pc = "lookup" \/ (call'[p].pc = "send" /\ call'[p].tok # None)
<1>1. CASE /\ mem[ClientOf[p]].tok # None
           /\ Update(p, [NewCall EXCEPT !.pc = "send", !.tok = mem[ClientOf[p]].tok])
  <2> DEFINE t == mem[ClientOf[p]].tok
             c == [NewCall EXCEPT !.pc = "send", !.tok = t]
  <2>1. call'[p] = c
    BY <1>1, MemIs, Zenon
  <2>2. t # None
    BY <1>1
  <2> HIDE DEF t
  <2>3. c.sends = 0 /\ c.pc = "send" /\ c.tok = t
    BY DEF NewCall
  <2> QED BY <2>1, <2>2, <2>3
<1>2. CASE Update(p, [NewCall EXCEPT !.pc = "lookup"])
  <2> DEFINE c == [NewCall EXCEPT !.pc = "lookup"]
  <2>1. call'[p] = c
    BY <1>2, MemIs, Zenon
  <2>2. c.sends = 0 /\ c.pc = "lookup"
    BY DEF NewCall
  <2> QED BY <2>1, <2>2
<1> QED BY <1>1, <1>2 DEF CachedToken

(* The gateway known and a good token in the store: it is found.           *)
LEMMA SureStep ==
  ASSUME IInv, NEW p \in Callers, Continue(p), call[p].pc # "send", Sure(call[p]),
         mem[ClientOf[p]].url = gate, gate # None, GoodStored # None
  PROVE  Sure(call'[p])
<1>1. Lookup(p) \/ Resolve(p) \/ CacheToken(p)
  BY DEF Continue, Sure, RefreshGranted, RefreshFailed, ApplyRefresh, SaveOpen, SaveWrite,
     TakeToken, SendAnswered, SendDenied, LearnAuthServer, RecordMapping
<1>2. call[p] \in Call /\ call[p].sends = 0
  BY MemIs DEF Sure
<1>3. CASE Lookup(p)
  <2>1. Update(p, [call[p] EXCEPT !.pc = "resolve", !.url = gate])
    BY <1>3 DEF Lookup
  <2>2. Sure([call[p] EXCEPT !.pc = "resolve", !.url = gate])
    BY <1>2 DEF Sure, Call
  <2> QED BY <2>1, <2>2, MemIs
<1>4. CASE Resolve(p)
  <2> DEFINE ent == store.auth[call[p].url]
             t == ent.tok
             e == [call[p] EXCEPT !.ent = ent]
             d == [e EXCEPT !.pc = "cache", !.tok = t]
  <2>1. call[p].pc = "resolve" /\ call[p].url = gate
    BY <1>4 DEF Resolve, Sure
  <2>2. t # None /\ IsFresh(t)
    BY <2>1, GoodStoredIs
  <2>3. UsableStored(t, Avoid(p))
    BY <1>2, <2>2 DEF UsableStored, Avoid
  <2>4. Update(p, d)
    BY <1>4, <2>3 DEF Resolve
  <2>5. e \in Call /\ e.sends = 0
    <3>1. ent \in Entry
      BY <1>2, <2>1 DEF IInv, StoreOK, Store, MaybeServer, Call
    <3> HIDE DEF ent
    <3> QED BY <1>2, <3>1 DEF Call
  <2> HIDE DEF t, e
  <2>6. Sure(d)
    BY <2>2, <2>5 DEF Sure, Call
  <2> QED BY <2>4, <2>6, MemIs
<1>5. CASE CacheToken(p)
  <2>1. Update(p, [call[p] EXCEPT !.pc = "send"]) /\ call[p].pc = "cache"
    BY <1>5 DEF CacheToken
  <2>2. Sure([call[p] EXCEPT !.pc = "send"])
    BY <1>2, <2>1 DEF Sure, Call
  <2> QED BY <2>1, <2>2, MemIs
<1> QED BY <1>1, <1>3, <1>4, <1>5

(* health() without a token is let in by a plain box only.                 *)
LEMMA LetInBare ==
  ASSUME IInv, NEW p \in Callers, Continue(p), ~Knows(p), ~Knows(p)', Bare(call[p]),
         call'[p].pc = "idle", call'[p].res = "ok"
  PROVE  gate = None
<1>1. Lookup(p) \/ TakeToken(p) \/ SendAnswered(p) \/ SendDenied(p) \/ LearnAuthServer(p)
  BY DEF Continue, Bare, Resolve, RefreshGranted, RefreshFailed, ApplyRefresh,
     SaveOpen, SaveWrite, CacheToken, RecordMapping
<1>2. CASE Lookup(p)
  <2>1. Update(p, [call[p] EXCEPT !.pc = "send", !.tok = None])
    BY <1>2 DEF Lookup, Knows
  <2>2. [call[p] EXCEPT !.pc = "send", !.tok = None].pc = "send"
    BY MemIs DEF Call
  <2> QED BY <2>1, <2>2, MemIs
<1>3. CASE TakeToken(p)
  BY <1>3, FinishedBare, MemIs DEF TakeToken
<1>4. CASE SendAnswered(p)
  <2>1. PICK res : (res = "ok" => gate = None \/ Accepts(call[p].tok)) /\ Update(p, Finished(res))
    BY <1>4 DEF SendAnswered
  <2>2. res = "ok" /\ call[p].tok = None
    BY <2>1, FinishedBare, MemIs DEF Bare
  <2>3. ~Accepts(None)
    BY NoneAssumption DEF Accepts, IInv, TypeOK
  <2> QED BY <2>1, <2>2, <2>3
<1>5. CASE SendDenied(p)
  <2>1. PICK status \in Codes, heed \in BOOLEAN : Update(p, Denied(p, status, heed))
    BY <1>5 DEF SendDenied, Codes
  <2>2. gate \in Servers /\ call[p].pc = "send"
    BY <1>5 DEF SendDenied, IInv, TypeOK, MaybeServer
  <2>3. call[p].sends # 2 /\ call[p] \in Call
    BY <2>2, MemIs DEF CallOK, Learning
  <2>4. call[p].tok \in MaybeToken /\ call[p].first \in MaybeToken
    BY <2>3 DEF Call
  <2>5. \A n \in {1, 2}, first \in MaybeToken :
          Learns(call[p], n, first, status, gate).pc = "learn"
    BY <2>2, <2>3, LearnsIs
  <2>6. Denied(p, status, heed).pc = "learn" \/ Denied(p, status, heed).res # "ok"
    BY <2>3, <2>4, <2>5, DeniedIs, DenialBare
  <2> QED BY <2>1, <2>6, MemIs
<1>6. CASE LearnAuthServer(p)
  <2>1. mem' = [mem EXCEPT ![ClientOf[p]].url = call[p].url] /\ call[p].pc = "learn"
    BY <1>6 DEF LearnAuthServer
  <2>2. mem'[ClientOf[p]].url = call[p].url /\ call[p].url # None
    BY <2>1, MemIs, NoneAssumption DEF CallOK
  <2> QED BY <2>2 DEF Knows
<1> QED BY <1>1, <1>2, <1>3, <1>4, <1>5, <1>6

(* A call of bearer_token stays truthful, whoever takes the step.          *)
LEMMA TruthfulStep ==
  ASSUME IInv, IInv', PinnedIsInert, NothingKnown, BInv, BearerNext, NEW p \in Callers
  PROVE  Truthful(p)'
<1> DEFINE pc == bearer[p].pc
           pc1 == bearer'[p].pc
           url == mem[ClientOf[p]].url
<1> SUFFICES ASSUME pc1 # "no"
             PROVE  /\ p \in Takers
                    /\ ClientOf[p] \in Pinned => pc1 = "first"
                    /\ pc1 \in {"again", "second", "settle"} /\ ~Knows(p)' => seen'[p].plain
                    /\ pc1 \in Taking /\ Easy(p)' /\ Knows(p)' /\ ClientOf[p] \notin Pinned
                         => Sure(call[p])'
                    /\ pc1 \in {"ask", "settle"} /\ Easy(p)' => ~Knows(p)'
  <2>1. Behold
    BY DEF BearerNext
  <2>2. pc1 # "no" => /\ seen'[p].good \in {None, GoodStored'}
                      /\ ~seen'[p].astray => mem'[ClientOf[p]].url \in {None, gate'}
    BY <2>1, BeholdIs
  <2> QED BY <2>2 DEF Truthful
<1>1. Behold
  BY DEF BearerNext
<1>2. Truthful(p)
  BY DEF BInv
<1>3. pc # "no" => p \in Takers /\ (ClientOf[p] \in Pinned => pc = "first")
  BY <1>2 DEF Truthful
<1>4. pc # "no" /\ seen[p].plain => seen'[p].plain
  BY <1>1, BeholdIs
<1>5. ASSUME pc # "no", Easy(p)'
      PROVE  /\ Easy(p) /\ gate' = gate /\ gate # None /\ GoodStored # None
             /\ url \in {None, gate} /\ (pc # "health" => (Knows(p)' <=> Knows(p)))
  <2>1. /\ Easy(p) /\ gate' = gate /\ gate \in Servers /\ GoodStored # None
        /\ pc # "health" => (Knows(p)' <=> Knows(p))
    BY <1>1, <1>5, StillEasy
  <2>2. url \in {None, gate}
    BY <1>2, <1>5, <2>1 DEF Truthful, Easy
  <2> QED BY <2>1, <2>2, NoneAssumption
<1>6. pc \in {"again", "second", "settle"} /\ ~Knows(p) => seen[p].plain
  BY <1>2 DEF Truthful
<1>7. ASSUME pc \in Taking, Easy(p), Knows(p), ClientOf[p] \notin Pinned
      PROVE  Sure(call[p])
  BY <1>2, <1>7 DEF Truthful, Taking
<1>8. pc \in {"ask", "settle"} /\ Easy(p) => ~Knows(p)
  BY <1>2 DEF Truthful
<1>9. To(p, pc1) \/ pc1 = pc \/ ~Own(p)
  <2>1. bearer' = bearer => pc1 = pc
    OBVIOUS
  <2>2. \A x : To(p, x) => pc1 = x
    BY MovesOf
  <2>3. \A res : Return(p, res) => pc1 = "no"
    BY MovesOf
  <2> HIDE DEF pc1
  <2> QED BY <2>1, <2>2, <2>3, OwnMoves
<1>10. \A x : To(p, x) => pc1 = x
  BY MovesOf
<1>11. \A res : ~Return(p, res)
  BY MovesOf
<1>12. ASSUME CachedToken(p) \/ Continue(p), ~Knows(p)'
       PROVE  ~Knows(p)
  BY <1>12, MemStep
<1> HIDE DEF pc, pc1
<1>13. ASSUME CachedToken(p), ClientOf[p] \notin Pinned
       PROVE  Sure(call[p])'
  <2>1. /\ call'[p].sends = 0
        /\ call'[p].pc = "lookup" \/ (call'[p].pc = "send" /\ call'[p].tok # None)
    BY <1>13, CachedSure
  <2> QED BY <2>1 DEF Sure
<1>14. CASE Begin(p)
  <2>1. p \in Takers /\ CachedToken(p) /\ pc1 = "first"
    BY <1>10, <1>14 DEF Begin
  <2> QED BY <1>13, <2>1
<1>15. CASE Again(p)
  <2>1. pc = "again" /\ CachedToken(p) /\ pc1 = "second"
    BY <1>10, <1>15 DEF Again, pc
  <2> QED BY <1>3, <1>4, <1>6, <1>12, <1>13, <2>1
<1>16. CASE Seek(p)
  <2>1. pc \in Taking /\ call[p].pc # "send" /\ Continue(p) /\ pc1 = pc
    BY <1>16 DEF Seek, pc, pc1
  <2>2. ASSUME Easy(p)', Knows(p)', ClientOf[p] \notin Pinned
        PROVE  Sure(call[p])'
    <3>1. /\ Easy(p) /\ Knows(p) /\ gate' = gate /\ gate # None /\ GoodStored # None
          /\ mem[ClientOf[p]].url = gate
      BY <1>5, <2>1, <2>2 DEF Taking, Knows
    <3>2. Sure(call'[p])
      BY <1>7, <2>1, <2>2, <3>1, SureStep
    <3> QED BY <3>1, <3>2 DEF Sure
  <2> QED BY <1>3, <1>4, <1>6, <1>12, <2>1, <2>2 DEF Taking
<1>17. CASE Take(p)
  <2>1. /\ pc \in Taking /\ TakeToken(p) /\ call[p].pc = "send" /\ mem' = mem
        /\ call[p].tok = None /\ pc1 = IF pc = "first" THEN "ask" ELSE "settle"
    BY <1>10, <1>11, <1>17 DEF Take, TakeToken, pc
  <2>2. ClientOf[p] \notin Pinned
    BY <2>1, NoneAssumption DEF PinnedIsInert
  <2>3. Easy(p)' => ~Knows(p)'
    BY <1>5, <1>7, <2>1, <2>2 DEF Sure, Taking
  <2>4. Knows(p)' = Knows(p)
    BY <2>1 DEF Knows
  <2> QED BY <1>3, <1>4, <1>6, <2>1, <2>2, <2>3, <2>4 DEF Taking
<1>18. CASE Ask(p)
  <2>1. /\ pc = "ask" /\ mem' = mem /\ pc1 = IF ~Knows(p) THEN "probe" ELSE "settle"
    BY <1>10, <1>18 DEF Ask, Knows, pc, vars
  <2>2. Knows(p)' = Knows(p)
    BY <2>1 DEF Knows
  <2> QED BY <1>3, <1>5, <1>8, <2>1, <2>2 DEF Taking
<1>19. CASE Probe(p)
  <2>1. pc = "probe" /\ pc1 = "health"
    BY <1>10, <1>19 DEF Probe, pc
  <2> QED BY <1>3, <2>1 DEF Taking
<1>20. CASE Health(p)
  <2>1. /\ pc = "health" /\ Continue(p)
        /\ pc1 = "health" \/ (pc1 = "again" /\ Ends(p) /\ call'[p].res = "ok")
    BY <1>10, <1>11, <1>20 DEF Health, pc, pc1
  <2>2. ClientOf[p] \notin Pinned
    BY <1>3, <2>1
  <2>3. ASSUME pc1 = "again", ~Knows(p)'
        PROVE  seen'[p].plain
    <3>1. ~Knows(p) /\ Bare(call[p])
      BY <1>12, <2>1, <2>2, <2>3 DEF NothingKnown
    <3>2. call'[p].pc = "idle" /\ call'[p].res = "ok"
      BY <2>1, <2>3 DEF Ends
    <3>3. gate = None
      BY <2>1, <2>3, <3>1, <3>2, LetInBare
    <3> QED BY <1>1, <3>3, BeholdIs DEF pc1
  <2> QED BY <1>3, <2>1, <2>2, <2>3 DEF Taking
<1>21. CASE Settle(p)
  BY <1>11, <1>21 DEF Settle
<1>22. CASE Aside(p)
  <2>1. pc1 = pc /\ call'[p] = call[p] /\ (~Knows(p)' => ~Knows(p))
    <3>1. bearer'[p] = bearer[p] /\ (Knows(p) => Knows(p)')
      BY <1>22 DEF Aside
    <3>2. bearer[p].pc # "no"
      BY <3>1 DEF pc1
    <3> QED BY <1>22, <3>1, <3>2 DEF Aside, pc, pc1
  <2>2. ASSUME pc \in Taking, Easy(p)', Knows(p)', ClientOf[p] \notin Pinned
        PROVE  Sure(call[p])'
    <3>1. Easy(p) /\ Knows(p) /\ gate' = gate
      BY <1>5, <2>1, <2>2 DEF Taking
    <3>2. Sure(call[p])
      BY <1>7, <2>2, <3>1
    <3> QED BY <2>1, <3>1, <3>2 DEF Sure
  <2>3. pc \in {"ask", "settle"} /\ Easy(p)' => ~Knows(p)'
    BY <1>5, <1>8
  <2> QED BY <1>3, <1>4, <1>6, <2>1, <2>2, <2>3
<1>23. CASE bearer'[p] = Fresh
  BY <1>23 DEF Fresh, pc1
<1> QED
  BY <1>14, <1>15, <1>16, <1>17, <1>18, <1>19, <1>20, <1>21, <1>22, <1>23, BearerMoves DEF Own

LEMMA BearerType ==
  ASSUME BInv, BearerNext
  PROVE  bearer' \in [Callers -> [pc : Phase, res : Verdict]]
<1>1. bearer \in [Callers -> [pc : Phase, res : Verdict]]
  BY DEF BInv
<1>2. "no" \in Phase /\ "none" \in Verdict
  BY DEF Phase, Verdict
<1>3. ASSUME NEW q \in Callers, Own(q)
      PROVE  bearer' \in [Callers -> [pc : Phase, res : Verdict]]
  <2>1. CASE \E pc \in Phase : To(q, pc)
    BY <1>1, <1>2, <2>1 DEF To
  <2>2. CASE \E res \in Verdict : Return(q, res)
    BY <1>1, <1>2, <2>2 DEF Return
  <2> QED BY <1>1, <1>3, <2>1, <2>2, OwnMoves
<1>4. ASSUME Around
      PROVE  bearer' \in [Callers -> [pc : Phase, res : Verdict]]
  BY <1>1, <1>2, <1>4 DEF Around, Fresh
<1>5. ASSUME NEW q \in Callers, Ordinary(q)
      PROVE  bearer' \in [Callers -> [pc : Phase, res : Verdict]]
  BY <1>1, <1>5 DEF Ordinary
<1> QED BY <1>3, <1>4, <1>5 DEF BearerNext, Asking, Own

LEMMA BearerInvariance == BearerSpec => [](IInv /\ PinnedIsInert /\ NothingKnown /\ BInv)
<1>1. BearerInit => BInv
  <2> SUFFICES ASSUME BearerInit PROVE BInv
    OBVIOUS
  <2>1. bearer = [p \in Callers |-> Fresh]
    BY DEF BearerInit
  <2>2. Fresh \in [pc : Phase, res : Verdict] /\ Fresh.pc = "no"
    BY DEF Fresh, Phase, Verdict
  <2> QED BY <2>1, <2>2 DEF BInv, Truthful
<1>2. IInv /\ IInv' /\ PinnedIsInert /\ NothingKnown /\ BInv /\ [BearerNext]_bearerVars => BInv'
  <2> SUFFICES ASSUME IInv, IInv', PinnedIsInert, NothingKnown, BInv, [BearerNext]_bearerVars
               PROVE  BInv'
    OBVIOUS
  <2>1. CASE BearerNext
    BY <2>1, TruthfulStep, BearerType DEF BInv
  <2>2. CASE UNCHANGED bearerVars
    BY <2>2 DEF bearerVars, vars, world, BInv, Truthful, Easy, Knows, Sure, GoodStored, IsFresh
  <2> QED BY <2>1, <2>2
<1> QED
  BY <1>1, <1>2, BearerImplements, Invariance, PinnedInert, KnowsNothing, PTL DEF BearerSpec

(* "or `None` for a plain box that needs none", "fails with AuthRequired": *)
(* bearer_token returns no token only when the box was plain at some       *)
(* moment of the call, and asks for a sign-in only when the store did not  *)
(* hold one good token all through it -- or the client was led astray, by  *)
(* another server's name or by another thread between two looks.           *)
THEOREM BearerTellsTheTruth == BearerSpec => BearerIsTruthful
<1> DEFINE Told == \A p \in Callers :
      bearer[p].pc # "no" /\ bearer'[p].pc = "no" =>
        /\ bearer'[p].res = "plain" => seen[p].plain
        /\ bearer'[p].res = "authRequired" => seen[p].good = None \/ seen[p].astray
<1>1. IInv /\ BInv /\ [BearerNext]_bearerVars => [Told]_bearerVars
  <2> SUFFICES ASSUME IInv, BInv, BearerNext, NEW p \in Callers,
                      bearer[p].pc # "no", bearer'[p].pc = "no"
               PROVE  /\ bearer'[p].res = "plain" => seen[p].plain
                      /\ bearer'[p].res = "authRequired" => seen[p].good = None \/ seen[p].astray
    OBVIOUS
  <2>1. CASE Settle(p)
    <3>1. /\ bearer[p].pc = "settle" /\ Truthful(p)
          /\ Return(p, IF ~Knows(p) THEN "plain" ELSE "authRequired")
      BY <2>1 DEF Settle, Knows, BInv
    <3>2. bearer'[p].res = IF ~Knows(p) THEN "plain" ELSE "authRequired"
      BY <3>1, MovesOf
    <3>3. /\ ~Knows(p) => seen[p].plain
          /\ Easy(p) => ~Knows(p)
      BY <3>1 DEF Truthful
    <3> QED BY <3>2, <3>3, Zenon DEF Easy
  <2>2. CASE Own(p) /\ ~Settle(p)
    <3>1. (\E pc \in Phase \ {"no"} : To(p, pc)) \/ Return(p, "token") \/ Return(p, "error")
          \/ bearer' = bearer
      BY <2>2 DEF Own, Begin, Again, Seek, Take, Probe, Health, Ask, Phase
    <3>2. Return(p, "token") \/ Return(p, "error")
      BY <3>1, MovesOf
    <3>3. bearer'[p].res \in {"token", "error"}
      BY <3>2, MovesOf
    <3> QED BY <3>3
  <2>3. CASE Aside(p) \/ bearer'[p] = Fresh
    BY <2>3 DEF Aside, Fresh
  <2> QED BY <2>1, <2>2, <2>3, BearerMoves
<1> QED
  BY <1>1, BearerInvariance, PTL DEF BearerSpec, BearerIsTruthful
=============================================================================
