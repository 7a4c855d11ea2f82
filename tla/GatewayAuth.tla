----------------------------- MODULE GatewayAuth -----------------------------
(***************************************************************************)
(* How a client gets a bearer token past an authenticating gateway         *)
(* (src/src/auth.rs and the with_gateway_auth of client.rs and             *)
(* async_client.rs).                                                       *)
(*                                                                         *)
(* Callers are threads (or tasks) that each run one API call at a time on  *)
(* a client; callers of one client share its GatewayAuth, and every client *)
(* that holds no pinned token shares the token store, a file that other    *)
(* processes and `lager login` rewrite too.  A caller's call is a chain of *)
(* atomic steps: what happens under one lock, one read or one write of the *)
(* file, one HTTP round trip.  Everything else may happen in between.      *)
(***************************************************************************)
EXTENDS Naturals

CONSTANTS
  Callers,      \* threads and tasks making calls
  Clients,      \* LagerBox values; a clone is the same client
  ClientOf,     \* [Callers -> Clients]
  Pinned,       \* clients built with bearer_token(..) or LAGER_GATEWAY_TOKEN
  Servers,      \* auth servers, by URL
  MaxGen,       \* bound: logins and refreshes the auth servers may grant in all
  OpaqueGens,   \* issue numbers whose token has no readable `exp`
  Events,       \* which of AnyEvent may happen
  PinTok,       \* the pinned token
  None          \* absence of a URL, a token, ...

Token == [srv: Servers, gen: 1..MaxGen]

ASSUME ClientAssumption ==
  /\ ClientOf \in [Callers -> Clients]
  /\ Pinned \subseteq Clients
ASSUME BoundAssumption == MaxGen \in Nat /\ OpaqueGens \subseteq 1..MaxGen
(* A refresh answer lost after the server rotated the cookie, a store file *)
(* that cannot be opened, a process killed in mid-call, a login while      *)
(* calls are in progress, a token revoked at the gateway, a box moved to   *)
(* another gateway.                                                        *)
AnyEvent == {"lost", "savefail", "crash", "overlap", "revoke", "move"}
ASSUME EventAssumption == Events \subseteq AnyEvent
ASSUME NoneAssumption ==
  /\ None \notin Servers \cup Token \cup {PinTok}
  /\ PinTok \notin Token

VARIABLES
  gate,     \* auth server the gateway in front of the box trusts, None: plain box
  issued,   \* how many logins and refreshes the auth servers have granted so far
  session,  \* [Servers -> Nat]: the refresh cookie the server honours, 0: no session
  valid,    \* tokens a gateway accepts (signature good, not expired or revoked there)
  stale,    \* tokens whose `exp` is within the expiry margin of the client's clock
  store,    \* contents of the token store, as load_store() would read it
  mem,      \* [Clients -> State]: the GatewayAuth state behind its mutex
  call,     \* [Callers -> Call]: the call each caller is in
  witness   \* history: the accepted token the store held all through the call

world == <<gate, issued, session, valid, stale>>
vars == <<gate, issued, session, valid, stale, store, mem, call, witness>>

MaybeServer == Servers \cup {None}
MaybeToken == Token \cup {PinTok, None}

(* authServers[url]: the access token and the cookie jar (0: no cookies).  *)
Entry == [tok: Token \cup {None}, cookie: 0..MaxGen]
NoEntry == [tok |-> None, cookie |-> 0]
(* The file: boxes[this box] and authServers.                              *)
Store == [box: MaybeServer, auth: [Servers -> Entry]]
EmptyStore == [box |-> None, auth |-> [s \in Servers |-> NoEntry]]

(***************************************************************************)
(* A call.  `sends` counts the requests sent, `first` is the credential of *)
(* the first one, `url` the auth server being dealt with, `ent` the store  *)
(* entry last read for it (NoEntry once a refresh has been answered),      *)
(* `snap` a store about to be written, `then` what follows that write.     *)
(***************************************************************************)
Step == {"idle", "lookup", "resolve", "refresh", "merge", "open", "write",
         "cache", "send", "learn", "record"}
Result == {"none", "ok", "error", "authRequired", "forbidden", "unverified", "taken"}

Call == [pc: Step, tok: MaybeToken, first: MaybeToken, sends: 0..2,
         url: MaybeServer, status: {0, 401, 403, 503}, ent: Entry,
         setCookie: 0..MaxGen, snap: Store, then: {"cache", "decide"},
         res: Result]

NewCall == [pc |-> "idle", tok |-> None, first |-> None, sends |-> 0,
            url |-> None, status |-> 0, ent |-> NoEntry, setCookie |-> 0,
            snap |-> EmptyStore, then |-> "cache", res |-> "none"]

TypeOK ==
  /\ gate \in MaybeServer
  /\ issued \in 0..MaxGen
  /\ session \in [Servers -> 0..MaxGen]
  /\ valid \subseteq Token \cup {PinTok}
  /\ stale \subseteq Token
  /\ store \in Store
  /\ mem \in [Clients -> [url: MaybeServer, tok: Token \cup {None}]]
  /\ call \in [Callers -> Call]
  /\ witness \in [Callers -> Token \cup {None}]

-----------------------------------------------------------------------------
(* token_is_fresh: an opaque token reads as expired at the epoch.          *)
IsFresh(t) == t \notin stale /\ t.gen \notin OpaqueGens

(* The gateway's own judgement of a credential.                            *)
Accepts(t) == t \in valid \cap ({PinTok} \cup [srv: {gate}, gen: 1..MaxGen])

(* usable_or_refresh: may the stored token be used as it is?               *)
UsableStored(t, avoid) == t # None /\ t # avoid /\ IsFresh(t)

(* Mutant: the token avoided is the one the client holds by now, which     *)
(* another thread may have replaced.                                       *)
Avoid_HeldNow(p) ==
  IF call[p].sends = 0 THEN None ELSE mem[ClientOf[p]].tok

(* The token a resolution must not return: none while choosing the first   *)
(* credential, the one just rejected while choosing the second.            *)
Avoid(p) == IF call[p].sends = 0 THEN None ELSE call[p].first

Update(p, c) == call' = [call EXCEPT ![p] = c]

Finished(res) == [NewCall EXCEPT !.res = res]

(* denial_error, returned from the call.                                   *)
Denial(status) ==
  Finished(CASE status = 401 -> "authRequired"
             [] status = 403 -> "forbidden"
             [] OTHER        -> "unverified")

(* Resolution came back with nothing: the first request goes out bare, the *)
(* retry does not happen and the denial stands.                            *)
Unresolved(c) ==
  IF c.sends = 0 THEN [c EXCEPT !.pc = "send", !.tok = None]
                 ELSE Denial(c.status)

(* Mutant: every denial that is learned from is retried.                   *)
AfterLearn_Again(p, c) ==
  IF c.status = 401 /\ ClientOf[p] \notin Pinned
    THEN [c EXCEPT !.pc = "resolve", !.snap = EmptyStore]
    ELSE Denial(c.status)

(* After the mapping has been recorded: only the first denial, a 401 to an *)
(* unpinned client, looks for another credential.                          *)
AfterLearn(p, c) ==
  IF c.status = 401 /\ c.sends = 1 /\ ClientOf[p] \notin Pinned
    THEN [c EXCEPT !.pc = "resolve", !.snap = EmptyStore]
    ELSE Denial(c.status)

AfterSave(p, c) ==
  IF c.then = "cache" THEN [c EXCEPT !.pc = "cache", !.snap = EmptyStore]
                      ELSE AfterLearn(p, c)

-----------------------------------------------------------------------------
(* current_token, its first half: cached_token().  A call begins.          *)
CachedToken(p) ==
  LET c == ClientOf[p] IN
  /\ call[p].pc = "idle"
  /\ \/ /\ c \in Pinned
        /\ Update(p, [NewCall EXCEPT !.pc = "send", !.tok = PinTok])
        /\ UNCHANGED mem
     \/ /\ c \notin Pinned
        /\ mem[c].tok # None /\ IsFresh(mem[c].tok)
        /\ Update(p, [NewCall EXCEPT !.pc = "send", !.tok = mem[c].tok])
        /\ UNCHANGED mem
     \/ /\ c \notin Pinned
        /\ mem[c].tok # None => ~IsFresh(mem[c].tok)
        /\ mem' = [mem EXCEPT ![c].tok = None]
        /\ Update(p, [NewCall EXCEPT !.pc = "lookup"])
  /\ UNCHANGED <<world, store>>

(* current_token, its second half: a store lookup when the box is known to *)
(* be gated.                                                               *)
Lookup(p) ==
  LET url == mem[ClientOf[p]].url IN
  /\ call[p].pc = "lookup"
  /\ Update(p, IF url = None
                 THEN [call[p] EXCEPT !.pc = "send", !.tok = None]
                 ELSE [call[p] EXCEPT !.pc = "resolve", !.url = url])
  /\ UNCHANGED <<world, store, mem>>

(* resolve_token: read the entry, use the token, refresh it or give up.    *)
Resolve(p) ==
  LET ent == store.auth[call[p].url]
      c   == [call[p] EXCEPT !.ent = ent] IN
  /\ call[p].pc = "resolve"
  /\ Update(p, CASE UsableStored(ent.tok, Avoid(p)) ->
                      [c EXCEPT !.pc = "cache", !.tok = ent.tok]
                 [] ~UsableStored(ent.tok, Avoid(p)) /\ ent.cookie = 0 ->
                      Unresolved(c)
                 [] OTHER -> [c EXCEPT !.pc = "refresh"])
  /\ UNCHANGED <<world, store, mem>>

(* The tokens of s a refresh may hand out again: one the gateway may still *)
(* take, the stored one, the one just rejected.                            *)
Reissued(p, s) ==
  (valid \cup {call[p].ent.tok, call[p].first}) \cap [srv: {s}, gen: 1..issued]

(* POST <url>/api/auth/refresh, answered: a token, new or handed out       *)
(* before (the client compares it with nothing), and possibly a rotated    *)
(* cookie that ends the old one.                                           *)
RefreshGranted(p) ==
  LET s == call[p].url
      n == issued + 1
      new == [srv |-> s, gen |-> n] IN
  /\ call[p].pc = "refresh"
  /\ call[p].ent.cookie = session[s] /\ n <= MaxGen
  /\ \E t \in {new} \cup Reissued(p, s), rotate \in BOOLEAN :
       LET cookie == IF rotate THEN n ELSE 0 IN
       /\ issued' = n
       /\ valid' = IF t = new THEN valid \cup {t} ELSE valid
       /\ session' = IF rotate THEN [session EXCEPT ![s] = n] ELSE session
       /\ \/ Update(p, [call[p] EXCEPT !.pc = "merge", !.tok = t,
                                       !.ent = NoEntry,
                                       !.setCookie = cookie])
          \/ "lost" \in Events /\ Update(p, Unresolved(call[p]))
  /\ UNCHANGED <<gate, stale, store, mem>>

(* The refresh is refused (status >= 400), or fails before the auth server *)
(* acts on it.                                                             *)
RefreshFailed(p) ==
  /\ call[p].pc = "refresh"
  /\ Update(p, Unresolved(call[p]))
  /\ UNCHANGED <<world, store, mem>>

(* load_store() again, then apply_refresh.                                 *)
ApplyRefresh(p) ==
  LET c   == call[p]
      old == store.auth[c.url]
      new == [tok |-> c.tok,
              cookie |-> IF c.setCookie = 0 THEN old.cookie ELSE c.setCookie] IN
  /\ c.pc = "merge"
  /\ Update(p, [c EXCEPT !.pc = "open", !.then = "cache", !.setCookie = 0,
                         !.snap = [store EXCEPT !.auth[c.url] = new]])
  /\ UNCHANGED <<world, store, mem>>

(* save_store, opening: fs::write truncates the file, which reads as `{}`. *)
SaveOpen(p) ==
  /\ call[p].pc = "open"
  /\ \/ /\ store' = EmptyStore
        /\ Update(p, [call[p] EXCEPT !.pc = "write"])
     \/ /\ "savefail" \in Events
        /\ Update(p, AfterSave(p, call[p]))
        /\ UNCHANGED store
  /\ UNCHANGED <<world, mem>>

(* save_store, writing.  Over a file another writer filled meanwhile the   *)
(* text may end in the rest of a longer one: corrupt, and read as `{}`.    *)
SaveWrite(p) ==
  /\ call[p].pc = "write"
  /\ store' \in {call[p].snap} \cup (IF store = EmptyStore THEN {} ELSE {EmptyStore})
  /\ Update(p, AfterSave(p, call[p]))
  /\ UNCHANGED <<world, mem>>

(* cache_token.                                                            *)
CacheToken(p) ==
  /\ call[p].pc = "cache"
  /\ mem' = [mem EXCEPT ![ClientOf[p]].tok = call[p].tok]
  /\ Update(p, [call[p] EXCEPT !.pc = "send"])
  /\ UNCHANGED <<world, store>>

(* One request to the box and what comes back of it.                       *)
Sent(p) == [call[p] EXCEPT !.sends = @ + 1,
                           !.first = IF call[p].sends = 0 THEN call[p].tok ELSE @]

(* Any answer without the discovery header, or no answer at all.           *)
SendAnswered(p) ==
  /\ call[p].pc = "send"
  /\ \E res \in {"ok", "error"} :
       /\ res = "ok" => gate = None \/ Accepts(call[p].tok)
       /\ Update(p, Finished(res))
  /\ UNCHANGED <<world, store, mem>>

(* current_token on its own, for a caller that sends the request itself    *)
(* (bearer_token, the tunnel, the scope and UART sockets) and never tells  *)
(* the client how it went.                                                 *)
TakeToken(p) ==
  /\ call[p].pc = "send" /\ call[p].sends = 0
  /\ Update(p, Finished("taken"))
  /\ UNCHANGED <<world, store, mem>>

(* A denial: 401/403/503 with the discovery header.  The first is learned  *)
(* from, the second is final; stream_debug learns from the second too.     *)
Denied(p, status, heed) ==
  LET c == [Sent(p) EXCEPT !.status = status, !.url = gate] IN
  IF c.sends = 1 \/ heed THEN [c EXCEPT !.pc = "learn"] ELSE Denial(status)

SendDenied(p) ==
  /\ call[p].pc = "send"
  /\ gate # None
  /\ \E status \in {401, 403, 503}, heed \in BOOLEAN :
       /\ status = 401 => ~Accepts(call[p].tok)
       /\ status = 403 => Accepts(call[p].tok)
       /\ Update(p, Denied(p, status, heed))
  /\ UNCHANGED <<world, store, mem>>

(* Mutant: a mapping another thread just learned counts as having been     *)
(* tried.                                                                  *)
LearnAuthServer_KnownIsFinal(p) ==
  LET c   == ClientOf[p]
      url == call[p].url IN
  /\ call[p].pc = "learn"
  /\ mem' = [mem EXCEPT ![c].url = url]
  /\ Update(p, IF mem[c].url = url THEN Denial(call[p].status)
                                   ELSE [call[p] EXCEPT !.pc = "record"])
  /\ UNCHANGED <<world, store>>

(* Mutant: a pinned client records the mapping like any other.             *)
LearnAuthServer_PinnedRecords(p) ==
  /\ call[p].pc = "learn"
  /\ mem' = [mem EXCEPT ![ClientOf[p]].url = call[p].url]
  /\ Update(p, IF mem[ClientOf[p]].url = call[p].url THEN AfterLearn(p, call[p])
                                                     ELSE [call[p] EXCEPT !.pc = "record"])
  /\ UNCHANGED <<world, store>>

(* learn_auth_server, under the lock: known already, or remembered; a      *)
(* pinned client stops there.                                              *)
LearnAuthServer(p) ==
  LET c   == ClientOf[p]
      url == call[p].url IN
  /\ call[p].pc = "learn"
  /\ mem' = [mem EXCEPT ![c].url = url]
  /\ Update(p, IF mem[c].url = url \/ c \in Pinned
                 THEN AfterLearn(p, call[p])
                 ELSE [call[p] EXCEPT !.pc = "record"])
  /\ UNCHANGED <<world, store>>

(* learn_auth_server, after the lock: add boxes[host] to the store.        *)
RecordMapping(p) ==
  LET url == call[p].url IN
  /\ call[p].pc = "record"
  /\ Update(p, IF store.box = url
                 THEN AfterLearn(p, call[p])
                 ELSE [call[p] EXCEPT !.pc = "open", !.then = "decide",
                                      !.snap = [store EXCEPT !.box = url]])
  /\ UNCHANGED <<world, store, mem>>

-----------------------------------------------------------------------------
(* `lager login <url>`, another process: a new session, with or without a  *)
(* refresh cookie, written to the store.                                   *)
Login(s) ==
  LET n == issued + 1
      t == [srv |-> s, gen |-> n] IN
  /\ n <= MaxGen
  /\ "overlap" \in Events \/ \A p \in Callers : call[p].pc = "idle"
  /\ issued' = n
  /\ valid' = valid \cup {t}
  /\ \E cookie \in {0, n} :
       /\ session' = [session EXCEPT ![s] = cookie]
       /\ store' = [store EXCEPT !.auth[s] = [tok |-> t, cookie |-> cookie]]
  /\ UNCHANGED <<gate, stale, mem, call>>

(* A token comes within the margin of its expiry on the client's clock.    *)
GrowStale(t) ==
  /\ IsFresh(t) /\ t.gen <= issued
  /\ stale' = stale \cup {t}
  /\ UNCHANGED <<gate, issued, session, valid, store, mem, call>>

(* The gateway stops accepting a token: expired, revoked, key rotated.     *)
Revoke(t) ==
  /\ "revoke" \in Events /\ t \in valid
  /\ valid' = valid \ {t}
  /\ UNCHANGED <<gate, issued, session, stale, store, mem, call>>

(* The box gets a gateway, loses it, or moves to another auth server.      *)
Reconfigure ==
  /\ "move" \in Events /\ gate' \in MaybeServer \ {gate}
  /\ UNCHANGED <<issued, session, valid, stale, store, mem, call>>

(* GatewayAuth::new in a new process; where the old one stood mid-call it  *)
(* was killed.                                                             *)
NewClient(c) ==
  LET mine == {p \in Callers : ClientOf[p] = c} IN
  /\ "crash" \in Events \/ \A p \in mine : call[p].pc = "idle"
  /\ mem' = [mem EXCEPT ![c] = [url |-> store.box, tok |-> None]]
  /\ call' = [p \in Callers |-> IF p \in mine THEN NewCall ELSE call[p]]
  /\ UNCHANGED <<world, store>>

-----------------------------------------------------------------------------
Init ==
  /\ gate \in MaybeServer
  /\ issued = 0
  /\ session = [s \in Servers |-> 0]
  /\ valid \in IF Pinned = {} THEN {{}} ELSE SUBSET {PinTok}
  /\ stale = {}
  /\ \E box \in MaybeServer :
       /\ store = [EmptyStore EXCEPT !.box = box]
       /\ mem = [c \in Clients |-> [url |-> box, tok |-> None]]
  /\ call = [p \in Callers |-> NewCall]
  /\ witness = [p \in Callers |-> None]

(* What a caller does on its own once its call has begun.                  *)
Continue(p) ==
  \/ Lookup(p) \/ Resolve(p) \/ RefreshGranted(p) \/ RefreshFailed(p)
  \/ ApplyRefresh(p) \/ SaveOpen(p) \/ SaveWrite(p) \/ CacheToken(p)
  \/ TakeToken(p) \/ SendAnswered(p) \/ SendDenied(p)
  \/ LearnAuthServer(p) \/ RecordMapping(p)

Environment ==
  \/ \E s \in Servers : Login(s)
  \/ \E t \in Token : GrowStale(t)
  \/ \E t \in Token \cup {PinTok} : Revoke(t)
  \/ Reconfigure
  \/ \E c \in Clients : NewClient(c)

(* The stored token, when the gateway would accept it and it is fresh.     *)
GoodStored ==
  IF gate = None THEN None
  ELSE LET t == store.auth[gate].tok IN
       IF t # None /\ t \in valid /\ IsFresh(t) THEN t ELSE None

(* witness[p] survives as long as the very same good token stays stored.   *)
Observe ==
  witness' = [p \in Callers |->
    IF call'[p].pc = "idle" /\ call[p].pc = "idle" THEN witness[p]
    ELSE IF call[p].pc = "idle" \/ witness[p] = GoodStored' THEN GoodStored'
    ELSE None]

Next ==
  /\ \/ \E p \in Callers : CachedToken(p) \/ Continue(p)
     \/ Environment
  /\ Observe

Spec == Init /\ [][Next]_vars

-----------------------------------------------------------------------------
(* PROPERTIES *)

(* The credential was read from the store, not handed out by a refresh.    *)
FromStore(c) == c.ent # NoEntry

(* "avoid is a token that was just rejected by the gateway and must not be *)
(* returned again" (auth.rs, usable_or_refresh): the second request of a   *)
(* call carries a token issued by the very auth server the denial named,   *)
(* and not the one the first carried -- whatever other callers, clients    *)
(* and the CLI did to the store and to the client's memory in between,     *)
(* unless a refresh handed that very token out again.                      *)
RetryCredential ==
  \A p \in Callers :
    call[p].sends = 1 /\ call[p].pc = "send" =>
      /\ call[p].tok \in Token
      /\ call[p].tok.srv = call[p].url
      /\ FromStore(call[p]) => call[p].tok # call[p].first

(* A pinned client "writes no store" and "exactly one try" (tests of the   *)
(* gateway contract): it sends its own token once and never gets near the  *)
(* store or the cache, also when it is denied.                             *)
PinnedIsInert ==
  \A p \in Callers :
    ClientOf[p] \in Pinned =>
      /\ call[p].pc \in {"idle", "send", "learn"}
      /\ call[p].pc # "idle" => call[p].tok = PinTok
      /\ call[p].sends = IF call[p].pc = "learn" THEN 1 ELSE 0
      /\ mem[ClientOf[p]].tok = None

(* No step of a pinned client's caller changes the store.                  *)
PinnedNeverWrites ==
  [][\A p \in Callers :
       ClientOf[p] \in Pinned /\ call'[p] # call[p] => store' = store]_vars

(* Under any interleaving a token sits in the store, in a snapshot about   *)
(* to be saved, only under the auth server that issued it: a caller whose  *)
(* client learned of another server mid-refresh still files its token      *)
(* under the server it asked.                                              *)
FiledIn(st) ==
  \A s \in Servers : st.auth[s].tok # None => st.auth[s].tok.srv = s
FiledUnderIssuer == FiledIn(store) /\ \A p \in Callers : FiledIn(call[p].snap)

(* A sign-in is only asked for when it is needed: if the store held one    *)
(* and the same fresh token, accepted by the gateway, all through a call,  *)
(* the call does not end in AuthRequired -- not even when the first        *)
(* request carried an older, rejected or foreign token.                    *)
NoNeedlessSignIn ==
  \A p \in Callers :
    call[p].pc = "idle" /\ call[p].res = "authRequired" /\ ClientOf[p] \notin Pinned
      => witness[p] = None

(* "persisting any rotations" (auth.rs, module comment): with no call in   *)
(* progress the store holds the cookie its auth server honours.            *)
RotationPersisted ==
  (\A p \in Callers : call[p].pc = "idle") =>
    \A s \in Servers : store.auth[s].cookie = session[s]
=============================================================================
