---------------------------- MODULE BearerToken ----------------------------
(***************************************************************************)
(* LagerBox::bearer_token and its async twin: a token for a caller who     *)
(* sends requests of its own.  It is current_token, a look at whether the  *)
(* box is known to be gated, one health() through with_gateway_auth when   *)
(* it is not, current_token again, and the verdict: each a piece of        *)
(* GatewayAuth, with every other caller's steps in between.                *)
(***************************************************************************)
EXTENDS GatewayAuth

CONSTANT Takers  \* callers that call bearer_token; the others make ordinary calls

ASSUME TakersAssumption == Takers \subseteq Callers

VARIABLES
  bearer, \* where each caller is in a bearer_token call, and what the last one returned
  seen    \* history of that call: see Behold

bearerVars == <<vars, bearer, seen>>

(* no: none under way.  first, second: within current_token.  probe, again: *)
(* about to begin health and the second current_token.  health: within it. *)
Phase == {"no", "first", "ask", "probe", "health", "again", "second", "settle"}
Verdict == {"none", "token", "plain", "authRequired", "error"}
Taking == {"first", "second"}

Fresh == [pc |-> "no", res |-> "none"]
To(p, pc) == bearer' = [bearer EXCEPT ![p] = [pc |-> pc, res |-> "none"]]
Return(p, res) == bearer' = [bearer EXCEPT ![p] = [pc |-> "no", res |-> res]]
Ends(p) == call'[p].pc = "idle"

-----------------------------------------------------------------------------
(* The client's calls as GatewayAuth has them; a tunnel's current_token    *)
(* among them.                                                             *)
Ordinary(p) ==
  /\ p \notin Takers
  /\ CachedToken(p) \/ Continue(p)
  /\ UNCHANGED bearer

(* current_token begins, at the start and after the probe.                 *)
Begin(p) ==
  /\ p \in Takers
  /\ bearer[p].pc = "no" /\ CachedToken(p) /\ To(p, "first")
Again(p) ==
  /\ bearer[p].pc = "again" /\ CachedToken(p) /\ To(p, "second")

(* current_token resolves; it sends nothing to the box.                    *)
Seek(p) ==
  /\ bearer[p].pc \in Taking /\ call[p].pc # "send" /\ Continue(p)
  /\ UNCHANGED bearer

(* A token is the answer.                                                  *)
Take(p) ==
  /\ bearer[p].pc \in Taking /\ TakeToken(p)
  /\ IF call[p].tok # None THEN Return(p, "token")
     ELSE To(p, IF bearer[p].pc = "first" THEN "ask" ELSE "settle")

(* Mutant: a box not known to be gated is taken for a plain one.           *)
Ask_NoProbe(p) ==
  /\ bearer[p].pc = "ask" /\ To(p, "settle")
  /\ UNCHANGED vars

(* Is the box known to be gated?                                           *)
Ask(p) ==
  /\ bearer[p].pc = "ask"
  /\ To(p, IF mem[ClientOf[p]].url = None THEN "probe" ELSE "settle")
  /\ UNCHANGED vars

(* health(), whose failure is the caller's.                                *)
Probe(p) ==
  /\ bearer[p].pc = "probe" /\ CachedToken(p) /\ To(p, "health")
Health(p) ==
  /\ bearer[p].pc = "health" /\ Continue(p) /\ call'[p].res # "taken"
  /\ IF ~Ends(p) THEN UNCHANGED bearer
     ELSE IF call'[p].res = "ok" THEN To(p, "again") ELSE Return(p, "error")

(* No token: the box is plain, or asks for a sign-in.                      *)
Settle(p) ==
  /\ bearer[p].pc = "settle"
  /\ Return(p, IF mem[ClientOf[p]].url = None THEN "plain" ELSE "authRequired")
  /\ UNCHANGED vars

(* The rest of the world; a process killed in the call is gone with it.    *)
Around ==
  \/ /\ \/ \E s \in Servers : Login(s)
        \/ \E t \in Token : GrowStale(t)
        \/ \E t \in Token \cup {PinTok} : Revoke(t)
        \/ Reconfigure
     /\ UNCHANGED bearer
  \/ \E c \in Clients :
       /\ NewClient(c)
       /\ "crash" \in Events \/ \A p \in Callers : ClientOf[p] = c => bearer[p].pc = "no"
       /\ bearer' = [p \in Callers |-> IF ClientOf[p] = c THEN Fresh ELSE bearer[p]]

(* good: the token the store held, one and the same and good, all through  *)
(* the call.  plain: the box had no gateway at some moment of it.  astray: *)
(* at some moment the client took another server for the gateway's, or was *)
(* taught by another thread between two looks of the call.                 *)
Unseen == [good |-> None, plain |-> FALSE, astray |-> FALSE]
Behold ==
  seen' = [p \in Callers |->
    LET url == mem'[ClientOf[p]].url
        was == IF bearer[p].pc = "no" THEN [Unseen EXCEPT !.good = GoodStored'] ELSE seen[p] IN
    IF bearer'[p].pc = "no" THEN Unseen
    ELSE [good   |-> IF was.good = GoodStored' THEN was.good ELSE None,
          plain  |-> was.plain \/ gate = None \/ gate' = None,
          astray |-> \/ was.astray \/ url \notin {None, gate'}
                     \/ bearer[p].pc # "health" /\ url # mem[ClientOf[p]].url]]

BearerInit ==
  /\ Init
  /\ bearer = [p \in Callers |-> Fresh]
  /\ seen = [p \in Callers |-> Unseen]

(* A step of GatewayAuth, or a look at what the client knows.              *)
Asking(p) ==
  \/ Ordinary(p) \/ Begin(p) \/ Again(p) \/ Seek(p) \/ Take(p) \/ Probe(p) \/ Health(p)
BearerNext ==
  /\ \/ (\E p \in Callers : Asking(p)) /\ Observe
     \/ Around /\ Observe
     \/ \E p \in Callers : Ask(p) \/ Settle(p)
  /\ Behold

BearerSpec == BearerInit /\ [][BearerNext]_bearerVars

-----------------------------------------------------------------------------
(* PROPERTIES *)

(* "or `None` for a plain box that needs none", "A gated box with no       *)
(* usable session fails with AuthRequired": no token is the answer only of *)
(* a call during which the box was plain, and a sign-in is asked for only  *)
(* when the store did not hold one good token all along -- unless the      *)
(* client holds another server for the gateway's (it then asks nobody), or *)
(* another thread taught it the gateway between the call's two looks.      *)
BearerIsTruthful ==
  [][\A p \in Callers :
       bearer[p].pc # "no" /\ bearer'[p].pc = "no" =>
         /\ bearer'[p].res = "plain" => seen[p].plain
         /\ bearer'[p].res = "authRequired" => seen[p].good = None \/ seen[p].astray]_bearerVars
=============================================================================
