----------------------------- MODULE DebugTunnel -----------------------------
(***************************************************************************)
(* debug_tunnel: raw TCP to a debug port of the box, through the gateway   *)
(* by HTTP CONNECT or directly on a plain box (src/src/tunnel.rs and the   *)
(* tunnel functions of client.rs and async_client.rs).                     *)
(*                                                                         *)
(* One call, against a box that may be any of four things, with time.  The *)
(* token machinery of GatewayAuth is reduced to what the tunnel sees of    *)
(* it: a cached token the gateway may have stopped taking, and a           *)
(* resolution that takes its time and yields a token or none.              *)
(***************************************************************************)
EXTENDS Naturals, Sequences

CONSTANTS
  Wait,      \* NOTHING_LISTENING_WAIT, in ticks
  Retry,     \* NOTHING_LISTENING_RETRY
  MaxAuth,   \* bound: ticks a token may take (AUTH_SERVER_TIMEOUT for a refresh)
  MaxConnect,\* bound: ticks a TCP connection may take (default_timeout)
  MaxLag,    \* bound: ticks from sending a CONNECT to having dealt with its answer
  Slack,     \* bound: how far a sleep may overshoot
  MaxHead,   \* MAX_HEAD_BYTES
  Payload,   \* what a byte of the debug server can be
  Data       \* what the debug server says first

ASSUME TimeAssumption ==
  /\ Wait \in Nat /\ Slack \in Nat
  /\ MaxAuth \in Nat /\ MaxConnect \in Nat /\ MaxLag \in Nat
  /\ Retry \in Nat \ {0}
Framing == {"h", "blank", "junk", "eof"}
ASSUME DataAssumption ==
  /\ MaxHead \in Nat /\ MaxHead >= 3  \* a peer that speaks HTTP keeps within it
  /\ Payload \cap Framing = {}
  /\ Data \in Seq(Payload)

(* The box: a gateway that tunnels, an older one that does not, a plain    *)
(* box, or something on port 8765 that does not speak HTTP.                *)
Kind == {"gateway", "oldGateway", "plain", "other"}
(* When every try is over, the first and the second CONNECT of the last.   *)
Never == Wait + Slack + MaxAuth + MaxConnect + MaxLag + MaxAuth + MaxConnect + MaxLag + 1
Tok == {"none", "old", "fresh", "pinned"}
Refusal == {"none", "denied", "notDebugPort", "nothingListening", "unsupported"}
Outcome == {"none", "tunnel", "direct", "denial", "notDebugPort",
            "nothingListening", "predatesTunnels", "connection", "timeout"}

VARIABLES
  box,       \* [kind, opens]: what answers, and when the debug server listens
  now,       \* ticks since the call began
  known,     \* the client knows an auth server for this box
  cached,    \* the token current_token() would attach
  takes,     \* the tokens the gateway accepts
  pc,        \* where the call is
  token,     \* the token on the CONNECT in progress
  again,     \* it is the second of its pair
  since,     \* when the step of the call under way began
  wire,      \* bytes the peer has sent that are still in the socket
  head,      \* bytes of the head read so far
  status,    \* [code, disc]: what the peer says, once it has begun to answer
  refusal,   \* what the last CONNECT came to
  outcome,
  taken      \* bytes of the tunnel handed to the caller

vars == <<box, now, known, cached, takes, pc, token, again, since, wire, head,
          status, refusal, outcome, taken>>
peer == <<box, takes>>
auth == <<known, cached>>

(* idle: resolving the token of a try.  retry: resolving another after a   *)
(* 401.  decide: what to make of a refusal.                                *)
Pc == {"idle", "connect", "head", "decide", "retry", "sleep", "direct", "done"}
NoAnswer == [code |-> 0, disc |-> FALSE]
Box == [kind: Kind, opens: 0..Never]
Heads ==
  {[code |-> 401, disc |-> TRUE], [code |-> 403, disc |-> TRUE], [code |-> 503, disc |-> TRUE],
   [code |-> 403, disc |-> FALSE], [code |-> 200, disc |-> FALSE], [code |-> 501, disc |-> FALSE],
   [code |-> 502, disc |-> FALSE]}

TypeOK ==
  /\ box \in Box
  /\ now \in Nat
  /\ known \in BOOLEAN /\ cached \in Tok /\ takes \subseteq Tok
  /\ pc \in Pc /\ token \in Tok /\ again \in BOOLEAN /\ since \in Nat
  /\ wire \in Seq(Payload \cup Framing)
  /\ head \in 0..MaxHead
  /\ status \in Heads \cup {NoAnswer}
  /\ refusal \in Refusal /\ outcome \in Outcome
  /\ taken \in Seq(Payload)

Listening == now >= box.opens
(* The next byte from the peer is none.                                    *)
HungUp == wire # <<>> /\ Head(wire) = "eof"
Deadline == Wait

(* Mutant: only a 401 counts as the gateway's.                             *)
Classify_Only401(s) ==
  IF s.code = 401 /\ s.disc THEN "denied"
  ELSE IF s.code = 403 /\ ~s.disc THEN "notDebugPort"
  ELSE IF s.code = 502 THEN "nothingListening"
  ELSE "unsupported"
(* classify, of an answer other than 200.                                  *)
Classify(s) ==
  IF s.code \in {401, 403, 503} /\ s.disc THEN "denied"
  ELSE IF s.code = 403 THEN "notDebugPort"
  ELSE IF s.code = 502 THEN "nothingListening"
  ELSE "unsupported"

End(o) == pc' = "done" /\ outcome' = o

-----------------------------------------------------------------------------
(* tunnel_authorized: current_token(), which may refresh a token near its  *)
(* expiry, then the first CONNECT.                                         *)
Authorize ==
  /\ pc = "idle"
  /\ pc' = "connect" /\ since' = now
  /\ \/ token' = cached /\ UNCHANGED cached
     \/ /\ known /\ cached # "pinned"
        /\ \/ token' \in {"old", "fresh"} /\ cached' = token'
           \/ token' = "none" /\ cached' = "none"
  /\ again' = FALSE
  /\ UNCHANGED <<peer, known, now, wire, head, status, refusal, outcome, taken>>

(* tunnel_once: connect and write the request; a new socket each time.     *)
Connect ==
  /\ pc = "connect"
  /\ since' = now
  /\ wire' = <<>> /\ head' = 0 /\ status' = NoAnswer
  /\ \/ pc' = "head" /\ UNCHANGED outcome
     \/ End("connection")
  /\ UNCHANGED <<peer, auth, now, token, again, refusal, taken>>

(* Mutant: two bytes at a time.                                            *)
ReadHead_TwoBytes ==
  LET b == Head(wire)
      n == IF Len(wire) > 1 THEN 2 ELSE 1 IN
  /\ pc = "head" /\ head < MaxHead /\ wire # <<>> /\ b # "eof"
  /\ head' = head + 1
  /\ wire' = SubSeq(wire, n + 1, Len(wire))
  /\ IF b # "blank" /\ ~(n = 2 /\ wire[2] = "blank")
       THEN UNCHANGED <<pc, refusal, outcome>>
       ELSE IF status.code = 200
              THEN End("tunnel") /\ UNCHANGED refusal
              ELSE pc' = "decide" /\ refusal' = Classify(status) /\ UNCHANGED outcome
  /\ UNCHANGED <<peer, auth, now, token, again, since, status, taken>>

(* tunnel_once, the loop over the head, one byte at a time, and what its   *)
(* last byte leads to.                                                     *)
ReadHead ==
  LET b == Head(wire) IN
  /\ pc = "head" /\ head < MaxHead /\ wire # <<>> /\ b # "eof"
  /\ head' = head + 1
  /\ wire' = Tail(wire)
  /\ IF b # "blank"
       THEN UNCHANGED <<pc, refusal, outcome>>
       ELSE IF status.code = 200
              THEN End("tunnel") /\ UNCHANGED refusal
              ELSE pc' = "decide" /\ refusal' = Classify(status) /\ UNCHANGED outcome
  /\ UNCHANGED <<peer, auth, now, token, again, since, status, taken>>

(* A head that does not end, a peer that hangs up in it, or no HTTP at all.*)
NotConnect ==
  /\ pc = "head"
  /\ head = MaxHead \/ HungUp
  /\ pc' = "decide" /\ refusal' = "unsupported"
  /\ UNCHANGED <<peer, auth, now, token, again, since, wire, head, status, outcome, taken>>

(* Mutant: the timeout covers the first byte only.                         *)
HeadTimeout_FirstByte ==
  /\ pc = "head" /\ head = 0
  /\ \E o \in {"timeout", "connection"} : End(o)
  /\ UNCHANGED <<peer, auth, now, token, again, since, wire, head, status, refusal, taken>>
(* The socket or the handshake times out, or breaks.                       *)
HeadTimeout ==
  /\ pc = "head"
  /\ \E o \in {"timeout", "connection"} : End(o)
  /\ UNCHANGED <<peer, auth, now, token, again, since, wire, head, status, refusal, taken>>

(* A denial of the first CONNECT is learned from and, if a 401, leads to   *)
(* another token; a denial of the second, or of a pinned one, is the error.*)
Denied ==
  /\ pc = "decide" /\ refusal = "denied"
  /\ known' = (known \/ ~again)
  /\ IF ~again /\ status.code = 401 /\ cached # "pinned"
       THEN pc' = "retry" /\ since' = now /\ UNCHANGED outcome
       ELSE End("denial") /\ UNCHANGED since
  /\ UNCHANGED <<peer, cached, now, token, again, wire, head, status, refusal, taken>>

(* resolve_token: the second CONNECT goes out with what it yields, be it   *)
(* the token just refused; with nothing, the denial stands.                *)
Reauthorize ==
  /\ pc = "retry"
  /\ \/ /\ token' \in {"old", "fresh"} /\ cached' = token'
        /\ again' = TRUE
        /\ pc' = "connect" /\ since' = now /\ UNCHANGED outcome
     \/ End("denial") /\ UNCHANGED <<token, cached, again, since>>
  /\ UNCHANGED <<peer, known, now, wire, head, status, refusal, taken>>

(* Mutants: wait and pause swapped; the pause left out.                    *)
Patience_Swapped == now + Wait <= Deadline
Patience_NoPause == now <= Deadline
(* debug_tunnel: is there time for another try?                            *)
Patience == now + Retry <= Deadline

(* debug_tunnel, on a refusal that stands.                                 *)
Refused ==
  /\ pc = "decide" /\ refusal # "denied"
  /\ \/ /\ refusal = "nothingListening" /\ Patience
        /\ pc' = "sleep" /\ since' = now /\ UNCHANGED outcome
     \/ /\ refusal = "nothingListening" /\ ~Patience
        /\ End("nothingListening") /\ UNCHANGED since
     \/ /\ refusal = "notDebugPort"
        /\ End("notDebugPort") /\ UNCHANGED since
     \/ /\ refusal = "unsupported"
        /\ pc' = "direct" /\ since' = now /\ UNCHANGED outcome
  /\ UNCHANGED <<peer, auth, now, token, again, wire, head, status, refusal, taken>>

(* The next try: tunnel_authorized anew.                                   *)
Wake ==
  /\ pc = "sleep" /\ now >= since + Retry
  /\ pc' = "idle" /\ since' = now
  /\ UNCHANGED <<peer, auth, now, token, again, wire, head, status, refusal, outcome, taken>>

(* Mutant: only a learned auth server counts as a gateway.                 *)
Direct_KnownOnly ==
  /\ pc = "direct"
  /\ \/ box.kind \in {"plain", "other"} /\ Listening /\ End("direct")
     \/ End(IF known THEN "predatesTunnels" ELSE "connection")
  /\ UNCHANGED <<peer, auth, now, token, again, since, wire, head, status, refusal, taken>>

(* debug_port_direct.                                                      *)
Direct ==
  /\ pc = "direct"
  /\ \/ box.kind \in {"plain", "other"} /\ Listening /\ End("direct")
     \/ End(IF cached = "pinned" \/ known THEN "predatesTunnels" ELSE "connection")
  /\ UNCHANGED <<peer, auth, now, token, again, since, wire, head, status, refusal, taken>>

(* The caller reads from its tunnel.                                       *)
Use ==
  /\ outcome = "tunnel" /\ wire # <<>> /\ Head(wire) \in Payload
  /\ taken' = Append(taken, Head(wire)) /\ wire' = Tail(wire)
  /\ UNCHANGED <<peer, auth, now, pc, token, again, since, head, status, refusal, outcome>>

-----------------------------------------------------------------------------
(* What may answer a CONNECT that carries t.  Both kinds of gateway check  *)
(* the token first; a gateway in front of an auth server that is down says *)
(* 503, and 403 with the header to a user who may not use the box.         *)
Refuses(t) ==
  IF t \notin takes THEN {[code |-> 401, disc |-> TRUE], [code |-> 503, disc |-> TRUE]}
                    ELSE {[code |-> 403, disc |-> TRUE], [code |-> 503, disc |-> TRUE]}
Answers(t) ==
  CASE box.kind = "plain" -> {[code |-> 501, disc |-> FALSE]}
    [] box.kind = "oldGateway" ->
         Refuses(t) \cup IF t \in takes THEN {[code |-> 501, disc |-> FALSE]} ELSE {}
    [] box.kind = "gateway" ->
         Refuses(t) \cup
           IF t \in takes
             THEN {[code |-> 403, disc |-> FALSE],
                   [code |-> IF Listening THEN 200 ELSE 502, disc |-> FALSE]}
             ELSE {}
    [] OTHER -> {}

(* The peer writes its head, or a part of it and hangs up; when it opened  *)
(* a tunnel, the debug server may speak right behind the head.             *)
PeerAnswers ==
  /\ pc = "head" /\ status = NoAnswer /\ wire = <<>> /\ head = 0
  /\ \E s \in Answers(token), whole \in BOOLEAN, lines \in {<<"h">>, <<"h", "h">>} :
       /\ status' = s
       /\ wire' = IF ~whole THEN Append(lines, "eof")
                  ELSE Append(lines, "blank") \o IF s.code = 200 THEN Data ELSE <<>>
  /\ UNCHANGED <<peer, auth, now, pc, token, again, since, head, refusal, outcome, taken>>

(* Something else on the port: a head without end, an end without a head;  *)
(* and any peer may hang up instead of answering.                          *)
PeerBabbles ==
  /\ pc = "head" /\ wire = <<>> /\ status = NoAnswer
  /\ \/ wire' = <<"eof">>
     \/ box.kind = "other" /\ wire' \in {<<"junk">>, <<"junk", "blank">>}
  /\ UNCHANGED <<peer, auth, now, pc, token, again, since, head, status, refusal, outcome, taken>>

Revoke ==
  /\ "old" \in takes
  /\ takes' = takes \ {"old"}
  /\ UNCHANGED <<box, auth, now, pc, token, again, since, wire, head, status, refusal, outcome, taken>>

(* Time passes while the call waits -- for a token, a connection, an       *)
(* answer, in a sleep -- not while it computes.                            *)
Tick ==
  /\ \/ pc \in {"idle", "retry"} /\ now < since + MaxAuth
     \/ pc \in {"connect", "direct"} /\ now < since + MaxConnect
     \/ pc = "head" /\ now < since + MaxLag
     \/ pc = "sleep" /\ now < since + Retry + Slack
  /\ now' = now + 1
  /\ UNCHANGED <<peer, auth, pc, token, again, since, wire, head, status, refusal, outcome, taken>>

-----------------------------------------------------------------------------
Init ==
  /\ box \in Box
  /\ now = 0
  /\ cached \in Tok \ {"fresh"}
  /\ known \in BOOLEAN
  /\ cached = "old" => known
  /\ takes \in {{"fresh", "pinned"}, {"fresh", "old", "pinned"}, {"fresh"}}
  /\ pc = "idle" /\ token = "none" /\ again = FALSE /\ since = 0
  /\ wire = <<>> /\ head = 0 /\ status = NoAnswer
  /\ refusal = "none" /\ outcome = "none" /\ taken = <<>>

Client ==
  \/ Authorize \/ Connect \/ ReadHead \/ NotConnect \/ HeadTimeout
  \/ Denied \/ Reauthorize \/ Refused \/ Wake \/ Direct
Next == Client \/ Use \/ PeerAnswers \/ PeerBabbles \/ Revoke \/ Tick

Spec == Init /\ [][Next]_vars
(* The clock runs, and every blocking operation has a timeout.             *)
FairSpec == Spec /\ WF_vars(Client) /\ WF_vars(Tick)

-----------------------------------------------------------------------------
(* PROPERTIES *)

(* "Not a single tunnel byte past the blank line is taken out of the       *)
(* socket" (tunnel_once): the caller of an open tunnel gets what the debug *)
(* server said, from its first byte on, also when the server spoke first.  *)
StreamIntact == outcome = "tunnel" => taken \o wire = Data

(* "A debug server the box has only just started can take a moment to open *)
(* its port" (debug_tunnel): the call gives up on it only if the server    *)
(* opened its port too late for the last try, never earlier.               *)
LateServerIsWaitedFor ==
  outcome = "nothingListening" => box.opens + Retry + MaxLag > Deadline

(* The wait is bounded too: a try begins, with the resolution of its       *)
(* token, by the deadline, give or take an overshooting sleep.  Its        *)
(* CONNECTs may go out later than that, by what the token and the          *)
(* connection take, and an answer that asks for another token: nothing     *)
(* looks at the clock again before they do.                                *)
Setup == MaxAuth + MaxConnect
NoTryAfterDeadline ==
  /\ pc = "idle" => since <= Deadline + Slack
  /\ pc = "head" =>
       since <= Deadline + Slack + Setup + (IF again THEN MaxLag + Setup ELSE 0)

(* "When that fails and the CONNECT carried a token ... the answer is the  *)
(* 'gateway predates tunnels' error" (debug_port_direct): a caller whose   *)
(* request carried any token never sees a bare connection failure of the   *)
(* direct port.                                                            *)
TokenMeansGateway ==
  refusal = "unsupported" /\ pc = "done" /\ token # "none" =>
    outcome # "connection"

(* "No other refusal is retried" and only one that is no answer to CONNECT *)
(* leads to the published port (debug_tunnel): after a denial, a forbidden *)
(* port or a server that is not up, on whichever try, the call never goes  *)
(* round the gateway -- unless the gateway hung up before its head was     *)
(* whole, which "a peer that hangs up mid-head does not do CONNECT"        *)
(* (tunnel_once) takes for an old box.                                     *)
NoBypass ==
  outcome \in {"direct", "predatesTunnels"} /\ ~HungUp =>
    ~(status.code = 502 \/ status.code = 403 \/ status.disc)

(* Every call ends.                                                        *)
TunnelEnds == <>(pc = "done")
=============================================================================
