------------------------------ MODULE RttStream ------------------------------
(***************************************************************************)
(* One request for an RTT log stream (stream_debug_once of both clients):  *)
(* the answer's head, whether it opens a stream, a denial or a refusal,    *)
(* and which decoder reads the body behind it.  The blocking client has    *)
(* ureq below it, which undoes the framings HTTP knows and nothing else;   *)
(* the async one reads the socket.  The denial's retry is in GatewayAuth.  *)
(***************************************************************************)
EXTENDS ChunkedDecoder

CONSTANTS
  Clients, \* the clients: "blocking", "async"
  Heads,   \* the heads a box or a gateway may answer with: of ResponseHead
  Bodies,  \* what may arrive behind each framing
  Json     \* the body of a refusal, unframed

(* busy: the refusal says that the probe is.  discovery: the header with   *)
(* the auth server's address is there.                                     *)
Framing == {"chunked", "length", "close"}
ResponseHead == [status : {200, 204, 401, 403, 500, 503}, version : {"1.0", "1.1"},
                 framing : Framing, discovery : BOOLEAN, busy : BOOLEAN]

ASSUME StreamAssumption ==
  /\ Clients \subseteq {"blocking", "async"} /\ Heads \subseteq ResponseHead
  /\ \A f \in Framing : Bodies[f] \subseteq Wires

VARIABLES
  client, head,
  phase, \* "asking", "open" (the program has a stream), "refused" (its body is read), "done"
  told   \* the error the program got, or "none"

rttVars == <<decoderVars, client, head, phase, told>>

-----------------------------------------------------------------------------
Opens(c, h) == IF c = "async" THEN h.status = 200 ELSE h.status < 400

(* The debug service frames by hand under HTTP/1.0, where ureq leaves the  *)
(* framing in; under HTTP/1.1 it has undone it.                            *)
HandFramed(h) == h.version = "1.0" /\ h.framing = "chunked"

(* Mutant: framing is ureq's business.                                     *)
Decoder_Ureq(c, h) ==
  IF c = "blocking" /\ HandFramed(h) THEN "close" ELSE h.framing

(* What reads the body: ChunkedReader for an open stream, the raw bytes    *)
(* for a refusal, and AsyncBody::new, or ureq, by the framing.             *)
Decoder(c, h) ==
  IF c = "blocking" /\ HandFramed(h)
    THEN IF Opens(c, h) THEN "blocking" ELSE "close"
    ELSE h.framing

(* parse_debug, of a status that is not 200.                               *)
Parse_debug(h, body) ==
  CASE h.status = 503 /\ h.busy /\ body = Json -> "probeBusy"
    [] h.status = 403                          -> "safetyRefused"
    [] OTHER                                   -> "box"

Same_answer == UNCHANGED <<client, head>>
Tell(error) == phase' = "done" /\ told' = error

(* No connection, none left before the head was whole, a head beyond       *)
(* MAX_HEAD_BYTES, or one that is not HTTP.  There is no limit on the      *)
(* wait: a box that accepts and says nothing is waited for.                *)
NoAnswer ==
  /\ phase = "asking" /\ Same_answer /\ UNCHANGED decoderVars
  /\ \E error \in {"connection"} \cup (IF client = "async" THEN {"timeout", "decode"} ELSE {}) :
       Tell(error)

(* A denial is a denial only with the discovery header.                    *)
IsDenial == head.status \in {401, 403, 503} /\ head.discovery
Answered ==
  /\ phase = "asking" /\ Same_answer /\ UNCHANGED decoderVars
  /\ \/ Opens(client, head) /\ phase' = "open" /\ told' = told
     \/ ~Opens(client, head) /\ IsDenial /\ Tell("denied")
     \/ ~Opens(client, head) /\ ~IsDenial /\ phase' = "refused" /\ told' = told

(* The program reads, or the client reads the refusal.                     *)
Read ==
  /\ phase \in {"open", "refused"} /\ Decode
  /\ Same_answer /\ UNCHANGED <<phase, told>>

(* Mutant: only a refusal that ended well is looked at.                    *)
Refuse_Strict ==
  /\ phase = "refused" /\ res # "none"
  /\ Tell(Parse_debug(head, IF res = "end" THEN out ELSE <<>>))
  /\ Same_answer /\ UNCHANGED decoderVars

(* The refusal as an error.  The async client takes what came before its   *)
(* timeout, however it ended; the blocking one only a whole body, and      *)
(* waits for it.                                                           *)
Refuse ==
  /\ phase = "refused"
  /\ client = "blocking" => res # "none"
  /\ Tell(Parse_debug(head, IF client = "async" \/ res = "end" THEN out ELSE <<>>))
  /\ Same_answer /\ UNCHANGED decoderVars

RttInit ==
  /\ client \in Clients /\ head \in Heads
  /\ wire \in Bodies[head.framing] /\ kind = Decoder(client, head) /\ DecoderInit
  /\ phase = "asking" /\ told = "none"

RttNext == NoAnswer \/ Answered \/ Read \/ Refuse
RttSpec == RttInit /\ [][RttNext]_rttVars

-----------------------------------------------------------------------------
(* PROPERTIES *)

(* "The same decoder": whatever the client, the version and the framing,   *)
(* and at every split, an open stream is the body the box framed, framing  *)
(* never as payload, ended as the format ends it; a wire with a line       *)
(* longer than MAX_SIZE_LINE may be refused, and no other one is.          *)
StreamIsBody ==
  LET body == Meant(head.framing) IN
  phase = "open" =>
    /\ IsPrefix(out, body.out)
    /\ res # "none" =>
         [out |-> out, res |-> res] = body \/ (Chunked /\ res = "invalid" /\ ~Fits(wire))

(* A busy probe is ProbeBusy, which programs wait for and try again, and   *)
(* nothing else is; it is missed only when its body did not come, in time  *)
(* or at all, or with a line longer than MAX_SIZE_LINE, and by the         *)
(* blocking client when it was framed by hand.                             *)
RefusalIsTold ==
  LET busy   == head.status = 503 /\ head.busy /\ ~head.discovery
      body   == Meant(head.framing)
      missed == \/ body.out # Json \/ res = "none" \/ ~Fits(wire)
                \/ client = "blocking" /\ (body.res # "end" \/ HandFramed(head))
  IN /\ told = "probeBusy" => busy
     /\ told = "box" /\ busy => missed
=============================================================================
