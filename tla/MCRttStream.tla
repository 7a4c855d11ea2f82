---------------------------- MODULE MCRttStream ----------------------------
(* Small instances of RttStream.                                            *)
EXTENDS RttStream, FiniteSets

(* Every string of five symbols up to a length.                             *)
Anything == BoundedSeq({"0", "1", ";", "C", "L"}, 6)

(* What the box sends: chunks of one or two bytes, CRLF framing, cut        *)
(* anywhere.                                                                *)
Chunk(n) == IF n = 1 THEN <<"1", "C", "L", "p", "C", "L">>
            ELSE <<"2", ";", "0", "C", "L", "p", "p", "C", "L">>
Sent ==
  LET Uncut == {FlattenSeq([i \in 1..Len(ns) |-> Chunk(ns[i])]) \o <<"0", "C", "L", "C", "L">>
                  : ns \in BoundedSeq({1, 2}, 2)}
  IN UNION {Prefixes(w) : w \in Uncut}

(* The same without framing.                                                *)
Plain == BoundedSeq({"p", "L"}, 6)

AllWires == Anything \cup Sent \cup Plain
Arriving == [f \in Framing |-> IF f = "chunked" THEN Anything \cup Sent ELSE Plain]
Refusal == <<"p", "p", "p">>

(* The stream under both versions, and refusals of each kind.               *)
Answers ==
  {h \in ResponseHead :
     /\ h.busy => h.status = 503
     /\ h.discovery => h.status \in {401, 503}
     /\ h.status \in {204, 401, 403, 500} => h.framing = "length" /\ h.version = "1.0"}
=============================================================================
