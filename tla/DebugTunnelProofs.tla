-------------------------- MODULE DebugTunnelProofs --------------------------
(***************************************************************************)
(* Theorems about DebugTunnel, for every duration, greeting and head size. *)
(*                                                                         *)
(* Three things carry the proofs: the clock never runs far from where the  *)
(* step under way began; what is in the socket while a head is read is the *)
(* rest of the head and, behind it, all the debug server has said, or what *)
(* came of it before the peer hung up; and the verdict on a CONNECT is the *)
(* one of the head that was read whole.                                    *)
(***************************************************************************)
EXTENDS DebugTunnel, TLAPS, SequenceTheorems

(* Deadlines: when a step may begin, and how long it lasts.                *)
Late == IF again THEN MaxLag + Setup ELSE 0
Clock ==
  /\ since <= now
  /\ pc = "idle" => since <= Deadline + Slack /\ now <= since + MaxAuth
  /\ pc = "connect" => since <= Deadline + Slack + MaxAuth + Late /\ now <= since + MaxConnect
  /\ pc \in {"head", "decide"} => since <= Deadline + Slack + Setup + Late /\ now <= since + MaxLag
  /\ pc = "retry" => since <= Deadline + Slack + Setup + MaxLag /\ now <= since + MaxAuth
  /\ pc = "sleep" => now <= since + Retry + Slack /\ since + Retry <= Deadline

(* What is left of a head, whole or cut off, and what stands behind it.    *)
Lines == {<<"blank">>, <<"h", "blank">>, <<"h", "h", "blank">>}
Stumps == {<<"eof">>, <<"h", "eof">>, <<"h", "h", "eof">>}
Behind(s) == IF s.code = 200 THEN Data ELSE <<>>
InSocket ==
  pc = "head" /\ status # NoAnswer =>
    \/ \E l \in Lines : head + Len(l) <= 3 /\ wire = l \o Behind(status)
    \/ wire \in Stumps /\ head + Len(wire) <= 3

(* A head that does not say no.                                            *)
Bare(s) == ~(s.code = 502 \/ s.code = 403 \/ s.disc)
Said == pc \in {"head", "decide"} /\ status.code = 502 => box.opens > since

(* What the call makes of it.                                              *)
Verdict ==
  /\ pc \in {"idle", "connect", "head", "sleep"} => refusal # "unsupported"
  /\ pc = "decide" => \/ refusal = Classify(status)
                      \/ refusal = "unsupported" /\ HungUp
  /\ pc = "direct" => refusal = "unsupported" /\ (Bare(status) \/ HungUp)
  /\ pc # "done" => outcome = "none"
  /\ outcome # "tunnel" => taken = <<>>

(* A token comes from an auth server the client knows, or is pinned.       *)
Tokens ==
  /\ cached \in {"old", "fresh"} => known
  /\ token # "none" => known \/ cached = "pinned"
  /\ pc = "retry" => known /\ cached # "pinned" /\ ~again /\ refusal = "denied"

IInv ==
  /\ TypeOK /\ Clock /\ InSocket /\ Said /\ Verdict /\ Tokens
  /\ StreamIntact /\ LateServerIsWaitedFor /\ TokenMeansGateway /\ NoBypass

-----------------------------------------------------------------------------
Text == Payload \cup Framing

LEMMA Constants ==
  /\ Wait \in Nat /\ MaxLag \in Nat /\ Slack \in Nat /\ Retry \in Nat /\ Deadline \in Nat
  /\ MaxAuth \in Nat /\ MaxConnect \in Nat /\ Setup = MaxAuth + MaxConnect
  /\ Retry > 0 /\ MaxHead \in Nat /\ MaxHead >= 3
  /\ Data \in Seq(Text) /\ Data \in Seq(Payload)
  /\ \A b \in Payload : b \notin {"h", "blank", "eof"}
<1>1. Data \in Seq(Text)
  BY DataAssumption, SeqMonotonic DEF Text
<1> QED BY <1>1, TimeAssumption, DataAssumption DEF Deadline, Framing, Setup

(* The rest of a head begins with one of its lines, and reading that line  *)
(* leaves the rest.                                                        *)
LEMMA LineOff ==
  ASSUME NEW l \in Lines, NEW d \in Seq(Text)
  PROVE  /\ l \o d \in Seq(Text) /\ l \o d # <<>> /\ Len(l) \in 1..3
         /\ \/ Head(l \o d) = "blank" /\ Tail(l \o d) = d
            \/ /\ Head(l \o d) = "h" /\ Len(Tail(l)) = Len(l) - 1
               /\ Tail(l) \in Lines /\ Tail(l \o d) = Tail(l) \o d
<1>a. "h" \in Text /\ "blank" \in Text
  BY DEF Text, Framing
<1>1. l \in Seq(Text) /\ Len(l) \in 1..3 /\ l # <<>>
  <2>1. CASE l = <<"blank">>
    BY <1>a, <2>1
  <2>2. CASE l = <<"h", "blank">>
    BY <1>a, <2>2
  <2>3. CASE l = <<"h", "h", "blank">>
    BY <1>a, <2>3
  <2> QED BY <2>1, <2>2, <2>3 DEF Lines
<1>2. /\ l \o d \in Seq(Text) /\ Len(l \o d) = Len(l) + Len(d) /\ l \o d # <<>>
      /\ \A i \in 1..Len(l) + Len(d) : (l \o d)[i] = IF i <= Len(l) THEN l[i] ELSE d[i - Len(l)]
      /\ Len(d) \in Nat
  BY <1>1, ConcatProperties, LenProperties
<1>3. Head(l \o d) = l[1]
  BY <1>1, <1>2
<1>4. /\ Tail(l \o d) \in Seq(Text) /\ Len(Tail(l \o d)) = Len(l) + Len(d) - 1
      /\ \A i \in 1..Len(l) + Len(d) - 1 : Tail(l \o d)[i] = (l \o d)[i + 1]
  BY <1>2, HeadTailProperties
<1>5. CASE l = <<"blank">>
  <2>1. Tail(l \o d) = d
    BY <1>2, <1>4, <1>5, SeqEqual
  <2> QED BY <1>1, <1>2, <1>3, <1>5, <2>1
<1>6. CASE l # <<"blank">>
  <2>1. Tail(l) \in Lines /\ Len(Tail(l)) = Len(l) - 1 /\ l[1] = "h" /\ Tail(l) \in Seq(Text)
    <3>1. CASE l = <<"h", "blank">>
      <4>1. Tail(l) = <<"blank">> /\ Len(l) = 2 /\ Len(Tail(l)) = 1 /\ l[1] = "h"
        BY <3>1
      <4> QED BY <1>a, <4>1 DEF Lines
    <3>2. CASE l = <<"h", "h", "blank">>
      <4>1. Tail(l) = <<"h", "blank">> /\ Len(Tail(l)) = Len(l) - 1 /\ l[1] = "h"
        BY <3>2
      <4>2. Tail(l) \in Lines
        BY <4>1 DEF Lines
      <4>3. <<"h", "blank">> \in Seq(Text)
        BY <1>a
      <4> QED BY <4>1, <4>2, <4>3
    <3> QED BY <1>6, <3>1, <3>2 DEF Lines
  <2>2. \A i \in 1..Len(l) - 1 : Tail(l)[i] = l[i + 1]
    BY <1>1, HeadTailProperties, <2>1
  <2>3. /\ Tail(l) \o d \in Seq(Text) /\ Len(Tail(l) \o d) = Len(l) + Len(d) - 1
        /\ \A i \in 1..Len(l) + Len(d) - 1 :
             (Tail(l) \o d)[i] = IF i <= Len(l) - 1 THEN Tail(l)[i] ELSE d[i - (Len(l) - 1)]
    BY <1>1, <1>2, <2>1, ConcatProperties
  <2>4. \A i \in 1..Len(l) + Len(d) - 1 : Tail(l \o d)[i] = (Tail(l) \o d)[i]
    BY <1>1, <1>2, <1>4, <2>2, <2>3
  <2>5. Tail(l \o d) = Tail(l) \o d
    BY <1>4, <2>3, <2>4, SeqEqual
  <2> QED BY <1>1, <1>2, <1>3, <2>1, <2>5
<1> QED BY <1>5, <1>6

(* The same of a head that is cut off.                                     *)
LEMMA StumpOff ==
  ASSUME NEW l \in Stumps
  PROVE  /\ l \in Seq(Text) /\ l # <<>> /\ Len(l) \in 1..3
         /\ \/ Head(l) = "eof"
            \/ Head(l) = "h" /\ Len(Tail(l)) = Len(l) - 1 /\ Tail(l) \in Stumps
<1>a. "h" \in Text /\ "eof" \in Text
  BY DEF Text, Framing
<1>1. CASE l = <<"eof">>
  BY <1>a, <1>1
<1>2. CASE l = <<"h", "eof">>
  <2>1. /\ l \in Seq(Text) /\ l # <<>> /\ Len(l) = 2 /\ Head(l) = "h"
        /\ Tail(l) = <<"eof">> /\ Len(Tail(l)) = 1
    BY <1>a, <1>2
  <2> QED BY <2>1 DEF Stumps
<1>3. CASE l = <<"h", "h", "eof">>
  <2>1. /\ l \in Seq(Text) /\ l # <<>> /\ Len(l) = 3 /\ Head(l) = "h"
        /\ Tail(l) = <<"h", "eof">> /\ Len(Tail(l)) = 2
    BY <1>a, <1>3
  <2> QED BY <2>1 DEF Stumps
<1> QED BY <1>1, <1>2, <1>3 DEF Stumps

LEMMA OneMore ==
  ASSUME NEW b \in Text, NEW h \in Text
  PROVE  Append(<<h>>, b) = <<h, b>> /\ Append(<<h, h>>, b) = <<h, h, b>>
<1>1. <<h>> \in Seq(Text) /\ <<h, h>> \in Seq(Text)
  OBVIOUS
<1>2. /\ Append(<<h>>, b) \in Seq(Text) /\ Len(Append(<<h>>, b)) = 2
      /\ Append(<<h>>, b)[1] = h /\ Append(<<h>>, b)[2] = b
  BY <1>1, AppendProperties
<1>3. /\ Append(<<h, h>>, b) \in Seq(Text) /\ Len(Append(<<h, h>>, b)) = 3
      /\ Append(<<h, h>>, b)[1] = h /\ Append(<<h, h>>, b)[2] = h /\ Append(<<h, h>>, b)[3] = b
  BY <1>1, AppendProperties
<1>4. /\ <<h, b>> \in Seq(Text) /\ Len(<<h, b>>) = 2 /\ <<h, h, b>> \in Seq(Text) /\ Len(<<h, h, b>>) = 3
  OBVIOUS
<1>5. Append(<<h>>, b) = <<h, b>>
  <2>1. \A i \in 1..2 : Append(<<h>>, b)[i] = <<h, b>>[i]
    <3>1. \A i \in 1..2 : i = 1 \/ i = 2
      OBVIOUS
    <3> QED BY <3>1, <1>2
  <2> QED BY <1>2, <1>4, <2>1, SeqEqual
<1>6. Append(<<h, h>>, b) = <<h, h, b>>
  <2>1. \A i \in 1..3 : Append(<<h, h>>, b)[i] = <<h, h, b>>[i]
    <3>1. \A i \in 1..3 : i = 1 \/ i = 2 \/ i = 3
      OBVIOUS
    <3> QED BY <3>1, <1>3
  <2> QED BY <1>3, <1>4, <2>1, SeqEqual
<1> QED BY <1>5, <1>6

(* What a peer writes is a head, whole or cut off.                         *)
LEMMA WholeOrCut ==
  ASSUME NEW l, l = <<"h">> \/ l = <<"h", "h">>
  PROVE  Append(l, "blank") \in Lines /\ Append(l, "eof") \in Stumps
<1>1. "h" \in Text /\ "blank" \in Text /\ "eof" \in Text
  BY DEF Text, Framing
<1>2. /\ Append(<<"h">>, "blank") \in Lines /\ Append(<<"h", "h">>, "blank") \in Lines
      /\ Append(<<"h">>, "eof") \in Stumps /\ Append(<<"h", "h">>, "eof") \in Stumps
  BY <1>1, OneMore, Zenon DEF Lines, Stumps
<1> QED BY <1>2

LEMMA Short == \A l : l \in Lines \/ l \in Stumps => 0 + Len(l) <= 3
<1> SUFFICES ASSUME NEW l, l \in Lines \/ l \in Stumps PROVE 0 + Len(l) <= 3
  OBVIOUS
<1>0. \A n \in 1..3 : 0 + n <= 3
  OBVIOUS
<1>1. CASE l \in Lines
  <2>1. Len(l) \in 1..3
    BY <1>1, LineOff, EmptySeq
  <2> QED BY <1>0, <2>1, Zenon
<1>2. CASE l \in Stumps
  <2>1. Len(l) \in 1..3
    BY <1>2, StumpOff
  <2> QED BY <1>0, <2>1, Zenon
<1> QED BY <1>1, <1>2

LEMMA BehindType == \A s : Behind(s) \in Seq(Text) /\ (Behind(s) = Data \/ Behind(s) = <<>>)
BY Constants DEF Behind

(* A byte moves from the socket to the caller.                             *)
LEMMA MoveByte ==
  ASSUME NEW a \in Seq(Payload), NEW w \in Seq(Text), w # <<>>, Head(w) \in Payload
  PROVE  /\ Append(a, Head(w)) \in Seq(Payload) /\ Tail(w) \in Seq(Text)
         /\ Append(a, Head(w)) \o Tail(w) = a \o w
<1>1. a \in Seq(Text) /\ Head(w) \in Text /\ Tail(w) \in Seq(Text) /\ <<Head(w)>> \in Seq(Text)
  BY SeqMonotonic, HeadTailProperties DEF Text
<1>2. Append(a, Head(w)) = a \o <<Head(w)>> /\ Append(a, Head(w)) \in Seq(Payload)
  BY AppendIsConcat, AppendProperties
<1>3. <<Head(w)>> \o Tail(w) = w
  OBVIOUS
<1> QED BY <1>1, <1>2, <1>3, ConcatAssociative

-----------------------------------------------------------------------------
LEMMA InitInv == Init => IInv
<1> SUFFICES ASSUME Init PROVE IInv
  OBVIOUS
<1> USE DEF Init
<1>1. TypeOK
  <2>1. /\ cached \in Tok /\ known \in BOOLEAN /\ token \in Tok /\ takes \subseteq Tok
        /\ pc \in Pc /\ refusal \in Refusal /\ outcome \in Outcome
    BY DEF Tok, Pc, Refusal, Outcome
  <2>2. /\ box \in Box /\ now \in Nat /\ since \in Nat /\ again \in BOOLEAN
        /\ head \in 0..MaxHead /\ status \in Heads \cup {NoAnswer}
    <3>1. now \in Nat /\ since \in Nat /\ head \in 0..MaxHead
      BY Constants
    <3> QED BY <3>1
  <2>3. wire \in Seq(Payload \cup Framing) /\ taken \in Seq(Payload)
    BY EmptySeq
  <2> QED BY <2>1, <2>2, <2>3 DEF TypeOK
<1>2. Clock
  BY Constants DEF Clock, Late
<1>3. InSocket /\ Said /\ Verdict /\ Tokens
  BY DEF InSocket, Said, NoAnswer, Verdict, Tokens, Tok
<1>4. StreamIntact /\ LateServerIsWaitedFor /\ TokenMeansGateway /\ NoBypass
  BY DEF StreamIntact, LateServerIsWaitedFor, TokenMeansGateway, NoBypass
<1> QED BY <1>1, <1>2, <1>3, <1>4 DEF IInv

LEMMA NextInv == IInv /\ [Next]_vars => IInv'
<1> SUFFICES ASSUME IInv, [Next]_vars PROVE IInv'
  OBVIOUS
<1> USE DEF IInv, End, peer, auth
<1>t. /\ box.opens \in Nat
      /\ now \in Nat /\ since \in Nat /\ again \in BOOLEAN /\ known \in BOOLEAN
      /\ wire \in Seq(Text) /\ taken \in Seq(Payload) /\ head \in Nat
  BY Constants DEF TypeOK, Box, Never, Text
<1>1. CASE Authorize
  <2>0. /\ pc = "idle" /\ pc' = "connect" /\ since' = now /\ again' = FALSE
        /\ UNCHANGED <<box, takes, known, now, wire, head, status, refusal, outcome, taken>>
        /\ \/ token' = cached /\ cached' = cached
           \/ known /\ token' \in {"old", "fresh", "none"} /\ cached' = token'
    BY <1>1 DEF Authorize
  <2>1. TypeOK'
    <3>1. cached' \in Tok /\ token' \in Tok
      BY <2>0 DEF TypeOK, Tok
    <3> QED BY <1>t, <2>0, <3>1 DEF TypeOK, Pc
  <2>2. Clock'
    BY <2>0, <1>t, Constants DEF Clock, Late
  <2>3. InSocket' /\ Said' /\ Verdict'
    BY <2>0 DEF InSocket, Said, Verdict
  <2>5. Tokens'
    BY <2>0 DEF Tokens, TypeOK, Tok
  <2>4. StreamIntact' /\ LateServerIsWaitedFor' /\ TokenMeansGateway' /\ NoBypass'
    BY <2>0 DEF StreamIntact, LateServerIsWaitedFor, TokenMeansGateway, NoBypass, Verdict
  <2> QED BY <2>1, <2>2, <2>3, <2>4, <2>5
<1>2. CASE Connect
  <2>1. TypeOK'
    BY <1>2, <1>t, Constants DEF Connect, TypeOK, Pc, Outcome
  <2>2. Clock'
    BY <1>2, <1>t, Constants DEF Connect, Clock, Late
  <2>3. InSocket' /\ Said' /\ Verdict' /\ Tokens'
    BY <1>2 DEF Connect, InSocket, Said, Verdict, Tokens, NoAnswer
  <2>4. StreamIntact' /\ LateServerIsWaitedFor' /\ TokenMeansGateway' /\ NoBypass'
    BY <1>2 DEF Connect, StreamIntact, LateServerIsWaitedFor, TokenMeansGateway, NoBypass, Verdict
  <2> QED BY <2>1, <2>2, <2>3, <2>4
<1>3. CASE ReadHead
  <2>1. CASE Head(wire) # "blank"
    <3>1. /\ UNCHANGED <<pc, refusal, outcome>> /\ head' = head + 1 /\ wire' = Tail(wire)
          /\ wire # <<>> /\ pc = "head" /\ head < MaxHead
          /\ UNCHANGED <<box, takes, cached, known, now, token, again, since, status, taken>>
      BY <1>3, <2>1 DEF ReadHead
    <3>2. TypeOK'
      <4>1. Tail(wire) \in Seq(Payload \cup Framing) /\ head + 1 \in 0..MaxHead
        BY <1>t, <3>1, HeadTailProperties, Constants DEF TypeOK, Text
      <4> QED BY <3>1, <4>1 DEF TypeOK
    <3>3. InSocket'
      <4> SUFFICES ASSUME status # NoAnswer
                   PROVE  \/ \E l \in Lines : head' + Len(l) <= 3 /\ wire' = l \o Behind(status)
                          \/ wire' \in Stumps /\ head' + Len(wire') <= 3
        BY <3>1 DEF InSocket
      <4>0. \A n \in 1..3 : head + n <= 3 => head + 1 + (n - 1) <= 3
        BY <1>t
      <4>a. ASSUME NEW l \in Lines, head + Len(l) <= 3, wire = l \o Behind(status)
            PROVE  \E k \in Lines : head' + Len(k) <= 3 /\ wire' = k \o Behind(status)
        <5>1. /\ Tail(l) \in Lines /\ wire' = Tail(l) \o Behind(status)
              /\ Len(Tail(l)) = Len(l) - 1 /\ Len(l) \in 1..3
          BY <2>1, <3>1, <4>a, LineOff, BehindType
        <5>2. head' + Len(Tail(l)) <= 3
          BY <3>1, <4>0, <4>a, <5>1
        <5> QED BY <5>1, <5>2
      <4>b. CASE wire \in Stumps /\ head + Len(wire) <= 3
        <5>1. Head(wire) # "eof"
          BY <1>3 DEF ReadHead
        <5>2. Tail(wire) \in Stumps /\ Len(Tail(wire)) = Len(wire) - 1 /\ Len(wire) \in 1..3
          BY <4>b, <5>1, StumpOff
        <5> QED BY <3>1, <4>0, <4>b, <5>2
      <4> QED BY <3>1, <4>a, <4>b DEF InSocket
    <3>4. Clock' /\ Said' /\ Verdict' /\ Tokens'
      BY <3>1 DEF Clock, Late, Said, Verdict, Tokens
    <3>5. StreamIntact' /\ LateServerIsWaitedFor' /\ TokenMeansGateway' /\ NoBypass'
      BY <3>1 DEF StreamIntact, LateServerIsWaitedFor, TokenMeansGateway, NoBypass, Verdict
    <3> QED BY <3>2, <3>3, <3>4, <3>5
  <2>2. CASE Head(wire) = "blank"
    <3>1. /\ head' = head + 1 /\ wire' = Tail(wire) /\ wire # <<>> /\ pc = "head" /\ head < MaxHead
          /\ IF status.code = 200 THEN pc' = "done" /\ outcome' = "tunnel" /\ refusal' = refusal
             ELSE pc' = "decide" /\ refusal' = Classify(status) /\ outcome' = outcome
          /\ UNCHANGED <<box, takes, cached, known, now, token, again, since, status, taken>>
      BY <1>3, <2>2 DEF ReadHead
    <3>2. Classify(status) \in Refusal /\ Classify(NoAnswer) = "unsupported"
      BY DEF Classify, Refusal, NoAnswer
    <3>3. TypeOK'
      <4>1. Tail(wire) \in Seq(Payload \cup Framing) /\ head + 1 \in 0..MaxHead
        BY <1>t, <3>1, HeadTailProperties, Constants DEF TypeOK, Text
      <4> QED BY <3>1, <3>2, <4>1 DEF TypeOK, Pc, Outcome
    <3>4. Clock' /\ InSocket' /\ Said' /\ Tokens'
      BY <3>1 DEF Clock, Late, InSocket, Said, Tokens
    <3>6. Verdict'
      BY <3>1, <3>2 DEF Verdict
    <3>5. StreamIntact'
      <4> SUFFICES ASSUME outcome' = "tunnel" PROVE taken \o wire' = Data
        BY <3>1 DEF StreamIntact
      <4>1. status.code = 200 /\ taken = <<>> /\ status # NoAnswer
        BY <3>1 DEF Verdict, NoAnswer
      <4>2. wire \notin Stumps
        BY <2>2, StumpOff
      <4>3. PICK l \in Lines : wire = l \o Behind(status)
        BY <3>1, <4>1, <4>2 DEF InSocket
      <4>4. wire' = Data
        BY <2>2, <3>1, <4>1, <4>3, LineOff, BehindType DEF Behind
      <4> QED BY <4>1, <4>4, Constants, ConcatEmptySeq
    <3>7. LateServerIsWaitedFor' /\ TokenMeansGateway' /\ NoBypass'
      BY <3>1 DEF LateServerIsWaitedFor, TokenMeansGateway, NoBypass, Verdict
    <3> QED BY <3>3, <3>4, <3>5, <3>6, <3>7
  <2> QED BY <2>1, <2>2
<1>4. CASE NotConnect
  <2>0. /\ pc = "head" /\ pc' = "decide" /\ refusal' = "unsupported" /\ (head = MaxHead \/ HungUp)
        /\ UNCHANGED <<box, takes, cached, known, now, token, again, since, wire, head, status,
                       outcome, taken>>
    BY <1>4 DEF NotConnect
  <2>1. status = NoAnswer \/ HungUp
    <3> SUFFICES ASSUME status # NoAnswer, ~HungUp PROVE FALSE
      OBVIOUS
    <3>1. ASSUME NEW n \in 1..3, head + n <= 3 PROVE FALSE
      BY <1>t, <2>0, <3>1, Constants
    <3>2. CASE wire \in Stumps /\ head + Len(wire) <= 3
      BY <3>1, <3>2, StumpOff
    <3>3. ASSUME NEW l \in Lines, head + Len(l) <= 3 PROVE FALSE
      BY <3>1, <3>3, LineOff, BehindType
    <3> QED BY <2>0, <3>2, <3>3 DEF InSocket
  <2>2. TypeOK' /\ Clock' /\ InSocket' /\ Tokens' /\ Said'
    BY <2>0 DEF TypeOK, Pc, Refusal, Clock, Late, InSocket, Tokens, Said
  <2>3. Verdict'
    <3>1. Classify(NoAnswer) = "unsupported" /\ HungUp' = HungUp
      BY <2>0 DEF Classify, NoAnswer, HungUp
    <3> QED BY <2>0, <2>1, <3>1 DEF Verdict
  <2>4. StreamIntact' /\ LateServerIsWaitedFor' /\ TokenMeansGateway' /\ NoBypass'
    BY <2>0 DEF StreamIntact, LateServerIsWaitedFor, TokenMeansGateway, NoBypass, Verdict
  <2> QED BY <2>2, <2>3, <2>4
<1>5. CASE HeadTimeout
  <2>1. TypeOK' /\ InSocket' /\ Tokens'
    BY <1>5 DEF HeadTimeout, TypeOK, Pc, Outcome, InSocket, Tokens
  <2>5. Clock'
    BY <1>5 DEF HeadTimeout, Clock, Late
  <2>3. Said'
    BY <1>5 DEF HeadTimeout, Said
  <2>4. Verdict'
    BY <1>5 DEF HeadTimeout, Verdict
  <2>2. StreamIntact' /\ LateServerIsWaitedFor' /\ TokenMeansGateway' /\ NoBypass'
    BY <1>5 DEF HeadTimeout, StreamIntact, LateServerIsWaitedFor, TokenMeansGateway, NoBypass, Verdict
  <2> QED BY <2>1, <2>2, <2>3, <2>4, <2>5
<1>6. CASE Denied
  <2>0. /\ pc = "decide" /\ refusal = "denied" /\ known' = (known \/ ~again)
        /\ \/ /\ ~again /\ cached # "pinned"
              /\ pc' = "retry" /\ since' = now /\ outcome' = outcome
           \/ pc' = "done" /\ outcome' = "denial" /\ since' = since
        /\ UNCHANGED <<box, takes, cached, now, token, again, wire, head, status, refusal, taken>>
    BY <1>6 DEF Denied
  <2>1. TypeOK'
    BY <1>t, <2>0 DEF TypeOK, Pc, Outcome
  <2>2. Clock'
    BY <2>0, <1>t, Constants DEF Clock, Late
  <2>3. InSocket' /\ Said' /\ Verdict'
    BY <2>0 DEF InSocket, Said, Verdict
  <2>5. Tokens'
    BY <2>0, <1>t DEF Tokens
  <2>4. StreamIntact' /\ LateServerIsWaitedFor' /\ TokenMeansGateway' /\ NoBypass'
    BY <2>0 DEF StreamIntact, LateServerIsWaitedFor, TokenMeansGateway, NoBypass, Verdict
  <2> QED BY <2>1, <2>2, <2>3, <2>4, <2>5
<1>16. CASE Reauthorize
  <2>0. /\ pc = "retry"
        /\ \/ /\ token' \in {"old", "fresh"} /\ cached' = token' /\ again' = TRUE
              /\ pc' = "connect" /\ since' = now /\ outcome' = outcome
           \/ /\ pc' = "done" /\ outcome' = "denial"
              /\ UNCHANGED <<token, cached, again, since>>
        /\ UNCHANGED <<box, takes, known, now, wire, head, status, refusal, taken>>
    BY <1>16 DEF Reauthorize
  <2>1. TypeOK'
    <3>1. cached' \in Tok /\ token' \in Tok
      BY <2>0 DEF TypeOK, Tok
    <3> QED BY <1>t, <2>0, <3>1 DEF TypeOK, Pc, Outcome
  <2>2. Clock'
    BY <2>0, <1>t, Constants DEF Clock, Late
  <2>3. InSocket' /\ Said' /\ Verdict'
    BY <2>0 DEF InSocket, Said, Verdict, Tokens
  <2>5. Tokens'
    BY <2>0 DEF Tokens
  <2>4. StreamIntact' /\ LateServerIsWaitedFor' /\ TokenMeansGateway' /\ NoBypass'
    BY <2>0 DEF StreamIntact, LateServerIsWaitedFor, TokenMeansGateway, NoBypass, Verdict
  <2> QED BY <2>1, <2>2, <2>3, <2>4, <2>5
<1>7. CASE Refused
  <2>1. TypeOK'
    BY <1>7, <1>t DEF Refused, TypeOK, Pc, Outcome
  <2>2. Clock'
    BY <1>7, <1>t, Constants DEF Refused, Clock, Late, Patience
  <2>3. refusal = "unsupported" => Bare(status) \/ HungUp
    BY <1>7 DEF Refused, Verdict, TypeOK, Heads, Classify, Bare, NoAnswer
  <2>7. HungUp' = HungUp
    BY <1>7 DEF Refused, HungUp
  <2>4. InSocket' /\ Said' /\ Verdict' /\ Tokens'
    BY <1>7, <2>3, <2>7 DEF Refused, InSocket, Said, Verdict, Tokens
  <2>5. LateServerIsWaitedFor'
    <3> SUFFICES ASSUME outcome' = "nothingListening" PROVE box.opens + Retry + MaxLag > Deadline
      BY <1>7 DEF Refused, LateServerIsWaitedFor
    <3>1. pc = "decide" /\ refusal = "nothingListening" /\ ~(now + Retry <= Deadline)
      BY <1>7 DEF Refused, Patience, Verdict
    <3>2. status.code = 502
      BY <3>1 DEF Verdict, Classify, NoAnswer
    <3>3. box.opens > since /\ now <= since + MaxLag
      BY <3>1, <3>2 DEF Said, Clock
    <3> QED BY <1>t, <3>1, <3>3, Constants
  <2>6. StreamIntact' /\ TokenMeansGateway' /\ NoBypass'
    BY <1>7 DEF Refused, StreamIntact, TokenMeansGateway, NoBypass, Verdict
  <2> QED BY <2>1, <2>2, <2>4, <2>5, <2>6
<1>8. CASE Wake
  <2>1. TypeOK'
    BY <1>8 DEF Wake, TypeOK, Pc
  <2>2. Clock'
    BY <1>8, <1>t, Constants DEF Wake, Clock, Late
  <2>3. InSocket' /\ Said' /\ Verdict' /\ Tokens'
    BY <1>8 DEF Wake, InSocket, Said, Verdict, Tokens
  <2>4. StreamIntact' /\ LateServerIsWaitedFor' /\ TokenMeansGateway' /\ NoBypass'
    BY <1>8 DEF Wake, StreamIntact, LateServerIsWaitedFor, TokenMeansGateway, NoBypass, Verdict
  <2> QED BY <2>1, <2>2, <2>3, <2>4
<1>9. CASE Direct
  <2>1. TypeOK'
    BY <1>9 DEF Direct, TypeOK, Pc, Outcome
  <2>2. Clock' /\ InSocket' /\ Said' /\ Verdict' /\ Tokens'
    BY <1>9 DEF Direct, Clock, Late, InSocket, Said, Verdict, Tokens
  <2>3. TokenMeansGateway'
    BY <1>9 DEF Direct, TokenMeansGateway, Tokens
  <2>4. StreamIntact' /\ LateServerIsWaitedFor' /\ NoBypass'
    BY <1>9 DEF Direct, StreamIntact, LateServerIsWaitedFor, NoBypass, Verdict, Bare, HungUp
  <2> QED BY <2>1, <2>2, <2>3, <2>4
<1>10. CASE Use
  <2>1. /\ outcome = "tunnel" /\ taken' = Append(taken, Head(wire)) /\ wire' = Tail(wire)
        /\ UNCHANGED <<box, takes, cached, known, now, pc, token, again, since, head, status,
                       refusal, outcome>>
        /\ taken' \in Seq(Payload) /\ wire' \in Seq(Payload \cup Framing)
        /\ taken' \o wire' = taken \o wire
    BY <1>10, <1>t, MoveByte DEF Use, Text
  <2>2. TypeOK'
    BY <2>1 DEF TypeOK
  <2>5. Clock'
    BY <2>1 DEF Clock, Late
  <2>6. Said' /\ Tokens'
    BY <2>1 DEF Said, Tokens
  <2>7. Verdict'
    BY <2>1 DEF Verdict
  <2>8. InSocket'
    <3>1. pc # "head"
      BY <2>1 DEF Verdict
    <3> QED BY <2>1, <3>1 DEF InSocket
  <2>3. Clock' /\ InSocket' /\ Said' /\ Verdict' /\ Tokens'
    BY <2>5, <2>6, <2>7, <2>8
  <2>9. StreamIntact'
    BY <2>1 DEF StreamIntact
  <2>4. LateServerIsWaitedFor' /\ TokenMeansGateway' /\ NoBypass'
    BY <2>1 DEF LateServerIsWaitedFor, TokenMeansGateway, NoBypass
  <2> QED BY <2>2, <2>3, <2>4, <2>9
<1>11. CASE PeerAnswers
  <2>1. PICK s \in Answers(token), whole \in BOOLEAN, lines \in {<<"h">>, <<"h", "h">>} :
          /\ status' = s
          /\ wire' = IF ~whole THEN Append(lines, "eof")
                     ELSE Append(lines, "blank") \o IF s.code = 200 THEN Data ELSE <<>>
    BY <1>11 DEF PeerAnswers
  <2>2. /\ pc = "head" /\ head = 0 /\ status = NoAnswer
        /\ UNCHANGED <<box, takes, cached, known, now, pc, token, again, since, head, refusal,
                       outcome, taken>>
    BY <1>11 DEF PeerAnswers
  <2>3. s \in Heads /\ (s.code = 502 => box.opens > now)
    BY <1>t, <2>1 DEF Answers, Refuses, Heads, Listening
  <2>4. \/ wire' \in Stumps /\ head' + Len(wire') <= 3
        \/ \E l \in Lines : head' + Len(l) <= 3 /\ wire' = l \o Behind(s)
    <3>0. lines = <<"h">> \/ lines = <<"h", "h">>
      BY <2>1, Zenon
    <3>1. CASE ~whole
      <4>1. wire' = Append(lines, "eof")
        BY <2>1, <3>1, Zenon
      <4>2. wire' \in Stumps
        BY <3>0, <4>1, WholeOrCut
      <4>3. 0 + Len(wire') <= 3
        BY <4>2, Short, Zenon
      <4> QED BY <2>2, <4>2, <4>3, Zenon
    <3>2. CASE whole
      <4>1. wire' = Append(lines, "blank") \o Behind(s)
        BY <2>1, <3>2, Zenon DEF Behind
      <4>2. Append(lines, "blank") \in Lines
        BY <3>0, WholeOrCut
      <4>3. 0 + Len(Append(lines, "blank")) <= 3
        BY <4>2, Short, Zenon
      <4> QED BY <2>2, <4>1, <4>2, <4>3, Zenon
    <3> QED BY <3>1, <3>2
  <2>5. wire' \in Seq(Text)
    BY <2>4, LineOff, StumpOff, BehindType
  <2>6. TypeOK'
    BY <2>1, <2>2, <2>3, <2>5 DEF TypeOK, Text
  <2>7. InSocket'
    BY <2>1, <2>4 DEF InSocket
  <2>8. Said'
    BY <1>t, <2>1, <2>2, <2>3 DEF Said, Clock
  <2>9. Clock' /\ Verdict' /\ Tokens'
    BY <2>2 DEF Clock, Late, Verdict, Tokens
  <2>a. StreamIntact' /\ LateServerIsWaitedFor' /\ TokenMeansGateway' /\ NoBypass'
    BY <2>2 DEF StreamIntact, LateServerIsWaitedFor, TokenMeansGateway, NoBypass, Verdict
  <2> QED BY <2>6, <2>7, <2>8, <2>9, <2>a
<1>12. CASE PeerBabbles
  <2>1. /\ pc = "head" /\ status = NoAnswer
        /\ UNCHANGED <<box, takes, cached, known, now, pc, token, again, since, head, status,
                       refusal, outcome, taken>>
    BY <1>12 DEF PeerBabbles
  <2>2. wire' \in {<<"eof">>, <<"junk">>, <<"junk", "blank">>}
    BY <1>12 DEF PeerBabbles
  <2>3. wire' \in Seq(Payload \cup Framing)
    <3>1. {"eof", "junk", "blank"} \subseteq Payload \cup Framing
      BY DEF Framing
    <3>2. CASE wire' = <<"eof">>
      BY <3>1, <3>2
    <3>3. CASE wire' = <<"junk">>
      BY <3>1, <3>3
    <3>4. CASE wire' = <<"junk", "blank">>
      BY <3>1, <3>4
    <3> QED BY <2>2, <3>2, <3>3, <3>4
  <2>4. TypeOK' /\ InSocket'
    BY <2>1, <2>3 DEF TypeOK, InSocket
  <2>5. Clock' /\ Said' /\ Verdict' /\ Tokens'
    BY <2>1 DEF Clock, Late, Said, Verdict, Tokens
  <2>6. StreamIntact' /\ LateServerIsWaitedFor' /\ TokenMeansGateway' /\ NoBypass'
    BY <2>1 DEF StreamIntact, LateServerIsWaitedFor, TokenMeansGateway, NoBypass, Verdict
  <2> QED BY <2>4, <2>5, <2>6
<1>13. CASE Revoke
  <2>1. /\ takes' \subseteq Tok
        /\ UNCHANGED <<box, cached, known, now, pc, token, again, since, wire, head, status,
                       refusal, outcome, taken>>
    BY <1>13 DEF Revoke, TypeOK
  <2>2. Clock' /\ InSocket' /\ Tokens'
    BY <2>1 DEF Clock, Late, InSocket, Tokens
  <2>5. Said'
    BY <2>1 DEF Said
  <2>6. Verdict'
    BY <2>1 DEF Verdict, HungUp
  <2>4. TypeOK'
    BY <2>1 DEF TypeOK
  <2>3. StreamIntact' /\ LateServerIsWaitedFor' /\ TokenMeansGateway' /\ NoBypass'
    BY <2>1 DEF StreamIntact, LateServerIsWaitedFor, TokenMeansGateway, NoBypass, HungUp
  <2> QED BY <2>2, <2>3, <2>4, <2>5, <2>6
<1>14. CASE Tick
  <2>1. /\ pc \in {"idle", "connect", "head", "retry", "direct", "sleep"} /\ now' = now + 1
        /\ UNCHANGED <<box, takes, cached, known, pc, token, again, since, wire, head, status,
                       refusal, outcome, taken>>
    BY <1>14 DEF Tick
  <2>2. TypeOK' /\ InSocket' /\ Said' /\ Verdict' /\ Tokens'
    BY <1>t, <2>1 DEF TypeOK, InSocket, Said, Verdict, Tokens, HungUp
  <2>3. Clock'
    BY <1>t, <1>14, <2>1, Constants DEF Tick, Clock, Late
  <2>4. StreamIntact' /\ LateServerIsWaitedFor' /\ TokenMeansGateway' /\ NoBypass'
    BY <2>1 DEF StreamIntact, LateServerIsWaitedFor, TokenMeansGateway, NoBypass, HungUp
  <2> QED BY <2>2, <2>3, <2>4
<1>15. CASE UNCHANGED vars
  <2>1. Clock' /\ InSocket' /\ Said' /\ Verdict' /\ Tokens'
    BY <1>15 DEF vars, Clock, Late, InSocket, Said, Verdict, Tokens, HungUp
  <2>3. TypeOK'
    BY <1>15 DEF vars, TypeOK
  <2>2. StreamIntact' /\ LateServerIsWaitedFor' /\ TokenMeansGateway' /\ NoBypass'
    BY <1>15 DEF vars, StreamIntact, LateServerIsWaitedFor, TokenMeansGateway, NoBypass, HungUp
  <2> QED BY <2>1, <2>2, <2>3
<1> QED
  BY <1>1, <1>2, <1>3, <1>4, <1>5, <1>6, <1>7, <1>8, <1>9, <1>10, <1>11, <1>12, <1>13, <1>14,
     <1>15, <1>16 DEF Next, Client

LEMMA Invariant == Spec => []IInv
  BY InitInv, NextInv, PTL DEF Spec

(* The call, the socket and the clock stay what their types say.           *)
THEOREM TypeCorrect == Spec => []TypeOK
<1>1. IInv => TypeOK
  BY DEF IInv
<1> QED BY <1>1, Invariant, PTL

(* Whatever the debug server says first, and however long it is, the       *)
(* caller's tunnel begins with its first byte and misses none.             *)
THEOREM StreamComesWhole == Spec => []StreamIntact
<1>1. IInv => StreamIntact
  BY DEF IInv
<1> QED BY <1>1, Invariant, PTL

(* "Nothing listening" is final only when the debug server was too late    *)
(* for the last try, whatever the wait, the pause and the lag are.         *)
THEOREM LateServerCounts == Spec => []LateServerIsWaitedFor
<1>1. IInv => LateServerIsWaitedFor
  BY DEF IInv
<1> QED BY <1>1, Invariant, PTL

(* No try begins after the deadline, but for what a sleep overshoots, and  *)
(* no CONNECT goes out later than that plus what a token and a connection  *)
(* take -- twice, and the refused answer, for the second of a try.         *)
THEOREM TriesAreInTime == Spec => []NoTryAfterDeadline
<1>1. IInv => NoTryAfterDeadline
  BY DEF IInv, Clock, Late, NoTryAfterDeadline
<1> QED BY <1>1, Invariant, PTL

(* A caller with a token is told of the old gateway, never of a refused    *)
(* connection.                                                             *)
THEOREM GatewayIsTold == Spec => []TokenMeansGateway
<1>1. IInv => TokenMeansGateway
  BY DEF IInv
<1> QED BY <1>1, Invariant, PTL

(* A gateway that said no in a whole head is never gone round.             *)
THEOREM NoWayRound == Spec => []NoBypass
<1>1. IInv => NoBypass
  BY DEF IInv
<1> QED BY <1>1, Invariant, PTL
=============================================================================
