----------------------------- MODULE ScopeStream -----------------------------
(***************************************************************************)
(* Scope traces over a WebSocket (src/src/nets/scope_trace.rs, transport): *)
(* Scope::stream with ScopeStream::next_capture, and Scope::capture.       *)
(*                                                                         *)
(* The daemon sends a subscriber its newest capture when it has a credit   *)
(* for it; each capture the reader takes gives one back.  A capture on its *)
(* way is its sequence number and what became of its frame; what is read   *)
(* of it is ScopeCapture's.  Control frames are left out.                  *)
(***************************************************************************)
EXTENDS ScopeCapture, FiniteSets

CONSTANTS
  Credits,  \* STREAM_CREDITS
  MaxTexts, \* bound: messages the daemon sends unasked
  Spoilt,   \* [1..Newest -> SUBSET Damage]: what can happen to a capture's frame
  Events    \* what happens besides: see below

(* early: captures are pushed ahead of a reply; noseq: the acknowledgement *)
(* names no capture; hangup: the daemon closes the socket.                 *)
Event == {"early", "noseq", "hangup"}

ASSUME StreamAssumption ==
  /\ Events \subseteq Event /\ Spoilt \in [1..Newest -> SUBSET Damage]
  /\ Credits \in Nat \ {0} /\ Newest > 0 /\ MaxTexts \in Nat

VARIABLES
  taken,    \* sequence number of the newest capture, 0 before the first
  daemon,   \* the daemon's side of the socket
  toBox,    \* commands under way
  toClient, \* messages under way
  texts,    \* messages sent unasked so far
  cl,       \* the client
  lost      \* history: captures taken off the socket that gave no credit back

vars == <<taken, daemon, toBox, toClient, texts, cl, lost>>

Frame(n, how) == [kind |-> "capture", seq |-> n, how |-> how]
Text(k, n) == [kind |-> k, seq |-> n, how |-> "none"]

(* mode: which of Scope::stream and Scope::capture was called.  pc: new,   *)
(* refused (no socket), ask, reply (both wait for one), idle, next, wait   *)
(* (the acknowledged capture), closed.  acked: its number, 0 for any.  got *)
(* and read: the last capture returned, and what a caller reads of it.     *)
(* asked is for the properties: the newest capture when the client asked.  *)
Mode == {"stream", "capture"}
Fresh == [mode |-> "stream", pc |-> "new", asked |-> 0, acked |-> 0, got |-> 0, read |-> <<>>,
          res |-> "none"]

(* Why an open fails; what a daemon says unasked (malformed is a text that *)
(* is no JSON); how a frame arrives, and what then arrives of each.        *)
OpenFailure == {"unsupported", "box", "decode", "config", "timeout", "connection"}
Unasked == {"state", "error", "malformed"}
Arrivals(n) == {"none"} \cup Spoilt[n]
Frames == [n \in 1..Newest |-> [how \in Damage |-> Damaged(Encode(n), how)]]
FrameOf(m) == Frames[m.seq][m.how]

Commands == {"Subscribe", "GetTriggeredData", "Credit", "Close"}
Captures == [kind : {"capture"}, seq : 1..Newest, how : Damage]
Texts == [kind : {"reply", "close"} \cup Unasked, seq : 0..Newest, how : {"none"}]

(* How many of a queue are of a kind.                                      *)
Number(q, kind) == Cardinality({i \in DOMAIN q : q[i] \in kind})
CapturesUnderWay == Number(toClient, Captures)
CreditsUnderWay == Number(toBox, {"Credit"})

Readings == {<<>>} \cup {Reading(FrameOf(m)) : m \in Captures}

Subscriber == [subscribed : BOOLEAN, owes : BOOLEAN, credits : 0..Credits, sent : 0..Newest]
Reader == [mode : Mode,
           pc : {"new", "refused", "ask", "reply", "idle", "next", "wait", "closed"},
           asked : 0..Newest, acked : 0..Newest, got : 0..Newest, read : Readings,
           res : {"none", "ok", "timeout", "error"} \cup OpenFailure]

TypeOK ==
  /\ taken \in 0..Newest /\ texts \in 0..MaxTexts
  /\ daemon \in Subscriber /\ cl \in Reader
  /\ toBox \in Seq(Commands) /\ toClient \in Seq(Captures \cup Texts)
  /\ lost \subseteq 1..Newest

Send(c) == toBox' = Append(toBox, c)
Arrived == toClient # <<>>
Msg == Head(toClient)

(* A socket that has been closed stays closed for every later read.        *)
Received == toClient' = IF Msg.kind = "close" THEN toClient ELSE Tail(toClient)

Unpaid(when) == IF when THEN {Msg.seq} ELSE {}

HungUp == toClient # <<>> /\ toClient[Len(toClient)].kind = "close"

(* What ends a read: an error notice, a text that is no JSON, the close of *)
(* the socket.  What is skipped while waiting for a capture.               *)
Fails(m) == m.kind \in {"error", "malformed", "close"}
Skipped(m) == m.kind \in {"reply", "state"}

(* A capture decoded: its number and what it reads.                        *)
Took(c, m) == [c EXCEPT !.got = m.seq, !.read = Reading(FrameOf(m)), !.res = "ok"]

-----------------------------------------------------------------------------
(* Socket::open: the ticket (the box answers with no such route, with a    *)
(* refusal, or without a ws_path; or the request fails), the connection    *)
(* (not to an https address) and the handshake (refused, or not finished   *)
(* in time).  Any of them leaves no socket, and none is tried again.       *)
Open ==
  /\ cl.pc = "new"
  /\ \/ cl' = [cl EXCEPT !.pc = "ask"]
     \/ \E e \in OpenFailure : cl' = [cl EXCEPT !.pc = "refused", !.res = e]
  /\ UNCHANGED <<taken, daemon, toBox, toClient, texts, lost>>

(* stream and capture fail, or capture is done: the socket is closed.      *)
Over(c) == cl' = [c EXCEPT !.pc = "closed"] /\ Send("Close")

(* Scope::stream and Scope::capture: the socket is open, ask.  The send    *)
(* fails if the daemon has gone.                                           *)
Ask ==
  /\ cl.pc = "ask"
  /\ \/ cl' = [cl EXCEPT !.pc = "reply", !.asked = taken] /\ Send("Subscribe")
     \/ /\ cl' = [cl EXCEPT !.pc = "reply", !.asked = taken, !.mode = "capture"]
        /\ Send("GetTriggeredData")
     \/ HungUp /\ Over([cl EXCEPT !.res = "error"])
  /\ UNCHANGED <<taken, daemon, toClient, texts, lost>>

(* Socket::reply: captures and State messages are skipped.                 *)
ReadReply ==
  /\ cl.pc = "reply" /\ Arrived /\ Received
  /\ \/ /\ Msg.kind \in {"capture", "state"}
        /\ UNCHANGED <<cl, toBox>>
     \/ /\ Msg.kind = "reply"
        /\ cl' = [cl EXCEPT !.acked = Msg.seq,
                            !.pc = IF cl.mode = "stream" THEN "idle" ELSE "wait"]
        /\ UNCHANGED toBox
     \/ Fails(Msg) /\ Over([cl EXCEPT !.res = "error"])
  /\ lost' = lost \cup Unpaid(Msg.kind = "capture")
  /\ UNCHANGED <<taken, daemon, texts>>

(* ScopeStream::next_capture is called.                                    *)
NextCapture ==
  /\ cl.pc = "idle"
  /\ cl' = [cl EXCEPT !.pc = "next", !.res = "none"]
  /\ UNCHANGED <<taken, daemon, toBox, toClient, texts, lost>>

(* Mutant: the newest message that has arrived is read first.              *)
ReadNext_Newest ==
  /\ cl.pc = "next" /\ Arrived
  /\ toClient' = SubSeq(toClient, 1, Len(toClient) - 1)
  /\ LET m == toClient[Len(toClient)] IN
       IF m.kind = "capture" /\ Decodes(FrameOf(m))
         THEN cl' = [Took(cl, m) EXCEPT !.pc = "idle"] /\ Send("Credit")
         ELSE UNCHANGED <<cl, toBox>>
  /\ UNCHANGED <<taken, daemon, texts, lost>>

(* Mutants: no credit is given back; two are, decoded or not.              *)
ReadNext_Paying(credits) ==
  /\ cl.pc = "next" /\ Arrived /\ Received
  /\ cl' = CASE Msg.kind = "capture" /\ Decodes(FrameOf(Msg)) -> [Took(cl, Msg) EXCEPT !.pc = "idle"]
             [] Skipped(Msg) -> cl
             [] OTHER -> [cl EXCEPT !.pc = "idle", !.res = "error"]
  /\ toBox' = toBox \o IF Msg.kind = "capture" THEN credits ELSE <<>>
  /\ UNCHANGED <<taken, daemon, texts, lost>>
ReadNext_NoCredit == ReadNext_Paying(<<>>)
ReadNext_TwoCredits == ReadNext_Paying(<<"Credit", "Credit">>)

(* next_capture, one message: decode, give the credit back, return.  A     *)
(* frame that does not decode, and a credit that cannot be sent, are an    *)
(* error; so is an error notice or the end of the socket.                  *)
ReadNext ==
  /\ cl.pc = "next" /\ Arrived /\ Received
  /\ \/ /\ Msg.kind = "capture" /\ Decodes(FrameOf(Msg))
        /\ cl' = [Took(cl, Msg) EXCEPT !.pc = "idle"]
        /\ Send("Credit")
     \/ /\ Fails(Msg) \/ (Msg.kind = "capture" /\ (Decodes(FrameOf(Msg)) => HungUp))
        /\ cl' = [cl EXCEPT !.pc = "idle", !.res = "error"]
        /\ UNCHANGED toBox
     \/ Skipped(Msg) /\ UNCHANGED <<cl, toBox>>
  /\ lost' = lost \cup Unpaid(Msg.kind = "capture" /\ cl'.res # "ok")
  /\ UNCHANGED <<taken, daemon, texts>>

(* Mutant: the first capture will do.                                      *)
ReadCapture_First ==
  /\ cl.pc = "wait" /\ Arrived /\ Received
  /\ IF Skipped(Msg) THEN UNCHANGED <<cl, toBox>>
     ELSE Over(IF Msg.kind = "capture" /\ Decodes(FrameOf(Msg)) THEN Took(cl, Msg)
                                                                ELSE [cl EXCEPT !.res = "error"])
  /\ UNCHANGED <<taken, daemon, texts, lost>>

(* Socket::capture after the acknowledgement: the capture it named, by the *)
(* number in the frame's header, or the first one if it named none.  One   *)
(* whose header cannot be read is no answer.                               *)
Answers(m) == m.kind = "capture" /\ (cl.acked = 0 \/ peek_seq(FrameOf(m)) = cl.acked)

ReadCapture ==
  /\ cl.pc = "wait" /\ Arrived /\ Received
  /\ \/ /\ Answers(Msg)
        /\ Over(IF Decodes(FrameOf(Msg)) THEN Took(cl, Msg) ELSE [cl EXCEPT !.res = "error"])
     \/ Fails(Msg) /\ Over([cl EXCEPT !.res = "error"])
     \/ /\ Skipped(Msg) \/ (Msg.kind = "capture" /\ ~Answers(Msg))
        /\ UNCHANGED <<cl, toBox>>
  /\ UNCHANGED <<taken, daemon, texts, lost>>

(* Socket::read finds its deadline passed.  next_capture leaves the stream *)
(* as it is; stream and capture close it.                                  *)
Timeout ==
  /\ \/ /\ cl.pc = "next"
        /\ cl' = [cl EXCEPT !.pc = "idle", !.res = "timeout"]
        /\ UNCHANGED toBox
     \/ /\ cl.pc \in {"reply", "wait"}
        /\ Over([cl EXCEPT !.res = "timeout"])
  /\ UNCHANGED <<taken, daemon, toClient, texts, lost>>

(* ScopeStream::close, or drop.                                            *)
Close ==
  /\ cl.pc = "idle" /\ Over(cl)
  /\ UNCHANGED <<taken, daemon, toClient, texts, lost>>

-----------------------------------------------------------------------------
(* The scope and the daemon.                                               *)
Connected == cl.pc \notin {"new", "refused"}
Deliver(m) == Connected /\ ~HungUp /\ toClient' = Append(toClient, m)

Take ==
  /\ taken < Newest /\ taken' = taken + 1
  /\ UNCHANGED <<daemon, toBox, toClient, texts, cl, lost>>

Command(c) == toBox # <<>> /\ Head(toBox) = c /\ toBox' = Tail(toBox)

DaemonSubscribes ==
  /\ Command("Subscribe") /\ ~HungUp
  /\ daemon' = [daemon EXCEPT !.subscribed = TRUE, !.owes = TRUE, !.credits = Credits,
                              !.sent = taken]
  /\ UNCHANGED <<taken, toClient, texts, cl, lost>>

DaemonReplies ==
  /\ daemon.owes
  /\ daemon' = [daemon EXCEPT !.owes = FALSE]
  /\ Deliver(Text("reply", 0))
  /\ UNCHANGED <<taken, toBox, texts, cl, lost>>

DaemonCredits ==
  /\ Command("Credit")
  /\ daemon' = [daemon EXCEPT !.credits = @ + 1]
  /\ UNCHANGED <<taken, toClient, texts, cl, lost>>

(* The newest capture, when there is one the subscriber has not been sent. *)
DaemonSends ==
  /\ daemon.subscribed /\ daemon.credits > 0 /\ daemon.sent < taken
  /\ daemon.owes => "early" \in Events
  /\ \E how \in Arrivals(taken) : Deliver(Frame(taken, how))
  /\ daemon' = [daemon EXCEPT !.credits = @ - 1, !.sent = taken]
  /\ UNCHANGED <<taken, toBox, texts, cl, lost>>

(* GetTriggeredData: the newest capture, acknowledged and sent, possibly   *)
(* behind older ones pushed to the socket.                                 *)
DaemonTriggered ==
  /\ Command("GetTriggeredData") /\ taken > 0 /\ ~HungUp
  /\ \E acked \in {taken} \cup (IF "noseq" \in Events THEN {0} ELSE {}),
        before, between \in {<<>>} \cup (IF "early" \in Events
                                          THEN {<<Frame(n, "none")>> : n \in 1..taken} ELSE {}),
        how \in Arrivals(taken) :
       toClient' = toClient \o before \o <<Text("reply", acked)>>
                            \o between \o <<Frame(taken, how)>>
  /\ UNCHANGED <<taken, daemon, texts, cl, lost>>

DaemonTells ==
  /\ texts < MaxTexts /\ texts' = texts + 1
  /\ \E k \in Unasked : Deliver(Text(k, 0))
  /\ UNCHANGED <<taken, daemon, toBox, cl, lost>>

DaemonHangsUp ==
  /\ "hangup" \in Events /\ Deliver(Text("close", 0))
  /\ daemon' = [daemon EXCEPT !.subscribed = FALSE, !.owes = FALSE]
  /\ UNCHANGED <<taken, toBox, texts, cl, lost>>

DaemonCloses ==
  /\ Command("Close")
  /\ daemon' = [daemon EXCEPT !.subscribed = FALSE, !.owes = FALSE]
  /\ UNCHANGED <<taken, toClient, texts, cl, lost>>

-----------------------------------------------------------------------------
Init ==
  /\ taken = 0 /\ texts = 0
  /\ daemon = [subscribed |-> FALSE, owes |-> FALSE, credits |-> 0, sent |-> 0]
  /\ toBox = <<>> /\ toClient = <<>>
  /\ cl = Fresh /\ lost = {}

Client == Open \/ Ask \/ ReadReply \/ NextCapture \/ ReadNext \/ ReadCapture \/ Timeout \/ Close
Daemon == \/ DaemonSubscribes \/ DaemonReplies \/ DaemonCredits \/ DaemonSends
          \/ DaemonTriggered \/ DaemonTells \/ DaemonHangsUp \/ DaemonCloses

Next == Client \/ Take \/ Daemon

Spec == Init /\ [][Next]_vars

(* A reader that calls next_capture in a loop.  Any of its calls may time  *)
(* out, but not every one that has a message to read: reading is strongly  *)
(* fair, timing out is not fair at all.  The daemon answers and sends what *)
(* it may.                                                                 *)
FairSpec ==
  /\ Spec
  /\ WF_vars(Open) /\ WF_vars(Ask) /\ SF_vars(ReadReply) /\ WF_vars(NextCapture) /\ SF_vars(ReadNext)
  /\ WF_vars(DaemonSubscribes) /\ WF_vars(DaemonReplies) /\ WF_vars(DaemonCredits)
  /\ WF_vars(DaemonSends)

-----------------------------------------------------------------------------
(* PROPERTIES *)

(* "The daemon sends a capture only when this side has room": the captures *)
(* on the socket, the credits the daemon holds and those on their way back *)
(* are never more than STREAM_CREDITS, so no backlog grows.                *)
WindowHolds ==
  cl.mode = "stream" =>
    CapturesUnderWay + daemon.credits + CreditsUnderWay <= Credits

(* "A slow reader sees a lower frame rate", never a stream that stands     *)
(* still: every credit is with the daemon, on its way, or held by a        *)
(* capture the reader still has to take, whatever timed out meanwhile.     *)
(* The captures skipped before the reply to Subscribe and those that do    *)
(* not decode are the only ones that cost one.                             *)
NoCreditLost ==
  daemon.subscribed /\ cl.pc \in {"reply", "idle", "next"} =>
    CapturesUnderWay + daemon.credits + CreditsUnderWay + Cardinality(lost) >= Credits

(* Captures are delivered newest first: what next_capture returns is newer *)
(* than all it returned before.                                            *)
Forwards == [][cl'.got # cl.got => cl'.got > cl.got]_vars

(* "Fetch the scope's latest capture": when the reply names a capture, the *)
(* one returned is no older than the newest there was on asking, whatever  *)
(* the daemon pushes ahead of it.                                          *)
CaptureIsLatest ==
  cl.mode = "capture" /\ cl.res = "ok" /\ cl.acked # 0 => cl.got >= cl.asked

(* What a caller reads of a capture, channel by channel, is what the scope *)
(* measured for that number: a frame cut short, of another version, or     *)
(* that promises what it does not carry is never returned, one channel's   *)
(* samples are not taken for another's, and a sample that was not captured *)
(* is no voltage.                                                          *)
ReadsAsMeasured == cl.got # 0 => cl.read = Measured(cl.got)

(* A reader that keeps calling catches up: whatever was dropped in between,*)
(* it gets the newest capture, or one still newer, unless that was lost,   *)
(* all credits were, or the stream is over.                                *)
CatchesUp ==
  \A n \in 1..Newest :
    daemon.subscribed /\ taken = n /\ daemon.sent < n
      ~> \/ cl.got >= n \/ \E k \in lost : k >= n
         \/ Cardinality(lost) >= Credits
         \/ cl.pc = "closed" \/ ~daemon.subscribed
=============================================================================
