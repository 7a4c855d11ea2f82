---------------------------- MODULE StreamSession ----------------------------
(***************************************************************************)
(* Streaming sessions over Socket.IO: Uart and RttSession and their async  *)
(* twins (src/src/nets/uart.rs, rtt.rs, sio.rs).                           *)
(*                                                                         *)
(* The socket's callbacks put events on a channel; open, read, try_read    *)
(* and wait_for take them off it, on the caller's thread.  The box serves  *)
(* one session per net.  Time is relative: `timer` is what is left of the  *)
(* wait in progress, `due` of the operation it is part of.                 *)
(***************************************************************************)
EXTENDS Naturals, Sequences

CONSTANTS
  Sessions,   \* sessions that are opened on one net
  Async,      \* TRUE: AsyncUart and AsyncRttSession; FALSE: Uart and RttSession
  OpenWait,   \* CONNECT_TIMEOUT, in ticks
  OpWait,     \* the timeout callers pass to read and wait_for
  Byte,       \* what the device sends
  Needle,     \* what wait_for is asked for
  MaxSent,    \* bound: bytes the device sends in one session
  MaxNotes,   \* bound: status notifications in one session
  MaxWrites,  \* bound: writes in one session
  NoSession

ASSUME TimeAssumption == OpenWait \in Nat \ {0} /\ OpWait \in Nat \ {0}
ASSUME NeedleAssumption == Needle \in Seq(Byte) /\ Needle # <<>>
ASSUME SessionAssumption ==
  /\ NoSession \notin Sessions
  /\ Async \in BOOLEAN /\ MaxSent \in Nat /\ MaxNotes \in Nat /\ MaxWrites \in Nat

VARIABLES
  holder,   \* the session the box serves on the net, or NoSession
  greeting, \* sessions accepted and not yet told so
  down,     \* [Sessions -> Seq]: what the client sent, not yet seen by the box
  queue,    \* [Sessions -> Seq]: events not yet taken off the channel
  sess,     \* [Sessions -> record]: the session object
  sent,     \* [Sessions -> Seq]: history, bytes the device sent
  out,      \* [Sessions -> Seq]: history, bytes returned to the caller
  notes,    \* [Sessions -> Nat]: status notifications sent
  writes,   \* [Sessions -> Seq]: the writes begun
  wire      \* [Sessions -> Seq]: history, the writes that went out on the socket

vars == <<holder, greeting, down, queue, sess, sent, out, notes, writes, wire>>
box == <<holder, greeting, sent, notes>>

Note(k) == [kind |-> k]
Data(b) == [kind |-> "data", byte |-> b]
Max0(t) == IF t = 0 THEN 0 ELSE t - 1

New == [pc |-> "new", op |-> "none", buf |-> <<>>, timer |-> 0, wait |-> 0,
        due |-> 0, res |-> "none", found |-> <<>>, late |-> FALSE]

(* What travels on the channel; a session object; a write.                 *)
Event == [kind : {"connected", "error", "stopped", "status"}] \cup [kind : {"data"}, byte : Byte]
Ticks == 0..(OpenWait + OpWait)
Session ==
  [pc : {"new", "connecting", "abandoned", "lost", "opening", "idle", "check", "pump", "gone"},
   op : {"none", "read", "try_read", "wait_for"}, buf : Seq(Byte),
   timer : Ticks, wait : Ticks, due : Ticks,
   res : {"none", "ok", "found", "timeout", "error"}, found : Seq(Byte), late : BOOLEAN]
WriteCall == [st : {"running", "dropped", "ok", "over"}, after : SUBSET (1..MaxWrites)]

TypeOK ==
  /\ holder \in Sessions \cup {NoSession} /\ greeting \subseteq Sessions
  /\ down \in [Sessions -> Seq({"start", "stop", "bye"})]
  /\ queue \in [Sessions -> Seq(Event)] /\ sess \in [Sessions -> Session]
  /\ sent \in [Sessions -> Seq(Byte)] /\ out \in [Sessions -> Seq(Byte)]
  /\ notes \in [Sessions -> 0..MaxNotes]
  /\ writes \in [Sessions -> Seq(WriteCall)] /\ wire \in [Sessions -> Seq(1..MaxWrites)]
  /\ \A s \in Sessions :
       /\ sess[s].timer <= sess[s].wait
       /\ Len(writes[s]) <= MaxWrites
       /\ \A n \in DOMAIN writes[s] : writes[s][n].after \subseteq 1..(n - 1)
       /\ \A i \in DOMAIN wire[s] : wire[s][i] <= Len(writes[s])

(* sio::take_through: where the needle ends in buf, 0 if it is not there.  *)
Ends(buf) ==
  {i \in Len(Needle)..Len(buf) : SubSeq(buf, i - Len(Needle) + 1, i) = Needle}
FoundAt(buf) ==
  IF Ends(buf) = {} THEN 0 ELSE CHOOSE i \in Ends(buf) : \A j \in Ends(buf) : i <= j

Update(s, c) == sess' = [sess EXCEPT ![s] = c]
Emit(s, msgs) == down' = [down EXCEPT ![s] = @ \o msgs]

(* hang_up, on stop and drop: emit, ignoring errors, then disconnect.      *)
HangUp(s) == \E m \in {<<"stop", "bye">>, <<"bye">>} : Emit(s, m)

-----------------------------------------------------------------------------
(* open: connect() runs, on a thread of its own for the async twin.        *)
Open(s) ==
  /\ sess[s].pc = "new"
  /\ Update(s, [New EXCEPT !.pc = "connecting"])
  /\ UNCHANGED <<box, down, queue, out>>

(* connect() returns: the start is on its way, or there is no session.     *)
Connect(s) ==
  /\ sess[s].pc = "connecting"
  /\ \/ /\ Update(s, [New EXCEPT !.pc = "opening", !.timer = OpenWait,
                                 !.wait = OpenWait, !.due = OpenWait])
        /\ Emit(s, <<"start">>)
     \/ /\ Update(s, [New EXCEPT !.pc = "gone", !.res = "error"])
        /\ UNCHANGED down
  /\ UNCHANGED <<box, queue, out>>

(* The future of an async open is dropped while connect() runs ...         *)
Abandon(s) ==
  /\ Async /\ sess[s].pc = "connecting"
  /\ Update(s, [New EXCEPT !.pc = "abandoned"])
  /\ UNCHANGED <<box, down, queue, out>>

(* ... which it does to its end: nobody hangs up, and whether the box sees *)
(* the socket go with its last handle is up to the Socket.IO library.      *)
ConnectAnyway(s) ==
  /\ sess[s].pc = "abandoned"
  /\ Update(s, [New EXCEPT !.pc = "lost"])
  /\ \E m \in {<<>>, <<"start">>, <<"start", "bye">>} : Emit(s, m)
  /\ UNCHANGED <<box, queue, out>>

(* open(): wait for the box to confirm, or to refuse, keeping early data.  *)
Opening(s) ==
  LET c == sess[s]
      e == Head(queue[s]) IN
  /\ c.pc = "opening" /\ queue[s] # <<>>
  /\ queue' = [queue EXCEPT ![s] = Tail(@)]
  /\ Update(s, CASE e.kind = "connected" -> [c EXCEPT !.pc = "idle"]
                 [] e.kind = "data"      -> [c EXCEPT !.buf = Append(@, e.byte)]
                 [] e.kind = "error"     -> [c EXCEPT !.pc = "gone", !.res = "error"]
                 [] OTHER                -> c)
  /\ IF e.kind = "error" THEN HangUp(s) ELSE UNCHANGED down
  /\ UNCHANGED <<box, out>>

(* Mutant: the half-open session is forgotten, not dropped.                *)
OpenTimeout_NoHangUp(s) ==
  /\ sess[s].pc = "opening" /\ sess[s].due = 0
  /\ Async => queue[s] = <<>>
  /\ Update(s, [sess[s] EXCEPT !.pc = "gone", !.res = "timeout"])
  /\ UNCHANGED <<box, down, queue, out>>

(* The deadline passes; the session is dropped.                            *)
OpenTimeout(s) ==
  /\ sess[s].pc = "opening" /\ sess[s].due = 0
  /\ Async => queue[s] = <<>>
  /\ Update(s, [sess[s] EXCEPT !.pc = "gone", !.res = "timeout"])
  /\ HangUp(s)
  /\ UNCHANGED <<box, queue, out>>

(* The caller holds the future of a write: no other operation may begin.   *)
Writing(s) == \E n \in DOMAIN writes[s] : writes[s][n].st = "running"

(* read, try_read and wait_for begin.                                      *)
Begin(s) ==
  LET c == [sess[s] EXCEPT !.res = "none", !.found = <<>>, !.late = FALSE] IN
  /\ sess[s].pc = "idle" /\ ~Writing(s)
  /\ \/ Update(s, [c EXCEPT !.op = "read", !.pc = "pump",
                            !.timer = OpWait, !.wait = OpWait, !.due = OpWait])
     \/ Update(s, [c EXCEPT !.op = "try_read", !.pc = "pump",
                            !.timer = 0, !.wait = 0, !.due = 0])
     \/ Update(s, [c EXCEPT !.op = "wait_for", !.pc = "check", !.due = OpWait])
  /\ UNCHANGED <<box, down, queue, out>>

Idle(c) == [c EXCEPT !.pc = "idle", !.op = "none", !.timer = 0, !.wait = 0, !.due = 0]

(* Mutant: the clock is looked at before the buffer.                       *)
Check_ClockFirst(s) ==
  LET c == sess[s]
      i == FoundAt(c.buf) IN
  /\ c.pc = "check"
  /\ IF c.due = 0
       THEN Update(s, [Idle(c) EXCEPT !.res = "timeout"]) /\ UNCHANGED out
       ELSE IF i # 0
         THEN /\ Update(s, [Idle(c) EXCEPT !.res = "found",
                               !.found = SubSeq(c.buf, 1, i),
                               !.buf = SubSeq(c.buf, i + 1, Len(c.buf))])
              /\ out' = [out EXCEPT ![s] = @ \o SubSeq(c.buf, 1, i)]
         ELSE /\ Update(s, [c EXCEPT !.pc = "pump", !.timer = c.due, !.wait = c.due])
              /\ UNCHANGED out
  /\ UNCHANGED <<box, down, queue>>

(* wait_for, the loop: look for the needle, then at the clock, then pump.  *)
Check(s) ==
  LET c == sess[s]
      i == FoundAt(c.buf) IN
  /\ c.pc = "check"
  /\ \/ /\ i # 0
        /\ Update(s, [Idle(c) EXCEPT !.res = "found",
                         !.found = SubSeq(c.buf, 1, i),
                         !.buf = SubSeq(c.buf, i + 1, Len(c.buf))])
        /\ out' = [out EXCEPT ![s] = @ \o SubSeq(c.buf, 1, i)]
     \/ /\ i = 0 /\ c.due = 0
        /\ Update(s, [Idle(c) EXCEPT !.res = "timeout"])
        /\ UNCHANGED out
     \/ /\ i = 0 /\ c.due # 0
        /\ Update(s, [c EXCEPT !.pc = "pump", !.timer = c.due, !.wait = c.due])
        /\ UNCHANGED out
  /\ UNCHANGED <<box, down, queue>>

(* Mutant: an error empties the buffer.                                    *)
Absorb_ErrorClears(c, e) ==
  CASE e.kind = "data"  -> [c EXCEPT !.buf = Append(@, e.byte), !.timer = 0, !.wait = 0]
    [] e.kind = "error" -> [Idle(c) EXCEPT !.res = "error", !.buf = <<>>]
    [] OTHER            -> c
(* Mutant: the twin without a deadline of its own.                         *)
Absorb_Restarts(c, e) ==
  CASE e.kind = "data"  -> [c EXCEPT !.buf = Append(@, e.byte), !.timer = 0, !.wait = 0]
    [] e.kind = "error" -> [Idle(c) EXCEPT !.res = "error"]
    [] OTHER            -> [c EXCEPT !.timer = c.wait]

(* pump and absorb, one event: after data, only what is already queued is  *)
(* taken; after anything else the blocking twin waits as long as before,   *)
(* the async twin until its deadline.                                      *)
Absorb(c, e) ==
  CASE e.kind = "data"  -> [c EXCEPT !.buf = Append(@, e.byte), !.timer = 0, !.wait = 0]
    [] e.kind = "error" -> [Idle(c) EXCEPT !.res = "error"]
    [] OTHER            -> IF Async THEN c ELSE [c EXCEPT !.timer = c.wait]

Take(s) ==
  /\ sess[s].pc = "pump" /\ queue[s] # <<>>
  /\ Update(s, Absorb(sess[s], Head(queue[s])))
  /\ queue' = [queue EXCEPT ![s] = Tail(@)]
  /\ UNCHANGED <<box, down, out>>

(* Mutant: a wait that times out is taken up again.                        *)
PumpEnd_Again(s) ==
  LET c == sess[s] IN
  /\ c.pc = "pump" /\ queue[s] = <<>> /\ c.timer = 0
  /\ Update(s, IF c.op = "wait_for" THEN [c EXCEPT !.pc = "check", !.due = OpWait]
               ELSE [Idle(c) EXCEPT !.res = "ok", !.buf = <<>>])
  /\ out' = [out EXCEPT ![s] = IF c.op = "wait_for" THEN @ ELSE @ \o c.buf]
  /\ UNCHANGED <<box, down, queue>>

(* Nothing came in time, or the queue is drained: back to the operation.   *)
PumpEnd(s) ==
  LET c == sess[s] IN
  /\ c.pc = "pump" /\ queue[s] = <<>> /\ c.timer = 0
  /\ IF c.op = "wait_for"
       THEN Update(s, [c EXCEPT !.pc = "check"]) /\ UNCHANGED out
       ELSE /\ Update(s, [Idle(c) EXCEPT !.res = "ok", !.buf = <<>>])
            /\ out' = [out EXCEPT ![s] = @ \o c.buf]
  /\ UNCHANGED <<box, down, queue>>

(* The caller drops the future of an operation that waits: a session that  *)
(* is opening is dropped with it, an open one stays usable.  A drain, once *)
(* begun, runs to its end.                                                 *)
Cancel(s) ==
  /\ Async /\ sess[s].wait # 0
  /\ \/ /\ sess[s].pc = "pump"
        /\ Update(s, Idle(sess[s])) /\ UNCHANGED down
     \/ /\ sess[s].pc = "opening"
        /\ Update(s, [sess[s] EXCEPT !.pc = "gone"]) /\ HangUp(s)
  /\ UNCHANGED <<box, queue, out>>

(* stop(), or the session goes out of scope.                               *)
Stop(s) ==
  /\ sess[s].pc = "idle" /\ ~Writing(s)
  /\ Update(s, [sess[s] EXCEPT !.pc = "gone"])
  /\ HangUp(s)
  /\ UNCHANGED <<box, queue, out>>

-----------------------------------------------------------------------------
(* Mutant: write returns without waiting for the thread that emits.        *)
Write_Spawned(s) ==
  /\ sess[s].pc = "idle" /\ Len(writes[s]) < MaxWrites
  /\ Async \/ ~Writing(s)
  /\ writes' = [writes EXCEPT ![s] = Append(@,
       [st |-> "dropped", after |-> DOMAIN @])]
  /\ UNCHANGED <<box, down, queue, sess, out, wire>>

(* write.  after: for the properties, the writes that had returned Ok.     *)
Write(s) ==
  /\ sess[s].pc = "idle" /\ Len(writes[s]) < MaxWrites
  /\ Async \/ ~Writing(s)
  /\ writes' = [writes EXCEPT ![s] = Append(@,
       [st |-> "running", after |-> {n \in DOMAIN @ : @[n].st = "ok"}])]
  /\ UNCHANGED <<box, down, queue, sess, out, wire>>

Set(s, n, st) == writes' = [writes EXCEPT ![s][n].st = st]

(* emit runs, on a thread of its own for the async twin: also when nobody  *)
(* waits for it any more, and in any order with the emits of other writes. *)
WriteRuns(s, n) ==
  /\ n \in DOMAIN writes[s] /\ writes[s][n].st \in {"running", "dropped"}
  /\ \/ /\ wire' = [wire EXCEPT ![s] = Append(@, n)]
        /\ Set(s, n, IF writes[s][n].st = "running" THEN "ok" ELSE "over")
     \/ Set(s, n, "over") /\ UNCHANGED wire
  /\ UNCHANGED <<box, down, queue, sess, out>>

(* The future of an async write is dropped.                                *)
DropWrite(s, n) ==
  /\ Async /\ n \in DOMAIN writes[s] /\ writes[s][n].st = "running"
  /\ Set(s, n, "dropped")
  /\ UNCHANGED <<box, down, queue, sess, out, wire>>

-----------------------------------------------------------------------------
(* The box, as the session sees it.                                        *)
Arrives(s, e) == queue' = [queue EXCEPT ![s] = Append(@, e)]

(* start_uart: one session per net; the port may not open.                 *)
BoxStarts(s) ==
  /\ down[s] # <<>> /\ Head(down[s]) = "start"
  /\ down' = [down EXCEPT ![s] = Tail(@)]
  /\ \/ /\ holder = NoSession
        /\ holder' = s /\ greeting' = greeting \cup {s}
        /\ UNCHANGED queue
     \/ Arrives(s, Note("error")) /\ UNCHANGED <<holder, greeting>>
  /\ UNCHANGED <<sess, sent, out, notes>>

Free(s) ==
  /\ holder' = IF holder = s THEN NoSession ELSE holder
  /\ greeting' = greeting \ {s}

BoxStops(s) ==
  /\ down[s] # <<>> /\ Head(down[s]) = "stop"
  /\ down' = [down EXCEPT ![s] = Tail(@)]
  /\ Free(s) /\ Arrives(s, Note("stopped"))
  /\ UNCHANGED <<sess, sent, out, notes>>

BoxDisconnects(s) ==
  /\ down[s] # <<>> /\ Head(down[s]) = "bye"
  /\ down' = [down EXCEPT ![s] = Tail(@)]
  /\ Free(s)
  /\ UNCHANGED <<queue, sess, sent, out, notes>>

BoxGreets(s) ==
  /\ holder = s /\ s \in greeting
  /\ greeting' = greeting \ {s}
  /\ Arrives(s, Note("connected"))
  /\ UNCHANGED <<holder, down, sess, sent, out, notes>>

BoxSends(s) ==
  /\ holder = s /\ Len(sent[s]) < MaxSent
  /\ \E b \in Byte :
       /\ sent' = [sent EXCEPT ![s] = Append(@, b)]
       /\ Arrives(s, Data(b))
  /\ UNCHANGED <<holder, greeting, down, sess, out, notes>>

(* The adapter re-enumerates: reconnecting, reconnected.                   *)
BoxNotes(s) ==
  /\ holder = s /\ s \notin greeting /\ notes[s] < MaxNotes
  /\ notes' = [notes EXCEPT ![s] = @ + 1]
  /\ Arrives(s, Note("status"))
  /\ UNCHANGED <<holder, greeting, down, sess, sent, out>>

(* The device is gone, or another client released the session.             *)
BoxFails(s) ==
  /\ holder = s
  /\ Free(s) /\ Arrives(s, Note("error"))
  /\ UNCHANGED <<down, sess, sent, out, notes>>

(* Time passes only when no caller has anything left to do at once.        *)
Tick ==
  /\ \E s \in Sessions : sess[s].pc \in {"opening", "pump"}
  /\ \A s \in Sessions :
       /\ sess[s].pc \in {"opening", "pump"} => queue[s] = <<>>
       /\ sess[s].pc = "opening" => sess[s].due > 0
       /\ sess[s].pc = "pump" => sess[s].timer > 0
       /\ sess[s].pc # "check"
  /\ sess' = [s \in Sessions |->
       IF sess[s].pc \in {"opening", "pump"}
         THEN [sess[s] EXCEPT !.timer = Max0(@), !.due = Max0(@), !.late = (sess[s].due = 0)]
         ELSE sess[s]]
  /\ UNCHANGED <<box, down, queue, out, writes, wire>>

-----------------------------------------------------------------------------
Init ==
  /\ holder = NoSession /\ greeting = {}
  /\ down = [s \in Sessions |-> <<>>] /\ queue = [s \in Sessions |-> <<>>]
  /\ sess = [s \in Sessions |-> New]
  /\ sent = [s \in Sessions |-> <<>>] /\ out = [s \in Sessions |-> <<>>]
  /\ notes = [s \in Sessions |-> 0]
  /\ writes = [s \in Sessions |-> <<>>] /\ wire = [s \in Sessions |-> <<>>]

(* What a caller's thread does by itself once it is in an operation.       *)
Runs(s) ==
  \/ /\ \/ Connect(s) \/ ConnectAnyway(s)
        \/ Opening(s) \/ OpenTimeout(s) \/ Check(s) \/ Take(s) \/ PumpEnd(s)
     /\ UNCHANGED <<writes, wire>>
  \/ \E n \in 1..MaxWrites : WriteRuns(s, n)
BoxRuns(s) ==
  (BoxStarts(s) \/ BoxStops(s) \/ BoxDisconnects(s)) /\ UNCHANGED <<writes, wire>>

Next ==
  \/ \E s \in Sessions : Runs(s) \/ BoxRuns(s)
  \/ \E s \in Sessions : Write(s) \/ \E n \in 1..MaxWrites : DropWrite(s, n)
  \/ /\ \E s \in Sessions :
          \/ Open(s) \/ Abandon(s) \/ Begin(s) \/ Cancel(s) \/ Stop(s)
          \/ BoxGreets(s) \/ BoxSends(s) \/ BoxNotes(s) \/ BoxFails(s)
     /\ UNCHANGED <<writes, wire>>
  \/ Tick

Spec == Init /\ [][Next]_vars

(* Threads run and the box reads what it was sent.  The clock runs however *)
(* often other callers begin operations that take no time: it is strong.   *)
FairSpec ==
  /\ Spec /\ SF_vars(Tick)
  /\ \A s \in Sessions : WF_vars(Runs(s)) /\ WF_vars(BoxRuns(s))

-----------------------------------------------------------------------------
(* PROPERTIES *)

(* The bytes among the events of a channel.                                *)
Plus(b, e) == IF e.kind = "data" THEN Append(b, e.byte) ELSE b
Bytes(q) ==
  LET upto[i \in 0..Len(q)] == IF i = 0 THEN <<>> ELSE Plus(upto[i - 1], q[i])
  IN upto[Len(q)]

InPipe(s) == sess[s].buf \o Bytes(queue[s])

(* A session is a pipe: whatever the order of events, operations, errors,  *)
(* timeouts and cancellations, the bytes of the device come out of read,   *)
(* try_read and wait_for once each, in order, none left out -- those that  *)
(* beat the connected event and those before an error included.            *)
Pipe(s) == INSTANCE BytePipe WITH pipe <- InPipe(s), out <- out[s]
IsPipe ==
  /\ \A s \in Sessions : Pipe(s)!Init
  /\ [][\A s \in Sessions : Pipe(s)!Next \/ UNCHANGED <<InPipe(s), out[s]>>]_vars

(* wait_for "returns everything received up to and including needle; bytes *)
(* after the needle stay buffered": the needle ends what it returns and    *)
(* occurs nowhere else in it, however the device cut it in pieces; and it  *)
(* times out only when the needle is not among the bytes it has.           *)
WaitForFinds ==
  \A s \in Sessions :
    /\ sess[s].res = "found" => Ends(sess[s].found) = {Len(sess[s].found)}
    /\ sess[s].res = "timeout" /\ sess[s].pc = "idle" => Ends(sess[s].buf) = {}

(* "Return whatever bytes arrive within timeout" (read), "until needle     *)
(* appears or timeout elapses" (wait_for): no operation is still waiting   *)
(* after its timeout.                                                      *)
InTime == \A s \in Sessions : ~sess[s].late

(* "The session is stopped cleanly on stop or drop": a session that is     *)
(* over, also one that never came up, leaves the net free for the next.    *)
(* (One abandoned inside connect() is not: see Abandon.)                   *)
NetFreed == \A s \in Sessions : sess[s].pc = "gone" ~> holder # s

(* A write that has returned is behind its caller: no write goes out       *)
(* twice, and none after one that began when it had returned.  (One given  *)
(* up on may still go out, in any order with those begun after it.)        *)
WritesInOrder ==
  \A s \in Sessions : \A i, j \in DOMAIN wire[s] :
    i < j => /\ wire[s][i] # wire[s][j]
             /\ wire[s][j] \notin writes[s][wire[s][i]].after

(* Every operation ends.                                                   *)
OperationsEnd ==
  \A s \in Sessions :
    sess[s].pc \in {"connecting", "opening", "check", "pump"}
      ~> sess[s].pc \in {"idle", "gone", "lost"}
=============================================================================
