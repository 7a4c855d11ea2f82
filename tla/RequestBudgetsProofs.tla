------------------------ MODULE RequestBudgetsProofs ------------------------
(***************************************************************************)
(* Theorems about RequestBudgets, for any threads, any calls of any        *)
(* durations and instruments that may hang: a call is given up on only if  *)
(* its own time and that of the calls ahead of it exceed its budget.       *)
(* Theorems about BoxAnswers, for any operations, any answer and boxes of  *)
(* any age: what a result says is so.                                      *)
(***************************************************************************)
EXTENDS RequestBudgets, BoxAnswers, TLAPS, SequenceTheorems

(* What the box may take over a call, and over the first one ahead of it.  *)
Cost(call) == Of(call).own + Overhead
First(ahead) == IF ahead = <<>> THEN 0 ELSE Cost(ahead[1])

(* A request is of the thread that made it, in one place, and its call is  *)
(* the thread's only one.                                                  *)
Occupied(i, b) ==
  LET j == b.job IN
  /\ b \in Serving /\ calls[j.by].call = j.call /\ Instrument(j.call) = i /\ j \notin queue
  /\ b.left = None \/ b.left <= Cost(j.call)
Placed ==
  /\ \A j \in queue : calls[j.by].call = j.call
  /\ \A i \in Instruments : busy[i] # Idle => Occupied(i, busy[i])

(* With one call ahead at most, no more of a waiting call's budget is gone *)
(* than the time the box may take over that call and, once it is at this   *)
(* one, over this one, less what is left of what it does now.              *)
Keeps(c, b, spent) ==
  Len(c.ahead) <= 1 /\ c.left # None /\ b.left # None =>
    c.left + spent >= Of(c.call).budget + b.left
OnQueue(c, b) == (c.ahead = <<>> => b = Idle) /\ Keeps(c, b, First(c.ahead))
InHand(c, b) == b # Idle /\ Keeps(c, b, First(c.ahead) + Cost(c.call))

Queued(t) == JobOf(t) \in queue
At(t) == busy[Instrument(calls[t].call)]
Waiting(t) ==
  /\ calls[t].call \in Asked /\ (calls[t].left = None <=> Of(calls[t].call).budget = None)
  /\ Queued(t) => OnQueue(calls[t], At(t))
  /\ ~Queued(t) => At(t).job = JobOf(t) /\ InHand(calls[t], At(t))
Waits == \A t \in Threads : calls[t].waits => Waiting(t)

(* A call that was given up on without a hang in its way was late.         *)
Late(a) ==
  /\ Of(a.call).budget # None
  /\ Len(a.ahead) <= 1 /\ ~a.hung => Of(a.call).budget <= Cost(a.call) + First(a.ahead)

IInv ==
  /\ TypeOK /\ Placed
  /\ Waits
  /\ \A a \in aborted : Late(a)

-----------------------------------------------------------------------------
(* What the handles ask for: every wait is a number or none, and leaves    *)
(* the box 7 seconds over its own wait at least, a custom driver's aside.  *)
Roomy(w) == w \in [budget : Nat \cup {None}, own : Nat] /\ (w.budget = None \/ w.own + 7 <= w.budget)

LEMMA Fixed ==
  /\ Roomy(Quick) /\ Roomy(Arm) /\ Roomy(DfuDefault) /\ Roomy(DfuList) /\ Roomy(Hsm)
  /\ Roomy(HsmReset) /\ Roomy(Router) /\ Roomy(SolarMode) /\ Roomy(SolarRead) /\ Roomy(Dmm)
  /\ Roomy(Scope) /\ Roomy(WebcamStart) /\ Roomy(Snapshot) /\ Roomy(Wifi) /\ Roomy(NetsState)
  /\ Roomy(Admin) /\ Roomy(Pip) /\ Roomy(Upload) /\ Roomy(Download) /\ Roomy(Scan)
  /\ Roomy(DiagnoseJlink) /\ Roomy(Flash) /\ Roomy(Erase) /\ Roomy(RttOpen)
<1>1. \A b, o \in Nat : o + 7 <= b => Roomy(Wait(b, o))
  BY DEF Roomy, Wait
<1>2. \A o \in Nat : Roomy(Wait(None, o))
  BY DEF Roomy, Wait
<1> QED BY <1>1, <1>2 DEF Quick, Arm, DfuDefault, DfuList, Hsm, HsmReset, Router, SolarMode,
       SolarRead, Dmm, Scope, WebcamStart, Snapshot, Wifi, NetsState, Admin, Pip, Upload,
       Download, Scan, DiagnoseJlink, Flash, Erase, RttOpen

LEMMA Asking ==
  ASSUME NEW d \in Nat
  PROVE  /\ Roomy(WaitForLevel(d)) /\ Roomy(WaitForever(d)) /\ Roomy(Watt(d)) /\ Roomy(Energy(d))
         /\ Roomy(Move(d)) /\ Roomy(Ble(d)) /\ Roomy(Blufi(d)) /\ Roomy(UsbCycle(d))
         /\ Roomy(Dfu(d)) /\ Roomy(Blink(d)) /\ Roomy(RouterWait(d))
<1>1. \A b, o \in Nat : o + 7 <= b => Roomy(Wait(b, o))
  BY DEF Roomy, Wait
<1>2. Roomy(WaitForever(d))
  BY DEF Roomy, Wait, WaitForever
<1>3. d + 20 \in Nat /\ d + 30 \in Nat /\ d + 40 \in Nat
  OBVIOUS
<1>4. Roomy(WaitForLevel(d)) /\ Roomy(Move(d)) /\ Roomy(Ble(d)) /\ Roomy(Blufi(d))
      /\ Roomy(UsbCycle(d)) /\ Roomy(Blink(d)) /\ Roomy(RouterWait(d))
  BY <1>1, <1>3 DEF WaitForLevel, Move, Ble, Blufi, UsbCycle, Blink, RouterWait
<1>5. Roomy(Watt(d))
  <2>1. AtLeast(30, d + 20) \in Nat /\ d + 7 <= AtLeast(30, d + 20)
    BY DEF AtLeast
  <2> QED BY <1>1, <2>1 DEF Watt
<1>6. Roomy(Energy(d))
  <2>1. AtLeast(30, d + 30) \in Nat /\ AtMost(d, 120) \in Nat
        /\ AtMost(d, 120) + 7 <= AtLeast(30, d + 30)
    BY DEF AtLeast, AtMost
  <2> QED BY <1>1, <2>1 DEF Energy
<1>7. Roomy(Dfu(d))
  <2> DEFINE run == AtMost(AtLeast(1, d), 600)
  <2>1. run \in Nat
    BY DEF AtLeast, AtMost
  <2> HIDE DEF run
  <2>2. Roomy(Wait(run + 60, run))
    BY <1>1, <2>1
  <2> QED BY <2>2 DEF Dfu, run
<1> QED BY <1>2, <1>4, <1>5, <1>6, <1>7

LEMMA OfIs ==
  ASSUME NEW call \in Kinds \X Nat
  PROVE  IF call[1] = "custom" THEN Of(call) = Wait(120, call[2]) ELSE Roomy(Of(call))
<1>1. call[2] \in Nat /\ call[1] \in Kinds
  OBVIOUS
<1>2. CASE call[1] = "custom"
  BY <1>2 DEF Of, Custom
<1>3. CASE call[1] \in Timed \ {"custom"}
  BY <1>1, <1>3, Asking DEF Of, Timed
<1>4. CASE call[1] \in Untimed
  BY <1>4, Fixed DEF Of, Untimed
<1> QED BY <1>1, <1>2, <1>3, <1>4 DEF Kinds

LEMMA Costs ==
  ASSUME NEW call \in Asked
  PROVE  /\ call \in Kinds \X Nat /\ call # None /\ Instrument(call) \in Instruments
         /\ Of(call).own \in Nat /\ Of(call).budget \in Nat \cup {None}
         /\ Cost(call) \in Nat /\ Cost(call) = Of(call).own + Overhead
<1>1. call \in Kinds \X Nat /\ call # None
  BY BudgetsAssumption
<1>2. Of(call).own \in Nat /\ Of(call).budget \in Nat \cup {None}
  BY <1>1, OfIs DEF Roomy, Wait
<1> QED BY <1>1, <1>2, BudgetsAssumption DEF Cost, Instrument, Instruments


-----------------------------------------------------------------------------
(* The invariant, action by action.                                        *)

LEMMA InitInv == Init => IInv
<1> SUFFICES ASSUME Init PROVE IInv
  OBVIOUS
<1>1. Start \in Thread
  BY DEF Start, Thread
<1>2. TypeOK
  BY <1>1 DEF Init, TypeOK
<1>3. Placed
  BY DEF Init, Placed
<1>4. Waits
  BY DEF Init, Waits, Start
<1> QED BY <1>2, <1>3, <1>4 DEF IInv, Init

(* What an instrument does, and a waiting thread: of the right type.       *)
LEMMA AtWork ==
  ASSUME IInv, NEW i \in Instruments
  PROVE  /\ busy[i] \in Serving \cup {Idle}
         /\ Idle \notin Serving /\ Idle.left = 0
         /\ busy[i] # Idle =>
              /\ busy[i] \in Serving /\ busy[i].job \in Job
              /\ busy[i].left \in Nat \cup {None} /\ busy[i].job.call \in Asked
              /\ busy[i].job.by \in Threads /\ calls[busy[i].job.by].call = busy[i].job.call
              /\ Instrument(busy[i].job.call) = i /\ busy[i].job \notin queue
              /\ busy[i].left = None \/ busy[i].left <= Cost(busy[i].job.call)
<1>1. Idle \notin Serving /\ Idle.left = 0
  BY BudgetsAssumption DEF Idle, Serving
<1>2. busy[i] \in Serving \cup {Idle}
  BY DEF IInv, TypeOK
<1>3. ASSUME busy[i] # Idle
      PROVE  Occupied(i, busy[i])
  BY <1>3 DEF IInv, Placed
<1> QED BY <1>1, <1>2, <1>3 DEF Occupied, Serving, Job

LEMMA InLine ==
  ASSUME IInv, NEW t \in Threads, calls[t].waits
  PROVE  /\ calls[t] \in Thread /\ calls[t].call \in Asked /\ JobOf(t) \in Job
         /\ calls[t].left \in Nat \cup {None} /\ calls[t].ahead \in Seq(Asked)
         /\ JobOf(t).by = t /\ JobOf(t).call = calls[t].call
         /\ Instrument(calls[t].call) \in Instruments
         /\ (calls[t].left = None <=> Of(calls[t].call).budget = None)
         /\ Queued(t) => OnQueue(calls[t], At(t))
         /\ ~Queued(t) => At(t).job = JobOf(t) /\ InHand(calls[t], At(t))
<1>1. calls[t] \in Thread
  BY DEF IInv, TypeOK
<1>2. Waiting(t)
  BY DEF IInv, Waits
<1>3. Instrument(calls[t].call) \in Instruments
  BY <1>2, Costs DEF Waiting
<1> QED BY <1>1, <1>2, <1>3 DEF Waiting, Thread, JobOf, Job

(* What is ahead of a call by the calls before it.                         *)
LEMMA FirstIs ==
  ASSUME NEW ahead \in Seq(Asked)
  PROVE  /\ First(ahead) \in Nat
         /\ ahead = <<>> => First(ahead) = 0
<1>1. CASE ahead = <<>>
  BY <1>1 DEF First
<1>2. CASE ahead # <<>>
  <2>1. ahead[1] \in Asked
    BY <1>2
  <2> QED BY <1>2, <2>1, Costs DEF First
<1> QED BY <1>1, <1>2

LEMMA FirstOf ==
  ASSUME NEW call \in Asked
  PROVE  /\ <<call>> \in Seq(Asked) /\ <<call>> # <<>>
         /\ First(<<call>>) = Cost(call)
<1> QED BY DEF First

LEMMA Appended ==
  ASSUME NEW ahead \in Seq(Asked), NEW call \in Asked
  PROVE  /\ Append(ahead, call) \in Seq(Asked) /\ Append(ahead, call) # <<>>
         /\ Len(Append(ahead, call)) <= 1 => ahead = <<>> /\ Append(ahead, call) = <<call>>
<1>1. Append(ahead, call) \in Seq(Asked) /\ Len(Append(ahead, call)) = Len(ahead) + 1
  OBVIOUS
<1>2. Len(ahead) \in Nat
  OBVIOUS
<1>3. Append(ahead, call) # <<>>
  BY <1>1, <1>2
<1>4. ASSUME Len(Append(ahead, call)) <= 1
      PROVE  ahead = <<>>
  <2>1. Len(ahead) = 0
    BY <1>1, <1>2, <1>4
  <2> QED BY <2>1, EmptySeq
<1>5. Append(<<>>, call) = <<call>>
  OBVIOUS
<1> QED BY <1>1, <1>3, <1>4, <1>5

LEMMA Job1 ==
  ASSUME NEW j \in Job
  PROVE  j = [by |-> j.by, call |-> j.call] /\ j.by \in Threads /\ j.call \in Asked
<1> QED BY DEF Job


(* A call joins the line behind what its instrument does.                  *)
LEMMA CallStep ==
  ASSUME IInv, NEW t \in Threads, NEW call \in Asked, Call(t, call)
  PROVE  IInv'
<1> DEFINE i == Instrument(call)
           ahead == IF busy[i] = Idle THEN <<>> ELSE <<busy[i].job.call>>
           c == [waits |-> TRUE, call |-> call, left |-> Of(call).budget, ahead |-> ahead]
           job == [by |-> t, call |-> call]
<1>1. /\ calls[t].call = None /\ calls' = [calls EXCEPT ![t] = c]
      /\ queue' = queue \cup {job} /\ busy' = busy /\ aborted' = aborted
  BY DEF Call
<1>2. i \in Instruments /\ call # None /\ Of(call).budget \in Nat \cup {None} /\ job \in Job
  BY Costs DEF Job
<1>3. ahead \in Seq(Asked)
  BY <1>2, AtWork
<1>4. c \in Thread /\ c.call = call /\ c.left = Of(call).budget /\ c.ahead = ahead
  BY <1>2, <1>3 DEF Thread
<1>5. TypeOK /\ t \in DOMAIN calls
  BY DEF IInv, TypeOK
<1>6. OnQueue(c, busy[i])
  <2>1. CASE busy[i] = Idle
    <3>1. ahead = <<>> /\ busy[i].left = 0 /\ First(ahead) = 0
      BY <2>1, <1>3, AtWork, <1>2, FirstIs
    <3> QED BY <2>1, <3>1, <1>2, <1>4 DEF OnQueue, Keeps
  <2>2. CASE busy[i] # Idle
    <3>1. /\ busy[i].job.call \in Asked /\ busy[i].left \in Nat \cup {None}
          /\ busy[i].left = None \/ busy[i].left <= Cost(busy[i].job.call)
      BY <2>2, <1>2, AtWork
    <3>2. ahead = <<busy[i].job.call>>
      BY <2>2
    <3>3. ahead # <<>> /\ First(ahead) = Cost(busy[i].job.call)
      BY <3>1, <3>2, FirstOf
    <3>4. Cost(busy[i].job.call) \in Nat
      BY <3>1, Costs
    <3> HIDE DEF ahead, c, i
    <3> QED BY <3>1, <3>3, <3>4, <1>2, <1>4 DEF OnQueue, Keeps
  <2> QED BY <2>1, <2>2
<1> HIDE DEF c, ahead
<1>7. TypeOK'
  BY <1>1, <1>2, <1>4, <1>5 DEF TypeOK
<1>8. Placed'
  <2>1. ASSUME NEW j \in queue'
        PROVE  calls'[j.by].call = j.call
    <3>1. CASE j = job
      BY <3>1, <1>1, <1>4, <1>5
    <3>2. CASE j # job
      <4>1. j \in queue /\ j \in Job /\ calls[j.by].call = j.call
        BY <3>2, <2>1, <1>1, <1>5 DEF IInv, Placed, TypeOK
      <4>2. j.by # t
        BY <4>1, <1>1, Job1, Costs
      <4> QED BY <4>1, <4>2, <1>1, <1>5, Job1 DEF TypeOK
    <3> QED BY <3>1, <3>2
  <2>2. ASSUME NEW k \in Instruments, busy[k] # Idle
        PROVE  Occupied(k, busy[k])'
    <3> DEFINE j == busy[k].job
    <3>1. /\ busy[k] \in Serving /\ j.by \in Threads /\ j.call \in Asked
          /\ calls[j.by].call = j.call /\ Instrument(j.call) = k /\ j \notin queue
          /\ busy[k].left = None \/ busy[k].left <= Cost(j.call)
      BY <2>2, AtWork
    <3> HIDE DEF j
    <3>2. j.by # t
      BY <3>1, <1>1, Costs
    <3>3. calls'[j.by] = calls[j.by] /\ j \notin queue'
      BY <3>1, <3>2, <1>1, <1>5 DEF TypeOK
    <3> QED BY <3>1, <3>3, <1>1 DEF Occupied, j
  <2> QED BY <2>1, <2>2, <1>1 DEF Placed
<1>9. Waits'
  <2> SUFFICES ASSUME NEW u \in Threads, calls'[u].waits PROVE Waiting(u)'
    BY DEF Waits
  <2>1. CASE u = t
    <3>1. calls'[u] = c
      BY <2>1, <1>1, <1>5
    <3>2. JobOf(u)' = job /\ job \in queue'
      BY <3>1, <2>1, <1>1, <1>4 DEF JobOf
    <3>3. Queued(u)' /\ At(u)' = busy[i]
      BY <3>1, <3>2, <1>1, <1>4 DEF Queued, At
    <3> HIDE DEF job, i
    <3> QED BY <3>1, <3>3, <1>4, <1>6 DEF Waiting
  <2>2. CASE u # t
    <3>1. calls'[u] = calls[u]
      BY <2>2, <1>1, <1>5
    <3>2. JobOf(u)' = JobOf(u) /\ JobOf(u) # job /\ At(u)' = At(u)
      BY <3>1, <2>2, <1>1 DEF JobOf, At
    <3>3. Queued(u)' = Queued(u)
      BY <3>2, <1>1 DEF Queued
    <3>4. Waiting(u)
      BY <3>1 DEF IInv, Waits
    <3> QED BY <3>1, <3>2, <3>3, <3>4 DEF Waiting
  <2> QED BY <2>1, <2>2
<1> QED BY <1>1, <1>7, <1>8, <1>9 DEF IInv

(* A call given up on: its budget is gone.                                 *)
LEMMA GiveUpStep ==
  ASSUME IInv, NEW t \in Threads, GiveUp(t)
  PROVE  IInv'
<1> DEFINE c == [calls[t] EXCEPT !.waits = FALSE]
           a == [call |-> calls[t].call, ahead |-> calls[t].ahead, hung |-> At(t).left = None]
<1>1. /\ calls[t].waits /\ calls[t].left = 0 /\ calls' = [calls EXCEPT ![t] = c]
      /\ aborted' = aborted \cup {a} /\ queue' = queue /\ busy' = busy
  BY DEF GiveUp, At
<1>2. TypeOK /\ t \in DOMAIN calls /\ calls[t] \in Thread
  BY DEF IInv, TypeOK
<1>3. c \in Thread /\ ~c.waits /\ c.call = calls[t].call
  BY <1>2 DEF Thread
<1>4. /\ calls[t].call \in Asked /\ calls[t].ahead \in Seq(Asked)
      /\ Instrument(calls[t].call) \in Instruments
      /\ (calls[t].left = None <=> Of(calls[t].call).budget = None)
      /\ Queued(t) => OnQueue(calls[t], At(t))
      /\ ~Queued(t) => InHand(calls[t], At(t))
  BY <1>1, InLine
<1>5. a \in Aborted /\ a.call = calls[t].call /\ a.ahead = calls[t].ahead
      /\ a.hung = (At(t).left = None)
  BY <1>4 DEF Aborted
<1>6. Late(a)
  <2>1. /\ Of(calls[t].call).budget \in Nat \cup {None} /\ Cost(calls[t].call) \in Nat
        /\ First(calls[t].ahead) \in Nat /\ None \notin Nat
    BY <1>4, Costs, FirstIs, BudgetsAssumption
  <2>2. Of(calls[t].call).budget # None /\ Of(calls[t].call).budget \in Nat
    BY <2>1, <1>1, <1>4
  <2>3. At(t).left \in Nat \cup {None}
    BY <1>4, AtWork DEF At, Serving
  <2> HIDE DEF a
  <2>4. ASSUME Len(calls[t].ahead) <= 1, At(t).left # None
        PROVE  Of(calls[t].call).budget <= Cost(calls[t].call) + First(calls[t].ahead)
    <3>1. CASE Queued(t)
      <4>1. Keeps(calls[t], At(t), First(calls[t].ahead))
        BY <3>1, <1>4 DEF OnQueue
      <4>2. 0 + First(calls[t].ahead) >= Of(calls[t].call).budget + At(t).left
        BY <4>1, <2>4, <2>1, <1>1 DEF Keeps
      <4> QED BY <4>2, <2>1, <2>2, <2>3, <2>4
    <3>2. CASE ~Queued(t)
      <4>1. Keeps(calls[t], At(t), First(calls[t].ahead) + Cost(calls[t].call))
        BY <3>2, <1>4 DEF InHand
      <4>2. 0 + (First(calls[t].ahead) + Cost(calls[t].call)) >= Of(calls[t].call).budget + At(t).left
        BY <4>1, <2>4, <2>1, <1>1 DEF Keeps
      <4> QED BY <4>2, <2>1, <2>2, <2>3, <2>4
    <3> QED BY <3>1, <3>2
  <2> QED BY <1>5, <2>2, <2>4 DEF Late
<1> HIDE DEF c, a
<1>7. TypeOK'
  BY <1>1, <1>2, <1>3, <1>5 DEF TypeOK
<1>8. \A u \in Threads : calls'[u].call = calls[u].call
  BY <1>1, <1>2, <1>3 DEF TypeOK
<1>9. Placed'
  <2>1. ASSUME NEW j \in queue
        PROVE  calls'[j.by].call = j.call
    BY <1>2, <1>8, Job1 DEF IInv, Placed, TypeOK
  <2>2. ASSUME NEW k \in Instruments, busy[k] # Idle
        PROVE  Occupied(k, busy[k])'
    <3>1. Occupied(k, busy[k]) /\ busy[k].job.by \in Threads
      BY <2>2, AtWork DEF IInv, Placed
    <3> QED BY <3>1, <1>1, <1>8 DEF Occupied
  <2> QED BY <2>1, <2>2, <1>1 DEF Placed
<1>10. Waits'
  <2> SUFFICES ASSUME NEW u \in Threads, calls'[u].waits PROVE Waiting(u)'
    BY DEF Waits
  <2>1. u # t /\ calls'[u] = calls[u]
    BY <1>1, <1>2, <1>3
  <2>2. JobOf(u)' = JobOf(u) /\ At(u)' = At(u)
    BY <2>1, <1>1 DEF JobOf, At
  <2>3. Queued(u)' = Queued(u)
    BY <2>2, <1>1 DEF Queued
  <2>4. Waiting(u)
    BY <2>1 DEF IInv, Waits
  <2> QED BY <2>1, <2>2, <2>3, <2>4 DEF Waiting
<1>11. (\A x \in aborted : Late(x))'
  BY <1>1, <1>6 DEF IInv, Late
<1> QED BY <1>7, <1>9, <1>10, <1>11 DEF IInv


(* Answered, or nobody there to be told: the instrument is free.           *)
LEMMA AnswerStep ==
  ASSUME IInv, NEW i \in Instruments, Answer(i)
  PROVE  IInv'
<1> DEFINE j == busy[i].job
           c == [calls[j.by] EXCEPT !.waits = FALSE]
<1>1. /\ busy[i] # Idle /\ busy[i].left = 0 /\ busy' = [busy EXCEPT ![i] = Idle]
      /\ calls' = IF calls[j.by].waits /\ JobOf(j.by) = j
                  THEN [calls EXCEPT ![j.by] = c] ELSE calls
      /\ aborted' = aborted /\ queue' = queue
  BY DEF Answer
<1>2. /\ TypeOK /\ j \in Job /\ j.by \in Threads /\ j.call \in Asked
      /\ Instrument(j.call) = i /\ j \notin queue
  BY <1>1, AtWork DEF IInv
<1>3. calls[j.by] \in Thread /\ j.by \in DOMAIN calls /\ i \in DOMAIN busy
  BY <1>2 DEF TypeOK
<1>4. c \in Thread /\ ~c.waits /\ c.call = calls[j.by].call
  BY <1>3 DEF Thread
<1> HIDE DEF c, j
<1>5. calls' \in [Threads -> Thread] /\ \A u \in Threads : calls'[u].call = calls[u].call
  BY <1>1, <1>2, <1>3, <1>4 DEF TypeOK
<1>6. busy' \in [Instruments -> Serving \cup {Idle}] /\ busy'[i] = Idle
      /\ \A k \in Instruments \ {i} : busy'[k] = busy[k]
  BY <1>1, <1>2, <1>3 DEF TypeOK
<1>7. TypeOK'
  BY <1>1, <1>2, <1>5, <1>6 DEF TypeOK
<1>8. Placed'
  <2>1. ASSUME NEW x \in queue
        PROVE  calls'[x.by].call = x.call
    BY <1>2, <1>5, Job1 DEF IInv, Placed, TypeOK
  <2>2. ASSUME NEW k \in Instruments, busy'[k] # Idle
        PROVE  Occupied(k, busy[k])'
    <3>1. k # i /\ busy'[k] = busy[k] /\ busy[k] # Idle
      BY <2>2, <1>6
    <3>2. Occupied(k, busy[k]) /\ busy[k].job.by \in Threads
      BY <3>1, AtWork DEF IInv, Placed
    <3> QED BY <3>1, <3>2, <1>1, <1>5 DEF Occupied
  <2> QED BY <2>1, <2>2, <1>1 DEF Placed
<1>9. Waits'
  <2> SUFFICES ASSUME NEW u \in Threads, calls'[u].waits PROVE Waiting(u)'
    BY DEF Waits
  <2>1. calls'[u] = calls[u] /\ (calls[u].waits /\ JobOf(u) = j => FALSE)
    <3>1. CASE calls[j.by].waits /\ JobOf(j.by) = j
      <4>1. calls' = [calls EXCEPT ![j.by] = c]
        BY <3>1, <1>1
      <4>2. u # j.by /\ calls'[u] = calls[u]
        BY <4>1, <1>3, <1>4
      <4> QED BY <4>2 DEF JobOf
    <3>2. CASE ~(calls[j.by].waits /\ JobOf(j.by) = j)
      <4>1. calls' = calls
        BY <3>2, <1>1
      <4>2. ASSUME JobOf(u) = j PROVE j.by = u
        BY <4>2 DEF JobOf
      <4> QED BY <3>2, <4>1, <4>2
    <3> QED BY <3>1, <3>2
  <2>2. JobOf(u)' = JobOf(u) /\ Queued(u)' = Queued(u)
    BY <2>1, <1>1 DEF JobOf, Queued
  <2>3. /\ Waiting(u) /\ Instrument(calls[u].call) \in Instruments
        /\ Queued(u) => OnQueue(calls[u], At(u))
        /\ ~Queued(u) => At(u).job = JobOf(u)
    BY <2>1, InLine DEF IInv, Waits
  <2>4. CASE Instrument(calls[u].call) # i
    <3>1. At(u)' = At(u)
      BY <2>1, <2>3, <2>4, <1>6 DEF At
    <3> QED BY <2>1, <2>2, <2>3, <3>1 DEF Waiting
  <2>5. CASE Instrument(calls[u].call) = i
    <3>1. At(u) = busy[i] /\ At(u)' = Idle
      BY <2>1, <2>5, <1>6 DEF At
    <3>2. Queued(u)
      BY <2>1, <2>3, <3>1 DEF j
    <3>3. OnQueue(calls[u], Idle)
      <4>1. OnQueue(calls[u], busy[i]) /\ Idle.left = busy[i].left
        BY <2>3, <3>1, <3>2, <1>1, AtWork
      <4> QED BY <4>1 DEF OnQueue, Keeps
    <3> QED BY <2>1, <2>2, <2>3, <3>1, <3>2, <3>3 DEF Waiting
  <2> QED BY <2>4, <2>5
<1> QED BY <1>1, <1>7, <1>8, <1>9 DEF IInv, Late

(* A request taken up: those still in the line have it ahead.              *)
LEMMA BeginStep ==
  ASSUME IInv, NEW j \in queue, Begin(j)
  PROVE  IInv'
<1> DEFINE i == Instrument(j.call)
           In(u) == calls[u].waits /\ JobOf(u) \in queue' /\ Instrument(calls[u].call) = i
           c(u) == [calls[u] EXCEPT !.ahead = Append(@, j.call)]
<1>1. TypeOK /\ j \in Job /\ j.by \in Threads /\ j.call \in Asked /\ calls[j.by].call = j.call
  BY Job1 DEF IInv, TypeOK, Placed
<1>2. i \in Instruments /\ Cost(j.call) \in Nat /\ Cost(j.call) = Of(j.call).own + Overhead
  BY <1>1, Costs
<1>3. PICK left \in Nat \cup {None} :
        /\ left = None \/ left <= Cost(j.call)
        /\ busy' = [busy EXCEPT ![i] = [job |-> j, left |-> left]]
  <2>1. \E left \in {0, Cost(j.call), None} :
          busy' = [busy EXCEPT ![i] = [job |-> j, left |-> left]]
    BY DEF Begin, Cost
  <2>2. 0 <= Cost(j.call) /\ Cost(j.call) <= Cost(j.call)
    BY <1>2
  <2> HIDE DEF i
  <2> QED BY <2>1, <2>2, <1>2
<1> DEFINE b == [job |-> j, left |-> left]
<1>4. /\ busy[i] = Idle /\ queue' = queue \ {j} /\ aborted' = aborted
      /\ busy' = [busy EXCEPT ![i] = b]
      /\ calls' = [u \in Threads |-> IF In(u) THEN c(u) ELSE calls[u]]
  BY <1>3 DEF Begin
<1>5. b \in Serving /\ b.job = j /\ b.left = left
  BY <1>1 DEF Serving
<1>6. b # Idle
  BY <1>5, <1>2, AtWork
<1> HIDE DEF i, b
<1>7. /\ busy'[i] = b /\ busy' \in [Instruments -> Serving \cup {Idle}]
      /\ \A k \in Instruments \ {i} : busy'[k] = busy[k]
  BY <1>1, <1>2, <1>4, <1>5 DEF TypeOK
<1>8. ASSUME NEW u \in Threads
      PROVE  /\ c(u) \in Thread /\ c(u).waits = calls[u].waits /\ c(u).call = calls[u].call
             /\ c(u).left = calls[u].left /\ c(u).ahead = Append(calls[u].ahead, j.call)
  <2>1. calls[u] \in Thread
    BY <1>1 DEF TypeOK
  <2>2. Append(calls[u].ahead, j.call) \in Seq(Asked)
    BY <2>1, <1>1, Appended DEF Thread
  <2> QED BY <2>1, <2>2 DEF Thread
<1>9. ASSUME NEW u \in Threads
      PROVE  calls'[u] = IF In(u) THEN c(u) ELSE calls[u]
  BY <1>4
<1> HIDE DEF c
<1>10. calls' \in [Threads -> Thread]
  BY <1>1, <1>4, <1>8 DEF TypeOK
<1>11. \A u \in Threads : calls'[u].call = calls[u].call /\ calls'[u].waits = calls[u].waits
                          /\ calls'[u].left = calls[u].left
  BY <1>8, <1>9
<1>12. TypeOK'
  BY <1>1, <1>4, <1>7, <1>10 DEF TypeOK
<1>13. Placed'
  <2>1. ASSUME NEW x \in queue
        PROVE  calls'[x.by].call = x.call
    BY <1>1, <1>11, Job1 DEF IInv, Placed, TypeOK
  <2>2. ASSUME NEW k \in Instruments, busy'[k] # Idle
        PROVE  Occupied(k, busy[k])'
    <3>1. CASE k = i
      <4>1. calls'[j.by].call = j.call /\ j \notin queue'
        BY <1>1, <1>4, <1>11
      <4> QED BY <3>1, <4>1, <1>3, <1>5, <1>7 DEF Occupied, i
    <3>2. CASE k # i
      <4>1. busy'[k] = busy[k] /\ busy[k] # Idle
        BY <2>2, <3>2, <1>7
      <4>2. Occupied(k, busy[k]) /\ busy[k].job.by \in Threads
        BY <4>1, AtWork DEF IInv, Placed
      <4> QED BY <4>1, <4>2, <1>4, <1>11 DEF Occupied
    <3> QED BY <3>1, <3>2
  <2> QED BY <2>1, <2>2, <1>4 DEF Placed
<1>14. Waits'
  <2> SUFFICES ASSUME NEW u \in Threads, calls'[u].waits PROVE Waiting(u)'
    BY DEF Waits
  <2>1. /\ calls[u].waits /\ calls[u].call \in Asked /\ calls[u].ahead \in Seq(Asked)
        /\ calls[u].left \in Nat \cup {None}
        /\ JobOf(u).by = u /\ JobOf(u).call = calls[u].call
        /\ Instrument(calls[u].call) \in Instruments
        /\ (calls[u].left = None <=> Of(calls[u].call).budget = None)
        /\ Queued(u) => OnQueue(calls[u], At(u))
        /\ ~Queued(u) => At(u).job = JobOf(u) /\ InHand(calls[u], At(u))
    BY <1>11, InLine
  <2>2. JobOf(u)' = JobOf(u)
    BY <1>11 DEF JobOf
  <2>3. /\ Of(calls[u].call).budget \in Nat \cup {None} /\ Cost(calls[u].call) \in Nat
        /\ First(calls[u].ahead) \in Nat /\ None \notin Nat
        /\ calls[u].ahead = <<>> => First(calls[u].ahead) = 0
    BY <2>1, Costs, FirstIs, BudgetsAssumption
  <2>4. busy[i].left = 0
    BY <1>2, <1>4, AtWork
  <2>5. CASE Instrument(calls[u].call) # i
    <3>1. calls'[u] = calls[u] /\ At(u)' = At(u)
      BY <2>1, <2>5, <1>7, <1>9 DEF At
    <3>2. JobOf(u) # j /\ Queued(u)' = Queued(u)
      BY <2>1, <2>2, <2>5, <1>4 DEF Queued, i
    <3> QED BY <2>1, <3>1, <3>2, <2>2 DEF Waiting
  <2>6. CASE Instrument(calls[u].call) = i
    <3>1. At(u) = busy[i] /\ At(u)' = b
      BY <2>6, <1>7, <1>11 DEF At
    <3>2. Queued(u) /\ Keeps(calls[u], busy[i], First(calls[u].ahead))
      BY <2>1, <3>1, <1>4 DEF InHand, OnQueue
    <3>3. CASE JobOf(u) = j
      <4>1. ~Queued(u)' /\ calls'[u] = calls[u]
        BY <3>3, <2>2, <1>4, <1>9 DEF Queued
      <4>2. calls[u].call = j.call
        BY <3>3, <2>1
      <4>3. Keeps(calls[u], b, First(calls[u].ahead) + Cost(calls[u].call))
        <5> SUFFICES ASSUME Len(calls[u].ahead) <= 1, calls[u].left # None, b.left # None
                     PROVE  calls[u].left + (First(calls[u].ahead) + Cost(calls[u].call))
                              >= Of(calls[u].call).budget + b.left
          BY DEF Keeps
        <5>1. calls[u].left + First(calls[u].ahead) >= Of(calls[u].call).budget + 0
          BY <2>3, <2>4, <3>2 DEF Keeps
        <5>2. calls[u].left \in Nat /\ Of(calls[u].call).budget \in Nat
          BY <2>1, <2>3
        <5>3. b.left \in Nat /\ b.left <= Cost(calls[u].call)
          BY <1>3, <1>5, <4>2
        <5> QED BY <5>1, <5>2, <5>3, <2>3
      <4>4. InHand(calls[u], b)
        BY <4>3, <1>6 DEF InHand
      <4> QED BY <4>1, <4>4, <3>1, <3>3, <2>1, <2>2, <1>5 DEF Waiting
    <3>4. CASE JobOf(u) # j
      <4>1. JobOf(u) \in queue' /\ Queued(u)' /\ calls'[u] = c(u)
        BY <3>2, <3>4, <2>1, <2>2, <2>6, <1>4, <1>9 DEF Queued
      <4>2. /\ c(u).call = calls[u].call /\ c(u).left = calls[u].left
            /\ c(u).ahead = Append(calls[u].ahead, j.call)
        BY <1>8
      <4>3. c(u).ahead # <<>>
        BY <4>2, <2>1, <1>1, Appended
      <4>4. ASSUME Len(c(u).ahead) <= 1
            PROVE  calls[u].ahead = <<>> /\ c(u).ahead = <<j.call>>
        BY <4>2, <4>4, <2>1, <1>1, Appended
      <4>5. ASSUME Len(c(u).ahead) <= 1
            PROVE  First(calls[u].ahead) = 0 /\ First(c(u).ahead) = Cost(j.call)
        BY <4>4, <4>5, <2>3, <1>1, FirstOf
      <4>6. ASSUME Len(c(u).ahead) <= 1, c(u).left # None, b.left # None
            PROVE  c(u).left + First(c(u).ahead) >= Of(c(u).call).budget + b.left
        <5>1. calls[u].left + 0 >= Of(calls[u].call).budget + 0
          BY <4>2, <4>4, <4>5, <4>6, <3>2, <2>3, <2>4 DEF Keeps
        <5>2. b.left \in Nat /\ b.left <= Cost(j.call)
          BY <4>6, <1>3, <1>5
        <5>3. calls[u].left \in Nat /\ Of(calls[u].call).budget \in Nat
          BY <4>6, <4>2, <2>1, <2>3
        <5> QED BY <5>1, <5>2, <5>3, <4>2, <4>5, <4>6, <1>2
      <4>7. OnQueue(c(u), b)
        BY <4>3, <4>6 DEF OnQueue, Keeps
      <4> QED BY <4>1, <4>2, <4>7, <3>1, <2>1 DEF Waiting
    <3> QED BY <3>3, <3>4
  <2> QED BY <2>5, <2>6
<1> QED BY <1>4, <1>12, <1>13, <1>14 DEF IInv, Late


(* Time does not pass by what is due, and what is without a limit stays so. *)
LEMMA Dues ==
  ASSUME IInv
  PROVE  /\ Timers \subseteq Nat
         /\ \A t \in Threads : calls[t].waits /\ calls[t].left # None => calls[t].left \in Timers
         /\ \A i \in Instruments : busy[i] # Idle /\ busy[i].left # None => busy[i].left \in Timers
<1>1. \A t \in Threads : calls[t].waits => calls[t].left \in Nat \cup {None}
  BY InLine
<1>2. \A i \in Instruments : busy[i] # Idle => busy[i].left \in Nat \cup {None}
  BY AtWork
<1> QED BY <1>1, <1>2 DEF Timers, Due

LEMMA BothLess ==
  ASSUME NEW left \in Nat, NEW spent \in Nat, NEW budget \in Nat, NEW due \in Nat, NEW s \in Nat,
         left + spent >= budget + due
  PROVE  (left - s) + spent >= budget + (due - s)
BY SMT

LEMMA TickStep ==
  ASSUME IInv, NEW s \in Nat, Tick(s)
  PROVE  IInv'
<1> DEFINE c(u) == [calls[u] EXCEPT !.left = Less(@, s)]
           b(i) == [busy[i] EXCEPT !.left = Less(@, s)]
<1>1. /\ \A left \in Timers : left >= s
      /\ \A j \in queue : busy[Instrument(j.call)] # Idle
      /\ calls' = [u \in Threads |-> IF calls[u].waits THEN c(u) ELSE calls[u]]
      /\ busy' = [i \in Instruments |-> IF busy[i] # Idle THEN b(i) ELSE Idle]
      /\ queue' = queue /\ aborted' = aborted
  BY DEF Tick
<1>2. TypeOK /\ None \notin Nat
  BY BudgetsAssumption DEF IInv, TypeOK
<1>3. ASSUME NEW u \in Threads, calls[u].waits
      PROVE  /\ c(u) \in Thread /\ c(u).waits = calls[u].waits /\ c(u).call = calls[u].call
             /\ c(u).ahead = calls[u].ahead
             /\ (c(u).left = None <=> calls[u].left = None)
             /\ calls[u].left # None =>
                  c(u).left \in Nat /\ calls[u].left \in Nat /\ c(u).left = calls[u].left - s
  <2>1. calls[u] \in Thread /\ calls[u].left \in Nat \cup {None}
    BY <1>3, InLine
  <2>2. calls[u].left # None => calls[u].left >= s
    BY <1>1, <1>3, Dues
  <2>3. /\ Less(calls[u].left, s) \in Nat \cup {None}
        /\ (Less(calls[u].left, s) = None <=> calls[u].left = None)
        /\ calls[u].left # None => Less(calls[u].left, s) = calls[u].left - s
    BY <2>1, <2>2, <1>2 DEF Less
  <2> QED BY <2>1, <2>3, <1>3 DEF Thread
<1>4. ASSUME NEW i \in Instruments, busy[i] # Idle
      PROVE  /\ b(i) \in Serving /\ b(i).job = busy[i].job /\ b(i) # Idle
             /\ (b(i).left = None <=> busy[i].left = None)
             /\ busy[i].left # None =>
                  b(i).left \in Nat /\ busy[i].left \in Nat /\ b(i).left = busy[i].left - s
  <2>1. busy[i] \in Serving /\ busy[i].left \in Nat \cup {None} /\ Idle \notin Serving
    BY <1>4, AtWork
  <2>2. busy[i].left # None => busy[i].left >= s
    BY <1>1, <1>4, Dues
  <2>3. /\ Less(busy[i].left, s) \in Nat \cup {None}
        /\ (Less(busy[i].left, s) = None <=> busy[i].left = None)
        /\ busy[i].left # None => Less(busy[i].left, s) = busy[i].left - s
    BY <2>1, <2>2, <1>2 DEF Less
  <2> QED BY <2>1, <2>3 DEF Serving
<1>5. \A u \in Threads : calls'[u] = IF calls[u].waits THEN c(u) ELSE calls[u]
  BY <1>1
<1>6. \A i \in Instruments : busy'[i] = IF busy[i] # Idle THEN b(i) ELSE Idle
  BY <1>1
<1> HIDE DEF c, b
<1>7. TypeOK'
  <2>1. calls' \in [Threads -> Thread]
    BY <1>1, <1>2, <1>3 DEF TypeOK
  <2>2. busy' \in [Instruments -> Serving \cup {Idle}]
    BY <1>1, <1>2, <1>4 DEF TypeOK
  <2> QED BY <2>1, <2>2, <1>1, <1>2 DEF TypeOK
<1>8. \A u \in Threads : calls'[u].call = calls[u].call /\ calls'[u].waits = calls[u].waits
  BY <1>3, <1>5
<1>9. Placed'
  <2>1. ASSUME NEW x \in queue
        PROVE  calls'[x.by].call = x.call
    BY <1>2, <1>8, Job1 DEF IInv, Placed, TypeOK
  <2>2. ASSUME NEW k \in Instruments, busy'[k] # Idle
        PROVE  Occupied(k, busy[k])'
    <3>1. busy'[k] = b(k) /\ busy[k] # Idle
      BY <2>2, <1>6
    <3>2. /\ busy[k].job.by \in Threads /\ busy[k].job.call \in Asked
          /\ calls[busy[k].job.by].call = busy[k].job.call
          /\ Instrument(busy[k].job.call) = k /\ busy[k].job \notin queue
          /\ busy[k].left = None \/ busy[k].left <= Cost(busy[k].job.call)
      BY <3>1, AtWork
    <3>3. Cost(busy[k].job.call) \in Nat
      BY <3>2, Costs
    <3>4. b(k).left = None \/ b(k).left <= Cost(busy[k].job.call)
      BY <3>1, <3>2, <3>3, <1>4
    <3> QED BY <3>1, <3>2, <3>4, <1>1, <1>4, <1>8 DEF Occupied
  <2> QED BY <2>1, <2>2, <1>1 DEF Placed
<1>10. Waits'
  <2> SUFFICES ASSUME NEW u \in Threads, calls'[u].waits PROVE Waiting(u)'
    BY DEF Waits
  <2> DEFINE i == Instrument(calls[u].call)
  <2>1. /\ calls[u].waits /\ calls[u].call \in Asked /\ calls[u].ahead \in Seq(Asked)
        /\ JobOf(u).call = calls[u].call /\ i \in Instruments
        /\ (calls[u].left = None <=> Of(calls[u].call).budget = None)
        /\ Queued(u) => OnQueue(calls[u], At(u))
        /\ ~Queued(u) => At(u).job = JobOf(u) /\ InHand(calls[u], At(u))
    BY <1>8, InLine
  <2>2. calls'[u] = c(u) /\ JobOf(u)' = JobOf(u) /\ Queued(u)' = Queued(u)
    BY <2>1, <1>1, <1>5, <1>8 DEF JobOf, Queued
  <2>3. At(u) = busy[i] /\ At(u)' = busy'[i]
    BY <1>8 DEF At
  <2>4. busy[i] # Idle
    BY <2>1, <2>3, <1>1 DEF Queued, InHand
  <2>5. busy'[i] = b(i)
    BY <2>1, <2>4, <1>6
  <2> HIDE DEF i
  <2>6. /\ Of(calls[u].call).budget \in Nat \cup {None} /\ Cost(calls[u].call) \in Nat
        /\ First(calls[u].ahead) \in Nat
    BY <2>1, Costs, FirstIs
  <2>7. ASSUME NEW spent \in Nat, Keeps(calls[u], busy[i], spent)
        PROVE  Keeps(c(u), b(i), spent)
    <3> SUFFICES ASSUME Len(c(u).ahead) <= 1, c(u).left # None, b(i).left # None
                 PROVE  c(u).left + spent >= Of(c(u).call).budget + b(i).left
      BY DEF Keeps
    <3>1. /\ calls[u].left # None /\ calls[u].left \in Nat /\ c(u).left = calls[u].left - s
          /\ busy[i].left # None /\ busy[i].left \in Nat /\ b(i).left = busy[i].left - s
          /\ c(u).call = calls[u].call /\ c(u).ahead = calls[u].ahead
      BY <2>1, <2>4, <1>3, <1>4
    <3>2. calls[u].left + spent >= Of(calls[u].call).budget + busy[i].left
      BY <3>1, <2>7 DEF Keeps
    <3>3. Of(calls[u].call).budget \in Nat
      BY <3>1, <2>1, <2>6
    <3>4. (calls[u].left - s) + spent >= Of(calls[u].call).budget + (busy[i].left - s)
      BY <3>1, <3>2, <3>3, BothLess, Zenon
    <3> QED BY <3>1, <3>4, Zenon
  <2>8. Queued(u) => OnQueue(c(u), b(i))
    BY <2>1, <2>3, <2>4, <2>6, <2>7, <1>3 DEF OnQueue
  <2>9. ~Queued(u) => b(i).job = JobOf(u) /\ InHand(c(u), b(i))
    <3>1. First(calls[u].ahead) + Cost(calls[u].call) \in Nat
      BY <2>6
    <3> SUFFICES ASSUME ~Queued(u)
                 PROVE  b(i).job = JobOf(u) /\ InHand(c(u), b(i))
      OBVIOUS
    <3>2. /\ busy[i].job = JobOf(u) /\ InHand(calls[u], busy[i]) /\ b(i).job = busy[i].job
          /\ c(u).call = calls[u].call /\ c(u).ahead = calls[u].ahead
      BY <2>1, <2>3, <2>4, <1>3, <1>4
    <3> QED BY <3>1, <3>2, <2>1, <2>4, <2>7, <1>3, <1>4 DEF InHand
  <2> QED BY <2>1, <2>2, <2>3, <2>5, <2>8, <2>9, <1>3 DEF Waiting
<1> QED BY <1>1, <1>7, <1>9, <1>10 DEF IInv, Late

LEMMA Stutter ==
  ASSUME IInv, UNCHANGED vars
  PROVE  IInv'
<1> QED BY DEF vars, IInv, TypeOK, Placed, Occupied, Waits, Waiting, Queued, At, JobOf, Late

-----------------------------------------------------------------------------
LEMMA Inductive == Spec => []IInv
<1>1. ASSUME IInv, [Next]_vars
      PROVE  IInv'
  <2>1. CASE \E t \in Threads : GiveUp(t) \/ \E call \in Asked : Call(t, call)
    BY <1>1, <2>1, GiveUpStep, CallStep
  <2>2. CASE \E j \in queue : Begin(j)
    BY <1>1, <2>2, BeginStep
  <2>3. CASE \E i \in Instruments : Answer(i)
    BY <1>1, <2>3, AnswerStep
  <2>4. CASE Pass
    <3>1. PICK s \in ({Grain} \cup Timers) \ {0} : Tick(s)
      BY <2>4 DEF Pass
    <3>2. s \in Nat
      BY <1>1, Dues, BudgetsAssumption
    <3> QED BY <1>1, <3>1, <3>2, TickStep
  <2>5. CASE UNCHANGED vars
    BY <1>1, <2>5, Stutter
  <2> QED BY <1>1, <2>1, <2>2, <2>3, <2>4, <2>5 DEF Next
<1> QED BY InitInv, <1>1, PTL DEF Spec

(* What the module keeps has its type: each instrument does one request, a *)
(* budget is a number of seconds or none, never less than nothing.         *)
THEOREM TypeCorrect == Spec => []TypeOK
<1>1. IInv => TypeOK
  BY DEF IInv
<1> QED BY <1>1, Inductive, PTL

(* A call without a budget is never given up on; another one, with one     *)
(* other call in its way at most and an instrument that does not hang,     *)
(* only if what the box may take over the two reaches its budget.          *)
THEOREM OnlyTheLate == Spec => [](\A a \in aborted : Late(a))
<1>1. IInv => \A a \in aborted : Late(a)
  BY DEF IInv
<1> QED BY <1>1, Inductive, PTL

(* Every handle's margin, over any duration it is asked for, covers a box  *)
(* that takes less than 7 seconds over its own wait (least of all margins: *)
(* the state of all nets, 15 seconds against 8): such a call, alone with   *)
(* its instrument, is served.  A custom driver states its own wait: it     *)
(* must leave room in the fixed 120 seconds.                               *)
THEOREM MarginsSuffice ==
  ASSUME Overhead < 7,
         \A call \in Asked : call[1] = "custom" => call[2] + Overhead < 120
  PROVE  Spec => []AloneIsServed
<1>1. ASSUME IInv
      PROVE  AloneIsServed
  <2> SUFFICES ASSUME NEW a \in aborted, a.ahead = <<>>, ~a.hung
               PROVE  FALSE
    BY <1>1 DEF AloneIsServed
  <2>1. a \in Aborted /\ Late(a)
    BY <1>1 DEF IInv, TypeOK
  <2>2. a.call \in Asked /\ a.call \in Kinds \X Nat /\ a.call[2] \in Nat
        /\ Overhead \in Nat /\ Of(a.call).own \in Nat /\ Of(a.call).budget \in Nat \cup {None}
        /\ Cost(a.call) = Of(a.call).own + Overhead
    BY <2>1, Costs, BudgetsAssumption DEF Aborted
  <2>3. Len(a.ahead) <= 1 /\ First(a.ahead) = 0
    BY DEF First
  <2>4. Of(a.call).budget \in Nat /\ Of(a.call).budget <= Cost(a.call)
    BY <2>1, <2>2, <2>3 DEF Late
  <2>5. CASE a.call[1] = "custom"
    <3>1. Of(a.call) = Wait(120, a.call[2])
      BY <2>2, <2>5, OfIs
    <3>2. Of(a.call).budget = 120 /\ Of(a.call).own = a.call[2]
      BY <3>1 DEF Wait
    <3> QED BY <3>2, <2>2, <2>4, <2>5
  <2>6. CASE a.call[1] # "custom"
    <3>1. Roomy(Of(a.call))
      BY <2>2, <2>6, OfIs
    <3>2. Of(a.call).own + 7 <= Of(a.call).budget
      BY <3>1, <2>4, BudgetsAssumption DEF Roomy
    <3> QED BY <3>2, <2>2, <2>4
  <2> QED BY <2>5, <2>6
<1> QED BY <1>1, Inductive, PTL

(* The waits of the robot arm and of the Bluetooth adapter as they are by  *)
(* default cover a queue of one that is no WiFi scan and no provisioning,  *)
(* if the box takes less than 5 seconds over its own wait: least room has  *)
(* a scan behind a BluFi connection.                                       *)
THEOREM QueueOfOneSuffices ==
  ASSUME Overhead < 5
  PROVE  Spec => []OneAheadIsServed
<1>1. \A call \in Default :
        /\ Of(call).budget \in Nat /\ Of(call).own \in Nat
        /\ call \notin Lengthy => Of(call).own <= 20
        /\ Of(call).own + 30 <= Of(call).budget
  <2>1. Of(<<"move", 15>>) = Wait(45, 15)
    BY DEF Of, Move
  <2>2. Of(<<"arm", 0>>) = Wait(45, 0)
    BY DEF Of, Arm
  <2>3. Of(<<"ble", 10>>) = Wait(40, 10)
    BY DEF Of, Ble
  <2>4. \A d \in {20, 50, 80} : Of(<<"blufi", d>>) = Wait(d + 40, d)
    BY DEF Of, Blufi
  <2>5. \A call \in Default \ Lengthy :
          Of(call) \in {Wait(45, 15), Wait(45, 0), Wait(40, 10), Wait(60, 20)}
    <3>1. Of(<<"blufi", 20>>) = Wait(60, 20)
      BY <2>4
    <3> QED BY <2>1, <2>2, <2>3, <3>1 DEF Default
  <2>6. \A call \in Lengthy : Of(call) \in {Wait(90, 50), Wait(120, 80)}
    <3>1. Of(<<"blufi", 50>>) = Wait(90, 50) /\ Of(<<"blufi", 80>>) = Wait(120, 80)
      BY <2>4
    <3> QED BY <3>1 DEF Lengthy
  <2>7. \A w \in {Wait(45, 15), Wait(45, 0), Wait(40, 10), Wait(60, 20)} :
          w.budget \in Nat /\ w.own \in Nat /\ w.own <= 20 /\ w.own + 30 <= w.budget
    BY DEF Wait
  <2>8. \A w \in {Wait(90, 50), Wait(120, 80)} :
          w.budget \in Nat /\ w.own \in Nat /\ w.own + 30 <= w.budget
    BY DEF Wait
  <2> QED BY <2>5, <2>6, <2>7, <2>8
<1>2. ASSUME IInv
      PROVE  OneAheadIsServed
  <2> SUFFICES ASSUME NEW a \in aborted, a.call \in Default, Len(a.ahead) <= 1,
                      Range(a.ahead) \subseteq Default \ Lengthy, ~a.hung
               PROVE  FALSE
    BY <1>2 DEF OneAheadIsServed
  <2>1. a \in Aborted /\ Late(a)
    BY <1>2 DEF IInv, TypeOK
  <2>2. a.call \in Asked /\ a.ahead \in Seq(Asked) /\ Overhead \in Nat
        /\ Cost(a.call) = Of(a.call).own + Overhead
    BY <2>1, Costs, BudgetsAssumption DEF Aborted
  <2>3. First(a.ahead) \in Nat /\ First(a.ahead) <= 20 + Overhead
    <3>1. CASE a.ahead = <<>>
      BY <3>1, <2>2 DEF First
    <3>2. CASE a.ahead # <<>>
      <4>1. a.ahead[1] \in Asked /\ a.ahead[1] \in Range(a.ahead)
        BY <3>2, <2>2 DEF Range
      <4>2. Of(a.ahead[1]).own \in Nat /\ Of(a.ahead[1]).own <= 20
        BY <4>1, <1>1
      <4>3. First(a.ahead) = Of(a.ahead[1]).own + Overhead
        BY <3>2 DEF First, Cost
      <4> QED BY <4>2, <4>3, <2>2
    <3> QED BY <3>1, <3>2
  <2>4. Of(a.call).budget <= Cost(a.call) + First(a.ahead)
    BY <2>1 DEF Late
  <2>5. Of(a.call).budget \in Nat /\ Of(a.call).own \in Nat
        /\ Of(a.call).own + 30 <= Of(a.call).budget
    BY <1>1
  <2> QED BY <2>2, <2>3, <2>4, <2>5
<1> QED BY <1>2, Inductive, PTL

-----------------------------------------------------------------------------
(* BoxAnswers.                                                             *)

(* What the parsers make of the answer to an operation, one a lemma.       *)
LEMMA PlainIs ==
  ASSUME NEW a
  PROVE  /\ Parse_plain(a).kind \in {"ok", "Decode", "Box"}
         /\ Parse_plain(a).kind = "ok" => a.status = 200 /\ a.body = "json"
         /\ a.status # 200 => Parse_plain(a) = BoxError(a, a.says)
BY DEF Parse_plain, BoxError, R

LEMMA CommandIs ==
  ASSUME NEW a
  PROVE  /\ Parse_command(a).kind \in {"ok", "Decode", "Box", "UnsupportedByBox"}
         /\ Parse_command(a).kind = "ok" => a.status = 200 /\ a.flag = "yes"
         /\ Parse_command(a).kind = "UnsupportedByBox" => a.status = 501
         /\ Parse_command(a).kind = "Box" => Parse_command(a) = BoxError(a, a.says)
         /\ a.body = "json" /\ a.status = 501 => Parse_command(a) = R("UnsupportedByBox")
         /\ a.body = "json" /\ a.status \notin {200, 501} => Parse_command(a) = BoxError(a, a.says)
BY DEF Parse_command, BoxError, R

LEMMA DebugIs ==
  ASSUME NEW a
  PROVE  /\ Parse_debug(a).kind \in {"ok", "Decode", "Box", "ProbeBusy", "SafetyRefused"}
         /\ Parse_debug(a).kind = "ok" => a.status = 200 /\ a.body = "json"
         /\ a.status = 200 /\ a.body = "json" => Parse_debug(a) = R("ok")
BY DEF Parse_debug, BoxError, R

(* The rules for a route that is missing and an action that is unknown.    *)
LEMMA MappedIs ==
  ASSUME NEW e
  PROVE  /\ Map_route_missing(e) \in {e, R("UnsupportedByBox")}
         /\ Action_compat(e) \in {e, R("UnsupportedByBox")}
         /\ Is_route_missing(e) => Map_route_missing(e) = R("UnsupportedByBox")
         /\ ~Is_route_missing(e) => Map_route_missing(e) = e
         /\ ~(e.kind = "Box" /\ e.status = 400 /\ e.says = "unknown") => Action_compat(e) = e
         /\ e.kind = "Box" /\ e.status = 400 /\ e.says = "unknown" =>
              Action_compat(e) = R("UnsupportedByBox")
BY DEF Map_route_missing, Action_compat

LEMMA ParsedIs ==
  ASSUME NEW a
  PROVE  /\ op = "command" => Parsed(a) = Parse_command(a)
         /\ op = "since" => Parsed(a) = Action_compat(Parse_command(a))
         /\ op = "usb_devices" => Parsed(a) = Map_route_missing(Parse_usb_devices(a))
         /\ op = "dfu" => Parsed(a) = Map_route_missing(Parse_dfu(a))
         /\ op \in {"lock", "limits", "state", "sessions"} => Parsed(a) = Map_route_missing(Parse_plain(a))
         /\ op = "nets" => Parsed(a) = Parse_plain(a)
         /\ op = "debug" => Parsed(a) = Parse_debug(a)
         /\ op = "flash" => Parsed(a) = Parse_flash(a)
         /\ op = "ranged" => Parsed(a) = IF ask = "health" THEN Require_feature(a) ELSE Parse_debug(a)
BY DEF Parsed

(* An answer that makes a call well says so.                               *)
LEMMA OkMeans ==
  ASSUME NEW a, op \in Op, Received(a).kind = "ok"
  PROVE  /\ a.status = 200 /\ (op = "nets" => a.body # "page")
         /\ op \in {"command", "since", "usb_devices", "dfu"} => a.flag = "yes"
         /\ op = "flash" => a.flag # "no"
         /\ op = "ranged" /\ ask = "health" => a.flag = "yes"
<1> DEFINE m == Map_route_missing(Complete(a))
<1>0. R("UnsupportedByBox").kind = "UnsupportedByBox" /\ R("ok").kind = "ok" /\ R("Decode").kind = "Decode"
      /\ \A says : BoxError(a, says).kind = "Box"
  BY DEF R, BoxError
<1>1. CASE op \in {"admin", "file"}
  <2>1. Complete(a).kind = "ok"
    BY <1>0, <1>1, MappedIs DEF Received
  <2>2. Refusal(a).kind # "ok"
    BY <1>0 DEF Refusal
  <2> QED BY <1>0, <1>1, <2>1, <2>2 DEF Complete
<1>2. CASE op \notin {"admin", "file"}
  <2>1. Received(a) = Send_once(a)
    BY <1>2 DEF Received
  <2>2. a.body # "page" /\ Parsed(a).kind = "ok"
    <3> DEFINE e == IF a.status < 400 THEN R("Decode") ELSE BoxError(a, "page")
    <3>1. e.kind # "ok" /\ Action_compat(e).kind # "ok" /\ Map_route_missing(e).kind # "ok"
      BY <1>0, MappedIs
    <3> HIDE DEF e
    <3>2. a.body = "page" => Send_once(a) \in {e, Action_compat(e), Map_route_missing(e)}
      BY DEF Send_once, e
    <3>3. a.body # "page" => Send_once(a) = Parsed(a)
      BY DEF Send_once
    <3> QED BY <2>1, <3>1, <3>2, <3>3
  <2>3. CASE op = "command"
    BY <2>2, <2>3, ParsedIs, CommandIs
  <2>4. CASE op = "since"
    BY <1>0, <2>2, <2>4, ParsedIs, CommandIs, MappedIs
  <2>5. CASE op = "usb_devices"
    <3>1. Parse_usb_devices(a).kind = "ok"
      BY <1>0, <2>2, <2>5, ParsedIs, MappedIs
    <3>2. Parse_command(a).kind = "ok"
      BY <1>0, <3>1 DEF Parse_usb_devices
    <3> QED BY <2>5, <3>2, CommandIs
  <2>6. CASE op = "dfu"
    <3>1. Parse_dfu(a).kind = "ok"
      BY <1>0, <2>2, <2>6, ParsedIs, MappedIs
    <3>2. Parse_command(a).kind = "ok"
      BY <1>0, <3>1 DEF Parse_dfu, R
    <3> QED BY <2>6, <3>2, CommandIs
  <2>7. CASE op \in {"lock", "limits", "state", "sessions"}
    BY <1>0, <2>2, <2>7, ParsedIs, PlainIs, MappedIs
  <2>8. CASE op = "nets"
    BY <2>2, <2>8, ParsedIs, PlainIs
  <2>9. CASE op = "debug"
    BY <2>2, <2>9, ParsedIs, DebugIs
  <2>10. CASE op = "flash"
    <3>1. Parse_flash(a).kind = "ok"
      BY <2>2, <2>10, ParsedIs
    <3>2. a.status = 200
      BY <3>1, DebugIs DEF Parse_flash
    <3>3. a.flag # "no"
      BY <3>1, <3>2 DEF Parse_flash, R
    <3> QED BY <2>10, <3>2, <3>3
  <2>11. CASE op = "ranged"
    <3>1. ask = "health" => Parse_debug(a).kind = "ok" /\ a.flag = "yes"
      BY <1>0, <2>2, <2>11, ParsedIs DEF Require_feature
    <3>2. ask # "health" => Parse_debug(a).kind = "ok"
      BY <2>2, <2>11, ParsedIs
    <3> QED BY <2>11, <3>1, <3>2, DebugIs
  <2> QED BY <1>2, <2>3, <2>4, <2>5, <2>6, <2>7, <2>8, <2>9, <2>10, <2>11 DEF Op
<1> QED BY <1>1, <1>2

(* An answer that blames the age of the box is one that no route, no       *)
(* action or no feature gives.                                             *)
LEMMA BlameMeans ==
  ASSUME NEW a, a.says # "page", op \in Op, Received(a).kind = "UnsupportedByBox"
  PROVE  /\ op \notin {"nets", "debug", "flash"}
         /\ \/ a.status \in {404, 405} /\ (a.says = "notfound" \/ a.body = "page")
            \/ a.status = 501
            \/ a.status = 404 /\ op = "usb_devices"
            \/ a.status = 400 /\ a.says = "unknown"
            \/ op = "ranged" /\ ask = "health" /\ a.flag # "yes" /\ a.status = 200 /\ a.body = "json"
<1>0. R("UnsupportedByBox").kind = "UnsupportedByBox" /\ R("ok").kind = "ok" /\ R("Decode").kind = "Decode"
      /\ \A says : /\ BoxError(a, says).kind = "Box" /\ BoxError(a, says).says = says
                   /\ BoxError(a, says).status = a.status
  BY DEF R, BoxError
<1> DEFINE e == IF a.status < 400 THEN R("Decode") ELSE BoxError(a, "page")
<1>e. e = R("Decode") \/ e = BoxError(a, "page")
  OBVIOUS
<1>p. /\ e.kind # "UnsupportedByBox"
      /\ Action_compat(e).kind # "UnsupportedByBox"
      /\ Map_route_missing(e).kind = "UnsupportedByBox" => a.status \in {404, 405}
  <2>1. e.kind # "UnsupportedByBox" /\ (e.kind = "Box" => e.status = a.status /\ e.says = "page")
    BY <1>0, <1>e
  <2> HIDE DEF e
  <2> QED BY <2>1, MappedIs DEF Is_route_missing
<1> HIDE DEF e
<1>1. CASE op \in {"admin", "file"}
  <2>1. Received(a) = Map_route_missing(Complete(a))
    BY <1>1 DEF Received
  <2>2. CASE Complete(a).kind = "UnsupportedByBox"
    <3>1. Refusal(a).kind = "UnsupportedByBox" => a.status = 501
      BY <1>0 DEF Refusal
    <3> QED BY <1>0, <1>1, <2>2, <3>1 DEF Complete
  <2>3. CASE Complete(a).kind # "UnsupportedByBox"
    <3>1. Is_route_missing(Complete(a))
      BY <2>1, <2>3, MappedIs
    <3>2. Complete(a) \in {R("ok"), R("Decode"), BoxError(a, "page"), Refusal(a)}
      BY DEF Complete
    <3>3. Refusal(a) \in {R("UnsupportedByBox"), BoxError(a, a.says)}
      BY DEF Refusal
    <3>4. CASE Complete(a) = BoxError(a, "page") /\ a.body = "page"
      BY <1>0, <1>1, <3>1, <3>4 DEF Is_route_missing
    <3>5. CASE Complete(a) = BoxError(a, a.says)
      BY <1>0, <1>1, <3>1, <3>5 DEF Is_route_missing
    <3>6. Complete(a).kind = "Box"
      BY <3>1 DEF Is_route_missing
    <3>7. Complete(a) = BoxError(a, "page") => a.body = "page" \/ a.says = "page"
      BY <1>0 DEF Complete, Refusal
    <3> QED BY <1>0, <3>2, <3>3, <3>4, <3>5, <3>6, <3>7
  <2> QED BY <2>2, <2>3
<1>2. CASE op \notin {"admin", "file"}
  <2>1. Received(a) = Send_once(a)
    BY <1>2 DEF Received
  <2>2. CASE a.body = "page"
    <3>1. op = "since" => Send_once(a) = Action_compat(e)
      BY <2>2 DEF Send_once, e
    <3>2. op \in {"usb_devices", "dfu", "lock", "limits", "state", "sessions"} =>
            Send_once(a) = Map_route_missing(e)
      BY <2>2 DEF Send_once, e
    <3>3. op \notin {"since", "usb_devices", "dfu", "lock", "limits", "state", "sessions"} =>
            Send_once(a) = e
      BY <2>2 DEF Send_once, e
    <3> QED BY <1>p, <2>1, <2>2, <3>1, <3>2, <3>3
  <2> SUFFICES ASSUME a.body # "page"
               PROVE  /\ op \notin {"nets", "debug", "flash"}
                      /\ \/ a.status \in {404, 405} /\ a.says = "notfound"
                         \/ a.status = 501
                         \/ a.status = 404 /\ op = "usb_devices"
                         \/ a.status = 400 /\ a.says = "unknown"
                         \/ op = "ranged" /\ ask = "health" /\ a.flag # "yes" /\ a.status = 200 /\ a.body = "json"
    BY <2>2
  <2>0. Parsed(a).kind = "UnsupportedByBox"
    BY <2>1 DEF Send_once
  <2>m. \A r : Map_route_missing(r).kind = "UnsupportedByBox" /\ r.kind # "UnsupportedByBox" =>
                r.kind = "Box" /\ r.status \in {404, 405} /\ r.says \in {"notfound", "page"}
    BY DEF Map_route_missing, Is_route_missing
  <2>c. Parse_command(a).kind = "Box" =>
          Parse_command(a).status = a.status /\ Parse_command(a).says = a.says
    BY <1>0, CommandIs
  <2>3. CASE op = "command"
    BY <2>0, <2>3, ParsedIs, CommandIs
  <2>4. CASE op = "since"
    <3>1. Action_compat(Parse_command(a)).kind = "UnsupportedByBox"
      BY <2>0, <2>4, ParsedIs
    <3>2. \/ Parse_command(a).kind = "UnsupportedByBox"
          \/ Parse_command(a).kind = "Box" /\ Parse_command(a).status = 400 /\ Parse_command(a).says = "unknown"
      BY <3>1 DEF Action_compat
    <3> QED BY <2>4, <2>c, <3>2, CommandIs
  <2>5. CASE op = "usb_devices"
    <3> DEFINE r == Parse_usb_devices(a)
    <3>1. Map_route_missing(r).kind = "UnsupportedByBox"
      BY <2>0, <2>5, ParsedIs
    <3>2. a.status # 404 => r = Parse_command(a)
      BY DEF Parse_usb_devices
    <3> HIDE DEF r
    <3>3. r.kind = "UnsupportedByBox" \/ (r.kind = "Box" /\ r.status \in {404, 405} /\ r.says \in {"notfound", "page"})
      BY <2>m, <3>1
    <3> QED BY <2>5, <2>c, <3>2, <3>3, CommandIs
  <2>6. CASE op = "dfu"
    <3> DEFINE r == Parse_dfu(a)
    <3>1. Map_route_missing(r).kind = "UnsupportedByBox"
      BY <2>0, <2>6, ParsedIs
    <3>2. r = Parse_command(a) \/ r.kind = "DfuFailed"
      BY DEF Parse_dfu, R
    <3> HIDE DEF r
    <3>3. r.kind = "UnsupportedByBox" \/ (r.kind = "Box" /\ r.status \in {404, 405} /\ r.says \in {"notfound", "page"})
      BY <2>m, <3>1
    <3> QED BY <2>6, <2>c, <3>2, <3>3, CommandIs
  <2>7. CASE op \in {"lock", "limits", "state", "sessions"}
    <3> DEFINE r == Parse_plain(a)
    <3>1. Map_route_missing(r).kind = "UnsupportedByBox"
      BY <2>0, <2>7, ParsedIs
    <3>2. r.kind # "UnsupportedByBox" /\ (r.kind = "Box" => r.status = a.status /\ r.says = a.says)
      BY <1>0 DEF Parse_plain
    <3> HIDE DEF r
    <3>3. r.kind = "Box" /\ r.status \in {404, 405} /\ r.says \in {"notfound", "page"}
      BY <2>m, <3>1, <3>2
    <3> QED BY <2>7, <3>2, <3>3
  <2>8. CASE op = "nets"
    BY <2>0, <2>8, ParsedIs, PlainIs
  <2>9. CASE op = "debug"
    BY <2>0, <2>9, ParsedIs, DebugIs
  <2>10. CASE op = "flash"
    <3>1. Parse_flash(a) = Parse_debug(a) \/ Parse_flash(a).kind \in {"FlashFailed", "ok"}
      BY DEF Parse_flash, R
    <3> QED BY <2>0, <2>10, <3>1, ParsedIs, DebugIs
  <2>11. CASE op = "ranged"
    <3>1. ask = "health" /\ Require_feature(a).kind = "UnsupportedByBox"
      BY <2>0, <2>11, ParsedIs, DebugIs
    <3>2. Parse_debug(a).kind = "ok" /\ a.flag # "yes"
      BY <3>1, DebugIs DEF Require_feature
    <3> QED BY <2>11, <3>1, <3>2, DebugIs
  <2> QED BY <1>2, <2>3, <2>4, <2>5, <2>6, <2>7, <2>8, <2>9, <2>10, <2>11 DEF Op
<1> QED BY <1>1, <1>2

-----------------------------------------------------------------------------
(* What a box that lacks the route says of it, and what one that has the   *)
(* operation says when it does not do it.                                  *)
Behind == op \in {"command", "since", "usb_devices", "dfu", "admin"}
NoPath == Json(404, "notfound", "no")
NoPathPage == Page(404)
NoMethodPage == Page(405)
NotThere == Json(501, "other", "no")
NotTherePage == Page(501)
Absent ==
  {NoPath, NoPathPage, NoMethodPage} \cup IF Behind THEN {NotThere, NotTherePage} ELSE {}
Refuses(a) ==
  /\ a.says \in {"none", "busy", "other"} /\ a.flag # "yes"
  /\ a.status \in {200, 400, 403, 404, 409, 500, 503}
  /\ a.status = 200 => op \in {"command", "since", "dfu", "usb_devices", "flash"}
  /\ a.status = 200 /\ op = "flash" => a.flag = Verdict("no")
  /\ a.status = 404 => a.body # "page" /\ op # "usb_devices"
Does == {Json(200, "none", Verdict("yes")), [Json(200, "none", Verdict("yes")) EXCEPT !.body = "shape"],
         Page(200)}

(* The request that does the operation has come to a box that can do it.   *)
Reached == ask # "health" /\ (ask = "old" \/ box.serves) /\ Able

Listed == Json(200, "none", IF box.knows THEN "yes" ELSE "no")

(* What an answer tells of the box it is from.                             *)
Answered ==
  answer # NoAnswer =>
    \/ (ask = "old" \/ ~box.serves) /\ answer \in Absent
    \/ ask = "health" /\ box.serves /\ answer \in {Listed, Page(500)}
    \/ op \in {"command", "since"} /\ ~box.knows /\ answer = Json(400, "unknown", "no")
    \/ Reached /\ Refuses(answer)
    \/ Reached /\ did /\ answer \in Does

(* Where the call is; a ranged request goes out to a box that knows it.    *)
Course ==
  /\ op \in Op \cup {"none"} /\ ask \in {"none", "health", "first", "old"}
  /\ op = "none" => ask = "none"
  /\ ask = "none" => answer = NoAnswer
  /\ op = "none" \/ ask # "none" => res = Running
  /\ ask = "health" => op = "ranged"
  /\ ask = "old" => op = "nets"
  /\ op = "ranged" /\ ask = "first" => box.knows
  /\ first.kind \notin {"ok", "UnsupportedByBox"}
  /\ box.knows \in BOOLEAN /\ (~box.serves => ~box.knows)

AnswersInv ==
  Course /\ Answered /\ OkIsDone /\ NewBoxIsNotBlamed /\ OldBoxIsTold /\ NeverMisled

-----------------------------------------------------------------------------
LEMMA ErrorIs ==
  /\ \A k : R(k).kind = k /\ R(k).status = 0 /\ R(k).says = "none"
  /\ \A a, says : BoxError(a, says) = [kind |-> "Box", status |-> a.status, says |-> says]
BY DEF R, BoxError

LEMMA JsonIs ==
  ASSUME NEW status, NEW says, NEW flag
  PROVE  /\ Json(status, says, flag).status = status /\ Json(status, says, flag).says = says
         /\ Json(status, says, flag).body = "json" /\ Json(status, says, flag).flag = flag
         /\ Json(status, says, flag).exit = FALSE
BY DEF Json

LEMMA PageIs ==
  ASSUME NEW status
  PROVE  /\ Page(status).status = status /\ Page(status).says = "none"
         /\ Page(status).body = "page" /\ Page(status).flag = "none"
BY DEF Page, NoAnswer

(* A page is an error of the box, whatever the call, unless the rules make *)
(* the box too old of it.                                                  *)
LEMMA PageIsReceived ==
  ASSUME op \in Op, NEW status \in {404, 405, 500, 501}
  PROVE  LET e == [kind |-> "Box", status |-> status, says |-> "page"]
         IN /\ op \in Dated => Received(Page(status)) = Map_route_missing(e)
            /\ op = "ranged" => Received(Page(status)) = e
<1> DEFINE a == Page(status)
           e == [kind |-> "Box", status |-> status, says |-> "page"]
<1> HIDE DEF e
<1>0. a.status = status /\ a.body = "page"
  BY DEF Page, NoAnswer
<1> HIDE DEF a
<1>n. ~(status < 400) /\ status # 200
  OBVIOUS
<1>1. a.status = status /\ a.body = "page" /\ ~(a.status < 400) /\ a.status # 200
  BY <1>0, <1>n
<1>2. BoxError(a, "page") = e
  BY <1>0 DEF BoxError, e
<1>3. CASE op \in {"admin", "file"}
  <2>1. Complete(a) = e
    BY <1>1, <1>2 DEF Complete
  <2> QED BY <1>3, <2>1 DEF Received, a, e
<1>4. CASE op \in {"usb_devices", "dfu", "lock", "limits", "state", "sessions"}
  <2>1. Send_once(a) = Map_route_missing(e)
    BY <1>1, <1>2, <1>4 DEF Send_once
  <2> QED BY <1>4, <2>1 DEF Received, a, e
<1>5. CASE op = "ranged"
  <2>1. Send_once(a) = e
    BY <1>1, <1>2, <1>5 DEF Send_once
  <2> QED BY <1>5, <2>1 DEF Received, a, e, Dated
<1> QED BY <1>3, <1>4, <1>5 DEF Dated, a, e

(* An answer in JSON reaches the parser.                                   *)
LEMMA Fits ==
  ASSUME NEW a, op \notin {"admin", "file"}, a.body # "page"
  PROVE  Received(a) = Parsed(a)
BY DEF Received, Send_once

LEMMA AbsentIs ==
  ASSUME NEW a
  PROVE  a \in Absent <=> \/ a = NoPath \/ a = NoPathPage \/ a = NoMethodPage
                          \/ Behind /\ (a = NotThere \/ a = NotTherePage)
BY DEF Absent

LEMMA AbsentHas ==
  /\ NoPath \in Absent /\ NoPathPage \in Absent /\ NoMethodPage \in Absent
  /\ Behind => NotThere \in Absent /\ NotTherePage \in Absent
BY DEF Absent

LEMMA AbsenceIsTold ==
  ASSUME op \in Dated, NEW a \in Absent
  PROVE  Received(a) \in NotTold \/ Received(a).kind = "UnsupportedByBox"
<1>0. op \in Op
  BY DEF Dated, Op
<1>1. CASE a \in {Page(404), Page(405), Page(501)}
  <2>1. PICK s \in {404, 405, 501} : a = Page(s)
    BY <1>1
  <2> DEFINE e == [kind |-> "Box", status |-> s, says |-> "page"]
  <2>2. Received(a) = Map_route_missing(e)
    BY <1>0, <2>1, PageIsReceived
  <2>3. s \in {404, 405} => Is_route_missing(e)
    BY DEF Is_route_missing
  <2>4. s = 501 => e \in NotTold
    BY DEF NotTold
  <2> HIDE DEF e
  <2>5. CASE s \in {404, 405}
    BY <2>2, <2>3, <2>5, MappedIs, ErrorIs
  <2>6. CASE s = 501
    BY <2>2, <2>4, <2>6, MappedIs, ErrorIs
  <2> QED BY <2>5, <2>6
<1>2. CASE a = Json(404, "notfound", "no")
  <2>0. a.status = 404 /\ a.says = "notfound" /\ a.body = "json" /\ a.flag = "no" /\ a.exit = FALSE
    BY <1>2 DEF Json
  <2> DEFINE e == BoxError(a, a.says)
  <2>1. Map_route_missing(e) = R("UnsupportedByBox")
    <3>1. e.kind = "Box" /\ e.status = 404 /\ e.says = "notfound"
      BY <2>0 DEF BoxError
    <3>2. Is_route_missing(e)
      BY <3>1 DEF Is_route_missing
    <3> HIDE DEF e
    <3> QED BY <3>2, MappedIs
  <2>2. Map_route_missing(R("UnsupportedByBox")) = R("UnsupportedByBox")
    BY MappedIs
  <2> HIDE DEF e
  <2>3. CASE op \in {"admin", "file"}
    <3>1. Complete(a) = e
      BY <2>0 DEF Complete, Refusal, e
    <3> QED BY <2>1, <2>3, <3>1, ErrorIs DEF Received
  <2>4. CASE op \notin {"admin", "file"}
    <3>1. Received(a) = Parsed(a)
      BY <2>0, <2>4, Fits
    <3>p. Parse_command(a) = e
      BY <2>0, CommandIs DEF e
    <3>q. Parse_plain(a) = e
      BY <2>0, PlainIs DEF e
    <3>2. Parse_usb_devices(a) = R("UnsupportedByBox") /\ Parse_dfu(a) = e /\ Parse_plain(a) = e
      BY <2>0, <3>p, <3>q DEF Parse_usb_devices, Parse_dfu
    <3>3. Parsed(a) = R("UnsupportedByBox")
      BY <2>1, <2>2, <2>4, <3>2, ParsedIs DEF Dated
    <3> QED BY <3>1, <3>3, ErrorIs
  <2> QED BY <2>3, <2>4
<1>3. CASE a = Json(501, "other", "no") /\ op \in {"usb_devices", "dfu", "admin"}
  <2>0. a.status = 501 /\ a.body = "json" /\ a.exit = FALSE
    BY <1>3 DEF Json
  <2>2. Map_route_missing(R("UnsupportedByBox")) = R("UnsupportedByBox")
    BY MappedIs
  <2>3. CASE op = "admin"
    <3>1. Complete(a) = R("UnsupportedByBox")
      BY <2>0, <2>3 DEF Complete, Refusal
    <3> QED BY <2>2, <2>3, <3>1, ErrorIs DEF Received
  <2>4. CASE op \in {"usb_devices", "dfu"}
    <3>1. Received(a) = Parsed(a)
      BY <2>0, <2>4, Fits
    <3>2. Parse_usb_devices(a) = R("UnsupportedByBox") /\ Parse_dfu(a) = R("UnsupportedByBox")
      BY <2>0, CommandIs DEF Parse_usb_devices, Parse_dfu
    <3> QED BY <2>2, <2>4, <3>1, <3>2, ParsedIs, ErrorIs
  <2> QED BY <1>3, <2>3, <2>4
<1>4. Behind => op \in {"usb_devices", "dfu", "admin"}
  BY DEF Dated, Behind
<1>5. \/ a = NoPath \/ a = NoPathPage \/ a = NoMethodPage
      \/ Behind /\ (a = NotThere \/ a = NotTherePage)
  BY AbsentIs
<1>6. CASE a \in {NoPathPage, NoMethodPage, NotTherePage}
  BY <1>1, <1>6 DEF NoPathPage, NoMethodPage, NotTherePage
<1>7. CASE a = NoPath
  BY <1>2, <1>7 DEF NoPath
<1>8. CASE a = NotThere /\ op \in {"usb_devices", "dfu", "admin"}
  BY <1>3, <1>8 DEF NotThere
<1> QED BY <1>4, <1>5, <1>6, <1>7, <1>8

(* An action the box does not know, a feature its service lacks.           *)
LEMMA UnknownIsTold ==
  ASSUME op = "since"
  PROVE  Received(Json(400, "unknown", "no")).kind = "UnsupportedByBox"
<1> DEFINE a == Json(400, "unknown", "no")
           e == BoxError(a, a.says)
<1>1. a.status = 400 /\ a.says = "unknown" /\ a.body = "json" /\ a.flag = "no"
  BY DEF Json
<1> HIDE DEF a
<1>2. Received(a) = Parsed(a)
  BY <1>1, Fits
<1>3. Parse_command(a) = e /\ e.kind = "Box" /\ e.status = 400 /\ e.says = "unknown"
  BY <1>1, CommandIs DEF BoxError
<1> HIDE DEF e
<1>4. Parsed(a) = R("UnsupportedByBox")
  BY <1>3, ParsedIs, MappedIs
<1> QED BY <1>2, <1>4, ErrorIs DEF a

LEMMA LackIsTold ==
  ASSUME op = "ranged", ask = "health"
  PROVE  Received(Json(200, "none", "no")).kind = "UnsupportedByBox"
<1> DEFINE a == Json(200, "none", "no")
<1>1. a.status = 200 /\ a.body = "json" /\ a.flag = "no"
  BY DEF Json
<1> HIDE DEF a
<1>2. Received(a) = Parsed(a)
  BY <1>1, Fits
<1>3. Parse_debug(a) = R("ok")
  BY <1>1, DebugIs
<1>4. Require_feature(a) = R("UnsupportedByBox")
  BY <1>1, <1>3, ErrorIs DEF Require_feature
<1> QED BY <1>2, <1>4, ParsedIs, ErrorIs DEF a

(* What a box says without blaming: statuses, marks and wordings.          *)
LEMMA AnswersAre ==
  /\ \A a \in Absent : a.status \in {404, 405, 501} /\ a.says \in {"none", "notfound", "other"}
  /\ \A a \in Does : a.status = 200 /\ a.says = "none"
  /\ Page(500).status = 500 /\ Page(500).says = "none"
<1>1. ASSUME NEW a \in Absent
      PROVE  a.status \in {404, 405, 501} /\ a.says \in {"none", "notfound", "other"}
  <2>1. CASE a = NoPath
    BY <2>1 DEF NoPath, Json
  <2>2. CASE a = NotThere
    BY <2>2 DEF NotThere, Json
  <2>3. CASE a = NoPathPage \/ a = NoMethodPage \/ a = NotTherePage
    BY <2>3 DEF NoPathPage, NoMethodPage, NotTherePage, Page, NoAnswer
  <2> QED BY <2>1, <2>2, <2>3, AbsentIs
<1>2. ASSUME NEW a \in Does
      PROVE  a.status = 200 /\ a.says = "none"
  <2>1. CASE a = Page(200)
    BY <2>1 DEF Page, NoAnswer
  <2>2. CASE a = Json(200, "none", Verdict("yes"))
    BY <2>2 DEF Json
  <2>3. CASE a = [Json(200, "none", Verdict("yes")) EXCEPT !.body = "shape"]
    BY <2>3 DEF Json
  <2> QED BY <2>1, <2>2, <2>3 DEF Does
<1>3. Page(500).status = 500 /\ Page(500).says = "none"
  BY DEF Page, NoAnswer
<1> QED BY <1>1, <1>2, <1>3

(* What the client makes of an answer that a box gives.                    *)
Sound(r, listed) ==
  /\ r.kind = "ok" => IF ask = "health" THEN box.knows ELSE did \/ Silent
  /\ box.serves /\ box.knows => r.kind # "UnsupportedByBox"
  /\ TooOld => r \in NotTold \/ r.kind = "UnsupportedByBox"
  /\ op = "nets" => r.kind # "UnsupportedByBox" /\ (~listed => r.kind # "ok")

LEMMA ReceivedIsSound ==
  ASSUME Course, Answered, ask # "none", answer # NoAnswer
  PROVE  Sound(Received(answer), answer.status = 200 /\ answer.body # "page")
<1> DEFINE r == Received(answer)
<1>0. op \in Op /\ (ask = "old" => op = "nets") /\ (ask = "health" => op = "ranged")
  BY DEF Course
<1>n. "nets" \notin Dated /\ "nets" # "since" /\ "nets" # "ranged"
  BY DEF Dated
<1>t. /\ op = "nets" => ~TooOld
      /\ op \in {"since", "ranged"} => (TooOld <=> box.serves /\ ~box.knows)
      /\ op \notin {"since", "ranged"} => (TooOld <=> op \in Dated /\ ~box.serves)
  BY DEF TooOld, Dated
<1>k. r.kind = "ok" => /\ answer.status = 200 /\ (op = "nets" => answer.body # "page")
                       /\ op \in {"command", "since", "usb_devices", "dfu"} => answer.flag = "yes"
                       /\ op = "flash" => answer.flag # "no"
                       /\ op = "ranged" /\ ask = "health" => answer.flag = "yes"
  BY <1>0, OkMeans
<1>u. answer.says # "page" /\ r.kind = "UnsupportedByBox" =>
        /\ op \notin {"nets", "debug", "flash"}
        /\ \/ answer.status \in {404, 405} /\ (answer.says = "notfound" \/ answer.body = "page")
           \/ answer.status = 501
           \/ answer.status = 404 /\ op = "usb_devices"
           \/ answer.status = 400 /\ answer.says = "unknown"
           \/ op = "ranged" /\ ask = "health" /\ answer.flag # "yes" /\ answer.status = 200 /\ answer.body = "json"
  BY <1>0, BlameMeans
<1>l. op = "nets" /\ ~(answer.status = 200 /\ answer.body # "page") => r.kind # "ok"
  BY <1>k
<1> SUFFICES /\ answer.says # "page"
             /\ r.kind = "ok" => IF ask = "health" THEN box.knows ELSE did \/ Silent
             /\ box.serves /\ box.knows => r.kind # "UnsupportedByBox"
             /\ TooOld => r \in NotTold \/ r.kind = "UnsupportedByBox"
  <2> HIDE DEF r
  <2>1. answer.says # "page" /\ op = "nets" => r.kind # "UnsupportedByBox"
    BY <1>u
  <2> QED BY <1>l, <2>1 DEF Sound, r
<1>1. CASE (ask = "old" \/ ~box.serves) /\ answer \in Absent
  <2>1. answer.status \in {404, 405, 501} /\ answer.says \in {"none", "notfound", "other"}
    BY <1>1, AnswersAre
  <2>2. op \in Dated => r \in NotTold \/ r.kind = "UnsupportedByBox"
    BY <1>1, AbsenceIsTold
  <2> HIDE DEF r
  <2>3. TooOld => op \in Dated
    BY <1>0, <1>1, <1>t
  <2>4. box.serves => op = "nets"
    BY <1>0, <1>1
  <2> QED BY <1>k, <1>u, <2>1, <2>2, <2>3, <2>4
<1>2. CASE ask = "health" /\ box.serves /\ answer \in {Listed, Page(500)}
  <2>1. CASE answer = Listed
    <3>1. answer.status = 200 /\ answer.says = "none" /\ (answer.flag = "yes" => box.knows)
      BY <2>1 DEF Json, Listed
    <3>2. ~box.knows => r.kind = "UnsupportedByBox"
      <4> SUFFICES ASSUME ~box.knows PROVE r.kind = "UnsupportedByBox"
        OBVIOUS
      <4>1. box.knows = FALSE
        BY DEF Course
      <4>2. answer = Json(200, "none", "no")
        BY <2>1, <4>1 DEF Listed
      <4> QED BY <1>0, <1>2, <4>2, LackIsTold
    <3> HIDE DEF r
    <3>3. op = "ranged" /\ ask = "health" /\ box.serves
      BY <1>0, <1>2
    <3>4. r.kind = "ok" => answer.flag = "yes"
      BY <1>k, <3>3
    <3>5. box.knows => r.kind # "UnsupportedByBox"
      <4> SUFFICES ASSUME box.knows, r.kind = "UnsupportedByBox" PROVE FALSE
        OBVIOUS
      <4>1. answer.flag = "yes"
        BY <2>1 DEF Listed, Json
      <4> QED BY <1>u, <3>1, <3>3, <4>1
    <3> QED BY <1>t, <3>1, <3>2, <3>3, <3>4, <3>5
  <2>2. CASE answer = Page(500)
    <3>1. answer.status = 500 /\ answer.says = "none"
      BY <2>2, AnswersAre
    <3>2. r = [kind |-> "Box", status |-> 500, says |-> "page"]
      BY <1>0, <1>2, <2>2, PageIsReceived
    <3>3. r \in NotTold /\ r.kind = "Box"
      BY <3>2 DEF NotTold
    <3> HIDE DEF r
    <3> QED BY <3>1, <3>3
  <2> QED BY <1>2, <2>1, <2>2
<1>3. CASE op \in {"command", "since"} /\ ~box.knows /\ answer = Json(400, "unknown", "no")
  <2>0. answer = Json(400, "unknown", "no")
    BY <1>3
  <2>1. answer.status = 400 /\ answer.says = "unknown"
    BY <2>0 DEF Json
  <2>2. op = "since" => r.kind = "UnsupportedByBox"
    BY <1>3, UnknownIsTold
  <2>3. op = "command" => ~TooOld
    BY <1>t DEF Dated
  <2> HIDE DEF r
  <2>4. r.kind # "ok" /\ answer.says # "page"
    BY <1>k, <2>1
  <2>5. TooOld => r.kind = "UnsupportedByBox"
    BY <1>3, <2>2, <2>3
  <2> QED BY <1>3, <2>4, <2>5
<1>4. CASE Reached /\ Refuses(answer)
  <2>1. ask # "health" /\ ((box.serves /\ box.knows) \/ op \in {"nets", "flash"})
    BY <1>0, <1>4 DEF Reached, Able
  <2>2. ~TooOld
    BY <1>t, <2>1 DEF Dated
  <2>3. /\ answer.says \in {"none", "busy", "other"} /\ answer.flag # "yes"
        /\ answer.status \in {200, 400, 403, 404, 409, 500, 503}
        /\ answer.status = 200 => op \in {"command", "since", "dfu", "usb_devices", "flash"}
        /\ answer.status = 200 /\ op = "flash" /\ ~Silent => answer.flag = "no"
        /\ answer.status = 404 => answer.body # "page" /\ op # "usb_devices"
    BY <1>4 DEF Refuses, Verdict
  <2> HIDE DEF r
  <2>4. r.kind = "ok" => Silent
    <3> SUFFICES ASSUME r.kind = "ok" PROVE Silent
      OBVIOUS
    <3>1. answer.status = 200 /\ op \in {"command", "since", "dfu", "usb_devices", "flash"}
      BY <1>k, <2>3
    <3>2. op = "flash"
      BY <1>k, <2>3, <3>1
    <3>3. answer.flag # "no"
      BY <1>k, <3>2
    <3> QED BY <2>3, <3>1, <3>2, <3>3
  <2>5. r.kind # "UnsupportedByBox"
    BY <1>u, <2>1, <2>3
  <2> QED BY <2>1, <2>2, <2>3, <2>4, <2>5
<1>5. CASE Reached /\ did /\ answer \in Does
  <2>1. ask # "health" /\ ((box.serves /\ box.knows) \/ op \in {"nets", "flash"})
    BY <1>0, <1>5 DEF Reached, Able
  <2>2. ~TooOld
    BY <1>t, <2>1 DEF Dated
  <2>3. answer.status = 200 /\ answer.says = "none"
    BY <1>5, AnswersAre
  <2> HIDE DEF r
  <2>5. r.kind # "UnsupportedByBox"
    BY <1>u, <2>1, <2>3
  <2> QED BY <1>5, <2>1, <2>2, <2>3, <2>5
<1> QED BY <1>1, <1>2, <1>3, <1>4, <1>5 DEF Answered

(* A request that ends so keeps the invariant.                             *)
LEMMA ConcludeInv ==
  ASSUME AnswersInv, ask # "none", NEW r, NEW listed, Sound(r, listed),
         Conclude(r, listed), UNCHANGED <<op, box, did, misled>>
  PROVE  AnswersInv'
<1>0. Course /\ OkIsDone /\ NewBoxIsNotBlamed /\ OldBoxIsTold /\ NeverMisled
  BY DEF AnswersInv
<1>1. answer' = NoAnswer /\ op' = op /\ box' = box /\ did' = did /\ misled' = misled
  BY DEF Conclude
<1>2. \/ op = "nets" /\ ask = "first" /\ ~listed /\ ask' = "old" /\ first' = r /\ res' = res
      \/ ask = "health" /\ r.kind = "ok" /\ ask' = "first" /\ first' = first /\ res' = res
      \/ /\ ~(ask = "health" /\ r.kind = "ok")
         /\ ask' = "none" /\ first' = first
         /\ res' = IF ask = "old" /\ ~listed THEN first ELSE r
  BY DEF Conclude
<1>3. res = Running /\ Running.kind = "running"
  BY <1>0 DEF Course, Running, R
<1>4. first.kind \notin {"ok", "UnsupportedByBox"} /\ (ask = "old" => op = "nets")
  BY <1>0 DEF Course
<1>5. /\ r.kind = "ok" => IF ask = "health" THEN box.knows ELSE did \/ Silent
      /\ box.serves /\ box.knows => r.kind # "UnsupportedByBox"
      /\ TooOld => r \in NotTold \/ r.kind = "UnsupportedByBox"
      /\ op = "nets" => r.kind # "UnsupportedByBox" /\ (~listed => r.kind # "ok")
  BY DEF Sound
<1>6. TooOld' = TooOld /\ NotTold' = NotTold /\ (op = "nets" => ~TooOld)
  BY <1>1 DEF TooOld, NotTold, Dated, R
<1>7. Course'
  <2>1. first'.kind \notin {"ok", "UnsupportedByBox"}
    BY <1>2, <1>4, <1>5
  <2>2. op \in Op \cup {"none"} /\ (op = "none" => ask = "none") /\ (ask = "health" => op = "ranged")
        /\ box.knows \in BOOLEAN /\ (~box.serves => ~box.knows) /\ (op = "ranged" /\ ask = "first" => box.knows)
    BY <1>0 DEF Course
  <2> QED BY <1>1, <1>2, <1>3, <1>5, <2>1, <2>2 DEF Course, Running, R
<1>8. Answered'
  BY <1>1 DEF Answered, NoAnswer
<1>9. OkIsDone'
  BY <1>1, <1>2, <1>3, <1>4, <1>5 DEF OkIsDone, Silent
<1>10. NewBoxIsNotBlamed'
  BY <1>1, <1>2, <1>3, <1>4, <1>5 DEF NewBoxIsNotBlamed
<1>11. OldBoxIsTold'
  <2>1. TooOld /\ res' # Running => res' \in NotTold \/ res'.kind = "UnsupportedByBox"
    BY <1>2, <1>3, <1>4, <1>5, <1>6
  <2> QED BY <1>6, <2>1 DEF OldBoxIsTold, Running, R
<1>12. NeverMisled'
  BY <1>0, <1>1 DEF NeverMisled
<1> QED BY <1>7, <1>8, <1>9, <1>10, <1>11, <1>12 DEF AnswersInv

(* An answer of the box keeps it.                                          *)
LEMMA ReplyInv ==
  ASSUME AnswersInv, Pending, NEW a, Reply(a), did' \in {did, TRUE}, ~misled', Answered'
  PROVE  AnswersInv'
<1>1. Course /\ ask # "none" /\ res = Running
  BY DEF AnswersInv, Pending, Course
<1>2. op' = op /\ box' = box /\ ask' = ask /\ first' = first /\ res' = res
  BY DEF Reply
<1>3. Course'
  BY <1>1, <1>2 DEF Course, Running, R
<1>4. Running.kind = "running"
  BY DEF Running, R
<1>5. OkIsDone' /\ NewBoxIsNotBlamed' /\ OldBoxIsTold' /\ NeverMisled'
  BY <1>1, <1>2, <1>4 DEF OkIsDone, NewBoxIsNotBlamed, OldBoxIsTold, NeverMisled, Running, R
<1> QED BY <1>3, <1>5 DEF AnswersInv

LEMMA AnswersInvInit == AnswersInit => AnswersInv
<1> SUFFICES ASSUME AnswersInit PROVE AnswersInv
  OBVIOUS
<1>1. /\ op = "none" /\ misled = FALSE /\ ask = "none" /\ answer = NoAnswer
      /\ box.knows \in BOOLEAN /\ (~box.serves => ~box.knows) /\ first = Running /\ res = Running
  BY DEF AnswersInit
<1>2. Running.kind = "running"
  BY DEF Running, R
<1>3. Course
  BY <1>1, <1>2 DEF Course
<1> QED
  BY <1>1, <1>2, <1>3
  DEF AnswersInv, Answered, OkIsDone, NewBoxIsNotBlamed, OldBoxIsTold, NeverMisled

LEMMA AnswersInvNext ==
  ASSUME AnswersInv, [AnswersNext]_answerVars
  PROVE  AnswersInv'
<1>0. Course /\ Answered /\ ~misled
  BY DEF AnswersInv, NeverMisled
<1>1. CASE Invoke
  <2>1. op = "none" /\ ask = "none" /\ answer = NoAnswer /\ res = Running /\ Running.kind = "running"
    BY <1>0, <1>1 DEF Invoke, Course, Running, R
  <2>2. /\ op' \in Op /\ ask' = (IF op' = "ranged" THEN "health" ELSE "first")
        /\ box' = box /\ misled' = misled /\ answer' = answer /\ first' = first /\ res' = res
    BY <1>1, AnswerAssumption DEF Invoke
  <2>3. Course'
    BY <1>0, <2>1, <2>2 DEF Course, Op, Running, R, NoAnswer
  <2>4. Answered'
    BY <2>1, <2>2 DEF Answered, NoAnswer
  <2>5. OkIsDone' /\ NewBoxIsNotBlamed' /\ OldBoxIsTold' /\ NeverMisled'
    BY <1>0, <2>1, <2>2 DEF OkIsDone, NewBoxIsNotBlamed, OldBoxIsTold, NeverMisled, Running, R
  <2> QED BY <2>3, <2>4, <2>5 DEF AnswersInv
<1>2. CASE Receive
  <2>1. Sound(Received(answer), answer.status = 200 /\ answer.body # "page")
    BY <1>0, <1>2, ReceivedIsSound DEF Receive
  <2>2. Conclude(Received(answer), answer.status = 200 /\ answer.body # "page")
        /\ ask # "none" /\ UNCHANGED <<op, box, did, misled>>
    BY <1>2 DEF Receive
  <2> QED BY <2>1, <2>2, ConcludeInv
<1>3. CASE Fail
  <2>1. PICK k \in {"Timeout", "Connection"} : Conclude(R(k), FALSE)
    BY <1>3 DEF Fail
  <2>2. R(k) \in NotTold /\ R(k).kind \in {"Timeout", "Connection"}
    BY ErrorIs DEF NotTold
  <2>3. Sound(R(k), FALSE)
    BY <2>2 DEF Sound
  <2>4. ask # "none" /\ UNCHANGED <<op, box, did, misled>>
    BY <1>3 DEF Fail
  <2> QED BY <2>1, <2>3, <2>4, ConcludeInv
<1>4. CASE NotServed
  <2>1. PICK a \in Absent : Reply(a)
    <3>1. \/ Reply(Json(404, "notfound", "no")) \/ Reply(Page(404)) \/ Reply(Page(405))
          \/ op \in {"command", "since", "usb_devices", "dfu", "admin"} /\ Reply(Json(501, "other", "no"))
          \/ op \in {"command", "since", "usb_devices", "dfu", "admin"} /\ Reply(Page(501))
      BY <1>4 DEF NotServed
    <3>2. \/ Reply(NoPath) \/ Reply(NoPathPage) \/ Reply(NoMethodPage)
          \/ Behind /\ (Reply(NotThere) \/ Reply(NotTherePage))
      BY <3>1 DEF Behind, NoPath, NoPathPage, NoMethodPage, NotThere, NotTherePage
    <3> QED BY <3>2, AbsentHas
  <2>2. Pending /\ (ask = "old" \/ ~box.serves) /\ did' = did /\ misled' = misled
    BY <1>4 DEF NotServed
  <2>3. answer' = a /\ op' = op /\ box' = box /\ ask' = ask
    BY <2>1 DEF Reply
  <2>4. Answered'
    <3>1. Absent' = Absent
      BY <2>3 DEF Absent, Behind, NoPath, NoPathPage, NoMethodPage, NotThere, NotTherePage, Json, Page, NoAnswer
    <3> QED BY <2>1, <2>2, <2>3, <3>1 DEF Answered
  <2> QED BY <1>0, <2>1, <2>2, <2>4, ReplyInv
<1>5. CASE Health
  <2>1. PICK a \in {Listed, Page(500)} : Reply(a)
    BY <1>5 DEF Health, Listed
  <2>2. Pending /\ ask = "health" /\ box.serves /\ did' = did /\ misled' = misled
    BY <1>5 DEF Health
  <2>3. answer' = a /\ op' = op /\ box' = box /\ ask' = ask
    BY <2>1 DEF Reply
  <2>4. Answered'
    BY <2>1, <2>2, <2>3 DEF Answered, Listed, Json, Page, NoAnswer
  <2> QED BY <1>0, <2>1, <2>2, <2>4, ReplyInv
<1>6. CASE UnknownAction
  <2>1. /\ Pending /\ op \in {"command", "since"} /\ ~box.knows /\ did' = did /\ misled' = misled
        /\ Reply(Json(400, "unknown", "no"))
    BY <1>6 DEF UnknownAction, Served
  <2>2. answer' = Json(400, "unknown", "no") /\ op' = op /\ box' = box /\ ask' = ask
    BY <2>1 DEF Reply
  <2>3. Answered'
    BY <2>1, <2>2 DEF Answered, Json, NoAnswer
  <2> QED BY <1>0, <2>1, <2>3, ReplyInv
<1>7. CASE Refuse
  <2>1. Pending /\ Reached /\ did' = did /\ misled' = misled
    BY <1>7 DEF Refuse, Served, Reached
  <2> DEFINE
        Refused == \E a : Reply(a) /\ Refuses(a)
        Failed == \E t \in {400, 403, 404, 409, 500} :
                    (t = 404 => op # "usb_devices") /\ Reply(Json(t, "other", "no"))
        Unmarked == op \in {"command", "since", "dfu", "usb_devices", "flash"}
                    /\ Reply(Json(200, "other", Verdict("no")))
        Exited == op = "dfu" /\ \E t \in {200, 500} :
                    Reply([Json(t, "other", "no") EXCEPT !.exit = TRUE])
  <2>r. Refused
    <3>2. CASE Failed
      <4>1. PICK t \in {400, 403, 404, 409, 500} :
                 (t = 404 => op # "usb_devices") /\ Reply(Json(t, "other", "no"))
        BY <3>2
      <4>2. Refuses(Json(t, "other", "no"))
        BY <4>1 DEF Refuses, Json
      <4> QED BY <4>1, <4>2
    <3>3. CASE Reply(Page(500))
      <4>1. Refuses(Page(500))
        BY DEF Refuses, Page, NoAnswer
      <4> QED BY <3>3, <4>1
    <3>4. CASE Reply(Json(503, "busy", "no"))
      <4>1. Refuses(Json(503, "busy", "no"))
        BY DEF Refuses, Json
      <4> QED BY <3>4, <4>1
    <3>5. CASE Unmarked
      <4>1. Refuses(Json(200, "other", Verdict("no")))
        BY <3>5 DEF Refuses, Json, Verdict
      <4> QED BY <3>5, <4>1
    <3>6. CASE Exited
      <4>1. PICK t \in {200, 500} : Reply([Json(t, "other", "no") EXCEPT !.exit = TRUE])
        BY <3>6
      <4> DEFINE a == [Json(t, "other", "no") EXCEPT !.exit = TRUE]
      <4>a. /\ a.says = "other" /\ a.status = t /\ a.body = "json" /\ a.flag = "no"
            /\ t \in {200, 400, 403, 404, 409, 500, 503} /\ t # 404
        BY DEF Json
      <4> HIDE DEF a
      <4>b. Refuses(a)
        BY <3>6, <4>a DEF Refuses
      <4>2. Refuses([Json(t, "other", "no") EXCEPT !.exit = TRUE])
        BY <4>b DEF a
      <4> QED BY <4>1, <4>2
    <3> HIDE DEF Refused
    <3>7. Failed \/ Reply(Page(500)) \/ Reply(Json(503, "busy", "no")) \/ Unmarked \/ Exited
      BY <1>7, ZenonT(60) DEF Refuse
    <3> HIDE DEF Failed, Unmarked, Exited
    <3> QED BY <3>2, <3>3, <3>4, <3>5, <3>6, <3>7
  <2>2. PICK a : Reply(a) /\ Refuses(a)
    BY <2>r
  <2> HIDE DEF Refused, Failed, Unmarked, Exited
  <2>3. answer' = a /\ op' = op /\ box' = box /\ ask' = ask
    BY <2>2 DEF Reply
  <2>4. Reached' /\ Refuses(answer)'
    BY <2>1, <2>2, <2>3 DEF Reached, Able, Refuses, Verdict, Silent
  <2>5. Answered'
    BY <2>4 DEF Answered
  <2> QED BY <1>0, <2>1, <2>2, <2>5, ReplyInv
<1>8. CASE Done
  <2>1. Pending /\ ask # "health" /\ (ask = "old" \/ box.serves)
    BY <1>8 DEF Done, Served
  <2>2. Able
    BY <1>0, <1>8, <2>1 DEF Done, Able, Course, Pending
  <2>3. did' = TRUE /\ misled' = FALSE
    BY <1>8, <2>2 DEF Done
  <2>4. PICK a \in Does : Reply(a)
    BY <1>8 DEF Done, Does
  <2>5. answer' = a /\ op' = op /\ box' = box /\ ask' = ask
    BY <2>4 DEF Reply
  <2>6. Reached' /\ (answer \in Does)'
    <3>1. Verdict("yes")' = Verdict("yes") /\ Able'
      BY <2>2, <2>5 DEF Able, Verdict, Silent
    <3>2. Does' = Does
      BY <3>1 DEF Does, Json, Page, NoAnswer
    <3> QED BY <2>1, <2>4, <2>5, <3>1, <3>2 DEF Reached
  <2>7. Answered'
    BY <2>3, <2>6 DEF Answered
  <2> QED BY <2>1, <2>3, <2>4, <2>7, ReplyInv
<1>9. CASE UNCHANGED answerVars
  <2>1. /\ op' = op /\ box' = box /\ did' = did /\ misled' = misled /\ ask' = ask
        /\ answer' = answer /\ first' = first /\ res' = res
    BY <1>9 DEF answerVars
  <2>2. Course'
    BY <1>0, <2>1 DEF Course, Running, R
  <2>3. /\ Silent' = Silent /\ Verdict("no")' = Verdict("no") /\ Verdict("yes")' = Verdict("yes")
        /\ Reached' = Reached /\ Listed' = Listed
    BY <2>1 DEF Silent, Verdict, Reached, Able, Listed, Json
  <2>4. Absent' = Absent /\ Does' = Does
    <3>1. Behind' = Behind
      BY <2>1 DEF Behind
    <3>2. Absent' = Absent
      BY <3>1 DEF Absent, NoPath, NoPathPage, NoMethodPage, NotThere, NotTherePage, Json, Page, NoAnswer
    <3>3. Does' = Does
      BY <2>3 DEF Does, Json, Page, NoAnswer
    <3> QED BY <3>2, <3>3
  <2>5. Refuses(answer)' = Refuses(answer)
    BY <2>1, <2>3 DEF Refuses
  <2>6. Answered'
    BY <1>0, <2>1, <2>3, <2>4, <2>5 DEF Answered, Json, Page, NoAnswer
  <2>7. OkIsDone' /\ NewBoxIsNotBlamed' /\ NeverMisled'
    BY <2>1, <2>3 DEF AnswersInv, OkIsDone, NewBoxIsNotBlamed, NeverMisled
  <2>8. OldBoxIsTold'
    BY <2>1 DEF AnswersInv, OldBoxIsTold, TooOld, NotTold, Dated, Running, R
  <2> QED BY <2>2, <2>6, <2>7, <2>8 DEF AnswersInv
<1> QED BY <1>1, <1>2, <1>3, <1>4, <1>5, <1>6, <1>7, <1>8, <1>9 DEF AnswersNext

THEOREM AnswersInvariance == AnswersSpec => []AnswersInv
<1> QED BY AnswersInvInit, AnswersInvNext, PTL DEF AnswersSpec

(* No operation succeeds that the box did not do.                          *)
THEOREM SuccessIsTheDeed == AnswersSpec => []OkIsDone
<1>1. AnswersInv => OkIsDone
  BY DEF AnswersInv
<1> QED BY <1>1, AnswersInvariance, PTL

(* A box that has the operation is never reported as too old for it.       *)
THEOREM NoNewBoxIsBlamed == AnswersSpec => []NewBoxIsNotBlamed
<1>1. AnswersInv => NewBoxIsNotBlamed
  BY DEF AnswersInv
<1> QED BY <1>1, AnswersInvariance, PTL

(* The dated operations say of a box that lacks them that it is too old.   *)
THEOREM EveryOldBoxIsTold == AnswersSpec => []OldBoxIsTold
<1>1. AnswersInv => OldBoxIsTold
  BY DEF AnswersInv
<1> QED BY <1>1, AnswersInvariance, PTL

(* No request goes to a service that would take it for another.            *)
THEOREM NoServiceIsMisled == AnswersSpec => []NeverMisled
<1>1. AnswersInv => NeverMisled
  BY DEF AnswersInv
<1> QED BY <1>1, AnswersInvariance, PTL
=============================================================================
