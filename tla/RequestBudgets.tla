--------------------------- MODULE RequestBudgets ---------------------------
(***************************************************************************)
(* How long a call of a net handle waits (Timeout in src/src/wire.rs, the  *)
(* budgets in src/src/nets/), against how long the box may take.           *)
(*                                                                         *)
(* Time is in seconds.  The box serves the requests for one instrument one *)
(* at a time and does not notice that a client has given up: the request   *)
(* runs all the same.                                                      *)
(***************************************************************************)
EXTENDS Integers, Sequences, Functions

CONSTANTS
  Threads,  \* callers, tests that run in parallel; each makes one call
  Asked,    \* the calls they make: <<kind, duration>>
  Overhead, \* the box takes at most this over its own wait
  Wedges,   \* whether an instrument may hang for good
  Grain,    \* time passes by this, or up to the next thing due
  None

AtLeast(x, y) == IF y < x THEN x ELSE y
AtMost(x, y) == IF y < x THEN y ELSE x

-----------------------------------------------------------------------------
(* Of each kind of call, the client's budget (None: it waits for ever) and *)
(* the box's own wait, as the code of the handle gives it.                 *)

Wait(budget, own) == [budget |-> budget, own |-> own]

Quick == Wait(10, 0)
WaitForLevel(d) == Wait(d + 20, d)
WaitForever(d) == Wait(None, d)
(* Mutants: a measurement is waited for without end; the margin of a scan *)
(* subtracted; the client's clamp not the box's; a look at the arm quick.  *)
Watt_Unbounded(d) == Wait(None, d)
Dfu_ClampedTo120(d) ==
  Wait(AtMost(AtLeast(1, d), 120) + 60, AtMost(AtLeast(1, d), 600))
Arm_Quick == Quick

Watt(d) == Wait(AtLeast(30, d + 20), d)
Energy(d) == Wait(AtLeast(30, d + 30), AtMost(d, 120))
Move(d) == Wait(d + 30, d)
Arm == Wait(45, 0)
Ble(d) == Wait(d + 30, d)
(* d is the connect time and what is waited for besides.                   *)
Blufi(d) == Wait(d + 40, d)
UsbCycle(d) == Wait(d + 30, d)
Dfu(d) == LET run == AtMost(AtLeast(1, d), 600) IN Wait(run + 60, run)
DfuDefault == Wait(180, 120)
DfuList == Wait(30, 0)
Hsm == Wait(30, 0)
Blink(d) == Wait(d + 30, d)
HsmReset == Wait(75, 60)
Router == Wait(60, 0)
RouterWait(d) == Wait(d + 30, d)
SolarMode == Wait(120, 90)
SolarRead == Wait(90, 60)
Dmm == Wait(75, 60)
Scope == Wait(45, 30)
WebcamStart == Wait(30, 0)
Snapshot == Wait(20, 8)
Wifi == Wait(90, 0)
(* d is the driver's own timeout.                                          *)
Custom(d) == Wait(120, d)
NetsState == Wait(15, 8)
(* Admin: pip runs for 300 s at most; the box lists emulators and then     *)
(* connects over SWD; a download is waited for without end.                *)
Admin == Wait(30, 0)
Pip == Wait(360, 300)
Upload == Wait(120, 0)
Download == Wait(None, 0)
Scan == Wait(60, 0)
DiagnoseJlink == Wait(60, 31)
(* The debug service.                                                      *)
Flash == Wait(180, 0)
Erase == Wait(120, 0)
(* Opening an RTT log; a service that sends no head is waited for.         *)
RttOpen == Wait(None, 0)

Of(call) ==
  LET d == call[2] IN
  CASE call[1] = "quick"          -> Quick
    [] call[1] = "wait_for_level" -> WaitForLevel(d)
    [] call[1] = "wait_forever"   -> WaitForever(d)
    [] call[1] = "watt"           -> Watt(d)
    [] call[1] = "energy"         -> Energy(d)
    [] call[1] = "move"           -> Move(d)
    [] call[1] = "arm"            -> Arm
    [] call[1] = "ble"            -> Ble(d)
    [] call[1] = "blufi"          -> Blufi(d)
    [] call[1] = "usb_cycle"      -> UsbCycle(d)
    [] call[1] = "dfu"            -> Dfu(d)
    [] call[1] = "dfu_default"    -> DfuDefault
    [] call[1] = "dfu_list"       -> DfuList
    [] call[1] = "hsm"            -> Hsm
    [] call[1] = "blink"          -> Blink(d)
    [] call[1] = "hsm_reset"      -> HsmReset
    [] call[1] = "router"         -> Router
    [] call[1] = "router_wait"    -> RouterWait(d)
    [] call[1] = "solar_mode"     -> SolarMode
    [] call[1] = "solar_read"     -> SolarRead
    [] call[1] = "dmm"            -> Dmm
    [] call[1] = "scope"          -> Scope
    [] call[1] = "webcam_start"   -> WebcamStart
    [] call[1] = "snapshot"       -> Snapshot
    [] call[1] = "wifi"           -> Wifi
    [] call[1] = "custom"         -> Custom(d)
    [] call[1] = "nets_state"     -> NetsState
    [] call[1] = "admin"          -> Admin
    [] call[1] = "pip"            -> Pip
    [] call[1] = "upload"         -> Upload
    [] call[1] = "download"       -> Download
    [] call[1] = "scan"           -> Scan
    [] call[1] = "diagnose_jlink" -> DiagnoseJlink
    [] call[1] = "flash"          -> Flash
    [] call[1] = "erase"          -> Erase
    [] call[1] = "rtt_open"       -> RttOpen

Timed == {"wait_for_level", "wait_forever", "watt", "energy", "move", "ble", "blufi",
          "usb_cycle", "dfu", "blink", "router_wait", "custom"}
Untimed == {"quick", "arm", "dfu_default", "dfu_list", "hsm", "hsm_reset", "router",
            "solar_mode", "solar_read", "dmm", "scope", "webcam_start", "snapshot",
            "wifi", "nets_state", "admin", "pip", "upload", "download", "scan",
            "diagnose_jlink", "flash", "erase", "rtt_open"}

(* What the calls of a kind share: one Bluetooth adapter, one robot arm;   *)
(* everything else is taken to be of one instrument.                       *)
Instruments == {"adapter", "arm", "instrument"}
Instrument(call) ==
  CASE call[1] \in {"ble", "blufi"} -> "adapter"
    [] call[1] \in {"arm", "move"}  -> "arm"
    [] OTHER                        -> "instrument"

Kinds == Timed \cup Untimed
Job == [by : Threads, call : Asked]

ASSUME BudgetsAssumption ==
  /\ Asked \subseteq Kinds \X Nat
  /\ Overhead \in Nat /\ Wedges \in BOOLEAN /\ Grain \in Nat \ {0}
  /\ None \notin Nat \cup (Kinds \X Nat) /\ None \notin Job

-----------------------------------------------------------------------------
VARIABLES
  calls,  \* the threads
  queue,  \* requests the box has not begun
  busy,   \* what each instrument does
  aborted \* for the properties: the calls given up on

vars == <<calls, queue, busy, aborted>>

(* A thread's call: left is what remains of its budget; ahead are the      *)
(* calls its instrument served first.                                      *)
Start == [waits |-> FALSE, call |-> None, left |-> 0, ahead |-> <<>>]
Idle == [job |-> None, left |-> 0]

Thread == [waits : BOOLEAN, call : Asked \cup {None}, left : Nat \cup {None}, ahead : Seq(Asked)]
Serving == [job : Job, left : Nat \cup {None}]
Aborted == [call : Asked, ahead : Seq(Asked), hung : BOOLEAN]

TypeOK ==
  /\ calls \in [Threads -> Thread] /\ queue \subseteq Job
  /\ busy \in [Instruments -> Serving \cup {Idle}] /\ aborted \subseteq Aborted

-----------------------------------------------------------------------------
JobOf(t) == [by |-> t, call |-> calls[t].call]

(* Execute, with the timeout of the request.                               *)
Call(t, call) ==
  /\ calls[t].call = None
  /\ LET i == Instrument(call) IN
       calls' = [calls EXCEPT ![t] =
         [waits |-> TRUE, call |-> call, left |-> Of(call).budget,
          ahead |-> IF busy[i] = Idle THEN <<>> ELSE <<busy[i].job.call>>]]
  /\ queue' = queue \cup {[by |-> t, call |-> call]}
  /\ UNCHANGED <<busy, aborted>>

(* The box begins a request, at once when the instrument is free, and is   *)
(* done at once or as late as it may be.                                   *)
Begin(j) ==
  LET i == Instrument(j.call) IN
  /\ j \in queue /\ busy[i] = Idle
  /\ queue' = queue \ {j}
  /\ \E left \in {0, Of(j.call).own + Overhead} \cup (IF Wedges THEN {None} ELSE {}) :
       busy' = [busy EXCEPT ![i] = [job |-> j, left |-> left]]
  /\ calls' = [t \in Threads |->
       IF calls[t].waits /\ JobOf(t) \in queue' /\ Instrument(calls[t].call) = i
       THEN [calls[t] EXCEPT !.ahead = Append(@, j.call)] ELSE calls[t]]
  /\ UNCHANGED aborted

Answer(i) ==
  /\ busy[i] # Idle /\ busy[i].left = 0
  /\ busy' = [busy EXCEPT ![i] = Idle]
  /\ LET j == busy[i].job IN
       calls' = IF calls[j.by].waits /\ JobOf(j.by) = j
                THEN [calls EXCEPT ![j.by].waits = FALSE] ELSE calls
  /\ UNCHANGED <<queue, aborted>>

GiveUp(t) ==
  /\ calls[t].waits /\ calls[t].left = 0
  /\ calls' = [calls EXCEPT ![t].waits = FALSE]
  /\ aborted' = aborted \cup {[call |-> calls[t].call, ahead |-> calls[t].ahead,
                               hung |-> busy[Instrument(calls[t].call)].left = None]}
  /\ UNCHANGED <<queue, busy>>

Due == {calls[t].left : t \in {u \in Threads : calls[u].waits}}
       \cup {busy[i].left : i \in {k \in Instruments : busy[k] # Idle}}
Timers == Due \ {None}

Less(left, s) == IF left = None THEN None ELSE left - s

Tick(s) ==
  /\ \E t \in Threads : calls[t].waits
  /\ \A left \in Timers : left >= s
  /\ \A j \in queue : busy[Instrument(j.call)] # Idle
  /\ calls' = [t \in Threads |->
       IF calls[t].waits THEN [calls[t] EXCEPT !.left = Less(@, s)] ELSE calls[t]]
  /\ busy' = [i \in Instruments |->
       IF busy[i] # Idle THEN [busy[i] EXCEPT !.left = Less(@, s)] ELSE Idle]
  /\ UNCHANGED <<queue, aborted>>

(* Time passes: by the grain, or up to what is due first.                  *)
Pass == \E s \in ({Grain} \cup Timers) \ {0} : Tick(s)

-----------------------------------------------------------------------------
Init ==
  /\ calls = [t \in Threads |-> Start]
  /\ queue = {}
  /\ busy = [i \in Instruments |-> Idle]
  /\ aborted = {}

Next ==
  \/ \E t \in Threads : GiveUp(t) \/ \E call \in Asked : Call(t, call)
  \/ \E j \in queue : Begin(j)
  \/ \E i \in Instruments : Answer(i)
  \/ Pass

Spec == Init /\ [][Next]_vars

(* A free instrument takes up a request, an answer arrives, a timer fires  *)
(* and time goes on.                                                       *)
Fairness ==
  /\ WF_vars(\E j \in queue : Begin(j))
  /\ \A i \in Instruments : WF_vars(Answer(i))
  /\ \A t \in Threads : WF_vars(GiveUp(t))
  /\ WF_vars(Pass)

FairSpec == Spec /\ Fairness

-----------------------------------------------------------------------------
(* A call that has its instrument to itself is not given up on, however    *)
(* long it was asked to take, unless the instrument hangs.                 *)
AloneIsServed == \A a \in aborted : a.ahead = <<>> => a.hung

(* The waits that are not asked for: the arm's and a scan's as the         *)
(* documentation gives them, a BluFi connection (20), and what the adapter *)
(* is held for longest, a WiFi scan (50) and a provisioning (80).          *)
Lengthy == {<<"blufi", 50>>, <<"blufi", 80>>}
Default == {<<"move", 15>>, <<"arm", 0>>, <<"ble", 10>>, <<"blufi", 20>>} \cup Lengthy

(* Any of these calls is still served behind one other: the margins of the *)
(* arm and the adapter cover the queue.  Not so behind a WiFi scan or a    *)
(* provisioning, which take longer than any margin there is.               *)
OneAheadIsServed ==
  \A a \in aborted :
    a.call \in Default /\ Len(a.ahead) <= 1 /\ Range(a.ahead) \subseteq Default \ Lengthy => a.hung

(* Whatever the box does, even nothing ever again, a call returns; only    *)
(* the three that have no timeout may not: a wait and a download asked for *)
(* without one, and the opening of an RTT log, which never has one.        *)
EveryCallReturns ==
  \A t \in Threads :
    (calls[t].waits /\ calls[t].call[1] \notin {"wait_forever", "download", "rtt_open"})
      ~> ~calls[t].waits
=============================================================================
