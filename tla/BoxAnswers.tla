----------------------------- MODULE BoxAnswers -----------------------------
(***************************************************************************)
(* What a call makes of the box's answer: send_once and get_json           *)
(* (src/src/client.rs, and alike in src/src/async_client.rs), the parsers  *)
(* and the compatibility rules of src/src/wire.rs, and run, which the      *)
(* generated handles of src/src/nets/mod.rs call; and run_admin, with the  *)
(* parsers of src/src/admin.rs.                                            *)
(*                                                                         *)
(* A box serves the route of an operation or does not, and knows its       *)
(* action or does not; one that is older than the operation lacks one of   *)
(* them.  Payloads are whether they have the shape the operation expects;  *)
(* a message is what the rules tell apart of it.                           *)
(***************************************************************************)
EXTENDS Naturals

CONSTANT Ops     \* the operations called: of Op

(* command: methods of the handles; since: one with a compat clause;   *)
(* usb_devices, dfu, lock, limits, state, sessions: LagerBox's methods;    *)
(* nets: LagerBox::nets; debug, flash: requests to the debug service, and  *)
(* ranged one that an older service takes for another: erase_range, and    *)
(* connect with a transport (halt, which it refuses, goes the same way);   *)
(* admin, file: methods of Admin, and its download_file.                   *)
Op == {"command", "since", "usb_devices", "dfu", "lock", "limits", "state",
       "sessions", "nets", "debug", "flash", "ranged", "admin", "file"}

ASSUME AnswerAssumption == Ops \subseteq Op

VARIABLES
  op,     \* the operation under way
  box,    \* whether the box serves its route and knows its action
  did,    \* whether the box has done what the operation asks
  misled, \* whether it has done something else for it
  ask,    \* which request is under way: "health" (before a ranged one),
          \* "first", "old" (nets' second), "none"
  answer, \* the answer to it, or NoAnswer
  first,  \* the error of nets' first request
  res     \* the result, or Running

answerVars == <<op, box, did, misled, ask, answer, first, res>>

-----------------------------------------------------------------------------
(* Answers.  body: json, page (not JSON), shape (JSON, of another shape).  *)
(* says: the error or message in it: none, notfound ("Not found"), unknown *)
(* (one of the three wordings for an unknown action), busy, other.  flag:  *)
(* what marks success: the envelope's success, a flash's programmed, the   *)
(* feature among those of /health; a flash may be answered without.        *)
(* exit: dfu-util ran and failed.                                          *)
Answers == [status : {200, 400, 403, 404, 405, 409, 500, 501, 503},
           body : {"json", "page", "shape"}, says : {"none", "notfound", "unknown", "busy", "other"},
           flag : {"yes", "no", "none"}, exit : BOOLEAN]
NoAnswer == [status |-> 0, body |-> "page", says |-> "none", flag |-> "none", exit |-> FALSE]
Json(status, says, flag) ==
  [status |-> status, body |-> "json", says |-> says, flag |-> flag, exit |-> FALSE]
Page(status) == [NoAnswer EXCEPT !.status = status]

(* Results: kind ok, or the error; status and says of an Error::Box.       *)
Result == [kind : {"running", "ok", "Timeout", "Connection", "Decode", "Box", "UnsupportedByBox",
                   "DfuFailed", "FlashFailed", "ProbeBusy", "SafetyRefused"},
           status : {0, 400, 403, 404, 405, 409, 500, 501, 503, 200},
           says : {"none", "notfound", "unknown", "busy", "other", "page"}]
R(kind) == [kind |-> kind, status |-> 0, says |-> "none"]
Running == R("running")
BoxError(a, says) == [kind |-> "Box", status |-> a.status, says |-> says]

-----------------------------------------------------------------------------
(* Mutant: success is what the status says.                                *)
Parse_command_Status(a) ==
  CASE a.body = "shape"                  -> R("Decode")
    [] a.body = "json" /\ a.status = 200 -> R("ok")
    [] a.body = "json" /\ a.status = 501 -> R("UnsupportedByBox")
    [] OTHER                             -> BoxError(a, a.says)

(* The parsers.                                                            *)
Parse_command(a) ==
  CASE a.body = "shape"                                    -> R("Decode")
    [] a.body = "json" /\ a.status = 200 /\ a.flag = "yes" -> R("ok")
    [] a.body = "json" /\ a.status = 501                   -> R("UnsupportedByBox")
    [] OTHER                                               -> BoxError(a, a.says)

Parse_usb_devices(a) == IF a.status = 404 THEN R("UnsupportedByBox") ELSE Parse_command(a)

Parse_dfu(a) ==
  IF a.body = "json" /\ a.exit /\ ~(a.status = 200 /\ a.flag = "yes") THEN R("DfuFailed")
  ELSE Parse_command(a)

(* parse_lock, parse_safety_limits, parse_nets_state, parse_uart_sessions, *)
(* get_json: the status alone, then the shape.                             *)
Parse_plain(a) ==
  IF a.status # 200 THEN BoxError(a, a.says)
  ELSE IF a.body = "json" THEN R("ok") ELSE R("Decode")

Parse_debug(a) ==
  CASE a.status = 200                      -> IF a.body = "json" THEN R("ok") ELSE R("Decode")
    [] a.status = 503 /\ a.says = "busy"   -> R("ProbeBusy")
    [] a.status = 403                      -> R("SafetyRefused")
    [] OTHER                               -> BoxError(a, a.says)

(* Only a verdict that says no fails; one that is not there does not.      *)
Parse_flash(a) ==
  CASE a.status # 200 -> Parse_debug(a)
    [] a.status = 200 -> IF a.flag = "no" THEN R("FlashFailed") ELSE R("ok")

(* Mutant: the service only has to answer.                                 *)
Require_feature_Healthy(a) == Parse_debug(a)
(* require_debug_feature, of the service's /health: an older one may list  *)
(* no features at all.                                                     *)
Require_feature(a) ==
  LET r == Parse_debug(a) IN IF r.kind = "ok" /\ a.flag # "yes" THEN R("UnsupportedByBox") ELSE r

(* Mutants: only the 404 of the JSON handler; every 404.                   *)
Is_route_missing_NoPage(e) == e.kind = "Box" /\ e.status = 404 /\ e.says = "notfound"
Is_route_missing_Any(e) == e.kind = "Box" /\ e.status \in {404, 405}

(* The compatibility rules.                                                *)
Is_route_missing(e) ==
  e.kind = "Box" /\ e.status \in {404, 405} /\ e.says \in {"notfound", "page"}

Map_route_missing(e) == IF Is_route_missing(e) THEN R("UnsupportedByBox") ELSE e
Action_compat(e) ==
  IF e.kind = "Box" /\ e.status = 400 /\ e.says = "unknown" THEN R("UnsupportedByBox") ELSE e

Parsed(a) ==
  CASE op = "command"     -> Parse_command(a)
    [] op = "since"       -> Action_compat(Parse_command(a))
    [] op = "usb_devices" -> Map_route_missing(Parse_usb_devices(a))
    [] op = "dfu"         -> Map_route_missing(Parse_dfu(a))
    [] op \in {"lock", "limits", "state", "sessions"} -> Map_route_missing(Parse_plain(a))
    [] op = "nets"        -> Parse_plain(a)
    [] op = "debug"       -> Parse_debug(a)
    [] op = "flash"       -> Parse_flash(a)
    [] op = "ranged"      -> IF ask = "health" THEN Require_feature(a) ELSE Parse_debug(a)

(* send_once reads the body before any parser does: one that is not JSON   *)
(* is an error there; the compatibility rules still see that error.        *)
Send_once(a) ==
  IF a.body # "page" THEN Parsed(a)
  ELSE LET e == IF a.status < 400 THEN R("Decode") ELSE BoxError(a, "page") IN
       CASE op = "since" -> Action_compat(e)
         [] op \in {"usb_devices", "dfu", "lock", "limits", "state", "sessions"} ->
              Map_route_missing(e)
         [] OTHER -> e

(* Parse::complete, of the raw answer to an admin call: a download is its  *)
(* bytes; anything else is JSON.                                           *)
Refusal(a) == IF a.status = 501 THEN R("UnsupportedByBox") ELSE BoxError(a, a.says)

Complete(a) ==
  IF a.status = 200 /\ op = "file" THEN R("ok")
  ELSE IF a.body = "page" THEN IF a.status < 400 THEN R("Decode") ELSE BoxError(a, "page")
  ELSE IF a.status # 200 THEN Refusal(a)
  ELSE IF a.body = "json" THEN R("ok") ELSE R("Decode")

Received(a) ==
  IF op \in {"admin", "file"} THEN Map_route_missing(Complete(a)) ELSE Send_once(a)

-----------------------------------------------------------------------------
(* The call.                                                               *)
Invoke ==
  /\ op = "none"
  /\ op' \in Ops /\ ask' = IF op' = "ranged" THEN "health" ELSE "first"
  /\ UNCHANGED <<box, did, misled, answer, first, res>>

(* The first request of nets or nets_raw fails: its error is kept and the  *)
(* old route asked.  If that fails too the error is the first one's; a     *)
(* list that came, of whatever shape, is the result either way.  A service *)
(* that has the feature is asked for the operation.                        *)
Conclude(r, listed) ==
  /\ answer' = NoAnswer
  /\ CASE op = "nets" /\ ask = "first" /\ ~listed ->
              ask' = "old" /\ first' = r /\ UNCHANGED res
       [] ask = "health" /\ r.kind = "ok" ->
              ask' = "first" /\ UNCHANGED <<first, res>>
       [] OTHER ->
              /\ ask' = "none" /\ UNCHANGED first
              /\ res' = IF ask = "old" /\ ~listed THEN first ELSE r

Receive ==
  /\ ask # "none" /\ answer # NoAnswer
  /\ Conclude(Received(answer), answer.status = 200 /\ answer.body # "page")
  /\ UNCHANGED <<op, box, did, misled>>

(* The request times out or the connection fails, before or after the box  *)
(* has served it.                                                          *)
Fail ==
  /\ ask # "none"
  /\ \E k \in {"Timeout", "Connection"} : Conclude(R(k), FALSE)
  /\ UNCHANGED <<op, box, did, misled>>

-----------------------------------------------------------------------------
(* The box (external).                                                     *)
Pending == ask # "none" /\ answer = NoAnswer
Reply(a) == answer' = a /\ UNCHANGED <<op, box, ask, first, res>>

(* It does not serve the route: its handlers for unknown paths and         *)
(* methods, or the handler of an image that has the route but not what is  *)
(* behind it.  The old route of nets may be gone from a newer box.         *)
NotServed ==
  /\ Pending /\ (ask = "old" \/ ~box.serves)
  /\ \/ Reply(Json(404, "notfound", "no")) \/ Reply(Page(404)) \/ Reply(Page(405))
     \/ op \in {"command", "since", "usb_devices", "dfu", "admin"} /\ Reply(Json(501, "other", "no"))
     \/ op \in {"command", "since", "usb_devices", "dfu", "admin"} /\ Reply(Page(501))
  /\ UNCHANGED <<did, misled>>

Served == Pending /\ ask # "health" /\ (ask = "old" \/ box.serves)

(* A box that serves the old route has all that it takes, and any debug    *)
(* service can flash; what one from before 0.51.0 does not know is to say  *)
(* whether it programmed anything.                                         *)
Able == ask = "old" \/ op = "flash" \/ box.knows
Silent == op = "flash" /\ ~box.knows
Verdict(flag) == IF Silent THEN "none" ELSE flag

(* The features of the debug service.                                      *)
Health ==
  /\ Pending /\ ask = "health" /\ box.serves
  /\ Reply(Json(200, "none", IF box.knows THEN "yes" ELSE "no")) \/ Reply(Page(500))
  /\ UNCHANGED <<did, misled>>

UnknownAction ==
  /\ Served /\ op \in {"command", "since"} /\ ~box.knows
  /\ Reply(Json(400, "unknown", "no")) /\ UNCHANGED <<did, misled>>

(* It refuses, naming what is wrong (a net that does not exist is a 404),  *)
(* or the operation fails.                                                 *)
Refuse ==
  /\ Served /\ Able
  /\ \/ \E s \in {400, 403, 404, 409, 500} :
          (s = 404 => op # "usb_devices") /\ Reply(Json(s, "other", "no"))
     \/ Reply(Page(500))
     \/ Reply(Json(503, "busy", "no"))
     \/ op \in {"command", "since", "dfu", "usb_devices", "flash"} /\ Reply(Json(200, "other", Verdict("no")))
     \/ op = "dfu" /\ \E s \in {200, 500} : Reply([Json(s, "other", "no") EXCEPT !.exit = TRUE])
  /\ UNCHANGED <<did, misled>>

(* It does it, or what it takes a ranged request for if it has never heard *)
(* of what limits it: the whole chip goes, or the core is brought up over  *)
(* the other wires.                                                        *)
Done ==
  /\ Served /\ (Able \/ op = "ranged")
  /\ did' = Able /\ misled' = ~Able
  /\ \/ Reply(Json(200, "none", Verdict("yes")))
     \/ Reply([Json(200, "none", Verdict("yes")) EXCEPT !.body = "shape"])
     \/ Reply(Page(200))

-----------------------------------------------------------------------------
AnswersInit ==
  /\ op = "none" /\ did = FALSE /\ misled = FALSE /\ ask = "none" /\ answer = NoAnswer
  /\ box \in [serves : BOOLEAN, knows : BOOLEAN] /\ (~box.serves => ~box.knows)
  /\ first = Running /\ res = Running

AnswersNext ==
  \/ Invoke \/ Receive \/ Fail
  \/ NotServed \/ Health \/ UnknownAction \/ Refuse \/ Done
AnswersSpec == AnswersInit /\ [][AnswersNext]_answerVars

-----------------------------------------------------------------------------
(* PROPERTIES *)

(* "200 + success: true is the only success shape", "the box answers 200   *)
(* even when a J-Link flash programmed nothing": no operation succeeds     *)
(* that the box did not do, whatever it answered, save a flash by a        *)
(* service that gives no verdict, whose report says so (programmed: None). *)
OkIsDone == res.kind = "ok" => did \/ Silent

(* The operations of the README's table fail with UnsupportedByBox on a    *)
(* box that is too old, whether it says so with JSON or a page.  The one   *)
(* answer that is not told is a 501 with a page, which send_once makes an  *)
(* error of the box before any rule for 501 sees it; and a health check    *)
(* that failed tells nothing.                                              *)
Dated == {"usb_devices", "dfu", "lock", "limits", "state", "sessions", "admin", "file"}
TooOld == IF op \in {"since", "ranged"} THEN box.serves /\ ~box.knows ELSE op \in Dated /\ ~box.serves
NotTold == {R("Timeout"), R("Connection")} \cup
           [kind : {"Box"}, status : {500, 501}, says : {"page"}]
OldBoxIsTold == TooOld /\ res # Running /\ res \notin NotTold => res.kind = "UnsupportedByBox"

(* "A route's own refusals pass through untouched": a box that has the     *)
(* operation is never reported as too old for it.                          *)
NewBoxIsNotBlamed == box.serves /\ box.knows => res.kind # "UnsupportedByBox"

(* An older box "would ignore the range and erase the whole chip", "would  *)
(* start SWD" where JTAG was asked for: whatever its health check answers, *)
(* or does not, it never gets such a request.                              *)
NeverMisled == ~misled
=============================================================================
