----------------------------- MODULE NetRecords -----------------------------
(***************************************************************************)
(* The saved nets of a box and the calls that change them: nets and        *)
(* set_safety_limits of LagerBox (src/src/client.rs, src/src/wire.rs) and  *)
(* save_net, rename_net, delete_net, delete_all_nets and set_net_metadata  *)
(* of Admin (src/src/admin.rs).                                            *)
(*                                                                         *)
(* A call that replaces more than it changes needs the list of nets first: *)
(* what it sends is that list with one thing changed.  Programs make one   *)
(* change at a time and take a lock_guard for it, as the docs of admin.rs  *)
(* ask them to; the guard's promise (BoxLock, GuardHolds) is taken here as *)
(* one lock.  A record is its ceilings, its metadata and its parameters.   *)
(***************************************************************************)
EXTENDS Naturals, FiniteSets

CONSTANTS
  Programs, \* the programs that use the box
  Names,    \* net names
  Uarts,    \* the names of uart nets, all that the older list shows
  Ceilings, \* the fields of SafetyLimits
  Values,   \* values of the metadata and of the parameters
  Blank,    \* the value of both in a new record
  Kinds,    \* the changes they make
  Events,   \* what happens besides: see below
  MaxEdits, \* bound: changes of all programs
  MaxLate,  \* bound: late requests at a time
  None

(* lost: a request or its answer is lost; late: a request the client gave  *)
(* up on is served afterwards.                                             *)
Event == {"lost", "late"}

(* cap and lift change one ceiling by set_safety_limits; clear is          *)
(* clear_safety_limits; notes is set_net_metadata; save and new are        *)
(* save_net of a listed and of a new record; rename, delete and wipe are   *)
(* rename_net, delete_net and delete_all_nets.                             *)
Replacing == {"cap", "lift", "save", "rename"}
Kind == Replacing \cup {"clear", "notes", "new", "delete", "wipe"}

ASSUME RecordsAssumption ==
  /\ Uarts \subseteq Names /\ Blank \in Values /\ Kinds \subseteq Kind
  /\ Events \subseteq Event /\ MaxEdits \in Nat /\ MaxLate \in Nat
  /\ None \notin Programs

NetRecord == [limits : SUBSET Ceilings, notes : Values, params : Values]
Missing == [limits |-> {}, notes |-> None, params |-> None]
Store == [Names -> NetRecord \cup {Missing}]

Edit == [kind : Kind, net : Names, to : Names, ceiling : Ceilings, value : Values]
Request == [edit : Edit, body : NetRecord \cup {Missing}]

VARIABLES
  saved, \* the box's saved nets
  want,  \* for the properties: the nets as the changes, one by one, were meant to leave them
  lock,  \* the program with the guard, or None
  prog,  \* the programs
  edits, \* changes begun
  late,  \* requests given up on that the box may still serve
  overtaken \* for the properties: whether a late request has been served

vars == <<saved, want, lock, prog, edits, late, overtaken>>

(* pc: idle, begun, listed (list holds the nets), sent (req is under way), *)
(* over.                                                                   *)
NoRequest == [edit |-> None, body |-> Missing]
Start == [pc |-> "idle", list |-> [n \in Names |-> Missing], req |-> NoRequest]

TypeOK ==
  /\ saved \in Store /\ want \in Store
  /\ lock \in Programs \cup {None}
  /\ prog \in [Programs -> [pc : {"idle", "begun", "listed", "sent", "over"}, list : Store,
                            req : Request \cup {NoRequest}]]
  /\ edits \in 0..MaxEdits
  /\ late \subseteq Request
  /\ overtaken \in BOOLEAN

-----------------------------------------------------------------------------
(* What a change means, and what its request does to the saved nets.       *)

Changed(rec, e) ==
  CASE e.kind = "cap"   -> [rec EXCEPT !.limits = @ \cup {e.ceiling}]
    [] e.kind = "lift"  -> [rec EXCEPT !.limits = @ \ {e.ceiling}]
    [] e.kind = "clear" -> [rec EXCEPT !.limits = {}]
    [] e.kind = "notes" -> [rec EXCEPT !.notes = e.value]
    [] e.kind = "save"  -> [rec EXCEPT !.params = e.value]
    [] OTHER            -> rec

NewRecord(e) == [limits |-> {}, notes |-> Blank, params |-> e.value]

(* Mutants: the ceilings are sent as if the box merged them; a record is   *)
(* saved without them.                                                     *)
Body_Merge(list, e) ==
  CASE e.kind = "new"          -> NewRecord(e)
    [] e.kind = "cap"          -> [list[e.net] EXCEPT !.limits = {e.ceiling}]
    [] e.kind \in Replacing    -> Changed(list[e.net], e)
    [] OTHER                   -> Missing
Body_NoLimits(list, e) ==
  CASE e.kind = "new"          -> NewRecord(e)
    [] e.kind = "save"         -> [Changed(list[e.net], e) EXCEPT !.limits = {}]
    [] e.kind \in Replacing    -> Changed(list[e.net], e)
    [] OTHER                   -> Missing

(* What is sent besides the edit: of a replacing call, the listed record   *)
(* with the change.                                                        *)
Body(list, e) ==
  CASE e.kind = "new"          -> NewRecord(e)
    [] e.kind \in Replacing    -> Changed(list[e.net], e)
    [] OTHER                   -> Missing

Refused(e) == e.kind \in {"cap", "lift", "clear", "notes", "delete"} /\ saved[e.net] = Missing

Served(r) ==
  LET e == r.edit IN
  CASE e.kind \in {"cap", "lift", "clear"} -> [saved EXCEPT ![e.net].limits = r.body.limits]
    [] e.kind = "notes"                    -> [saved EXCEPT ![e.net].notes = e.value]
    [] e.kind \in {"save", "new"}          -> [saved EXCEPT ![e.net] = r.body]
    [] e.kind = "rename"                   -> [saved EXCEPT ![e.net] = Missing, ![e.to] = r.body]
    [] e.kind = "delete"                   -> [saved EXCEPT ![e.net] = Missing]
    [] OTHER                               -> [n \in Names |-> Missing]

(* The record a change is made to; gone since it was listed, it is saved   *)
(* as it was.                                                              *)
Meant(r) ==
  LET e == r.edit
      now == IF want[e.net] = Missing THEN r.body ELSE Changed(want[e.net], e) IN
  CASE e.kind = "new"    -> [want EXCEPT ![e.net] = r.body]
    [] e.kind = "rename" -> [want EXCEPT ![e.net] = Missing, ![e.to] = now]
    [] e.kind = "delete" -> [want EXCEPT ![e.net] = Missing]
    [] e.kind = "wipe"   -> [n \in Names |-> Missing]
    [] OTHER             -> [want EXCEPT ![e.net] = now]

Effect(r) ==
  IF Refused(r.edit) THEN UNCHANGED <<saved, want>>
  ELSE saved' = Served(r) /\ want' = Meant(r)

-----------------------------------------------------------------------------
(* A program.                                                              *)

Go(p, pc) == prog' = [prog EXCEPT ![p].pc = pc]

Begin(p) ==
  /\ prog[p].pc = "idle" /\ edits < MaxEdits /\ edits' = edits + 1
  /\ lock = None
  /\ lock' = p
  /\ Go(p, "begun")
  /\ UNCHANGED <<saved, want, late, overtaken>>

(* nets: the list, or after a failure the older one, or no list.           *)
List(p) ==
  /\ prog[p].pc = "begun" /\ Kinds \cap Replacing # {}
  /\ prog' = [prog EXCEPT ![p].pc = "listed", ![p].list = saved]
  /\ UNCHANGED <<saved, want, lock, late, edits, overtaken>>

OldList(p) ==
  /\ prog[p].pc = "begun" /\ Kinds \cap Replacing # {} /\ "lost" \in Events
  /\ prog' = [prog EXCEPT ![p].pc = "listed",
                          ![p].list = [n \in Names |-> IF n \in Uarts THEN saved[n] ELSE Missing]]
  /\ UNCHANGED <<saved, want, lock, late, edits, overtaken>>

(* The edits a program can make of what it has: one that replaces needs    *)
(* the net on the list.  What a kind does not use has one value.           *)
Can(p, e) ==
  /\ e.kind \in Kinds
  /\ e.kind \in Replacing => prog[p].pc = "listed" /\ prog[p].list[e.net] # Missing
  /\ e.kind # "rename" => e.to = e.net
  /\ e.kind \notin {"cap", "lift"} => e.ceiling = CHOOSE c \in Ceilings : TRUE
  /\ e.kind \notin {"notes", "save", "new"} => e.value = Blank

Send(p, e) ==
  /\ prog[p].pc \in {"begun", "listed"} /\ Can(p, e)
  /\ prog' = [prog EXCEPT ![p].pc = "sent",
                          ![p].req = [edit |-> e, body |-> Body(prog[p].list, e)]]
  /\ UNCHANGED <<saved, want, lock, late, edits, overtaken>>

(* Served and answered, or the answer lost: the call is over either way.   *)
Serve(p) ==
  /\ prog[p].pc = "sent"
  /\ Effect(prog[p].req)
  /\ Go(p, "over")
  /\ UNCHANGED <<lock, late, edits, overtaken>>

(* A program that reads an error from nets, or loses its request, stops    *)
(* there.                                                                  *)
Fail(p) ==
  /\ "lost" \in Events /\ prog[p].pc \in {"begun", "sent"}
  /\ Go(p, "over")
  /\ UNCHANGED <<saved, want, lock, late, edits, overtaken>>

TimeOut(p) ==
  /\ "late" \in Events /\ prog[p].pc = "sent" /\ Cardinality(late) < MaxLate
  /\ late' = late \cup {prog[p].req}
  /\ Go(p, "over")
  /\ UNCHANGED <<saved, want, lock, edits, overtaken>>

ServeLate(r) ==
  /\ r \in late /\ late' = late \ {r}
  /\ Effect(r) /\ overtaken' = TRUE
  /\ UNCHANGED <<lock, prog, edits>>

(* The guard drops; what was listed and sent is forgotten.                 *)
End(p) ==
  /\ prog[p].pc \in {"listed", "over"}
  /\ lock' = None
  /\ prog' = [prog EXCEPT ![p] = Start]
  /\ UNCHANGED <<saved, want, late, edits, overtaken>>

-----------------------------------------------------------------------------
Init ==
  /\ saved \in [Names -> {[limits |-> {}, notes |-> Blank, params |-> Blank],
                          [limits |-> Ceilings, notes |-> Blank, params |-> Blank], Missing}]
  /\ want = saved
  /\ lock = None
  /\ prog = [p \in Programs |-> Start]
  /\ late = {} /\ edits = 0
  /\ overtaken = FALSE

Next ==
  \/ \E p \in Programs :
       \/ Begin(p) \/ List(p) \/ OldList(p) \/ Serve(p) \/ Fail(p) \/ TimeOut(p) \/ End(p)
       \/ \E e \in Edit : Send(p, e)
  \/ \E r \in late : ServeLate(r)

Spec == Init /\ [][Next]_vars

-----------------------------------------------------------------------------
(* Under the lock no change is lost and nothing comes back: the saved nets *)
(* are what each change, made to the nets as they then were, leaves; until *)
(* the box serves a request whose client, and with it the lock, has gone.  *)
NothingLost == ~overtaken => saved = want

(* Until then no step takes a ceiling off a net but a call made to do      *)
(* that: one that lifts or clears it, or that removes the net, saves it    *)
(* anew, or renames one from or to its name.                               *)
Lifting(e, n, c) ==
  \/ e.kind = "wipe"
  \/ e.net = n /\ e.kind \in {"clear", "delete", "new", "rename"}
  \/ e.net = n /\ e.kind = "lift" /\ e.ceiling = c
  \/ e.to = n /\ e.kind = "rename"
CeilingStands ==
  [][~overtaken' => \A n \in Names : \A c \in saved[n].limits \ saved'[n].limits :
       \E p \in Programs : /\ prog[p].pc = "sent" /\ prog'[p].pc = "over"
                           /\ Lifting(prog[p].req.edit, n, c)]_vars
=============================================================================
