-------------------------- MODULE NetRecordsProofs --------------------------
(***************************************************************************)
(* Theorems about NetRecords, for any number of programs, nets, ceilings   *)
(* and changes.                                                            *)
(*                                                                         *)
(* Why is a request that carries a whole record the change it was made     *)
(* for?  Because the record was listed under the lock, and as long as no   *)
(* late request is served nobody else writes the nets while it is held: a  *)
(* request under way still fits the nets it will be applied to.            *)
(***************************************************************************)
EXTENDS NetRecords, TLAPS

Locked == \A p \in Programs : prog[p].pc # "idle" => lock = p

(* The nets on the list of a program are as they are saved.                *)
Listed ==
  ~overtaken => \A p \in Programs : prog[p].pc = "listed" =>
    \A n \in Names : prog[p].list[n] \in {saved[n], Missing}

(* The body of a request is the saved record with the change, a new        *)
(* record, or nothing.                                                     *)
Fits(r) ==
  /\ r.edit.kind \in Replacing =>
       saved[r.edit.net] # Missing /\ r.body = Changed(saved[r.edit.net], r.edit)
  /\ r.edit.kind = "new" => r.body = NewRecord(r.edit)
  /\ r.edit.kind \notin Replacing \cup {"new"} => r.body = Missing

Asked ==
  \A p \in Programs : prog[p].pc = "sent" =>
    prog[p].req \in Request /\ (~overtaken => Fits(prog[p].req))

IInv == TypeOK /\ Locked /\ Listed /\ Asked /\ NothingLost

-----------------------------------------------------------------------------
(* What the operators on records return.                                   *)
LEMMA ChangedIsRecord ==
  ASSUME NEW rec \in NetRecord, NEW e \in Edit
  PROVE  Changed(rec, e) \in NetRecord
BY DEF Changed, NetRecord, Edit

LEMMA BodyFits ==
  ASSUME TypeOK, NEW p \in Programs, NEW e \in Edit, Can(p, e)
  PROVE  [edit |-> e, body |-> Body(prog[p].list, e)] \in Request
<1> DEFINE rec == prog[p].list[e.net]
<1>1. e.net \in Names /\ rec \in NetRecord \cup {Missing}
  BY DEF TypeOK, Edit, Store
<1>2. CASE e.kind \in Replacing
  <2>1. rec \in NetRecord
    BY <1>1, <1>2 DEF Can
  <2>2. Body(prog[p].list, e) = Changed(rec, e)
    BY <1>2 DEF Body, Replacing
  <2> QED BY <2>1, <2>2, ChangedIsRecord DEF Request
<1>3. CASE e.kind = "new"
  <2>1. NewRecord(e) \in NetRecord
    BY RecordsAssumption DEF NewRecord, NetRecord, Edit
  <2>2. Body(prog[p].list, e) = NewRecord(e)
    BY <1>3 DEF Body, Replacing
  <2> QED BY <2>1, <2>2 DEF Request
<1>4. CASE e.kind \notin Replacing \cup {"new"}
  <2>1. Body(prog[p].list, e) = Missing
    BY <1>4 DEF Body
  <2> QED BY <2>1 DEF Request
<1> QED BY <1>2, <1>3, <1>4

LEMMA ServedIsStore ==
  ASSUME TypeOK, NEW r \in Request, ~Refused(r.edit)
  PROVE  Served(r) \in Store
<1> DEFINE e == r.edit
<1>1. /\ saved \in Store /\ e \in Edit /\ r.body \in NetRecord \cup {Missing}
      /\ e.net \in Names /\ e.to \in Names /\ e.value \in Values
  BY DEF TypeOK, Request, Edit
<1>2. CASE e.kind \in {"cap", "lift", "clear"}
  <2>1. saved[e.net] \in NetRecord
    BY <1>1, <1>2 DEF Refused, Store
  <2>2. r.body.limits \in SUBSET Ceilings
    BY <1>1 DEF NetRecord, Missing
  <2>3. [saved[e.net] EXCEPT !.limits = r.body.limits] \in NetRecord
    BY <2>1, <2>2 DEF NetRecord
  <2>4. Served(r) = [saved EXCEPT ![e.net] = [saved[e.net] EXCEPT !.limits = r.body.limits]]
    BY <1>2 DEF Served
  <2> QED BY <1>1, <2>3, <2>4 DEF Store
<1>3. CASE e.kind = "notes"
  <2>1. saved[e.net] \in NetRecord
    BY <1>1, <1>3 DEF Refused, Store
  <2>2. [saved[e.net] EXCEPT !.notes = e.value] \in NetRecord
    BY <1>1, <2>1 DEF NetRecord
  <2>3. Served(r) = [saved EXCEPT ![e.net] = [saved[e.net] EXCEPT !.notes = e.value]]
    BY <1>3 DEF Served
  <2> QED BY <1>1, <2>2, <2>3 DEF Store
<1>4. CASE e.kind \in {"save", "new", "rename", "delete"}
  BY <1>1, <1>4 DEF Served, Store
<1>5. CASE e.kind \notin {"cap", "lift", "clear", "notes", "save", "new", "rename", "delete"}
  BY <1>1, <1>5 DEF Served, Store
<1> QED BY <1>2, <1>3, <1>4, <1>5

LEMMA MeantIsStore ==
  ASSUME TypeOK, NEW r \in Request
  PROVE  Meant(r) \in Store
<1> DEFINE e   == r.edit
           now == IF want[e.net] = Missing THEN r.body ELSE Changed(want[e.net], e)
<1>1. /\ want \in Store /\ e \in Edit /\ r.body \in NetRecord \cup {Missing}
      /\ e.net \in Names /\ e.to \in Names
  BY DEF TypeOK, Request, Edit
<1>2. now \in NetRecord \cup {Missing}
  BY <1>1, ChangedIsRecord DEF Store
<1>3. /\ e.kind = "new" => Meant(r) = [want EXCEPT ![e.net] = r.body]
      /\ e.kind = "rename" => Meant(r) = [want EXCEPT ![e.net] = Missing, ![e.to] = now]
      /\ e.kind = "delete" => Meant(r) = [want EXCEPT ![e.net] = Missing]
      /\ e.kind = "wipe" => Meant(r) = [n \in Names |-> Missing]
      /\ e.kind \notin {"new", "rename", "delete", "wipe"} =>
           Meant(r) = [want EXCEPT ![e.net] = now]
  BY DEF Meant
<1> HIDE DEF now
<1> QED BY <1>1, <1>2, <1>3 DEF Store

(* A request that fits does what the change means.                         *)
LEMMA ServedIsMeant ==
  ASSUME TypeOK, NEW r \in Request, Fits(r), ~Refused(r.edit), saved = want
  PROVE  Served(r) = Meant(r)
<1> DEFINE e   == r.edit
           rec == saved[e.net]
<1>1. /\ saved \in [Names -> NetRecord \cup {Missing}] /\ e \in Edit
      /\ e.net \in Names /\ rec \in NetRecord \cup {Missing}
  BY DEF TypeOK, Request, Edit, Store
<1>2. CASE e.kind \in {"cap", "lift"}
  <2>1. rec # Missing /\ r.body = Changed(rec, e)
    BY <1>2 DEF Fits, Replacing
  <2>2. Changed(rec, e) = [rec EXCEPT !.limits = Changed(rec, e).limits]
    BY <1>1, <1>2, <2>1 DEF Changed, NetRecord
  <2>3. Meant(r) = [saved EXCEPT ![e.net] = Changed(rec, e)]
    BY <1>2, <2>1 DEF Meant
  <2>4. Served(r) = [saved EXCEPT ![e.net] = [rec EXCEPT !.limits = Changed(rec, e).limits]]
    BY <1>2, <2>1 DEF Served
  <2> QED BY <2>2, <2>3, <2>4
<1>3. CASE e.kind = "clear"
  <2>1. rec # Missing /\ r.body = Missing /\ r.body.limits = {}
    BY <1>3 DEF Fits, Refused, Replacing, Missing
  <2>2. Meant(r) = [saved EXCEPT ![e.net] = [rec EXCEPT !.limits = {}]]
    BY <1>3, <2>1 DEF Meant, Changed
  <2>3. Served(r) = [saved EXCEPT ![e.net] = [rec EXCEPT !.limits = {}]]
    BY <1>3, <2>1 DEF Served
  <2> QED BY <2>2, <2>3
<1>4. CASE e.kind = "notes"
  <2>1. rec # Missing
    BY <1>4 DEF Refused
  <2>2. Meant(r) = [saved EXCEPT ![e.net] = [rec EXCEPT !.notes = e.value]]
    BY <1>4, <2>1 DEF Meant, Changed
  <2>3. Served(r) = [saved EXCEPT ![e.net] = [rec EXCEPT !.notes = e.value]]
    BY <1>4 DEF Served
  <2> QED BY <2>2, <2>3
<1>5. CASE e.kind = "save"
  <2>1. rec # Missing /\ r.body = Changed(rec, e)
    BY <1>5 DEF Fits, Replacing
  <2>2. Meant(r) = [saved EXCEPT ![e.net] = Changed(rec, e)]
    BY <1>5, <2>1 DEF Meant
  <2>3. Served(r) = [saved EXCEPT ![e.net] = Changed(rec, e)]
    BY <1>5, <2>1 DEF Served
  <2> QED BY <2>2, <2>3
<1>6. CASE e.kind = "rename"
  <2>1. rec # Missing /\ r.body = Changed(rec, e)
    BY <1>6 DEF Fits, Replacing
  <2> QED BY <1>6, <2>1 DEF Meant, Served
<1>7. CASE e.kind \in {"new", "delete", "wipe"}
  BY <1>7 DEF Meant, Served
<1>8. e.kind \in {"cap", "lift", "clear", "notes", "save", "rename", "new", "delete", "wipe"}
  BY <1>1 DEF Edit, Kind, Replacing
<1> QED BY <1>2, <1>3, <1>4, <1>5, <1>6, <1>7, <1>8

-----------------------------------------------------------------------------
(* What a step of one program does to what is said of the programs.        *)
LEMMA InitInv == Init => IInv
<1> SUFFICES ASSUME Init PROVE IInv
  OBVIOUS
<1> USE DEF Init
<1>1. saved \in Store
  BY RecordsAssumption DEF Store, NetRecord, Missing
<1>2. Start \in [pc : {"idle", "begun", "listed", "sent", "over"}, list : Store,
                req : Request \cup {NoRequest}]
  BY DEF Start, Store
<1>3. TypeOK
  <2>1. prog \in [Programs -> [pc : {"idle", "begun", "listed", "sent", "over"}, list : Store,
                              req : Request \cup {NoRequest}]]
    BY <1>2
  <2>2. edits \in 0..MaxEdits /\ late \subseteq Request /\ lock \in Programs \cup {None}
    BY RecordsAssumption
  <2> QED BY <1>1, <2>1, <2>2 DEF TypeOK
<1>4. \A p \in Programs : prog[p].pc = "idle"
  BY DEF Start
<1>5. Locked /\ Listed /\ Asked
  BY <1>4 DEF Locked, Listed, Asked
<1> QED BY <1>3, <1>5 DEF IInv, NothingLost

(* The box serves a request: the nets stay nets, and if the request fits   *)
(* and nothing was lost so far, nothing is.                                *)
LEMMA EffectIsMeant ==
  ASSUME TypeOK, NEW r \in Request, Effect(r)
  PROVE  /\ saved' \in Store /\ want' \in Store
         /\ Fits(r) /\ saved = want => saved' = want'
<1>1. CASE Refused(r.edit)
  BY <1>1 DEF Effect, TypeOK
<1>2. CASE ~Refused(r.edit)
  BY <1>2, ServedIsStore, MeantIsStore, ServedIsMeant DEF Effect
<1> QED BY <1>1, <1>2

(* What a program sends fits the nets.                                     *)
LEMMA SentFits ==
  ASSUME IInv, NEW p \in Programs, NEW e \in Edit, Send(p, e), ~overtaken
  PROVE  Fits([edit |-> e, body |-> Body(prog[p].list, e)])
<1>1. CASE e.kind \in Replacing
  <2>1. prog[p].list[e.net] = saved[e.net] /\ saved[e.net] # Missing
    BY <1>1 DEF IInv, Listed, Send, Can, Edit
  <2>2. Body(prog[p].list, e) = Changed(prog[p].list[e.net], e)
    BY <1>1 DEF Body, Replacing
  <2> QED BY <1>1, <2>1, <2>2 DEF Fits, Replacing
<1>2. CASE e.kind = "new"
  BY <1>2 DEF Fits, Body, Replacing
<1>3. CASE e.kind \notin Replacing \cup {"new"}
  BY <1>3 DEF Fits, Body
<1> QED BY <1>1, <1>2, <1>3

(* A program with the lock is the only one that is not idle; when one goes *)
(* on, what is said of the others stands if the nets do.                   *)
LEMMA OnlyOne ==
  ASSUME IInv, NEW p \in Programs, prog[p].pc # "idle" \/ lock = None
  PROVE  \A q \in Programs \ {p} : prog[q].pc = "idle"
BY RecordsAssumption DEF IInv, Locked

LEMMA GoesOn ==
  ASSUME IInv, NEW p \in Programs, lock' = p, \A q \in Programs \ {p} : prog[q].pc = "idle",
         \A q \in Programs \ {p} : prog'[q] = prog[q]
  PROVE  /\ Locked'
         /\ prog'[p].pc # "listed" => Listed'
         /\ prog'[p].pc # "sent" => Asked'
BY DEF Locked, Listed, Asked

(* The program goes from one place to the next with what it has.           *)
LEMMA GoIs ==
  ASSUME TypeOK, NEW p \in Programs, NEW pc \in {"idle", "begun", "listed", "sent", "over"}, Go(p, pc)
  PROVE  /\ prog'[p].pc = pc /\ prog'[p].list = prog[p].list /\ prog'[p].req = prog[p].req
         /\ \A q \in Programs \ {p} : prog'[q] = prog[q]
         /\ prog' \in [Programs -> [pc : {"idle", "begun", "listed", "sent", "over"}, list : Store,
                                   req : Request \cup {NoRequest}]]
BY DEF TypeOK, Go

(* A program reads a list on which the nets are as they are saved.         *)
LEMMA Lists ==
  ASSUME IInv, NEW p \in Programs, prog[p].pc = "begun",
         NEW list \in Store, \A n \in Names : list[n] \in {saved[n], Missing},
         prog' = [prog EXCEPT ![p].pc = "listed", ![p].list = list],
         UNCHANGED <<saved, want, lock, late, edits, overtaken>>
  PROVE  IInv'
<1>1. /\ prog'[p].pc = "listed" /\ prog'[p].list = list
      /\ \A q \in Programs \ {p} : prog'[q] = prog[q]
      /\ prog' \in [Programs -> [pc : {"idle", "begun", "listed", "sent", "over"}, list : Store,
                                req : Request \cup {NoRequest}]]
  <2> DEFINE P == [pc : {"idle", "begun", "listed", "sent", "over"}, list : Store,
                   req : Request \cup {NoRequest}]
             d == [prog[p] EXCEPT !.pc = "listed", !.list = list]
  <2>1. prog \in [Programs -> P] /\ prog[p] \in P
    BY DEF IInv, TypeOK
  <2>2. d \in P /\ d.pc = "listed" /\ d.list = list
    BY <2>1
  <2>3. prog' = [prog EXCEPT ![p] = d]
    OBVIOUS
  <2> HIDE DEF d, P
  <2>4. prog'[p] = d /\ prog' \in [Programs -> P] /\ \A q \in Programs \ {p} : prog'[q] = prog[q]
    BY <2>1, <2>2, <2>3
  <2> QED BY <2>2, <2>4 DEF P
<1>2. TypeOK'
  BY <1>1 DEF IInv, TypeOK
<1>3. lock' = p /\ \A q \in Programs \ {p} : prog[q].pc = "idle"
  BY OnlyOne DEF IInv, Locked
<1>4. Locked' /\ Asked'
  BY <1>1, <1>3, GoesOn
<1>5. Listed'
  BY <1>1, <1>3 DEF Listed
<1>6. NothingLost'
  BY DEF IInv, NothingLost
<1> QED BY <1>2, <1>4, <1>5, <1>6 DEF IInv

(* A program gives up, or has been answered: nothing is written.           *)
LEMMA GoesOver ==
  ASSUME IInv, NEW p \in Programs, prog[p].pc # "idle", Go(p, "over"), late' \subseteq Request,
         UNCHANGED <<saved, want, lock, edits, overtaken>>
  PROVE  IInv'
<1>1. /\ prog'[p].pc = "over" /\ \A q \in Programs \ {p} : prog'[q] = prog[q]
      /\ prog' \in [Programs -> [pc : {"idle", "begun", "listed", "sent", "over"}, list : Store,
                                req : Request \cup {NoRequest}]]
  BY GoIs DEF IInv
<1>2. TypeOK'
  BY <1>1 DEF IInv, TypeOK
<1>3. lock' = p /\ \A q \in Programs \ {p} : prog[q].pc = "idle"
  BY OnlyOne DEF IInv, Locked
<1>4. Locked' /\ Listed' /\ Asked'
  BY <1>1, <1>3, GoesOn
<1>5. NothingLost'
  BY DEF IInv, NothingLost
<1> QED BY <1>2, <1>4, <1>5 DEF IInv

LEMMA NextInv == IInv /\ [Next]_vars => IInv'
<1> SUFFICES ASSUME IInv, [Next]_vars PROVE IInv'
  OBVIOUS
<1> USE DEF IInv
<1>1. ASSUME NEW p \in Programs, Begin(p) PROVE IInv'
  <2>1. /\ Go(p, "begun") /\ lock = None /\ lock' = p /\ edits < MaxEdits /\ edits' = edits + 1
        /\ UNCHANGED <<saved, want, late, overtaken>>
    BY <1>1 DEF Begin
  <2>2. TypeOK'
    BY <2>1, GoIs, RecordsAssumption DEF TypeOK
  <2>3. prog'[p].pc = "begun" /\ \A q \in Programs \ {p} : prog'[q] = prog[q]
    BY <2>1, GoIs
  <2>4. Locked' /\ Listed' /\ Asked'
    BY <2>1, <2>3, OnlyOne, GoesOn
  <2>5. NothingLost'
    BY <2>1 DEF NothingLost
  <2> QED BY <2>2, <2>4, <2>5
<1>2. ASSUME NEW p \in Programs, List(p) PROVE IInv'
  <2>1. /\ prog' = [prog EXCEPT ![p].pc = "listed", ![p].list = saved] /\ prog[p].pc = "begun"
        /\ UNCHANGED <<saved, want, lock, late, edits, overtaken>>
    BY <1>2 DEF List
  <2>2. saved \in Store /\ \A n \in Names : saved[n] \in {saved[n], Missing}
    BY DEF TypeOK
  <2> QED BY <2>1, <2>2, Lists DEF IInv
<1>3. ASSUME NEW p \in Programs, OldList(p) PROVE IInv'
  <2> DEFINE old == [n \in Names |-> IF n \in Uarts THEN saved[n] ELSE Missing]
  <2>1. old \in Store /\ \A n \in Names : old[n] \in {saved[n], Missing}
    BY DEF TypeOK, Store
  <2>2. /\ prog' = [prog EXCEPT ![p].pc = "listed", ![p].list = old]
        /\ UNCHANGED <<saved, want, lock, late, edits, overtaken>>
        /\ prog[p].pc = "begun"
    BY <1>3 DEF OldList
  <2> HIDE DEF old
  <2> QED BY <2>1, <2>2, Lists DEF IInv
<1>4. ASSUME NEW p \in Programs, NEW e \in Edit, Send(p, e) PROVE IInv'
  <2>0. PICK r : r = [edit |-> e, body |-> Body(prog[p].list, e)]
    OBVIOUS
  <2>1. r \in Request /\ (~overtaken => Fits(r))
    BY <1>4, <2>0, BodyFits, SentFits DEF Send
  <2>2. prog' = [prog EXCEPT ![p].pc = "sent", ![p].req = r]
    BY <1>4, <2>0 DEF Send
  <2>3. UNCHANGED <<saved, want, lock, late, edits, overtaken>> /\ prog[p].pc \in {"begun", "listed"}
    BY <1>4 DEF Send
  <2>4. /\ prog'[p].pc = "sent" /\ prog'[p].req = r
        /\ \A q \in Programs \ {p} : prog'[q] = prog[q]
        /\ prog' \in [Programs -> [pc : {"idle", "begun", "listed", "sent", "over"}, list : Store,
                                  req : Request \cup {NoRequest}]]
    BY <2>1, <2>2 DEF TypeOK
  <2>5. TypeOK'
    BY <2>3, <2>4 DEF TypeOK
  <2>6. lock' = p /\ \A q \in Programs \ {p} : prog[q].pc = "idle"
    BY <2>3, OnlyOne DEF Locked
  <2>7. Locked' /\ Listed'
    BY <2>4, <2>6, GoesOn
  <2>8. NothingLost'
    BY <2>3 DEF NothingLost
  <2>9. Fits(r)' <=> Fits(r)
    BY <2>3 DEF Fits
  <2>10. Asked'
    BY <2>1, <2>3, <2>4, <2>6, <2>9 DEF Asked
  <2> QED BY <2>5, <2>7, <2>8, <2>10
<1>5. ASSUME NEW p \in Programs, Serve(p) PROVE IInv'
  <2> DEFINE r == prog[p].req
  <2>1. r \in Request /\ (~overtaken => Fits(r)) /\ Effect(r)
    BY <1>5 DEF Serve, Asked
  <2>2. /\ saved' \in Store /\ want' \in Store
        /\ ~overtaken => saved' = want'
    BY <2>1, EffectIsMeant DEF NothingLost
  <2>3. \A q \in Programs \ {p} : prog[q].pc = "idle"
    BY <1>5 DEF Serve, Locked
  <2>4. /\ UNCHANGED <<lock, late, edits, overtaken>>
        /\ prog' = [prog EXCEPT ![p].pc = "over"]
    BY <1>5 DEF Serve, Go
  <2>5. TypeOK'
    BY <2>2, <2>4 DEF TypeOK
  <2>6. lock' = p /\ prog'[p].pc = "over" /\ \A q \in Programs \ {p} : prog'[q] = prog[q]
    BY <1>5, <2>4 DEF Serve, Locked, TypeOK
  <2>7. Locked' /\ Listed' /\ Asked'
    BY <2>3, <2>6, GoesOn
  <2>8. NothingLost'
    BY <2>2, <2>4 DEF NothingLost
  <2> QED BY <2>5, <2>7, <2>8
<1>6. ASSUME NEW p \in Programs, Fail(p) PROVE IInv'
  <2>1. /\ Go(p, "over") /\ prog[p].pc \in {"begun", "sent"}
        /\ UNCHANGED <<saved, want, lock, late, edits, overtaken>>
    BY <1>6 DEF Fail
  <2>2. late' \subseteq Request
    BY <2>1 DEF TypeOK
  <2> QED BY <2>1, <2>2, GoesOver DEF IInv
<1>7. ASSUME NEW p \in Programs, TimeOut(p) PROVE IInv'
  <2>1. /\ Go(p, "over") /\ prog[p].pc = "sent" /\ late' = late \cup {prog[p].req}
        /\ UNCHANGED <<saved, want, lock, edits, overtaken>>
    BY <1>7 DEF TimeOut
  <2>2. late' \subseteq Request
    BY <2>1 DEF TypeOK, Asked
  <2> QED BY <2>1, <2>2, GoesOver DEF IInv
<1>8. ASSUME NEW p \in Programs, End(p) PROVE IInv'
  <2>1. Start \in [pc : {"idle", "begun", "listed", "sent", "over"}, list : Store,
                  req : Request \cup {NoRequest}] /\ Start.pc = "idle"
    BY DEF Start, Store
  <2>2. /\ prog' = [prog EXCEPT ![p] = Start] /\ lock' = None /\ prog[p].pc # "idle"
        /\ UNCHANGED <<saved, want, late, edits, overtaken>>
    BY <1>8 DEF End
  <2> HIDE DEF Start
  <2>3. TypeOK'
    BY <2>1, <2>2 DEF TypeOK
  <2>4. \A q \in Programs : prog'[q].pc = "idle"
    BY <2>1, <2>2, OnlyOne DEF TypeOK
  <2>5. Locked' /\ Listed' /\ Asked'
    BY <2>4 DEF Locked, Listed, Asked
  <2>6. NothingLost'
    BY <2>2 DEF NothingLost
  <2> QED BY <2>3, <2>5, <2>6
<1>9. ASSUME NEW r \in late, ServeLate(r) PROVE IInv'
  <2>1. r \in Request /\ saved' \in Store /\ want' \in Store
    BY <1>9, EffectIsMeant DEF ServeLate, TypeOK
  <2>2. /\ UNCHANGED <<lock, prog, edits>> /\ overtaken'
        /\ late' = late \ {r}
    BY <1>9 DEF ServeLate
  <2>3. TypeOK'
    BY <2>1, <2>2, <1>9 DEF TypeOK, ServeLate
  <2>4. Locked' /\ Listed' /\ Asked' /\ NothingLost'
    BY <2>2 DEF Locked, Listed, Asked, NothingLost
  <2> QED BY <2>3, <2>4
<1>10. CASE UNCHANGED vars
  <2>1. TypeOK'
    BY <1>10 DEF vars, TypeOK
  <2>2. Locked' /\ Listed' /\ Asked' /\ NothingLost'
    BY <1>10 DEF vars, Locked, Listed, Asked, NothingLost, Fits
  <2> QED BY <2>1, <2>2
<1> QED
  BY <1>1, <1>2, <1>3, <1>4, <1>5, <1>6, <1>7, <1>8, <1>9, <1>10 DEF Next

LEMMA Invariant == Spec => []IInv
  BY InitInv, NextInv, PTL DEF Spec

(* Nets, requests and lists stay what their types say, also when requests  *)
(* of programs that are gone are served out of turn.                       *)
THEOREM TypeCorrect == Spec => []TypeOK
<1>1. IInv => TypeOK
  BY DEF IInv
<1> QED BY <1>1, Invariant, PTL

(* Under the lock no change is lost, whoever made it and whatever kind it  *)
(* is of, until a request is served whose program has given up on it.      *)
THEOREM NothingIsLost == Spec => []NothingLost
<1>1. IInv => NothingLost
  BY DEF IInv
<1> QED BY <1>1, Invariant, PTL

(* No step takes a ceiling off a net but a request made to: what a request *)
(* that fits writes keeps the ceilings of every net it does not name and   *)
(* the ceilings of the one it names unless it lifts them.                  *)
LEMMA EffectLifts ==
  ASSUME TypeOK, NEW r \in Request, Fits(r), ~Refused(r.edit),
         NEW n \in Names, NEW c \in saved[n].limits, c \notin Served(r)[n].limits
  PROVE  Lifting(r.edit, n, c)
<1> DEFINE e   == r.edit
           rec == saved[e.net]
<1>1. /\ saved \in [Names -> NetRecord \cup {Missing}] /\ e \in Edit
      /\ e.net \in Names /\ rec \in NetRecord \cup {Missing}
  BY DEF TypeOK, Request, Edit, Store
<1>2. CASE e.kind \in {"cap", "lift"}
  <2>1. rec # Missing /\ r.body = Changed(rec, e)
    BY <1>2 DEF Fits, Replacing
  <2>2. Served(r) = [saved EXCEPT ![e.net].limits = Changed(rec, e).limits]
    BY <1>2, <2>1 DEF Served
  <2>3. e.net = n /\ c \notin Changed(rec, e).limits
    BY <1>1, <2>1, <2>2 DEF NetRecord
  <2> QED BY <1>1, <1>2, <2>1, <2>3 DEF Changed, NetRecord, Lifting
<1>3. CASE e.kind = "notes"
  <2>1. rec # Missing
    BY <1>3 DEF Refused
  <2>2. Served(r) = [saved EXCEPT ![e.net].notes = e.value]
    BY <1>3 DEF Served
  <2> QED BY <1>1, <2>1, <2>2 DEF NetRecord
<1>4. CASE e.kind = "save"
  <2>1. rec # Missing /\ r.body = [rec EXCEPT !.params = e.value]
    BY <1>4 DEF Fits, Replacing, Changed
  <2>2. Served(r) = [saved EXCEPT ![e.net] = r.body]
    BY <1>4 DEF Served
  <2> QED BY <1>1, <2>1, <2>2 DEF NetRecord
<1>5. CASE e.kind \in {"clear", "new", "rename", "delete"}
  <2>1. e.kind # "rename" => e.net = n
    BY <1>1, <1>5 DEF Served
  <2>2. e.kind = "rename" => e.net = n \/ e.to = n
    BY <1>1, <1>5 DEF Served
  <2> QED BY <1>5, <2>1, <2>2 DEF Lifting
<1>6. CASE e.kind = "wipe"
  BY <1>6 DEF Lifting
<1>7. e.kind \in {"cap", "lift", "clear", "notes", "save", "rename", "new", "delete", "wipe"}
  BY <1>1 DEF Edit, Kind, Replacing
<1> QED BY <1>2, <1>3, <1>4, <1>5, <1>6, <1>7

(* As long as the box has served no request whose program gave up on it, a *)
(* ceiling of a saved net stands until a call is served that is made to    *)
(* lift or clear it, or that removes the net, saves it anew, or renames    *)
(* one from or to its name.  No other call takes it off: none that sets a  *)
(* ceiling, changes the metadata or saves a listed record.                 *)
THEOREM CeilingsStand == Spec => CeilingStands
<1> DEFINE Stands == ~overtaken' => \A n \in Names : \A c \in saved[n].limits \ saved'[n].limits :
                       \E p \in Programs : /\ prog[p].pc = "sent" /\ prog'[p].pc = "over"
                                           /\ Lifting(prog[p].req.edit, n, c)
<1>1. IInv /\ [Next]_vars => Stands
  <2> SUFFICES ASSUME IInv, [Next]_vars, ~overtaken', saved' # saved PROVE Stands
    OBVIOUS
  <2>1. PICK p \in Programs : Serve(p)
    BY DEF Next, vars, Begin, List, OldList, Send, Fail, TimeOut, End, ServeLate
  <2> DEFINE r == prog[p].req
  <2>2. prog[p].pc = "sent" /\ prog'[p].pc = "over" /\ ~overtaken
    BY <2>1 DEF Serve, Go, IInv, TypeOK
  <2>3. r \in Request /\ Fits(r)
    BY <2>2 DEF IInv, Asked
  <2>4. ~Refused(r.edit) /\ saved' = Served(r)
    BY <2>1 DEF Serve, Effect
  <2>5. \A n \in Names : \A c \in saved[n].limits \ saved'[n].limits : Lifting(r.edit, n, c)
    BY <2>3, <2>4, EffectLifts DEF IInv
  <2> QED BY <2>2, <2>5
<1>2. Stands => [Stands]_vars
  OBVIOUS
<1> QED BY <1>1, Invariant, PTL DEF Spec, CeilingStands
=============================================================================
