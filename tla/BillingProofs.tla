---------------------------- MODULE BillingProofs ----------------------------
(***************************************************************************)
(* The licence of the company is that of its plan, for any number of       *)
(* superadmins, requests and plans.                                        *)
(*                                                                         *)
(* LicenceOfPlan is not inductive: a cancellation writes the snapshot of a *)
(* request back, and a handler writes the company it read awaits before.   *)
(* Held says the same of every copy of the company that is kept anywhere;  *)
(* Rows and Tasks say that what a handler writes back is there at all.     *)
(* Sole adds who works on a request: a review and a cancellation rest on   *)
(* what a handler read awaits before, and it is still so while nobody else *)
(* has the request open.                                                   *)
(*                                                                         *)
(* Accounts, below: what a request holds is true of the table it was read  *)
(* from: the account of a ticket is still there, who is about to enter an  *)
(* account has it linked or is written down as a guest, and who was        *)
(* refused still meets the row that refused it.                            *)
(***************************************************************************)
EXTENDS Billing, Accounts, FiniteSetTheorems, TLAPS

Rows == \A r \in Request : Exists(r) => req[r].plan \in Plan

Tasks == \A a \in Admin :
  LET t == task[a] IN
  /\ t.pc \in {"approve", "activate"} => t.was.plan \in Plan
  /\ t.pc = "register" => t.plan \in Plan
  /\ t.pc \notin {"idle", "edit"} => t.r \in Request
  /\ t.pc \in {"cancel", "revert"} => t.was.prev # None
  /\ t.pc \in {"cancel", "mark", "revert"} =>
       /\ req[t.r].st # "none"
       /\ Exists(t.r) => req[t.r].prev # None /\ req[t.r].at # None

Held ==
  /\ LicenceOf(company, kept)
  /\ \A r \in Request : req[r].prev # None => LicenceOf(req[r].prev, kept)
  /\ \A a \in Admin : LicenceOf(task[a].saw, kept) /\ (task[a].was.prev # None => LicenceOf(task[a].was.prev, kept))

IInv == TypeOK /\ Rows /\ Tasks /\ Held

\* A handler at rest keeps no copy of the company.
LEMMA RestingIsHeld ==
  /\ Resting \in Task
  /\ \A hand : LicenceOf(Resting.saw, hand)
  /\ Resting.was.prev = None
<1>. USE BillingAssumption
<1>1. NoRow \in Row
  BY DEF NoRow, Row, Absent
<1>2. Resting.saw \in Company
  BY DEF Resting, Company, Licence, Instant
<1>. QED BY <1>1, <1>2 DEF Resting, Task, Pc, Instant, LicenceOf, NoRow

\* An activation writes the licence of its plan, and a company.
LEMMA ActivationIsHeld ==
  ASSUME NEW p \in Plan, NEW t \in Instant
  PROVE  Activation(p, t) \in Company /\ (\A hand : LicenceOf(Activation(p, t), hand))
<1>. USE BillingAssumption
<1>1. [of |-> p, at |-> t] \in [of : Plan \cup {Manual}, at : Instant]
  OBVIOUS
<1>2. [of |-> p, at |-> t] # None
  BY <1>1
<1>. QED BY <1>1, <1>2 DEF Activation, Grant, LicenceOf, Company, Licence

-----------------------------------------------------------------------------
(***************************************************************************)
(* One lemma per action.  new (and row) is the record a handler (and a     *)
(* request) becomes; what the action leaves alone keeps its part of IInv.  *)
(***************************************************************************)
LEMMA SubmitKeeps ==
  ASSUME IInv, NEW r \in Request, NEW p \in Plan, Submit(r, p)
  PROVE  IInv'
<1>. USE BillingAssumption
<1>1. TypeOK'
  BY DEF IInv, Rows, Tasks, TypeOK, Task, Row, Company, Licence, Instant, Pc, Absent, Exists, At, Leave, Others, NoRow, Resting, Submit
<1>2. Rows'
  BY DEF IInv, Rows, Tasks, TypeOK, Exists, Absent, At, NoRow, Submit
<1>3. Tasks'
  BY DEF IInv, Rows, Tasks, TypeOK, Task, Row, Exists, Absent, At, Others, NoRow, Resting, Submit
<1>4. Held'
  <2>1. LicenceOf(company', kept')
    BY DEF IInv, Tasks, Held, At, Submit
  <2>2. \A q \in Request : req'[q].prev # None => LicenceOf(req'[q].prev, kept')
    BY DEF IInv, Held, TypeOK, NoRow, Submit
  <2>3. \A o \in Admin : LicenceOf(task'[o].saw, kept') /\ (task'[o].was.prev # None => LicenceOf(task'[o].was.prev, kept'))
    BY DEF IInv, Held, NoRow, Submit
  <2>. QED BY <2>1, <2>2, <2>3 DEF Held
<1>. QED BY <1>1, <1>2, <1>3, <1>4 DEF IInv

LEMMA BeginRegisterKeeps ==
  ASSUME IInv, NEW a \in Admin, NEW r \in Request, NEW p \in Plan, BeginRegister(a, r, p)
  PROVE  IInv'
<1>. USE BillingAssumption
<1>. DEFINE new == [task[a] EXCEPT !.pc = "register", !.r = r, !.plan = p, !.saw = company, !.at = now + 1]
<1>t. task[a] \in Task /\ company \in Company /\ now \in Instant /\ now + 1 \in Instant /\ NoRow \in Row
  BY DEF IInv, TypeOK, NoRow, Row, Absent, Instant, BeginRegister
<1>a. new \in Task
  BY <1>t DEF IInv, Task, Pc, BeginRegister
<1>b. task' = [task EXCEPT ![a] = new]
  BY DEF IInv, TypeOK, Task, Row, Company, Licence, Instant, Pc, Absent, Exists, At, Leave, Others, NoRow, Resting, BeginRegister
<1>c. \A x \in Admin : task'[x] = IF x = a THEN new ELSE task[x]
  BY <1>b DEF IInv, TypeOK
<1>d. new.saw = company /\ new.was = task[a].was
  BY <1>t DEF Task
<1>1. TypeOK'
  BY <1>a, <1>b DEF IInv, TypeOK, Instant, Exists, Absent, BeginRegister
<1>2. Rows'
  BY DEF IInv, Rows, Tasks, TypeOK, Exists, Absent, At, NoRow, BeginRegister
<1>3. Tasks'
  <2>1. new.pc = "register" /\ new.r = r /\ new.plan = p
    BY <1>t DEF Task
  <2>2. req' = req /\ p \in Plan
    BY DEF IInv, TypeOK, BeginRegister
  <2>. HIDE DEF new
  <2>. QED BY <1>c, <2>1, <2>2 DEF IInv, Tasks, Exists
<1>4. Held'
  <2>1. LicenceOf(company', kept')
    BY DEF IInv, Tasks, Held, At, BeginRegister
  <2>2. \A q \in Request : req'[q].prev # None => LicenceOf(req'[q].prev, kept')
    BY DEF IInv, Held, TypeOK, NoRow, BeginRegister
  <2>k. kept' = kept
    BY DEF BeginRegister
  <2>. HIDE DEF new
  <2>3. \A o \in Admin : LicenceOf(task'[o].saw, kept') /\ (task'[o].was.prev # None => LicenceOf(task'[o].was.prev, kept'))
    BY <1>c, <1>d, <2>k DEF IInv, Held, NoRow
  <2>. QED BY <2>1, <2>2, <2>3 DEF Held
<1>. QED BY <1>1, <1>2, <1>3, <1>4 DEF IInv

LEMMA RegisterKeeps ==
  ASSUME IInv, NEW a \in Admin, Register(a)
  PROVE  IInv'
<1>. USE BillingAssumption
<1>c. \A x \in Admin : task'[x] = IF x = a THEN Resting ELSE task[x]
  BY DEF IInv, TypeOK, Register, Activation, Grant, Write, Leave
<1>1. TypeOK'
  BY <1>c, RestingIsHeld DEF IInv, Rows, Tasks, TypeOK, Task, Row, Company, Licence, Instant, Pc, Absent, Exists, At, Leave, Others, NoRow, Resting, Register, Activation, Grant, Write
<1>2. Rows'
  BY DEF IInv, Rows, Tasks, TypeOK, Exists, Absent, At, NoRow, Register, Activation, Grant, Write
<1>3. Tasks'
  BY <1>c, RestingIsHeld DEF IInv, Rows, Tasks, TypeOK, Task, Row, Exists, Absent, At, Others, NoRow, Resting, Register, Activation, Grant, Write
<1>4. Held'
  <2>1. LicenceOf(company', kept')
    <3>1. task[a].plan \in Plan /\ task[a].at \in Instant
      BY DEF IInv, Tasks, TypeOK, Task, At, Register
    <3>. QED BY <3>1, ActivationIsHeld DEF Register, Write
  <2>2. \A q \in Request : req'[q].prev # None => LicenceOf(req'[q].prev, kept')
    BY DEF IInv, Held, TypeOK, NoRow, Register, Activation, Grant, Write
  <2>3. \A o \in Admin : LicenceOf(task'[o].saw, kept') /\ (task'[o].was.prev # None => LicenceOf(task'[o].was.prev, kept'))
    BY <1>c, RestingIsHeld DEF IInv, Held, NoRow, Register, Activation, Grant, Write
  <2>. QED BY <2>1, <2>2, <2>3 DEF Held
<1>. QED BY <1>1, <1>2, <1>3, <1>4 DEF IInv

LEMMA BeginApproveKeeps ==
  ASSUME IInv, NEW a \in Admin, NEW r \in Request, BeginApprove(a, r)
  PROVE  IInv'
<1>. USE BillingAssumption
<1>. DEFINE new == [task[a] EXCEPT !.pc = "approve", !.r = r, !.was = req[r]]
<1>t. task[a] \in Task /\ company \in Company /\ now \in Instant /\ req[r] \in Row /\ NoRow \in Row
  BY DEF IInv, TypeOK, NoRow, Row, Absent
<1>a. new \in Task
  BY <1>t DEF IInv, Task, Pc, BeginApprove, Begin
<1>b. task' = [task EXCEPT ![a] = new]
  BY DEF IInv, TypeOK, Task, Row, Company, Licence, Instant, Pc, Absent, Exists, At, Leave, Others, NoRow, Resting, BeginApprove, Begin
<1>c. \A x \in Admin : task'[x] = IF x = a THEN new ELSE task[x]
  BY <1>b DEF IInv, TypeOK
<1>d. new.saw = task[a].saw /\ new.was = req[r]
  BY <1>t DEF Task
<1>1. TypeOK'
  BY <1>a, <1>b DEF IInv, TypeOK, Instant, Exists, Absent, BeginApprove, Begin
<1>2. Rows'
  BY DEF IInv, Rows, Tasks, TypeOK, Exists, Absent, At, NoRow, BeginApprove, Begin
<1>3. Tasks'
  BY <1>a, <1>b, <1>c DEF IInv, Rows, Tasks, TypeOK, Task, Row, Exists, Absent, At, Others, NoRow, Resting, BeginApprove, Begin
<1>4. Held'
  <2>1. LicenceOf(company', kept')
    BY DEF IInv, Tasks, Held, At, BeginApprove, Begin
  <2>2. \A q \in Request : req'[q].prev # None => LicenceOf(req'[q].prev, kept')
    BY DEF IInv, Held, TypeOK, NoRow, BeginApprove, Begin
  <2>k. kept' = kept
    BY DEF BeginApprove
  <2>. HIDE DEF new
  <2>3. \A o \in Admin : LicenceOf(task'[o].saw, kept') /\ (task'[o].was.prev # None => LicenceOf(task'[o].was.prev, kept'))
    BY <1>c, <1>d, <2>k DEF IInv, Held, NoRow
  <2>. QED BY <2>1, <2>2, <2>3 DEF Held
<1>. QED BY <1>1, <1>2, <1>3, <1>4 DEF IInv

LEMMA ReadCompanyKeeps ==
  ASSUME IInv, NEW a \in Admin, ReadCompany(a)
  PROVE  IInv'
<1>. USE BillingAssumption
<1>. DEFINE new == [task[a] EXCEPT !.pc = "activate", !.saw = company, !.at = now + 1]
<1>t. task[a] \in Task /\ company \in Company /\ now \in Instant /\ now + 1 \in Instant /\ NoRow \in Row
  BY DEF IInv, TypeOK, NoRow, Row, Absent, Instant, ReadCompany
<1>a. new \in Task
  BY <1>t DEF IInv, Task, Pc, ReadCompany
<1>b. task' = [task EXCEPT ![a] = new]
  BY DEF IInv, TypeOK, Task, Row, Company, Licence, Instant, Pc, Absent, Exists, At, Leave, Others, NoRow, Resting, ReadCompany
<1>c. \A x \in Admin : task'[x] = IF x = a THEN new ELSE task[x]
  BY <1>b DEF IInv, TypeOK
<1>d. new.saw = company /\ new.was = task[a].was
  BY <1>t DEF Task
<1>1. TypeOK'
  BY <1>a, <1>b DEF IInv, TypeOK, Instant, Exists, Absent, ReadCompany
<1>2. Rows'
  BY DEF IInv, Rows, Tasks, TypeOK, Exists, Absent, At, NoRow, ReadCompany
<1>3. Tasks'
  BY <1>a, <1>b, <1>c DEF IInv, Rows, Tasks, TypeOK, Task, Row, Exists, Absent, At, Others, NoRow, Resting, ReadCompany
<1>4. Held'
  <2>1. LicenceOf(company', kept')
    BY DEF IInv, Tasks, Held, At, ReadCompany
  <2>2. \A q \in Request : req'[q].prev # None => LicenceOf(req'[q].prev, kept')
    BY DEF IInv, Held, TypeOK, NoRow, ReadCompany
  <2>k. kept' = kept
    BY DEF ReadCompany
  <2>. HIDE DEF new
  <2>3. \A o \in Admin : LicenceOf(task'[o].saw, kept') /\ (task'[o].was.prev # None => LicenceOf(task'[o].was.prev, kept'))
    BY <1>c, <1>d, <2>k DEF IInv, Held, NoRow
  <2>. QED BY <2>1, <2>2, <2>3 DEF Held
<1>. QED BY <1>1, <1>2, <1>3, <1>4 DEF IInv

LEMMA ActivateKeeps ==
  ASSUME IInv, NEW a \in Admin, Activate(a)
  PROVE  IInv'
<1>. USE BillingAssumption
<1>c. \A x \in Admin : task'[x] = IF x = a THEN Resting ELSE task[x]
  BY DEF IInv, TypeOK, Activate, Activation, Grant, Write, Leave
<1>. DEFINE row == [req[task[a].r] EXCEPT !.st = "APPROVED", !.prev = task[a].saw, !.at = task[a].at]
<1>d. req' = [req EXCEPT ![task[a].r] = row]
  BY DEF IInv, TypeOK, Row, Activate
<1>e. task[a] \in Task /\ task[a].r \in Request /\ req[task[a].r] \in Row
  BY DEF IInv, Tasks, TypeOK, At, Activate
<1>f. task[a].was.plan \in Plan /\ task[a].at \in Instant /\ task[a].saw \in Company
  BY <1>e DEF IInv, Tasks, Task, At, Activate
<1>g. row \in Row /\ row.st = "APPROVED" /\ row.prev # None /\ row.at # None
  BY <1>e, <1>f DEF Row
<1>h. \A q \in Request : req'[q] = IF q = task[a].r THEN row ELSE req[q]
  BY <1>d, <1>e DEF IInv, TypeOK
<1>i. company' \in Company
  BY <1>f, ActivationIsHeld DEF Activate, Write
<1>j. /\ plans' = plans /\ now' = now /\ edits' = edits /\ contested' = contested /\ kept' = kept
      /\ stale' \subseteq Admin
  BY DEF IInv, TypeOK, Activate, Write
<1>. HIDE DEF row
<1>k. task' \in [Admin -> Task]
  BY RestingIsHeld DEF IInv, TypeOK, Activate, Leave
<1>l. req' \in [Request -> Row]
  BY <1>d, <1>g DEF IInv, TypeOK
<1>1. TypeOK'
  BY <1>c, <1>g, <1>h, <1>i, <1>j, <1>k, <1>l DEF IInv, TypeOK
<1>2. Rows'
  BY DEF IInv, Rows, Tasks, TypeOK, Exists, Absent, At, NoRow, Activate, Activation, Grant, Write
<1>3. Tasks'
  BY <1>c, <1>g, <1>h DEF IInv, Tasks, Exists, Absent, Resting
<1>4. Held'
  <2>1. LicenceOf(company', kept')
    BY <1>f, ActivationIsHeld DEF Activate, Write
  <2>2. \A q \in Request : req'[q].prev # None => LicenceOf(req'[q].prev, kept')
    BY DEF IInv, Held, TypeOK, NoRow, Activate, Activation, Grant, Write
  <2>3. \A o \in Admin : LicenceOf(task'[o].saw, kept') /\ (task'[o].was.prev # None => LicenceOf(task'[o].was.prev, kept'))
    BY <1>c, RestingIsHeld DEF IInv, Held, NoRow, Activate, Activation, Grant, Write
  <2>. QED BY <2>1, <2>2, <2>3 DEF Held
<1>. QED BY <1>1, <1>2, <1>3, <1>4 DEF IInv

LEMMA BeginRejectKeeps ==
  ASSUME IInv, NEW a \in Admin, NEW r \in Request, BeginReject(a, r)
  PROVE  IInv'
<1>. USE BillingAssumption
<1>. DEFINE new == [task[a] EXCEPT !.pc = "reject", !.r = r, !.was = NoRow]
<1>t. task[a] \in Task /\ company \in Company /\ now \in Instant /\ req[r] \in Row /\ NoRow \in Row
  BY DEF IInv, TypeOK, NoRow, Row, Absent
<1>a. new \in Task
  BY <1>t DEF IInv, Task, Pc, BeginReject, Begin
<1>b. task' = [task EXCEPT ![a] = new]
  BY DEF IInv, TypeOK, Task, Row, Company, Licence, Instant, Pc, Absent, Exists, At, Leave, Others, NoRow, Resting, BeginReject, Begin
<1>c. \A x \in Admin : task'[x] = IF x = a THEN new ELSE task[x]
  BY <1>b DEF IInv, TypeOK
<1>d. new.saw = task[a].saw /\ new.was = NoRow
  BY <1>t DEF Task
<1>1. TypeOK'
  BY <1>a, <1>b DEF IInv, TypeOK, Instant, Exists, Absent, BeginReject, Begin
<1>2. Rows'
  BY DEF IInv, Rows, Tasks, TypeOK, Exists, Absent, At, NoRow, BeginReject, Begin
<1>3. Tasks'
  BY SMTT(30), <1>a, <1>b, <1>c DEF IInv, Rows, Tasks, TypeOK, Task, Row, Exists, Absent, At, Others, NoRow, Resting, BeginReject, Begin
<1>4. Held'
  <2>1. LicenceOf(company', kept')
    BY DEF IInv, Tasks, Held, At, BeginReject, Begin
  <2>2. \A q \in Request : req'[q].prev # None => LicenceOf(req'[q].prev, kept')
    BY DEF IInv, Held, TypeOK, NoRow, BeginReject, Begin
  <2>k. kept' = kept
    BY DEF BeginReject
  <2>. HIDE DEF new
  <2>3. \A o \in Admin : LicenceOf(task'[o].saw, kept') /\ (task'[o].was.prev # None => LicenceOf(task'[o].was.prev, kept'))
    BY <1>c, <1>d, <2>k DEF IInv, Held, NoRow
  <2>. QED BY <2>1, <2>2, <2>3 DEF Held
<1>. QED BY <1>1, <1>2, <1>3, <1>4 DEF IInv

LEMMA RejectKeeps ==
  ASSUME IInv, NEW a \in Admin, Reject(a)
  PROVE  IInv'
<1>. USE BillingAssumption
<1>c. \A x \in Admin : task'[x] = IF x = a THEN Resting ELSE task[x]
  BY DEF IInv, TypeOK, Reject, Leave
<1>1. TypeOK'
  BY SMTT(30), <1>c, RestingIsHeld DEF IInv, Rows, Tasks, TypeOK, Task, Row, Company, Licence, Instant, Pc, Absent, Exists, At, Leave, Others, NoRow, Resting, Reject
<1>2. Rows'
  BY DEF IInv, Rows, Tasks, TypeOK, Exists, Absent, At, NoRow, Reject
<1>3. Tasks'
  BY <1>c, RestingIsHeld DEF IInv, Rows, Tasks, TypeOK, Task, Row, Exists, Absent, At, Others, NoRow, Resting, Reject
<1>4. Held'
  <2>1. LicenceOf(company', kept')
    BY DEF IInv, Tasks, Held, At, Reject
  <2>2. \A q \in Request : req'[q].prev # None => LicenceOf(req'[q].prev, kept')
    BY DEF IInv, Held, TypeOK, NoRow, Reject
  <2>3. \A o \in Admin : LicenceOf(task'[o].saw, kept') /\ (task'[o].was.prev # None => LicenceOf(task'[o].was.prev, kept'))
    BY <1>c, RestingIsHeld DEF IInv, Held, NoRow, Reject
  <2>. QED BY <2>1, <2>2, <2>3 DEF Held
<1>. QED BY <1>1, <1>2, <1>3, <1>4 DEF IInv

LEMMA BeginCancelKeeps ==
  ASSUME IInv, NEW a \in Admin, NEW r \in Request, BeginCancel(a, r)
  PROVE  IInv'
<1>. USE BillingAssumption
<1>. DEFINE new == [task[a] EXCEPT !.pc = "cancel", !.r = r, !.was = req[r]]
<1>t. task[a] \in Task /\ company \in Company /\ now \in Instant /\ req[r] \in Row /\ NoRow \in Row
  BY DEF IInv, TypeOK, NoRow, Row, Absent
<1>a. new \in Task
  BY <1>t DEF IInv, Task, Pc, BeginCancel, Begin
<1>b. task' = [task EXCEPT ![a] = new]
  BY DEF IInv, TypeOK, Task, Row, Company, Licence, Instant, Pc, Absent, Exists, At, Leave, Others, NoRow, Resting, BeginCancel, Begin
<1>c. \A x \in Admin : task'[x] = IF x = a THEN new ELSE task[x]
  BY <1>b DEF IInv, TypeOK
<1>d. new.saw = task[a].saw /\ new.was = req[r]
  BY <1>t DEF Task
<1>1. TypeOK'
  BY <1>a, <1>b DEF IInv, TypeOK, Instant, Exists, Absent, BeginCancel, Begin
<1>2. Rows'
  BY DEF IInv, Rows, Tasks, TypeOK, Exists, Absent, At, NoRow, BeginCancel, Begin
<1>3. Tasks'
  BY SMTT(30), <1>a, <1>b, <1>c DEF IInv, Rows, Tasks, TypeOK, Task, Row, Exists, Absent, At, Others, NoRow, Resting, BeginCancel, Begin
<1>4. Held'
  <2>1. LicenceOf(company', kept')
    BY DEF IInv, Tasks, Held, At, BeginCancel, Begin
  <2>2. \A q \in Request : req'[q].prev # None => LicenceOf(req'[q].prev, kept')
    BY DEF IInv, Held, TypeOK, NoRow, BeginCancel, Begin
  <2>k. kept' = kept
    BY DEF BeginCancel
  <2>. HIDE DEF new
  <2>3. \A o \in Admin : LicenceOf(task'[o].saw, kept') /\ (task'[o].was.prev # None => LicenceOf(task'[o].was.prev, kept'))
    BY <1>c, <1>d, <2>k DEF IInv, Held, NoRow
  <2>. QED BY <2>1, <2>2, <2>3 DEF Held
<1>. QED BY <1>1, <1>2, <1>3, <1>4 DEF IInv

LEMMA CompareKeeps ==
  ASSUME IInv, NEW a \in Admin, Compare(a)
  PROVE  IInv'
<1>. USE BillingAssumption
<1>. DEFINE new == IF Unchanged(task[a].was) THEN [task[a] EXCEPT !.pc = "revert"] ELSE [task[a] EXCEPT !.pc = "mark", !.was = NoRow]
<1>t. task[a] \in Task /\ company \in Company /\ now \in Instant /\ NoRow \in Row
  BY DEF IInv, TypeOK, NoRow, Row, Absent
<1>a. new \in Task
  BY <1>t DEF IInv, Task, Pc, Compare, Unchanged
<1>b. task' = [task EXCEPT ![a] = new]
  BY DEF IInv, TypeOK, Task, Row, Company, Licence, Instant, Pc, Absent, Exists, At, Leave, Others, NoRow, Resting, Compare, Unchanged
<1>c. \A x \in Admin : task'[x] = IF x = a THEN new ELSE task[x]
  BY <1>b DEF IInv, TypeOK
<1>d. new.saw = task[a].saw /\ new.was \in {task[a].was, NoRow}
  BY <1>t DEF Task
<1>1. TypeOK'
  BY <1>a, <1>b DEF IInv, TypeOK, Instant, Exists, Absent, Compare, Unchanged
<1>2. Rows'
  BY DEF IInv, Rows, Tasks, TypeOK, Exists, Absent, At, NoRow, Compare, Unchanged
<1>3. Tasks'
  BY <1>a, <1>b, <1>c DEF IInv, Rows, Tasks, TypeOK, Task, Row, Exists, Absent, At, Others, NoRow, Resting, Compare, Unchanged
<1>4. Held'
  <2>1. LicenceOf(company', kept')
    BY DEF IInv, Tasks, Held, At, Compare, Unchanged
  <2>2. \A q \in Request : req'[q].prev # None => LicenceOf(req'[q].prev, kept')
    BY DEF IInv, Held, TypeOK, NoRow, Compare, Unchanged
  <2>k. kept' = kept
    BY DEF Compare
  <2>. HIDE DEF new
  <2>3. \A o \in Admin : LicenceOf(task'[o].saw, kept') /\ (task'[o].was.prev # None => LicenceOf(task'[o].was.prev, kept'))
    BY <1>c, <1>d, <2>k DEF IInv, Held, NoRow
  <2>. QED BY <2>1, <2>2, <2>3 DEF Held
<1>. QED BY <1>1, <1>2, <1>3, <1>4 DEF IInv

LEMMA MarkKeeps ==
  ASSUME IInv, NEW a \in Admin, Mark(a)
  PROVE  IInv'
<1>. USE BillingAssumption
<1>c. \A x \in Admin : task'[x] = IF x = a THEN Resting ELSE task[x]
  BY DEF IInv, TypeOK, Mark, Leave
<1>1. TypeOK'
  BY <1>c, RestingIsHeld DEF IInv, Rows, Tasks, TypeOK, Task, Row, Company, Licence, Instant, Pc, Absent, Exists, At, Leave, Others, NoRow, Resting, Mark
<1>2. Rows'
  BY DEF IInv, Rows, Tasks, TypeOK, Exists, Absent, At, NoRow, Mark
<1>3. Tasks'
  BY <1>c, RestingIsHeld DEF IInv, Rows, Tasks, TypeOK, Task, Row, Exists, Absent, At, Others, NoRow, Resting, Mark
<1>4. Held'
  <2>1. LicenceOf(company', kept')
    BY DEF IInv, Tasks, Held, At, Mark
  <2>2. \A q \in Request : req'[q].prev # None => LicenceOf(req'[q].prev, kept')
    BY DEF IInv, Held, TypeOK, NoRow, Mark
  <2>3. \A o \in Admin : LicenceOf(task'[o].saw, kept') /\ (task'[o].was.prev # None => LicenceOf(task'[o].was.prev, kept'))
    BY <1>c, RestingIsHeld DEF IInv, Held, NoRow, Mark
  <2>. QED BY <2>1, <2>2, <2>3 DEF Held
<1>. QED BY <1>1, <1>2, <1>3, <1>4 DEF IInv

LEMMA RevertKeeps ==
  ASSUME IInv, NEW a \in Admin, Revert(a)
  PROVE  IInv'
<1>. USE BillingAssumption
<1>c. \A x \in Admin : task'[x] = IF x = a THEN Resting ELSE task[x]
  BY DEF IInv, TypeOK, Revert, Write, Leave
<1>e. task[a] \in Task /\ task[a].r \in Request /\ req[task[a].r] \in Row
  BY DEF IInv, Tasks, TypeOK, At, Revert
<1>f. task[a].was \in Row /\ task[a].was.prev # None
  BY <1>e DEF IInv, Tasks, Task, At, Revert
<1>g. company' \in Company
  BY <1>f DEF Revert, Write, Row
<1>h. /\ req' \in [Request -> Row]
      /\ \A q \in Request : req'[q].st \in {"APPROVED", "CANCELLED"} => req'[q].prev # None /\ req'[q].at # None
  BY <1>e DEF IInv, TypeOK, Tasks, Row, Exists, At, Revert
<1>1. TypeOK'
  BY <1>c, <1>g, <1>h, RestingIsHeld DEF IInv, TypeOK, Revert, Write, Leave
<1>2. Rows'
  BY DEF IInv, Rows, Tasks, TypeOK, Exists, Absent, At, NoRow, Revert, Write
<1>3. Tasks'
  BY <1>c, RestingIsHeld DEF IInv, Rows, Tasks, TypeOK, Task, Row, Exists, Absent, At, Others, NoRow, Resting, Revert, Write
<1>4. Held'
  <2>1. LicenceOf(company', kept')
    BY DEF IInv, Tasks, Held, At, Revert, Write
  <2>2. \A q \in Request : req'[q].prev # None => LicenceOf(req'[q].prev, kept')
    BY DEF IInv, Held, TypeOK, NoRow, Revert, Write
  <2>3. \A o \in Admin : LicenceOf(task'[o].saw, kept') /\ (task'[o].was.prev # None => LicenceOf(task'[o].was.prev, kept'))
    BY <1>c, RestingIsHeld DEF IInv, Held, NoRow, Revert, Write
  <2>. QED BY <2>1, <2>2, <2>3 DEF Held
<1>. QED BY <1>1, <1>2, <1>3, <1>4 DEF IInv

LEMMA RefusedKeeps ==
  ASSUME IInv, NEW a \in Admin, Refused(a)
  PROVE  IInv'
<1>. USE BillingAssumption
<1>c. \A x \in Admin : task'[x] = IF x = a THEN Resting ELSE task[x]
  BY DEF IInv, TypeOK, Refused, GiveUp, Leave
<1>1. TypeOK'
  BY <1>c, RestingIsHeld DEF IInv, Rows, Tasks, TypeOK, Task, Row, Company, Licence, Instant, Pc, Absent, Exists, At, Leave, Others, NoRow, Resting, Refused, GiveUp
<1>2. Rows'
  BY DEF IInv, Rows, Tasks, TypeOK, Exists, Absent, At, NoRow, Refused, GiveUp
<1>3. Tasks'
  BY <1>c, RestingIsHeld DEF IInv, Rows, Tasks, TypeOK, Task, Row, Exists, Absent, At, Others, NoRow, Resting, Refused, GiveUp
<1>4. Held'
  <2>1. LicenceOf(company', kept')
    BY DEF IInv, Tasks, Held, At, Refused, GiveUp
  <2>2. \A q \in Request : req'[q].prev # None => LicenceOf(req'[q].prev, kept')
    BY DEF IInv, Held, TypeOK, NoRow, Refused, GiveUp
  <2>3. \A o \in Admin : LicenceOf(task'[o].saw, kept') /\ (task'[o].was.prev # None => LicenceOf(task'[o].was.prev, kept'))
    BY <1>c, RestingIsHeld DEF IInv, Held, NoRow, Refused, GiveUp
  <2>. QED BY <2>1, <2>2, <2>3 DEF Held
<1>. QED BY <1>1, <1>2, <1>3, <1>4 DEF IInv

LEMMA BeginEditKeeps ==
  ASSUME IInv, NEW a \in Admin, NEW p \in Plan \cup {None, "same"}, NEW dated \in BOOLEAN, BeginEdit(a, p, dated)
  PROVE  IInv'
<1>. USE BillingAssumption
<1>. DEFINE new == [task[a] EXCEPT !.pc = "edit", !.plan = p, !.dated = dated, !.saw = company]
<1>t. task[a] \in Task /\ company \in Company /\ now \in Instant /\ NoRow \in Row
  BY DEF IInv, TypeOK, NoRow, Row, Absent
<1>a. new \in Task
  BY <1>t DEF IInv, Task, Pc, BeginEdit
<1>b. task' = [task EXCEPT ![a] = new]
  BY DEF IInv, TypeOK, Task, Row, Company, Licence, Instant, Pc, Absent, Exists, At, Leave, Others, NoRow, Resting, BeginEdit
<1>c. \A x \in Admin : task'[x] = IF x = a THEN new ELSE task[x]
  BY <1>b DEF IInv, TypeOK
<1>d. new.saw = company /\ new.was = task[a].was
  BY <1>t DEF Task
<1>1. TypeOK'
  BY <1>a, <1>b DEF IInv, TypeOK, Instant, Exists, Absent, BeginEdit
<1>2. Rows'
  BY DEF IInv, Rows, Tasks, TypeOK, Exists, Absent, At, NoRow, BeginEdit
<1>3. Tasks'
  BY <1>a, <1>b, <1>c DEF IInv, Rows, Tasks, TypeOK, Task, Row, Exists, Absent, At, Others, NoRow, Resting, BeginEdit
<1>4. Held'
  <2>1. LicenceOf(company', kept')
    BY DEF IInv, Tasks, Held, At, BeginEdit
  <2>2. \A q \in Request : req'[q].prev # None => LicenceOf(req'[q].prev, kept')
    BY DEF IInv, Held, TypeOK, NoRow, BeginEdit
  <2>k. kept' = kept
    BY DEF BeginEdit
  <2>. HIDE DEF new
  <2>3. \A o \in Admin : LicenceOf(task'[o].saw, kept') /\ (task'[o].was.prev # None => LicenceOf(task'[o].was.prev, kept'))
    BY <1>c, <1>d, <2>k DEF IInv, Held, NoRow
  <2>. QED BY <2>1, <2>2, <2>3 DEF Held
<1>. QED BY <1>1, <1>2, <1>3, <1>4 DEF IInv

LEMMA EditKeeps ==
  ASSUME IInv, NEW a \in Admin, Edit(a)
  PROVE  IInv'
<1>. USE BillingAssumption
<1>c. \A x \in Admin : task'[x] = IF x = a THEN Resting ELSE task[x]
  BY DEF IInv, TypeOK, Edit, Write, Touches, Leave
<1>1. TypeOK'
  BY <1>c, RestingIsHeld DEF IInv, Rows, Tasks, TypeOK, Task, Row, Company, Licence, Instant, Pc, Absent, Exists, At, Leave, Others, NoRow, Resting, Edit, Write, Touches
<1>2. Rows'
  BY DEF IInv, Rows, Tasks, TypeOK, Exists, Absent, At, NoRow, Edit, Write, Touches
<1>3. Tasks'
  BY <1>c, RestingIsHeld DEF IInv, Rows, Tasks, TypeOK, Task, Row, Exists, Absent, At, Others, NoRow, Resting, Edit, Write, Touches
<1>4. Held'
  <2>1. LicenceOf(company', kept')
    <3>1. CASE task[a].dated
      <4>1. now' \in Instant
        BY DEF IInv, TypeOK, Instant, Edit
      <4>2. [of |-> Manual, at |-> now'] \in [of : Plan \cup {Manual}, at : Instant]
        BY <4>1
      <4>3. [of |-> Manual, at |-> now'] # None
        BY <4>2
      <4>. QED BY <3>1, <4>3 DEF LicenceOf, Edit, Write
    <3>2. CASE ~task[a].dated
      BY <3>2 DEF LicenceOf, Edit, Write
    <3>. QED BY <3>1, <3>2
  <2>2. \A q \in Request : req'[q].prev # None => LicenceOf(req'[q].prev, kept')
    BY DEF IInv, Held, LicenceOf, TypeOK, NoRow, Edit, Write, Touches
  <2>3. \A o \in Admin : LicenceOf(task'[o].saw, kept') /\ (task'[o].was.prev # None => LicenceOf(task'[o].was.prev, kept'))
    BY SMTT(30), <1>c, RestingIsHeld DEF IInv, Held, LicenceOf, NoRow, Edit, Write, Touches
  <2>. QED BY <2>1, <2>2, <2>3 DEF Held
<1>. QED BY <1>1, <1>2, <1>3, <1>4 DEF IInv

LEMMA DeletePlanKeeps ==
  ASSUME IInv, NEW p \in Plan, DeletePlan(p)
  PROVE  IInv'
<1>. USE BillingAssumption
<1>1. TypeOK'
  BY DEF IInv, Rows, Tasks, TypeOK, Task, Row, Company, Licence, Instant, Pc, Absent, Exists, At, Leave, Others, NoRow, Resting, DeletePlan
<1>2. Rows'
  BY DEF IInv, Rows, Tasks, TypeOK, Exists, Absent, At, NoRow, DeletePlan
<1>3. Tasks'
  BY DEF IInv, Rows, Tasks, TypeOK, Task, Row, Exists, Absent, At, Others, NoRow, Resting, DeletePlan
<1>4. Held'
  <2>1. LicenceOf(company', kept')
    BY DEF IInv, Tasks, Held, LicenceOf, At, DeletePlan
  <2>2. \A q \in Request : req'[q].prev # None => LicenceOf(req'[q].prev, kept')
    BY DEF IInv, Held, LicenceOf, TypeOK, NoRow, DeletePlan
  <2>3. \A o \in Admin : LicenceOf(task'[o].saw, kept') /\ (task'[o].was.prev # None => LicenceOf(task'[o].was.prev, kept'))
    BY DEF IInv, Held, LicenceOf, NoRow, DeletePlan
  <2>. QED BY <2>1, <2>2, <2>3 DEF Held
<1>. QED BY <1>1, <1>2, <1>3, <1>4 DEF IInv

-----------------------------------------------------------------------------
LEMMA InitHolds == Init => IInv
<1>. SUFFICES ASSUME Init PROVE IInv
  OBVIOUS
<1>. USE BillingAssumption
<1>1. NoRow \in Row /\ 0 \in Instant
  BY DEF NoRow, Row, Absent, Instant
<1>2. \A p \in Plan : [of |-> p, at |-> 0] \in [of : Plan \cup {Manual}, at : Instant]
  BY <1>1
<1>3. \A p \in Plan : [of |-> p, at |-> 0] # None
  BY <1>2
<1>4. company \in Company
  BY <1>1, <1>2 DEF Init, Company, Licence
<1>5. TypeOK
  BY <1>1, <1>4, RestingIsHeld DEF Init, TypeOK, NoRow
<1>6. Rows
  BY DEF Init, Rows, Exists, Absent, NoRow
<1>7. Tasks
  BY DEF Init, Tasks, Resting
<1>8. LicenceOf(company, kept)
  BY <1>3 DEF Init, LicenceOf
<1>9. Held
  BY <1>8, RestingIsHeld DEF Init, Held, NoRow
<1>. QED BY <1>5, <1>6, <1>7, <1>9 DEF IInv

LEMMA NextKeeps == IInv /\ [Next]_vars => IInv'
<1>. SUFFICES ASSUME IInv, [Next]_vars PROVE IInv'
  OBVIOUS
<1>1. ASSUME NEW r \in Request, NEW p \in Plan, Submit(r, p) PROVE IInv'
  BY <1>1, SubmitKeeps
<1>2. ASSUME NEW a \in Admin, NEW r \in Request, NEW p \in Plan, BeginRegister(a, r, p) PROVE IInv'
  BY <1>2, BeginRegisterKeeps
<1>3. ASSUME NEW a \in Admin, Register(a) PROVE IInv'
  BY <1>3, RegisterKeeps
<1>4. ASSUME NEW a \in Admin, NEW r \in Request, BeginApprove(a, r) PROVE IInv'
  BY <1>4, BeginApproveKeeps
<1>5. ASSUME NEW a \in Admin, ReadCompany(a) PROVE IInv'
  BY <1>5, ReadCompanyKeeps
<1>6. ASSUME NEW a \in Admin, Activate(a) PROVE IInv'
  BY <1>6, ActivateKeeps
<1>7. ASSUME NEW a \in Admin, NEW r \in Request, BeginReject(a, r) PROVE IInv'
  BY <1>7, BeginRejectKeeps
<1>8. ASSUME NEW a \in Admin, Reject(a) PROVE IInv'
  BY <1>8, RejectKeeps
<1>9. ASSUME NEW a \in Admin, NEW r \in Request, BeginCancel(a, r) PROVE IInv'
  BY <1>9, BeginCancelKeeps
<1>10. ASSUME NEW a \in Admin, Compare(a) PROVE IInv'
  BY <1>10, CompareKeeps
<1>11. ASSUME NEW a \in Admin, Mark(a) PROVE IInv'
  BY <1>11, MarkKeeps
<1>12. ASSUME NEW a \in Admin, Revert(a) PROVE IInv'
  BY <1>12, RevertKeeps
<1>13. ASSUME NEW a \in Admin, Refused(a) PROVE IInv'
  BY <1>13, RefusedKeeps
<1>14. ASSUME NEW a \in Admin, NEW p \in Plan \cup {None, "same"}, NEW dated \in BOOLEAN, BeginEdit(a, p, dated) PROVE IInv'
  BY <1>14, BeginEditKeeps
<1>15. ASSUME NEW a \in Admin, Edit(a) PROVE IInv'
  BY <1>15, EditKeeps
<1>16. ASSUME NEW p \in Plan, DeletePlan(p) PROVE IInv'
  BY <1>16, DeletePlanKeeps
<1>17. CASE UNCHANGED vars
  BY <1>17 DEF vars, IInv, TypeOK, Rows, Exists, Tasks, Held, LicenceOf
<1>. QED
  BY <1>1, <1>2, <1>3, <1>4, <1>5, <1>6, <1>7, <1>8, <1>9, <1>10, <1>11, <1>12, <1>13, <1>14, <1>15, <1>16, <1>17 DEF Next

\* Every reachable state is well typed; in particular a request that was approved
\* has the snapshot that cancelling it writes back.
THEOREM BillingTyped == Spec => []TypeOK
<1>1. IInv => TypeOK
  BY DEF IInv
<1>. QED BY InitHolds, NextKeeps, <1>1, PTL DEF Spec

\* The licence shown is that of the plan shown beside it, whatever the order of
\* approvals, cancellations, edits and deleted plans.
THEOREM LicenceHeld == Spec => []LicenceOfPlan
<1>1. IInv => LicenceOfPlan
  BY DEF IInv, Held, LicenceOfPlan
<1>. QED BY InitHolds, NextKeeps, <1>1, PTL DEF Spec

-----------------------------------------------------------------------------
(***************************************************************************)
(* Who works on a request.  A request that is not contested has one        *)
(* handler at most; what that handler read of it is still so, and a        *)
(* cancellation that found the company unchanged still finds it so, unless *)
(* somebody wrote in between.                                              *)
(***************************************************************************)
Mine(a) == task[a].r \in Request \ contested /\ Exists(task[a].r)

Alone ==
  /\ \A a \in Admin : At(a, "idle") \/ At(a, "edit") => task[a].r = None
  /\ \A a, o \in Admin : task[a].r = task[o].r /\ task[a].r \in Request \ contested => a = o

Fresh ==
  \A a \in Admin :
    /\ task[a].pc \in {"approve", "activate", "reject", "cancel", "mark", "revert"} => req[task[a].r].st # "none"
    /\ Mine(a) =>
         /\ task[a].pc \in {"approve", "activate", "reject"} => req[task[a].r].st = "PENDING"
         /\ task[a].pc \in {"cancel", "mark", "revert"} => req[task[a].r].st = "APPROVED"
         /\ task[a].pc \in {"cancel", "revert"} => task[a].was = req[task[a].r]
         /\ At(a, "revert") /\ a \notin stale =>
              company.plan = req[task[a].r].plan /\ company.started = req[task[a].r].at

Sole == IInv /\ Alone /\ Fresh

\* What the actions do to the tables, row by row.
LEMMA SubmitDoes ==
  ASSUME TypeOK, NEW r \in Request, NEW p \in Plan, Submit(r, p)
  PROVE  /\ req[r].st = "none" /\ \A q \in Request : q # r => req'[q] = req[q]
         /\ UNCHANGED <<company, task, stale, contested>>
  BY DEF TypeOK, Submit

LEMMA BeginRegisterDoes ==
  ASSUME TypeOK, NEW a \in Admin, NEW r \in Request, NEW p \in Plan, BeginRegister(a, r, p)
  PROVE  /\ At(a, "idle") /\ ~Others(a, r) /\ task'[a].pc = "register" /\ task'[a].r = r
         /\ \A o \in Admin : o # a => task'[o] = task[o]
         /\ UNCHANGED <<company, req, stale, contested>>
  BY DEF TypeOK, Task, BeginRegister

LEMMA BeginDoes ==
  ASSUME TypeOK, NEW a \in Admin, NEW r \in Request, NEW pc, Begin(a, r, pc)
  PROVE  /\ At(a, "idle") /\ task'[a].pc = pc /\ task'[a].r = r /\ (pc = "cancel" => task'[a].was = req[r])
         /\ \A o \in Admin : o # a => task'[o] = task[o]
         /\ contested' = IF Others(a, r) THEN contested \cup {r} ELSE contested
  <1>1. /\ task'[a].pc = pc /\ task'[a].r = r /\ task'[a].was = IF pc = "reject" THEN NoRow ELSE req[r]
        /\ \A o \in Admin : o # a => task'[o] = task[o]
    BY DEF TypeOK, Task, Begin
  <1> QED
    BY <1>1 DEF Begin

\* A handler that goes on with what it has.
LEMMA ReadCompanyDoes ==
  ASSUME TypeOK, NEW a \in Admin, ReadCompany(a)
  PROVE  /\ task[a].pc = "approve" /\ task'[a].pc = "activate" /\ task'[a].r = task[a].r
         /\ \A o \in Admin : o # a => task'[o] = task[o]
         /\ UNCHANGED <<company, req, stale, contested>>
  BY DEF TypeOK, Task, ReadCompany, At

LEMMA CompareDoes ==
  ASSUME TypeOK, NEW a \in Admin, Compare(a)
  PROVE  /\ task[a].pc = "cancel" /\ task'[a].r = task[a].r
         /\ \/ task'[a].pc = "revert" /\ task'[a].was = task[a].was /\ Unchanged(task[a].was)
            \/ task'[a].pc = "mark"
         /\ \A o \in Admin : o # a => task'[o] = task[o]
         /\ UNCHANGED <<company, req, stale, contested>>
  <1>1. CASE Unchanged(task[a].was)
    BY <1>1 DEF TypeOK, Task, Compare, At
  <1>2. CASE ~Unchanged(task[a].was)
    BY <1>2 DEF TypeOK, Task, Compare, At
  <1> QED
    BY <1>1, <1>2

LEMMA BeginEditDoes ==
  ASSUME TypeOK, NEW a \in Admin, NEW p, NEW dated, BeginEdit(a, p, dated)
  PROVE  /\ At(a, "idle") /\ task'[a].pc = "edit" /\ task'[a].r = task[a].r
         /\ \A o \in Admin : o # a => task'[o] = task[o]
         /\ UNCHANGED <<company, req, stale, contested>>
  BY DEF TypeOK, Task, BeginEdit

\* A handler that ends: it wrote its own request only, and whoever has compared
\* the company knows when the company was written.
TaskEnds(a) ==
  /\ task'[a].pc = "idle" /\ task'[a].r = None
  /\ \A o \in Admin : o # a => task'[o] = task[o]
  /\ contested' = contested
  /\ \A q \in Request : (q # task[a].r => req'[q] = req[q]) /\ (req'[q].st = "none" => req[q].st = "none")
  /\ \/ company' = company /\ \A o \in Admin : o # a => (o \in stale <=> o \in stale')
     \/ \A o \in Admin : o # a /\ At(o, "revert") => o \in stale'

LEMMA HandlerEnds ==
  ASSUME IInv, NEW a \in Admin,
         Register(a) \/ Activate(a) \/ Reject(a) \/ Mark(a) \/ Revert(a) \/ Refused(a) \/ Edit(a)
  PROVE  TaskEnds(a)
  <1>1. Leave(a) => task'[a].pc = "idle" /\ task'[a].r = None /\ \A o \in Admin : o # a => task'[o] = task[o]
    BY DEF IInv, TypeOK, Leave, Resting
  <1>2. ASSUME NEW c, Write(a, c) PROVE \A o \in Admin : o # a /\ At(o, "revert") => o \in stale'
    BY <1>2 DEF Write
  <1>3. CASE Register(a)
    BY <1>1, <1>2, <1>3 DEF Register, TaskEnds, IInv, TypeOK
  <1>4. CASE Activate(a)
    BY <1>1, <1>2, <1>4 DEF Activate, TaskEnds, IInv, TypeOK
  <1>5. CASE Reject(a)
    BY <1>1, <1>5 DEF Reject, TaskEnds, IInv, TypeOK
  <1>6. CASE Mark(a)
    BY <1>1, <1>6 DEF Mark, TaskEnds, IInv, TypeOK
  <1>7. CASE Revert(a)
    BY <1>1, <1>2, <1>7 DEF Revert, TaskEnds, IInv, TypeOK
  <1>8. CASE Refused(a)
    BY <1>1, <1>8 DEF Refused, GiveUp, TaskEnds
  <1>9. CASE Edit(a)
    BY <1>1, <1>2, <1>9 DEF Edit, TaskEnds
  <1> QED
    BY <1>3, <1>4, <1>5, <1>6, <1>7, <1>8, <1>9

LEMMA DeletePlanDoes ==
  ASSUME TypeOK, NEW p \in Plan, DeletePlan(p)
  PROVE  /\ \A q \in Request : \/ req'[q] = req[q] /\ (Exists(q) => req[q].plan # p)
                               \/ req'[q].st = "gone"
         /\ company.plan # p => company' = company
         /\ UNCHANGED <<task, stale, contested>>
  BY DEF TypeOK, DeletePlan, NoRow, Exists

LEMMA EndsKeep ==
  ASSUME Sole, NEW a \in Admin, TaskEnds(a)
  PROVE  Alone' /\ Fresh'
  <1>1. Alone'
    BY BillingAssumption DEF Sole, Alone, TaskEnds, At
  <1>2. ASSUME NEW o \in Admin, Mine(o)'
        PROVE  o # a /\ task'[o] = task[o] /\ Mine(o) /\ req'[task[o].r] = req[task[o].r]
    <2>1. o # a /\ task'[o] = task[o] /\ task[o].r \in Request \ contested
      BY <1>2, BillingAssumption DEF Mine, TaskEnds
    <2>2. task[a].r # task[o].r
      BY <1>2, <2>1 DEF Sole, Alone
    <2> QED
      BY <1>2, <2>1, <2>2 DEF Mine, Exists, TaskEnds
  <1>3. ASSUME NEW o \in Admin, task'[o].pc \in {"approve", "activate", "reject", "cancel", "mark", "revert"}
        PROVE  req'[task'[o].r].st # "none"
    <2>1. o # a /\ task'[o] = task[o]
      BY <1>3 DEF TaskEnds
    <2>2. task[o].r \in Request /\ req[task[o].r].st # "none"
      BY <1>3, <2>1 DEF Sole, Fresh, IInv, Tasks
    <2> QED
      BY <2>1, <2>2 DEF TaskEnds
  <1>4. ASSUME NEW o \in Admin, Mine(o)', At(o, "revert"), o \notin stale'
        PROVE  o \notin stale /\ company' = company
    BY <1>2, <1>4 DEF TaskEnds
  <1> QED
    BY <1>1, <1>2, <1>3, <1>4 DEF Sole, Fresh, TaskEnds, At

\* A request is begun: it was PENDING or APPROVED, and is contested if another has it open.
LEMMA BeginKeeps ==
  ASSUME Sole, NEW a \in Admin, NEW r \in Request, NEW pc, Begin(a, r, pc), UNCHANGED <<company, req, stale>>,
         \/ pc \in {"approve", "reject"} /\ req[r].st = "PENDING"
         \/ pc = "cancel" /\ req[r].st = "APPROVED"
  PROVE  Alone' /\ Fresh'
  <1>1. Alone'
    BY BeginDoes, BillingAssumption DEF Sole, IInv, Alone, At, Others
  <1>2. ASSUME NEW o \in Admin, o # a
        PROVE  task'[o] = task[o] /\ (Mine(o)' => Mine(o))
    BY <1>2, BeginDoes DEF Sole, IInv, Mine, Exists
  <1> QED
    BY <1>1, <1>2, BeginDoes DEF Sole, IInv, Fresh, Mine, At

LEMMA SoleStep ==
  ASSUME Sole, [Next]_vars
  PROVE  Sole'
  <1>t. IInv /\ TypeOK /\ IInv'
    BY NextKeeps DEF Sole, IInv
  <1> SUFFICES Alone' /\ Fresh'
    BY <1>t DEF Sole
  <1>1. ASSUME NEW r \in Request, NEW p \in Plan, Submit(r, p) PROVE Alone' /\ Fresh'
    <2>1. UNCHANGED <<company, task, stale, contested>> /\ req[r].st = "none"
          /\ \A q \in Request : q # r => req'[q] = req[q]
      BY <1>t, <1>1, SubmitDoes
    <2>2. \A a \in Admin : task[a].pc \in {"approve", "activate", "reject", "cancel", "mark", "revert"}
            => task[a].r \in Request /\ task[a].r # r
      BY <1>t, <2>1 DEF Sole, Fresh, IInv, Tasks
    <2> QED
      BY <2>1, <2>2 DEF Sole, Alone, Fresh, Mine, Exists, At
  <1>2. ASSUME NEW a \in Admin, NEW r \in Request, NEW p \in Plan, BeginRegister(a, r, p) PROVE Alone' /\ Fresh'
    <2>1. Alone'
      BY <1>t, <1>2, BeginRegisterDoes, BillingAssumption DEF Sole, Alone, At, Others
    <2>2. Fresh'
      BY <1>t, <1>2, BeginRegisterDoes DEF Sole, Fresh, Mine, Exists, At
    <2> QED
      BY <2>1, <2>2
  <1>3. ASSUME NEW a \in Admin, NEW r \in Request, BeginApprove(a, r) \/ BeginReject(a, r) \/ BeginCancel(a, r)
        PROVE  Alone' /\ Fresh'
    BY <1>3, BeginKeeps DEF BeginApprove, BeginReject, BeginCancel
  <1>4. ASSUME NEW a \in Admin, ReadCompany(a) PROVE Alone' /\ Fresh'
    <2>1. Alone'
      BY <1>t, <1>4, ReadCompanyDoes DEF Sole, Alone, At
    <2>2. Fresh'
      BY <1>t, <1>4, ReadCompanyDoes DEF Sole, Fresh, Mine, Exists, At
    <2> QED
      BY <2>1, <2>2
  <1>5. ASSUME NEW a \in Admin, Compare(a) PROVE Alone' /\ Fresh'
    <2>1. Alone'
      BY <1>t, <1>5, CompareDoes DEF Sole, Alone, At
    <2>2. \A o \in Admin : Mine(o)' => Mine(o)
      BY <1>t, <1>5, CompareDoes DEF Mine, Exists
    <2>3. Fresh'
      BY <1>t, <1>5, <2>2, CompareDoes DEF Sole, Fresh, At, Unchanged
    <2> QED
      BY <2>1, <2>3
  <1>6. ASSUME NEW a \in Admin, NEW p \in Plan \cup {None, "same"}, NEW dated \in BOOLEAN, BeginEdit(a, p, dated)
        PROVE  Alone' /\ Fresh'
    <2>1. Alone'
      BY <1>t, <1>6, BeginEditDoes DEF Sole, Alone, At
    <2>2. Fresh'
      BY <1>t, <1>6, BeginEditDoes DEF Sole, Fresh, Mine, Exists, At
    <2> QED
      BY <2>1, <2>2
  <1>7. ASSUME NEW a \in Admin,
               Register(a) \/ Activate(a) \/ Reject(a) \/ Mark(a) \/ Revert(a) \/ Refused(a) \/ Edit(a)
        PROVE  Alone' /\ Fresh'
    BY <1>t, <1>7, HandlerEnds, EndsKeep
  <1>8. ASSUME NEW p \in Plan, DeletePlan(p) PROVE Alone' /\ Fresh'
    <2>1. UNCHANGED <<task, stale, contested>>
      BY <1>t, <1>8, DeletePlanDoes
    <2>2. \A q \in Request : req[q].st # "none" => req'[q].st # "none"
      BY <1>t, <1>8, DeletePlanDoes
    <2>3. ASSUME NEW o \in Admin, Mine(o)'
          PROVE  Mine(o) /\ req'[task[o].r] = req[task[o].r] /\ req[task[o].r].plan # p
      BY <1>t, <1>8, <2>1, <2>3, DeletePlanDoes DEF Mine, Exists, Absent
    <2>4. \A o \in Admin : task[o].pc \in {"approve", "activate", "reject", "cancel", "mark", "revert"}
            => task[o].r \in Request
      BY <1>t DEF IInv, Tasks
    <2>5. company.plan # p => company' = company
      BY <1>t, <1>8, DeletePlanDoes
    <2>6. Alone'
      BY <2>1 DEF Sole, Alone, At
    <2>7. Fresh'
      BY <2>1, <2>2, <2>3, <2>4, <2>5 DEF Sole, Fresh, At
    <2> QED
      BY <2>6, <2>7
  <1>9. CASE UNCHANGED vars
    BY <1>9 DEF vars, Sole, Alone, Fresh, Mine, Exists, At
  <1> QED
    BY <1>1, <1>2, <1>3, <1>4, <1>5, <1>6, <1>7, <1>8, <1>9 DEF Next

LEMMA SoleInit ==
  ASSUME Init PROVE Sole
  BY InitHolds, BillingAssumption DEF Init, Sole, Alone, Fresh, Mine, At, Resting

\* The handler a, and the state it changes its request r to.
Changes(a, r) ==
  /\ task[a].r = r
  /\ \/ At(a, "activate") /\ req'[r].st = "APPROVED"
     \/ At(a, "reject") /\ req'[r].st = "REJECTED"
     \/ At(a, "mark") /\ req'[r].st = "CANCELLED" /\ company' = company
     \/ At(a, "revert") /\ req'[r].st = "CANCELLED" /\ company' = task[a].was.prev

\* A request that exists and becomes another that exists was changed by its handler.
LEMMA WhoChanges ==
  ASSUME IInv, [Next]_vars, NEW r \in Request, Exists(r), req'[r].st \notin Absent, req'[r].st # req[r].st
  PROVE  \E a \in Admin : Changes(a, r)
  <1>t. TypeOK
    BY DEF IInv
  <1>1. ASSUME NEW q \in Request, NEW p \in Plan, Submit(q, p) PROVE FALSE
    BY <1>t, <1>1, SubmitDoes DEF Exists, Absent
  <1>2. ASSUME NEW a \in Admin, Register(a) PROVE FALSE
    BY <1>2 DEF IInv, TypeOK, Register, Exists, Absent
  <1>3. ASSUME NEW a \in Admin, Activate(a) PROVE Changes(a, r)
    BY <1>3 DEF IInv, TypeOK, Row, Activate, Changes
  <1>4. ASSUME NEW a \in Admin, Reject(a) PROVE Changes(a, r)
    BY <1>4 DEF IInv, TypeOK, Row, Reject, Changes
  <1>5. ASSUME NEW a \in Admin, Mark(a) PROVE Changes(a, r)
    BY <1>5 DEF IInv, TypeOK, Row, Mark, Changes
  <1>6. ASSUME NEW a \in Admin, Revert(a) PROVE Changes(a, r)
    BY <1>6 DEF IInv, TypeOK, Row, Revert, Write, Changes
  <1>7. ASSUME NEW p \in Plan, DeletePlan(p) PROVE FALSE
    BY <1>t, <1>7, DeletePlanDoes DEF Absent
  <1> QED
    BY ZenonT(60), <1>1, <1>2, <1>3, <1>4, <1>5, <1>6, <1>7
       DEF Next, vars, BeginRegister, BeginApprove, BeginReject, BeginCancel, ReadCompany, Compare,
           Refused, GiveUp, Edit, BeginEdit

\* A payment is reviewed once: only a PENDING one is approved or rejected and only
\* an APPROVED one cancelled, unless two superadmins had it open at once.
THEOREM ReviewedOnceHolds == Spec => ReviewedOnce
  <1> DEFINE Reviewed ==
        \A r \in Request : Exists(r) /\ req'[r].st \notin Absent /\ req'[r].st # req[r].st /\ r \notin contested
          => <<req[r].st, req'[r].st>> \in {<<"PENDING", "APPROVED">>, <<"PENDING", "REJECTED">>,
                                             <<"APPROVED", "CANCELLED">>}
  <1>1. ASSUME Sole, [Next]_vars, NEW r \in Request,
               Exists(r), req'[r].st \notin Absent, req'[r].st # req[r].st, r \notin contested
        PROVE  <<req[r].st, req'[r].st>> \in {<<"PENDING", "APPROVED">>, <<"PENDING", "REJECTED">>,
                                              <<"APPROVED", "CANCELLED">>}
    <2>t. IInv /\ TypeOK
      BY <1>1 DEF Sole, IInv
    <2>1. PICK a \in Admin : Changes(a, r)
      BY <1>1, <2>t, WhoChanges
    <2> QED
      BY <1>1, <2>1, <2>t DEF Sole, Fresh, Mine, Changes, At
  <1>2. Sole /\ [Next]_vars => [Reviewed]_vars
    BY <1>1 DEF vars
  <1> QED
    BY SoleInit, SoleStep, <1>2, PTL DEF Spec, ReviewedOnce

\* A cancellation that changes the company found it where the approval had put it
\* and puts back what the approval had found, unless somebody wrote in between.
THEOREM CancelTakesBackHolds == Spec => CancelTakesBack
  <1> DEFINE TakesBack ==
        \A r \in Request : req[r].st = "APPROVED" /\ req'[r].st \notin Absent /\ req'[r].st = "CANCELLED"
                            /\ company' # company /\ stale = {} /\ r \notin contested
          => /\ company.started = req[r].at /\ company.plan = req[r].plan
             /\ company' = req[r].prev
  <1>1. ASSUME Sole, [Next]_vars, NEW r \in Request,
               req[r].st = "APPROVED", req'[r].st = "CANCELLED",
               company' # company, stale = {}, r \notin contested
        PROVE  /\ company.started = req[r].at /\ company.plan = req[r].plan
               /\ company' = req[r].prev
    <2>t. IInv /\ TypeOK
      BY <1>1 DEF Sole, IInv
    <2>1. PICK a \in Admin : Changes(a, r)
      BY <1>1, <2>t, WhoChanges DEF Exists, Absent
    <2>2. At(a, "revert") /\ company' = task[a].was.prev
      BY <1>1, <2>1 DEF Changes
    <2> QED
      BY <1>1, <2>1, <2>2, <2>t DEF Sole, Fresh, Mine, Changes, Exists, Absent, At
  <1>2. Sole /\ [Next]_vars => [TakesBack]_vars
    BY <1>1 DEF vars
  <1> QED
    BY SoleInit, SoleStep, <1>2, PTL DEF Spec, CancelTakesBack

-----------------------------------------------------------------------------
(* The accounts. *)

\* An identity has an account, or entered it as a guest.
Has(g, u) == <<g, u>> \in guests \/ (user[u] # Null /\ user[u].google = g)

\* What a refused request was told.
Told(v) ==
  IF v.why = "email" THEN Clash(v.form) \/ \E u \in Present : <<v.form.google, u>> \in guests
  ELSE \E u \in Present : user[u].slug = v.slug

\* What a request holds is true of the table.
Sound(v) ==
  /\ v.at \in {"ticket", "link", "open"} => user[v.user] # Null
  /\ v.at = "open" => Has(v.google, v.user)
  /\ v.at = "refused" => Told(v)

VisitsSound == \A c \in Client : Sound(visit[c])
SessionsSound == \A g \in Google, u \in Ids : <<g, u>> \in sessions => Has(g, u)

\* Requests that mark a plan, and the plans that are marked or will be.
Marking == {c \in Client : visit[c].at = "mark"}
Planned == offered \cup {visit[c].plan : c \in Marking}
MarksCounted ==
  /\ \A c, d \in Marking \ marked : c = d
  /\ IsFiniteSet(Planned) /\ Cardinality(Planned) <= 1 + Cardinality(marked)

AccountsInv == AccountsTypeOK /\ VisitsSound /\ SessionsSound /\ NoneShared /\ MarksCounted

\* No step takes an account, its address or its slug away, and one that takes its identity
\* writes it down.
Grows ==
  /\ guests \subseteq guests'
  /\ \A u \in Ids : user[u] # Null =>
       /\ user'[u] # Null /\ user'[u].email = user[u].email /\ user'[u].slug = user[u].slug
       /\ \/ user'[u].google = user[u].google \/ user[u].google = Null
          \/ <<user[u].google, u>> \in guests'

-----------------------------------------------------------------------------
(* The records. *)

LEMMA VisitFields ==
  ASSUME NEW v \in Errand
  PROVE  /\ v.at \in {"naming", "named"} => v.form \in Forms /\ v.slug \in Slug
         /\ v.at = "signup" => v.form \in Forms
         /\ v.at = "refused" => v.form \in Forms
         /\ v.at \in {"ticket", "link", "open"} => v.google \in Google /\ v.user \in Ids
         /\ v.at = "mark" => v.plan \in Offer
BY DEF Errand, Idle

\* The steps of a name, and of a ticket.
LEMMA VisitMoves ==
  ASSUME AccountsAssumption, NEW v \in Errand
  PROVE  /\ v.at = "naming" =>
              /\ [v EXCEPT !.at = "named"] \in Errand /\ [v EXCEPT !.at = "named"].at = "named"
              /\ v.slug <= MaxAttempt =>
                   [v EXCEPT !.slug = @ + 1] \in Errand /\ [v EXCEPT !.slug = @ + 1].at = "naming"
         /\ \A a \in {"link", "open"} : v.at \in {"ticket", "link"} =>
              LET w == [v EXCEPT !.at = a] IN
              w \in Errand /\ w.at = a /\ w.google = v.google /\ w.user = v.user
<1>1. CASE v.at = "naming"
  <2>1. v \in [at : {"naming", "named"}, form : Forms, slug : Slug]
    BY <1>1 DEF Errand, Idle
  <2>2. [v EXCEPT !.at = "named"] \in [at : {"naming", "named"}, form : Forms, slug : Slug]
    BY <2>1
  <2>3. ASSUME v.slug <= MaxAttempt
        PROVE  [v EXCEPT !.slug = @ + 1] \in [at : {"naming", "named"}, form : Forms, slug : Slug]
    <3>1. v.slug + 1 \in Slug
      BY <2>1, <2>3 DEF Slug, AccountsAssumption
    <3>2. QED
      BY <2>1, <3>1
  <2>4. QED
    BY <1>1, <2>1, <2>2, <2>3 DEF Errand
<1>2. CASE v.at \in {"ticket", "link"}
  <2>1. v \in [at : {"ticket", "link", "open"}, google : Google, user : Ids]
    BY <1>2 DEF Errand, Idle
  <2>2. ASSUME NEW a \in {"link", "open"}
        PROVE  LET w == [v EXCEPT !.at = a] IN
               w \in [at : {"ticket", "link", "open"}, google : Google, user : Ids]
                 /\ w.at = a /\ w.google = v.google /\ w.user = v.user
    BY <2>1
  <2>3. QED
    BY <1>2, <2>2 DEF Errand
<1>3. QED
  BY <1>1, <1>2

LEMMA VisitMade ==
  /\ Idle \in Errand
  /\ \A f \in Forms :
       /\ [at |-> "naming", form |-> f, slug |-> 1] \in Errand \/ 1 \notin Slug
       /\ [at |-> "signup", form |-> f] \in Errand
       /\ \A w \in {"email", "slug"}, s \in Slug \cup {0} :
            [at |-> "refused", why |-> w, form |-> f, slug |-> s] \in Errand
  /\ \A g \in Google, u \in Ids : [at |-> "ticket", google |-> g, user |-> u] \in Errand
  /\ \A p \in Offer : [at |-> "mark", plan |-> p] \in Errand
BY DEF Errand

LEMMA Counting == ASSUME AccountsAssumption PROVE 1 \in Slug
BY DEF AccountsAssumption, Slug

LEMMA FormMade == ASSUME NEW e \in Email, NEW g \in Google \cup {Null} PROVE Form(e, g) \in Forms
BY DEF Form, Forms

-----------------------------------------------------------------------------
(* What is true of the table stays true while the table grows. *)

LEMMA HasKept ==
  ASSUME AccountsAssumption, Grows, NEW g \in Google, NEW u \in Ids, Has(g, u)
  PROVE  Has(g, u)'
BY DEF Has, Grows, AccountsAssumption

LEMMA PresentKept == ASSUME Grows PROVE Present \subseteq Present'
BY DEF Grows, Present

LEMMA ToldKept ==
  ASSUME AccountsAssumption, Grows, NEW v \in Errand, v.at = "refused", Told(v)
  PROVE  Told(v)'
<1>1. Present \subseteq Present' /\ Present \subseteq Ids /\ guests \subseteq guests'
  BY PresentKept DEF Present, Grows
<1>2. CASE v.why = "email" /\ \E u \in Present : <<v.form.google, u>> \in guests
  BY <1>1, <1>2 DEF Told
<1>3. CASE v.why = "email" /\ Clash(v.form)
  <2>1. PICK u \in Present : user[u].email = v.form.email
                          \/ (v.form.google # Null /\ user[u].google = v.form.google)
    BY <1>3 DEF Clash
  <2>2. u \in Present' /\ user'[u].email = user[u].email
        /\ (user'[u].google = user[u].google \/ user[u].google = Null \/ <<user[u].google, u>> \in guests')
    BY <2>1, <1>1 DEF Grows, Present
  <2>3. CASE user'[u].email = v.form.email \/ (v.form.google # Null /\ user'[u].google = v.form.google)
    BY <1>3, <2>2, <2>3 DEF Told, Clash
  <2>4. CASE v.form.google # Null /\ user[u].google = v.form.google /\ <<user[u].google, u>> \in guests'
    BY <1>3, <2>2, <2>4 DEF Told
  <2>5. QED
    BY <2>1, <2>2, <2>3, <2>4
<1>4. CASE v.why # "email"
  <2>1. PICK u \in Present : user[u].slug = v.slug
    BY <1>4 DEF Told
  <2>2. u \in Present' /\ user'[u].slug = v.slug
    BY <2>1, <1>1 DEF Grows, Present
  <2>3. QED
    BY <1>4, <2>2 DEF Told
<1>5. QED
  BY <1>2, <1>3, <1>4 DEF Told

LEMMA SoundKept ==
  ASSUME AccountsAssumption, Grows, NEW v \in Errand, Sound(v)
  PROVE  Sound(v)'
<1>1. v.at \in {"ticket", "link", "open"} => user'[v.user] # Null
  BY VisitFields DEF Sound, Grows
<1>2. v.at = "open" => Has(v.google, v.user)'
  BY VisitFields, HasKept DEF Sound
<1>3. v.at = "refused" => Told(v)'
  BY ToldKept DEF Sound
<1>4. QED
  BY <1>1, <1>2, <1>3 DEF Sound

\* One request moves on, which marks no plan.
LEMMA Moves ==
  ASSUME AccountsAssumption, AccountsInv, Grows,
         NEW c \in Client, NEW v \in Errand, visit' = [visit EXCEPT ![c] = v],
         Sound(v)', visit[c].at # "mark", v.at # "mark", UNCHANGED <<offered, marked>>
  PROVE  visit' \in [Client -> Errand] /\ VisitsSound' /\ MarksCounted'
<1>1. visit \in [Client -> Errand]
  BY DEF AccountsInv, AccountsTypeOK
<1>2. visit'[c] = v /\ \A d \in Client \ {c} : visit'[d] = visit[d]
  BY <1>1
<1>3. visit' \in [Client -> Errand]
  BY <1>1
<1>4. ASSUME NEW d \in Client PROVE Sound(visit[d])'
  <2>1. CASE d = c
    <3>1. Sound(visit[d])' <=> Sound(v)'
      BY <1>2, <2>1 DEF Sound, Told, Has, Clash, Present
    <3>2. QED
      BY <3>1
  <2>2. CASE d # c
    <3>1. \A w \in Errand : Sound(w) => Sound(w)'
      BY SoundKept
    <3>2. visit[d] \in Errand /\ Sound(visit[d]) /\ visit'[d] = visit[d]
      BY <1>1, <1>2, <2>2 DEF AccountsInv, VisitsSound
    <3>3. PICK w \in Errand : w = visit[d]
      BY <3>2
    <3>4. Sound(w)
      BY <3>2, <3>3
    <3>5. Sound(w)'
      BY <3>1, <3>4
    <3>6. Sound(visit[d])' <=> Sound(w)'
      BY <3>2, <3>3 DEF Sound, Told, Has, Clash, Present
    <3>7. QED
      BY <3>5, <3>6
  <2>3. QED
    BY <2>1, <2>2
<1>5. Marking' = Marking /\ \A d \in Marking : visit'[d] = visit[d]
  BY <1>2 DEF Marking
<1>6. Planned' = Planned
  BY <1>5 DEF Planned
<1>7. MarksCounted'
  BY <1>5, <1>6 DEF AccountsInv, MarksCounted
<1>8. QED
  BY <1>3, <1>4, <1>7 DEF VisitsSound

-----------------------------------------------------------------------------
(* Steps of a request that leave the table alone. *)

LEMMA Quiet ==
  ASSUME AccountsAssumption, AccountsInv, UNCHANGED <<user, sessions, guests>>, Keeps, came' \in 0..MaxTasks,
         NEW c \in Client, NEW v \in Errand, visit' = [visit EXCEPT ![c] = v],
         Sound(v), visit[c].at # "mark", v.at # "mark"
  PROVE  AccountsInv'
<1>1. Grows
  BY DEF Grows, AccountsInv, AccountsTypeOK
<1>2. Sound(v)'
  BY <1>1, SoundKept
<1>3. visit' \in [Client -> Errand] /\ VisitsSound' /\ MarksCounted'
  BY <1>1, <1>2, Moves DEF Keeps
<1>4. AccountsTypeOK'
  BY <1>3 DEF AccountsInv, AccountsTypeOK, Keeps
<1>5. SessionsSound' /\ NoneShared'
  BY DEF AccountsInv, SessionsSound, NoneShared, Has, Present
<1>6. QED
  BY <1>3, <1>4, <1>5 DEF AccountsInv

\* Records that promise nothing of the table.
LEMMA SoundMade ==
  ASSUME NEW v, v.at \notin {"ticket", "link", "open", "refused"}
  PROVE  Sound(v)
BY DEF Sound

LEMMA CameKept ==
  ASSUME AccountsInv
  PROVE  came \in 0..MaxTasks
BY DEF AccountsInv, AccountsTypeOK

LEMMA NewTaskCounts ==
  ASSUME AccountsAssumption, AccountsInv, NEW c \in Client, NewTask(c)
  PROVE  came' \in 0..MaxTasks /\ visit[c].at = "idle"
BY DEF AccountsInv, AccountsTypeOK, NewTask, Idle, AccountsAssumption

LEMMA RefusedTold ==
  ASSUME AccountsAssumption, NEW f \in Forms, NEW w \in {"email", "slug"}, NEW s \in Slug \cup {0},
         IF w = "email" THEN Clash(f) ELSE \E u \in Present : user[u].slug = s
  PROVE  LET v == [at |-> "refused", why |-> w, form |-> f, slug |-> s] IN
         v \in Errand /\ Sound(v) /\ v.at = "refused"
<1> DEFINE v == [at |-> "refused", why |-> w, form |-> f, slug |-> s]
<1>1. v.at = "refused" /\ v.why = w /\ v.form = f /\ v.slug = s
  OBVIOUS
<1>2. v \in Errand
  BY VisitMade
<1> HIDE DEF v
<1>3. Told(v)
  BY <1>1 DEF Told
<1>4. Sound(v)
  BY <1>1, <1>3 DEF Sound
<1> USE DEF v
<1>5. QED
  BY <1>1, <1>2, <1>4

\* FindUser, for a form or a signup ticket.
LEMMA FindUserKeeps ==
  ASSUME AccountsAssumption, AccountsInv, UNCHANGED <<user, sessions, guests>>, Keeps, came' \in 0..MaxTasks,
         NEW c \in Client, visit[c].at # "mark", NEW f \in Forms, FindUser(c, f)
  PROVE  AccountsInv'
<1>1. CASE \E u \in Present : user[u].email = f.email
  <2> DEFINE v == [at |-> "refused", why |-> "email", form |-> f, slug |-> 0]
  <2>1. Clash(f)
    BY <1>1 DEF Clash
  <2>2. v \in Errand /\ Sound(v) /\ v.at = "refused"
    BY <2>1, RefusedTold
  <2>3. visit' = [visit EXCEPT ![c] = v]
    BY <1>1 DEF FindUser, TurnedAway, Ends
  <2> HIDE DEF v
  <2>4. QED
    BY <2>2, <2>3, Quiet
<1>2. CASE ~ \E u \in Present : user[u].email = f.email
  <2> DEFINE v == [at |-> "naming", form |-> f, slug |-> 1]
  <2>1. v \in Errand /\ v.at = "naming"
    BY VisitMade, Counting
  <2>2. visit' = [visit EXCEPT ![c] = v]
    BY <1>2 DEF FindUser, Goes
  <2> HIDE DEF v
  <2>3. QED
    BY <2>1, <2>2, SoundMade, Quiet
<1>3. QED
  BY <1>1, <1>2

LEMMA CompanyFoundKeeps ==
  ASSUME AccountsAssumption, AccountsInv, NEW c \in Client, NEW e \in Email, RegisterCompany(c, e)
  PROVE  AccountsInv'
<1>1. Form(e, Null) \in Forms
  BY FormMade
<1>2. came' \in 0..MaxTasks /\ visit[c].at # "mark" /\ FindUser(c, Form(e, Null))
  BY NewTaskCounts DEF RegisterCompany
<1>3. UNCHANGED <<user, sessions, guests>> /\ Keeps
  BY DEF RegisterCompany
<1>4. PICK f \in Forms : f = Form(e, Null)
  BY <1>1
<1>5. QED
  BY <1>2, <1>3, <1>4, FindUserKeeps

LEMMA SignUpKeeps ==
  ASSUME AccountsAssumption, AccountsInv, NEW c \in Client, SignUp(c)
  PROVE  AccountsInv'
<1>1. visit[c] \in Errand /\ visit[c].at = "signup"
  BY DEF AccountsInv, AccountsTypeOK, SignUp
<1>2. visit[c].form \in Forms
  BY <1>1, VisitFields
<1>3. came' \in 0..MaxTasks /\ FindUser(c, visit[c].form) /\ UNCHANGED <<user, sessions, guests>> /\ Keeps
  BY CameKept DEF SignUp
<1>4. PICK f \in Forms : f = visit[c].form
  BY <1>2
<1>5. QED
  BY <1>1, <1>3, <1>4, FindUserKeeps

LEMMA TrySlugKeeps ==
  ASSUME AccountsAssumption, AccountsInv, NEW c \in Client, TrySlug(c)
  PROVE  AccountsInv'
<1>1. visit[c] \in Errand /\ visit[c].at = "naming" /\ visit[c].slug <= MaxAttempt
  BY DEF AccountsInv, AccountsTypeOK, TrySlug
<1>2. came' \in 0..MaxTasks /\ UNCHANGED <<user, sessions, guests>> /\ Keeps
  BY CameKept DEF TrySlug
<1>3. PICK v \in Errand : visit' = [visit EXCEPT ![c] = v] /\ v.at \in {"naming", "named"}
  BY <1>1, VisitMoves DEF TrySlug, Goes
<1>4. Sound(v)
  BY <1>3, SoundMade
<1>5. QED
  BY <1>1, <1>2, <1>3, <1>4, Quiet

LEMMA CallbackKeeps ==
  ASSUME AccountsAssumption, AccountsInv, NEW c \in Client, NEW g \in Google, Callback(c, g)
  PROVE  AccountsInv'
<1>1. came' \in 0..MaxTasks /\ visit[c].at # "mark" /\ UNCHANGED <<user, sessions, guests>> /\ Keeps
  BY NewTaskCounts DEF Callback
<1>2. CASE Goes(c, [at |-> "signup", form |-> Form(address[g], g)])
  <2> DEFINE v == [at |-> "signup", form |-> Form(address[g], g)]
  <2>1. Form(address[g], g) \in Forms
    BY FormMade DEF AccountsInv, AccountsTypeOK
  <2>2. v \in Errand /\ v.at = "signup" /\ visit' = [visit EXCEPT ![c] = v]
    BY <1>2, <2>1, VisitMade DEF Goes
  <2> HIDE DEF v
  <2>3. QED
    BY <1>1, <2>2, SoundMade, Quiet
<1>3. CASE \E u \in Matches(g) : Goes(c, [at |-> "ticket", google |-> g, user |-> u])
  <2>1. PICK u \in Matches(g) : Goes(c, [at |-> "ticket", google |-> g, user |-> u])
    BY <1>3
  <2> DEFINE v == [at |-> "ticket", google |-> g, user |-> u]
  <2>2. u \in Ids /\ user[u] # Null
    BY <2>1 DEF Matches, Present
  <2>3. v \in Errand /\ v.at = "ticket" /\ v.user = u /\ visit' = [visit EXCEPT ![c] = v]
    BY <2>1, <2>2, VisitMade DEF Goes
  <2> HIDE DEF v
  <2>4. Sound(v)
    BY <2>2, <2>3 DEF Sound
  <2>5. QED
    BY <1>1, <2>3, <2>4, Quiet
<1>4. QED
  BY <1>2, <1>3 DEF Callback

-----------------------------------------------------------------------------
(* Steps that write the table, or write a guest down. *)

\* The pairs written down are typed, and only grow.
LEMMA ExchangeKeeps ==
  ASSUME AccountsAssumption, AccountsInv, NEW c \in Client, Exchange(c)
  PROVE  AccountsInv'
<1> DEFINE g == visit[c].google  u == visit[c].user
<1>1. visit[c] \in Errand /\ visit[c].at = "ticket" /\ Sound(visit[c])
  BY DEF AccountsInv, AccountsTypeOK, VisitsSound, Exchange
<1>2. g \in Google /\ u \in Ids
  BY <1>1, VisitFields
<1>3. user[u] # Null
  BY <1>1 DEF Sound
<1>4. came' \in 0..MaxTasks /\ UNCHANGED <<user, sessions>> /\ Keeps
  BY CameKept DEF Exchange
<1>5. CASE ~ user[u].active
  <2>1. visit' = [visit EXCEPT ![c] = Idle] /\ UNCHANGED guests
    BY <1>5 DEF Exchange, Ends
  <2>2. Idle \in Errand /\ Idle.at = "idle"
    BY VisitMade DEF Idle
  <2>3. PICK v \in Errand : v = Idle /\ v.at = "idle"
    BY <2>2
  <2>4. QED
    BY <1>1, <1>4, <2>1, <2>3, SoundMade, Quiet
<1>6. CASE user[u].active
  <2>1. guests' = guests \cup {<<g, u>> : h \in AnotherThan(u, g)}
    BY <1>6 DEF Exchange
  <2>2. PICK v \in Errand :
          /\ visit' = [visit EXCEPT ![c] = v] /\ v.google = g /\ v.user = u
          /\ v.at = IF user[u].google = Null THEN "link" ELSE "open"
    <3> DEFINE a == IF user[u].google = Null THEN "link" ELSE "open"
               w == [visit[c] EXCEPT !.at = a]
    <3>1. a \in {"link", "open"}
      OBVIOUS
    <3>2. visit' = [visit EXCEPT ![c] = w]
      BY <1>6 DEF Exchange, Goes
    <3> HIDE DEF a
    <3>3. w \in Errand /\ w.at = a /\ w.google = g /\ w.user = u
      BY <1>1, <3>1, VisitMoves
    <3> HIDE DEF w
    <3>4. QED
      BY <3>2, <3>3 DEF a
  <2>3. Grows
    BY <1>4, <2>1 DEF Grows
  <2>4. v.at = "open" => Has(g, u)'
    BY <1>3, <1>4, <2>1, <2>2 DEF Has, AnotherThan
  <2>5. Sound(v)'
    BY <1>3, <1>4, <2>2, <2>4 DEF Sound
  <2>6. visit' \in [Client -> Errand] /\ VisitsSound' /\ MarksCounted'
    BY <1>1, <1>4, <2>2, <2>3, <2>5, Moves DEF Keeps
  <2>7. sessions' \cup guests' \subseteq Google \X Ids
    BY <1>2, <1>4, <2>1 DEF AccountsInv, AccountsTypeOK
  <2>8. AccountsTypeOK'
    BY <1>4, <2>6, <2>7 DEF AccountsInv, AccountsTypeOK, Keeps
  <2>9. SessionsSound' /\ NoneShared'
    BY <1>4, <2>1 DEF AccountsInv, SessionsSound, NoneShared, Has, Present
  <2>10. QED
    BY <2>6, <2>8, <2>9 DEF AccountsInv
<1>7. QED
  BY <1>5, <1>6

LEMMA LinkKeeps ==
  ASSUME AccountsAssumption, AccountsInv, NEW c \in Client, Link(c)
  PROVE  AccountsInv'
<1> DEFINE g == visit[c].google  u == visit[c].user
<1>1. visit[c] \in Errand /\ visit[c].at = "link" /\ Sound(visit[c])
  BY DEF AccountsInv, AccountsTypeOK, VisitsSound, Link
<1>2. g \in Google /\ u \in Ids
  BY <1>1, VisitFields
<1>3. user[u] # Null
  BY <1>1 DEF Sound
<1>4. came' \in 0..MaxTasks /\ UNCHANGED sessions /\ Keeps
  BY CameKept DEF Link
<1>5. CASE \E v \in Present \ {u} : user[v].google = g
  <2>1. visit' = [visit EXCEPT ![c] = Idle] /\ UNCHANGED <<user, guests>>
    BY <1>5 DEF Link, Ends
  <2>2. PICK v \in Errand : v = Idle /\ v.at = "idle"
    BY VisitMade DEF Idle
  <2>3. QED
    BY <1>1, <1>4, <2>1, <2>2, SoundMade, Quiet
<1>6. CASE ~ \E v \in Present \ {u} : user[v].google = g
  <2>1. guests' = guests \cup {<<h, u>> : h \in AnotherThan(u, g)} /\ user' = [user EXCEPT ![u].google = g]
    BY <1>6 DEF Link
  <2>2. PICK v \in Errand : visit' = [visit EXCEPT ![c] = v] /\ v.google = g /\ v.user = u /\ v.at = "open"
    BY <1>1, <1>6, VisitMoves DEF Link, Goes
  <2>3. user \in [Ids -> AccountRow \cup {Null}] /\ user[u] \in AccountRow
    BY <1>2, <1>3 DEF AccountsInv, AccountsTypeOK
  <2>4. [user[u] EXCEPT !.google = g] \in AccountRow
    BY <1>2, <2>3 DEF AccountRow
  <2>5. user' \in [Ids -> AccountRow \cup {Null}]
    BY <2>1, <2>3, <2>4
  <2>6. /\ user'[u] # Null /\ user'[u].google = g
        /\ user'[u].email = user[u].email /\ user'[u].slug = user[u].slug
        /\ \A w \in Ids \ {u} : user'[w] = user[w]
    <3>1. user'[u] = [user[u] EXCEPT !.google = g] /\ \A w \in Ids \ {u} : user'[w] = user[w]
      BY <1>2, <2>1, <2>3
    <3>2. user'[u] \in AccountRow
      BY <2>4, <3>1
    <3>3. user'[u] # Null
      BY <3>2 DEF AccountsAssumption
    <3>4. user'[u].google = g /\ user'[u].email = user[u].email /\ user'[u].slug = user[u].slug
      BY <2>3, <3>1 DEF AccountRow
    <3>5. QED
      BY <3>1, <3>3, <3>4
  <2>7. Grows
    <3>1. user[u].google = g \/ user[u].google = Null \/ <<user[u].google, u>> \in guests'
      BY <2>1 DEF AnotherThan
    <3>2. ASSUME NEW w \in Ids, user[w] # Null
          PROVE  /\ user'[w] # Null /\ user'[w].email = user[w].email /\ user'[w].slug = user[w].slug
                 /\ \/ user'[w].google = user[w].google \/ user[w].google = Null
                    \/ <<user[w].google, w>> \in guests'
      BY <2>6, <3>1, <3>2
    <3>3. QED
      BY <2>1, <3>2 DEF Grows
  <2>8. Sound(v)'
    BY <2>2, <2>6 DEF Sound, Has
  <2>9. visit' \in [Client -> Errand] /\ VisitsSound' /\ MarksCounted'
    BY <1>1, <1>4, <2>2, <2>7, <2>8, Moves DEF Keeps
  <2>10. sessions' \cup guests' \subseteq Google \X Ids
    <3>1. AnotherThan(u, g) \subseteq Google
      BY <2>3 DEF AnotherThan, AccountRow
    <3>2. QED
      BY <1>2, <1>4, <2>1, <3>1 DEF AccountsInv, AccountsTypeOK
  <2>11. AccountsTypeOK'
    BY <1>4, <2>5, <2>9, <2>10 DEF AccountsInv, AccountsTypeOK, Keeps
  <2>12. SessionsSound'
    BY <1>4, <2>7, HasKept DEF AccountsInv, SessionsSound
  <2>13. NoneShared'
    <3>1. Present' = Present /\ Present \subseteq Ids /\ u \in Present
      BY <1>2, <1>3, <2>6 DEF Present
    <3>2. ASSUME NEW a \in Present, NEW b \in Present, a # b
          PROVE  /\ user'[a].email # user'[b].email /\ user'[a].slug # user'[b].slug
                 /\ user'[a].google = Null \/ user'[a].google # user'[b].google
      <4>1. /\ user[a].email # user[b].email /\ user[a].slug # user[b].slug
            /\ user[a].google = Null \/ user[a].google # user[b].google
        BY <3>2 DEF AccountsInv, NoneShared
      <4>2. user'[a].email = user[a].email /\ user'[b].email = user[b].email
            /\ user'[a].slug = user[a].slug /\ user'[b].slug = user[b].slug
        BY <2>6, <3>1
      <4>3. user'[a].google = Null \/ user'[a].google # user'[b].google
        <5>1. CASE a = u
          BY <1>6, <2>6, <3>1, <3>2, <5>1
        <5>2. CASE b = u
          BY <1>6, <2>6, <3>1, <3>2, <5>2
        <5>3. CASE a # u /\ b # u
          BY <2>6, <3>1, <4>1, <5>3
        <5>4. QED
          BY <5>1, <5>2, <5>3
      <4>4. QED
        BY <4>1, <4>2, <4>3
    <3>3. QED
      BY <3>1, <3>2 DEF NoneShared
  <2>14. QED
    BY <2>9, <2>11, <2>12, <2>13 DEF AccountsInv
<1>7. QED
  BY <1>5, <1>6

LEMMA OpenKeeps ==
  ASSUME AccountsAssumption, AccountsInv, NEW c \in Client, OpenAccount(c)
  PROVE  AccountsInv'
<1> DEFINE g == visit[c].google  u == visit[c].user
<1>1. visit[c] \in Errand /\ visit[c].at = "open" /\ Sound(visit[c])
  BY DEF AccountsInv, AccountsTypeOK, VisitsSound, OpenAccount
<1>2. g \in Google /\ u \in Ids /\ Has(g, u)
  BY <1>1, VisitFields DEF Sound
<1>3. /\ came' \in 0..MaxTasks /\ UNCHANGED <<user, guests>> /\ Keeps
      /\ sessions' = sessions \cup {<<g, u>>} /\ visit' = [visit EXCEPT ![c] = Idle]
  BY CameKept DEF OpenAccount, Ends
<1>4. Grows
  BY <1>3 DEF Grows
<1>5. PICK v \in Errand : v = Idle /\ v.at = "idle"
  BY VisitMade DEF Idle
<1>6. Sound(v)'
  BY <1>5 DEF Sound
<1>7. visit' \in [Client -> Errand] /\ VisitsSound' /\ MarksCounted'
  BY <1>1, <1>3, <1>4, <1>5, <1>6, Moves DEF Keeps
<1>8. sessions' \cup guests' \subseteq Google \X Ids
  BY <1>2, <1>3 DEF AccountsInv, AccountsTypeOK
<1>9. AccountsTypeOK'
  BY <1>3, <1>7, <1>8 DEF AccountsInv, AccountsTypeOK, Keeps
<1>10. SessionsSound' /\ NoneShared'
  BY <1>2, <1>3 DEF AccountsInv, SessionsSound, NoneShared, Has, Present
<1>11. QED
  BY <1>7, <1>9, <1>10 DEF AccountsInv

\* The transaction of a registration.
LEMMA CreateKeeps ==
  ASSUME AccountsAssumption, AccountsInv, NEW c \in Client, Create(c)
  PROVE  AccountsInv'
<1> DEFINE f == visit[c].form  s == visit[c].slug
<1>1. visit[c] \in Errand /\ visit[c].at = "named"
  BY DEF AccountsInv, AccountsTypeOK, Create
<1>2. f \in Forms /\ s \in Slug
  BY <1>1, VisitFields
<1>3. came' \in 0..MaxTasks /\ UNCHANGED guests /\ Keeps
  BY CameKept DEF Create
<1>4. CASE \E u \in Present : user[u].slug = s
  <2> DEFINE v == [at |-> "refused", why |-> "slug", form |-> f, slug |-> s]
  <2>1. visit' = [visit EXCEPT ![c] = v] /\ UNCHANGED <<user, sessions>>
    BY <1>4 DEF Create, TurnedAway, Ends
  <2>2. v \in Errand /\ Sound(v) /\ v.at = "refused"
    BY <1>2, <1>4, RefusedTold
  <2> HIDE DEF v
  <2>3. QED
    BY <1>1, <1>3, <2>1, <2>2, Quiet
<1>5. CASE (~ \E u \in Present : user[u].slug = s) /\ Clash(f)
  <2> DEFINE v == [at |-> "refused", why |-> "email", form |-> f, slug |-> s]
  <2>1. visit' = [visit EXCEPT ![c] = v] /\ UNCHANGED <<user, sessions>>
    BY <1>5 DEF Create, TurnedAway, Ends
  <2>2. v \in Errand /\ Sound(v) /\ v.at = "refused"
    BY <1>2, <1>5, RefusedTold
  <2> HIDE DEF v
  <2>3. QED
    BY <1>1, <1>3, <2>1, <2>2, Quiet
<1>6. CASE (~ \E u \in Present : user[u].slug = s) /\ ~ Clash(f)
  <2>1. PICK u \in Ids \ Present, p \in (IF offered = {} THEN {Null} ELSE offered) :
          /\ user' = [user EXCEPT ![u] = [email |-> f.email, google |-> f.google, password |-> f.password,
                                          active |-> TRUE, slug |-> s, plan |-> p]]
          /\ sessions' = IF f.google = Null THEN sessions ELSE sessions \cup {<<f.google, u>>}
          /\ visit' = [visit EXCEPT ![c] = Idle]
    BY <1>6 DEF Create, Ends
  <2> DEFINE row == [email |-> f.email, google |-> f.google, password |-> f.password,
                     active |-> TRUE, slug |-> s, plan |-> p]
  <2>2. p \in Offer \cup {Null}
    BY <2>1 DEF AccountsInv, AccountsTypeOK
  <2>3. row \in AccountRow
    BY <1>2, <2>2 DEF AccountRow, Forms
  <2>4. row.email = f.email /\ row.google = f.google /\ row.slug = s
    OBVIOUS
  <2>5. user' = [user EXCEPT ![u] = row]
    BY <2>1
  <2> HIDE DEF row
  <2>6. user \in [Ids -> AccountRow \cup {Null}] /\ u \in Ids /\ user[u] = Null
    BY <2>1 DEF AccountsInv, AccountsTypeOK, Present
  <2>7. user' \in [Ids -> AccountRow \cup {Null}]
    BY <2>3, <2>5, <2>6
  <2>8. user'[u] = row /\ row # Null /\ \A w \in Ids \ {u} : user'[w] = user[w]
    BY <2>3, <2>5, <2>6 DEF AccountsAssumption
  <2>9. Grows
    BY <1>3, <2>6, <2>8 DEF Grows
  <2>10. PICK v \in Errand : v = Idle /\ v.at = "idle"
    BY VisitMade DEF Idle
  <2>11. Sound(v)'
    BY <2>10 DEF Sound
  <2>12. visit' \in [Client -> Errand] /\ VisitsSound' /\ MarksCounted'
    BY <1>1, <1>3, <2>1, <2>9, <2>10, <2>11, Moves DEF Keeps
  <2>13. sessions' \cup guests' \subseteq Google \X Ids
    BY <1>2, <1>3, <2>1, <2>6 DEF AccountsInv, AccountsTypeOK, Forms
  <2>14. AccountsTypeOK'
    BY <1>3, <2>7, <2>12, <2>13 DEF AccountsInv, AccountsTypeOK, Keeps
  <2>15. SessionsSound'
    <3>1. ASSUME NEW g \in Google, NEW w \in Ids, <<g, w>> \in sessions'
          PROVE  Has(g, w)'
      <4>1. CASE <<g, w>> \in sessions
        BY <2>9, <4>1, HasKept DEF AccountsInv, SessionsSound
      <4>2. CASE <<g, w>> \notin sessions
        <5>1. g = f.google /\ w = u
          BY <2>1, <3>1, <4>2
        <5>2. QED
          BY <5>1, <2>4, <2>8 DEF Has
      <4>3. QED
        BY <4>1, <4>2
    <3>2. QED
      BY <3>1 DEF SessionsSound
  <2>16. NoneShared'
    <3>1. Present' = Present \cup {u} /\ u \notin Present /\ Present \subseteq Ids
      BY <2>6, <2>8 DEF Present
    <3>2. \A w \in Present : user'[w] = user[w]
      BY <2>8, <3>1
    <3>3. ASSUME NEW w \in Present
          PROVE  /\ user[w].email # row.email /\ user[w].slug # row.slug
                 /\ row.google = Null \/ user[w].google # row.google
      BY <1>6, <2>4 DEF Clash
    <3>4. ASSUME NEW a \in Present', NEW b \in Present', a # b
          PROVE  /\ user'[a].email # user'[b].email /\ user'[a].slug # user'[b].slug
                 /\ user'[a].google = Null \/ user'[a].google # user'[b].google
      <4>1. CASE a = u
        BY <2>8, <3>1, <3>2, <3>3, <3>4, <4>1
      <4>2. CASE b = u
        BY <2>8, <3>1, <3>2, <3>3, <3>4, <4>2
      <4>3. CASE a # u /\ b # u
        BY <3>1, <3>2, <3>4, <4>3 DEF AccountsInv, NoneShared
      <4>4. QED
        BY <4>1, <4>2, <4>3
    <3>5. QED
      BY <3>4 DEF NoneShared
  <2>17. QED
    BY <2>12, <2>14, <2>15, <2>16 DEF AccountsInv
<1>7. QED
  BY <1>4, <1>5, <1>6

LEMMA DeactivateKeeps ==
  ASSUME AccountsAssumption, AccountsInv, NEW u \in Ids, Deactivate(u)
  PROVE  AccountsInv'
<1>1. user \in [Ids -> AccountRow \cup {Null}] /\ user[u] \in AccountRow
  BY DEF AccountsInv, AccountsTypeOK, Deactivate
<1>2. /\ user' = [user EXCEPT ![u].active = FALSE]
      /\ UNCHANGED <<visit, sessions, guests, came, address, offered, marked, renames>>
  BY DEF Deactivate, Keeps
<1>3. [user[u] EXCEPT !.active = FALSE] \in AccountRow
  BY <1>1 DEF AccountRow
<1>4. user'[u] = [user[u] EXCEPT !.active = FALSE] /\ \A w \in Ids \ {u} : user'[w] = user[w]
  BY <1>1, <1>2
<1>5. user' \in [Ids -> AccountRow \cup {Null}]
  BY <1>1, <1>2, <1>3
<1>6. user'[u] # Null /\ user[u] # Null
  BY <1>1, <1>3, <1>4 DEF AccountsAssumption
<1>7. user'[u].email = user[u].email /\ user'[u].slug = user[u].slug /\ user'[u].google = user[u].google
  BY <1>1, <1>4 DEF AccountRow
<1>8. \A w \in Ids : /\ user'[w] = Null <=> user[w] = Null
                     /\ user'[w].email = user[w].email /\ user'[w].slug = user[w].slug
                     /\ user'[w].google = user[w].google
  BY <1>4, <1>6, <1>7
<1>9. Grows
  BY <1>2, <1>8 DEF Grows
<1>10. AccountsTypeOK'
  BY <1>2, <1>5 DEF AccountsInv, AccountsTypeOK
<1>11. SessionsSound'
  BY <1>2, <1>9, HasKept DEF AccountsInv, SessionsSound
<1>12. NoneShared'
  <2>1. Present' = Present /\ Present \subseteq Ids
    BY <1>8 DEF Present
  <2>2. QED
    BY <1>8, <2>1 DEF AccountsInv, NoneShared
<1>13. VisitsSound'
  <2>1. \A v \in Errand : Sound(v) => Sound(v)'
    BY <1>9, SoundKept
  <2>2. ASSUME NEW d \in Client PROVE Sound(visit[d])'
    <3>1. PICK v \in Errand : v = visit[d]
      BY DEF AccountsInv, AccountsTypeOK
    <3>2. Sound(v)
      BY <3>1 DEF AccountsInv, VisitsSound
    <3>3. Sound(v)' /\ visit'[d] = v
      BY <1>2, <2>1, <3>1, <3>2
    <3>4. Sound(visit[d])' <=> Sound(v)'
      BY <3>3 DEF Sound, Told, Has, Clash, Present
    <3>5. QED
      BY <3>3, <3>4
  <2>3. QED
    BY <2>2 DEF VisitsSound
<1>14. MarksCounted'
  BY <1>2 DEF AccountsInv, MarksCounted, Planned, Marking
<1>15. QED
  BY <1>10, <1>11, <1>12, <1>13, <1>14 DEF AccountsInv

LEMMA RenameKeeps ==
  ASSUME AccountsAssumption, AccountsInv, NEW g \in Google, NEW e \in Email, Rename(g, e)
  PROVE  AccountsInv'
<1>1. /\ address' \in [Google -> Email] /\ renames' \in 0..MaxRename
      /\ UNCHANGED <<user, visit, offered, sessions, guests, marked, came>>
  BY DEF Rename, AccountsInv, AccountsTypeOK, AccountsAssumption
<1>2. AccountsTypeOK'
  BY <1>1 DEF AccountsInv, AccountsTypeOK
<1>3. VisitsSound' /\ SessionsSound' /\ NoneShared'
  BY <1>1 DEF AccountsInv, VisitsSound, SessionsSound, NoneShared, Sound, Told, Has, Clash, Present
<1>4. MarksCounted'
  BY <1>1 DEF AccountsInv, MarksCounted, Planned, Marking
<1>5. QED
  BY <1>2, <1>3, <1>4 DEF AccountsInv

-----------------------------------------------------------------------------
(* The default plan. *)

\* Requests of which all but one are written down want no more plans than that.
LEMMA PlansBound ==
  ASSUME NEW Q, IsFiniteSet(Q), NEW M, IsFiniteSet(M), \A c, d \in Q \ M : c = d,
         NEW f, f \in [Q -> {f[c] : c \in Q}]
  PROVE  LET T == {f[c] : c \in Q} IN IsFiniteSet(T) /\ Cardinality(T) <= 1 + Cardinality(M)
<1> DEFINE T == {f[c] : c \in Q}
<1>1. f \in Surjection(Q, T)
  BY DEF Surjection
<1>2. IsFiniteSet(T) /\ Cardinality(T) <= Cardinality(Q)
  BY <1>1, FS_Surjection
<1>3. Cardinality(Q) <= 1 + Cardinality(M)
  <2>1. CASE Q \subseteq M
    <3>1. Cardinality(Q) <= Cardinality(M)
      BY <2>1, FS_Subset
    <3>2. QED
      BY <3>1, FS_CardinalityType
  <2>2. CASE ~ (Q \subseteq M)
    <3>1. PICK c \in Q : c \notin M
      BY <2>2
    <3>2. Q \in SUBSET (M \cup {c})
      BY <3>1
    <3>3. IsFiniteSet(M \cup {c}) /\ Cardinality(M \cup {c}) = Cardinality(M) + 1
      BY <3>1, FS_AddElement
    <3>4. Cardinality(Q) <= Cardinality(M \cup {c})
      BY <3>2, <3>3, FS_Subset
    <3>5. QED
      BY <3>3, <3>4, FS_CardinalityType
  <2>3. QED
    BY <2>1, <2>2
<1>4. Cardinality(T) \in Nat /\ Cardinality(Q) \in Nat /\ Cardinality(M) \in Nat
  BY <1>2, FS_CardinalityType
<1>5. QED
  BY <1>2, <1>3, <1>4

LEMMA UnmarkKeeps ==
  ASSUME AccountsAssumption, AccountsInv, NEW c \in Client, NEW p \in Offer, UnmarkDefault(c, p)
  PROVE  AccountsInv'
<1> DEFINE v == [at |-> "mark", plan |-> p]
<1>1. /\ came' \in 0..MaxTasks /\ visit[c].at = "idle"
      /\ UNCHANGED <<user, address, sessions, guests, renames>>
      /\ offered' = offered \cap {p} /\ visit' = [visit EXCEPT ![c] = v]
      /\ marked' = IF \E d \in Client : visit[d].at = "mark" THEN marked \cup {c} ELSE marked
  BY NewTaskCounts DEF UnmarkDefault, Goes
<1>2. v \in Errand /\ v.at = "mark" /\ v.plan = p
  BY VisitMade
<1> HIDE DEF v
<1>3. visit \in [Client -> Errand] /\ offered \subseteq Offer /\ marked \subseteq Client
  BY DEF AccountsInv, AccountsTypeOK
<1>4. visit' \in [Client -> Errand] /\ visit'[c] = v /\ \A d \in Client \ {c} : visit'[d] = visit[d]
  BY <1>1, <1>2, <1>3
<1>5. AccountsTypeOK'
  BY <1>1, <1>4 DEF AccountsInv, AccountsTypeOK
<1>6. SessionsSound' /\ NoneShared'
  BY <1>1 DEF AccountsInv, SessionsSound, NoneShared, Has, Present
<1>7. VisitsSound'
  <2>1. ASSUME NEW d \in Client PROVE Sound(visit[d])'
    <3>1. CASE d = c
      BY <1>2, <1>4, <3>1 DEF Sound
    <3>2. CASE d # c
      <4>1. Sound(visit[d]) /\ visit'[d] = visit[d]
        BY <1>4, <3>2 DEF AccountsInv, VisitsSound
      <4>2. QED
        BY <1>1, <4>1 DEF Sound, Told, Has, Clash, Present
    <3>3. QED
      BY <3>1, <3>2
  <2>2. QED
    BY <2>1 DEF VisitsSound
<1>8. Marking' = Marking \cup {c} /\ c \notin Marking /\ Marking \subseteq Client
  BY <1>1, <1>2, <1>4 DEF Marking
<1>9. \A a, b \in Marking' \ marked' : a = b
  BY <1>1, <1>8 DEF AccountsInv, MarksCounted, Marking
<1>10. IsFiniteSet(Marking') /\ IsFiniteSet(marked')
  <2>1. Marking' \in SUBSET Client /\ marked' \in SUBSET Client
    BY <1>1, <1>3, <1>8
  <2>2. QED
    BY <2>1, FS_Subset DEF AccountsAssumption
<1> DEFINE f == [d \in Marking' |-> visit'[d].plan]
           T == {f[d] : d \in Marking'}
<1>11. Planned' = T
  <2>1. T = {visit'[d].plan : d \in Marking'}
    OBVIOUS
  <2>2. p \in T
    BY <1>2, <1>4, <1>8, <2>1
  <2>3. offered' \subseteq {p}
    BY <1>1
  <2>4. QED
    BY <2>1, <2>2, <2>3 DEF Planned
<1>12. f \in [Marking' -> T]
  OBVIOUS
<1>13. IsFiniteSet(T) /\ Cardinality(T) <= 1 + Cardinality(marked')
  <2>1. PICK Q : Q = Marking'
    OBVIOUS
  <2>2. PICK M : M = marked'
    OBVIOUS
  <2>3. PICK h : h = f
    OBVIOUS
  <2> HIDE DEF f
  <2>4. IsFiniteSet(Q) /\ IsFiniteSet(M) /\ (\A a, b \in Q \ M : a = b) /\ h \in [Q -> {h[d] : d \in Q}]
    BY <1>9, <1>10, <1>12, <2>1, <2>2, <2>3
  <2>5. IsFiniteSet({h[d] : d \in Q}) /\ Cardinality({h[d] : d \in Q}) <= 1 + Cardinality(M)
    BY <2>4, PlansBound
  <2>6. QED
    BY <2>1, <2>2, <2>3, <2>5
<1>14. MarksCounted'
  BY <1>9, <1>11, <1>13 DEF MarksCounted
<1>15. QED
  BY <1>5, <1>6, <1>7, <1>14 DEF AccountsInv

LEMMA PlanMarkKeeps ==
  ASSUME AccountsAssumption, AccountsInv, NEW c \in Client, MarkDefault(c)
  PROVE  AccountsInv'
<1> DEFINE p == visit[c].plan
<1>1. /\ visit[c].at = "mark" /\ offered' = offered \cup {p} /\ visit' = [visit EXCEPT ![c] = Idle]
      /\ UNCHANGED <<user, address, sessions, guests, marked, renames, came>>
  BY DEF MarkDefault, Ends
<1>2. visit \in [Client -> Errand] /\ visit[c] \in Errand /\ p \in Offer
  BY <1>1, VisitFields DEF AccountsInv, AccountsTypeOK
<1>3. visit' \in [Client -> Errand] /\ visit'[c] = Idle /\ \A d \in Client \ {c} : visit'[d] = visit[d]
  BY <1>1, <1>2, VisitMade
<1>4. AccountsTypeOK'
  BY <1>1, <1>2, <1>3 DEF AccountsInv, AccountsTypeOK
<1>5. SessionsSound' /\ NoneShared'
  BY <1>1 DEF AccountsInv, SessionsSound, NoneShared, Has, Present
<1>6. VisitsSound'
  <2>1. ASSUME NEW d \in Client PROVE Sound(visit[d])'
    <3>1. CASE d = c
      <4>1. Idle.at = "idle"
        BY DEF Idle
      <4>2. QED
        BY <1>3, <3>1, <4>1 DEF Sound
    <3>2. CASE d # c
      <4>1. Sound(visit[d]) /\ visit'[d] = visit[d]
        BY <1>3, <3>2 DEF AccountsInv, VisitsSound
      <4>2. QED
        BY <1>1, <4>1 DEF Sound, Told, Has, Clash, Present
    <3>3. QED
      BY <3>1, <3>2
  <2>2. QED
    BY <2>1 DEF VisitsSound
<1>7. Marking' = Marking \ {c} /\ c \in Marking
  BY <1>1, <1>3 DEF Marking, Idle
<1>8. Planned' \in SUBSET Planned
  <2>1. \A d \in Marking' : visit'[d] = visit[d]
    BY <1>3, <1>7 DEF Marking
  <2>2. QED
    BY <1>1, <1>7, <2>1 DEF Planned
<1>9. IsFiniteSet(Planned) /\ Cardinality(Planned) <= 1 + Cardinality(marked)
  BY DEF AccountsInv, MarksCounted
<1>10. IsFiniteSet(Planned') /\ Cardinality(Planned') <= Cardinality(Planned)
  BY <1>8, <1>9, FS_Subset
<1>11. IsFiniteSet(marked)
  <2>1. marked \in SUBSET Client
    BY DEF AccountsInv, AccountsTypeOK
  <2>2. QED
    BY <2>1, FS_Subset DEF AccountsAssumption
<1>12. Cardinality(Planned') <= 1 + Cardinality(marked')
  BY <1>1, <1>9, <1>10, <1>11, FS_CardinalityType
<1>13. MarksCounted'
  BY <1>1, <1>7, <1>10, <1>12 DEF AccountsInv, MarksCounted
<1>14. QED
  BY <1>4, <1>5, <1>6, <1>13 DEF AccountsInv

-----------------------------------------------------------------------------
LEMMA AccountsStart ==
  ASSUME AccountsAssumption, AccountsInit
  PROVE  AccountsInv
<1>1. address \in [Google -> Email]
  BY DEF AccountsInit, Injection
<1>2. PICK p \in Offer : offered = {p}
  BY DEF AccountsInit
<1>3. visit \in [Client -> Errand] /\ \A c \in Client : visit[c].at = "idle"
  BY VisitMade DEF AccountsInit, Idle
<1>4. AccountsTypeOK
  BY <1>1, <1>2, <1>3 DEF AccountsInit, AccountsTypeOK, AccountsAssumption
<1>5. VisitsSound
  BY <1>3 DEF VisitsSound, Sound
<1>6. SessionsSound /\ NoneShared
  BY DEF AccountsInit, SessionsSound, NoneShared, Present
<1>7. Marking = {} /\ Planned = {p} /\ marked = {}
  BY <1>2, <1>3 DEF Marking, Planned, AccountsInit
<1>8. IsFiniteSet({p}) /\ Cardinality({p}) = 1 /\ Cardinality({}) = 0
  BY FS_Singleton, FS_EmptySet
<1>9. MarksCounted
  BY <1>7, <1>8 DEF MarksCounted
<1>10. QED
  BY <1>4, <1>5, <1>6, <1>9 DEF AccountsInv

LEMMA AccountsStep ==
  ASSUME AccountsAssumption, AccountsInv, [AccountsNext]_accountVars
  PROVE  AccountsInv'
<1>1. ASSUME NEW c \in Client, TrySlug(c) \/ Create(c) \/ SignUp(c) \/ Exchange(c) \/ Link(c) \/ OpenAccount(c) \/ MarkDefault(c)
      PROVE  AccountsInv'
  BY <1>1, TrySlugKeeps, CreateKeeps, SignUpKeeps, ExchangeKeeps, LinkKeeps, OpenKeeps, PlanMarkKeeps
<1>2. ASSUME NEW c \in Client, NEW e \in Email, RegisterCompany(c, e) PROVE AccountsInv'
  BY <1>2, CompanyFoundKeeps
<1>3. ASSUME NEW c \in Client, NEW g \in Google, Callback(c, g) PROVE AccountsInv'
  BY <1>3, CallbackKeeps
<1>4. ASSUME NEW c \in Client, NEW p \in Offer, UnmarkDefault(c, p) PROVE AccountsInv'
  BY <1>4, UnmarkKeeps
<1>5. ASSUME NEW g \in Google, NEW e \in Email, Rename(g, e) PROVE AccountsInv'
  BY <1>5, RenameKeeps
<1>6. ASSUME NEW u \in Ids, Deactivate(u) PROVE AccountsInv'
  BY <1>6, DeactivateKeeps
<1>7. CASE UNCHANGED accountVars
  <2>1. AccountsTypeOK'
    BY <1>7 DEF accountVars, AccountsInv, AccountsTypeOK
  <2>2. VisitsSound' /\ SessionsSound' /\ NoneShared'
    BY <1>7 DEF accountVars, AccountsInv, VisitsSound, SessionsSound, NoneShared, Sound, Told, Has, Clash, Present
  <2>3. MarksCounted'
    BY <1>7 DEF accountVars, AccountsInv, MarksCounted, Planned, Marking
  <2>4. QED
    BY <2>1, <2>2, <2>3 DEF AccountsInv
<1>8. QED
  BY <1>1, <1>2, <1>3, <1>4, <1>5, <1>6, <1>7 DEF AccountsNext

LEMMA AccountsInvEnough ==
  ASSUME AccountsAssumption, AccountsInv
  PROVE  AccountsAreWhole
<1>1. RefusalsAreTrue
  BY DEF AccountsInv, VisitsSound, Sound, Told, RefusalsAreTrue
<1>2. OneAccountPerGoogle
  <2>1. ASSUME NEW s \in sessions \ guests, NEW t \in sessions \ guests, s[1] = t[1]
        PROVE  s[2] = t[2]
    <3>1. PICK g \in Google, u \in Ids, w \in Ids : s = <<g, u>> /\ t = <<g, w>>
      BY <2>1 DEF AccountsInv, AccountsTypeOK
    <3>2. user[u] # Null /\ user[u].google = g /\ user[w] # Null /\ user[w].google = g
      BY <2>1, <3>1 DEF AccountsInv, SessionsSound, Has
    <3>3. g # Null
      BY DEF AccountsAssumption
    <3>4. u = w
      BY <3>2, <3>3 DEF AccountsInv, NoneShared, Present
    <3>5. QED
      BY <3>1, <3>4
  <2>2. QED
    BY <2>1 DEF OneAccountPerGoogle
<1>3. OneDefault
  <2>1. IsFiniteSet(Planned) /\ Cardinality(Planned) <= 1 + Cardinality(marked) /\ offered \in SUBSET Planned
    BY DEF AccountsInv, MarksCounted, Planned
  <2>2. IsFiniteSet(offered) /\ Cardinality(offered) <= Cardinality(Planned)
    BY <2>1, FS_Subset
  <2>3. IsFiniteSet(marked)
    <3>1. marked \in SUBSET Client
      BY DEF AccountsInv, AccountsTypeOK
    <3>2. QED
      BY <3>1, FS_Subset DEF AccountsAssumption
  <2>4. QED
    BY <2>1, <2>2, <2>3, FS_CardinalityType DEF OneDefault
<1>4. QED
  BY <1>1, <1>2, <1>3 DEF AccountsInv, AccountsAreWhole

\* Refusals are true, an identity opens one account, nothing is shared, and one plan is
\* the default: createCompanyWithOwner, exchangeGoogleTicket, createPlan and updatePlan,
\* whatever the order of their reads and writes.
THEOREM AccountsWhole == ASSUME AccountsAssumption PROVE AccountsSpec => []AccountsAreWhole
<1>1. AccountsInit => AccountsInv
  BY AccountsStart
<1>2. AccountsInv /\ [AccountsNext]_accountVars => AccountsInv'
  BY AccountsStep
<1>3. AccountsInv => AccountsAreWhole
  BY AccountsInvEnough
<1>4. QED
  BY <1>1, <1>2, <1>3, PTL DEF AccountsSpec
=============================================================================
