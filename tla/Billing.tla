------------------------------- MODULE Billing -------------------------------
(***************************************************************************)
(* Manual payments of ONE company: the requests the client or a superadmin *)
(* creates, their review, and the plan and licence they give.              *)
(*                                                                         *)
(* Approving keeps a snapshot of what the company had; cancelling an       *)
(* approval puts it back if nothing happened since.  Every handler reads,  *)
(* decides and writes in a transaction that does not check again, so two   *)
(* superadmins may act on what is no longer true.  An action is the code   *)
(* between two awaits.                                                     *)
(***************************************************************************)
EXTENDS Naturals, FiniteSets

CONSTANTS Admin,      \* superadmin requests at once
          Request,    \* rows of PaymentRequest
          Plan,
          Unlimited,  \* plans that grant no date (neither cycle nor trial days)
          None, Manual,
          MaxNow,     \* bound: instants at which something is activated or edited
          MaxEdits    \* bound: edits by hand

VARIABLES plans,      \* the plans that exist
          company,    \* planId, planStartedAt, licenseRenewsAt
          req, task, now, edits,
          stale,      \* history: cancellations whose company has changed since they compared it
          contested,  \* history: requests two admins worked on at once
          kept        \* history: plans set by hand without a date, and since when

vars == <<plans, company, req, task, now, edits, stale, contested, kept>>

-----------------------------------------------------------------------------
Instant == 0..MaxNow
Licence == [of : Plan \cup {Manual}, at : Instant] \cup {None}
Company == [plan : Plan \cup {None}, started : Instant, renews : Licence]

ASSUME BillingAssumption ==
  /\ Unlimited \subseteq Plan /\ Manual \notin Plan
  /\ None \notin Plan \cup Request \cup Instant \cup Company \cup [of : Plan \cup {Manual}, at : Instant]
  /\ MaxNow \in Nat /\ MaxEdits \in Nat

\* The date a plan gives when it starts at t.
Grant(p, t) == IF p \in Unlimited THEN None ELSE [of |-> p, at |-> t]

\* A plan without a date leaves the one that is there.
ActivationKeeping(p, t) ==
  [plan |-> p, started |-> t, renews |-> IF p \in Unlimited THEN company.renews ELSE Grant(p, t)]

\* companyActivationData: the date is always written, even if it is none.
Activation(p, t) == [plan |-> p, started |-> t, renews |-> Grant(p, t)]

\* A row that does not exist yet, and one that a deleted plan took with it.
Absent == {"none", "gone"}

Row == [st : {"PENDING", "APPROVED", "REJECTED", "CANCELLED"} \cup Absent, plan : Plan \cup {None},
        prev : Company \cup {None}, at : Instant \cup {None}]

NoRow == [st |-> "none", plan |-> None, prev |-> None, at |-> None]

Pc == {"idle", "approve", "activate", "register", "reject", "cancel", "mark", "revert", "edit"}

Task == [pc : Pc, r : Request \cup {None}, plan : Plan \cup {None, "same"}, dated : BOOLEAN,
         saw : Company, was : Row, at : Instant]

TypeOK ==
  /\ plans \subseteq Plan /\ company \in Company /\ now \in Instant /\ edits \in 0..MaxEdits
  /\ req \in [Request -> Row]
  /\ task \in [Admin -> Task]
  /\ stale \subseteq Admin /\ contested \subseteq Request
  /\ kept \subseteq (Plan \cup {None}) \X Instant
  /\ \A r \in Request : req[r].st \in {"APPROVED", "CANCELLED"} => req[r].prev # None /\ req[r].at # None

Exists(r) == req[r].st \notin Absent

Resting == [pc |-> "idle", r |-> None, plan |-> None, dated |-> FALSE,
            saw |-> [plan |-> None, started |-> 0, renews |-> None], was |-> NoRow, at |-> 0]

\* A company that registered with the default plan, if there is one: it gets a date
\* even if approving that plan gives none.
Init ==
  /\ plans = Plan
  /\ company \in {[plan |-> None, started |-> 0, renews |-> None]}
               \cup {[plan |-> p, started |-> 0, renews |-> [of |-> p, at |-> 0]] : p \in Plan}
  /\ req = [r \in Request |-> NoRow]
  /\ task = [a \in Admin |-> Resting]
  /\ now = 0 /\ edits = 0
  /\ stale = {} /\ contested = {}
  /\ kept = {}

At(a, pc) == task[a].pc = pc
Leave(a) == task' = [task EXCEPT ![a] = Resting]
Others(a, r) == \E o \in Admin \ {a} : task[o].r = r

\* The company is written: a cancellation that has compared it acts on what is no more.
Write(a, c) ==
  /\ company' = c
  /\ stale' = (stale \cup {o \in Admin : At(o, "revert")}) \ {a}

Begin(a, r, pc) ==
  /\ At(a, "idle")
  /\ task' = [task EXCEPT ![a].pc = pc, ![a].r = r, ![a].was = IF pc = "reject" THEN NoRow ELSE req[r]]
  /\ contested' = IF Others(a, r) THEN contested \cup {r} ELSE contested

\* The end of a request that changes nothing: an error, or a row that is gone.
GiveUp(a) ==
  /\ Leave(a) /\ stale' = stale \ {a}
  /\ UNCHANGED <<plans, company, req, now, edits, contested, kept>>

-----------------------------------------------------------------------------
(***************************************************************************)
(* New requests.                                                           *)
(***************************************************************************)
\* By the client with a proof, or by a superadmin with status PENDING.
Submit(r, p) ==
  /\ req[r].st = "none" /\ p \in plans
  /\ req' = [req EXCEPT ![r] = [st |-> "PENDING", plan |-> p, prev |-> None, at |-> None]]
  /\ UNCHANGED <<plans, company, task, now, edits, stale, contested, kept>>

\* By a superadmin, approved at once (createPaymentRequest): reads the company and the plan ...
BeginRegister(a, r, p) ==
  /\ At(a, "idle") /\ req[r].st = "none" /\ ~Others(a, r) /\ p \in plans /\ now < MaxNow
  /\ now' = now + 1
  /\ task' = [task EXCEPT ![a].pc = "register", ![a].r = r, ![a].plan = p, ![a].saw = company, ![a].at = now']
  /\ UNCHANGED <<plans, company, req, edits, stale, contested, kept>>

\* ... and creates the row and activates the plan in one transaction.
Register(a) ==
  LET t == task[a] IN
  /\ At(a, "register") /\ t.plan \in plans /\ req[t.r].st = "none"
  /\ req' = [req EXCEPT ![t.r] = [st |-> "APPROVED", plan |-> t.plan, prev |-> t.saw, at |-> t.at]]
  /\ Write(a, Activation(t.plan, t.at)) /\ Leave(a)
  /\ UNCHANGED <<plans, now, edits, contested, kept>>

-----------------------------------------------------------------------------
(***************************************************************************)
(* Review.                                                                 *)
(***************************************************************************)
BeginApprove(a, r) ==
  /\ req[r].st = "PENDING" /\ Begin(a, r, "approve")
  /\ UNCHANGED <<plans, company, req, now, edits, stale, kept>>

ReadCompany(a) ==
  /\ At(a, "approve") /\ now < MaxNow
  /\ now' = now + 1
  /\ task' = [task EXCEPT ![a].pc = "activate", ![a].saw = company, ![a].at = now']
  /\ UNCHANGED <<plans, company, req, edits, stale, contested, kept>>

Activate(a) ==
  LET t == task[a] IN
  /\ At(a, "activate") /\ Exists(t.r)
  /\ req' = [req EXCEPT ![t.r].st = "APPROVED", ![t.r].prev = t.saw, ![t.r].at = t.at]
  /\ Write(a, Activation(t.was.plan, t.at)) /\ Leave(a)
  /\ UNCHANGED <<plans, now, edits, contested, kept>>

BeginReject(a, r) ==
  /\ req[r].st = "PENDING" /\ Begin(a, r, "reject")
  /\ UNCHANGED <<plans, company, req, now, edits, stale, kept>>

Reject(a) ==
  /\ At(a, "reject") /\ Exists(task[a].r)
  /\ req' = [req EXCEPT ![task[a].r].st = "REJECTED"]
  /\ Leave(a)
  /\ UNCHANGED <<plans, company, now, edits, stale, contested, kept>>

\* Anything that was reviewed may be cancelled.
BeginCancelReviewed(a, r) ==
  /\ Exists(r) /\ req[r].st # "PENDING" /\ Begin(a, r, "cancel")
  /\ UNCHANGED <<plans, company, req, now, edits, stale, kept>>

BeginCancel(a, r) ==
  /\ req[r].st = "APPROVED" /\ Begin(a, r, "cancel")
  /\ UNCHANGED <<plans, company, req, now, edits, stale, kept>>

\* The same plan is taken for the same activation.
SamePlan(was) == company.plan = was.plan

\* companyUnchangedSinceApproval: the same plan since the same instant.
Unchanged(was) == company.plan = was.plan /\ company.started = was.at

Compare(a) ==
  /\ At(a, "cancel")
  /\ task' = IF Unchanged(task[a].was) THEN [task EXCEPT ![a].pc = "revert"]
             ELSE [task EXCEPT ![a].pc = "mark", ![a].was = NoRow]
  /\ UNCHANGED <<plans, company, req, now, edits, stale, contested, kept>>

Mark(a) ==
  LET t == task[a] IN
  /\ At(a, "mark") /\ Exists(t.r)
  /\ req' = [req EXCEPT ![t.r].st = "CANCELLED"]
  /\ Leave(a)
  /\ UNCHANGED <<plans, company, now, edits, stale, contested, kept>>

\* One transaction: a snapshot whose plan was deleted makes it fail (GiveUp).
Revert(a) ==
  LET t == task[a] IN
  /\ At(a, "revert") /\ Exists(t.r) /\ t.was.prev.plan \in plans \cup {None}
  /\ req' = [req EXCEPT ![t.r].st = "CANCELLED"]
  /\ Write(a, t.was.prev) /\ Leave(a)
  /\ UNCHANGED <<plans, now, edits, contested, kept>>

\* The transactions and updates that cannot go through.
Refused(a) ==
  LET t == task[a] IN
  /\ \/ t.pc \in {"activate", "reject", "mark", "revert"} /\ ~Exists(t.r)
     \/ t.pc = "revert" /\ t.was.prev.plan \notin plans \cup {None}
     \/ t.pc \in {"register", "edit"} /\ t.plan \in Plan \ plans
  /\ GiveUp(a)

-----------------------------------------------------------------------------
(***************************************************************************)
(* Changes by hand, and plans that go.                                     *)
(***************************************************************************)
BeginEdit(a, p, dated) ==
  /\ At(a, "idle") /\ edits < MaxEdits /\ edits' = edits + 1 /\ (p # "same" \/ dated) /\ p \in plans \cup {None, "same"}
  /\ task' = [task EXCEPT ![a].pc = "edit", ![a].plan = p, ![a].dated = dated, ![a].saw = company]
  /\ UNCHANGED <<plans, company, req, now, stale, contested, kept>>

Touches(t) == (t.plan # "same" /\ t.plan # t.saw.plan) \/ t.dated

\* updateCompany: the fields it was given; the start only if the plan or the date changes.
Edit(a) ==
  LET t == task[a]
      new == [plan    |-> IF t.plan = "same" THEN company.plan ELSE t.plan,
              started |-> IF Touches(t) THEN now' ELSE company.started,
              renews  |-> IF t.dated THEN [of |-> Manual, at |-> now'] ELSE company.renews]
  IN
  /\ At(a, "edit") /\ t.plan \notin Plan \ plans /\ now < MaxNow
  /\ now' = now + 1
  /\ kept' = IF t.dated THEN kept ELSE kept \cup {<<new.plan, new.started>>}
  /\ Write(a, new) /\ Leave(a)
  /\ UNCHANGED <<plans, req, edits, contested>>

\* deletePlan: its requests go with it, the company is left without a plan.
DeletePlan(p) ==
  /\ p \in plans
  /\ plans' = plans \ {p}
  /\ req' = [r \in Request |-> IF Exists(r) /\ req[r].plan = p THEN [NoRow EXCEPT !.st = "gone"] ELSE req[r]]
  /\ company' = IF company.plan = p THEN [company EXCEPT !.plan = None] ELSE company
  /\ UNCHANGED <<task, now, edits, stale, contested, kept>>

-----------------------------------------------------------------------------
Next ==
  \/ \E r \in Request, p \in Plan : Submit(r, p)
  \/ \E a \in Admin, r \in Request, p \in Plan : BeginRegister(a, r, p)
  \/ \E a \in Admin, r \in Request : BeginApprove(a, r) \/ BeginReject(a, r) \/ BeginCancel(a, r)
  \/ \E a \in Admin : \/ Register(a) \/ ReadCompany(a) \/ Activate(a) \/ Reject(a) \/ Compare(a)
                      \/ Mark(a) \/ Revert(a) \/ Refused(a) \/ Edit(a)
  \/ \E a \in Admin, p \in Plan \cup {None, "same"}, dated \in BOOLEAN : BeginEdit(a, p, dated)
  \/ \E p \in Plan : DeletePlan(p)

Spec == Init /\ [][Next]_vars

-----------------------------------------------------------------------------
(***************************************************************************)
(* Properties.                                                             *)
(***************************************************************************)
\* The date of a licence belongs to the plan shown beside it (the bug the code
\* describes showed the free plan with thirty days of a monthly one), through
\* every order of approvals, cancellations and edits; only an edit that sets the
\* plan without a date leaves an older one there.
LicenceOf(c, hand) ==
  c.plan # None =>
    \/ c.plan \in Unlimited /\ c.renews = None
    \/ c.renews # None /\ c.renews = [of |-> c.plan, at |-> c.started]
    \/ c.renews # None /\ c.renews.of = Manual
    \/ <<c.plan, c.started>> \in hand

LicenceOfPlan == LicenceOf(company, kept)

\* A payment is reviewed once: PENDING to APPROVED or REJECTED, APPROVED to
\* CANCELLED, unless two superadmins had the same request open.
ReviewedOnce ==
  [][\A r \in Request : Exists(r) /\ req'[r].st \notin Absent /\ req'[r].st # req[r].st /\ r \notin contested
       => <<req[r].st, req'[r].st>> \in {<<"PENDING", "APPROVED">>, <<"PENDING", "REJECTED">>,
                                          <<"APPROVED", "CANCELLED">>}]_vars

\* Cancelling takes back what the approval gave and nothing newer: if it changes the
\* company, the company stood where the approval had put it and stands again where it
\* was before, unless somebody wrote between a read and its write.
CancelTakesBack ==
  [][\A r \in Request : req[r].st = "APPROVED" /\ req'[r].st \notin Absent /\ req'[r].st = "CANCELLED"
                        /\ company' # company /\ stale = {} /\ r \notin contested
       => /\ company.started = req[r].at /\ company.plan = req[r].plan
          /\ company' = req[r].prev]_vars
=============================================================================
