----------------------------- MODULE ChatFields -----------------------------
(***************************************************************************)
(* What an agent changes of a chat, of its messages and beside it.  Each   *)
(* handler of the page shows the change early or late and undoes it or not *)
(* when it is refused; each one of the server tells the other panels what  *)
(* it wrote, what it read again afterwards, or nothing; a reaction and a   *)
(* deletion are only queued, and the worker writes them later.  One field  *)
(* is followed, in the panel of one agent.                                 *)
(***************************************************************************)
EXTENDS Naturals, Sequences

CONSTANTS
  MaxChanges,    \* bound: changes of this agent
  MaxWorks,      \* bound: changes there may be before others make one
  MaxLoads,      \* bound: loads of the list or of the thread
  None

FieldsAssumption == MaxChanges \in Nat \ {0} /\ MaxWorks \in Nat /\ MaxLoads \in Nat

VARIABLES
  field,      \* how it is changed
  stored,     \* its value in the table
  displayed,  \* its value on the page, None while its thread is not open
  changes,    \* requests of the agent
  works,      \* what the server and the worker do, for him and for others
  loads,      \* loads of the list or of the thread
  tidings,    \* events on their way to the page
  version,    \* writes done
  newest,     \* the newest write the page was told of
  spoiled     \* history: what went wrong that nothing mends

fieldVars == <<field, stored, displayed, changes, works, loads, tidings, version, newest, spoiled>>

-----------------------------------------------------------------------------
(* Early: shown at the click.  After: what an answer does.  Refused: what  *)
(* a refusal does.  Told: what the others are told.  Place: where it is    *)
(* shown.  Queued: it is a job of the worker.                              *)
Field(early, after, refused, told, place, queued) ==
  [early |-> early, after |-> after, refused |-> refused, told |-> told, place |-> place, queued |-> queued]

Archived == Field(TRUE, "nothing", "undo", "read", "list", FALSE)
PinnedFirst == Field(TRUE, "nothing", "undo", "read", "list", FALSE)
AiEnabled == Field(TRUE, "nothing", "undo", "read", "list", FALSE)
TakenBy == Field(FALSE, "load", "nothing", "read", "list", FALSE)
AssignedTo == Field(FALSE, "load", "nothing", "read", "list", FALSE)
ConvertedLead == Field(FALSE, "load", "nothing", "write", "list", FALSE)
TagsOf == Field(FALSE, "answer", "nothing", "read", "list", FALSE)
StageOf == Field(FALSE, "answer", "nothing", "read", "list", FALSE)
NameOf == Field(FALSE, "patch", "nothing", "read", "list", FALSE)
NotesOf == Field(FALSE, "patch", "nothing", "none", "list", FALSE)
CompanyTag == Field(FALSE, "answer", "nothing", "none", "list", FALSE)
QuickReplyOf == Field(FALSE, "answer", "nothing", "none", "list", FALSE)
IncidentStatus == Field(TRUE, "nothing", "undo", "none", "list", FALSE)
AppointmentOf == Field(TRUE, "nothing", "undo", "none", "list", FALSE)
KnowledgeEntry == Field(TRUE, "nothing", "nothing", "none", "list", FALSE)
StickerOf == Field(TRUE, "nothing", "nothing", "none", "list", FALSE)
Flag == Field(TRUE, "nothing", "undo", "write", "thread", FALSE)
StarredMany == Field(TRUE, "nothing", "nothing", "write", "thread", FALSE)
Deleted == Field(TRUE, "nothing", "undo", "write", "thread", TRUE)
Reaction == Field(TRUE, "nothing", "undo", "removal", "thread", TRUE)

Fields ==
  {Archived, PinnedFirst, AiEnabled, TakenBy, AssignedTo, ConvertedLead, TagsOf, StageOf, NameOf, NotesOf, CompanyTag,
   QuickReplyOf, IncidentStatus, AppointmentOf, KnowledgeEntry, StickerOf, Flag, StarredMany, Deleted, Reaction}

\* "none" is no reaction, and what is left after a removal.
FieldValue == {"some", "none"}

FieldsTypeOK ==
  /\ field \in Fields /\ stored \in FieldValue /\ displayed \in FieldValue \cup {None}
  /\ (displayed = None => field.place = "thread") /\ newest \in 0..version
  /\ Len(changes) <= MaxChanges /\ Len(loads) <= MaxLoads

FieldsInit ==
  /\ field \in Fields /\ stored \in FieldValue /\ displayed = stored
  /\ changes = <<>> /\ works = <<>> /\ loads = <<>> /\ tidings = <<>>
  /\ version = 0 /\ newest = 0 /\ spoiled = {}

Spoils(why, if) == spoiled' = IF if THEN spoiled \cup {why} ELSE spoiled
Over == [state |-> "used"]   \* of what is over nothing matters
Done == [state |-> "told"]
Work(to, by) == [to |-> to, by |-> by, state |-> "due", value |-> None, when |-> 0, wrote |-> 0]

\* Nothing is on its way.
Settled ==
  /\ tidings = <<>> /\ \A i \in DOMAIN changes : changes[i].state = "used"
  /\ (\A j \in DOMAIN works : works[j].state = "told") /\ (\A k \in DOMAIN loads : loads[k].state = "used")

-----------------------------------------------------------------------------
(* The page. *)

\* Shown at once or later.  A deletion cannot be taken back.
Choose(to) ==
  /\ displayed # None /\ to # displayed /\ Len(changes) < MaxChanges
  /\ field = Deleted => to = "none"
  /\ displayed' = IF field.early THEN to ELSE displayed
  /\ changes' = Append(changes, [to |-> to, back |-> displayed, since |-> newest, state |-> "sent", value |-> None, when |-> 0, wrote |-> 0])
  /\ works' = IF field.queued THEN works ELSE Append(works, Work(to, Len(changes')))
  /\ Spoils("hurried", (\E i \in DOMAIN changes : changes[i].state # "used")
                     \/ (field.queued /\ ~Settled))
  /\ UNCHANGED <<field, stored, loads, tidings, version, newest>>

\* A value read at some write is used, whatever was shown since.
Shows(value, when) ==
  /\ displayed' = IF displayed = None THEN None ELSE value
  /\ newest' = IF when > newest THEN when ELSE newest
  /\ Spoils("overtaken", displayed # None /\ when < newest)

Asks == Len(loads) < MaxLoads /\ loads' = Append(loads, [state |-> "asked", value |-> None, when |-> 0])

\* The answer of a change: nothing, its value, the row of the server, or a load of the list.
Answered(i) ==
  /\ changes[i].state = "done" /\ changes' = [changes EXCEPT ![i] = Over]
  /\ CASE field.after = "patch" -> Shows(changes[i].to, changes[i].wrote)
       [] field.after = "answer" -> Shows(changes[i].value, changes[i].when)
       [] OTHER -> UNCHANGED <<displayed, newest, spoiled>>
  /\ IF field.after = "load" THEN Asks ELSE UNCHANGED loads
  /\ UNCHANGED <<field, stored, works, tidings, version>>

\* What was shown early stays, or becomes what it was at the click.
Undone(i) == IF displayed # None /\ field.refused = "undo" THEN changes[i].back ELSE displayed

Refused(i) ==
  /\ changes[i].state = "refused" /\ changes' = [changes EXCEPT ![i] = Over]
  /\ displayed' = Undone(i)
  /\ spoiled' = spoiled
       \cup (IF field.early /\ field.refused = "nothing" THEN {"kept"} ELSE {})
       \cup (IF field.refused = "undo" /\ newest # changes[i].since THEN {"overtaken"} ELSE {})
  /\ UNCHANGED <<field, stored, works, loads, tidings, version, newest>>

\* Another chat is opened, or this one again: its messages are asked for.
LeaveThread ==
  /\ field.place = "thread" /\ displayed # None /\ displayed' = None
  /\ loads' = [k \in DOMAIN loads |-> Over]
  /\ UNCHANGED <<field, stored, changes, works, tidings, version, newest, spoiled>>
ReturnToThread ==
  /\ displayed = None /\ (\A k \in DOMAIN loads : loads[k].state = "used") /\ Asks
  /\ UNCHANGED <<field, stored, displayed, changes, works, tidings, version, newest, spoiled>>

Load(k) ==
  /\ loads[k].state = "asked"
  /\ loads' = [loads EXCEPT ![k] = [state |-> "read", value |-> stored, when |-> version]]
  /\ UNCHANGED <<field, stored, displayed, changes, works, tidings, version, newest, spoiled>>

\* The answer replaces what is shown; events the page took before it were no use.
Loaded(k) ==
  /\ loads[k].state = "read" /\ loads' = [loads EXCEPT ![k] = Over]
  /\ displayed' = loads[k].value
  /\ newest' = (IF loads[k].when > newest THEN loads[k].when ELSE newest)
  /\ Spoils("overtaken", loads[k].when < newest)
  /\ UNCHANGED <<field, stored, changes, works, tidings, version>>

-----------------------------------------------------------------------------
(* The server and the worker. *)

\* Whether an event tells the panels of a value.
Understood(value) == field.told \in {"read", "write"} \/ (field.told = "removal" /\ value = "none")

\* A job is queued and answered at once.
Queue(i) ==
  /\ field.queued /\ changes[i].state = "sent"
  /\ changes' = [changes EXCEPT ![i].state = "done"]
  /\ works' = Append(works, Work(changes[i].to, 0))
  /\ UNCHANGED <<field, stored, displayed, loads, tidings, version, newest, spoiled>>
RefuseToQueue(i) ==
  /\ field.queued /\ changes[i].state = "sent" /\ changes' = [changes EXCEPT ![i].state = "refused"]
  /\ UNCHANGED <<field, stored, displayed, works, loads, tidings, version, newest, spoiled>>

\* Somebody else, or the phone of the line.
Elsewhere(to) ==
  /\ Len(works) < MaxWorks /\ to # stored /\ (field = Deleted => to = "none")
  /\ works' = Append(works, Work(to, 0)) /\ Spoils("untold", ~Understood(to))
  /\ UNCHANGED <<field, stored, displayed, changes, loads, tidings, version, newest>>

Write(j) ==
  /\ works[j].state = "due" /\ stored' = works[j].to /\ version' = version + 1
  /\ works' = [works EXCEPT ![j].state = IF field.told = "read" THEN "written" ELSE "read",
                            ![j].value = works[j].to, ![j].when = version', ![j].wrote = version']
  /\ UNCHANGED <<field, displayed, changes, loads, tidings, newest, spoiled>>

ReadAgain(j) ==
  /\ works[j].state = "written"
  /\ works' = [works EXCEPT ![j].state = "read", ![j].value = stored, ![j].when = version]
  /\ UNCHANGED <<field, stored, displayed, changes, loads, tidings, version, newest, spoiled>>

\* The request a work is of is answered.
Finish(j, state) ==
  changes' = IF works[j].by = 0 THEN changes
             ELSE [changes EXCEPT ![works[j].by].state = state, ![works[j].by].value = works[j].value,
                                  ![works[j].by].when = works[j].when, ![works[j].by].wrote = works[j].wrote]

Tell(j) ==
  /\ works[j].state = "read" /\ works' = [works EXCEPT ![j] = Done]
  /\ tidings' = IF Understood(works[j].value)
                THEN Append(tidings, [value |-> works[j].value, when |-> works[j].when]) ELSE tidings
  /\ Finish(j, "done")
  /\ Spoils("untold", field.told = "removal" /\ works[j].value \notin {"none", displayed})
  /\ UNCHANGED <<field, stored, displayed, loads, version, newest>>

\* A request is refused before it wrote, or it fails after; a job gives up, and nobody is told.
Fail(j) ==
  /\ works[j].state \in {"due", "written"} /\ works' = [works EXCEPT ![j] = Done]
  /\ Finish(j, "refused")
  /\ Spoils("lost", works[j].state = "written" \/ (field.queued /\ works[j].by = 0))
  /\ UNCHANGED <<field, stored, displayed, loads, tidings, version, newest>>

\* conversation.updated, message.updated, message.reaction, lead.updated.
Hear ==
  /\ tidings # <<>> /\ tidings' = Tail(tidings) /\ Shows(Head(tidings).value, Head(tidings).when)
  /\ UNCHANGED <<field, stored, changes, works, loads, version>>

FieldsNext ==
  \/ \E to \in FieldValue : Choose(to) \/ Elsewhere(to)
  \/ \E i \in DOMAIN changes : Answered(i) \/ Refused(i) \/ Queue(i) \/ RefuseToQueue(i)
  \/ \E j \in DOMAIN works : Write(j) \/ ReadAgain(j) \/ Tell(j) \/ Fail(j)
  \/ \E k \in DOMAIN loads : Load(k) \/ Loaded(k)
  \/ LeaveThread \/ ReturnToThread \/ Hear

FieldsSpec == FieldsInit /\ [][FieldsNext]_fieldVars

-----------------------------------------------------------------------------
(* When nothing is on its way, the page shows what is stored: changes of   *)
(* the agent, refused or not, and of the others                            *)
(* (conversations/page.tsx:2095-2750).  Excepted: a row read before and    *)
(* used after a newer one, changes that are not told to the others, two    *)
(* changes of one field at once, a refusal after which nothing is undone   *)
(* (2718, 2472, 2533), and a change that failed when the row was written   *)
(* or the job queued.                                                      *)
FieldsSettle == Settled /\ spoiled = {} => displayed \in {None, stored}

FieldsAreTrue == FieldsTypeOK /\ FieldsSettle
=============================================================================
