----------------------------- MODULE ChatLookup -----------------------------
(***************************************************************************)
(* How a company comes to write to ONE person: an agent clicks a number in *)
(* a message or fills the form of a new chat, a program of the company     *)
(* uses the public API, or the person writes first.  Each finds the        *)
(* contact or makes it, an await at a time, and WhatsApp may name the      *)
(* person by number or by an opaque @lid.  Names are left out.             *)
(***************************************************************************)
EXTENDS Naturals, Sequences

CONSTANTS
  MaxTasks,     \* bound: requests and messages of the person
  None

LookupAssumption == MaxTasks \in Nat \ {0}

VARIABLES
  paired,     \* the pair of @lid and number is on file
  rowsOf,     \* his rows of Contact, oldest first
  chatsOf,    \* the rows with a conversation on the line
  tasks,
  texts,      \* texts stored since the agent's form was opened
  loaded,     \* his chats in the list of the agent, with a number
  opened,     \* the chat that is open: his, None for another
  phase,      \* of the agent's click or form
  unpaired,   \* history: somebody looked him up under one name only
  unheard     \* history: a text was stored and its request failed

lookupVars == <<paired, rowsOf, chatsOf, tasks, texts, loaded, opened, phase, unpaired, unheard>>

Names == {"lid", "phone"}
Kinds == {"start", "open", "api", "inbound"}

LookupTypeOK ==
  /\ rowsOf \in Seq([waId : Names, phone : BOOLEAN]) /\ Len(rowsOf) <= 2
  /\ \A i, k \in DOMAIN rowsOf : rowsOf[i].waId = rowsOf[k].waId => i = k
  /\ chatsOf \subseteq {rowsOf[i].waId : i \in DOMAIN rowsOf} /\ loaded \subseteq chatsOf
  /\ \A t \in DOMAIN tasks :
       /\ tasks[t].kind \in Kinds /\ tasks[t].under \subseteq Names /\ tasks[t].who \in Names \cup {None}
       /\ tasks[t].step \in {"pair", "find", "contact", "number", "chat", "text", "done", "failed", "over"}
  /\ texts \in Nat /\ phase \in {"idle", "search", "open", "form", "saving"}

\* The person may be a contact already, as his first message or an agent made him.
LookupInit ==
  /\ paired \in BOOLEAN
  /\ rowsOf \in {<<>>} \cup {<<[waId |-> n, phone |-> p]>> : n \in Names, p \in BOOLEAN}
  /\ \A i \in DOMAIN rowsOf : rowsOf[i].waId = "phone" => rowsOf[i].phone
  /\ chatsOf \in SUBSET {rowsOf[i].waId : i \in DOMAIN rowsOf}
  /\ loaded \in SUBSET {n \in chatsOf : rowsOf[1].phone}
  /\ tasks = <<>> /\ texts = 0 /\ opened = None /\ phase = "idle" /\ unpaired = FALSE /\ unheard = FALSE

Tables == <<paired, rowsOf, chatsOf, texts, unpaired, unheard>>
Page == <<loaded, opened, phase>>

-----------------------------------------------------------------------------
(* The contact and the conversation. *)

Begin(kind, under) ==
  /\ Len(tasks) < MaxTasks
  /\ tasks' = Append(tasks, [kind |-> kind, under |-> under, who |-> None, step |-> "pair"])
At(t, step) == tasks[t].step = step
Step(t, step) == tasks' = [tasks EXCEPT ![t].step = step]

\* A request of the public API; a first message, under one name or both.
CallApi == Begin("api", {"phone"}) /\ UNCHANGED <<Tables, Page>>
PersonWrites == (\E under \in (SUBSET Names) \ {{}} : Begin("inbound", under)) /\ UNCHANGED <<Tables, Page>>

\* The pair is looked up an await before the contact.
ReadPair(t) ==
  /\ At(t, "pair")
  /\ LET under == IF paired THEN Names ELSE tasks[t].under
     IN  /\ tasks' = [tasks EXCEPT ![t].under = under, ![t].step = "find"]
         /\ unpaired' = (unpaired \/ under # Names)
  /\ UNCHANGED <<paired, rowsOf, chatsOf, texts, unheard, Page>>

\* Rows under one of the names, or with the number.
RowsUnder(names) ==
  {i \in DOMAIN rowsOf : rowsOf[i].waId \in names \/ ("phone" \in names /\ rowsOf[i].phone)}

\* The oldest row; who has none gets one under his number, if it is known.
ExistingOr(t, is) ==
  IF is # {} THEN rowsOf[CHOOSE i \in is : \A k \in is : i <= k].waId
  ELSE IF "phone" \in tasks[t].under THEN "phone" ELSE "lid"
FindExisting(t) ==
  /\ At(t, "find")
  /\ tasks' = [tasks EXCEPT ![t].who = ExistingOr(t, RowsUnder(tasks[t].under)), ![t].step = "contact"]
  /\ UNCHANGED <<Tables, Page>>

\* contact.upsert: to open a chat leaves a row as it is, and gives it its number an await later.
WithNumber(who, gets) == [i \in DOMAIN rowsOf |-> [rowsOf[i] EXCEPT !.phone = @ \/ (rowsOf[i].waId = who /\ gets)]]
UpsertContact(t) ==
  LET task == tasks[t]
      gets == task.kind # "open" /\ "phone" \in task.under
      missing == \A i \in DOMAIN rowsOf : rowsOf[i].waId # task.who
      numbered == \E i \in DOMAIN rowsOf : rowsOf[i].waId = task.who /\ rowsOf[i].phone
  IN  /\ At(t, "contact")
      /\ rowsOf' = IF missing THEN Append(rowsOf, [waId |-> task.who, phone |-> "phone" \in task.under])
                   ELSE WithNumber(task.who, gets)
      /\ Step(t, IF task.kind = "open" /\ ~missing /\ ~numbered THEN "number" ELSE "chat")
      /\ UNCHANGED <<paired, chatsOf, texts, unpaired, unheard, Page>>
GiveNumber(t) ==
  /\ At(t, "number") /\ rowsOf' = WithNumber(tasks[t].who, TRUE) /\ Step(t, "chat")
  /\ UNCHANGED <<paired, chatsOf, texts, unpaired, unheard, Page>>

\* conversation.upsert.
UpsertChat(t) ==
  /\ At(t, "chat") /\ chatsOf' = chatsOf \cup {tasks[t].who}
  /\ Step(t, CASE tasks[t].kind = "start" -> "text" [] tasks[t].kind = "open" -> "done" [] OTHER -> "over")
  /\ UNCHANGED <<paired, rowsOf, texts, unpaired, unheard, Page>>

\* deliverText.
WriteText(t) ==
  /\ At(t, "text") /\ texts' = texts + 1 /\ Step(t, "done")
  /\ UNCHANGED <<paired, rowsOf, chatsOf, unpaired, unheard, Page>>

\* The line is not connected, the number is short, or an error; an answer may be lost.
FailTask(t) ==
  /\ tasks[t].step \notin {"failed", "over"} /\ tasks[t].kind \in {"start", "open"}
  /\ Step(t, "failed") /\ unheard' = (unheard \/ (At(t, "done") /\ tasks[t].kind = "start"))
  /\ UNCHANGED <<paired, rowsOf, chatsOf, texts, unpaired, Page>>

-----------------------------------------------------------------------------
(* The page of the agent: one click at a time, and one form. *)

Shows(who) == loaded' = loaded \cup {who} /\ opened' = who

\* A chat of the list with the number is opened at once, otherwise it is searched.
ClickNumber ==
  /\ phase = "idle"
  /\ IF loaded # {} THEN opened' \in loaded /\ UNCHANGED phase ELSE phase' = "search" /\ UNCHANGED opened
  /\ UNCHANGED <<Tables, tasks, loaded>>

\* Who has his number in the row is found; a search that fails finds nothing.
Search ==
  /\ phase = "search"
  /\ LET found == {rowsOf[i].waId : i \in {k \in DOMAIN rowsOf : rowsOf[k].phone}} \cap chatsOf
     IN  \/ /\ found # {} /\ (\E who \in found : Shows(who)) /\ phase' = "idle" /\ UNCHANGED tasks
         \/ /\ Begin("open", {"phone"}) /\ phase' = "open" /\ UNCHANGED <<loaded, opened>>
  /\ UNCHANGED Tables

\* The agent goes on to another chat, or fills the form.
GoElsewhere == opened # None /\ opened' = None /\ UNCHANGED <<Tables, tasks, loaded, phase>>
OpenForm ==
  /\ phase = "idle" /\ phase' = "form" /\ texts' = 0
  /\ UNCHANGED <<paired, rowsOf, chatsOf, unpaired, unheard, tasks, loaded, opened>>
\* It may be closed, and another opened, while a request is out; it cannot be sent.
CloseForm == phase \in {"form", "saving"} /\ phase' = "idle" /\ UNCHANGED <<Tables, tasks, loaded, opened>>
Saving == \E t \in DOMAIN tasks : tasks[t].kind = "start" /\ ~At(t, "over")
SubmitForm ==
  /\ phase = "form" /\ ~Saving /\ Begin("start", {"phone"}) /\ phase' = "saving"
  /\ UNCHANGED <<Tables, loaded, opened>>

\* The chat is shown; the list is loaded again after a form, and the form that is open is closed.
Done(t) ==
  /\ At(t, "done") /\ Step(t, "over") /\ Shows(tasks[t].who)
  /\ phase' = IF tasks[t].kind = "open" \/ phase \in {"form", "saving"} THEN "idle" ELSE phase
  /\ UNCHANGED Tables
\* A click falls back to the form; a form stays, to be submitted again.
Failed(t) ==
  /\ At(t, "failed") /\ Step(t, "over")
  /\ phase' = IF tasks[t].kind = "open" \/ phase = "saving" THEN "form" ELSE phase
  /\ texts' = IF tasks[t].kind = "open" THEN 0 ELSE texts
  /\ UNCHANGED <<paired, rowsOf, chatsOf, unpaired, unheard, loaded, opened>>

LearnPair == ~paired /\ paired' = TRUE /\ UNCHANGED <<rowsOf, chatsOf, tasks, texts, unpaired, unheard, Page>>

LookupNext ==
  \/ CallApi \/ PersonWrites \/ LearnPair
  \/ \E t \in DOMAIN tasks :
       \/ ReadPair(t) \/ FindExisting(t) \/ UpsertContact(t) \/ GiveNumber(t) \/ UpsertChat(t) \/ WriteText(t)
       \/ FailTask(t) \/ Done(t) \/ Failed(t)
  \/ ClickNumber \/ Search \/ GoElsewhere \/ OpenForm \/ CloseForm \/ SubmitForm

LookupSpec == LookupInit /\ [][LookupNext]_lookupVars

-----------------------------------------------------------------------------
(* However many write to a person at once, and whoever is first, he is one *)
(* contact with one chat, unless somebody looked him up before the pair of *)
(* his names was on file (contact-identity.ts:17-42, session-manager.ts:   *)
(* 610-660).                                                               *)
OnePersonOneChat == ~unpaired => Len(rowsOf) <= 1

\* A text of the form is stored once, however often it is sent again after a refusal, unless an
\* answer was lost; a chat of the list is his with his number (page.tsx:1893-1993).
FormSendsOnce ==
  /\ ~unheard => texts <= 1
  /\ \A n \in loaded : \E i \in DOMAIN rowsOf : rowsOf[i].waId = n /\ rowsOf[i].phone

PersonIsReached == LookupTypeOK /\ OnePersonOneChat /\ FormSendsOnce
=============================================================================
