--------------------------- MODULE InboundMessages ---------------------------
(***************************************************************************)
(* Incoming messages of ONE person on one line: persistIncoming and        *)
(* persistEdit of the Session Manager, and the rows they write (contact,   *)
(* conversation, lead, message).                                           *)
(*                                                                         *)
(* WhatsApp names the person in two ways, by number and by an opaque @lid; *)
(* a message brings one form or both, and the pair may be on file.  Every  *)
(* messages.upsert event has a handler of its own, nothing makes them take *)
(* turns, and Baileys may emit a message again.  An action is the code     *)
(* between two awaits.                                                     *)
(***************************************************************************)
EXTENDS Naturals, Sequences, FiniteSets

CONSTANTS Handler,        \* handlers at once
          Msg,            \* messages of the person
          None,
          MaxEmissions,   \* bound: messages.upsert events
          MaxEdits,       \* bound: edits
          Faults, MaxFault   \* bound: which faults, and how many

Jid == {"lid", "phone"}

ASSUME InboundAssumption ==
  /\ None \notin Handler \cup Msg \cup Jid \cup Nat
  /\ MaxEmissions \in Nat \ {0} /\ MaxEdits \in Nat /\ MaxFault \in Nat
  /\ Faults \subseteq {"crash", "error"}

VARIABLES form,       \* the forms of the sender each message brings
          mapped,     \* the lid-mapping of the person is on file
          contacts,   \* rows of Contact, oldest first
          unread,     \* unreadCount of each contact's conversation, None without one
          leads,      \* leads of each contact
          row,        \* rows of Message
          task,
          emitted,    \* messages Baileys emitted
          emissions, edits, used,
          fresh,      \* history: messages counted since the panel read the chat
          blind,      \* history: a sender was looked up with one form only
          failed,     \* history: messages one of whose handlings failed
          doubled,    \* history: messages emitted again while being handled
          halfway     \* history: conversations whose creator died before the lead

vars == <<form, mapped, contacts, unread, leads, row, task, emitted, emissions, edits, used,
          fresh, blind, failed, doubled, halfway>>

-----------------------------------------------------------------------------
Pc == {"idle", "check", "identity", "contact", "conversation", "write", "lead", "store",
       "unseal", "edit", "rewrite"}

Text == 0..MaxEdits      \* 0 is what was first written, n the n-th edit

\* original is metadata.originalBody: None until the first edit.
Stored == [body : Text, original : Text \cup {None}]

ASSUME NoRowAssumption == None \notin Stored

TypeOK ==
  /\ form \in [Msg -> (SUBSET Jid) \ {{}}] /\ mapped \in BOOLEAN
  /\ contacts \in Seq([waId : Jid, phone : BOOLEAN])
  /\ \A i, k \in DOMAIN contacts : contacts[i].waId = contacts[k].waId => i = k
  /\ \A c \in Jid : /\ unread[c] \in Nat \cup {None} /\ leads[c] \in Nat
                    /\ unread[c] # None => \E i \in DOMAIN contacts : contacts[i].waId = c
                    /\ fresh[c] \subseteq Msg
  /\ row \in [Msg -> Stored \cup {None}]
  /\ \A h \in Handler : /\ task[h].pc \in Pc /\ task[h].m \in Msg \cup {None}
                        /\ task[h].c \in Jid \cup {None} /\ task[h].new \in BOOLEAN
                        /\ task[h].text \in Text /\ task[h].seen \in Stored \cup {None}
  /\ emitted \subseteq Msg /\ emissions \in 0..MaxEmissions /\ edits \in 0..MaxEdits
  /\ used \in 0..MaxFault /\ blind \in BOOLEAN /\ failed \subseteq Msg /\ doubled \subseteq Msg /\ halfway \subseteq Jid

Resting == [pc |-> "idle", m |-> None, c |-> None, new |-> FALSE, text |-> 0, seen |-> None]

Init ==
  /\ form \in [Msg -> (SUBSET Jid) \ {{}}] /\ mapped \in BOOLEAN
  /\ contacts = <<>>
  /\ unread = [c \in Jid |-> None] /\ leads = [c \in Jid |-> 0]
  /\ row = [m \in Msg |-> None]
  /\ task = [h \in Handler |-> Resting]
  /\ emitted = {} /\ emissions = 0 /\ edits = 0 /\ used = 0
  /\ fresh = [c \in Jid |-> {}] /\ blind = FALSE /\ failed = {} /\ doubled = {} /\ halfway = {}

Fault(f) == f \in Faults /\ used < MaxFault /\ used' = used + 1
At(h, pc) == task[h].pc = pc
Goto(h, pc) == task' = [task EXCEPT ![h].pc = pc]
Leave(h) == task' = [task EXCEPT ![h] = Resting]
World == <<form, emitted, emissions, edits, used>>

\* Handlers of a message that may still count it.
Storing(m) == {h \in Handler : task[h].m = m /\ task[h].pc \notin {"idle", "unseal", "edit", "rewrite"}}

-----------------------------------------------------------------------------
(***************************************************************************)
(* persistIncoming.                                                        *)
(***************************************************************************)
\* messages.upsert: the message for the first time, or once more.
Emit(h, m) ==
  /\ At(h, "idle") /\ emissions < MaxEmissions
  /\ emitted' = emitted \cup {m} /\ emissions' = emissions + 1
  /\ task' = [task EXCEPT ![h].pc = "check", ![h].m = m]
  /\ doubled' = IF Storing(m) = {} THEN doubled ELSE doubled \cup {m}
  /\ UNCHANGED <<form, mapped, contacts, unread, leads, row, edits, used, fresh, blind, failed, halfway>>

\* Leaves the check to the upsert of the row.
CheckNothing(h) ==
  /\ At(h, "check") /\ Goto(h, "identity")
  /\ UNCHANGED <<mapped, contacts, unread, leads, row, fresh, blind, failed, doubled, halfway, World>>

\* alreadyStored: before anything is counted.
Check(h) ==
  /\ At(h, "check")
  /\ IF row[task[h].m] = None THEN Goto(h, "identity") ELSE Leave(h)
  /\ UNCHANGED <<mapped, contacts, unread, leads, row, fresh, blind, failed, doubled, halfway, World>>

\* The forms of the sender: those of the message, and the other one if the pair is on file.
Pair(m, found) == IF found THEN Jid ELSE form[m]

\* The oldest contact with one of the forms, or with the number.
Matching(pair) ==
  {i \in DOMAIN contacts : contacts[i].waId \in pair \/ ("phone" \in pair /\ contacts[i].phone)}

Oldest(is) == contacts[CHOOSE i \in is : \A k \in is : i <= k].waId

\* A new contact gets the number, if it is known.
Identity(m, found) ==
  LET is == Matching(Pair(m, found))
  IN  IF is # {} THEN Oldest(is) ELSE IF "phone" \in Pair(m, found) THEN "phone" ELSE "lid"

\* The pair is looked up an await before the contact: it may be on file by now, and
\* the lookup may fail; then the message's own forms are used.
Identify(h) ==
  /\ At(h, "identity")
  /\ \E found \in BOOLEAN :
       /\ found => mapped
       /\ task' = [task EXCEPT ![h].pc = "contact", ![h].c = Identity(task[h].m, found),
                               ![h].new = "phone" \in Pair(task[h].m, found)]
       /\ blind' = (blind \/ Pair(task[h].m, found) # Jid)
  /\ UNCHANGED <<mapped, contacts, unread, leads, row, fresh, failed, doubled, halfway, World>>

\* contact.upsert by waId.  Here new says that the number is known.
UpsertContact(h) ==
  /\ At(h, "contact")
  /\ contacts' = IF \E i \in DOMAIN contacts : contacts[i].waId = task[h].c
                 THEN [i \in DOMAIN contacts |->
                         IF contacts[i].waId = task[h].c
                         THEN [contacts[i] EXCEPT !.phone = @ \/ task[h].new] ELSE contacts[i]]
                 ELSE Append(contacts, [waId |-> task[h].c, phone |-> task[h].new])
  /\ task' = [task EXCEPT ![h].pc = "conversation", ![h].new = FALSE]
  /\ UNCHANGED <<mapped, unread, leads, row, fresh, blind, failed, doubled, halfway, World>>

\* Is there a conversation?  The answer is used two awaits later.
FindConversation(h) ==
  /\ At(h, "conversation")
  /\ task' = [task EXCEPT ![h].pc = "write", ![h].new = (unread[task[h].c] = None)]
  /\ UNCHANGED <<mapped, contacts, unread, leads, row, fresh, blind, failed, doubled, halfway, World>>

Count(h) == fresh' = [fresh EXCEPT ![task[h].c] = @ \cup {task[h].m}]

Increment(h) ==
  /\ At(h, "write") /\ ~task[h].new
  /\ unread' = [unread EXCEPT ![task[h].c] = @ + 1]
  /\ Count(h) /\ Goto(h, "store")
  /\ UNCHANGED <<mapped, contacts, leads, row, blind, failed, doubled, halfway, World>>

\* An upsert: who finds the conversation there adds to it, and goes on as its creator.
CreateOrAdd(h) ==
  /\ At(h, "write") /\ task[h].new
  /\ unread' = [unread EXCEPT ![task[h].c] = IF @ = None THEN 1 ELSE @ + 1]
  /\ Count(h) /\ Goto(h, "lead")
  /\ UNCHANGED <<mapped, contacts, leads, row, blind, failed, doubled, halfway, World>>

CreateConversation(h) ==
  /\ At(h, "write") /\ task[h].new /\ unread[task[h].c] = None
  /\ unread' = [unread EXCEPT ![task[h].c] = 1]
  /\ Count(h) /\ Goto(h, "lead")
  /\ UNCHANGED <<mapped, contacts, leads, row, blind, failed, doubled, halfway, World>>

\* Another handler created it meanwhile: the unique key throws, the message is dropped.
Collide(h) ==
  /\ At(h, "write") /\ task[h].new /\ unread[task[h].c] # None
  /\ Leave(h)
  /\ failed' = failed \cup {task[h].m}
  /\ UNCHANGED <<mapped, contacts, unread, leads, row, fresh, blind, doubled, halfway, World>>

CreateLead(h) ==
  /\ At(h, "lead")
  /\ leads' = [leads EXCEPT ![task[h].c] = @ + 1]
  /\ Goto(h, "store")
  /\ UNCHANGED <<mapped, contacts, unread, row, fresh, blind, failed, doubled, halfway, World>>

\* message.upsert with an empty update: the first one stays.
Store(h) ==
  /\ At(h, "store")
  /\ row' = [row EXCEPT ![task[h].m] = IF @ = None THEN [body |-> 0, original |-> None] ELSE @]
  /\ Leave(h)
  /\ UNCHANGED <<mapped, contacts, unread, leads, fresh, blind, failed, doubled, halfway, World>>

-----------------------------------------------------------------------------
(***************************************************************************)
(* persistEdit: reads the row, writes the new text and keeps the first.    *)
(***************************************************************************)
\* The edit comes as it is, or sealed with a secret of the message it is of.
Edit(h, m) ==
  /\ At(h, "idle") /\ m \in emitted /\ edits < MaxEdits
  /\ edits' = edits + 1
  /\ \E step \in {"edit", "unseal"} : task' = [task EXCEPT ![h].pc = step, ![h].m = m, ![h].text = edits + 1]
  /\ UNCHANGED <<form, mapped, contacts, unread, leads, row, emitted, emissions, used, fresh, blind, failed, doubled, halfway>>

\* persistSecretEdit: not without the row and its secret, nor if no form of the sender opens it
\* or it holds nothing that can be read.
Unseal(h) ==
  /\ At(h, "unseal")
  /\ \/ row[task[h].m] # None /\ Goto(h, "edit")
     \/ Leave(h)
  /\ UNCHANGED <<mapped, contacts, unread, leads, row, fresh, blind, failed, doubled, halfway, World>>

\* A message that is not stored (yet) has nothing to edit.
FindOriginal(h) ==
  /\ At(h, "edit")
  /\ IF row[task[h].m] = None THEN Leave(h)
     ELSE task' = [task EXCEPT ![h].pc = "rewrite", ![h].seen = row[task[h].m]]
  /\ UNCHANGED <<mapped, contacts, unread, leads, row, fresh, blind, failed, doubled, halfway, World>>

RewriteLast(h) ==
  /\ At(h, "rewrite")
  /\ row' = [row EXCEPT ![task[h].m] = [body |-> task[h].text, original |-> task[h].seen.body]]
  /\ Leave(h)
  /\ UNCHANGED <<mapped, contacts, unread, leads, fresh, blind, failed, doubled, halfway, World>>

Rewrite(h) ==
  /\ At(h, "rewrite")
  /\ row' = [row EXCEPT ![task[h].m] =
               [body |-> task[h].text,
                original |-> IF task[h].seen.original # None THEN task[h].seen.original ELSE task[h].seen.body]]
  /\ Leave(h)
  /\ UNCHANGED <<mapped, contacts, unread, leads, fresh, blind, failed, doubled, halfway, World>>

-----------------------------------------------------------------------------
\* Baileys learns the pair.
Learn ==
  /\ ~mapped /\ mapped' = TRUE
  /\ UNCHANGED <<contacts, unread, leads, row, task, fresh, blind, failed, doubled, halfway, World>>

\* The panel opens the chat: markRead, and the list of messages.
MarkRead(c) ==
  /\ unread[c] \notin {None, 0}
  /\ unread' = [unread EXCEPT ![c] = 0]
  /\ fresh' = [fresh EXCEPT ![c] = {}]
  /\ UNCHANGED <<mapped, contacts, leads, row, task, blind, failed, doubled, halfway, World>>

Ended(hs) ==
  /\ failed' = failed \cup {task[h].m : h \in {x \in hs : task[x].pc \notin {"idle", "unseal", "edit", "rewrite"}}}
  /\ halfway' = halfway \cup {task[h].c : h \in {x \in hs : At(x, "lead")}}
  /\ task' = [h \in Handler |-> IF h \in hs THEN Resting ELSE task[h]]

\* A query or the publish of the new lead fails: the event handler logs it, no more.
Fails(h) ==
  /\ ~At(h, "idle") /\ Fault("error")
  /\ Ended({h})
  /\ UNCHANGED <<form, mapped, contacts, unread, leads, row, emitted, emissions, edits, fresh, blind, doubled>>

Crash ==
  /\ \E h \in Handler : ~At(h, "idle")
  /\ Fault("crash")
  /\ Ended(Handler)
  /\ UNCHANGED <<form, mapped, contacts, unread, leads, row, emitted, emissions, edits, fresh, blind, doubled>>

-----------------------------------------------------------------------------
Handle(h) ==
  \/ Check(h) \/ Identify(h) \/ UpsertContact(h) \/ FindConversation(h)
  \/ Increment(h) \/ CreateConversation(h) \/ Collide(h) \/ CreateLead(h) \/ Store(h)
  \/ Unseal(h) \/ FindOriginal(h) \/ Rewrite(h)

Next ==
  \/ \E h \in Handler : Handle(h) \/ Fails(h)
  \/ \E h \in Handler, m \in Msg : Emit(h, m) \/ Edit(h, m)
  \/ Learn \/ Crash
  \/ \E c \in Jid : MarkRead(c)

Spec == Init /\ [][Next]_vars

-----------------------------------------------------------------------------
(***************************************************************************)
(* Properties.                                                             *)
(***************************************************************************)
\* The person is one contact, however the handlers interleave, unless some sender
\* was looked up while only one of the two forms was known.
OneContact == ~blind => Len(contacts) <= 1

\* A conversation begins one lead, and the conversation of a contact that has no
\* handler at work on it has its lead.
OneLead ==
  \A c \in Jid : /\ leads[c] <= 1
                 /\ (unread[c] # None /\ c \notin halfway /\ \A h \in Handler : ~(At(h, "lead") /\ task[h].c = c))
                    => leads[c] = 1

\* A new person is one contact with one lead.
OnePerson == OneContact /\ OneLead

\* The badge of a chat counts every message once, however often it was emitted,
\* unless a handling of the message failed or overlapped with another one.
UnreadIsTrue ==
  \A c \in Jid : unread[c] # None /\ fresh[c] \cap (failed \cup doubled) = {} => unread[c] = Cardinality(fresh[c])

\* A message that was emitted and is not being handled is stored, unless a
\* handling of it failed or lost the race to create the chat.
HandledIsStored ==
  \A m \in Msg : m \in emitted /\ Storing(m) = {} /\ m \notin failed => row[m] # None

\* The first text survives every order of edits and repeated emissions.
FirstTextIsKept ==
  \A m \in Msg : row[m] # None => (IF row[m].body = 0 THEN row[m].original = None ELSE row[m].original = 0)

\* What a person wrote is stored, and as it was first written.
NothingIsLost == HandledIsStored /\ FirstTextIsKept
=============================================================================
