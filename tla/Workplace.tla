------------------------------ MODULE Workplace ------------------------------
(***************************************************************************)
(* What the agents of a company work with: its tables, the inbox, the      *)
(* composer, what they change of a chat, how they begin one, and voice     *)
(* calls.  The models share no state, so how they interleave adds nothing: *)
(* a behaviour is one of a part, and the others rest.                      *)
(***************************************************************************)
EXTENDS Office

CONSTANTS
  Chat, MaxMsg, MaxAsks, MaxLists, MaxFaults,   \* Inbox
  MaxWritten, MaxSends, MaxPending,             \* Composer
  MaxChanges, MaxWorks, MaxLoads,               \* ChatFields
  MaxTasks,                                     \* ChatLookup
  Agent, Visitor, MaxCalls                      \* Calls

VARIABLES
  row, unread, wire, asks, lists, reads, linked, sel, thread, badge, used, seen, lost, zeroed, foreign,
  made, here, box, drafts, pending, recorded, picked, sends, sending, sent, arrived, twice, excused, again,
  field, stored, displayed, changes, works, loads, tidings, version, newest, spoiled,
  paired, rowsOf, chatsOf, tasks, texts, loaded, opened, phase, unpaired, unheard,
  call, ofVisitor, ofAgent, panel, widget, down, up, online, known, logged, clicks, faults, stray,
  part      \* the part at work

Inbox == INSTANCE Inbox
Composer == INSTANCE Composer
Fields == INSTANCE ChatFields
Lookup == INSTANCE ChatLookup
Calls == INSTANCE Calls

ASSUME Fields!FieldsAssumption
ASSUME Lookup!LookupAssumption

inboxVars == <<row, unread, wire, asks, lists, reads, linked, sel, thread, badge, used, seen, lost, zeroed, foreign>>
composerVars == <<made, here, box, drafts, pending, recorded, picked, sends, sending, sent, arrived, twice, excused, again>>
fieldVars == <<field, stored, displayed, changes, works, loads, tidings, version, newest, spoiled>>
lookupVars == <<paired, rowsOf, chatsOf, tasks, texts, loaded, opened, phase, unpaired, unheard>>
callVars == <<call, ofVisitor, ofAgent, panel, widget, down, up, online, known, logged, clicks, faults, stray>>
vars == <<officeVars, inboxVars, composerVars, fieldVars, lookupVars, callVars, part>>

\* How a part rests: an empty company, and no values at all.
OfficeRests ==
  Starting([user |-> [u \in User |-> None], dept |-> [d \in Dept |-> None], stage |-> [s \in Stage |-> None],
            project |-> [p \in Project |-> None], chat |-> None, lead |-> [l \in Lead |-> None], deal |-> [k \in Deal |-> None]])
InboxRests ==
  /\ row = 0 /\ unread = 0 /\ wire = 0 /\ asks = 0 /\ lists = 0 /\ reads = 0 /\ linked = 0 /\ sel = 0
  /\ thread = 0 /\ badge = 0 /\ used = 0 /\ seen = 0 /\ lost = 0 /\ zeroed = 0 /\ foreign = 0
ComposerRests ==
  /\ made = 0 /\ here = 0 /\ box = 0 /\ drafts = 0 /\ pending = 0 /\ recorded = 0 /\ picked = 0
  /\ sends = 0 /\ sending = 0 /\ sent = 0 /\ arrived = 0 /\ twice = 0 /\ excused = 0 /\ again = 0
FieldsRest ==
  /\ field = 0 /\ stored = 0 /\ displayed = 0 /\ changes = 0 /\ works = 0 /\ loads = 0
  /\ tidings = 0 /\ version = 0 /\ newest = 0 /\ spoiled = 0
LookupRests ==
  /\ paired = 0 /\ rowsOf = 0 /\ chatsOf = 0 /\ tasks = 0 /\ texts = 0 /\ loaded = 0
  /\ opened = 0 /\ phase = 0 /\ unpaired = 0 /\ unheard = 0
CallsRest ==
  /\ call = 0 /\ ofVisitor = 0 /\ ofAgent = 0 /\ panel = 0 /\ widget = 0 /\ down = 0 /\ up = 0
  /\ online = 0 /\ known = 0 /\ logged = 0 /\ clicks = 0 /\ faults = 0 /\ stray = 0

\* One part starts as it does alone.
Starts(office, inbox, composer, fields, lookup, calls) ==
  /\ IF part = "office" THEN office ELSE OfficeRests
  /\ IF part = "inbox" THEN inbox ELSE InboxRests
  /\ IF part = "composer" THEN composer ELSE ComposerRests
  /\ IF part = "fields" THEN fields ELSE FieldsRest
  /\ IF part = "lookup" THEN lookup ELSE LookupRests
  /\ IF part = "calls" THEN calls ELSE CallsRest

Parts == {"office", "inbox", "composer", "fields", "lookup", "calls"}
WorkplaceInit ==
  /\ part \in Parts
  /\ Starts(OfficeInit, Inbox!InboxInit, Composer!ComposerInit, Fields!FieldsInit, Lookup!LookupInit, Calls!CallsInit)

WorkplaceNext ==
  /\ UNCHANGED part
  /\ IF part = "office" THEN OfficeNext ELSE UNCHANGED officeVars
  /\ IF part = "inbox" THEN Inbox!InboxNext ELSE UNCHANGED inboxVars
  /\ IF part = "composer" THEN Composer!ComposerNext ELSE UNCHANGED composerVars
  /\ IF part = "fields" THEN Fields!FieldsNext ELSE UNCHANGED fieldVars
  /\ IF part = "lookup" THEN Lookup!LookupNext ELSE UNCHANGED lookupVars
  /\ IF part = "calls" THEN Calls!CallsNext ELSE UNCHANGED callVars

WorkplaceSpec == WorkplaceInit /\ [][WorkplaceNext]_vars

-----------------------------------------------------------------------------
(* What each part promises; the comments are where it is defined. *)

\* Inbox: the open thread has the messages of its chat, and what nobody saw is
\* counted as unread (loadMessages, message.created, messages, markRead, list).
\* ChatFields: what the page shows of a chat is what is stored, changed by whom it may.
InboxIsTrue ==
  /\ part = "inbox" => Inbox!InboxIsTrue
  /\ part = "fields" => Fields!FieldsAreTrue
\* Composer: what the agent made is kept, or was sent once and where it was written.
\* ChatLookup: whom somebody begins to write to is one contact, and the text arrives once.
WrittenArrivesOnce ==
  /\ part = "composer" => Composer!KeptOrSent /\ Composer!SentOnceWhereWritten
  /\ part = "lookup" => Lookup!PersonIsReached
\* Calls: written once, and no screen shows one that is over.
CallsEndEverywhere == part = "calls" => Calls!RecordedOnce /\ Calls!ScreensAreTrue
=============================================================================
