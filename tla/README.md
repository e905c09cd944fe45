# BrainWSP in TLA+

BrainWSP connects WhatsApp lines of many companies to one shared inbox. This directory is a model of
it: TLA+ modules translated from the source, TLC configurations that check them on small instances,
and theorems about them that TLAPS checks for every value of the constants.

## The system

| part | state it keeps | talks to |
|---|---|---|
| Session Manager (`apps/worker/src/session-manager.ts`) | one Baileys socket per line, timers, flags; a lease per line in Redis; status of the line | Redis, PostgreSQL, WhatsApp, the command queue |
| Outbound delivery (`outbound-worker.ts`, `conversations.service.ts`, `messages.service.ts`) | message row, BullMQ job | API -> queue -> worker -> WhatsApp -> receipts |
| Inbound messages (`session-manager.ts`, `lid-identity.ts`) | contact, conversation, lead, message rows, pictures | WhatsApp -> PostgreSQL -> realtime |
| Automations and AI (`automation-engine.ts`, `ai-agent.ts`, `engine/run-flow.ts`) | flow execution per conversation, timers as jobs | inbound -> flow -> outbound |
| Conversations, CRM, team (`conversations/`, `crm/`, `team/`) | owner, department, stage of conversations, leads and deals; defaults of the company | panel |
| Inbox of the panel (`web/app/conversations/page.tsx`) | thread, badges, composer, drafts, what is shown of a chat | API, one socket |
| Plans, payments, licences (`admin/`, `billing/`) | payment requests, plan and expiry of a company | panel of the owner, superadmin |
| Media store (`system-settings/`, `storage/`) | objects in MinIO, urls in rows | API, worker, purge and deduplication jobs |
| Calls, realtime, widget (`realtime/`, `widget/`, `web/app/c/[slug]/`, `widget.js`) | calls and timers in memory, sockets and rooms; the visitor's page | browsers of agents and visitors |
| Lines, devices, keys (`instances/`, `user-device/`, `api-credentials/`) | lines of a company, master and child keys | panel, a company's own server |
| Accounts, sessions, permissions (`auth/`, guards, `web/lib/api.ts`, `app-shell.tsx`) | users, tokens in the storages of a browser, modules of plan, company and person | every request |
| Calendar (`calendar/`) | appointments, tokens of a Google account | Google |
| Flows: editor, templates, simulator (`automations/`, `web/app/automations/`) | graph of a flow, its draft in each tab | panel |
| Lists and reports of the panel (`web/app/*/page.tsx`, `dashboard/`) | a copy of a table per page | API, one socket |
| Scripts (`merge-duplicate-contacts.ts`, `fusionar-contactos-duplicados.sql`) | - | the tables, beside a running worker |
| Deployment | none the system depends on | |

What makes it hard: a process is single threaded but every handler stops at each `await` and others
run in between; two workers share a line through a lease with a timeout; jobs are retried and run
again after a crash; receipts, answers and browser events arrive in any order; most writes are
read-then-write without a transaction; every page keeps its own copy of what it shows.

For each part, what makes it correct:

* Session Manager: one socket per line; a line that should be up comes back; a line that is off stays off.
* Delivery: a message goes out once, what is shown of it is true, it does not stay queued.
* Inbound: a person is one contact, a message is stored and counted once, the picture is the person's.
* Automations: one flow at a time per conversation, and every timer ends; what was drawn is what runs.
* CRM and team: at most one default, and active; a prospect is converted once; conversation, lead and deal agree.
* Inbox: a thread shows its messages, a badge what was not read, and what is written is sent once.
* Billing: the licence is that of the plan, a payment is reviewed once, cancelling takes back its own.
* Media: a file some row shows is never deleted.
* Calls: a call is answered by one agent and always ends on every screen.
* Keys and accounts: a key that was retired opens nothing, one account for each who comes, a tab acts
  for whom it names, the menu shows what the guards open.
* Calendar and scripts: the table and Google agree, joining contacts loses nothing.
* Pages: what a page shows, once nothing is on its way, is what is stored.

## Modules

| module | what it is |
|---|---|
| `SessionManager` | one line, several worker processes: `connectOnce`, the lease, the close handler, timers, QR pause, commands, shutdown, crash |
| `ExclusiveLease` | the abstract lease; the refinement mapping is at the end of `SessionManager` |
| `MessageDelivery` | one outgoing message: row, job, runs of `process()`, copies, receipts, delete |
| `Automations` | one conversation and one flow: the walk over the graph, executions, timers as jobs, Auto Off |
| `Workplace` | composes `Office`, `Inbox`, `Composer`, `ChatFields`, `ChatLookup`, `Calls` |
| `Office` | composes `Team` and `Crm` over the tables of `CompanyTables` |
| `Services` | composes `InboundMessages`, `MediaStore`, `Pictures`, `Integrations`, `VisitorPage` |
| `BackOffice` | composes `Billing`, `CalendarBook`, `MergeContacts`, `FlowEditor`, `FlowSimulator`, `Bubble`, `Accounts`, `PanelAccess`, `PanelDoors`, `BrowserSession`, `PanelLists`, `Reports` |
| `MCSession`, `MCAutomations`, `MCWorkplace`, `MCServices`, `MCBackOffice` | the same for TLC: symmetry, starting tables, graphs |
| `*Proofs` | the theorems, see below |

`Office` is one state machine: requests about the team, the Kanban and the chats over one set of
tables. The models inside `Workplace`, `Services` and `BackOffice` share no state, so their
interleavings add nothing: a behaviour chooses a `part` and the others rest. What one model needs of
another is a single step of it: `InboundMessages` ends where `Automations` begins, a flow's
`SendEffect` creates the row and job that `MessageDelivery` follows, `Sends` in `SessionManager` is the
call of `ensureConnected` each of those jobs makes, an appointment or a lead that a page of
`PanelLists` changes is a request of `CalendarBook` or `Crm`.

In every module an action is the code from one `await` to the next, and a history variable records why
something may be worse than the property says: the property then names the overlap that breaks it.

### SessionManager

`mem[w]` is the `SessionManager` object of process `w`: `sock` is `sockets.get(id)`, `sk` the sockets
that are not closed yet (registered or not), `conn` the runs of `connectOnce` in flight (the
`connecting` map), `armed`/`tracked` the reconnect timers and whether `reconnectTimers` still knows
them, `leaseRetry`, `leaseTimer`, `manualStop`, `leaseLost` and `cycles` the maps of those names, and
`tasks` the handlers that stand at an `await`. `redis` is the key `brainwsp:instance:{id}:owner`:
its owner and whether it was renewed within its TTL. `db` is the row: status, `autoConnect`
(with `active` and the provider folded in), and whether credentials are stored. Every map is keyed by
the instance id, so one line is enough.

An action is the code from one `await` to the next. Left out: the length of backoffs and TTLs (a
timer fires at any time after it is armed; `Lapse` needs an owner that no longer renews), the
`reconnectAttempt` counter, and what the lines log. `GET`/`PEXPIRE` of a renewal are one action, as in
the Lua script. An answer of `ensureLease` is an action of its own (`AnswerLease`): `held` and `busy` stand
for what Redis has answered and the process has not yet heard, and a release may come in between. The API's change of `autoConnect` and its `queue.add` are one action. A crash also
stands for an exception no handler catches. Baileys is external: after `end()` a close event comes,
with no code; a scanned QR closes the socket with `restartRequired`.

`FairSpec` assumes that callbacks that are due run, that an ended socket reports its close, that Redis
drops an expired key, that the queue hands out jobs, and that Docker starts a process that is gone
(`restart: unless-stopped`). It assumes nothing about WhatsApp, the users or the faults: a socket may
stay open for ever, a QR may never be scanned.

### MessageDelivery

`row` is the message (status, which copy its `waMessageId` names, `deleted`), `job` the BullMQ job
with `attemptsMade` and its stalled count, `run` the executions of `process()`, each at one of its
awaits. `wire` is what WhatsApp has: the copies in order and how far each got. `acks` are
`messages.update` handlers before their write; two of them may write in either order. `bumps` are
calls of `bumpMessageStatus` between their read and their write (Clienera Chat). `del` is the
delete-message job. `unsure` counts the times the record of a copy was lost, `cut` says that the job
ended without the row hearing of it, `twice` that a job was taken again while its first run lived.
Message kinds, quoting, buttons and media conversion are one `Send` that may fail; send-reaction and
the pinned and starred flags are not modelled.

Fairness: workers take and run jobs, and BullMQ looks for stalled ones.

### InboundMessages

`form[m]` is the forms of the sender a message brings (`remoteJid`, `remoteJidAlt`) and `mapped`
whether Baileys has the pair on file; `contacts` are the rows in the order of `createdAt`, `unread`
and `leads` belong to the conversation of each contact, `row` is the message with `body` and
`metadata.originalBody`. `task[h]` is one run of `persistIncoming` or `persistEdit` at one of its
awaits. Nothing keeps two runs for the same person apart. `failed` and `doubled` remember the
messages for which the code promises less: it catches every error of a handler and logs it. No
fairness is assumed, the properties are safety properties. Editing comes plain or sealed; a sealed one is opened with the key in the first message, which must be
stored by then (`Unseal`). Adverts and media are left out.

### Automations

`walk` is `run-flow.ts` on a graph given as a constant; it becomes a sequence of effects, each with the
place it comes from and whether a delay precedes it. Which option a reply matches is part of the graph
(`edge`). `exec` are the rows of `FlowExecution`, `jobs` the flow-resume jobs by id, `task[s]` the
handler of a text or the run of a job at one of its awaits. `seen`, `rushed`, `torn` and `adrift` are
history: the last message of an execution, that a text was looked at while another was being
answered, that a run died while it was sending, and that a job ran when its execution was not where
it belongs, was lost for good, or that closing the execution failed. Fairness: handlers run on, timers fire, stalled jobs are found.

### Billing

`company` is plan, `planStartedAt` and `licenseRenewsAt`, a date being who gave it and when; `req` the
payment requests with the snapshot taken at approval; `task[a]` what the request of a superadmin has
read. Every handler checks the status, stops at awaits, and writes in a transaction that does not
check again. `contested` are requests two superadmins had open at once, `stale` cancellations whose
company changed after they compared it, `kept` plans set by hand without touching the date.
Every activation or edit has an instant of its own; two in the same millisecond are not modelled.

### Office: CompanyTables, Team, Crm

`db` is the tables of one company, each row reduced to what the handlers tell apart; `task[r]` is a
request between its checks (`Look`) and its writes. The handlers of the three services are their
actions; foreign keys, unique keys and cascades of `schema.prisma` are in the writes that meet them.
`overlaps`, `torn`, `kanban` and `died` are the history the properties name. The id of a stage, prospect
or deal is a cuid, so none that is in `gone` is given again (`Fresh`). A permission only lets fewer
people make the same request, and names, tags and knowledge entries depend on nothing: left out.

### Inbox, Composer, ChatFields, ChatLookup

`Inbox` is the thread, the badges, the socket and the loads under way of one agent; `Composer` the text
box, drafts, pending files, voice notes, quick replies and the sends under way. `ChatFields` follows one
field that an agent changes. What differs between the handlers of the page (shown at the click or after
the answer, undone or not, told to the others or not, queued or not) is a record per handler; the
handlers of the server and of the worker are the actions. `ChatLookup` is how somebody begins to write
to one person, from the page, from the public API or from the phone, under a number or an `@lid`.

### Calls

The visitor's page, the panels of two agents, and between them the gateway and `CallsService` with the
call in memory. `down`, `up` are messages of each socket, in order; `panel`, `widget` the phases of each
screen. Drops, reloads, timeouts, a refused microphone and a failed write come at any time.

### MediaStore, Pictures, Integrations, VisitorPage

`MediaStore`: rows of three kinds (messages, quick replies, and what no join may move, called stickers),
objects with a content, handlers that hold a url they have not written yet, and the jobs of two
processes, step by step. `Pictures`: the picture WhatsApp has, the one the row has, what the panels were
told, and the fetches of the four sweeps. `Integrations`: the master key, child keys of devices and
channels, and the requests that make, revoke, replace and archive. `VisitorPage`: history, socket and
requests of the widget's page, and the API behind it.

### What is tended apart from the chats

`CalendarBook` is the table, Google's events by account, the stored tokens, and requests that hold the
ones they read. `MergeContacts` is both scripts, statement by statement, beside the worker.
`FlowEditor` is what each tab has drawn, and the form of a content node with uploads under way;
`FlowSimulator` the four templates, the simulator and the engine on the same texts. `Bubble` is the
script on a company's site, a style per element and a set of due timers. `Accounts` is registration and
Google sign-in between look and write. `PanelAccess` works out the modules of a person twice, as the
guard does and as the menu does; `PanelDoors` is the table of routes, guards and what each page asks
for. `BrowserSession` is two storages and several tabs. `PanelLists` has a page as a record of what its
handlers do, as `ChatFields`, and follows one row. `Reports` works out each report from the tables, with
hours for instants, two for a day, and two zones.

## Runs

| run | question | bounds |
|---|---|---|
| `session_process` | one process, every order of messages, timers, QR cycles, unlinking, lost connections, until it finds its lease gone | 2 socket slots, 3 QR cycles as in the code |
| `session_lease` | two processes at once, one crash or shutdown; the lease refines `ExclusiveLease` | as above, 1 fault |
| `session_faults` | does a line come back after a crash, a lost connection or an unlinking, and a line that is switched off rest (liveness); commands, a database failure, a lost lease | 2 processes one after the other; a crash, or 1 command and a failure or a lost key |
| `session_two_sockets` | violated: two workers, one line, two sockets | |
| `delivery_message` | one message through every fault and order | 2 attempts (5 in the code), 2 faults, 2 receipts under way |
| `delivery_lowered` | violated: READ falls back to DELIVERED | |
| `automations` | one flow at a time, one run of it, the right menu, silence after the end; timers end (liveness) | 2 slots, 3 texts, 2 faults; a graph with 2 menus, 2 delays in a row, Auto Off |
| `automations_loop` | violated: a flow that returns to a Wait node stays there | 1 slot, no fault |
| `workplace` | defaults, pipelines, deletions; threads, badges, fields; what is written; how a chat begins; calls | 2 requests at once over 2 users, 2 departments, 3 stages, 2 deals; 2 chats, 2 messages, 3 things written; 2 changes of a field; 2 lookups; 2 agents, 1 visitor, 2 clicks |
| `calls_answered` | violated: the agent who answers loses the call | |
| `services` | one person, a true badge, nothing lost; files and pictures; keys; the visitor's thread | 2 handlers, 2 messages under every pair of forms, 3 emissions, 2 edits and 1 fault that do not all meet; 3 rows, 3 objects, 2 jobs; 3 fetches; 3 keys, 2 lines, 3 requests; 2 messages of the visitor |
| `backoffice` | licences, calendar, scripts, flows, accounts, sessions, menus, doors, lists, reports | 2 of each actor (superadmins, tabs, clients, requests), 2 payments, 2 instants for approvals and an edit, 2 appointments, 3 requests of 3 addresses and 2 identities of which two change, 3 options, 3 logins of 2 superadmins and a client, 3 exchanges of a list |

Two of each actor are enough for what a pair can do to each other; a third comes in where one may undo
what two did (a third emission repeats a message after a race for its chat; a third stage stands
outside both departments). Two attempts give a first and a last one; two faults let one hit the
recovery from another. Three texts start a flow, answer its first menu and interrupt what follows;
`MaxSteps` is above the length of every path of the graphs, as 200 is in practice. `MCWorkplace` gives
`Office` starting companies that differ in what the handlers tell apart instead of all of them, and
drops histories that can no longer be told apart (`Followed`): what went wrong for good stays so. Other
constraints keep kinds of trouble apart that touch different things: three emissions, two edits and a
fault do not all meet (`Few` of `MCServices`), nor does a change elsewhere, a dropped socket and a third
request of a list, nor messages and chats in the same
reports (`Followed` and `Apart` of `MCBackOffice`). What is proved (below) holds for any number.

Fairness is assumed only where a property needs it. `session_faults`: callbacks that are due run, an
ended socket reports its close, Redis drops an expired key, the queue hands out jobs, and Docker starts
a process that is gone (`restart: unless-stopped`). `delivery_message`: workers take and run jobs, and
BullMQ looks for stalled ones. `automations`: handlers run on, timers fire, stalled jobs are found.
Nothing is assumed about WhatsApp, the users or the faults. `CHECK_DEADLOCK FALSE` stands where the
bounds end a behaviour: no call, click or message is left.

Every property has a mutant: an operator beside the one it replaces, as the code would look with a
plausible bug, under which TLC finds the property violated.

## Proofs

The theorems are about the `Spec` of each model, for every value of its constants: any number of
processes, slots, runs, handlers, requests, messages and faults, any flow, any plan. What is assumed of
the constants is the `ASSUME` of the model (`None` is none of the values it stands beside, bounds are
numbers). Each property is the consequence of an inductive invariant, which TLC checked first, on the
bounds of the run. A proof goes step by step: what an action does to a process (or handler, run,
slot) is a lemma, and the lemmas of the invariant are about that and not about the action.

`SessionManagerProofs`

* `TypeCorrect`: the type invariant. It is not inductive alone: a connect job must be known to be one
  of `Ops`, and a tracked timer must be armed (`SoundMemory`), or `ClearTimers` would go below zero.
* `HeldLease` (process ids are not reused): a living process that owns the key renews it, or has the
  answer on its way that will make it do so (`Tending`). Inductive
  with: a process that has not started, or is dead, has no handlers (`Dormant`) and owns nothing it
  could come back to (`NotYet`).
* `OneKeeperAtATime` (also: no key lost under its owner, no command, no message that dials): two
  processes never both tend the lease. Inductive (`OrderInv`) as: whoever tends it is the owner and the
  key is fresh, so it cannot lapse; no lease was found gone; and a release never meets an attempt that
  was told the lease is its own, because what leads to a socket takes turns (`TakeTurns`): a chore, a
  timer, a retry, an attempt and a socket.
* `LeaseRefined`: under the same conditions the Session Manager implements `ExclusiveLease`. Every step
  is classified once (`StepKinds`) by what it does to the owner and the keepers. `LeaseIsExclusive`: in
  `ExclusiveLease` only the owner is a keeper. `LeaseIsNotLost`: under these conditions no process ever
  finds its lease gone.
* `OneSocketHolds` (no command): until it finds its lease gone, a process has at most one socket. The
  invariant (`OneSocket`) is
  about one process: a socket slot in use is the registered one, and an attempt is under way only while
  none is registered.
* `OneWorkerHolds` (as `OneKeeperAtATime`): at most one process has a socket of the line: a live socket
  has a lease timer, so its process is the owner.
* `NoStrandedLineHolds` (one process at a time, no command, no failure, no connection replaced): until
  it finds its lease gone, a process that serves pursues a line that is switched on, not logged out and
  not paused.
  That it has a handler is not enough, since one that writes a status leads to nothing: the invariant
  (`Minded`) says what is under way besides, that each handler stands at an await of its kind, and that
  nothing told the process to stop.

These conditions are needed. After a lost key another process may take the line while the old one still
renews; with a pinned `WORKER_ID` a restarted process owns a key it has no timer for; a command ends a
socket while another comes; and a message that calls connect breaks the turns: a lease is released under
an attempt, which is what `session_two_sockets` finds, or just before the attempt hears that the key is its
own, which then renews a key that is gone. A line is let go of by a command, by another client that takes
the connection, by a database error under a `connectOnce` nobody retries, and by a lost lease.

`MessageDeliveryProofs`: `DeliveryTyped`, `CopiesCounted`, `ReceiptsHold`, `CompletedHolds`, `DeletedHolds`.
While no lock was lost there is one run at a time and the invariant follows it (`Alone`: it has sent
nothing that is not counted); after a lost lock there are two, the run that goes on and the one the job
is given to, and `TwoRuns` counts how many of them may still send. `Receipts`: what is on its way to the
row is no further than the copy.

`BillingProofs`: `BillingTyped`, `LicenceHeld`: a cancellation writes a snapshot back and a handler writes
what it read awaits before, so the invariant says the same of every kept copy of the company (`Held`)
and that what is written back is there (`Rows`, `Tasks`). `ReviewedOnceHolds`, `CancelTakesBackHolds` are
action properties: `Sole` adds that a request is open at one superadmin unless it is `contested` (`Alone`)
and is then still as that one read it (`Fresh`).

`AutomationsProofs`: `OneAtATimeHolds`, `OverIsSilentHolds`. A property of two runs of one execution is
about its jobs too, since a job still to run is a run to come: `InStep` says that an execution has one
run at work, or one job to come, and that its status says which. The walk over the flow is never
opened: whatever effects it finds, and however it says the flow ends, the executions stay in step.

`ServicesProofs`: `OnePersonHolds`, `UnreadIsTrueHolds`, `NothingIsLostHolds`. `ByNumber`: while nobody
was looked up by one form only, every lookup came to the number. `Creating`: from the row of a
conversation to its lead there is one creator. `CountedOnce`: a message whose handling went undisturbed
has one handler, was not counted before, and once counted is stored or about to be.

`BillingProofs`: `AccountsWhole`, of `Accounts`. What a request holds is true of the table (`Sound`): the account of a
ticket is there, who is about to enter an account has it linked or is written down as a guest, and who was
refused still meets the row that refused it; it stays so because no step takes an account, its address or
its slug away (`Grows`). The attempt showed the property false for two identities, which the run had
not: an account found by its address is entered by another identity and never linked, and one that two
identities link at once is left to the second (auth.service.ts:276); both are `guests` now.

`BackOfficeProofs`: `EveryTabActsAsShown`, by an invariant of each of its three parts. Session: the token and
the user of a storage name one person while no name was saved into another's (`KeptAlike`), and a tab whose person
somebody chose reads that person's token, from its own storage before the shared one (`Chosen`). Menu: the
menu is the one worked out from the profile as the tables have it now, unless it is still awaited or the tables
changed since (`MenuIsTheProfile`), and the page followed is the one shown unless the profile locked it
(`FollowedStands`). Doors: what a page asked for and awaits no more has come, or was lost to a door that is
shut, as long as nothing changed since it was opened (`AnswersAreTrue`). The proof needed the pages and doors to be functions over their names, and that no page is called
`Nowhere` (`DoorsAssumption`), and found the sets of requests written without the parentheses they need.

`BackOfficeProofs`: `EveryScreenSettles`. Bubble: what is not on the site as its state says has a timer to come
(`Promised`). Lists: the answer for the filter chosen is shown, on its way, or sent after every other one
(`Filtered`). A page that loads its list again after a change or an event either has an answer still `Coming`
or, if not, each answer in hand that is not the row as it is will be passed over for a later one or for the
news (`Superseded`), and what it shows is the row, unless an answer, the news or an early change that
may still be refused will set it right (`UpToDate`); the news ends with the row as it is, and whoever has to
join the room again asks again (`InStep`). A page that keeps what it sent is true only of one change at a
time, and the invariant follows that change: what the row is, and what the page goes back to if it is
refused (`Alone`). TLC checked the invariant of the lists first, with three exchanges, two changes by
others and a dropped socket. That the row is never stored under the name of no row (`ListsAssumption`)
had been left unsaid.

`ServicesProofs`: `FilesHold`, the property of two parts, by an invariant of each. Files: a job that works
alone asks in turn who points to a file and removes it later, so the invariant says that no row comes to
point to it meanwhile but one that `raced` has (`Asked`, `Guarded`: with a second job at work nothing is
claimed of either, and what it removes is written down then); that pointers go only to files of the same
bytes, whether a row, a handler or a join holds them (`TrueRow`, `TrueCopy`, `TrueJob`); and that a row without
its file is excused (`KeptRow`). Pictures: chores that did not cross leave the panels told or one to tell
them (`ToldOrToBe`); the last notice on its way says of the picture as it is (`LastNoticeIsTrue`), so when the
notices run out and nothing is amiss either the row has the picture and nobody writes another, or a chore
under way will find it (`HasOrWill`). The two parts share nothing: a step of the services is a step of the one
at work. TLC checked the invariant of the files first, with two copies and two jobs.

`IntegrationsProofs`: `AccessHolds`. A request holds an AUTH KEY, a master or a line it read; `Held` says what is
still true of it when it writes: the key is a master still, since a master is never removed, no other
master has its hash (`MastersApart`), and a line that is being archived has got no key but by an overlap
that `crossed` has. What every step leaves alone is said once (`KeyStep`, `LineStep`), and each request
is then held by the same argument.

`IntegrationsProofs`: `ThreadHolds`. What the page shows is settled by events still on their way, so the
invariant is about the tale of a message: the events about it in the socket's queue, and then the one of
the request that has written and not yet published (`Tales`). A tale ends with the truth and begins with
the creation, if that is in it (`Tells`); and what the page shows, or will show of the history it read,
is true but for what the rest of the tale says, or a delete under way (`Shows`). The lemmas on tales say
what an event added at the end (`First`, `News`, `OfOthers`, `OfOthersBefore`) or taken from the front
(`TailTells`, `TailShows`) does to both, whatever row it is about. That one request writes at a time is
what `missed` leaves (`KnownBy`), and a message is created once (`Once`). An answer that adds what was
sent makes good a message that was missed: nothing else can have been told of it yet (`Untold`). TLC
checked the invariant first, with up to three requests. The proof needed neither of two conditions the
property had (the socket up; the ticks of an agent's message left open), and they are gone from it.

`OfficeProofs`: `DefaultsHold`, `ConvertedOnceHolds`, `StagesFitHolds`, `DeletesOnlyEmptyHolds`, for any number
of requests at once. A request that has looked and not yet written relies on what may have changed: the
invariant says of each what it read then, what of that still holds, and in `since` who has written
meanwhile (`MarksAt`, `ConvertAt`, `StageAt`, `DeleteAt`). A prospect has one deal: the one it is marked
with, or that a conversion half-way is about to mark it with (`OneDeal`). A stage that was there when a
request read it is of the same department still or gone for good (`Pair`, `Suits`), since ids do not come
back. Each write is opened once, in the lemma that says what it does to the rows (`...Does`); the parts
of the invariant are proved from those. TLC checked the whole invariant first, two requests exhaustively
and seven at random.

Only model-checked: liveness (`LineRecovers`, `SwitchedOffSettles`, `Settles`, `TimerEnds`: fairness and
`ENABLED` are out of the prover's reach); `MenuIsTheOneSeen`, which is about what `walk` computes, a
recursive function over the graph, and would need induction; of `workplace`, `InboxIsTrue`, `WrittenArrivesOnce` and
`CallsEndEverywhere`; and of `backoffice`, `NothingIsOrphaned`, `FlowsAreSound` and `FiguresAgree`.

## What the violations show

* `session_two_sockets`: "Solo un worker puede tener el socket activo". An outbound message can start
  an attempt between a close and the release of the lease by the close handler; the attempt keeps its
  own key, the handler deletes it, another worker takes it, and both dial.
* `delivery_lowered`: "nunca lo baja". The filter is in the read, the write is by id.
* `automations_loop`: "a flow with several Wait nodes in a row just keeps re-scheduling itself". The id of
  a flow-resume job names execution, node and block, and finished jobs are kept, so the second visit
  to a Wait node adds no job: the execution is parked for ever and keeps later texts out.
* `calls_answered`: "incluido, inofensivamente, el propio ganador". The panel compares only the call's id,
  so the winner's own `call:taken` clears the call it has answered.

Where the code is at odds with a comment and no run was spent on it, the property of the module names the
case in its history, and `PROJECT.json` lists it with the line of both:

* Session Manager: a lost lease ends the socket and nothing dials again (`handleLeaseLost`). One process
  can lose its lease to itself: a close handler deletes the key (`releaseLease`) between the GET of a
  message's `ensureLease` and its answer, which starts the renewals of a key that is gone (`AnswerLease`).
* Conversations: the Kanban writes a stage of another department onto a chat; of several files, those not
  sent are dropped when the agent opens another chat; an added reaction is published in a form the panel
  ignores; the ticks of the open thread may go back.
* Media: the lock of the jobs does not reach the command line.
* Keys: two tabs may make two masters. Widget: the first receipt may be dropped.
* Calendar: an event of another account counts as gone; a renewed token is written into the connection
  of another account.
* Scripts: the unread count and the executions of a merged thread are lost; the SQL script fails on two
  duplicates whose survivor has no thread.
* Flows: a plain node may get two edges; variables are never replaced; the simulator ignores `active`,
  other flows and Auto Off; a duration is rounded when its unit changes.
* Panel: the menu ignores a company's exception; `/automations/templates` is taken for `/automations`; a
  name is saved into the session of another tab; the superadmin's copy outlives a logout; a stage that
  could not be removed stays off the list; a refetch may come before the room is joined; "Mi Plan" asks
  for a route the expired licence closes; "Actividad de hoy" is the day of UTC.
* Bubble: the badge lies over the open panel of a phone.

### Seen while modelling

Session Manager: a paused line (three unscanned QRs) is reopened by the next outbound message;
`disconnect` during an attempt leaves `manualStops` on a socket that opens later; a restarted process with
the same `WORKER_ID` adopts its key without extending it (session-manager.ts:1343; no property is about
it). Inbound: the first two messages of a new person at once collide on the conversation's unique key and
one of them is dropped (`Collide`); a person an agent or a program wrote to first never becomes a lead.
Automations: an execution whose worker dies while it sends stays RUNNING and keeps flows out of the chat;
the draft of a flow's settings overwrites a switch toggled elsewhere; a template whose PATCH fails leaves
an empty active flow. Billing: two superadmins may review the same payment; approving A, approving B,
cancelling A, cancelling B puts the cancelled A back.

Inbox: history overwrites newer events of the socket; a voice note goes to the chat open when recording
stops; a quick reply by Enter twice is sent twice; text typed while a file uploads is erased, and so is text typed
between picking a quick reply and its files, the text of a shortcut whose first file fails, and a draft that
comes back while a voice note is sent; a refused
bulk star, sticker or knowledge removal is not undone; a deletion or reaction whose job fails stays shown;
notes, incidents and company tags changed by others are not told; a click's late answer pulls the agent
out of the chat opened meanwhile; the first success of a reopened form closes the second. Calls: a hang-up
before `call:ringing` is not told to the server; a call answered while it ends leaves the microphone open;
when the record cannot be written `call:end` is never emitted. Widget: a first text and a first file at
once meet at the unique key; nothing reloads the thread after a reconnect. Pictures: a group picture that
was removed stays, a removed picture may come back by an older fetch. Keys: regenerating a master brings
back child keys revoked one by one; the panel can make a key for an archived line. Team: deleting a
department does not count its prospects, deleting a stage does not count chats. Calendar: weeks may
answer out of order. Sessions: a late 401 or an idle tab clears the session of the others; any error of
`/auth/me` does at `/login`; users of a suspended company can still log in. Google: an
identity whose address is another's account enters that account each time, and is never told. Panel: several pages offer
managers' controls to everyone, and the deals page needs the pipelines' module; a page open over midnight
keeps "Hoy".

## Not modelled

Small panels (quick replies and stickers as lists, announcements, feedback, incidents, dashboard
widgets): each handler reads and writes one row for one caller, and what the page does with its copy is
that of `PanelLists`. AI replies (`ai-agent.ts`) but for the one decision they share with a flow, Auto
Off. The wording of messages, media conversion, adverts, typing indicators, rate limits, cryptography,
validation of forms, settings and tags. Deployment (`Dockerfile`, compose files) holds no state of its
own; what it does restart is in the fairness of `SessionManager`. A component is "partly" modelled in
`PROJECT.json` where some of its handlers are in this list, and its note says which.

## Plan

Left to prove, and how: `WrittenArrivesOnce` by following one draft, `NothingIsOrphaned` by what a calendar
job read before Google answered, and `FlowsAreSound` by what the draft of the editor and the stored graph share.
