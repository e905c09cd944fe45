----------------------------- MODULE VisitorPage -----------------------------
(***************************************************************************)
(* The chat page of the widget and the API behind it: what the visitor and *)
(* the agents write, edit, delete and acknowledge, and what the page shows *)
(* of it.  Every request reads, writes, publishes and answers in turn, and *)
(* others come in between; the page has one socket and loads its history   *)
(* once.                                                                   *)
(***************************************************************************)
EXTENDS Naturals, Sequences

CONSTANTS
  MaxMessages, \* bound: messages of the conversation
  MaxWork,     \* bound: requests of the visitor and of the agents
  MaxTrouble,  \* bound: dropped sockets, failed answers and loads
  Blank        \* no row

Message == 1..MaxMessages
RECEIVED == 1   \* SENT, for what an agent wrote
DELIVERED == 2
READ == 3
Row == [from : {"visitor", "agent"}, body : Nat, deleted : BOOLEAN, st : {RECEIVED, DELIVERED, READ}]

\* Services assumes it.
VisitorAssumption == MaxMessages \in Nat /\ MaxWork \in Nat /\ MaxTrouble \in Nat /\ Blank \notin Row

VARIABLES
  message,   \* [Message -> the stored row, or Blank]
  chat,      \* the conversation exists
  work,      \* requests and acknowledgements under way
  worked, trouble, \* how many requests and faults so far
  phase,     \* of the page: closed, loading, open, or notFound
  conv,      \* the page knows the conversation
  history,   \* GET messages: what it read, or Blank
  page,      \* messages: [Message -> what the page shows, or Blank]
  link,      \* the socket: off, connected, or joined to the room of the conversation
  events,    \* on their way to it
  missed     \* history: messages the page may show wrongly, and why is said below

visitorVars == <<message, chat, work, worked, trouble, phase, conv, history, page, link, events, missed>>
server == <<message, chat>>
screen == <<phase, conv, history, page>>
wire == <<link, events>>

Thread == {m \in Message : message[m] # Blank}
From(who) == {m \in Thread : message[m].from = who}
NextMessage(m) == message[m] = Blank /\ \A n \in Message : n < m => message[n] # Blank
NewMessage(who) == [from |-> who, body |-> 0, deleted |-> FALSE, st |-> RECEIVED]
Trouble == trouble < MaxTrouble /\ trouble' = trouble + 1

VisitorInit ==
  /\ \E old \in {Blank} \cup {NewMessage(who) : who \in {"visitor", "agent"}} :
       message = [m \in Message |-> IF m = 1 THEN old ELSE Blank]
  /\ chat = (message[1] # Blank)
  /\ work = {} /\ worked = 0 /\ trouble = 0
  /\ phase = "closed" /\ conv = FALSE /\ history = Blank /\ page = [m \in Message |-> Blank]
  /\ link = "off" /\ events = <<>> /\ missed = {}

-----------------------------------------------------------------------------
(* The page. *)

\* startSession: the conversation of the stored token, and then its history.
OpenPage ==
  /\ phase = "closed"
  /\ phase' = (IF chat THEN "loading" ELSE "open") /\ conv' = chat
  /\ UNCHANGED <<server, work, worked, trouble, history, page, wire, missed>>

ReadHistory ==
  /\ phase = "loading" /\ history = Blank
  /\ history' = message
  /\ UNCHANGED <<server, work, worked, trouble, phase, conv, page, wire, missed>>

Coming == UNION {events[i].on : i \in 1..Len(events)}
Pending == Coming \cup UNION {w.on : w \in work}

\* setMessages: what came through the socket since the read is overwritten.
ShowHistory ==
  /\ phase = "loading" /\ history # Blank
  /\ phase' = "open" /\ page' = history /\ history' = Blank
  /\ missed' = {m \in missed : history[m] # message[m] \/ m \in Pending}
  /\ UNCHANGED <<server, work, worked, trouble, conv, wire>>

LoadFails ==
  /\ phase = "loading" /\ Trouble
  /\ phase' = "notFound" /\ history' = Blank
  /\ UNCHANGED <<server, work, worked, conv, page, wire, missed>>

\* The socket opens as soon as the conversation is known, and says at once that all was
\* read (delivered too: see MessageDelivery), whether or not the gateway has found whose socket it is.
New(op, on) == work' = work \cup {[id |-> worked, op |-> op, on |-> on, at |-> "asked", snap |-> Blank]}
Begin(op, on) == worked < MaxWork /\ worked' = worked + 1 /\ New(op, on)

Connect ==
  /\ conv /\ link = "off"
  /\ link' = "connected" /\ New("read", {})
  /\ UNCHANGED <<server, worked, trouble, screen, events, missed>>

Join ==
  /\ link = "connected" /\ link' = "joined"
  /\ UNCHANGED <<server, work, worked, trouble, screen, events, missed>>

Disconnect ==
  /\ link # "off" /\ Trouble
  /\ link' = "off" /\ events' = <<>>
  /\ missed' = missed \cup Coming
  /\ UNCHANGED <<server, work, worked, screen>>

\* visibilitychange: the visitor comes back to the tab.
ComeBack ==
  /\ link # "off" /\ Begin("read", {})
  /\ UNCHANGED <<server, trouble, screen, wire, missed>>

\* send, sendFile, saveEdit and removeMessage, which is shown before it is done.
\* One text and one edit at a time; files are not limited.
WriteMessage(kind) ==
  /\ phase = "open" /\ (kind = "text" => \A w \in work : w.op # "text")
  /\ Begin(kind, {})
  /\ UNCHANGED <<server, trouble, screen, wire, missed>>

Change(m, op) ==
  /\ phase = "open" /\ page[m] # Blank /\ page[m].from = "visitor" /\ ~page[m].deleted
  /\ op = "edit" => \A w \in work : w.op # "edit"
  /\ Begin(op, {m})
  /\ page' = IF op = "delete" THEN [page EXCEPT ![m].deleted = TRUE] ELSE page
  /\ UNCHANGED <<server, trouble, phase, conv, history, wire, missed>>

\* message.created is added once, and acknowledged if an agent wrote it; an update
\* or a new status changes what is there.
TakeEvent(visible) ==
  /\ events # <<>> /\ events' = Tail(events)
  /\ LET e == Head(events)
         new == e.ev = "created" /\ \A m \in e.on : page[m] = Blank
         agents == e.ev = "created" /\ e.snap.from = "agent"
     IN /\ page' = [m \in Message |->
             IF m \notin e.on THEN page[m]
             ELSE IF new THEN e.snap
             ELSE IF page[m] = Blank \/ e.ev = "created" THEN page[m]
             ELSE IF e.ev = "status" THEN [page[m] EXCEPT !.st = e.snap] ELSE e.snap]
        /\ IF agents /\ visible THEN New("read", {}) ELSE (agents \/ visible) /\ UNCHANGED work
        /\ missed' = IF phase = "loading" THEN missed \cup e.on ELSE missed
  /\ UNCHANGED <<server, worked, trouble, phase, conv, history, link>>

-----------------------------------------------------------------------------
(* The panel: an agent answers, its browser has got a message, it opens the chat. *)

AgentActs(op) ==
  /\ chat /\ Begin(op, {})
  /\ UNCHANGED <<server, trouble, screen, wire, missed>>

-----------------------------------------------------------------------------
(* WidgetService, RealtimeGateway and ConversationsService. *)

Bumps == [read |-> [who |-> "agent", from |-> {RECEIVED, DELIVERED}, to |-> READ],
          agentDelivered |-> [who |-> "visitor", from |-> {RECEIVED}, to |-> DELIVERED],
          agentRead |-> [who |-> "visitor", from |-> {RECEIVED, DELIVERED}, to |-> READ]]
Sending == {"text", "file", "reply"}
Step(w, new) == work' = (work \ {w}) \cup {new}
GivesUp(w) == Step(w, [w EXCEPT !.at = "failed"])

\* What the handler reads first: the conversation, the message, or the messages to mark.
LookUp(w) ==
  /\ w.at = "asked"
  /\ IF w.op \in Sending THEN Step(w, [w EXCEPT !.at = "checked", !.snap = chat])
     ELSE IF w.op = "edit" /\ \A m \in w.on : message[m].deleted THEN GivesUp(w)
     ELSE IF w.op = "delete" /\ \A m \in w.on : message[m].deleted THEN Step(w, [w EXCEPT !.at = "answered"])
     ELSE IF w.op \in {"edit", "delete"} THEN Step(w, [w EXCEPT !.at = "checked"])
     ELSE LET b == Bumps[w.op]
              ids == IF b.who = "agent" /\ link # "joined" THEN {} ELSE {m \in From(b.who) : message[m].st \in b.from}
          IN IF ids = {} THEN work' = work \ {w} ELSE Step(w, [w EXCEPT !.at = "checked", !.on = ids])
  /\ UNCHANGED <<server, worked, trouble, screen, wire, missed>>

\* Two requests about a message at once may be published in the other order.
Overlapped(w, on) == {m \in on : \E x \in work \ {w} : m \in x.on /\ x.at # "asked"}

\* ensureConversation creates the conversation it did not find; another one may have
\* done so by now, and the unique index refuses it.
WriteNew(w) ==
  /\ w.op \in Sending /\ w.at = "checked"
  /\ IF chat # w.snap THEN GivesUp(w) /\ UNCHANGED server
     ELSE /\ \E m \in Message :
               LET new == NewMessage(IF w.op = "reply" THEN "agent" ELSE "visitor")
               IN NextMessage(m) /\ message' = [message EXCEPT ![m] = new]
                  /\ Step(w, [w EXCEPT !.at = "written", !.on = {m}, !.snap = new])
          /\ chat' = TRUE
  /\ UNCHANGED <<worked, trouble, screen, wire, missed>>

Changed(w, m) == IF w.op = "edit" THEN [message[m] EXCEPT !.body = w.id + 1] ELSE [message[m] EXCEPT !.deleted = TRUE]
ChangeTelling(w, told) ==
  /\ w.op \in {"edit", "delete"} /\ w.at = "checked"
  /\ \E m \in w.on :
       message' = [message EXCEPT ![m] = Changed(w, m)] /\ Step(w, [w EXCEPT !.at = "written", !.snap = told[m]])
  /\ missed' = missed \cup Overlapped(w, w.on)
  /\ UNCHANGED <<chat, worked, trouble, screen, wire>>
ApplyChangeStale(w) == ChangeTelling(w, message)
ApplyChange(w) == ChangeTelling(w, [m \in w.on |-> Changed(w, m)])

\* bumpMessageStatus and markRead: by id, whatever the status is by now.
WriteStatus(w) ==
  /\ w.op \in DOMAIN Bumps /\ w.at = "checked"
  /\ message' = [m \in Message |-> IF m \in w.on THEN [message[m] EXCEPT !.st = Bumps[w.op].to] ELSE message[m]]
  /\ Step(w, [w EXCEPT !.at = "written", !.snap = Bumps[w.op].to])
  /\ missed' = missed \cup Overlapped(w, w.on)
  /\ UNCHANGED <<chat, worked, trouble, screen, wire>>

EventOf(w) ==
  [ev |-> IF w.op \in Sending THEN "created" ELSE IF w.op \in DOMAIN Bumps THEN "status" ELSE "updated",
   on |-> w.on, snap |-> w.snap]

\* To the room of the conversation, where the page is once it has joined.
Publish(w) ==
  /\ w.at = "written"
  /\ events' = IF link = "joined" THEN Append(events, EventOf(w)) ELSE events
  /\ missed' = IF link = "joined" THEN missed ELSE missed \cup w.on
  /\ IF w.op \in DOMAIN Bumps \cup {"reply"} THEN work' = work \ {w} ELSE Step(w, [w EXCEPT !.at = "answered"])
  /\ UNCHANGED <<server, worked, trouble, screen, link>>

\* The answer: the page adds what it sent, takes the edited row, or puts back what it
\* had deleted, even if it was the answer that got lost.
Answer(w, ok) ==
  /\ w.at \in {"answered", "failed"} /\ w.op \notin DOMAIN Bumps \cup {"reply"}
  /\ IF w.at = "failed" THEN ~ok /\ UNCHANGED trouble ELSE IF ok THEN UNCHANGED trouble ELSE Trouble
  /\ work' = work \ {w}
  /\ conv' = (conv \/ (ok /\ w.op \in Sending))
  /\ page' = [m \in Message |->
       IF m \notin w.on THEN page[m]
       ELSE IF w.op \in Sending THEN IF ok /\ page[m] = Blank THEN w.snap ELSE page[m]
       ELSE IF page[m] = Blank THEN Blank
       ELSE IF w.op = "edit" THEN IF ok THEN w.snap ELSE page[m]
       ELSE IF ok THEN page[m] ELSE [page[m] EXCEPT !.deleted = FALSE]]
  /\ missed' = IF ~ok /\ w.op = "delete" THEN missed \cup w.on
               ELSE IF ok /\ w.op \in Sending THEN missed \ {m \in w.on : page[m] = Blank /\ message[m] = w.snap}
               ELSE missed
  /\ UNCHANGED <<server, worked, phase, history, wire>>

VisitorNext ==
  \/ OpenPage \/ ReadHistory \/ ShowHistory \/ LoadFails \/ Connect \/ Join \/ Disconnect \/ ComeBack
  \/ \E kind \in {"text", "file"} : WriteMessage(kind)
  \/ \E m \in Message, op \in {"edit", "delete"} : Change(m, op)
  \/ \E visible \in BOOLEAN : TakeEvent(visible)
  \/ \E op \in {"reply", "agentDelivered", "agentRead"} : AgentActs(op)
  \/ \E w \in work :
       \/ LookUp(w) \/ WriteNew(w) \/ ApplyChange(w) \/ WriteStatus(w) \/ Publish(w)
       \/ \E ok \in BOOLEAN : Answer(w, ok)

VisitorSpec == VisitorInit /\ [][VisitorNext]_visitorVars

-----------------------------------------------------------------------------
\* When all is quiet, the page shows every message as it is stored.  Only what happened while
\* the page was not in the room, under an older history, in two requests at once, or in a
\* delete whose answer was lost may be shown wrongly: nothing loads the thread again.
VisitorThreadIsTrue ==
  work = {} /\ events = <<>> /\ phase = "open" => \A m \in Thread \ missed : page[m] = message[m]
=============================================================================
