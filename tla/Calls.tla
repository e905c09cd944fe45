------------------------------- MODULE Calls -------------------------------
(***************************************************************************)
(* Voice calls from the widget: the visitor's page, the panels that ring,  *)
(* and the gateway between them, which keeps the calls in memory.  Each    *)
(* socket delivers in order; handlers await the database, clients await    *)
(* the microphone, and others come in between.                             *)
(***************************************************************************)
EXTENDS Naturals, Sequences

CONSTANTS
  Agent,      \* agents, one panel each, all in the rooms of the line
  Visitor,
  MaxCalls,   \* bound: clicks on the call button, and so calls
  MaxFaults,  \* bound: dropped sockets, failed writes, restarts of the API
  None

Call == 1..MaxCalls
Person == Agent \cup Visitor

VARIABLES
  call,     \* the calls of CallsService and of the handlers about them
  ofVisitor, ofAgent, \* byVisitorSocket, byAgentSocket
  panel,    \* [Agent -> phase, incomingRef, the call of its peer connection, ...]
  widget,   \* [Visitor -> phase, callIdRef, ...]
  down, up, \* [Person -> events on their way to, and from, each socket]
  online,   \* sockets connected
  known,    \* visitors whose connection has been looked up
  logged,   \* [Call -> CALL messages written]
  clicks, faults,
  stray     \* history: calls that may be left on a screen, and visitors left calling

callVars == <<call, ofVisitor, ofAgent, panel, widget, down, up, online, known, logged, clicks, faults, stray>>
service == <<call, ofVisitor, ofAgent>>
net == <<down, up, online, known>>

\* Closed: the panel of an agent who is not there.
IdlePanel == [phase |-> "idle", ref |-> None, pc |-> None, ready |-> FALSE, asking |-> None]
IdleWidget == [phase |-> "idle", ref |-> None, pc |-> FALSE, ready |-> FALSE, asking |-> 0]

CallsInit ==
  /\ call = [c \in Call |-> [st |-> "none", visitor |-> None, agent |-> None, direct |-> FALSE, to |-> {}, invite |-> "no"]]
  /\ ofVisitor = [v \in Visitor |-> None] /\ ofAgent = [a \in Agent |-> None]
  /\ \E away \in SUBSET Agent :
       /\ panel = [a \in Agent |-> IF a \in away THEN [IdlePanel EXCEPT !.phase = "closed"] ELSE IdlePanel]
       /\ online = Person \ away
  /\ widget = [v \in Visitor |-> IdleWidget]
  /\ down = [p \in Person |-> <<>>] /\ up = [p \in Person |-> <<>>]
  /\ known \in SUBSET Visitor
  /\ logged = [c \in Call |-> 0] /\ clicks = 0 /\ faults = 0 /\ stray = {}

Ev(what, c) == [ev |-> what, call |-> c]
LiveOnceMade(c) == call[c].st # "none"
Live(c) == call[c].st \in {"ringing", "active"}
LiveCall(c) == c # None /\ Live(c)
Fault == faults < MaxFaults /\ faults' = faults + 1

\* server.to(...).emit: what the sockets of a call, or of its rooms, are sent.
Invited(c) == (IF call[c].direct THEN call[c].to ELSE Agent) \cap online
Emit(to, e) == down' = [p \in Person |-> IF p \in to THEN Append(down[p], e) ELSE down[p]]
Alive(p) == {p} \cap online
Send(p, e) == up' = [up EXCEPT ![p] = Append(@, e)]
Taken(p) == down' = [down EXCEPT ![p] = Tail(@)]
Handled(p) == up' = [up EXCEPT ![p] = Tail(@)]

-----------------------------------------------------------------------------
(* The widget. *)

\* startCall checks the state it rendered with, then waits for the microphone.
ClickCall(v) ==
  /\ widget[v].phase = "idle" /\ clicks < MaxCalls
  /\ clicks' = clicks + 1 /\ widget' = [widget EXCEPT ![v].asking = @ + 1]
  /\ UNCHANGED <<service, panel, net, logged, faults, stray>>

HungUp(v) == [IdleWidget EXCEPT !.asking = widget[v].asking]
Invite(v, ok) ==
  /\ widget[v].asking > 0
  /\ LET w == [widget[v] EXCEPT !.asking = @ - 1]
     IN IF ok THEN /\ v \in online
                   /\ widget' = [widget EXCEPT ![v] = [w EXCEPT !.phase = "calling", !.pc = TRUE, !.ready = FALSE]]
                   /\ Send(v, Ev("invite", None))
              ELSE /\ widget' = [widget EXCEPT ![v] = [IdleWidget EXCEPT !.asking = w.asking]]
                   /\ UNCHANGED up
  /\ stray' = IF widget[v].phase = "idle" THEN stray ELSE stray \cup {v}
  /\ UNCHANGED <<service, panel, down, online, known, logged, clicks, faults>>

\* hangUp: before call:ringing there is nothing to tell the server about.
VisitorHangsUp(v) ==
  /\ widget[v].phase # "idle"
  /\ widget' = [widget EXCEPT ![v] = HungUp(v)]
  /\ IF widget[v].ref # None THEN Send(v, Ev("end", widget[v].ref)) /\ UNCHANGED stray
                             ELSE stray' = stray \cup {v} /\ UNCHANGED up
  /\ UNCHANGED <<service, panel, down, online, known, logged, clicks, faults>>

VisitorTakes(v) ==
  /\ v \in online /\ down[v] # <<>> /\ Taken(v)
  /\ LET e == Head(down[v])
         w == widget[v]
         mine == w.pc /\ e.call = w.ref
         offer == e.ev = "accepted" /\ mine
     IN /\ widget' = [widget EXCEPT ![v] =
             CASE e.ev = "ringing" -> [w EXCEPT !.ref = e.call]
               [] offer -> [w EXCEPT !.phase = "active"]
               [] e.ev = "answer" /\ mine -> [w EXCEPT !.ready = TRUE]
               [] e.ev = "error" \/ (e.ev = "end" /\ e.call = w.ref) -> HungUp(v)
               [] OTHER -> w]
        /\ IF offer THEN Send(v, Ev("offer", e.call)) ELSE UNCHANGED up
  /\ UNCHANGED <<service, panel, online, known, logged, clicks, faults, stray>>

-----------------------------------------------------------------------------
(* The panel. *)

\* acceptCall: the microphone first, whatever comes meanwhile.
ClickAccept(a) ==
  /\ panel[a].phase = "ringing" /\ panel[a].asking = None
  /\ panel' = [panel EXCEPT ![a].asking = panel[a].ref]
  /\ UNCHANGED <<service, widget, net, logged, clicks, faults, stray>>

Accept(a, ok) ==
  /\ panel[a].asking # None
  /\ LET p == [panel[a] EXCEPT !.asking = None]
     IN IF ok THEN /\ panel' = [panel EXCEPT ![a] = [p EXCEPT !.phase = "active", !.pc = panel[a].asking, !.ready = FALSE]]
                   /\ Send(a, Ev("accept", panel[a].asking))
              ELSE panel' = [panel EXCEPT ![a] = p] /\ UNCHANGED up
  /\ UNCHANGED <<service, widget, down, online, known, logged, clicks, faults, stray>>

Cleared(a) == [IdlePanel EXCEPT !.asking = panel[a].asking]

\* declineCall and hangUp, each behind its button.
AgentHangsUp(a) ==
  /\ panel[a].ref # None /\ panel[a].phase # "idle"
  /\ panel' = [panel EXCEPT ![a] = Cleared(a)]
  /\ Send(a, Ev(IF panel[a].phase = "ringing" THEN "decline" ELSE "end", panel[a].ref))
  /\ UNCHANGED <<service, widget, down, online, known, logged, clicks, faults, stray>>

\* call:accepted and call:error have no listener here.
AgentTakes(a) ==
  /\ a \in online /\ down[a] # <<>> /\ Taken(a)
  /\ LET e == Head(down[a])
         p == panel[a]
         mine == p.ref = e.call
         answer == e.ev = "offer" /\ mine /\ p.pc # None
     IN /\ panel' = [panel EXCEPT ![a] =
             CASE e.ev = "invite" -> [p EXCEPT !.ref = e.call, !.phase = "ringing"]
               [] e.ev = "taken" /\ mine -> [p EXCEPT !.ref = None, !.phase = "idle"]
               [] answer -> [p EXCEPT !.ready = TRUE]
               [] e.ev = "end" /\ mine -> Cleared(a)
               [] OTHER -> p]
        /\ IF answer THEN Send(a, Ev("answer", e.call)) ELSE UNCHANGED up
        /\ stray' = IF e.ev = "invite" /\ p.ref # None THEN stray \cup {p.ref} ELSE stray
  /\ UNCHANGED <<service, widget, online, known, logged, clicks, faults>>

\* Once the descriptions are set the media may fail, at either end: hangUp.
IceFails(p) ==
  /\ IF p \in Agent
     THEN /\ panel[p].ready /\ panel' = [panel EXCEPT ![p] = Cleared(p)]
          /\ IF panel[p].ref # None THEN Send(p, Ev("end", panel[p].ref)) ELSE UNCHANGED up
          /\ UNCHANGED widget
     ELSE /\ widget[p].ready /\ widget' = [widget EXCEPT ![p] = HungUp(p)]
          /\ IF widget[p].ref # None THEN Send(p, Ev("end", widget[p].ref)) ELSE UNCHANGED up
          /\ UNCHANGED panel
  /\ UNCHANGED <<service, down, online, known, logged, clicks, faults, stray>>

-----------------------------------------------------------------------------
(* The gateway and CallsService. *)

\* end: the call leaves the Map at once, and is written and announced later.
End(c) ==
  /\ call' = [call EXCEPT ![c].st = "ending"]
  /\ ofVisitor' = [v \in Visitor |-> IF v = call[c].visitor THEN None ELSE ofVisitor[v]]
  /\ ofAgent' = [a \in Agent |-> IF a = call[c].agent THEN None ELSE ofAgent[a]]
  /\ stray' = IF call[c].invite = "started" THEN stray \cup {c} ELSE stray
EndIf(cond, c) == IF cond THEN End(c) ELSE UNCHANGED <<service, stray>>

\* call:invite: a visitor not looked up yet, or with a call, is ignored.
TakeInvite(v) ==
  /\ IF v \in known /\ ~LiveCall(ofVisitor[v])
     THEN /\ \E c \in Call :
               /\ call[c].invite = "no" /\ \A b \in Call : b < c => call[b].invite # "no"
               /\ call' = [call EXCEPT ![c].invite = "asked", ![c].visitor = v]
          /\ stray' = IF \E b \in Call : call[b].visitor = v /\ call[b].invite \in {"asked", "started"} THEN stray \cup {v} ELSE stray
     ELSE /\ stray' = IF v \in known THEN stray ELSE stray \cup {v}
          /\ UNCHANGED call
  /\ UNCHANGED <<ofVisitor, ofAgent>>

\* call:signal is relayed between the two ends of an active call.
Relay(from, e) ==
  LET k == call[e.call]
      to == IF from = k.visitor THEN k.agent ELSE IF from = k.agent THEN k.visitor ELSE None
  IN IF k.st = "active" /\ to # None THEN Emit(Alive(to), e) ELSE UNCHANGED down

FromVisitor(v) ==
  /\ v \in online /\ up[v] # <<>> /\ Handled(v)
  /\ LET e == Head(up[v])
     IN \/ e.ev = "invite" /\ TakeInvite(v) /\ UNCHANGED down
        \/ e.ev = "end" /\ EndIf(Live(e.call), e.call) /\ UNCHANGED down
        \/ e.ev = "offer" /\ Relay(v, e) /\ UNCHANGED <<service, stray>>
  /\ UNCHANGED <<panel, widget, online, known, logged, clicks, faults>>

\* call:accept: whoever comes first, invited or not; all the invited are told.
AcceptCall(a, c) ==
  IF call[c].st = "ringing"
  THEN /\ call' = [call EXCEPT ![c].st = "active", ![c].agent = a]
       /\ ofAgent' = [ofAgent EXCEPT ![a] = c]
       /\ down' = [p \in Person |-> IF p \in Alive(call[c].visitor) THEN Append(down[p], Ev("accepted", c))
                                    ELSE IF p \in Invited(c) THEN Append(down[p], Ev("taken", c)) ELSE down[p]]
       /\ UNCHANGED ofVisitor
  ELSE UNCHANGED <<service, down>>

FromAgent(a) ==
  /\ a \in online /\ up[a] # <<>> /\ Handled(a)
  /\ LET e == Head(up[a])
         c == e.call
     IN \/ e.ev = "accept" /\ AcceptCall(a, c) /\ UNCHANGED stray
        \/ e.ev = "decline" /\ EndIf(call[c].st = "ringing" /\ call[c].direct, c) /\ UNCHANGED down
        \/ e.ev = "end" /\ EndIf(Live(c), c) /\ UNCHANGED down
        \/ e.ev = "answer" /\ Relay(a, e) /\ UNCHANGED <<service, stray>>
  /\ UNCHANGED <<panel, widget, online, known, logged, clicks, faults>>

\* The conversation is read: calls may be off; else the call starts, for the panel of
\* the assigned agent when there is one connected, or for the rooms.
StartCall(c, allowed, assigned) ==
  /\ call[c].invite = "asked"
  /\ LET v == call[c].visitor
         direct == assigned \in online
     IN IF allowed
        THEN /\ call' = [call EXCEPT ![c].st = "ringing", ![c].invite = "started",
                                     ![c].direct = direct, ![c].to = IF direct THEN {assigned} ELSE {}]
             /\ ofVisitor' = IF v = None THEN ofVisitor ELSE [ofVisitor EXCEPT ![v] = c]
             /\ UNCHANGED down
        ELSE /\ assigned = None
             /\ call' = [call EXCEPT ![c].st = "over", ![c].invite = "sent"]
             /\ Emit(Alive(v), Ev("error", c)) /\ UNCHANGED ofVisitor
  /\ UNCHANGED <<ofAgent, panel, widget, up, online, known, logged, clicks, faults, stray>>

\* The contact is read: whether or not the call is still there, it rings.
EmitInvite(c) ==
  /\ call[c].invite = "started"
  /\ call' = [call EXCEPT ![c].invite = "sent"]
  /\ down' = [p \in Person |-> IF p \in Invited(c) THEN Append(down[p], Ev("invite", c))
                               ELSE IF p \in Alive(call[c].visitor) THEN Append(down[p], Ev("ringing", c)) ELSE down[p]]
  /\ UNCHANGED <<ofVisitor, ofAgent, panel, widget, up, online, known, logged, clicks, faults, stray>>

\* The 35 seconds are over.
RingTimeout(c) ==
  /\ call[c].st = "ringing" /\ call[c].invite = "sent" /\ End(c)
  /\ UNCHANGED <<panel, widget, net, logged, clicks, faults>>

\* persistCallMessage, then call:end to all; when the write fails, to nobody.
Persist(c, ok) ==
  /\ call[c].st = "ending"
  /\ call' = [call EXCEPT ![c].st = "over"]
  /\ IF ok THEN /\ logged' = [logged EXCEPT ![c] = @ + 1]
                /\ Emit(Invited(c) \cup Alive(call[c].visitor), Ev("end", c))
                /\ UNCHANGED <<faults, stray>>
           ELSE Fault /\ stray' = stray \cup {c} /\ UNCHANGED <<logged, down>>
  /\ UNCHANGED <<ofVisitor, ofAgent, panel, widget, up, online, known, clicks>>

\* A socket drops, or its page is loaded again: handleDisconnect ends the call its index
\* names.  The next connection is another socket, with another id.
Drop(p, reload) ==
  /\ p \in online /\ Fault /\ online' = online \ {p} /\ known' = known \ {p}
  /\ down' = [down EXCEPT ![p] = <<>>] /\ up' = [up EXCEPT ![p] = <<>>]
  /\ LET mine == IF p \in Agent THEN ofAgent[p] ELSE ofVisitor[p]
         gone(k) == [k EXCEPT !.visitor = IF @ = p THEN None ELSE @, !.agent = IF @ = p THEN None ELSE @, !.to = @ \ {p}]
     IN /\ call' = [c \in Call |-> IF c = mine /\ LiveCall(c) THEN [gone(call[c]) EXCEPT !.st = "ending"] ELSE gone(call[c])]
        /\ ofVisitor' = [v \in Visitor |-> IF v = p \/ (LiveCall(mine) /\ call[mine].visitor = v) THEN None ELSE ofVisitor[v]]
        /\ ofAgent' = [a \in Agent |-> IF a = p \/ (LiveCall(mine) /\ call[mine].agent = a) THEN None ELSE ofAgent[a]]
        /\ stray' = stray \cup {p}
             \cup {c \in Call : (call[c].invite = "asked" /\ call[c].visitor = p) \/ (c = mine /\ call[c].invite = "started")}
  /\ panel' = IF p \in Agent /\ reload THEN [panel EXCEPT ![p] = IdlePanel] ELSE panel
  /\ widget' = IF p \in Visitor /\ reload THEN [widget EXCEPT ![p] = IdleWidget] ELSE widget
  /\ UNCHANGED <<logged, clicks>>

Connects(p) ==
  /\ p \notin online /\ online' = online \cup {p}
  /\ p \in Agent => panel[p].phase # "closed"
  /\ UNCHANGED <<service, panel, widget, down, up, known, logged, clicks, faults, stray>>

\* handleVisitorConnection: its token and conversation are found.
LookedUp(v) ==
  /\ v \in online \ known /\ known' = known \cup {v}
  /\ UNCHANGED <<service, panel, widget, down, up, online, logged, clicks, faults, stray>>

CallsNext ==
  \/ \E v \in Visitor :
       \/ ClickCall(v) \/ VisitorHangsUp(v) \/ VisitorTakes(v) \/ FromVisitor(v) \/ LookedUp(v)
       \/ \E ok \in BOOLEAN : Invite(v, ok)
  \/ \E a \in Agent : ClickAccept(a) \/ AgentHangsUp(a) \/ AgentTakes(a) \/ FromAgent(a) \/ \E ok \in BOOLEAN : Accept(a, ok)
  \/ \E c \in Call :
       \/ EmitInvite(c) \/ RingTimeout(c)
       \/ \E ok \in BOOLEAN : Persist(c, ok)
       \/ \E allowed \in BOOLEAN, assigned \in Agent \cup {None} : StartCall(c, allowed, assigned)
  \/ \E p \in Person : IceFails(p) \/ Connects(p) \/ \E reload \in BOOLEAN : Drop(p, reload)

CallsSpec == CallsInit /\ [][CallsNext]_callVars

-----------------------------------------------------------------------------
\* Nothing is under way.
Quiet ==
  /\ \A p \in Person : down[p] = <<>> /\ up[p] = <<>>
  /\ \A c \in Call : call[c].st \in {"none", "active", "over"} /\ call[c].invite \in {"no", "sent"}
  /\ \A a \in Agent : panel[a].asking = None
  /\ \A v \in Visitor : widget[v].asking = 0

\* A call is written in its chat once, however many hang up, leave or time out at once.
RecordedOnce == \A c \in Call : logged[c] <= 1

\* When nothing is under way no panel rings, and no screen shows a call that is over,
\* but for sockets that dropped, calls that ended before they rang, failed writes, a
\* second call that came over the first, and invitations the gateway did not heed.
ScreensAreTrue ==
  Quiet =>
    /\ \A a \in Agent \ stray :
         panel[a].ref # None => panel[a].ref \in stray \/ (panel[a].phase = "active" /\ call[panel[a].ref].st = "active")
    /\ \A v \in Visitor \ stray :
         widget[v].phase # "idle" => widget[v].ref \in stray \/ (widget[v].phase = "active" /\ call[widget[v].ref].st = "active")

\* The agent who answers has the call on screen until it ends (the comment of
\* handleCallAccept: call:taken reaches the winner, harmlessly).
AnsweredOnScreen ==
  Quiet => \A c \in Call, a \in Agent : call[c].st = "active" /\ call[c].agent = a => panel[a].ref = c
=============================================================================
