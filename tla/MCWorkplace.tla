------------------------------ MODULE MCWorkplace ------------------------------
(* Workplace for TLC. *)
EXTENDS Workplace, Sequences, TLC

CONSTANTS u1, u2, d1, d2, p1, l1, c1, c2, a1, a2, v1

\* The starting companies differ in what the handlers tell apart: memberships, defaults,
\* how the stages are spread, and how far the person of the chat has come.

ChatIn(d, s, p) == [dept |-> d, stage |-> s, project |-> p]
Prospect(d) == (l1 :> [dept |-> d, deal |-> None, here |-> TRUE])
DealAt(d, s, his) == (1 :> [dept |-> d, stage |-> s, here |-> his, from |-> None]) @@ (2 :> None)
NoLead == (l1 :> None)
NoDeal == (1 :> None) @@ (2 :> None)

Persons == {<<None, NoLead, NoDeal>>,
           <<None, NoLead, DealAt(d1, 1, FALSE)>>,
           <<ChatIn(None, None, None), Prospect(None), NoDeal>>,
           <<ChatIn(d1, 1, None), Prospect(d1), NoDeal>>,
           <<ChatIn(d1, 1, p1), NoLead, DealAt(d1, 1, TRUE)>>,
           <<ChatIn(d2, None, None), Prospect(d2), DealAt(d1, 1, TRUE)>>}

Nobody == (u1 :> {}) @@ (u2 :> None)
Somebody == (u1 :> {d1}) @@ (u2 :> {d1, d2})
TeamOf == {<<Nobody, None, None>>, <<Nobody, u1, d1>>, <<Somebody, None, None>>, <<Somebody, u1, d1>>}

OfficeStarts ==
  \E t \in TeamOf, p \in Persons, second \in {d1, d2} :
    Starting(Company(t[1], t[2], t[3], (1 :> d1) @@ (2 :> second) @@ (3 :> None), p[1], p[2], p[3]))

\* Calls: two agents and one click with a fault, or one agent and two clicks without.
Single == \E a \in Agent : panel[a].phase = "closed"
CallsStart == Calls!CallsInit /\ panel[a1].phase = "idle" /\ (Single => known = Visitor)
Symmetric == Permutations(Agent)
CallsBound == IF Single THEN faults = 0 ELSE clicks <= 1

\* The chats are alike: the composer begins in the first one.  It makes three things
\* to have a text with two files.
ComposerBound == made[3] # None => \A w \in DOMAIN made : made[w].what # "voice" /\ made[w].chat = c1

MCInit ==
  /\ part \in Parts
  /\ Starts(OfficeStarts, Inbox!InboxInit, Composer!ComposerInit /\ here = c1, Fields!FieldsInit, Lookup!LookupInit,
            CallsStart)

\* What went wrong for good is followed no further: it stays, and excuses what comes.
\* Two changes, two elsewhere and a load do not all meet.
Followed ==
  /\ part = "fields" => spoiled = {} /\ Len(changes) + Len(works) + Len(loads) <= 6
  /\ part = "calls" /\ Single => stray \cap Visitor = {}

Bound == IF part = "calls" THEN CallsBound' ELSE IF part = "composer" THEN ComposerBound' ELSE TRUE
MCSpec == MCInit /\ [][WorkplaceNext /\ Bound]_vars
=============================================================================
