---------------------------- MODULE FlowSimulator ----------------------------
(***************************************************************************)
(* A flow made from a template, tried in the simulator of the editor (web  *)
(* simulator-panel.tsx over automations.service.ts simulate) and met by a  *)
(* customer on WhatsApp (worker automation-engine.ts).  Both write the     *)
(* same texts, each after the last was answered.  The engine is the copy   *)
(* of the API (automations/engine); the worker has the same one, and       *)
(* Automations.tla shows it under races, crashes and retries.              *)
(***************************************************************************)
EXTENDS Naturals, Sequences, FiniteSets, SequencesExt

CONSTANTS Void,
          MaxSteps,      \* MAX_STEPS of the walk (200 in the code)
          MaxTexts,      \* bound: texts written
          MaxTouches     \* bound: nodes deleted in the editor, failed requests, panels closed

\* BackOffice assumes it.
SimulatorAssumption == MaxSteps \in Nat \ {0} /\ MaxTexts \in Nat /\ MaxTouches \in Nat

VARIABLES
  flow,       \* the row: its template, the graph stored and what became of the PATCH, or Void
  written,    \* the text both are answering, or Void
  tried,      \* the panel: the menu it waits at, what it asked, what it still has to show
  live,       \* the execution of the conversation, and what it still has to send
  off,        \* botDisabledUntil lies in the future
  parted,     \* history: something the two do not share has happened
  texts, touches
simulatorVars == <<flow, written, tried, live, off, parted, texts, touches>>

-----------------------------------------------------------------------------
(***************************************************************************)
(* Texts, graphs and templates.  A text is the number it reads as, and its *)
(* words; what is said around them is left out.  A graph gives each node   *)
(* its kind, its blocks, the options of a menu in order, and where an edge *)
(* leads from a node by a handle.                                          *)
(***************************************************************************)
Says(words) == [num |-> 0, words |-> words]
Number(i) == [num |-> i, words |-> {<<"1", "2", "3", "4", "5">>[i]}]

NoBlocks == <<>>
Out == "out"
NoResponse == "no-response"

Graph(kind, blocks, options, edge) == [kind |-> kind, blocks |-> blocks, options |-> options, edge |-> edge]
Opt(id, words) == [id |-> id, text |-> Says(words)]
Lookup(f, n, default) == IF n \in DOMAIN f THEN f[n] ELSE default

EmptyGraph == Graph([n \in {"start"} |-> "start"], <<>>, <<>>, <<>>)

\* The four of templates/data.ts.
TextOnly == <<"text">>
Template == {"funnel-ventas-pago", "faq-asesor", "recordatorio-pago", "bienvenida-simple"}
SuggestedKeyword ==
  [t \in Template |-> CASE t = "funnel-ventas-pago" -> "comprar" [] t = "faq-asesor" -> "info"
                        [] t = "recordatorio-pago" -> "pago" [] OTHER -> "hola"]

\* A menu after a welcome, and a node for each of its options.
Branching(welcome, options, leads, blocks) ==
  LET ends == {leads[o] : o \in DOMAIN leads}
  IN  [kind |-> [n \in {"start", "welcome", "menu"} \cup ends |->
                   IF n \in {"start", "menu"} THEN n ELSE "content"],
       blocks |-> [n \in {"welcome"} \cup ends |-> IF n = "welcome" THEN welcome ELSE Lookup(blocks, n, TextOnly)],
       options |-> [n \in {"menu"} |-> options],
       edge |-> [p \in {<<"start", Out>>, <<"welcome", Out>>} \cup {<<"menu", o>> : o \in DOMAIN leads} |->
                   IF p[1] = "start" THEN "welcome" ELSE IF p[1] = "welcome" THEN "menu" ELSE leads[p[2]]]]

Self(ids) == [i \in ids |-> i]
Funnel ==
  LET ends == {"yape", "transfer", "card"}
      g == Branching(<<"text", "delay", "text">>,
                     <<Opt("yape", {"yape", "plin"}), Opt("transfer", {"transferencia", "bancaria"}), Opt("card", {"tarjeta"})>>,
                     Self(ends), <<>>)
  IN  [g EXCEPT !.kind = [n \in DOMAIN @ \cup {"thanks"} |-> Lookup(@, n, "content")],
                !.blocks = [n \in DOMAIN @ \cup {"thanks"} |-> Lookup(@, n, TextOnly)],
                !.edge = [p \in DOMAIN @ \cup {<<n, Out>> : n \in ends} |-> Lookup(@, p, "thanks")]]
Faq ==
  Branching(TextOnly,
            <<Opt("precios", {"precios"}), Opt("horarios", {"horarios", "de", "atención"}),
              Opt("ubicacion", {"ubicación"}), Opt("asesor", {"hablar", "con", "un", "asesor"})>>,
            Self({"precios", "horarios", "ubicacion", "asesor"}), [n \in {"asesor"} |-> <<"text", "autooff">>])
Reminder ==
  Graph([n \in {"start", "reminder", "wait", "followup"} |-> IF n \in {"start", "wait"} THEN n ELSE "content"],
        [n \in {"reminder", "followup"} |-> IF n = "reminder" THEN <<"text", "contact">> ELSE TextOnly],
        <<>>,
        [p \in {"start", "reminder", "wait"} \X {Out} |->
           CASE p[1] = "start" -> "reminder" [] p[1] = "reminder" -> "wait" [] OTHER -> "followup"])
Welcome ==
  Branching(<<"text", "delay", "text">>, <<Opt("si", {"sí", "cuéntame"}), Opt("no", {"no", "gracias"})>>,
            [o \in {"si", "no"} |-> IF o = "si" THEN "yes" ELSE "no"], <<>>)

GraphOf(t) ==
  CASE t = "funnel-ventas-pago" -> Funnel [] t = "faq-asesor" -> Faq
    [] t = "recordatorio-pago" -> Reminder [] OTHER -> Welcome

-----------------------------------------------------------------------------
(***************************************************************************)
(* The engine: graph.ts, keyword-match.ts, run-flow.ts.                    *)
(***************************************************************************)
NextNodeId(g, n, handle) == Lookup(g.edge, <<n, handle>>, Void)

MatchesKeyword(keyword, text) == keyword \in text.words

\* By its number, else the first with just these words, else the first whose words are
\* among them.
MatchMenuOption(options, text) ==
  LET same == {i \in DOMAIN options : options[i].text.words = text.words}
      among == {i \in DOMAIN options : options[i].text.words # {} /\ options[i].text.words \subseteq text.words}
      FirstOf(S) == options[CHOOSE i \in S : \A j \in S : i <= j].id
  IN  IF text.num \in DOMAIN options THEN options[text.num].id
      ELSE IF text.words = {} THEN Void
      ELSE IF same # {} THEN FirstOf(same)
      ELSE IF among # {} THEN FirstOf(among)
      ELSE Void

Effect(n, i, wait, kind) == [at |-> <<n, i>>, wait |-> wait, kind |-> kind]
Unmatched == [effects |-> <<>>, status |-> "COMPLETED", menu |-> Void]

\* The blocks of a content node: a delay is kept for the next effect, here or later.
Blocks(g, n, wait) ==
  FoldLeft(LAMBDA sofar, i :
             IF g.blocks[n][i] = "delay" THEN [sofar EXCEPT !.wait = TRUE]
             ELSE [effects |-> Append(sofar.effects, Effect(n, i, sofar.wait, g.blocks[n][i])), wait |-> FALSE],
           [effects |-> <<>>, wait |-> wait], [i \in DOMAIN g.blocks[n] |-> i])

Walk(g, from) ==
  LET go[n \in DOMAIN g.kind \cup {Void}, left \in 0..MaxSteps, wait \in BOOLEAN] ==
        IF n = Void \/ left = 0 \/ n \notin DOMAIN g.kind THEN Unmatched
        ELSE CASE g.kind[n] = "wait" -> go[NextNodeId(g, n, Out), left - 1, TRUE]
               [] g.kind[n] = "menu" ->
                    [effects |-> <<Effect(n, 0, wait, "text")>>, status |-> "WAITING_INPUT", menu |-> n]
               [] OTHER ->
                    LET here == Blocks(g, n, wait)
                        rest == go[NextNodeId(g, n, Out), left - 1, here.wait]
                    IN  [rest EXCEPT !.effects = here.effects \o @]
  IN  go[from, MaxSteps, FALSE]

RunFlow(g) == Walk(g, NextNodeId(g, "start", Out))

ResumeFlow(g, menu, text) ==
  IF Lookup(g.kind, menu, "gone") # "menu" THEN Unmatched
  ELSE LET option == MatchMenuOption(g.options[menu], text)
       IN  Walk(g, NextNodeId(g, menu, IF option = Void THEN NoResponse ELSE option))

-----------------------------------------------------------------------------
Panel(menu, phase, left, shown, result) ==
  [menu |-> menu, asked |-> Void, phase |-> phase, left |-> left, shown |-> shown, ends |-> result]
ClosedPanel == [menu |-> Void, asked |-> Void, phase |-> "idle", left |-> <<>>, shown |-> <<>>, ends |-> Void]
NoExecution == [st |-> "none", menu |-> Void, phase |-> "idle", left |-> <<>>, sent |-> <<>>, ends |-> Void]

SimulatorInit ==
  /\ flow = Void /\ written = Void /\ tried = ClosedPanel /\ live = NoExecution
  /\ off = FALSE /\ parted = FALSE /\ texts = 0 /\ touches = 0

Touch == touches < MaxTouches /\ touches' = touches + 1

\* A flow begins empty and gets the graph of the template by a second request.
UseTemplate(t) ==
  /\ flow = Void
  /\ flow' = [template |-> t, graph |-> EmptyGraph, state |-> "created"]
  /\ UNCHANGED <<written, tried, live, off, parted, texts, touches>>

ApplyGraph ==
  /\ flow # Void /\ flow.state = "created"
  /\ flow' = [flow EXCEPT !.graph = GraphOf(flow.template), !.state = "ready"]
  /\ UNCHANGED <<written, tried, live, off, parted, texts, touches>>

\* The second request failed: the flow stays, active and empty.
ApplyFails ==
  /\ flow # Void /\ flow.state = "created" /\ Touch
  /\ flow' = [flow EXCEPT !.state = "empty"]
  /\ UNCHANGED <<written, tried, live, off, parted, texts>>

\* A node is deleted with its edges, or an edge drawn where none leaves, and the graph
\* saved.  Who has read the old graph and who reads this one may answer differently.
Without(g, n) ==
  [kind |-> [m \in DOMAIN g.kind \ {n} |-> g.kind[m]], blocks |-> [m \in DOMAIN g.blocks \ {n} |-> g.blocks[m]],
   options |-> [m \in DOMAIN g.options \ {n} |-> g.options[m]],
   edge |-> [p \in {q \in DOMAIN g.edge : q[1] # n /\ g.edge[q] # n} |-> g.edge[p]]]
WithEdge(g, p, n) == [g EXCEPT !.edge = [q \in DOMAIN @ \cup {p} |-> IF q = p THEN n ELSE @[q]]]
Free(g) == {<<n, IF g.kind[n] = "menu" THEN NoResponse ELSE Out>> : n \in DOMAIN g.kind} \ DOMAIN g.edge
SaveGraph(n) ==
  /\ flow # Void /\ flow.state = "ready" /\ n \in DOMAIN flow.graph.kind \ {"start"} /\ Touch
  /\ \E g \in {Without(flow.graph, n)} \cup {WithEdge(flow.graph, p, n) : p \in Free(flow.graph)} :
       flow' = [flow EXCEPT !.graph = g]
  /\ parted' = (parted \/ (tried.phase = "asked") # (live.phase = "came"))
  /\ UNCHANGED <<written, tried, live, off, texts>>

\* What one may write: a keyword, a number, an option in its words or among others, or
\* what no option has.
OfferedTexts == IF tried.menu = Void THEN <<>> ELSE Lookup(flow.graph.options, tried.menu, <<>>)
Texts ==
  {Says({SuggestedKeyword[flow.template]}), Says({"nothing"})}
    \cup {Number(i) : i \in 1..Len(OfferedTexts) + 1}
    \cup {OfferedTexts[i].text : i \in DOMAIN OfferedTexts}
    \cup {Says(OfferedTexts[i].text.words \cup {"please"}) : i \in DOMAIN OfferedTexts}

\* The panel takes no text while one is being answered; the customer is as patient.
WriteText(text) ==
  /\ flow # Void /\ flow.state # "created" /\ ~parted /\ ~off /\ texts < MaxTexts
  /\ tried.phase = "idle" /\ live.phase = "idle"
  /\ written' = text /\ texts' = texts + 1
  /\ tried' = [tried EXCEPT !.menu = Void, !.asked = tried.menu, !.phase = "asked", !.shown = <<>>]
  /\ live' = [live EXCEPT !.phase = "came", !.sent = <<>>]
  /\ UNCHANGED <<flow, off, parted, touches>>

-----------------------------------------------------------------------------
(* The panel. *)

\* simulate: the menu the panel says it waits at, or the keyword.
AnswerText == IF tried.asked # Void THEN ResumeFlow(flow.graph, tried.asked, written)
          ELSE IF MatchesKeyword(SuggestedKeyword[flow.template], written) THEN RunFlow(flow.graph) ELSE Unmatched
Simulate ==
  /\ tried.phase = "asked"
  /\ tried' = [tried EXCEPT !.phase = "replay", !.left = AnswerText.effects, !.ends = AnswerText]
  /\ UNCHANGED <<flow, written, live, off, parted, texts, touches>>

\* The request failed: the panel forgot where it was.
SimulateFails ==
  /\ tried.phase = "asked" /\ Touch
  /\ tried' = [tried EXCEPT !.phase = "idle"] /\ parted' = TRUE
  /\ UNCHANGED <<flow, written, live, off, texts>>

Replay ==
  /\ tried.phase = "replay" /\ tried.left # <<>>
  /\ tried' = [tried EXCEPT !.shown = Append(@, Head(tried.left).at), !.left = Tail(@)]
  /\ UNCHANGED <<flow, written, live, off, parted, texts, touches>>

ReplayEnds ==
  /\ tried.phase = "replay" /\ tried.left = <<>>
  /\ tried' = [tried EXCEPT !.phase = "idle", !.menu = tried.ends.menu]
  /\ UNCHANGED <<flow, written, live, off, parted, texts, touches>>

ClosePanel ==
  /\ tried.phase = "idle" /\ tried.shown # <<>> /\ Touch
  /\ tried' = [ClosedPanel EXCEPT !.shown = tried.shown] /\ parted' = (parted \/ tried.menu # Void)
  /\ UNCHANGED <<flow, written, live, off, texts>>

-----------------------------------------------------------------------------
(* WhatsApp. *)

\* maybeRunFlow: a waiting menu takes the text whatever it says; an answer without effects
\* ends the execution, or starts none.
BeginFlow(result) == [live EXCEPT !.phase = "sending", !.st = "RUNNING", !.menu = Void, !.left = result.effects, !.ends = result]
HandleText ==
  LET resumed == live.st = "WAITING_INPUT"
      result == IF resumed THEN ResumeFlow(flow.graph, live.menu, written)
                ELSE IF MatchesKeyword(SuggestedKeyword[flow.template], written) THEN RunFlow(flow.graph) ELSE Unmatched
  IN  /\ live.phase = "came"
      /\ live' = IF result.effects # <<>> THEN BeginFlow(result)
                 ELSE [NoExecution EXCEPT !.sent = live.sent]
      /\ UNCHANGED <<flow, written, tried, off, parted, texts, touches>>

Send(effects) ==
  /\ live' = [live EXCEPT !.phase = "sending", !.sent = Append(@, Head(effects).at), !.left = Tail(effects)]
  /\ off' = (off \/ Head(effects).kind = "autooff")
  /\ UNCHANGED <<flow, written, tried, parted, texts, touches>>

\* dispatchEffects: what has a delay before it waits for its job, with all that follows.
Dispatch == live.phase = "sending" /\ live.left # <<>> /\ ~Head(live.left).wait /\ Send(live.left)
Park ==
  /\ live.phase = "sending" /\ live.left # <<>> /\ Head(live.left).wait
  /\ live' = [live EXCEPT !.phase = "parked"] /\ UNCHANGED <<flow, written, tried, off, parted, texts, touches>>
ResumeFlowDispatch == live.phase = "parked" /\ Send(live.left)

DispatchEnds ==
  /\ live.phase = "sending" /\ live.left = <<>>
  /\ live' = [live EXCEPT !.phase = "idle", !.st = live.ends.status, !.menu = live.ends.menu]
  /\ UNCHANGED <<flow, written, tried, off, parted, texts, touches>>

SimulatorNext ==
  \/ \E t \in Template : UseTemplate(t)
  \/ ApplyGraph \/ ApplyFails
  \/ flow # Void /\ ((\E n \in DOMAIN flow.graph.kind : SaveGraph(n)) \/ (\E text \in Texts : WriteText(text)))
  \/ Simulate \/ SimulateFails \/ Replay \/ ReplayEnds \/ ClosePanel
  \/ HandleText \/ Dispatch \/ Park \/ ResumeFlowDispatch \/ DispatchEnds

SimulatorSpec == SimulatorInit /\ [][SimulatorNext]_simulatorVars

-----------------------------------------------------------------------------
\* What the simulator shows for a text is what WhatsApp sends for it, in that order, and
\* both wait at the same menu then, after any edit of the flow (run-flow.ts 6-10,
\* automations.service.ts 165-168).  The two share neither a failed request, nor a panel
\* closed at a menu, nor a graph saved between the two answers; and after an Auto Off,
\* which the simulator does not obey, nothing more is compared.
SimulatorIsTrue ==
  ~parted /\ tried.phase = "idle" /\ live.phase = "idle" =>
    /\ tried.shown = live.sent
    /\ tried.menu = IF live.st = "WAITING_INPUT" THEN live.menu ELSE Void

\* In a template as it comes, each option is chosen by its number, by its words and by
\* its words among others, and leads on; and every node is come to.  It depends on no
\* state, and is worked out before there is a flow.
Reached(g) ==
  LET Step(S) == S \cup {g.edge[p] : p \in {q \in DOMAIN g.edge : q[1] \in S}}
  IN  FoldLeft(LAMBDA S, i : Step(S), {"start"}, [i \in 1..Cardinality(DOMAIN g.kind) |-> i])
TemplatesAreWhole ==
  flow = Void => \A t \in Template : LET g == GraphOf(t) IN
    /\ Reached(g) = DOMAIN g.kind
    /\ \A m \in DOMAIN g.options : \A i \in DOMAIN g.options[m] :
         LET option == g.options[m][i]
         IN  /\ <<m, option.id>> \in DOMAIN g.edge
             /\ \A text \in {Number(i), option.text, Says(option.text.words \cup {"please"})} :
                  MatchMenuOption(g.options[m], text) = option.id

FlowIsAsTried == SimulatorIsTrue /\ TemplatesAreWhole
=============================================================================
