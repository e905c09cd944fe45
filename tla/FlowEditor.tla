----------------------------- MODULE FlowEditor -----------------------------
(***************************************************************************)
(* The editor of a flow.  First, drawing ONE flow (web                     *)
(* automations/[id]/page.tsx) in several tabs: nodes, the options of menus *)
(* and edges change on the canvas, and a save sends the whole drawing as   *)
(* it was at the click, to replace what is stored.  Then the form of a     *)
(* content node (node-config-modal.tsx): blocks are added, moved and       *)
(* removed while files are being uploaded for some of them, and saved as   *)
(* they are.  A block that waits has a duration (duration-picker.tsx).     *)
(***************************************************************************)
EXTENDS Integers, Sequences, FiniteSets, SequencesExt

CONSTANTS Tab,
          Box,       \* ids of the nodes one may add
          Option,    \* ids of options
          Block,     \* ids of blocks
          None,
          MaxWork,   \* bound: changes, pages opened and saves
          MaxFiles,  \* bound: files chosen
          MaxClicks  \* bound: changes of the blocks or of the duration

\* BackOffice assumes them.
FlowEditorAssumption == None \notin Box \cup Option /\ MaxWork \in Nat
ContentAssumption == None \notin Block /\ MaxFiles \in Nat /\ MaxClicks \in Nat

VARIABLES
  saved,      \* the graph of the row
  drawing,    \* what each tab shows, or None
  sending,    \* the graph each tab is saving, or None
  spent       \* ids given
editorVars == <<saved, drawing, sending, spent>>

\* A graph: the type of each node, the options of each menu, and edges that leave a
\* source by a handle.  An edge drawn from a plain node has the handle null, which the
\* JSON drops; one that was loaded has undefined.
Start == "start"
Id == Box \cup {Start}
Kinds == {"none", "content", "wait", "menu", "start"}
Empty == [kind |-> [n \in Id |-> IF n = Start THEN "start" ELSE "none"], options |-> [n \in Id |-> {}], edges |-> {}]
Nodes(g) == {n \in Id : g.kind[n] # "none"}
Plain == {"null", "undefined"}

\* What one can draw from, and the names an edge may have for it.
Handles(g, n) ==
  IF g.kind[n] = "menu" THEN {{o} : o \in g.options[n]} \cup {{"no-response"}} ELSE {Plain}

EditorInit ==
  saved = Empty /\ drawing = [t \in Tab |-> None] /\ sending = [t \in Tab |-> None] /\ spent = [work |-> 0, ids |-> {}]

Work(ids) == spent.work < MaxWork /\ spent' = [work |-> spent.work + 1, ids |-> spent.ids \cup ids]
Draw(t, g) == drawing' = [drawing EXCEPT ![t] = g] /\ UNCHANGED <<saved, sending>>

-----------------------------------------------------------------------------
Load(t) == drawing[t] = None /\ Work({}) /\ Draw(t, saved)
Leave(t) == drawing[t] # None /\ drawing' = [drawing EXCEPT ![t] = None] /\ UNCHANGED <<saved, sending, spent>>

\* A menu begins with two options without text; the modal that opens may be cancelled.
AddNode(t) ==
  \E n \in Box \ spent.ids, k \in {"content", "wait", "menu"} :
    \E fresh \in {S \in SUBSET (Option \ spent.ids) : Cardinality(S) = IF k = "menu" THEN 2 ELSE 0} :
      Work({n} \cup fresh) /\ Draw(t, [drawing[t] EXCEPT !.kind[n] = k, !.options[n] = fresh])

DeleteNode(t) ==
  \E n \in Nodes(drawing[t]) \ {Start} :
    /\ Work({})
    /\ Draw(t, [drawing[t] EXCEPT !.kind[n] = "none", !.options[n] = {},
                                  !.edges = {e \in @ : e.from # n /\ e.to # n}])

\* The edge that left by this handle goes, if its handle is written the same way.
Others(edges, n, h) == {e \in edges : ~(e.from = n /\ e.by = h)}
Connect(t) ==
  \E n \in Nodes(drawing[t]), to \in Nodes(drawing[t]) \ {Start} : \E names \in Handles(drawing[t], n) :
    LET h == IF names = Plain THEN "null" ELSE CHOOSE o \in names : TRUE
        left == Others(drawing[t].edges, n, h)
        known == \E e \in left : e.from = n /\ e.to = to /\ e.by \in names
    IN Work({}) /\ Draw(t, [drawing[t] EXCEPT !.edges = IF known THEN left ELSE left \cup {[from |-> n, by |-> h, to |-> to]}])

DeleteEdge(t) == \E e \in drawing[t].edges : Work({}) /\ Draw(t, [drawing[t] EXCEPT !.edges = @ \ {e}])

\* The modal has added options, removed some and dropped those left without text; the
\* edges of the options that are gone go too.
AllEdges(edges, n, options) == edges
WithoutGhosts(edges, n, options) == {e \in edges : e.from # n \/ e.by \in options \cup {"no-response"}}
SaveMenuConfig(t) ==
  \E n \in Box : drawing[t].kind[n] = "menu" /\
    \E options \in SUBSET (drawing[t].options[n] \cup (Option \ spent.ids)) :
      /\ options # {} /\ options # drawing[t].options[n] /\ Work(options)
      /\ Draw(t, [drawing[t] EXCEPT !.options[n] = options, !.edges = WithoutGhosts(@, n, options)])

-----------------------------------------------------------------------------
\* One save of a tab at a time, while drawing goes on.
PersistGraph(t) ==
  /\ sending[t] = None /\ Work({})
  /\ sending' = [sending EXCEPT ![t] = drawing[t]] /\ UNCHANGED <<saved, drawing>>

UpdateFlow(t) ==
  /\ sending[t] # None /\ sending' = [sending EXCEPT ![t] = None]
  /\ saved' = [sending[t] EXCEPT !.edges = {[e EXCEPT !.by = IF @ \in Plain THEN "undefined" ELSE @] : e \in @}]
  /\ UNCHANGED <<drawing, spent>>
UpdateFails(t) == sending[t] # None /\ sending' = [sending EXCEPT ![t] = None] /\ UNCHANGED <<saved, drawing, spent>>

EditorNext ==
  \E t \in Tab :
    \/ Load(t) \/ UpdateFlow(t) \/ UpdateFails(t)
    \/ drawing[t] # None /\ (AddNode(t) \/ DeleteNode(t) \/ Connect(t) \/ DeleteEdge(t)
                             \/ SaveMenuConfig(t) \/ PersistGraph(t) \/ Leave(t))

EditorSpec == EditorInit /\ [][EditorNext]_editorVars

-----------------------------------------------------------------------------
\* Whatever is drawn and in however many tabs, an edge of the graph the engine reads
\* joins two nodes of it by a handle its source has, so no reply to a menu ends where
\* nothing follows (page.tsx 142-144), and a handle of a menu has one edge.  A plain node
\* may get two: the edge that was loaded has the handle undefined, a new one null.
GraphIsSound ==
  /\ saved.kind[Start] = "start"
  /\ \A e \in saved.edges :
       /\ {e.from, e.to} \subseteq Nodes(saved) /\ e.to # Start
       /\ \E names \in Handles(saved, e.from) : e.by \in names
  /\ \A e, f \in saved.edges : e.from = f.from /\ e.by = f.by /\ saved.kind[e.from] = "menu" => e = f

-----------------------------------------------------------------------------
(* The form of a content node. *)

VARIABLES
  blocks,      \* the sequence: each an id and its file, 0 for none
  uploading,   \* uploadingFor
  pending,     \* pendingBlockId while the dialog of the system is open, or None
  uploads,     \* requests out: a block and a file
  picked,      \* history: of the files chosen for each block and uploaded, the last one chosen
  doubled,     \* history: blocks two files were on their way to at once
  files, clicks,
  seconds, unit, before   \* a duration, the unit it is shown in, and what it was at the last click
contentVars == <<blocks, uploading, pending, uploads, picked, doubled, files, clicks, seconds, unit, before>>

Shown(b) == \E i \in DOMAIN blocks : blocks[i].id = b
FileOf(b) == blocks[CHOOSE i \in DOMAIN blocks : blocks[i].id = b].file
OnWay(b) == {u \in uploads : u.block = b}

-----------------------------------------------------------------------------
(* duration-picker.tsx *)

UNIT_SECONDS == [sec |-> 1, min |-> 60, hour |-> 3600, day |-> 86400]
Unit == DOMAIN UNIT_SECONDS
MAX_SECONDS == 30 * 86400
AtLeast(a, b) == IF a > b THEN a ELSE b
AtMost(a, b) == IF a < b THEN a ELSE b
Round(a, b) == (2 * a + b) \div (2 * b)

DeriveUnit(s) ==
  IF s % 86400 = 0 THEN "day" ELSE IF s % 3600 = 0 THEN "hour" ELSE IF s % 60 = 0 THEN "min" ELSE "sec"
Value(u) == AtLeast(1, Round(seconds, UNIT_SECONDS[u]))

Commit(value, u) ==
  /\ clicks < MaxClicks /\ clicks' = clicks + 1
  /\ unit' = u /\ before' = seconds
  /\ seconds' = AtMost(MAX_SECONDS, AtLeast(1, value) * UNIT_SECONDS[u])
  /\ UNCHANGED <<blocks, uploading, pending, uploads, picked, doubled, files>>

Fewer == Value(unit) > 1 /\ Commit(Value(unit) - 1, unit)
More == Commit(Value(unit) + 1, unit)
\* The duration in the new unit, and not the number that was shown in the old one.
InUnit(u) == Value(u)
ChooseUnit(u) == Commit(InUnit(u), u)

-----------------------------------------------------------------------------
ContentInit ==
  /\ blocks = <<>> /\ uploading = None /\ pending = None /\ uploads = {}
  /\ picked = [b \in Block |-> 0] /\ doubled = {} /\ files = 0 /\ clicks = 0
  /\ seconds \in {2, 90, 7200, MAX_SECONDS} /\ unit = DeriveUnit(seconds) /\ before = seconds

\* The dialog of the system leaves nothing else to be clicked.
Click(new) ==
  /\ pending = None /\ clicks < MaxClicks /\ clicks' = clicks + 1 /\ blocks' = new
  /\ UNCHANGED <<uploading, pending, uploads, picked, doubled, files, seconds, unit, before>>

AddMediaBlock(b) == ~Shown(b) /\ picked[b] = 0 /\ OnWay(b) = {} /\ Click(Append(blocks, [id |-> b, file |-> 0]))
RemoveBlock(b) == Shown(b) /\ Click(SelectSeq(blocks, LAMBDA x : x.id # b))
MoveBlock(i, direction) ==
  LET target == i + direction
  IN  /\ target \in DOMAIN blocks
      /\ Click([blocks EXCEPT ![i] = blocks[target], ![target] = blocks[i]])

RequestBlockUpload(b) ==
  /\ pending = None /\ Shown(b) /\ uploading # b /\ files < MaxFiles
  /\ pending' = b
  /\ UNCHANGED <<blocks, uploading, uploads, picked, doubled, files, clicks, seconds, unit, before>>

HandleFileChosen ==
  /\ pending # None
  /\ files' = files + 1 /\ uploading' = pending /\ pending' = None
  /\ uploads' = uploads \cup {[block |-> pending, file |-> files + 1]}
  /\ doubled' = IF OnWay(pending) # {} THEN doubled \cup {pending} ELSE doubled
  /\ UNCHANGED <<blocks, picked, clicks, seconds, unit, before>>

\* updateBlock finds the block by its id wherever it is by now, or not at all.
UpdateBlock(u) == [i \in DOMAIN blocks |-> IF blocks[i].id = u.block THEN [blocks[i] EXCEPT !.file = u.file] ELSE blocks[i]]
Uploaded(u) ==
  /\ uploads' = uploads \ {u} /\ uploading' = None
  /\ blocks' = UpdateBlock(u) /\ picked' = [picked EXCEPT ![u.block] = AtLeast(@, u.file)]
  /\ UNCHANGED <<pending, doubled, files, clicks, seconds, unit, before>>
UploadFails(u) ==
  /\ uploads' = uploads \ {u} /\ uploading' = None
  /\ UNCHANGED <<blocks, pending, picked, doubled, files, clicks, seconds, unit, before>>

ContentNext ==
  \/ Fewer \/ More \/ \E u \in Unit : ChooseUnit(u)
  \/ \E b \in Block : AddMediaBlock(b) \/ RemoveBlock(b) \/ RequestBlockUpload(b)
  \/ \E i \in DOMAIN blocks, direction \in {-1, 1} : MoveBlock(i, direction)
  \/ HandleFileChosen
  \/ \E u \in uploads : Uploaded(u) \/ UploadFails(u)

ContentSpec == ContentInit /\ [][ContentNext]_contentVars

-----------------------------------------------------------------------------
\* A block, wherever it was moved while files were on their way and whatever failed, has
\* the last file chosen for it that arrived: unless two for it were on their way at once,
\* which its box allows once a file for another block was chosen or has arrived.
FilesAreTheirs == \A b \in Block \ doubled : Shown(b) => FileOf(b) = picked[b]

\* A click on a unit or a button changes a duration by less than the unit it is shown in
\* then, or by that one (duration-picker.tsx 51-53).
DurationIsKept ==
  /\ seconds \in 1..MAX_SECONDS /\ seconds % UNIT_SECONDS[unit] = 0
  /\ seconds - before <= UNIT_SECONDS[unit] /\ before - seconds <= UNIT_SECONDS[unit]

ContentIsTrue == FilesAreTheirs /\ DurationIsKept
=============================================================================
