------------------------------- MODULE Bubble -------------------------------
(***************************************************************************)
(* The script a company pastes on its site (widget.js): the launcher, the  *)
(* badge that hides it, the tab that brings it back, the greeting and the  *)
(* frame with the chat.  Each listener changes some styles at once and     *)
(* leaves others to timers and animation frames, which run in any order    *)
(* after further clicks, turns of the phone and messages of the frame.     *)
(***************************************************************************)
EXTENDS Naturals

CONSTANTS MaxGestures,  \* bound: clicks and turns of the screen
          MaxReady      \* bound: times the frame is loaded

\* BackOffice assumes it.
BubbleAssumption == MaxGestures \in Nat /\ MaxReady \in Nat

VARIABLES
  opened, minimized, mobile, minimizeAllowed,
  seen,       \* what is displayed; full: the frame covers the screen
  due,        \* timers and animation frames to come
  loaded, gestures,
  covered     \* history: the badge was put over the panel that covers the screen now

bubbleVars == <<opened, minimized, mobile, minimizeAllowed, seen, due, loaded, gestures, covered>>

Part == {"launcher", "badge", "tab", "teaser", "frame", "full", "drawn"}
Timer == {"drawLauncher", "hideFrame", "hideTab", "autoOpen", "greet"}

BubbleInit ==
  /\ opened = FALSE /\ minimized \in BOOLEAN /\ mobile \in BOOLEAN /\ minimizeAllowed = TRUE
  /\ seen = [p \in Part |-> CASE p = "launcher" -> ~minimized [] p = "tab" -> minimized [] OTHER -> FALSE]
  /\ due = IF minimized THEN {} ELSE {"drawLauncher"}
  /\ loaded = 0 /\ gestures = 0 /\ covered = FALSE

\* The styles with some of them changed.
With(styles, change) == [p \in Part |-> IF p \in DOMAIN change THEN change[p] ELSE styles[p]]

\* What setOpen does to the styles and to the timers.
OpenStyles(styles) ==
  With(styles, [teaser |-> FALSE, frame |-> TRUE, full |-> mobile,
                launcher |-> styles["launcher"] /\ ~mobile, badge |-> styles["badge"] /\ ~mobile])
CloseStyles(styles, tiny) ==
  IF tiny THEN With(styles, [full |-> FALSE])
  ELSE With(styles, [full |-> FALSE, launcher |-> TRUE, badge |-> minimizeAllowed])

SetOpen ==
  opened' = TRUE /\ seen' = OpenStyles(seen) /\ covered' = FALSE /\ UNCHANGED <<minimized, due>>
SetClosed ==
  /\ opened' = FALSE /\ seen' = CloseStyles(seen, minimized) /\ covered' = FALSE
  /\ due' = due \cup {"hideFrame"} /\ UNCHANGED minimized

SetMinimized ==
  /\ minimized' = TRUE /\ opened' = FALSE /\ covered' = FALSE
  /\ due' = IF opened THEN due \cup {"hideFrame"} ELSE due
  /\ seen' = With(IF opened THEN CloseStyles(seen, TRUE) ELSE seen,
                  [launcher |-> FALSE, badge |-> FALSE, teaser |-> FALSE, tab |-> TRUE])

\* With the permission to hide it that has just come, or the one there was.
Restored(styles, allowed) == With(styles, [launcher |-> TRUE, badge |-> allowed])
SetRestored ==
  /\ minimized' = FALSE /\ seen' = Restored(seen, minimizeAllowed)
  /\ due' = due \cup {"hideTab", "drawLauncher"}
  /\ covered' = (covered \/ (opened /\ mobile))   \* the tab fades for a while, and may be clicked again
  /\ UNCHANGED opened

-----------------------------------------------------------------------------
(* The listeners: clicks, the size of the window, the messages of the frame. *)
Gesture == gestures < MaxGestures /\ gestures' = gestures + 1

ClickLauncher ==
  /\ Gesture /\ seen["launcher"] /\ IF opened THEN SetClosed ELSE SetOpen
  /\ UNCHANGED <<mobile, minimizeAllowed, loaded>>
ClickBadge == Gesture /\ seen["badge"] /\ SetMinimized /\ UNCHANGED <<mobile, minimizeAllowed, loaded>>
ClickTab == Gesture /\ seen["tab"] /\ SetRestored /\ UNCHANGED <<mobile, minimizeAllowed, loaded>>
ClickTeaser == Gesture /\ seen["teaser"] /\ SetOpen /\ UNCHANGED <<mobile, minimizeAllowed, loaded>>
CloseInFrame == Gesture /\ seen["frame"] /\ loaded > 0 /\ SetClosed /\ UNCHANGED <<mobile, minimizeAllowed, loaded>>

\* The short side of the window crosses 640 pixels.
Resize ==
  /\ Gesture /\ mobile' = ~mobile
  /\ seen' = IF ~opened THEN seen
             ELSE With(seen, [full |-> mobile', launcher |-> ~mobile', badge |-> ~mobile' /\ minimizeAllowed])
  /\ covered' = FALSE
  /\ UNCHANGED <<opened, minimized, minimizeAllowed, due, loaded>>

\* clienera:ready: the greeting is built again, and a bubble that may no longer be
\* hidden comes back.
Ready(allow, auto, greeting) ==
  /\ loaded < MaxReady /\ loaded' = loaded + 1
  /\ minimizeAllowed' = allow
  /\ minimized' = (minimized /\ allow)
  /\ LET plain == With(seen, [teaser |-> FALSE])
         back == minimized /\ ~allow
     IN /\ seen' = IF ~allow THEN IF back THEN Restored(plain, FALSE) ELSE With(plain, [badge |-> FALSE])
                   ELSE With(plain, [badge |-> plain["badge"] \/ ~minimized])
        /\ due' = due \cup (IF back THEN {"hideTab", "drawLauncher"} ELSE {})
                      \cup (IF opened \/ minimized' THEN {}
                            ELSE IF auto THEN {"autoOpen"} ELSE IF greeting THEN {"greet"} ELSE {})
  /\ covered' = (covered \/ (opened /\ mobile /\ seen'["badge"]))
  /\ UNCHANGED <<opened, mobile, gestures>>

-----------------------------------------------------------------------------
(* What the timers do; each looks at the state it finds then. *)
HideFrame == IF opened THEN seen ELSE With(seen, [frame |-> FALSE])

Expire(t) ==
  /\ t \in due /\ due' = due \ {t}
  /\ opened' = (opened \/ (t = "autoOpen" /\ ~minimized))
  /\ seen' = CASE t = "drawLauncher" -> With(seen, [drawn |-> TRUE])
               [] t = "hideFrame" -> HideFrame
               [] t = "hideTab" -> IF minimized THEN seen ELSE With(seen, [tab |-> FALSE])
               [] t = "autoOpen" -> IF opened \/ minimized THEN seen ELSE OpenStyles(seen)
               [] t = "greet" -> IF opened \/ minimized THEN seen ELSE With(seen, [teaser |-> TRUE])
  /\ UNCHANGED <<minimized, mobile, minimizeAllowed, loaded, gestures, covered>>

BubbleNext ==
  \/ ClickLauncher \/ ClickBadge \/ ClickTab \/ ClickTeaser \/ CloseInFrame \/ Resize
  \/ \E allow, auto, greeting \in BOOLEAN : Ready(allow, auto, greeting)
  \/ \E t \in Timer : Expire(t)

BubbleSpec == BubbleInit /\ [][BubbleNext]_bubbleVars

-----------------------------------------------------------------------------
\* Once the timers have run, what is on the site is what the state says, whatever was
\* clicked before they ran: hidden, only the tab; closed, the launcher; open on a phone,
\* only the frame, over the whole screen; open elsewhere, the frame beside the launcher;
\* the badge where the company allows it.  Launcher and badge may lie over the full screen
\* after the frame became ready while it was open (widget.js 318), until it is closed.
BubbleSettles ==
  due = {} =>
    /\ seen["tab"] = minimized /\ seen["frame"] = opened /\ seen["full"] = (opened /\ mobile)
    /\ seen["teaser"] => ~opened /\ ~minimized
    /\ seen["launcher"] => seen["drawn"]
    /\ ~covered =>
         LET beside == ~minimized /\ ~(opened /\ mobile)
         IN  /\ seen["launcher"] = beside
             /\ loaded > 0 => seen["badge"] = (beside /\ minimizeAllowed)
=============================================================================
