---------------------------- MODULE MCAutomations ----------------------------
EXTENDS Automations

\* A greeting and a menu; "one" leads through two Wait nodes in a row to the end,
\* "two" to a second menu and from there back to the first.
Branching ==
  [kind   |-> [start |-> "start", hello |-> "content", menu |-> "menu", more |-> "menu",
               wait |-> "wait", first |-> "content", second |-> "content"],
   next   |-> [start |-> "hello", hello |-> "menu", menu |-> None, more |-> None,
               wait |-> "first", first |-> "second", second |-> None],
   blocks |-> [start |-> <<>>, hello |-> <<"send">>, menu |-> <<>>, more |-> <<>>, wait |-> <<>>,
               first |-> <<"send", "autooff">>, second |-> <<"delay", "send">>],
   edge   |-> [menu |-> [hi |-> None, one |-> "wait", two |-> "more"],
               more |-> [hi |-> "menu", one |-> "menu", two |-> None]]]

\* The same with a way back to the menu from behind the Wait node.
Looping == [Branching EXCEPT !.next.first = "menu"]
=============================================================================
