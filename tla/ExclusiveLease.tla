--------------------------- MODULE ExclusiveLease ---------------------------
(***************************************************************************)
(* What the lease of a line promises, whoever implements it: one owner at  *)
(* a time, a free lease is the only one that can be taken, only its owner  *)
(* gives it back, and it lapses only when its owner no longer keeps it.    *)
(***************************************************************************)
CONSTANTS Holder,    \* who may hold the lease
          None       \* not a Holder

VARIABLES owner,     \* who holds the lease
          keepers    \* who believes to hold it and keeps it alive

leaseVars == <<owner, keepers>>

Init == owner = None /\ keepers = {}

Take(h) ==
  /\ owner = None
  /\ owner' = h
  /\ keepers' = keepers \cup {h}

\* A release; it frees the lease only when it is the caller's own.
GiveBack(h) ==
  /\ owner' = IF owner = h THEN None ELSE owner
  /\ keepers' = keepers \ {h}

\* The holder is gone, its lease is not.
Vanish(h) ==
  /\ keepers' = keepers \ {h}
  /\ UNCHANGED owner

Expire ==
  /\ owner # None /\ owner \notin keepers
  /\ owner' = None
  /\ UNCHANGED keepers

Next == (\E h \in Holder : Take(h) \/ GiveBack(h) \/ Vanish(h)) \/ Expire

Spec == Init /\ [][Next]_leaseVars

\* Nobody but the owner keeps the lease alive, so two never do.
Exclusive == keepers \subseteq {owner}
=============================================================================
