---------------------------- MODULE MCBackOffice ----------------------------
EXTENDS BackOffice, TLC

\* The two who work at once are symmetric in every part, and so are the two things, when the
\* identities at Google change places with them: at rest each has the address of one thing.
OtherOf(v, S) == CHOOSE w \in S \ {v} : TRUE
Exchanged == [v \in Request \cup Google |-> OtherOf(v, IF v \in Request THEN Request ELSE Google)]
Symmetric == Permutations(Admin) \cup {Exchanged}

Items == <<"message", "message", "lead", "execution">>

\* The first message is stored, the second may come during the script, and a lead and an
\* execution belong to one thread.  Of the plans on offer one is marked first.
MCInit ==
  /\ BackOfficeInit
  /\ part = "merge" => home[1] # None /\ home[3] = home[4]
  /\ part = "login" => offered = {CHOOSE p \in Offer : TRUE}

\* Reports count messages or chats, and none count both.
Apart == part = "figures" => talk = <<>> \/ threads = <<>>
MCSpec == MCInit /\ [][BackOfficeNext /\ Apart']_allVars

\* A page that lost what it does not mend is followed no further: nothing is claimed of it.
\* A change elsewhere and a dropped socket meet two requests of the page.  Accounts are
\* deactivated and plans marked in histories in which no address changes.
Followed ==
  /\ part = "lists" => Lists!Mended /\ (others + drops = 2 => Len(exchanges) < MaxExchanges)
  /\ part = "login" =>
       \/ renames = 0
       \/ /\ \A u \in Present : user[u].active
          /\ marked = {} /\ \A c \in Client : visit[c].at # "mark"

Zones == {0, 1}

\* Who has every module, none, only one, or all but one.
Guarded == {"dashboard", "conversations", "crm-leads", "crm-deals", "crm-pipelines", "automations-flows", "automations-templates"}
All == Guarded \cup {"instances", "team", "incidents", "api-settings", "feedback", "calendar"}
Few == {{}, All} \cup {All \ {m} : m \in Guarded} \cup {{m} : m \in Guarded}
=============================================================================
