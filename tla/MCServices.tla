------------------------------ MODULE MCServices -----------------------------
EXTENDS Services, TLC

Symmetric == Permutations(Handler) \cup Permutations(Msg)

\* The object not stored yet has the bytes of the first, and only a message is kept from
\* the purge; the page opens on nothing, or
\* on a message of an agent.
MCSpec ==
  /\ part \in Parts
  /\ Starts(Init, Media!MediaInit /\ content[3] = First /\ (rows[2].keep => rows[2].kind = "message"), Photos!PicturesInit, IntegrationInit,
            VisitorInit /\ (chat => message[1].from = "agent"))
  /\ [][ServicesNext]_allVars

\* Three times a message, two edits and a fault do not all meet.
Few == part = "inbound" => emissions + edits + used <= MaxEmissions + 1
=============================================================================
