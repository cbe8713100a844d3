------------------------------ MODULE EventFeed ------------------------------
(***************************************************************************)
(* What the event channel promises: a feed of events, numbered in the      *)
(* order in which they were published, that a relay works off in that      *)
(* order until the feed is closed.                                         *)
(***************************************************************************)
EXTENDS Naturals

CONSTANT MaxEvents  \* bound on the events published

VARIABLES
    published,  \* how many events have been accepted
    relayed,    \* how many of them have been taken over by the relay
    last,       \* the event it took over last
    closed      \* no event is accepted any more

feedVars == <<published, relayed, last, closed>>

FeedInit == published = 0 /\ relayed = 0 /\ last = 0 /\ closed = FALSE

FeedPublish == /\ ~closed /\ published < MaxEvents
               /\ published' = published + 1
               /\ UNCHANGED <<relayed, last, closed>>

FeedRelay == /\ relayed < published
             /\ relayed' = relayed + 1
             /\ last' = relayed + 1
             /\ UNCHANGED <<published, closed>>

FeedClose == /\ closed' = TRUE
             /\ UNCHANGED <<published, relayed, last>>

FeedNext == FeedPublish \/ FeedRelay \/ FeedClose

FeedSpec == FeedInit /\ [][FeedNext]_feedVars
=============================================================================
