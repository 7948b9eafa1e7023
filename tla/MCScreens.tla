------------------------------ MODULE MCScreens ------------------------------
(* Two accounts that come and go, or one that is at home and in the settings, *)
(* where two cards may be there and one may be added.                         *)
EXTENDS Cards, Session

CONSTANTS a1, a2

TwoAccounts == {a1, a2}
OldAndNew == 1 .. 3
Newest == {3}

\* One thing out of the ordinary: a tap that ends the app, a write that is refused,
\* another device, or a new card; one write at a time beside a form; and nothing else
\* beside a form that was opened while the call of one that was left is under way.
OneCardThing ==
    /\ CardsNext
    /\ crashes' + Cardinality(past' \ {"stale"}) + Cardinality(minted') <= 1
    /\ Len(writes') > 1 => form'.kind = "none" /\ save' = NoSave
    /\ form'.kind # "none" /\ save' # NoSave /\ ~save'.here =>
          past' = {} /\ crashes' = 0 /\ chosen' = NoCard

\* One thing again: the app ends, two observations at a time, or a fetch that fails;
\* where an attempt crossed that of another user the properties say nothing.
OneSessionThing ==
    /\ SessionNext
    /\ "crossed" \notin lapses'
    /\ restarts' + Cardinality(lapses') <= 1

NoCards == CardsInit /\ \A c \in Card : docs[c] = NoDoc

\* The first user is at home and nothing is under way.
AtHome ==
    /\ auth = a1 /\ root = a1 /\ cover = Uncovered
    /\ accounts = {a1} /\ documents = {a1}
    /\ main = <<>> /\ calls = {} /\ listeners = [l \in Place |-> Free] /\ handle = 1
    /\ restarts = 0 /\ lapses = {}

ScreensInit ==
    \/ NoCards /\ SessionInit
    \/ CardsInit /\ AtHome

ScreensNext ==
    \/ AtHome /\ OneCardThing /\ UNCHANGED sessionVars
    \/ NoCards /\ OneSessionThing /\ UNCHANGED cardsVars

ScreensSpec ==
    /\ ScreensInit /\ [][ScreensNext]_<<cardsVars, sessionVars>>
    /\ CardsFairness /\ SessionFairness
=============================================================================
