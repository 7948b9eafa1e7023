-------------------------------- MODULE Cards --------------------------------
(***************************************************************************)
(* The payment methods of a user in src/LidoraClient/Lidora: the documents *)
(* of DataService, the list of PaymentListViewController, from where a card*)
(* is chosen, removed, edited or added, and the form of                    *)
(* PaymentViewController.                                                  *)
(*                                                                         *)
(* The list is read once when the screen appears and patched from then on; *)
(* it keeps row numbers across calls that take any time.  The writes of    *)
(* the device go to the server in order (OrderedWrites), through crashes;  *)
(* what the device reads has its own writes in it before they are sent.    *)
(***************************************************************************)
EXTENDS Naturals, Sequences, FiniteSets, SequencesExt, FiniteSetsExt

CONSTANTS Card,       \* in the order of their ids
          New,        \* cards that are not there at first: Stripe gives out their ids
          MaxLoads,   \* fetches of the list under way at a time
          MaxWrites,  \* writes of the device not yet answered
          MaxCrashes, \* taps that end the app
          Fails       \* TRUE: calls may be refused

ASSUME CardsType == Card \subseteq Nat \ {0} /\ New \subseteq Card
ASSUME CardsFinite == IsFiniteSet(Card)
ASSUME CardBounds == MaxLoads \in Nat /\ MaxWrites \in Nat /\ MaxCrashes \in Nat
ASSUME CardFails == Fails \in BOOLEAN

VARIABLES docs,    \* customers/{uid}/payment_methods at the server
          writes,  \* writes of this device the server has not answered
          list,    \* PaymentListViewController
          sheet,   \* the options of a row, with the row and the card they are of
          form,    \* PaymentViewController
          save,    \* the call its button made; here: the form is still there
          minted,  \* ids Stripe gave out
          chosen,  \* the card chosen last, unless it was removed or another one added
          down,    \* why the app is down
          crashes, \* how often it was
          past     \* history: "stale" choices, "rejected" writes, another device

cardsVars == <<docs, writes, list, sheet, form, save, minted, chosen, down, crashes, past>>

\* A document without its details makes a Card of which only the id is set
\* (Card.swift:52-64); nobody in the client writes them.
Doc == [there : BOOLEAN, details : BOOLEAN, primary : {"yes", "no", "none"}]
NoCard == 0
NoDoc == [there |-> FALSE, details |-> FALSE, primary |-> "none"]

Row == [id : Card, primary : BOOLEAN]
ListState == [mode : {"closed", "choose", "manage"}, cards : Seq(Row), drawn : Seq(Card),
              selected : Nat, loads : 0 .. MaxLoads, canAdd : BOOLEAN, fresh : BOOLEAN]

\* row: which one the callback takes out of the list, 0 when it leaves it alone.
Write == [op : {"unset", "set", "delete", "create", "edit"}, id : Card, row : Nat,
          saves : BOOLEAN]

NoSheet == [row |-> 0, id |-> NoCard]
NoForm == [kind |-> "none", id |-> NoCard, primaryCard |-> NoCard, button |-> "enabled",
           ignored |-> FALSE]
NoSave == [pc |-> "none", id |-> NoCard, primaryCard |-> NoCard, here |-> FALSE]

TypeOK ==
    /\ docs \in [Card -> Doc]
    /\ writes \in Seq(Write) /\ Len(writes) <= MaxWrites
    /\ list \in ListState
    /\ sheet \in [row : Nat, id : Card \cup {NoCard}]
    /\ form \in [kind : {"none", "new", "edit"}, id : Card \cup {NoCard},
                 primaryCard : Card \cup {NoCard}, button : {"enabled", "loading"},
                 ignored : BOOLEAN]
    /\ save \in [pc : {"none", "stripe", "create", "unset", "edit", "shown"},
                 id : Card \cup {NoCard}, primaryCard : Card \cup {NoCard}, here : BOOLEAN]
    /\ minted \subseteq New /\ chosen \in Card \cup {NoCard}
    /\ down \in {"up", "row", "expiry"} /\ crashes \in 0 .. MaxCrashes
    /\ past \subseteq {"stale", "rejected", "elsewhere"}
    /\ list.mode = "closed" => \A i \in DOMAIN writes : writes[i].row = 0

Closed == [mode |-> "closed", cards |-> <<>>, drawn |-> <<>>, selected |-> 0, loads |-> 0,
           canAdd |-> TRUE, fresh |-> FALSE]

\* Cards with details, one of which may be primary.
CardsInit ==
    /\ \E known \in SUBSET (Card \ New) : \E first \in known \cup {NoCard} :
          docs = [c \in Card |->
                    IF c \in known
                    THEN [there |-> TRUE, details |-> TRUE,
                          primary |-> IF c = first THEN "yes" ELSE "no"]
                    ELSE NoDoc]
    /\ writes = <<>>
    /\ list = Closed /\ sheet = NoSheet /\ form = NoForm /\ save = NoSave
    /\ minted = {} /\ chosen = NoCard
    /\ down = "up" /\ crashes = 0 /\ past = {}

-----------------------------------------------------------------------------
(* Documents and writes.                                                   *)

\* updateData needs a document; setData with merge makes one.
Written(d, w) ==
    CASE w.op = "unset" -> IF d[w.id].there THEN [d EXCEPT ![w.id].primary = "no"] ELSE d
      [] w.op = "set" -> [d EXCEPT ![w.id].there = TRUE, ![w.id].primary = "yes"]
      [] w.op = "create" -> [d EXCEPT ![w.id].there = TRUE]
      [] w.op = "delete" -> [d EXCEPT ![w.id] = NoDoc]
      [] OTHER -> d

\* What the device sees: its own writes on top of the documents.
Applied(d, ws) == FoldLeft(Written, d, ws)
View == Applied(docs, writes)

Exists(d) == {c \in Card : d[c].there}
Primary(d) == {c \in Card : d[c].primary = "yes"}

WriteOf(op, c) == [op |-> op, id |-> c, row |-> 0, saves |-> FALSE]
Send(ws) ==
    /\ Len(writes) + Len(ws) <= MaxWrites
    /\ writes' = writes \o ws

Removing == {i \in DOMAIN writes : writes[i].row # 0}

-----------------------------------------------------------------------------
(* PaymentListViewController.                                              *)

Up == down = "up"
ListSeen == Up /\ list.mode # "closed" /\ form.kind = "none" /\ sheet = NoSheet

\* loadCards: the cards go at once, the rows stay until the answer is drawn.
LoadCards(l) == [l EXCEPT !.cards = <<>>, !.loads = @ + 1, !.fresh = FALSE]

\* From the checkout, with its card, to choose another one; or from the settings.
OpenList ==
    /\ Up /\ list.mode = "closed" /\ form.kind = "none"
    /\ MaxLoads > 0
    /\ \E mode \in {"choose", "manage"} : list' = LoadCards([Closed EXCEPT !.mode = mode])
    /\ UNCHANGED <<docs, writes, sheet, form, save, minted, chosen, down, crashes, past>>

\* The callbacks of a screen that is gone change nothing that is seen.
Forget(ws) == [i \in DOMAIN ws |-> [ws[i] EXCEPT !.row = 0]]

CloseList ==
    /\ ListSeen
    /\ list' = Closed
    /\ writes' = Forget(writes)
    /\ UNCHANGED <<docs, sheet, form, save, minted, chosen, down, crashes, past>>

\* Card(id:data:): the row of a document.
RowOf(d, c) == [id |-> c, primary |-> d[c].details /\ d[c].primary = "yes"]

\* cellForRowAt, for every row: in the checkout's list the last primary one is
\* selected, else the selection stays what it was.
Draw(l) ==
    LET primaries == {i \in DOMAIN l.cards : l.cards[i].primary} IN
    [l EXCEPT !.drawn = [i \in DOMAIN l.cards |-> l.cards[i].id],
              !.selected = IF l.mode = "choose" /\ primaries # {} THEN Max(primaries) ELSE @]

\* The members of a set of ids, the last one first.
LastFirst(S) ==
    [i \in 1 .. Cardinality(S) |-> CHOOSE c \in S : Cardinality({e \in S : e > c}) = i - 1]

\* The documents come in the order of their ids, each goes to the front, and the table
\* is drawn, in the next turn of the main queue; without any it is not.
LoadAnswer ==
    /\ Up /\ list.loads > 0
    /\ \/ LET ids == LastFirst(Exists(View))
              found == [i \in DOMAIN ids |-> RowOf(View, ids[i])]
              answered == [list EXCEPT !.loads = @ - 1, !.cards = found \o @,
                               !.fresh = /\ list.loads = 1 /\ list.cards = <<>>
                                         /\ list.selected = 0 /\ Removing = {}] IN
          list' = IF found = <<>> THEN [answered EXCEPT !.fresh = FALSE] ELSE Draw(answered)
       \/ Fails /\ list' = [list EXCEPT !.loads = @ - 1]
    /\ UNCHANGED <<docs, writes, sheet, form, save, minted, chosen, down, crashes, past>>

\* An index past the end ends the app.
GoDown(why) ==
    /\ crashes < MaxCrashes
    /\ down' = why /\ crashes' = crashes + 1

TapNoCard ==
    /\ ListSeen
    /\ \E r \in DOMAIN list.drawn :
          r > Len(list.cards) \/ list.selected > Len(list.cards)
    /\ GoDown("row")
    /\ UNCHANGED <<docs, writes, list, sheet, form, save, minted, chosen, past>>

\* A slip: the new card is set before the old one is unset.
SetThenUnset(old, c) == <<WriteOf("set", c), WriteOf("unset", old)>>

\* DataService.setPrimaryPaymentMethod: two writes that are not awaited.
PrimaryWrites(old, c) == <<WriteOf("unset", old), WriteOf("set", c)>>

\* didSelectRowAt with a selection: the card of the row instead of the selected one.
\* The selection stays where it was drawn.
ChooseCard ==
    /\ ListSeen /\ list.selected \in DOMAIN list.cards
    /\ \E r \in DOMAIN list.drawn \cap DOMAIN list.cards :
          LET old == list.cards[list.selected].id  c == list.cards[r].id IN
          /\ Send(PrimaryWrites(old, c))
          /\ chosen' = c
          /\ past' = IF Primary(View) \subseteq {old} THEN past ELSE past \cup {"stale"}
          /\ list' = [list EXCEPT !.fresh = @ /\ View[c].there]
    /\ UNCHANGED <<docs, sheet, form, save, minted, down, crashes>>

\* didSelectRowAt without one: showAlert, with the row and the card.
OpenSheet ==
    /\ ListSeen /\ list.selected = 0
    /\ \E r \in DOMAIN list.drawn \cap DOMAIN list.cards :
          sheet' = [row |-> r, id |-> list.cards[r].id]
    /\ UNCHANGED <<docs, writes, list, form, save, minted, chosen, down, crashes, past>>

CancelSheet ==
    /\ Up /\ sheet # NoSheet
    /\ sheet' = NoSheet
    /\ UNCHANGED <<docs, writes, list, form, save, minted, chosen, down, crashes, past>>

\* "Remove", twice: the callback of the delete takes the row out.
RemoveCard ==
    /\ Up /\ sheet # NoSheet
    /\ Send(<<[WriteOf("delete", sheet.id) EXCEPT !.row = sheet.row]>>)
    /\ chosen' = IF chosen = sheet.id THEN NoCard ELSE chosen
    /\ list' = [list EXCEPT !.fresh = /\ @ /\ Removing = {}
                                      /\ sheet.row <= Len(list.cards)
                                      /\ list.cards[sheet.row].id = sheet.id]
    /\ sheet' = NoSheet
    /\ UNCHANGED <<docs, form, save, minted, down, crashes, past>>

-----------------------------------------------------------------------------
(* PaymentViewController.                                                  *)

FormSeen == Up /\ form.kind # "none" /\ form.button = "enabled"

\* "Edit Card".
EditCard ==
    /\ Up /\ sheet # NoSheet
    /\ form' = [NoForm EXCEPT !.kind = "edit", !.id = sheet.id]
    /\ sheet' = NoSheet
    /\ UNCHANGED <<docs, writes, list, save, minted, chosen, down, crashes, past>>

\* goToAddNewPaymentVC, in the list of the settings; or the checkout's alert, which
\* does not say what the primary card is.  The button goes with a primary card.
AddNewCard ==
    /\ Up /\ form.kind = "none"
    /\ \/ LET primaries == {i \in DOMAIN list.cards : list.cards[i].primary}
              first == IF primaries = {} THEN NoCard ELSE list.cards[Min(primaries)].id IN
          /\ ListSeen /\ list.mode = "manage" /\ list.canAdd
          /\ form' = [NoForm EXCEPT !.kind = "new", !.primaryCard = first]
          /\ list' = [list EXCEPT !.canAdd = primaries = {}]
       \/ /\ list.mode = "closed"
          /\ form' = [NoForm EXCEPT !.kind = "new"]
          /\ UNCHANGED list
    /\ UNCHANGED <<docs, writes, sheet, save, minted, chosen, down, crashes, past>>

\* Back: the list appears again.  A call under way goes on.
LeaveForm ==
    /\ Up /\ form.kind # "none"
    /\ form' = NoForm /\ save' = [save EXCEPT !.here = FALSE]
    /\ IF list.mode = "closed" THEN UNCHANGED list
       ELSE list.loads < MaxLoads /\ list' = LoadCards(list)
    /\ UNCHANGED <<docs, writes, sheet, minted, chosen, down, crashes, past>>

\* addPaymentMethod of the form shows the spinner and reads the date before anything
\* is validated: a text that is no date, or the one shown for a month of two digits
\* ("0\(month)/..."), ends the app.
SaveNoDate ==
    /\ FormSeen
    /\ GoDown("expiry")
    /\ UNCHANGED <<docs, writes, list, sheet, form, save, minted, chosen, past>>

\* A number that does not validate, or the cvc of the card: it returns.
SaveReturns ==
    /\ FormSeen
    /\ form' = [form EXCEPT !.button = "loading", !.ignored = TRUE]
    /\ UNCHANGED <<docs, writes, list, sheet, save, minted, chosen, down, crashes, past>>

\* One call at a time: that of a form that was left is waited for.
SaveCard ==
    /\ FormSeen /\ save = NoSave
    /\ form' = [form EXCEPT !.button = "loading"]
    /\ IF form.kind = "edit"
       THEN /\ save' = [NoSave EXCEPT !.pc = "edit", !.id = form.id, !.here = TRUE]
            /\ Send(<<[WriteOf("edit", form.id) EXCEPT !.saves = TRUE]>>)
       ELSE /\ save' = [NoSave EXCEPT !.pc = "stripe", !.primaryCard = form.primaryCard,
                                      !.here = TRUE]
            /\ UNCHANGED writes
    /\ UNCHANGED <<docs, list, sheet, minted, chosen, down, crashes, past>>

\* The form says what came of it, if it is still there.
Finish == /\ save' = NoSave
          /\ form' = IF save.here THEN [form EXCEPT !.button = "enabled"] ELSE form

\* createPaymentMethod answers, and the card is written under its id.
StripeAnswers ==
    /\ Up /\ save.pc = "stripe"
    /\ \/ \E c \in New \ minted :
             /\ Send(<<[WriteOf("create", c) EXCEPT !.saves = TRUE]>>)
             /\ minted' = minted \cup {c}
             /\ save' = [save EXCEPT !.pc = "create", !.id = c]
             /\ list' = [list EXCEPT !.fresh = FALSE]
             /\ UNCHANGED form
       \/ /\ Fails \/ minted = New
          /\ Finish
          /\ UNCHANGED <<writes, minted, list>>
    /\ UNCHANGED <<docs, sheet, chosen, down, crashes, past>>

\* "Card successfully added", 2.5 seconds later.
SaveShown ==
    /\ Up /\ save.pc = "shown"
    /\ Finish
    /\ UNCHANGED <<docs, writes, list, sheet, minted, chosen, down, crashes, past>>

-----------------------------------------------------------------------------
(* The server answers the oldest write.                                    *)

\* A slip: the row at the end goes.
DropLast(l, r) == Draw([l EXCEPT !.cards = Front(@)])

\* removePaymentMethod's callback; a row past the end ends the app, below.
DropRow(l, r) == Draw([l EXCEPT !.cards = RemoveAt(@, r)])

\* A slip: a card that is added beside no primary one is never reported.
AddedSilently(w) ==
    IF w.op = "create" /\ save.primaryCard = NoCard THEN UNCHANGED <<save, form, chosen>>
    ELSE /\ save' = [save EXCEPT !.pc = IF w.op = "create" THEN "unset" ELSE "shown"]
         /\ UNCHANGED <<form, chosen>>

\* The callbacks of addPaymentMethod and updatePaymentMethod, without an error.
Saved(w) ==
    IF w.op = "create" /\ save.primaryCard # NoCard
    THEN /\ save' = [save EXCEPT !.pc = "unset"]
         /\ chosen' = IF chosen = save.primaryCard THEN NoCard ELSE chosen
         /\ UNCHANGED form
    ELSE /\ IF w.op = "edit" THEN Finish
            ELSE save' = [save EXCEPT !.pc = "shown"] /\ UNCHANGED form
         /\ UNCHANGED chosen

\* A slip: the answer of the second write is nobody's.
UnsetQuietly == IF save'.pc = "unset" /\ save.pc = "create"
                THEN <<WriteOf("unset", save.primaryCard)>> ELSE <<>>

\* The old primary card is no longer primary, and no other is.
UnsetOld == IF save'.pc = "unset" /\ save.pc = "create"
            THEN <<[WriteOf("unset", save.primaryCard) EXCEPT !.saves = TRUE]>> ELSE <<>>

Accepted(w) == w.op \notin {"unset", "edit"} \/ docs[w.id].there

WriteAnswered ==
    /\ Up /\ writes # <<>>
    /\ LET w == Head(writes) IN
       /\ Accepted(w)
       /\ docs' = Written(docs, w)
       /\ w.row <= Len(list.cards)
       /\ list' = IF w.row = 0 THEN list ELSE DropRow(list, w.row)
       /\ IF w.saves THEN Saved(w) ELSE UNCHANGED <<save, form, chosen>>
       /\ writes' = Tail(writes) \o UnsetOld
    /\ UNCHANGED <<sheet, minted, down, crashes, past>>

\* The row was counted in a list that is gone.
WriteAnsweredTooLate ==
    /\ Up /\ writes # <<>>
    /\ LET w == Head(writes) IN
       /\ w.row > Len(list.cards)
       /\ docs' = Written(docs, w)
    /\ down' = "row"
    /\ writes' = Tail(writes)
    /\ UNCHANGED <<list, sheet, form, save, minted, chosen, crashes, past>>

WriteRejected ==
    /\ Up /\ writes # <<>>
    /\ LET w == Head(writes) IN
       /\ Fails \/ ~Accepted(w)
       /\ IF w.saves THEN Finish ELSE UNCHANGED <<save, form>>
       /\ past' = IF w.op = "set" \/ Accepted(w) THEN past \cup {"rejected"} ELSE past
    /\ writes' = Tail(writes)
    /\ list' = [list EXCEPT !.fresh = FALSE]
    /\ UNCHANGED <<docs, sheet, minted, chosen, down, crashes>>

-----------------------------------------------------------------------------
(* The app goes down and comes back; other devices.                        *)

\* A slip: what was not sent is gone.
Unsent == <<>>

\* The writes are still there, without their callbacks.
Kept == [i \in DOMAIN writes |-> [writes[i] EXCEPT !.row = 0, !.saves = FALSE]]

\* The app is started again.
Restart ==
    /\ ~Up
    /\ down' = "up"
    /\ list' = Closed /\ sheet' = NoSheet /\ form' = NoForm /\ save' = NoSave
    /\ writes' = Kept
    /\ UNCHANGED <<docs, minted, chosen, crashes, past>>

\* Another device of the user removes a card or makes it the only primary one.
Elsewhere ==
    /\ "elsewhere" \notin past
    /\ \E c \in Exists(docs) :
          docs' = IF docs[c].details /\ docs[c].primary # "yes"
                  THEN [d \in Card |-> IF d = c THEN [docs[d] EXCEPT !.primary = "yes"]
                                       ELSE IF docs[d].primary = "yes"
                                            THEN [docs[d] EXCEPT !.primary = "no"] ELSE docs[d]]
                  ELSE [docs EXCEPT ![c] = NoDoc]
    /\ past' = past \cup {"elsewhere"}
    /\ list' = [list EXCEPT !.fresh = FALSE]
    /\ UNCHANGED <<writes, sheet, form, save, minted, chosen, down, crashes>>

Taps ==
    \/ OpenList \/ CloseList \/ TapNoCard \/ ChooseCard
    \/ OpenSheet \/ CancelSheet \/ RemoveCard
    \/ EditCard \/ AddNewCard \/ LeaveForm
    \/ SaveNoDate \/ SaveReturns \/ SaveCard

Answers ==
    \/ LoadAnswer \/ StripeAnswers \/ SaveShown
    \/ WriteAnswered \/ WriteAnsweredTooLate \/ WriteRejected

CardsNext == Taps \/ Answers \/ Restart \/ Elsewhere

CardsSpec == CardsInit /\ [][CardsNext]_cardsVars

\* The server answers, and Stripe does, and the delay of the message is over.
CardsFairness ==
    /\ WF_cardsVars(WriteAnswered \/ WriteAnsweredTooLate \/ WriteRejected)
    /\ WF_cardsVars(StripeAnswers) /\ WF_cardsVars(SaveShown)

-----------------------------------------------------------------------------
(* Properties                                                              *)

\* At most one card is primary at the server, at every moment, whatever is tapped and
\* however late the writes are, as long as every choice was made from a list that had
\* the primary card selected, no write was refused and nobody else chose
\* (DataService.swift:168-171).  Two taps in one list are enough for two primary
\* cards: the selection stays with the first one.
OnePrimaryIfSeen == past = {} => Cardinality(Primary(docs)) <= 1

\* The card that was chosen last is the primary one, once the writes are sent, also
\* when it was primary before, when other choices overlapped and when the app went
\* down in between; unless a write was refused or another device interfered.
ChosenIsPrimary ==
    /\ chosen # NoCard /\ past \cap {"rejected", "elsewhere"} = {}
    /\ ~ \E i \in DOMAIN writes : writes[i].op \in {"set", "unset"}
    => chosen \in Primary(docs)

\* The list shows every card once, in rows that act on the card they show, after any
\* number of choices and one removal at a time, until something changes that it
\* was not told of (PaymentListViewController.swift:99-113, 186-196).
ListIsCollection ==
    list.fresh /\ Removing = {} =>
        LET ids == [i \in DOMAIN list.cards |-> list.cards[i].id] IN
        /\ list.drawn = ids
        /\ Len(ids) = Cardinality(Exists(View))
        /\ \A c \in Exists(View) : \E i \in DOMAIN ids : ids[i] = c

\* While the spinner turns for a form that was accepted, exactly one answer for it is
\* on its way, from Stripe, from one write or as the message that is shown: none is
\* lost and no callback comes twice, through the two writes of an added card, refused
\* writes, and forms that were left (PaymentViewController.swift:227-250).
SaveIsOwed ==
    Up /\ form.button = "loading" /\ ~form.ignored =>
        Cardinality({i \in DOMAIN writes : writes[i].saves}) =
            IF save.pc \in {"stripe", "shown"} THEN 0 ELSE 1

\* "Save" comes back, with an error or without, unless the form was not accepted.
SaveComesBack ==
    form.button = "loading" ~> \/ form.button = "enabled" \/ form.ignored
                               \/ ~Up
=============================================================================
