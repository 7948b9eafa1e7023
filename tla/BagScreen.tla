------------------------------ MODULE BagScreen ------------------------------
(***************************************************************************)
(* The bag on the screen: CardViewController with its OverView (a dish)    *)
(* and ProceedView (two buttons), on top of DataService and the Firestore  *)
(* client, in src/LidoraClient/Lidora.                                     *)
(*                                                                         *)
(* The screen never asks for the bag when it acts.  It keeps what its      *)
(* listeners told it last, and the listeners of fetchCurrentOrder are      *)
(* never removed: each fetch adds one for the order, each answer of that   *)
(* one adds another for the items, which repeats the order it was made     *)
(* with at every change of an item.                                        *)
(*                                                                         *)
(* Amounts and quantities are in Bag; here an order is its chef.           *)
(***************************************************************************)
EXTENDS Naturals, FiniteSets

CONSTANTS Item, ChefOf, NoChef,
          AddCall, PlaceCall,   \* the taps that add a dish and place the order
          Gesture,              \* the heights the user drags the curtain to
          MaxExtra,             \* how many of "open", "clear", "elsewhere" happen
          Fails                 \* TRUE: requests may fail

ASSUME ChefType == \A i \in Item : ChefOf[i] # NoChef
ASSUME GestureType == Gesture \subseteq {"hide", "min", "mid", "max"}
ASSUME BoundsType == MaxExtra \in Nat
ASSUME FailsType == Fails \in BOOLEAN

VARIABLES
    order, lines,       \* the bag: its chef, and the dishes in its items
    changed,            \* the bag has changes the client has not been told of
    view,               \* the bag as the client of this device has it
    outer, outerDue,    \* listeners of the order, and how many have an answer to come
    inner, innerDue,    \* listeners of the items, by the order they repeat
    ended,              \* history: listeners failed since the bag was last fetched
    user, userReplies,  \* self.user is there; fetches of it to be answered
    card, cardReplies,  \* self.card.first; fetches of it to be answered
    shown,              \* self.order.first
    overOrder,          \* overView.order, which the check of the chef looks at
    chosen,             \* overView.menu, and its chef
    screen,             \* what can be seen
    adds, places,       \* calls of addItemToOrder and placeOrder
    proceed,            \* the button "Place Order"
    clear, listed,      \* the button "Clear bag" and its call; what it listed
    paid,               \* the chef a payment went to, the chef of the bag
    extra,              \* the bag was opened, was cleared, another device was used
    blind               \* history: an add was not checked against the bag

bagVars == <<order, lines, changed>>
listenerVars == <<view, outer, outerDue, inner, innerDue, ended>>
replyVars == <<user, userReplies, card, cardReplies>>
callVars == <<adds, places, proceed, clear, listed, paid>>
historyVars == <<extra, blind>>
screenVars == <<shown, overOrder, chosen, screen>>
vars == <<bagVars, listenerVars, replyVars, screenVars, callVars, historyVars>>

Chef == {ChefOf[i] : i \in Item}
Height == {"hide", "min", "mid", "max"}
CardState == {"none", "empty", "notEmpty", "overview"}
Screen == [cardState : CardState, curtain : Height, overShown : BOOLEAN, buttons : BOOLEAN]
Place == [pc : {"idle", "read", "charge", "paid", "failed", "silent", "done"},
          to : Chef \cup {NoChef}, of : Chef \cup {NoChef}, card : {"partial", "full"}]

TypeOK ==
    /\ order \in Chef \cup {NoChef} /\ lines \subseteq Item /\ changed \in BOOLEAN
    /\ view \in [order : Chef \cup {NoChef}, lines : SUBSET Item]
    /\ outer \in Nat /\ outerDue \in 0 .. outer
    /\ inner \subseteq Chef /\ innerDue \subseteq inner /\ ended \in BOOLEAN
    /\ user \in BOOLEAN /\ userReplies \in Nat
    /\ card \in {"none", "partial", "full"} /\ cardReplies \in Nat
    /\ shown \in Chef \cup {NoChef} /\ overOrder \in Chef \cup {NoChef}
    /\ chosen \in Item /\ screen \in Screen
    /\ adds \in [AddCall -> [pc : {"idle", "sent", "added", "done", "failed"}, item : Item]]
    /\ places \in [PlaceCall -> Place]
    /\ proceed \in {"enabled", "loading"}
    /\ clear \in {"enabled", "alert", "list", "delete", "deleted", "stuck"}
    /\ listed \subseteq Item
    /\ paid \subseteq (Chef \cup {NoChef}) \X (Chef \cup {NoChef})
    /\ extra \subseteq {"open", "clear", "elsewhere"}
    /\ blind \in BOOLEAN

\* setupViews, and the fetchData of the first viewWillAppear; the bag may hold
\* something from before.
Init ==
    /\ \/ order = NoChef /\ lines = {}
       \/ \E i \in Item : order = ChefOf[i] /\ lines = {i}
    /\ changed = FALSE
    /\ view = [order |-> order, lines |-> lines]
    /\ outer = 0 /\ outerDue = 0 /\ inner = {} /\ innerDue = {} /\ ended = FALSE
    /\ user = FALSE /\ userReplies = 1
    /\ card = "none" /\ cardReplies = 0
    /\ shown = NoChef /\ overOrder = NoChef /\ chosen \in Item
    /\ screen = [cardState |-> "none", curtain |-> "min", overShown |-> FALSE,
                 buttons |-> FALSE]
    /\ adds \in [AddCall -> {[pc |-> "idle", item |-> chosen]}]
    /\ places = [p \in PlaceCall |->
                    [pc |-> "idle", to |-> NoChef, of |-> NoChef, card |-> "full"]]
    /\ proceed = "enabled" /\ clear = "enabled" /\ listed = {} /\ paid = {}
    /\ extra = {} /\ blind = FALSE

\* Each of the three happens at most once.
Extra(kind) ==
    /\ kind \notin extra /\ Cardinality(extra) < MaxExtra
    /\ extra' = extra \cup {kind}

-----------------------------------------------------------------------------
(* What is on the screen.                                                  *)

\* A slip: the state empty leaves the buttons there.
KeepButtons(s, state) ==
    [s EXCEPT !.cardState = state,
              !.overShown = state = "overview" \/ (state = "empty" /\ @),
              !.buttons = @ /\ state \in {"empty", "notEmpty"}]

\* cardState's didSet: what each state hides and shows.
SetState(s, state) ==
    [s EXCEPT !.cardState = state,
              !.overShown = state = "overview" \/ (state = "empty" /\ @),
              !.buttons = @ /\ state = "notEmpty"]

\* A new height over a bag shows the buttons, or hides them.
AtHeight(s, height) ==
    [cardState |-> s.cardState, curtain |-> height, overShown |-> s.overShown,
     buttons |-> IF s.cardState = "notEmpty" /\ height # "hide" THEN height # "min"
                 ELSE s.buttons]

\* curtain(_:didChange:), called when the height changes.
MoveCurtain(s, height) ==
    IF height = s.curtain THEN s
    ELSE IF s.cardState = "overview" /\ height = "min"
         THEN AtHeight(SetState(s, "notEmpty"), height)
         ELSE AtHeight(s, height)

\* Nothing else can be touched while the alert of clearOrder is open.
Touchable == clear # "alert"

Up == Touchable /\ screen.curtain \in {"mid", "max"}

\* The user drags the curtain, or another screen hides it or brings it back.
Drag ==
    /\ Touchable
    /\ \E height \in Gesture : screen' = MoveCurtain(screen, height)
    /\ UNCHANGED <<bagVars, listenerVars, replyVars, shown, overOrder, chosen, callVars,
                   historyVars>>

-----------------------------------------------------------------------------
(* The listeners of fetchCurrentOrder and the Firestore client.            *)

\* The client's own deletes show at once, until the server has done them.
Seen == IF clear = "delete" THEN [order |-> NoChef, lines |-> lines \ listed]
        ELSE [order |-> order, lines |-> lines]

\* Every listener is told of a change; the answers come one after the other.
Notify(v) ==
    /\ view' = v
    /\ outerDue' = outer
    /\ innerDue' = inner
    /\ UNCHANGED <<outer, inner, ended>>

Sync ==
    /\ changed
    /\ outerDue = 0 /\ innerDue = {}
    /\ changed' = FALSE
    /\ Notify(Seen)
    /\ UNCHANGED <<order, lines, replyVars, screenVars, callVars, historyVars>>

\* A slip: the order is shown, and its items are not listened to.
OrderWithoutItems ==
    /\ outerDue > 0
    /\ outerDue' = outerDue - 1
    /\ IF view.order = NoChef
       THEN screen' = SetState(screen, "none")
       ELSE UNCHANGED screen
    /\ UNCHANGED <<bagVars, view, outer, inner, innerDue, ended, replyVars, shown, overOrder,
                   chosen, callVars, historyVars>>

\* The order's listener: without a document the screen shows nothing, else the
\* items are listened to, with this order.
OrderAnswer ==
    /\ outerDue > 0
    /\ outerDue' = outerDue - 1
    /\ IF view.order = NoChef
       THEN screen' = SetState(screen, "none") /\ UNCHANGED <<inner, innerDue>>
       ELSE /\ inner' = inner \cup {view.order}
            /\ innerDue' = innerDue \cup {view.order}
            /\ UNCHANGED screen
    /\ UNCHANGED <<bagVars, view, outer, ended, replyVars, shown, overOrder, chosen, callVars,
                   historyVars>>

\* The order cannot be listened to: every listener of it gets the error and ends.
OrderFails ==
    /\ Fails
    /\ outer > 0
    /\ outer' = 0 /\ outerDue' = 0
    /\ ended' = TRUE
    /\ screen' = SetState(screen, "none")
    /\ UNCHANGED <<bagVars, view, inner, innerDue, replyVars, shown, overOrder, chosen,
                   callVars, historyVars>>

\* The items' listener: for each item the order it was made with is appended.
ItemsAnswer ==
    \E chef \in innerDue :
        /\ innerDue' = innerDue \ {chef}
        /\ IF view.lines = {} THEN UNCHANGED <<shown, overOrder, screen>>
           ELSE /\ shown' = IF shown = NoChef THEN chef ELSE shown
                /\ overOrder' = chef
                /\ screen' = SetState(screen, "notEmpty")
        /\ UNCHANGED <<bagVars, view, outer, outerDue, inner, ended, replyVars, chosen,
                       callVars, historyVars>>

\* The items cannot be listened to: the same, for the listeners of the items.
ItemsFail ==
    /\ Fails
    /\ inner # {}
    /\ inner' = {} /\ innerDue' = {}
    /\ ended' = TRUE
    /\ screen' = SetState(screen, "none")
    /\ UNCHANGED <<bagVars, view, outer, outerDue, replyVars, shown, overOrder, chosen,
                   callVars, historyVars>>

\* fetchOrder, once the user is there.
FetchOrder ==
    /\ shown' = NoChef
    /\ outer' = outer + 1 /\ outerDue' = outerDue + 1
    /\ ended' = FALSE
    /\ UNCHANGED <<view, inner, innerDue>>

-----------------------------------------------------------------------------
(* fetchData.                                                              *)

\* handleCardButton: the title is tapped.
OpenBag ==
    /\ Touchable
    /\ Extra("open")
    /\ user' = FALSE
    /\ userReplies' = userReplies + 1
    /\ screen' = MoveCurtain(screen, "max")
    /\ UNCHANGED <<bagVars, listenerVars, card, cardReplies, shown, overOrder, chosen,
                   callVars, blind>>

\* fetchUser answers: fetchOrder and fetchPrimaryCard.
UserReply ==
    /\ userReplies > 0
    /\ userReplies' = userReplies - 1
    /\ \/ /\ user' = TRUE
          /\ FetchOrder
          /\ card' = "none" /\ cardReplies' = cardReplies + 1
       \/ /\ Fails
          /\ UNCHANGED <<user, listenerVars, shown, card, cardReplies>>
    /\ UNCHANGED <<bagVars, overOrder, chosen, screen, callVars, historyVars>>

\* fetchPrimaryPaymentMethod answers, with a card that lacks fields or one that
\* does not; the first one counts.
CardReply ==
    /\ cardReplies > 0
    /\ cardReplies' = cardReplies - 1
    /\ \/ card' \in (IF card = "none" THEN {"partial", "full"} ELSE {card})
       \/ Fails /\ UNCHANGED card
    /\ UNCHANGED <<bagVars, listenerVars, user, userReplies, screenVars, callVars, historyVars>>

-----------------------------------------------------------------------------
(* Adding a dish.                                                          *)

\* MenuViewController.didSelect: the dish and its chef, then the state.
ChooseDish(i) ==
    /\ Touchable
    /\ screen.curtain \in {"min", "mid"}
    /\ chosen' = i
    /\ screen' = SetState(MoveCurtain(screen, "mid"), "overview")
    /\ UNCHANGED <<bagVars, listenerVars, replyVars, shown, overOrder, callVars, historyVars>>

InFlight == {a \in AddCall : adds[a].pc = "sent"}

\* A slip: the check is left out.
Unchecked == TRUE

\* "You can't order from two different chefs."
ChefAgrees == overOrder \in {NoChef, ChefOf[chosen]}

\* OverView.addToOrder and CardViewController.addToOrder.  Nothing is sent before the
\* user is there, nor of a dish that lacks a field or whose chef does.
TapAdd(a) ==
    /\ Up /\ screen.overShown
    /\ adds[a].pc = "idle"
    /\ ChefAgrees
    /\ screen' = MoveCurtain(SetState(screen, "notEmpty"), "min")
    /\ \/ /\ user
          /\ adds' = [adds EXCEPT ![a] = [pc |-> "sent", item |-> chosen]]
          /\ blind' = \/ blind
                      \/ overOrder = NoChef /\ (order # NoChef \/ InFlight # {})
       \/ UNCHANGED <<adds, blind>>
    /\ UNCHANGED <<bagVars, listenerVars, replyVars, shown, overOrder, chosen, places, proceed,
                   clear, listed, paid, extra>>

\* A slip: the order takes the chef of the last dish.
AddLandsAsLast(a) ==
    /\ adds[a].pc = "sent"
    /\ order' = ChefOf[adds[a].item]
    /\ lines' = lines \cup {adds[a].item}
    /\ changed' = TRUE
    /\ adds' = [adds EXCEPT ![a].pc = "added"]
    /\ UNCHANGED <<listenerVars, replyVars, screenVars, places, proceed, clear, listed, paid,
                   historyVars>>

\* The transaction of addItemToOrder takes effect (AddItem of AtomicBag).
AddLands(a) ==
    /\ adds[a].pc = "sent"
    /\ order' = IF order = NoChef THEN ChefOf[adds[a].item] ELSE order
    /\ lines' = lines \cup {adds[a].item}
    /\ changed' = TRUE
    /\ adds' = [adds EXCEPT ![a].pc = "added"]
    /\ UNCHANGED <<listenerVars, replyVars, screenVars, places, proceed, clear, listed, paid,
                   historyVars>>

\* It calls back: with success, fetchOrder, if the user is there; with failure,
\* nothing but a log entry.
AddReturns(a) ==
    /\ \/ /\ adds[a].pc = "added"
          /\ adds' = [adds EXCEPT ![a].pc = "done"]
          /\ IF user THEN FetchOrder ELSE UNCHANGED <<shown, listenerVars>>
       \/ /\ Fails
          /\ adds[a].pc \in {"sent", "added"}
          /\ adds' = [adds EXCEPT ![a].pc = "failed"]
          /\ UNCHANGED <<shown, listenerVars>>
    /\ UNCHANGED <<bagVars, replyVars, overOrder, chosen, screen, places, proceed, clear,
                   listed, paid, historyVars>>

-----------------------------------------------------------------------------
(* Placing the order.                                                      *)

Done == [pc |-> "done", to |-> NoChef, of |-> NoChef, card |-> "full"]

UnderWay(p) == places[p].pc \notin {"idle", "done", "silent"}

\* A slip: the button is not disabled while it spins.
StillEnabled == proceed' = "enabled"

\* LoadingButton.showLoading disables the button.
ShowLoading == proceed' = "loading"

\* CardViewController.placeOrder.  Without an order or a card an alert is shown and
\* the button comes back at once: nothing changes.
TapPlace(p) ==
    /\ Up /\ screen.buttons
    /\ proceed = "enabled"
    /\ places[p].pc = "idle"
    /\ shown # NoChef /\ card # "none"
    /\ ShowLoading
    /\ places' = [places EXCEPT ![p] =
                      [pc |-> "read", to |-> shown, of |-> NoChef, card |-> card]]
    /\ UNCHANGED <<bagVars, listenerVars, replyVars, screenVars, adds, clear, listed, paid,
                   historyVars>>

\* DataService.placeOrder: without a document it returns and calls nobody.
ReadBag(p) ==
    /\ places[p].pc = "read"
    /\ \/ /\ order # NoChef
          /\ places' = [places EXCEPT ![p].pc = "charge", ![p].of = order]
       \/ /\ order = NoChef \/ Fails
          /\ places' = [places EXCEPT ![p].pc = "silent"]
    /\ UNCHANGED <<bagVars, listenerVars, replyVars, screenVars, adds, proceed, clear, listed,
                   paid, historyVars>>

\* completeCharge: a card that lacks a field returns and calls nobody; the token
\* or the write may be refused.
Charge(p) ==
    /\ places[p].pc = "charge"
    /\ \/ /\ places[p].card = "full"
          /\ places' = [places EXCEPT ![p].pc = "paid"]
          /\ paid' = paid \cup {<<places[p].to, places[p].of>>}
       \/ /\ places[p].card = "full"
          /\ places' = [places EXCEPT ![p].pc = "failed"]
          /\ UNCHANGED paid
       \/ /\ places[p].card = "partial"
          /\ places' = [places EXCEPT ![p].pc = "silent"]
          /\ UNCHANGED paid
    /\ UNCHANGED <<bagVars, listenerVars, replyVars, screenVars, adds, proceed, clear, listed,
                   historyVars>>

\* A slip: the button stays as it is after an error.
ErrorIgnored(p) ==
    /\ places[p].pc = "failed"
    /\ places' = [places EXCEPT ![p] = Done]
    /\ UNCHANGED <<bagVars, listenerVars, replyVars, screenVars, adds, proceed, clear, listed,
                   paid, historyVars>>

\* The callback of placeOrder, with an error.
PlaceFailed(p) ==
    /\ places[p].pc = "failed"
    /\ places' = [places EXCEPT ![p] = Done]
    /\ proceed' = "enabled"
    /\ UNCHANGED <<bagVars, listenerVars, replyVars, screenVars, adds, clear, listed, paid,
                   historyVars>>

\* What the screen forgets when the bag was cleared or placed.
ForgetOrder ==
    /\ overOrder' = NoChef /\ shown' = NoChef
    /\ screen' = SetState(screen, "empty")
    /\ UNCHANGED chosen

\* The callback of placeOrder.  The document of the bag stays.
Placed(p) ==
    /\ places[p].pc = "paid"
    /\ places' = [places EXCEPT ![p] = Done]
    /\ proceed' = "enabled"
    /\ ForgetOrder
    /\ UNCHANGED <<bagVars, listenerVars, replyVars, adds, clear, listed, paid, historyVars>>

PlaceOrder(p) == ReadBag(p) \/ Charge(p) \/ PlaceFailed(p) \/ Placed(p)

-----------------------------------------------------------------------------
(* Clearing the bag.                                                       *)

\* clearOrder and its alert.  Without an order on the screen it returns, after
\* showLoading, and nothing brings the button back.
TapClear ==
    /\ Up /\ screen.buttons
    /\ clear = "enabled"
    /\ clear' = IF shown = NoChef THEN "stuck" ELSE "alert"
    /\ UNCHANGED <<bagVars, listenerVars, replyVars, screenVars, adds, places, proceed, listed,
                   paid, historyVars>>

AnswerAlert ==
    /\ clear = "alert"
    /\ \/ clear' = "enabled" /\ UNCHANGED extra
       \/ clear' = "list" /\ Extra("clear")
    /\ UNCHANGED <<bagVars, listenerVars, replyVars, screenVars, adds, places, proceed, listed,
                   paid, blind>>

\* DataService.clearOrder lists the items and deletes what it found: on this device
\* at once.
ListItems ==
    /\ clear = "list"
    /\ listed' = lines
    /\ clear' = "delete"
    /\ Notify([order |-> NoChef, lines |-> {}])
    /\ UNCHANGED <<bagVars, replyVars, screenVars, adds, places, proceed, paid, historyVars>>

\* The server has done the deletes, or refused them: then the bag is back, and
\* the callback leaves the button as it is.
DeletesDone ==
    /\ clear = "delete"
    /\ \/ /\ order' = NoChef /\ lines' = lines \ listed
          /\ clear' = "deleted" /\ listed' = {}
          /\ UNCHANGED changed
       \/ /\ Fails
          /\ changed' = TRUE
          /\ clear' = "stuck" /\ listed' = {}
          /\ UNCHANGED <<order, lines>>
    /\ UNCHANGED <<listenerVars, replyVars, screenVars, adds, places, proceed, paid, historyVars>>

\* The callback of clearOrder.
Cleared ==
    /\ clear = "deleted"
    /\ clear' = "enabled"
    /\ ForgetOrder
    /\ UNCHANGED <<bagVars, listenerVars, replyVars, adds, places, proceed, listed, paid,
                   historyVars>>

ClearOrder == ListItems \/ DeletesDone \/ Cleared

-----------------------------------------------------------------------------

\* A second device of the user adds a dish or clears the bag.
Elsewhere ==
    /\ Extra("elsewhere")
    /\ changed' = TRUE
    /\ \/ \E i \in Item : /\ lines' = lines \cup {i}
                          /\ order' = IF order = NoChef THEN ChefOf[i] ELSE order
       \/ order' = NoChef /\ lines' = {}
    /\ UNCHANGED <<listenerVars, replyVars, screenVars, callVars, blind>>

Listeners == Sync \/ OrderAnswer \/ ItemsAnswer
Replies == UserReply \/ CardReply

Next ==
    \/ Listeners \/ OrderFails \/ ItemsFail \/ Replies
    \/ Drag \/ OpenBag \/ TapClear \/ AnswerAlert \/ ClearOrder \/ Elsewhere
    \/ \E i \in Item : ChooseDish(i)
    \/ \E a \in AddCall : TapAdd(a) \/ AddLands(a) \/ AddReturns(a)
    \/ \E p \in PlaceCall : TapPlace(p) \/ PlaceOrder(p)

Spec == Init /\ [][Next]_vars

\* Listeners are answered and the calls of a placed order return; the user does what
\* he likes, and every other reply may be missing.
Fairness ==
    /\ WF_vars(Sync) /\ WF_vars(OrderAnswer) /\ WF_vars(ItemsAnswer)
    /\ \A p \in PlaceCall : WF_vars(PlaceOrder(p))

FairSpec == Spec /\ Fairness

-----------------------------------------------------------------------------
(* Properties                                                              *)

Undisturbed == extra \cap {"clear", "elsewhere"} = {}

\* The button is disabled as long as a payment is under way, whatever is shown,
\* hidden or fetched in between: no second tap pays at the same time
\* (LoadingButton.swift:40-55, CardViewController.swift:227-245).
OnePlacementAtATime ==
    /\ \A p, q \in PlaceCall : UnderWay(p) /\ UnderWay(q) => p = q
    /\ \A p \in PlaceCall : UnderWay(p) => proceed = "loading"

\* The buttons are there only in the state notEmpty, with the curtain up or away: no
\* order of answers and gestures leaves them over a dish or over the view that shows
\* nothing (CardViewController.swift:37-61, 296-351).  The state is what the screen was
\* told last: the bag itself may be empty, as after an add that failed.
ButtonsMeanBag ==
    screen.buttons => screen.cardState = "notEmpty" /\ screen.curtain # "min"

\* The bag holds dishes of one chef as long as every add was made with the order
\* known to the check, and nobody cleared the bag (OverView.swift:127-132).
OneChefIfInformed ==
    ~blind /\ Undisturbed => \A i, j \in lines : ChefOf[i] = ChefOf[j]

\* As long as nobody clears the bag, a payment goes to the chef of the bag, however
\* late the listeners are (CardViewController.swift:229-233, DataService.swift:356).
\* After a clear, a listener of the items repeats the order that was cleared.
PaymentToBagsChef ==
    Undisturbed => \A payment \in paid : payment[1] = payment[2]

\* "Place Order" comes back, unless the document of the bag was not there or could not
\* be read, or the card lacks a field (DataService.swift:350-353, 368 return without
\* calling back).
ProceedComesBack ==
    proceed = "loading" ~>
        \/ proceed = "enabled"
        \/ \E p \in PlaceCall : /\ places[p].pc = "silent"
                                /\ places[p].card = "partial" \/ places[p].of = NoChef

\* The check of the chef learns of the bag: once the user is there, a bag that is not
\* empty reaches overView.order, unless it is cleared or changed elsewhere, was placed,
\* or the listeners of the order or of its items failed and the bag was not fetched
\* since (CardViewController.swift:150-169, DataService.swift:302-328).
CheckLearnsOfBag ==
    user /\ order # NoChef ~>
        \/ overOrder # NoChef
        \/ ~Undisturbed \/ ended \/ paid # {}
=============================================================================
