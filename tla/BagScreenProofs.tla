--------------------------- MODULE BagScreenProofs ---------------------------
(***************************************************************************)
(* What holds of the bag on the screen for any dishes, chefs, calls and    *)
(* gestures, and however often requests fail.                              *)
(***************************************************************************)
EXTENDS BagScreen, TLAPS

(* The screen: what SetState and MoveCurtain preserve.                     *)

\* The buttons are over a bag.
Tidy(s) == s.buttons => s.cardState = "notEmpty" /\ s.curtain # "min"

\* Every state of the card keeps the screen tidy (CardViewController.swift:37-61).
LEMMA SetStateTidy ==
    ASSUME NEW s \in Screen, NEW state \in CardState, Tidy(s)
    PROVE  SetState(s, state) \in Screen /\ Tidy(SetState(s, state))
BY DEF SetState, Screen, Tidy, CardState, Height

LEMMA AtHeightTidy ==
    ASSUME NEW s \in Screen, NEW height \in Height, Tidy(s)
    PROVE  AtHeight(s, height) \in Screen /\ Tidy(AtHeight(s, height))
BY DEF AtHeight, Screen, Tidy, CardState, Height

\* Every height of the curtain keeps the screen tidy (CardViewController.swift:296-351).
LEMMA MoveCurtainTidy ==
    ASSUME NEW s \in Screen, NEW height \in Height, Tidy(s)
    PROVE  MoveCurtain(s, height) \in Screen /\ Tidy(MoveCurtain(s, height))
<1>1. SetState(s, "notEmpty") \in Screen /\ Tidy(SetState(s, "notEmpty"))
  BY SetStateTidy DEF CardState
<1> QED
  BY <1>1, AtHeightTidy DEF MoveCurtain

-----------------------------------------------------------------------------
(* Types, and the buttons.                                                 *)

TInv == TypeOK /\ Tidy(screen)

LEMMA TInvInit == Init => TInv
<1> SUFFICES ASSUME Init PROVE TInv
  OBVIOUS
<1>1. \A i \in Item : ChefOf[i] \in Chef
  BY DEF Chef
<1>2. order \in Chef \cup {NoChef} /\ lines \subseteq Item
  BY <1>1 DEF Init
<1>3. screen \in Screen /\ Tidy(screen)
  BY DEF Init, Screen, Tidy, CardState, Height
<1>4. chosen \in Item /\ adds \in [AddCall -> [pc : {"idle", "sent", "added", "done", "failed"},
                                           item : Item]]
  BY DEF Init
<1>5. places \in [PlaceCall -> Place]
  BY DEF Init, Place
<1>6. view \in [order : Chef \cup {NoChef}, lines : SUBSET Item]
  BY <1>2 DEF Init
<1>7. changed \in BOOLEAN /\ user \in BOOLEAN /\ blind \in BOOLEAN /\ ended \in BOOLEAN
  BY DEF Init
<1>8. /\ outer \in Nat /\ outerDue \in 0 .. outer /\ userReplies \in Nat /\ cardReplies \in Nat
      /\ inner \subseteq Chef /\ innerDue \subseteq inner
      /\ listed \subseteq Item /\ extra \subseteq {"open", "clear", "elsewhere"}
      /\ paid \subseteq (Chef \cup {NoChef}) \X (Chef \cup {NoChef})
  BY DEF Init
<1>9. /\ card \in {"none", "partial", "full"} /\ proceed \in {"enabled", "loading"}
      /\ clear \in {"enabled", "alert", "list", "delete", "deleted", "stuck"}
      /\ shown \in Chef \cup {NoChef} /\ overOrder \in Chef \cup {NoChef}
  BY DEF Init
<1> QED
  BY <1>2, <1>3, <1>4, <1>5, <1>6, <1>7, <1>8, <1>9 DEF TInv, TypeOK

\* Every step of the screen, the listeners and the calls keeps the types, and the
\* buttons over a bag.
LEMMA TInvStep == TInv /\ [Next]_vars => TInv'
<1> SUFFICES ASSUME TInv, [Next]_vars PROVE TInv'
  OBVIOUS
<1> USE DEF TInv
<1>s. /\ \A state \in CardState : SetState(screen, state) \in Screen
                                /\ Tidy(SetState(screen, state))
      /\ \A height \in Height : MoveCurtain(screen, height) \in Screen
                              /\ Tidy(MoveCurtain(screen, height))
  BY SetStateTidy, MoveCurtainTidy DEF TypeOK
<1>c. \A i \in Item : ChefOf[i] \in Chef
  BY DEF Chef
<1>v. UNCHANGED vars => TInv'
  BY DEF TypeOK, Tidy, vars, bagVars, listenerVars, replyVars, screenVars, callVars, historyVars
<1> USE DEF bagVars, listenerVars, replyVars, screenVars, callVars, historyVars
<1>1. ASSUME Sync PROVE TInv'
  <2>1. Seen \in [order : Chef \cup {NoChef}, lines : SUBSET Item]
    BY DEF Seen, TypeOK
  <2>2. changed' \in BOOLEAN
    BY <1>1 DEF Sync
  <2> QED
    BY <1>1, <2>1, <2>2 DEF Sync, Notify, TypeOK, Tidy
<1>2. ASSUME OrderAnswer PROVE TInv'
  <2>1. screen' \in Screen /\ Tidy(screen)'
    BY <1>2, <1>s DEF OrderAnswer, TypeOK, Tidy, CardState
  <2> QED
    BY <1>2, <2>1 DEF OrderAnswer, TypeOK
<1>3. ASSUME OrderFails PROVE TInv'
  <2>1. screen' \in Screen /\ Tidy(screen)'
    BY <1>3, <1>s DEF OrderFails, TypeOK, Tidy, CardState
  <2> QED
    BY <1>3, <2>1 DEF OrderFails, TypeOK
<1>4. ASSUME ItemsAnswer PROVE TInv'
  <2>1. screen' \in Screen /\ Tidy(screen)'
    BY <1>4, <1>s DEF ItemsAnswer, TypeOK, Tidy, CardState
  <2> QED
    BY <1>4, <2>1 DEF ItemsAnswer, TypeOK
<1>5. ASSUME UserReply PROVE TInv'
  <2>0. user' \in BOOLEAN
    BY <1>5 DEF UserReply, TypeOK
  <2>1. userReplies' \in Nat /\ cardReplies' \in Nat
    BY <1>5 DEF UserReply, TypeOK
  <2>2. outer' \in Nat /\ outerDue' \in 0 .. outer' /\ shown' \in Chef \cup {NoChef}
    BY <1>5 DEF UserReply, FetchOrder, TypeOK
  <2>3. ended' \in BOOLEAN
    BY <1>5 DEF UserReply, FetchOrder, TypeOK
  <2> QED
    BY <1>5, <2>0, <2>1, <2>2, <2>3 DEF UserReply, FetchOrder, TypeOK, Tidy
<1>6. ASSUME CardReply PROVE TInv'
  BY <1>6 DEF CardReply, TypeOK, Tidy
<1>7. ASSUME Drag PROVE TInv'
  <2>1. screen' \in Screen /\ Tidy(screen)'
    BY <1>7, <1>s, GestureType DEF Drag, TypeOK, Tidy, Height
  <2> QED
    BY <1>7, <2>1 DEF Drag, TypeOK
<1>8. ASSUME OpenBag PROVE TInv'
  <2>1. screen' \in Screen /\ Tidy(screen)'
    BY <1>8, <1>s DEF OpenBag, TypeOK, Tidy, Height
  <2>2. user' \in BOOLEAN
    BY <1>8 DEF OpenBag
  <2>4. userReplies' \in Nat
    BY <1>8 DEF OpenBag, TypeOK
  <2>3. extra' \subseteq {"open", "clear", "elsewhere"}
    BY <1>8 DEF OpenBag, Extra, TypeOK
  <2> QED
    BY <1>8, <2>1, <2>2, <2>3, <2>4 DEF OpenBag, TypeOK
<1>9. ASSUME TapClear PROVE TInv'
  BY <1>9 DEF TapClear, TypeOK, Tidy
<1>10. ASSUME AnswerAlert PROVE TInv'
  <2>1. extra' \subseteq {"open", "clear", "elsewhere"}
    BY <1>10 DEF AnswerAlert, Extra, TypeOK
  <2> QED
    BY <1>10, <2>1 DEF AnswerAlert, TypeOK, Tidy
<1>11. ASSUME ListItems PROVE TInv'
  BY <1>11 DEF ListItems, Notify, TypeOK, Tidy
<1>12. ASSUME DeletesDone PROVE TInv'
  <2>1. changed' \in BOOLEAN
    BY <1>12 DEF DeletesDone, TypeOK
  <2>2. order' \in Chef \cup {NoChef} /\ lines' \subseteq Item
    BY <1>12 DEF DeletesDone, TypeOK
  <2> QED
    BY <1>12, <2>1, <2>2 DEF DeletesDone, TypeOK, Tidy
<1>13. ASSUME Cleared PROVE TInv'
  <2>1. screen' \in Screen /\ Tidy(screen)'
    BY <1>13, <1>s DEF Cleared, ForgetOrder, TypeOK, Tidy, CardState
  <2> QED
    BY <1>13, <2>1 DEF Cleared, ForgetOrder, TypeOK
<1>14. ASSUME Elsewhere PROVE TInv'
  BY <1>14, <1>c DEF Elsewhere, Extra, TypeOK, Tidy
<1>15. ASSUME NEW i \in Item, ChooseDish(i) PROVE TInv'
  <2>1. MoveCurtain(screen, "mid") \in Screen /\ Tidy(MoveCurtain(screen, "mid"))
    BY <1>s DEF Height
  <2>2. screen' \in Screen /\ Tidy(screen)'
    BY <1>15, <2>1, SetStateTidy DEF ChooseDish, Tidy, CardState
  <2> QED
    BY <1>15, <2>2 DEF ChooseDish, TypeOK
<1>16. ASSUME NEW a \in AddCall, TapAdd(a) PROVE TInv'
  <2>1. SetState(screen, "notEmpty") \in Screen /\ Tidy(SetState(screen, "notEmpty"))
    BY <1>s DEF CardState
  <2>2. screen' \in Screen /\ Tidy(screen)'
    BY <1>16, <2>1, MoveCurtainTidy DEF TapAdd, Tidy, Height
  <2>3. adds' \in [AddCall -> [pc : {"idle", "sent", "added", "done", "failed"}, item : Item]]
    <3>1. \/ adds' = [adds EXCEPT ![a] = [pc |-> "sent", item |-> chosen]]
          \/ UNCHANGED adds
      BY <1>16 DEF TapAdd
    <3> QED
      BY <3>1 DEF TypeOK
  <2>4. blind' \in BOOLEAN
    BY <1>16 DEF TapAdd, TypeOK
  <2> QED
    BY <1>16, <2>2, <2>3, <2>4 DEF TapAdd, TypeOK
<1>17. ASSUME NEW a \in AddCall, AddLands(a) PROVE TInv'
  BY <1>17, <1>c DEF AddLands, TypeOK, Tidy
<1>18. ASSUME NEW a \in AddCall, AddReturns(a) PROVE TInv'
  <2>1. outer' \in Nat /\ outerDue' \in 0 .. outer' /\ shown' \in Chef \cup {NoChef}
    BY <1>18 DEF AddReturns, FetchOrder, TypeOK
  <2>2. ended' \in BOOLEAN
    BY <1>18 DEF AddReturns, FetchOrder, TypeOK
  <2>3. adds' \in [AddCall -> [pc : {"idle", "sent", "added", "done", "failed"}, item : Item]]
    BY <1>18 DEF AddReturns, TypeOK
  <2> QED
    BY <1>18, <2>1, <2>2, <2>3 DEF AddReturns, FetchOrder, TypeOK, Tidy
<1>19. ASSUME NEW p \in PlaceCall, TapPlace(p) PROVE TInv'
  <2>1. places' \in [PlaceCall -> Place]
    BY <1>19 DEF TapPlace, Place, TypeOK
  <2> QED
    BY <1>19, <2>1 DEF TapPlace, ShowLoading, TypeOK, Tidy
<1>20. ASSUME NEW p \in PlaceCall, ReadBag(p) PROVE TInv'
  BY <1>20 DEF ReadBag, Place, TypeOK, Tidy
<1>21. ASSUME NEW p \in PlaceCall, Charge(p) PROVE TInv'
  BY <1>21 DEF Charge, Place, TypeOK, Tidy
<1>22. ASSUME NEW p \in PlaceCall, PlaceFailed(p) PROVE TInv'
  BY <1>22 DEF PlaceFailed, Done, Place, TypeOK, Tidy
<1>23. ASSUME NEW p \in PlaceCall, Placed(p) PROVE TInv'
  <2>1. screen' \in Screen /\ Tidy(screen)'
    BY <1>23, <1>s DEF Placed, ForgetOrder, TypeOK, Tidy, CardState
  <2> QED
    BY <1>23, <2>1 DEF Placed, ForgetOrder, Done, Place, TypeOK
<1>24. ASSUME ItemsFail PROVE TInv'
  <2>1. screen' \in Screen /\ Tidy(screen)'
    BY <1>24, <1>s DEF ItemsFail, TypeOK, Tidy, CardState
  <2> QED
    BY <1>24, <2>1 DEF ItemsFail, TypeOK
<1> QED
  BY <1>v, <1>1, <1>2, <1>3, <1>4, <1>5, <1>6, <1>7, <1>8, <1>9, <1>10, <1>11, <1>12, <1>13,
     <1>14, <1>15, <1>16, <1>17, <1>18, <1>19, <1>20, <1>21, <1>22, <1>23, <1>24
     DEF Next, Listeners, Replies, ClearOrder, PlaceOrder

LEMMA TInvHolds == Spec => []TInv
<1>1. Init => TInv
  BY TInvInit
<1>2. TInv /\ [Next]_vars => TInv'
  BY TInvStep
<1> QED
  BY <1>1, <1>2, PTL DEF Spec

\* The state of the screen has its types, whatever the user and the requests do.
THEOREM BagScreenTypes == Spec => []TypeOK
<1>1. TInv => TypeOK
  BY DEF TInv
<1> QED
  BY <1>1, TInvHolds, PTL

\* No order of answers and gestures leaves the buttons over a dish or over an empty
\* bag (CardViewController.swift:37-61, 296-351).
THEOREM ButtonsAreOverBag == Spec => []ButtonsMeanBag
<1>1. TInv => ButtonsMeanBag
  BY DEF TInv, Tidy, ButtonsMeanBag
<1> QED
  BY <1>1, TInvHolds, PTL

-----------------------------------------------------------------------------
(* One payment at a time.                                                  *)

LEMMA OnePlacementStep ==
    ASSUME TInv, OnePlacementAtATime, [Next]_vars
    PROVE  OnePlacementAtATime'
<1>1. CASE UNCHANGED <<places, proceed>>
  BY <1>1 DEF OnePlacementAtATime, UnderWay
<1>2. ASSUME NEW p \in PlaceCall, TapPlace(p) PROVE OnePlacementAtATime'
  BY <1>2 DEF TapPlace, ShowLoading, OnePlacementAtATime, UnderWay, TInv, TypeOK
<1>3. ASSUME NEW p \in PlaceCall, PlaceOrder(p) PROVE OnePlacementAtATime'
  BY <1>3 DEF PlaceOrder, ReadBag, Charge, PlaceFailed, Placed, Done, OnePlacementAtATime, UnderWay,
              TInv, TypeOK
<1> QED
  BY <1>1, <1>2, <1>3
     DEF Next, Listeners, Replies, ClearOrder, Sync, Notify, OrderAnswer, OrderFails, ItemsAnswer,
         ItemsFail, UserReply, CardReply, Drag, OpenBag, TapClear, AnswerAlert, ListItems, DeletesDone, Cleared,
         Elsewhere, ChooseDish, TapAdd, AddLands, AddReturns, vars, bagVars, listenerVars,
         replyVars, screenVars, callVars, historyVars

\* No second tap on "Place Order" pays while a payment is under way, whatever is
\* fetched, shown or hidden meanwhile (LoadingButton.swift:40-55,
\* CardViewController.swift:227-245).
THEOREM OnePlacement == Spec => []OnePlacementAtATime
<1>1. Init => OnePlacementAtATime
  BY DEF Init, OnePlacementAtATime, UnderWay
<1>2. TInv /\ OnePlacementAtATime /\ [Next]_vars => OnePlacementAtATime'
  BY OnePlacementStep
<1> QED
  BY <1>1, <1>2, TInvHolds, PTL DEF Spec

-----------------------------------------------------------------------------
(* The chef.                                                               *)

\* As long as nobody clears the bag, whatever the screen, its listeners and a
\* payment know of an order is the order of the bag.
KnownIsOrder ==
    /\ clear \in {"enabled", "alert", "stuck"}
    /\ {view.order, shown, overOrder} \subseteq {NoChef, order}
    /\ inner \subseteq {order}
    /\ \A p \in PlaceCall :
          /\ places[p].pc \in {"read", "charge"} => places[p].to = order /\ order # NoChef
          /\ places[p].pc = "charge" => places[p].of = order
    /\ \A payment \in paid : payment[1] = payment[2]

\* As long as every add was checked, the dishes in the bag are of its chef, and so
\* is a dish on its way; without an order, one dish at most is on its way.
AddsAgree ==
    /\ \A i \in lines : ChefOf[i] = order
    /\ order # NoChef => \A a \in InFlight : ChefOf[adds[a].item] = order
    /\ order = NoChef => \A a, b \in InFlight : a = b

ChefInv == Undisturbed => KnownIsOrder /\ (~blind => AddsAgree)

LEMMA ChefInvInit == Init => ChefInv
<1> SUFFICES ASSUME Init PROVE KnownIsOrder /\ AddsAgree
  BY DEF ChefInv
<1>1. KnownIsOrder
  BY DEF Init, KnownIsOrder
<1>2. AddsAgree
  BY DEF Init, AddsAgree, InFlight
<1> QED
  BY <1>1, <1>2

\* A step that leaves alone what the invariant speaks of.
LEMMA ChefInvKept ==
    ASSUME ChefInv,
           UNCHANGED <<order, lines, view, overOrder, adds, paid, blind>>,
           inner' \subseteq inner,
           extra \subseteq extra',
           clear' \in {"enabled", "alert", "stuck"} \/ clear' = clear,
           shown' \in {NoChef, shown},
           UNCHANGED places
    PROVE  ChefInv'
<1> SUFFICES ASSUME Undisturbed' PROVE KnownIsOrder' /\ (~blind' => AddsAgree')
  BY DEF ChefInv
<1>1. KnownIsOrder /\ (~blind => AddsAgree)
  BY DEF ChefInv, Undisturbed
<1>2. KnownIsOrder'
  BY <1>1 DEF KnownIsOrder
<1>3. AddsAgree => AddsAgree'
  BY DEF AddsAgree, InFlight
<1> QED
  BY <1>1, <1>2, <1>3

\* Every step keeps the chefs agreed, as long as nobody clears the bag.
LEMMA ChefInvStep ==
    ASSUME TInv, ChefInv, [Next]_vars
    PROVE  ChefInv'
<1> USE DEF bagVars, listenerVars, replyVars, screenVars, callVars, historyVars
<1>t. /\ inner \subseteq Chef /\ innerDue \subseteq inner /\ NoChef \notin Chef
      /\ adds \in [AddCall -> [pc : {"idle", "sent", "added", "done", "failed"}, item : Item]]
      /\ places \in [PlaceCall -> Place] /\ chosen \in Item /\ lines \subseteq Item
  BY ChefType DEF TInv, TypeOK, Chef
<1>k. UNCHANGED vars \/ OrderFails \/ ItemsFail \/ Replies \/ Drag \/ OpenBag \/ TapClear
         \/ (\E i \in Item : ChooseDish(i)) => ChefInv'
  BY ChefInvKept
     DEF vars, OrderFails, ItemsFail, Replies, UserReply, FetchOrder, CardReply, Drag, OpenBag, Extra,
         TapClear, ChooseDish
<1>d. AnswerAlert \/ ClearOrder \/ Elsewhere => ChefInv'
  <2>1. Elsewhere => ChefInv'
    BY DEF Elsewhere, Extra, ChefInv, Undisturbed
  <2>2. AnswerAlert => ChefInv'
    <3>1. CASE AnswerAlert /\ extra' = extra \cup {"clear"}
      BY <3>1 DEF ChefInv, Undisturbed
    <3>2. CASE AnswerAlert /\ clear' = "enabled" /\ UNCHANGED extra
      BY <3>2, ChefInvKept DEF AnswerAlert
    <3> QED
      BY <3>1, <3>2 DEF AnswerAlert, Extra
  <2>3. ClearOrder => ~Undisturbed /\ UNCHANGED extra
    BY DEF ClearOrder, ListItems, Notify, DeletesDone, Cleared, ChefInv, KnownIsOrder
  <2> QED
    BY <2>1, <2>2, <2>3 DEF ChefInv, Undisturbed
<1> SUFFICES ASSUME Undisturbed,
                    UNCHANGED extra,
                    \/ Sync \/ OrderAnswer \/ ItemsAnswer
                    \/ \E a \in AddCall : TapAdd(a) \/ AddLands(a) \/ AddReturns(a)
                    \/ \E p \in PlaceCall : TapPlace(p) \/ PlaceOrder(p)
             PROVE  KnownIsOrder' /\ (~blind' => AddsAgree')
  BY <1>k, <1>d
     DEF Next, Listeners, Sync, Notify, OrderAnswer, ItemsAnswer, TapAdd, AddLands, AddReturns,
         TapPlace, PlaceOrder, ReadBag, Charge, PlaceFailed, Placed, ForgetOrder, ChefInv, Undisturbed
<1>i. KnownIsOrder /\ (~blind => AddsAgree)
  BY DEF ChefInv
<1>1. CASE Sync
  <2>1. KnownIsOrder'
    BY <1>1, <1>i DEF Sync, Notify, Seen, KnownIsOrder
  <2> QED
    BY <1>1, <1>i, <2>1 DEF Sync, Notify, AddsAgree, InFlight
<1>2. CASE OrderAnswer
  <2>1. KnownIsOrder'
    BY <1>2, <1>i DEF OrderAnswer, KnownIsOrder
  <2> QED
    BY <1>2, <1>i, <2>1 DEF OrderAnswer, AddsAgree, InFlight
<1>3. CASE ItemsAnswer
  <2>1. KnownIsOrder'
    BY <1>3, <1>i, <1>t DEF ItemsAnswer, KnownIsOrder
  <2> QED
    BY <1>3, <1>i, <2>1 DEF ItemsAnswer, AddsAgree, InFlight
<1>4. ASSUME NEW a \in AddCall, TapAdd(a)
      PROVE  KnownIsOrder' /\ (~blind' => AddsAgree')
  <2>1. KnownIsOrder'
    BY <1>4, <1>i DEF TapAdd, KnownIsOrder
  <2>2. CASE UNCHANGED <<adds, blind>>
    BY <1>4, <1>i, <2>1, <2>2 DEF TapAdd, AddsAgree, InFlight
  <2>3. CASE /\ adds' = [adds EXCEPT ![a] = [pc |-> "sent", item |-> chosen]]
             /\ blind' = \/ blind
                         \/ overOrder = NoChef /\ (order # NoChef \/ InFlight # {})
    <3>1. InFlight' = InFlight \cup {a} /\ adds'[a].item = chosen
          /\ \A b \in InFlight : adds'[b] = adds[b]
      BY <1>4, <1>t, <2>3 DEF TapAdd, InFlight
    <3>2. ~blind' => ~blind /\ (overOrder # NoChef \/ (order = NoChef /\ InFlight = {}))
      BY <2>3
    <3>3. overOrder # NoChef => order = overOrder /\ ChefOf[chosen] = order
      BY <1>4, <1>i DEF TapAdd, ChefAgrees, KnownIsOrder
    <3>4. UNCHANGED <<order, lines>>
      BY <1>4 DEF TapAdd
    <3> QED
      BY <1>i, <2>1, <3>1, <3>2, <3>3, <3>4 DEF AddsAgree
  <2> QED
    BY <1>4, <2>2, <2>3 DEF TapAdd
<1>5. ASSUME NEW a \in AddCall, AddLands(a)
      PROVE  KnownIsOrder' /\ (~blind' => AddsAgree')
  <2>1. KnownIsOrder'
    BY <1>5, <1>i, <1>t DEF AddLands, KnownIsOrder
  <2>2. /\ a \in InFlight /\ InFlight' = InFlight \ {a}
        /\ \A b \in InFlight' : adds'[b].item = adds[b].item
    BY <1>5, <1>t DEF AddLands, InFlight
  <2>3. /\ order' = IF order = NoChef THEN ChefOf[adds[a].item] ELSE order
        /\ lines' = lines \cup {adds[a].item} /\ UNCHANGED blind
    BY <1>5 DEF AddLands
  <2>4. ASSUME AddsAgree, order = NoChef PROVE AddsAgree'
    <3>1. lines = {}
      BY <1>t, <2>4, ChefType DEF AddsAgree
    <3>2. InFlight' = {}
      BY <2>2, <2>4 DEF AddsAgree
    <3> QED
      BY <2>3, <2>4, <3>1, <3>2 DEF AddsAgree
  <2>5. ASSUME AddsAgree, order # NoChef PROVE AddsAgree'
    BY <2>2, <2>3, <2>5 DEF AddsAgree
  <2> QED
    BY <1>i, <2>1, <2>3, <2>4, <2>5
<1>6. ASSUME NEW a \in AddCall, AddReturns(a)
      PROVE  KnownIsOrder' /\ (~blind' => AddsAgree')
  <2>1. KnownIsOrder'
    BY <1>6, <1>i DEF AddReturns, FetchOrder, KnownIsOrder
  <2>2. /\ InFlight' \subseteq InFlight
        /\ \A b \in InFlight' : adds'[b].item = adds[b].item
    BY <1>6, <1>t DEF AddReturns, InFlight
  <2>3. UNCHANGED <<order, lines, blind>>
    BY <1>6 DEF AddReturns
  <2> QED
    BY <1>i, <2>1, <2>2, <2>3 DEF AddsAgree
<1>7. ASSUME NEW p \in PlaceCall, TapPlace(p) \/ PlaceOrder(p)
      PROVE  KnownIsOrder' /\ (~blind' => AddsAgree')
  <2>1. AddsAgree => AddsAgree'
    BY <1>7 DEF TapPlace, PlaceOrder, ReadBag, Charge, PlaceFailed, Placed, AddsAgree, InFlight
  <2>2. CASE TapPlace(p)
    BY <1>i, <1>t, <2>1, <2>2 DEF TapPlace, KnownIsOrder
  <2>3. CASE ReadBag(p)
    BY <1>i, <1>t, <2>1, <2>3 DEF ReadBag, KnownIsOrder, Place
  <2>4. CASE Charge(p)
    BY <1>i, <1>t, <2>1, <2>4 DEF Charge, KnownIsOrder, Place
  <2>5. CASE PlaceFailed(p) \/ Placed(p)
    BY <1>i, <1>t, <2>1, <2>5 DEF PlaceFailed, Placed, ForgetOrder, Done, KnownIsOrder
  <2> QED
    BY <1>7, <2>2, <2>3, <2>4, <2>5 DEF PlaceOrder
<1> QED
  BY <1>1, <1>2, <1>3, <1>4, <1>5, <1>6, <1>7

LEMMA ChefInvHolds == Spec => []ChefInv
<1>1. Init => ChefInv
  BY ChefInvInit
<1>2. TInv /\ ChefInv /\ [Next]_vars => ChefInv'
  BY ChefInvStep
<1> QED
  BY <1>1, <1>2, TInvHolds, PTL DEF Spec

\* The dishes in the bag are of one chef, if every add was checked against the bag
\* and nobody cleared it: for any number of adds and payments, and however late
\* or often the listeners answer (OverView.swift:127-132).
THEOREM OneChefPerBag == Spec => []OneChefIfInformed
<1>1. ChefInv => OneChefIfInformed
  BY DEF ChefInv, AddsAgree, OneChefIfInformed
<1> QED
  BY <1>1, ChefInvHolds, PTL

\* As long as nobody clears the bag, every payment goes to the chef of the bag it
\* pays for (CardViewController.swift:229-233, DataService.swift:356).
THEOREM PaymentsReachChef == Spec => []PaymentToBagsChef
<1>1. ChefInv => PaymentToBagsChef
  BY DEF ChefInv, KnownIsOrder, PaymentToBagsChef
<1> QED
  BY <1>1, ChefInvHolds, PTL
=============================================================================
