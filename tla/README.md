# Lidora in TLA+

Specifications, model-checking runs and proofs for the backend and the client of
Lidora, an app that sells home-cooked food. The code under `src/` has no README,
no tests and few comments; everything here is read from the code.

- `Functions/functions/index.js` (233 lines): the Cloud Functions that tie Firebase
  accounts and Firestore documents to Stripe. `motivator.js` repeats two of them and
  is loaded by nothing.
- `LidoraClient/Lidora/` (about 6300 lines of Swift): the iOS client. It writes
  Firestore through `Services/DataService.swift` and signs in through
  `Services/AuthService.swift`; the rest is screens.
- `LidoraClient/Pods/`: vendored libraries, the bulk of the repository. One part of
  them decides what the app's writes are worth: the write path of the Firestore client
  (`FirebaseFirestore/Firestore/core/src`), to which `DataService` hands almost every
  write without waiting for it.
- `LidoraChefs/`: the Xcode template of a second app, with nothing in it yet.

## 1. Inventory

### Backend

| Part | State | Operations | What makes it correct |
|---|---|---|---|
| Customer functions (`index.js:20-61, 122-134`) | `stripe_customers/{uid}` (`customer_id`, `setup_secret`), its `payment_methods`; at Stripe customers, SetupIntents, attached methods | `createStripeCustomer` on the creation of an account, `addPaymentMethodDetails` on a new method, `cleanupUser` on the deletion of an account | A document only names customers made for its account; the secret is of the same customer; a customer is never lost; a deleted account is cleaned up |
| Payment functions (`index.js:66-116`) | `stripe_customers/{uid}/payments/{pushId}`; at Stripe payment intents | `createStripePayment` on a new document, `confirmStripePayment` on an update | A document is charged at most once, to its owner; it says succeeded only when that is so; it is always answered |
| Error reporting (`index.js:137-184`) | none | `reportError`, `userFacingMessage` | Texts and log entries; not modelled |
| Notifications (`index.js`, `motivator.js`) | none | `appinstalled`, `appremoved` | One push message each; not modelled |

The functions never call each other. They meet in the documents (each a series of
reads and writes with awaits between them) and at Stripe. An event starts a
function at least once, in any instance; a function that throws is not retried; a
write that is not awaited (`index.js:114, 131`) may come late or never.

### Client

| Part | State | Operations | What makes it correct |
|---|---|---|---|
| Bag and checkout (`DataService.swift:239-392`) | `customers/{uid}/orders/{bag}`, its `items`; `customers/{uid}/payments` | `addItemToOrder` (a transaction), `fetchCurrentOrder` (two nested listeners), `clearOrder`, `placeOrder` and `completeCharge` | No addition is lost or made twice; order and items agree; the total adds up; the chef of the bag is paid |
| Prices (`Utils/Extension.swift:22-46`) | none | `roundNumber`, `percentage`, `serviceFee` | The parts add up to the total, to the cent |
| Payment methods (`DataService.swift:87-202`, `Settings/PaymentListViewController.swift`, `PaymentViewController.swift`) | `customers/{uid}/payment_methods` with a `primary` flag; the list on the screen, its selected row | add, update, choose, remove, list | One primary card; a tap concerns the card that was tapped |
| Orders, chefs, menus, likes (`DataService.swift:205-237, 395-472`; `Main/OrdersViewController.swift`, `MainViewController.swift`, `MenuViewController.swift`, `ChefCell.swift`) | lists on the screens; the documents `likes/{chef}` | fetches that append, segment switch, `adjustLikes` | A list shows its own segment, once; a tap is one like |
| Bag screen (`Main/CardViewController.swift`, `Views/OverView.swift`, `Views/LoadingButton.swift`, `Section/CardSection.swift`) | the order, its lines and the card as last seen; the button | show, add, clear, proceed, switch the card | What is shown is the bag; the button comes back; a bag is paid once |
| Registration (`AuthService.swift`, `Auth/*`) | the Firebase account, the user's document | create, save details, link the phone, log in | Whoever is let in gets home |
| Session (`Ressources/SceneDelegate.swift`, `FIRAuth.m`) | listeners, the one handle, root controller | `observeAuthorisedState`, log out | The home on the screen is that of whoever is signed in; a listener is called once |
| Write path (`sync_engine.cc`, `leveldb_mutation_queue.cc`, `remote_store.cc`, `write_stream.cc`, `stream.cc`) | mutation queues on disk, the write pipeline, the stream and its timers | write, fill, send, acknowledge, refuse, retry, restart, change the user | No write is lost or overtakes another; success is only told of what was applied; no assertion fails |
| Location, settings, toasts | permission, address, message | see PROJECT.json | |
| Models, cells, layout | none | parsing, layout | not modelled |

`DataService` and `AuthService` call Firestore, Firebase Auth and Stripe with
completion handlers; screens call them, keep copies of what came back, and act on
these copies. Several devices of one user share the documents and nothing else.

### What is hard

1. Functions interleave at every await over shared documents, beside deliveries of
   the same event and the client.
2. A reply may be lost although the call took effect (charge, commit).
3. One step of several throws, and nothing undoes the earlier ones.
4. Writes that nobody awaits, on both sides.
5. The client acts on what it saw (the chef, a row, the primary card), not on what is.
6. The bag's order and items are written together and deleted apart.
7. Client and functions use different collections (`customers`, `stripe_customers`).
8. A write path that survives lost connections, restarts of the app and changes of
   the user, whose responses carry no id of what they answer.
9. A listener of the session that does not know its own handle, and answers that
   arrive when another user, or nobody, is signed in.

`PROJECT.json` lists the hazards one by one with their lines and the properties that
stand against them; a hazard without one says why.

## 2. Plan

Money first, then what feeds it, then the screens: `CustomerDirectory`,
`StripePayments`, `StripeCustomers`, `Backend` (their composition), `Triggers`, `Fees`,
`AtomicBag`, `Bag`, `BagScreen`, `Cards`, `OrderedWrites`, `WritePipeline`, `Session`.
Each was checked by TLC as it grew, and what it shows proved afterwards, in a module
beside it.

Three abstract specifications say what a component promises: `CustomerDirectory` for
the customers' documents, `AtomicBag` for the bag, `OrderedWrites` for the writes of a
device. `Backend` puts the two groups of functions together; `MCScreens` joins the
instances of `Cards` and `Session`, which share nothing but the home screen.

Every invariant, action property and refinement that a passing run checks is also a
theorem. Liveness is left to TLC.

## 3. The modules

### CustomerDirectory (abstract)

What the payment functions may rely on. `field[u]` is what `data().customer_id` of
the user's document gives: a customer, `Undefined` (the document has no such field)
or `NoDoc`. `madeFor` and `deleted` are Stripe's side. Five operations: a customer is
created, stored in the document of the account it was made for, deleted; the
document is touched by a merge, or dropped.

### StripePayments

One document per element of `Push`, one invocation of `createStripePayment` per
delivery of its creation event. The invocation's counter names the await it is at:

| `pc` | Code | Actions |
|---|---|---|
| `waiting` | event not delivered | `Deliver` |
| `lookup` | `index.js:72` | `Lookup` |
| `pay` | `index.js:75-87` | `PayFresh`, `PayReplay`, `PayRefused` |
| `save` | `index.js:89` | `Save` |
| `report` | `index.js:94` | `Report` |

`ledger` is Stripe: an intent per invocation that made one, and the reply Stripe
keeps for its idempotency key. A request with a known key gets that reply again if
its parameters are the same, an error if not or if the first request is still being
handled. `Confirm` and `ConfirmRefused` are `confirmStripePayment`; `updates` are the
events it has to handle, `unawaited` the writes it started and left behind
(`index.js:114`). Everything of Stripe's, and the client's part of 3D Secure, is
marked external. Whatever Stripe refuses for what the request says (a declined card,
a bad amount, a missing method) is the one outcome `requires_payment_method`: the
code treats them alike. Four constants switch faults on: `Redelivered`,
`NetworkFails`, `WriteFails`, `Crashes`.

### StripeCustomers

The three account functions, one action per await in the same style: `creation`,
`addition` and `cleanup` are the invocations, `deletes` the deletes of
`index.js:131` that nobody awaits. `secret[u]` is the customer whose SetupIntent the
document holds; `attached[m]` the customer a method was attached to, by the client,
with that secret. The user (sign up, delete the account, add a method) is external.
`Fails` lets every await throw and every invocation stop.

### Backend

`StripePayments` extended with the state of `StripeCustomers`; the steps of the
latter take the place of the directory's. A payment document is only added by an
account that is live.

### Triggers

Documents by path, and the two patterns of the functions. It shows how client and
functions are wired, and nothing else.

### Fees, AtomicBag and Bag

`Fees` is `Double.serviceFee` in integer cents. The code rounds binary fractions to
cents; away from a tie this is the nearest cent, at a tie the binary value lies on
either side, so a fee is a set of one or two amounts.

`AtomicBag` is the promise: an item is added to the order and to its line in one
step, fees computed from the order at that step; removing takes a step per document.

`Bag` is the code. A call of `addItemToOrder` reads the order, reads the item, and
commits both writes if neither document changed, else the Firestore client runs the
block again (`transaction_runner.cc:97-106`; the code relies on it without naming
it). `told` records what the completion handler was told, which after a failed read
can be failure and then success.
`clearOrder` lists, deletes the items one by one without looking at the outcome, and
deletes the order. `placeOrder` takes the chef from the order on the screen and the
amounts from the document it reads afterwards, then asks for a token and writes the
payment. `silent` is a call that returned without its callback: an add of a dish that
lacks a field, or whose chef does, and the calls of an order without its data.

`mixed` is a history variable: an addition took effect while a clear was half way.

### BagScreen

What the user sees and may tap, and what that rests on. `Bag` has the amounts; here
an order is its chef and `lines` the dishes in it, changed by `AddLands` (`AddItem` of
`AtomicBag`, as `Bag` implements it) and by the deletes of a clear.

| State | Code |
|---|---|
| `screen` | `cardState` with its `didSet`, the curtain's height, whether `overView` and `proceedView` are hidden |
| `shown`, `card`, `user` | `self.order.first`, `self.card.first`, `self.user` |
| `overOrder`, `chosen` | `overView.order`, and the dish and chef `didSelect` put there |
| `proceed`, `clear` | the two buttons; `clear` also carries its one call |
| `outer`, `inner` | the listeners of `fetchCurrentOrder`: of the order, and of the items |
| `view`, `changed` | what the Firestore client of this device last told, and whether there is more |

No listener is ever removed by the app. Each fetch adds one of the order; each of its answers
adds one of the items, which keeps the order it was made with and repeats it at every
change. `inner` is the set of these orders: two listeners with the same order answer
alike. After a change every listener has one answer to come (`outerDue`,
`innerDue`); they come in any order. An error (`OrderFails`, `ItemsFail`) reaches every
listener of the query and is the last they hear; `ended` is a history variable that says
so until the bag is fetched again. `Touchable` says that nothing else is tapped
while the alert of a clear is open. The alert that asks for a card changes nothing
and is left out. `blind` is a history variable: an add was sent although the check
knew of no order and there was one, or another add was on its way.

### Cards

The payment methods of a user, on two screens. `docs` are the documents at the server;
`writes` those of the device that the server has not answered, in order, through
restarts (which is what `OrderedWrites` promises of them); `View` is what the device
reads: its own writes on top of the documents.

| State | Code |
|---|---|
| `list` | `PaymentListViewController`: `cards`, the rows as last `drawn`, the `selected` row, fetches under way (`loads`), the add button |
| `sheet` | the alert of `showAlert`, with the row and the card it captured |
| `form`, `save` | `PaymentViewController`, and the call its button made (`addPaymentMethod`); `save.here` while that form is still open, as the call of one that was left goes on |
| `down` | the app ended, at an index past the end (`"row"`) or a date it could not read (`"expiry"`) |

`setPrimaryPaymentMethod` is two writes (`PrimaryWrites`), neither awaited. The row that
`removePaymentMethod`'s callback takes out is the number captured before the delete was
sent; `DropRow` and `WriteAnsweredTooLate` are its two ends. The history variable `past`
keeps what the properties except: a choice from a list that did not have the primary
card selected, a write that was refused, another device. `list.fresh` says that the list
was told of everything since it was fetched.

### OrderedWrites and WritePipeline

`OrderedWrites` is the promise: every user has a durable line of writes; the server
applies the line of the signed-in user from its head; a disturbance sets the `cursor`
back to the head, and only the head leaves the line, applied or given up with an error.

`WritePipeline` is the client. An action is one task of its worker queue:

| Action | Code |
|---|---|
| the application's write | `SyncEngine::WriteMutations`, `LocalStore`, the queue's `AddMutationBatch` with `LoadNextBatchId` |
| filling | `RemoteStore::FillWritePipeline`, `AddToWritePipeline`, `StartWriteStream` |
| the stream | `Stream::Start`, the token, the handshake, `Stream::Close`, backoff, the idle timer; `WriteStream`'s `handshake_complete_` |
| answers | `OnWriteStreamMutationResult`, `SyncEngine::HandleSuccessfulWrite`, the removal of the batch |
| errors | `OnWriteStreamClose`, `HandleHandshakeError`, `HandleWriteError`, `HandleRejectedWrite` |
| around it | `EnableNetwork`, `DisableNetwork`, `OnConnectivityChange`, `HandleCredentialChange`, the process that ends |

The connection is external: `sent`, `replies` and `refusal` are what it carries, and a
broken one drops all three. `AssertionsHold` collects the `HARD_ASSERT`s on the way.

### Session

`auth` is who is signed in, kept through restarts; `accounts` and `documents` what the
servers have. `main` is the main queue: the first call of a listener that was added, or
a change of the session, which tells the listeners one after the other (`ChangeTold`).
`listeners` has one place per observation, `handle` is the one `SceneDelegate` knows.

| Action | Code |
|---|---|
| `Connect`, `Observe` | `scene(_:willConnectTo:)`, `observeAuthorisedState` and `addAuthStateDidChangeListener` |
| `FirstCall`, `ChangeTold`, `CallListener` | the listener: it removes the latest handle, installs the welcome screen or fetches the user's document |
| `HomeFetched` | `fetchUser` of the listener: the home becomes the root |
| `Open`, `Leave`, `Type`, `LogIn`, `Register`, `EnterCode`, `Save`, `LogOut` | the taps |
| `SignInAnswered`, `LoginFetched`, `CreateAnswered`, `DetailsAnswered`, `LinkAnswered` | `AuthService` and the screens' callbacks |
| `StartAgain`, `AppEnds` | the process ends, with what it waited for done at the servers or not |

`lapses` is a history variable: an observation made `"twice"`, an attempt that
`"crossed"` that of another user, a fetch that `"failed"`.

### MC modules

Each `MC` module names the small sets its cfg chooses among. Four of them also narrow
the next-state relation, so that one run reaches every action within its time:
`MCStripeCustomers` (`TwoAccountsNext`), `MCBag` (`CallsNext`), `MCBagScreen`
(`ScreenNext`) and `MCScreens` (`ScreensNext`); see Bounds.

Operators introduced by "A slip" in a comment are plausible mistakes in the
code they stand beside. No specification uses them: each is what one property is
tried against, by putting it in the place of the correct definition.

## 4. The runs

| Run | What it shows |
|---|---|
| `payments_faults` | One document, two deliveries, two accounts with two customers that come and go, every fault on: `TypeOK`, `AtMostOneCharge`, `DocNeverAhead`, `ChargedToOwner` |
| `payments_reliable` | Two accounts, one payment each, no faults, one delivery: `ErrorMeansUncharged`, `SuccessSticks`, and under fairness `Answered`, `Reconfirmed` |
| `customers_faults` | Two accounts; of one every event twice, any await may throw, the other is created beside it: the functions implement `CustomerDirectory` (`DirectorySpec`); `SecretOfOwnCustomer` |
| `customers_reliable` | Two accounts with a method each, no faults: `NoForgottenCustomer`, and under fairness `SettledAccountsAreCleaned` |
| `customers_race` (violation) | An account deleted while its creation is under way is never cleaned up |
| `backend_composed` | The functions together, each account function step by step, with throws: `CustomersInUseWereStored`, `DeletedBeforeDropped` |
| `backend_cleanup` (violation) | A finished cleanup leaves the payment documents |
| `triggers` (violation) | The client's documents start no function |
| `bag` | Two adds (of any item, one or two pieces) with two clears, or a clear and a placed order, or a clear and failing requests and lost replies: `BagHoldsWhatWasAdded`, `TotalIsSumOfParts`, `QuantityAgrees`, `BagSpec` (additions are atomic: it implements `AtomicBag`), and under fairness `CallsEnd` |
| `bag_screen` | One add, failing requests, and two placed orders, or the bag cleared or used by another device, or listeners that fail and the bag opened again: `ButtonsMeanBag`, `OneChefIfInformed`, `PaymentToBagsChef`, `OnePlacementAtATime`, and under fairness `ProceedComesBack`, `CheckLearnsOfBag` |
| `client_writes` | Three writes of two users through three disturbances: `AssertionsHold`, `ResponsesMatchPipeline`, `SuccessMeansApplied`, `NoWriteLost`, `SuccessIsFinal`, the refinement of `OrderedWrites` (`WritesSpec`), and under fairness `EverythingIsSent` |
| `screens` | One user at home with up to three cards: `OnePrimaryIfSeen`, `ChosenIsPrimary`, `ListIsCollection`, `SaveIsOwed`, and under fairness `SaveComesBack`; or two accounts that register, log in and log out: `HomeIsOfSession`, `NoListenerStays`, and under fairness `LetInMeansHome` |

`CHECK_DEADLOCK FALSE` is set for `StripeCustomers`, `Backend`, `Bag`, `BagScreen`,
`WritePipeline` and `Screens`: accounts, documents, deliveries, calls, writes and
disturbances are finitely many, and the system rests when all are handled.

### Bounds, and why they are enough

- `MaxDeliveries = 2`: the second delivery is the one that races, replays a key or
  writes late; a third does to the second what the second did to the first. The
  proofs hold for any number.
- One document in the fault run: two documents share only the customer document,
  which the directory changes anyhow. The reliable run has two.
- Two accounts where it matters whose customer is used, in `payments_faults` and
  `customers_faults`. In the latter the second one is only created, once and without a
  throw: it is there for its customer and its document, at any moment of
  what happens to the first. Stripe's ids are interchangeable (`AnyCustomer`); the run
  has no liveness property, which symmetry could spoil.
- Two customers: the one a document names, and the one another delivery or the other
  account made. With both used up no further customer is made.
- `AccountDeliveries = 1` in `backend_composed` keeps its size; double deliveries to
  the account functions are in `customers_faults`. `DeletedBeforeDropped` needs it.
- Two adds, two clears: a conflict needs two adds; two clears make one clear's list
  stale. Quantities of one and two tell a sum from a count. $5.00 is a tie of
  Stripe's fee and $12.45 one of the platform's. `CallsNext` of `MCBag` keeps the
  second clear, the placed order and the failing requests apart (with failures single
  pieces are added): any two of them together only multiply the states, as each meets
  the adds and the first clear, which share the documents.
- `Retries = 1` instead of the client's 5 (`transaction_runner.cc:35`): one attempt
  that fails and one that may be the last. The proofs hold for any number.
- The screen: a bag that is empty or holds a dish, and one add, make a bag of two
  chefs possible; two placed orders make two payments. `MaxExtra = 1` lets one of
  opening, clearing and the other device happen, at any moment, instead of placing
  orders; listeners end with errors when no order is placed, and before or after the bag
  is opened (`ScreenNext`). The curtain goes to `max`: `mid` shows and hides what `max`
  does, `hide` nothing. The dishes may change places, so one of them is chosen first. The proofs
  need none of these bounds.
- Writes: two users are needed for a queue that waits while another is sent, three
  writes for one that does not fit into a pipeline of two, three disturbances for one
  that hits the recovery from another. The proofs hold for any numbers.
- Cards: two that may be there and one that may be added: the old primary card, the
  new one, and one beside them. One fetch and three writes of the device at a time (a
  choice is two). One thing out of the ordinary per behaviour: a tap that ends the app,
  a refused write, another device, or a new card; beside an open form at most one write;
  nothing else beside a form that was opened while the call of one that was left is under
  way, and no second call until that one ended (`SaveCard`).
  The list can also be fetched twice at a time in the code, which draws every card
  twice; `fresh` excepts that, so `MaxLoads = 1` only saves states.
- Session: two accounts, since what one user does to another's screens needs two; two
  listeners, since the second is the one whose handle is known; two tasks and two
  requests under way when a tap adds one. One restart, one doubled observation or one
  failed fetch per behaviour. Behaviours end where attempts of two users cross: the
  properties say nothing from there on. The proofs need none of these bounds.

### Fairness, and why the code justifies it

- The platform delivers every event, and an invocation that started goes on until it
  returns or throws: weak fairness of each invocation. A function is one sequential
  process, so its steps stay enabled until taken.
- The client's SDK answers every request, with a result or an error: weak fairness of
  each call that was started.
- Listeners are told of changes and their answers are handled on the main queue: weak
  fairness of `Sync`, `OrderAnswer`, `ItemsAnswer` and of the replies.
- The worker queue runs its tasks, connections are made or fail, the server answers what
  reached it, timers elapse, and a network that was switched off is switched on again
  (the application does both): weak fairness of these tasks in `WritePipeline`. None for
  disturbances, which are finitely many by `MaxFaults`.
- Stripe and the server answer the form of a card, and its message is shown for 2.5
  seconds and no longer: weak fairness of the answers in `Cards`.
- The app is connected to its window, the main queue runs, and a fetched document or an
  error comes back: weak fairness of `Connect`, `MainQueue`, `HomeFetched` and
  `LoginFetched` in `Session`.
- None for the user (who need not finish 3D Secure), for clients that start calls,
  for faults, nor for writes nobody awaits: `index.js:114` promises nothing.

### What the runs say of the code

The three violations are disagreements between a comment and the code, listed under
"findings": the cleanup that can miss a customer still being made, the payments that
stay behind, and the collections that do not meet. The last one means that the client
as it is never reaches the functions of `StripePayments` and `addPaymentMethodDetails`;
these are specified with the documents their own comments speak of.

Some properties hold under conditions the code does not establish, and their comments
say which. Without these the model shows: a lost reply after a charge puts an error on
a paid document; a call that throws after `customers.create` forgets the customer; two
deliveries of an account's creation leave a secret and a customer that differ; a lost
reply of a commit adds the item twice. None contradicts anything the repository says.

Of the screen the model shows what its properties have to except. The bag's document
stays after it was placed while the check of the chef is reset, so a dish of another
chef can be added ("You can't order from two different chefs.", `OverView.swift:129`,
is then not said); the same before the first answer. After a clear an old listener of
the items repeats the cleared order, and a payment may go to its chef. An answer of a
listener takes the page of a dish away. The clear button spins for good when it is
tapped with no order on the screen, the proceed button when the bag is gone or cannot
be read, or the card lacks a field. A listener that got an error stays silent until the
bag is opened again. An add of a dish that lacks a field is dropped without a word.

Of the cards: two taps in one list leave two primary cards, since the selection stays
with the first; adding a card makes the old primary one unprimary and no other primary;
two removals that overlap end the app, or take out the row of a card that is still
there; a card that expires in a month of two digits cannot be edited, and Save with a
text that is no date ends the app (`SaveNoDate`); a form that does not validate leaves
the button spinning, and the cvc of the card is such a form (`SaveReturns`).

Of the writes: a write may be applied twice, when its response is lost; it is reported
as an error only when the server refused it, which it may do to one it had applied
before. Whoever was told of success can rely on it.

Of the session: an account whose registration stopped half way cannot register again,
spins at login and meets an empty window at the next start; two taps on Save leave a
listener that installs root controllers at every later change of the session; the
answer of one user's login, arriving after another one's, shows the home of either; a
login that is pulled down ends the app when it succeeds; after that the app starts
with the user signed in, and gets her home.

## 5. The proofs

Checked by TLAPS for all values of the constants, under the ASSUMEs of the modules
(types of the constants, that marks such as `NoDoc` and `None` are not customers, and
that there are finitely many dishes, `ItemsFinite`, and cards, `CardsFinite`: a sum, or
the ids in their order, need that; calls, writes and choices may be any number).

- **Payments** (`BackendProofs`, first part). `PaymentsInv` is inductive. `AtMostOneCharge`
  alone is not: it follows from `OneIntentPerPush` (an intent is made only when no
  invocation of the document holds one, since the key is the push id). `DocNeverAhead`
  speaks of the document, which is written from three places: what an invocation is
  about to save (`LocalsAreOwn`), what a write in flight carries (`WritesAreOwn`) and
  what the document already holds (`DocsAreOwn`) must all point to an intent of the
  same document, and an intent answered as succeeded must stay succeeded.
  `ChargedToOwner` needs that customers do not change hands: `DirectoryStep` and
  `MadeForIsStable`. Two more theorems assume what the run `payments_reliable` has
  (`Reliable`: one delivery, a network that answers, writes that arrive) and need that
  an invocation has no intent before its call (`MadeInTime`), that an answer in the
  document is the last word of its only invocation (`DocsFollow`) and that a write in
  flight carries what the intent still is (`WritesAreCurrent`). Theorems: `PaymentsTypeCorrect`,
  `NoDoubleCharge`, `DocumentsNeverAhead`, `ChargesGoToOwners`, `ErrorsAreFree`,
  `SuccessesStick`.
- **Customers** (`StripeCustomersProofs`, `CustomerDirectoryProofs`). `CustomersInv` adds
  to the directory's invariant that every customer an invocation, a method or a secret
  carries was made for its account. `CustomersImplementDirectory` uses it: a
  `StoreDocument` is a `StoreCustomer` only because the invocation's customer is the
  account's. That nobody is forgotten holds under `Reliable` only (one delivery, no
  failing call) and needs that an account gets one customer (`OneCustomerPerAccount`)
  and that a cleanup drops the document after the deletion (`DeletedBeforeListed`).
  Theorems: `DirectoryOwnCustomer`, `SecretsAreOwn`, `CustomersImplementDirectory`,
  `NobodyIsForgotten`.
- **Bag** (`BagProofs`). `BagInv` is `TypeOK` with "an order that exists is the sum of its
  parts and its delivery fee is the fixed one": the second half is what an update, which
  leaves the fee alone, relies on. `BagImplementsAtomicBag` maps `Commit` to `AddItem`
  (the reads are current, so what was computed from them is computed from the order
  itself), `DeleteItem` to `RemoveItem`, `DeleteOrder` to `RemoveOrder`, everything else
  to a stutter. For the sums, `QuantityInv`: an addition carries the quantities it read,
  so while what it read is current, both grow by the same; and while a clear is half way,
  the items that are still there are on its list, so that none is left when it deletes
  the order. `HoldsInv`: an addition that was told of success has its quantity
  in its item once and is not run again, and those told are finitely many at any time.
  Theorems: `BagTypeCorrect`, `TotalAddsUp`, `QuantityIsItems`, `BagHolds`,
  `BagImplementsAtomicBag`.
- **Bag screen** (`BagScreenProofs`). `TInv` is `TypeOK` with `Tidy`, which `SetState` and
  `AtHeight` preserve separately. `OnePlacementAtATime` is inductive on top of it.
  The two properties of the chef need `ChefInv`: as long as nobody clears the bag,
  everything that was ever told or stored of an order (`view`, the listeners, the
  screen, the check, a payment under way) is nothing or the order of the bag
  (`KnownIsOrder`), and while every add was checked, the dishes in the bag and the one
  on its way are of its chef (`AddsAgree`); without an order at most one is on its way,
  or two could land with different chefs. Theorems: `BagScreenTypes`,
  `ButtonsAreOverBag`, `OnePlacement`, `OneChefPerBag`, `PaymentsReachChef`.
- **Writes** (`WritePipelineProofs`). The inductive invariant relates the five places where
  a batch can be: the pipeline is a run of consecutive batches of the user's queue, from
  its head; `replies` and `sent` together are the part of it that is on the wire;
  callbacks, ids and the writes reported belong to each other although ids are given
  again after a restart. From this follow the assertions, that a response is that of
  the oldest batch, and the three properties of success and loss.
  `ClientImplementsLines` maps a user's queue to the line and what the server has
  applied of the pipeline to the cursor. Theorems: `WritesTypeCorrect`,
  `ClientAssertionsHold`, `ResponsesAreForTheOldest`, `WritesAreKept`,
  `WritesArriveInOrder`, `SuccessIsTrue`, `SuccessIsNotUndone`, `ClientImplementsLines`.
- **Session** (`SessionProofs`). Neither property is inductive. For the home, `OneUser`: as
  long as no attempts crossed, all requests under way are of one user, who is signed in
  once one was accepted or a change waits in the main queue; so a home that arrives late
  is still hers. For the listeners, `OneListener`: whoever observes has the handle and
  still has its first call to come, so that removing the handle removes the caller
  itself. Both rest on `StartInv`: before the window is connected nothing is under way.
  Theorems: `SessionTypes`, `HomesBelong`, `ListenersGo`.
- **Cards** (`CardsProofs`). What the device sees is a fold of any number of writes over
  the documents. `AfterSteps` says that it comes about write by write, `AfterJoin` and
  `AfterTail` that writes join at the end and may be done at the head, `AfterAlike` that
  their callbacks do not matter, `WriteEffect` what one of them does. Then each property has
  its invariant on top of the types (`ScreenInv`). `ChosenIsPrimary` is about the documents
  once the writes are sent; what is inductive is that the chosen card is primary in the
  *view* (`ChosenInv`), which doing a write does not change. `OnePrimaryIfSeen` is about the
  server at one moment; what is inductive is that at most one card is primary after each
  first part of the writes on their way (`OneInv`), as any of them may be what the server
  has done; an unset works only on a document that is there, so a primary card has to be
  (`PrimaryIsThere`). `ListIsCollection` is about a list no removal is changing; `ListInv`
  goes through removals (`Fits`): the rows are the cards in the view and the one that is
  about to be taken out, whose row number is still its own. Theorems: `CardsTypeCorrect`,
  `OnePrimary`, `ChosenBecomesPrimary`, `ListShowsCollection`, `SaveAlwaysOwed`. The last
  (`SaveIsOwed`) is what fairness builds on for `SaveComesBack`:
  while the spinner turns for a form that was accepted, exactly one answer is on its way;
  none is lost and none comes twice. Its invariant `OwedInv` says that a call of the form
  that waits for a write has exactly one on its way, of the kind it waits for, and that no
  other call has any.
- **Fees** (in `BagProofs`). Bounds of each fee, and `SplittingCostsMore`: two additions
  cost at least 65 cents more than one of the same amount, as an update charges fees on
  the total of the order, fees and delivery included (`DataService.swift:260`).
- **Backend** (`BackendProofs`, second part). The lemma `BackendIsPayments` puts the two
  together: the account functions, instantiated with their proofs, take steps of the directory
  (`NextImplements`), so that a step of the backend is one of `StripePayments`, and what
  is proved there holds of all the functions: `BackendChargesOnce`. `CustomersInUse`
  needs that a document only ever names a customer whose creation is done
  (`FieldIsStored`), and that done creations stay. `DocumentsDropLast` assumes that the
  events of an account come once: then the customer a cleanup deleted is the only one
  of the account (`OneCustomerPerAccount`), wherever a function throws.

Sums and folds. The induction theorems of the library take the formula as a parameter,
which the provers cannot instantiate. `BagProofs` and `CardsProofs` argue instead from
the least counterexample, which is first-order: a set of numbers that is not empty has
a least member (`LeastNumber`), and of the subsets of a finite set that are in some set
one has no smaller one in it (`LeastSubset`), both from well-foundedness (`WFMin`). That a
fold has a value at all is shown the same way (`AddsUpExists`, `AppliesExists`): the
functions that compute it for up to `n` members exist for every `n`. `LastFirst`, the ids in
descending order, is defined by how many are larger, and `LastFirstLists` shows that
this lists each once.

Only model-checked: what must eventually happen (`Answered`, `Reconfirmed`,
`SettledAccountsAreCleaned`, `CallsEnd`, `ProceedComesBack`, `CheckLearnsOfBag`,
`EverythingIsSent`, `SaveComesBack`, `LetInMeansHome`). These need fairness, and with it
`ENABLED`, which is out of the prover's reach.

## 6. Not modelled

**Parts of the app.** The orders screen appends what its two fetches bring to one list and
guards against nothing; likes are read and then written; both hazards are listed, and
nothing in the repository says what they should keep. Toasts, texts, logs, layout,
parsing and notifications change no state. Of the location the search of an address
is MapKit's; of the settings only logging out changes anything. Login by phone is
called from no screen; the switch between the two forms of the welcome screen is
`Leave` and `Open`. `reportError` writes a log entry. `LidoraChefs` is empty.

**Pods.** Everything but the write path, the retry rule of transactions and how the
session tells its listeners (`FIRAuth.m`), which are the parts the app's own promises
rest on. Of the write path: stream tokens are abstracted (a connection that is new forgets what the old one carried); the server does
not end a stream with success and sends no malformed responses; `Terminate` and
`WaitForPendingWrites`, which the app does not call, are left out; tasks of the worker
queue that are pending together may run in any order where the code has them FIFO,
which adds behaviours. The watch stream and the merging of documents are not modelled.

**Reads.** The cache of the Firestore client: a `getDocument` outside a transaction may
answer from the cache when the device is offline, and a listener may be told of a change
before the server has accepted it (`Seen` has this for the deletes of a clear, `View`
for the cards).

**In the modelled parts.** What the bag's lists show: lines, quantities, labels;
`BagScreen` keeps the first order, which is the one that acts. In `Bag` a call of
`placeOrder` starts from the order as it is; `BagScreen` has the order the screen holds.
A failed `getDocuments` in `clearOrder` (`DataService.swift:334` takes the snapshot by
force) ends the app and is left out. In `Cards` the text of an expiry date is a choice
(`SaveNoDate`), and documents carry their details from the start or never. In `Session`
the listeners are told in the order of their places, back navigation is `Leave`, and the
token of the session changes with the user only.
