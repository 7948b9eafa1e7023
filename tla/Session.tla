------------------------------- MODULE Session -------------------------------
(***************************************************************************)
(* Who is signed in and what the window shows, in src/LidoraClient/Lidora: *)
(* SceneDelegate's observation of the session, which installs the root     *)
(* controller; the login of LoginViewController and AuthService; the       *)
(* registration over UsernameViewController, CodeVerificationViewController*)
(* and LocationViewController; logging out in SettingsViewController.      *)
(*                                                                         *)
(* A change of the session is posted on the main queue, as is the first    *)
(* call of a listener that was added (FIRAuth.m); answers of the network   *)
(* come in any order.  Whoever is signed in is an account, or None.        *)
(***************************************************************************)
EXTENDS Naturals, Sequences, FiniteSets

CONSTANTS Account,
          None,
          MaxListeners,  \* bound: observations at a time
          MaxTasks,      \* bound: tasks of the main queue when a tap or an answer adds one
          MaxCalls,      \* bound: requests under way when a tap adds one
          MaxRestarts    \* bound: how often the app ends

ASSUME SessionBounds ==
    MaxListeners \in Nat \ {0} /\ {MaxTasks, MaxCalls, MaxRestarts} \subseteq Nat
ASSUME NoneIsNobody == None \notin Account
ASSUME AccountsAreNoScreens == {"nothing", "welcome"} \cap Account = {}

VARIABLES auth,       \* Auth.auth().currentUser, kept through restarts
          accounts,   \* the accounts there are
          documents,  \* accounts whose customers/{uid} has data
          main,       \* tasks of the main queue
          listeners,  \* SceneDelegate's, a free place where there is none
          handle,     \* the one whose handle SceneDelegate has
          calls,      \* requests under way, and whether the screen that made them is there
          root,       \* the root controller: "nothing", "welcome", or the home of a user
          cover,      \* the screen presented over it, and its button
          restarts,
          lapses      \* history: observations made "twice", attempts that "crossed" those
                      \* of another user, fetches that "failed"

sessionVars == <<auth, accounts, documents, main, listeners, handle, calls, root, cover,
                 restarts, lapses>>

Place == 1 .. MaxListeners

\* The first call of a listener, or a change, with the listener that is told next.
Task == [kind : {"first", "posted"}, listener : Place]

\* A listener is told of the first user it meets, and then of another one.
Listener == [observing : BOOLEAN, first : BOOLEAN, previous : Account \cup {None}]
Free == [observing |-> FALSE, first |-> FALSE, previous |-> None]
Fresh == [observing |-> TRUE, first |-> TRUE, previous |-> None]
Request == [kind : {"signIn", "create", "details", "link", "fetchLogin", "fetchHome"},
            user : Account, shown : BOOLEAN]

Show(screen) == [screen |-> screen, button |-> "enabled"]
Uncovered == Show("none")

SessionTypeOK ==
    /\ auth \in Account \cup {None}
    /\ accounts \subseteq Account /\ documents \subseteq Account
    /\ main \in Seq(Task)
    /\ listeners \in [Place -> Listener] /\ handle \in 0 .. MaxListeners
    /\ calls \subseteq Request
    /\ root \in Account \cup {"nothing", "welcome"}
    /\ cover \in [screen : {"none", "login", "name", "code", "place"},
                  button : {"enabled", "loading"}]
    /\ restarts \in 0 .. MaxRestarts
    /\ lapses \subseteq {"twice", "crossed", "failed"}

\* The app is started; some have registered before, one of them may be signed in.
SessionInit ==
    /\ accounts \in SUBSET Account /\ documents = accounts
    /\ auth \in accounts \cup {None}
    /\ main = <<>> /\ listeners = [l \in Place |-> Free] /\ handle = 0 /\ calls = {}
    /\ root = "nothing" /\ cover = Uncovered
    /\ restarts = 0 /\ lapses = {}

On(kind, l) == [kind |-> kind, listener |-> l]
Ask(kind, u) == [kind |-> kind, user |-> u, shown |-> TRUE]

FirstPending == \E i \in DOMAIN main : main[i].kind = "first"

\* The session is about to become u's while somebody else's is on its way.
Crossing(u) ==
    IF (\E call \in calls : call.user # u) \/ (main # <<>> /\ auth # u)
    THEN lapses \cup {"crossed"} ELSE lapses

\* The session is observed while an earlier observation was not yet told.
Twice == IF FirstPending THEN lapses \cup {"twice"} ELSE lapses

-----------------------------------------------------------------------------
(* SceneDelegate.observeAuthorisedState.                                   *)

\* Adds a listener, whose first call is a task.
Observe ==
    \E l \in Place :
        /\ listeners[l] = Free /\ \A k \in 1 .. l - 1 : listeners[k] # Free
        /\ listeners' = [listeners EXCEPT ![l] = Fresh]
        /\ handle' = l
        /\ main' = Append(main, On("first", l))

\* scene(_:willConnectTo:)
Connect ==
    /\ root = "nothing" /\ handle = 0
    /\ Observe
    /\ UNCHANGED <<auth, accounts, documents, calls, root, cover, restarts, lapses>>

\* A slip: the handle is not removed.
CalledAndStays(l) ==
    [listeners EXCEPT ![l] = [observing |-> @.observing, first |-> FALSE, previous |-> auth]]

\* A listener removes the latest handle, whichever listener it is itself; a removed one
\* is called once more for a call that is already a task.
Called(l) ==
    [k \in Place |->
        [observing |-> listeners[k].observing /\ k # handle,
         first |-> listeners[k].first /\ k # l,
         previous |-> IF k = l THEN auth ELSE listeners[k].previous]]

\* A listener nobody calls any more leaves its place free.
Remaining(them) ==
    [l \in Place |->
        IF them[l].observing \/ \E i \in 2 .. Len(main) : main[i] = On("first", l)
        THEN them[l] ELSE Free]

\* FIRAuth tells a listener of the first user and of every other one; it installs
\* the welcome screen or asks for the user's document.
CallListener(l) ==
    IF listeners[l].first \/ listeners[l].previous # auth
    THEN /\ IF auth = None
            THEN /\ root' = "welcome" /\ cover' = Uncovered
                 /\ UNCHANGED calls
            ELSE /\ calls' = calls \cup {Ask("fetchHome", auth)}
                 /\ UNCHANGED <<root, cover>>
         /\ listeners' = Remaining(Called(l))
    ELSE /\ listeners' = Remaining(listeners)
         /\ UNCHANGED <<calls, root, cover>>

FirstCall ==
    /\ main # <<>> /\ Head(main).kind = "first"
    /\ CallListener(Head(main).listener)
    /\ main' = Tail(main)
    /\ UNCHANGED <<auth, accounts, documents, handle, restarts, lapses>>

\* The listeners that observe are called one after the other.
ChangeTold ==
    /\ main # <<>> /\ Head(main).kind = "posted"
    /\ LET l == Head(main).listener IN
       /\ IF listeners[l].observing
          THEN CallListener(l)
          ELSE listeners' = Remaining(listeners) /\ UNCHANGED <<calls, root, cover>>
       /\ main' = (IF l < MaxListeners THEN <<On("posted", l + 1)>> ELSE <<>>) \o Tail(main)
    /\ UNCHANGED <<auth, accounts, documents, handle, restarts, lapses>>

\* fetchUser calls back with a document that has data; the home replaces all that was
\* presented.  Without one nothing happens, and an error is not shown.
HomeFetched ==
    /\ \E call \in calls :
          /\ call.kind = "fetchHome"
          /\ calls' = calls \ {call}
          /\ \/ /\ call.user \in documents
                /\ root' = call.user /\ cover' = Uncovered
                /\ UNCHANGED lapses
             \/ call.user \notin documents /\ UNCHANGED <<root, cover, lapses>>
             \/ lapses' = lapses \cup {"failed"} /\ UNCHANGED <<root, cover>>
    /\ UNCHANGED <<auth, accounts, documents, main, listeners, handle, restarts>>

-----------------------------------------------------------------------------
(* The screens presented over the welcome screen or, after logging out, over *)
(* the home.                                                                 *)

\* goToLogin, goToSignUp
Open ==
    /\ root = "welcome" /\ cover = Uncovered
    /\ \E screen \in {"login", "name"} : cover' = Show(screen)
    /\ UNCHANGED <<auth, accounts, documents, main, listeners, handle, calls, root, restarts, lapses>>

\* Over the welcome screen it can be pulled down; requests go on.
Leave ==
    /\ root = "welcome" /\ cover # Uncovered
    /\ cover' = Uncovered
    /\ calls' = {[call EXCEPT !.shown = FALSE] : call \in calls}
    /\ UNCHANGED <<auth, accounts, documents, main, listeners, handle, root, restarts, lapses>>

\* textChanged enables the button, also while it is loading.
Type ==
    /\ cover.screen \in {"login", "name", "code"} /\ cover.button = "loading"
    /\ cover' = Show(cover.screen)
    /\ UNCHANGED <<auth, accounts, documents, main, listeners, handle, calls, root, restarts, lapses>>

Tap(screen, request) ==
    /\ cover = Show(screen)
    /\ Cardinality(calls) < MaxCalls
    /\ cover' = [cover EXCEPT !.button = "loading"]
    /\ calls' = calls \cup {request}
    /\ lapses' = Crossing(request.user)
    /\ UNCHANGED <<auth, accounts, documents, main, listeners, handle, root, restarts>>

\* LoginViewController.nextStep, emailLogin
LogIn(u) == Tap("login", Ask("signIn", u))

\* UsernameViewController.nextStep, createAccount
Register(u) == Tap("name", Ask("create", u))

\* CodeVerificationViewController.nextStep
EnterCode == auth # None /\ Tap("code", Ask("link", auth))

\* LocationViewController.done
Save ==
    /\ cover.screen = "place"
    /\ Observe
    /\ lapses' = Twice
    /\ UNCHANGED <<auth, accounts, documents, calls, root, cover, restarts>>

\* A slip: nothing is presented over the home.
StayHome == UNCHANGED cover

PresentLogin == cover' = Show("login")

\* SettingsViewController.logoutAlert
LogOut ==
    /\ root \in Account /\ cover = Uncovered
    /\ auth' = None
    /\ main' = IF auth = None THEN main ELSE Append(main, On("posted", 1))
    /\ PresentLogin
    /\ lapses' = Crossing(None)
    /\ UNCHANGED <<accounts, documents, listeners, handle, calls, root, restarts>>

-----------------------------------------------------------------------------
(* Answers.                                                                *)

\* updateCurrentUser
BecomeUser(u) ==
    /\ Len(main) < MaxTasks
    /\ auth' = u
    /\ main' = Append(main, On("posted", 1))

\* A refusal of the login is not shown, and the button stays as it is.
SignInAnswered ==
    /\ \E call \in calls :
          /\ call.kind = "signIn"
          /\ \/ /\ call.user \in accounts
                /\ BecomeUser(call.user)
                /\ calls' = (calls \ {call}) \cup {[call EXCEPT !.kind = "fetchLogin"]}
             \/ /\ calls' = calls \ {call}
                /\ UNCHANGED <<auth, main>>
    /\ UNCHANGED <<accounts, documents, listeners, handle, root, cover, restarts, lapses>>

\* The process ends with what it waited for; the servers may have done it.
AppEnds ==
    /\ main' = <<>> /\ listeners' = [l \in Place |-> Free] /\ handle' = 0 /\ calls' = {}
    /\ root' = "nothing" /\ cover' = Uncovered
    /\ \E done \in SUBSET {call.user : call \in {c \in calls : c.kind = "create"}} :
          accounts' = accounts \cup done
    /\ \E done \in SUBSET {call.user : call \in {c \in calls : c.kind = "details"}} :
          documents' = documents \cup done

\* A slip: nobody is told.
EnterQuietly == UNCHANGED <<main, listeners, handle>>

EnterApp == Observe

\* With the document the session is observed, over the window of the login screen;
\* where that is gone the app ends.
LoginFetched ==
    /\ \E call \in calls :
          /\ call.kind = "fetchLogin"
          /\ \/ /\ call.user \in documents
                /\ IF call.shown /\ cover.screen = "login"
                   THEN /\ EnterApp
                        /\ cover' = Show("login")
                        /\ calls' = calls \ {call}
                        /\ lapses' = Twice
                        /\ UNCHANGED <<accounts, documents, root>>
                   ELSE AppEnds /\ UNCHANGED lapses
             \/ /\ calls' = calls \ {call}
                /\ lapses' = IF call.user \in documents THEN lapses \cup {"failed"} ELSE lapses
                /\ UNCHANGED <<accounts, documents, main, listeners, handle, root, cover>>
    /\ UNCHANGED <<auth, restarts>>

\* The screen that made a request goes on to the next one, or may try again.
Proceed(call, from, to) ==
    cover' = IF call.shown /\ cover.screen = from THEN Show(to) ELSE cover

\* createAccount: the account; an address that is taken is refused.
CreateAnswered ==
    /\ \E call \in calls :
          /\ call.kind = "create"
          /\ \/ /\ call.user \notin accounts
                /\ accounts' = accounts \cup {call.user}
                /\ BecomeUser(call.user)
                /\ calls' = (calls \ {call}) \cup {[call EXCEPT !.kind = "details"]}
                /\ UNCHANGED cover
             \/ /\ calls' = calls \ {call}
                /\ Proceed(call, "name", "name")
                /\ UNCHANGED <<auth, accounts, main>>
    /\ UNCHANGED <<documents, listeners, handle, root, restarts, lapses>>

\* createAccount: the verification of the phone, the display name, and the document.
DetailsAnswered ==
    /\ \E call \in calls :
          /\ call.kind = "details"
          /\ calls' = calls \ {call}
          /\ \/ documents' = documents \cup {call.user} /\ Proceed(call, "name", "code")
             \/ UNCHANGED documents /\ Proceed(call, "name", "name")
    /\ UNCHANGED <<auth, accounts, main, listeners, handle, root, restarts, lapses>>

\* The phone is linked; a wrong code is not reported.
LinkAnswered ==
    /\ \E call \in calls :
          /\ call.kind = "link"
          /\ calls' = calls \ {call}
          /\ Proceed(call, "code", "place") \/ UNCHANGED cover
    /\ UNCHANGED <<auth, accounts, documents, main, listeners, handle, root, restarts, lapses>>

StartAgain ==
    /\ restarts < MaxRestarts
    /\ restarts' = restarts + 1
    /\ AppEnds
    /\ UNCHANGED <<auth, lapses>>

-----------------------------------------------------------------------------
SessionTaps ==
    \/ Open \/ Leave \/ Type \/ EnterCode \/ Save \/ LogOut
    \/ \E u \in Account : LogIn(u) \/ Register(u)

SessionAnswers ==
    \/ HomeFetched \/ LoginFetched
    \/ SignInAnswered \/ CreateAnswered \/ DetailsAnswered \/ LinkAnswered

MainQueue == FirstCall \/ ChangeTold

SessionNext == Connect \/ MainQueue \/ SessionTaps \/ SessionAnswers \/ StartAgain

SessionSpec == SessionInit /\ [][SessionNext]_sessionVars

\* The app is connected to its window, the main queue runs, documents are fetched or
\* an error comes back.
SessionFairness ==
    /\ WF_sessionVars(Connect) /\ WF_sessionVars(MainQueue)
    /\ WF_sessionVars(HomeFetched) /\ WF_sessionVars(LoginFetched)

-----------------------------------------------------------------------------
(* Properties.                                                             *)

\* A home that nothing covers is that of whoever is signed in, however late the
\* listeners, the documents and the answers of the logins are and however often the
\* session is observed, unless a user came or went while the requests of another one
\* were under way (SceneDelegate.swift:38-64, SettingsViewController.swift:71-80).
HomeIsOfSession ==
    "crossed" \notin lapses /\ root \in Account /\ cover = Uncovered => auth = root

\* A listener that was called observes no more, although it does not know its own
\* handle (SceneDelegate.swift:71): a later login or logout does not replace the
\* screens of another one.  Two taps on Save are enough for one to stay.
NoListenerStays ==
    "twice" \notin lapses =>
        \A l \in Place : listeners[l].observing => listeners[l].first

\* On its way from an accepted login, a registration or a start of the app to the
\* home of u.
OnTheWay(u) ==
    \/ \E call \in calls : call.kind \in {"fetchLogin", "fetchHome"} /\ call.user = u
    \/ \E i \in DOMAIN main : main[i].kind = "first"

\* Whoever is let in and has a document gets to her home, also if she pulls the login
\* down, which ends the app, or starts it again; unless a fetch failed.
LetInMeansHome ==
    \A u \in Account :
        auth = u /\ u \in documents /\ OnTheWay(u)
            ~> root = u \/ auth # u \/ lapses # {}
=============================================================================
