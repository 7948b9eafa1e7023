---------------------------- MODULE SessionProofs ----------------------------
(***************************************************************************)
(* The home belongs to the session and no listener stays, for any number   *)
(* of accounts, listeners, tasks, requests and restarts: proved from       *)
(* Session.                                                                *)
(***************************************************************************)
EXTENDS Session, TLAPS, SequenceTheorems

\* Nothing happens before the window is connected, and nothing covers a window
\* without a root.
StartInv ==
    /\ handle = 0 => root = "nothing" /\ calls = {} /\ main = <<>>
    /\ root = "nothing" => cover = Uncovered

\* While no attempt crossed those of another user, all requests are of one user; she
\* is signed in once a request of hers was accepted, or the main queue has a task, or
\* she got as far as the form of the place, or stands in her home.
OneUser ==
    /\ \A c, d \in calls : c.user = d.user
    /\ \A c \in calls : c.kind \notin {"signIn", "create"} => c.user = auth
    /\ main # <<>> => \A c \in calls : c.user = auth
    /\ cover.screen = "place" => \A c \in calls : c.user = auth
    /\ root \in Account /\ cover = Uncovered =>
          auth = root /\ \A c \in calls : c.user = auth

HomeInv == "crossed" \notin lapses => OneUser

\* While the session is not observed twice, whoever observes has the handle and still
\* has its first call to come.
OneListener ==
    /\ \A l \in Place : listeners[l].observing =>
          l = handle /\ listeners[l].first /\ FirstPending
    /\ \A i \in DOMAIN main : main[i].kind = "first" => main[i].listener = handle

ListenerInv == "twice" \notin lapses => OneListener
-----------------------------------------------------------------------------
(* Types.                                                                  *)

LEMMA PlacesAreNumbers == MaxListeners \in Nat /\ MaxListeners > 0 /\ 1 \in Place
BY SessionBounds DEF Place

\* A task that is added, and a queue that moves on.
LEMMA TasksStayTasks ==
    ASSUME main \in Seq(Task), NEW task \in Task
    PROVE  /\ Append(main, task) \in Seq(Task)
           /\ main # <<>> => /\ Head(main) \in Task /\ Tail(main) \in Seq(Task)
                            /\ <<task>> \o Tail(main) \in Seq(Task)
                            /\ <<>> \o Tail(main) \in Seq(Task)
<1>1. <<task>> \in Seq(Task) /\ <<>> \in Seq(Task)
  OBVIOUS
<1>2. ASSUME main # <<>>
      PROVE  Head(main) \in Task /\ Tail(main) \in Seq(Task)
  BY <1>2
<1> QED
  BY <1>1, <1>2

LEMMA ObserveType ==
    ASSUME SessionTypeOK, Observe
    PROVE  /\ main' \in Seq(Task) /\ main' # <<>>
           /\ listeners' \in [Place -> Listener]
           /\ handle' \in 0 .. MaxListeners /\ handle' # 0
<1>1. PICK l \in Place : /\ listeners' = [listeners EXCEPT ![l] = Fresh]
                         /\ handle' = l /\ main' = Append(main, On("first", l))
  BY DEF Observe
<1>2. On("first", l) \in Task /\ Fresh \in Listener
  BY DEF On, Task, Fresh, Listener
<1>3. l \in 0 .. MaxListeners /\ l # 0
  BY PlacesAreNumbers DEF Place
<1>4. main' \in Seq(Task) /\ main' # <<>>
  BY <1>1, <1>2, TasksStayTasks DEF SessionTypeOK
<1> QED
  BY <1>1, <1>2, <1>3, <1>4 DEF SessionTypeOK

LEMMA AppEndsType ==
    ASSUME SessionTypeOK, AppEnds
    PROVE  /\ main' = <<>> /\ main' \in Seq(Task)
           /\ listeners' \in [Place -> Listener] /\ handle' \in 0 .. MaxListeners
           /\ calls' = {} /\ root' = "nothing"
           /\ accounts' \subseteq Account /\ documents' \subseteq Account
<1>1. Free \in Listener
  BY DEF Free, Listener
<1>2. {call.user : call \in {c \in calls : c.kind = "create"}} \subseteq Account
  BY DEF SessionTypeOK, Request
<1>3. {call.user : call \in {c \in calls : c.kind = "details"}} \subseteq Account
  BY DEF SessionTypeOK, Request
<1>4. accounts' \subseteq Account
  BY <1>2 DEF AppEnds, SessionTypeOK
<1>5. documents' \subseteq Account
  BY <1>3 DEF AppEnds, SessionTypeOK
<1> QED
  BY <1>1, <1>4, <1>5, PlacesAreNumbers DEF AppEnds, SessionTypeOK

LEMMA RemainingType ==
    ASSUME NEW them \in [Place -> Listener]
    PROVE  Remaining(them) \in [Place -> Listener]
BY DEF Remaining, Free, Listener

LEMMA CalledType ==
    ASSUME SessionTypeOK, NEW l \in Place
    PROVE  Called(l) \in [Place -> Listener]
BY DEF Called, Listener, SessionTypeOK

LEMMA CallListenerType ==
    ASSUME SessionTypeOK, NEW l \in Place, CallListener(l)
    PROVE  /\ listeners' \in [Place -> Listener] /\ calls' \subseteq Request
           /\ root' \in Account \cup {"nothing", "welcome"}
           /\ cover' \in [screen : {"none", "login", "name", "code", "place"},
                          button : {"enabled", "loading"}]
<1>1. {Remaining(Called(l)), Remaining(listeners)} \subseteq [Place -> Listener]
  BY RemainingType, CalledType DEF SessionTypeOK
<1>2. auth # None => Ask("fetchHome", auth) \in Request
  BY DEF Ask, Request, SessionTypeOK
<1>3. listeners' \in [Place -> Listener]
  BY <1>1 DEF CallListener
<1>4. calls' \subseteq Request
  BY <1>2 DEF CallListener, SessionTypeOK
<1> QED
  BY <1>3, <1>4 DEF CallListener, SessionTypeOK, Uncovered, Show

LEMMA SessionTypeInit == SessionInit => SessionTypeOK
<1> SUFFICES ASSUME SessionInit PROVE SessionTypeOK
  OBVIOUS
<1>1. Free \in Listener
  BY DEF Free, Listener
<1>2. listeners \in [Place -> Listener] /\ main \in Seq(Task)
  BY <1>1 DEF SessionInit
<1> QED
  BY <1>2, SessionBounds DEF SessionInit, SessionTypeOK, Uncovered, Show

\* Every step keeps the types.
LEMMA SessionTypeStep == SessionTypeOK /\ [SessionNext]_sessionVars => SessionTypeOK'
<1> SUFFICES ASSUME SessionTypeOK, [SessionNext]_sessionVars PROVE SessionTypeOK'
  OBVIOUS
<1>s. \A screen \in {"none", "login", "name", "code", "place"} :
        Show(screen) \in [screen : {"none", "login", "name", "code", "place"},
                         button : {"enabled", "loading"}]
  BY DEF Show
<1>l. \A u \in Account \cup {None} : Crossing(u) \subseteq {"twice", "crossed", "failed"}
  BY DEF Crossing, SessionTypeOK
<1>t. Twice \subseteq {"twice", "crossed", "failed"}
  BY DEF Twice, SessionTypeOK
<1>q. On("posted", 1) \in Task /\ Append(main, On("posted", 1)) \in Seq(Task)
  BY TasksStayTasks, PlacesAreNumbers DEF On, Task, SessionTypeOK
<1>h. main # <<>> => Head(main).listener \in Place /\ Tail(main) \in Seq(Task)
  BY TasksStayTasks, <1>q DEF SessionTypeOK, Task
<1>a. \A kind \in {"signIn", "create", "link"}, u \in Account : Ask(kind, u) \in Request
  BY DEF Ask, Request
<1>p. \A screen \in {"none", "login", "name", "code", "place"}, call \in calls : \A from :
        Proceed(call, from, screen) =>
          cover' \in [screen : {"none", "login", "name", "code", "place"},
                     button : {"enabled", "loading"}]
  BY <1>s DEF Proceed, SessionTypeOK
<1>1. CASE Connect
  BY <1>1, ObserveType DEF Connect, SessionTypeOK
<1>2. CASE FirstCall
  BY <1>2, <1>h, CallListenerType DEF FirstCall, SessionTypeOK
<1>3. CASE ChangeTold
  <2> DEFINE l == Head(main).listener
  <2>1. l \in Place /\ main # <<>>
    BY <1>3, <1>h DEF ChangeTold
  <2>2. l < MaxListeners => On("posted", l + 1) \in Task
    BY <2>1, PlacesAreNumbers DEF On, Task, Place
  <2>3. main' \in Seq(Task)
    <3>1. CASE l < MaxListeners
      BY <3>1, <2>1, <2>2, <1>3, TasksStayTasks DEF ChangeTold, SessionTypeOK
    <3>2. CASE ~(l < MaxListeners)
      <4>1. main' = <<>> \o Tail(main)
        BY <3>2, <1>3 DEF ChangeTold
      <4> QED
        BY <4>1, <2>1, <1>q, TasksStayTasks DEF SessionTypeOK
    <3> QED
      BY <3>1, <3>2
  <2>4. /\ listeners' \in [Place -> Listener] /\ calls' \subseteq Request
        /\ root' \in Account \cup {"nothing", "welcome"}
        /\ cover' \in [screen : {"none", "login", "name", "code", "place"},
                       button : {"enabled", "loading"}]
    <3>1. CASE listeners[l].observing
      BY <3>1, <1>3, <2>1, CallListenerType DEF ChangeTold
    <3>2. CASE ~listeners[l].observing
      BY <3>2, <1>3, RemainingType DEF ChangeTold, SessionTypeOK
    <3> QED
      BY <3>1, <3>2
  <2> QED
    BY <1>3, <2>3, <2>4 DEF ChangeTold, SessionTypeOK
<1>4. CASE HomeFetched
  BY <1>4, <1>s DEF HomeFetched, SessionTypeOK, Request, Uncovered
<1>5. CASE Open \/ Type
  BY <1>5, <1>s DEF Open, Type, SessionTypeOK
<1>6. CASE Leave
  <2>1. \A call \in calls : [call EXCEPT !.shown = FALSE] \in Request
    BY DEF SessionTypeOK, Request
  <2> QED
    BY <1>6, <2>1, <1>s DEF Leave, SessionTypeOK, Uncovered
<1>7. ASSUME NEW screen, NEW request \in Request, Tap(screen, request)
      PROVE  SessionTypeOK'
  <2>1. lapses' \subseteq {"twice", "crossed", "failed"}
    BY <1>7, <1>l DEF Tap, Request
  <2> QED
    BY <1>7, <2>1 DEF Tap, SessionTypeOK
<1>8. CASE EnterCode
  <2>1. auth \in Account
    BY <1>8 DEF EnterCode, SessionTypeOK
  <2> QED
    BY <1>8, <2>1, <1>7, <1>a DEF EnterCode
<1>9. CASE \E u \in Account : LogIn(u) \/ Register(u)
  BY <1>9, <1>7, <1>a DEF LogIn, Register
<1>10. CASE Save
  BY <1>10, <1>t, ObserveType DEF Save, SessionTypeOK
<1>11. CASE LogOut
  <2>1. lapses' \subseteq {"twice", "crossed", "failed"}
    BY <1>11, <1>l DEF LogOut
  <2> QED
    BY <1>11, <2>1, <1>s, <1>q DEF LogOut, PresentLogin, SessionTypeOK
<1>12. CASE SignInAnswered
  <2>1. \A call \in calls :
          call.user \in Account /\ [call EXCEPT !.kind = "fetchLogin"] \in Request
    BY DEF SessionTypeOK, Request
  <2> QED
    BY <1>12, <2>1, <1>q DEF SignInAnswered, BecomeUser, SessionTypeOK
<1>13. CASE CreateAnswered
  <2>1. \A call \in calls :
          call.user \in Account /\ [call EXCEPT !.kind = "details"] \in Request
    BY DEF SessionTypeOK, Request
  <2> QED
    BY <1>13, <2>1, <1>q, <1>p DEF CreateAnswered, BecomeUser, SessionTypeOK
<1>14. CASE DetailsAnswered \/ LinkAnswered
  BY <1>14, <1>p DEF DetailsAnswered, LinkAnswered, SessionTypeOK, Request
<1>15. CASE LoginFetched
  <2>1. PICK call \in calls :
          \/ /\ EnterApp
             /\ cover' = Show("login") /\ calls' = calls \ {call} /\ lapses' = Twice
             /\ UNCHANGED <<accounts, documents, root>>
          \/ AppEnds /\ UNCHANGED lapses
          \/ /\ calls' = calls \ {call}
             /\ lapses' = lapses \/ lapses' = lapses \cup {"failed"}
             /\ UNCHANGED <<accounts, documents, main, listeners, handle, root, cover>>
    BY <1>15 DEF LoginFetched
  <2>2. CASE EnterApp /\ cover' = Show("login") /\ calls' = calls \ {call} /\ lapses' = Twice
             /\ UNCHANGED <<accounts, documents, root>>
    BY <1>15, <2>2, <1>s, <1>t, ObserveType DEF LoginFetched, EnterApp, SessionTypeOK
  <2>3. CASE AppEnds /\ UNCHANGED lapses
    <3>1. cover' = Show("none")
      BY <2>3 DEF AppEnds, Uncovered
    <3> QED
      BY <1>15, <2>3, <3>1, <1>s, AppEndsType DEF LoginFetched, SessionTypeOK
  <2>4. CASE /\ calls' = calls \ {call}
             /\ lapses' = lapses \/ lapses' = lapses \cup {"failed"}
             /\ UNCHANGED <<accounts, documents, main, listeners, handle, root, cover>>
    BY <1>15, <2>4 DEF LoginFetched, SessionTypeOK
  <2> QED
    BY <2>1, <2>2, <2>3, <2>4
<1>16. CASE StartAgain
  <2>1. cover' = Show("none") /\ restarts' \in 0 .. MaxRestarts
    BY <1>16, SessionBounds DEF StartAgain, AppEnds, Uncovered, SessionTypeOK
  <2> QED
    BY <1>16, <2>1, <1>s, AppEndsType DEF StartAgain, SessionTypeOK
<1>17. CASE UNCHANGED sessionVars
  BY <1>17 DEF sessionVars, SessionTypeOK
<1> QED
  BY <1>1, <1>2, <1>3, <1>4, <1>5, <1>6, <1>8, <1>9, <1>10, <1>11, <1>12, <1>13, <1>14, <1>15,
     <1>16, <1>17 DEF SessionNext, SessionTaps, SessionAnswers, MainQueue

\* The state of the session and of its screens stays of its types, whatever comes when.
THEOREM SessionTypes == SessionSpec => []SessionTypeOK
<1> QED
  BY SessionTypeInit, SessionTypeStep, PTL DEF SessionSpec
-----------------------------------------------------------------------------
(* The home.                                                               *)

LEMMA CallListenerStart ==
    ASSUME StartInv, main # <<>>, NEW l, CallListener(l)
    PROVE  root' = "nothing" => cover' = Uncovered
BY DEF CallListener, StartInv

\* Nothing but the connection of the window starts anything.
LEMMA StartStep == SessionTypeOK /\ StartInv /\ [SessionNext]_sessionVars => StartInv'
<1> SUFFICES ASSUME SessionTypeOK, StartInv, [SessionNext]_sessionVars PROVE StartInv'
  OBVIOUS
<1>s. \A screen \in {"login", "name", "code", "place"} :
        cover.screen = screen => root # "nothing" /\ handle # 0
  BY DEF StartInv, Uncovered, Show
<1>c. calls # {} \/ main # <<>> => handle # 0
  BY DEF StartInv
<1>p. \A call \in calls, from \in {"name", "code"} : \A to :
        Proceed(call, from, to) /\ root = "nothing" => cover' = cover
  BY <1>s DEF Proceed
<1>1. CASE Connect
  BY <1>1, ObserveType DEF Connect, StartInv
<1>2. CASE FirstCall
  BY <1>2, <1>c, CallListenerStart DEF FirstCall, StartInv
<1>3. CASE ChangeTold
  BY <1>3, <1>c, CallListenerStart DEF ChangeTold, StartInv
<1>4. CASE HomeFetched
  BY <1>4, <1>c, AccountsAreNoScreens DEF HomeFetched, StartInv, SessionTypeOK, Request
<1>5. CASE Open
  BY <1>5 DEF Open, StartInv
<1>6. CASE Leave
  BY <1>6 DEF Leave, StartInv
<1>7. CASE Type
  BY <1>7, <1>s DEF Type, StartInv
<1>8. CASE EnterCode \/ \E u \in Account : LogIn(u) \/ Register(u)
  <2>1. cover.screen \in {"login", "name", "code"} /\ UNCHANGED <<handle, root>>
    BY <1>8 DEF EnterCode, LogIn, Register, Tap, Show
  <2> QED
    BY <2>1, <1>s DEF StartInv
<1>9. CASE Save
  BY <1>9, ObserveType DEF Save, StartInv
<1>10. CASE LogOut
  BY <1>10, AccountsAreNoScreens DEF LogOut, StartInv
<1>11. CASE SignInAnswered
  BY <1>11, <1>c DEF SignInAnswered, BecomeUser, StartInv
<1>12. CASE CreateAnswered
  BY <1>12, <1>c, <1>p DEF CreateAnswered, BecomeUser, StartInv
<1>13. CASE DetailsAnswered \/ LinkAnswered
  BY <1>13, <1>c, <1>p DEF DetailsAnswered, LinkAnswered, StartInv
<1>14. CASE LoginFetched
  BY <1>14, <1>c, <1>s, ObserveType DEF LoginFetched, EnterApp, AppEnds, StartInv
<1>15. CASE StartAgain
  BY <1>15 DEF StartAgain, AppEnds, StartInv
<1>16. CASE UNCHANGED sessionVars
  BY <1>16 DEF sessionVars, StartInv
<1> QED
  BY <1>1, <1>2, <1>3, <1>4, <1>5, <1>6, <1>7, <1>8, <1>9, <1>10, <1>11, <1>12, <1>13, <1>14,
     <1>15, <1>16 DEF SessionNext, SessionTaps, SessionAnswers, MainQueue

\* A listener that is called asks for the document of whoever is signed in, or leaves
\* nothing of a home.
LEMMA CallListenerHome ==
    ASSUME SessionTypeOK, OneUser, main # <<>>, NEW l, CallListener(l), auth' = auth
    PROVE  OneUser'
<1>1. \A c \in calls' : c.user = auth
  BY DEF CallListener, OneUser, Ask
<1>2. root' \in Account /\ cover' = Uncovered => auth = root'
  BY AccountsAreNoScreens DEF CallListener, OneUser
<1> QED
  BY <1>1, <1>2 DEF OneUser

LEMMA TapHome ==
    ASSUME SessionTypeOK, OneUser, NEW screen \in {"login", "name", "code"},
           NEW request \in Request, Tap(screen, request), "crossed" \notin lapses',
           request.kind \notin {"signIn", "create"} => request.user = auth
    PROVE  OneUser'
<1>1. /\ \A c \in calls : c.user = request.user
      /\ main # <<>> => auth = request.user
  BY DEF Tap, Crossing, Request
<1> QED
  BY <1>1 DEF Tap, OneUser, Show, Uncovered

LEMMA HomeStep ==
    SessionTypeOK /\ StartInv /\ HomeInv /\ [SessionNext]_sessionVars => HomeInv'
<1> SUFFICES ASSUME SessionTypeOK, StartInv, HomeInv, [SessionNext]_sessionVars,
                    "crossed" \notin lapses'
             PROVE  OneUser'
  BY DEF HomeInv
<1>l. "crossed" \notin lapses
  BY DEF SessionNext, SessionTaps, SessionAnswers, MainQueue, Connect, FirstCall, ChangeTold,
         HomeFetched, Open, Leave, Type, Tap, LogIn, Register, EnterCode, Save, Crossing, Twice,
         LogOut, SignInAnswered, LoginFetched, CreateAnswered, DetailsAnswered, LinkAnswered,
         StartAgain, sessionVars
<1>u. OneUser
  BY <1>l DEF HomeInv
<1>a. AppEnds => OneUser'
  BY AccountsAreNoScreens DEF AppEnds, OneUser, Uncovered, Show
<1>1. CASE Connect
  BY <1>1, <1>u DEF Connect, OneUser, StartInv
<1>2. CASE FirstCall
  BY <1>2, <1>u, CallListenerHome DEF FirstCall
<1>3. CASE ChangeTold
  <2>1. main # <<>> /\ auth' = auth /\ lapses' = lapses
    BY <1>3 DEF ChangeTold
  <2>2. CASE CallListener(Head(main).listener)
    BY <2>1, <2>2, <1>u, CallListenerHome
  <2>3. CASE UNCHANGED <<calls, root, cover>>
    BY <2>1, <2>3, <1>u DEF OneUser
  <2> QED
    BY <1>3, <2>2, <2>3 DEF ChangeTold
<1>4. CASE HomeFetched
  BY <1>4, <1>u DEF HomeFetched, OneUser, Uncovered, Show
<1>5. CASE Open
  BY <1>5, <1>u, AccountsAreNoScreens DEF Open, OneUser, Show, Uncovered
<1>6. CASE Leave
  <2>1. /\ root \notin Account /\ cover'.screen # "place"
        /\ UNCHANGED <<main, auth, root>>
    BY <1>6, AccountsAreNoScreens DEF Leave, Uncovered, Show
  <2>2. \A c \in calls' : \E d \in calls : c.user = d.user /\ c.kind = d.kind
    BY <1>6 DEF Leave, SessionTypeOK, Request
  <2> QED
    BY <2>1, <2>2, <1>u DEF OneUser
<1>7. CASE Type
  BY <1>7, <1>u DEF Type, OneUser, Show, Uncovered
<1>8. CASE EnterCode
  <2>1. Ask("link", auth) \in Request /\ Ask("link", auth).user = auth
    BY <1>8 DEF EnterCode, Ask, Request, SessionTypeOK
  <2> QED
    BY <1>8, <2>1, <1>u, TapHome DEF EnterCode
<1>9. CASE \E u \in Account : LogIn(u) \/ Register(u)
  <2>1. PICK u \in Account : LogIn(u) \/ Register(u)
    BY <1>9
  <2>2. \A kind \in {"signIn", "create"} :
          Ask(kind, u) \in Request /\ Ask(kind, u).kind = kind
    BY DEF Ask, Request
  <2> QED
    BY <2>1, <2>2, <1>u, TapHome DEF LogIn, Register
<1>10. CASE Save
  BY <1>10, <1>u DEF Save, OneUser, Uncovered, Show
<1>11. CASE LogOut
  <2>1. calls = {}
    BY <1>11, <1>u, NoneIsNobody DEF LogOut, Crossing, SessionTypeOK, Request
  <2> QED
    BY <1>11, <2>1 DEF LogOut, PresentLogin, OneUser, Show, Uncovered
<1>12. CASE SignInAnswered
  <2>1. PICK call \in calls :
          /\ call.kind = "signIn"
          /\ \/ /\ auth' = call.user
                /\ calls' = (calls \ {call}) \cup {[call EXCEPT !.kind = "fetchLogin"]}
             \/ calls' = calls \ {call} /\ UNCHANGED <<auth, main>>
    BY <1>12 DEF SignInAnswered, BecomeUser
  <2>2. [call EXCEPT !.kind = "fetchLogin"].user = call.user
    BY DEF SessionTypeOK, Request
  <2> QED
    BY <1>12, <2>1, <2>2, <1>u DEF SignInAnswered, OneUser
<1>13. CASE CreateAnswered
  <2>1. PICK call \in calls :
          /\ call.kind = "create"
          /\ \/ /\ auth' = call.user
                /\ calls' = (calls \ {call}) \cup {[call EXCEPT !.kind = "details"]}
                /\ UNCHANGED cover
             \/ /\ calls' = calls \ {call} /\ UNCHANGED <<auth, main>>
                /\ Proceed(call, "name", "name")
    BY <1>13 DEF CreateAnswered, BecomeUser
  <2>2. [call EXCEPT !.kind = "details"].user = call.user
    BY DEF SessionTypeOK, Request
  <2>3. UNCHANGED root
    BY <1>13 DEF CreateAnswered
  <2>4. CASE /\ auth' = call.user
             /\ calls' = (calls \ {call}) \cup {[call EXCEPT !.kind = "details"]}
             /\ UNCHANGED cover
    <3>1. \A c \in calls' : c.user = auth'
      BY <2>2, <2>4, <1>u DEF OneUser
    <3>2. root \in Account /\ cover = Uncovered => root = call.user
      BY <1>u DEF OneUser
    <3> QED
      BY <2>3, <2>4, <3>1, <3>2 DEF OneUser
  <2>5. CASE /\ calls' = calls \ {call} /\ UNCHANGED <<auth, main>>
             /\ Proceed(call, "name", "name")
    BY <2>3, <2>5, <1>u DEF OneUser, Proceed, Show, Uncovered
  <2> QED
    BY <2>1, <2>4, <2>5
<1>14. CASE DetailsAnswered
  BY <1>14, <1>u DEF DetailsAnswered, OneUser, Proceed, Show, Uncovered
<1>15. CASE LinkAnswered
  BY <1>15, <1>u DEF LinkAnswered, OneUser, Proceed, Show, Uncovered
<1>16. CASE LoginFetched
  BY <1>16, <1>u, <1>a DEF LoginFetched, OneUser, Show, Uncovered
<1>17. CASE StartAgain
  BY <1>17, <1>a DEF StartAgain
<1>18. CASE UNCHANGED sessionVars
  BY <1>18, <1>u DEF sessionVars, OneUser
<1> QED
  BY <1>1, <1>2, <1>3, <1>4, <1>5, <1>6, <1>7, <1>8, <1>9, <1>10, <1>11, <1>12, <1>13, <1>14,
     <1>15, <1>16, <1>17, <1>18 DEF SessionNext, SessionTaps, SessionAnswers, MainQueue

LEMMA HomeInit == SessionInit => StartInv /\ HomeInv
BY AccountsAreNoScreens DEF SessionInit, StartInv, HomeInv, OneUser, Uncovered, Show

\* A home that nothing covers is that of whoever is signed in (HomeIsOfSession).
THEOREM HomesBelong == SessionSpec => []HomeIsOfSession
<1> DEFINE Inv == SessionTypeOK /\ StartInv /\ HomeInv
<1>1. SessionInit => Inv
  BY SessionTypeInit, HomeInit
<1>2. Inv /\ [SessionNext]_sessionVars => Inv'
  BY SessionTypeStep, StartStep, HomeStep
<1>3. Inv => HomeIsOfSession
  BY DEF HomeInv, OneUser, HomeIsOfSession
<1> QED
  BY <1>1, <1>2, <1>3, PTL DEF SessionSpec
-----------------------------------------------------------------------------
(* The listeners.                                                          *)

Nobody(them) == \A l \in Place : ~them[l].observing

\* What is left of the listeners after a call observes what it did.
LEMMA RemainingObserves ==
    ASSUME NEW them \in [Place -> Listener], NEW l \in Place
    PROVE  Remaining(them)[l].observing => Remaining(them)[l] = them[l] /\ them[l].observing
BY DEF Remaining, Free

\* While there is one, calling it leaves nobody.
LEMMA CallListenerLeaves ==
    ASSUME SessionTypeOK, OneListener, NEW l \in Place, l = handle, CallListener(l)
    PROVE  Nobody(listeners')
<1>1. Called(l) \in [Place -> Listener] /\ listeners \in [Place -> Listener]
  BY CalledType DEF SessionTypeOK
<1>2. CASE listeners' = Remaining(Called(l))
  <2>1. Nobody(Called(l))
    BY DEF Called, Nobody, OneListener
  <2> QED
    BY <1>1, <1>2, <2>1, RemainingObserves DEF Nobody
<1>3. CASE ~listeners[l].first /\ listeners' = Remaining(listeners)
  <2>1. Nobody(listeners)
    BY <1>3 DEF Nobody, OneListener
  <2> QED
    BY <1>1, <1>3, <2>1, RemainingObserves DEF Nobody
<1> QED
  BY <1>2, <1>3 DEF CallListener

\* With nobody's first call to come there is room for one.
LEMMA ObserveAlone ==
    ASSUME SessionTypeOK, OneListener, ~FirstPending, Observe
    PROVE  OneListener'
<1>1. PICK l \in Place : /\ listeners' = [listeners EXCEPT ![l] = Fresh]
                         /\ handle' = l /\ main' = Append(main, On("first", l))
  BY DEF Observe
<1>2. Nobody(listeners)
  BY DEF OneListener, Nobody
<1>3. /\ DOMAIN main' = 1 .. Len(main) + 1 /\ Len(main) \in Nat
      /\ main'[Len(main) + 1] = On("first", l)
      /\ \A i \in 1 .. Len(main) : main'[i] = main[i]
      /\ DOMAIN main = 1 .. Len(main)
  BY <1>1 DEF SessionTypeOK, On, Task
<1>4. FirstPending'
  BY <1>3 DEF FirstPending, On
<1>5. \A k \in Place : listeners'[k].observing => k = l /\ listeners'[k].first
  BY <1>1, <1>2 DEF Nobody, Fresh, SessionTypeOK
<1>6. \A i \in DOMAIN main' : main'[i].kind = "first" => main'[i].listener = l
  BY <1>3 DEF FirstPending, On
<1> QED
  BY <1>1, <1>4, <1>5, <1>6 DEF OneListener

\* A task that is no first call may be added, and any first task may go.
LEMMA PostedAdded ==
    ASSUME main \in Seq(Task), OneListener, UNCHANGED <<listeners, handle>>,
           NEW task \in Task, task.kind = "posted",
           main' = main \/ main' = Append(main, task)
    PROVE  OneListener'
<1>1. CASE main' = main
  BY <1>1 DEF OneListener, FirstPending
<1>2. CASE main' = Append(main, task)
  <2>1. /\ DOMAIN main' = 1 .. Len(main) + 1 /\ Len(main) \in Nat
        /\ main'[Len(main) + 1] = task
        /\ \A i \in 1 .. Len(main) : main'[i] = main[i]
        /\ DOMAIN main = 1 .. Len(main)
    BY <1>2
  <2>2. FirstPending => FirstPending'
    BY <2>1 DEF FirstPending
  <2>3. \A i \in DOMAIN main' : main'[i].kind = "first" => main'[i].listener = handle
    BY <2>1 DEF OneListener
  <2> QED
    BY <2>2, <2>3 DEF OneListener
<1> QED
  BY <1>1, <1>2

\* The head of the queue goes, or a posted task takes its place.
LEMMA QueueMovesOn ==
    ASSUME main \in Seq(Task), main # <<>>, NEW task \in Task, task.kind = "posted",
           main' = Tail(main) \/ main' = <<task>> \o Tail(main)
    PROVE  /\ Head(main).kind = "posted" /\ FirstPending => FirstPending'
           /\ \A i \in DOMAIN main' : main'[i].kind = "first" =>
                \E j \in DOMAIN main : main'[i] = main[j]
<1>1. /\ DOMAIN main = 1 .. Len(main) /\ Len(main) \in Nat \ {0} /\ Head(main) = main[1]
      /\ Tail(main) \in Seq(Task) /\ Len(Tail(main)) = Len(main) - 1
      /\ \A i \in 1 .. Len(main) - 1 : Tail(main)[i] = main[i + 1]
  OBVIOUS
<1>2. CASE main' = Tail(main)
  <2>1. DOMAIN main' = 1 .. Len(main) - 1
    BY <1>1, <1>2
  <2>2. \A j \in 2 .. Len(main) : j - 1 \in DOMAIN main' /\ main'[j - 1] = main[j]
    BY <1>1, <1>2, <2>1
  <2>3. \A i \in DOMAIN main' : i + 1 \in DOMAIN main /\ main'[i] = main[i + 1]
    BY <1>1, <1>2, <2>1
  <2> QED
    BY <1>1, <2>2, <2>3 DEF FirstPending
<1>3. CASE main' = <<task>> \o Tail(main)
  <2>1. /\ DOMAIN main' = 1 .. Len(main) /\ main'[1] = task
        /\ \A i \in 2 .. Len(main) : main'[i] = Tail(main)[i - 1]
    BY <1>1, <1>3
  <2>2. ASSUME NEW i \in 2 .. Len(main) PROVE main'[i] = main[i]
    <3>1. i - 1 \in 1 .. Len(main) - 1 /\ (i - 1) + 1 = i
      BY <1>1
    <3> QED
      BY <1>1, <2>1, <3>1
  <2>3. FirstPending /\ main[1].kind = "posted" => FirstPending'
    <3>1. \A i \in DOMAIN main : main[i].kind = "first" /\ main[1].kind = "posted" =>
            i \in 2 .. Len(main)
      BY <1>1
    <3> QED
      BY <1>1, <2>1, <2>2, <3>1 DEF FirstPending
  <2>4. ASSUME NEW i \in DOMAIN main', main'[i].kind = "first"
        PROVE  \E j \in DOMAIN main : main'[i] = main[j]
    <3>1. i \in 1 .. Len(main) /\ i # 1 /\ Len(main) \in Nat
      BY <1>1, <2>1, <2>4
    <3>2. i \in 2 .. Len(main)
      BY <3>1
    <3> QED
      BY <1>1, <2>2, <3>2
  <2> QED
    BY <1>1, <2>3, <2>4
<1> QED
  BY <1>2, <1>3

LEMMA ListenerStep ==
    SessionTypeOK /\ StartInv /\ ListenerInv /\ [SessionNext]_sessionVars => ListenerInv'
<1> SUFFICES ASSUME SessionTypeOK, StartInv, ListenerInv, [SessionNext]_sessionVars,
                    "twice" \notin lapses'
             PROVE  OneListener'
  BY DEF ListenerInv
<1>l. "twice" \notin lapses
  BY DEF SessionNext, SessionTaps, SessionAnswers, MainQueue, Connect, FirstCall, ChangeTold,
         HomeFetched, Open, Leave, Type, Tap, LogIn, Register, EnterCode, Save, Crossing, Twice,
         LogOut, SignInAnswered, LoginFetched, CreateAnswered, DetailsAnswered, LinkAnswered,
         StartAgain, sessionVars
<1>o. OneListener
  BY <1>l DEF ListenerInv
<1>p. On("posted", 1) \in Task /\ On("posted", 1).kind = "posted" /\ main \in Seq(Task)
  BY PlacesAreNumbers DEF On, Task, SessionTypeOK
<1>h. main # <<>> => /\ Head(main) = main[1] /\ 1 \in DOMAIN main /\ Head(main) \in Task
  BY <1>p
<1>a. AppEnds => OneListener'
  BY PlacesAreNumbers DEF AppEnds, OneListener, Free
<1>u. UNCHANGED <<main, listeners, handle>> => OneListener'
  BY <1>o DEF OneListener, FirstPending
<1>1. CASE Connect
  <2>1. ~FirstPending
    BY <1>1 DEF Connect, StartInv, FirstPending
  <2> QED
    BY <1>1, <2>1, <1>o, ObserveAlone DEF Connect
<1>2. CASE FirstCall
  <2>1. main # <<>> /\ Head(main).listener \in Place /\ Head(main).listener = handle
    BY <1>2, <1>h, <1>o DEF FirstCall, OneListener, Task
  <2>2. Nobody(listeners')
    BY <1>2, <2>1, <1>o, CallListenerLeaves DEF FirstCall
  <2>3. \A i \in DOMAIN main' : main'[i].kind = "first" =>
          \E j \in DOMAIN main : main'[i] = main[j]
    BY <1>2, <2>1, <1>p, QueueMovesOn DEF FirstCall
  <2> QED
    BY <1>2, <2>2, <2>3, <1>o DEF FirstCall, OneListener, Nobody
<1>3. CASE ChangeTold
  <2> DEFINE l == Head(main).listener
  <2>1. l \in Place /\ main # <<>> /\ Head(main).kind = "posted"
    BY <1>3, <1>h DEF ChangeTold, Task
  <2>2. /\ FirstPending => FirstPending'
        /\ \A i \in DOMAIN main' : main'[i].kind = "first" =>
             \E j \in DOMAIN main : main'[i] = main[j]
    <3>1. CASE l < MaxListeners
      <4>1. On("posted", l + 1) \in Task /\ On("posted", l + 1).kind = "posted"
        BY <3>1, <2>1, PlacesAreNumbers DEF On, Task, Place
      <4>2. main' = <<On("posted", l + 1)>> \o Tail(main)
        BY <3>1, <1>3 DEF ChangeTold
      <4> QED
        BY <4>1, <4>2, <2>1, <1>p, QueueMovesOn
    <3>2. CASE ~(l < MaxListeners)
      <4>1. main' = Tail(main)
        BY <3>2, <1>3, <1>p, <2>1 DEF ChangeTold
      <4> QED
        BY <4>1, <2>1, <1>p, QueueMovesOn
    <3> QED
      BY <3>1, <3>2
  <2>3. \A i \in DOMAIN main' : main'[i].kind = "first" => main'[i].listener = handle'
    BY <1>3, <2>2, <1>o DEF ChangeTold, OneListener
  <2>4. CASE listeners[l].observing
    <3>1. Nobody(listeners')
      BY <1>3, <2>1, <2>4, <1>o, CallListenerLeaves DEF ChangeTold, OneListener
    <3> QED
      BY <3>1, <2>3 DEF OneListener, Nobody
  <2>5. CASE ~listeners[l].observing
    <3>1. listeners' = Remaining(listeners) /\ handle' = handle
      BY <1>3, <2>5 DEF ChangeTold
    <3>2. \A k \in Place : listeners'[k].observing =>
            listeners'[k] = listeners[k] /\ listeners[k].observing
      BY <3>1, RemainingObserves DEF SessionTypeOK
    <3> QED
      BY <3>1, <3>2, <2>2, <2>3, <1>o DEF OneListener
  <2> QED
    BY <2>4, <2>5
<1>4. CASE HomeFetched \/ Open \/ Leave \/ Type
  BY <1>4, <1>u DEF HomeFetched, Open, Leave, Type
<1>5. CASE EnterCode \/ \E u \in Account : LogIn(u) \/ Register(u)
  BY <1>5, <1>u DEF EnterCode, LogIn, Register, Tap
<1>6. CASE Save
  BY <1>6, <1>o, ObserveAlone DEF Save, Twice
<1>7. CASE LogOut
  BY <1>7, <1>o, <1>p, PostedAdded DEF LogOut
<1>8. CASE SignInAnswered \/ CreateAnswered
  BY <1>8, <1>o, <1>p, PostedAdded DEF SignInAnswered, CreateAnswered, BecomeUser
<1>9. CASE DetailsAnswered \/ LinkAnswered
  BY <1>9, <1>u DEF DetailsAnswered, LinkAnswered
<1>10. CASE LoginFetched
  <2>1. \/ EnterApp /\ lapses' = Twice
        \/ AppEnds
        \/ UNCHANGED <<main, listeners, handle>>
    BY <1>10 DEF LoginFetched
  <2>2. CASE EnterApp /\ lapses' = Twice
    BY <2>2, <1>o, ObserveAlone DEF EnterApp, Twice
  <2> QED
    BY <2>1, <2>2, <1>a, <1>u
<1>11. CASE StartAgain
  BY <1>11, <1>a DEF StartAgain
<1>12. CASE UNCHANGED sessionVars
  BY <1>12, <1>u DEF sessionVars
<1> QED
  BY <1>1, <1>2, <1>3, <1>4, <1>5, <1>6, <1>7, <1>8, <1>9, <1>10, <1>11, <1>12
     DEF SessionNext, SessionTaps, SessionAnswers, MainQueue

LEMMA ListenerInit == SessionInit => ListenerInv
BY DEF SessionInit, ListenerInv, OneListener, Free

\* A listener that was called observes no more (NoListenerStays).
THEOREM ListenersGo == SessionSpec => []NoListenerStays
<1> DEFINE Inv == SessionTypeOK /\ StartInv /\ ListenerInv
<1>1. SessionInit => Inv
  BY SessionTypeInit, HomeInit, ListenerInit
<1>2. Inv /\ [SessionNext]_sessionVars => Inv'
  BY SessionTypeStep, StartStep, ListenerStep
<1>3. Inv => NoListenerStays
  BY DEF ListenerInv, OneListener, NoListenerStays
<1> QED
  BY <1>1, <1>2, <1>3, PTL DEF SessionSpec
=============================================================================
