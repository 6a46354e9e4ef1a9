------------------------------- MODULE ClientAuth -------------------------------
(***************************************************************************)
(* What the browser believes about the login, and the pages that depend on *)
(* it: AuthProvider, the chat page with its gender dialog and settings,    *)
(* the sign-in page, and the guard of the administrators' pages.           *)
(*                                                                         *)
(* Every question to the server is a call in flight; its answer is a copy  *)
(* of what the server held when it was asked, and is applied whenever it   *)
(* arrives.  Effects run some time after the render they belong to.        *)
(***************************************************************************)
EXTENDS Naturals, FiniteSets

CONSTANTS
  SyncAttempts, \* SESSION_SYNC_MAX_ATTEMPTS
  MaxEvents     \* clicks, lost requests and changes of the login (bounds the model)

ASSUME AttemptsAssumption == SyncAttempts \in Nat \ {0}
ASSUME BoundAssumption == MaxEvents \in Nat

VARIABLES
  login,        \* server: who the browser's cookies and tokens sign in
  stack,        \* the Stack SDK has a user (useUser)
  route,        \* the page
  leaving,      \* the page a Navigate has sent the router to
  auth,         \* authSession
  ready,        \* status of AuthProvider
  calls,        \* requests in flight, with what is done with the answer
  pending,      \* rendered, effects still to run
  polling,      \* the chat page's interval
  wasIn,        \* wasAuthenticatedRef
  expired,      \* sessionExpired
  validated,    \* validatedEntryKey
  revalidating, \* isRevalidating
  syncing,      \* syncingSession
  syncFailed,   \* syncFailed
  gender,       \* the phase of the gender dialog
  settings,     \* the settings dialog is open
  events        \* events so far

server == <<login, stack>>
chatPage == <<polling, wasIn, expired>>
guard == <<validated, revalidating>>
authPage == <<syncing, syncFailed>>
dialogs == <<gender, settings>>
vars == <<server, route, leaving, auth, ready, calls, pending, chatPage, guard,
          authPage, dialogs, events>>

--------------------------------------------------------------------------------
Login == [in : BOOLEAN, restricted : BOOLEAN, admin : BOOLEAN, gendered : BOOLEAN]
Empty == [in |-> FALSE, restricted |-> FALSE, admin |-> FALSE, gendered |-> FALSE]
AdminPage == {"reports", "audit"}
Route == {"landing", "chat", "auth"} \cup AdminPage
NoPage == "none"
NoKey == [page |-> NoPage, in |-> FALSE]

(* A call: what asked, for which guard entry or as which attempt of a      *)
(* loop, whether that loop goes on, and where it stands.                   *)
Kind == {"boot", "probe", "guard", "sync", "signout", "logout", "gender", "settings"}
Call(kind) ==
  [kind |-> kind, key |-> NoKey, n |-> 0, live |-> TRUE, at |-> "sent", seen |-> Empty]
InFlight(kind) == \E c \in calls : c.kind = kind

Mounting == {Call("boot")}
CurrentKey == [page |-> route, in |-> auth.in]

Init ==
  /\ login \in [in : BOOLEAN, restricted : {FALSE}, admin : {TRUE}, gendered : {FALSE}]
  /\ stack = login.in
  /\ route = "chat" /\ leaving = NoPage
  /\ auth = Empty /\ ready = FALSE
  /\ calls = Mounting
  /\ pending = FALSE
  /\ polling = FALSE /\ wasIn = FALSE /\ expired = FALSE
  /\ validated = NoKey /\ revalidating = FALSE
  /\ syncing = FALSE /\ syncFailed = FALSE
  /\ gender = "idle" /\ settings = FALSE
  /\ events = 0

Event == events < MaxEvents /\ events' = events + 1

--------------------------------------------------------------------------------
(* The server, external to the browser.  A login starts when Stack says so *)
(* and may be known to the server later, or never.                         *)
LoginChanges ==
  /\ Event
  /\ \/ stack /\ login' = [login EXCEPT !.in = ~@] /\ UNCHANGED <<stack, pending>>
     \/ login.in /\ login' = [login EXCEPT !.restricted = ~@] /\ UNCHANGED <<stack, pending>>
     \/ route = "auth" /\ ~stack /\ stack' = TRUE /\ pending' = TRUE
        /\ \E in \in BOOLEAN : login' = [login EXCEPT !.in = in]
  /\ UNCHANGED <<route, leaving, auth, ready, calls, chatPage, guard, authPage, dialogs>>

Answer == IF login.in THEN login ELSE Empty
Saves(c) == c.kind \in {"gender", "settings"}
ServedLogin(c) ==
  CASE c.kind = "logout" -> [login EXCEPT !.in = FALSE]
    [] Saves(c) -> [login EXCEPT !.gendered = TRUE]
    [] OTHER -> login

(* The server answers.  A gender that is set is locked: another one, and   *)
(* settings whose form was made before it was set, are refused.            *)
Serve(c) ==
  /\ c.at = "sent"
  /\ \/ /\ Saves(c) /\ (~login.in \/ login.gendered)
        /\ calls' = (calls \ {c}) \cup {[c EXCEPT !.at = "failed"]}
        /\ UNCHANGED login
     \/ /\ ~Saves(c) \/ login.in
        /\ login' = ServedLogin(c)
        /\ calls' = (calls \ {c}) \cup {[c EXCEPT !.at = "answered", !.seen = Answer']}
  /\ UNCHANGED <<stack, route, leaving, auth, ready, pending, chatPage, guard, authPage,
                 dialogs, events>>

(* A request is lost, or is aborted after REQUEST_TIMEOUT_MS.              *)
Lose(c) ==
  /\ c.at = "sent"
  /\ Event
  /\ calls' = (calls \ {c}) \cup {[c EXCEPT !.at = "failed"]}
  /\ UNCHANGED <<server, route, leaving, auth, ready, pending, chatPage, guard, authPage,
                 dialogs>>

--------------------------------------------------------------------------------
(* applySession, of an answer that has come; a failure is swallowed.  The  *)
(* gender dialog is on the page only while a gender is missing.            *)
GenderAsked(a) == route = "chat" /\ a.in /\ ~a.restricted /\ ~a.gendered
Applied(a) ==
  /\ auth' = a
  /\ pending' = (pending \/ a.in # auth.in)
(* Slip: an answer that nobody is signed in is taken for a failure.        *)
ApplyAnswerIfIn(c) ==
  Applied(IF c.at = "answered" /\ c.seen.in THEN c.seen ELSE auth)
ApplyAnswer(c) == Applied(IF c.at = "answered" THEN c.seen ELSE auth)

(* A call is settled; what it was to do with a component that has gone is  *)
(* void, be it by another page or with the gender dialog.                  *)
Orphaned(C, kinds) == {IF c.kind \in kinds THEN [c EXCEPT !.live = FALSE] ELSE c : c \in C}
Settled(c, S) ==
  /\ c.at \in {"answered", "failed"}
  /\ calls' = Orphaned((calls \ {c}) \cup S, IF GenderAsked(auth') THEN {} ELSE {"gender"})
GenderKept == gender' = IF GenderAsked(auth') THEN gender ELSE "idle"

Booted(c) ==
  /\ c.kind = "boot"
  /\ auth' = IF c.at = "answered" THEN c.seen ELSE auth
  /\ Settled(c, {}) /\ GenderKept
  /\ ready' = TRUE
  /\ pending' = TRUE
  /\ UNCHANGED <<server, route, leaving, chatPage, guard, authPage, settings, events>>

Probed(c) ==
  /\ c.kind = "probe"
  /\ ApplyAnswer(c)
  /\ Settled(c, {}) /\ GenderKept
  /\ UNCHANGED <<server, route, leaving, ready, chatPage, guard, authPage, settings, events>>

(* The finally of the guard: what was asked for is validated, whatever the *)
(* page is by now.                                                         *)
Guarded(c) ==
  /\ c.kind = "guard"
  /\ auth' = IF c.at = "answered" THEN c.seen ELSE auth
  /\ Settled(c, {}) /\ GenderKept
  /\ pending' = TRUE
  /\ validated' = IF c.live THEN c.key ELSE validated
  /\ revalidating' = (revalidating /\ ~c.live)
  /\ UNCHANGED <<server, route, leaving, ready, chatPage, authPage, settings, events>>

(* One attempt of the sign-in page, and half a second later the next.      *)
Synced(c) ==
  /\ c.kind = "sync"
  /\ ApplyAnswer(c)
  /\ Settled(c, IF c.live THEN {[c EXCEPT !.at = "waiting", !.seen = Empty]} ELSE {})
  /\ GenderKept
  /\ UNCHANGED <<server, route, leaving, ready, chatPage, guard, authPage, settings, events>>
(* Slip: the loop makes one attempt too many.                              *)
SyncNextOnceMore(c) ==
  /\ c.kind = "sync" /\ c.at = "waiting"
  /\ calls' = (calls \ {c}) \cup
       IF c.live /\ c.n <= SyncAttempts THEN {[c EXCEPT !.at = "sent", !.n = @ + 1]} ELSE {}
  /\ syncing' = (syncing /\ ~(c.live /\ c.n > SyncAttempts))
  /\ syncFailed' = (syncFailed \/ (c.live /\ c.n > SyncAttempts))
  /\ UNCHANGED <<server, route, leaving, auth, ready, pending, chatPage, guard, dialogs, events>>
SyncNext(c) ==
  /\ c.kind = "sync" /\ c.at = "waiting"
  /\ calls' = (calls \ {c}) \cup
       IF c.live /\ c.n < SyncAttempts THEN {[c EXCEPT !.at = "sent", !.n = @ + 1]} ELSE {}
  /\ syncing' = (syncing /\ ~(c.live /\ c.n = SyncAttempts))
  /\ syncFailed' = (syncFailed \/ (c.live /\ c.n = SyncAttempts))
  /\ UNCHANGED <<server, route, leaving, auth, ready, pending, chatPage, guard, dialogs, events>>

(* signOutStackSession: Stack may fail to sign out; the question about the *)
(* login follows either way.                                               *)
StackLeft(c) ==
  /\ c.kind = "signout" /\ c.at = "stack"
  /\ \/ stack' = FALSE /\ login' = [login EXCEPT !.in = FALSE] /\ pending' = TRUE
     \/ UNCHANGED <<server, pending>>
  /\ calls' = (calls \ {c}) \cup {[c EXCEPT !.at = "sent"]}
  /\ UNCHANGED <<route, leaving, auth, ready, chatPage, guard, authPage, dialogs, events>>
SignedOut(c) ==
  /\ c.kind = "signout"
  /\ ApplyAnswer(c)
  /\ Settled(c, {}) /\ GenderKept
  /\ syncing' = FALSE
  /\ UNCHANGED <<server, route, leaving, ready, chatPage, guard, syncFailed, settings, events>>

(* logout: a failure leaves everything as it is.                           *)
LoggedOut(c) ==
  /\ c.kind = "logout"
  /\ IF c.at = "answered"
     THEN /\ Applied(Empty) /\ GenderKept
          /\ \/ stack' = FALSE /\ login' = [login EXCEPT !.in = FALSE]
             \/ UNCHANGED server
     ELSE UNCHANGED <<auth, pending, server, gender>>
  /\ Settled(c, {})
  /\ UNCHANGED <<route, leaving, ready, chatPage, guard, authPage, settings, events>>

(* Slip: nothing catches a failure to save the gender.                     *)
ProfileSavedUncaught(c) ==
  /\ c.kind \in {"gender", "settings"}
  /\ auth' = [auth EXCEPT !.gendered = @ \/ c.at = "answered"]
  /\ Settled(c, {})
  /\ gender' = IF ~GenderAsked(auth') \/ (c.kind = "gender" /\ c.live /\ c.at = "answered") 
               THEN "idle" ELSE gender
  /\ settings' = (settings /\ ~(c.kind = "settings" /\ c.live /\ c.at = "answered"))
  /\ UNCHANGED <<server, route, leaving, ready, pending, chatPage, guard, authPage, events>>
(* syncProfile, for the gender dialog and for the settings: the answer     *)
(* changes the profile only, in whatever session is there by now.          *)
ProfileSaved(c) ==
  /\ c.kind \in {"gender", "settings"}
  /\ auth' = [auth EXCEPT !.gendered = @ \/ c.at = "answered"]
  /\ Settled(c, {})
  /\ gender' = IF ~GenderAsked(auth') \/ (c.kind = "gender" /\ c.live) THEN "idle" ELSE gender
  /\ settings' = (settings /\ ~(c.kind = "settings" /\ c.live /\ c.at = "answered"))
  /\ UNCHANGED <<server, route, leaving, ready, pending, chatPage, guard, authPage, events>>

Settle(c) ==
  \/ Booted(c)
  \/ Probed(c)
  \/ Guarded(c)
  \/ Synced(c)
  \/ SyncNext(c)
  \/ StackLeft(c)
  \/ SignedOut(c)
  \/ LoggedOut(c)
  \/ ProfileSaved(c)

--------------------------------------------------------------------------------
(* The effects of the page that is shown.                                  *)
ChatEffects ==
  /\ route = "chat"
  /\ wasIn' = (wasIn \/ auth.in)
  /\ polling' = (ready /\ auth.in)
  /\ expired' = (expired \/ (ready /\ ~auth.in /\ wasIn))
  /\ leaving' = IF ready /\ ~auth.in /\ ~expired THEN "auth" ELSE leaving
  /\ UNCHANGED <<calls, guard, authPage>>

SyncEffects ==
  /\ route = "auth"
  /\ leaving' = IF ready /\ auth.in THEN "chat" ELSE leaving
  /\ LET due == stack /\ ~auth.in /\ ready
         old == {IF c.kind = "sync" THEN [c EXCEPT !.live = FALSE] ELSE c : c \in calls}
     IN /\ calls' = old \cup IF due THEN {[Call("sync") EXCEPT !.n = 1]} ELSE {}
        /\ syncing' = due
  /\ syncFailed' = FALSE
  /\ UNCHANGED <<chatPage, guard>>

GuardEffects ==
  /\ route \in AdminPage
  /\ leaving' = IF ready /\ ~revalidating /\ ~auth.in THEN "landing" ELSE leaving
  /\ LET ask == ready /\ auth.in /\ validated # CurrentKey /\ ~revalidating
     IN /\ calls' = calls \cup IF ask THEN {[Call("guard") EXCEPT !.key = CurrentKey]} ELSE {}
        /\ revalidating' = (ask \/ (revalidating /\ (auth.in \/ ~ready)))
        /\ validated' = IF ready /\ ~auth.in THEN CurrentKey ELSE validated
  /\ UNCHANGED <<chatPage, authPage>>

Effects ==
  /\ pending
  /\ pending' = FALSE
  /\ \/ ChatEffects \/ SyncEffects \/ GuardEffects
     \/ route = "landing" /\ UNCHANGED <<leaving, calls, chatPage, guard, authPage>>
  /\ UNCHANGED <<server, route, auth, ready, dialogs, events>>

(* The interval of the chat page, and a socket the server refused.         *)
Poll ==
  /\ polling
  /\ calls' = calls \cup {Call("probe")}
  /\ UNCHANGED <<server, route, leaving, auth, ready, pending, chatPage, guard, authPage,
                 dialogs, events>>

--------------------------------------------------------------------------------
(* Another page.  Layout keeps its AuthProvider from page to page; the     *)
(* sign-in page has its own, which starts anew, as a reload does.  Calls   *)
(* of a provider that is gone have nothing left to change.                 *)
Keeps(from, to) == from # "auth" /\ to # "auth"
Show(to, anew) ==
  /\ route' = to
  /\ leaving' = NoPage
  /\ polling' = FALSE /\ wasIn' = FALSE /\ expired' = FALSE
  /\ gender' = "idle" /\ settings' = FALSE
  /\ syncing' = FALSE /\ syncFailed' = FALSE
  /\ IF {route, to} \subseteq AdminPage /\ ~anew THEN UNCHANGED guard
     ELSE validated' = NoKey /\ revalidating' = FALSE
  /\ IF Keeps(route, to) /\ ~anew
     THEN /\ pending' = TRUE /\ UNCHANGED <<auth, ready>>
          /\ calls' = Orphaned(calls, {"gender", "settings"} \cup
                               IF {route, to} \subseteq AdminPage THEN {} ELSE {"guard"})
     ELSE pending' = FALSE /\ auth' = Empty /\ ready' = FALSE /\ calls' = Mounting

Depart ==
  /\ leaving # NoPage
  /\ Show(leaving, FALSE)
  /\ UNCHANGED <<server, events>>

Visit(to) ==
  /\ Event
  /\ \/ route = "landing" /\ to = (IF auth.in THEN "chat" ELSE "auth") /\ Show(to, FALSE)
     \/ route = "chat" /\ ready /\ auth.in /\ auth.admin /\ to = "reports" /\ Show(to, FALSE)
     \/ route \in AdminPage /\ ready /\ auth.in /\ to \in AdminPage \ {route} /\ Show(to, FALSE)
     \/ Show(to, TRUE)
  /\ UNCHANGED server

(* The buttons of the sign-in page, once the attempts have failed.         *)
RetrySync ==
  /\ route = "auth" /\ syncFailed /\ stack
  /\ Event
  /\ pending' = TRUE
  /\ UNCHANGED <<server, route, leaving, auth, ready, calls, chatPage, guard, authPage, dialogs>>
SignOut ==
  /\ route = "auth" /\ syncFailed /\ stack
  /\ Event
  /\ syncing' = TRUE /\ syncFailed' = FALSE
  /\ calls' = calls \cup {[Call("signout") EXCEPT !.at = "stack"]}
  /\ UNCHANGED <<server, route, leaving, auth, ready, pending, chatPage, guard, dialogs>>

(* The logout button of the chat page, and the settings dialog.            *)
OnChat == route = "chat" /\ ready /\ auth.in /\ ~auth.restricted /\ ~expired
Logout ==
  /\ OnChat
  /\ Event
  /\ calls' = calls \cup {Call("logout")}
  /\ UNCHANGED <<server, route, leaving, auth, ready, pending, chatPage, guard, authPage, dialogs>>
Settings ==
  /\ OnChat /\ auth.gendered
  /\ Event
  /\ settings' = ~settings
  /\ UNCHANGED <<server, route, leaving, auth, ready, calls, pending, chatPage, guard, authPage, gender>>
SaveSettings ==
  /\ OnChat /\ settings
  /\ Event
  /\ calls' = calls \cup {Call("settings")}
  /\ UNCHANGED <<server, route, leaving, auth, ready, pending, chatPage, guard, authPage, dialogs>>

(* The gender dialog: a card is held for three seconds, or let go; then    *)
(* particles come and fade, and the gender is saved.                       *)
Press ==
  /\ OnChat /\ ~auth.gendered /\ gender = "idle"
  /\ Event
  /\ gender' = "holding"
  /\ UNCHANGED <<server, route, leaving, auth, ready, calls, pending, chatPage, guard, authPage, settings>>
LetGo ==
  /\ gender = "holding"
  /\ gender' = "idle"
  /\ UNCHANGED <<server, route, leaving, auth, ready, calls, pending, chatPage, guard, authPage, settings, events>>
HeldLongEnough ==
  /\ \/ gender = "holding" /\ gender' = "appear"
     \/ gender = "appear" /\ gender' = "disappear"
  /\ UNCHANGED <<server, route, leaving, auth, ready, calls, pending, chatPage, guard, authPage, settings, events>>
Faded == gender = "disappear"  \* the particles are gone
SaveGender ==
  /\ Faded
  /\ gender' = "saving"
  /\ calls' = calls \cup {Call("gender")}
  /\ UNCHANGED <<server, route, leaving, auth, ready, pending, chatPage, guard, authPage, settings, events>>

Next ==
  \/ LoginChanges
  \/ \E c \in calls : Serve(c) \/ Lose(c) \/ Settle(c)
  \/ Effects
  \/ Poll
  \/ Depart
  \/ \E to \in Route : Visit(to)
  \/ RetrySync
  \/ SignOut
  \/ Logout
  \/ Settings
  \/ SaveSettings
  \/ Press
  \/ LetGo
  \/ HeldLongEnough
  \/ SaveGender

(* Requests are answered or time out, timers fire, effects run.            *)
Fairness ==
  /\ WF_vars(\E c \in calls : Serve(c))
  /\ WF_vars(\E c \in calls : Settle(c))
  /\ WF_vars(Effects)
  /\ WF_vars(Poll)

Spec == Init /\ [][Next]_vars
LiveSpec == Spec /\ Fairness

--------------------------------------------------------------------------------
Key == [page : AdminPage, in : BOOLEAN] \cup {NoKey}
CallRecord ==
  [kind : Kind, key : Key, n : 0..SyncAttempts, live : BOOLEAN,
   at : {"stack", "sent", "answered", "failed", "waiting"}, seen : Login]

(* What the browser believes and asks is of the forms the pages know; no   *)
(* loop of the sign-in page makes more than SyncAttempts attempts.         *)
TypeOK ==
  /\ login \in Login /\ stack \in BOOLEAN
  /\ route \in Route /\ leaving \in {NoPage, "auth", "chat", "landing"}
  /\ auth \in Login /\ ready \in BOOLEAN
  /\ calls \subseteq CallRecord
  /\ pending \in BOOLEAN
  /\ polling \in BOOLEAN /\ wasIn \in BOOLEAN /\ expired \in BOOLEAN
  /\ validated \in Key /\ revalidating \in BOOLEAN
  /\ syncing \in BOOLEAN /\ syncFailed \in BOOLEAN
  /\ gender \in {"idle", "holding", "appear", "disappear", "saving"}
  /\ settings \in BOOLEAN
  /\ events \in 0..MaxEvents

(* No page waits for nothing: while one shows that it is loading,          *)
(* revalidating, syncing or saving, the request or loop it waits for is    *)
(* under way, and only one loop of the sign-in page is.                    *)
WaitsForSomething ==
  /\ ready \/ InFlight("boot")
  /\ revalidating => InFlight("guard")
  /\ syncing => InFlight("signout") \/ \E c \in calls : c.kind = "sync" /\ c.live
  /\ gender = "saving" => InFlight("gender")
  /\ \A c, d \in calls : c.kind = "sync" /\ d.kind = "sync" /\ c.live /\ d.live => c = d

(* A login the server has ended is noticed on the chat page, although      *)
(* older answers may still arrive and requests may fail.                   *)
EndNoticed ==
  route = "chat" /\ ready /\ auth.in /\ ~login.in ~>
    route # "chat" \/ ~ready \/ ~auth.in \/ login.in

================================================================================
