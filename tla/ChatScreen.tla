------------------------------- MODULE ChatScreen -------------------------------
(***************************************************************************)
(* What a signed-in user sees: the chat page around the runtime of         *)
(* ChatClient, with the composer and its typing notice, the list that      *)
(* follows new messages, the sidebar and its report dialog, the toasts,    *)
(* the soft keyboard and the number of users online.                       *)
(*                                                                         *)
(* Frames change a store that React renders at once, effects included, so  *)
(* a frame or a click is one action.  Timers, animation frames and HTTP    *)
(* answers come later, whatever has happened since.                        *)
(***************************************************************************)
EXTENDS Integers, FiniteSets

CONSTANTS
  Partner,      \* the users one may be matched with
  MaxMessages,  \* messages of a chat (bounds the model)
  MaxEvents     \* clicks, keys, frames and faults (bounds the model)

ASSUME BoundAssumption == MaxMessages \in Nat /\ MaxEvents \in Nat

VARIABLES
  link,       \* bootstrap and socket, as rendered
  me,         \* my state
  stranger,   \* the partner shown
  messages,   \* how many are shown
  text,       \* the composer holds more than blanks
  meTyping,   \* the composer's flag
  timer,      \* the typing timeout: pending, and whom it will tell
  said,       \* the partner was last told that I am typing
  follow,     \* wasAtBottomRef
  scroll,     \* a scroll to the bottom is pending
  layout,     \* of the workspace: compact, collapsed, sheet
  dialog,     \* the report dialog
  reports,    \* reports sent and not answered
  toast,      \* the toast shown
  expiring,   \* toastTimeouts
  toasts,     \* how many were made (genId)
  viewport,   \* keyboard, rotation and what the page makes of them
  count,      \* online users: shown, last pushed, and the query's state
  online,     \* server: the count, as the number of its changes
  events      \* events so far

chat == <<me, stranger, messages>>
composer == <<text, meTyping, timer, said>>
list == <<follow, scroll>>
report == <<dialog, reports>>
notices == <<toast, expiring, toasts>>
presence == <<count, online>>
vars == <<link, chat, composer, list, layout, report, notices, viewport, presence, events>>

--------------------------------------------------------------------------------
Nobody == "nobody"
PartnerOrNobody == Partner \cup {Nobody}

NoTimer == [pending |-> FALSE, to |-> Nobody]
NewDialog == [open |-> FALSE, other |-> FALSE, details |-> FALSE,
              submitting |-> FALSE, error |-> FALSE]
NoToast == [id |-> 0, open |-> FALSE]
NoFetch == [asked |-> FALSE, answer |-> -1]

Init ==
  /\ link = "bootstrapping"
  /\ me = "none" /\ stranger = Nobody /\ messages = 0
  /\ text = FALSE /\ meTyping = FALSE /\ timer = NoTimer /\ said = FALSE
  /\ follow = TRUE /\ scroll = FALSE
  /\ \E compact \in BOOLEAN :
       layout = [compact |-> compact, collapsed |-> compact, sheet |-> FALSE]
  /\ dialog = NewDialog /\ reports = {}
  /\ toast = NoToast /\ expiring = {} /\ toasts = 0
  /\ viewport = [keyboard |-> FALSE, rotated |-> FALSE, full |-> 3, panel |-> FALSE,
                 turning |-> FALSE, frame |-> FALSE, locked |-> FALSE]
  /\ count = [shown |-> -1, pushed |-> -1, fetch |-> [NoFetch EXCEPT !.asked = TRUE],
              recent |-> FALSE, polling |-> FALSE, failed |-> FALSE]
  /\ online = 0
  /\ events = 0

Event == events < MaxEvents /\ events' = events + 1

(* toast(): the new one takes the place of the one shown (TOAST_LIMIT 1).  *)
ShowToast ==
  /\ toasts' = toasts + 1
  /\ toast' = [id |-> toasts', open |-> TRUE]
  /\ UNCHANGED expiring

--------------------------------------------------------------------------------
(* Rendering.  The report button is there while the partner is, and so is  *)
(* its dialog: what it held is gone with it, and answers find nobody.      *)
SidebarShown == layout.sheet \/ (~layout.collapsed /\ ~layout.compact)
CanReport == link = "connected" /\ me = "connected" /\ stranger # Nobody /\ SidebarShown
Orphaned(R) == {[r EXCEPT !.mine = FALSE] : r \in R}
RenderDialog ==
  IF CanReport' THEN UNCHANGED report
  ELSE dialog' = NewDialog /\ reports' = Orphaned(reports)

(* The sidebar gives way when a chat begins and comes back when it ends.   *)
Arranged(m) ==
  IF m = "connected" /\ me # "connected"
  THEN [layout EXCEPT !.collapsed = TRUE, !.sheet = FALSE]
  ELSE [layout EXCEPT !.collapsed = @ /\ ~(me = "connected" /\ m # "connected" /\ ~layout.compact)]

(* A render of the provider passes another emitTyping, so that the typing  *)
(* timeout starts again and tells the partner of that render.              *)
RearmTimer == timer' = IF meTyping' THEN [pending |-> TRUE, to |-> stranger'] ELSE timer

(* The store has changed: a longer list is followed by one who was at its  *)
(* end, and another partner has been told nothing.                         *)
Show(m, s, n) ==
  /\ me' = m /\ stranger' = s /\ messages' = n
  /\ layout' = Arranged(m)
  /\ scroll' = (scroll \/ (n > messages /\ follow))
  /\ RearmTimer
  /\ RenderDialog
  /\ UNCHANGED follow

(* Bootstrap, opening, loss and recovery of the socket (ChatClient).       *)
LinkStep == {<<"bootstrapping", "connecting">>, <<"bootstrapping", "error">>,
             <<"connecting", "connected">>, <<"connected", "reconnecting">>,
             <<"reconnecting", "connected">>}
LinkChanges(l) ==
  /\ <<link, l>> \in LinkStep
  /\ IF l = "reconnecting" THEN Event ELSE UNCHANGED events
  /\ link' = l
  /\ UNCHANGED <<text, meTyping, said, notices, viewport, presence>>
  /\ Show(me, stranger, messages)

(* Frames of the chat.                                                     *)
Incoming(m, s, n) ==
  /\ link = "connected"
  /\ Event
  /\ UNCHANGED <<link, text, meTyping, notices, viewport, presence>>
  /\ Show(m, s, n)
  /\ said' = (said /\ s = stranger)
UserInfo(m) ==
  IF m = "idle" THEN Incoming(m, Nobody, 0) ELSE Incoming(m, stranger, messages)
Match(p) == Incoming(me, p, messages)
Message == messages < MaxMessages /\ Incoming(me, stranger, messages + 1)
PartnerLeft == messages < MaxMessages /\ Incoming(me, Nobody, messages + 1)
ErrorFrame ==
  /\ link = "connected"
  /\ Event
  /\ ShowToast
  /\ UNCHANGED <<link, chat, composer, list, layout, report, viewport, presence>>

(* The start button of an empty page and the reroll button of a chat.      *)
StartShown ==
  messages = 0 /\ me # "searching" /\ stranger = Nobody /\ link \notin {"error", "bootstrapping"}
Connect ==
  /\ StartShown \/ me = "connected"
  /\ Event
  /\ UNCHANGED <<link, text, meTyping, viewport, presence>>
  /\ IF link = "connected" /\ me # "none"
     THEN Show(me, Nobody, 0) /\ said' = FALSE /\ UNCHANGED notices
     ELSE ShowToast /\ UNCHANGED <<chat, timer, said, list, layout, report>>
RetryBootstrap ==
  /\ messages = 0 /\ link = "error"
  /\ Event
  /\ link' = "bootstrapping"
  /\ UNCHANGED <<chat, composer, list, layout, report, notices, viewport, presence>>

--------------------------------------------------------------------------------
(* The composer.  The first key tells the partner; so does two seconds     *)
(* without another render, and a message sent.                             *)
ComposerEnabled == link = "connected" /\ stranger # Nobody /\ me = "connected"

Type(filled) ==
  /\ ComposerEnabled
  /\ Event
  /\ UNCHANGED <<link, chat, list, layout, report, notices, viewport, presence>>
  /\ text' = filled
  /\ meTyping' = TRUE
  /\ IF meTyping THEN UNCHANGED <<said, timer>> ELSE said' = TRUE /\ RearmTimer

TypingTimeout ==
  /\ timer.pending
  /\ timer' = NoTimer
  /\ meTyping' = FALSE
  /\ said' = (said /\ timer.to = Nobody)
  /\ UNCHANGED <<link, chat, text, list, layout, report, notices, viewport, presence, events>>

(* Slip: a message is taken to say that the typing is over.                *)
SubmitQuietly ==
  /\ ComposerEnabled /\ text
  /\ messages < MaxMessages
  /\ Event
  /\ text' = FALSE /\ meTyping' = FALSE /\ said' = said
  /\ UNCHANGED <<link, notices, viewport, presence>>
  /\ Show(me, stranger, messages + 1)
(* onSubmit: the message is sent and shown.  The timeout is left running.  *)
Submit ==
  /\ ComposerEnabled /\ text
  /\ messages < MaxMessages
  /\ Event
  /\ text' = FALSE /\ meTyping' = FALSE /\ said' = FALSE
  /\ UNCHANGED <<link, notices, viewport, presence>>
  /\ Show(me, stranger, messages + 1)

(* The list.  An empty page has no scroll handler, and a smooth scroll     *)
(* reports every place on its way.                                         *)
UserScrolls(bottom) ==
  /\ messages > 0 /\ follow # bottom
  /\ Event
  /\ follow' = bottom
  /\ UNCHANGED <<link, chat, composer, scroll, layout, report, notices, viewport, presence>>
ScrollDown ==
  /\ scroll /\ scroll' = FALSE
  /\ follow' \in IF messages > 0 THEN BOOLEAN ELSE {follow}
  /\ UNCHANGED <<link, chat, composer, layout, report, notices, viewport, presence, events>>

--------------------------------------------------------------------------------
(* The workspace.                                                          *)
Arrange(l) ==
  /\ layout' = l
  /\ UNCHANGED <<link, chat, composer, list, notices, viewport, presence>>
  /\ RenderDialog
Resize(compact) ==
  /\ layout.compact # compact
  /\ Event
  /\ Arrange([layout EXCEPT !.compact = compact, !.collapsed = @ \/ compact])
OpenSidebar ==
  /\ layout.collapsed
  /\ Event
  /\ Arrange(IF layout.compact THEN [layout EXCEPT !.sheet = TRUE]
             ELSE [layout EXCEPT !.collapsed = FALSE])
CloseSidebar ==
  /\ SidebarShown /\ ~dialog.open
  /\ Event
  /\ Arrange(IF layout.sheet THEN [layout EXCEPT !.sheet = FALSE]
             ELSE [layout EXCEPT !.collapsed = TRUE])

(* The report dialog.  Closing it, by Escape too, clears it; a request     *)
(* under way goes on.                                                      *)
OpenDialog ==
  /\ CanReport /\ ~dialog.open
  /\ Event
  /\ dialog' = [dialog EXCEPT !.open = TRUE]
  /\ UNCHANGED <<link, chat, composer, list, layout, reports, notices, viewport, presence>>
CloseDialog ==
  /\ dialog.open
  /\ Event
  /\ dialog' = NewDialog
  /\ UNCHANGED <<link, chat, composer, list, layout, reports, notices, viewport, presence>>
Fill(other, details) ==
  /\ dialog.open
  /\ Event
  /\ dialog' = [dialog EXCEPT !.other = other, !.details = details, !.error = FALSE]
  /\ UNCHANGED <<link, chat, composer, list, layout, reports, notices, viewport, presence>>

(* submitReport: "other" asks for details.                                 *)
SubmitReport ==
  /\ dialog.open /\ ~dialog.submitting
  /\ Event
  /\ IF dialog.other /\ ~dialog.details
     THEN ShowToast /\ dialog' = [dialog EXCEPT !.error = TRUE] /\ UNCHANGED reports
     ELSE /\ dialog' = [dialog EXCEPT !.submitting = TRUE, !.error = FALSE]
          /\ reports' = reports \cup {[id |-> events', about |-> stranger, mine |-> TRUE]}
          /\ UNCHANGED notices
  /\ UNCHANGED <<link, chat, composer, list, layout, viewport, presence>>

(* An answer closes the dialog or leaves the error in it, be it closed or  *)
(* opened again since; where it has gone, only the toast appears.          *)
ReportAnswered(r, accepted) ==
  /\ reports' = reports \ {r}
  /\ dialog' = IF ~r.mine THEN dialog
               ELSE IF accepted /\ dialog.open THEN NewDialog
               ELSE [dialog EXCEPT !.error = @ \/ ~accepted, !.submitting = FALSE]
  /\ ShowToast
  /\ UNCHANGED <<link, chat, composer, list, layout, viewport, presence, events>>

(* A toast closes by itself or by its button, and goes much later.         *)
AddToRemoveQueue(id) == expiring \cup {id}
DismissToast ==
  /\ toast.open
  /\ toast' = [toast EXCEPT !.open = FALSE]
  /\ expiring' = AddToRemoveQueue(toast.id)
  /\ UNCHANGED <<link, chat, composer, list, layout, report, toasts, viewport, presence, events>>
RemoveToast(id) ==
  /\ id \in expiring
  /\ expiring' = expiring \ {id}
  /\ toast' = IF toast.id = id THEN NoToast ELSE toast
  /\ UNCHANGED <<link, chat, composer, list, layout, report, toasts, viewport, presence, events>>

--------------------------------------------------------------------------------
(* The soft keyboard and the screen's turning, in heights of which one     *)
(* step is more than the threshold.  The panel compares with the largest   *)
(* height seen, the layout, a frame later, with the window's.              *)
Height(v) == 3 - (IF v.rotated THEN 1 ELSE 0) - (IF v.keyboard THEN 1 ELSE 0)
Measured(v) ==
  LET full == IF Height(v) > v.full THEN Height(v) ELSE v.full
  IN  [v EXCEPT !.full = full, !.panel = full > Height(v)]
Viewport(v) ==
  /\ viewport' = v
  /\ scroll' = (scroll \/ (v.panel /\ ~viewport.panel))
  /\ UNCHANGED <<link, chat, composer, follow, layout, report, notices, presence>>
Keyboard(on) ==
  /\ viewport.keyboard # on
  /\ Event
  /\ Viewport(Measured([viewport EXCEPT !.keyboard = on, !.frame = TRUE]))
Rotate ==
  /\ Event
  /\ Viewport(Measured([viewport EXCEPT !.rotated = ~@, !.frame = TRUE, !.turning = TRUE]))
(* Some time after it has turned, the height there is counts as full.      *)
Rotated ==
  /\ viewport.turning
  /\ Viewport(Measured([viewport EXCEPT !.turning = FALSE, !.full = Height(viewport)]))
  /\ UNCHANGED events
LockPage ==
  /\ viewport.frame
  /\ Viewport([viewport EXCEPT !.frame = FALSE, !.locked = viewport.keyboard])
  /\ UNCHANGED events

--------------------------------------------------------------------------------
(* The number of users online: pushed on the socket, and asked for over    *)
(* HTTP while nothing was pushed lately.                                   *)
CountStep == UNCHANGED <<link, chat, composer, list, layout, report, notices, viewport>>
CountChanges ==
  /\ Event
  /\ online' = online + 1
  /\ CountStep /\ UNCHANGED count

(* Slip: the query under way is left to answer.                            *)
PushCountOnly(n) ==
  /\ link = "connected"
  /\ Event
  /\ count' = [count EXCEPT !.shown = n, !.pushed = n, !.recent = TRUE,
                            !.polling = FALSE, !.failed = FALSE]
  /\ CountStep /\ UNCHANGED online
(* onPresenceCount: the query under way is cancelled first.                *)
PushCount(n) ==
  /\ link = "connected"
  /\ Event
  /\ count' = [count EXCEPT !.shown = n, !.pushed = n, !.fetch = NoFetch, !.recent = TRUE,
                            !.polling = FALSE, !.failed = FALSE]
  /\ CountStep /\ UNCHANGED online
PushGrowsOld ==
  /\ count.recent
  /\ count' = [count EXCEPT !.recent = FALSE]
  /\ CountStep /\ UNCHANGED <<online, events>>

(* A render, or an answer, sets the interval or clears it.                 *)
Polling(c) == [c EXCEPT !.polling = ~c.failed /\ ~c.recent]
RenderCount ==
  /\ Polling(count) # count
  /\ count' = Polling(count)
  /\ CountStep /\ UNCHANGED <<online, events>>
Poll ==
  /\ count.polling /\ ~count.fetch.asked
  /\ Event
  /\ count' = [count EXCEPT !.fetch = [NoFetch EXCEPT !.asked = TRUE]]
  /\ CountStep /\ UNCHANGED online
ServeCount ==
  /\ count.fetch.asked /\ count.fetch.answer = -1
  /\ count' = [count EXCEPT !.fetch.answer = online]
  /\ CountStep /\ UNCHANGED <<online, events>>
CountAnswered ==
  /\ count.fetch.answer # -1
  /\ count' = Polling([count EXCEPT !.shown = count.fetch.answer, !.fetch = NoFetch, !.failed = FALSE])
  /\ CountStep /\ UNCHANGED <<online, events>>
CountFailed ==
  /\ count.fetch.asked
  /\ Event
  /\ count' = Polling([count EXCEPT !.fetch = NoFetch, !.failed = TRUE])
  /\ CountStep /\ UNCHANGED online

--------------------------------------------------------------------------------
Frames ==
  \/ \E m \in {"idle", "searching", "connected"} : UserInfo(m)
  \/ \E p \in Partner : Match(p)
  \/ Message
  \/ PartnerLeft
  \/ ErrorFrame

User ==
  \/ Connect
  \/ RetryBootstrap
  \/ \E filled \in BOOLEAN : Type(filled)
  \/ Submit
  \/ \E bottom \in BOOLEAN : UserScrolls(bottom)
  \/ OpenSidebar
  \/ CloseSidebar
  \/ OpenDialog
  \/ CloseDialog
  \/ \E other, details \in BOOLEAN : Fill(other, details)
  \/ SubmitReport
  \/ DismissToast

Browser ==
  \/ \E l \in {"connecting", "error", "connected", "reconnecting"} : LinkChanges(l)
  \/ TypingTimeout
  \/ ScrollDown
  \/ \E compact \in BOOLEAN : Resize(compact)
  \/ \E r \in reports, accepted \in BOOLEAN : ReportAnswered(r, accepted)
  \/ \E id \in expiring : RemoveToast(id)
  \/ \E on \in BOOLEAN : Keyboard(on)
  \/ Rotate
  \/ Rotated
  \/ LockPage

Presence ==
  \/ CountChanges
  \/ \E n \in 0..online : n >= count.pushed /\ PushCount(n)
  \/ PushGrowsOld
  \/ RenderCount
  \/ Poll
  \/ ServeCount
  \/ CountAnswered
  \/ CountFailed

Next == Frames \/ User \/ Browser \/ Presence
Spec == Init /\ [][Next]_vars

--------------------------------------------------------------------------------
(* Every part of the page is in a state the program has.                   *)
TypeOK ==
  /\ link \in {"bootstrapping", "error", "connecting", "connected", "reconnecting"}
  /\ me \in {"none", "idle", "searching", "connected"}
  /\ stranger \in PartnerOrNobody
  /\ messages \in 0..MaxMessages
  /\ text \in BOOLEAN /\ meTyping \in BOOLEAN /\ said \in BOOLEAN
  /\ timer \in [pending : BOOLEAN, to : PartnerOrNobody]
  /\ follow \in BOOLEAN /\ scroll \in BOOLEAN
  /\ layout \in [compact : BOOLEAN, collapsed : BOOLEAN, sheet : BOOLEAN]
  /\ dialog \in [open : BOOLEAN, other : BOOLEAN, details : BOOLEAN,
                 submitting : BOOLEAN, error : BOOLEAN]
  /\ reports \subseteq [id : 1..MaxEvents, about : Partner, mine : BOOLEAN]
  /\ toast \in [id : Nat, open : BOOLEAN] /\ toasts \in Nat /\ expiring \subseteq 1..toasts
  /\ viewport \in [keyboard : BOOLEAN, rotated : BOOLEAN, full : 1..3, panel : BOOLEAN,
                   turning : BOOLEAN, frame : BOOLEAN, locked : BOOLEAN]
  /\ count \in [shown : Int, pushed : Int, fetch : [asked : BOOLEAN, answer : Int],
                recent : BOOLEAN, polling : BOOLEAN, failed : BOOLEAN]
  /\ online \in Nat
  /\ events \in 0..MaxEvents

(* A partner who was told that I am typing will be told that I am not: the *)
(* timeout that says so is pending, and not for somebody who has gone,     *)
(* whatever renders, frames and lost sockets come in between.              *)
TypingTakenBack ==
  said => stranger # Nobody /\ meTyping /\ timer.pending /\ timer.to = stranger

(* The count shown is never older than the last one pushed, however late   *)
(* the HTTP answers are.                                                   *)
CountFresh == count.shown >= count.pushed

(* The report dialog locks its buttons only while a report of its own is   *)
(* under way, and a toast that has closed is going to be removed.          *)
NeverLocked ==
  /\ dialog.submitting => \E r \in reports : r.mine
  /\ toast.id # 0 /\ ~toast.open => toast.id \in expiring

================================================================================
