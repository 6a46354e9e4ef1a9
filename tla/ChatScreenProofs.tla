---------------------------- MODULE ChatScreenProofs ----------------------------
(* Proofs about ChatScreen: its types, the typing notice that is always     *)
(* taken back, the count that is never older than the last push, and the    *)
(* dialog and toasts that never stay locked.                                *)
EXTENDS ChatScreen, TLAPS

--------------------------------------------------------------------------------
(* The inductive invariant, in the parts that steps change together.       *)

PageOK ==
  /\ link \in {"bootstrapping", "error", "connecting", "connected", "reconnecting"}
  /\ me \in {"none", "idle", "searching", "connected"}
  /\ stranger \in PartnerOrNobody
  /\ messages \in 0..MaxMessages
  /\ layout \in [compact : BOOLEAN, collapsed : BOOLEAN, sheet : BOOLEAN]
  /\ events \in 0..MaxEvents

ComposerOK ==
  /\ text \in BOOLEAN /\ meTyping \in BOOLEAN /\ said \in BOOLEAN
  /\ timer \in [pending : BOOLEAN, to : PartnerOrNobody]

ViewType == [keyboard : BOOLEAN, rotated : BOOLEAN, full : 1..3, panel : BOOLEAN,
             turning : BOOLEAN, frame : BOOLEAN, locked : BOOLEAN]
ViewOK ==
  /\ follow \in BOOLEAN /\ scroll \in BOOLEAN
  /\ viewport \in ViewType

(* The dialog is open on the page of a partner only, so that every report  *)
(* is about one.                                                           *)
ReportOK ==
  /\ dialog \in [open : BOOLEAN, other : BOOLEAN, details : BOOLEAN,
                 submitting : BOOLEAN, error : BOOLEAN]
  /\ reports \subseteq [id : 1..MaxEvents, about : Partner, mine : BOOLEAN]
  /\ dialog.open => CanReport
  /\ dialog.submitting => \E r \in reports : r.mine

(* Toasts are numbered in the order they were made.                        *)
ToastType(n) == [id : 0..n, open : BOOLEAN]
ToastOK ==
  /\ toasts \in Nat
  /\ toast \in ToastType(toasts)
  /\ expiring \subseteq 1..toasts
  /\ toast.open => toast.id # 0
  /\ toast.id # 0 /\ ~toast.open => toast.id \in expiring

(* What was pushed is no newer than the server's count, and what has been  *)
(* answered, or is shown, is no older than what was pushed.                *)
CountType == [shown : Int, pushed : Int, fetch : [asked : BOOLEAN, answer : Int],
              recent : BOOLEAN, polling : BOOLEAN, failed : BOOLEAN]
CountOK ==
  /\ online \in Nat
  /\ count \in CountType
  /\ count.pushed <= online
  /\ count.fetch.answer # -1 => count.fetch.answer >= count.pushed
  /\ count.shown >= count.pushed

Inv ==
  PageOK /\ ComposerOK /\ ViewOK /\ ReportOK /\ ToastOK /\ CountOK /\ TypingTakenBack

LEMMA InvHolds == Inv => TypeOK /\ TypingTakenBack /\ CountFresh /\ NeverLocked
<1> SUFFICES ASSUME Inv PROVE TypeOK /\ CountFresh /\ NeverLocked
  BY DEF Inv
<1>1. toast \in [id : Nat, open : BOOLEAN]
  BY DEF Inv, ToastOK, ToastType
<1> QED
  BY <1>1 DEF Inv, PageOK, ComposerOK, ViewOK, ViewType, ReportOK, ToastOK, CountOK,
              CountType, TypeOK, CountFresh, NeverLocked

LEMMA InitInv == Init => Inv
<1> SUFFICES ASSUME Init PROVE Inv
  OBVIOUS
<1> USE BoundAssumption
<1>1. PageOK
  BY DEF Init, PageOK, PartnerOrNobody
<1>2. ComposerOK /\ TypingTakenBack
  BY DEF Init, ComposerOK, TypingTakenBack, NoTimer, PartnerOrNobody
<1>3. ViewOK
  <2>1. /\ follow = TRUE /\ scroll = FALSE
        /\ viewport = [keyboard |-> FALSE, rotated |-> FALSE, full |-> 3, panel |-> FALSE,
                       turning |-> FALSE, frame |-> FALSE, locked |-> FALSE]
    BY DEF Init
  <2>2. 3 \in 1..3
    OBVIOUS
  <2> QED
    BY <2>1, <2>2, Zenon DEF ViewOK, ViewType
<1>4. ReportOK
  BY DEF Init, ReportOK, NewDialog
<1>5. ToastOK
  BY DEF Init, ToastOK, ToastType, NoToast
<1>6. CountOK
  <2>1. count = [shown |-> -1, pushed |-> -1, fetch |-> [asked |-> TRUE, answer |-> -1],
                 recent |-> FALSE, polling |-> FALSE, failed |-> FALSE]
    BY DEF Init, NoFetch
  <2>2. online = 0
    BY DEF Init
  <2> QED
    BY <2>1, <2>2 DEF CountOK, CountType
<1> QED
  BY <1>1, <1>2, <1>3, <1>4, <1>5, <1>6 DEF Inv

--------------------------------------------------------------------------------
(* Who changes what.                                                       *)

LEMMA ToastSteps ==
  Next => \/ ShowToast
          \/ DismissToast
          \/ \E id \in expiring : RemoveToast(id)
          \/ UNCHANGED notices
<1> SUFFICES ASSUME Next PROVE ShowToast \/ DismissToast \/ (\E id \in expiring : RemoveToast(id))
                               \/ UNCHANGED notices
  OBVIOUS
<1>1. CASE Frames
  BY <1>1 DEF Frames, UserInfo, Match, Message, PartnerLeft, Incoming, ErrorFrame
<1>2. CASE User
  BY <1>2 DEF User, Connect, RetryBootstrap, Type, Submit, UserScrolls, OpenSidebar, CloseSidebar,
              Arrange, OpenDialog, CloseDialog, Fill, SubmitReport
<1>3. CASE Browser
  BY <1>3 DEF Browser, LinkChanges, TypingTimeout, ScrollDown, Resize, Arrange, ReportAnswered,
              Keyboard, Rotate, Rotated, LockPage, Viewport
<1>4. CASE Presence
  BY <1>4 DEF Presence, CountChanges, PushCount, PushGrowsOld, RenderCount, Poll, ServeCount,
              CountAnswered, CountFailed, CountStep
<1> QED
  BY <1>1, <1>2, <1>3, <1>4 DEF Next

LEMMA CountSteps == Next => Presence \/ UNCHANGED presence
<1> SUFFICES ASSUME Next, ~Presence PROVE UNCHANGED presence
  OBVIOUS
<1>1. CASE Frames
  BY <1>1 DEF Frames, UserInfo, Match, Message, PartnerLeft, Incoming, ErrorFrame
<1>2. CASE User
  BY <1>2 DEF User, Connect, RetryBootstrap, Type, Submit, UserScrolls, OpenSidebar, CloseSidebar,
              Arrange, OpenDialog, CloseDialog, Fill, SubmitReport, DismissToast
<1>3. CASE Browser
  BY <1>3 DEF Browser, LinkChanges, TypingTimeout, ScrollDown, Resize, Arrange, ReportAnswered,
              RemoveToast, Keyboard, Rotate, Rotated, LockPage, Viewport
<1> QED
  BY <1>1, <1>2, <1>3 DEF Next

LEMMA ReportSteps ==
  Next => \/ RenderDialog
          \/ UNCHANGED report /\ (CanReport => CanReport')
          \/ OpenDialog
          \/ CloseDialog
          \/ \E other, details \in BOOLEAN : Fill(other, details)
          \/ SubmitReport
          \/ \E r \in reports, accepted \in BOOLEAN : ReportAnswered(r, accepted)
<1> DEFINE Still == UNCHANGED report /\ (CanReport => CanReport')
<1>0. ASSUME UNCHANGED <<link, chat, layout, report>> PROVE Still
  BY <1>0 DEF chat, report, CanReport, SidebarShown
<1> SUFFICES ASSUME Next
             PROVE  \/ RenderDialog \/ Still \/ OpenDialog \/ CloseDialog
                    \/ \E other, details \in BOOLEAN : Fill(other, details)
                    \/ SubmitReport
                    \/ \E r \in reports, accepted \in BOOLEAN : ReportAnswered(r, accepted)
  OBVIOUS
<1>1. CASE Frames
  <2>1. RenderDialog \/ UNCHANGED <<link, chat, layout, report>>
    BY <1>1 DEF Frames, UserInfo, Match, Message, PartnerLeft, Incoming, Show, ErrorFrame
  <2> QED
    BY <2>1, <1>0
<1>2. CASE RetryBootstrap
  BY <1>2 DEF RetryBootstrap, CanReport
<1>3. CASE User
  <2>1. \/ RenderDialog \/ OpenDialog \/ CloseDialog \/ RetryBootstrap
        \/ \E other, details \in BOOLEAN : Fill(other, details)
        \/ SubmitReport
        \/ UNCHANGED <<link, chat, layout, report>>
    BY <1>3 DEF User, Connect, Show, Type, Submit, UserScrolls, OpenSidebar, CloseSidebar, Arrange,
                DismissToast
  <2> QED
    BY <2>1, <1>0, <1>2
<1>4. CASE Browser
  <2>1. \/ RenderDialog
        \/ \E r \in reports, accepted \in BOOLEAN : ReportAnswered(r, accepted)
        \/ UNCHANGED <<link, chat, layout, report>>
    BY <1>4 DEF Browser, LinkChanges, Show, TypingTimeout, ScrollDown, Resize, Arrange, RemoveToast,
                Keyboard, Rotate, Rotated, LockPage, Viewport
  <2> QED
    BY <2>1, <1>0
<1>5. CASE Presence
  <2>1. UNCHANGED <<link, chat, layout, report>>
    BY <1>5 DEF Presence, CountChanges, PushCount, PushGrowsOld, RenderCount, Poll, ServeCount,
                CountAnswered, CountFailed, CountStep
  <2> QED
    BY <2>1, <1>0
<1> QED
  BY <1>1, <1>3, <1>4, <1>5 DEF Next

(* A render of the chat: the timer is armed anew, and whoever was told of   *)
(* my typing is still the partner.                                         *)
Rerender ==
  /\ UNCHANGED <<text, meTyping>>
  /\ RearmTimer
  /\ said' \in BOOLEAN /\ (said' => said /\ stranger' = stranger)

LEMMA ComposerSteps ==
  ASSUME ComposerOK, Next
  PROVE  \/ UNCHANGED <<composer, stranger>>
         \/ Rerender
         \/ Submit
         \/ TypingTimeout
         \/ \E filled \in BOOLEAN : Type(filled)
<1>1. CASE Frames
  <2>1. ASSUME NEW m, NEW s, NEW n, Incoming(m, s, n) PROVE Rerender
    BY <2>1 DEF Incoming, Show, Rerender
  <2> QED
    BY <1>1, <2>1 DEF Frames, UserInfo, Match, Message, PartnerLeft, ErrorFrame, chat, composer
<1>2. CASE User
  BY <1>2 DEF User, Connect, Show, RetryBootstrap, UserScrolls, OpenSidebar, CloseSidebar, Arrange,
              OpenDialog, CloseDialog, Fill, SubmitReport, DismissToast, chat, composer, Rerender
<1>3. CASE Browser
  BY <1>3 DEF Browser, LinkChanges, Show, ScrollDown, Resize, Arrange, ReportAnswered, RemoveToast,
              Keyboard, Rotate, Rotated, LockPage, Viewport, chat, composer, Rerender, ComposerOK
<1>4. CASE Presence
  BY <1>4 DEF Presence, CountChanges, PushCount, PushGrowsOld, RenderCount, Poll, ServeCount,
              CountAnswered, CountFailed, CountStep, chat, composer
<1> QED
  BY <1>1, <1>2, <1>3, <1>4 DEF Next

--------------------------------------------------------------------------------
(* Each part is kept.                                                      *)

LEMMA ToastKept == ASSUME ToastOK, [Next]_vars PROVE ToastOK'
<1>1. CASE ShowToast
  BY <1>1 DEF ShowToast, ToastOK, ToastType
<1>2. CASE DismissToast
  <2>1. toasts' = toasts /\ toasts \in Nat /\ toast \in ToastType(toasts) /\ toast.open
    BY <1>2 DEF DismissToast, ToastOK
  <2>2. toast' = [toast EXCEPT !.open = FALSE]
    BY <1>2 DEF DismissToast
  <2>3. toast' \in ToastType(toasts)
    BY <2>1, <2>2 DEF ToastType
  <2>4. toast'.id = toast.id /\ toast'.open = FALSE
    BY <2>1, <2>2 DEF ToastType
  <2>5. toast.id \in 1..toasts
    BY <2>1 DEF ToastOK, ToastType
  <2>6. expiring' = expiring \cup {toast.id}
    BY <1>2 DEF DismissToast, AddToRemoveQueue
  <2> QED
    BY <2>1, <2>3, <2>4, <2>5, <2>6 DEF ToastOK
<1>3. ASSUME NEW id \in expiring, RemoveToast(id) PROVE ToastOK'
  BY <1>3 DEF RemoveToast, NoToast, ToastOK, ToastType
<1>4. CASE UNCHANGED notices
  BY <1>4 DEF notices, ToastOK
<1> QED
  BY <1>1, <1>2, <1>3, <1>4, ToastSteps DEF vars, notices

(* The count's record, field by field.                                     *)
LEMMA PollingFields ==
  ASSUME NEW c \in CountType
  PROVE  /\ Polling(c) \in CountType
         /\ Polling(c).shown = c.shown /\ Polling(c).pushed = c.pushed
         /\ Polling(c).fetch = c.fetch
BY DEF Polling, CountType

LEMMA NoFetchType == NoFetch \in [asked : BOOLEAN, answer : Int] /\ NoFetch.answer = -1
BY DEF NoFetch

LEMMA CountKept == ASSUME CountOK, [Next]_vars PROVE CountOK'
<1> USE NoFetchType
<1>c. count \in CountType /\ count.shown \in Int /\ count.pushed \in Int
      /\ count.fetch \in [asked : BOOLEAN, answer : Int] /\ count.fetch.answer \in Int
      /\ online \in Nat
  BY DEF CountOK, CountType
<1>1. CASE CountChanges
  BY <1>1, <1>c DEF CountChanges, CountOK
<1>2. ASSUME NEW n \in 0..online, n >= count.pushed, PushCount(n) PROVE CountOK'
  <2> DEFINE c == [count EXCEPT !.shown = n, !.pushed = n, !.fetch = NoFetch, !.recent = TRUE,
                                !.polling = FALSE, !.failed = FALSE]
  <2>n. n \in Int
    BY <1>c
  <2>1. c \in CountType
    BY <1>c, <2>n, Zenon DEF CountType
  <2>2. c.shown = n /\ c.pushed = n /\ c.fetch = NoFetch
    BY <1>c DEF CountType
  <2>3. count' = c /\ online' = online
    BY <1>2 DEF PushCount
  <2> QED
    BY <1>2, <2>1, <2>2, <2>3 DEF CountOK
<1>3. CASE PushGrowsOld
  <2> DEFINE c == [count EXCEPT !.recent = FALSE]
  <2>1. c \in CountType
    BY <1>c DEF CountType
  <2>2. c.shown = count.shown /\ c.pushed = count.pushed /\ c.fetch = count.fetch
    BY <1>c DEF CountType
  <2>3. count' = c /\ online' = online
    BY <1>3 DEF PushGrowsOld
  <2> QED
    BY <2>1, <2>2, <2>3 DEF CountOK
<1>4. CASE RenderCount
  BY <1>4, <1>c, PollingFields DEF RenderCount, CountOK
<1>5. CASE Poll
  <2> DEFINE f == [NoFetch EXCEPT !.asked = TRUE]
             c == [count EXCEPT !.fetch = f]
  <2>1. f \in [asked : BOOLEAN, answer : Int] /\ f.answer = -1
    BY DEF NoFetch
  <2> HIDE DEF f
  <2>2. c \in CountType
    BY <1>c, <2>1 DEF CountType
  <2>3. c.shown = count.shown /\ c.pushed = count.pushed /\ c.fetch = f
    BY <1>c DEF CountType
  <2>4. count' = c /\ online' = online
    BY <1>5 DEF Poll, f
  <2> QED
    BY <2>1, <2>2, <2>3, <2>4 DEF CountOK
<1>6. CASE ServeCount
  <2> DEFINE c == [count EXCEPT !.fetch.answer = online]
  <2>1. c \in CountType
    BY <1>c DEF CountType
  <2>2. c.shown = count.shown /\ c.pushed = count.pushed /\ c.fetch.answer = online
    BY <1>c DEF CountType
  <2>3. count' = c /\ online' = online
    BY <1>6 DEF ServeCount
  <2> QED
    BY <2>1, <2>2, <2>3 DEF CountOK
<1>7. CASE CountAnswered
  <2> DEFINE c == [count EXCEPT !.shown = count.fetch.answer, !.fetch = NoFetch, !.failed = FALSE]
  <2>1. c \in CountType
    BY <1>c DEF CountType
  <2>2. c.shown = count.fetch.answer /\ c.pushed = count.pushed /\ c.fetch = NoFetch
    BY <1>c DEF CountType
  <2>3. count' = Polling(c) /\ online' = online /\ count.fetch.answer # -1
    BY <1>7 DEF CountAnswered
  <2> HIDE DEF c
  <2> QED
    BY <2>1, <2>2, <2>3, PollingFields DEF CountOK
<1>8. CASE CountFailed
  <2> DEFINE c == [count EXCEPT !.fetch = NoFetch, !.failed = TRUE]
  <2>1. c \in CountType
    BY <1>c DEF CountType
  <2>2. c.shown = count.shown /\ c.pushed = count.pushed /\ c.fetch = NoFetch
    BY <1>c DEF CountType
  <2>3. count' = Polling(c) /\ online' = online
    BY <1>8 DEF CountFailed
  <2> HIDE DEF c
  <2> QED
    BY <2>1, <2>2, <2>3, PollingFields DEF CountOK
<1>9. CASE UNCHANGED presence
  BY <1>9 DEF presence, CountOK
<1> QED
  BY <1>1, <1>2, <1>3, <1>4, <1>5, <1>6, <1>7, <1>8, <1>9, CountSteps DEF vars, presence, Presence

LEMMA Rendered == ASSUME ReportOK, RenderDialog PROVE ReportOK'
<1>1. CASE CanReport'
  BY <1>1 DEF RenderDialog, report, ReportOK
<1>2. CASE ~CanReport'
  <2>1. dialog' = NewDialog /\ reports' = Orphaned(reports)
    BY <1>2 DEF RenderDialog
  <2>2. reports' \subseteq [id : 1..MaxEvents, about : Partner, mine : BOOLEAN]
    BY <2>1 DEF Orphaned, ReportOK
  <2> QED
    BY <2>1, <2>2 DEF ReportOK, NewDialog
<1> QED
  BY <1>1, <1>2

DialogType == [open : BOOLEAN, other : BOOLEAN, details : BOOLEAN,
               submitting : BOOLEAN, error : BOOLEAN]

LEMMA ReportKept == ASSUME PageOK, ReportOK, [Next]_vars PROVE ReportOK'
<1> USE BoundAssumption
<1>d. dialog \in DialogType /\ NewDialog \in DialogType
  BY DEF ReportOK, DialogType, NewDialog
<1>s. UNCHANGED <<link, chat, layout>> => CanReport' = CanReport
  BY DEF chat, CanReport, SidebarShown
<1>1. CASE RenderDialog
  BY <1>1, Rendered
<1>2. CASE UNCHANGED report /\ (CanReport => CanReport')
  BY <1>2 DEF report, ReportOK
<1>3. CASE OpenDialog
  <2> DEFINE d == [dialog EXCEPT !.open = TRUE]
  <2>1. d \in DialogType /\ d.submitting = dialog.submitting
    BY <1>d DEF DialogType
  <2>2. dialog' = d /\ reports' = reports /\ CanReport'
    BY <1>3, <1>s DEF OpenDialog
  <2> QED
    BY <2>1, <2>2 DEF ReportOK, DialogType
<1>4. CASE CloseDialog
  BY <1>4, <1>d DEF CloseDialog, ReportOK, NewDialog
<1>5. ASSUME NEW other \in BOOLEAN, NEW details \in BOOLEAN, Fill(other, details) PROVE ReportOK'
  <2> DEFINE d == [dialog EXCEPT !.other = other, !.details = details, !.error = FALSE]
  <2>1. d \in DialogType /\ d.submitting = dialog.submitting /\ d.open = dialog.open
    BY <1>d DEF DialogType
  <2>2. dialog' = d /\ reports' = reports /\ dialog.open /\ CanReport' = CanReport
    BY <1>5, <1>s DEF Fill
  <2> QED
    BY <2>1, <2>2 DEF ReportOK, DialogType
<1>6. CASE SubmitReport
  <2>1. /\ dialog.open /\ CanReport /\ CanReport'
        /\ events \in 0..MaxEvents /\ events' = events + 1 /\ events < MaxEvents
    BY <1>6, <1>s DEF SubmitReport, Event, ReportOK, PageOK
  <2>2. stranger \in Partner
    BY <2>1 DEF PageOK, PartnerOrNobody, CanReport
  <2>3. CASE dialog.other /\ ~dialog.details
    <3> DEFINE d == [dialog EXCEPT !.error = TRUE]
    <3>1. d \in DialogType /\ d.submitting = dialog.submitting
      BY <1>d DEF DialogType
    <3>2. dialog' = d /\ reports' = reports
      BY <1>6, <2>3 DEF SubmitReport
    <3> QED
      BY <2>1, <3>1, <3>2 DEF ReportOK, DialogType
  <2>4. CASE ~(dialog.other /\ ~dialog.details)
    <3> DEFINE d == [dialog EXCEPT !.submitting = TRUE, !.error = FALSE]
               r == [id |-> events', about |-> stranger, mine |-> TRUE]
    <3>1. d \in DialogType
      BY <1>d DEF DialogType
    <3>2. dialog' = d /\ reports' = reports \cup {r}
      BY <1>6, <2>4 DEF SubmitReport
    <3>3. r \in [id : 1..MaxEvents, about : Partner, mine : BOOLEAN] /\ r.mine
      BY <2>1, <2>2
    <3> QED
      BY <2>1, <3>1, <3>2, <3>3 DEF ReportOK, DialogType
  <2> QED
    BY <2>3, <2>4
<1>7. ASSUME NEW r \in reports, NEW accepted \in BOOLEAN, ReportAnswered(r, accepted)
      PROVE  ReportOK'
  <2>1. reports' = reports \ {r} /\ CanReport' = CanReport
    BY <1>7, <1>s DEF ReportAnswered
  <2>2. CASE ~r.mine
    <3>1. dialog' = dialog
      BY <1>7, <2>2 DEF ReportAnswered
    <3> QED
      BY <2>1, <2>2, <3>1 DEF ReportOK
  <2>3. CASE r.mine /\ accepted /\ dialog.open
    <3>1. dialog' = NewDialog
      BY <1>7, <2>3 DEF ReportAnswered
    <3> QED
      BY <2>1, <3>1 DEF ReportOK, NewDialog
  <2>4. CASE r.mine /\ ~(accepted /\ dialog.open)
    <3> DEFINE d == [dialog EXCEPT !.error = @ \/ ~accepted, !.submitting = FALSE]
    <3>e. (dialog.error \/ ~accepted) \in BOOLEAN
      OBVIOUS
    <3>1. d \in DialogType /\ d.open = dialog.open /\ d.submitting = FALSE
      BY <1>d, <3>e DEF DialogType
    <3>2. dialog' = d
      BY <1>7, <2>4 DEF ReportAnswered
    <3> QED
      BY <2>1, <3>1, <3>2 DEF ReportOK, DialogType
  <2> QED
    BY <2>2, <2>3, <2>4
<1>8. CASE UNCHANGED vars
  BY <1>8, <1>s DEF vars, report, ReportOK
<1> QED
  BY <1>1, <1>2, <1>3, <1>4, <1>5, <1>6, <1>7, <1>8, ReportSteps

LEMMA ComposerKept ==
  ASSUME PageOK, PageOK', ComposerOK, TypingTakenBack, [Next]_vars
  PROVE  ComposerOK' /\ TypingTakenBack'
<1>p. stranger \in PartnerOrNobody /\ stranger' \in PartnerOrNobody
  BY DEF PageOK
<1>1. CASE UNCHANGED <<composer, stranger>>
  BY <1>1 DEF composer, ComposerOK, TypingTakenBack
<1>2. CASE Rerender
  BY <1>2, <1>p DEF Rerender, RearmTimer, ComposerOK, TypingTakenBack
<1>3. CASE Submit
  BY <1>3 DEF Submit, Show, RearmTimer, ComposerOK, TypingTakenBack
<1>4. CASE TypingTimeout
  <2>1. said' = FALSE
    BY <1>4 DEF TypingTimeout, TypingTakenBack
  <2>2. text' = text /\ meTyping' = FALSE /\ timer' = NoTimer
    BY <1>4 DEF TypingTimeout
  <2>3. NoTimer \in [pending : BOOLEAN, to : PartnerOrNobody]
    BY DEF NoTimer, PartnerOrNobody
  <2> QED
    BY <2>1, <2>2, <2>3 DEF ComposerOK, TypingTakenBack
<1>5. ASSUME NEW filled \in BOOLEAN, Type(filled) PROVE ComposerOK' /\ TypingTakenBack'
  <2>1. stranger # Nobody /\ stranger' = stranger /\ text' = filled /\ meTyping' = TRUE
    BY <1>5 DEF Type, ComposerEnabled, chat
  <2>2. CASE meTyping
    <3>1. said' = said /\ timer' = timer
      BY <1>5, <2>2 DEF Type
    <3> QED
      BY <2>1, <2>2, <3>1 DEF ComposerOK, TypingTakenBack
  <2>3. CASE ~meTyping
    <3>1. said' = TRUE /\ timer' = [pending |-> TRUE, to |-> stranger']
      BY <1>5, <2>1, <2>3 DEF Type, RearmTimer
    <3> QED
      BY <2>1, <3>1, <1>p DEF ComposerOK, TypingTakenBack
  <2> QED
    BY <2>2, <2>3
<1>6. CASE UNCHANGED vars
  BY <1>6 DEF vars, composer, chat, ComposerOK, TypingTakenBack
<1> QED
  BY <1>1, <1>2, <1>3, <1>4, <1>5, <1>6, ComposerSteps

LayoutType == [compact : BOOLEAN, collapsed : BOOLEAN, sheet : BOOLEAN]

LEMMA ArrangedType == ASSUME layout \in LayoutType, NEW m PROVE Arranged(m) \in LayoutType
<1>1. CASE m = "connected" /\ me # "connected"
  <2>1. [layout EXCEPT !.collapsed = TRUE, !.sheet = FALSE] \in LayoutType
    BY DEF LayoutType
  <2> QED
    BY <1>1, <2>1 DEF Arranged
<1>2. CASE ~(m = "connected" /\ me # "connected")
  <2> DEFINE b == layout.collapsed /\ ~(me = "connected" /\ m # "connected" /\ ~layout.compact)
  <2>1. b \in BOOLEAN
    OBVIOUS
  <2> HIDE DEF b
  <2>2. [layout EXCEPT !.collapsed = b] \in LayoutType
    BY <2>1 DEF LayoutType
  <2> QED
    BY <1>2, <2>2 DEF Arranged, b
<1> QED
  BY <1>1, <1>2

LEMMA PageKept == ASSUME PageOK, [Next]_vars PROVE PageOK'
<1> USE BoundAssumption
<1> DEFINE links == {"bootstrapping", "error", "connecting", "connected", "reconnecting"}
           states == {"none", "idle", "searching", "connected"}
           Clicks == events' \in 0..MaxEvents
<1>0. /\ link \in links /\ me \in states /\ stranger \in PartnerOrNobody
      /\ messages \in 0..MaxMessages /\ layout \in LayoutType /\ events \in 0..MaxEvents
  BY DEF PageOK, LayoutType
<1>e. Event \/ UNCHANGED events => Clicks
  BY <1>0 DEF Event
<1>a. ASSUME NEW m \in states, NEW s \in PartnerOrNobody, NEW n \in 0..MaxMessages, Show(m, s, n),
             link' \in links, Event \/ UNCHANGED events
      PROVE  PageOK'
  BY <1>a, <1>e, <1>0, ArrangedType DEF Show, PageOK, LayoutType
<1>u. ASSUME UNCHANGED <<link, chat, layout>>, Event \/ UNCHANGED events PROVE PageOK'
  BY <1>u, <1>e, <1>0 DEF chat, PageOK, LayoutType
<1>l. ASSUME UNCHANGED <<link, chat>>, layout' \in LayoutType, Event PROVE PageOK'
  BY <1>l, <1>e, <1>0 DEF chat, PageOK, LayoutType
<1>1. CASE Frames
  <2>1. ASSUME NEW m \in {"idle", "searching", "connected"}, UserInfo(m) PROVE PageOK'
    BY <2>1, <1>0, <1>a DEF UserInfo, Incoming, PartnerOrNobody
  <2>2. ASSUME NEW p \in Partner, Match(p) PROVE PageOK'
    BY <2>2, <1>0, <1>a DEF Match, Incoming, PartnerOrNobody
  <2>3. CASE Message \/ PartnerLeft
    <3>1. messages + 1 \in 0..MaxMessages /\ Nobody \in PartnerOrNobody
      BY <2>3, <1>0 DEF Message, PartnerLeft, PartnerOrNobody
    <3> QED
      BY <2>3, <3>1, <1>0, <1>a DEF Message, PartnerLeft, Incoming
  <2>4. CASE ErrorFrame
    BY <2>4, <1>u DEF ErrorFrame
  <2> QED
    BY <1>1, <2>1, <2>2, <2>3, <2>4 DEF Frames
<1>2. CASE User
  <2>1. CASE Connect
    <3>1. CASE link = "connected" /\ me # "none"
      <4>1. 0 \in 0..MaxMessages /\ Nobody \in PartnerOrNobody /\ Show(me, Nobody, 0) /\ Event
            /\ link' = link
        BY <2>1, <3>1 DEF Connect, PartnerOrNobody
      <4> QED
        BY <4>1, <1>0, <1>a
    <3>2. CASE ~(link = "connected" /\ me # "none")
      BY <2>1, <3>2, <1>u DEF Connect
    <3> QED
      BY <3>1, <3>2
  <2>2. CASE RetryBootstrap
    BY <2>2, <1>0, <1>e DEF RetryBootstrap, chat, PageOK, LayoutType
  <2>3. CASE Submit
    <3>1. messages + 1 \in 0..MaxMessages
      BY <2>3, <1>0 DEF Submit
    <3> QED
      BY <2>3, <3>1, <1>0, <1>a DEF Submit
  <2>4. CASE OpenSidebar
    <3>1. [layout EXCEPT !.sheet = TRUE] \in LayoutType /\ [layout EXCEPT !.collapsed = FALSE] \in LayoutType
      BY <1>0 DEF LayoutType
    <3> QED
      BY <2>4, <3>1, <1>l DEF OpenSidebar, Arrange
  <2>5. CASE CloseSidebar
    <3>1. [layout EXCEPT !.sheet = FALSE] \in LayoutType /\ [layout EXCEPT !.collapsed = TRUE] \in LayoutType
      BY <1>0 DEF LayoutType
    <3> QED
      BY <2>5, <3>1, <1>l DEF CloseSidebar, Arrange
  <2>6. \/ UNCHANGED <<link, chat, layout>> /\ (Event \/ UNCHANGED events)
        \/ Connect \/ RetryBootstrap \/ Submit \/ OpenSidebar \/ CloseSidebar
    BY <1>2 DEF User, Type, UserScrolls, OpenDialog, CloseDialog, Fill, SubmitReport, DismissToast
  <2> QED
    BY <2>1, <2>2, <2>3, <2>4, <2>5, <2>6, <1>u
<1>3. CASE Browser
  <2>1. ASSUME NEW l \in {"connecting", "error", "connected", "reconnecting"}, LinkChanges(l)
        PROVE  PageOK'
    BY <2>1, <1>0, <1>a DEF LinkChanges
  <2>2. ASSUME NEW compact \in BOOLEAN, Resize(compact) PROVE PageOK'
    <3> DEFINE b == layout.collapsed \/ compact
    <3>1. b \in BOOLEAN
      OBVIOUS
    <3>2. layout' = [layout EXCEPT !.compact = compact, !.collapsed = b]
      BY <2>2 DEF Resize, Arrange
    <3> HIDE DEF b
    <3>3. layout' \in LayoutType
      BY <3>1, <3>2, <1>0 DEF LayoutType
    <3> QED
      BY <2>2, <3>3, <1>l DEF Resize, Arrange
  <2>3. \/ UNCHANGED <<link, chat, layout>> /\ (Event \/ UNCHANGED events)
        \/ \E l \in {"connecting", "error", "connected", "reconnecting"} : LinkChanges(l)
        \/ \E compact \in BOOLEAN : Resize(compact)
    BY <1>3 DEF Browser, TypingTimeout, ScrollDown, ReportAnswered, RemoveToast, Keyboard, Rotate,
                Rotated, LockPage, Viewport
  <2> QED
    BY <2>1, <2>2, <2>3, <1>u
<1>4. CASE Presence
  <2>1. UNCHANGED <<link, chat, layout>> /\ (Event \/ UNCHANGED events)
    BY <1>4 DEF Presence, CountChanges, PushCount, PushGrowsOld, RenderCount, Poll, ServeCount,
                CountAnswered, CountFailed, CountStep
  <2> QED
    BY <2>1, <1>u
<1>5. CASE UNCHANGED vars
  BY <1>5, <1>u DEF vars
<1> QED
  BY <1>1, <1>2, <1>3, <1>4, <1>5 DEF Next

LEMMA HeightType == ASSUME NEW v \in ViewType PROVE Height(v) \in 1..3
BY DEF Height, ViewType

LEMMA MeasuredType == ASSUME NEW v \in ViewType PROVE Measured(v) \in ViewType
<1> DEFINE f == IF Height(v) > v.full THEN Height(v) ELSE v.full
           b == f > Height(v)
<1>1. f \in 1..3 /\ b \in BOOLEAN
  BY HeightType DEF ViewType
<1>2. Measured(v) = [v EXCEPT !.full = f, !.panel = b]
  BY DEF Measured
<1> HIDE DEF f, b
<1>3. [v EXCEPT !.full = f, !.panel = b] \in ViewType
  BY <1>1 DEF ViewType
<1> QED
  BY <1>2, <1>3

LEMMA ViewKept == ASSUME ViewOK, [Next]_vars PROVE ViewOK'
<1>0. viewport \in ViewType /\ follow \in BOOLEAN /\ scroll \in BOOLEAN
  BY DEF ViewOK
<1>v. ASSUME NEW v \in ViewType, Viewport(v) PROVE ViewOK'
  BY <1>v, <1>0 DEF Viewport, ViewOK
<1>s. ASSUME follow' \in BOOLEAN, scroll' \in BOOLEAN, UNCHANGED viewport PROVE ViewOK'
  BY <1>s, <1>0 DEF ViewOK
<1>1. CASE Frames
  <2>1. follow' \in BOOLEAN /\ scroll' \in BOOLEAN /\ UNCHANGED viewport
    BY <1>1, <1>0 DEF Frames, UserInfo, Match, Message, PartnerLeft, Incoming, Show, ErrorFrame, list
  <2> QED
    BY <2>1, <1>s
<1>2. CASE User
  <2>1. follow' \in BOOLEAN /\ scroll' \in BOOLEAN /\ UNCHANGED viewport
    BY <1>2, <1>0 DEF User, Connect, Show, RetryBootstrap, Type, Submit, UserScrolls, OpenSidebar,
                CloseSidebar, Arrange, OpenDialog, CloseDialog, Fill, SubmitReport, DismissToast, list
  <2> QED
    BY <2>1, <1>s
<1>3. CASE Browser
  <2>1. ASSUME NEW on \in BOOLEAN, Keyboard(on) PROVE ViewOK'
    <3>1. [viewport EXCEPT !.keyboard = on, !.frame = TRUE] \in ViewType
      BY <1>0 DEF ViewType
    <3> QED
      BY <2>1, <3>1, <1>v, MeasuredType DEF Keyboard
  <2>2. CASE Rotate
    <3> DEFINE b == ~viewport.rotated
    <3>1. b \in BOOLEAN
      OBVIOUS
    <3>2. Viewport(Measured([viewport EXCEPT !.rotated = b, !.frame = TRUE, !.turning = TRUE]))
      BY <2>2 DEF Rotate
    <3> HIDE DEF b
    <3>3. [viewport EXCEPT !.rotated = b, !.frame = TRUE, !.turning = TRUE] \in ViewType
      BY <3>1, <1>0 DEF ViewType
    <3> QED
      BY <3>2, <3>3, <1>v, MeasuredType
  <2>3. CASE Rotated
    <3>1. [viewport EXCEPT !.turning = FALSE, !.full = Height(viewport)] \in ViewType
      BY <1>0, HeightType DEF ViewType
    <3> QED
      BY <2>3, <3>1, <1>v, MeasuredType DEF Rotated
  <2>4. CASE LockPage
    <3>1. viewport.keyboard \in BOOLEAN
      BY <1>0 DEF ViewType
    <3>2. [viewport EXCEPT !.frame = FALSE, !.locked = viewport.keyboard] \in ViewType
      BY <3>1, <1>0 DEF ViewType
    <3> QED
      BY <2>4, <3>2, <1>v DEF LockPage
  <2>5. \/ follow' \in BOOLEAN /\ scroll' \in BOOLEAN /\ UNCHANGED viewport
        \/ (\E on \in BOOLEAN : Keyboard(on)) \/ Rotate \/ Rotated \/ LockPage
    BY <1>3, <1>0 DEF Browser, LinkChanges, Show, TypingTimeout, ScrollDown, Resize, Arrange,
                      ReportAnswered, RemoveToast, list
  <2> QED
    BY <2>1, <2>2, <2>3, <2>4, <2>5, <1>s
<1>4. CASE Presence
  <2>1. follow' \in BOOLEAN /\ scroll' \in BOOLEAN /\ UNCHANGED viewport
    BY <1>4, <1>0 DEF Presence, CountChanges, PushCount, PushGrowsOld, RenderCount, Poll, ServeCount,
                CountAnswered, CountFailed, CountStep, list
  <2> QED
    BY <2>1, <1>s
<1>5. CASE UNCHANGED vars
  BY <1>5, <1>0 DEF vars, list, ViewOK
<1> QED
  BY <1>1, <1>2, <1>3, <1>4, <1>5 DEF Next

--------------------------------------------------------------------------------
LEMMA InvKept == Inv /\ [Next]_vars => Inv'
<1> SUFFICES ASSUME Inv, [Next]_vars PROVE Inv'
  OBVIOUS
<1>1. PageOK'
  BY PageKept DEF Inv
<1>2. ComposerOK' /\ TypingTakenBack'
  BY <1>1, ComposerKept DEF Inv
<1> QED
  BY <1>1, <1>2, ViewKept, ReportKept, ToastKept, CountKept DEF Inv

(* The invariant the others follow from.                                   *)
THEOREM InvariantHolds == Spec => []Inv
BY InitInv, InvKept, PTL DEF Spec

(* Every part of the page is always in a state the program has.            *)
THEOREM TypeCorrect == Spec => []TypeOK
BY InvariantHolds, InvHolds, PTL

(* A partner who was told that the user is typing has a pending timeout    *)
(* that tells it is over, through any renders, frames and lost sockets.    *)
THEOREM TypingEnds == Spec => []TypingTakenBack
BY InvariantHolds, InvHolds, PTL

(* The online count never falls behind the last one pushed, whatever the   *)
(* HTTP answers that were asked for before it do.                          *)
THEOREM FreshCount == Spec => []CountFresh
BY InvariantHolds, InvHolds, PTL

(* The report dialog waits only for a request of its own, and every toast  *)
(* that has closed is removed.                                             *)
THEOREM Unlocked == Spec => []NeverLocked
BY InvariantHolds, InvHolds, PTL

================================================================================
