----------------------------- MODULE Extension -----------------------------
(***************************************************************************)
(* The browser extension: the two context menu entries, the tooltip in the *)
(* page with its save button, and the background service worker that       *)
(* answers both (background.js, content.js).  Every click becomes one      *)
(* request, which gets its token from ExtensionAuth and then calls the     *)
(* API.  One tab is modelled; its pages may come and go while a request is *)
(* under way, answers arrive in any order, and the browser may stop the    *)
(* service worker at any point.                                            *)
(***************************************************************************)
EXTENDS ExtensionAuth

CONSTANTS
    Menu,           \* clicks on "show translation" or "save word"
    Presses,        \* clicks on the tooltip's button
    NoTip           \* tooltip = null

ASSUME ExtensionAssumption ==
    /\ Clicks = Menu \cup Presses /\ Menu \cap Presses = {}
    /\ Clicks \subseteq Nat /\ NoTip \notin Nat     \* numbered as they are made

VARIABLES
    page,       \* the tab's page runs content.js
    shown,      \* `tooltip': the lookup whose answer is on the page
    button,     \* the save button of each lookup's tooltip
    told,       \* errors each tooltip has shown beside its button
    timers,     \* tooltips whose setTimeout(hideTooltip, 800) is running
    req,        \* where each click's request is
    saving,     \* the menu clicks that save the word
    tip,        \* the tooltip each press belongs to
    reached     \* requests the API has carried out

pageVars == <<page, shown, button, told, timers, tip>>
requestVars == <<req, saving, reached>>
vars == <<authVars, pageVars, requestVars>>

TypeOK ==
    /\ AuthTypeOK
    /\ page \in BOOLEAN
    /\ shown \in Menu \cup {NoTip}
    /\ button \in [Menu -> {"none", "ready", "busy", "saved"}]
    /\ told \in [Menu -> Nat]
    /\ timers \subseteq Menu
    /\ req \in [Clicks -> {"idle", "clicked", "ok", "failed", "settled", "lost", "cut"}]
    /\ tip \in [Presses -> Menu \cup {NoTip}]
    /\ reached \subseteq Clicks /\ saving \subseteq Menu

Init ==
    /\ AuthInit
    /\ page \in BOOLEAN
    /\ shown = NoTip
    /\ button = [l \in Menu |-> "none"]
    /\ told = [l \in Menu |-> 0]
    /\ timers = {}
    /\ req = [c \in Clicks |-> "idle"]
    /\ tip = [p \in Presses |-> NoTip]
    /\ reached = {} /\ saving = {}

-----------------------------------------------------------------------------
(* The user.                                                               *)

IsNext(c, kind) == req[c] = "idle" /\ \A d \in kind : d < c => req[d] # "idle"

(* A context menu click with a selection.                                  *)
ChooseFromMenu(c) ==
    /\ IsNext(c, Menu)
    /\ req' = [req EXCEPT ![c] = "clicked"]
    /\ saving' \in {saving, saving \cup {c}}
    /\ UNCHANGED <<authVars, pageVars, reached>>

PressEnabled(p) ==                              \* mutant: button not disabled
    /\ IsNext(p, Presses)
    /\ shown # NoTip /\ button[shown] \in {"ready", "busy"}
    /\ req' = [req EXCEPT ![p] = "clicked"]
    /\ tip' = [tip EXCEPT ![p] = shown]
    /\ button' = [button EXCEPT ![shown] = "busy"]
    /\ UNCHANGED <<authVars, page, shown, told, timers, saving, reached>>
(* The button's listener: disable it, send the word to the background.     *)
Press(p) ==
    /\ IsNext(p, Presses)
    /\ shown # NoTip /\ button[shown] = "ready"
    /\ req' = [req EXCEPT ![p] = "clicked"]
    /\ tip' = [tip EXCEPT ![p] = shown]
    /\ button' = [button EXCEPT ![shown] = "busy"]
    /\ UNCHANGED <<authVars, page, shown, told, timers, saving, reached>>

(* A mousedown outside the tooltip, or Escape.                             *)
Dismiss ==
    /\ shown # NoTip
    /\ shown' = NoTip
    /\ UNCHANGED <<authVars, page, button, told, timers, tip, requestVars>>

(* The next page knows nothing of this one's tooltips and timers; it may   *)
(* be one that runs no content script.                                     *)
Navigate ==
    /\ faults < MaxFaults /\ faults' = faults + 1
    /\ page' \in BOOLEAN
    /\ shown' = NoTip
    /\ button' = [l \in Menu |-> "none"]
    /\ timers' = {}
    /\ UNCHANGED <<tokenVars, told, tip, requestVars>>

OptionsPage ==
    /\ Login \/ Logout \/ Expire
    /\ UNCHANGED <<pageVars, requestVars>>

-----------------------------------------------------------------------------
(* The service worker.                                                     *)
Authorize(c) ==
    /\ req[c] = "clicked"
    /\ GetAccessToken(c)
    /\ UNCHANGED <<pageVars, requestVars>>

(* postEntry or postTranslate: without a token the proxy answers 401; with *)
(* one the API may fail, or carry the request out and its answer get lost. *)
Fetch(c) ==
    /\ req[c] = "clicked"
    /\ \/ /\ pc[c] = "authorized"
          /\ req' = [req EXCEPT ![c] = "ok"]
          /\ reached' = reached \cup {c}
          /\ UNCHANGED authVars
       \/ /\ pc[c] = "authorized"
          /\ faults < MaxFaults /\ faults' = faults + 1
          /\ req' = [req EXCEPT ![c] = "failed"]
          /\ reached' \in {reached, reached \cup {c}}
          /\ UNCHANGED tokenVars
       \/ /\ pc[c] = "anonymous"
          /\ req' = [req EXCEPT ![c] = "failed"]
          /\ UNCHANGED <<authVars, reached>>
    /\ UNCHANGED <<pageVars, saving>>

(* content.js's showTooltip replaces the tooltip there is.                 *)
ShowTooltip(l, itsButton) ==
    /\ page
    /\ shown' = l
    /\ button' = [button EXCEPT ![l] = itsButton]
    /\ req' = [req EXCEPT ![l] = "settled"]

(* tabs.sendMessage with the translation: a page without a content script  *)
(* refuses the message, which the handler catches like a failed request.   *)
SendTranslation(l) ==
    /\ req[l] = "ok"
    /\ \/ ShowTooltip(l, "ready")
       \/ /\ ~page
          /\ req' = [req EXCEPT ![l] = "failed"]
          /\ UNCHANGED <<shown, button>>
    /\ UNCHANGED <<authVars, page, told, timers, tip, saving, reached>>

SendNoError(l) ==                               \* mutant: nothing sent from the catch
    /\ req[l] = "failed"
    /\ req' = [req EXCEPT ![l] = "lost"]
    /\ UNCHANGED <<authVars, page, shown, button, told, timers, tip, saving, reached>>
(* The message sent from the catch block, to whatever page is there by     *)
(* then; nothing catches its own refusal.                                  *)
SendError(l) ==
    /\ req[l] = "failed"
    /\ \/ ShowTooltip(l, "none")
       \/ /\ ~page
          /\ req' = [req EXCEPT ![l] = "lost"]
          /\ UNCHANGED <<shown, button>>
    /\ UNCHANGED <<authVars, page, told, timers, tip, saving, reached>>

Notify(s) ==
    /\ req[s] \in {"ok", "failed"}
    /\ req' = [req EXCEPT ![s] = "settled"]
    /\ UNCHANGED <<authVars, pageVars, saving, reached>>

ButtonOfShown(p) == shown                       \* mutant: one button for all
ButtonOf(p) == tip[p]

(* sendResponse, or lastError once the service worker is gone: the button  *)
(* says so, if its page is still there, and a success starts the timer.    *)
Answer(p) ==
    /\ req[p] \in {"ok", "failed"}
    /\ req' = [req EXCEPT ![p] = "settled"]
    /\ LET l == ButtonOf(p)
       IN  IF l = NoTip \/ button[l] # "busy"
           THEN UNCHANGED <<button, told, timers>>
           ELSE IF req[p] = "ok"
           THEN /\ button' = [button EXCEPT ![l] = "saved"]
                /\ timers' = timers \cup {l}
                /\ UNCHANGED told
           ELSE /\ button' = [button EXCEPT ![l] = "ready"]
                /\ told' = [told EXCEPT ![l] = @ + 1]
                /\ UNCHANGED timers
    /\ UNCHANGED <<authVars, page, shown, tip, saving, reached>>

(* The timer hides the tooltip that is shown by then, whichever it is.     *)
HideTimer(l) ==
    /\ l \in timers
    /\ timers' = timers \ {l}
    /\ shown' = NoTip
    /\ UNCHANGED <<authVars, page, button, told, tip, requestVars>>

(* The browser stops the service worker: lookups and menu saves under way  *)
(* end in silence, the port of a press closes; fetches may have arrived.   *)
StopWorker ==
    /\ \E arrived \in SUBSET {c \in Clicks : req[c] = "clicked" /\ pc[c] = "authorized"} :
          reached' = reached \cup arrived
    /\ LET cut == {c \in Clicks : req[c] \in {"clicked", "ok", "failed"}}
       IN  /\ req' = [c \in Clicks |-> IF c \notin cut THEN req[c]
                                       ELSE IF c \in Presses THEN "failed" ELSE "cut"]
           /\ StopClicks({c \in cut : req[c] = "clicked"})
    /\ UNCHANGED <<pageVars, saving>>

-----------------------------------------------------------------------------
Background(c) ==
    \/ Authorize(c) \/ Fetch(c)
    \/ c \in Menu \ saving /\ (SendTranslation(c) \/ SendError(c))
    \/ c \in saving /\ Notify(c)
    \/ c \in Presses /\ Answer(c)

Next ==
    \/ \E c \in Menu : ChooseFromMenu(c)
    \/ \E c \in Clicks : Background(c)
    \/ \E p \in Presses : Press(p)
    \/ \E l \in Menu : HideTimer(l)
    \/ Dismiss \/ Navigate \/ OptionsPage \/ StopWorker

Spec == Init /\ [][Next]_vars

(* Requests end, messages are delivered, timers fire.                      *)
FairSpec ==
    /\ Spec
    /\ \A c \in Clicks : WF_vars(Background(c))
    /\ \A l \in Menu : WF_vars(HideTimer(l))

-----------------------------------------------------------------------------
(* The button says what became of its own word: "saved" only if the API    *)
(* has carried out a save of that tooltip, and never a second save of it   *)
(* unless the tooltip reported the one before as failed.  Answers out of   *)
(* order, tooltips replaced or dismissed while their save is under way and *)
(* a stopped service worker do not change that.                            *)
SavedFrom(l) == {p \in Presses : tip[p] = l /\ p \in reached}

ButtonIsHonest ==
    \A l \in Menu :
        /\ button[l] = "saved" => SavedFrom(l) # {}
        /\ Cardinality(SavedFrom(l)) <= 1 + told[l]

(* Every menu click ends in a tooltip or a notification, unless the        *)
(* service worker is stopped or the page runs no content script.  The      *)
(* tooltip's button never stays busy, even then, and once its word is      *)
(* saved the tooltip disappears.                                           *)
Told(l) == \/ req[l] \in {"settled", "cut"}
           \/ req[l] = "lost" /\ ~page
Waiting(l) == \/ button[l] = "busy"
              \/ button[l] = "saved" /\ shown = l

ClicksSettle ==
    \A l \in Menu : (req[l] = "clicked" \/ Waiting(l)) ~> (Told(l) /\ ~Waiting(l))
=============================================================================
