--------------------------------- MODULE Tabs ---------------------------------
(***************************************************************************)
(* The chat tabs of the page: the tabs widget of jQuery UI as              *)
(* peersterUi.js uses it, and the choice of the recipient of a message,    *)
(* which is read from the attribute aria-selected of the tabs.             *)
(*                                                                         *)
(* The tabs of the document and those the widget knows differ: closing a   *)
(* tab takes it out of the document, and the widget is told (refresh) only *)
(* when the next tab is opened.                                            *)
(***************************************************************************)
EXTENDS Integers, Sequences, FiniteSets

CONSTANTS
    Node,      \* the known nodes one can chat with
    Public,    \* the public room
    None,
    MaxTab     \* bound: tabs opened, the public one included

ASSUME TabsAssumption ==
    /\ Public \notin Node
    /\ MaxTab \in Nat \ {0}

VARIABLES
    list,        \* the tabs in the document, in order; each with its panel
    ui,          \* the widget: its tabs, the active one and its index, the tabs
                 \* with aria-selected "true" and those whose panel is visible
    focus,       \* the tab that has the keyboard focus
    keyboard,    \* does this user press keys on the tabs?
    activating,  \* the index the timer of an arrow key will activate
    tabCounter

vars == <<list, ui, focus, keyboard, activating, tabCounter>>

Tab == [id : 1 .. MaxTab, node : Node \cup {Public}]

Home == [id |-> 1, node |-> Public]

In(tabs) == {tabs[i] : i \in DOMAIN tabs}

\* The tabs of other nodes, in order
Without(tabs, n) ==
    LET kept[i \in 0 .. Len(tabs)] ==
            IF i = 0 THEN <<>>
            ELSE IF tabs[i].node = n THEN kept[i - 1] ELSE Append(kept[i - 1], tabs[i])
    IN  kept[Len(tabs)]

\* $.index, 0 when the tab is not there (indices start at 1 here)
IndexIn(tabs, t) == IF t \in In(tabs) THEN CHOOSE i \in DOMAIN tabs : tabs[i] = t ELSE 0

TypeOK ==
    /\ list \in Seq(Tab)
    /\ ui \in [tabs : Seq(Tab), active : Tab, index : Nat,
               selected : SUBSET Tab, shown : SUBSET Tab]
    /\ focus \in Tab \cup {None}
    /\ keyboard \in BOOLEAN
    /\ activating \in 1 .. MaxTab \cup {None}
    /\ tabCounter \in 2 .. MaxTab + 1

Init ==
    /\ list = <<Home>>
    /\ ui = [tabs |-> <<Home>>, active |-> Home, index |-> 1,
             selected |-> {Home}, shown |-> {Home}]
    /\ focus = None
    /\ keyboard \in BOOLEAN
    /\ activating = None
    /\ tabCounter = 2

-----------------------------------------------------------------------------
(* The widget.  u is its state, doc the tabs in the document.  A tab that   *)
(* was taken out of the document has no panel any more.                     *)

\* (mutant) the old tab stays selected
ActivatedBoth(u, doc, t) ==
    IF t = u.active THEN u
    ELSE [u EXCEPT !.active = t, !.index = IndexIn(u.tabs, t), !.selected = @ \cup {t},
                   !.shown = (@ \ {u.active}) \cup ({t} \cap In(doc))]

\* (mutant) the old panel is not hidden
ActivatedOnTop(u, doc, t) ==
    IF t = u.active THEN u
    ELSE [u EXCEPT !.active = t, !.index = IndexIn(u.tabs, t),
                   !.selected = (@ \ {u.active}) \cup {t}, !.shown = @ \cup ({t} \cap In(doc))]

\* _eventHandler and _toggle: t becomes the active tab.  When neither the old
\* nor the new one has a panel, $.error is thrown before _toggle.
Activated(u, doc, t) ==
    LET old == {u.active} \cap In(doc)
        new == {t} \cap In(doc)
        chosen == [u EXCEPT !.active = t, !.index = IndexIn(u.tabs, t)]
    IN  IF t = u.active THEN u
        ELSE IF old \cup new = {} THEN chosen
        ELSE [chosen EXCEPT !.selected = (@ \ {u.active}) \cup {t},
                            !.shown = (@ \ old) \cup new]

\* _activate: an index with no tab is a click on the active one.
ActivatedAt(u, doc, i) == IF i \in DOMAIN u.tabs THEN Activated(u, doc, u.tabs[i]) ELSE u

\* _findNextTab, with no tab disabled
Wrapped(u, i) ==
    IF i > Len(u.tabs) THEN 1 ELSE IF i < 1 THEN Len(u.tabs) ELSE i

\* (mutant) refresh leaves it to the caller to activate a tab
OnlyProcessed(u, doc) == [u EXCEPT !.tabs = doc]

\* _processTabs, and the case distinction of refresh
Reactivated(u, doc) ==
    LET v == [u EXCEPT !.tabs = doc] IN
    IF u.active \in In(doc)
    THEN [v EXCEPT !.index = IndexIn(doc, u.active)]
    ELSE ActivatedAt(v, doc, Wrapped(v, IF u.index > 2 THEN u.index - 1 ELSE 1))

\* refresh and _refresh: all tabs but the active one are deselected and hidden
Refreshed(u, doc) ==
    LET v == Reactivated(u, doc)
        others == In(doc) \ {v.active}
    IN  [v EXCEPT !.selected = (@ \ others) \cup {v.active},
                  !.shown = (@ \ others) \cup {v.active}]

-----------------------------------------------------------------------------
(* The page *)

HasTab(n) == \E t \in In(list) : t.node = n

\* Click on a known node.  The panel of a new tab is visible until refresh.
OpenTab(n) ==
    /\ tabCounter <= MaxTab
    /\ ~HasTab(n)
    /\ LET t == [id |-> tabCounter, node |-> n] IN
       /\ list' = Append(list, t)
       /\ ui' = Refreshed([ui EXCEPT !.shown = @ \cup {t}], Append(list, t))
    /\ tabCounter' = tabCounter + 1
    /\ focus' = None
    /\ UNCHANGED <<keyboard, activating>>

\* Click on the x of a tab: everything with the name of its node is removed.
CloseTab(t) ==
    /\ t \in In(list) \ {Home}
    /\ list' = Without(list, t.node)
    /\ ui' = [ui EXCEPT !.shown = {s \in @ : s.node # t.node}]
    /\ focus' = None
    /\ UNCHANGED <<keyboard, activating, tabCounter>>

\* Click on the name of a tab
ClickTab(t) ==
    /\ t \in In(list)
    /\ ui' = Activated(ui, list, t)
    /\ focus' = t
    /\ UNCHANGED <<list, keyboard, activating, tabCounter>>

-----------------------------------------------------------------------------
(* Keys *)

\* The Tab key reaches the active tab, if it is in the document.
FocusTabs ==
    /\ keyboard
    /\ ui.active \in In(list)
    /\ focus' = ui.active
    /\ UNCHANGED <<list, ui, keyboard, activating, tabCounter>>

\* A tab that is not in the document cannot get the focus.
FocusAt(i) == IF ui.tabs[i] \in In(list) THEN ui.tabs[i] ELSE focus

\* Arrows, Home and End, and the tab each of them goes to
Key == {"left", "right", "home", "end"}

KeyIndex(key) ==
    LET here == IndexIn(ui.tabs, focus) IN
    CASE key = "left" -> here - 1
      [] key = "right" -> here + 1
      [] key = "home" -> 1
      [] key = "end" -> Len(ui.tabs)

KeyTarget(key) == Wrapped(ui, KeyIndex(key))

\* (mutant) the timer gets the index before it was wrapped around
ArrowUnwrapped(key) ==
    /\ keyboard /\ focus # None
    /\ ui' = [ui EXCEPT !.selected = (@ \ {focus}) \cup {ui.tabs[KeyTarget(key)]}]
    /\ activating' = KeyIndex(key)
    /\ focus' = FocusAt(KeyTarget(key))
    /\ UNCHANGED <<list, keyboard, tabCounter>>

\* _tabKeydown: the target is selected at once and activated by a timer.
Arrow(key) ==
    /\ keyboard /\ focus # None
    /\ ui' = [ui EXCEPT !.selected = (@ \ {focus}) \cup {ui.tabs[KeyTarget(key)]}]
    /\ activating' = KeyTarget(key)
    /\ focus' = FocusAt(KeyTarget(key))
    /\ UNCHANGED <<list, keyboard, tabCounter>>

\* With the control key only the focus moves.
ControlArrow(key) ==
    /\ keyboard /\ focus # None
    /\ activating' = None
    /\ focus' = FocusAt(KeyTarget(key))
    /\ UNCHANGED <<list, ui, keyboard, tabCounter>>

\* The space bar activates the tab that has the focus.
Space ==
    /\ keyboard /\ focus # None
    /\ ui' = Activated(ui, list, focus)
    /\ activating' = None
    /\ UNCHANGED <<list, focus, keyboard, tabCounter>>

\* Alt with Page Up or Page Down goes to a neighbour of the active tab.
Page(step) ==
    /\ keyboard /\ focus # None
    /\ LET i == Wrapped(ui, ui.index + step) IN
       /\ ui' = ActivatedAt(ui, list, i)
       /\ focus' = FocusAt(i)
    /\ UNCHANGED <<list, keyboard, activating, tabCounter>>

\* 300 ms after an arrow key
TimerFires ==
    /\ activating # None
    /\ ui' = ActivatedAt(ui, list, activating)
    /\ activating' = None
    /\ UNCHANGED <<list, focus, keyboard, tabCounter>>

-----------------------------------------------------------------------------

Next ==
    \/ \E n \in Node : OpenTab(n)
    \/ \E t \in In(list) : CloseTab(t) \/ ClickTab(t)
    \/ FocusTabs
    \/ \E key \in Key : Arrow(key) \/ ControlArrow(key)
    \/ Space
    \/ \E step \in {-1, 1} : Page(step)
    \/ TimerFires

Spec == Init /\ [][Next]_vars

-----------------------------------------------------------------------------

\* Who gets a message that is sent now: $('li[aria-selected="true"]') takes the
\* first selected tab of the document, without one the message is public.
Recipient ==
    LET chosen == {i \in DOMAIN list : list[i] \in ui.selected} IN
    IF chosen = {} THEN Public ELSE list[CHOOSE i \in chosen : \A j \in chosen : i <= j].node

\* One chat is on the screen, and what is typed goes there.
Agrees == ui.shown = {} \/ \E t \in In(list) : ui.shown = {t} /\ Recipient = t.node

(***************************************************************************)
(* Never two chats on top of each other, and never a message to a node     *)
(* other than the one whose chat is on the screen (peersterUi.js:20),      *)
(* whatever is opened and closed with the mouse.  An arrow key may break   *)
(* it: the timer that would show the selected chat can be cancelled.       *)
(***************************************************************************)
MessagesGoToTheShownChat == ~keyboard => Agrees

\* With keys, which select first and show later, also after a tab that is gone:
\* never two chats on top of each other, or one that was closed.
OneChatIsShown == Cardinality(ui.shown) <= 1 /\ ui.shown \subseteq In(list)

\* Opening a tab ends the state in which no chat is on the screen.
OpeningShowsATab ==
    [][tabCounter' > tabCounter => ui'.shown = {ui'.active} /\ ui'.active \in In(list')]_vars
===============================================================================
