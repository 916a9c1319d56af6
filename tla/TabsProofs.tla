------------------------------ MODULE TabsProofs ------------------------------
(***************************************************************************)
(* Theorems about Tabs: for any number of nodes and tabs, in any order of  *)
(* clicks, keys and timers.                                                *)
(***************************************************************************)
EXTENDS Tabs, Induction, FiniteSetTheorems

Widget == [tabs : Seq(Tab), active : Tab, index : Nat, selected : SUBSET Tab,
           shown : SUBSET Tab]

\* No two tabs have one node or one id.
Distinct(tabs) ==
    \A i, j \in DOMAIN tabs :
        i # j => tabs[i].node # tabs[j].node /\ tabs[i].id # tabs[j].id

(***************************************************************************)
(* The strengthening.  The public tab stays; ids are given once; the list  *)
(* of the widget is no longer than the tabs opened; the panel that is      *)
(* visible is that of the active tab, if it still has one.  Without keys   *)
(* the same is true of aria-selected: keys run ahead of it.                *)
(***************************************************************************)
IInv ==
    /\ TypeOK
    /\ Home \in In(list) /\ ui.tabs # <<>>
    /\ Len(list) < tabCounter /\ Len(ui.tabs) < tabCounter
    /\ Distinct(list)
    /\ \A t \in In(list) : t.id < tabCounter
    /\ ui.shown = {ui.active} \cap In(list)
    /\ ~keyboard => /\ activating = None
                    /\ ui.selected \cap In(list) = {ui.active} \cap In(list)

-----------------------------------------------------------------------------
(* Lists of tabs *)

\* k holds those of the first m tabs of s that are not of n.
IsKept(k, s, n, m) ==
    /\ k \in Seq(Tab) /\ Len(k) <= m /\ Distinct(k)
    /\ In(k) = {s[j] : j \in {l \in 1 .. m : s[l].node # n}}

\* One more pass of the loop of Without
LEMMA KeptOne ==
    ASSUME NEW s \in Seq(Tab), NEW n, Distinct(s), NEW m \in 0 .. Len(s) - 1,
           NEW k, IsKept(k, s, n, m),
           NEW next, next = IF s[m + 1].node = n THEN k ELSE Append(k, s[m + 1])
    PROVE  IsKept(next, s, n, m + 1)
<1>. USE DEF IsKept
<1>1. m + 1 \in DOMAIN s /\ s[m + 1] \in Tab /\ Len(k) \in Nat /\ DOMAIN k = 1 .. Len(k)
  OBVIOUS
<1>2. CASE s[m + 1].node = n
  <2>1. {l \in 1 .. m + 1 : s[l].node # n} = {l \in 1 .. m : s[l].node # n}
    BY <1>2
  <2>. QED BY <1>1, <1>2, <2>1
<1>3. CASE s[m + 1].node # n
  <2>1. /\ next \in Seq(Tab) /\ Len(next) = Len(k) + 1 /\ DOMAIN next = 1 .. Len(k) + 1
        /\ \A j \in 1 .. Len(k) : next[j] = k[j]
        /\ next[Len(k) + 1] = s[m + 1]
    BY <1>1, <1>3
  <2>2. {l \in 1 .. m + 1 : s[l].node # n} = {l \in 1 .. m : s[l].node # n} \cup {m + 1}
    BY <1>3
  <2>3. In(next) = In(k) \cup {s[m + 1]}
    BY <1>1, <2>1 DEF In
  <2>4. ASSUME NEW j \in 1 .. Len(k)
        PROVE  k[j].node # s[m + 1].node /\ k[j].id # s[m + 1].id
    <3>1. k[j] \in In(k)
      BY <1>1 DEF In
    <3>2. PICK l \in 1 .. m : k[j] = s[l]
      BY <3>1
    <3>3. l \in DOMAIN s /\ l # m + 1
      BY <3>2
    <3>. QED BY <1>1, <3>2, <3>3 DEF Distinct
  <2>5. Distinct(next)
    BY <1>1, <2>1, <2>4 DEF Distinct
  <2>6. In(next) = {s[j] : j \in {l \in 1 .. m + 1 : s[l].node # n}}
    BY <2>2, <2>3
  <2>. QED BY <1>1, <2>1, <2>5, <2>6
<1>. QED BY <1>2, <1>3

\* The passes of the loop of Without, as a function.
LEMMA WithoutIsLast ==
    ASSUME NEW s \in Seq(Tab), NEW n
    PROVE  \E f :
             /\ f[0] = <<>>
             /\ \A i \in 1 .. Len(s) :
                   f[i] = IF s[i].node = n THEN f[i - 1] ELSE Append(f[i - 1], s[i])
             /\ Without(s, n) = f[Len(s)]
<1> DEFINE
    step == [p \in (1 .. Len(s)) \X Seq(Tab) |->
                IF s[p[1]].node = n THEN p[2] ELSE Append(p[2], s[p[1]])]
    Passes(f) == [i \in 0 .. Len(s) |-> IF i = 0 THEN <<>>
                    ELSE IF s[i].node = n THEN f[i - 1] ELSE Append(f[i - 1], s[i])]
    kept == CHOOSE f : f = Passes(f)
<1>1. Len(s) \in Nat /\ \A i \in 1 .. Len(s) : s[i] \in Tab /\ i - 1 \in 0 .. Len(s)
  OBVIOUS
<1>2. step \in [(1 .. Len(s)) \X Seq(Tab) -> Seq(Tab)]
  <2>1. ASSUME NEW p \in (1 .. Len(s)) \X Seq(Tab)
        PROVE  (IF s[p[1]].node = n THEN p[2] ELSE Append(p[2], s[p[1]])) \in Seq(Tab)
    <3>1. s[p[1]] \in Tab /\ p[2] \in Seq(Tab)
      BY <1>1
    <3>. QED BY <3>1
  <2>. QED BY <2>1
<1>3. <<>> \in Seq(Tab)
  OBVIOUS
<1>4. PICK f : IsRun(f, Len(s), Seq(Tab), <<>>, step)
  <2>. HIDE DEF step
  <2>1. IsStep(step, Len(s), Seq(Tab))
    BY <1>2 DEF IsStep
  <2>. QED BY <1>1, <1>3, <2>1, Iterates
<1>. HIDE DEF step
<1>4f. /\ f \in [0 .. Len(s) -> Seq(Tab)]
      /\ f[0] = <<>> /\ \A i \in 1 .. Len(s) : f[i] = step[<<i, f[i - 1]>>]
  BY <1>4 DEF IsRun
<1>5. ASSUME NEW i \in 1 .. Len(s)
      PROVE  f[i] = IF s[i].node = n THEN f[i - 1] ELSE Append(f[i - 1], s[i])
  <2>1. f[i - 1] \in Seq(Tab)
    BY <1>1, <1>4f
  <2>2. step[<<i, f[i - 1]>>] = IF s[i].node = n THEN f[i - 1] ELSE Append(f[i - 1], s[i])
    BY <2>1 DEF step
  <2>. QED BY <1>4f, <2>2
<1>6. f = Passes(f)
  <2>1. \A i \in 0 .. Len(s) : f[i] = Passes(f)[i]
    <3>1. ASSUME NEW i \in 0 .. Len(s) PROVE f[i] = Passes(f)[i]
      <4>1. i # 0 => i \in 1 .. Len(s)
        BY <1>1
      <4>. QED BY <1>4f, <1>5, <4>1
    <3>. QED BY <3>1
  <2>2. f = [i \in 0 .. Len(s) |-> f[i]]
    BY <1>4f
  <2>. QED BY <2>1, <2>2
<1>7. kept = Passes(kept)
  <2>. HIDE DEF Passes
  <2>. QED BY <1>6
<1>8. Without(s, n) = kept[Len(s)]
  BY DEF Without
<1>9. /\ kept[0] = <<>>
      /\ \A i \in 1 .. Len(s) :
            kept[i] = IF s[i].node = n THEN kept[i - 1] ELSE Append(kept[i - 1], s[i])
  <2>. HIDE DEF kept
  <2>1. 0 \in 0 .. Len(s) /\ \A i \in 1 .. Len(s) : i \in 0 .. Len(s) /\ i # 0
    BY <1>1
  <2>2. \A i \in 0 .. Len(s) : kept[i] = Passes(kept)[i]
    BY <1>7
  <2>3. \A i \in 0 .. Len(s) :
           Passes(kept)[i] = IF i = 0 THEN <<>>
             ELSE IF s[i].node = n THEN kept[i - 1] ELSE Append(kept[i - 1], s[i])
    OBVIOUS
  <2>. HIDE DEF Passes
  <2>4. kept[0] = <<>>
    BY <2>1, <2>2, <2>3
  <2>5. ASSUME NEW i \in 1 .. Len(s)
        PROVE  kept[i] = IF s[i].node = n THEN kept[i - 1] ELSE Append(kept[i - 1], s[i])
    BY <2>1, <2>2, <2>3
  <2>. QED BY <2>4, <2>5
<1>. HIDE DEF kept
<1>. QED BY <1>8, <1>9

\* Without keeps exactly the tabs of the other nodes.
LEMMA WithoutKeeps ==
    ASSUME NEW s \in Seq(Tab), NEW n, Distinct(s)
    PROVE  /\ Without(s, n) \in Seq(Tab)
           /\ Len(Without(s, n)) <= Len(s)
           /\ In(Without(s, n)) = {t \in In(s) : t.node # n}
           /\ Distinct(Without(s, n))
<1>1. PICK kept : /\ kept[0] = <<>>
                  /\ \A i \in 1 .. Len(s) :
                        kept[i] = IF s[i].node = n THEN kept[i - 1]
                                  ELSE Append(kept[i - 1], s[i])
                  /\ Without(s, n) = kept[Len(s)]
  BY WithoutIsLast
<1> DEFINE N == Len(s)
           S == {i \in 0 .. N : IsKept(kept[i], s, n, i)}
<1>2. N \in Nat
  OBVIOUS
<1>3. 0 \in S
  <2>1. {s[j] : j \in {l \in 1 .. 0 : s[l].node # n}} = {}
    OBVIOUS
  <2>2. <<>> \in Seq(Tab) /\ Len(<<>>) <= 0 /\ Distinct(<<>>) /\ In(<<>>) = {}
    BY DEF In, Distinct
  <2>3. IsKept(kept[0], s, n, 0)
    BY <1>1, <2>1, <2>2 DEF IsKept
  <2>. QED BY <1>2, <2>3
<1>4. ASSUME NEW m \in 0 .. N - 1, m \in S PROVE m + 1 \in S
  <2>1. m + 1 \in 1 .. N /\ (m + 1) - 1 = m /\ m + 1 \in 0 .. N /\ m \in 0 .. Len(s) - 1
    BY <1>2
  <2>2. kept[m + 1] = IF s[m + 1].node = n THEN kept[m] ELSE Append(kept[m], s[m + 1])
    BY <1>1, <2>1
  <2>3. IsKept(kept[m], s, n, m)
    BY <1>4
  <2>4. IsKept(kept[m + 1], s, n, m + 1)
    BY <2>1, <2>2, <2>3, KeptOne
  <2>. QED BY <2>1, <2>4
<1>5. 0 .. N \subseteq S
  <2>. HIDE DEF S, N
  <2>. QED BY <1>2, <1>3, <1>4, InductiveUpTo
<1>6. IsKept(kept[N], s, n, N)
  BY <1>2, <1>5
<1>7. {s[j] : j \in {l \in 1 .. N : s[l].node # n}} = {t \in In(s) : t.node # n}
  BY DEF In
<1>. QED BY <1>1, <1>6, <1>7 DEF IsKept

-----------------------------------------------------------------------------
(* The widget *)

LEMMA Indices ==
    ASSUME NEW s \in Seq(Tab), NEW t
    PROVE  IndexIn(s, t) \in 0 .. Len(s)
  BY DEF IndexIn, In

LEMMA WrapsAround ==
    ASSUME NEW u \in Widget, u.tabs # <<>>, NEW i \in Int
    PROVE  Wrapped(u, i) \in DOMAIN u.tabs
<1>1. u.tabs \in Seq(Tab) /\ Len(u.tabs) \in Nat \ {0} /\ DOMAIN u.tabs = 1 .. Len(u.tabs)
  BY DEF Widget
<1>. QED BY <1>1 DEF Wrapped

\* What _eventHandler and _toggle leave behind: t is active, and if its panel was
\* the visible one, or the selected one, of the document before, t's is now.
LEMMA Activates ==
    ASSUME NEW u \in Widget, NEW doc, NEW t \in Tab, NEW v, v = Activated(u, doc, t)
    PROVE  /\ v \in Widget /\ v.tabs = u.tabs /\ v.active = t
           /\ u.shown = {u.active} \cap In(doc) => v.shown = {t} \cap In(doc)
           /\ u.selected \cap In(doc) = {u.active} \cap In(doc)
                => v.selected \cap In(doc) = {t} \cap In(doc)
           /\ u.shown \subseteq In(doc) => v.shown \subseteq In(doc)
<1> DEFINE old == {u.active} \cap In(doc)
           new == {t} \cap In(doc)
<1>1. IndexIn(u.tabs, t) \in Nat
  BY Indices DEF Widget
<1>2. CASE t = u.active
  BY <1>2 DEF Activated
<1>3. CASE t # u.active /\ old \cup new = {}
  <2>1. v = [u EXCEPT !.active = t, !.index = IndexIn(u.tabs, t)]
    BY <1>3 DEF Activated
  <2>2. /\ v \in Widget /\ v.tabs = u.tabs /\ v.active = t
        /\ v.shown = u.shown /\ v.selected = u.selected
    BY <1>1, <2>1 DEF Widget
  <2>. QED BY <1>3, <2>2
<1>4. CASE t # u.active /\ old \cup new # {}
  <2> DEFINE selected == (u.selected \ {u.active}) \cup {t}
             shown == (u.shown \ old) \cup new
             index == IndexIn(u.tabs, t)
  <2>1. v = [u EXCEPT !.active = t, !.index = index, !.selected = selected, !.shown = shown]
    BY <1>4 DEF Activated, Widget
  <2>5. selected \in SUBSET Tab /\ shown \in SUBSET Tab
    BY DEF Widget
  <2>6. /\ v \in Widget /\ v.tabs = u.tabs /\ v.active = t
        /\ v.shown = shown /\ v.selected = selected
    <3>. HIDE DEF selected, shown, index
    <3>. QED BY <1>1, <2>1, <2>5 DEF Widget, index
  <2>2. /\ v \in Widget /\ v.tabs = u.tabs /\ v.active = t
        /\ v.shown = (u.shown \ old) \cup new
        /\ v.selected = (u.selected \ {u.active}) \cup {t}
    BY <2>6
  <2>3. u.shown = {u.active} \cap In(doc) => v.shown = {t} \cap In(doc)
    BY <2>2
  <2>4. u.selected \cap In(doc) = {u.active} \cap In(doc)
          => v.selected \cap In(doc) = {t} \cap In(doc)
    BY <1>4, <2>2
  <2>. QED BY <2>2, <2>3, <2>4
<1>. QED BY <1>2, <1>3, <1>4

\* After refresh the active tab has a panel, it alone is visible, and of the tabs
\* of the document it alone is selected.
LEMMA Refreshes ==
    ASSUME NEW u \in Widget, NEW doc \in Seq(Tab), doc # <<>>, u.shown \subseteq In(doc),
           NEW v, v = Refreshed(u, doc)
    PROVE  /\ v \in Widget /\ v.tabs = doc /\ v.active \in In(doc)
           /\ v.shown = {v.active} /\ v.selected \cap In(doc) = {v.active}
<1> DEFINE w == [u EXCEPT !.tabs = doc]
           r == Reactivated(u, doc)
<1>1. /\ w \in Widget /\ w.tabs = doc /\ w.active = u.active /\ w.index = u.index
      /\ w.shown = u.shown /\ w.selected = u.selected
  BY DEF Widget
<1>2. r \in Widget /\ r.tabs = doc /\ r.active \in In(doc) /\ r.shown \subseteq In(doc)
  <2>1. CASE u.active \in In(doc)
    <3>1. r = [w EXCEPT !.index = IndexIn(doc, u.active)]
      BY <2>1 DEF Reactivated
    <3>2. IndexIn(doc, u.active) \in Nat
      BY Indices
    <3>. HIDE DEF w, r
    <3>3. r \in Widget /\ r.tabs = w.tabs /\ r.active = w.active /\ r.shown = w.shown
      BY <1>1, <3>1, <3>2 DEF Widget
    <3>. QED BY <1>1, <2>1, <3>3
  <2>2. CASE u.active \notin In(doc)
    <3> DEFINE i == Wrapped(w, IF u.index > 2 THEN u.index - 1 ELSE 1)
    <3>1. r = ActivatedAt(w, doc, i)
      BY <2>2 DEF Reactivated
    <3>2. (IF u.index > 2 THEN u.index - 1 ELSE 1) \in Int
      BY DEF Widget
    <3>3. i \in DOMAIN doc
      <4>. HIDE DEF w
      <4>. QED BY <1>1, <3>2, WrapsAround
    <3>4. doc[i] \in Tab /\ doc[i] \in In(doc)
      <4>. HIDE DEF i
      <4>. QED BY <3>3 DEF In
    <3>. HIDE DEF w, r, i
    <3>5. r = Activated(w, doc, doc[i])
      BY <1>1, <3>1, <3>3 DEF ActivatedAt
    <3>. QED BY <1>1, <3>4, <3>5, Activates
  <2>. QED BY <2>1, <2>2
<1> DEFINE others == In(doc) \ {r.active}
<1> DEFINE selected == (r.selected \ others) \cup {r.active}
           shown == (r.shown \ others) \cup {r.active}
<1>3. v = [r EXCEPT !.selected = selected, !.shown = shown]
  BY <1>2 DEF Refreshed, Widget
<1>. HIDE DEF w, r
<1>5. selected \in SUBSET Tab /\ shown \in SUBSET Tab
  BY <1>2 DEF Widget
<1>6. /\ v \in Widget /\ v.tabs = r.tabs /\ v.active = r.active
      /\ v.shown = shown /\ v.selected = selected
  <2>. HIDE DEF selected, shown
  <2>. QED BY <1>2, <1>3, <1>5 DEF Widget
<1>4. /\ v \in Widget /\ v.tabs = r.tabs /\ v.active = r.active
      /\ v.shown = (r.shown \ others) \cup {r.active}
      /\ v.selected = (r.selected \ others) \cup {r.active}
  BY <1>6
<1>. QED BY <1>2, <1>4

-----------------------------------------------------------------------------
(* The invariant *)

LEMMA InitIInv == Init => IInv
<1>. SUFFICES ASSUME Init PROVE IInv
  OBVIOUS
<1>1. Home \in Tab
  BY TabsAssumption DEF Home, Tab
<1>2. <<Home>> \in Seq(Tab) /\ Len(<<Home>>) = 1 /\ DOMAIN <<Home>> = {1} /\ <<Home>>[1] = Home
  BY <1>1
<1>3. In(<<Home>>) = {Home} /\ Distinct(<<Home>>)
  BY <1>2 DEF In, Distinct
<1>4. TypeOK
  BY <1>1, <1>2, TabsAssumption DEF Init, TypeOK
<1>5. Home.id = 1
  BY DEF Home
<1>6. /\ list = <<Home>> /\ ui.tabs = <<Home>> /\ ui.active = Home /\ ui.shown = {Home}
      /\ ui.selected = {Home} /\ activating = None /\ tabCounter = 2
  BY DEF Init
<1>7. ui.tabs # <<>>
  BY <1>2, <1>6
<1>. HIDE DEF Init
<1>. QED BY <1>2, <1>3, <1>4, <1>5, <1>6, <1>7 DEF IInv

\* The actions that give another tab to the widget, and their keyboard and focus
LEMMA ActivateKeeps ==
    ASSUME IInv, NEW t \in Tab, ui' = Activated(ui, list, t),
           activating' \in {activating, None}, focus' \in Tab \cup {None},
           UNCHANGED <<list, keyboard, tabCounter>>
    PROVE  IInv'
<1>1. ui \in Widget
  BY DEF IInv, TypeOK, Widget
<1>2. /\ ui' \in Widget /\ ui'.tabs = ui.tabs /\ ui'.active = t
      /\ ui'.shown = {t} \cap In(list)
      /\ ~keyboard => ui'.selected \cap In(list) = {t} \cap In(list)
  BY <1>1, Activates DEF IInv
<1>3. TypeOK'
  BY <1>2 DEF IInv, TypeOK, Widget
<1>4. In(list)' = In(list) /\ Distinct(list)' /\ (~keyboard => activating = None)
  BY DEF IInv
<1>. QED BY <1>2, <1>3, <1>4 DEF IInv

\* ... and those that leave the widget as it is
LEMMA FocusKeeps ==
    ASSUME IInv, activating' \in {activating, None}, focus' \in Tab \cup {None},
           UNCHANGED <<list, ui, keyboard, tabCounter>>
    PROVE  IInv'
<1>1. TypeOK'
  BY DEF IInv, TypeOK
<1>2. In(list)' = In(list) /\ Distinct(list)'
  BY DEF IInv
<1>. QED BY <1>1, <1>2 DEF IInv

LEMMA Targets ==
    ASSUME IInv, NEW i \in Int
    PROVE  /\ Wrapped(ui, i) \in 1 .. Len(ui.tabs) /\ Wrapped(ui, i) \in 1 .. MaxTab
           /\ ui.tabs[Wrapped(ui, i)] \in Tab
           /\ FocusAt(Wrapped(ui, i)) \in Tab \cup {None}
<1>1. ui \in Widget /\ ui.tabs # <<>> /\ ui.tabs \in Seq(Tab) /\ focus \in Tab \cup {None}
  BY DEF IInv, TypeOK, Widget
<1>2. Wrapped(ui, i) \in 1 .. Len(ui.tabs)
  <2>1. Wrapped(ui, i) \in DOMAIN ui.tabs
    BY <1>1, WrapsAround
  <2>. QED BY <1>1, <2>1
<1>3. ui.tabs[Wrapped(ui, i)] \in Tab
  BY <1>1, <1>2
<1>4. Len(ui.tabs) \in Nat /\ MaxTab \in Nat /\ tabCounter \in 2 .. MaxTab + 1
  BY <1>1, TabsAssumption DEF IInv, TypeOK
<1>5. Len(ui.tabs) < tabCounter
  BY DEF IInv
<1>. HIDE DEF Wrapped
<1>6. Wrapped(ui, i) \in 1 .. MaxTab
  BY <1>2, <1>4, <1>5
<1>. QED BY <1>1, <1>2, <1>3, <1>6 DEF FocusAt

LEMMA KeyTargets ==
    ASSUME IInv, NEW key \in Key
    PROVE  /\ KeyTarget(key) \in 1 .. MaxTab
           /\ ui.tabs[KeyTarget(key)] \in Tab
           /\ FocusAt(KeyTarget(key)) \in Tab \cup {None}
<1>1. ui.tabs \in Seq(Tab) /\ Len(ui.tabs) \in Nat
  BY DEF IInv, TypeOK
<1>2. IndexIn(ui.tabs, focus) \in Int
  BY <1>1, Indices
<1>3. KeyIndex(key) \in Int
  <2>. HIDE DEF IndexIn
  <2>. QED BY <1>1, <1>2 DEF KeyIndex, Key
<1>. QED BY <1>3, Targets DEF KeyTarget

LEMMA OpenKeeps ==
    ASSUME IInv, NEW n \in Node, OpenTab(n)
    PROVE  IInv' /\ ui'.shown = {ui'.active} /\ ui'.active \in In(list')
<1> DEFINE t == [id |-> tabCounter, node |-> n]
           doc == Append(list, t)
           u == [ui EXCEPT !.shown = @ \cup {t}]
<1>1. /\ list \in Seq(Tab) /\ Len(list) \in Nat /\ DOMAIN list = 1 .. Len(list)
      /\ ui \in Widget /\ tabCounter \in 1 .. MaxTab /\ MaxTab \in Nat
  BY TabsAssumption DEF IInv, TypeOK, OpenTab, Widget
<1>2. t \in Tab /\ t.id = tabCounter /\ t.node = n
  BY <1>1 DEF Tab
<1>3. /\ list' = doc /\ ui' = Refreshed(u, doc) /\ tabCounter' = tabCounter + 1
      /\ focus' = None /\ UNCHANGED <<keyboard, activating>> /\ ~HasTab(n)
  BY DEF OpenTab
<1>. HIDE DEF t
<1>4. /\ doc \in Seq(Tab) /\ Len(doc) = Len(list) + 1 /\ doc # <<>>
      /\ DOMAIN doc = 1 .. Len(list) + 1
      /\ \A i \in 1 .. Len(list) : doc[i] = list[i]
      /\ doc[Len(list) + 1] = t
  BY <1>1, <1>2
<1>5. In(doc) = In(list) \cup {t}
  <2>. HIDE DEF doc
  <2>. QED BY <1>1, <1>4 DEF In
<1>6. \A s \in In(list) : s.node # t.node /\ s.id # t.id /\ s.id < tabCounter
  <2>1. ASSUME NEW s \in In(list) PROVE s.node # t.node /\ s.id < tabCounter
    BY <1>2, <1>3 DEF IInv, HasTab
  <2>. QED BY <1>1, <1>2, <2>1
<1>7. Distinct(doc)
  <2>1. \A i \in 1 .. Len(list) : doc[i] \in In(list)
    <3>. HIDE DEF doc
    <3>. QED BY <1>1, <1>4 DEF In
  <2>2. Distinct(list)
    BY DEF IInv
  <2>3. \A i \in 1 .. Len(list) : doc[i].node # t.node /\ doc[i].id # t.id
    BY <1>6, <2>1
  <2>. HIDE DEF doc
  <2>. QED BY <1>1, <1>4, <2>2, <2>3 DEF Distinct
<1>8. /\ u \in Widget /\ u.shown \subseteq In(doc)
  <2> DEFINE shown == ui.shown \cup {t}
  <2>1. shown \in SUBSET Tab /\ shown \subseteq In(doc)
    BY <1>1, <1>2, <1>5 DEF IInv, Widget
  <2>2. u = [ui EXCEPT !.shown = shown]
    BY <1>1 DEF Widget
  <2>. HIDE DEF shown, u, doc
  <2>. QED BY <1>1, <2>1, <2>2 DEF Widget
<1>. HIDE DEF doc, u
<1>9. /\ ui' \in Widget /\ ui'.tabs = doc /\ ui'.active \in In(doc)
      /\ ui'.shown = {ui'.active} /\ ui'.selected \cap In(doc) = {ui'.active}
  BY <1>3, <1>4, <1>8, Refreshes
<1>10. TypeOK'
  BY <1>1, <1>3, <1>4, <1>9 DEF IInv, TypeOK, Widget
<1>11. Home \in In(list)' /\ In(list)' = In(doc)
  BY <1>3, <1>5 DEF IInv, In
<1>12. Len(list') < tabCounter' /\ Len(ui'.tabs) < tabCounter'
  BY <1>1, <1>3, <1>4, <1>9 DEF IInv
<1>13. \A s \in In(doc) : s.id < tabCounter'
  <2>1. \A s \in In(list) : s \in Tab
    BY <1>1 DEF In
  <2>2. \A s \in Tab : s.id \in Nat
    BY <1>1 DEF Tab
  <2>. QED BY <1>1, <1>2, <1>3, <1>5, <1>6, <2>1, <2>2
<1>14. ~keyboard' => activating' = None
  BY <1>3 DEF IInv
<1>15. Distinct(list)' /\ ui'.tabs # <<>>
  BY <1>3, <1>4, <1>7, <1>9 DEF Distinct
<1>16. ui'.shown = {ui'.active} \cap In(doc)
  BY <1>9
<1>17. ui'.selected \cap In(doc) = {ui'.active} \cap In(doc)
  BY <1>9
<1>18. IInv'
  BY <1>10, <1>11, <1>12, <1>13, <1>14, <1>15, <1>16, <1>17 DEF IInv
<1>19. In(list') = In(doc)
  BY <1>3
<1>. QED BY <1>9, <1>18, <1>19

LEMMA CloseKeeps ==
    ASSUME IInv, NEW t \in In(list), CloseTab(t)
    PROVE  IInv'
<1> DEFINE doc == Without(list, t.node)
<1>1. list \in Seq(Tab) /\ Distinct(list) /\ ui \in Widget /\ Home \in In(list)
  BY DEF IInv, TypeOK, Widget
<1>2. /\ doc \in Seq(Tab) /\ Len(doc) <= Len(list) /\ Distinct(doc)
      /\ In(doc) = {s \in In(list) : s.node # t.node}
  BY <1>1, WithoutKeeps
<1>3. /\ list' = doc /\ ui' = [ui EXCEPT !.shown = {s \in @ : s.node # t.node}]
      /\ focus' = None /\ UNCHANGED <<keyboard, activating, tabCounter>> /\ t # Home
  BY DEF CloseTab
<1>. HIDE DEF doc
<1>4. Home.node # t.node
  BY <1>1, <1>3 DEF Distinct, In
<1> DEFINE shown == {s \in ui.shown : s.node # t.node}
<1>5. shown \in SUBSET Tab /\ shown = {ui.active} \cap In(doc)
  BY <1>1, <1>2 DEF IInv, Widget
<1>6. ui' = [ui EXCEPT !.shown = shown]
  BY <1>1, <1>3 DEF Widget
<1>7. /\ ui' \in Widget /\ ui'.tabs = ui.tabs /\ ui'.active = ui.active
      /\ ui'.selected = ui.selected /\ ui'.shown = shown
  <2>. HIDE DEF shown
  <2>. QED BY <1>1, <1>5, <1>6 DEF Widget
<1>8. TypeOK'
  BY <1>2, <1>3, <1>7 DEF IInv, TypeOK, Widget
<1>9. In(list)' = In(doc) /\ Home \in In(list)' /\ Distinct(list)'
  BY <1>1, <1>2, <1>3, <1>4 DEF In, Distinct
<1>10. Len(list') < tabCounter' /\ Len(ui'.tabs) < tabCounter'
  <2>1. Len(doc) \in Nat /\ Len(list) \in Nat /\ tabCounter \in Int
    BY <1>1, <1>2 DEF IInv, TypeOK
  <2>. QED BY <1>2, <1>3, <1>7, <2>1 DEF IInv
<1>11. \A s \in In(doc) : s.id < tabCounter'
  BY <1>2, <1>3 DEF IInv
<1>12. ~keyboard' => /\ activating' = None
                    /\ ui'.selected \cap In(doc) = {ui'.active} \cap In(doc)
  BY <1>2, <1>3, <1>7 DEF IInv
<1>13. ui'.tabs # <<>>
  BY <1>7 DEF IInv
<1>. QED BY <1>5, <1>7, <1>8, <1>9, <1>10, <1>11, <1>12, <1>13 DEF IInv

LEMMA ArrowKeeps ==
    ASSUME IInv, NEW key \in Key, Arrow(key)
    PROVE  IInv'
<1> DEFINE selected == (ui.selected \ {focus}) \cup {ui.tabs[KeyTarget(key)]}
<1>1. ui \in Widget /\ selected \in SUBSET Tab
  BY KeyTargets DEF IInv, TypeOK, Widget
<1>2. /\ ui' = [ui EXCEPT !.selected = selected] /\ activating' = KeyTarget(key)
      /\ focus' = FocusAt(KeyTarget(key)) /\ UNCHANGED <<list, keyboard, tabCounter>> /\ keyboard
  BY <1>1 DEF Arrow, Widget
<1>. HIDE DEF selected
<1>3. /\ ui' \in Widget /\ ui'.tabs = ui.tabs /\ ui'.active = ui.active /\ ui'.shown = ui.shown
  BY <1>1, <1>2 DEF Widget
<1>4. TypeOK'
  BY <1>2, <1>3, KeyTargets DEF IInv, TypeOK, Widget
<1>5. In(list)' = In(list) /\ Distinct(list)'
  BY <1>2 DEF IInv
<1>. QED BY <1>2, <1>3, <1>4, <1>5 DEF IInv

LEMMA StepIInv == IInv /\ [Next]_vars => IInv'
<1>. SUFFICES ASSUME IInv, [Next]_vars PROVE IInv'
  OBVIOUS
<1>1. /\ list \in Seq(Tab) /\ ui \in Widget /\ ui.tabs \in Seq(Tab) /\ ui.active \in Tab
      /\ ui.index \in Int /\ focus \in Tab \cup {None}
  BY DEF IInv, TypeOK, Widget
<1>2. \A t \in In(list) : t \in Tab
  BY <1>1 DEF In
\* An index with no tab is a click on the active one.
<1>3. ASSUME NEW i, ui' = ActivatedAt(ui, list, i)
      PROVE  \E t \in Tab : ui' = Activated(ui, list, t)
  <2>1. CASE i \in DOMAIN ui.tabs
    BY <1>1, <1>3, <2>1 DEF ActivatedAt
  <2>2. CASE i \notin DOMAIN ui.tabs
    <3>1. ui' = Activated(ui, list, ui.active)
      BY <1>3, <2>2 DEF ActivatedAt, Activated
    <3>. QED BY <1>1, <3>1
  <2>. QED BY <2>1, <2>2
<1>4. ASSUME NEW n \in Node, OpenTab(n) PROVE IInv'
  BY <1>4, OpenKeeps
<1>5. ASSUME NEW t \in In(list), CloseTab(t) PROVE IInv'
  BY <1>5, CloseKeeps
<1>6. ASSUME NEW t \in In(list), ClickTab(t) PROVE IInv'
  BY <1>2, <1>6, ActivateKeeps DEF ClickTab
<1>7. CASE FocusTabs
  BY <1>1, <1>7, FocusKeeps DEF FocusTabs
<1>8. ASSUME NEW key \in Key, Arrow(key) PROVE IInv'
  BY <1>8, ArrowKeeps
<1>9. ASSUME NEW key \in Key, ControlArrow(key) PROVE IInv'
  BY <1>9, KeyTargets, FocusKeeps DEF ControlArrow
<1>10. CASE Space
  <2>1. focus \in Tab
    BY <1>1, <1>10 DEF Space
  <2>. QED BY <1>1, <1>10, <2>1, ActivateKeeps DEF Space
<1>11. ASSUME NEW step \in {-1, 1}, Page(step) PROVE IInv'
  <2> DEFINE i == Wrapped(ui, ui.index + step)
  <2>1. ui.index + step \in Int
    BY <1>1
  <2>2. /\ ui' = ActivatedAt(ui, list, i) /\ focus' = FocusAt(i)
        /\ UNCHANGED <<list, keyboard, activating, tabCounter>>
    BY <1>11 DEF Page
  <2>3. FocusAt(i) \in Tab \cup {None}
    BY <2>1, Targets
  <2>. HIDE DEF i
  <2>4. PICK t \in Tab : ui' = Activated(ui, list, t)
    BY <1>3, <2>2
  <2>. QED BY <2>2, <2>3, <2>4, ActivateKeeps
<1>12. CASE TimerFires
  <2>1. PICK t \in Tab : ui' = Activated(ui, list, t)
    BY <1>3, <1>12 DEF TimerFires
  <2>. QED BY <1>1, <1>12, <2>1, ActivateKeeps DEF TimerFires
<1>13. CASE UNCHANGED vars
  BY <1>1, <1>13, FocusKeeps DEF vars
<1>. QED BY <1>4, <1>5, <1>6, <1>7, <1>8, <1>9, <1>10, <1>11, <1>12, <1>13 DEF Next

-----------------------------------------------------------------------------

LEMMA InvariantHolds == Spec => []IInv
  BY InitIInv, StepIInv, PTL DEF Spec

\* The index that waits for the timer, for one, is always that of a tab that was
\* opened: _findNextTab wraps around before it is stored.
THEOREM TypeCorrect == Spec => []TypeOK
<1>1. IInv => TypeOK
  BY DEF IInv
<1>. QED BY <1>1, InvariantHolds, PTL

\* Never two chats on the screen or one that was closed, also when keys select a
\* tab long before it is shown, or one that is gone.
THEOREM AtMostOneChat == Spec => []OneChatIsShown
<1>1. ASSUME IInv PROVE OneChatIsShown
  <2>1. ui.shown = {ui.active} \cap In(list)
    BY <1>1 DEF IInv
  <2>2. CASE ui.shown = {}
    <3>1. Cardinality(ui.shown) = 0
      BY <2>2, FS_EmptySet
    <3>. QED BY <2>2, <3>1 DEF OneChatIsShown
  <2>3. CASE ui.shown # {}
    <3>1. ui.shown = {ui.active}
      BY <2>1, <2>3
    <3>2. Cardinality(ui.shown) = 1
      BY <3>1, FS_Singleton
    <3>. QED BY <2>1, <3>2 DEF OneChatIsShown
  <2>. QED BY <2>2, <2>3
<1>. QED BY <1>1, InvariantHolds, PTL

\* Without keys a message goes to the node whose chat is on the screen.
THEOREM RecipientIsShown == Spec => []MessagesGoToTheShownChat
<1>1. ASSUME IInv, ~keyboard, ui.shown # {} PROVE Agrees
  <2>1. /\ ui.shown = {ui.active} \cap In(list)
        /\ ui.selected \cap In(list) = {ui.active} \cap In(list)
    BY <1>1 DEF IInv
  <2>2. ui.active \in In(list) /\ ui.shown = {ui.active}
    BY <1>1, <2>1
  <2>3. PICK k \in DOMAIN list : list[k] = ui.active
    BY <2>2 DEF In
  <2> DEFINE chosen == {i \in DOMAIN list : list[i] \in ui.selected}
  <2>4. \A i \in chosen : list[i] = ui.active
    BY <2>1 DEF In
  <2>5. list[k] \in ui.selected
    BY <2>1, <2>2, <2>3
  <2>6. chosen = {k}
    <3>1. \A i \in DOMAIN list : list[i] = list[k] => i = k
      BY <1>1, <2>3 DEF IInv, Distinct
    <3>. QED BY <2>3, <2>4, <2>5, <3>1
  <2>7. DOMAIN list \subseteq Int
    BY <1>1 DEF IInv, TypeOK
  <2> DEFINE first == CHOOSE i \in chosen : \A j \in chosen : i <= j
  <2>8. first = k
    <3>1. \E i \in chosen : \A j \in chosen : i <= j
      BY <2>3, <2>6, <2>7
    <3>2. first \in chosen
      <4>. HIDE DEF chosen
      <4>. QED BY <3>1
    <3>. QED BY <2>6, <3>2
  <2>9. Recipient = list[first].node
    BY <2>6 DEF Recipient
  <2>10. Recipient = ui.active.node
    <3>. HIDE DEF first
    <3>. QED BY <2>3, <2>8, <2>9
  <2>. QED BY <2>2, <2>10 DEF Agrees
<1>2. IInv => MessagesGoToTheShownChat
  BY <1>1 DEF MessagesGoToTheShownChat, Agrees
<1>. QED BY <1>2, InvariantHolds, PTL

\* Whatever was on the screen, a tab that is opened leaves one chat there.
THEOREM OpeningShows == Spec => OpeningShowsATab
<1>1. ASSUME IInv, [Next]_vars
      PROVE  [tabCounter' > tabCounter
                => ui'.shown = {ui'.active} /\ ui'.active \in In(list')]_vars
  <2>. SUFFICES ASSUME tabCounter' > tabCounter
                PROVE  ui'.shown = {ui'.active} /\ ui'.active \in In(list')
    OBVIOUS
  <2>1. tabCounter \in Int
    BY <1>1 DEF IInv, TypeOK
  <2>2. tabCounter' # tabCounter
    BY <2>1
  <2>3. PICK n \in Node : OpenTab(n)
    BY <1>1, <2>2 DEF Next, CloseTab, ClickTab, FocusTabs, Arrow, ControlArrow, Space, Page,
         TimerFires, vars
  <2>. QED BY <1>1, <2>3, OpenKeeps
<1>. QED BY <1>1, InvariantHolds, PTL DEF Spec, OpeningShowsATab
===============================================================================
