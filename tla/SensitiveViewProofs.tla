------------------------ MODULE SensitiveViewProofs ------------------------
(***************************************************************************)
(* Proofs about SensitiveView and LogStreams for every number of scopes,   *)
(* pages, reveals, requests and streams: what is hidden is neither shown   *)
(* nor kept, no cookie is left behind that the tab does not show, and the  *)
(* streams of the live log are counted and end with their grant.           *)
(***************************************************************************)
EXTENDS SensitiveView, LogStreams, SequenceTheorems, FiniteSetTheorems, TLAPS

AnyScope == ViewScopes \cup {None}
Grants == Reveals \cup {None}
RevealRecords ==
    [stage : {"new", "waiting", "settling", "proving", "asked", "granted", "refused",
              "unauthorized", "canceled", "over"},
     by : {"eye", "dialog"}, scope : AnyScope, current : BOOLEAN, after : Nat, cookie : Grants]
\* A reveal that has begun and is not over is one of a scope.
RevealStates ==
    {st \in RevealRecords : st.stage \notin {"new", "over"} => st.scope \in ViewScopes}
HideStates ==
    [scopes : SUBSET ViewScopes, stage : {"queued", "sent", "done", "refused"},
     tokens : SUBSET Reveals]
FetchStates ==
    [stage : {"idle", "sent", "meta", "full", "refused"}, grant : Grants, cookie : Grants]

TabTypes ==
    /\ tab \in [hidden : BOOLEAN, user : BOOLEAN, page : Pages]
    /\ requested \in AnyScope
    /\ revealed \in [ViewScopes -> Grants] /\ jar \in [ViewScopes -> Grants]
PageTypes ==
    /\ fetches \in [Fetches -> FetchStates]
    /\ content \in {"none", "meta", "full"}
ServerTypes == session \in BOOLEAN /\ valid \subseteq Reveals /\ missed \in BOOLEAN
RevealTypes == reveals \in [Reveals -> RevealStates]
HideTypes == hides \in Seq(HideStates)
ViewTypes == TabTypes /\ PageTypes /\ ServerTypes /\ RevealTypes /\ HideTypes

ViewInv == ViewTypes /\ ShownOnlyInView /\ VaultFollowsGrant

LEMMA NewStates ==
  /\ NoReveal \in RevealStates /\ Over \in RevealStates /\ NoFetch \in FetchStates
  BY DEF NoReveal, Over, RevealRecords, RevealStates, NoFetch, FetchStates, AnyScope, Grants

LEMMA InitViewInv == ViewInit => ViewInv
<1> SUFFICES ASSUME ViewInit PROVE ViewInv
  OBVIOUS
<1>1. TabTypes /\ ServerTypes
  <2>1. tab \in [hidden : BOOLEAN, user : BOOLEAN, page : Pages]
    <3>1. PICK p \in Pages : tab = [hidden |-> FALSE, user |-> TRUE, page |-> p]
      BY DEF ViewInit
    <3> QED
      BY <3>1
  <2>2. requested \in AnyScope /\ None \in Grants
    BY DEF ViewInit, AnyScope, Grants
  <2>3. revealed \in [ViewScopes -> Grants] /\ jar \in [ViewScopes -> Grants]
    BY <2>2 DEF ViewInit
  <2>4. ServerTypes
    BY DEF ViewInit, ServerTypes
  <2> QED
    BY <2>1, <2>2, <2>3, <2>4 DEF TabTypes
<1>2. PageTypes /\ RevealTypes /\ HideTypes
  BY NewStates DEF ViewInit, PageTypes, RevealTypes, HideTypes
<1>3. ShownOnlyInView
  BY DEF ViewInit, ShownOnlyInView
<1>4. VaultFollowsGrant
  BY DEF ViewInit, VaultFollowsGrant
<1> QED
  BY <1>1, <1>2, <1>3, <1>4 DEF ViewInv, ViewTypes

-----------------------------------------------------------------------------
(* What the helpers do to the types. *)

LEMMA EpochEnds ==
  ASSUME NEW rs \in [Reveals -> RevealStates]
  PROVE  WithoutEpoch(rs) \in [Reveals -> RevealStates]
<1>1. ASSUME NEW r \in Reveals
      PROVE  [rs[r] EXCEPT !.current = FALSE] \in RevealStates
  BY DEF RevealStates, RevealRecords
<1> QED
  BY <1>1 DEF WithoutEpoch

\* What hideSensitive() is to the reveals and to the queue.
Hiding(scopes) ==
    /\ revealed' = [s \in ViewScopes |-> IF s \in scopes THEN None ELSE revealed[s]]
    /\ \E h \in HideStates :
          h.scopes = scopes /\ h.stage = "queued" /\ hides' = Append(hides, h)

LEMMA HideScopesIs ==
  ASSUME ViewTypes, NEW scopes \in SUBSET ViewScopes, NEW invalidate \in BOOLEAN,
         NEW closeDialog \in BOOLEAN, NEW rs \in [Reveals -> RevealStates],
         HideScopes(scopes, invalidate, closeDialog, rs)
  PROVE  /\ Hiding(scopes) /\ RevealTypes' /\ HideTypes'
         /\ requested' \in AnyScope /\ revealed' \in [ViewScopes -> Grants]
<1> DEFINE h == [scopes |-> scopes, stage |-> "queued", tokens |-> {}]
<1>1. h \in HideStates /\ h.scopes = scopes /\ h.stage = "queued"
  BY DEF HideStates
<1>2. hides' = Append(hides, h)
  BY DEF HideScopes
<1>3. HideTypes'
  BY <1>1, <1>2, AppendProperties DEF ViewTypes, HideTypes
<1>4. RevealTypes'
  BY EpochEnds DEF HideScopes, RevealTypes
<1>5. requested' \in AnyScope /\ revealed' \in [ViewScopes -> Grants]
  BY DEF HideScopes, ViewTypes, TabTypes, AnyScope, Grants
<1>6. revealed' = [s \in ViewScopes |-> IF s \in scopes THEN None ELSE revealed[s]]
  BY DEF HideScopes
<1> QED
  BY <1>1, <1>2, <1>3, <1>4, <1>5, <1>6 DEF Hiding

LEMMA HideAllIs ==
  ASSUME ViewTypes, NEW rs \in [Reveals -> RevealStates], HideAll(rs)
  PROVE  /\ Hiding(ViewScopes) /\ RevealTypes' /\ HideTypes'
         /\ requested' \in AnyScope /\ revealed' \in [ViewScopes -> Grants]
         /\ \A s \in ViewScopes : revealed'[s] = None
<1>1. /\ Hiding(ViewScopes) /\ RevealTypes' /\ HideTypes'
      /\ requested' \in AnyScope /\ revealed' \in [ViewScopes -> Grants]
  BY HideScopesIs DEF HideAll
<1> QED
  BY <1>1 DEF Hiding

LEMMA ScopeOfPage ==
  ASSUME TabTypes
  PROVE  ScopeOf[tab.page] \in ViewScopes
  BY ViewAssumption DEF TabTypes, Pages

LEMMA FetchTypes ==
  ASSUME ViewTypes, NEW grant \in Grants, jar' \in [ViewScopes -> Grants], Fetch(grant)
  PROVE  fetches' \in [Fetches -> FetchStates]
<1>1. PICK f \in Fetches : fetches' = [fetches EXCEPT ![f] =
               [stage |-> "sent", grant |-> grant, cookie |-> jar'[ScopeOf[tab.page]]]]
  BY DEF Fetch
<1>2. [stage |-> "sent", grant |-> grant, cookie |-> jar'[ScopeOf[tab.page]]] \in FetchStates
  BY ScopeOfPage DEF ViewTypes, FetchStates
<1> QED
  BY <1>1, <1>2 DEF ViewTypes, PageTypes

LEMMA FollowTypes ==
  ASSUME ViewTypes, PageFollows,
         revealed' \in [ViewScopes -> Grants], jar' \in [ViewScopes -> Grants]
  PROVE  PageTypes'
<1> DEFINE scope == ScopeOf[tab.page]
<1>1. scope \in ViewScopes
  BY ScopeOfPage DEF ViewTypes
<1>2. CASE UNCHANGED <<fetches, content>>
  BY <1>2 DEF ViewTypes, PageTypes
<1>3. CASE content' = "none" /\ Fetch(revealed'[scope])
  BY <1>1, <1>3, FetchTypes DEF PageTypes
<1>4. CASE content' = "none" /\ UNCHANGED fetches
  BY <1>4 DEF ViewTypes, PageTypes
<1> QED
  BY <1>2, <1>3, <1>4 DEF PageFollows

LEMMA MountedTypes ==
  ASSUME ViewTypes, NEW page \in Pages, Mounted(page) \/ Unmounted
  PROVE  PageTypes' /\ content' = "none"
<1>1. content' = "none"
  BY DEF Mounted, Unmounted
<1>2. ASSUME NEW f \in Fetches,
             fetches' = [g \in Fetches |->
                IF g = f THEN [NoFetch EXCEPT !.stage = "sent", !.cookie = jar[ScopeOf[page]]]
                         ELSE NoFetch]
      PROVE  fetches' \in [Fetches -> FetchStates]
  <2>1. jar[ScopeOf[page]] \in Grants
    BY ViewAssumption DEF ViewTypes, TabTypes, Pages
  <2>2. [NoFetch EXCEPT !.stage = "sent", !.cookie = jar[ScopeOf[page]]] \in FetchStates
    BY <2>1, NewStates DEF FetchStates
  <2> QED
    BY <1>2, <2>2, NewStates
<1>3. fetches' \in [Fetches -> FetchStates]
  BY <1>2, NewStates DEF Mounted, Unmounted
<1> QED
  BY <1>1, <1>3 DEF PageTypes

-----------------------------------------------------------------------------
(* How each invariant survives the kinds of steps there are. *)

LEMMA HidingShows ==
  ASSUME ShownOnlyInView, NEW scopes, Hiding(scopes), UNCHANGED tab
  PROVE  ShownOnlyInView'
  BY DEF ShownOnlyInView, Shown, Hiding

LEMMA AllHiddenShows ==
  ASSUME \A s \in ViewScopes : revealed'[s] = None
  PROVE  ShownOnlyInView'
  BY DEF ShownOnlyInView

LEMMA FollowingVault ==
  ASSUME VaultFollowsGrant, PageFollows, tab'.page = tab.page
  PROVE  VaultFollowsGrant'
  BY DEF VaultFollowsGrant, PageFollows

LEMMA BlankVault ==
  ASSUME content' = "none"
  PROVE  VaultFollowsGrant'
  BY DEF VaultFollowsGrant

\* A step that changes neither who looks nor what is hidden.
LEMMA ElsewhereKeeps ==
  ASSUME ViewInv, UNCHANGED <<tab, revealed, jar, content, missed>>,
         HideTypes', requested' \in AnyScope, RevealTypes',
         fetches' \in [Fetches -> FetchStates], session' \in BOOLEAN, valid' \subseteq Reveals
  PROVE  ViewInv'
<1>1. ViewTypes'
  BY DEF ViewInv, ViewTypes, TabTypes, PageTypes, ServerTypes
<1>2. ShownOnlyInView' /\ VaultFollowsGrant'
  BY DEF ViewInv, ShownOnlyInView, Shown, VaultFollowsGrant
<1> QED
  BY <1>1, <1>2 DEF ViewInv

-----------------------------------------------------------------------------
(* Hiding. *)

\* The tab stays as it is, and its page follows.
LEMMA HidingKeeps ==
  ASSUME ViewInv, NEW scopes \in SUBSET ViewScopes, NEW invalidate \in BOOLEAN,
         NEW closeDialog \in BOOLEAN, NEW rs \in [Reveals -> RevealStates],
         HideScopes(scopes, invalidate, closeDialog, rs), PageFollows,
         jar' \in [ViewScopes -> Grants],
         UNCHANGED <<tab, session, valid, missed>>
  PROVE  ViewInv'
<1>1. /\ Hiding(scopes) /\ RevealTypes' /\ HideTypes'
      /\ requested' \in AnyScope /\ revealed' \in [ViewScopes -> Grants]
  BY HideScopesIs DEF ViewInv
<1>2. PageTypes'
  BY <1>1, FollowTypes DEF ViewInv
<1>3. TabTypes' /\ ServerTypes'
  BY <1>1 DEF ViewInv, ViewTypes, TabTypes, ServerTypes
<1>4. ShownOnlyInView'
  BY <1>1, HidingShows DEF ViewInv
<1>5. VaultFollowsGrant'
  BY FollowingVault DEF ViewInv
<1> QED
  BY <1>1, <1>2, <1>3, <1>4, <1>5 DEF ViewInv, ViewTypes

LEMMA HideStepKeeps ==
  ASSUME ViewInv, Cancel \/ Blur \/ \E s \in ViewScopes : HideScope(s) \/ TimerFires(s)
  PROVE  ViewInv'
<1>1. /\ jar' = jar /\ PageFollows /\ UNCHANGED <<tab, session, valid, missed>>
  BY DEF Cancel, Blur, HideScope, TimerFires
<1>2. /\ reveals \in [Reveals -> RevealStates] /\ jar' \in [ViewScopes -> Grants]
  BY <1>1 DEF ViewInv, ViewTypes, TabTypes, RevealTypes
<1>3. ASSUME NEW s \in ViewScopes, HideScopes({s}, TRUE, TRUE, reveals)
      PROVE  ViewInv'
  BY <1>1, <1>2, <1>3, HidingKeeps
<1>4. CASE HideAll(reveals)
  BY <1>1, <1>2, <1>4, HidingKeeps DEF HideAll
<1>5. CASE HideScopes(ViewScopes, requested = None, requested = None, reveals)
  <2>1. (requested = None) \in BOOLEAN
    OBVIOUS
  <2> QED
    BY <1>1, <1>2, <1>5, <2>1, HidingKeeps
<1> QED
  BY <1>3, <1>4, <1>5 DEF Cancel, Blur, HideScope, TimerFires

\* The tab changes, and everything is hidden.
LEMMA HideAllKeeps ==
  ASSUME ViewInv, NEW rs \in [Reveals -> RevealStates], HideAll(rs), UNCHANGED <<jar, missed>>,
         tab' \in [hidden : BOOLEAN, user : BOOLEAN, page : Pages], PageTypes',
         VaultFollowsGrant', session' \in BOOLEAN, UNCHANGED valid
  PROVE  ViewInv'
<1>1. /\ Hiding(ViewScopes) /\ RevealTypes' /\ HideTypes'
      /\ requested' \in AnyScope /\ revealed' \in [ViewScopes -> Grants]
      /\ \A s \in ViewScopes : revealed'[s] = None
  BY HideAllIs DEF ViewInv
<1>2. TabTypes' /\ ServerTypes'
  BY <1>1 DEF ViewInv, ViewTypes, TabTypes, ServerTypes
<1>3. ShownOnlyInView'
  BY <1>1, AllHiddenShows
<1> QED
  BY <1>1, <1>2, <1>3 DEF ViewInv, ViewTypes

LEMMA VisibilityHiddenKeeps ==
  ASSUME ViewInv, VisibilityHidden
  PROVE  ViewInv'
<1>1. /\ tab' = [tab EXCEPT !.hidden = TRUE] /\ HideAll(reveals) /\ jar' = jar /\ PageFollows
      /\ UNCHANGED <<session, valid, missed>>
  BY DEF VisibilityHidden
<1>2. reveals \in [Reveals -> RevealStates]
  BY DEF ViewInv, ViewTypes, RevealTypes
<1>3. tab' \in [hidden : BOOLEAN, user : BOOLEAN, page : Pages] /\ tab'.page = tab.page
  BY <1>1 DEF ViewInv, ViewTypes, TabTypes
<1>4. revealed' \in [ViewScopes -> Grants] /\ jar' \in [ViewScopes -> Grants]
  BY <1>1, <1>2, HideAllIs DEF ViewInv, ViewTypes, TabTypes
<1>5. PageTypes' /\ VaultFollowsGrant'
  BY <1>1, <1>3, <1>4, FollowTypes, FollowingVault DEF ViewInv
<1> QED
  BY <1>1, <1>2, <1>3, <1>5, HideAllKeeps DEF ViewInv, ViewTypes, ServerTypes

LEMMA NewPageKeeps ==
  ASSUME ViewInv, SignInTab \/ \E p \in Pages : Navigate(p)
  PROVE  ViewInv'
<1>1. PICK p \in Pages :
         /\ Mounted(p) /\ HideAll(reveals) /\ UNCHANGED <<jar, valid, missed>>
         /\ tab' \in {[tab EXCEPT !.page = p], [tab EXCEPT !.user = TRUE]}
         /\ session' \in {session, TRUE}
  BY DEF SignInTab, Navigate, ViewInv, ViewTypes, TabTypes
<1>2. reveals \in [Reveals -> RevealStates] /\ session' \in BOOLEAN
  BY <1>1 DEF ViewInv, ViewTypes, RevealTypes, ServerTypes
<1>3. tab' \in [hidden : BOOLEAN, user : BOOLEAN, page : Pages]
  BY <1>1 DEF ViewInv, ViewTypes, TabTypes
<1>4. PageTypes' /\ VaultFollowsGrant'
  BY <1>1, MountedTypes, BlankVault DEF ViewInv
<1> QED
  BY <1>1, <1>2, <1>3, <1>4, HideAllKeeps

LEMMA SignedOutKeeps ==
  ASSUME ViewInv, NEW rs \in [Reveals -> RevealStates], SignedOut(rs)
  PROVE  ViewInv'
<1>1. /\ tab' = [tab EXCEPT !.user = FALSE] /\ HideAll(rs) /\ Unmounted
      /\ UNCHANGED <<jar, session, valid, missed>>
  BY DEF SignedOut
<1>2. tab' \in [hidden : BOOLEAN, user : BOOLEAN, page : Pages]
  BY <1>1 DEF ViewInv, ViewTypes, TabTypes
<1>3. tab.page \in Pages
  BY DEF ViewInv, ViewTypes, TabTypes
<1>4. PageTypes' /\ VaultFollowsGrant'
  BY <1>1, <1>3, MountedTypes, BlankVault DEF ViewInv
<1> QED
  BY <1>1, <1>2, <1>4, HideAllKeeps DEF ViewInv, ViewTypes, ServerTypes

-----------------------------------------------------------------------------
(* The queue of hides. *)

LEMMA SettledTypes ==
  ASSUME RevealTypes
  PROVE  Settled(reveals) \in [Reveals -> RevealStates]
<1>1. ASSUME NEW r \in Reveals, reveals[r].after # 0
      PROVE  [reveals[r] EXCEPT !.after = @ - 1] \in RevealStates
  BY <1>1 DEF RevealTypes, RevealStates, RevealRecords
<1> QED
  BY <1>1 DEF Settled, RevealTypes

\* What becomes of the first hide.
LEMMA FirstHideIs ==
  ASSUME ViewTypes, SendHide \/ ServerHides \/ MaintenanceRefuses
  PROVE  /\ HideTypes' /\ Len(hides') = Len(hides) /\ Len(hides) \in Nat
         /\ \A i \in 1..Len(hides) : hides'[i].scopes = hides[i].scopes
         /\ \A i \in 1..Len(hides) : i # 1 => hides'[i] = hides[i]
         /\ hides[1].stage \in {"queued", "sent"}
         /\ SendHide => /\ hides'[1].tokens = {jar[s] : s \in hides[1].scopes} \ {None}
                        /\ hides'[1].stage = IF session THEN "sent" ELSE "refused"
<1>1. hides # <<>> /\ hides[1].stage \in {"queued", "sent"}
  BY DEF SendHide, ServerHides, MaintenanceRefuses
<1>2. Len(hides) \in Nat /\ 1 \in 1..Len(hides) /\ hides[1] \in HideStates
  BY <1>1, EmptySeq DEF ViewTypes, HideTypes
<1>3. PICK h \in HideStates :
         /\ hides' = [hides EXCEPT ![1] = h] /\ h.scopes = hides[1].scopes
         /\ SendHide => /\ h.tokens = {jar[s] : s \in hides[1].scopes} \ {None}
                        /\ h.stage = IF session THEN "sent" ELSE "refused"
  <2>1. CASE SendHide
    <3> DEFINE tokens == {jar[s] : s \in hides[1].scopes} \ {None}
               stage == IF session THEN "sent" ELSE "refused"
               h == [hides[1] EXCEPT !.stage = stage, !.tokens = tokens]
    <3>1. hides' = [hides EXCEPT ![1] = h]
      BY <1>2, <2>1 DEF SendHide
    <3>2. tokens \in SUBSET Reveals /\ hides[1].scopes \in SUBSET ViewScopes
      BY <1>2 DEF ViewTypes, TabTypes, Grants, HideStates
    <3>3. stage \in {"sent", "refused"}
      OBVIOUS
    <3> HIDE DEF stage
    <3>4. h \in HideStates /\ h.scopes = hides[1].scopes /\ h.tokens = tokens /\ h.stage = stage
      BY <1>2, <3>2, <3>3 DEF HideStates
    <3> QED
      BY <3>1, <3>4 DEF stage
  <2>2. CASE ServerHides \/ MaintenanceRefuses
    <3>1. PICK stage \in {"done", "refused"} :
             hides' = [hides EXCEPT ![1] = [hides[1] EXCEPT !.stage = stage]]
      BY <1>2, <2>2 DEF ServerHides, MaintenanceRefuses
    <3>2. /\ [hides[1] EXCEPT !.stage = stage] \in HideStates
          /\ [hides[1] EXCEPT !.stage = stage].scopes = hides[1].scopes
      BY <1>2 DEF HideStates
    <3>3. ~SendHide
      BY <2>2 DEF SendHide, ServerHides, MaintenanceRefuses
    <3> QED
      BY <3>1, <3>2, <3>3
  <2> QED
    BY <2>1, <2>2
<1> QED
  BY <1>1, <1>2, <1>3, ExceptSeq DEF ViewTypes, HideTypes

LEMMA HideOnWayKeeps ==
  ASSUME ViewInv, SendHide \/ ServerHides \/ MaintenanceRefuses
  PROVE  ViewInv'
<1>1. /\ UNCHANGED <<tab, requested, revealed, reveals, jar, fetches, content, session>>
      /\ valid' \subseteq valid /\ missed' \in {missed, TRUE}
  BY DEF SendHide, ServerHides, MaintenanceRefuses
<1>2. ViewTypes'
  BY <1>1, FirstHideIs DEF ViewInv, ViewTypes, TabTypes, PageTypes, ServerTypes, RevealTypes
<1>3. ShownOnlyInView' /\ VaultFollowsGrant'
  BY <1>1 DEF ViewInv, ShownOnlyInView, Shown, VaultFollowsGrant
<1> QED
  BY <1>2, <1>3 DEF ViewInv

\* The first hide is off the queue.
LEMMA ShorterQueue ==
  ASSUME HideTypes, hides # <<>>, hides' = Tail(hides)
  PROVE  /\ HideTypes' /\ Len(hides) \in Nat \ {0} /\ Len(hides') = Len(hides) - 1
         /\ \A i \in 2..Len(hides) : i - 1 \in 1..Len(hides') /\ hides'[i - 1] = hides[i]
<1>1. /\ HideTypes' /\ Len(hides) \in Nat \ {0} /\ Len(hides') = Len(hides) - 1
      /\ \A i \in 1..Len(hides') : hides'[i] = hides[i + 1]
  BY HeadTailProperties, EmptySeq DEF HideTypes
<1>2. ASSUME NEW i \in 2..Len(hides)
      PROVE  i - 1 \in 1..Len(hides') /\ hides'[i - 1] = hides[i]
  <2>1. i - 1 \in 1..Len(hides') /\ (i - 1) + 1 = i
    BY <1>1, <1>2
  <2> QED
    BY <1>1, <2>1
<1> QED
  BY <1>1, <1>2

LEMMA HideEndsKeeps ==
  ASSUME ViewInv, HideAnswered \/ HideLost
  PROVE  ViewInv'
<1>1. /\ hides # <<>> /\ hides' = Tail(hides) /\ reveals' = Settled(reveals)
      /\ UNCHANGED <<tab, requested, revealed, fetches, content, session, valid>>
  BY DEF HideAnswered, HideLost
<1>2. HideTypes'
  BY <1>1, ShorterQueue DEF ViewInv, ViewTypes
<1>3. RevealTypes'
  BY <1>1, SettledTypes DEF ViewInv, ViewTypes, RevealTypes
<1>4. jar' \in [ViewScopes -> Grants] /\ missed' \in BOOLEAN
  BY DEF HideAnswered, HideLost, ViewInv, ViewTypes, TabTypes, ServerTypes, Grants
<1>5. ViewTypes'
  BY <1>1, <1>2, <1>3, <1>4 DEF ViewInv, ViewTypes, TabTypes, PageTypes, ServerTypes
<1>6. ShownOnlyInView' /\ VaultFollowsGrant'
  BY <1>1 DEF ViewInv, ShownOnlyInView, Shown, VaultFollowsGrant
<1> QED
  BY <1>5, <1>6 DEF ViewInv

-----------------------------------------------------------------------------
(* Reveals that change nothing but themselves and the dialog. *)

LEMMA OneReveal ==
  ASSUME ViewInv, NEW r \in Reveals, NEW st \in RevealStates,
         reveals' = [reveals EXCEPT ![r] = st], requested' \in AnyScope, valid' \subseteq Reveals,
         UNCHANGED <<tab, revealed, hides, jar, fetches, content, session, missed>>
  PROVE  ViewInv'
<1>1. RevealTypes'
  BY DEF ViewInv, ViewTypes, RevealTypes
<1> QED
  BY <1>1, ElsewhereKeeps DEF ViewInv, ViewTypes, PageTypes, ServerTypes, HideTypes

LEMMA FailedKeeps ==
  ASSUME ViewInv, NEW r \in Reveals, Failed(r)
  PROVE  ViewInv'
<1>1. requested' \in AnyScope
  BY DEF Failed, ViewInv, ViewTypes, TabTypes, RevealTypes, RevealStates, RevealRecords
<1> QED
  BY <1>1, NewStates, OneReveal DEF Failed, ViewInv, ViewTypes, ServerTypes

LEMMA BeginKeeps ==
  ASSUME ViewInv, NEW r \in Reveals,
         Submit(r) \/ StartReveal(r) \/ \E s \in ViewScopes : RequestReveal(r, s)
  PROVE  ViewInv'
<1>1. /\ Len(hides) \in Nat /\ requested \in AnyScope /\ valid \subseteq Reveals
      /\ reveals[r] \in RevealStates
  BY LenProperties DEF ViewInv, ViewTypes, HideTypes, TabTypes, ServerTypes, RevealTypes
<1>2. ASSUME NEW s \in ViewScopes, RequestReveal(r, s)
      PROVE  ViewInv'
  <2>1. [NoReveal EXCEPT !.stage = "waiting", !.scope = s, !.after = Len(hides)] \in RevealStates
    BY <1>1 DEF NoReveal, RevealStates, RevealRecords, AnyScope, Grants
  <2> QED
    BY <1>1, <1>2, <2>1, OneReveal DEF RequestReveal
<1>3. CASE StartReveal(r)
  <2>1. reveals[r].stage = "waiting"
    BY <1>3 DEF StartReveal
  <2>2. [reveals[r] EXCEPT !.stage = "settling", !.current = TRUE, !.after = Len(hides)]
            \in RevealStates
    BY <1>1, <2>1 DEF RevealStates, RevealRecords
  <2> QED
    BY <1>1, <1>3, <2>2, NewStates, OneReveal DEF StartReveal
<1>4. CASE Submit(r)
  <2>1. [NoReveal EXCEPT !.stage = "proving", !.by = "dialog", !.scope = requested,
                         !.current = TRUE] \in RevealStates
    BY <1>1, <1>4 DEF Submit, NoReveal, RevealStates, RevealRecords, AnyScope, Grants
  <2> QED
    BY <1>1, <1>4, <2>1, OneReveal DEF Submit
<1> QED
  BY <1>2, <1>3, <1>4

LEMMA AskKeeps ==
  ASSUME ViewInv, NEW r \in Reveals, Authenticate(r) \/ Ask(r) \/ ServerReveals(r)
  PROVE  ViewInv'
<1>1. /\ Len(hides) \in Nat /\ requested \in AnyScope /\ valid \subseteq Reveals
      /\ reveals[r] \in RevealStates
  BY LenProperties DEF ViewInv, ViewTypes, HideTypes, TabTypes, ServerTypes, RevealTypes
<1>2. CASE Authenticate(r)
  <2>1. [reveals[r] EXCEPT !.stage = "settling", !.after = Len(hides)] \in RevealStates
    BY <1>1, <1>2 DEF Authenticate, RevealStates, RevealRecords
  <2>2. \/ reveals' = [reveals EXCEPT ![r] = [reveals[r] EXCEPT !.stage = "settling",
                                                              !.after = Len(hides)]]
        \/ reveals' = [reveals EXCEPT ![r] = Over]
    BY <1>2 DEF Authenticate, ViewInv, ViewTypes, RevealTypes
  <2> QED
    BY <1>1, <1>2, <2>1, <2>2, NewStates, OneReveal DEF Authenticate
<1>3. CASE Ask(r)
  <2>1. CASE StillWanted(r)
    <3> DEFINE st == [reveals[r] EXCEPT !.stage = "asked", !.cookie = jar[reveals[r].scope]]
    <3>1. reveals[r].scope \in ViewScopes
      BY <1>1, <1>3 DEF Ask, RevealStates
    <3>2. jar[reveals[r].scope] \in Grants
      BY <3>1 DEF ViewInv, ViewTypes, TabTypes
    <3>3. st \in RevealStates
      BY <1>1, <3>1, <3>2 DEF RevealStates, RevealRecords
    <3>4. reveals' = [reveals EXCEPT ![r] = st]
      BY <1>3, <2>1 DEF Ask, ViewInv, ViewTypes, RevealTypes
    <3> QED
      BY <1>1, <1>3, <2>1, <3>3, <3>4, OneReveal DEF Ask
  <2> QED
    BY <1>3, <2>1, FailedKeeps DEF Ask
<1>4. CASE ServerReveals(r)
  <2>1. \A stage \in {"granted", "refused", "unauthorized"} :
            [reveals[r] EXCEPT !.stage = stage, !.cookie = None] \in RevealStates
    BY <1>1, <1>4 DEF ServerReveals, RevealStates, RevealRecords, Grants
  <2>2. \E stage \in {"granted", "refused", "unauthorized"} :
            reveals' = [reveals EXCEPT ![r] = [reveals[r] EXCEPT !.stage = stage, !.cookie = None]]
    BY <1>4 DEF ServerReveals, ViewInv, ViewTypes, RevealTypes
  <2>3. valid' \subseteq Reveals
    BY <1>1, <1>4 DEF ServerReveals
  <2> QED
    BY <1>1, <1>4, <2>1, <2>2, <2>3, OneReveal DEF ServerReveals
<1> QED
  BY <1>2, <1>3, <1>4

-----------------------------------------------------------------------------
(* The answer to a reveal. *)

LEMMA ShowScopeKeeps ==
  ASSUME ViewInv, NEW r \in Reveals, StillWanted(r), ShowScope(r),
         reveals[r].scope \in ViewScopes, jar' = [jar EXCEPT ![reveals[r].scope] = r]
  PROVE  ViewInv'
<1> DEFINE s == reveals[r].scope
<1>1. /\ revealed' = [revealed EXCEPT ![s] = r] /\ requested' = None /\ PageFollows
      /\ reveals' = WithoutEpoch([reveals EXCEPT ![r] = Over])
      /\ UNCHANGED <<tab, hides, session, valid, missed>>
  BY DEF ShowScope
<1>2. /\ revealed' \in [ViewScopes -> Grants] /\ jar' \in [ViewScopes -> Grants]
      /\ revealed'[s] = r /\ jar'[s] = r
      /\ \A x \in ViewScopes : x # s => revealed'[x] = revealed[x] /\ jar'[x] = jar[x]
  BY <1>1 DEF ViewInv, ViewTypes, TabTypes, Grants
<1>3. TabTypes' /\ ServerTypes' /\ HideTypes'
  BY <1>1, <1>2 DEF ViewInv, ViewTypes, TabTypes, ServerTypes, HideTypes, AnyScope
<1>4. RevealTypes'
  <2>1. [reveals EXCEPT ![r] = Over] \in [Reveals -> RevealStates]
    BY NewStates DEF ViewInv, ViewTypes, RevealTypes
  <2> QED
    BY <1>1, <2>1, EpochEnds DEF RevealTypes
<1>5. PageTypes'
  BY <1>1, <1>2, FollowTypes DEF ViewInv
<1>6. ShownOnlyInView'
  BY <1>1 DEF ShownOnlyInView, StillWanted, Shown
<1>7. VaultFollowsGrant'
  BY <1>1, FollowingVault DEF ViewInv
<1> QED
  BY <1>3, <1>4, <1>5, <1>6, <1>7 DEF ViewInv, ViewTypes

LEMMA TakeGrantKeeps ==
  ASSUME ViewInv, NEW r \in Reveals, TakeGrant(r)
  PROVE  ViewInv'
<1> DEFINE s == reveals[r].scope
           rs == [reveals EXCEPT ![r].stage = "canceled", ![r].after = Len(hides) + 1]
<1>1. /\ reveals[r].stage = "granted" /\ reveals[r] \in RevealStates
      /\ jar' = [jar EXCEPT ![s] = r]
  BY DEF TakeGrant, ViewInv, ViewTypes, RevealTypes
<1>2. s \in ViewScopes
  BY <1>1 DEF RevealStates
<1>3. CASE StillWanted(r)
  BY <1>1, <1>2, <1>3, ShowScopeKeeps DEF TakeGrant
<1>4. CASE ~StillWanted(r)
  <2>1. /\ HideScopes({s}, TRUE, TRUE, rs) /\ PageFollows
        /\ UNCHANGED <<tab, session, valid, missed>>
    BY <1>4 DEF TakeGrant
  <2>2. jar' \in [ViewScopes -> Grants]
    BY <1>1 DEF ViewInv, ViewTypes, TabTypes, Grants
  <2>3. Len(hides) + 1 \in Nat
    BY LenProperties DEF ViewInv, ViewTypes, HideTypes
  <2>4. [reveals[r] EXCEPT !.stage = "canceled", !.after = Len(hides) + 1] \in RevealStates
    BY <1>1, <1>2, <2>3 DEF RevealStates, RevealRecords
  <2>5. rs = [reveals EXCEPT ![r] = [reveals[r] EXCEPT !.stage = "canceled",
                                                       !.after = Len(hides) + 1]]
    BY DEF ViewInv, ViewTypes, RevealTypes
  <2>6. rs \in [Reveals -> RevealStates]
    BY <2>4, <2>5 DEF ViewInv, ViewTypes, RevealTypes
  <2>7. {s} \in SUBSET ViewScopes
    BY <1>2
  <2> QED
    BY <2>1, <2>2, <2>6, <2>7, HidingKeeps
<1> QED
  BY <1>3, <1>4

LEMMA TakeRefusalKeeps ==
  ASSUME ViewInv, NEW r \in Reveals, TakeRefusal(r) \/ LoseReveal(r)
  PROVE  ViewInv'
<1>1. CASE Failed(r)
  BY <1>1, FailedKeeps
<1>2. CASE /\ reveals[r].stage = "unauthorized"
           /\ SignedOut([reveals EXCEPT ![r].stage = "canceled"])
  <2>1. [reveals[r] EXCEPT !.stage = "canceled"] \in RevealStates
    BY <1>2 DEF ViewInv, ViewTypes, RevealTypes, RevealStates, RevealRecords
  <2>2. [reveals EXCEPT ![r].stage = "canceled"] \in [Reveals -> RevealStates]
    BY <2>1 DEF ViewInv, ViewTypes, RevealTypes
  <2> QED
    BY <1>2, <2>2, SignedOutKeeps
<1> QED
  BY <1>1, <1>2 DEF TakeRefusal, LoseReveal

-----------------------------------------------------------------------------
(* The page's requests, the server, and the tab coming back. *)

LEMMA ReloadKeeps ==
  ASSUME ViewInv, Reload
  PROVE  ViewInv'
<1>1. /\ jar' = jar /\ Fetch(revealed[ScopeOf[tab.page]])
      /\ UNCHANGED <<tab, requested, revealed, reveals, hides, content, session, valid, missed>>
  BY DEF Reload
<1>2. revealed[ScopeOf[tab.page]] \in Grants /\ jar' \in [ViewScopes -> Grants]
  BY <1>1, ScopeOfPage DEF ViewInv, ViewTypes, TabTypes
<1>3. fetches' \in [Fetches -> FetchStates]
  BY <1>1, <1>2, FetchTypes DEF ViewInv
<1> QED
  BY <1>1, <1>3, ElsewhereKeeps
     DEF ViewInv, ViewTypes, TabTypes, RevealTypes, ServerTypes, HideTypes

LEMMA ServerAnswersKeeps ==
  ASSUME ViewInv, NEW f \in Fetches, ServerAnswers(f)
  PROVE  ViewInv'
<1>1. UNCHANGED <<tab, requested, revealed, reveals, hides, jar, content, session, valid, missed>>
  BY DEF ServerAnswers
<1>2. fetches' \in [Fetches -> FetchStates]
  <2>1. \A stage \in {"full", "meta", "refused"} :
           [fetches[f] EXCEPT !.stage = stage] \in FetchStates
    BY DEF ViewInv, ViewTypes, PageTypes, FetchStates
  <2>2. PICK stage \in {"full", "meta", "refused"} :
           fetches' = [fetches EXCEPT ![f] = [fetches[f] EXCEPT !.stage = stage]]
    BY DEF ServerAnswers, ViewInv, ViewTypes, PageTypes
  <2> QED
    BY <2>1, <2>2 DEF ViewInv, ViewTypes, PageTypes
<1> QED
  BY <1>1, <1>2, ElsewhereKeeps
     DEF ViewInv, ViewTypes, TabTypes, RevealTypes, ServerTypes, HideTypes

\* The comparison of grants: a vault page keeps the answer only while something is revealed.
LEMMA TakeFetchKeeps ==
  ASSUME ViewInv, NEW f \in Fetches, TakeFetch(f)
  PROVE  ViewInv'
<1>1. /\ fetches[f].stage \in {"meta", "full", "refused"}
      /\ fetches' = [fetches EXCEPT ![f] = NoFetch]
      /\ UNCHANGED <<tab, requested, revealed, reveals, hides, jar, session, valid, missed>>
  BY DEF TakeFetch
<1>2. PageTypes'
  <2>1. content' \in {content, "none", "meta", "full"}
    BY <1>1 DEF TakeFetch
  <2> QED
    BY <1>1, <2>1, NewStates DEF ViewInv, ViewTypes, PageTypes
<1>3. ViewTypes'
  BY <1>1, <1>2 DEF ViewInv, ViewTypes, TabTypes, RevealTypes, ServerTypes, HideTypes
<1>4. VaultFollowsGrant'
  <2> SUFFICES ASSUME tab.page \in VaultPages, content' = "full"
               PROVE  revealed[ScopeOf[tab.page]] # None
    BY <1>1 DEF VaultFollowsGrant
  <2>1. tab.page \notin ListPages
    BY ViewAssumption
  <2>2. CASE fetches[f].stage = "refused"
    BY <2>2 DEF TakeFetch, ViewInv, VaultFollowsGrant
  <2>3. CASE fetches[f].stage # "refused"
    BY <2>1, <2>3 DEF TakeFetch
  <2> QED
    BY <2>2, <2>3
<1>5. ShownOnlyInView'
  BY <1>1 DEF ViewInv, ShownOnlyInView, Shown
<1> QED
  BY <1>3, <1>4, <1>5 DEF ViewInv

\* What was asked for in the session that ends is refused, and nothing else changes.
LEMMA SessionEndsIs ==
  ASSUME ViewTypes, SessionEnds
  PROVE  /\ HideTypes' /\ Len(hides') = Len(hides) /\ Len(hides) \in Nat
         /\ \A r \in Reveals : reveals'[r].stage \in {reveals[r].stage, "unauthorized"}
         /\ \A r \in Reveals : reveals[r].stage # "asked" => reveals'[r] = reveals[r]
         /\ RevealTypes'
<1>1. Len(hides) \in Nat /\ \A i \in 1..Len(hides) : hides[i] \in HideStates
  BY LenProperties, ElementOfSeq DEF ViewTypes, HideTypes
<1>2. ASSUME NEW i \in 1..Len(hides)
      PROVE  [hides[i] EXCEPT !.stage = "refused"] \in HideStates
  BY <1>1 DEF HideStates
<1>3. hides' \in [1..Len(hides) -> HideStates]
  BY <1>1, <1>2 DEF SessionEnds
<1>4. HideTypes' /\ Len(hides') = Len(hides)
  BY <1>1, <1>3, IsASeq, LenProperties DEF HideTypes
<1>5. ASSUME NEW r \in Reveals, reveals[r].stage = "asked"
      PROVE  [reveals[r] EXCEPT !.stage = "unauthorized"] \in RevealStates
  BY <1>5 DEF ViewTypes, RevealTypes, RevealStates, RevealRecords
<1>6. RevealTypes'
  BY <1>5 DEF SessionEnds, ViewTypes, RevealTypes
<1>7. /\ \A r \in Reveals : reveals'[r].stage \in {reveals[r].stage, "unauthorized"}
      /\ \A r \in Reveals : reveals[r].stage # "asked" => reveals'[r] = reveals[r]
  BY DEF SessionEnds, ViewTypes, RevealTypes, RevealStates, RevealRecords
<1> QED
  BY <1>1, <1>4, <1>6, <1>7

LEMMA ServerForgetsKeeps ==
  ASSUME ViewInv, SessionEnds \/ \E r \in Reveals : Expire(r)
  PROVE  ViewInv'
<1>1. /\ UNCHANGED <<tab, requested, revealed, jar, fetches, content, missed>>
      /\ session' \in {session, FALSE} /\ valid' \subseteq valid
  BY DEF SessionEnds, Expire
<1>2. RevealTypes' /\ HideTypes'
  BY SessionEndsIs DEF Expire, ViewInv, ViewTypes, RevealTypes, HideTypes
<1> QED
  BY <1>1, <1>2, ElsewhereKeeps DEF ViewInv, ViewTypes, TabTypes, PageTypes, ServerTypes

\* Nothing shows in a hidden tab, so nothing shows when it comes back.
LEMMA VisibilityShownKeeps ==
  ASSUME ViewInv, VisibilityShown
  PROVE  ViewInv'
<1>1. /\ tab.hidden /\ tab' = [tab EXCEPT !.hidden = FALSE]
      /\ UNCHANGED <<requested, revealed, reveals, hides, jar, fetches, content, session, valid,
                     missed>>
  BY DEF VisibilityShown
<1>2. tab' \in [hidden : BOOLEAN, user : BOOLEAN, page : Pages] /\ tab'.page = tab.page
  BY <1>1 DEF ViewInv, ViewTypes, TabTypes
<1>3. ViewTypes'
  BY <1>1, <1>2 DEF ViewInv, ViewTypes, TabTypes, PageTypes, ServerTypes, RevealTypes, HideTypes
<1>4. ShownOnlyInView'
  BY <1>1 DEF ViewInv, ShownOnlyInView, Shown
<1>5. VaultFollowsGrant'
  BY <1>1, <1>2 DEF ViewInv, VaultFollowsGrant
<1> QED
  BY <1>3, <1>4, <1>5 DEF ViewInv

LEMMA StepViewInv ==
  ASSUME ViewInv, [ViewNext]_viewVars
  PROVE  ViewInv'
<1>1. ASSUME NEW s \in ViewScopes, HideScope(s) \/ TimerFires(s)
      PROVE  ViewInv'
  BY <1>1, HideStepKeeps
<1>2. ASSUME NEW r \in Reveals,
             \/ StartReveal(r) \/ Submit(r) \/ Authenticate(r) \/ Ask(r) \/ ServerReveals(r)
             \/ TakeGrant(r) \/ TakeRefusal(r) \/ LoseReveal(r) \/ Expire(r)
             \/ \E s \in ViewScopes : RequestReveal(r, s)
      PROVE  ViewInv'
  BY <1>2, BeginKeeps, AskKeeps, TakeGrantKeeps, TakeRefusalKeeps, ServerForgetsKeeps
<1>3. ASSUME NEW f \in Fetches, ServerAnswers(f) \/ TakeFetch(f)
      PROVE  ViewInv'
  BY <1>3, ServerAnswersKeeps, TakeFetchKeeps
<1>4. CASE StatusSays401
  BY <1>4, SignedOutKeeps DEF StatusSays401, ViewInv, ViewTypes, RevealTypes
<1>5. CASE \/ Cancel \/ VisibilityHidden \/ VisibilityShown \/ Blur \/ SignInTab
           \/ \E p \in Pages : Navigate(p)
  BY <1>5, HideStepKeeps, VisibilityHiddenKeeps, VisibilityShownKeeps, NewPageKeeps
<1>6. CASE SendHide \/ ServerHides \/ MaintenanceRefuses \/ HideAnswered \/ HideLost
  BY <1>6, HideOnWayKeeps, HideEndsKeeps
<1>7. CASE Reload \/ SessionEnds
  BY <1>7, ReloadKeeps, ServerForgetsKeeps
<1>8. CASE UNCHANGED viewVars
  BY <1>8, ElsewhereKeeps
     DEF viewVars, ViewInv, ViewTypes, TabTypes, PageTypes, ServerTypes, RevealTypes, HideTypes
<1> QED
  BY <1>1, <1>2, <1>3, <1>4, <1>5, <1>6, <1>7, <1>8 DEF ViewNext

LEMMA ViewInvAlways == ViewSpec => []ViewInv
<1>1. ViewInit => ViewInv
  BY InitViewInv
<1>2. ViewInv /\ [ViewNext]_viewVars => ViewInv'
  BY StepViewInv
<1> QED
  BY <1>1, <1>2, PTL DEF ViewSpec

\* Nothing shows in a tab in the background or one that is signed out, however late the answers
\* to its reveals come.
THEOREM ViewShowsInView == ViewSpec => []ShownOnlyInView
<1>1. ViewInv => ShownOnlyInView
  BY DEF ViewInv
<1> QED
  BY <1>1, ViewInvAlways, PTL

\* A page that keeps nothing while hidden holds a value only while its scope is revealed.
THEOREM ViewVaultFollows == ViewSpec => []VaultFollowsGrant
<1>1. ViewInv => VaultFollowsGrant
  BY DEF ViewInv
<1> QED
  BY <1>1, ViewInvAlways, PTL

-----------------------------------------------------------------------------
(* The cookies that the server would honour.                               *)

\* A hide that will take away the grant of the scope's cookie is queued or under way.
Awaited(s) ==
    \E i \in 1..Len(hides) :
        /\ s \in hides[i].scopes
        /\ hides[i].stage = "queued" \/ (hides[i].stage = "sent" /\ jar[s] \in hides[i].tokens)
\* The browser has the answer to the reveal, if there was any.
Finished(rs, r) == rs[r].stage \in {"canceled", "over"}

CookiesTaken == \A s \in ViewScopes : jar[s] # None => Finished(reveals, jar[s])
CookiesKnown ==
    ~missed => \A s \in ViewScopes : jar[s] \in valid => jar[s] = revealed[s] \/ Awaited(s)
CookieInv == (session \/ valid = {}) /\ CookiesTaken /\ CookiesKnown

\* A step that neither hides, nor grants, nor changes a cookie.
LEMMA CookiesStay ==
  ASSUME ViewInv, CookieInv, UNCHANGED <<revealed, hides, jar, missed>>, valid' \subseteq valid,
         session' \/ valid' = {}, \A r \in Reveals : Finished(reveals, r) => Finished(reveals', r)
  PROVE  CookieInv'
<1>1. CookiesTaken'
  BY DEF CookieInv, CookiesTaken, ViewInv, ViewTypes, TabTypes, Grants
<1>2. CookiesKnown'
  BY DEF CookieInv, CookiesKnown, Awaited
<1> QED
  BY <1>1, <1>2 DEF CookieInv

\* hideSensitive(): whatever it hides is awaited.
LEMMA HidingKnows ==
  ASSUME ViewInv, CookieInv, UNCHANGED missed, NEW scopes, Hiding(scopes),
         jar' \in [ViewScopes -> Grants], valid' \subseteq valid, session' \/ valid' = {},
         \A s \in ViewScopes : jar'[s] = jar[s] \/ s \in scopes,
         \A s \in ViewScopes : jar'[s] = jar[s] \/ Finished(reveals', jar'[s]),
         \A r \in Reveals : Finished(reveals, r) => Finished(reveals', r)
  PROVE  CookieInv'
<1>1. CookiesTaken'
  <2> SUFFICES ASSUME NEW s \in ViewScopes, jar'[s] # None PROVE Finished(reveals', jar'[s])
    BY DEF CookiesTaken
  <2>1. CASE jar'[s] = jar[s]
    <3>1. jar[s] \in Reveals /\ Finished(reveals, jar[s])
      BY <2>1 DEF CookieInv, CookiesTaken, ViewInv, ViewTypes, TabTypes, Grants
    <3>2. Finished(reveals', jar[s])
      BY <3>1
    <3> QED
      BY <2>1, <3>2
  <2> QED
    BY <2>1
<1>2. CookiesKnown'
  <2> SUFFICES ASSUME ~missed, NEW s \in ViewScopes, jar'[s] \in valid
               PROVE  jar'[s] = revealed'[s] \/ Awaited(s)'
    BY DEF CookiesKnown
  <2>1. PICK h \in HideStates :
           h.scopes = scopes /\ h.stage = "queued" /\ hides' = Append(hides, h)
    BY DEF Hiding
  <2>2. /\ Len(hides') = Len(hides) + 1 /\ Len(hides) \in Nat /\ hides'[Len(hides) + 1] = h
        /\ \A i \in 1..Len(hides) : hides'[i] = hides[i]
    BY <2>1, AppendProperties DEF ViewInv, ViewTypes, HideTypes
  <2>3. CASE s \in scopes
    BY <2>1, <2>2, <2>3 DEF Awaited
  <2>4. CASE s \notin scopes
    <3>1. revealed'[s] = revealed[s] /\ jar'[s] = jar[s]
      BY <2>4 DEF Hiding
    <3>2. Awaited(s) => Awaited(s)'
      BY <2>2, <3>1 DEF Awaited
    <3> QED
      BY <3>1, <3>2 DEF CookieInv, CookiesKnown
  <2> QED
    BY <2>3, <2>4
<1> QED
  BY <1>1, <1>2 DEF CookieInv

\* What hideSensitive() does to the reveals does not begin one again.
LEMMA HidingFinishes ==
  ASSUME NEW rs \in [Reveals -> RevealStates], NEW r \in Reveals,
         reveals' \in {rs, WithoutEpoch(rs)}, Finished(rs, r)
  PROVE  Finished(reveals', r)
<1>1. WithoutEpoch(rs)[r].stage = rs[r].stage
  BY DEF WithoutEpoch, RevealStates, RevealRecords
<1> QED
  BY <1>1 DEF Finished

\* Hiding at a time when no answer comes.
LEMMA HideStepKnows ==
  ASSUME ViewInv, CookieInv, UNCHANGED <<jar, missed>>,
         valid' \subseteq valid, session' \/ valid' = {},
         NEW scopes \in SUBSET ViewScopes, NEW invalidate \in BOOLEAN,
         NEW closeDialog \in BOOLEAN, NEW rs \in [Reveals -> RevealStates],
         \A r \in Reveals : Finished(reveals, r) => Finished(rs, r),
         HideScopes(scopes, invalidate, closeDialog, rs)
  PROVE  CookieInv'
<1>1. Hiding(scopes)
  BY HideScopesIs DEF ViewInv
<1>2. reveals' \in {rs, WithoutEpoch(rs)}
  BY DEF HideScopes
<1>3. \A r \in Reveals : Finished(reveals, r) => Finished(reveals', r)
  BY <1>2, HidingFinishes
<1>4. jar' \in [ViewScopes -> Grants]
  BY DEF ViewInv, ViewTypes, TabTypes
<1> QED
  BY <1>1, <1>3, <1>4, HidingKnows

LEMMA HidesKnow ==
  ASSUME ViewInv, CookieInv,
         \/ Cancel \/ Blur \/ VisibilityHidden \/ SignInTab \/ StatusSays401
         \/ \E s \in ViewScopes : HideScope(s) \/ TimerFires(s)
         \/ \E p \in Pages : Navigate(p)
  PROVE  CookieInv'
<1>1. /\ UNCHANGED <<jar, valid, missed>> /\ session' \in {session, TRUE}
  BY DEF Cancel, Blur, VisibilityHidden, SignInTab, StatusSays401, SignedOut, HideScope,
         TimerFires, Navigate
<1>2. /\ reveals \in [Reveals -> RevealStates] /\ (session' \/ valid' = {})
      /\ valid' \subseteq valid
      /\ UNCHANGED <<jar, missed>>
  BY <1>1 DEF ViewInv, ViewTypes, RevealTypes, CookieInv
<1>3. ASSUME NEW scopes \in SUBSET ViewScopes, NEW invalidate \in BOOLEAN,
             NEW closeDialog \in BOOLEAN, HideScopes(scopes, invalidate, closeDialog, reveals)
      PROVE  CookieInv'
  BY <1>2, <1>3, HideStepKnows
<1>4. CASE HideAll(reveals)
  BY <1>3, <1>4 DEF HideAll
<1>5. CASE \E s \in ViewScopes : HideScope(s) \/ TimerFires(s)
  BY <1>3, <1>5 DEF HideScope, TimerFires
<1>6. CASE Blur
  <2>1. (requested = None) \in BOOLEAN
    OBVIOUS
  <2> QED
    BY <1>3, <1>6, <2>1 DEF Blur
<1> QED
  BY <1>4, <1>5, <1>6
     DEF Cancel, VisibilityHidden, SignInTab, StatusSays401, SignedOut, Navigate

-----------------------------------------------------------------------------
(* The queue of hides. *)

LEMMA SendKnows ==
  ASSUME ViewInv, CookieInv, SendHide
  PROVE  CookieInv'
<1>1. UNCHANGED <<reveals, revealed, jar, session, valid, missed>>
  BY DEF SendHide
<1>2. /\ \A i \in 1..Len(hides) : hides'[i].scopes = hides[i].scopes
      /\ \A i \in 1..Len(hides) : i # 1 => hides'[i] = hides[i]
      /\ Len(hides') = Len(hides) /\ Len(hides) \in Nat
      /\ hides'[1].tokens = {jar[s] : s \in hides[1].scopes} \ {None}
      /\ hides'[1].stage = IF session THEN "sent" ELSE "refused"
  BY FirstHideIs DEF ViewInv
<1>3. CookiesKnown'
  <2> SUFFICES ASSUME ~missed, NEW s \in ViewScopes, jar[s] \in valid, Awaited(s)
               PROVE  Awaited(s)'
    BY <1>1 DEF CookieInv, CookiesKnown
  <2>1. session /\ jar[s] # None
    BY ViewAssumption DEF CookieInv, ViewInv, ViewTypes, ServerTypes, None
  <2>2. PICK i \in 1..Len(hides) :
           /\ s \in hides[i].scopes
           /\ hides[i].stage = "queued" \/ (hides[i].stage = "sent" /\ jar[s] \in hides[i].tokens)
    BY DEF Awaited
  <2>3. CASE i = 1
    BY <1>1, <1>2, <2>1, <2>2, <2>3 DEF Awaited
  <2>4. CASE i # 1
    BY <1>1, <1>2, <2>2, <2>4 DEF Awaited
  <2> QED
    BY <2>3, <2>4
<1> QED
  BY <1>1, <1>3 DEF CookieInv, CookiesTaken, Finished

LEMMA ServerHidesKnows ==
  ASSUME ViewInv, CookieInv, ServerHides
  PROVE  CookieInv'
<1>1. /\ UNCHANGED <<reveals, revealed, jar, session, missed>>
      /\ valid' = valid \ hides[1].tokens /\ hides[1].stage = "sent"
  BY DEF ServerHides
<1>2. /\ \A i \in 1..Len(hides) : i # 1 => hides'[i] = hides[i]
      /\ Len(hides') = Len(hides) /\ Len(hides) \in Nat
  BY FirstHideIs DEF ViewInv
<1>3. CookiesKnown'
  <2> SUFFICES ASSUME ~missed, NEW s \in ViewScopes, jar[s] \in valid, Awaited(s),
                      jar[s] \notin hides[1].tokens
               PROVE  Awaited(s)'
    BY <1>1 DEF CookieInv, CookiesKnown
  <2>1. PICK i \in 1..Len(hides) :
           /\ s \in hides[i].scopes
           /\ hides[i].stage = "queued" \/ (hides[i].stage = "sent" /\ jar[s] \in hides[i].tokens)
    BY DEF Awaited
  <2>2. i # 1
    BY <1>1, <2>1
  <2> QED
    BY <1>1, <1>2, <2>1, <2>2 DEF Awaited
<1> QED
  BY <1>1, <1>3 DEF CookieInv, CookiesTaken, Finished

\* Whose stage stays, or only the number of hides waited for changes, is as finished as it was.
LEMMA SettledFinishes ==
  ASSUME ViewTypes, NEW r \in Reveals, reveals' = Settled(reveals)
  PROVE  reveals'[r].stage = reveals[r].stage
  BY DEF Settled, ViewTypes, RevealTypes, RevealStates, RevealRecords

LEMMA HideEndsKnows ==
  ASSUME ViewInv, CookieInv, HideAnswered \/ HideLost
  PROVE  CookieInv'
<1>1. /\ hides # <<>> /\ hides' = Tail(hides) /\ reveals' = Settled(reveals)
      /\ UNCHANGED <<revealed, session, valid>>
      /\ \A s \in ViewScopes : jar'[s] \in {jar[s], None}
  BY DEF HideAnswered, HideLost, ViewInv, ViewTypes, TabTypes
<1>2. /\ Len(hides) \in Nat \ {0}
      /\ \A i \in 2..Len(hides) : i - 1 \in 1..Len(hides') /\ hides'[i - 1] = hides[i]
  BY <1>1, ShorterQueue DEF ViewInv, ViewTypes
<1>3. \A r \in Reveals : Finished(reveals', r) = Finished(reveals, r)
  BY <1>1, SettledFinishes DEF Finished, ViewInv
<1>4. CookiesTaken'
  <2> SUFFICES ASSUME NEW s \in ViewScopes, jar'[s] # None PROVE Finished(reveals', jar'[s])
    BY DEF CookiesTaken
  <2>1. jar'[s] = jar[s] /\ jar[s] \in Reveals /\ Finished(reveals, jar[s])
    BY <1>1 DEF CookieInv, CookiesTaken, ViewInv, ViewTypes, TabTypes, Grants
  <2>2. reveals'[jar[s]].stage = reveals[jar[s]].stage
    BY <1>1, <2>1, SettledFinishes DEF ViewInv
  <2> QED
    BY <2>1, <2>2 DEF Finished
<1>5. CookiesKnown'
  <2> SUFFICES ASSUME ~missed', NEW s \in ViewScopes, jar'[s] \in valid
               PROVE  jar'[s] = revealed[s] \/ Awaited(s)'
    BY <1>1 DEF CookiesKnown
  <2>1. ~missed /\ hides[1].stage \in {"done", "refused"}
    <3>1. CASE HideAnswered
      BY <3>1 DEF HideAnswered
    <3>2. CASE HideLost
      <4>1. missed' = (missed \/ hides[1].stage = "sent")
            /\ hides[1].stage \in {"sent", "done", "refused"}
        BY <3>2 DEF HideLost
      <4> QED
        BY <4>1
    <3> QED
      BY <3>1, <3>2
  <2>2. jar'[s] = jar[s]
    BY <1>1, ViewAssumption DEF ViewInv, ViewTypes, ServerTypes, None
  <2>3. CASE Awaited(s)
    <3>1. PICK i \in 1..Len(hides) :
             /\ s \in hides[i].scopes
             /\ \/ hides[i].stage = "queued"
                \/ hides[i].stage = "sent" /\ jar[s] \in hides[i].tokens
      BY <2>3 DEF Awaited
    <3>2. i \in 2..Len(hides)
      BY <1>2, <2>1, <3>1
    <3> QED
      BY <1>2, <2>2, <3>1, <3>2 DEF Awaited
  <2> QED
    BY <2>1, <2>2, <2>3 DEF CookieInv, CookiesKnown
<1> QED
  BY <1>1, <1>4, <1>5 DEF CookieInv

\* Without a session no grant is left that a cookie could name.
LEMMA SessionEndsKnows ==
  ASSUME ViewInv, CookieInv, SessionEnds
  PROVE  CookieInv'
<1>1. UNCHANGED <<revealed, jar, missed>> /\ valid' = {}
  BY DEF SessionEnds
<1>2. CookiesTaken'
  BY <1>1, SessionEndsIs
     DEF CookieInv, CookiesTaken, Finished, ViewInv, ViewTypes, TabTypes, Grants
<1> QED
  BY <1>1, <1>2 DEF CookieInv, CookiesKnown

LEMMA QueueKnows ==
  ASSUME ViewInv, CookieInv,
         SendHide \/ ServerHides \/ MaintenanceRefuses \/ HideAnswered \/ HideLost \/ SessionEnds
  PROVE  CookieInv'
<1>1. CASE MaintenanceRefuses
  BY <1>1 DEF MaintenanceRefuses, CookieInv, CookiesTaken, CookiesKnown, Finished
<1> QED
  BY <1>1, SendKnows, ServerHidesKnows, HideEndsKnows, SessionEndsKnows

-----------------------------------------------------------------------------
(* Reveals. *)

LEMMA RevealStepKnows ==
  ASSUME ViewInv, CookieInv, NEW r \in Reveals, ~Finished(reveals, r), NEW st \in RevealStates,
         reveals' = [reveals EXCEPT ![r] = st], UNCHANGED <<revealed, hides, jar, missed>>,
         valid' \subseteq valid, session' \/ valid' = {}
  PROVE  CookieInv'
<1>1. \A q \in Reveals : Finished(reveals, q) => Finished(reveals', q)
  BY DEF Finished, ViewInv, ViewTypes, RevealTypes
<1> QED
  BY <1>1, CookiesStay

LEMMA FailedKnows ==
  ASSUME ViewInv, CookieInv, NEW r \in Reveals, Failed(r)
  PROVE  CookieInv'
<1>1. /\ reveals' = [reveals EXCEPT ![r] = Over]
      /\ UNCHANGED <<revealed, hides, jar, missed, valid, session>>
  BY DEF Failed
<1>2. \A q \in Reveals : Finished(reveals, q) => Finished(reveals', q)
  BY <1>1 DEF Finished, Over, NoReveal, ViewInv, ViewTypes, RevealTypes
<1> QED
  BY <1>1, <1>2, CookiesStay DEF CookieInv

LEMMA AskKnows ==
  ASSUME ViewInv, CookieInv, NEW r \in Reveals,
         \/ Submit(r) \/ StartReveal(r) \/ Authenticate(r) \/ Ask(r)
         \/ \E s \in ViewScopes : RequestReveal(r, s)
  PROVE  CookieInv'
<1>1. CASE Failed(r)
  BY <1>1, FailedKnows
<1>2. CASE ~Failed(r)
  <2>1. reveals[r].stage \in {"new", "waiting", "proving", "settling"}
    <3>1. r >= r
      BY ViewAssumption
    <3>2. CASE Submit(r) \/ \E s \in ViewScopes : RequestReveal(r, s)
      <4>1. Begins(r)
        BY <3>2 DEF Submit, RequestReveal
      <4> QED
        BY <3>1, <4>1 DEF Begins
    <3>3. CASE StartReveal(r) \/ Authenticate(r) \/ Ask(r)
      BY <3>3 DEF StartReveal, Authenticate, Ask
    <3> QED
      BY <3>2, <3>3
  <2>2. UNCHANGED <<revealed, hides, jar, missed, valid, session>>
    BY <1>2 DEF Submit, StartReveal, Authenticate, Ask, RequestReveal
  <2>3. \A q \in Reveals : q # r => reveals'[q] = reveals[q]
    BY <1>2 DEF Submit, StartReveal, Authenticate, Ask, RequestReveal, ViewInv, ViewTypes,
                RevealTypes
  <2>4. \A q \in Reveals : Finished(reveals, q) => Finished(reveals', q)
    BY <2>1, <2>3 DEF Finished
  <2> QED
    BY <2>2, <2>4, CookiesStay DEF CookieInv
<1> QED
  BY <1>1, <1>2

\* A grant is live before any cookie names it.
LEMMA ServerRevealsKnows ==
  ASSUME ViewInv, CookieInv, NEW r \in Reveals, ServerReveals(r)
  PROVE  CookieInv'
<1>1. /\ reveals[r].stage = "asked" /\ UNCHANGED <<revealed, hides, jar, session, missed>>
      /\ valid' = valid \/ (session /\ valid' = (valid \ {reveals[r].cookie}) \cup {r})
  BY DEF ServerReveals
<1>2. \A q \in Reveals : Finished(reveals, q) => q # r /\ reveals'[q] = reveals[q]
  BY <1>1 DEF ServerReveals, Finished, ViewInv, ViewTypes, RevealTypes
<1>3. CookiesTaken'
  BY <1>1, <1>2 DEF CookieInv, CookiesTaken, Finished, ViewInv, ViewTypes, TabTypes, Grants
<1>4. CookiesKnown'
  <2> SUFFICES ASSUME ~missed, NEW s \in ViewScopes, jar[s] \in valid'
               PROVE  jar[s] = revealed[s] \/ Awaited(s)'
    BY <1>1 DEF CookiesKnown
  <2>1. jar[s] \in Reveals /\ jar[s] # None
    BY <1>1, ViewAssumption DEF ViewInv, ViewTypes, ServerTypes, None
  <2>2. jar[s] # r
    BY <1>2, <2>1 DEF CookieInv, CookiesTaken
  <2>3. jar[s] \in valid
    BY <1>1, <2>2
  <2>4. Awaited(s) => Awaited(s)'
    BY <1>1 DEF Awaited
  <2> QED
    BY <2>3, <2>4 DEF CookieInv, CookiesKnown
<1> QED
  BY <1>1, <1>3, <1>4 DEF CookieInv

LEMMA TakeGrantKnows ==
  ASSUME ViewInv, CookieInv, NEW r \in Reveals, TakeGrant(r)
  PROVE  CookieInv'
<1> DEFINE s == reveals[r].scope
           rs == [reveals EXCEPT ![r].stage = "canceled", ![r].after = Len(hides) + 1]
           shown == [reveals EXCEPT ![r] = Over]
<1>1. /\ reveals[r].stage = "granted" /\ reveals[r] \in RevealStates
      /\ jar' = [jar EXCEPT ![s] = r] /\ UNCHANGED <<session, valid, missed>>
  BY DEF TakeGrant, ShowScope, ViewInv, ViewTypes, RevealTypes
<1>2. s \in ViewScopes
  BY <1>1 DEF RevealStates
<1>3. /\ jar' \in [ViewScopes -> Grants] /\ jar'[s] = r
      /\ \A x \in ViewScopes : x # s => jar'[x] = jar[x]
  BY <1>1, <1>2 DEF ViewInv, ViewTypes, TabTypes, Grants
<1>4. CASE StillWanted(r)
  <2>1. /\ revealed' = [revealed EXCEPT ![s] = r] /\ hides' = hides
        /\ reveals' = WithoutEpoch(shown)
    BY <1>4 DEF TakeGrant, ShowScope
  <2>2. /\ shown \in [Reveals -> RevealStates] /\ shown[r].stage = "over"
        /\ \A q \in Reveals : q # r => shown[q] = reveals[q]
    BY NewStates DEF ViewInv, ViewTypes, RevealTypes, Over, NoReveal
  <2> HIDE DEF shown
  <2>3. \A q \in Reveals : Finished(reveals, q) \/ q = r => Finished(reveals', q)
    BY <2>1, <2>2, HidingFinishes DEF Finished
  <2>4. CookiesTaken'
    BY <1>3, <2>3 DEF CookieInv, CookiesTaken, Finished, ViewInv, ViewTypes, TabTypes, Grants
  <2>5. CookiesKnown'
    <3> SUFFICES ASSUME ~missed, NEW x \in ViewScopes, jar'[x] \in valid
                 PROVE  jar'[x] = revealed'[x] \/ Awaited(x)'
      BY <1>1 DEF CookiesKnown
    <3>1. CASE x = s
      BY <1>2, <1>3, <2>1, <3>1 DEF ViewInv, ViewTypes, TabTypes
    <3>2. CASE x # s
      <4>1. jar'[x] = jar[x] /\ revealed'[x] = revealed[x]
        BY <1>3, <2>1, <3>2
      <4>2. Awaited(x) => Awaited(x)'
        BY <2>1, <4>1 DEF Awaited
      <4> QED
        BY <4>1, <4>2 DEF CookieInv, CookiesKnown
    <3> QED
      BY <3>1, <3>2
  <2> QED
    BY <1>1, <2>4, <2>5 DEF CookieInv
<1>5. CASE ~StillWanted(r)
  <2>1. HideScopes({s}, TRUE, TRUE, rs)
    BY <1>5 DEF TakeGrant
  <2>2. Len(hides) + 1 \in Nat
    BY LenProperties DEF ViewInv, ViewTypes, HideTypes
  <2>3. /\ rs \in [Reveals -> RevealStates] /\ rs[r].stage = "canceled"
        /\ \A q \in Reveals : q # r => rs[q] = reveals[q]
    BY <1>1, <1>2, <2>2 DEF ViewInv, ViewTypes, RevealTypes, RevealStates, RevealRecords
  <2> HIDE DEF rs
  <2>4. Hiding({s}) /\ reveals' \in {rs, WithoutEpoch(rs)}
    <3>1. {s} \in SUBSET ViewScopes
      BY <1>2
    <3> QED
      BY <2>1, <2>3, <3>1, HideScopesIs DEF ViewInv, HideScopes
  <2>5. \A q \in Reveals : Finished(reveals, q) \/ q = r => Finished(reveals', q)
    BY <2>3, <2>4, HidingFinishes DEF Finished
  <2>6. \A x \in ViewScopes : jar'[x] = jar[x] \/ x \in {s}
    BY <1>3
  <2>7. \A x \in ViewScopes : jar'[x] = jar[x] \/ Finished(reveals', jar'[x])
    BY <1>3, <2>5 DEF Finished
  <2>8. valid' \subseteq valid /\ (session' \/ valid' = {})
    BY <1>1 DEF CookieInv
  <2> QED
    BY <1>1, <1>3, <2>4, <2>5, <2>6, <2>7, <2>8, HidingKnows
<1> QED
  BY <1>4, <1>5

LEMMA TakeRefusalKnows ==
  ASSUME ViewInv, CookieInv, NEW r \in Reveals, TakeRefusal(r) \/ LoseReveal(r)
  PROVE  CookieInv'
<1>1. CASE /\ reveals[r].stage = "unauthorized"
           /\ SignedOut([reveals EXCEPT ![r].stage = "canceled"])
  <2> DEFINE rs == [reveals EXCEPT ![r].stage = "canceled"]
  <2>1. [reveals[r] EXCEPT !.stage = "canceled"] \in RevealStates
    BY <1>1 DEF ViewInv, ViewTypes, RevealTypes, RevealStates, RevealRecords
  <2>2. /\ rs \in [Reveals -> RevealStates]
        /\ \A q \in Reveals : Finished(reveals, q) => Finished(rs, q)
    BY <1>1, <2>1 DEF Finished, ViewInv, ViewTypes, RevealTypes, RevealStates, RevealRecords
  <2>3. HideScopes(ViewScopes, TRUE, TRUE, rs) /\ UNCHANGED <<jar, session, valid, missed>>
    BY <1>1 DEF SignedOut, HideAll
  <2>4. valid' \subseteq valid /\ (session' \/ valid' = {})
    BY <2>3 DEF CookieInv
  <2> HIDE DEF rs
  <2> QED
    BY <2>2, <2>3, <2>4, HideStepKnows
<1> QED
  BY <1>1, FailedKnows DEF TakeRefusal, LoseReveal

-----------------------------------------------------------------------------
LEMMA StepCookieInv ==
  ASSUME ViewInv, CookieInv, [ViewNext]_viewVars
  PROVE  CookieInv'
<1>1. ASSUME NEW r \in Reveals,
             \/ StartReveal(r) \/ Submit(r) \/ Authenticate(r) \/ Ask(r) \/ ServerReveals(r)
             \/ TakeGrant(r) \/ TakeRefusal(r) \/ LoseReveal(r)
             \/ \E s \in ViewScopes : RequestReveal(r, s)
      PROVE  CookieInv'
  BY <1>1, AskKnows, ServerRevealsKnows, TakeGrantKnows, TakeRefusalKnows
<1>2. CASE \/ VisibilityShown \/ Reload \/ UNCHANGED viewVars
           \/ \E r \in Reveals : Expire(r)
           \/ \E f \in Fetches : ServerAnswers(f) \/ TakeFetch(f)
  <2>1. UNCHANGED <<reveals, revealed, hides, jar, missed, session>> /\ valid' \subseteq valid
    BY <1>2 DEF VisibilityShown, Reload, viewVars, Expire, ServerAnswers, TakeFetch
  <2> QED
    BY <2>1, CookiesStay DEF CookieInv, Finished
<1>3. CASE \/ \E s \in ViewScopes : HideScope(s) \/ TimerFires(s)
           \/ \E p \in Pages : Navigate(p)
           \/ Cancel \/ VisibilityHidden \/ Blur \/ StatusSays401 \/ SignInTab
  BY <1>3, HidesKnow
<1>4. CASE \/ SendHide \/ ServerHides \/ MaintenanceRefuses \/ HideAnswered \/ HideLost
           \/ SessionEnds
  BY <1>4, QueueKnows
<1> QED
  BY <1>1, <1>2, <1>3, <1>4 DEF ViewNext

\* Once the hides are through and each of them reached the server, the browser keeps no cookie
\* that the server would honour but those of the grants the tab shows, however hides, late
\* answers, sign-outs and the end of the session are interleaved.
THEOREM ViewForgets == ViewSpec => []NoForgottenGrant
<1>1. ViewInit => CookieInv
  BY DEF ViewInit, CookieInv, CookiesTaken, CookiesKnown
<1>2. ViewInv /\ CookieInv => NoForgottenGrant
  <2>1. hides = <<>> => \A s : ~Awaited(s)
    BY DEF Awaited
  <2> QED
    BY <2>1 DEF CookieInv, CookiesKnown, NoForgottenGrant, Quiet
<1>3. ViewInv /\ CookieInv /\ [ViewNext]_viewVars => CookieInv'
  BY StepCookieInv
<1> QED
  BY <1>1, <1>2, <1>3, ViewInvAlways, PTL DEF ViewSpec

-----------------------------------------------------------------------------
(* The streams of the live log.                                            *)

StreamStates ==
    [stage : {"new", "open", "closed", "refused"}, granted : BOOLEAN, busy : BOOLEAN,
     snapshot : Nat, previous : Nat, ended : BOOLEAN, reports : SUBSET {"request", "response"}]
LogTypes ==
    /\ stream \in [Streams -> StreamStates]
    /\ connections \in Nat /\ logFile \in Nat
OpenStreams == {s \in Streams : Open(s)}
LogInv == LogTypes /\ connections = Cardinality(OpenStreams) /\ connections <= Limit

\* A step of one stream: what it writes is written under its grant.
Written1(st, new) == new.previous # st.previous => st.granted
Step1(st, new) == new \in StreamStates /\ Written1(st, new)

LEMMA PolledIs ==
  ASSUME NEW st \in StreamStates, NEW new \in Polled(st)
  PROVE  new \in StreamStates /\ new.stage = st.stage /\ new.previous = st.previous
<1>1. \/ new = [st EXCEPT !.busy = TRUE]
      \/ new = [st EXCEPT !.ended = TRUE, !.reports = {"request", "response"}]
  BY DEF Polled, PollStarts
<1> QED
  BY <1>1 DEF StreamStates

LEMMA WrittenIs ==
  ASSUME NEW st \in StreamStates
  PROVE  /\ Written(st) \in StreamStates /\ Written(st).stage = st.stage
         /\ Ended(st) \in StreamStates /\ Ended(st).stage = st.stage
         /\ Ended(st).previous = st.previous
<1>1. NoVersion \in Nat
  BY LogAssumption DEF NoVersion
<1> QED
  BY <1>1 DEF Written, Ended, StreamStates

\* A stream that neither opens nor closes.
LEMMA SameCount ==
  ASSUME LogInv, NEW s \in Streams, NEW new \in StreamStates,
         stream' = [stream EXCEPT ![s] = new], new.stage = "open" <=> Open(s),
         UNCHANGED <<connections, logFile>>
  PROVE  LogInv'
<1>1. LogTypes'
  BY DEF LogInv, LogTypes
<1>2. \A t \in Streams : Open(t)' <=> Open(t)
  BY DEF LogInv, LogTypes, Open
<1>3. OpenStreams' = OpenStreams
  BY <1>2 DEF OpenStreams
<1> QED
  BY <1>1, <1>3 DEF LogInv

LEMMA WrittenOnce ==
  ASSUME LogInv, NEW s \in Streams, NEW new, stream' = [stream EXCEPT ![s] = new],
         Written1(stream[s], new)
  PROVE  WrittenUnderGrant
  BY DEF LogInv, LogTypes, WrittenUnderGrant, Written1

LEMMA ConnectKeeps ==
  ASSUME LogInv, NEW s \in Streams, Connect(s)
  PROVE  LogInv' /\ WrittenUnderGrant
<1>1. stream[s] \in StreamStates /\ stream[s].stage = "new" /\ ~Open(s)
  BY DEF Connect, LogInv, LogTypes, Open
<1>2. CASE connections >= Limit
  <2> DEFINE new == [stream[s] EXCEPT !.stage = "refused"]
  <2>1. new \in StreamStates /\ new.stage # "open" /\ Written1(stream[s], new)
    BY <1>1 DEF StreamStates, Written1
  <2>2. stream' = [stream EXCEPT ![s] = new] /\ UNCHANGED <<connections, logFile>>
    BY <1>2 DEF Connect, LogInv, LogTypes
  <2> QED
    BY <1>1, <2>1, <2>2, SameCount, WrittenOnce
<1>3. CASE ~(connections >= Limit)
  <2> DEFINE opened == [stream[s] EXCEPT !.stage = "open", !.granted = TRUE]
  <2>1. connections' = connections + 1 /\ UNCHANGED logFile
    BY <1>3 DEF Connect
  <2>2. PICK new \in Polled(opened) : stream' = [stream EXCEPT ![s] = new]
    BY <1>3 DEF Connect
  <2>3. opened \in StreamStates /\ opened.stage = "open" /\ opened.previous = stream[s].previous
    BY <1>1 DEF StreamStates
  <2>4. /\ new \in StreamStates /\ new.stage = "open" /\ new.previous = stream[s].previous
    BY <2>3, PolledIs
  <2>5. LogTypes'
    BY <2>1, <2>2, <2>4 DEF LogInv, LogTypes
  <2>6. OpenStreams' = OpenStreams \cup {s} /\ s \notin OpenStreams
    BY <1>1, <2>2, <2>4 DEF LogInv, LogTypes, OpenStreams, Open
  <2>7. IsFiniteSet(OpenStreams)
    BY LogAssumption, FS_Subset DEF OpenStreams
  <2>8. Cardinality(OpenStreams') = Cardinality(OpenStreams) + 1
    BY <2>6, <2>7, FS_AddElement
  <2>9. connections' <= Limit
    BY <1>3, <2>1, LogAssumption DEF LogInv, LogTypes
  <2>10. WrittenUnderGrant
    BY <2>2, <2>4, WrittenOnce DEF Written1
  <2> QED
    BY <2>1, <2>5, <2>8, <2>9, <2>10 DEF LogInv
<1> QED
  BY <1>2, <1>3

LEMMA CloseKeeps ==
  ASSUME LogInv, NEW s \in Streams, NEW report \in {"request", "response"}, Close(s, report)
  PROVE  LogInv' /\ WrittenUnderGrant
<1> DEFINE new == [stream[s] EXCEPT !.stage = "closed", !.reports = @ \ {report}]
<1>1. stream[s] \in StreamStates
  BY DEF LogInv, LogTypes
<1>2. new \in StreamStates /\ new.stage = "closed" /\ Written1(stream[s], new)
  BY <1>1 DEF StreamStates, Written1
<1>3. stream' = [stream EXCEPT ![s] = new] /\ UNCHANGED logFile
  BY DEF Close, LogInv, LogTypes
<1>4. WrittenUnderGrant
  BY <1>2, <1>3, WrittenOnce
<1>5. CASE ~Open(s)
  BY <1>2, <1>3, <1>4, <1>5, SameCount DEF Close
<1>6. CASE Open(s)
  <2>1. OpenStreams' = OpenStreams \ {s} /\ s \in OpenStreams
    BY <1>2, <1>3, <1>6 DEF LogInv, LogTypes, OpenStreams, Open
  <2>2. IsFiniteSet(OpenStreams)
    BY LogAssumption, FS_Subset DEF OpenStreams
  <2>3. /\ Cardinality(OpenStreams') = Cardinality(OpenStreams) - 1
        /\ Cardinality(OpenStreams) \in Nat \ {0}
    BY <2>1, <2>2, FS_RemoveElement, FS_EmptySet, FS_CardinalityType
  <2>4. connections' = connections - 1
    BY <1>6 DEF Close
  <2>5. LogTypes'
    BY <1>2, <1>3, <2>3, <2>4 DEF LogInv, LogTypes
  <2> QED
    BY <1>4, <2>3, <2>4, <2>5, LogAssumption DEF LogInv
<1> QED
  BY <1>5, <1>6

LEMMA PollKeeps ==
  ASSUME LogInv, NEW s \in Streams,
         Poll(s) \/ Snapshot(s) \/ Write(s) \/ SnapshotFails(s) \/ ClientLeaves(s)
  PROVE  LogInv' /\ WrittenUnderGrant
<1>1. stream[s] \in StreamStates /\ logFile \in Nat
  BY DEF LogInv, LogTypes
<1>2. UNCHANGED <<connections, logFile>>
  BY DEF Poll, Snapshot, Write, SnapshotFails, ClientLeaves
<1>3. PICK new \in StreamStates : /\ stream' = [stream EXCEPT ![s] = new]
                                  /\ new.stage = stream[s].stage /\ Written1(stream[s], new)
  <2>1. CASE Poll(s)
    BY <1>1, <2>1, PolledIs DEF Poll, Written1
  <2>2. CASE Snapshot(s)
    <3> DEFINE new == [stream[s] EXCEPT !.snapshot = logFile]
    <3>1. new \in StreamStates /\ new.stage = stream[s].stage /\ Written1(stream[s], new)
      BY <1>1 DEF StreamStates, Written1
    <3>2. stream' = [stream EXCEPT ![s] = new]
      BY <2>2 DEF Snapshot
    <3> QED
      BY <3>1, <3>2
  <2>3. CASE Write(s)
    <3>1. CASE Open(s) /\ stream[s].granted
      BY <1>1, <2>3, <3>1, WrittenIs DEF Write, Written1
    <3>2. CASE ~(Open(s) /\ stream[s].granted)
      BY <1>1, <2>3, <3>2, WrittenIs DEF Write, Written1
    <3> QED
      BY <3>1, <3>2
  <2>4. CASE SnapshotFails(s)
    <3>1. CASE Open(s)
      BY <1>1, <2>4, <3>1, WrittenIs DEF SnapshotFails, Written1
    <3>2. CASE ~Open(s)
      <4> DEFINE new == [stream[s] EXCEPT !.busy = FALSE]
      <4>1. new \in StreamStates /\ new.stage = stream[s].stage /\ Written1(stream[s], new)
        BY <1>1 DEF StreamStates, Written1
      <4>2. stream' = [stream EXCEPT ![s] = new]
        BY <2>4, <3>2 DEF SnapshotFails
      <4> QED
        BY <4>1, <4>2
    <3> QED
      BY <3>1, <3>2
  <2>5. CASE ClientLeaves(s)
    <3>1. PICK reports \in {{"request"}, {"response"}, {"request", "response"}} :
             stream' = [stream EXCEPT ![s].reports = reports, ![s].ended = TRUE]
      BY <2>5 DEF ClientLeaves
    <3> DEFINE new == [stream[s] EXCEPT !.reports = reports, !.ended = TRUE]
    <3>2. stream' = [stream EXCEPT ![s] = new]
      BY <3>1 DEF LogInv, LogTypes
    <3>3. reports \in SUBSET {"request", "response"}
      OBVIOUS
    <3>4. new \in StreamStates /\ new.stage = stream[s].stage /\ Written1(stream[s], new)
      BY <1>1, <3>3 DEF StreamStates, Written1
    <3> QED
      BY <3>2, <3>4
  <2> QED
    BY <2>1, <2>2, <2>3, <2>4, <2>5
<1> QED
  BY <1>2, <1>3, SameCount, WrittenOnce DEF Open

LEMMA HideLogsKeeps ==
  ASSUME LogInv, HideLogs
  PROVE  LogInv' /\ WrittenUnderGrant
<1>1. /\ stream' = [s \in Streams |-> [stream[s] EXCEPT !.granted = FALSE]]
      /\ UNCHANGED <<connections, logFile>>
  BY DEF HideLogs
<1>2. ASSUME NEW s \in Streams
      PROVE  /\ stream'[s] \in StreamStates /\ stream'[s].stage = stream[s].stage
             /\ stream'[s].previous = stream[s].previous
  BY <1>1 DEF LogInv, LogTypes, StreamStates
<1>3. LogTypes'
  BY <1>1, <1>2 DEF LogInv, LogTypes
<1>4. OpenStreams' = OpenStreams
  BY <1>2 DEF OpenStreams, Open
<1> QED
  BY <1>1, <1>2, <1>3, <1>4 DEF LogInv, WrittenUnderGrant

LEMMA StepLogInv ==
  ASSUME LogInv, [LogNext]_logVars
  PROVE  LogInv' /\ WrittenUnderGrant
<1>1. ASSUME NEW s \in Streams,
             \/ Connect(s) \/ Poll(s) \/ Snapshot(s) \/ Write(s) \/ SnapshotFails(s)
             \/ ClientLeaves(s) \/ \E report \in {"request", "response"} : Close(s, report)
      PROVE  LogInv' /\ WrittenUnderGrant
  BY <1>1, ConnectKeeps, PollKeeps, CloseKeeps
<1>2. CASE Log \/ UNCHANGED logVars
  <2>1. UNCHANGED <<connections, stream>> /\ logFile' \in {logFile, logFile + 1}
    BY <1>2 DEF Log, logVars
  <2> QED
    BY <2>1 DEF LogInv, LogTypes, OpenStreams, Open, WrittenUnderGrant
<1> QED
  BY <1>1, <1>2, HideLogsKeeps DEF LogNext

LEMMA LogInvAlways == LogSpec => []LogInv
<1>1. LogInit => LogInv
  <2> SUFFICES ASSUME LogInit PROVE LogInv
    OBVIOUS
  <2>1. NewStream \in StreamStates /\ NewStream.stage = "new"
    BY LogAssumption DEF NewStream, StreamStates, NoVersion
  <2>2. OpenStreams = {}
    BY <2>1 DEF LogInit, OpenStreams, Open
  <2> QED
    BY <2>1, <2>2, FS_EmptySet, LogAssumption DEF LogInit, LogInv, LogTypes
<1>2. LogInv /\ [LogNext]_logVars => LogInv'
  BY StepLogInv
<1> QED
  BY <1>1, <1>2, PTL DEF LogSpec

\* The count of streams is that of the open ones, and never passes the limit, however often
\* and in which order their ends are reported.
THEOREM LogStreamsCounted == LogSpec => []StreamsCounted
<1>1. LogInv => StreamsCounted
  BY DEF LogInv, StreamsCounted, OpenStreams
<1> QED
  BY <1>1, LogInvAlways, PTL

\* Nothing is written to a stream whose grant is gone, when it was read before included.
THEOREM LogWritesUnderGrant == LogSpec => LogsUnderGrant
<1>1. LogInv /\ [LogNext]_logVars => [WrittenUnderGrant]_logVars
  BY StepLogInv
<1> QED
  BY <1>1, LogInvAlways, PTL DEF LogSpec, LogsUnderGrant
=============================================================================
