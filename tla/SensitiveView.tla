--------------------------- MODULE SensitiveView ---------------------------
(***************************************************************************)
(* Sensitive values in the browser: one tab of Admin's web interface       *)
(* (frontend/sensitive.js, the pages and the dialog that use it), the      *)
(* requests it has under way, and the part of the server that grants and   *)
(* hides (routes/sensitive-routes.js).                                     *)
(*                                                                         *)
(* A grant is named by the reveal that obtained it; a token is its name.   *)
(* The epoch of sensitive.js is kept as a flag of each reveal: whether the *)
(* epoch is still the one it read.  `await revoking' waits for the hides   *)
(* that are queued at that time, which is a number that each hide that     *)
(* settles lowers.  A deadline and the timer that fires then are one step. *)
(* Requests and answers overtake each other; the hides go out one by one.  *)
(***************************************************************************)
EXTENDS Naturals, Sequences

CONSTANTS
    ViewScopes,
    ListPages,    \* pages that show metadata while hidden: Mqtt.vue, Devices.vue
    VaultPages,   \* pages that show nothing while hidden: Dashboard.vue, Account.vue
    ScopeOf,      \* the scope of each page
    Reveals,      \* bound: reveals ever attempted, numbered from 1
    Fetches,      \* bound: requests of the page under way at the same time
    MaxHides      \* bound: hides queued at the same time

\* 0 is nobody's number; a page shows what is hidden in one of two ways, and has one scope.
ASSUME ViewAssumption ==
    /\ Reveals \subseteq Nat \ {0} /\ MaxHides \in Nat
    /\ ListPages \cap VaultPages = {} /\ ScopeOf \in [ListPages \cup VaultPages -> ViewScopes]

VARIABLES
    tab,         \* whether the tab is hidden, somebody is signed in, and its page
    requested,   \* requestedScope: what the dialog asks to verify, or None
    revealed,    \* revealScopes: the grant by which each scope shows, or None
    reveals,     \* calls of requestReveal and authorizeReveal
    hides,       \* revoking: the hides that are queued
    jar,         \* the token in the cookie of each scope, or None
    fetches,     \* the page's requests for its content
    content,     \* what the page holds
    session,     \* server: whether the session is live
    valid,       \* server: the live grants
    missed       \* ghost: whether a hide was lost on its way, or refused during an update

viewVars == <<tab, requested, revealed, reveals, hides, jar, fetches, content, session, valid,
              missed>>

None == 0
Pages == ListPages \cup VaultPages
NoReveal ==
    [stage |-> "new", by |-> "eye", scope |-> None, current |-> FALSE, after |-> 0,
     cookie |-> None]
Over == [NoReveal EXCEPT !.stage = "over"]
NoFetch == [stage |-> "idle", grant |-> None, cookie |-> None]

ViewInit ==
    /\ tab \in {[hidden |-> FALSE, user |-> TRUE, page |-> p] : p \in Pages}
    /\ requested = None /\ hides = <<>> /\ content = "none"
    /\ revealed = [s \in ViewScopes |-> None] /\ jar = [s \in ViewScopes |-> None]
    /\ reveals = [r \in Reveals |-> NoReveal]
    /\ fetches = [f \in Fetches |-> NoFetch]
    /\ session = TRUE /\ valid = {} /\ missed = FALSE

-----------------------------------------------------------------------------
(* The page. *)

\* load() and sensitiveFetch(): remembers the grant, and sends the cookie as it is now.
Fetch(grant) ==
    \E f \in Fetches :
        /\ fetches[f].stage = "idle"
        /\ fetches' = [fetches EXCEPT ![f] =
               [stage |-> "sent", grant |-> grant, cookie |-> jar'[ScopeOf[tab.page]]]]

\* The page's watcher is synchronous: it runs inside the assignment to revealScopes, before
\* whatever follows that assignment.
PageFollows ==
    LET scope == ScopeOf[tab.page]
    IN  IF revealed'[scope] = revealed[scope]
        THEN UNCHANGED <<fetches, content>>
        ELSE /\ content' = "none"
             /\ IF tab.page \in ListPages \/ revealed'[scope] # None
                THEN Fetch(revealed'[scope])
                ELSE UNCHANGED fetches

\* A page that is mounted knows nothing of the requests of the one before it.
Mounted(page) ==
    /\ content' = "none"
    /\ IF page \in ListPages
       THEN \E f \in Fetches : fetches' = [g \in Fetches |->
                IF g = f THEN [NoFetch EXCEPT !.stage = "sent", !.cookie = jar[ScopeOf[page]]]
                         ELSE NoFetch]
       ELSE fetches' = [f \in Fetches |-> NoFetch]

Unmounted == content' = "none" /\ fetches' = [f \in Fetches |-> NoFetch]

-----------------------------------------------------------------------------
(* hideSensitive(). *)

WithoutEpoch(rs) == [r \in Reveals |-> [rs[r] EXCEPT !.current = FALSE]]

\* Clears the scopes and queues the request that revokes them on the server.
HideScopes(scopes, invalidate, closeDialog, rs) ==
    /\ Len(hides) < MaxHides
    /\ reveals' = IF invalidate THEN WithoutEpoch(rs) ELSE rs
    /\ requested' = IF closeDialog THEN None ELSE requested
    /\ revealed' = [s \in ViewScopes |-> IF s \in scopes THEN None ELSE revealed[s]]
    /\ hides' = Append(hides, [scopes |-> scopes, stage |-> "queued", tokens |-> {}])

HideAll(rs) == HideScopes(ViewScopes, TRUE, TRUE, rs)

Shown == tab.user /\ ~tab.hidden

\* The eye of a SensitiveValue that shows its value.
HideScope(s) ==
    /\ Shown /\ revealed[s] # None
    /\ HideScopes({s}, TRUE, TRUE, reveals)
    /\ jar' = jar /\ PageFollows
    /\ UNCHANGED <<tab, session, valid, missed>>

\* The timer of a reveal, whose grant has expired on the server by then.
TimerFires(s) ==
    /\ revealed[s] # None /\ revealed[s] \notin valid
    /\ HideScopes({s}, TRUE, TRUE, reveals)
    /\ jar' = jar /\ PageFollows
    /\ UNCHANGED <<tab, session, valid, missed>>

\* The dialog is closed or cancelled.
Cancel ==
    /\ requested # None
    /\ HideAll(reveals)
    /\ jar' = jar /\ PageFollows
    /\ UNCHANGED <<tab, session, valid, missed>>

\* The tab goes into the background.
VisibilityHidden ==
    /\ ~tab.hidden /\ tab' = [tab EXCEPT !.hidden = TRUE]
    /\ HideAll(reveals)
    /\ jar' = jar /\ PageFollows
    /\ UNCHANGED <<session, valid, missed>>

VisibilityShown ==
    /\ tab.hidden /\ tab' = [tab EXCEPT !.hidden = FALSE]
    /\ UNCHANGED <<requested, revealed, reveals, hides, jar, fetches, content, session, valid,
                   missed>>

\* The window loses the focus, which the browser's own passkey prompt makes it do as well: a
\* dialog that is open stays, and so do the reveals under way.
Blur ==
    /\ \E s \in ViewScopes : revealed[s] # None
    /\ HideScopes(ViewScopes, requested = None, requested = None, reveals)
    /\ jar' = jar /\ PageFollows
    /\ UNCHANGED <<tab, session, valid, missed>>

\* The route changes.
Navigate(page) ==
    /\ Shown /\ page # tab.page
    /\ tab' = [tab EXCEPT !.page = page]
    /\ HideAll(reveals) /\ Mounted(page)
    /\ UNCHANGED <<jar, session, valid, missed>>

\* An answer says 401: state.user is reset, and its watcher hides everything.
SignedOut(rs) ==
    /\ tab' = [tab EXCEPT !.user = FALSE]
    /\ HideAll(rs) /\ Unmounted
    /\ UNCHANGED <<jar, session, valid, missed>>

StatusSays401 ==
    /\ tab.user /\ ~session
    /\ SignedOut(reveals)

SignInTab ==
    /\ ~tab.user
    /\ tab' = [tab EXCEPT !.user = TRUE] /\ session' = TRUE
    /\ HideAll(reveals) /\ Mounted(tab.page)
    /\ UNCHANGED <<jar, valid, missed>>

-----------------------------------------------------------------------------
(* The queue of hides. *)

\* A hide that settled lets everybody go on who waited for it.
Settled(rs) ==
    [r \in Reveals |-> IF rs[r].after = 0 THEN rs[r] ELSE [rs[r] EXCEPT !.after = @ - 1]]

\* Without a session the request is one of nobody: requireAuth answers 401 before the handler.
SendHide ==
    /\ hides # <<>> /\ hides[1].stage = "queued"
    /\ hides' = [hides EXCEPT ![1].stage = IF session THEN "sent" ELSE "refused",
                              ![1].tokens = {jar[s] : s \in hides[1].scopes} \ {None}]
    /\ UNCHANGED <<tab, requested, revealed, reveals, jar, fetches, content, session, valid,
                   missed>>

\* POST /api/sensitive/hide.
ServerHides ==
    /\ hides # <<>> /\ hides[1].stage = "sent"
    /\ hides' = [hides EXCEPT ![1].stage = "done"]
    /\ valid' = valid \ hides[1].tokens
    /\ UNCHANGED <<tab, requested, revealed, reveals, jar, fetches, content, session, missed>>

\* During an update of the gateway every mutation is answered with 503, whoever asks.
MaintenanceRefuses ==
    /\ hides # <<>> /\ hides[1].stage = "sent"
    /\ hides' = [hides EXCEPT ![1].stage = "refused"]
    /\ missed' = TRUE
    /\ UNCHANGED <<tab, requested, revealed, reveals, jar, fetches, content, session, valid>>

\* The answer takes the cookies away, unless it is a refusal, which nobody looks at.
HideAnswered ==
    /\ hides # <<>> /\ hides[1].stage \in {"done", "refused"}
    /\ hides' = Tail(hides) /\ reveals' = Settled(reveals)
    /\ jar' = [s \in ViewScopes |->
                  IF hides[1].stage = "done" /\ s \in hides[1].scopes THEN None ELSE jar[s]]
    /\ UNCHANGED <<tab, requested, revealed, fetches, content, session, valid, missed>>

\* The request or its answer is lost; nobody tries again.
HideLost ==
    /\ hides # <<>> /\ hides[1].stage \in {"sent", "done", "refused"}
    /\ hides' = Tail(hides) /\ reveals' = Settled(reveals)
    /\ missed' = (missed \/ hides[1].stage = "sent")
    /\ UNCHANGED <<tab, requested, revealed, jar, fetches, content, session, valid>>

-----------------------------------------------------------------------------
(* requestReveal() and authorizeReveal(). *)

\* Reveals are numbered in the order in which they begin.
Begins(r) == \A q \in Reveals : reveals[q].stage = "new" <=> q >= r

\* The eye of a hidden value, or a request that was answered with stepUpRequired.
RequestReveal(r, s) ==
    /\ Shown /\ revealed[s] = None /\ Begins(r)
    /\ reveals' = [reveals EXCEPT ![r] =
           [NoReveal EXCEPT !.stage = "waiting", !.scope = s, !.after = Len(hides)]]
    /\ UNCHANGED <<tab, requested, revealed, hides, jar, fetches, content, session, valid, missed>>

\* The hides are through; it first asks without a proof.
StartReveal(r) ==
    /\ reveals[r].stage = "waiting" /\ reveals[r].after = 0
    /\ reveals' = [reveals EXCEPT ![r] =
           IF Shown THEN [@ EXCEPT !.stage = "settling", !.current = TRUE, !.after = Len(hides)]
                    ELSE Over]
    /\ UNCHANGED <<tab, requested, revealed, hides, jar, fetches, content, session, valid, missed>>

\* The dialog's form, which is busy until its reveal is over.
Submit(r) ==
    /\ Shown /\ requested # None /\ Begins(r)
    /\ \A q \in Reveals : reveals[q].by = "dialog" => reveals[q].stage = "over"
    /\ reveals' = [reveals EXCEPT ![r] =
           [NoReveal EXCEPT !.stage = "proving", !.by = "dialog", !.scope = requested,
                            !.current = TRUE]]
    /\ UNCHANGED <<tab, requested, revealed, hides, jar, fetches, content, session, valid, missed>>

\* The authenticator has answered, or not.
Authenticate(r) ==
    /\ reveals[r].stage = "proving"
    /\ \/ reveals' = [reveals EXCEPT ![r].stage = "settling", ![r].after = Len(hides)]
       \/ reveals' = [reveals EXCEPT ![r] = Over]
    /\ UNCHANGED <<tab, requested, revealed, hides, jar, fetches, content, session, valid, missed>>

\* The eye's reveal falls back on the dialog, whatever the reason for its failure.
Failed(r) ==
    /\ reveals' = [reveals EXCEPT ![r] = Over]
    /\ requested' = IF reveals[r].by = "eye" THEN reveals[r].scope ELSE requested
    /\ UNCHANGED <<tab, revealed, hides, jar, fetches, content, session, valid, missed>>

\* Nothing was hidden since: sensitive.js:46 and 48.
StillWanted(r) == reveals[r].current /\ Shown

Ask(r) ==
    /\ reveals[r].stage = "settling" /\ reveals[r].after = 0
    /\ IF StillWanted(r)
       THEN /\ reveals' =
                   [reveals EXCEPT ![r].stage = "asked", ![r].cookie = jar[reveals[r].scope]]
            /\ UNCHANGED <<tab, requested, revealed, hides, jar, fetches, content, session, valid,
                           missed>>
       ELSE Failed(r)

\* POST /api/sensitive/reveal: replaces the grant that the request's cookie names.
ServerReveals(r) ==
    /\ reveals[r].stage = "asked"
    /\ \/ /\ session
          /\ reveals' = [reveals EXCEPT ![r].stage = "granted", ![r].cookie = None]
          /\ valid' = (valid \ {reveals[r].cookie}) \cup {r}
       \/ /\ reveals' = [reveals EXCEPT ![r].stage = IF session THEN "refused" ELSE "unauthorized",
                                          ![r].cookie = None]
          /\ UNCHANGED valid
    /\ UNCHANGED <<tab, requested, revealed, hides, jar, fetches, content, session, missed>>

\* The scope shows, and every other reveal under way becomes one of an earlier epoch.
ShowScope(r) ==
    LET s == reveals[r].scope
    IN  /\ revealed' = [revealed EXCEPT ![s] = r]
        /\ reveals' = WithoutEpoch([reveals EXCEPT ![r] = Over])
        /\ requested' = None
        /\ PageFollows
        /\ UNCHANGED <<tab, hides, session, valid, missed>>

TakeGrantUnchecked(r) ==
    /\ reveals[r].stage = "granted"
    /\ jar' = [jar EXCEPT ![reveals[r].scope] = r]
    /\ ShowScope(r)

TakeGrantForgetting(r) ==
    /\ reveals[r].stage = "granted"
    /\ jar' = [jar EXCEPT ![reveals[r].scope] = r]
    /\ IF StillWanted(r)
       THEN ShowScope(r)
       ELSE /\ reveals' = [reveals EXCEPT ![r].stage = "canceled"]
            /\ UNCHANGED <<tab, requested, revealed, hides, fetches, content, session, valid,
                           missed>>

\* The answer sets the cookie in any case; one that nobody wants any more is hidden again.
TakeGrant(r) ==
    /\ reveals[r].stage = "granted"
    /\ jar' = [jar EXCEPT ![reveals[r].scope] = r]
    /\ IF StillWanted(r)
       THEN ShowScope(r)
       ELSE /\ HideScopes({reveals[r].scope}, TRUE, TRUE,
                    [reveals EXCEPT ![r].stage = "canceled", ![r].after = Len(hides) + 1])
            /\ PageFollows
            /\ UNCHANGED <<tab, session, valid, missed>>

TakeRefusal(r) ==
    \/ reveals[r].stage = "refused" /\ Failed(r)
    \/ reveals[r].stage = "canceled" /\ reveals[r].after = 0 /\ Failed(r)
    \/ /\ reveals[r].stage = "unauthorized"
       /\ IF tab.user
          THEN SignedOut([reveals EXCEPT ![r].stage = "canceled"])
          ELSE Failed(r)

\* The request or its answer is lost.
LoseReveal(r) == reveals[r].stage \in {"asked", "granted", "refused"} /\ Failed(r)

-----------------------------------------------------------------------------
(* The page's content. *)

\* Publishing a message, or any change an owner makes, loads the page again.
Reload ==
    /\ Shown /\ tab.page \in ListPages
    /\ jar' = jar /\ Fetch(revealed[ScopeOf[tab.page]])
    /\ UNCHANGED <<tab, requested, revealed, reveals, hides, content, session, valid, missed>>

\* The lists answer with metadata without a grant, the others refuse.
ServerAnswers(f) ==
    /\ fetches[f].stage = "sent"
    /\ fetches' = [fetches EXCEPT ![f].stage =
           IF session /\ fetches[f].cookie \in valid THEN "full"
           ELSE IF session /\ tab.page \in ListPages THEN "meta" ELSE "refused"]
    /\ UNCHANGED <<tab, requested, revealed, reveals, hides, jar, content, session, valid, missed>>

\* Without its comparison of the grants.
TakeFetchUnchecked(f) ==
    /\ fetches[f].stage \in {"meta", "full", "refused"}
    /\ fetches' = [fetches EXCEPT ![f] = NoFetch]
    /\ content' = IF fetches[f].stage = "refused" THEN content ELSE fetches[f].stage
    /\ UNCHANGED <<tab, requested, revealed, reveals, hides, jar, session, valid, missed>>

\* Kept when what is revealed is what it was when the request went out.
TakeFetch(f) ==
    LET scope == ScopeOf[tab.page]
        same == fetches[f].grant = revealed[scope]
    IN  /\ fetches[f].stage \in {"meta", "full", "refused"}
        /\ fetches' = [fetches EXCEPT ![f] = NoFetch]
        /\ content' = IF fetches[f].stage = "refused" THEN content
                      ELSE IF tab.page \in ListPages
                           THEN IF same THEN fetches[f].stage ELSE content
                           ELSE IF same /\ revealed[scope] # None THEN fetches[f].stage ELSE "none"
        /\ UNCHANGED <<tab, requested, revealed, reveals, hides, jar, session, valid, missed>>

-----------------------------------------------------------------------------
(* The server, and Next. *)

\* A grant expires, or a change of the administrator's settings revokes it.
Expire(r) ==
    /\ r \in valid /\ valid' = valid \ {r}
    /\ UNCHANGED <<tab, requested, revealed, reveals, hides, jar, fetches, content, session,
                   missed>>

\* The session expires, or ends in another tab; what was asked for in it is answered with 401.
SessionEnds ==
    /\ session /\ session' = FALSE /\ valid' = {}
    /\ hides' = [i \in 1..Len(hides) |->
           IF hides[i].stage = "sent" THEN [hides[i] EXCEPT !.stage = "refused"] ELSE hides[i]]
    /\ reveals' = [r \in Reveals |->
           IF reveals[r].stage = "asked" THEN [reveals[r] EXCEPT !.stage = "unauthorized"]
                                         ELSE reveals[r]]
    /\ UNCHANGED <<tab, requested, revealed, jar, fetches, content, missed>>

ViewNext ==
    \/ \E s \in ViewScopes : HideScope(s) \/ TimerFires(s)
    \/ \E r \in Reveals, s \in ViewScopes : RequestReveal(r, s)
    \/ \E r \in Reveals :
           \/ StartReveal(r) \/ Submit(r) \/ Authenticate(r) \/ Ask(r) \/ ServerReveals(r)
           \/ TakeGrant(r) \/ TakeRefusal(r) \/ LoseReveal(r) \/ Expire(r)
    \/ \E p \in Pages : Navigate(p)
    \/ \E f \in Fetches : ServerAnswers(f) \/ TakeFetch(f)
    \/ Cancel \/ VisibilityHidden \/ VisibilityShown \/ Blur \/ StatusSays401 \/ SignInTab
    \/ SendHide \/ ServerHides \/ MaintenanceRefuses \/ HideAnswered \/ HideLost
    \/ Reload \/ SessionEnds

ViewSpec == ViewInit /\ [][ViewNext]_viewVars

-----------------------------------------------------------------------------
\* Nothing shows in a tab that is in the background or signed out, whenever the answers to
\* reveals that were asked for before arrive (sensitive.js:46-49).
ShownOnlyInView == \A s \in ViewScopes : revealed[s] # None => Shown

\* A page that keeps nothing while hidden holds a value only under the grant it was fetched with
\* (sensitive.js:58-63, Dashboard.vue:15-18).
VaultFollowsGrant ==
    tab.page \in VaultPages /\ content = "full" => revealed[ScopeOf[tab.page]] # None

\* When the hides are through and each of them reached the server, the browser keeps no cookie
\* that the server would honour but those of the grants it shows: whatever was cancelled,
\* overtaken, refused or answered late left nothing behind with which a page would get what is
\* hidden.  A hide that is refused because the session is gone leaves its cookie in the browser,
\* where it is worth nothing (sensitive.js:19-27, 46-49, auth.js:73).
Quiet == hides = <<>> /\ ~missed

NoForgottenGrant == Quiet => \A s \in ViewScopes : jar[s] \in valid => jar[s] = revealed[s]

\* docs/sensitive-visibility.md:15: "Clear fetched records and close streams when the scope
\* expires or is hidden".  A list holds contents only while its scope is revealed.
HiddenMeansCleared ==
    tab.page \in ListPages /\ content = "full" => revealed[ScopeOf[tab.page]] # None
=============================================================================
