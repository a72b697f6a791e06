---------------------------- MODULE AdminAccount ----------------------------
(***************************************************************************)
(* The administrator's account: signing in, step-up verification, changes  *)
(* of the authentication methods and grants to see sensitive values        *)
(* (routes/auth-routes.js, routes/sensitive-routes.js, reauth.js, auth.js, *)
(* totp.js, sensitive-grants.js).  There is one administrator: bootstrap   *)
(* refuses a second one and no other route creates a user.                 *)
(*                                                                         *)
(* A request is one action, as the queue of db.js runs one handler at a    *)
(* time, and a handler that dies between its two saves has only spent its  *)
(* challenge.  A wrong password or code changes nothing and is left out.   *)
(* The database survives a restart of Admin, the grants do not.            *)
(*                                                                         *)
(* The queue does not wait for a handler whose client went away            *)
(* (server.js): while it waits for argon2 or a passkey's answer others     *)
(* run, and then it decides by the database that it loaded and saves it.   *)
(* That is two steps here: its old database comes back (LateSave), and the *)
(* request then runs on that one.                                          *)
(*                                                                         *)
(* A challenge, a session and an authenticator secret are random values;   *)
(* they are numbered in the order in which they are drawn.  Whatever was   *)
(* shown to the administrator once may be sent again, by any session.      *)
(***************************************************************************)
EXTENDS Naturals, FiniteSets

CONSTANTS
    Passkeys,        \* credentials an authenticator may register
    Scopes,          \* kinds of sensitive values
    MaxSessions,     \* bound: sessions ever created
    MaxChallenges,   \* bound: challenges ever drawn
    MaxSecrets,      \* bound: authenticator enrolments
    MaxStep,         \* bound: the last 30 second step of the clock
    MaxLate,         \* bound: old databases that handlers without a client have in memory
    MaxOverwrites    \* bound: those that are saved

ASSUME AccountAssumption ==
    /\ MaxSessions \in Nat /\ MaxChallenges \in Nat /\ MaxSecrets \in Nat /\ MaxStep \in Nat
    /\ "verified" \notin Scopes

VARIABLES
    user,         \* the administrator's record in the database
    sessions,     \* how far each session has come; one that an old database did not have is lost
    challenges,   \* the open challenges, each with its key
    drawn,        \* how many challenges and secrets have been drawn
    grants,       \* in memory: who may see what
    late,         \* in memory: databases that handlers without a client have loaded
    clock,        \* the current 30 second step
    codeUses,     \* ghost: how often each code was accepted
    answers,      \* ghost: how often each challenge was accepted
    proven,       \* ghost: which session passed which verification, and how
    overwrites    \* ghost: how often an old database replaced a newer one

inTurn == <<user, sessions, challenges, drawn, grants, clock, codeUses, answers, proven>>
accountVars == <<inTurn, late, overwrites>>

Sessions == 1..MaxSessions
Steps == 1..(MaxStep + 1)
Secrets == 1..MaxSecrets

\* authenticationOperation: what a verification is asked for.
Operation(action, target) == <<action, target>>
Operations ==
    {Operation(a, "") : a \in {"change-password", "enable-totp", "disable-totp", "add-passkey",
                               "sensitive-settings", "update"}}
        \cup {Operation("remove-passkey", k) : k \in Passkeys}
        \cup {Operation("reveal", x) : x \in Scopes}

\* The keys of db.challenges; a login challenge belongs to no session.
LoginKey == <<"login", 0, "">>
AddKey(s) == <<"add", s, "">>
ChallengeKey(s, op) == <<"reauth", s, op>>
Keys ==
    {LoginKey} \cup {AddKey(s) : s \in Sessions}
        \cup {ChallengeKey(s, op) : s \in Sessions, op \in Operations}

\* A grant proves that this session may see the scope; "verified" is the cookie reveal-auth.
Grants == Sessions \X (Scopes \cup {"verified"})

Unenrolled == [session |-> 0, secret |-> 0]

AccountInit ==
    /\ user = [known |-> FALSE, passkeys |-> {}, secret |-> 0, lastStep |-> 0,
               pendingTotp |-> Unenrolled, mustVerify |-> TRUE]
    /\ sessions = [s \in Sessions |-> "unused"]
    /\ challenges = {}
    /\ drawn = [challenges |-> 0, secrets |-> 0]
    /\ grants = {} /\ clock = 0
    /\ codeUses = [c \in Secrets \X Steps |-> 0]
    /\ answers = [c \in 1..MaxChallenges |-> 0]
    /\ proven = {} /\ late = {} /\ overwrites = 0

Live(s) == sessions[s] = "live"

(***************************************************************************)
(* Proofs: a password, with a code when an authenticator is enrolled, or a *)
(* passkey's answer to a challenge.                                        *)
(***************************************************************************)
PasswordProof(code) == [method |-> "password", code |-> code, answer |-> 0]
PasskeyProof(c) == [method |-> "passkey", code |-> 0, answer |-> c]
Proofs ==
    {PasswordProof(code) : code \in {0} \cup Steps} \cup {PasskeyProof(c) : c \in 1..MaxChallenges}

\* verifyTotp: the steps before and after the current one are valid too, each only forwards.
Fresh(code, lastStep) ==
    code \in Steps /\ code + 1 >= clock /\ code <= clock + 1 /\ code > lastStep

\* requireTotp of verifyReauthentication, unless the caller says otherwise.
SecondFactorEnrolled == user.secret # 0 \/ user.passkeys # {}

\* A code is only looked at when an authenticator is enrolled.
CodeFits(code) == IF user.secret = 0 THEN code = 0 ELSE Fresh(code, user.lastStep)

Verified(s, op, requireTotp, p) ==
    \/ /\ p.method = "password"
       /\ requireTotp => user.secret # 0
       /\ CodeFits(p.code)
    \/ /\ p.method = "passkey"
       /\ user.passkeys # {} /\ <<ChallengeKey(s, op), p.answer>> \in challenges

\* The record as verification leaves it: the handler that asked saves it with its own change.
Counted(p) ==
    IF p.method = "password" /\ user.secret # 0
    THEN [user EXCEPT !.lastStep = p.code] ELSE user

\* What verification spends; the challenge is gone before the answer is looked at.
CountCode(secret, code) == codeUses' = [codeUses EXCEPT ![<<secret, code>>] = @ + 1]
Spend(p) ==
    \/ /\ p.method = "password"
       /\ IF user.secret # 0 THEN CountCode(user.secret, p.code) ELSE UNCHANGED codeUses
       /\ UNCHANGED answers
    \/ /\ p.method = "passkey"
       /\ answers' = [answers EXCEPT ![p.answer] = @ + 1]
       /\ UNCHANGED codeUses
Without(k) == {c \in challenges : c[1] # k}
Unspent(s, op, p) == IF p.method = "passkey" THEN Without(ChallengeKey(s, op)) ELSE challenges

\* How strong a proof is: two factors, the password when nothing else is enrolled, or the password
\* although something else is.
Factors(p) ==
    IF p.method = "passkey" \/ user.secret # 0 THEN 2 ELSE IF user.passkeys = {} THEN 1 ELSE 0
\* A later request relies on what was proven for these.
Remembered == {"enable-totp", "add-passkey", "reveal", "sensitive-settings"}
Prove(s, op, p) ==
    proven' = IF op[1] \in Remembered THEN proven \cup {<<s, op, Factors(p)>>} ELSE proven

\* Every protected request of a session begins so.
StepUp(s, op, requireTotp, p) ==
    /\ Verified(s, op, requireTotp, p)
    /\ Spend(p) /\ Prove(s, op, p)

(***************************************************************************)
(* Sessions.                                                               *)
(***************************************************************************)
\* createSession.
Unused(s) == sessions[s] = "unused" /\ \A r \in 1..(s - 1) : sessions[r] # "unused"
Created(s) == [sessions EXCEPT ![s] = "live"]

\* rotateAfterAuthenticationChange: only the session created now goes on.  The challenges under
\* `add:` carry a session in their key, which the clean-up does not look for.
Rotate(s) ==
    /\ Unused(s)
    /\ sessions' = [r \in Sessions |->
                       IF r = s THEN "live" ELSE IF Live(r) THEN "over" ELSE sessions[r]]
    /\ challenges' = {c \in challenges : c[1][1] = "add"}
    /\ grants' = {}

Bootstrap(s) ==
    /\ ~user.known /\ Unused(s)
    /\ user' = [user EXCEPT !.known = TRUE] /\ sessions' = Created(s)
    /\ UNCHANGED <<challenges, drawn, grants, clock, codeUses, answers, proven>>

LoginPassword(s, code) ==
    LET p == PasswordProof(code) IN
    /\ user.known /\ Unused(s)
    /\ CodeFits(code)
    /\ user' = Counted(p) /\ Spend(p) /\ sessions' = Created(s)
    /\ UNCHANGED <<challenges, drawn, grants, clock, proven>>

Draw(k) ==
    /\ drawn.challenges < MaxChallenges
    /\ drawn' = [drawn EXCEPT !.challenges = @ + 1]
    /\ challenges' = Without(k) \cup {<<k, drawn.challenges + 1>>}

LoginOptions ==
    /\ user.known /\ user.passkeys # {}
    /\ Draw(LoginKey)
    /\ UNCHANGED <<user, sessions, grants, clock, codeUses, answers, proven>>

LoginVerify(s, c) ==
    /\ user.known /\ user.passkeys # {} /\ <<LoginKey, c>> \in challenges /\ Unused(s)
    /\ challenges' = Without(LoginKey)
    /\ Spend(PasskeyProof(c)) /\ sessions' = Created(s)
    /\ UNCHANGED <<user, drawn, grants, clock, proven>>

\* Mutant of EndSession: only the session's record is deleted.
EndSessionOnly(s) ==
    /\ sessions' = [sessions EXCEPT ![s] = "over"]
    /\ UNCHANGED <<user, challenges, drawn, grants, clock, codeUses, answers, proven>>

\* Logging out, and the end of a session's hours, which its grants share.
EndSession(s) ==
    /\ sessions' = [sessions EXCEPT ![s] = "over"]
    /\ grants' = {g \in grants : g[1] # s}
    /\ UNCHANGED <<user, challenges, drawn, clock, codeUses, answers, proven>>

(***************************************************************************)
(* Authentication methods.                                                 *)
(***************************************************************************)
Eligible(op) ==
    /\ op[1] = "remove-passkey" => op[2] \in user.passkeys
    /\ op[1] = "disable-totp" => user.secret # 0

ReauthOptions(s, op) ==
    /\ user.passkeys # {} /\ Eligible(op)
    /\ Draw(ChallengeKey(s, op))
    /\ UNCHANGED <<user, sessions, grants, clock, codeUses, answers, proven>>

\* The password itself is not modelled: the new one replaces the old one.
ChangePassword(s, p, r) ==
    /\ StepUp(s, Operation("change-password", ""), SecondFactorEnrolled, p)
    /\ user' = Counted(p) /\ Rotate(r)
    /\ UNCHANGED <<drawn, clock>>

TotpOptions(s, p) ==
    LET op == Operation("enable-totp", "") IN
    /\ user.secret = 0 /\ drawn.secrets < MaxSecrets
    /\ StepUp(s, op, SecondFactorEnrolled, p)
    /\ drawn' = [drawn EXCEPT !.secrets = @ + 1]
    /\ user' = [user EXCEPT !.pendingTotp = [session |-> s, secret |-> drawn.secrets + 1]]
    /\ challenges' = Unspent(s, op, p)
    /\ UNCHANGED <<sessions, grants, clock>>

\* Mutant of TotpVerify: lastStep is not carried over to the confirmed record.
TotpVerifyForgetting(s, code) ==
    /\ user.pendingTotp.session = s /\ Fresh(code, 0)
    /\ user' = [user EXCEPT !.secret = user.pendingTotp.secret, !.lastStep = 0,
                            !.pendingTotp = Unenrolled]
    /\ CountCode(user.pendingTotp.secret, code)
    /\ UNCHANGED <<sessions, challenges, drawn, grants, clock, answers, proven>>

\* Mutant of TotpVerify: any session may confirm the enrolment.
TotpVerifyByAnyone(s, code) ==
    /\ user.pendingTotp.session # 0 /\ Fresh(code, 0)
    /\ user' = [user EXCEPT !.secret = user.pendingTotp.secret, !.lastStep = code,
                            !.pendingTotp = Unenrolled]
    /\ CountCode(user.pendingTotp.secret, code)
    /\ UNCHANGED <<sessions, challenges, drawn, grants, clock, answers, proven>>

\* The code that confirms the enrolment counts as used.
TotpVerify(s, code) ==
    /\ user.pendingTotp.session = s /\ Fresh(code, 0)
    /\ user' = [user EXCEPT !.secret = user.pendingTotp.secret, !.lastStep = code,
                            !.pendingTotp = Unenrolled]
    /\ CountCode(user.pendingTotp.secret, code)
    /\ UNCHANGED <<sessions, challenges, drawn, grants, clock, answers, proven>>

DisableTotp(s, p, r) ==
    /\ user.secret # 0
    /\ StepUp(s, Operation("disable-totp", ""), SecondFactorEnrolled, p)
    /\ user' = [user EXCEPT !.secret = 0, !.lastStep = 0, !.pendingTotp = Unenrolled]
    /\ Rotate(r)
    /\ UNCHANGED <<drawn, clock>>

PasskeyOptions(s, p) ==
    LET op == Operation("add-passkey", "") IN
    /\ drawn.challenges < MaxChallenges
    /\ StepUp(s, op, SecondFactorEnrolled, p)
    /\ user' = Counted(p)
    /\ drawn' = [drawn EXCEPT !.challenges = @ + 1]
    /\ challenges' = {c \in Unspent(s, op, p) : c[1] # AddKey(s)}
                        \cup {<<AddKey(s), drawn.challenges + 1>>}
    /\ UNCHANGED <<sessions, grants, clock>>

PasskeyVerify(s, c, k) ==
    /\ <<AddKey(s), c>> \in challenges /\ k \notin user.passkeys
    /\ user' = [user EXCEPT !.passkeys = @ \cup {k}]
    /\ challenges' = Without(AddKey(s)) /\ Spend(PasskeyProof(c))
    /\ UNCHANGED <<sessions, drawn, grants, clock, proven>>

PasskeyDelete(s, k, p, r) ==
    /\ k \in user.passkeys
    /\ StepUp(s, Operation("remove-passkey", k), SecondFactorEnrolled, p)
    /\ user' = [Counted(p) EXCEPT !.passkeys = @ \ {k}]
    /\ Rotate(r)
    /\ UNCHANGED <<drawn, clock>>

(***************************************************************************)
(* Sensitive values, and the other request that asks for verification.     *)
(***************************************************************************)
\* A grant for the scope replaces the one the session had.
Issue(s, scopes) == grants' = grants \cup ({s} \X scopes)

RevealAfter(requireTotp, s, x, p) ==
    LET op == Operation("reveal", x) IN
    /\ user.mustVerify /\ <<s, "verified">> \notin grants
    /\ StepUp(s, op, requireTotp, p)
    /\ user' = Counted(p) /\ challenges' = Unspent(s, op, p)
    /\ Issue(s, {"verified", x})
    /\ UNCHANGED <<sessions, drawn, clock>>

\* Mutant of Reveal: a second factor is only asked for when one is enrolled.
RevealDefault(s, x, p) == RevealAfter(SecondFactorEnrolled, s, x, p)

Reveal(s, x, p) == RevealAfter(TRUE, s, x, p)

RevealAgain(s, x) ==
    /\ ~user.mustVerify \/ <<s, "verified">> \in grants
    /\ Issue(s, {x})
    /\ UNCHANGED <<user, sessions, challenges, drawn, clock, codeUses, answers, proven>>

\* POST /api/sensitive/hide, and the end of the grants' seconds.
Hide(s, scopes) ==
    /\ {s} \X scopes \subseteq grants
    /\ grants' = grants \ ({s} \X scopes)
    /\ UNCHANGED <<user, sessions, challenges, drawn, clock, codeUses, answers, proven>>

\* PATCH /api/me/sensitive-preferences.
SensitivePreferences(s, must, p) ==
    LET op == Operation("sensitive-settings", "") IN
    /\ StepUp(s, op, SecondFactorEnrolled, p)
    /\ user' = [Counted(p) EXCEPT !.mustVerify = must]
    /\ challenges' = Unspent(s, op, p)
    /\ grants' = {g \in grants : g[1] # s}
    /\ UNCHANGED <<sessions, drawn, clock>>

\* POST /api/system-updates/install and rollback: what they do then is in Updater.
RequestUpdate(s, p) ==
    LET op == Operation("update", "") IN
    /\ StepUp(s, op, SecondFactorEnrolled, p)
    /\ user' = Counted(p) /\ challenges' = Unspent(s, op, p)
    /\ UNCHANGED <<sessions, drawn, grants, clock>>

(***************************************************************************)
(* Time, and restarts.                                                     *)
(***************************************************************************)
\* A challenge expires, or an answer that is refused spends it.
ForgetChallenge(k) ==
    /\ challenges' = Without(k)
    /\ UNCHANGED <<user, sessions, drawn, grants, clock, codeUses, answers, proven>>

PendingTotpExpires ==
    /\ user.pendingTotp # Unenrolled
    /\ user' = [user EXCEPT !.pendingTotp = Unenrolled]
    /\ UNCHANGED <<sessions, challenges, drawn, grants, clock, codeUses, answers, proven>>

Tick ==
    /\ clock < MaxStep
    /\ clock' = clock + 1
    /\ UNCHANGED <<user, sessions, challenges, drawn, grants, codeUses, answers, proven>>

Restart ==
    /\ grants' = {} /\ late' = {}
    /\ UNCHANGED <<user, sessions, challenges, drawn, clock, codeUses, answers, proven, overwrites>>

\* The client of a handler goes away while it waits, with the database as it is now.
Abandon ==
    /\ Cardinality(late) < MaxLate
    /\ late' = late \cup {[user |-> user, challenges |-> challenges,
                           live |-> {s \in Sessions : Live(s)}]}
    /\ UNCHANGED <<inTurn, overwrites>>

\* Such a handler saves; another one may have loaded the same.
LateSave(d) ==
    /\ overwrites < MaxOverwrites /\ overwrites' = overwrites + 1
    /\ user' = d.user /\ challenges' = d.challenges
    /\ sessions' = [s \in Sessions |->
                       IF s \in d.live THEN "live" ELSE IF Live(s) THEN "lost" ELSE sessions[s]]
    /\ UNCHANGED <<drawn, grants, clock, codeUses, answers, proven, late>>

SignIn(s) ==
    \/ Bootstrap(s)
    \/ \E code \in {0} \cup Steps : LoginPassword(s, code)
    \/ \E c \in 1..MaxChallenges : LoginVerify(s, c)

Protected(s, p) ==
    \/ TotpOptions(s, p) \/ PasskeyOptions(s, p) \/ RequestUpdate(s, p)
    \/ \E x \in Scopes : Reveal(s, x, p)
    \/ \E must \in BOOLEAN : SensitivePreferences(s, must, p)
    \/ \E r \in {q \in Sessions : Unused(q)} :
          \/ ChangePassword(s, p, r) \/ DisableTotp(s, p, r)
          \/ \E k \in Passkeys : PasskeyDelete(s, k, p, r)

Plain(s) ==
    \/ EndSession(s)
    \/ \E op \in Operations : ReauthOptions(s, op)
    \/ \E code \in Steps : TotpVerify(s, code)
    \/ \E c \in 1..MaxChallenges, k \in Passkeys : PasskeyVerify(s, c, k)
    \/ \E x \in Scopes : RevealAgain(s, x)
    \/ \E x \in Scopes \cup {"verified"} : Hide(s, {x})

\* Every handler that names a session s but SignIn runs under requireAuth.
requireAuth(s) == Live(s) /\ (Plain(s) \/ \E p \in Proofs : Protected(s, p))

Passing == \/ LoginOptions \/ PendingTotpExpires \/ Tick
           \/ \E c \in challenges : ForgetChallenge(c[1])

InTurn == (\E s \in Sessions : SignIn(s) \/ requireAuth(s)) \/ Passing

AccountNext ==
    \/ InTurn /\ UNCHANGED <<late, overwrites>>
    \/ Restart \/ Abandon
    \/ \E d \in late : LateSave(d)

AccountSpec == AccountInit /\ [][AccountNext]_accountVars

-----------------------------------------------------------------------------
UserRecords ==
    [known : BOOLEAN, passkeys : SUBSET Passkeys, secret : {0} \cup Secrets,
     lastStep : {0} \cup Steps,
     pendingTotp : {Unenrolled} \cup [session : Sessions, secret : Secrets], mustVerify : BOOLEAN]

\* The variables stay within their types.
InTurnTypes ==
    /\ user \in UserRecords
    /\ sessions \in [Sessions -> {"unused", "live", "over", "lost"}]
    /\ challenges \subseteq Keys \X (1..MaxChallenges)
    /\ drawn \in [challenges : 0..MaxChallenges, secrets : 0..MaxSecrets]
    /\ grants \subseteq Grants /\ clock \in Nat
    /\ codeUses \in [Secrets \X Steps -> Nat] /\ answers \in [1..MaxChallenges -> Nat]
    /\ proven \subseteq Sessions \X Operations \X {0, 1, 2}
Databases ==
    [user : UserRecords, challenges : SUBSET (Keys \X (1..MaxChallenges)), live : SUBSET Sessions]
TypeOK == InTurnTypes /\ late \subseteq Databases /\ overwrites \in Nat

\* Whatever is sent again, by whichever session and however late: a code of an authenticator and
\* an answer to a challenge are accepted once, and once more at most for each time that a handler
\* whose client went away put an old database back (totp.js:64, reauth.js:69, auth-routes.js:58,
\* server.js:74).
ProofsWorkOnce ==
    /\ \A c \in Secrets \X Steps : codeUses[c] <= 1 + overwrites
    /\ \A c \in 1..MaxChallenges : answers[c] <= 1 + overwrites

\* The grants in memory follow the sessions in the database: whoever may see a sensitive value
\* has a session that goes on, or one that an old database which was saved late did not have
\* (auth.js:81, reauth.js:103, sensitive-grants.js:19).
GrantsFollowSessions == \A g \in grants : Live(g[1]) \/ sessions[g[1]] = "lost"

\* Whoever may see sensitive values proved two factors in a reveal of the same session, unless
\* somebody verified a change of that policy, and that with a second factor if there was one; the
\* cookie that spares the next reveal a proof is only given for two factors
\* (sensitive-routes.js:19, 34).
TwoFactors(s) == \E x \in Scopes : <<s, Operation("reveal", x), 2>> \in proven
PolicyChanged ==
    \E s \in Sessions, n \in {1, 2} : <<s, Operation("sensitive-settings", ""), n>> \in proven
SecondFactorBehindReveal ==
    \A g \in grants : TwoFactors(g[1]) \/ (g[2] # "verified" /\ PolicyChanged)

\* An authenticator or a passkey is enrolled in two requests; when the second one succeeds, a
\* session that goes on proved itself in the first (auth-routes.js:206, 278).  An old database
\* that comes back has what was enrolled then.
SomeoneLiveProved(action) ==
    \E s \in Sessions : Live(s) /\ \E n \in {1, 2} : <<s, Operation(action, ""), n>> \in proven
EnrolmentsAreProven ==
    [][overwrites' = overwrites =>
          /\ user.secret = 0 /\ user'.secret # 0 => SomeoneLiveProved("enable-totp")
          /\ ~(user'.passkeys \subseteq user.passkeys) => SomeoneLiveProved("add-passkey")]_accountVars
=============================================================================
