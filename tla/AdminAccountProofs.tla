------------------------- MODULE AdminAccountProofs -------------------------
(***************************************************************************)
(* Proofs about AdminAccount for every value of its constants: the types,  *)
(* and the four properties of the account that the small instance checks.  *)
(***************************************************************************)
EXTENDS AdminAccount, TLAPS

-----------------------------------------------------------------------------
(* What the helpers of the actions do. *)

ProofTriples == Sessions \X Operations \X {0, 1, 2}

\* Verification as the code's record keeps it: u is the user's record afterwards.
CodeSpent(u) ==
    /\ u.secret = user.secret /\ u.pendingTotp = user.pendingTotp
    /\ \/ UNCHANGED codeUses /\ u.lastStep = user.lastStep
       \/ \E code \in Steps :
             /\ user.secret # 0 /\ code > user.lastStep /\ u.lastStep = code
             /\ codeUses' = [codeUses EXCEPT ![<<user.secret, code>>] = @ + 1]

\* Verification as the challenges see it: k is the key under which it looked.
AnswerSpent(k) ==
    \/ UNCHANGED answers
    \/ \E c \in 1..MaxChallenges :
          <<k, c>> \in challenges /\ answers' = [answers EXCEPT ![c] = @ + 1]

LEMMA ConstantTypes ==
  /\ MaxSessions \in Nat /\ MaxChallenges \in Nat /\ MaxSecrets \in Nat /\ MaxStep \in Nat
  /\ "verified" \notin Scopes
  BY AccountAssumption

LEMMA UserFields ==
  ASSUME NEW u \in UserRecords
  PROVE  /\ u.known \in BOOLEAN /\ u.passkeys \in SUBSET Passkeys /\ u.secret \in {0} \cup Secrets
         /\ u.lastStep \in {0} \cup Steps /\ u.mustVerify \in BOOLEAN
         /\ u.pendingTotp \in {Unenrolled} \cup [session : Sessions, secret : Secrets]
  BY DEF UserRecords

LEMMA CountedIs ==
  ASSUME user \in UserRecords, NEW p \in Proofs,
         p.method = "password" => CodeFits(p.code)
  PROVE  /\ Counted(p) \in UserRecords
         /\ Counted(p).secret = user.secret /\ Counted(p).pendingTotp = user.pendingTotp
         /\ Counted(p).lastStep = (IF p.method = "password" /\ user.secret # 0
                                   THEN p.code ELSE user.lastStep)
<1>1. CASE p.method = "password" /\ user.secret # 0
  <2>1. p.code \in Steps
    BY <1>1 DEF CodeFits, Fresh
  <2>2. Counted(p) = [user EXCEPT !.lastStep = p.code]
    BY <1>1 DEF Counted
  <2> QED
    BY <1>1, <2>1, <2>2 DEF UserRecords
<1>2. CASE ~(p.method = "password" /\ user.secret # 0)
  BY <1>2 DEF Counted
<1> QED
  BY <1>1, <1>2

LEMMA ProofFields ==
  ASSUME NEW p \in Proofs
  PROVE  /\ p.method \in {"password", "passkey"}
         /\ p.method = "passkey" => p.answer \in 1..MaxChallenges
  BY DEF Proofs, PasswordProof, PasskeyProof

LEMMA CountType ==
  ASSUME NEW S, NEW f \in [S -> Nat], NEW x
  PROVE  [f EXCEPT ![x] = @ + 1] \in [S -> Nat]
<1> SUFFICES ASSUME NEW y \in S PROVE [f EXCEPT ![x] = @ + 1][y] \in Nat
  OBVIOUS
<1>1. f[y] \in Nat
  OBVIOUS
<1> QED
  BY <1>1

LEMMA SpendType ==
  ASSUME InTurnTypes, NEW p \in Proofs, p.method = "password" => CodeFits(p.code), Spend(p)
  PROVE  /\ codeUses' \in [Secrets \X Steps -> Nat] /\ answers' \in [1..MaxChallenges -> Nat]
         /\ CodeSpent(Counted(p))
<1>1. user \in UserRecords
  BY DEF InTurnTypes
<1>2. user.secret \in {0} \cup Secrets /\ user.lastStep \in {0} \cup Steps
  BY <1>1, UserFields
<1>3. /\ Counted(p).secret = user.secret /\ Counted(p).pendingTotp = user.pendingTotp
      /\ Counted(p).lastStep = (IF p.method = "password" /\ user.secret # 0
                                THEN p.code ELSE user.lastStep)
  BY <1>1, CountedIs
<1>4. CASE p.method = "password" /\ user.secret # 0
  <2>1. p.code \in Steps /\ p.code > user.lastStep
    BY <1>4 DEF CodeFits, Fresh
  <2>2. /\ codeUses' = [codeUses EXCEPT ![<<user.secret, p.code>>] = @ + 1]
        /\ UNCHANGED answers
    BY <1>4 DEF Spend, CountCode
  <2>3. codeUses' \in [Secrets \X Steps -> Nat] /\ answers' \in [1..MaxChallenges -> Nat]
    BY <2>2, CountType DEF InTurnTypes
  <2>4. CodeSpent(Counted(p))
    BY <1>3, <1>4, <2>1, <2>2 DEF CodeSpent
  <2> QED
    BY <2>3, <2>4
<1>5. CASE p.method = "password" /\ user.secret = 0
  <2>1. UNCHANGED <<codeUses, answers>>
    BY <1>5 DEF Spend
  <2> QED
    BY <1>3, <1>5, <2>1 DEF CodeSpent, InTurnTypes
<1>6. CASE p.method = "passkey"
  <2>1. UNCHANGED codeUses /\ answers' = [answers EXCEPT ![p.answer] = @ + 1]
    BY <1>6 DEF Spend
  <2>2. answers' \in [1..MaxChallenges -> Nat]
    BY <2>1, CountType DEF InTurnTypes
  <2> QED
    BY <1>3, <1>6, <2>1, <2>2 DEF CodeSpent, InTurnTypes
<1> QED
  BY <1>4, <1>5, <1>6, ProofFields

LEMMA SpendAnswer ==
  ASSUME NEW p \in Proofs, Spend(p), NEW k, p.method = "passkey" => <<k, p.answer>> \in challenges
  PROVE  AnswerSpent(k)
  BY ProofFields DEF Spend, AnswerSpent

LEMMA StepUpType ==
  ASSUME InTurnTypes, NEW s \in Sessions, NEW op \in Operations, NEW t \in BOOLEAN,
         NEW p \in Proofs, StepUp(s, op, t, p)
  PROVE  /\ Counted(p) \in UserRecords
         /\ codeUses' \in [Secrets \X Steps -> Nat] /\ answers' \in [1..MaxChallenges -> Nat]
         /\ proven' \subseteq ProofTriples /\ proven \subseteq proven'
         /\ CodeSpent(Counted(p)) /\ AnswerSpent(ChallengeKey(s, op))
<1>1. p.method = "password" => CodeFits(p.code)
  BY DEF StepUp, Verified
<1>2. p.method = "passkey" => <<ChallengeKey(s, op), p.answer>> \in challenges
  BY DEF StepUp, Verified
<1>3. Spend(p) /\ Prove(s, op, p)
  BY DEF StepUp
<1>4. Counted(p) \in UserRecords
  BY <1>1, CountedIs DEF InTurnTypes
<1>5. /\ codeUses' \in [Secrets \X Steps -> Nat] /\ answers' \in [1..MaxChallenges -> Nat]
      /\ CodeSpent(Counted(p))
  BY <1>1, <1>3, SpendType
<1>6. AnswerSpent(ChallengeKey(s, op))
  BY <1>2, <1>3, SpendAnswer
<1>7. <<s, op, Factors(p)>> \in ProofTriples
  BY DEF ProofTriples, Factors
<1>8. proven' \subseteq ProofTriples /\ proven \subseteq proven'
  BY <1>3, <1>7 DEF Prove, InTurnTypes, ProofTriples
<1> QED
  BY <1>4, <1>5, <1>6, <1>8

LEMMA OperationTypes ==
  /\ \A a \in {"change-password", "enable-totp", "disable-totp", "add-passkey",
               "sensitive-settings", "update"} : Operation(a, "") \in Operations
  /\ \A k \in Passkeys : Operation("remove-passkey", k) \in Operations
  /\ \A x \in Scopes : Operation("reveal", x) \in Operations
  BY DEF Operations

LEMMA SecondFactorType == SecondFactorEnrolled \in BOOLEAN
  BY DEF SecondFactorEnrolled

LEMMA CreatedType ==
  ASSUME InTurnTypes, NEW s \in Sessions
  PROVE  Created(s) \in [Sessions -> {"unused", "live", "over", "lost"}]
  BY DEF Created, InTurnTypes

LEMMA RotateType ==
  ASSUME InTurnTypes, NEW r \in Sessions, Rotate(r)
  PROVE  /\ sessions' \in [Sessions -> {"unused", "live", "over", "lost"}]
         /\ challenges' \subseteq challenges /\ grants' = {} /\ sessions'[r] = "live"
         /\ \A c \in challenges' : c[1][1] = "add"
  BY DEF Rotate, InTurnTypes, Live

LEMMA KeyTypes ==
  /\ LoginKey \in Keys /\ \A s \in Sessions : AddKey(s) \in Keys
  /\ \A s \in Sessions, op \in Operations : ChallengeKey(s, op) \in Keys
  BY DEF Keys

LEMMA DrawType ==
  ASSUME InTurnTypes, NEW k \in Keys, Draw(k)
  PROVE  /\ drawn' \in [challenges : 0..MaxChallenges, secrets : 0..MaxSecrets]
         /\ challenges' \subseteq Keys \X (1..MaxChallenges)
         /\ drawn'.secrets = drawn.secrets /\ drawn'.challenges = drawn.challenges + 1
         /\ challenges' \subseteq challenges \cup {<<k, drawn.challenges + 1>>}
<1>1. /\ drawn \in [challenges : 0..MaxChallenges, secrets : 0..MaxSecrets]
      /\ challenges \subseteq Keys \X (1..MaxChallenges)
  BY DEF InTurnTypes
<1>2. drawn.challenges \in 0..MaxChallenges /\ drawn.challenges + 1 \in 1..MaxChallenges
  BY <1>1, ConstantTypes DEF Draw
<1>3. /\ drawn' = [drawn EXCEPT !.challenges = @ + 1]
      /\ challenges' \subseteq challenges \cup {<<k, drawn.challenges + 1>>}
  BY DEF Draw, Without
<1>4. <<k, drawn.challenges + 1>> \in Keys \X (1..MaxChallenges)
  BY <1>2
<1> QED
  BY <1>1, <1>2, <1>3, <1>4, ConstantTypes

-----------------------------------------------------------------------------
(* Type correctness: InTurnTypes is inductive. *)

LEMMA InitType == AccountInit => InTurnTypes
<1> SUFFICES ASSUME AccountInit PROVE InTurnTypes
  OBVIOUS
<1>1. user \in UserRecords
  BY DEF AccountInit, UserRecords
<1>2. drawn \in [challenges : 0..MaxChallenges, secrets : 0..MaxSecrets]
  BY ConstantTypes DEF AccountInit
<1> QED
  BY <1>1, <1>2 DEF AccountInit, InTurnTypes

LEMMA SignInType ==
  ASSUME InTurnTypes, NEW s \in Sessions, SignIn(s)
  PROVE  InTurnTypes'
<1>1. CASE Bootstrap(s)
  <2>1. user' \in UserRecords
    BY <1>1 DEF Bootstrap, InTurnTypes, UserRecords
  <2> QED
    BY <1>1, <2>1, CreatedType DEF Bootstrap, InTurnTypes
<1>2. ASSUME NEW code \in {0} \cup Steps, LoginPassword(s, code)
      PROVE  InTurnTypes'
  <2> DEFINE p == PasswordProof(code)
  <2>1. p \in Proofs /\ p.method = "password" /\ p.code = code
    BY DEF PasswordProof, Proofs
  <2>2. CodeFits(p.code) /\ Spend(p) /\ user' = Counted(p)
    BY <1>2, <2>1 DEF LoginPassword
  <2>3. user' \in UserRecords
    <3> HIDE DEF p
    <3> QED
      BY <2>1, <2>2, CountedIs DEF InTurnTypes
  <2>4. codeUses' \in [Secrets \X Steps -> Nat] /\ answers' \in [1..MaxChallenges -> Nat]
    <3> HIDE DEF p
    <3> QED
      BY <2>1, <2>2, SpendType
  <2> QED
    BY <1>2, <2>3, <2>4, CreatedType DEF LoginPassword, InTurnTypes
<1>3. ASSUME NEW c \in 1..MaxChallenges, LoginVerify(s, c)
      PROVE  InTurnTypes'
  <2> DEFINE p == PasskeyProof(c)
  <2>1. p \in Proofs /\ p.method = "passkey" /\ p.answer = c
    BY DEF PasskeyProof, Proofs
  <2>2. codeUses' \in [Secrets \X Steps -> Nat] /\ answers' \in [1..MaxChallenges -> Nat]
    <3>1. Spend(p)
      BY <1>3 DEF LoginVerify
    <3> HIDE DEF p
    <3> QED
      BY <2>1, <3>1, SpendType
  <2>3. challenges' \subseteq challenges
    BY <1>3 DEF LoginVerify, Without
  <2> QED
    BY <1>3, <2>2, <2>3, CreatedType DEF LoginVerify, InTurnTypes
<1> QED
  BY <1>1, <1>2, <1>3 DEF SignIn

\* The parts a protected request of session s leaves behind when all it does with the challenges
\* is to remove some.
LEMMA ProtectedType ==
  ASSUME InTurnTypes, NEW s \in Sessions, NEW op \in Operations, NEW p \in Proofs,
         NEW t \in BOOLEAN, StepUp(s, op, t, p), user' \in UserRecords,
         sessions' \in [Sessions -> {"unused", "live", "over", "lost"}],
         challenges' \subseteq Keys \X (1..MaxChallenges),
         drawn' \in [challenges : 0..MaxChallenges, secrets : 0..MaxSecrets],
         grants' \subseteq Grants, clock' = clock
  PROVE  InTurnTypes'
  BY StepUpType DEF InTurnTypes, ProofTriples

LEMMA RotatingType ==
  ASSUME InTurnTypes, NEW s \in Sessions, NEW op \in Operations, NEW p \in Proofs,
         NEW r \in Sessions, NEW t \in BOOLEAN,
         StepUp(s, op, t, p), user' \in UserRecords, Rotate(r), UNCHANGED <<drawn, clock>>
  PROVE  InTurnTypes'
<1>1. /\ sessions' \in [Sessions -> {"unused", "live", "over", "lost"}]
      /\ challenges' \subseteq challenges /\ grants' = {}
  BY RotateType
<1>2. challenges' \subseteq Keys \X (1..MaxChallenges)
  BY <1>1 DEF InTurnTypes
<1>3. grants' \subseteq Grants
  BY <1>1
<1>4. drawn' \in [challenges : 0..MaxChallenges, secrets : 0..MaxSecrets]
  BY DEF InTurnTypes
<1> QED
  BY <1>1, <1>2, <1>3, <1>4, ProtectedType

LEMMA StayingType ==
  ASSUME InTurnTypes, NEW s \in Sessions, NEW op \in Operations, NEW p \in Proofs,
         NEW t \in BOOLEAN, StepUp(s, op, t, p), user' \in UserRecords,
         challenges' \subseteq challenges, grants' \subseteq Grants,
         UNCHANGED <<sessions, drawn, clock>>
  PROVE  InTurnTypes'
<1>1. sessions' \in [Sessions -> {"unused", "live", "over", "lost"}]
  BY DEF InTurnTypes
<1>2. challenges' \subseteq Keys \X (1..MaxChallenges)
  BY DEF InTurnTypes
<1>3. drawn' \in [challenges : 0..MaxChallenges, secrets : 0..MaxSecrets]
  BY DEF InTurnTypes
<1> QED
  BY <1>1, <1>2, <1>3, ProtectedType

LEMMA IssueType ==
  ASSUME InTurnTypes, NEW s \in Sessions, NEW X \in SUBSET (Scopes \cup {"verified"}), Issue(s, X)
  PROVE  grants' \subseteq Grants
  BY DEF Issue, Grants, InTurnTypes

LEMMA EnrolType ==
  ASSUME InTurnTypes, NEW s \in Sessions, NEW p \in Proofs, TotpOptions(s, p)
  PROVE  InTurnTypes'
<1> DEFINE op == Operation("enable-totp", "")
           n == drawn.secrets + 1
<1>1. op \in Operations
  BY OperationTypes
<1>2. StepUp(s, op, SecondFactorEnrolled, p)
  BY DEF TotpOptions
<1>3. drawn \in [challenges : 0..MaxChallenges, secrets : 0..MaxSecrets] /\ user \in UserRecords
  BY DEF InTurnTypes
<1>4. n \in Secrets /\ n \in 0..MaxSecrets
  <2>1. drawn.secrets \in 0..MaxSecrets
    BY <1>3
  <2>2. drawn.secrets < MaxSecrets
    BY DEF TotpOptions
  <2> QED
    BY <2>1, <2>2, ConstantTypes DEF Secrets
<1>5. drawn' \in [challenges : 0..MaxChallenges, secrets : 0..MaxSecrets]
  BY <1>3, <1>4 DEF TotpOptions
<1>6. user' \in UserRecords
  <2>1. [session |-> s, secret |-> n] \in [session : Sessions, secret : Secrets]
    BY <1>4
  <2>2. user' = [user EXCEPT !.pendingTotp = [session |-> s, secret |-> n]]
    BY DEF TotpOptions
  <2> HIDE DEF n
  <2> QED
    BY <1>3, <2>1, <2>2 DEF UserRecords
<1>7. challenges' \subseteq challenges /\ UNCHANGED <<sessions, grants, clock>>
  BY DEF TotpOptions, Unspent, Without
<1>8. /\ challenges' \subseteq Keys \X (1..MaxChallenges) /\ grants' \subseteq Grants
      /\ sessions' \in [Sessions -> {"unused", "live", "over", "lost"}] /\ clock' = clock
  BY <1>7 DEF InTurnTypes
<1> HIDE DEF op, n
<1> QED
  BY <1>1, <1>2, <1>5, <1>6, <1>8, ProtectedType, SecondFactorType

LEMMA PasskeyOptionsType ==
  ASSUME InTurnTypes, NEW s \in Sessions, NEW p \in Proofs, PasskeyOptions(s, p)
  PROVE  /\ InTurnTypes' /\ drawn'.secrets = drawn.secrets
         /\ drawn'.challenges = drawn.challenges + 1
<1> DEFINE op == Operation("add-passkey", "")
           n == drawn.challenges + 1
<1>1. op \in Operations
  BY OperationTypes
<1>2. StepUp(s, op, SecondFactorEnrolled, p)
  BY DEF PasskeyOptions
<1>3. drawn \in [challenges : 0..MaxChallenges, secrets : 0..MaxSecrets]
  BY DEF InTurnTypes
<1>4. n \in 1..MaxChallenges /\ n \in 0..MaxChallenges
  <2>1. drawn.challenges \in 0..MaxChallenges
    BY <1>3
  <2>2. drawn.challenges < MaxChallenges
    BY DEF PasskeyOptions
  <2> QED
    BY <2>1, <2>2, ConstantTypes
<1>5. /\ drawn' \in [challenges : 0..MaxChallenges, secrets : 0..MaxSecrets]
      /\ drawn'.secrets = drawn.secrets /\ drawn'.challenges = n
  BY <1>3, <1>4 DEF PasskeyOptions
<1>6. user' = Counted(p) /\ UNCHANGED <<sessions, grants, clock>>
  BY DEF PasskeyOptions
<1>7. challenges' \subseteq challenges \cup {<<AddKey(s), n>>}
  BY DEF PasskeyOptions, Unspent, Without
<1>8. challenges' \subseteq Keys \X (1..MaxChallenges)
  BY <1>4, <1>7, KeyTypes DEF InTurnTypes
<1>9. /\ grants' \subseteq Grants /\ clock' = clock
      /\ sessions' \in [Sessions -> {"unused", "live", "over", "lost"}]
  BY <1>6 DEF InTurnTypes
<1> HIDE DEF op, n
<1>10. user' \in UserRecords
  BY <1>1, <1>2, <1>6, StepUpType, SecondFactorType
<1>11. InTurnTypes'
  BY <1>1, <1>2, <1>5, <1>8, <1>9, <1>10, ProtectedType, SecondFactorType
<1> QED
  BY <1>5, <1>11 DEF n

LEMMA RevealType ==
  ASSUME InTurnTypes, NEW s \in Sessions, NEW p \in Proofs, NEW x \in Scopes, Reveal(s, x, p)
  PROVE  InTurnTypes'
<1> DEFINE op == Operation("reveal", x)
<1>1. op \in Operations
  BY OperationTypes
<1>2. /\ StepUp(s, op, TRUE, p) /\ user' = Counted(p) /\ challenges' \subseteq challenges
      /\ Issue(s, {"verified", x}) /\ UNCHANGED <<sessions, drawn, clock>>
  BY DEF Reveal, RevealAfter, Unspent, Without
<1>3. {"verified", x} \in SUBSET (Scopes \cup {"verified"})
  OBVIOUS
<1> HIDE DEF op
<1>4. grants' \subseteq Grants
  BY <1>2, <1>3, IssueType
<1>5. user' \in UserRecords
  BY <1>1, <1>2, StepUpType
<1> QED
  BY <1>1, <1>2, <1>4, <1>5, StayingType

LEMMA PreferencesType ==
  ASSUME InTurnTypes, NEW s \in Sessions, NEW p \in Proofs, NEW must \in BOOLEAN,
         SensitivePreferences(s, must, p)
  PROVE  InTurnTypes'
<1> DEFINE op == Operation("sensitive-settings", "")
<1>1. op \in Operations
  BY OperationTypes
<1>2. /\ StepUp(s, op, SecondFactorEnrolled, p) /\ challenges' \subseteq challenges
      /\ user' = [Counted(p) EXCEPT !.mustVerify = must]
      /\ grants' \subseteq grants /\ UNCHANGED <<sessions, drawn, clock>>
  BY DEF SensitivePreferences, Unspent, Without
<1> HIDE DEF op
<1>3. Counted(p) \in UserRecords
  BY <1>1, <1>2, StepUpType, SecondFactorType
<1>4. user' \in UserRecords
  BY <1>2, <1>3 DEF UserRecords
<1>5. grants' \subseteq Grants
  BY <1>2 DEF InTurnTypes
<1> QED
  BY <1>1, <1>2, <1>4, <1>5, StayingType, SecondFactorType

LEMMA RequestUpdateType ==
  ASSUME InTurnTypes, NEW s \in Sessions, NEW p \in Proofs, RequestUpdate(s, p)
  PROVE  InTurnTypes'
<1> DEFINE op == Operation("update", "")
<1>1. op \in Operations
  BY OperationTypes
<1>2. /\ StepUp(s, op, SecondFactorEnrolled, p) /\ challenges' \subseteq challenges
      /\ user' = Counted(p) /\ UNCHANGED <<sessions, drawn, grants, clock>>
  BY DEF RequestUpdate, Unspent, Without
<1> HIDE DEF op
<1>3. user' \in UserRecords
  BY <1>1, <1>2, StepUpType, SecondFactorType
<1>4. grants' \subseteq Grants
  BY <1>2 DEF InTurnTypes
<1> QED
  BY <1>1, <1>2, <1>3, <1>4, StayingType, SecondFactorType

LEMMA ChangePasswordType ==
  ASSUME InTurnTypes, NEW s \in Sessions, NEW p \in Proofs, NEW r \in Sessions,
         ChangePassword(s, p, r)
  PROVE  InTurnTypes'
<1> DEFINE op == Operation("change-password", "")
<1>1. op \in Operations
  BY OperationTypes
<1>2. /\ StepUp(s, op, SecondFactorEnrolled, p) /\ user' = Counted(p) /\ Rotate(r)
      /\ UNCHANGED <<drawn, clock>>
  BY DEF ChangePassword
<1> HIDE DEF op
<1>3. user' \in UserRecords
  BY <1>1, <1>2, StepUpType, SecondFactorType
<1> QED
  BY <1>1, <1>2, <1>3, RotatingType, SecondFactorType

LEMMA DisableTotpType ==
  ASSUME InTurnTypes, NEW s \in Sessions, NEW p \in Proofs, NEW r \in Sessions, DisableTotp(s, p, r)
  PROVE  InTurnTypes'
<1> DEFINE op == Operation("disable-totp", "")
<1>1. op \in Operations
  BY OperationTypes
<1>2. /\ StepUp(s, op, SecondFactorEnrolled, p) /\ Rotate(r)
      /\ UNCHANGED <<drawn, clock>>
  BY DEF DisableTotp
<1>3. user' \in UserRecords
  BY DEF DisableTotp, InTurnTypes, UserRecords
<1> HIDE DEF op
<1> QED
  BY <1>1, <1>2, <1>3, RotatingType, SecondFactorType

LEMMA PasskeyDeleteType ==
  ASSUME InTurnTypes, NEW s \in Sessions, NEW p \in Proofs, NEW r \in Sessions, NEW k \in Passkeys,
         PasskeyDelete(s, k, p, r)
  PROVE  InTurnTypes'
<1> DEFINE op == Operation("remove-passkey", k)
<1>1. op \in Operations
  BY OperationTypes
<1>2. /\ StepUp(s, op, SecondFactorEnrolled, p) /\ Rotate(r)
      /\ user' = [Counted(p) EXCEPT !.passkeys = @ \ {k}] /\ UNCHANGED <<drawn, clock>>
  BY DEF PasskeyDelete
<1> HIDE DEF op
<1>3. Counted(p) \in UserRecords
  BY <1>1, <1>2, StepUpType, SecondFactorType
<1>4. user' \in UserRecords
  BY <1>2, <1>3 DEF UserRecords
<1> QED
  BY <1>1, <1>2, <1>4, RotatingType, SecondFactorType

LEMMA ConfirmType ==
  ASSUME InTurnTypes, NEW s \in Sessions, NEW code \in Steps, TotpVerify(s, code)
  PROVE  InTurnTypes' /\ user.pendingTotp # Unenrolled
<1>1. user \in UserRecords /\ codeUses \in [Secrets \X Steps -> Nat]
  BY DEF InTurnTypes
<1>2. /\ user.pendingTotp.session = s
      /\ user' = [user EXCEPT !.secret = user.pendingTotp.secret, !.lastStep = code,
                              !.pendingTotp = Unenrolled]
      /\ codeUses' = [codeUses EXCEPT ![<<user.pendingTotp.secret, code>>] = @ + 1]
      /\ UNCHANGED <<sessions, challenges, drawn, grants, clock, answers, proven>>
  BY DEF TotpVerify, CountCode
<1>3. user.pendingTotp # Unenrolled
  BY <1>2, ConstantTypes DEF Unenrolled, Sessions
<1>4. user.pendingTotp \in [session : Sessions, secret : Secrets]
  BY <1>1, <1>3, UserFields
<1>5. user' \in UserRecords
  BY <1>1, <1>2, <1>4 DEF UserRecords
<1>6. codeUses' \in [Secrets \X Steps -> Nat]
  BY <1>1, <1>2, CountType
<1> QED
  BY <1>2, <1>3, <1>5, <1>6 DEF InTurnTypes

LEMMA AddedType ==
  ASSUME InTurnTypes, NEW s \in Sessions, NEW c \in 1..MaxChallenges, NEW k \in Passkeys,
         PasskeyVerify(s, c, k)
  PROVE  /\ InTurnTypes' /\ challenges' = Without(AddKey(s)) /\ AnswerSpent(AddKey(s))
         /\ CodeSpent(user') /\ UNCHANGED <<drawn, sessions, grants, proven>>
<1> DEFINE p == PasskeyProof(c)
<1>1. p \in Proofs /\ p.method = "passkey" /\ p.answer = c
  BY DEF PasskeyProof, Proofs
<1>2. /\ <<AddKey(s), c>> \in challenges /\ Spend(p) /\ challenges' = Without(AddKey(s))
      /\ user' = [user EXCEPT !.passkeys = @ \cup {k}]
      /\ UNCHANGED <<sessions, drawn, grants, clock, proven>>
  BY DEF PasskeyVerify
<1> HIDE DEF p
<1>3. codeUses' \in [Secrets \X Steps -> Nat] /\ answers' \in [1..MaxChallenges -> Nat]
  BY <1>1, <1>2, SpendType
<1>4. user' \in UserRecords
  <2>1. user \in UserRecords /\ k \in Passkeys
    BY DEF InTurnTypes
  <2> QED
    BY <1>2, <2>1 DEF UserRecords
<1>5. challenges' \subseteq challenges
  BY <1>2 DEF Without
<1>6. AnswerSpent(AddKey(s))
  BY <1>1, <1>2, SpendAnswer
<1>7. UNCHANGED codeUses
  BY <1>1, <1>2 DEF Spend
<1>8. /\ user'.secret = user.secret /\ user'.pendingTotp = user.pendingTotp
      /\ user'.lastStep = user.lastStep
  BY <1>2 DEF InTurnTypes, UserRecords
<1>9. InTurnTypes'
  BY <1>2, <1>3, <1>4, <1>5 DEF InTurnTypes
<1> QED
  BY <1>2, <1>6, <1>7, <1>8, <1>9 DEF CodeSpent

LEMMA PlainType ==
  ASSUME InTurnTypes, NEW s \in Sessions, Plain(s)
  PROVE  InTurnTypes'
<1>1. CASE EndSession(s)
  BY <1>1 DEF EndSession, InTurnTypes
<1>2. ASSUME NEW op \in Operations, ReauthOptions(s, op)
      PROVE  InTurnTypes'
  BY <1>2, DrawType, KeyTypes DEF ReauthOptions, InTurnTypes
<1>3. ASSUME NEW code \in Steps, TotpVerify(s, code)
      PROVE  InTurnTypes'
  BY <1>3, ConfirmType
<1>4. ASSUME NEW c \in 1..MaxChallenges, NEW k \in Passkeys, PasskeyVerify(s, c, k)
      PROVE  InTurnTypes'
  BY <1>4, AddedType
<1>5. ASSUME NEW x \in Scopes, RevealAgain(s, x)
      PROVE  InTurnTypes'
  <2>1. {x} \in SUBSET (Scopes \cup {"verified"})
    OBVIOUS
  <2>2. grants' \subseteq Grants
    BY <1>5, <2>1, IssueType DEF RevealAgain
  <2> QED
    BY <1>5, <2>2 DEF RevealAgain, InTurnTypes
<1>6. ASSUME NEW x \in Scopes \cup {"verified"}, Hide(s, {x})
      PROVE  InTurnTypes'
  BY <1>6 DEF Hide, InTurnTypes
<1> QED
  BY <1>1, <1>2, <1>3, <1>4, <1>5, <1>6 DEF Plain

LEMMA ProtectedKeepsType ==
  ASSUME InTurnTypes, NEW s \in Sessions, NEW p \in Proofs, Protected(s, p)
  PROVE  InTurnTypes'
<1>1. ASSUME NEW r \in Sessions,
             ChangePassword(s, p, r) \/ DisableTotp(s, p, r)
                \/ \E k \in Passkeys : PasskeyDelete(s, k, p, r)
      PROVE  InTurnTypes'
  BY <1>1, ChangePasswordType, DisableTotpType, PasskeyDeleteType
<1>2. ASSUME TotpOptions(s, p) \/ PasskeyOptions(s, p) \/ RequestUpdate(s, p)
      PROVE  InTurnTypes'
  BY <1>2, EnrolType, PasskeyOptionsType, RequestUpdateType
<1> QED
  BY <1>1, <1>2, RevealType, PreferencesType DEF Protected

LEMMA PassingType ==
  ASSUME InTurnTypes, Passing
  PROVE  InTurnTypes'
<1>1. CASE LoginOptions
  BY <1>1, DrawType, KeyTypes DEF LoginOptions, InTurnTypes
<1>2. CASE PendingTotpExpires
  <2>1. user' \in UserRecords
    BY <1>2 DEF PendingTotpExpires, InTurnTypes, UserRecords
  <2> QED
    BY <1>2, <2>1 DEF PendingTotpExpires, InTurnTypes
<1>3. CASE Tick
  BY <1>3 DEF Tick, InTurnTypes
<1>4. ASSUME NEW c \in challenges, ForgetChallenge(c[1])
      PROVE  InTurnTypes'
  BY <1>4 DEF ForgetChallenge, Without, InTurnTypes
<1> QED
  BY <1>1, <1>2, <1>3, <1>4 DEF Passing

LEMMA InTurnKeepsType ==
  ASSUME InTurnTypes, InTurn
  PROVE  InTurnTypes'
<1>1. ASSUME NEW s \in Sessions, SignIn(s) \/ requireAuth(s)
      PROVE  InTurnTypes'
  BY <1>1, SignInType, PlainType, ProtectedKeepsType DEF requireAuth
<1> QED
  BY <1>1, PassingType DEF InTurn

\* The database as a handler loads it now.
Now == [user |-> user, challenges |-> challenges, live |-> {s \in Sessions : Live(s)}]

LEMMA NowType ==
  ASSUME InTurnTypes
  PROVE  Now \in Databases
  BY DEF InTurnTypes, Databases, Now

\* What a step does to the databases that handlers without a client have loaded.
LEMMA LateKept ==
  ASSUME [AccountNext]_accountVars
  PROVE  \/ overwrites' = overwrites /\ late' \subseteq late \cup {Now}
         \/ \E d \in late : LateSave(d)
  BY DEF AccountNext, accountVars, Restart, Abandon, Now

LEMMA LateSaveType ==
  ASSUME TypeOK, NEW d \in late, LateSave(d)
  PROVE  TypeOK'
<1>1. d \in Databases /\ InTurnTypes /\ overwrites \in Nat
  BY DEF TypeOK
<1>2. d.user \in UserRecords /\ d.challenges \subseteq Keys \X (1..MaxChallenges)
  BY <1>1 DEF Databases
<1>3. sessions' \in [Sessions -> {"unused", "live", "over", "lost"}]
  BY <1>1 DEF LateSave, Live, InTurnTypes
<1>4. InTurnTypes'
  BY <1>1, <1>2, <1>3 DEF LateSave, InTurnTypes
<1>5. late' \subseteq Databases /\ overwrites' \in Nat
  BY <1>1 DEF LateSave, TypeOK
<1> QED
  BY <1>4, <1>5 DEF TypeOK

LEMMA StepType == TypeOK /\ [AccountNext]_accountVars => TypeOK'
<1> SUFFICES ASSUME TypeOK, [AccountNext]_accountVars PROVE TypeOK'
  OBVIOUS
<1>1. CASE \E d \in late : LateSave(d)
  BY <1>1, LateSaveType
<1>2. CASE overwrites' = overwrites /\ late' \subseteq late \cup {Now}
  <2>1. late' \subseteq Databases /\ overwrites' \in Nat
    BY <1>2, NowType DEF TypeOK
  <2>2. CASE InTurn
    BY <2>1, <2>2, InTurnKeepsType DEF TypeOK
  <2>3. CASE Restart
    BY <2>1, <2>3 DEF Restart, TypeOK, InTurnTypes
  <2>4. CASE UNCHANGED inTurn
    BY <2>1, <2>4 DEF inTurn, TypeOK, InTurnTypes
  <2> QED
    BY <1>1, <2>2, <2>3, <2>4 DEF AccountNext, Abandon, accountVars
<1> QED
  BY <1>1, <1>2, LateKept

LEMMA InitTypes == AccountInit => TypeOK
  BY InitType DEF AccountInit, TypeOK

\* The variables of the account keep their types, whatever is sent in whatever order.
THEOREM AccountTypes == AccountSpec => []TypeOK
  BY InitTypes, StepType, PTL DEF AccountSpec

-----------------------------------------------------------------------------
(***************************************************************************)
(* The safety properties.  AccountMoves says what a step of the account    *)
(* may do to the codes, the challenges, the grants and the proofs; each    *)
(* property then follows from an invariant that every such move preserves. *)
(***************************************************************************)

ProvenFor(s, action) == \E n \in {1, 2} : <<s, Operation(action, ""), n>> \in proven

-----------------------------------------------------------------------------
(* Moves. *)

SpendCode ==
    \/ UNCHANGED codeUses /\ user'.lastStep = user.lastStep
    \/ \E code \in Steps :
          /\ user.secret # 0 /\ code > user.lastStep /\ user'.lastStep = code
          /\ codeUses' = [codeUses EXCEPT ![<<user.secret, code>>] = @ + 1]

KeepSecret ==
    /\ SpendCode /\ drawn'.secrets = drawn.secrets
    /\ user'.secret = user.secret /\ user'.pendingTotp \in {user.pendingTotp, Unenrolled}

DropSecret ==
    /\ \E u \in UserRecords : CodeSpent(u)
    /\ drawn'.secrets = drawn.secrets
    /\ user'.secret = 0 /\ user'.pendingTotp = Unenrolled

DrawSecret ==
    /\ UNCHANGED codeUses /\ drawn'.secrets = drawn.secrets + 1
    /\ user.secret = 0 /\ user'.secret = 0
    /\ user'.pendingTotp.secret = drawn.secrets + 1
    /\ user'.pendingTotp.session \in Sessions
    /\ ProvenFor(user.pendingTotp.session, "enable-totp")'

ConfirmSecret ==
    \E code \in Steps, s \in Sessions :
        /\ Live(s) /\ user.pendingTotp # Unenrolled /\ user.pendingTotp.session = s
        /\ user'.secret = user.pendingTotp.secret /\ user'.lastStep = code
        /\ user'.pendingTotp = Unenrolled /\ drawn'.secrets = drawn.secrets
        /\ codeUses' = [codeUses EXCEPT ![<<user.pendingTotp.secret, code>>] = @ + 1]

CodeMove == KeepSecret \/ DropSecret \/ DrawSecret \/ ConfirmSecret

AnswerMove ==
    \/ UNCHANGED answers
    \/ \E x \in challenges : x \notin challenges' /\ answers' = [answers EXCEPT ![x[2]] = @ + 1]

DrawMove ==
    \/ drawn'.challenges = drawn.challenges /\ challenges' \subseteq challenges
    \/ /\ drawn'.challenges = drawn.challenges + 1
       /\ \E k \in Keys :
             /\ challenges' \subseteq challenges \cup {<<k, drawn.challenges + 1>>}
             /\ \A s \in Sessions : k = AddKey(s) => ProvenFor(s, "add-passkey")'

PasskeyMove ==
    \/ user'.passkeys \subseteq user.passkeys
    \/ \E s \in Sessions : Live(s) /\ \E c \in 1..MaxChallenges : <<AddKey(s), c>> \in challenges

VerifyMove == ~user'.mustVerify => ~user.mustVerify \/ PolicyChanged'

\* A session that goes on, or that an old database did not have.
Held(r) == Live(r) \/ sessions[r] = "lost"

KeepGrants == grants' \subseteq grants /\ \A r \in Sessions : Held(r) => Held(r)'
DropGrants ==
    \E s \in Sessions :
        /\ grants' \subseteq {g \in grants : g[1] # s}
        /\ sessions' = [sessions EXCEPT ![s] = "over"]
AddGrants ==
    \E s \in Sessions, x \in Scopes :
        /\ Live(s) /\ UNCHANGED sessions
        /\ \/ /\ grants' = grants \cup ({s} \X {x})
              /\ ~user.mustVerify \/ <<s, "verified">> \in grants
           \/ /\ grants' = grants \cup ({s} \X {"verified", x})
              /\ <<s, Operation("reveal", x), 2>> \in proven'
GrantMove == grants' = {} \/ KeepGrants \/ DropGrants \/ AddGrants

Moves ==
    /\ CodeMove /\ AnswerMove /\ DrawMove /\ PasskeyMove /\ VerifyMove /\ GrantMove
    /\ proven \subseteq proven'

-----------------------------------------------------------------------------
(* Which moves the handlers make. *)

LEMMA SpentMove ==
  ASSUME user' \in UserRecords, CodeSpent(user'), drawn'.secrets = drawn.secrets
  PROVE  CodeMove
  BY DEF CodeSpent, SpendCode, KeepSecret, CodeMove

LEMMA AnsweredMove ==
  ASSUME NEW k, AnswerSpent(k), \A x \in challenges' : x[1] # k
  PROVE  AnswerMove
<1>1. CASE UNCHANGED answers
  BY <1>1 DEF AnswerMove
<1>2. ASSUME NEW c \in 1..MaxChallenges, <<k, c>> \in challenges,
             answers' = [answers EXCEPT ![c] = @ + 1]
      PROVE  AnswerMove
  <2>1. <<k, c>>[1] = k /\ <<k, c>>[2] = c
    OBVIOUS
  <2>2. <<k, c>> \notin challenges'
    BY <2>1
  <2> QED
    BY <1>2, <2>1, <2>2 DEF AnswerMove
<1> QED
  BY <1>1, <1>2 DEF AnswerSpent

\* A challenge is gone when its answer was looked at; a password leaves it open.
LEMMA SpentAnswerMove ==
  ASSUME InTurnTypes, NEW s \in Sessions, NEW op \in Operations, NEW p \in Proofs,
         NEW t \in BOOLEAN, StepUp(s, op, t, p),
         p.method = "passkey" => \A x \in challenges' : x[1] # ChallengeKey(s, op)
  PROVE  AnswerMove
<1>1. CASE p.method = "passkey"
  BY <1>1, StepUpType, AnsweredMove
<1>2. CASE p.method = "password"
  BY <1>2 DEF StepUp, Spend, AnswerMove
<1> QED
  BY <1>1, <1>2, ProofFields

\* With what verification asks for by itself, a password only counts when nothing else is enrolled.
LEMMA StrongProof ==
  ASSUME NEW s, NEW op, NEW p \in Proofs, StepUp(s, op, SecondFactorEnrolled, p)
  PROVE  Factors(p) \in {1, 2}
  BY ProofFields DEF StepUp, Verified, SecondFactorEnrolled, Factors

LEMMA KeysDiffer ==
  /\ \A s \in Sessions, r \in Sessions, op \in Operations :
        /\ ChallengeKey(s, op) # AddKey(r) /\ LoginKey # AddKey(r)
        /\ ChallengeKey(s, op)[1] # "add"
  BY DEF ChallengeKey, AddKey, LoginKey

\* A protected request that leaves the sessions and the drawn numbers alone.
LEMMA StayingMoves ==
  ASSUME InTurnTypes, NEW s \in Sessions, NEW op \in Operations, NEW p \in Proofs,
         NEW t \in BOOLEAN, StepUp(s, op, t, p), challenges' = Unspent(s, op, p), UNCHANGED drawn
  PROVE  AnswerMove /\ DrawMove /\ proven \subseteq proven'
<1>1. AnswerSpent(ChallengeKey(s, op)) /\ proven \subseteq proven'
  BY StepUpType
<1>2. challenges' \subseteq challenges
  BY DEF Unspent, Without
<1>3. AnswerMove
  BY <1>1, SpentAnswerMove DEF Unspent, Without
<1> QED
  BY <1>1, <1>2, <1>3 DEF DrawMove

\* A protected request that ends the other sessions.
LEMMA RotatingMoves ==
  ASSUME InTurnTypes, NEW s \in Sessions, NEW op \in Operations, NEW p \in Proofs,
         NEW t \in BOOLEAN, NEW r \in Sessions, StepUp(s, op, t, p), Rotate(r), UNCHANGED drawn
  PROVE  AnswerMove /\ DrawMove /\ GrantMove /\ proven \subseteq proven'
<1>1. AnswerSpent(ChallengeKey(s, op)) /\ proven \subseteq proven'
  BY StepUpType
<1>2. /\ challenges' \subseteq challenges /\ grants' = {}
      /\ \A x \in challenges' : x[1][1] = "add"
  BY RotateType
<1>3. \A x \in challenges' : x[1] # ChallengeKey(s, op)
  BY <1>2, KeysDiffer
<1>4. AnswerMove
  BY <1>3, SpentAnswerMove
<1> QED
  BY <1>1, <1>2, <1>4 DEF DrawMove, GrantMove

LEMMA SameGrants ==
  ASSUME UNCHANGED <<sessions, grants>>
  PROVE  GrantMove
  BY DEF GrantMove, KeepGrants, Held, Live

LEMMA SignInMoves ==
  ASSUME InTurnTypes, NEW s \in Sessions, SignIn(s)
  PROVE  Moves
<1>1. UNCHANGED <<grants, proven, drawn>>
  BY DEF SignIn, Bootstrap, LoginPassword, LoginVerify
<1>2. sessions' = Created(s) /\ sessions[s] = "unused"
  BY DEF SignIn, Bootstrap, LoginPassword, LoginVerify, Unused
<1>3. GrantMove
  BY <1>1, <1>2 DEF GrantMove, KeepGrants, Held, Created, Live, InTurnTypes
<1>4. user' \in UserRecords
  BY SignInType DEF InTurnTypes
<1>5. CASE Bootstrap(s)
  <2>1. /\ user'.secret = user.secret /\ user'.lastStep = user.lastStep
        /\ user'.pendingTotp = user.pendingTotp /\ user'.passkeys = user.passkeys
        /\ user'.mustVerify = user.mustVerify
    BY <1>5 DEF Bootstrap, InTurnTypes, UserRecords
  <2>2. UNCHANGED <<codeUses, answers, challenges>>
    BY <1>5 DEF Bootstrap
  <2> QED
    BY <1>1, <1>3, <2>1, <2>2
    DEF Moves, CodeMove, KeepSecret, SpendCode, AnswerMove, DrawMove, PasskeyMove, VerifyMove
<1>6. ASSUME NEW code \in {0} \cup Steps, LoginPassword(s, code)
      PROVE  Moves
  <2> DEFINE p == PasswordProof(code)
  <2>1. p \in Proofs /\ p.method = "password" /\ p.code = code
    BY DEF PasswordProof, Proofs
  <2>2. CodeFits(p.code) /\ Spend(p) /\ user' = Counted(p) /\ UNCHANGED challenges
    BY <1>6, <2>1 DEF LoginPassword
  <2> HIDE DEF p
  <2>3. CodeSpent(user')
    BY <2>1, <2>2, SpendType
  <2>4. UNCHANGED answers
    BY <2>1, <2>2 DEF Spend
  <2>5. user'.passkeys = user.passkeys /\ user'.mustVerify = user.mustVerify
    BY <2>2 DEF Counted, InTurnTypes, UserRecords
  <2>6. CodeMove
    BY <1>1, <1>4, <2>3, SpentMove
  <2> QED
    BY <1>1, <1>3, <2>2, <2>4, <2>5, <2>6 DEF Moves, AnswerMove, DrawMove, PasskeyMove, VerifyMove
<1>7. ASSUME NEW c \in 1..MaxChallenges, LoginVerify(s, c)
      PROVE  Moves
  <2> DEFINE p == PasskeyProof(c)
  <2>1. p \in Proofs /\ p.method = "passkey" /\ p.answer = c
    BY DEF PasskeyProof, Proofs
  <2>2. /\ <<LoginKey, c>> \in challenges /\ Spend(p) /\ UNCHANGED user
        /\ challenges' = Without(LoginKey)
    BY <1>7 DEF LoginVerify
  <2> HIDE DEF p
  <2>3. UNCHANGED codeUses /\ AnswerSpent(LoginKey)
    BY <2>1, <2>2, SpendAnswer DEF Spend
  <2>4. challenges' \subseteq challenges /\ \A x \in challenges' : x[1] # LoginKey
    BY <2>2 DEF Without
  <2>5. AnswerMove
    BY <2>3, <2>4, AnsweredMove
  <2>6. CodeMove
    BY <1>1, <2>2, <2>3 DEF CodeMove, KeepSecret, SpendCode
  <2> QED
    BY <1>1, <1>3, <2>2, <2>4, <2>5, <2>6 DEF Moves, DrawMove, PasskeyMove, VerifyMove
<1> QED
  BY <1>5, <1>6, <1>7 DEF SignIn

LEMMA CountedPasskeys ==
  ASSUME InTurnTypes, NEW p \in Proofs
  PROVE  Counted(p).passkeys = user.passkeys /\ Counted(p).mustVerify = user.mustVerify
  BY DEF Counted, InTurnTypes, UserRecords

LEMMA EnrolMoves ==
  ASSUME InTurnTypes, NEW s \in Sessions, NEW p \in Proofs, TotpOptions(s, p)
  PROVE  Moves
<1> DEFINE op == Operation("enable-totp", "")
           n == drawn.secrets + 1
<1>1. op \in Operations
  BY OperationTypes
<1>2. /\ StepUp(s, op, SecondFactorEnrolled, p) /\ user.secret = 0
      /\ drawn' = [drawn EXCEPT !.secrets = n]
      /\ user' = [user EXCEPT !.pendingTotp = [session |-> s, secret |-> n]]
      /\ challenges' = Unspent(s, op, p) /\ UNCHANGED <<sessions, grants>>
  BY DEF TotpOptions
<1>3. drawn'.secrets = n /\ drawn'.challenges = drawn.challenges
  BY <1>2 DEF InTurnTypes
<1>4. /\ user'.secret = 0 /\ user'.passkeys = user.passkeys
      /\ user'.mustVerify = user.mustVerify
      /\ user'.pendingTotp.session = s /\ user'.pendingTotp.secret = n
  <2> HIDE DEF n
  <2> QED
    BY <1>2 DEF InTurnTypes, UserRecords
<1>5. <<s, op, Factors(p)>> \in proven'
  BY <1>2 DEF StepUp, Prove, Remembered, Operation
<1>6. Factors(p) \in {1, 2}
  BY <1>2, StrongProof
<1>7. ProvenFor(user.pendingTotp.session, "enable-totp")'
  BY <1>4, <1>5, <1>6 DEF ProvenFor
<1>8. UNCHANGED codeUses
  <2>1. Counted(p).secret = user.secret
    BY <1>1, <1>2, StepUpType, SecondFactorType DEF CodeSpent
  <2> HIDE DEF op
  <2>2. CodeSpent(Counted(p))
    BY <1>1, <1>2, StepUpType, SecondFactorType
  <2> QED
    BY <1>2, <2>2 DEF CodeSpent
<1>9. proven \subseteq proven' /\ AnswerMove /\ challenges' \subseteq challenges
  <2> HIDE DEF op
  <2>1. proven \subseteq proven'
    BY <1>1, <1>2, StepUpType, SecondFactorType
  <2>2. challenges' \subseteq challenges
    BY <1>2 DEF Unspent, Without
  <2>3. p.method = "passkey" => \A x \in challenges' : x[1] # ChallengeKey(s, op)
    BY <1>2 DEF Unspent, Without
  <2>4. AnswerMove
    BY <1>1, <1>2, <2>3, SpentAnswerMove, SecondFactorType
  <2> QED
    BY <2>1, <2>2, <2>4
<1>10. CodeMove
  <2>1. DrawSecret
    BY <1>2, <1>3, <1>4, <1>7, <1>8 DEF DrawSecret
  <2> QED
    BY <2>1 DEF CodeMove
<1>11. DrawMove
  BY <1>3, <1>9 DEF DrawMove
<1> QED
  BY <1>2, <1>4, <1>9, <1>10, <1>11, SameGrants DEF Moves, PasskeyMove, VerifyMove

LEMMA PasskeyOptionsMoves ==
  ASSUME InTurnTypes, NEW s \in Sessions, NEW p \in Proofs, PasskeyOptions(s, p)
  PROVE  Moves
<1> DEFINE op == Operation("add-passkey", "")
           n == drawn.challenges + 1
<1>1. op \in Operations
  BY OperationTypes
<1>2. /\ StepUp(s, op, SecondFactorEnrolled, p) /\ user' = Counted(p)
      /\ challenges' = {c \in Unspent(s, op, p) : c[1] # AddKey(s)}
                          \cup {<<AddKey(s), n>>}
      /\ UNCHANGED <<sessions, grants>>
  BY DEF PasskeyOptions
<1>3. drawn'.secrets = drawn.secrets /\ drawn'.challenges = n
  BY PasskeyOptionsType
<1>4. <<s, op, Factors(p)>> \in proven'
  BY <1>2 DEF StepUp, Prove, Remembered, Operation
<1>5. Factors(p) \in {1, 2}
  BY <1>2, StrongProof
<1>6. ProvenFor(s, "add-passkey")'
  BY <1>4, <1>5 DEF ProvenFor
<1>7. \A r \in Sessions : AddKey(s) = AddKey(r) => r = s
  BY DEF AddKey
<1> HIDE DEF op, n
<1>8. /\ CodeSpent(user') /\ AnswerSpent(ChallengeKey(s, op)) /\ proven \subseteq proven'
      /\ user' \in UserRecords
  BY <1>1, <1>2, StepUpType, SecondFactorType
<1>9. p.method = "passkey" => \A x \in challenges' : x[1] # ChallengeKey(s, op)
  <2>1. <<AddKey(s), n>>[1] # ChallengeKey(s, op)
    BY <1>1, KeysDiffer
  <2> QED
    BY <1>2, <2>1 DEF Unspent, Without
<1>10. AnswerMove
  BY <1>1, <1>2, <1>9, SpentAnswerMove, SecondFactorType
<1>11. CodeMove
  BY <1>3, <1>8, SpentMove
<1>12. DrawMove
  <2>1. challenges' \subseteq challenges \cup {<<AddKey(s), drawn.challenges + 1>>}
    BY <1>2 DEF Unspent, Without, n
  <2>2. drawn'.challenges = drawn.challenges + 1
    BY <1>3 DEF n
  <2> QED
    BY <1>6, <1>7, <2>1, <2>2, KeyTypes DEF DrawMove
<1>13. PasskeyMove /\ VerifyMove
  BY <1>2, CountedPasskeys DEF PasskeyMove, VerifyMove
<1> QED
  BY <1>2, <1>8, <1>10, <1>11, <1>12, <1>13, SameGrants DEF Moves

LEMMA RequestUpdateMoves ==
  ASSUME InTurnTypes, NEW s \in Sessions, NEW p \in Proofs, RequestUpdate(s, p)
  PROVE  Moves
<1> DEFINE op == Operation("update", "")
<1>1. op \in Operations
  BY OperationTypes
<1>2. /\ StepUp(s, op, SecondFactorEnrolled, p) /\ challenges' = Unspent(s, op, p)
      /\ user' = Counted(p) /\ UNCHANGED <<sessions, drawn, grants>>
  BY DEF RequestUpdate
<1> HIDE DEF op
<1>3. user' \in UserRecords /\ CodeSpent(user')
  BY <1>1, <1>2, StepUpType, SecondFactorType
<1>4. AnswerMove /\ DrawMove /\ proven \subseteq proven'
  BY <1>1, <1>2, StayingMoves, SecondFactorType
<1>5. user'.passkeys = user.passkeys /\ user'.mustVerify = user.mustVerify
  BY <1>2, CountedPasskeys
<1>6. CodeMove
  BY <1>2, <1>3, SpentMove
<1> QED
  BY <1>2, <1>4, <1>5, <1>6, SameGrants DEF Moves, PasskeyMove, VerifyMove

\* A password counts for two here, as Reveal always asks for a second factor.
LEMMA RevealMoves ==
  ASSUME InTurnTypes, NEW s \in Sessions, Live(s), NEW p \in Proofs, NEW x \in Scopes, Reveal(s, x, p)
  PROVE  Moves
<1> DEFINE op == Operation("reveal", x)
<1>1. op \in Operations
  BY OperationTypes
<1>2. /\ StepUp(s, op, TRUE, p) /\ challenges' = Unspent(s, op, p)
      /\ user' = Counted(p) /\ UNCHANGED <<sessions, drawn>>
      /\ grants' = grants \cup ({s} \X {"verified", x})
  BY DEF Reveal, RevealAfter, Issue
<1>3. Factors(p) = 2
  BY <1>2, ProofFields DEF StepUp, Verified, Factors
<1>4. <<s, Operation("reveal", x), 2>> \in proven'
  BY <1>2, <1>3 DEF StepUp, Prove, Remembered, Operation
<1>5. GrantMove
  BY <1>2, <1>4 DEF GrantMove, AddGrants
<1> HIDE DEF op
<1>6. user' \in UserRecords /\ CodeSpent(user')
  BY <1>1, <1>2, StepUpType
<1>7. AnswerMove /\ DrawMove /\ proven \subseteq proven'
  BY <1>1, <1>2, StayingMoves
<1>8. user'.passkeys = user.passkeys /\ user'.mustVerify = user.mustVerify
  BY <1>2, CountedPasskeys
<1>9. CodeMove
  BY <1>2, <1>6, SpentMove
<1> QED
  BY <1>5, <1>7, <1>8, <1>9 DEF Moves, PasskeyMove, VerifyMove

LEMMA PreferencesMoves ==
  ASSUME InTurnTypes, NEW s \in Sessions, NEW p \in Proofs, NEW must \in BOOLEAN,
         SensitivePreferences(s, must, p)
  PROVE  Moves
<1> DEFINE op == Operation("sensitive-settings", "")
<1>1. op \in Operations
  BY OperationTypes
<1>2. /\ StepUp(s, op, SecondFactorEnrolled, p) /\ challenges' = Unspent(s, op, p)
      /\ user' = [Counted(p) EXCEPT !.mustVerify = must]
      /\ grants' \subseteq grants /\ UNCHANGED <<sessions, drawn>>
  BY DEF SensitivePreferences
<1>9. VerifyMove
  <2>1. <<s, Operation("sensitive-settings", ""), Factors(p)>> \in proven'
    BY <1>2 DEF StepUp, Prove, Remembered, Operation
  <2>2. Factors(p) \in {1, 2}
    BY <1>2, StrongProof
  <2> QED
    BY <2>1, <2>2 DEF VerifyMove, PolicyChanged
<1> HIDE DEF op
<1>3. Counted(p) \in UserRecords /\ CodeSpent(Counted(p))
  BY <1>1, <1>2, StepUpType, SecondFactorType
<1>4. /\ user' \in UserRecords /\ user'.secret = Counted(p).secret
      /\ user'.pendingTotp = Counted(p).pendingTotp /\ user'.lastStep = Counted(p).lastStep
      /\ user'.passkeys = Counted(p).passkeys
  BY <1>2, <1>3 DEF UserRecords
<1>5. CodeSpent(user')
  BY <1>3, <1>4 DEF CodeSpent
<1>6. AnswerMove /\ DrawMove /\ proven \subseteq proven'
  BY <1>1, <1>2, StayingMoves, SecondFactorType
<1>7. CodeMove
  BY <1>2, <1>4, <1>5, SpentMove
<1>8. GrantMove
  BY <1>2 DEF GrantMove, KeepGrants, Held, Live
<1> QED
  BY <1>4, <1>6, <1>7, <1>8, <1>9, CountedPasskeys DEF Moves, PasskeyMove

LEMMA ChangePasswordMoves ==
  ASSUME InTurnTypes, NEW s \in Sessions, NEW p \in Proofs, NEW r \in Sessions,
         ChangePassword(s, p, r)
  PROVE  Moves
<1> DEFINE op == Operation("change-password", "")
<1>1. op \in Operations
  BY OperationTypes
<1>2. /\ StepUp(s, op, SecondFactorEnrolled, p) /\ user' = Counted(p) /\ Rotate(r)
      /\ UNCHANGED drawn
  BY DEF ChangePassword
<1> HIDE DEF op
<1>3. user' \in UserRecords /\ CodeSpent(user')
  BY <1>1, <1>2, StepUpType, SecondFactorType
<1>4. AnswerMove /\ DrawMove /\ GrantMove /\ proven \subseteq proven'
  BY <1>1, <1>2, RotatingMoves, SecondFactorType
<1>5. CodeMove
  BY <1>2, <1>3, SpentMove
<1> QED
  BY <1>2, <1>4, <1>5, CountedPasskeys DEF Moves, PasskeyMove, VerifyMove

LEMMA DisableTotpMoves ==
  ASSUME InTurnTypes, NEW s \in Sessions, NEW p \in Proofs, NEW r \in Sessions, DisableTotp(s, p, r)
  PROVE  Moves
<1> DEFINE op == Operation("disable-totp", "")
<1>1. op \in Operations
  BY OperationTypes
<1>2. /\ StepUp(s, op, SecondFactorEnrolled, p) /\ Rotate(r) /\ UNCHANGED drawn
      /\ user' = [user EXCEPT !.secret = 0, !.lastStep = 0, !.pendingTotp = Unenrolled]
  BY DEF DisableTotp
<1>3. /\ user'.secret = 0 /\ user'.pendingTotp = Unenrolled
      /\ user'.passkeys = user.passkeys /\ user'.mustVerify = user.mustVerify
  BY <1>2 DEF InTurnTypes, UserRecords
<1> HIDE DEF op
<1>4. Counted(p) \in UserRecords /\ CodeSpent(Counted(p))
  BY <1>1, <1>2, StepUpType, SecondFactorType
<1>5. AnswerMove /\ DrawMove /\ GrantMove /\ proven \subseteq proven'
  BY <1>1, <1>2, RotatingMoves, SecondFactorType
<1>6. CodeMove
  <2>1. DropSecret
    BY <1>2, <1>3, <1>4 DEF DropSecret
  <2> QED
    BY <2>1 DEF CodeMove
<1> QED
  BY <1>3, <1>5, <1>6 DEF Moves, PasskeyMove, VerifyMove

LEMMA PasskeyDeleteMoves ==
  ASSUME InTurnTypes, NEW s \in Sessions, NEW p \in Proofs, NEW r \in Sessions, NEW k \in Passkeys,
         PasskeyDelete(s, k, p, r)
  PROVE  Moves
<1> DEFINE op == Operation("remove-passkey", k)
<1>1. op \in Operations
  BY OperationTypes
<1>2. /\ StepUp(s, op, SecondFactorEnrolled, p) /\ Rotate(r) /\ UNCHANGED drawn
      /\ user' = [Counted(p) EXCEPT !.passkeys = @ \ {k}]
  BY DEF PasskeyDelete
<1> HIDE DEF op
<1>3. Counted(p) \in UserRecords /\ CodeSpent(Counted(p))
  BY <1>1, <1>2, StepUpType, SecondFactorType
<1>4. /\ user' \in UserRecords /\ user'.secret = Counted(p).secret
      /\ user'.pendingTotp = Counted(p).pendingTotp /\ user'.lastStep = Counted(p).lastStep
      /\ user'.passkeys \subseteq Counted(p).passkeys
      /\ user'.mustVerify = Counted(p).mustVerify
  BY <1>2, <1>3 DEF UserRecords
<1>5. CodeSpent(user')
  BY <1>3, <1>4 DEF CodeSpent
<1>6. AnswerMove /\ DrawMove /\ GrantMove /\ proven \subseteq proven'
  BY <1>1, <1>2, RotatingMoves, SecondFactorType
<1>7. CodeMove
  BY <1>2, <1>4, <1>5, SpentMove
<1> QED
  BY <1>4, <1>6, <1>7, CountedPasskeys DEF Moves, PasskeyMove, VerifyMove

LEMMA ProtectedMoves ==
  ASSUME InTurnTypes, NEW s \in Sessions, Live(s), NEW p \in Proofs, Protected(s, p)
  PROVE  Moves
<1>1. ASSUME NEW r \in Sessions,
             ChangePassword(s, p, r) \/ DisableTotp(s, p, r)
                \/ \E k \in Passkeys : PasskeyDelete(s, k, p, r)
      PROVE  Moves
  BY <1>1, ChangePasswordMoves, DisableTotpMoves, PasskeyDeleteMoves
<1>2. ASSUME TotpOptions(s, p) \/ PasskeyOptions(s, p) \/ RequestUpdate(s, p)
      PROVE  Moves
  BY <1>2, EnrolMoves, PasskeyOptionsMoves, RequestUpdateMoves
<1> QED
  BY <1>1, <1>2, RevealMoves, PreferencesMoves DEF Protected

LEMMA SameUser ==
  ASSUME UNCHANGED <<user, codeUses>>, drawn'.secrets = drawn.secrets
  PROVE  CodeMove /\ PasskeyMove /\ VerifyMove
  BY DEF CodeMove, KeepSecret, SpendCode, PasskeyMove, VerifyMove

LEMMA DrawMoves ==
  ASSUME InTurnTypes, NEW k \in Keys, Draw(k), \A s \in Sessions : k # AddKey(s)
  PROVE  DrawMove
  BY DrawType DEF DrawMove

LEMMA ConfirmMoves ==
  ASSUME InTurnTypes, NEW s \in Sessions, Live(s), NEW code \in Steps, TotpVerify(s, code)
  PROVE  Moves
<1>1. /\ user.pendingTotp.session = s
      /\ user' = [user EXCEPT !.secret = user.pendingTotp.secret, !.lastStep = code,
                              !.pendingTotp = Unenrolled]
      /\ codeUses' = [codeUses EXCEPT ![<<user.pendingTotp.secret, code>>] = @ + 1]
      /\ UNCHANGED <<sessions, challenges, drawn, grants, answers, proven>>
  BY DEF TotpVerify, CountCode
<1>2. user.pendingTotp # Unenrolled
  BY ConfirmType
<1>3. /\ user'.secret = user.pendingTotp.secret /\ user'.lastStep = code
      /\ user'.pendingTotp = Unenrolled /\ user'.passkeys = user.passkeys
      /\ user'.mustVerify = user.mustVerify
  BY <1>1 DEF InTurnTypes, UserRecords
<1>4. ConfirmSecret
  BY <1>1, <1>2, <1>3 DEF ConfirmSecret
<1> QED
  BY <1>1, <1>3, <1>4, SameGrants
  DEF Moves, CodeMove, AnswerMove, DrawMove, PasskeyMove, VerifyMove

LEMMA PlainMoves ==
  ASSUME InTurnTypes, NEW s \in Sessions, Live(s), Plain(s)
  PROVE  Moves
<1>1. CASE EndSession(s)
  <2>1. GrantMove
    BY <1>1 DEF EndSession, GrantMove, DropGrants
  <2> QED
    BY <1>1, <2>1, SameUser DEF EndSession, Moves, AnswerMove, DrawMove
<1>2. ASSUME NEW op \in Operations, ReauthOptions(s, op)
      PROVE  Moves
  <2>1. drawn'.secrets = drawn.secrets
    BY <1>2, DrawType, KeyTypes DEF ReauthOptions
  <2>2. DrawMove
    BY <1>2, DrawMoves, KeyTypes, KeysDiffer DEF ReauthOptions
  <2> QED
    BY <1>2, <2>1, <2>2, SameUser, SameGrants DEF ReauthOptions, Moves, AnswerMove
<1>3. ASSUME NEW code \in Steps, TotpVerify(s, code)
      PROVE  Moves
  BY <1>3, ConfirmMoves
<1>4. ASSUME NEW c \in 1..MaxChallenges, NEW k \in Passkeys, PasskeyVerify(s, c, k)
      PROVE  Moves
  <2>1. /\ InTurnTypes' /\ challenges' = Without(AddKey(s)) /\ AnswerSpent(AddKey(s))
        /\ CodeSpent(user') /\ UNCHANGED <<drawn, sessions, grants, proven>>
    BY <1>4, AddedType
  <2>2. challenges' \subseteq challenges /\ \A x \in challenges' : x[1] # AddKey(s)
    BY <2>1 DEF Without
  <2>3. AnswerMove
    BY <2>1, <2>2, AnsweredMove
  <2>4. CodeMove
    BY <2>1, SpentMove DEF InTurnTypes
  <2>5. PasskeyMove
    BY <1>4 DEF PasskeyVerify, PasskeyMove
  <2>6. VerifyMove
    BY <1>4 DEF PasskeyVerify, VerifyMove, InTurnTypes, UserRecords
  <2> QED
    BY <2>1, <2>2, <2>3, <2>4, <2>5, <2>6, SameGrants DEF Moves, DrawMove
<1>5. ASSUME NEW x \in Scopes, RevealAgain(s, x)
      PROVE  Moves
  <2>1. GrantMove
    BY <1>5 DEF RevealAgain, Issue, GrantMove, AddGrants
  <2> QED
    BY <1>5, <2>1, SameUser DEF RevealAgain, Moves, AnswerMove, DrawMove
<1>6. ASSUME NEW x \in Scopes \cup {"verified"}, Hide(s, {x})
      PROVE  Moves
  <2>1. GrantMove
    BY <1>6 DEF Hide, GrantMove, KeepGrants, Held, Live
  <2> QED
    BY <1>6, <2>1, SameUser DEF Hide, Moves, AnswerMove, DrawMove
<1> QED
  BY <1>1, <1>2, <1>3, <1>4, <1>5, <1>6 DEF Plain

LEMMA PassingMoves ==
  ASSUME InTurnTypes, Passing
  PROVE  Moves
<1>1. CASE LoginOptions
  <2>1. drawn'.secrets = drawn.secrets
    BY <1>1, DrawType, KeyTypes DEF LoginOptions
  <2>2. \A s \in Sessions : LoginKey # AddKey(s)
    BY DEF LoginKey, AddKey
  <2>3. DrawMove
    BY <1>1, <2>2, DrawMoves, KeyTypes DEF LoginOptions
  <2> QED
    BY <1>1, <2>1, <2>3, SameUser, SameGrants DEF LoginOptions, Moves, AnswerMove
<1>2. CASE PendingTotpExpires
  <2>1. /\ user'.secret = user.secret /\ user'.lastStep = user.lastStep
        /\ user'.pendingTotp = Unenrolled /\ user'.passkeys = user.passkeys
        /\ user'.mustVerify = user.mustVerify
    BY <1>2 DEF PendingTotpExpires, InTurnTypes, UserRecords
  <2>2. CodeMove /\ PasskeyMove /\ VerifyMove
    BY <1>2, <2>1
    DEF PendingTotpExpires, CodeMove, KeepSecret, SpendCode, PasskeyMove, VerifyMove
  <2> QED
    BY <1>2, <2>2, SameGrants DEF PendingTotpExpires, Moves, AnswerMove, DrawMove
<1>3. CASE Tick
  BY <1>3, SameUser, SameGrants DEF Tick, Moves, AnswerMove, DrawMove
<1>4. ASSUME NEW c \in challenges, ForgetChallenge(c[1])
      PROVE  Moves
  BY <1>4, SameUser, SameGrants DEF ForgetChallenge, Without, Moves, AnswerMove, DrawMove
<1> QED
  BY <1>1, <1>2, <1>3, <1>4 DEF Passing

LEMMA RestartMoves == Restart => Moves
  BY SameUser DEF Restart, Moves, AnswerMove, DrawMove, GrantMove

LEMMA StutterMoves == UNCHANGED inTurn => Moves
  BY SameUser, SameGrants DEF inTurn, Moves, AnswerMove, DrawMove

LEMMA InTurnMoves == InTurnTypes /\ InTurn => Moves
  BY SignInMoves, PlainMoves, ProtectedMoves, PassingMoves DEF InTurn, requireAuth

\* A step is such a move, or a handler without a client puts its old database back.
LEMMA AccountMoves ==
  ASSUME InTurnTypes, [AccountNext]_accountVars
  PROVE  \/ Moves /\ overwrites' = overwrites /\ late' \subseteq late \cup {Now}
         \/ \E d \in late : LateSave(d)
  BY LateKept, InTurnMoves, RestartMoves, StutterMoves
  DEF AccountNext, Restart, Abandon, LateSave, accountVars

-----------------------------------------------------------------------------
(* ProofsWorkOnce.  Codes of a secret are accepted in the order of their   *)
(* steps, each secret is new when it is drawn, and a challenge is open     *)
(* only while its answer was not accepted.  An old database that comes     *)
(* back may ask for the same once more, but what it asks for was drawn     *)
(* before, so that nothing that is drawn later was ever asked for.         *)

SecretsDrawn ==
    /\ user.secret <= drawn.secrets /\ user.pendingTotp.secret <= drawn.secrets
    /\ user.pendingTotp # Unenrolled =>
          /\ user.secret = 0
          /\ \A c \in Steps : codeUses[<<user.pendingTotp.secret, c>>] <= overwrites

CodesInOrder ==
    \A n \in Secrets, c \in Steps :
        /\ codeUses[<<n, c>>] <= 1 + overwrites
        /\ codeUses[<<n, c>>] > 0 => n <= drawn.secrets
        /\ codeUses[<<n, c>>] > overwrites => (n = user.secret => c <= user.lastStep)

CodesOnce == SecretsDrawn /\ CodesInOrder

OpenUnanswered ==
    /\ \A x \in challenges : x[2] <= drawn.challenges /\ answers[x[2]] <= overwrites
    /\ \A x, y \in challenges : x[2] = y[2] => x = y

AnswersOnce ==
    /\ OpenUnanswered
    /\ \A c \in 1..MaxChallenges :
          answers[c] <= 1 + overwrites /\ (answers[c] > 0 => c <= drawn.challenges)

LateDrawn ==
    \A d \in late :
        /\ d.user.secret <= drawn.secrets /\ d.user.pendingTotp.secret <= drawn.secrets
        /\ d.user.pendingTotp # Unenrolled => d.user.secret = 0
        /\ \A x \in d.challenges : x[2] <= drawn.challenges
        /\ \A x, y \in d.challenges : x[2] = y[2] => x = y

LEMMA CodeTypes ==
  ASSUME TypeOK
  PROVE  /\ user.secret \in Nat /\ user.lastStep \in Nat /\ user.pendingTotp.secret \in Nat
         /\ drawn.secrets \in Nat /\ drawn.challenges \in Nat
         /\ codeUses \in [Secrets \X Steps -> Nat] /\ answers \in [1..MaxChallenges -> Nat]
         /\ user.pendingTotp # Unenrolled => user.pendingTotp.secret \in Secrets
         /\ user.secret # 0 => user.secret \in Secrets
         /\ \A n \in Secrets : n \in Nat /\ n # 0
         /\ \A c \in Steps : c \in Nat
         /\ overwrites \in Nat
<1>1. /\ user \in UserRecords /\ drawn \in [challenges : 0..MaxChallenges, secrets : 0..MaxSecrets]
      /\ overwrites \in Nat
  BY DEF TypeOK, InTurnTypes
<1>2. user.secret \in {0} \cup Secrets
  BY <1>1, UserFields
<1>3. user.lastStep \in {0} \cup Steps
  BY <1>1, UserFields
<1>4. user.pendingTotp \in {Unenrolled} \cup [session : Sessions, secret : Secrets]
  BY <1>1, UserFields
<1>5. (\A n \in Secrets : n \in Nat /\ n # 0) /\ \A c \in Steps : c \in Nat
  BY ConstantTypes DEF Secrets, Steps
<1>6. drawn.secrets \in Nat /\ drawn.challenges \in Nat
  BY <1>1, ConstantTypes
<1>7. Unenrolled.secret = 0
  BY DEF Unenrolled
<1>8. user.secret \in Nat /\ (user.secret # 0 => user.secret \in Secrets)
  BY <1>2, <1>5
<1>9. user.lastStep \in Nat
  BY <1>3, <1>5
<1>10. user.pendingTotp # Unenrolled => user.pendingTotp.secret \in Secrets
  <2>1. \A q \in [session : Sessions, secret : Secrets] : q.secret \in Secrets
    OBVIOUS
  <2> QED
    BY <1>4, <2>1
<1>11. user.pendingTotp.secret \in Nat
  BY <1>5, <1>7, <1>10
<1>12. codeUses \in [Secrets \X Steps -> Nat] /\ answers \in [1..MaxChallenges -> Nat]
  BY DEF TypeOK, InTurnTypes
<1> QED
  BY <1>1, <1>5, <1>6, <1>8, <1>9, <1>10, <1>11, <1>12

\* What accepting one code, or none, does to the others.
LEMMA CountOne ==
  ASSUME TypeOK, NEW n \in Secrets, NEW code \in Steps,
         codeUses' = [codeUses EXCEPT ![<<n, code>>] = @ + 1]
  PROVE  /\ codeUses'[<<n, code>>] = codeUses[<<n, code>>] + 1
         /\ \A m \in Secrets, c \in Steps :
               m # n \/ c # code => codeUses'[<<m, c>>] = codeUses[<<m, c>>]
<1>1. codeUses \in [Secrets \X Steps -> Nat]
  BY CodeTypes
<1>2. <<n, code>> \in Secrets \X Steps
  OBVIOUS
<1>3. \A m \in Secrets, c \in Steps :
         /\ <<m, c>> \in Secrets \X Steps /\ (m # n \/ c # code => <<m, c>> # <<n, code>>)
  OBVIOUS
<1> QED
  BY <1>1, <1>2, <1>3

\* Accepting a code of the authenticator in force.
LEMMA SpentInOrder ==
  ASSUME TypeOK, CodesOnce, NEW code \in Steps, user.secret # 0, code > user.lastStep,
         codeUses' = [codeUses EXCEPT ![<<user.secret, code>>] = @ + 1],
         NEW n \in Secrets, NEW c \in Steps
  PROVE  /\ codeUses'[<<n, c>>] <= 1 + overwrites
         /\ codeUses'[<<n, c>>] > 0 => n <= drawn.secrets
         /\ codeUses'[<<n, c>>] > overwrites => (n = user.secret => c <= code)
<1>1. user.secret \in Secrets
  BY CodeTypes
<1>2. /\ codeUses'[<<user.secret, code>>] = codeUses[<<user.secret, code>>] + 1
      /\ \A m \in Secrets, b \in Steps :
            m # user.secret \/ b # code => codeUses'[<<m, b>>] = codeUses[<<m, b>>]
  BY <1>1, CountOne
<1>3. /\ \A m \in Secrets, b \in Steps : codeUses[<<m, b>>] \in Nat
      /\ overwrites \in Nat /\ code \in Nat /\ c \in Nat /\ user.lastStep \in Nat
  BY CodeTypes
<1>4. \A m \in Secrets, b \in Steps :
         /\ codeUses[<<m, b>>] <= 1 + overwrites
         /\ codeUses[<<m, b>>] > 0 => m <= drawn.secrets
         /\ codeUses[<<m, b>>] > overwrites => (m = user.secret => b <= user.lastStep)
  BY DEF CodesOnce, CodesInOrder
<1>5. CASE n = user.secret /\ c = code
  <2>1. ~(codeUses[<<user.secret, code>>] > overwrites)
    BY <1>1, <1>3, <1>4
  <2>2. user.secret <= drawn.secrets
    BY DEF CodesOnce, SecretsDrawn
  <2> QED
    BY <1>1, <1>2, <1>3, <1>5, <2>1, <2>2
<1>6. CASE n # user.secret \/ c # code
  <2>1. codeUses'[<<n, c>>] = codeUses[<<n, c>>]
    BY <1>2, <1>6
  <2> QED
    BY <1>3, <1>4, <2>1
<1> QED
  BY <1>5, <1>6

LEMMA KeepSecretKeeps ==
  ASSUME TypeOK, CodesOnce, KeepSecret, overwrites' = overwrites
  PROVE  CodesOnce'
<1>1. /\ user'.pendingTotp \in {user.pendingTotp, Unenrolled} /\ user'.secret = user.secret
      /\ drawn'.secrets = drawn.secrets /\ SpendCode
  BY DEF KeepSecret
<1>2. CodesInOrder'
  <2>1. CASE UNCHANGED codeUses /\ user'.lastStep = user.lastStep
    BY <1>1, <2>1 DEF CodesOnce, CodesInOrder
  <2>2. ASSUME NEW code \in Steps, user.secret # 0, code > user.lastStep, user'.lastStep = code,
               codeUses' = [codeUses EXCEPT ![<<user.secret, code>>] = @ + 1]
        PROVE  CodesInOrder'
    BY <1>1, <2>2, SpentInOrder DEF CodesInOrder
  <2> QED
    BY <1>1, <2>1, <2>2 DEF SpendCode
<1>3. Unenrolled.secret = 0
  BY DEF Unenrolled
<1>4. user'.secret <= drawn'.secrets /\ user'.pendingTotp.secret <= drawn'.secrets
  BY <1>1, <1>3, CodeTypes DEF CodesOnce, SecretsDrawn
<1>5. ASSUME user'.pendingTotp # Unenrolled
      PROVE  /\ user'.secret = 0
             /\ \A c \in Steps : codeUses'[<<user'.pendingTotp.secret, c>>] <= overwrites'
  <2>1. user'.pendingTotp = user.pendingTotp /\ user.secret = 0
    BY <1>1, <1>5 DEF CodesOnce, SecretsDrawn
  <2>2. UNCHANGED codeUses
    BY <1>1, <2>1 DEF SpendCode
  <2> QED
    BY <1>1, <1>5, <2>1, <2>2 DEF CodesOnce, SecretsDrawn
<1> QED
  BY <1>2, <1>4, <1>5 DEF CodesOnce, SecretsDrawn

\* Disabling the authenticator: no number is in force, so only the counts matter.
LEMMA DropSecretKeeps ==
  ASSUME TypeOK, CodesOnce, DropSecret, overwrites' = overwrites
  PROVE  CodesOnce'
<1>1. /\ user'.secret = 0 /\ user'.pendingTotp = Unenrolled /\ drawn'.secrets = drawn.secrets
      /\ \E u \in UserRecords : CodeSpent(u)
  BY DEF DropSecret
<1>2. SecretsDrawn'
  BY <1>1, CodeTypes DEF SecretsDrawn, Unenrolled
<1>3. \A n \in Secrets : n # user'.secret
  BY <1>1, CodeTypes
<1>4. ASSUME UNCHANGED codeUses
      PROVE  CodesInOrder'
  BY <1>1, <1>3, <1>4 DEF CodesOnce, CodesInOrder
<1>5. ASSUME NEW code \in Steps, user.secret # 0, code > user.lastStep,
             codeUses' = [codeUses EXCEPT ![<<user.secret, code>>] = @ + 1]
      PROVE  CodesInOrder'
  BY <1>1, <1>3, <1>5, SpentInOrder DEF CodesInOrder
<1>6. UNCHANGED codeUses
        \/ \E code \in Steps : /\ user.secret # 0 /\ code > user.lastStep
                               /\ codeUses' = [codeUses EXCEPT ![<<user.secret, code>>] = @ + 1]
  BY <1>1 DEF CodeSpent
<1> QED
  BY <1>2, <1>4, <1>5, <1>6 DEF CodesOnce

LEMMA DrawSecretKeeps ==
  ASSUME TypeOK, TypeOK', CodesOnce, DrawSecret, overwrites' = overwrites
  PROVE  CodesOnce'
<1>1. /\ UNCHANGED codeUses /\ drawn'.secrets = drawn.secrets + 1
      /\ user'.secret = 0 /\ user'.pendingTotp.secret = drawn.secrets + 1
      /\ user'.pendingTotp.session \in Sessions
  BY DEF DrawSecret
<1>2. user'.pendingTotp # Unenrolled
  BY <1>1, ConstantTypes DEF Unenrolled, Sessions
<1>3. user'.pendingTotp.secret \in Secrets
  <2>1. user' \in UserRecords
    BY DEF TypeOK, InTurnTypes
  <2>2. user'.pendingTotp \in {Unenrolled} \cup [session : Sessions, secret : Secrets]
    BY <2>1, UserFields
  <2> QED
    BY <1>2, <2>2
<1>4. \A c \in Steps : codeUses'[<<user'.pendingTotp.secret, c>>] <= overwrites'
  <2> SUFFICES ASSUME NEW c \in Steps PROVE codeUses[<<drawn.secrets + 1, c>>] <= overwrites
    BY <1>1
  <2>1. drawn.secrets + 1 \in Secrets
    BY <1>1, <1>3
  <2>2. codeUses[<<drawn.secrets + 1, c>>] > 0 => drawn.secrets + 1 <= drawn.secrets
    BY <2>1 DEF CodesOnce, CodesInOrder
  <2>3. codeUses[<<drawn.secrets + 1, c>>] \in Nat
    BY <2>1, CodeTypes
  <2> QED
    BY <2>2, <2>3, CodeTypes
<1>5. SecretsDrawn'
  BY <1>1, <1>4, CodeTypes DEF SecretsDrawn
<1>6. CodesInOrder'
  <2> SUFFICES ASSUME NEW n \in Secrets, NEW c \in Steps
               PROVE  /\ codeUses[<<n, c>>] <= 1 + overwrites
                      /\ codeUses[<<n, c>>] > 0 => n <= drawn.secrets + 1 /\ n # 0
    BY <1>1, CodeTypes DEF CodesInOrder
  <2>1. codeUses[<<n, c>>] <= 1 + overwrites /\ (codeUses[<<n, c>>] > 0 => n <= drawn.secrets)
    BY DEF CodesOnce, CodesInOrder
  <2>2. n \in Nat /\ n # 0 /\ drawn.secrets \in Nat
    BY CodeTypes
  <2> QED
    BY <2>1, <2>2
<1> QED
  BY <1>5, <1>6 DEF CodesOnce

\* The code that confirms an enrolment is the first of its secret, or it is its only one again.
LEMMA ConfirmSecretKeeps ==
  ASSUME TypeOK, CodesOnce, ConfirmSecret, overwrites' = overwrites
  PROVE  CodesOnce'
<1> DEFINE m == user.pendingTotp.secret
<1>1. PICK code \in Steps :
         /\ user.pendingTotp # Unenrolled /\ user'.secret = m /\ user'.lastStep = code
         /\ user'.pendingTotp = Unenrolled /\ drawn'.secrets = drawn.secrets
         /\ codeUses' = [codeUses EXCEPT ![<<m, code>>] = @ + 1]
  BY DEF ConfirmSecret
<1>2. m \in Secrets /\ m <= drawn.secrets /\ \A c \in Steps : codeUses[<<m, c>>] <= overwrites
  BY <1>1, CodeTypes DEF CodesOnce, SecretsDrawn
<1> HIDE DEF m
<1>3. /\ codeUses'[<<m, code>>] = codeUses[<<m, code>>] + 1
      /\ \A n \in Secrets, c \in Steps :
            n # m \/ c # code => codeUses'[<<n, c>>] = codeUses[<<n, c>>]
  BY <1>1, <1>2, CountOne
<1>4. SecretsDrawn'
  BY <1>1, <1>2, CodeTypes DEF SecretsDrawn, Unenrolled
<1>5. CodesInOrder'
  <2> SUFFICES ASSUME NEW n \in Secrets, NEW c \in Steps
               PROVE  /\ codeUses'[<<n, c>>] <= 1 + overwrites
                      /\ codeUses'[<<n, c>>] > 0 => n <= drawn.secrets
                      /\ codeUses'[<<n, c>>] > overwrites => (n = m => c <= code)
    BY <1>1 DEF CodesInOrder
  <2>1. codeUses[<<n, c>>] \in Nat /\ overwrites \in Nat /\ code \in Nat
    BY CodeTypes
  <2>2. CASE n = m /\ c = code
    BY <1>2, <1>3, <2>1, <2>2
  <2>3. CASE n = m /\ c # code
    <3>1. codeUses'[<<n, c>>] = codeUses[<<n, c>>] /\ codeUses[<<n, c>>] <= overwrites
      BY <1>2, <1>3, <2>3
    <3> QED
      BY <1>2, <2>1, <2>3, <3>1
  <2>4. CASE n # m
    BY <1>3, <2>4 DEF CodesOnce, CodesInOrder
  <2> QED
    BY <2>2, <2>3, <2>4
<1> QED
  BY <1>4, <1>5 DEF CodesOnce

LEMMA InitCodes == AccountInit => CodesOnce /\ AnswersOnce /\ LateDrawn
<1> SUFFICES ASSUME AccountInit PROVE CodesOnce /\ AnswersOnce /\ LateDrawn
  OBVIOUS
<1>1. \A n \in Secrets, c \in Steps : codeUses[<<n, c>>] = 0
  BY DEF AccountInit
<1>2. user.secret = 0 /\ user.pendingTotp = Unenrolled /\ drawn.secrets = 0
  BY DEF AccountInit
<1>3. challenges = {} /\ \A c \in 1..MaxChallenges : answers[c] = 0
  BY DEF AccountInit
<1>4. late = {} /\ overwrites = 0
  BY DEF AccountInit
<1> QED
  BY <1>1, <1>2, <1>3, <1>4
  DEF CodesOnce, SecretsDrawn, CodesInOrder, AnswersOnce, OpenUnanswered, LateDrawn, Unenrolled

LEMMA CodesStep ==
  ASSUME TypeOK, TypeOK', CodesOnce, CodeMove, overwrites' = overwrites
  PROVE  CodesOnce'
  BY KeepSecretKeeps, DropSecretKeeps, DrawSecretKeeps, ConfirmSecretKeeps DEF CodeMove

\* A challenge that is drawn is newer than all that were answered.
LEMMA OpenStep ==
  ASSUME TypeOK, TypeOK', AnswersOnce, AnswerMove, DrawMove, overwrites' = overwrites
  PROVE  AnswersOnce'
<1>1. /\ drawn.challenges \in Nat /\ drawn'.challenges \in Nat
      /\ drawn.challenges <= drawn'.challenges
  BY CodeTypes DEF DrawMove
<1>2. \A x \in challenges' : x \in challenges \/ (x[2] = drawn.challenges + 1
                                                /\ drawn'.challenges = drawn.challenges + 1)
  BY DEF DrawMove
<1>3. \A x, y \in challenges' : x[2] = y[2] => x = y
  <2>1. CASE challenges' \subseteq challenges
    BY <2>1 DEF AnswersOnce, OpenUnanswered
  <2>2. ASSUME NEW k \in Keys,
               challenges' \subseteq challenges \cup {<<k, drawn.challenges + 1>>}
        PROVE  \A x, y \in challenges' : x[2] = y[2] => x = y
    <3> DEFINE new == <<k, drawn.challenges + 1>>
    <3>1. new[2] = drawn.challenges + 1
      OBVIOUS
    <3>2. \A x \in challenges : x[2] # new[2]
      <4>1. \A x \in challenges : x[2] \in 1..MaxChallenges
        BY DEF TypeOK, InTurnTypes
      <4>2. \A x \in challenges : x[2] <= drawn.challenges
        BY DEF AnswersOnce, OpenUnanswered
      <4> HIDE DEF new
      <4> QED
        BY <1>1, <3>1, <4>1, <4>2, ConstantTypes
    <3> HIDE DEF new
    <3>3. \A x \in challenges' : x \in challenges \/ x = new
      BY <2>2 DEF new
    <3> QED
      BY <3>2, <3>3 DEF AnswersOnce, OpenUnanswered
  <2> QED
    BY <2>1, <2>2 DEF DrawMove
<1>4. \A x \in challenges : x[2] \in 1..MaxChallenges /\ answers[x[2]] <= overwrites
  BY DEF TypeOK, InTurnTypes, AnswersOnce, OpenUnanswered
<1>5. \A x \in challenges' : x[2] \in 1..MaxChallenges
  BY DEF TypeOK, InTurnTypes
<1>6. \A c \in 1..MaxChallenges :
         /\ answers[c] \in Nat /\ answers[c] <= 1 + overwrites
         /\ answers[c] > 0 => c <= drawn.challenges
  BY CodeTypes DEF AnswersOnce
<1>7. \A x \in challenges' : x[2] <= drawn'.challenges
  <2>1. \A x \in challenges : x[2] <= drawn.challenges
    BY DEF AnswersOnce, OpenUnanswered
  <2> QED
    BY <1>1, <1>2, <1>4, <1>5, <2>1, ConstantTypes
<1>8. \A x \in challenges' : answers[x[2]] <= overwrites
  <2> SUFFICES ASSUME NEW x \in challenges', x[2] = drawn.challenges + 1
               PROVE  answers[x[2]] <= overwrites
    BY <1>2, <1>4
  <2>1. x[2] \in 1..MaxChallenges /\ ~(x[2] <= drawn.challenges)
    BY <1>1, <1>5
  <2> QED
    BY <1>6, <2>1, CodeTypes
<1>9. CASE UNCHANGED answers
  <2>1. \A c \in 1..MaxChallenges :
           answers'[c] <= 1 + overwrites /\ (answers'[c] > 0 => c <= drawn'.challenges)
    BY <1>1, <1>6, <1>9, ConstantTypes
  <2> QED
    BY <1>3, <1>7, <1>8, <1>9, <2>1 DEF AnswersOnce, OpenUnanswered
<1>10. ASSUME NEW x \in challenges, x \notin challenges',
              answers' = [answers EXCEPT ![x[2]] = @ + 1]
       PROVE  AnswersOnce'
  <2>1. answers \in [1..MaxChallenges -> Nat]
    BY CodeTypes
  <2>2. /\ answers'[x[2]] = answers[x[2]] + 1
        /\ \A c \in 1..MaxChallenges : c # x[2] => answers'[c] = answers[c]
    BY <1>4, <1>10, <2>1
  <2>3. \A c \in 1..MaxChallenges :
           answers'[c] <= 1 + overwrites /\ (answers'[c] > 0 => c <= drawn'.challenges)
    <3>1. x[2] <= drawn'.challenges
      <4>1. x[2] <= drawn.challenges
        BY DEF AnswersOnce, OpenUnanswered
      <4> QED
        BY <1>1, <1>4, <4>1, ConstantTypes
    <3>2. answers'[x[2]] <= 1 + overwrites
      <4>1. answers[x[2]] \in Nat /\ answers[x[2]] <= overwrites /\ overwrites \in Nat
        BY <1>4, <1>6, CodeTypes
      <4> QED
        BY <2>2, <4>1
    <3>3. \A c \in 1..MaxChallenges : c <= drawn.challenges => c <= drawn'.challenges
      BY <1>1, ConstantTypes
    <3>4. \A c \in 1..MaxChallenges : c = x[2] \/ answers'[c] = answers[c]
      BY <2>2
    <3> QED
      BY <1>6, <2>2, <3>1, <3>2, <3>3, <3>4
  <2>4. \A y \in challenges' : y[2] # x[2]
    <3> SUFFICES ASSUME NEW y \in challenges', y[2] = x[2] PROVE FALSE
      OBVIOUS
    <3>1. y \in challenges
      <4>1. x[2] <= drawn.challenges
        BY DEF AnswersOnce, OpenUnanswered
      <4>2. x[2] # drawn.challenges + 1
        BY <1>1, <1>4, <4>1, ConstantTypes
      <4> QED
        BY <1>2, <4>2
    <3> QED
      BY <1>10, <3>1 DEF AnswersOnce, OpenUnanswered
  <2>5. \A y \in challenges' : answers'[y[2]] <= overwrites
    BY <1>5, <1>8, <2>2, <2>4
  <2> QED
    BY <1>3, <1>7, <2>3, <2>5 DEF AnswersOnce, OpenUnanswered
<1> QED
  BY <1>9, <1>10 DEF AnswerMove

\* The numbers that an old database holds.
LEMMA DatabaseNumbers ==
  ASSUME NEW d \in Databases
  PROVE  /\ d.user.secret \in Nat /\ d.user.pendingTotp.secret \in Nat
         /\ \A x \in d.challenges : x[2] \in Nat
<1>1. d.user \in UserRecords /\ d.challenges \subseteq Keys \X (1..MaxChallenges)
  BY DEF Databases
<1>2. d.user.secret \in {0} \cup Secrets
  BY <1>1, UserFields
<1>3. d.user.pendingTotp \in {Unenrolled} \cup [session : Sessions, secret : Secrets]
  BY <1>1, UserFields
<1>4. \A n \in Secrets : n \in Nat
  BY ConstantTypes DEF Secrets
<1>5. d.user.pendingTotp.secret \in {0} \cup Secrets
  BY <1>3 DEF Unenrolled
<1>6. \A x \in d.challenges : x[2] \in Nat
  BY <1>1, ConstantTypes
<1> QED
  BY <1>2, <1>4, <1>5, <1>6

\* What was drawn stays drawn, and a database that is loaded now asks for nothing else.
LEMMA LateDrawnStep ==
  ASSUME TypeOK, TypeOK', CodesOnce, AnswersOnce, LateDrawn, CodeMove, DrawMove,
         late' \subseteq late \cup {Now}
  PROVE  LateDrawn'
<1>1. /\ drawn.secrets \in Nat /\ drawn.challenges \in Nat
      /\ drawn'.secrets \in Nat /\ drawn'.challenges \in Nat
  BY DEF TypeOK, InTurnTypes
<1>2. drawn.secrets <= drawn'.secrets /\ drawn.challenges <= drawn'.challenges
  <2>1. drawn'.secrets = drawn.secrets \/ drawn'.secrets = drawn.secrets + 1
    BY DEF CodeMove, KeepSecret, DropSecret, DrawSecret, ConfirmSecret
  <2>2. drawn'.challenges = drawn.challenges \/ drawn'.challenges = drawn.challenges + 1
    BY DEF DrawMove
  <2> QED
    BY <1>1, <2>1, <2>2
<1> SUFFICES ASSUME NEW d \in late'
             PROVE  /\ d.user.secret <= drawn'.secrets
                    /\ d.user.pendingTotp.secret <= drawn'.secrets
                    /\ d.user.pendingTotp # Unenrolled => d.user.secret = 0
                    /\ \A x \in d.challenges : x[2] <= drawn'.challenges
                    /\ \A x, y \in d.challenges : x[2] = y[2] => x = y
  BY DEF LateDrawn
<1>3. /\ d.user.secret <= drawn.secrets /\ d.user.pendingTotp.secret <= drawn.secrets
      /\ d.user.pendingTotp # Unenrolled => d.user.secret = 0
      /\ \A x \in d.challenges : x[2] <= drawn.challenges
      /\ \A x, y \in d.challenges : x[2] = y[2] => x = y
  <2>1. CASE d \in late
    BY <2>1 DEF LateDrawn
  <2>2. CASE d = Now
    BY <2>2 DEF Now, CodesOnce, SecretsDrawn, AnswersOnce, OpenUnanswered
  <2> QED
    BY <2>1, <2>2
<1>4. /\ d.user.secret \in Nat /\ d.user.pendingTotp.secret \in Nat
      /\ \A x \in d.challenges : x[2] \in Nat
  BY DatabaseNumbers DEF TypeOK
<1> QED
  BY <1>1, <1>2, <1>3, <1>4

\* An old database asks for nothing more than it did, and once more at most.
LEMMA LateSaveCodes ==
  ASSUME TypeOK, CodesOnce, AnswersOnce, LateDrawn, NEW d \in late, LateSave(d)
  PROVE  CodesOnce' /\ AnswersOnce' /\ LateDrawn'
<1>1. /\ overwrites' = overwrites + 1 /\ user' = d.user /\ challenges' = d.challenges
      /\ UNCHANGED <<drawn, codeUses, answers, late>>
  BY DEF LateSave
<1>2. /\ \A n \in Secrets, c \in Steps : codeUses[<<n, c>>] \in Nat
      /\ \A c \in 1..MaxChallenges : answers[c] \in Nat
      /\ overwrites \in Nat
  BY CodeTypes
<1>3. /\ d \in Databases /\ d.challenges \subseteq Keys \X (1..MaxChallenges)
      /\ d.user \in UserRecords
  BY DEF TypeOK, Databases
<1>4. /\ d.user.secret <= drawn.secrets /\ d.user.pendingTotp.secret <= drawn.secrets
      /\ d.user.pendingTotp # Unenrolled => d.user.secret = 0
      /\ \A x \in d.challenges : x[2] <= drawn.challenges
      /\ \A x, y \in d.challenges : x[2] = y[2] => x = y
  BY DEF LateDrawn
<1>5. \A n \in Secrets, c \in Steps :
         codeUses[<<n, c>>] <= 1 + overwrites /\ (codeUses[<<n, c>>] > 0 => n <= drawn.secrets)
  BY DEF CodesOnce, CodesInOrder
<1>6. SecretsDrawn'
  <2>1. ASSUME d.user.pendingTotp # Unenrolled
        PROVE  \A c \in Steps : codeUses[<<d.user.pendingTotp.secret, c>>] <= overwrites + 1
    <3>1. d.user.pendingTotp \in [session : Sessions, secret : Secrets]
      BY <1>3, <2>1, UserFields
    <3> QED
      BY <1>2, <1>5, <3>1
  <2> QED
    BY <1>1, <1>4, <2>1 DEF SecretsDrawn
<1>7. CodesInOrder'
  <2>1. \A n \in Secrets, c \in Steps :
           codeUses[<<n, c>>] <= 1 + (overwrites + 1) /\ ~(codeUses[<<n, c>>] > overwrites + 1)
    <3> SUFFICES ASSUME NEW n \in Secrets, NEW c \in Steps
                 PROVE  /\ codeUses[<<n, c>>] <= 1 + (overwrites + 1)
                        /\ ~(codeUses[<<n, c>>] > overwrites + 1)
      OBVIOUS
    <3>1. codeUses[<<n, c>>] \in Nat /\ overwrites \in Nat
      BY <1>2
    <3>2. codeUses[<<n, c>>] <= 1 + overwrites
      BY <1>5
    <3> QED
      BY <3>1, <3>2
  <2> QED
    BY <1>1, <1>5, <2>1 DEF CodesInOrder
<1>8. \A c \in 1..MaxChallenges :
         /\ answers[c] <= 1 + overwrites /\ answers[c] <= overwrites + 1
         /\ answers[c] <= 1 + (overwrites + 1)
         /\ answers[c] > 0 => c <= drawn.challenges
  BY <1>2 DEF AnswersOnce
<1>9. AnswersOnce'
  <2>1. \A x \in d.challenges : x[2] \in 1..MaxChallenges
    BY <1>3
  <2>2. \A x \in d.challenges : answers[x[2]] <= overwrites + 1
    BY <1>8, <2>1
  <2> QED
    BY <1>1, <1>4, <1>8, <2>2 DEF AnswersOnce, OpenUnanswered
<1>10. LateDrawn'
  BY <1>1 DEF LateDrawn
<1> QED
  BY <1>6, <1>7, <1>9, <1>10 DEF CodesOnce

\* Whatever is sent again, by whichever session and however late: a code of an authenticator and
\* an answer to a challenge are accepted once, and once more at most for each time that a handler
\* whose client went away put an old database back (totp.js:64, reauth.js:69, auth-routes.js:58,
\* server.js:74).
THEOREM AccountProofsWorkOnce == AccountSpec => []ProofsWorkOnce
<1> DEFINE IInv == TypeOK /\ CodesOnce /\ AnswersOnce /\ LateDrawn
<1>1. AccountInit => IInv
  BY InitTypes, InitCodes
<1>2. IInv /\ [AccountNext]_accountVars => IInv'
  <2> SUFFICES ASSUME TypeOK, CodesOnce, AnswersOnce, LateDrawn, [AccountNext]_accountVars
               PROVE  TypeOK' /\ CodesOnce' /\ AnswersOnce' /\ LateDrawn'
    OBVIOUS
  <2>1. TypeOK'
    BY StepType
  <2>2. CASE \E d \in late : LateSave(d)
    BY <2>1, <2>2, LateSaveCodes
  <2>3. CASE Moves /\ overwrites' = overwrites /\ late' \subseteq late \cup {Now}
    BY <2>1, <2>3, CodesStep, OpenStep, LateDrawnStep DEF Moves
  <2> QED
    BY <2>2, <2>3, AccountMoves DEF TypeOK
<1>3. IInv => ProofsWorkOnce
  <2> SUFFICES ASSUME IInv PROVE ProofsWorkOnce
    OBVIOUS
  <2>1. \A z \in Secrets \X Steps : z = <<z[1], z[2]>> /\ z[1] \in Secrets /\ z[2] \in Steps
    OBVIOUS
  <2>2. \A z \in Secrets \X Steps : codeUses[z] <= 1 + overwrites
    BY <2>1 DEF CodesOnce, CodesInOrder
  <2>3. \A c \in 1..MaxChallenges : answers[c] <= 1 + overwrites
    BY DEF AnswersOnce
  <2> QED
    BY <2>2, <2>3 DEF ProofsWorkOnce
<1> QED
  BY <1>1, <1>2, <1>3, PTL DEF AccountSpec

-----------------------------------------------------------------------------
(* The grants: the first property is inductive with the types, the second  *)
(* one with what the databases say of the policy.                          *)

LEMMA GrantTypes ==
  ASSUME TypeOK
  PROVE  /\ grants \subseteq Grants /\ \A g \in grants : g[1] \in Sessions
         /\ sessions \in [Sessions -> {"unused", "live", "over", "lost"}]
  BY DEF TypeOK, InTurnTypes, Grants

LEMMA GrantsStep ==
  ASSUME TypeOK, GrantsFollowSessions, GrantMove
  PROVE  GrantsFollowSessions'
<1>1. CASE grants' = {}
  BY <1>1 DEF GrantsFollowSessions
<1>2. CASE KeepGrants
  BY <1>2, GrantTypes DEF KeepGrants, Held, GrantsFollowSessions
<1>3. ASSUME NEW s \in Sessions, grants' \subseteq {g \in grants : g[1] # s},
             sessions' = [sessions EXCEPT ![s] = "over"]
      PROVE  GrantsFollowSessions'
  <2>1. \A r \in Sessions : r # s => sessions'[r] = sessions[r]
    BY <1>3, GrantTypes
  <2> QED
    BY <1>3, <2>1, GrantTypes DEF GrantsFollowSessions, Live
<1>4. ASSUME NEW s \in Sessions, NEW x \in Scopes, Live(s), UNCHANGED sessions,
             grants' = grants \cup ({s} \X {x}) \/ grants' = grants \cup ({s} \X {"verified", x})
      PROVE  GrantsFollowSessions'
  <2>1. \A g \in grants' : g \in grants \/ g[1] = s
    BY <1>4
  <2> QED
    BY <1>4, <2>1 DEF GrantsFollowSessions, Live
<1> QED
  BY <1>1, <1>2, <1>3, <1>4 DEF GrantMove, DropGrants, AddGrants

\* An old database has some of the sessions; those that it does not have are lost.
LEMMA LateSaveGrants ==
  ASSUME TypeOK, GrantsFollowSessions, NEW d \in late, LateSave(d)
  PROVE  GrantsFollowSessions'
<1> SUFFICES ASSUME NEW g \in grants PROVE sessions'[g[1]] \in {"live", "lost"}
  BY DEF LateSave, GrantsFollowSessions, Live
<1>1. g[1] \in Sessions /\ sessions[g[1]] \in {"live", "lost"}
  BY GrantTypes DEF GrantsFollowSessions, Live
<1> QED
  BY <1>1 DEF LateSave, Live

\* The policy is only relaxed after a proof, in the database and in every old one.
PolicyProven ==
    /\ ~user.mustVerify => PolicyChanged
    /\ \A d \in late : ~d.user.mustVerify => PolicyChanged

LEMMA ProofsStay ==
  ASSUME proven \subseteq proven'
  PROVE  /\ PolicyChanged => PolicyChanged'
         /\ \A s \in Sessions : TwoFactors(s) => TwoFactors(s)'
  BY DEF PolicyChanged, TwoFactors

LEMMA PolicyStep ==
  ASSUME PolicyProven, VerifyMove, proven \subseteq proven', late' \subseteq late \cup {Now}
  PROVE  PolicyProven'
<1>1. ~user'.mustVerify => PolicyChanged'
  BY ProofsStay DEF PolicyProven, VerifyMove
<1>2. ASSUME NEW d \in late', ~d.user.mustVerify
      PROVE  PolicyChanged'
  <2>1. PolicyChanged
    BY <1>2 DEF PolicyProven, Now
  <2> QED
    BY <2>1, ProofsStay
<1> QED
  BY <1>1, <1>2 DEF PolicyProven

LEMMA SecondFactorStep ==
  ASSUME TypeOK, SecondFactorBehindReveal, PolicyProven, GrantMove, proven \subseteq proven'
  PROVE  SecondFactorBehindReveal'
<1>1. ASSUME NEW g \in grants
      PROVE  TwoFactors(g[1])' \/ (g[2] # "verified" /\ PolicyChanged')
  <2>1. g[1] \in Sessions
    BY GrantTypes
  <2>2. TwoFactors(g[1]) \/ (g[2] # "verified" /\ PolicyChanged)
    BY DEF SecondFactorBehindReveal
  <2> QED
    BY <2>1, <2>2, ProofsStay
<1>2. CASE grants' \subseteq grants
  BY <1>1, <1>2 DEF SecondFactorBehindReveal
<1>3. ASSUME NEW s \in Sessions, NEW x \in Scopes, grants' = grants \cup ({s} \X {x}),
             ~user.mustVerify \/ <<s, "verified">> \in grants
      PROVE  SecondFactorBehindReveal'
  <2>1. x # "verified"
    BY ConstantTypes
  <2>2. \A g \in grants' : g \in grants \/ (g[1] = s /\ g[2] = x)
    BY <1>3
  <2>3. CASE ~user.mustVerify
    <3>1. PolicyChanged'
      BY <2>3, ProofsStay DEF PolicyProven
    <3> QED
      BY <1>1, <2>1, <2>2, <3>1 DEF SecondFactorBehindReveal
  <2>4. CASE <<s, "verified">> \in grants
    <3>1. TwoFactors(s)
      BY <2>4 DEF SecondFactorBehindReveal
    <3>2. TwoFactors(s)'
      BY <3>1, ProofsStay
    <3> QED
      BY <1>1, <2>2, <3>2 DEF SecondFactorBehindReveal
  <2> QED
    BY <1>3, <2>3, <2>4
<1>4. ASSUME NEW s \in Sessions, NEW x \in Scopes,
             grants' = grants \cup ({s} \X {"verified", x}),
             <<s, Operation("reveal", x), 2>> \in proven'
      PROVE  SecondFactorBehindReveal'
  <2>1. \A g \in grants' : g \in grants \/ g[1] = s
    BY <1>4
  <2>2. TwoFactors(s)'
    BY <1>4 DEF TwoFactors
  <2> QED
    BY <1>1, <2>1, <2>2 DEF SecondFactorBehindReveal
<1>5. grants' = {} \/ KeepGrants \/ DropGrants => grants' \subseteq grants
  BY DEF KeepGrants, DropGrants
<1> QED
  BY <1>2, <1>3, <1>4, <1>5 DEF GrantMove, AddGrants

LEMMA LateSaveFactors ==
  ASSUME SecondFactorBehindReveal, PolicyProven, NEW d \in late, LateSave(d)
  PROVE  SecondFactorBehindReveal' /\ PolicyProven'
<1>1. UNCHANGED <<grants, proven, late>> /\ user' = d.user
  BY DEF LateSave
<1>2. PolicyChanged' <=> PolicyChanged
  BY <1>1 DEF PolicyChanged
<1>3. \A s : TwoFactors(s)' <=> TwoFactors(s)
  BY <1>1 DEF TwoFactors
<1> QED
  BY <1>1, <1>2, <1>3 DEF SecondFactorBehindReveal, PolicyProven

LEMMA InitGrants ==
  AccountInit => GrantsFollowSessions /\ SecondFactorBehindReveal /\ PolicyProven
<1> SUFFICES ASSUME AccountInit
             PROVE  GrantsFollowSessions /\ SecondFactorBehindReveal /\ PolicyProven
  OBVIOUS
<1>1. grants = {} /\ late = {} /\ user.mustVerify
  BY DEF AccountInit
<1> QED
  BY <1>1 DEF GrantsFollowSessions, SecondFactorBehindReveal, PolicyProven

\* Whoever may see a sensitive value has a session that goes on, or one that an old database which
\* was saved late did not have (auth.js:81, reauth.js:103, server.js:74).
THEOREM AccountGrantsFollowSessions == AccountSpec => []GrantsFollowSessions
<1> DEFINE IInv == TypeOK /\ GrantsFollowSessions
<1>1. AccountInit => IInv
  BY InitTypes, InitGrants
<1>2. IInv /\ [AccountNext]_accountVars => IInv'
  <2> SUFFICES ASSUME TypeOK, GrantsFollowSessions, [AccountNext]_accountVars
               PROVE  TypeOK' /\ GrantsFollowSessions'
    OBVIOUS
  <2>1. CASE \E d \in late : LateSave(d)
    BY <2>1, StepType, LateSaveGrants
  <2>2. CASE Moves
    BY <2>2, StepType, GrantsStep DEF Moves
  <2> QED
    BY <2>1, <2>2, AccountMoves DEF TypeOK
<1> QED
  BY <1>1, <1>2, PTL DEF AccountSpec

\* Whoever may see sensitive values proved two factors in a reveal of the same session, unless
\* somebody verified a change of that policy; the cookie that spares the next reveal a proof is
\* only given for two factors (sensitive-routes.js:19, 34).
THEOREM AccountSecondFactorBehindReveal == AccountSpec => []SecondFactorBehindReveal
<1> DEFINE IInv == TypeOK /\ SecondFactorBehindReveal /\ PolicyProven
<1>1. AccountInit => IInv
  BY InitTypes, InitGrants
<1>2. IInv /\ [AccountNext]_accountVars => IInv'
  <2> SUFFICES ASSUME TypeOK, SecondFactorBehindReveal, PolicyProven, [AccountNext]_accountVars
               PROVE  TypeOK' /\ SecondFactorBehindReveal' /\ PolicyProven'
    OBVIOUS
  <2>1. CASE \E d \in late : LateSave(d)
    BY <2>1, StepType, LateSaveFactors
  <2>2. CASE Moves /\ late' \subseteq late \cup {Now}
    BY <2>2, StepType, SecondFactorStep, PolicyStep DEF Moves
  <2> QED
    BY <2>1, <2>2, AccountMoves DEF TypeOK
<1> QED
  BY <1>1, <1>2, PTL DEF AccountSpec

-----------------------------------------------------------------------------
(* Enrolments.  The record of an enrolment that is under way, and a        *)
(* challenge for a new passkey, belong to a session that proved itself, in *)
(* the database and in every old one.                                      *)

EnrolmentsProven ==
    /\ user.pendingTotp # Unenrolled => ProvenFor(user.pendingTotp.session, "enable-totp")
    /\ \A x \in challenges : \A s \in Sessions :
          x[1] = AddKey(s) => ProvenFor(s, "add-passkey")

LateProven ==
    \A d \in late :
        /\ d.user.pendingTotp # Unenrolled => ProvenFor(d.user.pendingTotp.session, "enable-totp")
        /\ \A x \in d.challenges : \A s \in Sessions :
              x[1] = AddKey(s) => ProvenFor(s, "add-passkey")

LEMMA ProvenGrows ==
  ASSUME proven \subseteq proven', NEW s, NEW action, ProvenFor(s, action)
  PROVE  ProvenFor(s, action)'
  BY DEF ProvenFor

LEMMA EnrolmentsStep ==
  ASSUME EnrolmentsProven, CodeMove, DrawMove, proven \subseteq proven'
  PROVE  EnrolmentsProven'
<1>1. user'.pendingTotp # Unenrolled => ProvenFor(user.pendingTotp.session, "enable-totp")'
  <2>1. CASE KeepSecret
    BY <2>1, ProvenGrows DEF KeepSecret, EnrolmentsProven, ProvenFor
  <2>2. CASE DropSecret \/ ConfirmSecret
    BY <2>2 DEF DropSecret, ConfirmSecret
  <2>3. CASE DrawSecret
    BY <2>3 DEF DrawSecret
  <2> QED
    BY <2>1, <2>2, <2>3 DEF CodeMove
<1>2. ASSUME NEW x \in challenges', NEW s \in Sessions, x[1] = AddKey(s)
      PROVE  ProvenFor(s, "add-passkey")'
  <2>1. CASE x \in challenges
    BY <1>2, <2>1, ProvenGrows DEF EnrolmentsProven
  <2>2. ASSUME NEW k \in Keys, x = <<k, drawn.challenges + 1>>,
               k = AddKey(s) => ProvenFor(s, "add-passkey")'
        PROVE  ProvenFor(s, "add-passkey")'
    <3>1. x[1] = k
      BY <2>2
    <3> QED
      BY <1>2, <2>2, <3>1
  <2> QED
    BY <2>1, <2>2 DEF DrawMove
<1> QED
  BY <1>1, <1>2 DEF EnrolmentsProven

LEMMA LateProvenStep ==
  ASSUME EnrolmentsProven, LateProven, proven \subseteq proven', late' \subseteq late \cup {Now}
  PROVE  LateProven'
<1> SUFFICES ASSUME NEW d \in late'
             PROVE  /\ d.user.pendingTotp # Unenrolled
                           => ProvenFor(d.user.pendingTotp.session, "enable-totp")'
                    /\ \A x \in d.challenges : \A s \in Sessions :
                          x[1] = AddKey(s) => ProvenFor(s, "add-passkey")'
  BY DEF LateProven
<1>1. /\ d.user.pendingTotp # Unenrolled => ProvenFor(d.user.pendingTotp.session, "enable-totp")
      /\ \A x \in d.challenges : \A s \in Sessions :
            x[1] = AddKey(s) => ProvenFor(s, "add-passkey")
  <2>1. CASE d \in late
    BY <2>1 DEF LateProven
  <2>2. CASE d = Now
    BY <2>2 DEF Now, EnrolmentsProven
  <2> QED
    BY <2>1, <2>2
<1> QED
  BY <1>1, ProvenGrows

LEMMA LateSaveEnrolments ==
  ASSUME LateProven, NEW d \in late, LateSave(d)
  PROVE  EnrolmentsProven' /\ LateProven'
<1>1. /\ user' = d.user /\ challenges' = d.challenges
      /\ UNCHANGED <<proven, late>>
  BY DEF LateSave
<1>2. \A s, a : ProvenFor(s, a)' <=> ProvenFor(s, a)
  BY <1>1 DEF ProvenFor
<1>3. LateProven'
  BY <1>1, <1>2 DEF LateProven
<1>4. EnrolmentsProven'
  BY <1>1, <1>2 DEF LateProven, EnrolmentsProven
<1> QED
  BY <1>3, <1>4

LEMMA InitEnrolments == AccountInit => EnrolmentsProven /\ LateProven
  BY DEF AccountInit, EnrolmentsProven, LateProven

LEMMA EnrolledByAProof ==
  ASSUME EnrolmentsProven, CodeMove, PasskeyMove
  PROVE  /\ user.secret = 0 /\ user'.secret # 0 => SomeoneLiveProved("enable-totp")
         /\ ~(user'.passkeys \subseteq user.passkeys) => SomeoneLiveProved("add-passkey")
<1>1. ASSUME user.secret = 0, user'.secret # 0
      PROVE  SomeoneLiveProved("enable-totp")
  <2>1. ConfirmSecret
    BY <1>1 DEF CodeMove, KeepSecret, DropSecret, DrawSecret
  <2>2. PICK s \in Sessions : Live(s) /\ user.pendingTotp # Unenrolled
                                      /\ user.pendingTotp.session = s
    BY <2>1 DEF ConfirmSecret
  <2>3. ProvenFor(s, "enable-totp")
    BY <2>2 DEF EnrolmentsProven
  <2> QED
    BY <2>2, <2>3 DEF ProvenFor, SomeoneLiveProved
<1>2. ASSUME ~(user'.passkeys \subseteq user.passkeys)
      PROVE  SomeoneLiveProved("add-passkey")
  <2>1. PICK s \in Sessions : Live(s) /\ \E c \in 1..MaxChallenges : <<AddKey(s), c>> \in challenges
    BY <1>2 DEF PasskeyMove
  <2>2. PICK c \in 1..MaxChallenges : <<AddKey(s), c>> \in challenges
    BY <2>1
  <2>3. <<AddKey(s), c>>[1] = AddKey(s)
    OBVIOUS
  <2>4. ProvenFor(s, "add-passkey")
    BY <2>2, <2>3 DEF EnrolmentsProven
  <2> QED
    BY <2>1, <2>4 DEF ProvenFor, SomeoneLiveProved
<1> QED
  BY <1>1, <1>2

\* An authenticator or a passkey is enrolled in two requests; when the second one succeeds, a
\* session that goes on proved itself in the first (auth-routes.js:206, 278).  An old database
\* that comes back has what was enrolled then.
THEOREM AccountEnrolmentsAreProven == AccountSpec => EnrolmentsAreProven
<1> DEFINE IInv == TypeOK /\ EnrolmentsProven /\ LateProven
           Proved == overwrites' = overwrites =>
                        /\ user.secret = 0 /\ user'.secret # 0 => SomeoneLiveProved("enable-totp")
                        /\ ~(user'.passkeys \subseteq user.passkeys)
                              => SomeoneLiveProved("add-passkey")
<1>1. AccountInit => IInv
  BY InitTypes, InitEnrolments
<1>2. IInv /\ [AccountNext]_accountVars => IInv'
  <2> SUFFICES ASSUME TypeOK, EnrolmentsProven, LateProven, [AccountNext]_accountVars
               PROVE  TypeOK' /\ EnrolmentsProven' /\ LateProven'
    OBVIOUS
  <2>1. CASE \E d \in late : LateSave(d)
    BY <2>1, StepType, LateSaveEnrolments
  <2>2. CASE Moves /\ late' \subseteq late \cup {Now}
    BY <2>2, StepType, EnrolmentsStep, LateProvenStep DEF Moves
  <2> QED
    BY <2>1, <2>2, AccountMoves DEF TypeOK
<1>3. IInv /\ [AccountNext]_accountVars => [Proved]_accountVars
  <2> SUFFICES ASSUME TypeOK, EnrolmentsProven, [AccountNext]_accountVars, overwrites' = overwrites
               PROVE  /\ user.secret = 0 /\ user'.secret # 0 => SomeoneLiveProved("enable-totp")
                      /\ ~(user'.passkeys \subseteq user.passkeys)
                            => SomeoneLiveProved("add-passkey")
    OBVIOUS
  <2>1. ~\E d \in late : LateSave(d)
    BY DEF LateSave, TypeOK
  <2>2. Moves
    BY <2>1, AccountMoves DEF TypeOK
  <2> QED
    BY <2>2, EnrolledByAProof DEF Moves
<1> QED
  BY <1>1, <1>2, <1>3, PTL DEF AccountSpec, EnrolmentsAreProven
=============================================================================
