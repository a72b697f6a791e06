---------------------------- MODULE SystemUpdates ----------------------------
(***************************************************************************)
(* How Admin finds out which release to offer (services/system-updates.js, *)
(* routes/update-routes.js): it asks the host's updater what is installed  *)
(* and whether it is idle, asks GitHub which releases there are, takes the *)
(* greatest one of the chosen channel, and verifies its signed manifest.   *)
(*                                                                         *)
(* The routes bypass the queue of db.js, so checks overlap at every await: *)
(* the updater's status, the lookup and the two downloads.  The cache of   *)
(* the listing and the cache of verified manifests are shared by them all. *)
(*                                                                         *)
(* A release is a number; Info has what GitHub serves for it.              *)
(***************************************************************************)
EXTENDS Naturals, Sequences, FiniteSets

CONSTANTS
    Releases,     \* releases that may be on GitHub, numbered from 1
    Info,         \* version, assets and manifest of each of them
    Installed,    \* version and database schema of the running Admin
    Podman,       \* version of the host's podman
    Checks,       \* checks that may run at the same time
    MaxChanges    \* bound: changes around Admin, and expirations

(***************************************************************************)
(* Semantic versions: the core is <<major, minor, patch>>, an identifier   *)
(* of a prerelease is <<0, n>> when it is a number and <<1, k>> when not,  *)
(* where k is its place among the identifiers in the order of strings.     *)
(***************************************************************************)
SemVers == [core : Nat \X Nat \X Nat, pre : Seq({0, 1} \X Nat)]

\* A manifest need not name a version of podman.
NoVersion == [core |-> <<>>, pre |-> <<>>]

(***************************************************************************)
(* Two verifiers read the same bytes, Admin's and that of the host.  Form  *)
(* is what they make of signature, identity, images, schema and health     *)
(* checks: "exact" is right for both of them, "loose" only for Admin, whose *)
(* expression for an image has the flag i where the host's has not, and    *)
(* "bad" for neither.                                                      *)
(***************************************************************************)
Forms == {"exact", "loose", "bad"}

\* What semVerParts lets through, and any manifest Admin may meet.
ASSUME OfferAssumption ==
    /\ IsFiniteSet(Releases) /\ Releases \subseteq Nat \ {0}
    /\ Installed.version \in SemVers /\ Installed.schema \in Nat /\ Podman \in SemVers
    /\ \A r \in Releases :
          /\ Info[r].version \in SemVers /\ Info[r].assets \in BOOLEAN /\ Info[r].form \in Forms
          /\ Info[r].manifest.minGateway \in SemVers
          /\ Info[r].manifest.minPodman \in SemVers \cup {NoVersion}
          /\ Info[r].manifest.schema \in Nat

VARIABLES
    published,    \* GitHub: the releases that are not drafts
    controller,   \* the updater on the host: "off", "idle" or "busy"
    listing,      \* cache: the releases, whether there are any, and whether they are fresh
    manifests,    \* manifestCache: what was last found out about each release
    check,        \* the requests: their pc, what they asked for, read and answer
    changes       \* counter for the bound

offerVars == <<published, controller, listing, manifests, check, changes>>

Channels == {"stable", "beta"}
NoRelease == 0
Manifest(r) == Info[r].manifest

(***************************************************************************)
(* The order of versions, as Admin has it.                                 *)
(***************************************************************************)
\* Mutant of IdentifierBefore: numbers are not told from other identifiers.
IdentifierBeforeAsString(x, y) == x[2] < y[2]

IdentifierBefore(x, y) ==
    IF x[1] = y[1] THEN x[2] < y[2] ELSE x[1] = 0

\* The identifiers at the first place where two prereleases differ decide; the shorter one is less.
PrereleaseBefore(p, q) ==
    \E i \in 1..Len(q) :
        /\ \A j \in 1..(i - 1) : j <= Len(p) /\ p[j] = q[j]
        /\ i > Len(p) \/ IdentifierBefore(p[i], q[i])

\* compareSemVer(v, w) < 0.  A version without a prerelease comes after those that have one.
Before(v, w) ==
    \/ \E i \in 1..3 : v.core[i] < w.core[i] /\ \A j \in 1..(i - 1) : v.core[j] = w.core[j]
    \/ /\ v.core = w.core /\ v.pre # <<>>
       /\ w.pre = <<>> \/ PrereleaseBefore(v.pre, w.pre)

(***************************************************************************)
(* The same order as the host has it: tuples compared from left to right.  *)
(***************************************************************************)
TupleLess(s, t, Less(_, _)) ==
    \/ \E i \in 1..Len(s) : /\ i <= Len(t) /\ Less(s[i], t[i])
                            /\ \A j \in 1..(i - 1) : s[j] = t[j]
    \/ Len(s) < Len(t) /\ \A j \in 1..Len(s) : s[j] = t[j]

NumberLess(m, n) == m < n
NumbersLess(s, t) == TupleLess(s, t, NumberLess)
PrereleaseLess(p, q) == TupleLess(p, q, NumbersLess)

VersionKeyLess(v, w) ==
    LET key(u) == <<u.core[1], u.core[2], u.core[3], IF u.pre = <<>> THEN 1 ELSE 0>>
    IN  \/ NumbersLess(key(v), key(w))
        \/ key(v) = key(w) /\ PrereleaseLess(v.pre, w.pre)

(***************************************************************************)
(* Which release, and whether it can be installed.                         *)
(***************************************************************************)
Channel(r) == IF Info[r].version.pre = <<>> THEN "stable" ELSE "beta"

\* What Admin offers to look at, of what is on the list.
Candidates(releases, channel) ==
    {r \in releases : /\ channel = "beta" \/ Channel(r) = "stable"
                      /\ Before(Installed.version, Info[r].version)}

\* selectLatestRelease: the first one after sorting.
LatestRelease(releases, channel) ==
    LET found == Candidates(releases, channel) IN
    IF found = {} THEN NoRelease
    ELSE CHOOSE r \in found : \A s \in found : ~Before(Info[r].version, Info[s].version)

SchemaFits(m) ==
    \/ m.schema = Installed.schema
    \/ m.schema > Installed.schema /\ m.migratesFrom = Installed.schema

\* verifyReleaseManifest: min_podman_version may be left out.
AdminVerifies(r) == Info[r].form # "bad"

\* evaluateReleaseCompatibility; when the updater is off the version of podman is unknown, which
\* matters only to a manifest that names one.
Compatible(m, status) ==
    /\ ~Before(Installed.version, m.minGateway)
    /\ m.minPodman # NoVersion => status # "off" /\ ~Before(Podman, m.minPodman)
    /\ SchemaFits(m)

\* applyVerifiedManifest.
Installable(m, status) == Compatible(m, status) /\ status = "idle"

(***************************************************************************)
(* `verify`, `resolve` and `compatible` of scripts/updater, which decide   *)
(* in the end.  version_key raises on a min_podman_version that is absent. *)
(***************************************************************************)
HostVerifies(r) == Info[r].form = "exact" /\ Manifest(r).minPodman # NoVersion

HostCompatible(r) ==
    /\ VersionKeyLess(Installed.version, Info[r].version)
    /\ ~VersionKeyLess(Installed.version, Manifest(r).minGateway)
    /\ Manifest(r).minPodman # NoVersion => ~VersionKeyLess(Podman, Manifest(r).minPodman)
    /\ Manifest(r).schema >= Installed.schema
    /\ Manifest(r).schema # Installed.schema => Manifest(r).migratesFrom = Installed.schema

Unverified == [status |-> "none", verified |-> FALSE, installable |-> FALSE, fresh |-> FALSE]
NoCheck == [pc |-> "none", channel |-> "stable", mode |-> "cached", status |-> "off",
            leads |-> FALSE, answer |-> {}, latest |-> NoRelease, installable |-> FALSE]

OfferInit ==
    /\ published \in SUBSET Releases /\ controller \in {"off", "idle", "busy"}
    /\ listing = [releases |-> {}, known |-> FALSE, fresh |-> FALSE]
    /\ manifests = [r \in Releases |-> Unverified]
    /\ check = [c \in Checks |-> NoCheck]
    /\ changes = 0

(***************************************************************************)
(* A check.                                                                *)
(***************************************************************************)
\* installedGatewayVersion: the updater's status is read first and is known from then on.
Ask(c, channel, mode) ==
    /\ check[c].pc = "none"
    /\ check' = [check EXCEPT ![c] = [NoCheck EXCEPT !.pc = "asked", !.channel = channel,
                                          !.mode = mode, !.status = controller]]
    /\ UNCHANGED <<published, controller, listing, manifests, changes>>

\* inFlight: a check of the same channel waits for the lookup that is on its way, up to its end,
\* and has the same answer.
LookupUnderWay(channel) == \E c \in Checks : check[c].leads /\ check[c].channel = channel
UsesCache(c) ==
    \/ check[c].mode = "cached"
    \/ check[c].mode = "normal" /\ listing.fresh

Join(c) ==
    /\ check[c].pc = "asked" /\ ~UsesCache(c) /\ LookupUnderWay(check[c].channel)
    /\ check' = [check EXCEPT ![c] = NoCheck]
    /\ UNCHANGED <<published, controller, listing, manifests, changes>>

Lookup(c) ==
    /\ check[c].pc = "asked" /\ ~UsesCache(c) /\ ~LookupUnderWay(check[c].channel)
    /\ check' = [check EXCEPT ![c].pc = "lookup", ![c].leads = TRUE, ![c].mode = "force"]
    /\ UNCHANGED <<published, controller, listing, manifests, changes>>

\* GitHub answers with what is published then, or 304 when the etag says so, which is the same.
GithubAnswers(c) ==
    /\ check[c].pc = "lookup"
    /\ check' = [check EXCEPT ![c].pc = "received", ![c].answer = published]
    /\ UNCHANGED <<published, controller, listing, manifests, changes>>

\* Answers that overtook each other are taken in the order in which they come.
Receive(c) ==
    /\ check[c].pc = "received"
    /\ listing' = [releases |-> check[c].answer, known |-> TRUE, fresh |-> TRUE]
    /\ check' = [check EXCEPT ![c].pc = "looked", ![c].answer = {}]
    /\ UNCHANGED <<published, controller, manifests, changes>>

\* 304 leaves the list alone, whatever another check has put there.
ReceiveNotModified(c) ==
    /\ check[c].pc = "received" /\ listing.known
    /\ listing' = [listing EXCEPT !.fresh = TRUE]
    /\ check' = [check EXCEPT ![c].pc = "looked", ![c].answer = {}]
    /\ UNCHANGED <<published, controller, manifests, changes>>

\* A lookup that fails or is too late goes on with the list there is.
LookupFails(c) ==
    /\ check[c].pc \in {"lookup", "received"}
    /\ listing' = [listing EXCEPT !.fresh = FALSE]
    /\ check' = [check EXCEPT ![c].pc = "looked", ![c].answer = {}]
    /\ UNCHANGED <<published, controller, manifests, changes>>

\* The first part of verifyCandidate; what the caches know is answered at once.
Answered(c, latest, installable) ==
    check' = [check EXCEPT ![c] = [NoCheck EXCEPT !.pc = "answered", !.status = check[c].status,
                                       !.latest = latest, !.installable = installable]]

\* Mutant of Remembered: it does not matter for which status the result was computed.
RememberedForAny(r, status) == manifests[r].fresh

Remembered(r, status) == manifests[r].fresh /\ manifests[r].status = status

Select(c) ==
    LET j == check[c]
        r == LatestRelease(listing.releases, j.channel)
    IN
    /\ j.pc \in {"asked", "looked"} /\ (j.pc = "asked" => UsesCache(c))
    /\ \/ r = NoRelease /\ Answered(c, r, FALSE)
       \/ /\ r # NoRelease /\ ~Info[r].assets /\ Answered(c, r, FALSE)
       \/ /\ r # NoRelease /\ Info[r].assets /\ Remembered(r, j.status)
          /\ Answered(c, r, manifests[r].installable)
       \/ /\ r # NoRelease /\ Info[r].assets /\ ~Remembered(r, j.status) /\ j.mode = "cached"
          /\ Answered(c, r, manifests[r].verified /\ Installable(Manifest(r), j.status))
       \/ /\ r # NoRelease /\ Info[r].assets /\ ~Remembered(r, j.status) /\ j.mode # "cached"
          /\ check' = [check EXCEPT ![c].pc = "verify", ![c].latest = r]
    /\ UNCHANGED <<published, controller, listing, manifests, changes>>

\* downloadReleaseAsset, twice, and verifyReleaseManifest; either may fail.
Verify(c) ==
    LET j == check[c] IN
    /\ j.pc = "verify"
    /\ \E downloaded \in BOOLEAN :
          LET verified == downloaded /\ AdminVerifies(j.latest)
              installable == verified /\ Installable(Manifest(j.latest), j.status)
          IN  /\ manifests' = [manifests EXCEPT ![j.latest] =
                     [status |-> j.status, verified |-> verified, installable |-> installable,
                      fresh |-> TRUE]]
              /\ Answered(c, j.latest, installable)
    /\ UNCHANGED <<published, controller, listing, changes>>

Done(c) ==
    /\ check[c].pc = "answered"
    /\ check' = [check EXCEPT ![c] = NoCheck]
    /\ UNCHANGED <<published, controller, listing, manifests, changes>>

(***************************************************************************)
(* Around it.                                                              *)
(***************************************************************************)
Change == changes < MaxChanges /\ changes' = changes + 1

PublishRelease(r) ==
    /\ r \notin published
    /\ published' = published \cup {r}
    /\ Change
    /\ UNCHANGED <<controller, listing, manifests, check>>

\* The updater is enabled or stopped, begins or ends an operation.
Controller(status) ==
    /\ controller # status
    /\ controller' = status
    /\ Change
    /\ UNCHANGED <<published, listing, manifests, check>>

\* Ten minutes pass.
ListingExpires ==
    /\ listing.fresh
    /\ listing' = [listing EXCEPT !.fresh = FALSE]
    /\ Change
    /\ UNCHANGED <<published, controller, manifests, check>>

ManifestExpires(r) ==
    /\ manifests[r].fresh
    /\ manifests' = [manifests EXCEPT ![r].fresh = FALSE]
    /\ Change
    /\ UNCHANGED <<published, controller, listing, check>>

OfferNext ==
    \/ \E c \in Checks :
          \/ \E channel \in Channels, mode \in {"cached", "normal", "force"} : Ask(c, channel, mode)
          \/ Join(c) \/ Lookup(c) \/ GithubAnswers(c) \/ Receive(c) \/ ReceiveNotModified(c)
          \/ LookupFails(c) \/ Select(c) \/ Verify(c) \/ Done(c)
    \/ \E r \in Releases : PublishRelease(r) \/ ManifestExpires(r)
    \/ \E status \in {"off", "idle", "busy"} : Controller(status)
    \/ ListingExpires

OfferSpec == OfferInit /\ [][OfferNext]_offerVars

-----------------------------------------------------------------------------
\* The release in an answer is the last one of its channel in the order of the updater on the
\* host, which would otherwise refuse what Admin offers or never see the newest one offered
\* (system-updates.js:24, 179, releases.py:14).
LatestIsGreatest ==
    \A channel \in Channels :
        LET r == LatestRelease(listing.releases, channel)
            newer == {s \in listing.releases :
                         /\ VersionKeyLess(Installed.version, Info[s].version)
                         /\ channel = "stable" => Channel(s) = "stable"}
        IN  IF r = NoRelease THEN newer = {}
            ELSE r \in newer /\ \A s \in newer : ~VersionKeyLess(Info[r].version, Info[s].version)

\* The manifests that Admin's verifier takes and the host's refuses: no version of podman is named
\* (system-updates.js:102, releases.py:84), or an image is written in another case
\* (system-updates.js:97, releases.py:78).
OnlyAdminTakes(r) == Manifest(r).minPodman = NoVersion \/ Info[r].form = "loose"

\* Whatever mixture of cached listing, cached verification and overlapping checks an answer was
\* made from, what it calls installable the host would install: the updater was idle when it was
\* asked, version, schema and podman suit the host, and the host verifies the manifest, unless it
\* is one of those that only Admin takes (system-updates.js:159, 151).
OfferIsAccepted ==
    \A c \in Checks :
        check[c].pc = "answered" /\ check[c].installable =>
            /\ check[c].status = "idle" /\ HostCompatible(check[c].latest)
            /\ HostVerifies(check[c].latest) \/ OnlyAdminTakes(check[c].latest)
=============================================================================
