# TLA+ verification of the MQTT Trust Gateway

The gateway is a Mosquitto broker with its own certificate authority, an
administration service (Admin, Node.js) and a rootless host updater (Python)
that replaces both containers. This directory models the parts whose
correctness depends on the order of steps of several actors: what clients,
owners, timers, the supervisor, boot jobs and crashes may do between two steps
of an operation.

## Inventory

| Component | State it keeps | Operations | Talks to |
|---|---|---|---|
| Update journal (`scripts/updater/journal.py`) | `operation.json`, `history/<id>.json`, operation lock | `begin`, `transition`, `read`, `lock` | controller, service, command line |
| Update controller (`controller.py`) | the in-memory operation record | `install`, `rollback`, `recover`, `retry_recovery` | journal; host backend calls |
| Host backend (`host.py`) | `installed.json`, `maintenance.json`, units, migrations | `resolve` … `commit`, `restore`, `prune_snapshots`, `export_snapshot` | systemd, podman, broker gate, Admin's health command |
| Recovery points (`snapshots.py`) | snapshot directories, restore workspaces | `create`, `verify`, `restore` | data directory |
| Updater service (`service.py`, `cli.py`) | socket, request gate, worker thread | status, install, rollback, `enable` | Admin through the socket; the command line through the lock |
| Broker supervisor (`broker-entrypoint.sh`) | `applied-revision`, `update-gate`, the mosquitto process | start, poll, restart | Admin (`revision`), updater (`maintenance.json`) |
| Admin queue and store (`server.js`, `db.js`, `migrations/`) | the state document, audit, the promise queue | admission, `exclusive`, `saveDb`, timers | every route; updater (`ready`) |
| Broker policy (`certificate-service.js`, `pending-broker-changes.js`) | ACL, CRL, server certificate, `revision`, staged changes | `syncBroker`, `stageBroker`, `applyBrokerChanges`, `refreshPki` | supervisor |
| Certificates and one-time keys (`certificate-service.js`) | certificates, CAs, pending private keys (process memory) | issue, take, confirm, discard, renew, revoke, import | broker policy, identities |
| Identities (`identity-service.js`) | devices, archive | archive, restore, purge, delete | broker policy |
| Authentication (`auth.js`, `reauth.js`, `totp.js`, `passkeys.js`, `sensitive-*.js`) | sessions, challenges, replay counters, grants, rate windows | login, step-up, rotation, grants | the store |
| Sensitive values in the browser (`frontend/sensitive.js`, `Mqtt.vue`, `Dashboard.vue`, the dialog in `App.vue`) | revealed scopes, epoch, queue of hides, cookies, page contents | reveal, hide, fetch, sign out | the reveal and hide routes |
| Local CA (`certificate-service.js`, openssl) | `serial`, `index.txt`, records | sign, renew, register, revoke | registry |
| Service certificates and names (`certificate-service.js`, `cli.js`, `gateway.py`) | key and certificate of each service, revision, audit cursor | daily refresh, `prepare`, `broker-certificate`, apply | supervisor |
| MQTT manager, metrics (`mqtt-service.js`, `traffic-*.js`) | client, subscriptions, retained list, hourly samples | start, stop, subscribe, publish, sample | broker |
| Logs (`log-routes.js`, `runtime-logs.js`) | one stream for each tab, a count for each administrator | connect, poll, close | grants |
| Release discovery (`system-updates.js`, `updater-client.js`) | caches of the listing and of manifests | check, select, verify | GitHub, updater socket |
| Gateway command line (`scripts/gateway.py`) | the gateway lock, archives | install, update, broker-certificate, backup, restore | data directory, units |
| Rest of the web interface, release tooling | presentation only | | Admin API |

What is hard here: an operation that spans four files, two services and a data
directory and may die anywhere; boot jobs that start the services beside
recovery; a gate acknowledged by polling; a two-file journal write; replay
counters that a restore must not turn back; handlers that await inside the
queue, and a queue released by the client's disconnect; broker files, revision
and database written one after the other; one-time keys kept in memory.
`PROJECT.json` lists each of these hazards with its line and the property that
would catch it, or the reason why none does.

What makes each component correct:

* updater: an update happens or is undone as one change and loses no
  acknowledged write, nobody writes while a recovery point may still replace the data,
  data is replaced only offline, a commit is final, replay counters never go
  back, an operation ends and clients return;
* broker policy: what the broker applied is what some stored state asked for,
  never looser than the last revocation once it reported that revision;
* queue: no mutation overwrites another while its client stays, none during
  maintenance;
* one-time keys: delivered at most once, none that somebody waits for lost to an
  update;
* trust: no certificate counts without its identity or without its issuer, no
  serial number is used twice, no service finds another key's certificate;
* authentication: a code or challenge is accepted once, and once more only by a
  handler whose client left; a grant is used in the session it was made for only;
* sensitive values: what is hidden is neither shown nor fetched again, and a
  hide that reaches the server leaves no usable grant behind;
* releases: Admin and the host order versions alike and agree on what can be
  installed;
* MQTT and traffic: what is shown is what the broker has, and was seen once.

## Modules

| Module | Models |
|---|---|
| `UpdateJournal` | the operation record and the rules of its state machine (pure definitions) |
| `Updater` | controller, host backend, recovery points, supervisor gate, boot, crashes and clients |
| `AtomicUpdate` | what the updater promises: one atomic change of the release in force |
| `UpdaterRefinement` | the mapping under which `Updater` implements `AtomicUpdate` |
| `MCUpdater` | instances for TLC |
| `UpdaterProofs` | the inductive invariant of `Updater` and type correctness; offline replacement, finality of the commit, drained stops |
| `UpdaterRefinementProofs` | no acknowledged change is lost, and `Updater` implements `AtomicUpdate`; replay counters survive a restore; an ended operation has one release in force |
| `BrokerPolicy` | registry, certificate authority, broker files, revisions, supervisor and mosquitto |
| `MCBrokerPolicy` | instances for TLC |
| `BrokerPolicyProofs` | its types; the registry agrees with the CA's index; what the status calls applied is in force and refuses what was revoked; a revocation blocks one way or other |
| `MCBrokerPolicyFaults` | two instances of `BrokerPolicy` in one run: one with expiry, one with failing openssl |
| `AdminAccount` | logins, step-up verification, authentication methods, sessions, grants |
| `AdminAccountProofs` | its types; one-time proofs, grants, second factors and enrolments |
| `SensitiveView` | one browser tab that reveals and hides, with its requests under way |
| `LogStreams` | event streams of the live log |
| `SensitiveViewProofs` | the properties of `SensitiveView` and `LogStreams` |
| `Provisioning` | one-time private keys, imported certificates, trusted CAs, readiness for an update |
| `LocalCa` | serial numbers of the local CA |
| `ProvisioningProofs` | the safety properties of `Provisioning` and `LocalCa` |
| `BrokerMaintenance` | service certificates, the command line, revisions and the list of staged changes |
| `SystemUpdates` | the order of versions, the caches and the offer of a release |
| `MqttManager` | Admin's client of the broker, its retained list and its publications |
| `MqttManagerProofs` | the retained list is the broker's |
| `TrafficMetrics` | hourly traffic from running counters |
| `AdminServicesProofs` | the properties of `BrokerMaintenance`, `SystemUpdates` and `TrafficMetrics` |
| `MCAdminAccess` | instances of `AdminAccount`, `SensitiveView` and `LogStreams` for TLC |
| `MCAdminServices` | instances of `LocalCa`, `Provisioning`, `BrokerMaintenance`, `SystemUpdates`, `MqttManager` and `TrafficMetrics` for TLC |
| `MCSensitiveView` | an instance of `SensitiveView` for the finding about hidden values |

`MCAdminAccess` and `MCAdminServices` put parts that share no state into one run
of TLC: they extend the parts' modules, `part` chooses in the initial state which
of them moves, and the others stay in an initial state. The properties are the
parts' own. A behaviour is a behaviour of one part, so nothing is added to the
parts and nothing is composed; the number of states is the sum, not the product.
Parts that do share state are in one module: the account with its grants, keys
with imports and the gate, certificates with revisions and the supervisor.

### How `Updater` corresponds to the code

The controller is a program counter: `pc` names the next backend call of
`controller.py`, or `log` when the calls of a journal state are done and the
transition is next. `mode` says which chain the call belongs to: `run`
(`install`, `rollback`), `forward` and `back` (the two halves of `_recover`),
`done` (the maintenance call of `recover` for a completed operation). `mem` is
the in-memory record, which is lost when the process dies; `journal` and `hist`
are the two files of a transition, and `Record` puts a death or a failing write
between them. `Fail` lets a call raise: always when it cannot succeed in the
state (`Hopeless`), and whenever it likes under `BackendCanFail`. At `log` the
call before raised after its effect.

Restores are split at the points where a death leaves something different on
disk: runtime displaced, runtime placed, files compared and log completed,
security merged, unit by unit, installed record. `touched` stands for any write
of a service to the data files, which the comparison with the recovery point's
hashes then finds.

Broker, supervisor and Admin act on their own: the supervisor records its
policy (`SupervisorRecord`) before it polls (`SupervisorRestart`); Admin admits
a mutation when it sees no marker (`AdminAdmit`) and answers after storing it
(`AdminStore`); the broker acknowledges publishes while its listeners are
public. A reboot stops everything and leaves boot jobs for both services
(`BootStart`), beside the updater's own restart (`Resume`). Containers that die
alone are restarted by systemd (`BrokerRestart`).

mosquitto acknowledges a retained or queued message before it is on the disk:
`unsaved` is what its memory has that the data directory has not. It saves every
30 seconds (`BrokerSave`; `autosave_interval` in `broker-entrypoint.sh:22`) and
when it is stopped with SIGTERM, by the updater or by the supervisor
(`SaveInMemory` in `StopBroker` and `SupervisorRestart`). A power loss
(`Reboot`) and mosquitto's own death lose it (`MemoryIsLost`); an orderly reboot
is a `BrokerSave` before.

Ghosts: `acked` (changes a client was told are stored, but for those that went
with mosquitto's memory) and `logins` (the last replay counter accepted). Bounds:
`MaxOps`, `MaxLogins`, `MaxCrashes`.

So `NoAcknowledgedWriteLost` speaks of what updates, rollbacks, recoveries, stops
and restarts may do to a change, whatever fails. That a power loss costs up to 30
seconds of publishes is a choice of the broker's configuration, and excepted.

**Timing assumption.** The gate file may be left over from the policy the broker
had before an earlier operation, and a stale `maintenance` acknowledges an
isolation that is not there yet; `host.py` does not tell the two apart.
`NoAcknowledgedWriteLost`, `NoWriterWhileUndecided`, the refinement and liveness
hold with such a file, since the writers are stopped whether or not they were
drained. `StopsDrained` does not: it is checked and proved under
`SupervisorIsPrompt`, which says that before an operation writes the marker
(after a release lookup and two image pulls, or after hashing a whole recovery
point), the supervisor has finished the restart (about two seconds) the previous
operation caused (`SupervisorCaughtUp`). The code has no such guard. Only the run
`updater_disk_faults` sets the constant. `open` read before the broker returned
is modelled everywhere: nothing depends on it but the time clients come back.

### How `BrokerPolicy` corresponds to the code

Admin is one Node process. A *job* is one request or timer callback, and a step
of a job is what it does between two awaits: an openssl command, one atomic file
write, a save of the whole registry document. `jobs` holds what each job has in
its local variables: the document it loaded (`doc`), the certificates its loop
still has to revoke (`todo`), what `syncBroker` computed (`want`, `trusted`).
`turn` is the queue of `db.js`: a job begins when nobody has the turn. A request
gives its turn up when its response closes (`server.js`), which a client that
goes away causes early (`Disconnect`); the handler then runs on beside the next
job. Slots are only names of jobs in flight.

* `Issue`, `Sign`: signing a CSR, and renewal, which leaves earlier certificates
  alone as well. `Revoke`, `RemoveLicense` (with `LookUpCrl`): the two routes
  that revoke one certificate. `Archive`, `Delete`, `Purge`: their loops;
  archiving syncs before and after its loop and ends on a failure, deleting
  swallows failures. `Authorize`, `Block`, `Restore` save and sync at once;
  enabling through PATCH is `Authorize`. A certificate is assigned a device in
  advance (`Holder`), the serials are issued in order.
* `RevokeInIndex`, `GenerateCrl`, `PublishCrl`: `openssl ca -revoke`, `-gencrl`
  and the copy for the broker, three files that a failure or a death separates.
  `ca.crl` and its copy are both kept, since `certificateIsInCrl` reads the first
  and mosquitto the second.
* `Compare`, `WriteAcl`, `WritePolicy`, `Submit`, `ClearPending`: `syncBroker`.
  A deferred sync only stages its revision, `Apply` submits it.
* `RefreshAcl` and `RefreshPki` are the timers (30 seconds, a day). The service
  certificates `refreshPki` also renews appear as one more openssl command that
  may fail.
* `SupervisorStart` reads `revision` into a shell variable, `MosquittoLoads`
  stands for mosquitto reading its files once when it starts,
  `SupervisorRecord` writes that variable to `applied-revision`. mosquitto is
  external: it is assumed to have read its files within the second the script
  sleeps.

Revisions are random and only ever compared with the file `revision`. The model
keeps the outcome: `applied`, `supRev` (equal or not) and `pending` (absent,
staged, equal). A staged revision that was applied, replaced and is submitted
again counts as new, which costs the broker one restart more.

Three ghosts. `interrupted`: a job ended half-way and nothing was submitted since,
because Admin died inside it or because the daily refresh failed between the CRL
it published and the sync. Such an end between the policy files and the revision
leaves files that the ACL timer finds unchanged, so only the next forced sync, at
the latest the next daily refresh, submits them. `abandoned`: a client left while
its request was under way, so that two jobs may run at once. `failed`: certificates
whose revocation openssl broke off.

`AppliedIsCurrent` excepts the first two by name, and `RevokedIsEventuallyRefused`
and `BlockedIsEventuallyRefused` say that the first ends. `RevokedIsRefused` and
`RegistryAgreesWithIndex` speak of executions without a mishap: a death between
openssl's index and the save leaves a certificate active that the CA calls revoked,
and a disconnect can do worse (finding `lost_update`); `RevokedIsRefused` excepts
`failed` as well, for which the code blocks the device instead. That it does is
`BlockedOneWayOrOther`, which holds after a death too, as long as no client left.
The two liveness properties hold after a disconnect as well: the run
`policy_abandoned` checks them there.

### How the modules of Admin's other parts correspond to the code

**`AdminAccount`.** A request whose client stays is one action, since the queue
runs one handler at a time and a handler that dies between its two saves has only
spent its challenge. A request whose client goes away gives up its turn while it
awaits argon2 or a passkey's verification (`server.js:74`): others run, and then
it decides by the database it loaded, and saves that one. These are two steps:
`Abandon` keeps the database as it is in `late`, `LateSave` puts it back, and the
request then runs on it as any other. The result is what the code stores when the
handler goes on at once, and more: others may come in between. Two overlapping
logins accept one code this way, a session that was made meanwhile is lost, and
one that ended comes back. `ProofsWorkOnce` therefore allows one more acceptance
for each such save (`overwrites`), and none without; `GrantsFollowSessions`
excepts the sessions that were lost (their grants stay in memory, where nobody
can present them without the session), and `EnrolmentsAreProven` is about the
steps of requests, not about `LateSave` itself.

`StepUp` is `verifyReauthentication`: a password with a code,
or a passkey's answer to a challenge that is kept under the session and the
operation it was asked for; only an answer deletes its challenge (`Unspent`).
`SecondFactorBehindReveal` says what the code gives: without an enrolled second
factor a password is enough to turn verification off (`SensitivePreferences`,
`mustVerify`), and then a reveal asks for nothing. While nobody verified such a
change, whoever may see a value proved two factors; and the cookie `reveal-auth`,
which spares the next reveal its proof, is given for two factors only. `Rotate` is `rotateSession`, which ends every other
session. `Restart` loses the grants, which are in memory, and nothing else.
Whatever an administrator was ever shown (a challenge, a code) may be sent
again by any live session at any time: that is what `ProofsWorkOnce` is about.
The ghosts count how often a code and a challenge were accepted and which
session proved what.

**`SensitiveView`.** The tab, its cookies and the requests under way. `HideScopes`
is `hideSensitive()`: it clears the reveal at once, and what the server hears is
queued. Vue's watchers in the pages are synchronous (`flush: 'sync'`), hence
`PageFollows` is part of the action that changes a reveal, before the hide is
sent. A reveal remembers whether the epoch is still its own (`current`);
`TakeGrant` is the continuation of the request, with the check that lets a late
grant go. Answers arrive in any order; `HideLost` loses one. A hide is refused with 401
when there is no session any more (`auth.js:73`) and with 503 during maintenance
(`MaintenanceRefuses`, `server.js:65`): its handler does not run, and the answer
clears no cookie, which nobody notices. `missed` says that a hide did not reach
the server, by being lost or by a 503. `SessionEnds` and `Expire` are the
server's. `NoForgottenGrant` is about the browser's cookies: once the hides are
through and each reached the server, none that the server would honour is there
but of the grants the tab shows, also while other reveals are under way. A hide
refused for want of a session leaves a cookie that is worth nothing, because the
session took its grants along.

**`LogStreams`.** `poll()` in three steps, since it awaits the file between two
checks of its grant. The request's and the response's `close` events come apart,
in either order or only one (`reports`).

**`Provisioning`.** `memory` is `pendingPrivateKeys` and `deliveredPrivateKeys`;
`turn` names the handler that keeps the queue while it waits for openssl, so that
what a handler did before its await and what it does after it are two actions.
`making` has the keys in the making, each with the registry its handler loaded: a
client that goes away (`ClientLeaves`) lets the queue go on, and the handler then
saves that registry over what others saved. `Healthz` takes its turn as
`server.js:38` does, which makes its answer true of every key that somebody waits
for; a key whose client left may be set after it and is lost when Admin stops
(`certificate-service.js:233-235`), with a record that stays pending. `ReadyHolds`
says both, and `TrustIsBacked` speaks of executions where nobody left
(`NobodyLeft`). An import is one action, and the clients of imports and of changes
to the trusted CAs stay.
`SubjectsAreDevices`, a hypothesis of the proofs, says that the certificate of
an imported credential names an identity: the import refuses another one. A key
that was delivered but whose license or identity was removed before it was
confirmed can be neither confirmed nor cancelled: it stays in memory and
`/healthz` says not ready until Admin restarts (`KeysFollowRecords` names that
case with "revoked" and "deleted").

**`LocalCa`.** One openssl command or one file write for each step. `openssl ca`
advances `serial` itself; renewal reserves the number, signs with `openssl x509`
and registers with `openssl ca -valid`. A command may fail or be killed with
part of its files replaced, and Admin may die in between. There is one handler of
the CA at a time: two that overlap after a disconnect are left out here, and
`SerialsAccounted` says nothing about them.

**`BrokerMaintenance`.** `gateway.py` stops Admin while a command of `cli.js`
runs, so `process` is one or the other. A renewal writes the key only when there
is none, then the certificate, then the revision; the cursor of the audit log is
written before the revision. `AwaitBroker` is the loop that waits for
`applied-revision`. A death of the command line between the certificate and the
revision makes a retry answer that the certificate "already matches"
(`certificate-service.js:517`) while the broker still has the old one; the
daily refresh submits a revision at last. `AcknowledgedIsLoaded` speaks of the
answer "updated", which is never given too early. Jobs keep their turn to the end:
a disconnect between `stageBroker` and the audit after it, which would list an
event that an `Apply` in between submitted, is left out.

**`SystemUpdates`.** `Before` is `compareSemVer`, `VersionKeyLess` the key of
`releases.py`. The checks bypass the queue and overlap at each await (`Ask`,
`Lookup`, `GithubAnswers`, `Receive`, `Select`, `Verify`); `listing` and
`manifests` are the two caches. Two verifiers read the same manifest: `AdminVerifies`
and `Compatible` are `verifyReleaseManifest` and `evaluateReleaseCompatibility`,
`HostVerifies` is `verify` of `releases.py`, `HostCompatible` what `resolve` and
`compatible` of `host.py` compare. They differ twice: Admin takes a manifest that
names no version of podman, which makes `version_key` raise on the host
(`system-updates.js:102, 113`, `releases.py:84`), and Admin's expression for an
image ignores case (`system-updates.js:97`, `releases.py:78`). `OfferIsAccepted`
names these manifests (`OnlyAdminTakes`) and says that there are no others: what
else Admin offers to install, the host verifies. The rest of what the verifiers
look at, and the signature, is abstracted to `form`.

**`MqttManager`.** The client, the two directions of its connection and the
broker's retained messages. `RestartClient` is the daily refresh, which replaces
the client and with it what would have been sent again. A topic that Admin
published to itself on this connection is excepted by name (`own`): the handler
writes its own value after the answer, when a newer message of a device may have
been handled already. The limit of subscriptions is looked at before the await
(`mqtt-service.js:99`), so `subscriptions` may exceed it by those under way; this
bounds nothing but the list and no property depends on it.

**`TrafficMetrics`.** One of the metrics stands for all. `Update` may cross the
end of the hour between reading the clock to count and reading it to save.

## Runs

| Run | Instance | Shows |
|---|---|---|
| `updater` | 2 writes, 2 releases, 2 operations, 2 deaths or reboots, 1 login, commands may fail, the gate file may be stale | no acknowledged write lost but with mosquitto's memory, no writer while undecided, settled states consistent, replay counters kept, refinement of `AtomicUpdate` |
| `updater_disk_faults` | 1 write, 2 operations, 1 death, journal writes may fail, `SupervisorIsPrompt` | types, offline replacement, drained stops, finality of a journaled commit |
| `updater_live` | 1 write, 2 operations, 1 death, no login, `FairSpec` | operations end, clients are readmitted |
| `journal_fault`, `power_loss`, `torn_history` | 1 operation | the disagreements below |
| `policy` | 1 device, 2 certificates, 1 mishap; in one half one certificate may expire, in the other openssl may fail (`faulty`) | what the status calls applied is in force, revoked certificates are refused; index and registry agree, a revocation the CRL did not take blocks the device |
| `policy_abandoned` | 1 certificate, 2 jobs in flight, clients may leave, 1 mishap, `FairSpec` | blocked devices and revoked certificates are refused in the end |
| `lost_update` | 2 certificates, 2 jobs in flight, clients may leave | the fourth disagreement below |
| `admin_access` | account: 3 sessions, 2 challenges, 1 passkey, 1 enrolment, 2 time steps, 1 scope (the third session only while time stands still, with two of its challenges and enrolment), and, with 1 old database saved late, 2 sessions and 1 challenge or time step; view: 2 scopes with a page each, 2 reveals, 1 fetch and 2 hides at a time, up to a hide that misses the server; logs: 2 streams, limit 1, 2 versions | proofs work once, grants follow sessions, second factors, enrolments; nothing shown or kept that is hidden; streams counted and under their grant |
| `admin_services` | CA: 4 numbers, 3 failures; 1 device, 2 requests, 2 certificates, 1 CA, 1 restart or 1 client that leaves; 2 services, 1 edit, 1 change, 1 mishap; 4 releases around an installed candidate, of which one of three and the stable one are there, 2 checks, 1 change; MQTT: 2 topics, 1 value, 1 publication, 2 filters, 1 outage; metrics: 2 hours of 3 kept, 3 messages, 3 restarts | serial numbers, one-time keys, readiness, trust, certificates beside their keys, the list of staged changes, the order and offer of releases, retained messages, traffic, the command line's answer |
| `hidden_means_cleared` | `SensitiveView` with 2 fetches at a time | the fifth disagreement below |

Two operations are enough for an installation followed by its rollback or by a
second installation; two deaths for a recovery that dies itself; two releases
with different schemas because every decision compares the release of an
operation with the one before. The second write distinguishes a change made
before the snapshot from one made after it. Deadlock is not checked: when the
bounds are spent and nobody asks for anything the system rests.

In `BrokerPolicy` certificates interact through their device only (whether any
is usable, the loops over all of them), so one device with two certificates has
the interesting cases: one revoked and one not, one expired and one not, a loop
that fails at its second turn. Two jobs in flight are what one disconnect can
cause. A mishap is a death of Admin, a death of mosquitto or a disconnect; they
are counted together (`MaxMishaps`), and one is enough for the properties, which
say what one of them can leave behind. Deadlock is checked in the two passing
runs: the timers never end.

In `AdminAccount` three sessions are a session that proves itself, one that
replaces it and one beside them; two challenges and one enrolment are enough
because every property is about one proof that is accepted twice, or about one session
after another's end; two steps of the clock show all the codes that are valid at
once (the last, this, the next). Old databases are a part of their own (`late`):
one that is saved once, with two sessions and either a challenge or a step of the
clock, reaches two logins that accept one code, an answer that is accepted twice
and a session that is lost under its grant. In `SensitiveView` two reveals overtake each
other, two hides queue behind each other, and a list page and a vault page are
the two ways pages treat hidden values; a behaviour rests when a hide missed the server,
since nothing is claimed of cookies then and what the tab shows does not depend on
what the server heard. In `LocalCa` three failures let a number
be lost in each step of a renewal. In `Provisioning` one of the two certificates
is for a key that Admin made; one client leaves, since two keys share nothing but the
registry that is saved over. The releases of `SystemUpdates` are the stable one,
which may come while checks are under way, a candidate that orders differently as
string and as identifier and names no version of podman, one whose images only Admin
takes, and one without a migration, around an installed candidate. In `MqttManager` an outage, a device's message and a
publication meet in any order, with two topics for the limit of the retained
list. Deadlock is not checked in these runs: sessions, reveals, publications and
streams are used up.

The first run keeps `JournalCanFail` false: under a failing journal write the
first finding breaks several of its properties. The second run lets it fail.

**Fairness** (`FairSpec`): the lock holder keeps running (`Controller`), systemd
restarts the service, whose constructor calls `recover()` (`Resume`; unit
`Restart=on-failure`), the supervisor's loop polls, boot jobs run
(`WantedBy=default.target`). Owner and clients owe nothing, commands may fail
forever, and the number of crashes is bounded.

In `BrokerPolicy` a promise that was awaited settles (`JobStep`, weak), the
supervisor's loop runs on (`SupervisorStep`, weak) and the daily refresh gets its
turn (`RefreshPki`, strong: it is enabled only while nobody has the turn, and the
queue is first come, first served). Owners owe nothing, in particular no `Apply`.

## Where the code disagrees with what the repository says

* **`journal_fault`** – `journal.transition` changes the record in memory before
  it is written. If the write of COMMITTING raises, `_recover` goes forward,
  writes `installed.json` and opens the gate, while `operation.json` still says
  HEALTH_CHECKING; a crash then makes the next recovery restore the old
  snapshot over it. `docs/system-updates-architecture.md:67` and the comment at
  `controller.py:40` exclude this.
* **`power_loss`** – after a reboot between the rename of the restored runtime
  and the end of the restore, the services come up at boot and write to the
  restored files; the resumed restore finds other hashes and asks for the
  owner, whose retries fail the same way. The docstring at `snapshots.py:195`
  says the restore resumes.
* **`torn_history`** – a crash between `operation.json` and the history file of
  COMPLETED leaves a rollback that `status()` offers and `rollback()` refuses
  for ever: recovery does not rewrite the history file. Pruning then keeps that
  recovery point for ever as well.
* **`lost_update`** – the queue ends a request's turn when its response closes.
  A client that disconnects while its handler awaits openssl lets the next
  request begin; both save the whole document they loaded, and the later save
  undoes the earlier one, a saved revocation included. `admin-web/src/db.js:89`
  says all writes run through one queue.
* **`hidden_means_cleared`** – hiding the MQTT values deletes the reveal
  (`sensitive.js:19`), the page's synchronous watcher at once fetches the history
  again (`Mqtt.vue:68`), and only then the hide is sent. The cookie of the grant
  is still valid, so the answer has the contents, and the page keeps them while
  the scope is hidden. `docs/sensitive-visibility.md:15` says that fetched records
  are cleared when the scope is hidden. A later reload or navigation clears them.
  Pages that fetch only while revealed do not have this (`VaultFollowsGrant`).

## Proofs

`UpdaterProofs` proves `Spec => []TypeOK` for every value of the constants that
satisfies `UpdaterAssumption`. `TypeOK` is not inductive: `Snapshot` indexes
`snaps` by the operation in memory, `Log` asks for the successor of a state, so
types depend on control. The inductive invariant `IInv` adds `Control` (which
`pc` goes with which `mode` and which state of `mem`), `Link` (how `mem` and
`journal` are related while the lock is held, and what is known when it is
not), and `Supervised` (the broker's policy and whether it runs). One lemma per
action, each split along the conjuncts it can disturb; `RecordInv` carries the
argument for the three outcomes of a journal write once for all five actions
that write one.

Its second part builds on it:

* `ReplacesOffline` – `Down`: from the stop on, services are down *and* no boot
  job is left, hence none can start one;
* `CommitIsFinal` – an action property: `Synced`, `Fresh`, `Moving` and `Absent`
  say that a committed journal is matched by a committed record in memory, that
  such a record is never in a restore, and that the data is present whenever
  one is committed;
* `StopsAreDrained`, under the hypothesis `SupervisorIsPrompt` – `Drain`: from the
  acknowledgement to the stop, the marker stands, no request is in flight,
  mosquitto is private.

`UpdaterRefinementProofs` proves, under the hypothesis `JournalCanFail = FALSE`,
that no acknowledged change is lost (`WritesSurvive`), that clients are locked
out while the recovery point may replace the data (`UndecidedIsShut`), and that
`Updater` implements `AtomicUpdate` (`ImplementsAtomic`). Deaths between the two
files of the journal, failing calls and reboots are covered; a journal write that
raises is not, because the record in memory may then differ from the one on disk
(`Same` fails). The invariant is in two parts:

* `Kept`: `Files` says what is on disk whoever runs (`Pointed`: a journal that
  names a recovery point has one; `Shut`, `Held`: while it may replace the data
  clients are locked out and it has every acknowledged change, otherwise the data
  or the memory of mosquitto have it; `PutBack`: data put in place are the recovery
  point's; `AllNamed`: the fingerprint of an
  installation and its recovery point have the same changes, which is why a
  rollback on request loses nothing). `Course` says what the running controller has
  established at each call (`Same`, `PastStop`, `Leaving`, `Exact`, `Rolling`,
  `Undoing`, `NamedAt`). None of it relies on an acknowledged isolation: when the
  snapshot is taken both services are stopped, and a mosquitto that is stopped has
  nothing in memory (`ClosedIsSaved`). What services, supervisor, reboots and
  mosquitto's savings do is gathered in `Aside`: the data only grow, by changes of
  clients, and not at all while clients are locked out.
* `Release`: `Lineage` relates an installed record to the operation that made it,
  `Decided` says that an operation with nothing to undo left the installed record
  alone, and `Choice` that the new release is not the one in force.

`LogImplements` has the step at the heart of the refinement: the transition into
`COMMITTING` changes the release in force, and by `Exact` what survives moves
from the recovery point to the equal data at that moment. Each other step is a
stutter (`Stutters`), moves the phase only (`PhaseMoves`) or is a client's change:
publishes become a `ClientWrite` of `AtomicUpdate` when mosquitto saves them
(`AsideSteps`, `ClientsImplement`), so what it had not saved never was in the
abstract data.

Its second part builds on that invariant, under the same hypothesis, and first says what each journal write and each recovery does (`LogAdvances`,
`RecoveryDiverts`), once for both of its theorems:

* `CounterKept` – `Counts`: the last counter that was accepted is in the data or,
  while recovery may replace them, in the recovery point; `Reads`: what a restore
  read before it moved the data away is that counter, so what it writes back
  afterwards is too;
* `EndsConsistent` – `OneRelease`: a record is about one release; `Ran`: a service
  that runs was started from the unit that is there; `InUse`: past the commit
  point and before the first mutation, schema and units fit the release in force;
  `Gates`: no marker is left when nothing is unfinished; `Placed`: what the chain
  of calls has put in place so far fits the release it leads to. `OfflineWhileReplacing`
  is needed as well: a unit is rewritten while its service is down, or `Ran` fails.

`BrokerPolicyProofs` proves `Spec => []TypeOK` from `PolicyAssumption`. Here
`TypeOK` is inductive, because it says that a job about to revoke has a
certificate to revoke and that only archiving syncs twice (`HasTarget`); lemmas
about the helpers (`GoTo`, `Begin`, `Finish`, `Synced`, `Syncing`, `Revoked`)
carry the argument for the actions.

The second part of `BrokerPolicyProofs` proves `Spec => []RegistryAgreesWithIndex`. The
invariant needed is `TypeOK /\ (mishaps = 0 => Alone)`: without mishaps at most
the job whose turn it is is active, the document it works on is the stored one
(`FreshDoc`), and it knows the state of the certificates it is about to sign or
revoke (`Signing`, `Targets`). `Explained` then says that whatever the index
calls revoked and the registry active is what that job is revoking; each outcome
of `Revoked` discharges or keeps it.

The third part is about what the broker was told. Two invariants about every job
together come first: `OrderlyAlways` (while no client left, at most the job whose
turn it is is active and knows the registry; a death does not break that) and, with
it, `Following`. This one says step by step what of a change has got how far
(`Delivered`):

* `Announced`: what mosquitto has not read (`Read`) waits for the owner, or the acting
  job will submit it, or a death or a failure is on record (`interrupted`);
* `AclFits`: the ACL fits the registry unless the acting job is about to write it, and
  then what that job computed does;
* `EnabledActive`: only active devices are enabled;
* `Staged`: archiving revokes behind a staged revision, and the two routes that revoke
  know the device of their certificate;
* `CrlFollows`: index, the CA's CRL, the broker's copy and the registry's revoked
  certificates differ only by the revocation at work and by what openssl broke off;
* `Acknowledges`: an applied revision is the one in the file.

When nobody is at work and a revision is applied, `Delivered` leaves nothing in
between, which is `AppliedIsTrue`, and with `CrlFollows` also `AppliedRefuses`. `RevokingBlocks`
is an action property: a step that saves a revocation finds it in the CA's CRL or
blocks the device in the same save.

`AdminAccountProofs` proves the types, and four properties on top of them. The
handlers share few operators, so the proof first says what a request may do to codes,
challenges, grants and proofs (`Moves`), then that every handler makes such a move,
and then reasons about moves and about `LateSave` only. A move accepts at most one
code and one answer, and fresh ones. `ProofsWorkOnce` then needs that a code that was
used `overwrites + 1` times is not after the last accepted step of its secret
(`CodesInOrder`), that an answer that was used so often is no open challenge
(`OpenUnanswered`), and that numbers not drawn yet were never used, which holds of the
databases that handlers loaded as well (`LateDrawn`); a late save adds one to the
count, so both hold for whatever it brings back. `GrantsFollowSessions`,
`SecondFactorBehindReveal` and `EnrolmentsAreProven` need that a challenge and a
pending enrolment, in the database or in an old one (`LateProven`), belong to sessions
that proved what they stand for, that replacing a session ends what the others had,
and that the policy was not changed without a proof (`PolicyProven`).

`ProvisioningProofs` proves `KeySentOnce`, `KeysFollowRecords`, `ReadyHolds`,
`TrustIsBacked` and `ActiveNeedsIdentity` for every number of devices, requests,
certificates and CAs. The inductive invariant is a conjunction of named parts:
types, `TurnOK` (who keeps the queue waiting), `HandlersOK` (a key in the making is in
nobody's registry and was never sent, and its handler has the turn as long as its
client is there), `KeysOK` and `LoadedOK` (where a key may be for each state of its
record, in the registry and in those that handlers loaded, and how often it was
sent), `GateOK` (nobody who could make a key with a client that waits has the turn once
the answer was given) and `TrustOK`, which holds while nobody left. `KeysOK` survives a
late save because a record that an old registry has says nothing about its key that
later steps could make false: a key that was sent is never in memory again.
`IdentitiesHold` adds `IdentitiesOK`, which relates the certificates and requests of a
device to the state of the device: every way out of "active" takes the certificates
with it. `LoadedHeld` says the same of the registries that handlers loaded, which are
saved whole.

Its last part proves `SerialsAccounted` of `LocalCa`. The invariant adds that the
index lists only numbers below `serial` (`BelowSerial`) and where the number of the
handler at work stands (`NumberHeld`): it is the next one until it is reserved,
in nobody's index until it is registered, and on no record until it is recorded.

`SensitiveViewProofs` proves the three properties of `SensitiveView` that a run
checks. `ShownOnlyInView` and `VaultFollowsGrant` are inductive together with the
types. `NoForgottenGrant` is not: `CookiesKnown` says that, while no hide missed the
server, a cookie the server would honour is that of the grant shown, or a hide of its
scope is queued, or under way with that cookie in its request (`Awaited`), so the
server will revoke it before the hide is through. `CookiesTaken` says that a cookie
belongs to a reveal whose answer is there, hence no answer makes it valid again; and
without a session no grant is valid, which is why a hide that is refused with 401
leaves nothing usable. For `LogStreams`, `StreamsCounted` is inductive with
the types: each step opens or closes at most one stream and counts it then, so the
lemmas are about the cardinality of the set of open streams.

`AdminServicesProofs` proves the properties of `BrokerMaintenance`, `SystemUpdates`
and `TrafficMetrics`:

* `ServiceKeysFit` – `Keyed`: what a renewal has at hand is for the key it will
  meet, so each write leaves a pair that fits;
* `PendingListIsExact` – `ListKnown`: the events no revision announced are those
  after the last submission, and a cursor that matches the revision stands there;
* `AcknowledgedLoaded`, an action property – `Waits`: while the command line waits,
  an applied revision, or one the supervisor is about to record, is of a broker
  that read the certificate on disk;
* `OffersTheGreatest` – `VersionOrder`: `compareSemVer` and the host's tuples are
  the same order, place by place; `VersionsOrdered`: it is irreflexive and
  transitive; `GreatestExists`: so every finite set of releases has one that none
  follows, which makes the `CHOOSE` of `LatestRelease` meaningful;
* `OffersAccepted` – `Verified` and `Answers`: what a cache says of a release is
  true of it, and an answer is made of what its own check read; what Admin then
  calls installable is compatible on the host too, by `VersionOrder`, and passes the
  host's verifier or is one of the manifests that only Admin's takes;
* `TrafficObserved` – `TrafficInv`: what the hours in memory add up to, together with
  what the next reading will count (`Unseen`), went through the broker, and no hour
  that is kept has more in its row than in memory (`StoredWithin`). `Total` is a fold
  over the hours, a recursive function on sets. The library's induction theorems
  cannot be used here, so its equation (`SumExists`), its values (`SumIsNatural`), the
  order of the hours (`SumSplits`) and the comparison of two sums (`SumAtMost`) are
  each proved by looking at a smallest set of hours for which the claim fails
  (`SmallestSet`), which well-foundedness provides.

`MqttManagerProofs` proves `RetainedAgrees`. The invariant is `Agreed`: for a topic
that Admin did not publish to, the last packet under way about it says what the
broker has, and if there is none, the retained list already does. `Beginning` says
that a connection whose subscription to `#` was not taken has no messages under way
and that the list has only topics of Admin's own; `Handlers` that those are the
topics of publications whose handler has not gone on.

Assumptions. Every module whose proofs need one names what its constants must be
(`UpdaterAssumption`, `PolicyAssumption`, `CaAssumption`, `ViewAssumption`,
`LogAssumption`, `MaintenanceAssumption`, `OfferAssumption`, `MqttAssumption`,
`TrafficAssumption`, `AccountAssumption`, `ZeroIsNone`), and TLC evaluates them in the runs:
finiteness, types, and what the code fixes (at least one service, versions that
pass the syntax check of `releases.py`, filters of owners other than `#`).
`SubjectsAreDevices`, `JournalCanFail = FALSE` and, for `StopsAreDrained` only,
`SupervisorIsPrompt` are hypotheses of the theorems that need them and appear in
their statements.

Only model-checked: liveness (`OperationEnds`, `ClientsReadmitted`,
`BlockedIsEventuallyRefused`, `RevokedIsEventuallyRefused`), since fairness and
ENABLED are out of the prover's reach. Every other property of the passing runs is
a theorem. The runs and the proofs complement each other: the runs show that the
situations the properties speak of do occur, since each property has a change of
the code that breaks it there.

## Not modelled, and why

* X.509, OpenSSL's cryptography, signatures, archives, password hashes and
  WebAuthn: their outcome is a Boolean.
* The network, file permissions, path checks, validation of formats.
* The updater's socket and its handler threads, pruning and export of recovery
  points: who may touch anything is decided by the operation lock and the journal
  under it, which are in `Updater`. `enable` and the command-line `backup` and
  `restore` are single commands with everything stopped, and promise nothing
  about a death in between.
* Turns that end early (`server.js:74`) are modelled where they matter to what is
  claimed: for the registry and the broker's files in `BrokerPolicy`, for logins and
  step-up in `AdminAccount`, for keys and readiness in `Provisioning`. They are not
  in `LocalCa` (two handlers of the CA at once), `BrokerMaintenance` (between
  staging a revision and its audit entry) and, in `Provisioning`, for imports and
  changes to the trusted CAs: the properties there are about failures and deaths
  with one handler at a time.
* The rate limiter of logins: it counts in a window of time for each address and
  only refuses; the properties of `AdminAccount` hold whatever it lets through.
* Time beyond order: the retention of archives, expiry of grants, challenges and
  caches happen at any moment rather than after their period.
* The presentation in the web interface: pages that list what the API returned.
  `Mqtt.vue` also leaves an `EventSource` open when the page goes away while its
  first request is under way (`Mqtt.vue:72`), and the answer to the hide of a blurred
  window clears a cookie that a newer reveal set (`sensitive.js:70`); the second
  is in `SensitiveView` and costs the owner another verification, the first is not
  modelled.
* The history of MQTT messages and its event streams, which have no promise about
  order or completeness.
* In `Updater`, configuration files other than units, which take the same path
  through a restore as the units do. In `BrokerPolicy`, external and imported
  certificates (in `Provisioning`) and the maintenance gate (in `Updater` and
  `Provisioning`).
* The composition of all parts in one specification: what they share (the gate,
  revisions, sessions, readiness) is modelled on both sides of each pair, and
  their product is out of TLC's reach.
