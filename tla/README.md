# Embedded PKI: TLA+ models and proofs

This directory models the certificate fleet manager of this repository: the
mTLS backend (`server/cmd/server`), the admin tool (`server/cmd/certctl`), the
SQLite store they share (`server/internal/store`) and the trust score that
gates issuance (`server/internal/trust`). TLC checks small instances, TLAPS
proves the central properties for any instance.

References such as `store.go:250` are to `server/internal/store/store.go`;
`trust.go` is `server/internal/trust/trust.go`, `main.go` is
`server/cmd/certctl/main.go`, `pki-common.sh` is `scripts/lib/pki-common.sh`.

## The system

There is no daemon that owns the state. Every `certctl` subcommand is a process
that opens `data/pki.db`, executes a handful of SQL statements, perhaps runs
`openssl` or `nmap` in between, and exits. The backend opens the same file and
checks every request against it. No method opens a transaction: each statement
commits by itself, and a method of several statements can be interleaved with
any other process, fail half way, or be killed half way. `go-sqlite3` waits a
few seconds for a lock and then returns `SQLITE_BUSY`, so any statement can fail.

| Component | State | Operations | Modelled in |
|---|---|---|---|
| Access decision, `CheckAuth` and the handler | `certificates`, `blacklist`, `events` | two lookups, an expiry test, up to two log rows | `AccessControl`, its promise in `AccessPolicy` |
| Administration, `RecordIssued`, `Revoke`, `Blacklist`, `Unblacklist` | the same | change, then log | `AccessControl` |
| Trust score, `trust.Calculate` | none | MAC and ports to score and status | `TrustScore`, `ScanDrift` |
| Inventory and gate, `RecordScan`, `SetOnboardingStatus`, `CheckIssuanceAllowed`, `--force` | `devices`, `events` | read, upsert, log; update, log; read, log, sign | `TrustGate` |
| Issuance and revocation by name, `cmdIssue`, `cmdRevoke` | `certs/issued/<name>/`, `ca.srl`, `certificates` | genrsa, req, x509, rm, two reads, insert, log | `Issuance` |
| CA creation, `cmdInitCA`, `pki_ensure_ca` | `certs/ca/` | stat, genrsa, chmod, req | `ServerLifecycle` |
| The backend's certificate, `pki_ensure_backend_cert` | `certs/issued/backend-server/` | look, genrsa, req, x509, rm | `ServerLifecycle` |
| Server process and scripts | pid file, server log, port, `certs/`, `data/` | setup, start, stop, wipe; open, read, bind, load, die | `ServerLifecycle` |
| Onboarding scripts | all of the above | up to the scan | `ServerLifecycle` |
| Their purpose: scan, approve, issue, copy | `devices`, `certificates`, `blacklist`, the hosts | one look, statement or copy at a time | `Onboarding` |
| Device identity, `deviceIDFor` | none | type, MAC or IP to id | `Onboarding` |
| Schema, `Open`, `migrate` | tables, indexes, columns | create, alter | `Reports` |
| Reports: `export`, `expiring`, `log` | none | queries over text timestamps | `Reports` |
| Arguments and output, `list`, `devices` | none | - | not modelled: pure input and output |

The components meet in the database and in the files: issuance writes the row
the access decision reads; a scan writes the row the gate reads; the serial in
the certificate file is how `revoke` finds its row; the pid in a file is how
`--stop` finds the server; a device id ties a scan, a status, a certificate and
a blacklist entry to each other. What is hard here is what tests hardly reach:
another process between two statements, a statement that fails where the error
is dropped, a kill between a change and its event, two runs of `openssl` on one
file, an address that has moved to another device. `PROJECT.json` lists these
hazards at their lines, with the properties that cover each.

What makes each component right:

- Access: a yes means that the certificate was permitted, a no that it was
  refused; the revoked and the blacklisted stay out; every answer is logged.
- Administration: an acknowledged change is in force and in the log; a
  revocation is final.
- Trust: the status is the one the documented rules give; risk always wins.
- Gate: a status has a reason, a signature has an approval or a logged force.
- Issuance: a row is the row of one certificate; what is handed over works; a
  revocation hits a certificate of the device it names.
- Lifecycle: a CA and the backend's certificate lie beside their keys; a server
  serves the CA that is there and can be stopped; a start that is reported leads
  to a service.
- Onboarding: who gets in was vetted itself; who is blacklisted stays out under
  every address.
- Schema and reports: who has opened the database finds all of the schema; the
  reports select the newest and the expiring rows.

## Modules

Every action is one SQL statement, one file access or one external command, so
that TLC interleaves processes exactly where the code can be interleaved. A
process is a record whose `pc` says which statement is next and whose other
fields are the Go locals that survive from one statement to the next. Names
starting with `Bug` are mutants: slips a programmer could have made in the
definition below them. They are in no next-state relation; with the definition
replaced by the mutant the property must fail.

**`CertificateStore`** declares the tables `certificates`, `blacklist` and
`events` and the statements on them. `NoRow` is a serial without a row. An
event keeps the call that wrote it, as its id would.

**`AccessControl`** is `CheckAuth` against administration. `request[r]` goes
through `blacklist`, `certificate`, `expiry`, then `grant` and `warn` or
`deny`; `command[c]` changes a table, then logs. `Faults` selects whether reads
and writes may fail. `seen[r]` is a history: what the database said of the
certificate at every instant of the request. It lets properties ask for *one*
instant that justifies the answer. A certificate is signed before the model
begins; `RecordIssued` is when it becomes known. Time is a counter of ticks
where `WarnWindow` stands for 30 days.

**`TrustScore`** is `trust.Calculate` with its tables, without the wording.
**`ScanDrift`** is a host that opens and closes ports and changes its address,
rescanned each time. `Verdict` states the outcome as a decision list, with no
arithmetic; the invariant is that the two agree.

**`TrustGate`** is the `devices` table under concurrent scans, overrides and
issues. A scan is a probe (the host is looked at), a `SELECT`, an upsert and an
event, in this order; `clock` and `history` remember the order of probes and
overrides, of which the table keeps only the last. `certctl issue` is modelled
up to the signature.

**`Issuance`** is the rest of `certctl issue`, and `certctl revoke`. A key is
named after the process that generated it, so that `key` in a certificate says
whose it is. `Running` is the number of processes at a time; `alone` remembers
whether two have ever overlapped, so that one run shows both what holds for an
operator who waits for each command and what holds for any overlap. The model
begins where setup has left the CA: it has signed the backend's certificate, so
`ca.srl` exists, and serials are counted from the one in it. Without the file
`openssl x509 -CAcreateserial` draws a random serial in each process, and two
overlapping first issues do not collide; that first serial is not modelled.

**`AccessPolicy`** is what the access decision promises, with no database in it:
certificates have a standing that moves forward only, a request hears the
standings of its certificate while it is open, and the verdict needs one that
justifies it. `AccessControl!Policy` is the refinement mapping: a standing is
computed from row, clock and blacklist, a request is open while its `pc` is in
`Checking`, and it has heard `seen[r]`. A step of administration is `Change` or a
stutter, the last statement of a request is `Answer`, and everything between is
invisible. The promise is weaker than "right at one instant" in one case only:
`MayAllow` permits a yes when the device was not yet barred before its
certificate was recorded and the certificate was in force after. `CheckAuth`
really gives that answer when both happen between its two lookups. Where lookups
may fail (`Failing`) the promise is weaker by what the code gives up: a failed
blacklist lookup loses the bar, and a failed certificate lookup may refuse
anyone; a yes still needs an instant at which the certificate was in force.

**`ServerLifecycle`** has one record per invocation of a script and one per
server it has started. `certs/ca/` is a key file, its mode and a root that names
the key it certifies; `certs/issued/backend-server/` is a key, a request and a
certificate that names its root and its key; `data/` is whether it exists, the
pid file and whether `server.log` holds the line a start waits for. A wipe
removes `certs/` and then `data/` and is counted, so that a server or an openssl
with an open file can be asked whether it still belongs to what is there.
`certctl init-ca` and `certctl issue backend-server` go step by step, each
`openssl` opening its output before or after its input as it does, and can be run
by hand as well; setup, start, stop and foreground start come in any order and
overlap. A server announces itself, listens, and loads its certificate and key
only then (`Announce`, `Bind`, `Load`). `disturbed` is a history: the starts since
which a server was stopped or the backend's files or `data/` were replaced. A
setup script ends at `sudo pki_certctl scan` (`onboard-device.sh:77`): `sudo`
cannot see a shell function and `set -e` is on. That is what the code does, so
nothing behind that line is part of this module.

**`Onboarding`** is what the scripts are for and what an operator can do by
hand: scan an address, approve, issue under the id that was printed, copy to the
address that was scanned. The two looks a scan takes at the network, `nmap` and
`ip neigh`, are two steps; DHCP may move the addresses between any two. A host
is a MAC (vendor half and the half that goes into the id) and its ports; a
missing neighbor entry is a choice. `certificates` is a `CertificateStore`, with
a session for its serial. `shows` and `vetted` are histories: whom a row is
really about, and who has really been found trustworthy. `ssh` and `scp` are one
step, and so is issuance, which `Issuance` takes apart.

**`Reports`** is `store.Open` statement by statement, then the writers of
timestamps, then three queries. A `time.Now()` is stored as text, in the local
zone; so a stored time is a pair of the instant (`at`) and of its text (`wall`),
and the queries see `wall` while the properties are about `at`. A query is one
`SELECT` and therefore an operator: what it would select now. Where `ORDER BY`
leaves a tie, the operator yields every selection. `ExpiringSoon` has the zone
offset of the instant 30 days on as a parameter: `store.go:350` formats that
instant, and summer time may begin or end before it.

`MC...` modules hold the instances and the symmetry sets. `...Proofs` modules
hold the theorems.

## Runs

| Run | Instance | Shows |
|---|---|---|
| `AccessControl` | 1 request, 3 processes, 2 certificates of one device, 3 instants | the answer is right, logged once and warned of, whatever interleaves; the whole implements `AccessPolicy` |
| `AccessControlFaults` | 1 request, 2 processes, 1 certificate; failing reads and writes | revocation fails closed, acknowledgements are logged, every request ends |
| `ScanDrift` | 4 kinds of address, 4 harmless and 3 risky ports | the score is the decision list; opening a port never helps |
| `TrustGate` | 1 device, 3 processes; failing statements, kills | statuses and signatures have reasons, the table keeps its own promises |
| `Issuance` | 2 names, 3 processes at once; failing writes, kills | a row names the device its serial was signed for; while none overlap, row, certificate, key and name belong together |
| `ServerLifecycle` | 3 invocations of setup, start and stop, 2 at a time; kills; fairness | while none overlap, CA, backend certificate, server and pid file agree; a reported start leads to a service, or it is known what has prevented it |
| `Reports` | 2 processes, 3 zones, 3 instants, an old row or none; failing writes, kills | the schema is whole, the reports select the right rows |
| `Onboarding` | 2 sessions, 3 hosts, 2 addresses, 2 leases | who gets in was vetted, who is blacklisted stays out |

Bounds. Requests do not interact: a request writes only events of its own, so
one request against several processes shows every interleaving that matters to
it. Three processes are what an answer can depend on: one that issues, one that
revokes, one that lists or unlists. Two certificates with different validity
distinguish "this certificate" from "this device". The clock needs an instant
before, inside and after each threshold. In `TrustGate` three processes allow a
scan, an override and an issue to overlap, or two scans and an issue. In
`Issuance` three processes allow a certificate, a reissue and a revocation, or
another device's certificate in place of one. The sample ports give every port
count and risk count on both sides of the thresholds 3, 40, 70 and 0.

In `ServerLifecycle` three invocations are one that makes the CA, one that
starts a server and one that meets it, or two that meet while they do; a fourth
would only meet one of them again. `Commands` is what they may be asked for: the
setups with and without `--fresh`, both kinds of start, and stop. `certctl init-ca`
and `certctl issue backend-server` by hand take the steps that a setup takes as
well; as commands of their own they are in the theorems, which hold for every set
of commands, and left out of the run for its size.

In `Reports` two processes meet in the migration, and two stamps are what an order
needs; `Limit` is 1 and the zone moves by as much as the clock, so that texts are
equal, ordered and reversed.

In `Onboarding` two sessions are the victim of a mix-up and its author. The
three hosts are a board that is trusted, a camera whose telnet port makes it
suspicious, and an unlisted twin whose MAC ends like the board's. The two leases
move the board to another address and put the camera in its place. `Overrides`
(the status an operator sets by hand: only "trusted" lets anyone in) and
`Listed` (two names to blacklist: a MAC's and an address's) bound the operator.

`CHECK_DEADLOCK FALSE` is set where every process has a single command: the
instance ends when all have run. `ScanDrift` never ends and is checked for
deadlock.

Fairness. `AccessControl!FairSpec` assumes weak fairness of each request's next
statement: the Go runtime keeps scheduling the handler's goroutine and every
statement returns, with a result or an error after the busy timeout. Nothing is
assumed of administrators, of the clock or of the outcome of a statement.
`ServerLifecycle!FairSpec` assumes weak fairness of each server on its way to the
port (`Approach`), and of those that hold the port or have been signalled only
that some one goes on (`Settle`): the operating system schedules its processes,
and such a step is never blocked by another process. Scripts may stop anywhere,
and a kill is never fair. Neither needs strong fairness.

### What the code does otherwise

These runs check something a comment or document says and find it violated.
`PROJECT.json` ("findings") quotes the text.

| Run | The code |
|---|---|
| `AccessControlLookupFails` | treats a failed blacklist lookup as "not blacklisted" |
| `TrustGateOverride` | lets a scan undo an override made after its probe |
| `TrustGateForce` | forces an issuance without an event when the event fails |
| `IssuanceSerials` | signs two certificates under one serial, once `ca.srl` exists |

The models show more that no run is spent on.

- With `"write"` in `Faults`, `AttemptIsLogged` fails as well: `CheckAuth` drops
  the error of `logEvent`.
- `AccessControl` does not implement the simpler promise that a yes was right at
  one instant: see `MayAllow` above. For a certificate that was on record for the
  whole request it does (`KnownAllowedAtSomeInstant`), and that is proved.
- A scan killed between its row and its event leaves a trusted device without a
  trace, which is why `ApprovalIsOnRecord` counts such a process. Two
  overlapping scans can count as one (`CountIsBacked` is an inequality for this
  reason), and the older probe can be the one that is written last.
- A reissue between the two reads of a certificate file pairs one certificate's
  serial with another's PEM, which is why `RowIsTheCertificate` says `alone`;
  `LocksSuffice` below says which overlaps exactly have to be excluded.
- `pki_start_server` means to "wait for the server to bind"
  (`pki-common.sh:105`), but what it finds in the log is written before that: a
  start is reported when nobody listens yet, which is why
  `StartedLeadsToService` says what a reported start leads to.
- Two setups at once can leave a root certificate beside another setup's key, and
  the backend's certificate beside another setup's key, with which a start is
  reported and no server serves. Hence `alone` in `RootMatchesKey` and
  `BackendIsAPair`, and the last outcome of `StartedLeadsToService`. Nothing in
  the repository promises more; `OneMakerSuffices`, `OneIssuerSuffices` and
  `OneRecorderSuffices` say which overlaps have which of these effects.
- `certctl issue backend-server`, run by hand and cut short, has replaced the key
  of a certificate in use, and no setup repairs that: it is the exception in
  `BackendIsAPair`.
- An issue that is overtaken by a `--fresh` wipe signs with the CA it has read,
  and writes the certificate of a CA that is gone into the directory another
  setup has made again: the second hypothesis of `OneMakerSuffices`.
- A certificate that a reissue has replaced can no longer be revoked by name
  (`SupersededStays`): a revocation is of one serial, as `store.go:207-209` says,
  and `main.go:235` takes the serial from the file that is there now.
- `HolderWasVetted` needs each of its provisos: without any one of them TLC
  finds the same instance violating it. Devices whose MACs end in the same three
  octets share an id and an approval; a scan whose address moves between `nmap`
  and `ip neigh` puts one host's ports under another's id; a copy goes to
  whoever has the address by then. That a rescan forgets an approval is part of
  why it holds: with what `store.go:403-407` announces, an approval given to a
  device would outlive a scan that finds it changed, and the property fails
  (that is its mutant).
- A clock set back, as at the end of summer time, makes `export` print an older
  certificate and `log` an older event: hence `~fell` in `ExportedIsNewest` and
  `RecentAreNewest`. Where
  the 30 days end west of UTC, `expiring` lists a certificate hours after
  `CheckAuth` has begun to warn of it, where they end east of UTC hours before;
  it is the zone of that later day that counts, not today's. An expired
  certificate is listed too, and `CheckAuth` denies it without a warning.
- The example that issues `bbb-device-01` without a scan (`README.md:64`) is
  refused by the gate.
- The comment at `trust.go:126-127` announces a penalty for an unknown address
  that neither the code nor `docs/trust-scoring.md` knows.

## Proofs

`AccessControlProofs`, for any sets of requests, processes, certificates and
devices and any clock, from `AccessAssumption` and `NoRowAssumption`:

- `TypeCorrect`: `Spec => []TypeOK`, one lemma per action.
- `RevocationFinal`: `RevocationIsFinal`; `StepMonotone` shows that no action
  takes a row from revoked to anything else.
- `RevokedRefused`: `[]RevokedStaysOut` under any faults. `FoundInv` says that a
  request past the second lookup has seen the row issued at some instant.
- `BlacklistedRefused`, `KnownAllowedCorrect` and `DeniedCorrect`, if reads do
  not fail.
- `PolicyImplemented`: `Spec => ImplementsPolicy` under any faults; `Failing` in
  the promise is whether reads fail.
- `AcknowledgedLogged` under any faults, `AttemptLogged` and `ClosingFlagged` if
  writes do not fail.
- `EveryRequestAnswered`: `FairSpec /\ []NeverStuck => Answered`, for any number
  of requests side by side and under any faults. `NeverStuck` is a hypothesis
  about `ENABLED`, see below.

None of these properties is inductive: once the second lookup is done, neither
the tables nor the locals say what the first one saw. `HistoryInv` supplies it:
the history of a request in progress contains the present instant, and nothing
in it contradicts the present in what cannot be undone (a revocation, an
expiry). `PassedInv` then carries one witness through the checks: the instant at
which the blacklist was read is also an instant at which the row was not
revoked, because it is not revoked later, and not expired, because it is not
expired later. `RowsInv` says that the row holds the validity of the
certificate. Only "recorded" is not preserved backwards in time, which is why
the property needs the certificate to have been on record throughout.
`VerdictInv` holds the witness of a refusal, and the weaker witness of a yes for a
certificate that was recorded meanwhile.

The refinement maps a row, an expiry and a blacklist entry to a standing, and the
instants of `seen` to what the request has heard. `Present` maps to `Open`;
`LogDenied` and `Allow`, after which the handler answers, to `Answer`, which
`DeniedHeard` and `AllowedHeard` justify from those witnesses; a server crash to
`Drop`; what administrators and the clock do to `Change`, which `StepForward`
shows never moves a certificate back; every other statement to a stutter. With
failing reads the same steps map: what is lost is the witness of the first
lookup (`PassedInv`), but not that of the second, which `FoundInv` and
`VerdictInv` keep under any faults, together with the validity the request
carries from it (`CarriesInv`).

`EveryRequestAnswered` needs no ranking function, because `CheckAuth` has no loop.
`StepWaits` shows that a request stays where it is until its own next statement
or a crash, `CheckAuthLeads` where that statement takes it; the chain of six
places ends in an answer, with one use of the fairness at each
(`RequestAnswered`).

The logging theorems need an invariant each on where a process is and what it has
left: `AcknowledgedInv` that a revocation between its `UPDATE` and its event is
still in force, `AttemptInv` the outcome in the log in both directions,
`ClosingInv`, with `CarriesInv`, the warning of a request that was accepted late
in the life of its certificate.

`TrustScoreProofs` holds the lemmas about the operators, for all 2^24 prefixes
and every set of ports; they rest on the cardinality theorems of the library.
`ScanDriftProofs` makes invariants of them: the score lies in 0..100
(`ScoreCorrect`) and the status is `Verdict` (`StatusCorrect`); opening a port
never raises it (`OpeningCorrect`).

`TrustGateProofs`, for any devices, processes, observations and faults, from
`GateAssumption` and `NoRowAssumption`:

- `TypeCorrect`, `StatusExplained`, `CountBacked`: the three invariants, from
  `IInv`. What `IInv` adds are the locals of a scan between its probe, its
  `SELECT` and its upsert (`ProcessOK`): it still carries the status of its own
  score, and the count it has read is at most the number of rows written. Both
  have to survive the steps of every other process, which `ProcessStep` shows
  once: the number of rows written never goes down.
- `FirstSeenKept`: only the first upsert sets `first_seen`, whatever is read.
- `ForceLogged`: `ForceNeverSilent` if writes do not fail, which is the case
  `TrustGateForce` leaves.
- `OverrideHonored`: `Spec /\ []NoneOvertaken => []OverrideIsHonored`. The run
  `TrustGateOverride` finds an override undone by a scan that had probed before
  it; the theorem says that this is the only way, for any devices and processes
  and any faults. `NoneOvertaken` speaks of scans under way and of nothing else.
- `CountExact`: if reads do not fail and no two scans of one device are between
  their `SELECT` and their upsert (`OneWriter`), `scan_count` is exactly the
  number of scans recorded. `CountBacked` is what is left without the provisos.
- `ApprovalRecorded`: `ApprovalIsOnRecord` under any faults. It speaks of
  signatures, and the gate reads a row; `ApprovalInv` says of every trusted row
  what the property says of a signature. `RecordStays` is the heart of it: a
  process keeps what it claims until it has logged it, so a record, once there,
  is never lost.

`ReportsProofs`, for any processes, names, zones, validities, horizon and limit,
from `ReportsAssumption`:

- `TypeCorrect`, `Migrated`, `OpeningSucceeds`: the inductive invariant says that
  the statements behind a process are in the schema, which only grows, so it
  does not matter whose statements they were.
- `ExportNewest`, `RecentNewest`: until the clock is set back, all times in the
  tables *and those still on their way there* have texts in the order of the
  instants (`TimeInv`). A step adds no time but the present one (`StampsOfStep`),
  and the present comes after everything (`PresentInOrder`, `LaterInOrder`).
  Without the times on their way the invariant is not inductive: an `INSERT`
  stores a time taken earlier.
- `ExpiringAgrees`: arithmetic on the sign of the zone in which the window ends,
  for any offset there, whatever the present one is.

`OnboardingProofs`, for any hosts, addresses, leases, types and sessions, from
`NetworkAssumption` and `InventoryAssumption` (no MAC ends in three octets that
are also an address, and the stand-ins are not members of the sets they stand
apart from):

- `TypeCorrect`: `TypeOK`.
- `HolderVetted`: `HolderWasVetted`. What the gate reads is about an id, what the
  property speaks of is a host, and the session in between holds an address. The
  invariant ties the session to its address as long as nothing moves
  (`SessionOK`), a row to the host it is about (`RowOK`), a directory to its id
  (`FileOK`) and the copy on a host to the session that made it (`HoldOK`).
- `BlacklistFollows`: `BlacklistFollowsTheDevice`, from `FileOK` and `HoldOK`:
  the row of the certificate a host holds carries the id of the session.

`IssuanceProofs`, for any names, processes, degree of overlap and faults, from
`IssuanceAssumption` and `NoneAssumption`:

- `TypeCorrect`, `RowSigned`: `TypeOK` and `RowWasSigned` under any overlap. That
  the serial stays among the serials is a count: `CountOK` bounds the serial file
  by the number of processes past their signature, and a process that has yet to
  sign is not among them (`BeyondCount`).
- `SerialsFresh`: `Spec /\ []SignaturesInOrder => []SerialsAreFresh`. What
  `IssuanceSerials` finds takes two signatures that overlap; everything else may
  overlap and be killed. `LockOrders` proves the hypothesis from `OneSigner`: a
  lock around the one `openssl x509` would do.
- `RevokedOwnInOrder`: under the same hypothesis a revocation by name hits a
  certificate of that name, although an issue may replace the file it has looked
  into. A row keeps its name (`RowsKept`), and so does the
  process (`RevokedOK`); two signatures with one serial are all that can part them.
- `SupersededStays`, again under that hypothesis: once another certificate lies
  in the directory of its name and no process is about to revoke it, a certificate
  stays issued. `certctl revoke` cannot reach what a reissue has replaced.
- `LocksSuffice`: with a lock on the name as well, from the key to the row
  (`OnePerName`), every row is the row of one certificate and every pair handed
  over works, whatever else overlaps and whatever is killed. `WorkOK` says of every
  `pc` which files are the process's own (`IssueOK`) and what a recorded issue has
  left (`IssuedOK`); `WorkStep` shows once that the step of one process spares the
  others: it replaces no certificate whose key is not its own, and no row. Neither
  lock is enough alone: without the second, TLC finds both claims violated.
- `RowIdentifies`, `PairWorks`, `RevokedItsOwn`: the three properties of the run,
  which say `alone`. Processes that run one after another keep to both locks
  (`NextAlone`), so these are corollaries.

No process of the repository takes such locks. The conditions are hypotheses, and
the theorems say which overlap does the damage and that no other does.

`LifecycleProofs`, for any invocations, degree of overlap and kills, from
`LifecycleAssumption`:

- `TypeCorrect`: `TypeOK`, from an invariant that also bounds the wipes a server
  remembers by those that have happened, and says that a script that has not
  forked has no server.
- `OneMakerSuffices`: as long as no two scripts are between finding no `ca.key`
  and the root certificate (`OneMaker`), and no issue that has read the CA is
  overtaken by a wipe and by another issue that has made the directory again
  (`NoneOvertaken`), a root lies beside its key and a server that no wipe has
  overtaken serves the CA there is; starts, stops, wipes, issues and kills may
  come at any step. Whoever makes a CA has found none, and a root, its key and the
  backend's certificate are of one CA, so a server loads a certificate of the
  root it read.
- `OneIssuerSuffices`: as long as no two scripts are between the look for the
  backend's certificate and the certificate (`OneIssuer`), and none by hand is cut
  short, the certificate lies beside the key it certifies. A setup
  issues only where it has found no certificate, and every issue replaces the key
  and the request that a killed one has left behind before it signs.
- `OneRecorderSuffices`: as long as no two scripts are between their look into the
  pid file and their change to it (`OneRecorder`), a running background server is
  the one the file names. A script about to write or to remove the file has found
  that it names no running server (`PidOK`). A wipe makes `ServersOK` and `PidOK`
  vacuous, because what a server remembers is from before it.
- `RootMatches`, `ServesPresent`, `StopReaches`, `BackendPair`: the four properties
  of the run, which say `alone`. Where at most one script is under way
  (`OneUnderWay`), no two are in any of these places and none is overtaken, so
  these are corollaries.
- `StartedIsServed`: `FairSpec /\ []NeverStuck => StartedLeadsToService`, without
  `alone`: scripts overlap and are killed anywhere. When a start is reported, its
  server is on its way, or somebody holds the port, or the backend's files are no
  pair (`StartOK`), and every step keeps this or disturbs the start. The server
  goes through its five places, with one use of the fairness at each, to the port
  or finds it taken; whoever holds the port serves, ends at a signal, which
  disturbs, or finds a key that is not of its certificate. That the certificate of
  the right key has its root beside it (`RootOK`), and that no key is used before
  it has been written (`UsedOK`), is what excludes any other end.

Every property of a passing run is also proved. In the two liveness theorems
`NeverStuck` is a hypothesis: that a step the fairness is about can be taken
wherever one is due. It is about `ENABLED` and therefore out of the prover's reach;
it holds by the form of the actions, which have a branch for every outcome of a
statement behind a guard on the `pc` alone, and no run spends itself on it.

## Plan

Nothing that was planned is left. A next step would be the composition of
`TrustGate` and `Issuance` and a proof that it implements the commands of
`Onboarding`, which have a step for each statement that matters there and neither
failures nor the files of openssl.

## Not modelled

TLS and X.509 validation (a request starts after the handshake, and a
certificate on a connection kept alive may have expired since), the text of
`nmap` and `ip neigh` output, the parsing of arguments, wording and layout, what
openssl does inside. The `status` column has a third value, `expired`, that no
statement writes. A `certctl trust` with a status other than the three
documented ones is to the gate what `pending` is. Reads of a certificate file
that `openssl` is still writing fail and end the process, which a kill covers.

Of the scripts: everything behind `sudo pki_certctl scan`, where each of them
ends, except as an operator's own commands in `Onboarding`; the `stunnel`
configuration and the `curl` test, which change nothing of the system; `--status`,
which only reads. A pid that the operating system hands out again is not
modelled: a stale pid file would then name a stranger. `list` and `devices` print
every row in an order nothing depends on.
