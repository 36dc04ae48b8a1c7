# Penguard in TLA+

Models, model checks and proofs of Penguard, a platform for detection and response: how
events of FortiGates, FortiWebs and endpoints come in, how they become incidents and
tickets, how these are triaged, and how playbooks, remote actions and changes of the
devices answer them; and of what lies around that: the agent's turns, login, roles,
workspaces, add-ons, the live page. Paths below are relative to `src/`.

Penguard is a FastAPI gateway, the BFF (`apps/api`), in front of three internal services
(`apps/siem_kowalski`, `apps/soar_skipper`, `apps/xdr_rico`), an endpoint agent
(`apps/agent_private`) and a web console (`apps/web`). All request handlers that are
plain `def` functions run in a thread pool; `async` ones share an event loop and
interleave at their awaits. The stores use PostgreSQL at its default READ COMMITTED
level, one transaction per store method and no row lock. So two handlers interleave
between any two store calls, and, inside a store method that selects a row and then
updates it, between the SELECT and the UPDATE. That is the granularity of the models.

## 1. Inventory

| Component | State it keeps | Operations | Interacts through | What is hard |
|---|---|---|---|---|
| **xdr_rico** remote actions (`app/store.py`, `app/main.py`) | tables `endpoints`, `actions`, timeline | create, claim next, store result, delete endpoint, ingest telemetry | called by the BFF for analysts and agents | claim is SELECT then UPDATE without a recheck; callers give up while handlers go on |
| **xdr_rico** enrollment | table `enrollments`, `claimedEndpointId` | create, look up, claim, pair, revoke | token in every agent request | look-up and claim are two transactions |
| **xdr_rico** events and correlation (`main.py`) | endpoint row with its last verdict, timeline | ingest, list context | BFF, siem_kowalski's incidents | row is read, merged and written; two services match incidents in ways of their own |
| **agent_private** daemon (`daemon.py`, `actions.py`, `state.py`) | schedule, current action, cursor of the Security log in a file | telemetry, claim, execute, report | HTTP to the BFF, 5 s deadline | crash between two steps; a file rewritten beside its readers; deadline shorter than the BFF's retries |
| **SocServiceClient** (`api/app/soc/client.py`) | none | one request, `max_attempts` = 2, 3 s each, retry on timeout, connection error, 429, 5xx | between BFF and services | repeats POSTs and PATCHes that may have been served |
| **siem_kowalski** detection | table `events` | ingest: enrich, store, match rules, open incident | fed by syslog, webhooks, polling, agents, demo | enrichment reads what other threads are writing; windows, suppression and limits |
| **siem_kowalski** incidents | table `incidents`, one JSON row each | PATCH status, PATCH triage, metrics, reset | BFF | read of the whole row, write of the whole row |
| **soar_skipper** | tables `playbooks`, `playbook_runs` | playbook CRUD, validate graph, run (dry), approve | BFF | approve has no guard; runs are duplicated by retries |
| **SOC router** (`routers/soc.py`) | none of its own | triage, draft, recommend, run, apply containment, approve, policy review and apply, ticket edits | all services, FortiGate workflow | several services in one request, without compensation |
| **Playbook effects** (`playbooks/effects.py`) | none | walk the graph, notes, webhooks, stop at gates | after a run | the playbook may have changed since; stops at the gate and is never resumed |
| **Triage engine**, **threat intelligence** | cache of verdicts | evidence, ATT&CK, candidates, templates; lookup | SOC router | the same facts judged in three places; verdicts expire |
| **FortiGate governed policies** (`integrations/fortigate/policy_*.py`) | table of policy requests; the device's policies and addresses | preflight, review, apply | REST calls to the device | the device changes between review, comparison and writing; one call of several fails |
| **FortiGate log forwarding** (`fortigate/service.py`) | slots of the device | read, pick, write setting, write filter | REST | others use the slots; two calls |
| **FortiGate polling**, **syslog** (`routers/integrations.py`, `fortigate/store.py`, `fortigate/syslog.py`) | cursor and status per integration, cached page, queue of datagrams | run, list due, receive, reset | device, siem_kowalski | the cursor is a time, moved by both |
| **FortiWeb** (`integrations/fortiweb/`) | blocks, WAF reviews; IP list and policy of the device | review, apply, remove | REST | member ids chosen by the client, members shared by blocks, several calls |
| **Webhook ingestion** (`routers/soc_ingest.py`) | failed login counters in memory, behind a lock | register attempt, forward | siem_kowalski | state advanced before the forward succeeds |
| **Realtime broker** (`realtime.py`, stream, stores of the page) | subscribers, queue of 100 each; the page's list | subscribe, publish, stream, refetch | browser | a full queue drops silently; answers overtake events |
| **AI agent** (`ai/agent/`) | sessions in memory, pending approvals | turn, tool call, approve, drop | language model, tools | deadlines, answers and cut streams race |
| **Auth** (`auth/`, `routers/auth.py`, `routers/roles.py`) | sessions, attempts in memory, audit rows, roles and members | log in, log out, limit; edit roles | Keycloak | no lock in the limiter; rows of a role replaced by two edits |
| **Workspaces** (`workspaces/`) | workspaces, templates, counts | save, rebind, export, publish, install | rows of other users | each computes from a row it read before |
| **Add-ons** (`addons/`, wizard) | directory, row, registry of connectors | install, uninstall, boot, test, connect | connectors | three stores changed in turn |
| Others | rows | unified policies, users, audit, widgets, demo, migrations | | CRUD, adapters, presentation |

`PROJECT.json` lists these components with their status, and the hazards of the code at
their lines, each with the properties that cover it.

What makes each correct is said below, with its module.

## 2. Structure, and what is left

| Module | Models | Kind |
|---|---|---|
| `XdrActions` | remote actions, gateway, daemon | specification |
| `ActionLifecycle` | what the status column promises | abstract specification, implemented by `XdrActions` |
| `XdrActionsProofs` | | theorems |
| `EnrollmentBinding`, `EnrollmentBindingProofs` | token binding | specification, theorems |
| `PolicyReview` | governed FortiGate policies | specification |
| `SiemFlows` | scan and flood detection | specification |
| `Containment` | runs, approvals, policy-apply, ticket patches | specification |
| `FortiGateFeed` | polling, syslog, their cursor | specification, with fairness |
| `FailedLogins` | webhook aggregator and the rule of siem_kowalski behind it | specification |
| `EndpointEvents` | endpoint events from the agent to both services | specification |
| `Triage` | what is shown, suggested, recommended | specification |
| `TicketDesk` | ticket edits, verdicts, response times | specification |
| `PlaybookGraph` | steps of a run, walk of the effects, drafts | specification |
| `WafBlocks`, `LogForwarding` | FortiWeb blocks and reviews; syslog slots | specifications |
| `RealtimeFeed` | broker, stream, page | specification |
| `AgentTurn` | turns of the AI agent | specification |
| `AgentTelemetry` | cursor of the Security log | specification |
| `Login`, `Roles` | limiter and sessions; roles and members | specifications |
| `Workspaces`, `AddOns` | workspaces and templates; an add-on and the wizard | specifications |
| `MCPlatform`, `MCFortinet`, `MCSoc` | six, four and five of the above | instances, one machine per behaviour |
| other `MC*` | one of the above each | model values, request sets, symmetry |
| `ContainmentProofs`, `PolicyReviewProofs`, `SiemFlowsProofs` | | theorems |
| `PlatformProofs`, `FortinetProofs`, `SocProofs` | | theorems about the machines of `MCPlatform`, of `MCFortinet` and of `MCSoc` |

### Several machines in one instance

`MCPlatform`, `MCFortinet` and `MCSoc` each instantiate several specifications that
share no state. A variable `part` names the one that runs; `Init` is the disjunction of
theirs, `Next` takes a step of the one that `part` names, and the variables it does not
have are `None` for ever. So the state space is the sum of theirs and not the product,
nothing of a machine is weakened, and `part = "x" => X!P` is the property P of the
machine x. Variables and constants of one name serve several machines in turn (`Handler`
are request threads everywhere); constants whose meaning differs are bound by `WITH`.
One invariant per machine is the conjunction of what the component's module states and
comments one by one; the action properties of an instance are in one. Every conjunct but
the type invariants has a mutant of its own in `PROJECT.json`.

Machines that do interact are in one module: the agent, the BFF's client and xdr_rico in
`XdrActions`; aggregator and detection in `FailedLogins`; scheduler, analysts, collector
and reset in `FortiGateFeed`; router, soar_skipper, siem_kowalski and the device in
`Containment`; BFF, xdr_rico and siem_kowalski in `EndpointEvents`; broker, stream and
page in `RealtimeFeed`. Composing further, as `Containment` with `PolicyReview`, would
multiply two large state spaces for one shared variable, the status of a request;
`Containment` takes applying as one step instead.

### What is left

Every safety and action property that a run checks is proved. Abstract specifications
worth stating: an atomic review-and-write for `PolicyReview`, one alert per burst for
`FailedLogins`. Models to come: unified policies, single sign-on, vulnerability waves.

## 3. Modules

### XdrActions

A remote call of a daemon is a record in `calls`: sent, selected (between SELECT and
UPDATE of xdr_rico), answered. `awaited` says that the BFF still waits for xdr_rico,
`heard` that the daemon still waits for the BFF. A caller that gives up clears its flag
and the call goes on. `ClaimSelect`/`ClaimUpdate` are the two statements of
`claim_next_action`, `ReportSelect`/`ReportUpdate` those of `update_action_result`;
`Deliver`, `GatewayRetry` and `GatewayError` are `SocServiceClient.request`; `Poll`,
`Execute`, `AgentDeadline` and `DaemonRestart` are the daemon. Creating an action and
deleting an endpoint are two steps each, the 404 check and the write. `ran` is a history
of what was run with what outcome.

Left out: the result's text, permissions, timelines. `Faults = FALSE` removes deadlines,
lost answers and restarts, as a setting of the environment.

The database is modelled at READ COMMITTED: an UPDATE by id acts on the row that is
there then, and finds none if it is deleted. The status column of a row that the
write-back replaced is what the model keeps; the payload beside it holds the same
status.

### EnrollmentBinding

Handlers look the enrollment up, claim it if it was unclaimed, and act, in three
transactions. Pairing uses the enrollment's own id as endpoint id. `used` and `paired`
are histories.

### PolicyReview

`Plan` is the preflight: which policy is updated, reused or created, and which address
objects are new; the review hash stands for the plan. `ReadPolicies` and `Compare` are
the preflight of apply, `CreateAddress`, `WritePolicy`, `FindPlace` and `Move` the calls
of `apply_changes` in their order, `MarkApplied` the row. `Fail` ends an application at
any point. The device appends a new policy and evaluates in order (`Denied`), which the
code relies on when it moves blocks. `OneService` and `NoneWider` name the shapes of
requests that the two properties about blocks take for granted.

### SiemFlows

A thread takes a traffic record through the enrichments (`CheckScan`, `CountPorts`,
`CheckFlood`, `CountConnections`), one read of the events table each, then stores it and
opens an incident (`MatchRules`, `OpenIncident`); several threads do so at once. `Latest`
is a limited read in row order. Times are small numbers; `Window`, `Suppression`,
`MinPorts`, `MinEvents` and the limits are CONSTANTS. `Kind` "other" is accepted traffic
with an action the enrichment ignores; the run has none of it, since it is only stored.

Threads that overlap, and limits that are reached, do make the code miss a port, report
a scan twice, and open two incidents about one flood. So the properties speak of what a
thread could know: an event keeps how many rows there were at its enrichment's last read
(`read`), an incident how many there were when its thread looked for a duplicate
(`known`) and whether it was reopened. Correct: nothing that could be read is overlooked
(`ScanIsNoticed`), reported again (`ScansAreApart`) or opened again (`OneOpenFlood`), and
no attack goes without an incident.

### Containment

`call[h][n]` is the n-th attempt of the ticket patch of thread h, served by
siem_kowalski as a read and a write of the whole row (`ReadIncident`, `WriteIncident`);
`Timeout` starts the next attempt or gives up, and what was sent goes on. Each router
endpoint is one action: `RunPlaybook`, `ApplyContainment`, `Approve`, `ReviewPolicy`,
`ApplyPolicy`, `EditTicket`. When soar_skipper has served a request whose answers were
late, the run is there and no patch follows (`SendIfAnswered`), and each served attempt
of POST run stores a run (`CreateRun`). A playbook is known by three facts: does it
wait, does it block on the FortiGate, does it write a note before it waits. Timelines
keep only the entries about applied policies. `disturbed` is a history of the tickets
with overlapping or given-up patches. `Free` lets a thread take its next request only
after its abandoned calls are through; the second thread shows what happens meanwhile.

### FortiGateFeed

Times are half seconds, since the device stamps whole seconds and the BFF's cursor has
more. `Poll(t)` is one step of a run, up to its next store call: `ReadCursor`,
`StartRun`, which marks the row running, `Fetch`, which takes the cached page while it
is young (`Ttl`) and drops what is older than the cursor, `PostGroup` for one group of
events after the other, `FinishRun` or `FailRun`. `SchedulerLoop` takes what is due
(`Due`: enabled, not running, `Interval` passed), `RunByHand` is an analyst, `Happen`
makes the device log something and perhaps send a datagram, `Collector` is the one
worker of the bounded queue, `Setting` enables, disables, deletes and re-creates, `Wipe`
and `ResetCursors` are the lab reset in its order, `Restart` is the BFF's. Correct: the
cursor leaves nothing behind that a successful run had read; only what lies in the
cursor's second is posted again; what is due is run, unless a restart left the row
`running`.

### FailedLogins

`Receive` takes a batch, `Register` an attempt through `BruteForceAggregator.register`
(a window that does not slide, a rate limit, `emitted`), `Forward` posts it with the time
the device wrote, up to `MaxTries` times, and a failure drops the rest. A try that its
sender gave up stays in `late` and may be served at any time (`ServeLate`), so one
report may be stored twice, or after the next one. `PostSingle` is polling or syslog.
`Enriched` adds up the counts of the latest records of the subject. Correct: the
aggregator emits for a burst of twice the threshold and only for bursts, single attempts
are noticed when they add up, and nothing is flagged without cause. A report whose tries
all fail is lost; no property claims otherwise.

### EndpointEvents

A request asks threat intelligence about the first indicator (`Enrich`), posts to
xdr_rico (`ReadRow`, `WriteRow`, `AddItem`, `Attempts` times, `CallFails`), forwards
what is suspicious, audits. A call that the BFF gave up stays in `late` with what it has
read, and xdr_rico or siem_kowalski goes on with it at any time (`ServeLate`), also after
its request is over. `OtherIncident` is one made elsewhere from an address or name.
Correct: both services match alike up to what only one of them looks at; an alarm is
about its own event; audited success means the SIEM has it; a verdict stays, unless a
request came while another one or a call given up was at the same endpoint, or the
endpoint was deleted: then an old row may be written back (section 6).
`DestinationIsChecked` is what the documentation says of Sysmon connections, and is
refuted.

### Triage

`Ingest` makes an incident of any combination of type, severity and attributes; `Show`
is the engine's result as the analyst sees it, `Instantiate` builds a recommended
playbook from the incident of that time, `Analyze` the scripted tier, `Patch` what the
analyst does with it. The engine's rules are operators over sets of keys (`Mitre`,
candidates, templates).

### TicketDesk

Patches read and write the whole document; the client repeats what was not answered, and
what it gave up is served all the same, in its two steps, at any time (`late`,
`ReadLate`, `WriteLate`); a move to resolved sets the time to resolve (`Mttr` is the first one of the timeline);
`LookUp` uses a cached verdict until `Expiry`. Correct: every incident is counted once
by the metrics; repetition and reopening do not move the first resolution; the audit
record agrees with the ticket, but for the overtaken and the unanswered.

### PlaybookGraph

`OrderedNodes` is Kahn's algorithm with the fallback for cycles, a recursive function of
the turns of its loop (`Layout`, `After`); `Walk` the effects' path with its conditions,
one edge further with each turn (`Walked`, `Further`). `CreateRun` may be served
twice, `FetchPlaybook` reads the playbook again, `Edit` may come in between, `Visit` and
`VisitFails` are the effects, `Draft` what the BFF makes of steps an AI proposed. TLC
starts from every small graph.

### WafBlocks, LogForwarding

Every REST call is a step of its own, may fail before or after the device did it, and a
thread keeps what it read (`thread[h]`). `WafBlocks` covers `review_source_block`,
`apply_source_block`, `remove_source_block`, `apply_waf_dos_policy`: profile, list,
attachment, member ids chosen as the greatest seen plus one. `LogForwarding` reads all
slots, picks the collector's own or an empty one, writes setting and filter. `met` and
`alone` are histories of overlap.

### RealtimeFeed

`Ingest` stores a ticket and `Publish` puts the events into the queues one by one,
dropping them when a queue is full; `Greet` sends "connected" and `Subscribe` comes
after it, as the stream does; `Deliver` sends the head to the page, which inserts it,
announces it if new and asks for the list again; `ReadTickets`, `AnswerList` and
`AnswerToasts` are the requests of the page and their answers, `Collect` the disposal of
the query cache, `Cut` a lost stream, `Wipe` the lab reset. `StoreUntold` is a ticket
that nobody publishes: of the events of an endpoint, of FortiWeb's webhook, of an
integration without an owner, or of a thread that failed or gave up waiting before it
came to publishing. Such tickets are missed until the list is read; `PageIsTold` is about
the others.

### AgentTurn

One event loop: what lies between two awaits is a step. The model may answer or ask for
any calls with any ids, twice the same too (`AskForTools`); a read tool runs at once, a
write tool waits for `Approve` or the deadline (`Resume`). A tool runs between `Invokes`
and `ToolEnds`; `Records` asks the recorder, whose failure is passed over. `Cut` ends the
stream at any await, also while a tool runs, which then has no record; sessions are
evicted (`CreateSession`). So `AuditIsTrue` says that the log contradicts nothing, and
that only those two causes leave a tool that ran without a record.

### Login, Roles

`Prune`, `PopLeft`, `Count` and `Admit` are the statements of `AuthRateLimiter.allow`;
then come the calls to Keycloak (external), the row, the audit record and the cookie,
any of which may fail. In `Roles` a request is authorised first (`Submit`) and writes
later; `UpdateDelete` and `UpdateCommit` are the two halves of replacing the permissions
of a role, and what a claim of Keycloak says changes only at the next login.

### AgentTelemetry

Threads read the newest `Limit` records, load the cursor, empty and rewrite the file,
and post what lies beyond the cursor they found; failed logons of a reading go in one
event first. Records that come too fast, or whose post fails, are accounted for in the
histories `cut` and `given`.

### Workspaces, AddOns

Store methods are a read and a later write (`Save` and `Write`, `LookUpSlug` and
`WriteTemplate`, `ReadCount` and `StoreCount`); a request may be abandoned in between.
`Save` takes any widgets of `Layout`, bound to anybody's integrations, for nothing checks
them; what a user bound that way is kept in the history `lent`, and `OwnIntegrations` says
that no template, installation or rebind adds to it. `AddOns` has a step per store that
installing, uninstalling and booting change (a package that is there is trashed by
`Displace` before `Move` puts the new one in its place), and the wizard's `Probe` and
`Store`.

## 4. Runs

Deadlock is not checked where the system may really stop: all actions finished or all
bounded requests made.

| Run | Instance | Shows |
|---|---|---|
| `xdr_faults` | 1 endpoint, 1 daemon, 2 actions, attempts 2, faults | `NeverTwice`, `RunningIsClaimed`, `ResultIsReal` under retries, deadlines, restarts, deletion |
| `xdr_calm` | 2 endpoints, a daemon each, no faults, fairness | `ClaimIsHeld`, implements `ActionLifecycle`, `QueuedIsFinished` |
| `enroll_concurrent` | 2 tokens, 3 endpoints, 2 handlers | `SettledBinding` |
| `enroll_race` (violation) | the same | two first requests: one token acts for two endpoints |
| `policy_reviews` | 5 requests of 2 sources, 3 reviews, 2 threads; faults one at a time, or races without faults | `NamesAreUnique`, `BlockIsEffective`, `AppliedBlocksHold`, `WriteIsReviewed` |
| `siem_attacks` | 2 flows, 3 ports, 2 threads, 5 kinds of record, 4 records, times 0..2 | `ScanIsNoticed`, `ScansAreApart`, `AttackIsTicketed`, `OneOpenFlood` |
| `containment` | 1 ticket, 2 runs, 1 policy request, 3 playbooks, 2 threads, attempts 2 | `ContainedIsBacked`, `AppliedIsRecordedIfUndisturbed` |
| `feed_scheduler` | 1 integration, 1 event, scheduler, analyst, restart, fairness | `OverdueIsRun` |
| `platform` | `AgentTurn`, `Login`, `Roles`, `AgentTelemetry`, `Workspaces`, `AddOns` | one invariant each; `StepsHaveCause` |
| `fortinet` | `WafBlocks`, `LogForwarding`, `FailedLogins`, `RealtimeFeed` | one invariant each; `ChangesAreWhole` |
| `soc` | `FortiGateFeed`, `Triage`, `TicketDesk`, `PlaybookGraph`, `EndpointEvents` | one invariant each; `RepetitionsAreHarmless` |
| `sysmon_indicator` (violation) | 1 endpoint, 2 remote addresses | the reputation looked up is that of the endpoint's own address |

### Bounds, and why they are enough

- *xdr*: `CallId` bounds the calls under way at once. With two attempts the interesting
  cases are an abandoned claim beside its repetition, and a stalled one beside a report;
  they occur in the instance. The proofs remove the bounds.
- *enrollment*: two handlers make the race; a third endpoint id is one that pairing
  never gives out.
- *policies*: three reviews are needed for lab, block, and a third that meets both. The
  request set of the passing run has lab policies and blocks that are disjoint in their
  sources or nested in their destinations. The two patterns in which the code does not
  keep the promise are left out of it (section 6): a narrower lab policy beside a wider
  one, and a service block after a wider block.
- *siem*: thresholds of two, a window and a suppression of one exercise each boundary on
  both sides within three times. Two threads, so that both may find no open flood
  incident and open one each. The read of plain records is limited to one, so that other
  traffic hides ports. The markers' limit is one too, but four records are too few for an
  earlier scan to be hidden behind another and then repeated; that excuse of
  `ScansAreApart` is covered by its proof only. Records arrive in the order of their
  times; the proofs do without that.
- *containment*: two threads and two attempts give four patches under way; the second
  run is the duplicate of a repeated POST or another run.

- *platform*: two requests or threads per machine, since every race in it is between
  two; two of what they share (accounts are one, as the limiter counts per address); one
  failure. Turns have two steps and two calls, so that ids repeat and the budget,
  counted in answers, ends; one session fits, so that eviction happens. What a browser
  saves has at most one bound widget, of its user or of the other, which is what it takes
  for a foreign binding to meet an export, an installation or a rebind. The limiter's
  window is two ticks, an attempt more than the limit fits. The log has four records,
  twice `Limit`, two of them failed logons. `Roles` has one clerk as a user that the
  identity provider may call admin or not, and two request threads. Add-ons have three
  versions, so that one is replaced while another is installed, and one is broken.
- *fortinet*: two blocks of two or one source; ids up to 2; either one request at a time
  with two faults, which is what a repetition must repair, or two at once without
  faults. Two slots, one of which may be foreign, and two collectors. Four attempts are
  twice the threshold of two, across two windows; two tries of a post make a repeated
  one and a late one; `MaxLoad` lets three of records, attempts and late posts come
  together once siem_kowalski has something, and there are at most three records. A queue
  of two is filled by two tickets published to
  the page twice.
- *soc*: two events, one a login, half-seconds 0..2, pages of two, a queue of one; one
  act of an analyst or fault beside the scheduler, from an integration that is yet to be
  made or just enabled. With two events a page is never over its limit; what a full page
  leaves out is unread, which the property excepts. All combinations of event attributes
  for triage. Two requests, two attempts and two failures for a ticket, so that a late patch may come
  after its repetition, another request's, or both. All graphs of a
  trigger and two nodes with two conditional edges or three unconditional ones. Two
  endpoint events of one endpoint, one fault, which leaves one call to be served late. AI answers of up to `MaxSteps` steps, two,
  which is what it takes for a step to stand before or after a sensitive one.
- *feed_scheduler*: time to 2 with an interval of 1, so the integration is due, run, and
  due again.

Symmetry is used in `xdr_faults`, `policy_reviews`, `siem_attacks`, `containment`,
`platform`, `fortinet` and `soc`, over identities that are only compared for equality, and only with
invariants or a box-action property, not with liveness.

### Fairness

Two runs state fairness. In `xdr_calm` handlers that started finish, answers that are
there are delivered, the daemon keeps polling and executes what it was given, an insert
that passed its check happens: that is `run_foreground`'s loop, which polls every few
seconds until it is stopped, and a thread pool that does not starve a request. In
`feed_scheduler` the scheduler's loop goes on, a run that has begun takes its next step,
and the collector's worker takes what is queued: a `while` loop that catches what its
body raises, and threads. No analyst is fair, no device event, no restart.
`QueuedIsFinished` is not claimed with faults: an action whose claim was answered to
nobody stays `claimed` for ever, since no code queues it again. `OverdueIsRun` excepts
rows that a restart left `running`, for the same reason.

## 5. What is proved

Every theorem holds for every value of the constants that satisfies the named assumption
of the module: `XdrAssumption`, `EnrollmentAssumption`, `ContainmentAssumption`,
`PolicyAssumption`, `FlowAssumption`, and in the instances of several machines one for
each machine: in `MCPlatform` `TurnAssumption`, `LoginAssumption`, `RolesAssumption`,
`TelemetryAssumption`, `WorkspaceAssumption`, `AddOnAssumption`; in `MCFortinet`
`BlockAssumption`, `FeedAssumption`, `ForwardingAssumption`, `LoginAssumption`; in
`MCSoc` `FeedAssumption`, `TriageAssumption`, `TicketAssumption`, `EndpointAssumption`,
`PlaybookAssumption`. They say that bounds are numbers, that thresholds are positive
where the code's are, that `None` is none of the things it stands beside, and what a
table of constants maps to what; TLC evaluates them in every run. `PlaybookAssumption`
also says that a stored playbook is well formed, which soar_skipper validates: edges are
between nodes, and there is a trigger; it does not exclude cycles. What a theorem
supposes beyond that stands in its statement and is named below. No set of the constants
is supposed finite but the threads of `SiemFlows` and `Workspaces`, whose bounds count
them.

| Theorem | States | Supposes |
|---|---|---|
| `XdrActionsProofs`: `TypeCorrect`, `RunsOnce`, `RunsClaimed`, `ResultsAreReal` | `TypeOK`, `NeverTwice`, `RunningIsClaimed`, `ResultIsReal` | |
| `ClaimsAreHeld` | `ClaimIsHeld` | `~Faults` |
| `LifecycleIsKept` | `LifecycleSpec`, the refinement of `ActionLifecycle` | `~Faults`, `OneDaemonEach` |
| `EnrollmentBindingProofs`: `TypeCorrect`, `BindingSettles` | `SettledBinding` | |
| `OneEndpointIfSequential`, `PairingKeptIfSequential` | what the race of `enroll_race` breaks | one thread |
| `ContainmentProofs`: `TypeCorrect`, `BackedContainment`, `RecordedPolicies` | `TypeOK`, `ContainedIsBacked`, `AppliedIsRecordedIfUndisturbed` | |
| `PolicyReviewProofs`: `TypeCorrect`, `OneOfAName`, `WrittenAsReviewed` | `TypeOK`, `NamesAreUnique`, `WriteIsReviewed` | |
| `BlocksTakeEffect`, `BlocksHold` | `BlockIsEffective`, `AppliedBlocksHold` | `OneService`, `NoneWider` |
| `SiemFlowsProofs`: `TypeCorrect`, `AttacksAreTicketed`, `FloodsAreOpenOnce`, `ScansAreReportedOnce`, `ScansAreNoticed` | `TypeOK`, `AttackIsTicketed`, `OneOpenFlood`, `ScansAreApart`, `ScanIsNoticed` | |
| `PlatformProofs`: `TurnsHonourApprovals`, `LoginsAreAccounted`, `RolesAreAlwaysEarned`, `TelemetryIsAlwaysAccounted`, `WorkspacesStayOwn`, `AddOnsAreAlwaysServed` | the six invariants of the run `platform` | |
| `StepsAlwaysHaveCause` | `StepsHaveCause` | |
| `FortinetProofs`: `PageIsAlwaysTold`, `LogsAreAlwaysForwarded`, `BlocksAreAlwaysEnforced`, `BurstsAreAlwaysReported` | `PageIsTold`, `LogsAreForwarded`, `BlocksAreEnforced`, `BurstsAreReported` | |
| `ChangesAreAlwaysWhole` | `ChangesAreWhole` | |
| `SocProofs`: `CursorNeverLosesWhatIsRead`, `TriageIsAlwaysConsistent`, `TicketsAreAlwaysTrue`, `EffectsAreAlwaysApproved`, `EndpointEventsAlwaysAgree` | the five invariants of the run `soc` | |
| `RepetitionsAreAlwaysHarmless` | `RepetitionsAreHarmless` | |

None of the invariants is inductive. In each module one lemma per action shows that the
action keeps the inductive one; lemmas for what several actions share stand before them.

**XdrActionsProofs.** `NeverTwice` needs to know that the answer of a claim which can
still reach a daemon names an action that this daemon has not run. Two facts carry that:
once a claim has taken an action no SELECT finds it (`Taken`, and `RanIsTaken`: what was
run is taken), and at most one call of a daemon can still reach it (`OneAnswer`), so
that of two claims which selected the same action only one can be delivered to it. A
report in flight is about a run (`ReportOK`), which gives `ResultIsReal`. Without faults
no caller gives up, so `Quiet` holds: every call is waited for on both sides and only
one is under way for a daemon; `Calm` adds who holds each claimed action. `Orderly` adds
that what a claim has selected is still queued, which with one daemon for each endpoint
nobody else can change but a deletion; so each step of the handlers is one of
`ActionLifecycle` or leaves the status column alone.

**EnrollmentBindingProofs.** From `Typed` (a busy thread names a token and an endpoint).
With a single thread, what acted and what was paired agree with the row: the race is the
only way to lose the promise that `enroll_race` refutes.

**ContainmentProofs.** `IInv` is `Typed`, `BackedEverywhere` and `Undisturbed`. That a
ticket called contained is backed says nothing of the patches under way, so
`BackedEverywhere` says the same of what a thread is about to send, of each attempt
that was sent, and of the copy of the row that an attempt has read: an overtaken write
brings an old row back, but an old row is backed too, since runs and applied policies
stay. `Undisturbed` says that as long as a ticket is not disturbed at most one attempt
has read it and its copy is the row, and that an applied policy is in the timeline or a
thread is about to put it there.

**PolicyReviewProofs.** `PInv` is about what a thread knows of the device. The list of
policies only changes in one way, `Grows`: policies move to later places, keep their
order if they are lab policies, become blocks at most, and new ones come at the end
(`StepLater`, for every step). What a thread compared, found or created is still there
in that sense, whatever the others wrote. `SInv` is for applications one at a time: what
the device shows is what the thread read. `EInv` adds that a block about to be marked,
or marked, is in force: no lab policy that takes its traffic is ahead of it
(`InForce`), and `Grows` puts none there. `OneService` and `NoneWider` exclude the two
shapes of section 6 for which that is not so, and `ASSUME UsualShapes` makes TLC check
that the run has neither.

**SiemFlowsProofs.** For any number of threads, any limits and any order of the times.
`TInv` says for each record in a thread's hand what each enrichment has left in it, and
that an attack that is stored has its incident or a thread that is about to open it.
`FloodInv`: of the incidents that a thread looked at, none is about its flood, open and
never reopened, and that stays so, since only an analyst opens an incident again.
`ScanInv`: the rows that an enrichment read never change, so what it made of them
(`Settled`: no report was to be seen, one was, or too few ports were tried) is so of every
longer table too (`ReadStands`, `SettledStands`); with the limits counted in rows of a
type, the ports that a read returned are those of `Tried`.

**PlatformProofs.** The theorems are about the composed `Spec`, whose `part` never
changes, so that each is `[](part = "x" => Inv)` for the invariant of one machine.

- `TurnInv`: a turn holds the lock of its session; what waits for approval is a write of
  the last answer; every future is awaited by the turn that made it (`Locked`,
  `Pending`, `Awaited`, `InTurn`), and evicting a session drops none of that.
  `AuditInv`: the calls a turn has yet to run are its own, new, and neither run nor
  recorded, but for the first, which may run or be told of (`Ready`, `NoneShared`).
- `LoginIInv`: while no two threads are in the limiter, the attempts in the bucket and
  the histories agree (`Limited`), through the pruning, the popping and the count;
  cookies are no more than successful logins, each with a session of its own
  (`Underway`, `Distinct`).
- `RolesInv`: what an authorised request may still write (`Asks`), and that of two edits
  of a role that overlap both are marked (`Undisturbed`); before the first admin has
  logged in there is nobody with a permission (`Unrooted`).
- `WorkInv`: every row is sound for its owner, also the rows a request has read and will
  write back (`Holds`); an install is counted, missed, or still to be counted by one
  request (`CountOK`). `LentInv`: the bindings to others' integrations in a row, or in
  what a request is about to write, are among those its user saved himself.
- `AddOnInv`: what a request has done of its change in disk, row and registry (`Done`),
  and what that leaves to serve when it is the only one (`Apart`, `Serving`, `Tidy`).
- `TeleInv`: a batch is an interval of the log (`Read`); behind every cursor, in the file
  or in a thread's hand, lie only records that are known (`Passed`); what was sent twice
  has a cause (`SentOnce`). That the newest `Limit` records are an interval is the lemma
  `Ranks`, on the rank of a number in a finite set. This invariant was checked with TLC
  before it was proved.

**FortinetProofs.** As above, for the four machines of `MCFortinet`.

- `FeedInv`: a ticket that exists is in the page's list, was missed (one that nobody
  published is, from the start), or is coming: an event about it is in a publisher's hand or in the queue, or a request for the list is
  under way that will bring it (`Coming`). What was announced is known (`Toasted`).
- `ForwardInv`: the slot a request has picked is its collector's own, or free while the
  collector has none, as far as every slot was read (`Picked`); what it has written is
  there unless it met another request (`Written`). That the pick is the first such slot
  rests on `LeastIs`, the least number of a set, from the well-foundedness of `<`.
- `BlockInv`: what a request knows whoever comes between, for profiles and the list
  never go away (`Held`); what it knows as long as nobody meets it, and that whatever
  came to the list since it read belongs to one that it met (`Knows`); that requests
  which meet know of it (`Apart`). From that, every row is backed by the device
  (`Backed`), and the list names a source once and numbers its members apart (`Listed`).
  The action property takes what the request of the step knows.
- `LoginInv` has two parts. `BurstInv` ties each window of the aggregator to what was
  tried: an emission is a report, due at the threshold (`Sound`), and if attempts come in
  order its count is that of the attempts since it began, and so many within a window
  that began earlier were reported before (`Timely`). `RecordInv` is about siem_kowalski:
  a record counts no less than was sent, one is caught when what was sent of its subject
  adds up to the threshold, and never without that or an earlier one that was caught
  (`Noticed`). The sum is a fold over a set; the proof reasons about any function that
  adds up over the subsets (`Sums`, `EverySubset`).

**SocProofs.** As above, for the five machines of `MCSoc`.

- `TriageInv`: what is shown was the context of an incident like the present one, and a
  playbook was built of one for which the engine offers the same templates (`Alike`,
  `AlikeOffersSame`): patches in between take nothing away that was offered.
- `TicketInv`: every document in use, the ticket or a copy that a request has read and
  will write over another's change, has its timeline in order and a resolution in it if
  it is resolved (`Whole`), and an entry is of a request that has written (`Written`); a
  patch that was given up holds such a copy too (`InUse`);
  the entry of a request that was told so is in the ticket, unless it was written over
  (`Traced`). A cached verdict is within its time (`VerdictInv`).
- `EventInv`: a thread's job agrees with its event and with what it has stored so far
  (`Fits`), and so does a call that was given up (`GivenUp`), which belongs to a request
  under way or over; two threads for one endpoint, or a thread and such a call of another
  event, mark it overtaken (`Apart`, `Beside`); an alarm whose success was audited is in
  siem_kowalski (`Settled`), and a verdict that made one stays.
- `FeedInv`: for an integration that nobody disturbed (`Clean`), what lies before the
  cursor, in the row or in the hand of a run about to write it, was posted or passed on
  purpose, or is on the page of a run still at it (`Covered`). That steps for other
  integrations change none of this is one lemma (`Calm`). This invariant was checked with
  TLC before it was proved. The action property follows from it and from `TicketInv`.
- `GraphInv`: a run has the steps of the graph it was made of (`SoundRun`); of a walk,
  each node still to visit is the next of the one before, and what had its effect, with
  what comes next, lies in every closed set that holds the trigger (`Walking`); the walk
  of a draft comes to an approval before a sensitive node (`Careful`). The steps' order
  rests on `LayoutInv`, the loop invariant of Kahn's algorithm: the nodes taken and
  those in the queue are the ones without an edge from a node not taken, the degrees
  count these edges, and the order is sorted. If the queue runs dry early, every node
  left has an edge from another one left, so the graph is not acyclic.

What the proofs changed in the models: the `CASE` of `Type` in `SiemFlows` had two arms
that overlap, which TLC resolves by their order and the proof system does not, and is
now a partition. Modules that used one operator of `SequencesExt` no longer take it:
its definitions slow every obligation of an instance down. `Layout`, `Walked` and
`Drafted` of `PlaybookGraph` were folds, whose turns cannot be spoken of; they are
functions of the turn now, with the same reachable states. The call of `EndpointEvents`
carries the address that was seen, and the sets of records that invariants quantify over
have names (`Incident`, `Row`).

Only model-checked: `QueuedIsFinished` and `OverdueIsRun`, since liveness under fairness,
and ENABLED, are out of the provers' reach. No module has a `RECURSIVE` operator. The
library's theorems on induction take an operator, which the provers cannot instantiate;
where a proof needs an invariant of a loop (`LayoutInv`, the walk, the draft), the
induction is over the set of turns at which it holds, from the least number at which it
would not (`LeastIs`, `UpTo`, `LoopIs`, `LoopStays`).


## 6. Where the code and its documents disagree

Findings, each with a run that shows it: one token acts for two endpoints
(`enroll_race`); the reputation of a Sysmon connection is that of the endpoint's own
address (`sysmon_indicator`).

Further behaviour that the models show or were built around, and that the properties
except rather than claim:

- a block changes the first lab policy that matches though a wider one takes the traffic
  before it, and a block of one service narrows a block of the source
  (`policy_orchestrator.py:366`, `:396`);
- a limited read of the latest records hides a scan behind other traffic
  (`siem_kowalski/app/main.py:547`);
- an applied policy is never recorded in the ticket when the patch after it fails
  (`routers/soc.py:1663`), and it can be applied while the run waits for approval
  (`:1628`);
- the tiers of siem_kowalski (`main.py:58`) and of the scripted analysis
  (`ai/provider.py:185`) differ for some severities;
- two threads that ingest one flood at once find no open incident and open two
  (`siem_kowalski/app/main.py:360`);
- a call to xdr_rico that timed out and is served after a newer event writes the old
  endpoint row back, and the newer verdict is gone (`soc/client.py:60`,
  `xdr_rico/app/main.py:271`);
- tickets of endpoint events, of FortiWeb's webhook and of a post that timed out but was
  served are stored and never published (`routers/soc.py:2172`,
  `routers/soc_ingest.py:627`, `:494`);
- a tool of the AI agent that ran has no audit record when the recorder failed
  (`ai/agent/runner.py:435`) or the client left while it ran;
- a saved workspace may bind its widgets to another user's integration
  (`routers/workspaces.py:340`), while a rebind may not (`:426`);
- the wizard's test may be answered by a cached connector of another device
  (`registry_runtime.py:39`);
- a page whose bootstrap request failed announces no ticket until it is loaded again; a
  full queue loses an event while the stream stays open; and the reset of the lab is
  published to who asked for it only.

## 7. Not modelled, and why

Text, formats, logging and permissions other than those of roles and tools; adapters to
language models and to threat feeds, which are external; widgets, normalisers and demo
data, which reshape data without keeping state; CRUD of one row, users and the audit
log's queries; the unified policies, which add a review in memory to the workflows of
`PolicyReview` and `WafBlocks`; schema migrations and deployment; the console but for
what `RealtimeFeed` has of it. Single sign-on, expiry of sessions, vulnerability waves,
and reports are left out of components that are otherwise modelled, and said so in
`PROJECT.json`.
