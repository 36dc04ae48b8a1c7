----------------------------- MODULE MCPlatform -----------------------------
(***************************************************************************)
(* Instances for TLC of six machines of the platform around the SOC: a     *)
(* turn of the agent, login, roles, the telemetry of agent_private,        *)
(* workspaces and add-ons.  They share no state: `part' says which of them *)
(* runs, and the variables that it does not have are None.                 *)
(***************************************************************************)
EXTENDS TLC, Naturals, FiniteSets

CONSTANTS
    None, Handler, User, Session, Request, Id, MaxSessions, MaxSteps, Budget,
    MaxCalls, Account, MaxAttempts, Window, MaxTries, MaxTime, Clerk, Role,
    Permission, Manage, MaxChanges, Thread, Limit, MaxRecord, FailedLogon,
    MaxFaults, Kind, Prefix, Provider, First, Generic, Layout, MaxTemplate, MaxRequests,
    Version, Broken, Device, Up

VARIABLES
    part, \* the machine that runs
    stored, made, lock, turn, tokens, unanswered, pending, calls, granted, invoked,
    audited, unrecorded, cut, now, bucket, handler, accounts, session, audit, cookies, tries,
    allowed, raced, claim, exists, grants, member, changes, edits, disturbed,
    rooted, log, file, pc, batch, last, todo, sent, given, skipped, overlapped,
    faults, owned, space, template, published, installs, missed, lent, requests, disk,
    row, factory, probe, answer, settled, clean

\* A role lets the model go on for some steps, a user has some session, and
\* None is neither a request nor an approval.
ASSUME TurnAssumption ==
    /\ MaxSessions \in Nat \ {0} /\ {MaxSteps, Budget, MaxCalls} \subseteq Nat
    /\ None \notin Request
    /\ \A call \in [no : 1..MaxCalls, id : Id, kind : {"read", "write", "barred"}],
          state \in {"open", "granted", "denied"} : None # [call |-> call, state |-> state]

\* The limiter counts attempts and ticks.
ASSUME LoginAssumption == {MaxAttempts, Window, MaxTries, MaxTime} \subseteq Nat

\* The catalogue id of one kind of widget tells its provider.
PrefixOf == [k \in Kind |-> IF k = "fgt_widget" THEN First ELSE Generic]

\* A browser binds the widget of the provider, to any integration there is.
OneBound ==
    {w \in [Kind -> [owner : User, provider : Provider] \cup {None}] :
        \A k \in Kind : w[k] # None => Prefix[k] = First}

AT == INSTANCE AgentTurn
LG == INSTANCE Login
RO == INSTANCE Roles WITH User <- Clerk
TE == INSTANCE AgentTelemetry
WS == INSTANCE Workspaces
AO == INSTANCE AddOns

\* The built-in role and the wildcard are none that a request can name.
ASSUME RolesAssumption ==
    RO!Super \notin Role /\ RO!Wildcard \notin Permission /\ None \notin {"admin", "analyst"}

\* The agent reads at least one record at a time, and None is no record.
ASSUME TelemetryAssumption ==
    /\ {MaxRecord, MaxFaults} \subseteq Nat /\ Limit \in Nat \ {0}
    /\ None \notin 1 .. MaxRecord

\* A catalogue id tells one of the providers or none, and None is no integration.
ASSUME WorkspaceAssumption ==
    /\ IsFiniteSet(Handler) /\ {MaxTemplate, MaxRequests} \subseteq Nat
    /\ First \in Provider /\ Generic \notin Provider
    /\ Prefix \in [Kind -> Provider \cup {Generic}]
    /\ Layout \subseteq [Kind -> WS!Integration \cup {None}]
    /\ None \notin WS!Integration

\* None is no version of an add-on.
ASSUME AddOnAssumption == None \notin Version \cup Broken

OutOfAT ==
    <<part, now, bucket, handler, accounts, session, audit, cookies, tries, allowed,
      raced, claim, exists, grants, member, changes, edits, disturbed, rooted, log,
      file, pc, batch, last, todo, sent, given, skipped, overlapped, faults, owned,
      space, template, published, installs, missed, lent, requests, disk, row, factory,
      probe, answer, settled, clean>>
OutOfLG ==
    <<part, stored, made, lock, turn, tokens, unanswered, pending, calls, granted,
      invoked, audited, unrecorded, cut, claim, exists, grants, member, changes, edits,
      disturbed, rooted, log, file, pc, batch, last, todo, sent, given, skipped,
      overlapped, faults, owned, space, template, published, installs, missed, lent,
      requests, disk, row, factory, probe, answer, settled, clean>>
OutOfRO ==
    <<part, stored, made, lock, turn, tokens, unanswered, pending, calls, granted,
      invoked, audited, unrecorded, cut, now, bucket, accounts, audit, cookies, tries, allowed,
      raced, log, file, pc, batch, last, todo, sent, given, skipped, overlapped,
      faults, owned, space, template, published, installs, missed, lent, requests, disk,
      row, factory, probe, answer, settled, clean>>
OutOfTE ==
    <<part, stored, made, lock, turn, tokens, unanswered, pending, calls, granted,
      invoked, audited, unrecorded, now, bucket, handler, accounts, session, audit, cookies,
      tries, allowed, raced, claim, exists, grants, member, changes, edits,
      disturbed, rooted, owned, space, template, published, installs, missed, lent,
      requests, disk, row, factory, probe, answer, settled, clean>>
OutOfWS ==
    <<part, stored, made, lock, turn, tokens, unanswered, pending, calls, granted,
      invoked, audited, unrecorded, cut, now, bucket, handler, accounts, session, audit,
      cookies, tries, allowed, raced, claim, exists, grants, member, changes, edits,
      disturbed, rooted, log, file, batch, last, todo, sent, given, skipped,
      overlapped, faults, disk, row, factory, probe, answer, settled, clean>>
OutOfAO ==
    <<part, made, lock, turn, tokens, unanswered, pending, calls, granted, invoked,
      audited, unrecorded, cut, now, bucket, handler, accounts, session, audit, cookies, tries,
      allowed, raced, claim, exists, grants, member, changes, edits, disturbed,
      rooted, log, file, batch, last, todo, sent, given, skipped, overlapped, owned,
      space, template, published, installs, missed, lent>>
all ==
    <<part, stored, made, lock, turn, tokens, unanswered, pending, calls, granted,
      invoked, audited, unrecorded, cut, now, bucket, handler, accounts, session, audit,
      cookies, tries, allowed, raced, claim, exists, grants, member, changes, edits,
      disturbed, rooted, log, file, pc, batch, last, todo, sent, given, skipped,
      overlapped, faults, owned, space, template, published, installs, missed, lent,
      requests, disk, row, factory, probe, answer, settled, clean>>

-----------------------------------------------------------------------------
InitAT ==
    /\ part = "turn" /\ AT!Init
    /\ now = None /\ bucket = None /\ handler = None /\ accounts = None
    /\ session = None /\ audit = None /\ cookies = None /\ tries = None
    /\ allowed = None /\ raced = None /\ claim = None /\ exists = None
    /\ grants = None /\ member = None /\ changes = None /\ edits = None
    /\ disturbed = None /\ rooted = None /\ log = None /\ file = None /\ pc = None
    /\ batch = None /\ last = None /\ todo = None /\ sent = None /\ given = None
    /\ skipped = None /\ overlapped = None /\ faults = None /\ owned = None
    /\ space = None /\ template = None /\ published = None /\ installs = None
    /\ missed = None /\ lent = None /\ requests = None /\ disk = None /\ row = None
    /\ factory = None /\ probe = None /\ answer = None /\ settled = None
    /\ clean = None
InitLG ==
    /\ part = "login" /\ LG!Init
    /\ stored = None /\ made = None /\ lock = None /\ turn = None /\ tokens = None
    /\ unanswered = None /\ pending = None /\ calls = None /\ granted = None
    /\ invoked = None /\ audited = None /\ unrecorded = None /\ cut = None /\ claim = None
    /\ exists = None /\ grants = None /\ member = None /\ changes = None
    /\ edits = None /\ disturbed = None /\ rooted = None /\ log = None
    /\ file = None /\ pc = None /\ batch = None /\ last = None /\ todo = None
    /\ sent = None /\ given = None /\ skipped = None /\ overlapped = None
    /\ faults = None /\ owned = None /\ space = None /\ template = None
    /\ published = None /\ installs = None /\ missed = None /\ lent = None /\ requests = None
    /\ disk = None /\ row = None /\ factory = None /\ probe = None /\ answer = None
    /\ settled = None /\ clean = None
InitRO ==
    /\ part = "roles" /\ RO!Init
    /\ stored = None /\ made = None /\ lock = None /\ turn = None /\ tokens = None
    /\ unanswered = None /\ pending = None /\ calls = None /\ granted = None
    /\ invoked = None /\ audited = None /\ unrecorded = None /\ cut = None /\ now = None /\ bucket = None
    /\ accounts = None /\ audit = None /\ cookies = None /\ tries = None
    /\ allowed = None /\ raced = None /\ log = None /\ file = None /\ pc = None
    /\ batch = None /\ last = None /\ todo = None /\ sent = None /\ given = None
    /\ skipped = None /\ overlapped = None /\ faults = None /\ owned = None
    /\ space = None /\ template = None /\ published = None /\ installs = None
    /\ missed = None /\ lent = None /\ requests = None /\ disk = None /\ row = None
    /\ factory = None /\ probe = None /\ answer = None /\ settled = None
    /\ clean = None
InitTE ==
    /\ part = "telemetry" /\ TE!Init
    /\ stored = None /\ made = None /\ lock = None /\ turn = None /\ tokens = None
    /\ unanswered = None /\ pending = None /\ calls = None /\ granted = None
    /\ invoked = None /\ audited = None /\ unrecorded = None /\ now = None /\ bucket = None
    /\ handler = None /\ accounts = None /\ session = None /\ audit = None
    /\ cookies = None /\ tries = None /\ allowed = None /\ raced = None
    /\ claim = None /\ exists = None /\ grants = None /\ member = None
    /\ changes = None /\ edits = None /\ disturbed = None /\ rooted = None
    /\ owned = None /\ space = None /\ template = None /\ published = None
    /\ installs = None /\ missed = None /\ lent = None /\ requests = None /\ disk = None
    /\ row = None /\ factory = None /\ probe = None /\ answer = None
    /\ settled = None /\ clean = None
InitWS ==
    /\ part = "workspaces" /\ WS!Init
    /\ stored = None /\ made = None /\ lock = None /\ turn = None /\ tokens = None
    /\ unanswered = None /\ pending = None /\ calls = None /\ granted = None
    /\ invoked = None /\ audited = None /\ unrecorded = None /\ cut = None /\ now = None /\ bucket = None
    /\ handler = None /\ accounts = None /\ session = None /\ audit = None
    /\ cookies = None /\ tries = None /\ allowed = None /\ raced = None
    /\ claim = None /\ exists = None /\ grants = None /\ member = None
    /\ changes = None /\ edits = None /\ disturbed = None /\ rooted = None
    /\ log = None /\ file = None /\ batch = None /\ last = None /\ todo = None
    /\ sent = None /\ given = None /\ skipped = None /\ overlapped = None
    /\ faults = None /\ disk = None /\ row = None /\ factory = None /\ probe = None
    /\ answer = None /\ settled = None /\ clean = None
InitAO ==
    /\ part = "addons" /\ AO!Init
    /\ made = None /\ lock = None /\ turn = None /\ tokens = None
    /\ unanswered = None /\ pending = None /\ calls = None /\ granted = None
    /\ invoked = None /\ audited = None /\ unrecorded = None /\ cut = None /\ now = None /\ bucket = None
    /\ handler = None /\ accounts = None /\ session = None /\ audit = None
    /\ cookies = None /\ tries = None /\ allowed = None /\ raced = None
    /\ claim = None /\ exists = None /\ grants = None /\ member = None
    /\ changes = None /\ edits = None /\ disturbed = None /\ rooted = None
    /\ log = None /\ file = None /\ batch = None /\ last = None /\ todo = None
    /\ sent = None /\ given = None /\ skipped = None /\ overlapped = None
    /\ owned = None /\ space = None /\ template = None /\ published = None
    /\ installs = None /\ missed = None /\ lent = None

Init == InitAT \/ InitLG \/ InitRO \/ InitTE \/ InitWS \/ InitAO

Next ==
    \/ part = "turn" /\ AT!Next /\ UNCHANGED OutOfAT
    \/ part = "login" /\ LG!Next /\ UNCHANGED OutOfLG
    \/ part = "roles" /\ RO!Next /\ UNCHANGED OutOfRO
    \/ part = "telemetry" /\ TE!Next /\ UNCHANGED OutOfTE
    \/ part = "workspaces" /\ WS!Next /\ UNCHANGED OutOfWS
    \/ part = "addons" /\ AO!Next /\ UNCHANGED OutOfAO

Spec == Init /\ [][Next]_all

\* Threads and names are interchangeable.
Symmetry == Permutations(Handler) \cup Permutations(User) \cup Permutations(Id)

-----------------------------------------------------------------------------
\* What a turn of the agent does is covered: a tool that writes runs only for
\* a call that was itself granted, though the model may give one id to
\* several; unless a turn of the session was cut off the provider gets a
\* history in which every call has its result; the audit log tells what ran
\* and what was denied, and what ran is missing there only if the recorder
\* failed or the turn was cut off meanwhile; and a future nobody waits for is left only by a turn that was cut
\* off (_run_locked_turn, _await_approval).
ApprovalsAreHonoured ==
    part = "turn" =>
        /\ AT!TypeOK
        /\ AT!WriteIsGranted
        /\ AT!CallsAreAnswered
        /\ AT!AuditIsTrue
        /\ AT!PendingIsAwaited

\* No more than max_attempts requests of an address come through in a window,
\* unless two threads were in the limiter at once, and who is refused has had
\* as many (AuthRateLimiter.allow); every session a browser can use stands in
\* the audit log, whatever failed between its row and the cookie (login,
\* register).
LoginIsAccounted ==
    part = "login" =>
        /\ LG!TypeOK
        /\ LG!LimitHolds
        /\ LG!RefusalIsDue
        /\ LG!LiveIsAudited

\* No sequence of overlapping edits hands the wildcard to a role that is not
\* the built-in one, a role has the permissions of one request unless two
\* edited it at once (update_role), and before somebody the identity provider
\* calls admin has logged in no role is made or has a member (resolve).
RolesAreEarned ==
    part = "roles" =>
        /\ RO!TypeOK
        /\ RO!WildcardIsSuper
        /\ RO!PermissionsOfOneEdit
        /\ RO!AdminComesFirst

\* The cursor of the Security log moves before anything is posted: what it
\* has passed was received, is about to be posted, or was given up in a way
\* the code knows of; and the BFF gets a record twice only after a repeated
\* request, an unwritable state file or two collections at once.
TelemetryIsAccounted ==
    part = "telemetry" =>
        /\ TE!TypeOK
        /\ TE!PassedIsAccounted
        /\ TE!RepeatedHasCause

\* No widget is bound to an integration of another user unless its own user
\* saved it so, whatever was imported, installed or rebound; an untouched installation lists a provider as missing
\* exactly when its widget is unbound (manifest_to_widgets); and installs are
\* never counted twice, nor missed but where counts overlapped
\* (increment_template_install).
WorkspacesAreOwn ==
    part = "workspaces" =>
        /\ WS!TypeOK
        /\ WS!OwnIntegrations
        /\ WS!MissingIsUnbound
        /\ WS!CountedOnce

\* Once an installation is complete the factory registered is that of the
\* row, with its package on the disk, also after a restart (bootstrap); the
\* disk has one version, and no cached connector outlives the uninstallation,
\* unless something failed or overlapped; and only integrations whose own
\* device answered are stored (connect).
AddOnsAreServed ==
    part = "addons" =>
        /\ AO!TypeOK
        /\ AO!InstalledIsServed
        /\ AO!RestartServes
        /\ AO!OneVersionOnDisk
        /\ AO!ClosedWhenUninstalled
        /\ AO!StoredAnswered

\* Records of the Security log are passed over for want of a cursor only the
\* first time, after a crash, or when the state file is read while it is
\* rewritten; and a slug changes owner only by being deleted first, whatever
\* two users publish under it at once (publish_template).
StepsHaveCause ==
    [][/\ part = "telemetry" => TE!StartHasCause
       /\ part = "workspaces" => WS!OwnerKept]_all

=============================================================================
