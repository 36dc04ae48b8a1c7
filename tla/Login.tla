-------------------------------- MODULE Login --------------------------------
(***************************************************************************)
(* How a browser gets a session of the BFF: the rate limiter of one address  *)
(* and route, the calls to the identity provider (Keycloak, external), the   *)
(* session row, the audit record, and the cookie.  The handlers are threads; *)
(* the limiter has no lock, so its steps interleave.                         *)
(***************************************************************************)
EXTENDS Naturals, Sequences, FiniteSets, Functions

CONSTANTS
    Account,      \* e-mail addresses
    Handler,      \* request threads
    MaxAttempts,  \* max_attempts of the limiter
    Window,       \* its window
    MaxTries,     \* bound on the requests
    MaxTime,      \* bound on the clock
    None

VARIABLES
    now,       \* the clock
    bucket,    \* the times of the attempts that were let through
    handler,   \* handler[h]: the request it works on
    accounts,  \* the accounts of the identity provider
    session,   \* session rows by number: whose, and whether it is revoked
    audit,     \* the audit records: outcome by request number
    cookies,   \* the sessions that a browser holds the cookie of
    tries,     \* number of requests so far
    allowed,   \* history: when the limiter let a request through
    raced      \* history: two threads were in the limiter at once

vars == <<now, bucket, handler, accounts, session, audit, cookies, tries, allowed, raced>>

Resting == [pc |-> "idle", no |-> 0, account |-> None, at |-> 0, new |-> FALSE, row |-> 0]
InLimiter == {"prune", "pop", "count", "append"}
Pc == InLimiter \cup {"idle", "create", "login", "userinfo", "insert", "record"}

\* What the limiter, the handlers and the tables hold.
TypeOK ==
    /\ \A t \in Range(bucket) : t <= now
    /\ \A h \in Handler :
         /\ handler[h].pc \in Pc
         /\ handler[h].pc = "record" =>
              handler[h].row \in DOMAIN session /\ ~session[handler[h].row].revoked
         /\ handler[h].pc \in {"userinfo", "insert"} => handler[h].account \in accounts
    /\ \A n \in DOMAIN session : session[n].account \in accounts
    /\ DOMAIN audit \subseteq 1..tries
    /\ cookies \subseteq DOMAIN session

Init ==
    /\ now = 0 /\ bucket = <<>> /\ tries = 0
    /\ handler = [h \in Handler |-> Resting]
    /\ accounts = {} /\ session = <<>> /\ cookies = {}
    /\ audit = <<>> /\ allowed = <<>> /\ raced = FALSE

Tick ==
    /\ now < MaxTime
    /\ now' = now + 1
    /\ UNCHANGED <<bucket, handler, accounts, session, audit, cookies, tries, allowed, raced>>

Is(h, pc) == handler[h].pc = pc
Goes(h, pc) == handler' = [handler EXCEPT ![h].pc = pc]
Ends(h) == handler' = [handler EXCEPT ![h] = Resting]
Audited(h, outcome) == audit' = [n \in DOMAIN audit \cup {handler[h].no} |->
                                   IF n = handler[h].no THEN outcome ELSE audit[n]]

\* A request to register (new) or to log in, which has passed the CSRF check.
Start(h, a, new) ==
    /\ Is(h, "idle") /\ tries < MaxTries
    /\ tries' = tries + 1
    /\ handler' = [handler EXCEPT ![h] =
                     [pc |-> "prune", no |-> tries + 1, account |-> a, at |-> now,
                      new |-> new, row |-> 0]]
    /\ raced' = (raced \/ \E g \in Handler : handler[g].pc \in InLimiter)
    /\ UNCHANGED <<now, bucket, accounts, session, audit, cookies, allowed>>

-----------------------------------------------------------------------------
(* InMemoryRateLimiter.allow. *)

\* Mutant: an attempt leaves the window a moment too early.
OldEarly(t, at) == t + Window <= at + 1

\* Mutant: it stays a moment too long.
OldLate(t, at) == t + Window < at

Old(t, at) == t + Window <= at

Prune(h) ==
    /\ Is(h, "prune")
    /\ Goes(h, IF bucket # <<>> /\ Old(Head(bucket), handler[h].at) THEN "pop" ELSE "count")
    /\ UNCHANGED <<now, bucket, accounts, session, audit, cookies, tries, allowed, raced>>

\* popleft takes what is first now; when another thread has emptied the bucket
\* it raises, and the request fails.
PopLeft(h) ==
    /\ Is(h, "pop")
    /\ IF bucket = <<>> THEN Ends(h) /\ UNCHANGED bucket
       ELSE Goes(h, "prune") /\ bucket' = Tail(bucket)
    /\ UNCHANGED <<now, accounts, session, audit, cookies, tries, allowed, raced>>

Count(h) ==
    /\ Is(h, "count")
    /\ IF Len(bucket) >= MaxAttempts
       THEN Ends(h) /\ Audited(h, "rate_limited")
       ELSE Goes(h, "append") /\ UNCHANGED audit
    /\ UNCHANGED <<now, bucket, accounts, session, cookies, tries, allowed, raced>>

Admit(h) ==
    /\ Is(h, "append")
    /\ bucket' = Append(bucket, handler[h].at)
    /\ allowed' = Append(allowed, handler[h].at)
    /\ Goes(h, IF handler[h].new THEN "create" ELSE "login")
    /\ UNCHANGED <<now, accounts, session, audit, cookies, tries, raced>>

-----------------------------------------------------------------------------
(* The identity provider. *)

\* An AuthProviderError: the request ends with its status and a record.
ProviderError(h) ==
    /\ handler[h].pc \in {"create", "login", "userinfo"}
    /\ Ends(h) /\ Audited(h, "failed")
    /\ UNCHANGED <<now, bucket, accounts, session, cookies, tries, allowed, raced>>

\* create_user: an account that exists is refused; the account may also be
\* created though no answer comes.
CreateUser(h) ==
    LET a == handler[h].account IN
    /\ Is(h, "create") /\ a \notin accounts
    /\ accounts' = accounts \cup {a}
    /\ \/ Goes(h, "login") /\ UNCHANGED audit
       \/ Ends(h) /\ Audited(h, "failed")
    /\ UNCHANGED <<now, bucket, session, cookies, tries, allowed, raced>>

\* login: for a password that is right.  After registering, what is known of the
\* user is taken from the registration, otherwise asked for.
PasswordGrant(h) ==
    /\ Is(h, "login") /\ handler[h].account \in accounts
    /\ Goes(h, IF handler[h].new THEN "insert" ELSE "userinfo")
    /\ UNCHANGED <<now, bucket, accounts, session, audit, cookies, tries, allowed, raced>>

Userinfo(h) ==
    /\ Is(h, "userinfo") /\ Goes(h, "insert")
    /\ UNCHANGED <<now, bucket, accounts, session, audit, cookies, tries, allowed, raced>>

-----------------------------------------------------------------------------
(* The session. *)

\* SqlAlchemySessionStore.create.
InsertSession(h) ==
    /\ Is(h, "insert")
    /\ session' = Append(session, [account |-> handler[h].account, revoked |-> FALSE])
    /\ handler' = [handler EXCEPT ![h].pc = "record", ![h].row = Len(session) + 1]
    /\ UNCHANGED <<now, bucket, accounts, audit, cookies, tries, allowed, raced>>

\* Mutant: the cookie does not wait for the audit record.
RecordAfterCookie(h) ==
    /\ Is(h, "record") /\ Ends(h)
    /\ cookies' = cookies \cup {handler[h].row}
    /\ Audited(h, "success") \/ UNCHANGED audit
    /\ UNCHANGED <<now, bucket, accounts, session, tries, allowed, raced>>

\* The record of the success, and the cookie.  Without the record the request
\* fails, and the row stays, with no browser that holds its id.
RecordAndAnswer(h) ==
    /\ Is(h, "record") /\ Ends(h)
    /\ \/ Audited(h, "success") /\ cookies' = cookies \cup {handler[h].row}
       \/ UNCHANGED <<audit, cookies>>
    /\ UNCHANGED <<now, bucket, accounts, session, tries, allowed, raced>>

\* logout: another window may still hold the cookie.
Logout(n) ==
    /\ n \in cookies /\ ~session[n].revoked
    /\ session' = [session EXCEPT ![n].revoked = TRUE]
    /\ cookies' \in {cookies, cookies \ {n}}
    /\ UNCHANGED <<now, bucket, handler, accounts, audit, tries, allowed, raced>>

\* The session with which a request is authorised.
Live == {n \in cookies : ~session[n].revoked}

Next ==
    \/ Tick
    \/ \E h \in Handler :
         \/ \E a \in Account, new \in BOOLEAN : Start(h, a, new)
         \/ Prune(h) \/ PopLeft(h) \/ Count(h) \/ Admit(h)
         \/ ProviderError(h) \/ CreateUser(h) \/ PasswordGrant(h) \/ Userinfo(h)
         \/ InsertSession(h) \/ RecordAndAnswer(h)
    \/ \E n \in cookies : Logout(n)

Spec == Init /\ [][Next]_vars

-----------------------------------------------------------------------------
(* What the code promises. *)

\* No more than max_attempts requests of an address come through in a window,
\* as long as no two threads are in the limiter at once: then one may pop what
\* the other has not judged, or both count before either appends.
LimitHolds ==
    ~raced => \A t \in 0..now :
        Cardinality({k \in DOMAIN allowed : allowed[k] <= t /\ allowed[k] + Window > t})
          <= MaxAttempts

\* Nor does the limiter keep people out for longer than the window: who is
\* refused has max_attempts attempts in the window before.
RefusalIsDue ==
    ~raced => \A h \in Handler : (Is(h, "count") /\ Len(bucket) >= MaxAttempts) =>
        Cardinality({k \in DOMAIN allowed : allowed[k] + Window > handler[h].at}) >= MaxAttempts

\* Every session that a browser can use stands in the audit log.
LiveIsAudited ==
    Cardinality(Live) <= Cardinality({n \in DOMAIN audit : audit[n] = "success"})
=============================================================================
