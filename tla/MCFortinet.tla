----------------------------- MODULE MCFortinet -----------------------------
(***************************************************************************)
(* Instances for TLC of what the platform does with the Fortinet devices:  *)
(* blocks and WAF policies on FortiWeb, log forwarding of FortiGate, the   *)
(* failed logins that both report by webhook, and how a page of the        *)
(* console hears of the tickets.  They share no state: `part' says which   *)
(* of them runs, the variables that it does not have are None, and one of  *)
(* the same name serves each of them in turn.                              *)
(***************************************************************************)
EXTENDS TLC, Naturals

CONSTANTS
    None, Handler, Block, Source, Waf, Profile, Dos, Wanted, ReadOnly, MaxId, Mode,
    MaxFaults, Slots, Collector, Foreign, MaxFailures, Attacker, User, Window,
    Threshold, RateLimit, SiemWindow, SiemThreshold, SiemLimit, MaxTries,
    MaxBatch, MaxAttempts, MaxRecords, MaxLoad, MaxTime, Ticket, QueueSize

VARIABLES
    part, \* the machine that runs
    list, profile, policy, block, reviews, connected, thread, mode, faults,
    overlapped, released, slot, request, blind, met, now, burst, batch, records,
    tried, reported, late, tickets, made, stream, subscribed, queue, cache, fetch,
    known, ready, toasts, missed

\* FortiWeb: one request at a time, twice interrupted, or several at once.
FaultsOrRaces == {[serial |-> TRUE, faults |-> 2], [serial |-> FALSE, faults |-> 0]}

\* The WAF/DoS review asks for a profile that the device does not have, or for
\* the one in use.
WantedBy == [w \in Waf |-> [profile |-> "new", dos |-> "dos"]]

WF == INSTANCE WafBlocks
LF == INSTANCE LogForwarding WITH MaxFaults <- MaxFailures
FL == INSTANCE FailedLogins WITH Source <- Attacker
RF == INSTANCE RealtimeFeed WITH Thread <- Handler, Mine <- Ticket

\* Blocks and reviews are apart, reviews ask for a profile and a DoS policy,
\* failures are counted, and None is nothing that the device or a row holds.
ASSUME BlockAssumption ==
    /\ MaxId \in Nat
    /\ Wanted \in [Waf -> [profile : Profile, dos : Dos]]
    /\ Mode \subseteq [serial : BOOLEAN, faults : Nat]
    /\ Block \cap Waf = {} /\ None \notin Block \cup Waf
    /\ \A ms \in SUBSET WF!Member : None # ms
    /\ None \notin WF!Row
    /\ None \notin [list : {"none", "managed", "other"}, dos : Dos \cup {None}]

\* None is neither a list of tickets nor a request for them.
ASSUME FeedAssumption ==
    /\ QueueSize \in Nat
    /\ \A ts \in SUBSET Ticket : None # ts
    /\ \A f \in [at : {"sent", "read"}, found : SUBSET Ticket] : None # f

\* Slots and failures are counted, None is neither a slot nor a server, and no
\* collector is the server of others.
ASSUME ForwardingAssumption ==
    /\ {Slots, MaxFailures} \subseteq Nat
    /\ None \notin LF!Slot \cup LF!Server
    /\ Foreign \notin Collector

\* Times and counts are numbers, a burst takes an attempt at least, and None is
\* no time.
ASSUME LoginAssumption ==
    /\ {Window, Threshold, RateLimit, SiemWindow, SiemThreshold, SiemLimit, MaxTries,
        MaxBatch, MaxAttempts, MaxRecords, MaxLoad, MaxTime} \subseteq Nat
    /\ Threshold > 0
    /\ None \notin FL!Time

OutOfWF ==
    <<part, slot, request, blind, met, now, burst, batch, records, tried, reported,
      late, tickets, made, stream, subscribed, queue, cache, fetch, known, ready,
      toasts, missed>>
OutOfLF ==
    <<part, list, profile, policy, block, reviews, connected, thread, mode,
      overlapped, released, now, burst, batch, records, tried, reported, late,
      tickets, made, stream, subscribed, queue, cache, fetch, known, ready, toasts,
      missed>>
OutOfFL ==
    <<part, list, profile, policy, block, reviews, connected, thread, mode, faults,
      overlapped, released, slot, request, blind, met, tickets, made, stream,
      subscribed, queue, cache, fetch, known, ready, toasts, missed>>
OutOfRF ==
    <<part, profile, policy, block, reviews, connected, mode, overlapped, released,
      slot, request, blind, met, now, burst, batch, records, tried, reported, late>>
all ==
    <<part, list, profile, policy, block, reviews, connected, thread, mode, faults,
      overlapped, released, slot, request, blind, met, now, burst, batch, records,
      tried, reported, late, tickets, made, stream, subscribed, queue, cache, fetch,
      known, ready, toasts, missed>>

-----------------------------------------------------------------------------
InitWF ==
    /\ part = "waf" /\ WF!Init
    /\ slot = None /\ request = None /\ blind = None /\ met = None /\ now = None
    /\ burst = None /\ batch = None /\ records = None /\ tried = None
    /\ reported = None /\ late = None /\ tickets = None /\ made = None
    /\ stream = None /\ subscribed = None /\ queue = None /\ cache = None
    /\ fetch = None /\ known = None /\ ready = None /\ toasts = None
    /\ missed = None
InitLF ==
    /\ part = "forwarding" /\ LF!Init
    /\ list = None /\ profile = None /\ policy = None /\ block = None
    /\ reviews = None /\ connected = None /\ thread = None /\ mode = None
    /\ overlapped = None /\ released = None /\ now = None /\ burst = None
    /\ batch = None /\ records = None /\ tried = None /\ reported = None
    /\ late = None /\ tickets = None /\ made = None /\ stream = None
    /\ subscribed = None /\ queue = None /\ cache = None /\ fetch = None
    /\ known = None /\ ready = None /\ toasts = None /\ missed = None
InitFL ==
    /\ part = "logins" /\ FL!Init
    /\ list = None /\ profile = None /\ policy = None /\ block = None
    /\ reviews = None /\ connected = None /\ thread = None /\ mode = None
    /\ faults = None /\ overlapped = None /\ released = None /\ slot = None
    /\ request = None /\ blind = None /\ met = None /\ tickets = None /\ made = None
    /\ stream = None /\ subscribed = None /\ queue = None /\ cache = None
    /\ fetch = None /\ known = None /\ ready = None /\ toasts = None
    /\ missed = None
InitRF ==
    /\ part = "realtime" /\ RF!Init
    /\ profile = None /\ policy = None /\ block = None /\ reviews = None
    /\ connected = None /\ mode = None /\ overlapped = None /\ released = None
    /\ slot = None /\ request = None /\ blind = None /\ met = None /\ now = None
    /\ burst = None /\ batch = None /\ records = None /\ tried = None
    /\ reported = None /\ late = None

Init == InitWF \/ InitLF \/ InitFL \/ InitRF

Next ==
    \/ part = "waf" /\ WF!Next /\ UNCHANGED OutOfWF
    \/ part = "forwarding" /\ LF!Next /\ UNCHANGED OutOfLF
    \/ part = "logins" /\ FL!Next /\ UNCHANGED OutOfFL
    \/ part = "realtime" /\ RF!Next /\ UNCHANGED OutOfRF

Spec == Init /\ [][Next]_all

\* Threads and names are interchangeable.
Symmetry == Permutations(Handler) \cup Permutations(Block) \cup Permutations(Source)

-----------------------------------------------------------------------------
\* The server policy never refers to a profile the device does not have,
\* whatever fails.  A block recorded as active is enforced, unless a removal
\* of its source was begun, requests overlapped, or the policy has another
\* profile by now; applied again, alone, it is repaired; a removal that was
\* alone takes the source off the list; and no source or id is listed twice
\* unless requests overlapped (apply_source_block, remove_source_block).
BlocksAreEnforced ==
    part = "waf" =>
        /\ WF!TypeOK
        /\ WF!PolicyHasProfile
        /\ WF!ActiveIsEnforced
        /\ WF!AppliedIsEnforced
        /\ WF!RemovedIsReleased
        /\ WF!ListedOnce

\* No collector gets the log twice, though requests fail half-way and are
\* repeated, unless one could not read every slot or overlapped; and once a
\* request for everything has written its slot the collector gets everything,
\* also where an earlier one was left half done (_pick_syslog_slot).
LogsAreForwarded ==
    part = "forwarding" =>
        /\ LF!TypeOK
        /\ LF!ForwardedOnce
        /\ LF!AppliedIsComplete

\* A burst of failed logins twice as long as the threshold asks for is
\* reported by the webhook, though its window does not slide, and only bursts
\* are; attempts on one account that came one by one are an incident by the
\* time they add up to the threshold, and nothing is one without a burst
\* (register, _enrich_failed_login_burst).
BurstsAreReported ==
    part = "logins" =>
        /\ FL!TypeOK
        /\ FL!DoubleBurstIsReported
        /\ FL!BurstIsNoticed
        /\ FL!FlagsHaveCause
        /\ FL!ReportedIsBurst

\* A ticket is on the page or on its way there, unless nobody published it, no
\* subscriber or no room was there for its event, the stream or a request
\* failed, or the list was replaced by an older one; and none is announced
\* twice, though it is published twice and asked for besides.
PageIsTold ==
    part = "realtime" =>
        /\ RF!TypeOK
        /\ RF!ListedUnlessMissed
        /\ RF!AnnouncedOnce

\* A WAF/DoS review that is applied alone and to its end leaves the server
\* policy as it asked, with the DoS policy and the log
\* (apply_waf_dos_policy); and a syslog slot that forwards to another server
\* keeps doing so, unless two requests were served at once.
ChangesAreWhole ==
    [][/\ part = "waf" => WF!PolicyPrepared
       /\ part = "forwarding" => LF!OthersKept]_all

=============================================================================
