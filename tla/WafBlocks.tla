------------------------------ MODULE WafBlocks ------------------------------
(***************************************************************************)
(* Governed changes of a FortiWeb: source blocks, which are members of one  *)
(* IP list of the device that is attached to the profile of the protected   *)
(* server policy, and WAF/DoS reviews, which put another profile there.     *)
(* A block is reviewed, applied and removed by hand; several blocks may     *)
(* name one source.  Every call to the device is a step of its own, may     *)
(* fail, and may fail towards the BFF although the device did it.           *)
(***************************************************************************)
EXTENDS Naturals, FiniteSets, FiniteSetsExt

CONSTANTS
    Block,      \* block requests
    Source,     \* source addresses to block
    Waf,        \* WAF/DoS reviews
    Profile,    \* inline protection profiles
    Dos,        \* DoS prevention policies
    Wanted,     \* Wanted[w]: profile and DoS policy that w asks for
    ReadOnly,   \* profiles that come with the device
    Handler,    \* request threads
    MaxId,      \* bound on the member ids
    Mode,       \* bound: one request at a time, or several at once, and how many
                \* failed calls, restarts and deletions beside them
    None

VARIABLES
    list,       \* the members of the managed IP list, None without the list
    profile,    \* profile[p]: its IP list and DoS policy, None without it
    policy,     \* the server policy: its profile, does it log its traffic?
    block,      \* the rows of fortiweb_block_requests
    reviews,    \* the WAF/DoS reviews in the memory of the adapter
    connected,  \* the integration exists
    thread,     \* the request that each handler thread serves
    mode,       \* the bound in force, [serial, faults]
    faults,     \* how much went wrong
    overlapped, \* history: sources whose apply or removal met another one
    released    \* history: sources that a removal was begun for

device == <<list, profile, policy>>
history == <<overlapped, released>>
vars == <<device, block, reviews, connected, thread, mode, faults, history>>

-----------------------------------------------------------------------------
Member == [id : 1..MaxId, ip : Source]
Row == [status : {"pending_review", "active", "removed"}, src : Source,
        profile : Profile, attached : BOOLEAN]

\* row: the block as it was read at the start.  members, read: what was read
\* of the device.  alone: no other request was served since this one began.
Idle == [pc |-> "idle", job |-> None, row |-> None, members |-> {}, read |-> None, alone |-> TRUE]

\* What the code can store, and the steps a request can be at.
TypeOK ==
    /\ list = None \/ list \subseteq Member
    /\ profile \in [Profile -> {None} \cup
                       [list : {"none", "managed", "other"}, dos : Dos \cup {None}]]
    /\ policy \in [profile : Profile, log : BOOLEAN]
    /\ block \in [Block -> {None} \cup Row]
    /\ reviews \subseteq Waf
    /\ connected \in BOOLEAN
    /\ \A h \in Handler :
         /\ thread[h].job \in Block \cup Waf \cup {None}
         /\ (thread[h].pc = "idle") <=> (thread[h] = Idle)
         /\ thread[h].pc \in {"idle", "list", "makelist", "member", "attach", "save", "applied",
                              "find", "delete", "removed", "read", "profile", "policy"}
    /\ ~connected => \A b \in Block : block[b] = None
    /\ mode \in Mode /\ faults \in 0..mode.faults
    /\ overlapped \subseteq Source /\ released \subseteq Source

\* A device as the lab finds it: one profile in use, without DoS prevention.
Init ==
    /\ list \in {None, {}}
    /\ \E p \in Profile, l \in {"none", "other"} :
         /\ profile = [q \in Profile |-> IF q = p THEN [list |-> l, dos |-> None] ELSE None]
         /\ policy = [profile |-> p, log |-> FALSE]
    /\ block = [b \in Block |-> None]
    /\ reviews = {}
    /\ connected = TRUE
    /\ thread = [h \in Handler |-> Idle]
    /\ mode \in Mode /\ faults = 0
    /\ overlapped = {} /\ released = {}

Fault == faults < mode.faults /\ faults' = faults + 1

-----------------------------------------------------------------------------
(* Reviews. *)

\* review_source_block: only reads the device; a foreign IP list is refused.
ReviewBlock(b, s) ==
    LET p == profile[policy.profile] IN
    /\ connected
    /\ block[b] = None
    /\ p.list # "other"
    /\ block' = [block EXCEPT ![b] = [status |-> "pending_review", src |-> s,
                                      profile |-> policy.profile, attached |-> p.list = "managed"]]
    /\ UNCHANGED <<device, reviews, connected, thread, mode, faults, history>>

\* review_waf_dos_policy, kept by the adapter for any number of applies.
ReviewWaf(w) ==
    /\ connected
    /\ reviews' = reviews \cup {w}
    /\ UNCHANGED <<device, block, connected, thread, mode, faults, history>>

-----------------------------------------------------------------------------
(* Requests that change the device. *)

\* What was read of the device is used by the next call only.
Busy(h) == thread[h].pc # "idle"
Become(h, pc) == thread' = [thread EXCEPT ![h].pc = pc, ![h].members = {}, ![h].read = None]
End(h) == thread' = [thread EXCEPT ![h] = Idle]

\* Handler h begins job j at pc; from now on nobody who is busy is alone.
Begin(h, j, pc) ==
    thread' = [k \in Handler |->
        IF k = h THEN [Idle EXCEPT !.pc = pc, !.job = j, !.alone = \A g \in Handler : ~Busy(g),
                                   !.row = IF j \in Block THEN block[j] ELSE None]
        ELSE IF Busy(k) THEN [thread[k] EXCEPT !.alone = FALSE] ELSE thread[k]]

Free(h) == thread[h] = Idle /\ (mode.serial => \A k \in Handler : ~Busy(k))

\* The sources that are being applied or removed.
Underway == {thread[h].row.src : h \in {k \in Handler : thread[k].job \in Block}}

Meets(s) == overlapped' = IF Underway # {} THEN overlapped \cup Underway \cup {s} ELSE overlapped

\* apply_source_block: a block that is active may be applied again.
BeginApply(h, b) ==
    /\ connected
    /\ Free(h)
    /\ block[b] # None /\ block[b].status \in {"pending_review", "active"}
    /\ Begin(h, b, "list")
    /\ Meets(block[b].src)
    /\ UNCHANGED <<device, block, reviews, connected, mode, faults, released>>

\* remove_source_block
BeginRemove(h, b) ==
    /\ connected
    /\ Free(h)
    /\ block[b] # None /\ block[b].status = "active"
    /\ Begin(h, b, "find")
    /\ Meets(block[b].src)
    /\ released' = released \cup {block[b].src}
    /\ UNCHANGED <<device, block, reviews, connected, mode, faults>>

\* apply_waf_dos_policy: what was read for the review is not compared.
BeginWaf(h, w) ==
    /\ connected
    /\ Free(h)
    /\ w \in reviews
    /\ Begin(h, w, "read")
    /\ UNCHANGED <<device, block, reviews, connected, mode, faults, history>>

\* A call fails, with or without effect; the request ends with an error.
Fails(h) == End(h) /\ Fault
Works(h, pc) == Become(h, pc) /\ UNCHANGED faults

\* get_ip_list and get_ip_list_members
ReadList(h) ==
    /\ thread[h].pc = "list"
    /\ \/ /\ thread' = [thread EXCEPT ![h].pc = IF list = None THEN "makelist" ELSE "member",
                                      ![h].members = IF list = None THEN {} ELSE list]
          /\ UNCHANGED faults
       \/ Fails(h)
    /\ UNCHANGED <<device, block, reviews, connected, mode, history>>

\* create_ip_list, which the device refuses when there is one by now
MakeList(h) ==
    /\ thread[h].pc = "makelist"
    /\ \/ list = None /\ list' = {} /\ (Works(h, "member") \/ Fails(h))
       \/ list # None /\ End(h) /\ UNCHANGED <<list, faults>>
       \/ Fails(h) /\ UNCHANGED list
    /\ UNCHANGED <<profile, policy, block, reviews, connected, mode, history>>

\* Mutant: any member will do.
ListsAny(members, ip) == members # {}

\* _member_for_source: is the address among the members that were read?
Lists(members, ip) == \E m \in members : m.ip = ip

\* Mutant: all members get id 1.
FirstId(members) == 1

\* _next_ip_list_member_id
NextId(members) == IF members = {} THEN 1 ELSE Max({m.id : m \in members}) + 1

\* Mutant: the list is taken to be attached whatever the review found.
AttachedAlways(row) == "applied"

\* What comes after the member: the review said whether the list is attached.
AfterMember(row) == IF row.attached THEN "applied" ELSE "attach"

\* create_ip_list_member.  A member with that id may be there by now: the
\* device refuses, or keeps both.
AddMember(h) ==
    LET ip == thread[h].row.src
        m == [id |-> NextId(thread[h].members), ip |-> ip] IN
    /\ thread[h].pc = "member"
    /\ \/ /\ Lists(thread[h].members, ip)
          /\ Works(h, AfterMember(thread[h].row))
          /\ UNCHANGED list
       \/ /\ ~Lists(thread[h].members, ip)
          /\ m.id <= MaxId
          /\ \/ list' = list \cup {m} /\ (Works(h, AfterMember(thread[h].row)) \/ Fails(h))
             \/ Fails(h) /\ UNCHANGED list
             \/ (\E n \in list : n.id = m.id) /\ End(h) /\ UNCHANGED <<list, faults>>
    /\ UNCHANGED <<profile, policy, block, reviews, connected, mode, history>>

\* get_inline_protection_profile, of the profile that the review named
ReadAttached(h) ==
    /\ thread[h].pc = "attach"
    /\ \/ /\ thread' = [thread EXCEPT ![h].pc = "save", ![h].read = profile[thread[h].row.profile]]
          /\ UNCHANGED faults
       \/ Fails(h)
    /\ UNCHANGED <<device, block, reviews, connected, mode, history>>

\* update_inline_protection_profile with all of the profile that was read
SaveAttached(h) ==
    /\ thread[h].pc = "save"
    /\ \/ /\ profile' = [profile EXCEPT ![thread[h].row.profile] =
                            [list |-> "managed", dos |-> thread[h].read.dos]]
          /\ Works(h, "applied") \/ Fails(h)
       \/ Fails(h) /\ UNCHANGED profile
    /\ UNCHANGED <<list, policy, block, reviews, connected, mode, history>>

\* mark_block_applied or mark_block_removed; the row may be gone.
Mark(h, pc, status) ==
    LET b == thread[h].job IN
    /\ thread[h].pc = pc
    /\ End(h)
    /\ block' = IF block[b] = None THEN block ELSE [block EXCEPT ![b].status = status]
    /\ UNCHANGED <<device, reviews, connected, mode, faults, history>>

MarkApplied(h) == Mark(h, "applied", "active")
MarkRemoved(h) == Mark(h, "removed", "removed")

\* get_ip_list_members, for a removal
Find(h) ==
    /\ thread[h].pc = "find"
    /\ \/ /\ list # None
          /\ thread' = [thread EXCEPT ![h].members = list,
                 ![h].pc = IF Lists(list, thread[h].row.src) THEN "delete" ELSE "removed"]
          /\ UNCHANGED faults
       \/ Fails(h)
    /\ UNCHANGED <<device, block, reviews, connected, mode, history>>

\* Mutant: the address is not compared.
AnyMember(members, ip) == members

\* _member_for_source: the members with the address
MembersOf(members, ip) == {m \in members : m.ip = ip}

\* delete_ip_list_member, by the id of the first member with the address
Delete(h) ==
    /\ thread[h].pc = "delete"
    /\ \/ /\ \E m \in MembersOf(thread[h].members, thread[h].row.src) :
               list' = {n \in list : n.id # m.id}
          /\ Works(h, "removed") \/ Fails(h)
       \/ Fails(h) /\ UNCHANGED list
    /\ UNCHANGED <<profile, policy, block, reviews, connected, mode, history>>

-----------------------------------------------------------------------------
(* apply_waf_dos_policy *)

\* get_server_policy and get_inline_protection_profile
ReadWaf(h) ==
    /\ thread[h].pc = "read"
    /\ \/ /\ thread' = [thread EXCEPT ![h].pc = "profile",
                ![h].read = [policy |-> policy, profile |-> profile[Wanted[thread[h].job].profile]]]
          /\ UNCHANGED faults
       \/ Fails(h)
    /\ UNCHANGED <<device, block, reviews, connected, mode, history>>

\* create_inline_protection_profile, or update_inline_protection_profile with
\* the DoS policy only, unless it is the wanted one; a profile of the device's
\* own is left alone.  The device refuses to create what is there by now.
Prepared(h) == thread' = [thread EXCEPT ![h].pc = "policy"] /\ UNCHANGED faults

\* Mutant: the profile is left to be made later.
PrepareNothing(h) ==
    /\ thread[h].pc = "profile"
    /\ Prepared(h)
    /\ UNCHANGED <<device, block, reviews, connected, mode, history>>

PrepareProfile(h) ==
    LET w == Wanted[thread[h].job]  read == thread[h].read.profile IN
    /\ thread[h].pc = "profile"
    /\ \/ /\ read = None /\ profile[w.profile] = None
          /\ profile' = [profile EXCEPT ![w.profile] = [list |-> "none", dos |-> w.dos]]
          /\ Prepared(h) \/ Fails(h)
       \/ /\ read = None /\ profile[w.profile] # None
          /\ End(h) /\ UNCHANGED <<profile, faults>>
       \/ /\ read # None /\ read.dos # w.dos /\ w.profile \notin ReadOnly
          /\ profile' = [profile EXCEPT ![w.profile].dos = w.dos]
          /\ Prepared(h) \/ Fails(h)
       \/ /\ read # None /\ read.dos # w.dos /\ w.profile \in ReadOnly
          /\ End(h) /\ UNCHANGED <<profile, faults>>
       \/ /\ read # None /\ read.dos = w.dos
          /\ Prepared(h) /\ UNCHANGED profile
       \/ Fails(h) /\ UNCHANGED profile
    /\ UNCHANGED <<list, policy, block, reviews, connected, mode, history>>

\* Mutant: the traffic log is left as it is.
UpdatedQuietly(read, w) ==
    [policy EXCEPT !.profile = IF read.profile # w.profile THEN w.profile ELSE @]

\* What update_server_policy sets: what differed when it was read.
Updated(read, w) ==
    [profile |-> IF read.profile # w.profile THEN w.profile ELSE policy.profile,
     log     |-> policy.log \/ ~read.log]

PreparePolicy(h) ==
    LET w == Wanted[thread[h].job]  read == thread[h].read.policy IN
    /\ thread[h].pc = "policy"
    /\ \/ policy' = Updated(read, w) /\ End(h) /\ UNCHANGED faults
       \/ policy' = Updated(read, w) /\ Fails(h)
       \/ UNCHANGED policy /\ Fails(h)
    /\ UNCHANGED <<list, profile, block, reviews, connected, mode, history>>

-----------------------------------------------------------------------------
\* delete_integration: the rows go, the device keeps its list.
DeleteIntegration ==
    /\ connected /\ Fault
    /\ connected' = FALSE
    /\ block' = [b \in Block |-> None]
    /\ UNCHANGED <<device, reviews, thread, mode, history>>

\* The BFF is started again: requests end where they are, reviews in memory go.
Restart ==
    /\ Fault
    /\ thread' = [h \in Handler |-> Idle]
    /\ reviews' = {}
    /\ UNCHANGED <<device, block, connected, mode, history>>

Request(h) ==
    \/ \E b \in Block : BeginApply(h, b) \/ BeginRemove(h, b)
    \/ \E w \in Waf : BeginWaf(h, w)
    \/ ReadList(h) \/ MakeList(h) \/ AddMember(h) \/ ReadAttached(h) \/ SaveAttached(h)
    \/ MarkApplied(h) \/ Find(h) \/ Delete(h) \/ MarkRemoved(h)
    \/ ReadWaf(h) \/ PrepareProfile(h) \/ PreparePolicy(h)

Next ==
    \/ \E b \in Block, s \in Source : ReviewBlock(b, s)
    \/ \E w \in Waf : ReviewWaf(w)
    \/ DeleteIntegration \/ Restart
    \/ \E h \in Handler : Request(h)

Spec == Init /\ [][Next]_vars

-----------------------------------------------------------------------------
(* Properties. *)

\* The device denies the source: it is on the list, and the list is attached
\* to the profile of the server policy.
Enforced(s) ==
    /\ list # None /\ Lists(list, s)
    /\ profile[policy.profile].list = "managed"

\* The server policy never refers to a profile that the device does not have:
\* a profile is made before it is put there, whatever fails.
PolicyHasProfile == profile[policy.profile] # None

\* A block that is recorded as active is enforced, however often applying it
\* failed on the way, unless a removal was begun for its source, requests about
\* it overlapped with others (ids are given out again, so even the removal of
\* another source may delete its member), or a WAF/DoS review put another profile on the server policy.
ActiveIsEnforced ==
    \A b \in Block :
        /\ block[b] # None /\ block[b].status = "active"
        /\ block[b].profile = policy.profile
        /\ block[b].src \notin overlapped \cup released
        => Enforced(block[b].src)

\* Applying a block again repairs it: at the end of a request that was alone
\* the source is denied, though other blocks of it may have been removed.
AppliedIsEnforced ==
    \A h \in Handler :
        thread[h].pc = "applied" /\ thread[h].alone /\ thread[h].row.profile = policy.profile
            => Enforced(thread[h].row.src)

\* At the end of a removal that was alone the source is off the list, unless
\* overlapping applies had put it there twice.
RemovedIsReleased ==
    \A h \in Handler :
        thread[h].pc = "removed" /\ thread[h].alone /\ thread[h].row.src \notin overlapped
            => ~Lists(list, thread[h].row.src)

\* A source is listed twice, or an id given twice, only when requests overlapped:
\* an apply that is repeated after a failure finds what it had done.
ListedOnce ==
    list # None => \A m, n \in list :
        m # n /\ (m.ip = n.ip \/ m.id = n.id) => m.ip \in overlapped

\* A WAF/DoS review that is applied alone and to its end leaves the server policy
\* with the profile and the DoS policy it asked for, and with its log on.
PolicyPrepared ==
    \A h \in Handler :
       thread[h].pc = "policy" /\ thread[h].alone /\ thread'[h] = Idle /\ faults' = faults
           => /\ policy' = [profile |-> Wanted[thread[h].job].profile, log |-> TRUE]
              /\ profile'[policy'.profile].dos = Wanted[thread[h].job].dos

=============================================================================
