----------------------------- MODULE PolicyReview -----------------------------
(***************************************************************************)
(* Governed FortiGate policies of the BFF: an analyst has a plan reviewed  *)
(* (preflight), and applies it later by its hash.  Applying looks at the   *)
(* device again, compares, and then writes one object per API call.        *)
(*                                                                         *)
(* The device evaluates its policies in order, first match wins.  Only     *)
(* policies with Penguard's prefixes are modelled, between one pair of     *)
(* interfaces: the code neither changes nor matches any other.  The hash   *)
(* of a review stands for the plan it is computed from.                    *)
(***************************************************************************)
EXTENDS Naturals, Sequences, FiniteSets

CONSTANTS
    Host,     \* IP addresses
    Service,  \* service names other than ALL
    Request,  \* the policy requests that are reviewed
    Review,   \* policy change requests (database rows)
    NoReview, \* what an idle thread works on
    Applier,  \* threads of the BFF that serve policy-apply
    Setting   \* the circumstances to look at, see "setting"

Everything == "all"    \* the address object and the service that match everything

\* FortiGatePolicyPreflightRequest, as validate_scope_fields admits it.
Intent == [block : BOOLEAN,
           scope : {"source_only", "source_destination", "source_destination_service"},
           src   : Host,
           dst   : Host \cup {Everything},
           svc   : Service \cup {Everything}]

Admitted(q) ==
    /\ q \in Intent
    /\ q.scope # "source_only" => q.dst # Everything
    /\ q.scope = "source_destination_service" => q.svc # Everything

ASSUME PolicyAssumption ==
    /\ Request # {}
    /\ \A q \in Request : Admitted(q)
    /\ Everything \notin Host \cup Service
    /\ NoReview \notin Review
    /\ Setting \subseteq [serial : BOOLEAN, faults : BOOLEAN]

VARIABLES
    policies,   \* the Penguard policies of the device, in evaluation order
    addresses,  \* the hosts that have an address object
    review,     \* review[r]: the row of policy change request r
    applier,    \* applier[t]: what thread t is doing
    setting     \* is one review applied at a time; may a FortiGate call fail,
                \* or the BFF stop?  It never changes.

vars == <<policies, addresses, review, applier, setting>>

-----------------------------------------------------------------------------
(* Requests, policies and plans. *)

\* _service_for_policy
ServiceOf(q) == IF q.scope = "source_destination_service" THEN q.svc ELSE Everything

\* _policy_name: the prefix of the intent and a digest of the request.
Name(q) == [q EXCEPT !.svc = ServiceOf(q)]

Ids(s) == {s[i].id : i \in DOMAIN s}

\* The first policy of s that satisfies P has this position, 0 if none does.
FirstPos(s, P(_)) ==
    LET I == {i \in DOMAIN s : P(s[i])}
    IN  IF I = {} THEN 0 ELSE CHOOSE i \in I : \A j \in I : i <= j

Lab(p) == ~p.name.block

FirstLab(s) == FirstPos(s, Lab)

\* The conditions of _matching_lab_allow_policy on a policy.
Matches(q, p) ==
    /\ Lab(p)
    /\ p.name.src = q.src
    /\ \/ q.scope = "source_only"
       \/ p.dst = q.dst
       \/ p.deny /\ p.dst = Everything

\* _matching_lab_allow_policy
Match(q, s) == IF q.block THEN FirstPos(s, LAMBDA p : Matches(q, p)) ELSE 0

Hosts(q) == {q.src} \cup ({q.dst} \ {Everything})

\* Mutant: the policy is created, whether or not it is already there.
PlanAnew(q, s, A) ==
    LET m == Match(q, s) IN
    [op     |-> IF m # 0 THEN "update" ELSE "create",
     target |-> IF m # 0 THEN s[m].id ELSE 0,
     new    |-> IF m # 0 THEN {} ELSE Hosts(q) \ A,
     before |-> q.block /\ FirstLab(s) # 0]

\* preflight: the operations, and what the placement text depends on.
Plan(q, s, A) ==
    LET m == Match(q, s) IN
    [op     |-> IF m # 0 THEN "update"
                ELSE IF \E i \in DOMAIN s : s[i].name = Name(q) THEN "reuse" ELSE "create",
     target |-> IF m # 0 THEN s[m].id ELSE 0,
     new    |-> IF m # 0 THEN {} ELSE Hosts(q) \ A,
     before |-> q.block /\ FirstLab(s) # 0]

NewPolicy(q, i) ==
    [id |-> i, name |-> Name(q), dst |-> q.dst, svc |-> ServiceOf(q), deny |-> q.block]

\* Mutant: the update always restricts the policy to the requested destination.
BlockedNarrow(p, q) == [p EXCEPT !.deny = TRUE, !.svc = ServiceOf(q), !.dst = q.dst]

\* update_firewall_policy with _lab_allow_block_update_payload
Blocked(p, q) ==
    [p EXCEPT !.deny = TRUE, !.svc = ServiceOf(q),
              !.dst = IF q.scope = "source_only" THEN Everything ELSE @]

\* Mutant: the policy is copied, not moved.
MoveBeforeCopy(s, i, b) ==
    LET p == s[FirstPos(s, LAMBDA x : x.id = i)]
        k == FirstPos(s, LAMBDA x : x.id = b)
    IN  SubSeq(s, 1, k - 1) \o <<p>> \o SubSeq(s, k, Len(s))

\* move_firewall_policy(id, before)
MoveBefore(s, i, b) ==
    LET j    == FirstPos(s, LAMBDA x : x.id = i)
        rest == SubSeq(s, 1, j - 1) \o SubSeq(s, j + 1, Len(s))
        k    == FirstPos(rest, LAMBDA x : x.id = b)
    IN  SubSeq(rest, 1, k - 1) \o <<s[j]>> \o SubSeq(rest, k, Len(rest))

-----------------------------------------------------------------------------
Policy == [id : Nat \ {0}, name : {Name(q) : q \in Request},
           dst : Host \cup {Everything}, svc : Service \cup {Everything}, deny : BOOLEAN]

PlanOf == [op : {"update", "reuse", "create"}, target : Nat,
           new : SUBSET Host, before : BOOLEAN]

Row == [status : {"none", "pending_review", "applied"}, request : Request, plan : PlanOf]

Thread == [pc : {"idle", "loaded", "read", "addresses", "policy", "placing", "moving", "marking"},
           review : Review \cup {NoReview},  \* the review it applies
           seen : Seq(Policy),   \* what get_policies returned to the preflight
           left : SUBSET Host,   \* address objects still to be created
           id : Nat,             \* the id of the block it places, 0: look it up
           lab : Nat]            \* the id of the policy to place it before

\* Every variable holds what the code can store in it, and policy ids differ.
TypeOK ==
    /\ policies \in Seq(Policy)
    /\ Cardinality(Ids(policies)) = Len(policies)
    /\ addresses \subseteq Host
    /\ review \in [Review -> Row]
    /\ applier \in [Applier -> Thread]
    /\ setting \in Setting
    /\ setting.serial => Cardinality({t \in Applier : applier[t].pc # "idle"}) <= 1

Idle == [pc |-> "idle", review |-> NoReview, seen |-> <<>>,
         left |-> {}, id |-> 0, lab |-> 0]

NoRow == [status |-> "none", request |-> CHOOSE q \in Request : TRUE,
          plan |-> [op |-> "create", target |-> 0, new |-> {}, before |-> FALSE]]

Init ==
    /\ policies = <<>>
    /\ addresses = {}
    /\ review = [r \in Review |-> NoRow]
    /\ applier = [t \in Applier |-> Idle]
    /\ setting \in Setting

-----------------------------------------------------------------------------
\* create_policy_review_for_user
CreateReview(r, q) ==
    /\ review[r].status = "none"
    /\ review' = [review EXCEPT ![r] =
                    [status |-> "pending_review", request |-> q,
                     plan |-> Plan(q, policies, addresses)]]
    /\ UNCHANGED <<policies, addresses, applier, setting>>

At(t, pc) == applier[t].pc = pc
Req(t)    == review[applier[t].review].request
Reviewed(t) == review[applier[t].review].plan

\* Thread t is done, with an answer or with an error.
Stop(t) == applier' = [applier EXCEPT ![t] = Idle]

\* apply_policy_review_for_user, up to the hash check: the row is pending.
Load(t, r) ==
    /\ At(t, "idle")
    /\ setting.serial => \A u \in Applier : At(u, "idle")
    /\ review[r].status = "pending_review"
    /\ applier' = [applier EXCEPT ![t].pc = "loaded", ![t].review = r]
    /\ UNCHANGED <<policies, addresses, review, setting>>

\* preflight, the first read
ReadPolicies(t) ==
    /\ At(t, "loaded")
    /\ applier' = [applier EXCEPT ![t].pc = "read", ![t].seen = policies]
    /\ UNCHANGED <<policies, addresses, review, setting>>

\* Mutant: the device is read again, but the hashes are not compared.
CompareNot(t) ==
    /\ At(t, "read")
    /\ applier' = [applier EXCEPT ![t].pc = "addresses", ![t].seen = <<>>,
                                  ![t].left = Reviewed(t).new]
    /\ UNCHANGED <<policies, addresses, review, setting>>

\* preflight, the second read, and the comparison of the hashes: a stale review
\* is answered with 409 and stays as it is.
Compare(t) ==
    /\ At(t, "read")
    /\ IF Plan(Req(t), applier[t].seen, addresses) = Reviewed(t)
       THEN applier' = [applier EXCEPT ![t].pc = "addresses", ![t].seen = <<>>,
                                       ![t].left = Reviewed(t).new]
       ELSE Stop(t)
    /\ UNCHANGED <<policies, addresses, review, setting>>

\* apply_changes, an address: source first, then destination.
CreateAddress(t) ==
    /\ At(t, "addresses")
    /\ applier[t].left # {}
    /\ LET h == IF Req(t).src \in applier[t].left THEN Req(t).src ELSE Req(t).dst IN
         /\ addresses' = addresses \cup {h}
         /\ applier' = [applier EXCEPT ![t].left = @ \ {h}]
    /\ UNCHANGED <<policies, review, setting>>

\* Where apply_changes goes once policy i is there: a temporary block is moved.
Placed(t, i) ==
    applier' = [applier EXCEPT ![t].pc = IF Req(t).block THEN "placing" ELSE "marking",
                               ![t].id = i]

\* apply_changes, the policy: update, reuse or create (the device appends it).
WritePolicy(t) ==
    /\ At(t, "addresses")
    /\ applier[t].left = {}
    /\ LET q == Req(t)
           new == Len(policies) + 1
       IN  CASE Reviewed(t).op = "update" ->
                  /\ policies' = [i \in DOMAIN policies |->
                                    IF policies[i].id = Reviewed(t).target
                                    THEN Blocked(policies[i], q) ELSE policies[i]]
                  /\ applier' = [applier EXCEPT ![t].pc = "marking"]
             [] Reviewed(t).op = "reuse" -> Placed(t, 0) /\ UNCHANGED policies
             [] Reviewed(t).op = "create" ->
                  /\ policies' = Append(policies, NewPolicy(q, new))
                  /\ Placed(t, new)
    /\ UNCHANGED <<addresses, review, setting>>

\* Mutant: a block stays where the device put it.
FindPlaceNone(t) ==
    /\ At(t, "placing")
    /\ applier' = [applier EXCEPT ![t].pc = "marking"]
    /\ UNCHANGED <<policies, addresses, review, setting>>

\* _move_temporary_block_before_lab_allow, the read: nothing to move before,
\* or the id of the block, from the result of its creation or by its name.
FindPlace(t) ==
    /\ At(t, "placing")
    /\ LET l == FirstLab(policies)
           n == FirstPos(policies, LAMBDA p : p.name = Name(Req(t)))
           i == IF applier[t].id # 0 THEN applier[t].id
                ELSE IF n = 0 THEN 0 ELSE policies[n].id
       IN  CASE l = 0 -> applier' = [applier EXCEPT ![t].pc = "marking"]
             [] l # 0 /\ i # 0 ->
                  applier' = [applier EXCEPT ![t].pc = "moving", ![t].id = i,
                                             ![t].lab = policies[l].id]
             [] l # 0 /\ i = 0 -> Stop(t)
    /\ UNCHANGED <<policies, addresses, review, setting>>

\* move_firewall_policy
Move(t) ==
    /\ At(t, "moving")
    /\ policies' = MoveBefore(policies, applier[t].id, applier[t].lab)
    /\ applier' = [applier EXCEPT ![t].pc = "marking"]
    /\ UNCHANGED <<addresses, review, setting>>

\* mark_policy_request_applied
MarkApplied(t) ==
    /\ At(t, "marking")
    /\ review' = [review EXCEPT ![applier[t].review].status = "applied"]
    /\ Stop(t)
    /\ UNCHANGED <<policies, addresses, setting>>

\* A FortiGate call fails, having had its effect or not, or the BFF stops:
\* what was written stays, and so does the row.
Fail(t) ==
    /\ setting.faults
    /\ ~At(t, "idle")
    /\ Stop(t)
    /\ UNCHANGED <<policies, addresses, review, setting>>

Apply(t) ==
    \/ \E r \in Review : Load(t, r)
    \/ ReadPolicies(t) \/ Compare(t) \/ CreateAddress(t) \/ WritePolicy(t)
    \/ FindPlace(t) \/ Move(t) \/ MarkApplied(t) \/ Fail(t)

Next ==
    \/ \E r \in Review, q \in Request : CreateReview(r, q)
    \/ \E t \in Applier : Apply(t)

Spec == Init /\ [][Next]_vars

-----------------------------------------------------------------------------
(* Properties. *)

Flow == [src : Host, dst : Host, svc : Service]

\* The traffic that request q is about.
About(q) ==
    {f \in Flow : f.src = q.src /\ q.dst \in {Everything, f.dst} /\ ServiceOf(q) \in {Everything, f.svc}}

\* The first Penguard policy of the device that matches flow f denies it.
Denied(f) ==
    LET k == FirstPos(policies, LAMBDA p : /\ p.name.src = f.src
                                           /\ p.dst \in {Everything, f.dst}
                                           /\ p.svc \in {Everything, f.svc})
    IN  k # 0 /\ policies[k].deny

\* Two shapes of requests that the code does not look at.  A later block of a
\* source takes over a policy that an earlier one has turned into a block, and
\* with it the service the policy is about: blocks of a source have one service.
OneService ==
    \A q, r \in Request : q.block /\ r.block /\ q.src = r.src => ServiceOf(q) = ServiceOf(r)

\* And a block of one destination turns the lab policy of that destination into
\* a block where it is, behind whatever is ahead of it: there is no lab policy
\* for all destinations of that source.
NoneWider ==
    \A q, l, w \in Request :
        /\ q.block /\ ~l.block /\ ~w.block /\ l.src = q.src /\ w.src = q.src
        /\ q.scope # "source_only" /\ l.dst = q.dst
        => w.dst # Everything

\* When a temporary block is about to be recorded as applied, the device denies
\* the traffic it was reviewed for, whatever earlier attempts left behind.
BlockIsEffective ==
    \A t \in Applier :
        At(t, "marking") /\ Req(t).block => \A f \in About(Req(t)) : Denied(f)

\* A block that is recorded as applied stays in force: no later review, update
\* or move makes the device accept that traffic again.
AppliedBlocksHold ==
    \A r \in Review :
        review[r].status = "applied" /\ review[r].request.block =>
            \A f \in About(review[r].request) : Denied(f)

\* Applied one at a time, however often they fail and are tried again, reviews
\* never leave two policies of a name.
NamesAreUnique ==
    setting.serial =>
        \A i, j \in DOMAIN policies : policies[i].name = policies[j].name => i = j

\* What is written was reviewed against this state of the device: applied one
\* at a time, a review is never written to a device that has changed since.
WriteIsReviewed ==
    [][\A t \in Applier :
         setting.serial /\ At(t, "addresses") /\ applier[t].left = Reviewed(t).new
         /\ <<policies, addresses>>' # <<policies, addresses>>
         /\ applier'[t] # applier[t]
         => Plan(Req(t), policies, addresses) = Reviewed(t)]_vars
=============================================================================
