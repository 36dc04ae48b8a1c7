-------------------------- MODULE EnrollmentBinding --------------------------
(***************************************************************************)
(* How xdr_rico binds an enrollment token to an endpoint.  The first       *)
(* request that presents the token claims it; later ones must name the     *)
(* endpoint it is bound to.  Looking the enrollment up and claiming it are *)
(* two transactions, and the handler acts for the endpoint in a third:     *)
(* requests with the same token, from two hosts set up with one token or   *)
(* from one agent that pairs and reports, interleave between them.         *)
(***************************************************************************)
EXTENDS Naturals, FiniteSets

CONSTANTS
    Token,      \* enrollment tokens (one enrollment row each)
    Endpoint,   \* endpoint ids an agent may be configured with
    OwnId,      \* OwnId[t]: the enrollment id of t, the endpoint id pairing gives
    Handler,    \* handler threads of xdr_rico
    Unclaimed   \* claimedEndpointId is null

ASSUME EnrollmentAssumption ==
    /\ OwnId \in [Token -> Endpoint]
    /\ Unclaimed \notin Endpoint

VARIABLES
    bound,    \* bound[t]: claimedEndpointId of the enrollment of t
    handler,  \* handler[h]: the request that thread h serves
    used,     \* history: <<t, e>> when a request with t acted for endpoint e
    paired    \* history: <<t, e>> when pairing answered that t serves e

vars == <<bound, handler, used, paired>>

Work == [pc    : {"idle", "claiming", "granted"},
         op    : {"report", "pair"},
         token : Token \cup {Unclaimed},
         ep    : Endpoint \cup {Unclaimed}]

Free == [pc |-> "idle", op |-> "report", token |-> Unclaimed, ep |-> Unclaimed]

\* Every variable holds what the code can store in it.
TypeOK ==
    /\ bound \in [Token -> Endpoint \cup {Unclaimed}]
    /\ handler \in [Handler -> Work]
    /\ used \subseteq Token \X Endpoint
    /\ paired \subseteq Token \X Endpoint

Init ==
    /\ bound = [t \in Token |-> Unclaimed]
    /\ handler = [h \in Handler |-> Free]
    /\ used = {}
    /\ paired = {}

-----------------------------------------------------------------------------
Goes(h, pc, op, t, e) ==
    handler' = [handler EXCEPT ![h] = [pc |-> pc, op |-> op, token |-> t, ep |-> e]]

\* Mutant: a token that is bound to another endpoint is not refused.
LookUpAny(h, t, e) ==
    /\ handler[h].pc = "idle"
    /\ Goes(h, IF bound[t] = e THEN "granted" ELSE "claiming", "report", t, e)
    /\ UNCHANGED <<bound, used, paired>>

\* require_enrollment_token_for_endpoint, the lookup, for an event, a claim or
\* a result that names endpoint e.  A token bound elsewhere is refused (403).
LookUp(h, t, e) ==
    /\ handler[h].pc = "idle"
    /\ bound[t] \in {Unclaimed, e}
    /\ Goes(h, IF bound[t] = e THEN "granted" ELSE "claiming", "report", t, e)
    /\ UNCHANGED <<bound, used, paired>>

\* pair_enrollment, the lookup: a bound token is answered with its endpoint,
\* an unclaimed one is about to be bound to the enrollment id.
LookUpPair(h, t) ==
    /\ handler[h].pc = "idle"
    /\ IF bound[t] = Unclaimed
       THEN Goes(h, "claiming", "pair", t, OwnId[t]) /\ UNCHANGED paired
       ELSE paired' = paired \cup {<<t, bound[t]>>} /\ UNCHANGED handler
    /\ UNCHANGED <<bound, used>>

\* claim_enrollment_endpoint: the row is rewritten, claimed meanwhile or not.
ClaimEnrollment(h) ==
    LET w == handler[h] IN
    /\ w.pc = "claiming"
    /\ bound' = [bound EXCEPT ![w.token] = w.ep]
    /\ IF w.op = "pair"
       THEN /\ handler' = [handler EXCEPT ![h] = Free]
            /\ paired' = paired \cup {<<w.token, w.ep>>}
       ELSE Goes(h, "granted", "report", w.token, w.ep) /\ UNCHANGED paired
    /\ UNCHANGED used

\* What the request was authorised for: ingest the event, claim the next
\* action or store the result, for the endpoint it named.
Act(h) ==
    /\ handler[h].pc = "granted"
    /\ used' = used \cup {<<handler[h].token, handler[h].ep>>}
    /\ handler' = [handler EXCEPT ![h] = Free]
    /\ UNCHANGED <<bound, paired>>

Next ==
    \E h \in Handler :
        \/ \E t \in Token, e \in Endpoint : LookUp(h, t, e)
        \/ \E t \in Token : LookUpPair(h, t)
        \/ ClaimEnrollment(h)
        \/ Act(h)

Spec == Init /\ [][Next]_vars

-----------------------------------------------------------------------------
(* Properties. *)

Claiming(t) == \E h \in Handler : handler[h].pc = "claiming" /\ handler[h].token = t

\* A binding can be overwritten only while a request that found the token
\* unclaimed is still on its way: once those are through, it is final.
SettledBinding ==
    [][\A t \in Token :
         bound[t] # Unclaimed /\ ~Claiming(t) => bound'[t] = bound[t] /\ ~Claiming(t)']_vars

\* "A bearer enrollment token can only report for the endpoint it first
\* claimed": no token has acted for two endpoints.
OneEndpointPerToken ==
    \A t \in Token, e, f \in Endpoint :
        <<t, e>> \in used /\ <<t, f>> \in used => e = f

\* The endpoint that pairing answered is the one the token is bound to: the
\* agent, which stores it, is not locked out by its own token.
PairingIsKept ==
    \A t \in Token, e \in Endpoint : <<t, e>> \in paired => bound[t] = e
=============================================================================
