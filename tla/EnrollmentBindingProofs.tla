----------------------- MODULE EnrollmentBindingProofs -----------------------
(***************************************************************************)
(* Theorems about EnrollmentBinding, for any tokens, endpoints and number  *)
(* of handler threads, and the promise of one endpoint per token for an    *)
(* xdr_rico that serves one request at a time.                             *)
(***************************************************************************)
EXTENDS EnrollmentBinding, TLAPS

\* A handler that has passed the lookup knows its token and its endpoint.
BusyIsNamed ==
    \A h \in Handler : handler[h].pc # "idle" =>
        handler[h].token \in Token /\ handler[h].ep \in Endpoint

Typed == TypeOK /\ BusyIsNamed

\* Init and every step preserve the types and BusyIsNamed: TypeOK alone is not
\* inductive, a claim of a nameless handler would store a null.
LEMMA TypedInvariant == Spec => []Typed
<1>1. Init => Typed
  BY EnrollmentAssumption DEF Init, Typed, TypeOK, BusyIsNamed, Free, Work
<1>2. Typed /\ [Next]_vars => Typed'
  <2> SUFFICES ASSUME Typed, [Next]_vars PROVE Typed'
    OBVIOUS
  <2> USE EnrollmentAssumption DEF Typed, TypeOK, BusyIsNamed, Work
  <2>1. CASE UNCHANGED vars
    BY <2>1 DEF vars
  <2>2. ASSUME NEW h \in Handler, NEW t \in Token, NEW e \in Endpoint, LookUp(h, t, e)
        PROVE  Typed'
    BY <2>2 DEF LookUp, Goes
  <2>3. ASSUME NEW h \in Handler, NEW t \in Token, LookUpPair(h, t)
        PROVE  Typed'
    <3>1. CASE bound[t] = Unclaimed
      BY <2>3, <3>1 DEF LookUpPair, Goes
    <3>2. CASE bound[t] # Unclaimed
      BY <2>3, <3>2 DEF LookUpPair
    <3> QED
      BY <3>1, <3>2
  <2>4. ASSUME NEW h \in Handler, ClaimEnrollment(h)
        PROVE  Typed'
    <3>1. handler[h].token \in Token /\ handler[h].ep \in Endpoint
      BY <2>4 DEF ClaimEnrollment
    <3>2. CASE handler[h].op = "pair"
      BY <2>4, <3>1, <3>2 DEF ClaimEnrollment, Free
    <3>3. CASE handler[h].op # "pair"
      BY <2>4, <3>1, <3>3 DEF ClaimEnrollment, Goes
    <3> QED
      BY <3>2, <3>3
  <2>5. ASSUME NEW h \in Handler, Act(h)
        PROVE  Typed'
    BY <2>5 DEF Act, Free
  <2> QED
    BY <2>1, <2>2, <2>3, <2>4, <2>5 DEF Next
<1> QED
  BY <1>1, <1>2, PTL DEF Spec

\* The program stores only what TypeOK says, in particular no null in a
\* pairing answer.
THEOREM TypeCorrect == Spec => []TypeOK
BY TypedInvariant, PTL DEF Typed

\* SettledBinding, for any number of concurrent requests: a binding that no
\* request in flight found unclaimed is final.
THEOREM BindingSettles == Spec => SettledBinding
<1> DEFINE Settled == \A t \in Token :
              bound[t] # Unclaimed /\ ~Claiming(t) => bound'[t] = bound[t] /\ ~Claiming(t)'
<1>1. Typed /\ [Next]_vars => [Settled]_vars
  <2> SUFFICES ASSUME Typed, Next,
                      NEW t \in Token, bound[t] # Unclaimed, ~Claiming(t)
               PROVE  bound'[t] = bound[t] /\ ~Claiming(t)'
    OBVIOUS
  <2> USE EnrollmentAssumption DEF Typed, TypeOK, BusyIsNamed, Work, Claiming
  <2>1. ASSUME NEW h \in Handler, NEW u \in Token, NEW e \in Endpoint, LookUp(h, u, e)
        PROVE  bound'[t] = bound[t] /\ ~Claiming(t)'
    BY <2>1 DEF LookUp, Goes
  <2>2. ASSUME NEW h \in Handler, NEW u \in Token, LookUpPair(h, u)
        PROVE  bound'[t] = bound[t] /\ ~Claiming(t)'
    <3>1. CASE bound[u] = Unclaimed
      BY <2>2, <3>1 DEF LookUpPair, Goes
    <3>2. CASE bound[u] # Unclaimed
      BY <2>2, <3>2 DEF LookUpPair
    <3> QED
      BY <3>1, <3>2
  <2>3. ASSUME NEW h \in Handler, ClaimEnrollment(h)
        PROVE  bound'[t] = bound[t] /\ ~Claiming(t)'
    <3>1. handler[h].token \in Token \ {t}
      BY <2>3 DEF ClaimEnrollment
    <3>2. CASE handler[h].op = "pair"
      BY <2>3, <3>1, <3>2 DEF ClaimEnrollment, Free
    <3>3. CASE handler[h].op # "pair"
      BY <2>3, <3>1, <3>3 DEF ClaimEnrollment, Goes
    <3> QED
      BY <3>2, <3>3
  <2>4. ASSUME NEW h \in Handler, Act(h)
        PROVE  bound'[t] = bound[t] /\ ~Claiming(t)'
    BY <2>4 DEF Act, Free
  <2> QED
    BY <2>1, <2>2, <2>3, <2>4 DEF Next
<1> QED
  BY <1>1, TypedInvariant, PTL DEF Spec, SettledBinding

-----------------------------------------------------------------------------
\* What a request has seen or done still is what the row says.  Two requests
\* at a time break it: the other one rewrites the row in between.
RowAgrees ==
    /\ \A h \in Handler :
         /\ handler[h].pc = "granted" => bound[handler[h].token] = handler[h].ep
         /\ handler[h].pc = "claiming" => bound[handler[h].token] = Unclaimed
    /\ \A t \in Token, e \in Endpoint :
         <<t, e>> \in used \/ <<t, e>> \in paired => bound[t] = e

\* With one handler thread, RowAgrees is invariant.
LEMMA OneAtATime ==
    ASSUME \A g, h \in Handler : g = h
    PROVE  Spec => []RowAgrees
<1>1. Init => RowAgrees
  BY DEF Init, RowAgrees, Free
<1>2. Typed /\ RowAgrees /\ [Next]_vars => RowAgrees'
  <2> SUFFICES ASSUME Typed, RowAgrees, [Next]_vars PROVE RowAgrees'
    OBVIOUS
  <2> USE EnrollmentAssumption DEF Typed, TypeOK, BusyIsNamed, Work, RowAgrees
  <2>1. CASE UNCHANGED vars
    BY <2>1 DEF vars
  <2>2. ASSUME NEW h \in Handler, NEW t \in Token, NEW e \in Endpoint, LookUp(h, t, e)
        PROVE  RowAgrees'
    BY <2>2 DEF LookUp, Goes
  <2>3. ASSUME NEW h \in Handler, NEW t \in Token, LookUpPair(h, t)
        PROVE  RowAgrees'
    <3>1. CASE bound[t] = Unclaimed
      BY <2>3, <3>1 DEF LookUpPair, Goes
    <3>2. CASE bound[t] # Unclaimed
      BY <2>3, <3>2 DEF LookUpPair
    <3> QED
      BY <3>1, <3>2
  <2>4. ASSUME NEW h \in Handler, ClaimEnrollment(h)
        PROVE  RowAgrees'
    <3>1. /\ handler[h].token \in Token
          /\ handler[h].ep \in Endpoint
          /\ bound[handler[h].token] = Unclaimed
          /\ bound' = [bound EXCEPT ![handler[h].token] = handler[h].ep]
          /\ used' = used
      BY <2>4 DEF ClaimEnrollment
    <3>2. CASE handler[h].op = "pair"
      <4>1. /\ handler' = [handler EXCEPT ![h] = Free]
            /\ paired' = paired \cup {<<handler[h].token, handler[h].ep>>}
        BY <2>4, <3>2 DEF ClaimEnrollment
      <4> QED
        BY <3>1, <4>1 DEF Free
    <3>3. CASE handler[h].op # "pair"
      BY <2>4, <3>1, <3>3 DEF ClaimEnrollment, Goes
    <3> QED
      BY <3>2, <3>3
  <2>5. ASSUME NEW h \in Handler, Act(h)
        PROVE  RowAgrees'
    BY <2>5 DEF Act, Free
  <2> QED
    BY <2>1, <2>2, <2>3, <2>4, <2>5 DEF Next
<1> QED
  BY <1>1, <1>2, TypedInvariant, PTL DEF Spec

\* One request at a time, a token acts for one endpoint only.
THEOREM OneEndpointIfSequential ==
    ASSUME \A g, h \in Handler : g = h
    PROVE  Spec => []OneEndpointPerToken
<1>1. RowAgrees => OneEndpointPerToken
  BY DEF RowAgrees, OneEndpointPerToken
<1> QED
  BY <1>1, OneAtATime, PTL

\* One request at a time, the answer of pairing stays true.
THEOREM PairingKeptIfSequential ==
    ASSUME \A g, h \in Handler : g = h
    PROVE  Spec => []PairingIsKept
<1>1. RowAgrees => PairingIsKept
  BY DEF RowAgrees, PairingIsKept
<1> QED
  BY <1>1, OneAtATime, PTL
=============================================================================
