------------------------------ MODULE SocProofs ------------------------------
(***************************************************************************)
(* Theorems about the machines of MCSoc, for any types of events, threads, *)
(* endpoints, integrations and bounds.  A machine is one behaviour of the  *)
(* whole: `part' never changes, and the others stand still.                *)
(***************************************************************************)
EXTENDS MCSoc, SequenceTheorems, FiniteSetTheorems, WellFoundedInduction, TLAPS

-----------------------------------------------------------------------------
(* Triage: what the engine says of one incident. *)

LEMMA IncidentIsWellFormed ==
    ASSUME NEW e \in TR!Events, TR!Rule(e) # None
    PROVE  /\ TR!NewIncident(e) \in TR!Incident
           /\ TR!NewIncident(e).level = TR!Tier(TR!NewIncident(e).severity)
<1>1. /\ e.attributes \subseteq Attribute /\ e.entities \subseteq Entity
      /\ e.ports \in Number \cup {None} /\ e.count \in Number \cup {None}
      /\ e.severity \in Severity
  BY DEF TR!Events
<1>2. TR!Rule(e) \in {"network_scan", "denied_traffic_burst", "repeated_failed_login",
                      "suspicious_endpoint_connection", "fortiweb_dos_activity"}
  BY DEF TR!Rule
<1>3. TR!RuleSeverity(e) \in Severity \cup {"high", "critical"}
  BY <1>1 DEF TR!RuleSeverity
<1>4. TR!Tier(TR!RuleSeverity(e)) \in {"T1", "T2", "T3"}
  BY DEF TR!Tier
<1> QED
  BY <1>1, <1>2, <1>3, <1>4 DEF TR!NewIncident, TR!Incident

LEMMA NumbersOfIncident ==
    ASSUME NEW i \in TR!Incident
    PROVE  /\ TR!PortCount(i) \in Nat
           /\ i.count # None => i.count \in Nat
           /\ i.attributes \subseteq Attribute /\ i.entities \subseteq Entity
BY TriageAssumption DEF TR!PortCount, TR!Incident

\* What is cited is among the evidence.
LEMMA ContextCites ==
    ASSUME NEW i \in TR!Incident
    PROVE  \A m \in TR!Mitre(i) : m.cites \in TR!Evidence(i)
<1> SUFFICES ASSUME NEW m \in TR!Mitre(i) PROVE m.cites \in TR!Evidence(i)
  OBVIOUS
<1>1. TR!PortCount(i) \in Nat /\ ScanPorts \in Nat \ {0}
  BY NumbersOfIncident, TriageAssumption
<1>2. "rule" \in TR!Evidence(i)
  BY DEF TR!Evidence
<1>3. CASE TR!Family(i) = "network.scan"
  BY <1>2, <1>3 DEF TR!Mitre
<1>4. CASE TR!Family(i) = "network.denied_burst" /\ TR!PortCount(i) >= ScanPorts
  <2>1. m.cites = "ports"
    BY <1>1, <1>4 DEF TR!Mitre
  <2>2. TR!Network(i) /\ TR!PortCount(i) > 0
    BY <1>1, <1>4 DEF TR!Network
  <2>3. "ports" \in TR!Evidence(i)
    <3>1. TR!Family(i) # "auth.bruteforce" /\ ~(TR!PortCount(i) = 0)
      BY <1>1, <2>2 DEF TR!Network
    <3> QED
      BY <2>2, <3>1 DEF TR!Evidence
  <2> QED
    BY <2>1, <2>3
<1>5. CASE TR!Family(i) = "network.denied_burst" /\ TR!PortCount(i) < ScanPorts
  BY <1>1, <1>2, <1>5 DEF TR!Mitre
<1>6. CASE TR!Family(i) = "auth.bruteforce"
  <2>1. m.cites = "logins"
    BY <1>6 DEF TR!Mitre
  <2>2. "logins" \in TR!Evidence(i)
    BY <1>6 DEF TR!Evidence, TR!Network
  <2> QED
    BY <2>1, <2>2
<1>7. CASE TR!Family(i) = "endpoint.suspicious_connection"
  BY <1>2, <1>7 DEF TR!Mitre
<1>8. CASE TR!Family(i) \notin {"network.scan", "network.denied_burst", "auth.bruteforce",
                                "endpoint.suspicious_connection"}
  BY <1>8 DEF TR!Mitre
<1> QED
  BY <1>1, <1>3, <1>4, <1>5, <1>6, <1>7, <1>8

\* A template asks for a candidate that is there, with its approval.
LEMMA ContextOffers ==
    ASSUME NEW i \in TR!Incident, NEW t \in TR!Templates(i)
    PROVE  \E c \in TR!Candidates(i) : c.id = t.requires /\ (c.approval => t.approval)
<1> DEFINE Note == TR!Candidate("add_note", FALSE, TRUE)
           Review == TR!Candidate("review_account", FALSE, "username" \in TR!Known(i))
           Both == TR!Candidate("block_source_destination", TRUE,
                      TR!HasFortiGate(i) /\ TR!HasSource(i) /\ TR!HasTarget(i))
<1>1. Note \in TR!Candidates(i) /\ Note.id = "add_note" /\ Note.approval = FALSE
  BY DEF TR!Candidates, TR!Candidate
<1>2. CASE TR!Network(i)
  <2>1. Both \in TR!Candidates(i) /\ Both.id = "block_source_destination"
    BY <1>2 DEF TR!Candidates, TR!Candidate, TR!FortiGateCandidates
  <2>2. /\ t.requires = TR!Required(i)
        /\ TR!Required(i) # "add_note" => t.approval = TRUE
    <3>1. t \in {TR!Recommended("pb_network_scan_triage", TR!Required(i), TR!Required(i) # "add_note"),
                 TR!Recommended("pb_fortigate_temp_block", TR!Required(i), TRUE)}
      BY <1>2 DEF TR!Templates, TR!Network
    <3>2. t.requires = TR!Required(i) /\ (t.approval = TRUE \/ t.approval = (TR!Required(i) # "add_note"))
      BY <3>1 DEF TR!Recommended
    <3>3. ASSUME TR!Required(i) # "add_note" PROVE t.approval = TRUE
      <4>1. (TR!Required(i) # "add_note") = TRUE
        BY <3>3
      <4> QED
        BY <3>2, <4>1
    <3> QED
      BY <3>2, <3>3
  <2>3. TR!Required(i) \in {"block_source_destination", "add_note"}
    BY DEF TR!Required
  <2> HIDE DEF Note, Both
  <2> QED
    BY <1>1, <2>1, <2>2, <2>3
<1>3. CASE TR!Family(i) = "auth.bruteforce"
  <2>1. Review \in TR!Candidates(i) /\ Review.id = "review_account" /\ Review.approval = FALSE
    BY <1>3 DEF TR!Candidates, TR!Candidate, TR!IdentityCandidates
  <2>2. t.requires = "review_account"
    BY <1>3 DEF TR!Templates, TR!Recommended, TR!Network
  <2> HIDE DEF Review
  <2> QED
    BY <2>1, <2>2
<1>4. CASE ~TR!Network(i) /\ TR!Family(i) # "auth.bruteforce"
  <2>1. t.requires = "add_note"
    BY <1>4 DEF TR!Templates, TR!Recommended
  <2> HIDE DEF Note
  <2> QED
    BY <1>1, <2>1
<1> QED
  BY <1>2, <1>3, <1>4

\* A blocking playbook is recommended only for an incident that the engine has
\* candidates on a FortiGate for; with a source and an integration, they can be
\* taken.
LEMMA BlockIsAvailable ==
    ASSUME NEW i \in TR!Incident, NEW t \in TR!Templates(i), TR!Blocks(i, t.id)
    PROVE  \E c \in TR!Available(i) : c.id = "block_source" /\ c.approval
<1> DEFINE Block == TR!Candidate("block_source", TRUE, TR!HasFortiGate(i) /\ TR!HasSource(i))
<1>1. TR!Network(i) \/ TR!Family(i) = "auth.bruteforce"
  BY DEF TR!Templates, TR!Recommended, TR!Blocks, TR!Blocking
<1>2. Block \in TR!Candidates(i)
  BY <1>1 DEF TR!Candidates, TR!FortiGateCandidates
<1>3. (TR!HasFortiGate(i) /\ TR!HasSource(i)) = TRUE
  BY DEF TR!Blocks
<1>4. Block = TR!Candidate("block_source", TRUE, TRUE)
  BY <1>3
<1>5. Block.id = "block_source" /\ Block.approval = TRUE /\ Block.available = TRUE
  BY <1>4 DEF TR!Candidate
<1> HIDE DEF Block
<1> QED
  BY <1>2, <1>5 DEF TR!Available

\* The nodes of a chain, and those that need no approval.
Plain == {"trigger", "note", "enrich"}
Node  == Plain \cup {"gate", "block"}

LEMMA FiveInARow ==
    ASSUME NEW S, NEW a \in Seq(S), NEW b \in Seq(S), NEW c \in Seq(S), NEW d \in Seq(S),
           NEW e \in Seq(S)
    PROVE  /\ a \o b \o c \o d \o e \in Seq(S)
           /\ Len(a \o b \o c \o d \o e) = Len(a) + Len(b) + Len(c) + Len(d) + Len(e)
<1>1. a \o b \in Seq(S) /\ Len(a \o b) = Len(a) + Len(b)
  OBVIOUS
<1> DEFINE f == a \o b
<1> HIDE DEF f
<1>2. f \o c \in Seq(S) /\ Len(f \o c) = Len(f) + Len(c)
  BY <1>1 DEF f
<1> DEFINE g == f \o c
<1> HIDE DEF g
<1>3. g \o d \in Seq(S) /\ Len(g \o d) = Len(g) + Len(d)
  BY <1>2 DEF g
<1> DEFINE h == g \o d
<1> HIDE DEF h
<1>4. h \o e \in Seq(S) /\ Len(h \o e) = Len(h) + Len(e)
  BY <1>3 DEF h
<1> QED
  BY <1>1, <1>2, <1>3, <1>4 DEF f, g, h

\* A part of a chain that is there only sometimes.
LEMMA Sometimes ==
    ASSUME NEW p \in BOOLEAN, NEW S, NEW s \in Seq(S)
    PROVE  /\ (IF p THEN s ELSE <<>>) \in Seq(S)
           /\ Len(IF p THEN s ELSE <<>>) \in {0, Len(s)}
<1>1. <<>> \in Seq(S) /\ Len(<<>>) = 0
  OBVIOUS
<1> QED
  BY <1>1

LEMMA BuiltIsChain ==
    ASSUME NEW i, NEW id
    PROVE  /\ Len(TR!Built(i, id)) \in 3..7
           /\ "block" \in TR!Range(TR!Built(i, id)) => TR!Blocks(i, id)
<1> DEFINE a == <<"trigger", "note">>
           b == IF TR!HasSource(i) THEN <<"enrich">> ELSE <<>>
           c == IF TR!Blocks(i, id) THEN <<"gate", "block">> ELSE <<>>
           d == IF id = "pb_auth_bruteforce_triage" THEN <<"note">> ELSE <<>>
           n == <<"note">>
<1>1. a \in Seq(Plain) /\ Len(a) = 2
  BY DEF Plain
<1>2. n \in Seq(Plain) /\ Len(n) = 1
  BY DEF Plain
<1>3. b \in Seq(Plain) /\ Len(b) \in 0..1
  <2>1. <<"enrich">> \in Seq(Plain) /\ Len(<<"enrich">>) = 1
    BY DEF Plain
  <2> QED
    BY <2>1, Sometimes DEF TR!HasSource
<1>4. c \in Seq(Node) /\ Len(c) \in 0..2 /\ (~TR!Blocks(i, id) => c \in Seq(Plain))
  <2>1. <<"gate", "block">> \in Seq(Node) /\ Len(<<"gate", "block">>) = 2
    BY DEF Node
  <2>2. <<>> \in Seq(Plain)
    OBVIOUS
  <2> QED
    BY <2>1, <2>2, Sometimes DEF TR!Blocks
<1>5. d \in Seq(Plain) /\ Len(d) \in 0..1
  BY <1>2, Sometimes
<1>6. TR!Built(i, id) = a \o b \o c \o d \o n
  BY DEF TR!Built
<1> HIDE DEF a, b, c, d, n
<1>7. Seq(Plain) \subseteq Seq(Node)
  BY DEF Plain, Node
<1>8. Len(TR!Built(i, id)) \in 3..7
  <2>1. a \in Seq(Node) /\ b \in Seq(Node) /\ d \in Seq(Node) /\ n \in Seq(Node)
    BY <1>1, <1>2, <1>3, <1>5, <1>7
  <2>2. Len(a \o b \o c \o d \o n) = Len(a) + Len(b) + Len(c) + Len(d) + Len(n)
    BY <1>4, <2>1, FiveInARow
  <2>3. Len(TR!Built(i, id)) = Len(a) + Len(b) + Len(c) + Len(d) + Len(n)
    BY <1>6, <2>2
  <2>4. /\ Len(b) \in Nat /\ Len(c) \in Nat /\ Len(d) \in Nat
        /\ Len(b) <= 1 /\ Len(c) <= 2 /\ Len(d) <= 1
    <3>1. /\ \A x \in 0..1 : x \in Nat /\ x <= 1
          /\ \A x \in 0..2 : x \in Nat /\ x <= 2
      OBVIOUS
    <3> QED
      BY <3>1, <1>3, <1>4, <1>5
  <2>5. Len(a) = 2 /\ Len(n) = 1
    BY <1>1, <1>2
  <2> QED
    BY <2>3, <2>4, <2>5
<1>9. ASSUME ~TR!Blocks(i, id) PROVE "block" \notin TR!Range(TR!Built(i, id))
  <2>1. a \o b \o c \o d \o n \in Seq(Plain)
    BY <1>1, <1>2, <1>3, <1>4, <1>5, <1>9, FiveInARow
  <2>2. TR!Built(i, id) \in Seq(Plain)
    BY <1>6, <2>1
  <2>3. \A k \in DOMAIN TR!Built(i, id) : TR!Built(i, id)[k] \in Plain
    BY <2>2
  <2>4. "block" \notin Plain
    BY DEF Plain
  <2> QED
    BY <2>3, <2>4 DEF TR!Range
<1> QED
  BY <1>8, <1>9

-----------------------------------------------------------------------------
(* Triage: the machine. *)

\* Two incidents of which the engine offers the same.
Alike(i, j) ==
    /\ i.rule = j.rule /\ i.attributes = j.attributes /\ i.entities = j.entities

\* What is shown was the context of an incident, and its tier is that of the
\* incident as long as nobody changed it; a playbook was built of one that the
\* engine offers the same for.
ShownIsContext ==
    shown # None =>
        \E i \in TR!Incident :
            /\ shown = TR!Context(i)
            /\ incident.status = "new" => i.level = incident.level

BuiltOfTemplate ==
    playbook # None =>
        \E i \in TR!Incident : \E t \in TR!Templates(i) :
            /\ Alike(i, incident)
            /\ playbook = [template |-> t.id, types |-> TR!Built(i, t.id)]

TriageInv ==
    /\ event \in TR!Events
    /\ incident \in TR!Incident \cup {None}
    /\ incident = None => shown = None /\ playbook = None
    /\ suggested \in {"T1", "T2", "T3", None}
    /\ incident # None /\ incident.status = "new" => incident.level = TR!Tier(incident.severity)
    /\ ShownIsContext
    /\ BuiltOfTemplate

LEMMA AlikeOffersSame ==
    ASSUME NEW i \in TR!Incident, NEW j \in TR!Incident, Alike(i, j)
    PROVE  TR!Available(i) = TR!Available(j)
<1>1. TR!Known(i) = TR!Known(j) /\ TR!Family(i) = TR!Family(j)
  BY DEF Alike, TR!Known, TR!Family
<1>2. TR!Candidates(i) = TR!Candidates(j)
  BY <1>1 DEF TR!Candidates, TR!FortiGateCandidates, TR!IdentityCandidates, TR!Network,
              TR!HasSource, TR!HasTarget, TR!HasFortiGate
<1> QED
  BY <1>2 DEF TR!Available

LEMMA InitTriage == InitTR => TriageInv
BY DEF InitTR, TR!Init, TriageInv, ShownIsContext, BuiltOfTemplate

LEMMA PatchKeeps ==
    ASSUME TriageInv, NEW l \in {"T1", "T2", "T3"}, NEW s \in {"investigating", "contained"},
           TR!Patch(l, s)
    PROVE  TriageInv'
<1> DEFINE j == [incident EXCEPT !.level = l, !.status = s]
<1>1. incident \in TR!Incident
  BY DEF TriageInv, TR!Patch
<1>2. /\ j \in TR!Incident /\ j.status = s
      /\ j.rule = incident.rule /\ j.attributes = incident.attributes
      /\ j.entities = incident.entities
  BY <1>1 DEF TR!Incident
<1>3. incident' = j /\ UNCHANGED <<event, shown, playbook, suggested>>
  BY DEF TR!Patch
<1> HIDE DEF j
<1>4. incident' # None /\ incident'.status # "new"
  BY <1>2, <1>3, TriageAssumption
<1>5. ShownIsContext'
  BY <1>3, <1>4 DEF TriageInv, ShownIsContext
<1>6. BuiltOfTemplate'
  BY <1>2, <1>3 DEF TriageInv, BuiltOfTemplate, Alike
<1> QED
  BY <1>2, <1>3, <1>4, <1>5, <1>6 DEF TriageInv

LEMMA NextTriage == TriageInv /\ [TR!Next]_(TR!vars) => TriageInv'
<1> SUFFICES ASSUME TriageInv, [TR!Next]_(TR!vars) PROVE TriageInv'
  OBVIOUS
<1>1. CASE TR!Ingest
  <2>1. /\ incident' = TR!NewIncident(event) /\ TR!Rule(event) # None
        /\ UNCHANGED <<event, shown, playbook, suggested>>
        /\ shown = None /\ playbook = None
    BY <1>1 DEF TR!Ingest, TriageInv
  <2>2. incident' \in TR!Incident /\ incident'.level = TR!Tier(incident'.severity)
    BY <2>1, IncidentIsWellFormed DEF TriageInv
  <2> QED
    BY <2>1, <2>2 DEF TriageInv, ShownIsContext, BuiltOfTemplate
<1>2. CASE TR!Show
  <2>1. incident \in TR!Incident /\ shown' = TR!Context(incident)
    BY <1>2 DEF TR!Show, TriageInv
  <2>2. UNCHANGED <<event, incident, playbook, suggested>>
    BY <1>2 DEF TR!Show
  <2>3. ShownIsContext'
    BY <2>1, <2>2 DEF ShownIsContext
  <2>4. BuiltOfTemplate'
    BY <2>2 DEF TriageInv, BuiltOfTemplate
  <2> QED
    BY <2>1, <2>2, <2>3, <2>4, TriageAssumption DEF TriageInv
<1>3. CASE TR!Analyze
  BY <1>3 DEF TR!Analyze, TR!ScriptedTier, TriageInv, ShownIsContext, BuiltOfTemplate
<1>4. ASSUME NEW id, TR!Instantiate(id) PROVE TriageInv'
  <2>1. incident \in TR!Incident /\ UNCHANGED <<event, incident, shown, suggested>>
    BY <1>4 DEF TR!Instantiate, TriageInv
  <2>2. PICK t \in TR!Templates(incident) : t.id = id
    BY <1>4 DEF TR!Instantiate
  <2>3. playbook' = [template |-> t.id, types |-> TR!Built(incident, t.id)]
    BY <1>4, <2>2 DEF TR!Instantiate
  <2>4. BuiltOfTemplate'
    BY <2>1, <2>2, <2>3 DEF BuiltOfTemplate, Alike
  <2> QED
    BY <2>1, <2>4, TriageAssumption DEF TriageInv, ShownIsContext
<1>5. CASE suggested # None /\ TR!Patch(suggested, "investigating")
  <2>1. PICK l \in {"T1", "T2", "T3"} : l = suggested
    BY <1>5 DEF TriageInv
  <2> QED
    BY <1>5, <2>1, PatchKeeps
<1>6. CASE incident # None /\ TR!Patch(incident.level, "contained")
  <2>1. PICK l \in {"T1", "T2", "T3"} : l = incident.level
    BY <1>6 DEF TriageInv, TR!Incident
  <2> QED
    BY <1>6, <2>1, PatchKeeps
<1>7. CASE UNCHANGED TR!vars
  BY <1>7 DEF TR!vars, TriageInv, ShownIsContext, BuiltOfTemplate
<1> QED
  BY <1>1, <1>2, <1>3, <1>4, <1>5, <1>6, <1>7 DEF TR!Next

\* What the invariant says of the promises.
LEMMA TriageImplies ==
    TriageInv => /\ TR!TypeOK /\ TR!CitedIsShown /\ TR!TemplatesAskForCandidates
                 /\ TR!BlockIsOffered /\ TR!TierIsOfSeverity
<1> SUFFICES ASSUME TriageInv
             PROVE  /\ TR!TypeOK /\ TR!CitedIsShown /\ TR!TemplatesAskForCandidates
                    /\ TR!BlockIsOffered /\ TR!TierIsOfSeverity
  OBVIOUS
<1>1. ASSUME shown # None
      PROVE  /\ shown.confidence \in {"low", "medium", "high"}
             /\ \A m \in shown.mitre : m.cites \in shown.evidence
             /\ \A t \in shown.templates : \E c \in shown.candidates :
                   c.id = t.requires /\ (c.approval => t.approval)
             /\ incident.status = "new" =>
                   (shown.level = "T3" <=> incident.severity \in {"critical", "high"})
  <2>1. PICK i \in TR!Incident : /\ shown = TR!Context(i)
                                 /\ incident.status = "new" => i.level = incident.level
    BY <1>1 DEF TriageInv, ShownIsContext
  <2>2. /\ shown.confidence = TR!Confidence(i) /\ shown.mitre = TR!Mitre(i)
        /\ shown.evidence = TR!Evidence(i) /\ shown.templates = TR!Templates(i)
        /\ shown.candidates = TR!Candidates(i) /\ shown.level = i.level
    BY <2>1 DEF TR!Context
  <2>3. TR!Confidence(i) \in {"low", "medium", "high"}
    BY DEF TR!Confidence, TR!Network
  <2>4. incident.status = "new" => (i.level = "T3" <=> incident.severity \in {"critical", "high"})
    BY <1>1, <2>1 DEF TriageInv, TR!Tier
  <2> QED
    BY <2>2, <2>3, <2>4, ContextCites, ContextOffers
<1>2. ASSUME playbook # None
      PROVE  /\ Len(playbook.types) \in 3..7
             /\ "block" \in TR!Range(playbook.types) =>
                   \E c \in TR!Available(incident) : c.id = "block_source" /\ c.approval
  <2>1. incident \in TR!Incident
    BY <1>2 DEF TriageInv
  <2>2. PICK i \in TR!Incident : \E t \in TR!Templates(i) :
            Alike(i, incident) /\ playbook = [template |-> t.id, types |-> TR!Built(i, t.id)]
    BY <1>2 DEF TriageInv, BuiltOfTemplate
  <2>3. PICK t \in TR!Templates(i) :
            Alike(i, incident) /\ playbook = [template |-> t.id, types |-> TR!Built(i, t.id)]
    BY <2>2
  <2>4. playbook.types = TR!Built(i, t.id) /\ TR!Available(i) = TR!Available(incident)
    BY <2>1, <2>3, AlikeOffersSame
  <2> QED
    BY <2>3, <2>4, BuiltIsChain, BlockIsAvailable
<1> QED
  BY <1>1, <1>2 DEF TriageInv, TR!TypeOK, TR!CitedIsShown, TR!TemplatesAskForCandidates,
                    TR!BlockIsOffered, TR!TierIsOfSeverity

-----------------------------------------------------------------------------
(* The ticket and the documents that were read of it. *)

Entry    == [by : Request, status : {"open", "resolved", None}, at : Nat]
Document == [status : {"open", "resolved"}, board : {"new", "closed"},
             analysis : Request \cup {None}, timeline : Seq(Entry)]
Work     == [step : {"new", "ask", "patch", "write", "answer", "audit", "done"},
             op : {"status", "board", "analyze", "enrich", None},
             to : {"open", "resolved", "closed", None}, attempt : Nat,
             seen : Document \cup {None}]
Given    == [by : Request, attempt : Nat, seen : Document \cup {None}]

\* A request has been done by siem_kowalski, as far as its thread can know.
Written(r) ==
    \/ r \in unanswered
    \/ pc[r].step \in {"answer", "audit"}
    \/ pc[r].step = "done" /\ audit[r] = "success"

\* A document is the ticket, or will be what a request or a PATCH that was given
\* up writes over.
InUse(d) ==
    \/ d = ticket
    \/ \E r \in Request : pc[r].step = "write" /\ pc[r].seen = d
    \/ \E c \in late : c.seen # None /\ c.seen = d

\* Request r has an entry in a document.
EntryOf(d, r) == \E i \in DOMAIN d.timeline : d.timeline[i].by = r

\* Its timeline is in order, none of it is in the future, and a resolution is
\* among the entries.
Whole(d) ==
    /\ \A i, j \in DOMAIN d.timeline : i < j => d.timeline[i].at <= d.timeline[j].at
    /\ \A i \in DOMAIN d.timeline : d.timeline[i].at <= now
    /\ d.status = "resolved" => \E i \in DOMAIN d.timeline : d.timeline[i].status = "resolved"

\* A request that is said to be done left an entry, or was written over.
Traced(r) ==
    pc[r].step \in {"answer", "audit"} \/ audit[r] = "success" =>
        \/ pc[r].op = "board" \/ r \in undone
        \/ EntryOf(ticket, r)

\* What a request asks for.
Sensible(r) ==
    /\ pc[r].step # "new" => pc[r].op # None
    /\ pc[r].op = "status" => pc[r].to \in {"open", "resolved"}
    /\ pc[r].op = "board" => pc[r].to = "closed"
    /\ IF pc[r].step = "write" THEN pc[r].seen \in Document ELSE pc[r].seen = None
    /\ audit[r] = "success" => pc[r].step = "done"

TicketTypes ==
    /\ now \in Nat /\ ticket \in Document
    /\ pc \in [Request -> Work]
    /\ audit \in [Request -> {None, "success", "failure", "partial"}]
    /\ \A r \in Request : Sensible(r)
    /\ \A c \in late : c \in Given /\ pc[c.by].step # "new"

VerdictInv ==
    cache # None => cache \in Nat /\ expires \in Nat /\ cache <= now /\ expires <= cache + CacheTtl

TicketInv ==
    /\ TicketTypes /\ VerdictInv
    /\ \A d \in Document : InUse(d) => Whole(d)
    /\ \A d \in Document : InUse(d) => \A r \in Request : EntryOf(d, r) => Written(r)
    /\ \A r \in Request : Traced(r)

-----------------------------------------------------------------------------
LEMMA LeastIs ==
    ASSUME NEW S \in SUBSET Nat, S # {}
    PROVE  \E x \in S : \A y \in S : x <= y
<1>1. PICK x \in S : \A y \in S : ~(<<y, x>> \in OpToRel(<, Nat))
  BY NatLessThanWellFounded, WFMin
<1>2. ASSUME NEW y \in S PROVE x <= y
  <2>1. <<y, x>> \in OpToRel(<, Nat) <=> y < x
    BY DEF OpToRel
  <2>2. ~(y < x)
    BY <1>1, <2>1
  <2> QED
    BY <2>2
<1> QED
  BY <1>2

LEMMA EntriesAre ==
    ASSUME NEW d \in Document
    PROVE  \A i \in DOMAIN d.timeline :
               d.timeline[i] \in Entry /\ d.timeline[i].by \in Request /\ d.timeline[i].at \in Nat
<1>1. d.timeline \in Seq(Entry)
  BY DEF Document
<1>2. \A i \in DOMAIN d.timeline : d.timeline[i] \in Entry
  BY <1>1
<1> QED
  BY <1>2 DEF Entry

\* A step that writes no ticket: nothing that was done is undone.
LEMMA DocumentsStay ==
    ASSUME TicketInv, TicketTypes', VerdictInv', ticket' = ticket, now <= now', undone' = undone,
           \A r \in Request : Written(r) => Written(r)',
           \A d \in Document : InUse(d)' => InUse(d),
           \A r \in Request : pc[r].op # "board" \/ pc'[r].op = "board",
           \A r \in Request :
               pc'[r].step \in {"answer", "audit"} \/ audit'[r] = "success" =>
                   pc[r].step \in {"answer", "audit"} \/ audit[r] = "success"
    PROVE  TicketInv'
<1>1. ASSUME NEW d \in Document, InUse(d)' PROVE Whole(d)'
  <2>1. Whole(d)
    BY <1>1 DEF TicketInv
  <2>2. now \in Nat /\ now' \in Nat
    BY DEF TicketInv, TicketTypes
  <2>3. \A i \in DOMAIN d.timeline : d.timeline[i].at <= now'
    BY <2>1, <2>2, EntriesAre DEF Whole
  <2> QED
    BY <2>1, <2>3 DEF Whole
<1>2. ASSUME NEW d \in Document, InUse(d)', NEW r \in Request, EntryOf(d, r)' PROVE Written(r)'
  BY <1>2 DEF TicketInv, EntryOf
<1>3. ASSUME NEW r \in Request PROVE Traced(r)'
  <2>1. Traced(r)
    BY DEF TicketInv
  <2> QED
    BY <2>1 DEF Traced, EntryOf
<1> QED
  BY <1>1, <1>2, <1>3 DEF TicketInv

LEMMA InitTickets == InitTD => TicketInv
<1> SUFFICES ASSUME InitTD PROVE TicketInv
  OBVIOUS
<1>1. /\ now = 0 /\ pc = [r \in Request |-> TD!Idle] /\ audit = [r \in Request |-> None]
      /\ ticket = [status |-> "open", board |-> "new", analysis |-> None, timeline |-> <<>>]
      /\ cache = None /\ late = {}
  BY DEF InitTD, TD!Init
<1>2. <<>> \in Seq(Entry) /\ DOMAIN <<>> = {}
  OBVIOUS
<1>3. ticket \in Document /\ ticket.timeline = <<>> /\ ticket.status = "open"
  BY <1>1, <1>2 DEF Document
<1>4. pc \in [Request -> Work]
  BY <1>1 DEF Work, TD!Idle
<1>5. \A r \in Request : pc[r].step = "new" /\ pc[r].op = None /\ pc[r].seen = None /\ audit[r] = None
  BY <1>1 DEF TD!Idle
<1>6. audit \in [Request -> {None, "success", "failure", "partial"}]
  BY <1>1
<1>7. None \notin {"success", "status", "board"}
  BY TicketAssumption
<1>8. TicketTypes
  BY <1>1, <1>3, <1>4, <1>5, <1>6, <1>7 DEF TicketTypes, Sensible
<1>9. ASSUME NEW d \in Document, InUse(d) PROVE Whole(d) /\ \A r \in Request : ~EntryOf(d, r)
  <2>1. d = ticket
    BY <1>1, <1>5, <1>9 DEF InUse
  <2> QED
    BY <1>2, <1>3, <2>1 DEF Whole, EntryOf
<1> QED
  BY <1>1, <1>5, <1>7, <1>8, <1>9 DEF TicketInv, VerdictInv, Traced

-----------------------------------------------------------------------------
\* The document that a request writes: one entry more, unless the ticket is on
\* that place of the board already.
LEMMA PatchedIs ==
    ASSUME TicketInv, NEW r \in Request, pc[r].step # "new",
           NEW d \in Document, NEW e, e = TD!Patched(d, r)
    PROVE  /\ e \in Document
           /\ \/ e = d /\ pc[r].op = "board"
              \/ \E x \in Entry :
                   /\ x.by = r /\ x.at = now
                   /\ e.timeline = Append(d.timeline, x)
                   /\ e.status = "resolved" => d.status = "resolved" \/ x.status = "resolved"
<1>1. /\ now \in Nat /\ d.timeline \in Seq(Entry) /\ Sensible(r)
      /\ pc[r].op \in {"status", "board", "analyze", "enrich"}
  BY DEF TicketInv, TicketTypes, Document, Work, Sensible
<1>2. CASE pc[r].op = "status"
  <2> DEFINE x == TD!Item(r, pc[r].to)
  <2>1. pc[r].to \in {"open", "resolved"}
    BY <1>1, <1>2 DEF Sensible
  <2>2. x \in Entry /\ x.by = r /\ x.at = now /\ x.status = pc[r].to
    BY <1>1, <2>1 DEF TD!Item, Entry
  <2>3. e = [d EXCEPT !.status = pc[r].to, !.timeline = Append(@, x)]
    BY <1>2 DEF TD!Patched
  <2> HIDE DEF x
  <2>4. Append(d.timeline, x) \in Seq(Entry)
    BY <1>1, <2>2
  <2>5. e \in Document /\ e.timeline = Append(d.timeline, x) /\ e.status = pc[r].to
    BY <2>1, <2>3, <2>4 DEF Document
  <2> QED
    BY <2>2, <2>5
<1>3. ASSUME pc[r].op # "status" PROVE TD!Item(r, None) \in Entry
  BY <1>1 DEF TD!Item, Entry
<1>4. /\ TD!Item(r, None).by = r /\ TD!Item(r, None).at = now
  BY DEF TD!Item
<1>5. CASE pc[r].op = "board" /\ d.board = pc[r].to
  BY <1>5 DEF TD!Patched
<1>6. CASE pc[r].op \in {"board", "analyze", "enrich"} /\ ~(pc[r].op = "board" /\ d.board = pc[r].to)
  <2> DEFINE x == TD!Item(r, None)
  <2>1. x \in Entry /\ x.by = r /\ x.at = now
    BY <1>3, <1>4, <1>6
  <2>2. \/ e = [d EXCEPT !.board = pc[r].to, !.timeline = Append(@, x)] /\ pc[r].to = "closed"
        \/ e = [d EXCEPT !.analysis = r, !.timeline = Append(@, x)]
        \/ e = [d EXCEPT !.timeline = Append(@, x)]
    BY <1>1, <1>6 DEF TD!Patched, Sensible
  <2> HIDE DEF x
  <2>3. Append(d.timeline, x) \in Seq(Entry)
    BY <1>1, <2>1
  <2>4. e \in Document /\ e.timeline = Append(d.timeline, x) /\ e.status = d.status
    BY <2>2, <2>3 DEF Document
  <2> QED
    BY <2>1, <2>4
<1> QED
  BY <1>1, <1>2, <1>5, <1>6

\* A document stays whole when it gets an entry of the present.
LEMMA WholeGrows ==
    ASSUME NEW d \in Document, NEW e \in Document, NEW x \in Entry, now \in Nat,
           e.timeline = Append(d.timeline, x), x.at = now, Whole(d),
           e.status = "resolved" => d.status = "resolved" \/ x.status = "resolved"
    PROVE  Whole(e) /\ \A r \in Request : EntryOf(e, r) <=> EntryOf(d, r) \/ r = x.by
<1> DEFINE s == d.timeline
           t == e.timeline
           n == Len(s)
<1>1. s \in Seq(Entry) /\ n \in Nat /\ DOMAIN s = 1..n
  BY DEF Document
<1>2. t = Append(s, x)
  OBVIOUS
<1>3. /\ DOMAIN t = 1..(n + 1) /\ t[n + 1] = x /\ \A i \in 1..n : t[i] = s[i]
  BY <1>1, <1>2, AppendProperties
<1>4. \A i \in 1..n : s[i].at \in Nat /\ s[i].at <= now
  BY <1>1, EntriesAre DEF Whole
<1>5. /\ \A i, j \in 1..n : i < j => s[i].at <= s[j].at
      /\ d.status = "resolved" => \E i \in 1..n : s[i].status = "resolved"
  BY <1>1 DEF Whole
<1> HIDE DEF s, t, n
<1>6. 1..(n + 1) = 1..n \cup {n + 1} /\ \A i \in 1..n : i < n + 1
  BY <1>1
<1>7. \A i, j \in 1..(n + 1) : i < j => t[i].at <= t[j].at
  <2> SUFFICES ASSUME NEW i \in 1..(n + 1), NEW j \in 1..(n + 1), i < j PROVE t[i].at <= t[j].at
    OBVIOUS
  <2>1. i \in 1..n
    BY <1>1
  <2>2. CASE j = n + 1
    BY <1>3, <1>4, <2>1, <2>2
  <2>3. CASE j \in 1..n
    BY <1>3, <1>5, <2>1, <2>3
  <2> QED
    BY <1>6, <2>2, <2>3
<1>8. \A i \in 1..(n + 1) : t[i].at <= now
  BY <1>3, <1>4, <1>6
<1>9. e.status = "resolved" => \E i \in 1..(n + 1) : t[i].status = "resolved"
  BY <1>3, <1>5, <1>6
<1>10. Whole(e)
  BY <1>3, <1>7, <1>8, <1>9 DEF Whole, t
<1>11. ASSUME NEW r \in Request
       PROVE  (\E i \in 1..(n + 1) : t[i].by = r) <=> (\E i \in 1..n : s[i].by = r) \/ x.by = r
  BY <1>3, <1>6
<1>12. ASSUME NEW r \in Request PROVE EntryOf(e, r) <=> EntryOf(d, r) \/ r = x.by
  BY <1>1, <1>3, <1>11 DEF EntryOf, s, t
<1> QED
  BY <1>10, <1>12

-----------------------------------------------------------------------------
(* The steps. *)

\* A document in use is written back with what request r asks for.
LEMMA WritingKeeps ==
    ASSUME TicketInv, NEW r \in Request, pc[r].step # "new",
           NEW d \in Document, InUse(d), TD!Writes(r, d),
           now' = now, audit' = audit, VerdictInv', ticket' \in Document => TicketTypes',
           \A q \in Request : pc'[q].op = pc[q].op /\ (q # r => pc'[q] = pc[q]),
           \A q \in Request : Written(q) => Written(q)', Written(r)',
           \A b \in Document : InUse(b)' => InUse(b) \/ b = ticket'
    PROVE  TicketInv'
<1> DEFINE e == TD!Patched(d, r)
<1>1. now \in Nat /\ ticket \in Document
  BY DEF TicketInv, TicketTypes
<1>2. /\ e \in Document
      /\ \/ e = d /\ pc[r].op = "board"
         \/ \E x \in Entry : /\ x.by = r /\ x.at = now
                             /\ e.timeline = Append(d.timeline, x)
                             /\ e.status = "resolved" => d.status = "resolved" \/ x.status = "resolved"
  BY PatchedIs
<1>3. ticket' = IF e = d THEN ticket ELSE e
  BY DEF TD!Writes
<1>4. Whole(d) /\ \A q \in Request : EntryOf(d, q) => Written(q)
  BY DEF TicketInv
<1> HIDE DEF e
<1>5. Whole(e) /\ \A q \in Request : EntryOf(e, q) => EntryOf(d, q) \/ q = r
  BY <1>1, <1>2, <1>4, WholeGrows
<1>6. pc[r].op # "board" => e # d /\ EntryOf(e, r)
  <2> SUFFICES ASSUME pc[r].op # "board" PROVE e # d /\ EntryOf(e, r)
    OBVIOUS
  <2>1. PICK x \in Entry : x.by = r /\ e.timeline = Append(d.timeline, x)
    BY <1>2
  <2>2. d.timeline \in Seq(Entry)
    BY DEF Document
  <2>3. /\ Len(Append(d.timeline, x)) = Len(d.timeline) + 1 /\ Len(d.timeline) \in Nat
        /\ Append(d.timeline, x)[Len(d.timeline) + 1] = x
        /\ DOMAIN Append(d.timeline, x) = 1..(Len(d.timeline) + 1)
    BY <2>2, AppendProperties
  <2>4. Len(d.timeline) + 1 \in DOMAIN e.timeline /\ e.timeline[Len(d.timeline) + 1] = x
    BY <2>1, <2>3
  <2>5. EntryOf(e, r)
    BY <2>1, <2>4 DEF EntryOf
  <2> QED
    BY <2>1, <2>3, <2>5
<1>7. InUse(ticket)
  BY DEF InUse
<1>8. \A b \in Document : InUse(b)' => InUse(b) \/ b = e
  BY <1>1, <1>3, <1>7
<1>9. ASSUME NEW b \in Document, InUse(b)'
      PROVE  Whole(b)' /\ \A q \in Request : EntryOf(b, q)' => Written(q)'
  <2>1. Whole(b) /\ \A q \in Request : EntryOf(b, q) => Written(q) \/ q = r
    BY <1>4, <1>5, <1>8, <1>9 DEF TicketInv
  <2> QED
    BY <2>1 DEF Whole, EntryOf
<1>10. ASSUME NEW q \in Request PROVE Traced(q)'
  <2>1. CASE q = r
    <3>1. pc[r].op # "board" => EntryOf(ticket, r)'
      BY <1>3, <1>6 DEF EntryOf
    <3> QED
      BY <2>1, <3>1 DEF Traced
  <2>2. CASE q # r
    <3>1. Traced(q) /\ pc'[q] = pc[q] /\ audit'[q] = audit[q]
      BY <2>2 DEF TicketInv
    <3>2. undone \subseteq undone'
      BY DEF TD!Writes
    <3>3. ASSUME EntryOf(ticket, q) PROVE EntryOf(ticket, q)' \/ q \in undone'
      <4>1. PICK i \in DOMAIN ticket.timeline : ticket.timeline[i].by = q
        BY <3>3 DEF EntryOf
      <4>2. CASE ticket.timeline[i] \in TD!Range(ticket'.timeline)
        <5>1. PICK j \in DOMAIN ticket'.timeline : ticket'.timeline[j] = ticket.timeline[i]
          BY <4>2 DEF TD!Range
        <5> QED
          BY <4>1, <5>1 DEF EntryOf
      <4>3. CASE ticket.timeline[i] \notin TD!Range(ticket'.timeline)
        BY <4>1, <4>3 DEF TD!Writes
      <4> QED
        BY <4>2, <4>3
    <3> QED
      BY <3>1, <3>2, <3>3 DEF Traced
  <2> QED
    BY <2>1, <2>2
<1>11. TicketTypes'
  BY <1>1, <1>2, <1>3
<1> QED
  BY <1>9, <1>10, <1>11 DEF TicketInv

LEMMA WriteKeeps == ASSUME TicketInv, NEW r \in Request, TD!WriteTicket(r) PROVE TicketInv'
<1>1. /\ pc[r].step = "write" /\ pc[r].seen \in Document /\ Sensible(r)
      /\ pc \in [Request -> Work] /\ audit[r] # "success"
  BY DEF TD!WriteTicket, TicketInv, TicketTypes, Sensible
<1>2. PICK d \in Document : d = pc[r].seen /\ InUse(d) /\ TD!Writes(r, d)
  BY <1>1 DEF TD!WriteTicket, InUse
<1>3. /\ pc' = [pc EXCEPT ![r].step = "answer", ![r].seen = None]
      /\ UNCHANGED <<now, audit, cache, expires, unanswered, late>>
  BY DEF TD!WriteTicket
<1>4. /\ pc' \in [Request -> Work]
      /\ pc'[r].step = "answer" /\ pc'[r].op = pc[r].op /\ pc'[r].to = pc[r].to
      /\ pc'[r].seen = None
      /\ \A q \in Request \ {r} : pc'[q] = pc[q]
  <2>1. PICK u \in Work : u = pc[r]
    BY <1>1
  <2> DEFINE w == [u EXCEPT !.step = "answer", !.seen = None]
  <2>2. w \in Work /\ w.step = "answer" /\ w.op = u.op /\ w.to = u.to /\ w.seen = None
    BY DEF Work
  <2>3. pc' = [pc EXCEPT ![r] = w]
    BY <1>1, <1>3, <2>1
  <2> HIDE DEF w
  <2> QED
    BY <1>1, <2>1, <2>2, <2>3
<1>5. \A q \in Request : pc'[q].op = pc[q].op /\ (q # r => pc'[q] = pc[q])
  BY <1>4
<1>6. /\ \A q \in Request : Written(q) => Written(q)'
      /\ Written(r)'
  BY <1>1, <1>3, <1>4 DEF Written
<1>7. \A b \in Document : InUse(b)' => InUse(b) \/ b = ticket'
  BY <1>3, <1>4 DEF InUse
<1>8. ASSUME ticket' \in Document PROVE TicketTypes'
  <2>1. ASSUME NEW q \in Request PROVE Sensible(q)'
    <3>1. Sensible(q)
      BY DEF TicketInv, TicketTypes
    <3>2. CASE q = r
      BY <1>1, <1>3, <1>4, <3>1, <3>2 DEF Sensible
    <3>3. CASE q # r
      BY <1>3, <1>4, <3>1, <3>3 DEF Sensible
    <3> QED
      BY <3>2, <3>3
  <2>2. \A c \in late' : c \in Given /\ pc'[c.by].step # "new"
    <3>1. \A c \in late : c \in Given /\ pc[c.by].step # "new" /\ c.by \in Request
      BY DEF TicketInv, TicketTypes, Given
    <3> QED
      BY <1>3, <1>4, <3>1
  <2> QED
    BY <1>3, <1>4, <1>8, <2>1, <2>2 DEF TicketInv, TicketTypes
<1>9. VerdictInv'
  BY <1>3 DEF TicketInv, VerdictInv
<1> QED
  BY <1>1, <1>2, <1>3, <1>5, <1>6, <1>7, <1>8, <1>9, WritingKeeps

LEMMA LateWriteKeeps == ASSUME TicketInv, NEW c \in late, TD!WriteLate(c) PROVE TicketInv'
<1>1. /\ c.seen # None /\ TD!Writes(c.by, c.seen) /\ late' = late \ {c}
      /\ unanswered' = unanswered \cup {c.by}
      /\ UNCHANGED <<now, pc, audit, cache, expires>>
  BY DEF TD!WriteLate
<1>2. PICK r \in Request, d \in Document : r = c.by /\ d = c.seen /\ pc[r].step # "new"
  BY <1>1 DEF TicketInv, TicketTypes, Given
<1>3. InUse(d) /\ TD!Writes(r, d)
  BY <1>1, <1>2 DEF InUse
<1>4. /\ \A q \in Request : Written(q) => Written(q)'
      /\ Written(r)'
  BY <1>1, <1>2 DEF Written
<1>5. \A b \in Document : InUse(b)' => InUse(b) \/ b = ticket'
  BY <1>1 DEF InUse
<1>6. ticket' \in Document => TicketTypes'
  BY <1>1 DEF TicketInv, TicketTypes, Sensible
<1>7. VerdictInv'
  BY <1>1 DEF TicketInv, VerdictInv
<1>8. /\ now' = now /\ audit' = audit
      /\ \A q \in Request : pc'[q].op = pc[q].op /\ (q # r => pc'[q] = pc[q])
  BY <1>1
<1> QED
  BY <1>2, <1>3, <1>4, <1>5, <1>6, <1>7, <1>8, WritingKeeps

LEMMA LateReadKeeps == ASSUME TicketInv, NEW c \in late, TD!ReadLate(c) PROVE TicketInv'
<1> DEFINE d == [c EXCEPT !.seen = ticket]
<1>1. /\ late' = (late \ {c}) \cup {d}
      /\ UNCHANGED <<now, ticket, pc, audit, cache, expires, undone, unanswered>>
  BY DEF TD!ReadLate
<1>2. d \in Given /\ d.by = c.by /\ d.seen = ticket
  BY DEF TicketInv, TicketTypes, Given
<1> HIDE DEF d
<1>3. TicketTypes'
  <2>1. \A q \in Request : Sensible(q)'
    BY <1>1 DEF TicketInv, TicketTypes, Sensible
  <2>2. \A b \in late' : b \in Given /\ pc[b.by].step # "new"
    BY <1>1, <1>2 DEF TicketInv, TicketTypes
  <2> QED
    BY <1>1, <2>1, <2>2 DEF TicketInv, TicketTypes
<1>4. VerdictInv'
  BY <1>1 DEF TicketInv, VerdictInv
<1>5. \A q \in Request : Written(q) => Written(q)'
  BY <1>1 DEF Written
<1>6. \A b \in Document : InUse(b)' => InUse(b)
  BY <1>1, <1>2 DEF InUse
<1>7. now <= now'
  BY <1>1 DEF TicketInv, TicketTypes
<1> QED
  BY <1>1, <1>3, <1>4, <1>5, <1>6, <1>7, DocumentsStay

\* The other steps write no ticket: a request goes on, with or without a
\* document that it has read.
LEMMA StepKeeps ==
    ASSUME TicketInv, NEW r \in Request,
           NEW p, p = pc', p \in [Request -> Work],
           \A q \in Request \ {r} : p[q] = pc[q] /\ audit'[q] = audit[q],
           ticket' = ticket, now' = now, undone' = undone, unanswered \subseteq unanswered',
           VerdictInv', audit' \in [Request -> {None, "success", "failure", "partial"}],
           Sensible(r)', Written(r) => Written(r)',
           p[r].step = "write" => p[r].seen = ticket,
           p[r].step # "new",
           \A c \in late' : c \in late \/ (c \in Given /\ c.by = r /\ (c.seen # None => InUse(c.seen))),
           pc[r].op # "board" \/ p[r].op = "board",
           p[r].step \in {"answer", "audit"} \/ audit'[r] = "success" =>
               pc[r].step \in {"answer", "audit"} \/ audit[r] = "success"
    PROVE  TicketInv'
<1>1. TicketTypes'
  <2>1. ASSUME NEW q \in Request, q # r PROVE Sensible(q)'
    <3>1. Sensible(q) /\ pc'[q] = pc[q] /\ audit'[q] = audit[q]
      BY <2>1 DEF TicketInv, TicketTypes
    <3> QED
      BY <3>1 DEF Sensible
  <2>2. ASSUME NEW c \in late' PROVE c \in Given /\ pc'[c.by].step # "new"
    <3>1. c \in Given /\ c.by \in Request /\ (c.by # r => pc[c.by].step # "new")
      BY <2>2 DEF TicketInv, TicketTypes, Given
    <3> QED
      BY <3>1
  <2> QED
    BY <2>1, <2>2 DEF TicketInv, TicketTypes
<1>2. \A q \in Request : Written(q) => Written(q)'
  <2> SUFFICES ASSUME NEW q \in Request, q # r, Written(q) PROVE Written(q)'
    OBVIOUS
  <2>1. pc'[q] = pc[q] /\ audit'[q] = audit[q]
    OBVIOUS
  <2> QED
    BY <2>1 DEF Written
<1>3. \A b \in Document : InUse(b)' => InUse(b)
  BY DEF InUse
<1>4. now \in Nat
  BY DEF TicketInv, TicketTypes
<1>5. now <= now'
  BY <1>4
<1>6. /\ \A q \in Request : pc[q].op # "board" \/ pc'[q].op = "board"
      /\ \A q \in Request :
            pc'[q].step \in {"answer", "audit"} \/ audit'[q] = "success" =>
                pc[q].step \in {"answer", "audit"} \/ audit[q] = "success"
  OBVIOUS
<1> QED
  BY <1>1, <1>2, <1>3, <1>5, <1>6, DocumentsStay

LEMMA NextTickets == TicketInv /\ TD!Next => TicketInv'
<1> SUFFICES ASSUME TicketInv, TD!Next PROVE TicketInv'
  OBVIOUS
<1> USE DEF TD!Go, TD!Audit
<1>1. /\ pc \in [Request -> Work] /\ now \in Nat /\ VerdictInv /\ ticket \in Document
      /\ audit \in [Request -> {None, "success", "failure", "partial"}]
  BY DEF TicketInv, TicketTypes
<1>2. CASE TD!Tick
  <2>1. /\ now' = now + 1 /\ UNCHANGED <<ticket, pc, audit, cache, expires, undone, unanswered, late>>
    BY <1>2 DEF TD!Tick
  <2>2. now' \in Nat /\ now <= now'
    BY <1>1, <2>1
  <2>3. \A q \in Request : Sensible(q)' /\ (Written(q) => Written(q)')
    BY <2>1 DEF TicketInv, TicketTypes, Sensible, Written
  <2>4. TicketTypes'
    BY <2>1, <2>2, <2>3 DEF TicketInv, TicketTypes
  <2>5. VerdictInv'
    BY <1>1, <2>1 DEF VerdictInv
  <2>6. \A b \in Document : InUse(b)' => InUse(b)
    BY <2>1 DEF InUse
  <2> QED
    BY <2>1, <2>2, <2>3, <2>4, <2>5, <2>6, DocumentsStay
<1>3. ASSUME NEW r \in Request, NEW o \in TD!Operations, TD!Start(r, o[1], o[2]) PROVE TicketInv'
  <2>1. /\ pc[r] = TD!Idle
        /\ pc' = [pc EXCEPT ![r].op = o[1], ![r].to = o[2],
                     ![r].step = IF o[1] \in {"analyze", "enrich"} THEN "ask" ELSE "patch"]
        /\ UNCHANGED <<now, ticket, audit, cache, expires, faults, undone, unanswered, late>>
    BY <1>3 DEF TD!Start
  <2>2. PICK u \in Work : u = pc[r]
    BY <1>1
  <2>3. PICK s \in {"ask", "patch"} : s = IF o[1] \in {"analyze", "enrich"} THEN "ask" ELSE "patch"
    OBVIOUS
  <2>4. PICK op \in {"status", "board", "analyze", "enrich"} : op = o[1]
    BY DEF TD!Operations
  <2>5. PICK to \in {"open", "resolved", "closed", None} : to = o[2]
    BY DEF TD!Operations
  <2>6. (op = "status" => to \in {"open", "resolved"}) /\ (op = "board" => to = "closed")
    BY <2>4, <2>5 DEF TD!Operations
  <2> DEFINE w == [u EXCEPT !.op = op, !.to = to, !.step = s]
  <2>7. w \in Work /\ w.step = s /\ w.op = op /\ w.to = to /\ w.seen = u.seen
    BY DEF Work
  <2>8. pc' = [pc EXCEPT ![r] = w]
    BY <1>1, <2>1, <2>2, <2>3, <2>4, <2>5
  <2>9. u.step = "new" /\ u.op = None /\ u.seen = None
    BY <2>1, <2>2 DEF TD!Idle
  <2> HIDE DEF w
  <2>10. PICK p \in [Request -> Work] : p = pc' /\ p[r] = w /\ \A q \in Request \ {r} : p[q] = pc[q]
    BY <1>1, <2>7, <2>8
  <2>11. Sensible(r)' /\ audit[r] # "success" /\ (Written(r) => Written(r)') /\ pc[r].op # "board"
    <3>1. audit[r] # "success" /\ pc[r].op # "board"
      BY <2>2, <2>9, TicketAssumption DEF TicketInv, TicketTypes, Sensible
    <3>2. Written(r) => Written(r)'
      BY <2>1, <2>2, <2>9, <3>1 DEF Written
    <3>3. /\ pc'[r].step \in {"ask", "patch"} /\ pc'[r].op = op /\ pc'[r].to = to
          /\ pc'[r].seen = None /\ audit'[r] = audit[r] /\ op # None
      BY <2>1, <2>7, <2>9, <2>10, TicketAssumption
    <3>4. Sensible(r)'
      BY <2>6, <3>1, <3>3 DEF Sensible
    <3> QED
      BY <3>1, <3>2, <3>4
  <2>12. VerdictInv'
    BY <1>1, <2>1 DEF VerdictInv
  <2> QED
    BY <1>1, <2>1, <2>2, <2>7, <2>9, <2>10, <2>11, <2>12, StepKeeps
<1>4. ASSUME NEW r \in Request, NEW s \in {"patch", "audit", "done"}, pc' = [pc EXCEPT ![r].step = s],
             UNCHANGED <<now, ticket, undone, late>>, VerdictInv', unanswered \subseteq unanswered',
             \A q \in Request \ {r} : audit'[q] = audit[q],
             audit' \in [Request -> {None, "success", "failure", "partial"}],
             pc[r].step \notin {"new", "write", "done"},
             Written(r) => Written(r)',
             audit'[r] = "success" => s = "done" /\ pc[r].step = "audit",
             s = "audit" => pc[r].step = "answer"
      PROVE  TicketInv'
  <2>1. PICK u \in Work : u = pc[r]
    BY <1>1
  <2> DEFINE w == [u EXCEPT !.step = s]
  <2>2. w \in Work /\ w.step = s /\ w.op = u.op /\ w.to = u.to /\ w.seen = u.seen
    BY DEF Work
  <2>3. pc' = [pc EXCEPT ![r] = w]
    BY <1>1, <1>4, <2>1
  <2> HIDE DEF w
  <2>4. PICK p \in [Request -> Work] : p = pc' /\ p[r] = w /\ \A q \in Request \ {r} : p[q] = pc[q]
    BY <1>1, <2>2, <2>3
  <2>5. Sensible(r)'
    BY <1>4, <2>1, <2>2, <2>4 DEF TicketInv, TicketTypes, Sensible
  <2> QED
    BY <1>1, <1>4, <2>1, <2>2, <2>4, <2>5, StepKeeps
<1>5. ASSUME NEW r \in Request, TD!AskAi(r) PROVE TicketInv'
  <2>1. /\ pc[r].step = "ask" /\ audit[r] # "success"
        /\ UNCHANGED <<now, ticket, cache, expires, undone, unanswered, late>>
    BY <1>5 DEF TD!AskAi, TicketInv, TicketTypes, Sensible
  <2>2. VerdictInv'
    BY <1>1, <2>1 DEF VerdictInv
  <2>3. CASE TD!Go(r, "patch") /\ UNCHANGED <<audit, faults>>
    BY <1>1, <1>4, <2>1, <2>2, <2>3 DEF Written
  <2>4. CASE TD!Go(r, "done") /\ TD!Audit(r, "failure")
    BY <1>1, <1>4, <2>1, <2>2, <2>4 DEF Written
  <2> QED
    BY <1>5, <2>3, <2>4 DEF TD!AskAi
<1>6. ASSUME NEW r \in Request, TD!LookUp(r) PROVE TicketInv'
  <2>1. /\ pc[r].step = "ask" /\ audit[r] # "success"
        /\ UNCHANGED <<now, ticket, undone, unanswered, late>>
    BY <1>6 DEF TD!LookUp, TicketInv, TicketTypes, Sensible
  <2>2. CASE /\ cache' = IF TD!Kept THEN cache ELSE now
             /\ expires' = TD!Expiry
             /\ TD!Go(r, "patch") /\ UNCHANGED <<audit, faults>>
    <3>1. VerdictInv'
      BY <1>1, <2>1, <2>2, TicketAssumption DEF VerdictInv, TD!Expiry, TD!Kept
    <3> QED
      BY <1>1, <1>4, <2>1, <2>2, <3>1 DEF Written
  <2>3. CASE TD!Go(r, "done") /\ TD!Audit(r, "failure") /\ UNCHANGED <<cache, expires>>
    <3>1. VerdictInv'
      BY <1>1, <2>1, <2>3 DEF VerdictInv
    <3> QED
      BY <1>1, <1>4, <2>1, <2>3, <3>1 DEF Written
  <2> QED
    BY <1>6, <2>2, <2>3 DEF TD!LookUp
<1>7. ASSUME NEW r \in Request, TD!ReadTicket(r) PROVE TicketInv'
  <2>1. /\ pc[r].step = "patch" /\ pc' = [pc EXCEPT ![r].step = "write", ![r].seen = ticket]
        /\ UNCHANGED <<now, ticket, audit, cache, expires, faults, undone, unanswered, late>>
    BY <1>7 DEF TD!ReadTicket
  <2>2. PICK u \in Work : u = pc[r]
    BY <1>1
  <2> DEFINE w == [u EXCEPT !.step = "write", !.seen = ticket]
  <2>3. w \in Work /\ w.step = "write" /\ w.op = u.op /\ w.to = u.to /\ w.seen = ticket
    BY <1>1 DEF Work
  <2>4. pc' = [pc EXCEPT ![r] = w]
    BY <1>1, <2>1, <2>2
  <2> HIDE DEF w
  <2>5. PICK p \in [Request -> Work] : p = pc' /\ p[r] = w /\ \A q \in Request \ {r} : p[q] = pc[q]
    BY <1>1, <2>3, <2>4
  <2>6. Sensible(r)' /\ audit[r] # "success" /\ (Written(r) => Written(r)')
    BY <1>1, <2>1, <2>2, <2>3, <2>5 DEF TicketInv, TicketTypes, Sensible, Written
  <2>7. VerdictInv'
    BY <1>1, <2>1 DEF VerdictInv
  <2> QED
    BY <1>1, <2>1, <2>2, <2>3, <2>5, <2>6, <2>7, StepKeeps
<1>8. ASSUME NEW r \in Request, TD!Answered(r) PROVE TicketInv'
  <2>1. /\ pc[r].step = "answer" /\ pc' = [pc EXCEPT ![r].step = "audit"]
        /\ UNCHANGED <<now, ticket, audit, cache, expires, faults, undone, unanswered, late>>
    BY <1>8 DEF TD!Answered
  <2>2. audit[r] # "success" /\ VerdictInv'
    BY <1>1, <2>1 DEF TicketInv, TicketTypes, Sensible, VerdictInv
  <2>3. Written(r)'
    BY <1>1, <2>1 DEF Written
  <2> QED
    BY <1>1, <1>4, <2>1, <2>2, <2>3
<1>9. ASSUME NEW r \in Request, TD!RecordSuccess(r) PROVE TicketInv'
  <2>1. /\ pc[r].step = "audit" /\ pc' = [pc EXCEPT ![r].step = "done"]
        /\ audit' = [audit EXCEPT ![r] = "success"]
        /\ UNCHANGED <<now, ticket, cache, expires, faults, undone, unanswered, late>>
    BY <1>9 DEF TD!RecordSuccess
  <2>2. VerdictInv'
    BY <1>1, <2>1 DEF VerdictInv
  <2>3. Written(r)'
    BY <1>1, <2>1 DEF Written
  <2> QED
    BY <1>1, <1>4, <2>1, <2>2, <2>3
<1>10. ASSUME NEW r \in Request, TD!NoAnswer(r) PROVE TicketInv'
  <2> DEFINE g == [by |-> r, attempt |-> pc[r].attempt, seen |-> pc[r].seen]
  <2>1. /\ pc[r].step \in {"patch", "write", "answer"}
        /\ unanswered' = IF pc[r].step = "answer" THEN unanswered \cup {r} ELSE unanswered
        /\ late' \in {late, late \cup {g}}
        /\ UNCHANGED <<now, ticket, cache, expires, undone>>
    BY <1>10 DEF TD!NoAnswer
  <2>2. audit[r] # "success" /\ VerdictInv' /\ Sensible(r)
    BY <1>1, <2>1 DEF TicketInv, TicketTypes, Sensible, VerdictInv
  <2>3. Written(r) => Written(r)'
    BY <2>1, <2>2 DEF Written
  <2>4. PICK u \in Work : u = pc[r]
    BY <1>1
  <2>5. g \in Given /\ g.by = r /\ (g.seen # None => InUse(g.seen))
    <3>1. g \in Given /\ g.by = r /\ g.seen = pc[r].seen
      BY <2>4 DEF Work, Given
    <3>2. pc[r].seen # None => InUse(pc[r].seen)
      BY <2>2 DEF Sensible, InUse
    <3> QED
      BY <3>1, <3>2
  <2> HIDE DEF g
  <2>6. \A c \in late' : c \in late \/ (c \in Given /\ c.by = r /\ (c.seen # None => InUse(c.seen)))
    BY <2>1, <2>5
  <2>7. \E s \in {"patch", "done"}, n \in Nat, o \in {audit[r], "partial", None} :
          /\ pc' = [pc EXCEPT ![r].step = s, ![r].attempt = n, ![r].seen = None]
          /\ audit' = [audit EXCEPT ![r] = o]
    <3>1. CASE /\ pc' = [pc EXCEPT ![r].step = "patch", ![r].attempt = @ + 1, ![r].seen = None]
               /\ UNCHANGED audit
      <4>1. PICK n \in Nat : n = pc[r].attempt + 1
        BY <2>4 DEF Work
      <4>2. pc' = [pc EXCEPT ![r].step = "patch", ![r].attempt = n, ![r].seen = None]
        BY <3>1, <4>1
      <4>3. audit' = [audit EXCEPT ![r] = audit[r]]
        BY <1>1, <3>1
      <4> QED
        BY <4>2, <4>3
    <3>2. CASE /\ pc' = [pc EXCEPT ![r].step = "done", ![r].seen = None]
               /\ TD!Audit(r, TD!Outcome(r))
      <4>1. PICK n \in Nat : n = pc[r].attempt
        BY <2>4 DEF Work
      <4>2. pc' = [pc EXCEPT ![r].step = "done", ![r].attempt = n, ![r].seen = None]
        BY <1>1, <3>2, <4>1
      <4>3. PICK o \in {"partial", None} : o = TD!Outcome(r)
        BY DEF TD!Outcome
      <4> QED
        BY <3>2, <4>2, <4>3
    <3> QED
      BY <1>10, <3>1, <3>2 DEF TD!NoAnswer
  <2>8. PICK s \in {"patch", "done"}, n \in Nat, o \in {audit[r], "partial", None} :
          /\ pc' = [pc EXCEPT ![r].step = s, ![r].attempt = n, ![r].seen = None]
          /\ audit' = [audit EXCEPT ![r] = o]
    BY <2>7
  <2> DEFINE w == [u EXCEPT !.step = s, !.attempt = n, !.seen = None]
  <2>9. w \in Work /\ w.step = s /\ w.op = u.op /\ w.to = u.to /\ w.seen = None
    BY DEF Work
  <2>10. pc' = [pc EXCEPT ![r] = w]
    BY <1>1, <2>4, <2>8
  <2> HIDE DEF w
  <2>11. PICK p \in [Request -> Work] : p = pc' /\ p[r] = w /\ \A q \in Request \ {r} : p[q] = pc[q]
    BY <1>1, <2>9, <2>10
  <2>12. /\ audit' \in [Request -> {None, "success", "failure", "partial"}]
         /\ audit'[r] # "success" /\ \A q \in Request \ {r} : audit'[q] = audit[q]
    BY <1>1, <2>2, <2>8, TicketAssumption
  <2>13. Sensible(r)'
    BY <2>1, <2>2, <2>4, <2>9, <2>11, <2>12 DEF Sensible
  <2>14. /\ p[r].step # "new" /\ p[r].step # "write" /\ p[r].step \notin {"answer", "audit"}
         /\ pc[r].op # "board" \/ p[r].op = "board"
    BY <2>4, <2>9, <2>11
  <2>15. unanswered \subseteq unanswered' /\ ticket' = ticket /\ now' = now /\ undone' = undone
    BY <2>1
  <2>16. \A q \in Request \ {r} : p[q] = pc[q] /\ audit'[q] = audit[q]
    BY <2>11, <2>12
  <2> QED
    BY <2>2, <2>3, <2>6, <2>11, <2>12, <2>13, <2>14, <2>15, <2>16, StepKeeps
<1>11. ASSUME NEW c \in late, TD!ReadLate(c) \/ TD!WriteLate(c) PROVE TicketInv'
  BY <1>11, LateReadKeeps, LateWriteKeeps
<1> QED
  BY <1>2, <1>3, <1>5, <1>6, <1>7, <1>8, <1>9, <1>10, <1>11, WriteKeeps DEF TD!Next

-----------------------------------------------------------------------------
(* What the invariant says of the promises. *)

\* The time to resolve is that of an entry, and no other is earlier.
LEMMA FirstClosingIs ==
    ASSUME NEW d \in Document, TD!ClosingTimes(d) # {}
    PROVE  /\ TD!Min(TD!ClosingTimes(d)) \in TD!ClosingTimes(d)
           /\ \A t \in TD!ClosingTimes(d) : TD!Min(TD!ClosingTimes(d)) <= t
           /\ TD!ClosingTimes(d) \subseteq Nat
<1>1. TD!ClosingTimes(d) \in SUBSET Nat
  BY EntriesAre DEF TD!ClosingTimes
<1> QED
  BY <1>1, LeastIs DEF TD!Min

LEMMA ClosingsAre ==
    ASSUME NEW d \in Document, NEW t
    PROVE  t \in TD!ClosingTimes(d) <=>
               \E i \in DOMAIN d.timeline : d.timeline[i].status = "resolved" /\ d.timeline[i].at = t
BY DEF TD!ClosingTimes, TD!Terminal

LEMMA TicketsImply ==
    TicketInv => /\ TD!TypeOK /\ TD!ResolvedIsTimed /\ TD!SuccessIsInTicket
                 /\ TD!ChangeIsAudited /\ TD!VerdictIsRecent
<1> SUFFICES ASSUME TicketInv
             PROVE  /\ TD!TypeOK /\ TD!ResolvedIsTimed /\ TD!SuccessIsInTicket
                    /\ TD!ChangeIsAudited /\ TD!VerdictIsRecent
  OBVIOUS
<1>1. ticket \in Document /\ Whole(ticket) /\ \A r \in Request : EntryOf(ticket, r) => Written(r)
  BY DEF TicketInv, TicketTypes, InUse
<1>2. ticket.status \in {"open", "resolved"} /\ ticket.board \in {"new", "closed"}
  BY <1>1 DEF Document
<1>3. TD!TypeOK
  <2>1. \A c \in late : c.by \in Request /\ pc[c.by].op # None
    BY DEF TicketInv, TicketTypes, Given, Sensible
  <2> QED
    BY <1>1, <1>2, <2>1 DEF TD!TypeOK, Whole, TicketInv, VerdictInv
<1>4. TD!ResolvedIsTimed
  <2> SUFFICES ASSUME ticket.status = "resolved", ticket.board = "new" PROVE TD!Mttr(ticket) # None
    BY <1>2 DEF TD!ResolvedIsTimed, TD!OpenForSla, TD!Terminal
  <2>1. TD!ClosingTimes(ticket) # {}
    BY <1>1, ClosingsAre DEF Whole
  <2>2. TD!Min(TD!ClosingTimes(ticket)) \in Nat
    BY <1>1, <2>1, FirstClosingIs
  <2>3. TD!Mttr(ticket) = TD!Min(TD!ClosingTimes(ticket))
    BY <2>1 DEF TD!Mttr, TD!Terminal
  <2> QED
    BY <2>2, <2>3, TicketAssumption
<1>5. ASSUME NEW r \in Request PROVE TD!Items(r) # {} <=> EntryOf(ticket, r)
  BY DEF TD!Items, EntryOf
<1>6. TD!SuccessIsInTicket
  BY <1>5 DEF TD!SuccessIsInTicket, TicketInv, Traced
<1>7. TD!ChangeIsAudited
  BY <1>1, <1>5 DEF TD!ChangeIsAudited, Written
<1> QED
  BY <1>3, <1>4, <1>6, <1>7 DEF TicketInv, VerdictInv, TD!VerdictIsRecent

LEMMA ResolutionStays ==
    ASSUME TicketInv, TicketInv', NEW d \in Document, d = ticket, NEW e \in Document, e = ticket',
           TD!Mttr(d) # None, TD!Mttr(e) # None, TD!Continues(e.timeline, d.timeline)
    PROVE  TD!Mttr(e) = TD!Mttr(d)
<1> DEFINE C == TD!ClosingTimes(d)
           D == TD!ClosingTimes(e)
           s == d.timeline
           t == e.timeline
<1>1. /\ C # {} /\ D # {} /\ TD!Mttr(d) = TD!Min(C) /\ TD!Mttr(e) = TD!Min(D)
  BY DEF TD!Mttr
<1>2. /\ TD!Min(C) \in C /\ \A x \in C : TD!Min(C) <= x
      /\ TD!Min(D) \in D /\ \A x \in D : TD!Min(D) <= x
      /\ C \subseteq Nat /\ D \subseteq Nat
  BY <1>1, FirstClosingIs
<1>3. /\ s \in Seq(Entry) /\ t \in Seq(Entry)
      /\ \A i \in DOMAIN t : t[i].at \in Nat
      /\ \A i, j \in DOMAIN t : i < j => t[i].at <= t[j].at
  <2>1. InUse(ticket)' /\ ticket' \in Document
    BY DEF InUse
  <2>2. \A i, j \in DOMAIN t : i < j => t[i].at <= t[j].at
    BY <2>1 DEF TicketInv, Whole
  <2> QED
    BY <2>2, EntriesAre DEF Document
<1>4. /\ Len(s) \in Nat /\ DOMAIN s = 1..Len(s) /\ Len(t) \in Nat /\ DOMAIN t = 1..Len(t)
      /\ Len(s) <= Len(t) /\ s = SubSeq(t, 1, Len(s))
  BY <1>3 DEF TD!Continues
<1>5. \A i \in 1..Len(s) : s[i] = t[i] /\ i \in DOMAIN t
  BY <1>3, <1>4
<1>6. PICK i \in DOMAIN s : s[i].status = "resolved" /\ s[i].at = TD!Min(C)
  BY <1>2, ClosingsAre
<1>7. PICK j \in DOMAIN t : t[j].status = "resolved" /\ t[j].at = TD!Min(D)
  BY <1>2, ClosingsAre
<1>8. TD!Min(D) <= TD!Min(C)
  <2>1. TD!Min(C) \in D
    BY <1>4, <1>5, <1>6, ClosingsAre
  <2> QED
    BY <1>2, <2>1
<1>9. TD!Min(C) <= TD!Min(D)
  <2>1. CASE j \in 1..Len(s)
    <3>1. TD!Min(D) \in C
      BY <1>4, <1>5, <1>7, <2>1, ClosingsAre
    <3> QED
      BY <1>2, <3>1
  <2>2. CASE j \notin 1..Len(s)
    <3>1. i < j
      BY <1>4, <1>6, <1>7, <2>2
    <3>2. t[i].at <= t[j].at
      BY <1>3, <1>4, <1>5, <1>6, <1>7, <3>1
    <3> QED
      BY <1>4, <1>5, <1>6, <1>7, <3>2
  <2> QED
    BY <2>1, <2>2
<1>10. TD!Min(C) \in Nat /\ TD!Min(D) \in Nat
  BY <1>2
<1> HIDE DEF C, D
<1> QED
  BY <1>1, <1>8, <1>9, <1>10

LEMMA ResolutionIsKept == TicketInv /\ TicketInv' => TD!ResolutionKept
<1> SUFFICES ASSUME TicketInv, TicketInv', TD!Mttr(ticket) # None, TD!Mttr(ticket') # None,
                    TD!Continues(ticket'.timeline, ticket.timeline)
             PROVE  TD!Mttr(ticket') = TD!Mttr(ticket)
  BY DEF TD!ResolutionKept
<1>1. PICK d \in Document : d = ticket
  BY DEF TicketInv, TicketTypes
<1>2. PICK e \in Document : e = ticket'
  BY DEF TicketInv, TicketTypes
<1> QED
  BY <1>1, <1>2, ResolutionStays

-----------------------------------------------------------------------------
(* Events of endpoints. *)

Lookup == {"sysmon.network_connection", "sysmon.dns_query"}

\* Only a snapshot tells of a suspicious connection, and what Sysmon tells of
\* is elsewhere.
Told ==
    {m \in [endpoint : Endpoint, ip : Own, seen : Own \cup {Gateway},
            type : Lookup \cup {"heartbeat", "connection.snapshot", "auth.privileged_logon"},
            dst : Remote \cup {None}, user : User \cup {None}, suspicious : BOOLEAN] :
        /\ m.type \in Lookup => m.dst \in Remote
        /\ m.suspicious => m.type = "connection.snapshot"}

\* The request that a thread serves.
Job ==
    [stage : EE!Stage, n : Nat, tries : 1..Attempts, verdict : EE!Verdict \cup {None},
     row : EE!Row \cup {None}, outcome : {"skipped", "created", "failed", None}]

EventTypes ==
    /\ events \in Seq(Told) /\ Len(events) <= MaxEvents
    /\ work \in [Request -> Job \cup {EE!Idle}]
    /\ \A h \in Request : work[h] # EE!Idle => work[h].n \in 1..Len(events)
    /\ \A c \in late : c \in Job /\ c.n \in 1..Len(events)
    /\ cache \in [EE!Indicator -> EE!Verdict \cup {None}]
    /\ row \in [Endpoint -> EE!Row \cup {None}]
    /\ \A x \in timeline : x.of \in 1..Len(events)
    /\ \A x \in incidents : x.of \in 1..Len(events) \cup {None}
    /\ audit \in Seq([n : Nat, outcome : {"success", "partial"}])
    /\ \A k \in 1..Len(audit) : audit[k].n \in 1..Len(events)

\* Event n is a reason for an incident, if it is given this verdict.
Alarm(n, verdict) ==
    \/ events[n].suspicious
    \/ verdict = "malicious"
    \/ events[n].type \in EE!Auth

\* The incident of event n is in siem_kowalski.
Filed(n) == \E x \in incidents : x.of = n

\* A malicious indicator of event n was looked up.
Convicted(n) == \E c \in checked : c.n = n /\ c.indicator \in Malicious

\* A row has a verdict; an endpoint has one.
Has(o)   == o # None /\ o.verdict # None
Known(e) == Has(row[e])

\* What is true of a request j as it is served, or of a call for it that was given
\* up: only Sysmon events are judged, and by their own indicator; items are noted
\* with its verdict; and unless another request was at it, the endpoint has been
\* written as j says, and what was read of it knows no less.
Fits(j) ==
    /\ j.stage = "new" => j.verdict = None
    /\ j.verdict # None => events[j.n].type \in Lookup
    /\ j.verdict = "malicious" => Convicted(j.n)
    /\ \A x \in timeline : x.of = j.n => j.stage # "new" /\ x.verdict = j.verdict
    /\ events[j.n].endpoint \notin overtaken =>
          /\ j.stage = "read" /\ j.verdict = None => (Has(j.row) <=> Known(events[j.n].endpoint))
          /\ j.stage \in {"written", "noted", "forwarded"} /\ j.verdict # None =>
                Known(events[j.n].endpoint)

\* A request that is served has not been audited, and what it has forwarded is
\* in siem_kowalski.
Open(j) ==
    /\ j.stage = "forwarded" /\ j.outcome # "failed" /\ Alarm(j.n, j.verdict) => Filed(j.n)
    /\ \A k \in 1..Len(audit) : audit[k].n # j.n

\* A call that was given up, also of a request that has been audited since.
GivenUp(c) ==
    /\ c.stage \in {"judged", "read", "written", "noted"}
    /\ c.stage = "noted" => Alarm(c.n, c.verdict)
    /\ \A k \in 1..Len(audit) :
          audit[k].n = c.n /\ audit[k].outcome = "success" /\ Alarm(c.n, c.verdict) => Filed(c.n)

\* Threads serve requests of their own; two for one endpoint are a disturbance.
Apart(g, h) ==
    work[g] # EE!Idle /\ work[h] # EE!Idle =>
        /\ work[g].n # work[h].n
        /\ events[work[g].n].endpoint = events[work[h].n].endpoint =>
              events[work[g].n].endpoint \in overtaken

\* Request j and a call c that was given up are of one event, with one verdict, or
\* of two endpoints, or a disturbance.
Beside(j, c) ==
    \/ j.n = c.n /\ j.verdict = c.verdict /\ j.stage # "new"
    \/ /\ j.n # c.n
       /\ events[j.n].endpoint = events[c.n].endpoint => events[j.n].endpoint \in overtaken

\* If event n is an alarm, by the verdict that its items note if it has any, it
\* is in siem_kowalski.
Settled(n) ==
    /\ Alarm(n, None) => Filed(n)
    /\ \A x \in timeline : x.of = n /\ Alarm(n, x.verdict) => Filed(n)

EventInv ==
    /\ EventTypes
    /\ \A i \in EE!Indicator : cache[i] = "malicious" => i \in Malicious
    /\ \A h \in Request, j \in Job : work[h] = j => Fits(j) /\ Open(j)
    /\ \A c \in late : Fits(c) /\ GivenUp(c)
    /\ \A g, h \in Request : g # h => Apart(g, h)
    /\ \A h \in Request, j \in Job : work[h] = j => \A c \in late : Beside(j, c)
    /\ \A b, c \in late : Beside(b, c)
    /\ \A x \in incidents : x.of # None /\ events[x.of].type \in Lookup => Convicted(x.of)
    /\ \A k \in 1..Len(audit), n \in 1..Len(events) :
          audit[k].n = n /\ audit[k].outcome = "success" => Settled(n)
    /\ \A x \in timeline, e \in Endpoint :
          x.verdict # None /\ events[x.of].endpoint = e /\ e \notin overtaken => Known(e)

-----------------------------------------------------------------------------
\* A step for request j, of the threads H (one, or none if it is of a call that
\* was given up), leaves what is of other events alone.
Aside(H, j) ==
    /\ events' = events /\ overtaken' = overtaken
    /\ work' \in [Request -> Job \cup {EE!Idle}]
    /\ \A g \in Request \ H : work'[g] = work[g]
    /\ \A g \in H : work'[g] # EE!Idle =>
          /\ work'[g].n = j.n /\ work'[g].stage # "new"
          /\ j.stage = "new" \/ work'[g].verdict = j.verdict
    /\ \A c \in late' : c \in late \/
          /\ c \in Job /\ c.n = j.n /\ c.verdict = j.verdict /\ j.stage # "new"
          /\ Fits(c)' /\ GivenUp(c)'
    /\ checked \subseteq checked' /\ incidents \subseteq incidents'
    /\ \A e \in Endpoint \ {events[j.n].endpoint} : row'[e] = row[e]
    /\ \A x \in timeline' : x \in timeline \/
          (x.of = j.n /\ x.verdict = j.verdict /\ j.stage # "new")
    /\ audit' \in Seq([n : Nat, outcome : {"success", "partial"}])
    /\ \A k \in 1..Len(audit') :
          \/ k \in 1..Len(audit) /\ audit'[k] = audit[k]
          \/ H # {} /\ audit'[k].n = j.n

\* What such a step files, notes and audits is true, and what it caches and writes
\* of an endpoint is right.
Honest(j) ==
    /\ cache' \in [EE!Indicator -> EE!Verdict \cup {None}]
    /\ \A i \in EE!Indicator : cache'[i] = "malicious" => i \in Malicious
    /\ row' \in [Endpoint -> EE!Row \cup {None}]
    /\ \A e \in Endpoint \ overtaken :
          (Known(e) => Known(e)') /\ (j.verdict = None => (Known(e)' => Known(e)))
    /\ \A x \in incidents' : x \notin incidents =>
          x.of = j.n /\ (events[j.n].type \in Lookup => Convicted(j.n))
    /\ \A x \in timeline' :
          x \notin timeline /\ x.verdict # None /\ events[j.n].endpoint \notin overtaken =>
              Known(events[j.n].endpoint)'
    /\ \A k \in 1..Len(audit') :
          audit'[k].n = j.n /\ audit'[k].outcome = "success" =>
              Settled(j.n)' /\ (Alarm(j.n, j.verdict) => Filed(j.n)')

-----------------------------------------------------------------------------
LEMMA PayloadsAre ==
    ASSUME NEW e \in Endpoint, NEW ip \in Own, NEW u \in User, NEW seen \in {ip, Gateway},
           NEW m \in EE!Payloads(e, ip, u, seen)
    PROVE  m \in Told /\ m.endpoint = e
<1> DEFINE Made(type, dst, user, risky) ==
               [endpoint |-> e, ip |-> ip, seen |-> seen, type |-> type, dst |-> dst,
                user |-> user, suspicious |-> risky]
<1>1. \/ m = Made("heartbeat", None, u, FALSE)
      \/ \E c \in EE!Connection : m = Made("connection.snapshot", c.dst, None, EE!Suspicious(c))
      \/ \E t \in Lookup, d \in Remote : m = Made(t, d, u, FALSE)
      \/ m = Made("auth.privileged_logon", None, u, FALSE)
  BY DEF EE!Payloads, Lookup
<1>2. CASE m = Made("heartbeat", None, u, FALSE)
  BY <1>2 DEF Told, Lookup
<1>3. CASE \E c \in EE!Connection : m = Made("connection.snapshot", c.dst, None, EE!Suspicious(c))
  <2>1. PICK c \in EE!Connection : m = Made("connection.snapshot", c.dst, None, EE!Suspicious(c))
    BY <1>3
  <2>2. PICK d \in Remote : d = c.dst
    BY DEF EE!Connection
  <2>3. PICK b \in BOOLEAN : b = EE!Suspicious(c)
    BY DEF EE!Suspicious
  <2> QED
    BY <2>1, <2>2, <2>3 DEF Told, Lookup
<1>4. CASE \E t \in Lookup, d \in Remote : m = Made(t, d, u, FALSE)
  BY <1>4 DEF Told, Lookup
<1>5. CASE m = Made("auth.privileged_logon", None, u, FALSE)
  BY <1>5 DEF Told, Lookup
<1> QED
  BY <1>1, <1>2, <1>3, <1>4, <1>5

LEMMA InitEvents == InitEE => EventInv
<1> SUFFICES ASSUME InitEE PROVE EventInv
  OBVIOUS
<1>1. /\ events = <<>> /\ timeline = {} /\ incidents = {} /\ audit = <<>>
      /\ work = [h \in Request |-> EE!Idle]
      /\ cache = [i \in EE!Indicator |-> None] /\ row = [e \in Endpoint |-> None]
      /\ late = {}
  BY DEF InitEE, EE!Init
<1>2. EE!Idle \notin Job
  BY DEF EE!Idle, Job, EE!Stage
<1>3. /\ <<>> \in Seq(Told) /\ Len(<<>>) = 0 /\ 1..0 = {}
      /\ <<>> \in Seq([n : Nat, outcome : {"success", "partial"}])
  OBVIOUS
<1>4. EventTypes
  BY <1>1, <1>3, EndpointAssumption DEF EventTypes
<1>5. \A h \in Request : work[h] = EE!Idle /\ work[h] \notin Job
  BY <1>1, <1>2
<1>6. None # "malicious"
  BY EndpointAssumption DEF EE!Verdict
<1> QED
  BY <1>1, <1>3, <1>4, <1>5, <1>6 DEF EventInv, Apart

\* A request stays as it should be when what is noted of its event has its
\* verdict, and of its endpoint is known no less, nor more if it has none, unless
\* somebody else is at it.
LEMMA FitsStays ==
    ASSUME NEW j \in Job, Fits(j), events'[j.n] = events[j.n], checked \subseteq checked',
           overtaken \subseteq overtaken',
           \A x \in timeline' : x.of = j.n =>
               x \in timeline \/ (x.verdict = j.verdict /\ j.stage # "new"),
           events[j.n].endpoint \notin overtaken' =>
               /\ Known(events[j.n].endpoint) => Known(events[j.n].endpoint)'
               /\ j.verdict = None => (Known(events[j.n].endpoint)' => Known(events[j.n].endpoint))
    PROVE  Fits(j)'
<1>1. Convicted(j.n) => Convicted(j.n)'
  BY DEF Convicted
<1>2. PICK e : e = events[j.n].endpoint
  OBVIOUS
<1>3. e = events'[j.n].endpoint
  BY <1>2
<1>4. PICK k \in BOOLEAN : k = Known(e)'
  BY DEF Known, Has
<1>5. e \notin overtaken' =>
        /\ j.stage = "read" /\ j.verdict = None => (Has(j.row) <=> k)
        /\ j.stage \in {"written", "noted", "forwarded"} /\ j.verdict # None => k
  BY <1>2, <1>4 DEF Fits
<1>6. /\ j.stage = "new" => j.verdict = None
      /\ j.verdict # None => events[j.n].type \in Lookup
      /\ j.verdict = "malicious" => Convicted(j.n)'
      /\ \A x \in timeline' : x.of = j.n => j.stage # "new" /\ x.verdict = j.verdict
  BY <1>1 DEF Fits
<1> QED
  BY <1>3, <1>4, <1>5, <1>6 DEF Fits, Known, Has

LEMMA OpenStays ==
    ASSUME NEW j \in Job, Open(j), events'[j.n] = events[j.n], incidents \subseteq incidents',
           \A k \in 1..Len(audit') : audit'[k].n = j.n => \E i \in 1..Len(audit) : audit[i].n = j.n
    PROVE  Open(j)'
BY DEF Open, Filed, Alarm

LEMMA GivenUpStays ==
    ASSUME NEW c \in Job, GivenUp(c), events'[c.n] = events[c.n], incidents \subseteq incidents',
           \A k \in 1..Len(audit') :
               audit'[k].n = c.n /\ audit'[k].outcome = "success" =>
                   \/ k \in 1..Len(audit) /\ audit'[k] = audit[k]
                   \/ Alarm(c.n, c.verdict) => Filed(c.n)'
    PROVE  GivenUp(c)'
<1>1. /\ Filed(c.n) => Filed(c.n)'
      /\ Alarm(c.n, c.verdict)' <=> Alarm(c.n, c.verdict)
  BY DEF Filed, Alarm
<1> QED
  BY <1>1 DEF GivenUp

LEMMA SettledStays ==
    ASSUME NEW n, Settled(n), events'[n] = events[n], incidents \subseteq incidents',
           \A x \in timeline' : x.of = n => x \in timeline
    PROVE  Settled(n)'
BY DEF Settled, Filed, Alarm

LEMMA IdleIsNoJob == EE!Idle \notin Job
BY DEF EE!Idle, Job, EE!Stage

\* What is done for request j keeps the invariant, if it is left as it should be
\* and what is filed, noted and audited is true.
LEMMA CopyKeeps ==
    ASSUME EventInv, NEW H \in SUBSET Request, NEW j \in Job, Aside(H, j), Honest(j),
           \A g, h \in H : g = h, \A h \in H : work[h] = j, H = {} => j \in late,
           \A h \in H, i \in Job : work'[h] = i => Fits(i)' /\ Open(i)'
    PROVE  EventInv'
<1> USE DEF Aside, Honest
<1>1. EventTypes /\ events' = events /\ overtaken' = overtaken
  BY DEF EventInv
<1>2. /\ \A n \in 1..Len(events) : events[n] \in Told /\ events[n].endpoint \in Endpoint
      /\ j.n \in 1..Len(events)
  BY <1>1, IdleIsNoJob DEF EventTypes, Told
<1>3. \A c \in late : c \in Job /\ c.n \in 1..Len(events) /\ Fits(c) /\ GivenUp(c) /\ c.stage # "new"
  BY DEF EventInv, EventTypes, GivenUp
<1>4. \A c \in late : Beside(j, c) /\ Beside(c, j)
  <2> SUFFICES ASSUME NEW c \in late PROVE Beside(j, c) /\ Beside(c, j)
    OBVIOUS
  <2>1. Beside(j, c)
    BY DEF EventInv
  <2> QED
    BY <1>3, <2>1 DEF Beside
<1>5. ASSUME NEW g \in Request \ H, NEW i \in Job, work[g] = i
      PROVE  /\ i.n \in 1..Len(events) /\ Fits(i) /\ Open(i)
             /\ Beside(i, j) /\ (i.n = j.n => H = {})
  <2>1. i.n \in 1..Len(events) /\ Fits(i) /\ Open(i)
    BY <1>1, <1>5, IdleIsNoJob DEF EventInv, EventTypes
  <2>2. CASE H = {}
    BY <1>5, <2>1, <2>2 DEF EventInv
  <2>3. ASSUME NEW h \in H PROVE Beside(i, j) /\ i.n # j.n
    <3>1. Apart(g, h) /\ work[h] = j
      BY <2>3 DEF EventInv
    <3> QED
      BY <1>5, <3>1, IdleIsNoJob DEF Apart, Beside
  <2> QED
    BY <2>1, <2>2, <2>3
<1>6. EventTypes'
  <2>1. \A g \in Request : work'[g] # EE!Idle => work'[g].n \in 1..Len(events)
    BY <1>1, <1>2 DEF EventTypes
  <2>2. \A x \in timeline' : x.of \in 1..Len(events)
    BY <1>1, <1>2 DEF EventTypes
  <2>3. \A x \in incidents' : x.of \in 1..Len(events) \cup {None}
    BY <1>1, <1>2 DEF EventTypes
  <2>4. \A k \in 1..Len(audit') : audit'[k].n \in 1..Len(events)
    BY <1>1, <1>2 DEF EventTypes
  <2>5. \A c \in late' : c \in Job /\ c.n \in 1..Len(events)
    BY <1>2, <1>3
  <2> QED
    BY <1>1, <2>1, <2>2, <2>3, <2>4, <2>5 DEF EventTypes
<1>7. ASSUME NEW i \in Job, i.n \in 1..Len(events), Fits(i), Beside(i, j)
      PROVE  Fits(i)'
  <2> DEFINE e == events[i.n].endpoint
  <2>1. e \in Endpoint
    BY <1>2, <1>7
  <2>2. \A x \in timeline' : x.of = i.n =>
            x \in timeline \/ (x.verdict = i.verdict /\ i.stage # "new")
    BY <1>7 DEF Beside
  <2>3. e \notin overtaken => (Known(e) => Known(e)') /\ (i.verdict = None => (Known(e)' => Known(e)))
    <3>1. CASE i.n = j.n
      BY <1>7, <2>1, <3>1 DEF Beside
    <3>2. CASE i.n # j.n
      <4>1. e \notin overtaken => row'[e] = row[e]
        BY <1>7, <2>1, <3>2 DEF Beside
      <4> QED
        BY <4>1 DEF Known
    <3> QED
      BY <3>1, <3>2
  <2>4. events'[i.n] = events[i.n] /\ checked \subseteq checked' /\ overtaken \subseteq overtaken'
    BY <1>1
  <2> QED
    BY <1>1, <1>7, <2>2, <2>3, <2>4, FitsStays
<1>8. ASSUME NEW g \in Request, NEW i \in Job, work'[g] = i
      PROVE  Fits(i)' /\ Open(i)'
  <2>1. CASE g \in H
    BY <1>8, <2>1
  <2>2. CASE g \notin H
    <3>1. work[g] = i
      BY <1>8, <2>2
    <3>2. /\ i.n \in 1..Len(events) /\ Fits(i) /\ Open(i)
          /\ Beside(i, j) /\ (i.n = j.n => H = {})
      BY <1>5, <2>2, <3>1
    <3>3. \A k \in 1..Len(audit') : audit'[k].n = i.n => \E l \in 1..Len(audit) : audit[l].n = i.n
      BY <3>2
    <3>4. events'[i.n] = events[i.n] /\ incidents \subseteq incidents'
      BY <1>1
    <3>5. Open(i)'
      BY <3>2, <3>3, <3>4, OpenStays
    <3> QED
      BY <1>7, <3>2, <3>5
  <2> QED
    BY <2>1, <2>2
<1>9. ASSUME NEW c \in late' PROVE Fits(c)' /\ GivenUp(c)'
  <2>1. CASE c \in late
    <3>1. c \in Job /\ c.n \in 1..Len(events) /\ Fits(c) /\ GivenUp(c) /\ Beside(c, j)
      BY <1>3, <1>4, <2>1
    <3>2. \A k \in 1..Len(audit') :
              audit'[k].n = c.n /\ audit'[k].outcome = "success" =>
                  \/ k \in 1..Len(audit) /\ audit'[k] = audit[k]
                  \/ Alarm(c.n, c.verdict) => Filed(c.n)'
      BY <3>1 DEF Beside
    <3>3. events'[c.n] = events[c.n] /\ incidents \subseteq incidents'
      BY <1>1
    <3>4. GivenUp(c)'
      BY <3>1, <3>2, <3>3, GivenUpStays
    <3> QED
      BY <1>7, <3>1, <3>4
  <2>2. CASE c \notin late
    BY <2>2
  <2> QED
    BY <2>1, <2>2
<1>10. ASSUME NEW f \in Request, NEW g \in Request, f # g
       PROVE  Apart(f, g)'
  <2>1. \A q \in Request : work'[q] # EE!Idle /\ q \in H => work[q] # EE!Idle /\ work'[q].n = work[q].n
    BY IdleIsNoJob
  <2>2. \A q \in Request : work'[q] # EE!Idle => work[q] # EE!Idle /\ work'[q].n = work[q].n
    BY <2>1
  <2>3. Apart(f, g)
    BY <1>10 DEF EventInv
  <2> QED
    BY <1>1, <2>2, <2>3 DEF Apart
<1>11. ASSUME NEW g \in Request, NEW i \in Job, work'[g] = i, NEW c \in late'
       PROVE  Beside(i, c)'
  <2>1. CASE g \in H
    <3>1. /\ i.n = j.n /\ i.stage # "new" /\ (j.stage = "new" \/ i.verdict = j.verdict)
      BY <1>11, <2>1, IdleIsNoJob
    <3>2. CASE c \in late
      BY <1>1, <1>4, <3>1, <3>2 DEF Beside
    <3>3. CASE c \notin late
      BY <3>1, <3>3 DEF Beside
    <3> QED
      BY <3>2, <3>3
  <2>2. CASE g \notin H
    <3>1. work[g] = i /\ Beside(i, j)
      BY <1>5, <1>11, <2>2
    <3>2. CASE c \in late
      BY <1>1, <3>1, <3>2 DEF EventInv, Beside
    <3>3. CASE c \notin late
      BY <1>1, <3>1, <3>3 DEF Beside
    <3> QED
      BY <3>2, <3>3
  <2> QED
    BY <2>1, <2>2
<1>12. ASSUME NEW b \in late', NEW c \in late' PROVE Beside(b, c)'
  <2>1. CASE b \in late /\ c \in late
    BY <1>1, <2>1 DEF EventInv, Beside
  <2>2. CASE b \in late /\ c \notin late
    BY <1>1, <1>4, <2>2 DEF Beside
  <2>3. CASE b \notin late
    <3>1. b.n = j.n /\ b.verdict = j.verdict /\ b.stage # "new"
      BY <2>3 DEF GivenUp
    <3> QED
      BY <1>1, <1>4, <3>1 DEF Beside
  <2> QED
    BY <2>1, <2>2, <2>3
<1>13. \A x \in incidents' : x.of # None /\ events[x.of].type \in Lookup => Convicted(x.of)'
  <2>1. \A n : Convicted(n) => Convicted(n)'
    BY DEF Convicted
  <2> QED
    BY <2>1 DEF EventInv
<1>14. ASSUME NEW k \in 1..Len(audit'), NEW n \in 1..Len(events),
              audit'[k].n = n, audit'[k].outcome = "success"
       PROVE  Settled(n)'
  <2>1. CASE n = j.n
    BY <1>14, <2>1
  <2>2. CASE n # j.n
    <3>1. k \in 1..Len(audit) /\ audit[k] = audit'[k]
      BY <1>14, <2>2
    <3>2. Settled(n)
      BY <1>14, <3>1 DEF EventInv
    <3>3. \A x \in timeline' : x.of = n => x \in timeline
      BY <2>2
    <3> QED
      BY <3>2, <3>3, <1>1, SettledStays
  <2> QED
    BY <2>1, <2>2
<1>15. ASSUME NEW x \in timeline', NEW e \in Endpoint,
              x.verdict # None, events[x.of].endpoint = e, e \notin overtaken
       PROVE  Known(e)'
  <2>1. CASE x \in timeline
    BY <1>15, <2>1 DEF EventInv
  <2>2. CASE x \notin timeline
    <3>1. x.of = j.n
      BY <2>2
    <3> QED
      BY <1>15, <2>2, <3>1
  <2> QED
    BY <2>1, <2>2
<1>16. \A i \in EE!Indicator : cache'[i] = "malicious" => i \in Malicious
  OBVIOUS
<1> QED
  BY <1>1, <1>6, <1>8, <1>9, <1>10, <1>11, <1>12, <1>13, <1>14, <1>15, <1>16 DEF EventInv

LEMMA ThreadKeeps ==
    ASSUME EventInv, NEW h \in Request, NEW j \in Job, work[h] = j, Aside({h}, j), Honest(j),
           \A i \in Job : work'[h] = i => Fits(i)' /\ Open(i)'
    PROVE  EventInv'
<1> DEFINE H == {h}
<1>1. /\ H \in SUBSET Request /\ H # {} /\ Aside(H, j)
      /\ \A f, g \in H : f = g
      /\ \A g \in H : work[g] = j
      /\ \A g \in H, i \in Job : work'[g] = i => Fits(i)' /\ Open(i)'
  OBVIOUS
<1> HIDE DEF H
<1> QED
  BY <1>1, CopyKeeps
-----------------------------------------------------------------------------
\* What is the same for every step of a thread.
LEMMA RequestsAre ==
    ASSUME EventInv, NEW h \in Request, work[h] # EE!Idle
    PROVE  \E j \in Job :
             /\ work[h] = j /\ Fits(j) /\ Open(j) /\ j.n \in 1..Len(events)
             /\ EE!Ev(h) = events[j.n]
             /\ events[j.n] \in Told /\ events[j.n].endpoint \in Endpoint
<1>1. PICK j \in Job : work[h] = j
  BY DEF EventInv, EventTypes
<1>2. Fits(j) /\ Open(j) /\ j.n \in 1..Len(events)
  BY <1>1 DEF EventInv, EventTypes
<1>3. events[j.n] \in Told /\ events[j.n].endpoint \in Endpoint
  BY <1>2 DEF EventInv, EventTypes, Told
<1> QED
  BY <1>1, <1>2, <1>3 DEF EE!Ev

\* The first indicator of a Sysmon event; other events have none.
LEMMA IndicatorsAre ==
    ASSUME NEW m \in Told
    PROVE  /\ m.type \in Lookup =>
                  EE!Indicators(m) # <<>> /\ Head(EE!Indicators(m)) \in EE!Indicator
           /\ m.type \notin Lookup => EE!Indicators(m) = <<>>
<1>1. m.ip \in Own /\ (m.type \in Lookup => m.dst \in Remote)
  BY DEF Told
<1>2. CASE m.type = "sysmon.network_connection"
  <2>1. EE!SysmonAttributes(m) =
            <<<<"sourceIp", m.ip>>, <<"destinationIp", m.dst>>, <<"ioc", m.dst>>>>
    BY <1>2 DEF EE!SysmonAttributes
  <2>2. EE!Indicators(m) = <<m.ip, m.dst, m.dst>>
    BY <2>1 DEF EE!Indicators
  <2> QED
    BY <1>1, <1>2, <2>2 DEF EE!Indicator, Lookup
<1>3. CASE m.type = "sysmon.dns_query"
  <2>1. EE!SysmonAttributes(m) = <<<<"queryName", m.dst>>, <<"ioc", m.dst>>>>
    BY <1>3 DEF EE!SysmonAttributes
  <2>2. EE!Indicators(m) = <<m.dst, m.dst>>
    BY <2>1 DEF EE!Indicators
  <2> QED
    BY <1>1, <1>3, <2>2 DEF EE!Indicator, Lookup
<1>4. CASE m.type \notin Lookup
  <2>1. EE!SysmonAttributes(m) = <<>>
    BY <1>4 DEF EE!SysmonAttributes, Lookup
  <2> QED
    BY <1>4, <2>1 DEF EE!Indicators
<1> QED
  BY <1>2, <1>3, <1>4 DEF Lookup

LEMMA ReceiveKeeps ==
    ASSUME EventInv, NEW h \in Request, NEW m \in Told, EE!Receive(h, m)
    PROVE  EventInv'
<1> DEFINE L == Len(events)
           w == [stage |-> "new", n |-> L + 1, tries |-> 1, verdict |-> None,
                 row |-> None, outcome |-> None]
<1>1. /\ work[h] = EE!Idle /\ L < MaxEvents
      /\ events' = Append(events, m) /\ work' = [work EXCEPT ![h] = w]
      /\ overtaken \subseteq overtaken'
      /\ \A g \in Request :
            work[g] # EE!Idle /\ events[work[g].n].endpoint = m.endpoint => m.endpoint \in overtaken'
      /\ \A c \in late : events[c.n].endpoint = m.endpoint => m.endpoint \in overtaken'
      /\ UNCHANGED <<late, cache, checked, row, timeline, incidents, audit, faults>>
  BY DEF EE!Receive
<1>2. EventTypes
  BY DEF EventInv
<1>3. L \in Nat /\ events \in Seq(Told)
  BY <1>2 DEF EventTypes
<1>4. /\ events' \in Seq(Told) /\ Len(events') = L + 1 /\ events'[L + 1] = m
      /\ \A n \in 1..L : events'[n] = events[n]
  BY <1>1, <1>3
<1>5. w \in Job /\ w.n = L + 1 /\ w.stage = "new" /\ w.verdict = None
  BY <1>3, EndpointAssumption DEF Job, EE!Stage
<1> HIDE DEF w
<1>6. PICK p \in [Request -> Job \cup {EE!Idle}] :
          p = work' /\ p[h] = w /\ \A g \in Request \ {h} : p[g] = work[g]
  <2>1. PICK f \in [Request -> Job \cup {EE!Idle}] : f = work
    BY <1>2 DEF EventTypes
  <2> QED
    BY <1>1, <1>5, <2>1
<1>7. EventTypes'
  <2>1. \A g \in Request : p[g] # EE!Idle => p[g].n \in 1..(L + 1)
    BY <1>2, <1>3, <1>5, <1>6 DEF EventTypes
  <2>2. \A x \in timeline : x.of \in 1..(L + 1)
    BY <1>2, <1>3 DEF EventTypes
  <2>3. \A x \in incidents : x.of \in 1..(L + 1) \cup {None}
    BY <1>2, <1>3 DEF EventTypes
  <2>4. \A k \in 1..Len(audit) : audit[k].n \in 1..(L + 1)
    BY <1>2, <1>3 DEF EventTypes
  <2>5. \A c \in late : c \in Job /\ c.n \in 1..(L + 1)
    BY <1>2, <1>3 DEF EventTypes
  <2> HIDE DEF L
  <2> QED
    BY <1>1, <1>2, <1>3, <1>4, <1>6, <2>1, <2>2, <2>3, <2>4, <2>5, EndpointAssumption DEF EventTypes
<1>8. ASSUME NEW g \in Request, NEW i \in Job, work'[g] = i
      PROVE  Fits(i)' /\ Open(i)'
  <2>1. CASE g = h
    <3>1. /\ \A x \in timeline : x.of # i.n
          /\ \A k \in 1..Len(audit) : audit[k].n # i.n
      BY <1>2, <1>3, <1>5, <1>6, <1>8, <2>1 DEF EventTypes
    <3>2. i.stage = "new" /\ i.verdict = None
      BY <1>5, <1>6, <1>8, <2>1
    <3> QED
      BY <3>1, <3>2, <1>1, EndpointAssumption DEF Fits, Open, EE!Verdict
  <2>2. CASE g # h
    <3>1. work[g] = i
      BY <1>6, <1>8, <2>2
    <3>2. Fits(i) /\ Open(i) /\ i.n \in 1..L
      BY <3>1, <1>2, IdleIsNoJob DEF EventInv, EventTypes
    <3>3. Known(events[i.n].endpoint)' <=> Known(events[i.n].endpoint)
      BY <1>1, <1>4, <3>2 DEF Known, Has
    <3>4. /\ events'[i.n] = events[i.n]
          /\ timeline' = timeline /\ checked' = checked /\ incidents' = incidents /\ audit' = audit
      BY <1>1, <1>4, <3>2
    <3>5. Fits(i)'
      BY <1>1, <3>2, <3>3, <3>4, FitsStays
    <3>6. Open(i)'
      BY <3>2, <3>4, OpenStays
    <3> QED
      BY <3>5, <3>6
  <2> QED
    BY <2>1, <2>2
<1>9. ASSUME NEW c \in late PROVE Fits(c)' /\ GivenUp(c)'
  <2>1. c \in Job /\ c.n \in 1..L /\ Fits(c) /\ GivenUp(c)
    BY <1>2 DEF EventInv, EventTypes
  <2>2. Known(events[c.n].endpoint)' <=> Known(events[c.n].endpoint)
    BY <1>1, <1>4, <2>1 DEF Known, Has
  <2>3. /\ events'[c.n] = events[c.n]
        /\ timeline' = timeline /\ checked' = checked /\ incidents' = incidents /\ audit' = audit
    BY <1>1, <1>4, <2>1
  <2>4. Fits(c)'
    BY <1>1, <2>1, <2>2, <2>3, FitsStays
  <2>5. GivenUp(c)'
    BY <2>1, <2>3, GivenUpStays
  <2> QED
    BY <2>4, <2>5
<1>10. ASSUME NEW g \in Request, NEW i \in Job, work'[g] = i, NEW c \in late
       PROVE  Beside(i, c)'
  <2>1. c.n \in 1..L /\ events'[c.n] = events[c.n] /\ c.n # L + 1
    BY <1>2, <1>3, <1>4 DEF EventTypes
  <2>2. CASE g = h
    <3>1. i.n = L + 1 /\ events'[i.n].endpoint = m.endpoint
      BY <1>4, <1>5, <1>6, <1>10, <2>2
    <3> QED
      BY <1>1, <2>1, <3>1 DEF Beside
  <2>3. CASE g # h
    <3>1. work[g] = i /\ Beside(i, c) /\ i.n \in 1..L
      BY <1>2, <1>6, <1>10, <2>3, IdleIsNoJob DEF EventInv, EventTypes
    <3> QED
      BY <1>1, <1>4, <2>1, <3>1 DEF Beside
  <2> QED
    BY <2>2, <2>3
<1>11. ASSUME NEW b \in late, NEW c \in late PROVE Beside(b, c)'
  <2>1. b.n \in 1..L /\ c.n \in 1..L /\ Beside(b, c)
    BY <1>2 DEF EventInv, EventTypes
  <2> QED
    BY <1>1, <1>4, <2>1 DEF Beside
<1>12. ASSUME NEW f \in Request, NEW g \in Request, f # g
      PROVE  Apart(f, g)'
  <2>1. \A q \in Request \ {h} : work'[q] = work[q] /\
            (work[q] # EE!Idle => work[q].n \in 1..L /\ events'[work[q].n] = events[work[q].n])
    BY <1>2, <1>4, <1>6 DEF EventTypes
  <2>2. work'[h].n = L + 1 /\ events'[work'[h].n].endpoint = m.endpoint
    BY <1>4, <1>5, <1>6
  <2>3. \A q \in Request \ {h} : work[q] # EE!Idle => work[q].n # L + 1
    BY <2>1, <1>3
  <2>4. CASE f = h
    BY <1>1, <1>12, <2>1, <2>2, <2>3, <2>4 DEF Apart
  <2>5. CASE g = h
    BY <1>1, <1>12, <2>1, <2>2, <2>3, <2>5 DEF Apart
  <2>6. CASE f # h /\ g # h
    BY <1>1, <1>12, <2>1, <2>6 DEF EventInv, Apart
  <2> QED
    BY <2>4, <2>5, <2>6
<1>13. ASSUME NEW k \in 1..Len(audit'), NEW n \in 1..Len(events'),
              audit'[k].n = n, audit'[k].outcome = "success"
       PROVE  Settled(n)'
  <2>1. n \in 1..L /\ Settled(n)
    BY <1>1, <1>2, <1>3, <1>13 DEF EventInv, EventTypes
  <2> QED
    BY <2>1, <1>1, <1>4, SettledStays
<1>14. \A x \in incidents' : x.of # None /\ events'[x.of].type \in Lookup => Convicted(x.of)'
  <2>1. \A x \in incidents : x.of # None => events'[x.of] = events[x.of]
    BY <1>2, <1>4 DEF EventTypes
  <2> QED
    BY <2>1, <1>1 DEF EventInv, Convicted
<1>15. \A x \in timeline', e \in Endpoint :
          x.verdict # None /\ events'[x.of].endpoint = e /\ e \notin overtaken' => Known(e)'
  <2>1. \A x \in timeline : events'[x.of] = events[x.of]
    BY <1>2, <1>4 DEF EventTypes
  <2> QED
    BY <2>1, <1>1 DEF EventInv, Known, Has
<1>16. \A i \in EE!Indicator : cache'[i] = "malicious" => i \in Malicious
  BY <1>1 DEF EventInv
<1> QED
  BY <1>1, <1>7, <1>8, <1>12, <1>13, <1>14, <1>15, <1>16, <1>9, <1>10, <1>11 DEF EventInv

LEMMA EnrichKeeps ==
    ASSUME EventInv, NEW h \in Request, EE!Enrich(h)
    PROVE  EventInv'
<1>1. PICK j \in Job :
          /\ work[h] = j /\ Fits(j) /\ Open(j) /\ j.n \in 1..Len(events)
          /\ EE!Ev(h) = events[j.n]
          /\ events[j.n] \in Told /\ events[j.n].endpoint \in Endpoint
  BY RequestsAre DEF EE!Enrich
<1>2. \E v \in EE!Verdict \cup {None} :
        /\ j.stage = "new" /\ UNCHANGED <<events, late, row, timeline, incidents, audit, overtaken>>
        /\ work' = [work EXCEPT ![h] = [j EXCEPT !.stage = "judged", !.verdict = v]]
        /\ checked \subseteq checked'
        /\ v # None => events[j.n].type \in Lookup
        /\ v = "malicious" => \E c \in checked' : c.n = j.n /\ c.indicator \in Malicious
        /\ cache' \in [EE!Indicator -> EE!Verdict \cup {None}]
        /\ \A i \in EE!Indicator : cache'[i] = "malicious" => i \in Malicious
  <2>1. /\ EventTypes /\ \A i \in EE!Indicator : cache[i] = "malicious" => i \in Malicious
        /\ cache \in [EE!Indicator -> EE!Verdict \cup {None}]
    BY DEF EventInv, EventTypes
  <2>2. /\ work[h].stage = "new" /\ work[h] = j
        /\ UNCHANGED <<events, late, row, timeline, incidents, audit, overtaken>>
    BY <1>1 DEF EE!Enrich
  <2>3. PICK f \in [Request -> Job \cup {EE!Idle}] : f = work
    BY <2>1 DEF EventTypes
  <2>4. \A v \in EE!Verdict \cup {None} :
            work' = [work EXCEPT ![h].stage = "judged", ![h].verdict = v] =>
                work' = [work EXCEPT ![h] = [j EXCEPT !.stage = "judged", !.verdict = v]]
    BY <2>2, <2>3
  <2>5. CASE events[j.n].type \notin Lookup
    <3>1. EE!Indicators(events[j.n]) = <<>>
      BY <1>1, <2>5, IndicatorsAre
    <3>2. /\ work' = [work EXCEPT ![h].stage = "judged", ![h].verdict = None]
          /\ UNCHANGED <<cache, checked>>
      BY <1>1, <3>1 DEF EE!Enrich
    <3>3. None # "malicious"
      BY EndpointAssumption DEF EE!Verdict
    <3> QED
      BY <2>1, <2>2, <2>4, <3>2, <3>3
  <2>6. CASE events[j.n].type \in Lookup
    <3>1. PICK i \in EE!Indicator : i = Head(EE!Indicators(events[j.n]))
      BY <1>1, <2>6, IndicatorsAre
    <3>2. /\ EE!Indicators(events[j.n]) # <<>>
          /\ checked' = checked \cup {[n |-> j.n, indicator |-> i]}
          /\ \/ /\ cache[i] # None /\ UNCHANGED cache
                /\ work' = [work EXCEPT ![h].stage = "judged", ![h].verdict = cache[i]]
             \/ /\ cache' = [cache EXCEPT ![i] = EE!Reputation(i)]
                /\ work' = [work EXCEPT ![h].stage = "judged", ![h].verdict = EE!Reputation(i)]
             \/ /\ cache' = [cache EXCEPT ![i] = "unknown"]
                /\ work' = [work EXCEPT ![h].stage = "judged", ![h].verdict = "unknown"]
             \/ /\ UNCHANGED cache
                /\ work' = [work EXCEPT ![h].stage = "judged", ![h].verdict = None]
      BY <1>1, <2>2, <2>6, <3>1, IndicatorsAre DEF EE!Enrich
    <3>3. /\ EE!Reputation(i) \in EE!Verdict
          /\ EE!Reputation(i) = "malicious" => i \in Malicious
          /\ "unknown" \in EE!Verdict /\ "unknown" # "malicious" /\ None # "malicious"
      BY EndpointAssumption DEF EE!Reputation, EE!Verdict
    <3>4. PICK v \in EE!Verdict \cup {None} :
            /\ work' = [work EXCEPT ![h].stage = "judged", ![h].verdict = v]
            /\ v = "malicious" => i \in Malicious
            /\ cache' = cache \/ (v = cache'[i] /\ cache' = [cache EXCEPT ![i] = v])
      BY <2>1, <3>2, <3>3
    <3>5. /\ cache' \in [EE!Indicator -> EE!Verdict \cup {None}]
          /\ \A k \in EE!Indicator : cache'[k] = "malicious" => k \in Malicious
      BY <2>1, <3>4
    <3>6. [n |-> j.n, indicator |-> i] \in checked' /\ checked \subseteq checked'
      BY <3>2
    <3> QED
      BY <2>2, <2>4, <2>6, <3>4, <3>5, <3>6
  <2> QED
    BY <2>5, <2>6
<1> SUFFICES ASSUME NEW v \in EE!Verdict \cup {None},
                    /\ j.stage = "new" /\ UNCHANGED <<events, late, row, timeline, incidents, audit, overtaken>>
                    /\ work' = [work EXCEPT ![h] = [j EXCEPT !.stage = "judged", !.verdict = v]]
                    /\ checked \subseteq checked'
                    /\ v # None => events[j.n].type \in Lookup
                    /\ v = "malicious" => \E c \in checked' : c.n = j.n /\ c.indicator \in Malicious
                    /\ cache' \in [EE!Indicator -> EE!Verdict \cup {None}]
                    /\ \A i \in EE!Indicator : cache'[i] = "malicious" => i \in Malicious
             PROVE  EventInv'
  BY <1>2
<1> DEFINE w == [j EXCEPT !.stage = "judged", !.verdict = v]
<1>3. w \in Job /\ w.n = j.n /\ w.stage = "judged" /\ w.verdict = v
  BY DEF Job, EE!Stage
<1> HIDE DEF w
<1>4. PICK p \in [Request -> Job \cup {EE!Idle}] :
          p = work' /\ p[h] = w /\ \A g \in Request \ {h} : p[g] = work[g]
  <2>1. PICK f \in [Request -> Job \cup {EE!Idle}] : f = work
    BY DEF EventInv, EventTypes
  <2>2. work' = [f EXCEPT ![h] = w]
    BY <2>1 DEF w
  <2> QED
    BY <1>3, <2>1, <2>2
<1>5. EventTypes
  BY DEF EventInv
<1>6. Aside({h}, j)
  BY <1>3, <1>4, <1>5 DEF Aside, EventTypes
<1>7. ASSUME NEW i \in Job, work'[h] = i
      PROVE  Fits(i)' /\ Open(i)'
  <2>1. i.n = j.n /\ i.stage = "judged" /\ i.verdict = v
    BY <1>3, <1>4, <1>7
  <2>2. /\ \A x \in timeline : x.of # j.n
        /\ \A k \in 1..Len(audit) : audit[k].n # j.n
    BY <1>1 DEF Fits, Open
  <2> QED
    BY <2>1, <2>2, EndpointAssumption DEF Fits, Open, Convicted, EE!Verdict
<1>8. Honest(j)
  <2>1. \A k \in 1..Len(audit') : audit'[k].n # j.n
    BY <1>1 DEF Open
  <2> QED
    BY <2>1, <1>5 DEF Honest, EventTypes, Known, Has
<1> QED
  BY <1>1, <1>6, <1>7, <1>8, ThreadKeeps

LEMMA ReadRowKeeps ==
    ASSUME EventInv, NEW h \in Request, EE!ReadRow(h)
    PROVE  EventInv'
<1>1. PICK j \in Job :
          /\ work[h] = j /\ Fits(j) /\ Open(j) /\ j.n \in 1..Len(events)
          /\ EE!Ev(h) = events[j.n]
          /\ events[j.n] \in Told /\ events[j.n].endpoint \in Endpoint
  BY RequestsAre DEF EE!ReadRow
<1>2. PICK o \in EE!Row \cup {None} :
        /\ o = row[events[j.n].endpoint] /\ j.stage = "judged"
        /\ work' = [work EXCEPT ![h].stage = "read", ![h].row = o]
        /\ UNCHANGED <<events, late, cache, checked, row, timeline, incidents, audit, overtaken>>
  BY <1>1 DEF EE!ReadRow, EventInv, EventTypes
<1> DEFINE w == [j EXCEPT !.stage = "read", !.row = o]
<1>3. /\ w \in Job /\ w.n = j.n /\ w.stage = "read" /\ w.row = o
      /\ w.verdict = j.verdict
  BY <1>1, <1>2 DEF Job, EE!Stage
<1> HIDE DEF w
<1>4. PICK p \in [Request -> Job \cup {EE!Idle}] :
          p = work' /\ p[h] = w /\ \A g \in Request \ {h} : p[g] = work[g]
  <2>1. PICK f \in [Request -> Job \cup {EE!Idle}] : f = work
    BY DEF EventInv, EventTypes
  <2>2. work' = [f EXCEPT ![h] = w]
    BY <1>1, <1>2, <2>1 DEF w
  <2> QED
    BY <1>3, <2>1, <2>2
<1>5. EventTypes
  BY DEF EventInv
<1>6. Aside({h}, j)
  BY <1>2, <1>3, <1>4, <1>5 DEF Aside, EventTypes
<1>7. ASSUME NEW i \in Job, work'[h] = i
      PROVE  Fits(i)' /\ Open(i)'
  <2>1. i.n = j.n /\ i.stage = "read" /\ i.verdict = j.verdict /\ i.row = o
    BY <1>3, <1>4, <1>7
  <2> QED
    BY <1>1, <1>2, <2>1 DEF Fits, Open, Convicted, Known, Has
<1>8. Honest(j)
  <2>1. \A k \in 1..Len(audit') : audit'[k].n # j.n
    BY <1>1, <1>2 DEF Open
  <2> QED
    BY <2>1, <1>2, <1>5 DEF Honest, EventInv, EventTypes, Known, Has
<1> QED
  BY <1>1, <1>6, <1>7, <1>8, ThreadKeeps

LEMMA MergedIs ==
    ASSUME NEW old \in EE!Row \cup {None}, NEW m \in Told, NEW v \in EE!Verdict \cup {None}
    PROVE  /\ EE!Merged(old, m, v) \in EE!Row
           /\ EE!Merged(old, m, v).verdict # None <=> v # None \/ Has(old)
<1>1. m.ip \in Own /\ m.seen \in Own \cup {Gateway} /\ m.user \in User \cup {None}
  BY DEF Told
<1>2. old # None => old.user \in User \cup {None} /\ old.verdict \in EE!Verdict \cup {None}
  BY DEF EE!Row
<1> QED
  BY <1>1, <1>2 DEF EE!Merged, EE!Row, Has

\* What request j, or a call for it that was given up, writes of its endpoint: a
\* verdict, if it has one or what it read has.
LEMMA MergedRowIs ==
    ASSUME EventTypes, NEW j \in Job, Fits(j), j.stage = "read", j.n \in 1..Len(events),
           row' = [row EXCEPT ![events[j.n].endpoint] = EE!Merged(j.row, events[j.n], j.verdict)]
    PROVE  /\ row' \in [Endpoint -> EE!Row \cup {None}]
           /\ \A f \in Endpoint \ {events[j.n].endpoint} : row'[f] = row[f]
           /\ \A f \in Endpoint \ overtaken :
                 (Known(f) => Known(f)') /\ (j.verdict = None => (Known(f)' => Known(f)))
           /\ \A e : e = events[j.n].endpoint /\ j.verdict # None => Known(e)'
<1>1. events[j.n] \in Told /\ events[j.n].endpoint \in Endpoint
  BY DEF EventTypes, Told
<1>2. PICK e \in Endpoint, m \in EE!Row :
          /\ e = events[j.n].endpoint /\ m = EE!Merged(j.row, events[j.n], j.verdict)
          /\ m.verdict # None <=> j.verdict # None \/ Has(j.row)
  BY <1>1, MergedIs DEF Job
<1>3. /\ row' \in [Endpoint -> EE!Row \cup {None}] /\ row'[e] = m
      /\ \A f \in Endpoint \ {e} : row'[f] = row[f]
  BY <1>2 DEF EventTypes
<1>4. Known(e)' <=> j.verdict # None \/ Has(j.row)
  BY <1>2, <1>3, EndpointAssumption DEF Known, Has
<1>5. e \notin overtaken => (j.verdict = None => (Has(j.row) <=> Known(e)))
  BY <1>2 DEF Fits
<1>6. \A f \in Endpoint \ {e} : Known(f)' <=> Known(f)
  BY <1>3 DEF Known, Has
<1> QED
  BY <1>2, <1>3, <1>4, <1>5, <1>6

LEMMA WriteRowKeeps ==
    ASSUME EventInv, NEW h \in Request, EE!WriteRow(h)
    PROVE  EventInv'
<1>1. PICK j \in Job :
          /\ work[h] = j /\ Fits(j) /\ Open(j) /\ j.n \in 1..Len(events)
          /\ EE!Ev(h) = events[j.n]
          /\ events[j.n] \in Told /\ events[j.n].endpoint \in Endpoint
  BY RequestsAre DEF EE!WriteRow
<1>2. /\ j.stage = "read"
      /\ row' = [row EXCEPT ![events[j.n].endpoint] = EE!Merged(j.row, events[j.n], j.verdict)]
      /\ work' = [work EXCEPT ![h].stage = "written"]
      /\ UNCHANGED <<events, late, cache, checked, timeline, incidents, audit, overtaken>>
  BY <1>1 DEF EE!WriteRow, EE!Goes
<1> DEFINE w == [j EXCEPT !.stage = "written"]
<1>3. w \in Job /\ w.n = j.n /\ w.stage = "written" /\ w.verdict = j.verdict
  BY <1>1, <1>2 DEF Job, EE!Stage
<1> HIDE DEF w
<1>4. PICK p \in [Request -> Job \cup {EE!Idle}] :
          p = work' /\ p[h] = w /\ \A g \in Request \ {h} : p[g] = work[g]
  <2>1. PICK f \in [Request -> Job \cup {EE!Idle}] : f = work
    BY DEF EventInv, EventTypes
  <2>2. work' = [f EXCEPT ![h] = w]
    BY <1>1, <1>2, <2>1 DEF w
  <2> QED
    BY <1>3, <2>1, <2>2
<1>5. EventTypes
  BY DEF EventInv
<1>6. /\ row' \in [Endpoint -> EE!Row \cup {None}]
      /\ \A f \in Endpoint \ {events[j.n].endpoint} : row'[f] = row[f]
      /\ \A f \in Endpoint \ overtaken :
            (Known(f) => Known(f)') /\ (j.verdict = None => (Known(f)' => Known(f)))
      /\ \A e : e = events[j.n].endpoint /\ j.verdict # None => Known(e)'
  BY <1>1, <1>2, <1>5, MergedRowIs
<1>7. Aside({h}, j)
  BY <1>2, <1>3, <1>4, <1>5, <1>6 DEF Aside, EventTypes
<1>8. ASSUME NEW i \in Job, work'[h] = i
      PROVE  Fits(i)' /\ Open(i)'
  <2>1. i.n = j.n /\ i.stage = "written" /\ i.verdict = j.verdict
    BY <1>3, <1>4, <1>8
  <2>2. PICK e : e = events[j.n].endpoint
    OBVIOUS
  <2>3. (j.verdict # None => Known(e)') /\ e = events'[i.n].endpoint
    BY <1>2, <1>6, <2>1, <2>2
  <2>4. Convicted(j.n) => Convicted(j.n)'
    BY <1>2 DEF Convicted
  <2> QED
    BY <1>1, <1>2, <2>1, <2>3, <2>4 DEF Fits, Open, Known
<1>9. Honest(j)
  <2>1. \A k \in 1..Len(audit') : audit'[k].n # j.n
    BY <1>1, <1>2 DEF Open
  <2> QED
    BY <2>1, <1>2, <1>5, <1>6 DEF Honest, EventInv, EventTypes
<1> QED
  BY <1>1, <1>7, <1>8, <1>9, ThreadKeeps

LEMMA AddItemKeeps ==
    ASSUME EventInv, NEW h \in Request, EE!AddItem(h)
    PROVE  EventInv'
<1>1. PICK j \in Job :
          /\ work[h] = j /\ Fits(j) /\ Open(j) /\ j.n \in 1..Len(events)
          /\ EE!Ev(h) = events[j.n]
          /\ events[j.n] \in Told /\ events[j.n].endpoint \in Endpoint
  BY RequestsAre DEF EE!AddItem
<1>2. /\ j.stage = "written"
      /\ timeline' = timeline \cup {[of |-> j.n, verdict |-> j.verdict]}
      /\ work' = [work EXCEPT ![h].stage = "noted"]
      /\ UNCHANGED <<events, late, cache, checked, row, incidents, audit, overtaken>>
  BY <1>1 DEF EE!AddItem, EE!Goes
<1> DEFINE w == [j EXCEPT !.stage = "noted"]
<1>3. w \in Job /\ w.n = j.n /\ w.stage = "noted" /\ w.verdict = j.verdict
  BY <1>1, <1>2 DEF Job, EE!Stage
<1> HIDE DEF w
<1>4. PICK p \in [Request -> Job \cup {EE!Idle}] :
          p = work' /\ p[h] = w /\ \A g \in Request \ {h} : p[g] = work[g]
  <2>1. PICK f \in [Request -> Job \cup {EE!Idle}] : f = work
    BY DEF EventInv, EventTypes
  <2>2. work' = [f EXCEPT ![h] = w]
    BY <1>1, <1>2, <2>1 DEF w
  <2> QED
    BY <1>3, <2>1, <2>2
<1>5. EventTypes
  BY DEF EventInv
<1>9. \A x \in timeline' : x \notin timeline => x.of = j.n /\ x.verdict = j.verdict
  BY <1>2
<1>6. Aside({h}, j)
  <2>1. \A x \in timeline' : x \in timeline \/ (x.of = j.n /\ x.verdict = j.verdict /\ j.stage # "new")
    BY <1>2, <1>9
  <2> QED
    BY <2>1, <1>2, <1>3, <1>4, <1>5 DEF Aside, EventTypes
<1>7. ASSUME NEW i \in Job, work'[h] = i
      PROVE  Fits(i)' /\ Open(i)'
  <2>1. i.n = j.n /\ i.stage = "noted" /\ i.verdict = j.verdict
    BY <1>3, <1>4, <1>7
  <2> QED
    BY <1>1, <1>2, <2>1 DEF Fits, Open, Convicted, Known, Has
<1>8. events[j.n].endpoint \notin overtaken /\ j.verdict # None => Known(events[j.n].endpoint)'
  BY <1>1, <1>2 DEF Fits, Known, Has
<1>10. Honest(j)
  <2>1. \A k \in 1..Len(audit') : audit'[k].n # j.n
    BY <1>1, <1>2 DEF Open
  <2> QED
    BY <2>1, <1>2, <1>5, <1>8, <1>9 DEF Honest, EventInv, EventTypes, Known, Has
<1> QED
  BY <1>1, <1>6, <1>7, <1>10, ThreadKeeps

LEMMA CallFailsKeeps ==
    ASSUME EventInv, NEW h \in Request, EE!CallFails(h)
    PROVE  EventInv'
<1>1. PICK j \in Job :
          /\ work[h] = j /\ Fits(j) /\ Open(j) /\ j.n \in 1..Len(events)
          /\ EE!Ev(h) = events[j.n]
          /\ events[j.n] \in Told /\ events[j.n].endpoint \in Endpoint
  BY RequestsAre DEF EE!CallFails
<1>2. /\ j.stage \in {"judged", "read", "written", "noted"}
      /\ \A c \in late' : c \in late \/ (c = j /\ j.stage # "noted")
      /\ IF j.tries < Attempts
         THEN work' = [work EXCEPT ![h] = [j EXCEPT !.stage = "judged", !.tries = j.tries + 1, !.row = None]]
         ELSE work' = [work EXCEPT ![h] = EE!Idle]
      /\ UNCHANGED <<events, cache, checked, row, timeline, incidents, audit, overtaken>>
  <2>1. PICK f \in [Request -> Job \cup {EE!Idle}] : f = work
    BY DEF EventInv, EventTypes
  <2>2. /\ j.stage \in {"judged", "read", "written", "noted"}
        /\ \A c \in late' : c \in late \/ (c = j /\ j.stage # "noted")
        /\ UNCHANGED <<events, cache, checked, row, timeline, incidents, audit, overtaken>>
    BY <1>1 DEF EE!CallFails
  <2>3. work' = [work EXCEPT ![h] =
                    IF work[h].tries < Attempts
                    THEN [work[h] EXCEPT !.stage = "judged", !.tries = work[h].tries + 1, !.row = None]
                    ELSE EE!Idle]
    BY DEF EE!CallFails
  <2>4. CASE j.tries < Attempts
    BY <1>1, <2>2, <2>3, <2>4
  <2>5. CASE ~(j.tries < Attempts)
    BY <1>1, <2>1, <2>2, <2>3, <2>5
  <2> QED
    BY <2>4, <2>5
<1> DEFINE w == IF j.tries < Attempts
                THEN [j EXCEPT !.stage = "judged", !.tries = j.tries + 1, !.row = None] ELSE EE!Idle
<1>3. /\ w \in Job \cup {EE!Idle}
      /\ w # EE!Idle => w.n = j.n /\ w.stage = "judged" /\ w.verdict = j.verdict
  <2>1. CASE j.tries < Attempts
    <3>1. j.tries + 1 \in 1..Attempts
      BY <2>1, EndpointAssumption DEF Job
    <3>2. PICK k \in 1..Attempts : k = j.tries + 1
      BY <3>1
    <3>3. w = [j EXCEPT !.stage = "judged", !.tries = k, !.row = None]
      BY <2>1, <3>2
    <3> QED
      BY <3>3 DEF Job, EE!Stage
  <2>2. CASE ~(j.tries < Attempts)
    BY <2>2
  <2> QED
    BY <2>1, <2>2
<1> HIDE DEF w
<1>4. PICK p \in [Request -> Job \cup {EE!Idle}] :
          p = work' /\ p[h] = w /\ \A g \in Request \ {h} : p[g] = work[g]
  <2>1. PICK f \in [Request -> Job \cup {EE!Idle}] : f = work
    BY DEF EventInv, EventTypes
  <2>2. work' = [f EXCEPT ![h] = w]
    BY <1>1, <1>2, <2>1 DEF w
  <2> QED
    BY <1>3, <2>1, <2>2
<1>5. EventTypes
  BY DEF EventInv
<1>6. Fits(j)' /\ (j.stage # "noted" => GivenUp(j)')
  BY <1>1, <1>2 DEF Fits, Open, GivenUp, Convicted, Known, Has
<1>7. Aside({h}, j)
  BY <1>2, <1>3, <1>4, <1>5, <1>6 DEF Aside, EventTypes
<1>8. ASSUME NEW i \in Job, work'[h] = i
      PROVE  Fits(i)' /\ Open(i)'
  <2>1. i.n = j.n /\ i.stage = "judged" /\ i.verdict = j.verdict
    BY <1>3, <1>4, <1>8, IdleIsNoJob
  <2> QED
    BY <1>1, <1>2, <2>1 DEF Fits, Open, Convicted
<1>9. Honest(j)
  <2>1. \A k \in 1..Len(audit') : audit'[k].n # j.n
    BY <1>1, <1>2 DEF Open
  <2> QED
    BY <2>1, <1>2, <1>5 DEF Honest, EventInv, EventTypes, Known, Has
<1> QED
  BY <1>1, <1>7, <1>8, <1>9, ThreadKeeps

LEMMA ForwardKeeps ==
    ASSUME EventInv, NEW h \in Request, EE!Forward(h)
    PROVE  EventInv'
<1>1. PICK j \in Job :
          /\ work[h] = j /\ Fits(j) /\ Open(j) /\ j.n \in 1..Len(events)
          /\ EE!Ev(h) = events[j.n]
          /\ events[j.n] \in Told /\ events[j.n].endpoint \in Endpoint
  BY RequestsAre DEF EE!Forward
<1>2. PICK o \in {"skipped", "created", "failed"} :
        /\ j.stage = "noted"
        /\ work' = [work EXCEPT ![h].stage = "forwarded", ![h].outcome = o]
        /\ UNCHANGED <<events, cache, checked, row, timeline, audit, overtaken>>
        /\ incidents \subseteq incidents'
        /\ IF EE!Alarming(h) \/ events[j.n].type \in EE!Auth
           THEN /\ \A x \in incidents' : x \notin incidents => x.of = j.n
                /\ o # "failed" => \E x \in incidents' : x.of = j.n
                /\ late' \subseteq late \cup {j}
           ELSE incidents' = incidents /\ late' = late
  <2>1. DEFINE new == EE!Incident(j.n)
  <2>2. new.of = j.n
    BY DEF EE!Incident
  <2> HIDE DEF new
  <2>3. /\ j.stage = "noted"
        /\ UNCHANGED <<events, cache, checked, row, timeline, audit, overtaken>>
    BY <1>1 DEF EE!Forward
  <2>4. IF ~(EE!Alarming(h) \/ events[j.n].type \in EE!Auth)
        THEN /\ work' = [work EXCEPT ![h].stage = "forwarded", ![h].outcome = "skipped"]
             /\ incidents' = incidents /\ late' = late
        ELSE \/ /\ work' = [work EXCEPT ![h].stage = "forwarded", ![h].outcome = "created"]
                /\ incidents' = incidents \cup {new} /\ late' = late
             \/ /\ work' = [work EXCEPT ![h].stage = "forwarded", ![h].outcome = "failed"]
                /\ incidents' = incidents /\ late' \in {late, late \cup {j}}
    BY <1>1 DEF EE!Forward, new
  <2>5. CASE ~(EE!Alarming(h) \/ events[j.n].type \in EE!Auth)
    BY <2>3, <2>4, <2>5
  <2>6. CASE EE!Alarming(h) \/ events[j.n].type \in EE!Auth
    <3>1. CASE /\ work' = [work EXCEPT ![h].stage = "forwarded", ![h].outcome = "created"]
               /\ incidents' = incidents \cup {new} /\ late' = late
      BY <2>2, <2>3, <2>6, <3>1
    <3>2. CASE /\ work' = [work EXCEPT ![h].stage = "forwarded", ![h].outcome = "failed"]
               /\ incidents' = incidents /\ late' \in {late, late \cup {j}}
      <4>1. late' \subseteq late \cup {j}
        BY <3>2
      <4> QED
        BY <2>3, <2>6, <3>2, <4>1
    <3> QED
      BY <2>4, <2>6, <3>1, <3>2
  <2> QED
    BY <2>5, <2>6
<1>3. Alarm(j.n, j.verdict) <=> EE!Alarming(h) \/ events[j.n].type \in EE!Auth
  <2>1. EE!Alarming(h) <=> \/ events[j.n].type = "connection.snapshot" /\ events[j.n].suspicious
                           \/ events[j.n].type \in Lookup /\ j.verdict = "malicious"
    BY <1>1 DEF EE!Alarming, Lookup
  <2>2. events[j.n].suspicious => events[j.n].type = "connection.snapshot"
    BY <1>1 DEF Told
  <2>3. j.verdict = "malicious" => events[j.n].type \in Lookup
    BY <1>1, EndpointAssumption DEF Fits, EE!Verdict
  <2> QED
    BY <2>1, <2>2, <2>3 DEF Alarm
<1>4. events[j.n].type \in Lookup => ~events[j.n].suspicious /\ events[j.n].type \notin EE!Auth
  BY <1>1 DEF Told, Lookup, EE!Auth
<1> DEFINE w == [j EXCEPT !.stage = "forwarded", !.outcome = o]
<1>5. /\ w \in Job /\ w.n = j.n /\ w.stage = "forwarded" /\ w.outcome = o
      /\ w.verdict = j.verdict
  BY <1>1, <1>2 DEF Job, EE!Stage
<1> HIDE DEF w
<1>6. PICK p \in [Request -> Job \cup {EE!Idle}] :
          p = work' /\ p[h] = w /\ \A g \in Request \ {h} : p[g] = work[g]
  <2>1. PICK f \in [Request -> Job \cup {EE!Idle}] : f = work
    BY DEF EventInv, EventTypes
  <2>2. work' = [f EXCEPT ![h] = w]
    BY <1>1, <1>2, <2>1 DEF w
  <2> QED
    BY <1>5, <2>1, <2>2
<1>7. EventTypes
  BY DEF EventInv
<1>8. \A c \in late' : c \in late \/ (c = j /\ Fits(j)' /\ GivenUp(j)')
  <2>1. Fits(j)'
    BY <1>1, <1>2 DEF Fits, Convicted, Known, Has
  <2>2. Alarm(j.n, j.verdict) => GivenUp(j)'
    BY <1>1, <1>2 DEF Open, GivenUp, Alarm
  <2>3. late' \subseteq late \/ (late' \subseteq late \cup {j} /\ Alarm(j.n, j.verdict))
    BY <1>2, <1>3
  <2> QED
    BY <2>1, <2>2, <2>3
<1>9. Aside({h}, j)
  BY <1>2, <1>5, <1>6, <1>7, <1>8 DEF Aside, EventTypes
<1>10. ASSUME NEW i \in Job, work'[h] = i
      PROVE  Fits(i)' /\ Open(i)'
  <2>1. i.n = j.n /\ i.stage = "forwarded" /\ i.verdict = j.verdict /\ i.outcome = o
    BY <1>5, <1>6, <1>10
  <2>2. o # "failed" /\ Alarm(i.n, i.verdict)' => Filed(i.n)'
    BY <1>2, <1>3, <2>1 DEF Filed, Alarm
  <2>3. Convicted(i.n)' <=> Convicted(j.n)
    BY <1>2, <2>1 DEF Convicted
  <2> QED
    BY <1>1, <1>2, <2>1, <2>2, <2>3 DEF Fits, Open, Known, Has
<1>11. Honest(j)
  <2>1. \A k \in 1..Len(audit') : audit'[k].n # j.n
    BY <1>1, <1>2 DEF Open
  <2>2. \A x \in incidents' : x \notin incidents =>
            x.of = j.n /\ (events[j.n].type \in Lookup => Convicted(j.n))
    BY <1>1, <1>2, <1>3, <1>4 DEF Fits, Alarm
  <2> QED
    BY <2>1, <2>2, <1>2, <1>7 DEF Honest, EventInv, EventTypes, Known, Has
<1> QED
  BY <1>1, <1>9, <1>10, <1>11, ThreadKeeps

LEMMA AuditAndAnswerKeeps ==
    ASSUME EventInv, NEW h \in Request, EE!AuditAndAnswer(h)
    PROVE  EventInv'
<1>1. PICK j \in Job :
          /\ work[h] = j /\ Fits(j) /\ Open(j) /\ j.n \in 1..Len(events)
          /\ EE!Ev(h) = events[j.n]
          /\ events[j.n] \in Told /\ events[j.n].endpoint \in Endpoint
  BY RequestsAre DEF EE!AuditAndAnswer
<1>2. /\ j.stage = "forwarded"
      /\ \/ audit' = Append(audit, [n |-> j.n, outcome |-> EE!Outcome(j.outcome)])
         \/ UNCHANGED audit
      /\ work' = [work EXCEPT ![h] = EE!Idle]
      /\ UNCHANGED <<events, late, cache, checked, row, timeline, incidents, overtaken>>
  BY <1>1 DEF EE!AuditAndAnswer
<1>3. work' \in [Request -> Job \cup {EE!Idle}] /\ work'[h] = EE!Idle
      /\ \A g \in Request \ {h} : work'[g] = work[g]
  <2>1. PICK f \in [Request -> Job \cup {EE!Idle}] : f = work
    BY DEF EventInv, EventTypes
  <2> QED
    BY <1>2, <2>1
<1>4. EventTypes
  BY DEF EventInv
<1>5. /\ audit' \in Seq([n : Nat, outcome : {"success", "partial"}])
      /\ \A k \in 1..Len(audit') :
            \/ k \in 1..Len(audit) /\ audit'[k] = audit[k]
            \/ audit'[k].n = j.n /\ (audit'[k].outcome = "success" => j.outcome # "failed")
  <2>1. CASE UNCHANGED audit
    BY <1>4, <2>1 DEF EventTypes
  <2>2. CASE audit' = Append(audit, [n |-> j.n, outcome |-> EE!Outcome(j.outcome)])
    <3> DEFINE a == [n |-> j.n, outcome |-> EE!Outcome(j.outcome)]
    <3>1. /\ a \in [n : Nat, outcome : {"success", "partial"}]
          /\ a.n = j.n /\ (a.outcome = "success" => j.outcome # "failed")
      <4>1. EE!Outcome(j.outcome) = IF j.outcome = "failed" THEN "partial" ELSE "success"
        BY DEF EE!Outcome
      <4>2. PICK q \in Nat, o \in {"success", "partial"} : q = j.n /\ o = EE!Outcome(j.outcome)
        BY <4>1 DEF Job
      <4> QED
        BY <4>1, <4>2
    <3> HIDE DEF a
    <3>2. audit' = Append(audit, a) /\ audit \in Seq([n : Nat, outcome : {"success", "partial"}])
      BY <1>4, <2>2 DEF EventTypes, a
    <3> QED
      BY <3>1, <3>2
  <2> QED
    BY <1>2, <2>1, <2>2
<1>6. Aside({h}, j)
  BY <1>2, <1>3, <1>4, <1>5 DEF Aside, EventTypes
<1>7. \A i \in Job : work'[h] = i => Fits(i)' /\ Open(i)'
  BY <1>3, IdleIsNoJob
<1>8. Honest(j)
  <2>1. j.outcome # "failed" => Settled(j.n) /\ (Alarm(j.n, j.verdict) => Filed(j.n))
    BY <1>1, <1>2, EndpointAssumption DEF Fits, Open, Settled, Alarm, EE!Verdict
  <2>2. \A k \in 1..Len(audit') :
            audit'[k].n = j.n /\ audit'[k].outcome = "success" =>
                Settled(j.n) /\ (Alarm(j.n, j.verdict) => Filed(j.n))
    BY <1>1, <1>5, <2>1 DEF Open
  <2>3. (Settled(j.n) => Settled(j.n)') /\ (Filed(j.n) => Filed(j.n)')
    BY <1>2, SettledStays DEF Filed
  <2> QED
    BY <2>2, <2>3, <1>2, <1>4 DEF Honest, EventInv, EventTypes, Known, Has
<1> QED
  BY <1>1, <1>6, <1>7, <1>8, ThreadKeeps

LEMMA ServeLateKeeps ==
    ASSUME EventInv, NEW j \in late, EE!ServeLate(j)
    PROVE  EventInv'
<1>1. /\ EventTypes /\ j \in Job /\ Fits(j) /\ GivenUp(j) /\ j.n \in 1..Len(events)
      /\ j.stage # "new"
  BY DEF EventInv, EventTypes, GivenUp
<1>2. events[j.n] \in Told /\ events[j.n].endpoint \in Endpoint
  BY <1>1 DEF EventTypes, Told
<1>3. UNCHANGED <<events, work, cache, checked, audit, overtaken>>
  BY DEF EE!ServeLate
<1>4. \/ /\ j.stage = "judged" /\ UNCHANGED <<row, timeline, incidents>>
         /\ late' = (late \ {j}) \cup
                    {[j EXCEPT !.stage = "read", !.row = row[events[j.n].endpoint]]}
      \/ /\ j.stage = "read" /\ UNCHANGED <<timeline, incidents>>
         /\ late' = (late \ {j}) \cup {[j EXCEPT !.stage = "written", !.row = j.row]}
         /\ row' = [row EXCEPT ![events[j.n].endpoint] = EE!Merged(j.row, events[j.n], j.verdict)]
      \/ /\ j.stage = "written" /\ UNCHANGED <<row, incidents>>
         /\ late' = late \ {j} /\ timeline' = timeline \cup {[of |-> j.n, verdict |-> j.verdict]}
      \/ /\ j.stage = "noted" /\ UNCHANGED <<row, timeline>>
         /\ late' = late \ {j} /\ incidents' = incidents \cup {EE!Incident(j.n)}
  BY DEF EE!ServeLate
<1>5. /\ audit' = audit /\ audit \in Seq([n : Nat, outcome : {"success", "partial"}])
      /\ work' \in [Request -> Job \cup {EE!Idle}]
  BY <1>1, <1>3 DEF EventTypes
<1>6. \A k \in 1..Len(audit) :
          audit[k].n = j.n /\ audit[k].outcome = "success" =>
              Settled(j.n) /\ (Alarm(j.n, j.verdict) => Filed(j.n))
  BY <1>1 DEF EventInv, GivenUp
<1>7. CASE j.stage = "judged"
  <2>1. PICK d : d = [j EXCEPT !.stage = "read", !.row = row[events[j.n].endpoint]]
    OBVIOUS
  <2>2. /\ d \in Job /\ d.n = j.n /\ d.verdict = j.verdict /\ d.stage = "read"
        /\ d.row = row[events[j.n].endpoint]
    BY <1>1, <1>2, <2>1 DEF EventTypes, Job, EE!Stage
  <2>3. UNCHANGED <<row, timeline, incidents>> /\ late' = (late \ {j}) \cup {d}
    BY <1>4, <1>7, <2>1
  <2>4. PICK e : e = events[j.n].endpoint
    OBVIOUS
  <2>5. e = events'[d.n].endpoint /\ d.row = row[e] /\ row' = row
    BY <1>3, <2>2, <2>3, <2>4
  <2>6. /\ Has(d.row) <=> Known(e)
        /\ Known(e)' <=> Known(e)
        /\ Convicted(j.n) => Convicted(j.n)'
    BY <1>3, <2>5 DEF Known, Has, Convicted
  <2>7. UNCHANGED row /\ UNCHANGED timeline /\ UNCHANGED incidents /\ UNCHANGED checked
    BY <1>3, <2>3
  <2>8. Fits(d)'
    BY <1>1, <1>3, <1>7, <2>2, <2>4, <2>5, <2>6, <2>7 DEF Fits
  <2>9. GivenUp(d)'
    BY <1>1, <1>3, <2>2, <2>3 DEF GivenUp, Alarm, Filed
  <2>10. \A c \in late' : c \in late \/ c = d
    BY <2>3
  <2>11. Aside({}, j)
    BY <1>1, <1>3, <1>5, <2>2, <2>8, <2>9, <2>7, <2>10 DEF Aside
  <2>12. Honest(j)
    BY <1>1, <1>3, <1>6, <2>3 DEF Honest, EventInv, EventTypes, Known, Has, Settled, Filed, Alarm
  <2> QED
    BY <1>1, <2>11, <2>12, CopyKeeps
<1>8. CASE j.stage = "read"
  <2> DEFINE d == [j EXCEPT !.stage = "written", !.row = j.row]
  <2>1. d \in Job /\ d.n = j.n /\ d.verdict = j.verdict /\ d.stage = "written"
    BY <1>1 DEF Job, EE!Stage
  <2>2. /\ UNCHANGED <<timeline, incidents>> /\ late' = (late \ {j}) \cup {d}
        /\ row' = [row EXCEPT ![events[j.n].endpoint] = EE!Merged(j.row, events[j.n], j.verdict)]
    BY <1>4, <1>8
  <2> HIDE DEF d
  <2>3. /\ row' \in [Endpoint -> EE!Row \cup {None}]
        /\ \A f \in Endpoint \ {events[j.n].endpoint} : row'[f] = row[f]
        /\ \A f \in Endpoint \ overtaken :
              (Known(f) => Known(f)') /\ (j.verdict = None => (Known(f)' => Known(f)))
        /\ \A e : e = events[j.n].endpoint /\ j.verdict # None => Known(e)'
    BY <1>1, <1>8, <2>2, MergedRowIs
  <2>4. PICK e : e = events[j.n].endpoint
    OBVIOUS
  <2>5. (j.verdict # None => Known(e)') /\ e = events'[d.n].endpoint
    BY <1>3, <2>1, <2>3, <2>4
  <2>6. Convicted(j.n) => Convicted(j.n)'
    BY <1>3 DEF Convicted
  <2>7. Fits(d)'
    BY <1>1, <1>3, <1>8, <2>1, <2>2, <2>5, <2>6 DEF Fits, Known
  <2>8. GivenUp(d)'
    BY <1>1, <1>3, <2>1, <2>2 DEF GivenUp, Alarm, Filed
  <2>9. Aside({}, j)
    BY <1>1, <1>3, <1>5, <2>1, <2>2, <2>3, <2>7, <2>8 DEF Aside
  <2>10. Settled(j.n)' <=> Settled(j.n)
    BY <1>3, <2>2 DEF Settled, Filed, Alarm
  <2>11. Filed(j.n)' <=> Filed(j.n)
    BY <2>2 DEF Filed
  <2>12. Honest(j)
    BY <1>1, <1>3, <1>6, <2>2, <2>3, <2>10, <2>11 DEF Honest, EventInv, EventTypes
  <2> QED
    BY <1>1, <2>9, <2>12, CopyKeeps
<1>9. CASE j.stage = "written"
  <2>1. /\ UNCHANGED <<row, incidents>> /\ late' \subseteq late
        /\ \A x \in timeline' : x \in timeline \/ (x.of = j.n /\ x.verdict = j.verdict)
    BY <1>4, <1>9
  <2>2. Aside({}, j)
    BY <1>1, <1>3, <1>5, <2>1 DEF Aside
  <2>3. Settled(j.n) /\ (Alarm(j.n, j.verdict) => Filed(j.n)) => Settled(j.n)'
    BY <1>3, <2>1 DEF Settled, Filed, Alarm
  <2>4. Filed(j.n)' <=> Filed(j.n)
    BY <2>1 DEF Filed
  <2>5. events[j.n].endpoint \notin overtaken /\ j.verdict # None => Known(events[j.n].endpoint)'
    BY <1>1, <1>3, <1>9, <2>1 DEF Fits, Known, Has
  <2>6. Honest(j)
    BY <1>1, <1>3, <1>6, <2>1, <2>3, <2>4, <2>5 DEF Honest, EventInv, EventTypes, Known, Has
  <2> QED
    BY <1>1, <2>2, <2>6, CopyKeeps
<1>10. CASE j.stage = "noted"
  <2>1. /\ UNCHANGED <<row, timeline>> /\ late' \subseteq late /\ incidents \subseteq incidents'
        /\ \A x \in incidents' : x \in incidents \/ x.of = j.n
    BY <1>4, <1>10 DEF EE!Incident
  <2>2. Aside({}, j)
    BY <1>1, <1>3, <1>5, <2>1 DEF Aside
  <2>3. Settled(j.n) => Settled(j.n)'
    BY <1>3, <2>1, SettledStays
  <2>4. Filed(j.n) => Filed(j.n)'
    BY <2>1 DEF Filed
  <2>5. events[j.n].type \in Lookup => Convicted(j.n)
    <3>1. events[j.n].type \in Lookup => ~events[j.n].suspicious /\ events[j.n].type \notin EE!Auth
      BY <1>2 DEF Told, Lookup, EE!Auth
    <3> QED
      BY <1>1, <1>10, <3>1 DEF GivenUp, Alarm, Fits
  <2>6. Honest(j)
    BY <1>1, <1>3, <1>6, <2>1, <2>3, <2>4, <2>5 DEF Honest, EventInv, EventTypes, Known, Has
  <2> QED
    BY <1>1, <2>2, <2>6, CopyKeeps
<1> QED
  BY <1>1, <1>7, <1>8, <1>9, <1>10 DEF GivenUp

\* What happens outside the requests takes nothing but timeline items, and the
\* rows of endpoints that are deleted.
LEMMA OthersKeep ==
    ASSUME EventInv, UNCHANGED <<events, work, late, checked, audit>>,
           cache' \in [EE!Indicator -> EE!Verdict \cup {None}],
           \A i \in EE!Indicator : cache'[i] = "malicious" => i \in Malicious,
           row' \in [Endpoint -> EE!Row \cup {None}],
           overtaken \subseteq overtaken', timeline' \subseteq timeline,
           \A e \in Endpoint \ overtaken' : row'[e] = row[e],
           incidents \subseteq incidents', \A x \in incidents' : x \in incidents \/ x.of = None
    PROVE  EventInv'
<1>1. EventTypes
  BY DEF EventInv
<1>2. \A n \in 1..Len(events) : events[n] \in Told /\ events[n].endpoint \in Endpoint
  BY <1>1 DEF EventTypes, Told
<1>3. EventTypes'
  BY <1>1 DEF EventTypes
<1>4. ASSUME NEW j \in Job, j.n \in 1..Len(events), Fits(j)
      PROVE  Fits(j)'
  <2>1. events[j.n].endpoint \notin overtaken' =>
            row'[events[j.n].endpoint] = row[events[j.n].endpoint]
    BY <1>2, <1>4
  <2>2. events[j.n].endpoint \notin overtaken' =>
            (Known(events[j.n].endpoint)' <=> Known(events[j.n].endpoint))
    BY <2>1 DEF Known, Has
  <2>3. events'[j.n] = events[j.n] /\ checked \subseteq checked'
    OBVIOUS
  <2> QED
    BY <1>4, <2>2, <2>3, FitsStays
<1>5. ASSUME NEW h \in Request, NEW j \in Job, work'[h] = j
      PROVE  /\ Fits(j)' /\ Open(j)'
             /\ \A c \in late' : Beside(j, c)'
  <2>1. /\ work[h] = j /\ Fits(j) /\ Open(j) /\ j.n \in 1..Len(events)
        /\ \A c \in late : Beside(j, c)
    BY <1>1, <1>5, IdleIsNoJob DEF EventInv, EventTypes
  <2>2. Open(j)'
    BY <2>1, OpenStays
  <2>3. \A c \in late' : Beside(j, c)'
    BY <2>1 DEF Beside
  <2> QED
    BY <1>4, <2>1, <2>2, <2>3
<1>6. ASSUME NEW c \in late'
       PROVE  /\ Fits(c)' /\ GivenUp(c)'
              /\ \A b \in late' : Beside(b, c)'
  <2>1. /\ c \in Job /\ Fits(c) /\ GivenUp(c) /\ c.n \in 1..Len(events)
        /\ \A b \in late : Beside(b, c)
    BY <1>1, <1>6 DEF EventInv, EventTypes
  <2>2. GivenUp(c)'
    BY <2>1, GivenUpStays
  <2>3. \A b \in late' : Beside(b, c)'
    BY <2>1 DEF Beside
  <2> QED
    BY <1>4, <2>1, <2>2, <2>3
<1>7. \A f, g \in Request : f # g => Apart(f, g)'
  BY DEF EventInv, Apart
<1>8. \A x \in incidents' : x.of # None /\ events[x.of].type \in Lookup => Convicted(x.of)'
  BY DEF EventInv, Convicted
<1>9. \A k \in 1..Len(audit), n \in 1..Len(events) :
          audit[k].n = n /\ audit[k].outcome = "success" => Settled(n)'
  BY SettledStays DEF EventInv
<1>10. \A x \in timeline', e \in Endpoint :
          x.verdict # None /\ events[x.of].endpoint = e /\ e \notin overtaken' => Known(e)'
  BY DEF EventInv, Known, Has
<1> QED
  BY <1>3, <1>7, <1>8, <1>9, <1>10, <1>5, <1>6 DEF EventInv

LEMMA ExpireKeeps ==
    ASSUME EventInv, NEW i \in EE!Indicator, EE!Expire(i)
    PROVE  EventInv'
<1>1. /\ cache' = [cache EXCEPT ![i] = None]
      /\ UNCHANGED <<events, work, late, checked, row, timeline, incidents, audit, overtaken>>
  BY DEF EE!Expire
<1>2. EventTypes /\ \A k \in EE!Indicator : cache[k] = "malicious" => k \in Malicious
  BY DEF EventInv
<1>3. None # "malicious"
  BY EndpointAssumption DEF EE!Verdict
<1>4. /\ cache' \in [EE!Indicator -> EE!Verdict \cup {None}]
      /\ \A k \in EE!Indicator : cache'[k] = "malicious" => k \in Malicious
  BY <1>1, <1>2, <1>3 DEF EventTypes
<1>5. row' \in [Endpoint -> EE!Row \cup {None}]
  BY <1>1, <1>2 DEF EventTypes
<1> QED
  BY <1>1, <1>4, <1>5, OthersKeep

LEMMA DeleteEndpointKeeps ==
    ASSUME EventInv, NEW e \in Endpoint, EE!DeleteEndpoint(e)
    PROVE  EventInv'
<1>1. /\ row' = [row EXCEPT ![e] = None]
      /\ timeline' = {x \in timeline : events[x.of].endpoint # e}
      /\ overtaken' = overtaken \cup {e}
      /\ UNCHANGED <<events, work, late, cache, checked, incidents, audit>>
  BY DEF EE!DeleteEndpoint
<1>2. EventTypes /\ \A k \in EE!Indicator : cache[k] = "malicious" => k \in Malicious
  BY DEF EventInv
<1>3. /\ row' \in [Endpoint -> EE!Row \cup {None}]
      /\ \A f \in Endpoint \ overtaken' : row'[f] = row[f]
      /\ timeline' \subseteq timeline
      /\ cache' \in [EE!Indicator -> EE!Verdict \cup {None}]
      /\ \A k \in EE!Indicator : cache'[k] = "malicious" => k \in Malicious
  BY <1>1, <1>2 DEF EventTypes
<1> QED
  BY <1>1, <1>3, OthersKeep

LEMMA OtherIncidentKeeps ==
    ASSUME EventInv, NEW ip, NEW field, NEW u, EE!OtherIncident(ip, field, u)
    PROVE  EventInv'
<1> DEFINE x == [of |-> None, entities |-> {<<"sourceIp", ip>>, <<field, u>>}]
<1>1. /\ incidents' = incidents \cup {x} /\ x.of = None
      /\ UNCHANGED <<events, work, late, cache, checked, row, timeline, audit, overtaken>>
  BY DEF EE!OtherIncident
<1> HIDE DEF x
<1>2. EventTypes /\ \A k \in EE!Indicator : cache[k] = "malicious" => k \in Malicious
  BY DEF EventInv
<1>3. /\ row' \in [Endpoint -> EE!Row \cup {None}]
      /\ cache' \in [EE!Indicator -> EE!Verdict \cup {None}]
      /\ \A k \in EE!Indicator : cache'[k] = "malicious" => k \in Malicious
  BY <1>1, <1>2 DEF EventTypes
<1> QED
  BY <1>1, <1>3, OthersKeep

LEMMA NextEvents == EventInv /\ EE!Next => EventInv'
<1> SUFFICES ASSUME EventInv, EE!Next PROVE EventInv'
  OBVIOUS
<1>1. CASE \E h \in Request, e \in Endpoint, ip \in Own, u \in User : \E seen \in {ip, Gateway} :
               \E m \in EE!Payloads(e, ip, u, seen) : EE!Receive(h, m)
  BY <1>1, PayloadsAre, ReceiveKeeps
<1>2. CASE \E h \in Request :
               \/ EE!Enrich(h) \/ EE!ReadRow(h) \/ EE!WriteRow(h) \/ EE!AddItem(h)
               \/ EE!CallFails(h) \/ EE!Forward(h) \/ EE!AuditAndAnswer(h)
  BY <1>2, EnrichKeeps, ReadRowKeeps, WriteRowKeeps, AddItemKeeps, CallFailsKeeps,
     ForwardKeeps, AuditAndAnswerKeeps
<1>3. CASE \E c \in late : EE!ServeLate(c)
  BY <1>3, ServeLateKeeps
<1>4. CASE \E i \in EE!Indicator : EE!Expire(i)
  BY <1>4, ExpireKeeps
<1>5. CASE \E e \in Endpoint : EE!DeleteEndpoint(e)
  BY <1>5, DeleteEndpointKeeps
<1>6. CASE \E ip \in Own \cup {Gateway}, f \in {"username", "principal"}, u \in User :
               EE!OtherIncident(ip, f, u)
  BY <1>6, OtherIncidentKeeps
<1> QED
  BY <1>1, <1>2, <1>4, <1>5, <1>6, <1>3 DEF EE!Next

LEMMA EventsImply == EventInv => EndpointEventsAgree
<1> SUFFICES ASSUME EventInv PROVE EndpointEventsAgree
  OBVIOUS
<1>1. EventTypes
  BY DEF EventInv
<1>2. EE!TypeOK
  <2>1. DOMAIN events = 1..Len(events) /\ DOMAIN audit = 1..Len(audit)
    BY <1>1 DEF EventTypes
  <2>2. ASSUME NEW h \in Request, work[h] # EE!Idle
        PROVE  /\ work[h].stage \in EE!Stage /\ work[h].n \in DOMAIN events
               /\ work[h].tries \in 1..Attempts /\ work[h].verdict \in EE!Verdict \cup {None}
    BY <1>1, <2>1, <2>2 DEF EventTypes, Job
  <2>3. \A c \in late : c.stage \in {"judged", "read", "written", "noted"} /\ c.n \in DOMAIN events
    BY <1>1, <2>1 DEF EventInv, EventTypes, GivenUp
  <2> QED
    BY <1>1, <2>1, <2>2, <2>3 DEF EventTypes, EE!TypeOK
<1>3. EE!MatchesAgree
  BY DEF EE!MatchesAgree, EE!RelatedIncidents, EE!EndpointContext, EE!Related, EE!InContext
<1>4. EE!AlarmIsOwn
  BY DEF EventInv, Convicted, Lookup, EE!AlarmIsOwn
<1>5. EE!SuccessIsForwarded
  <2>1. DOMAIN audit = 1..Len(audit)
    BY <1>1 DEF EventTypes
  <2>2. ASSUME NEW k \in 1..Len(audit), NEW n \in 1..Len(events), audit[k].n = n,
               audit[k].outcome = "success",
               EE!Judged(n) \/ events[n].suspicious \/ events[n].type \in EE!Auth
        PROVE  \E x \in incidents : x.of = n
    <3>1. Settled(n)
      BY <2>2 DEF EventInv
    <3> QED
      BY <2>2, <3>1 DEF Settled, Filed, Alarm, EE!Judged
  <2>3. \A k \in 1..Len(audit) : audit[k].n \in 1..Len(events)
    BY <1>1 DEF EventTypes
  <2> QED
    BY <2>1, <2>2, <2>3 DEF EE!SuccessIsForwarded, EE!Judged
<1>6. EE!VerdictStays
  <2>1. \A x \in timeline : events[x.of].endpoint \in Endpoint
    BY <1>1 DEF EventTypes, Told
  <2> QED
    BY <2>1 DEF EventInv, Known, Has, EE!VerdictStays
<1> QED
  BY <1>2, <1>3, <1>4, <1>5, <1>6 DEF EndpointEventsAgree

-----------------------------------------------------------------------------
(* Events of FortiGates. *)

Thread == FD!Thread

\* A run of a thread, or that there is none.
Run ==
    [pc : {"idle", "cursor", "start", "fetch", "post", "fail"},
     i : Integration \cup {None}, cursor : FD!Time \cup {None},
     page : SUBSET Event, todo : SUBSET Event]

\* A run is past the point where it has read the cursor.
Past == {"start", "fetch", "post", "fail"}

\* Whatever else happens: an integration that was not created is not run, and a
\* page holds events of its own device only, of which some are to be posted.
Sound(x) ==
    /\ x.pc # "idle" => x.i \in Integration /\ integration[x.i] # "none"
    /\ x.todo \subseteq x.page
    /\ \A e \in x.page : born[e] # None /\ Of[e] = x.i

\* Times lie in the past, pages are of their devices, and what was posted or
\* recorded without a run is a disturbance.
FeedShape ==
    /\ \A e \in Event : born[e] # None => born[e] <= now
    /\ \A i \in Integration, r \in FD!Row : row[i] = r => r.success = None \/ r.success <= now
    /\ \A i \in Integration : cache[i] # None => cache[i].page \subseteq FD!Log(i)
    /\ \A t \in Thread, x \in Run : thread[t] = x => Sound(x)
    /\ \A i \in agenda : integration[i] # "none"
    /\ worker # None /\ worker[2] = "forwarded" => Of[worker[1]] \in disturbed
    /\ \A e \in Event : posted[e] > 0 => integration[Of[e]] # "none" \/ Of[e] \in disturbed

\* A run x of integration i that nothing has disturbed has the cursor that is in
\* the row; it has posted what it has left of its page, but for what is behind
\* the cursor; and it has posted nothing if it has failed.
Steady(i, x) ==
    /\ row[i] # None /\ x.cursor = row[i].success
    /\ x.pc = "fail" => x.page = {}
    /\ \A e \in x.page \ x.todo : posted[e] > 0 \/ FD!Behind(e, x.cursor)
    /\ \A e \in x.todo : ~FD!Behind(e, x.cursor)

\* Event e happened no later than the cursor of i.
Covered(i, e) == row[i] # None /\ row[i].success # None /\ born[e] <= row[i].success

\* What is true of an integration that nothing has disturbed: one run at a time
\* reads, posts and moves the cursor, and none while a reset is under way; what
\* is posted happened before the cursor, or the run that posted it goes on; and
\* nothing is left behind but what was passed.
Clean(i) ==
    /\ \A t, u \in Thread :
          thread[t].i = i /\ thread[u].i = i /\ thread[t].pc \in Past /\ thread[u].pc \in Past => t = u
    /\ \A t \in Thread, x \in Run : thread[t] = x /\ x.i = i /\ x.pc \in Past => Steady(i, x)
    /\ wiped =>
          /\ \A e \in Event : Of[e] = i => posted[e] = 0
          /\ \A t \in Thread : thread[t].i = i => thread[t].pc \notin Past
    /\ \A e \in Event : Of[e] = i /\ posted[e] > 0 =>
          /\ born[e] # None
          /\ \/ Covered(i, e)
             \/ \E t \in Thread : thread[t].i = i /\ e \in thread[t].page \ thread[t].todo
    /\ \A e \in Event, r \in FD!Row :
          Of[e] = i /\ born[e] # None /\ row[i] = r /\ ~wiped /\ FD!Behind(e, r.success) =>
              posted[e] > 0 \/ e \in passed

FeedInv ==
    /\ FD!TypeOK
    /\ FeedShape
    /\ \A i \in Integration : integration[i] = "connected" /\ i \notin disturbed => Clean(i)

\* A step leaves what belongs to integration i alone, but for events that happen
\* and for what does not move its cursor.
Calm(i) ==
    /\ \A t \in Thread : thread[t].i = i => thread'[t] = thread[t]
    /\ \A t \in Thread :
          thread'[t].i = i /\ thread'[t].pc \in Past => thread'[t] = thread[t]
    /\ wiped' = wiped
    /\ \A e \in Event : Of[e] = i =>
          /\ posted'[e] = posted[e]
          /\ born'[e] = born[e] \/ (born[e] = None /\ born'[e] = now)
    /\ row'[i] = row[i] \/ (row'[i] \in FD!Row /\ row'[i].success = FD!Stored(i).success)
    /\ passed \subseteq passed'

\* The thread t makes x of its run, and the others go on.
Moves(t, x) ==
    /\ thread' \in [Thread -> Run] /\ thread'[t] = x
    /\ \A u \in Thread \ {t} : thread'[u] = thread[u]

-----------------------------------------------------------------------------
LEMMA HalvesGrow ==
    ASSUME NEW a \in Nat, NEW b \in Nat, a <= b
    PROVE  FD!Second(a) \in Nat /\ FD!Second(a) <= FD!Second(b)
BY DEF FD!Second

\* What is behind a cursor happened before it.
LEMMA BehindIsBefore ==
    ASSUME NEW e \in Event, NEW c \in Nat \cup {None}, born[e] \in Nat, FD!Behind(e, c)
    PROVE  c \in Nat /\ born[e] < c
<1>1. PICK b \in Nat : b = born[e]
  OBVIOUS
<1>2. c \in Nat /\ FD!Second(b) < FD!Second(c)
  BY <1>1 DEF FD!Behind
<1>3. FD!Second(b) \in Nat /\ FD!Second(c) \in Nat /\ (c <= b => FD!Second(c) <= FD!Second(b))
  BY <1>2, HalvesGrow
<1> QED
  BY <1>1, <1>2, <1>3

LEMMA NewRowIs ==
    /\ FD!NewRow \in FD!Row /\ FD!NewRow.success = None
    /\ \A i \in Integration : FD!TypeOK => FD!Stored(i) \in FD!Row
<1>1. FD!NewRow \in FD!Row /\ FD!NewRow.success = None
  BY DEF FD!NewRow, FD!Row
<1> QED
  BY <1>1 DEF FD!Stored, FD!TypeOK

LEMMA IdleIsRun == FD!Idle \in Run /\ FD!Idle.i = None /\ FD!Idle.pc = "idle"
BY DEF FD!Idle, Run

\* What is read of the state in most of the steps.
LEMMA FeedHas ==
    ASSUME FeedInv
    PROVE  /\ FD!TypeOK /\ FeedShape
           /\ now \in Nat /\ now \in FD!Time /\ now # None
           /\ thread \in [Thread -> Run]
           /\ row \in [Integration -> FD!Row \cup {None}]
           /\ \A e \in Event : born[e] \in Nat \cup {None} /\ Of[e] \in Integration
           /\ \A i \in Integration, r \in FD!Row : row[i] = r => r.success \in Nat \cup {None}
<1>1. FD!TypeOK /\ FeedShape
  BY DEF FeedInv
<1>2. FD!Time \subseteq Nat
  BY FeedAssumption DEF FD!Time
<1>3. now \in FD!Time
  BY <1>1 DEF FD!TypeOK
<1>4. \A e \in Event : born[e] \in Nat \cup {None} /\ Of[e] \in Integration
  BY <1>1, <1>2, FeedAssumption DEF FD!TypeOK
<1>5. thread \in [Thread -> Run] /\ row \in [Integration -> FD!Row \cup {None}]
  BY <1>1 DEF FD!TypeOK, Thread, Run
<1> QED
  BY <1>1, <1>2, <1>3, <1>4, <1>5, FeedAssumption DEF FD!Row

LEMMA InitFeed == InitFD => FeedInv
<1> SUFFICES ASSUME InitFD PROVE FeedInv
  OBVIOUS
<1>1. FD!Init
  BY DEF InitFD
<1>2. /\ FD!Idle \in Run /\ FD!Idle.i = None /\ FD!Idle.pc = "idle"
      /\ FD!Idle.page = {} /\ FD!Idle.todo = {}
  BY IdleIsRun DEF FD!Idle
<1> DEFINE r == [FD!NewRow EXCEPT !.enabled = TRUE]
<1>3. r \in FD!Row /\ r.success = None
  BY DEF FD!NewRow, FD!Row
<1> HIDE DEF r
<1>4. 0 \in FD!Time /\ 0 \in 0..MaxActs /\ 0 \in 0..2
  BY FeedAssumption DEF FD!Time
<1>5. /\ thread = [t \in Thread |-> FD!Idle] /\ row \in [Integration -> FD!Row \cup {None}]
      /\ \A i \in Integration : row[i] # None => integration[i] = "connected" /\ row[i] = r
  BY <1>1, <1>3 DEF FD!Init, Thread, r
<1>6. FD!TypeOK
  <2>1. thread \in [Thread -> Run]
    BY <1>2, <1>5
  <2>2. queue \in Seq(Event) /\ Len(queue) <= QueueSize
    BY <1>1, FeedAssumption DEF FD!Init
  <2> QED
    BY <1>1, <1>2, <1>4, <1>5, <2>1, <2>2 DEF FD!Init, FD!TypeOK, FD!Connected, Thread, Run
<1>7. FeedShape
  <2>1. \A t \in Thread : Sound(thread[t])
    BY <1>2, <1>5 DEF Sound
  <2>2. \A i \in Integration : row[i] = None \/ row[i] = r
    BY <1>5
  <2> QED
    <3>1. \A e \in Event : born[e] = None /\ ~(posted[e] > 0)
      BY <1>1 DEF FD!Init
    <3>2. \A i \in Integration : cache[i] = None
      BY <1>1 DEF FD!Init
    <3>3. worker = None /\ agenda = {}
      BY <1>1 DEF FD!Init
    <3>4. \A i \in Integration, q \in FD!Row : row[i] = q => q.success = None
      BY <1>3, <2>2, FeedAssumption
    <3> QED
      BY <2>1, <3>1, <3>2, <3>3, <3>4 DEF FeedShape
<1>8. ASSUME NEW i \in Integration PROVE Clean(i)
  <2>1. \A e \in Event : ~(posted[e] > 0) /\ born[e] = None
    BY <1>1 DEF FD!Init
  <2>2. \A t \in Thread : thread[t] = FD!Idle /\ thread[t].pc \notin Past
    BY <1>2, <1>5 DEF Past
  <2> QED
    BY <1>1, <2>1, <2>2 DEF FD!Init, Clean
<1> QED
  BY <1>6, <1>7, <1>8 DEF FeedInv

\* An integration that a step leaves alone stays clean.
LEMMA CalmKeeps ==
    ASSUME FeedInv, NEW i \in Integration, Clean(i), Calm(i)
    PROVE  Clean(i)'
<1>1. /\ \A t \in Thread : thread[t].i = i => thread'[t] = thread[t]
      /\ \A t \in Thread : thread'[t].i = i /\ thread'[t].pc \in Past => thread'[t] = thread[t]
      /\ wiped' = wiped /\ passed \subseteq passed'
      /\ \A e \in Event : Of[e] = i =>
            /\ posted'[e] = posted[e]
            /\ born'[e] = born[e] \/ (born[e] = None /\ born'[e] = now)
  BY DEF Calm
<1>2. /\ row[i] # None => row'[i] # None /\ row'[i].success = row[i].success
      /\ row[i] = None /\ row'[i] # None => row'[i].success = None
  BY FeedAssumption, NewRowIs DEF Calm, FD!Stored
<1>3. FeedShape /\ now \in Nat /\ now # None
      /\ \A e \in Event : born[e] \in Nat \cup {None}
      /\ thread \in [Thread -> Run]
  BY FeedHas
<1>4. ASSUME NEW t \in Thread, NEW x \in Run, thread'[t] = x, x.i = i, x.pc \in Past
      PROVE  Steady(i, x)'
  <2>1. thread[t] = x /\ Steady(i, x) /\ Sound(x)
    BY <1>1, <1>3, <1>4 DEF Clean, FeedShape
  <2>2. \A e \in x.page : e \in Event /\ born'[e] = born[e] /\ posted'[e] = posted[e]
    BY <1>1, <1>4, <2>1 DEF Sound, Run
  <2>3. \A e \in x.page : FD!Behind(e, x.cursor)' <=> FD!Behind(e, x.cursor)
    BY <2>2 DEF FD!Behind, FD!Second
  <2> QED
    BY <1>2, <2>1, <2>2, <2>3 DEF Steady, Sound
<1>5. \A e \in Event : Of[e] = i /\ posted'[e] > 0 =>
          /\ born'[e] # None
          /\ \/ Covered(i, e)'
             \/ \E t \in Thread : thread'[t].i = i /\ e \in thread'[t].page \ thread'[t].todo
  <2> SUFFICES ASSUME NEW e \in Event, Of[e] = i, posted'[e] > 0
               PROVE  /\ born'[e] # None
                      /\ \/ Covered(i, e)'
                         \/ \E t \in Thread : thread'[t].i = i /\ e \in thread'[t].page \ thread'[t].todo
    OBVIOUS
  <2>1. posted[e] > 0 /\ born[e] # None /\ born'[e] = born[e]
    BY <1>1 DEF Clean
  <2>2. CASE Covered(i, e)
    BY <1>2, <2>1, <2>2 DEF Covered
  <2>3. CASE \E t \in Thread : thread[t].i = i /\ e \in thread[t].page \ thread[t].todo
    BY <1>1, <2>1, <2>3
  <2> QED
    BY <2>1, <2>2, <2>3 DEF Clean
<1>6. ASSUME NEW e \in Event, NEW r \in FD!Row, Of[e] = i, born'[e] # None, row'[i] = r,
             ~wiped', FD!Behind(e, r.success)'
      PROVE  posted'[e] > 0 \/ e \in passed'
  <2> DEFINE c == r.success
  <2>1. c # None
    BY <1>6 DEF FD!Behind
  <2>2. PICK q \in FD!Row : row[i] = q /\ c = q.success /\ c \in Nat /\ c <= now
    BY <1>2, <1>6, <2>1, FeedHas DEF FeedShape
  <2>3. CASE born'[e] = born[e]
    <3>1. FD!Behind(e, q.success)
      BY <1>6, <2>2, <2>3 DEF FD!Behind
    <3> QED
      BY <1>1, <1>6, <2>2, <2>3, <3>1 DEF Clean
  <2>4. CASE born'[e] = now
    <3>1. FD!Second(now) < FD!Second(c)
      BY <1>6, <2>4 DEF FD!Behind
    <3> QED
      BY <1>3, <2>2, <3>1, HalvesGrow
  <2> QED
    BY <1>1, <1>6, <2>3, <2>4
<1>7. /\ \A t, u \in Thread :
            thread'[t].i = i /\ thread'[u].i = i /\ thread'[t].pc \in Past /\ thread'[u].pc \in Past => t = u
      /\ wiped' =>
            /\ \A e \in Event : Of[e] = i => posted'[e] = 0
            /\ \A t \in Thread : thread'[t].i = i => thread'[t].pc \notin Past
  BY <1>1 DEF Clean
<1> QED
  BY <1>4, <1>5, <1>6, <1>7 DEF Clean

\* A step of which no run takes part keeps the invariant if it takes nothing back
\* and what it does to cursors and to the SIEM is a disturbance.
LEMMA StillKeeps ==
    ASSUME FeedInv, FD!TypeOK', UNCHANGED <<thread, cache, wiped>>,
           now \in Nat, now' \in Nat, now <= now',
           \A i \in Integration : integration[i] # "none" => integration'[i] # "none",
           \A i \in Integration : integration'[i] = "connected" => integration[i] # "deleted",
           \A e \in Event : born'[e] = born[e] \/ (born[e] = None /\ born'[e] = now),
           \A e \in Event : posted'[e] = posted[e] \/ Of[e] \in disturbed',
           disturbed \subseteq disturbed', passed \subseteq passed',
           \A i \in Integration :
              \/ row'[i] = row[i]
              \/ row'[i] = None /\ integration'[i] # "connected"
              \/ row'[i] \in FD!Row /\ row'[i].success = FD!Stored(i).success
              \/ row'[i] \in FD!Row /\ row'[i].success = now /\ i \in disturbed',
           \A i \in agenda' : integration'[i] # "none",
           worker' # None /\ worker'[2] = "forwarded" => Of[worker'[1]] \in disturbed'
    PROVE  FeedInv'
<1>1. /\ FD!TypeOK /\ FeedShape
      /\ \A e \in Event : born[e] \in Nat \cup {None} /\ Of[e] \in Integration
      /\ thread \in [Thread -> Run] /\ now # None
      /\ row \in [Integration -> FD!Row \cup {None}]
  BY FeedHas
<1>2. \A e \in Event : born[e] # None => born'[e] = born[e]
  OBVIOUS
<1>3. \A i \in Integration : FD!Log(i) \subseteq FD!Log(i)'
  BY <1>2 DEF FD!Log
<1>4. \A i \in Integration, r \in FD!Row : row'[i] = r => r.success = None \/ r.success <= now'
  <2> SUFFICES ASSUME NEW i \in Integration, NEW r \in FD!Row, row'[i] = r
               PROVE  r.success = None \/ r.success <= now'
    OBVIOUS
  <2>1. r.success \in Nat \cup {None}
    BY FeedAssumption DEF FD!Row, FD!Time
  <2>2. \A q \in FD!Row : row[i] = q => q.success = None \/ (q.success \in Nat /\ q.success <= now)
    BY <1>1, FeedAssumption DEF FeedShape, FD!Row, FD!Time
  <2>3. CASE row'[i] = row[i]
    BY <2>1, <2>2, <2>3
  <2>4. CASE r.success = FD!Stored(i).success
    BY <1>1, <2>2, <2>4, NewRowIs DEF FD!Stored
  <2> QED
    BY <2>3, <2>4, FeedAssumption
<1>5. \A t \in Thread, x \in Run : thread'[t] = x => Sound(x)'
  <2> SUFFICES ASSUME NEW t \in Thread, NEW x \in Run, thread[t] = x PROVE Sound(x)'
    OBVIOUS
  <2>1. Sound(x)
    BY <1>1 DEF FeedShape
  <2> QED
    BY <1>2, <2>1 DEF Sound, Run
<1>6. \A i \in Integration : cache'[i] # None => cache'[i].page \subseteq FD!Log(i)'
  BY <1>1, <1>3 DEF FeedShape
<1>7. \A e \in Event : born'[e] # None => born'[e] <= now'
  BY <1>1, <1>2 DEF FeedShape
<1>8. \A e \in Event : posted'[e] > 0 => integration'[Of[e]] # "none" \/ Of[e] \in disturbed'
  BY <1>1 DEF FeedShape
<1>9. FeedShape'
  BY <1>4, <1>5, <1>6, <1>7, <1>8 DEF FeedShape
<1>10. ASSUME NEW i \in Integration, integration'[i] = "connected", i \notin disturbed'
       PROVE  Clean(i)'
  <2>1. CASE integration[i] = "connected"
    <3>1. Clean(i)
      BY <1>10, <2>1 DEF FeedInv
    <3>2. Calm(i)
      BY <1>10 DEF Calm
    <3> QED
      BY <3>1, <3>2, CalmKeeps
  <2>2. CASE integration[i] = "none"
    <3>1. \A t \in Thread : thread[t].i # i \/ thread[t].pc = "idle"
      BY <1>1, <2>2 DEF FeedShape, Sound
    <3>2. row[i] = None
      BY <1>1, <2>2 DEF FD!TypeOK, FD!Connected
    <3>3. \A r \in FD!Row : row'[i] = r => r.success = None
      BY <1>10, <3>2, FeedAssumption, NewRowIs DEF FD!Stored
    <3>4. \A e \in Event : Of[e] = i => posted'[e] = posted[e] /\ ~(posted[e] > 0) /\ posted[e] = 0
      <4>1. \A e \in Event : posted[e] \in 0..2
        BY <1>1 DEF FD!TypeOK
      <4> QED
        BY <1>1, <1>10, <2>2, <4>1 DEF FeedShape
    <3> QED
      BY <3>1, <3>3, <3>4 DEF Clean, Past, FD!Behind
  <2> QED
    BY <1>1, <1>10, <2>1, <2>2 DEF FD!TypeOK
<1> QED
  BY <1>9, <1>10 DEF FeedInv

LEMMA TickKeeps == FeedInv /\ FD!Tick => FeedInv'
<1> SUFFICES ASSUME FeedInv, FD!Tick PROVE FeedInv'
  OBVIOUS
<1>1. FD!TypeOK /\ FeedShape /\ now \in Nat
  BY FeedHas
<1>2. /\ now' = now + 1 /\ now < MaxTime
      /\ UNCHANGED <<acts, born, forwards, integration, row, cache, thread, agenda, queue,
                     worker, posted, wiped, passed, disturbed>>
  BY DEF FD!Tick, FD!polling, FD!syslog, FD!history
<1>3. FD!TypeOK'
  <2>1. now' \in FD!Time
    BY <1>1, <1>2, FeedAssumption DEF FD!Time
  <2> QED
    BY <1>1, <1>2, <2>1 DEF FD!TypeOK, FD!Connected
<1> QED
  BY <1>1, <1>2, <1>3, StillKeeps DEF FeedShape

LEMMA HappenKeeps == ASSUME FeedInv, NEW e \in Event, FD!Happen(e) PROVE FeedInv'
<1>1. FD!TypeOK /\ FeedShape /\ now \in Nat /\ now \in FD!Time
  BY FeedHas
<1>2. /\ born[e] = None /\ born' = [born EXCEPT ![e] = now]
      /\ queue' = queue \/ queue' = FD!Enqueued(e)
      /\ acts' \in 0..MaxActs
      /\ UNCHANGED <<now, forwards, integration, row, cache, thread, agenda,
                     worker, posted, wiped, passed, disturbed>>
  BY <1>1, FeedAssumption DEF FD!Happen, FD!polling, FD!history, FD!Spend, FD!TypeOK
<1>3. FD!TypeOK'
  <2>1. queue \in Seq(Event) /\ Len(queue) <= QueueSize /\ QueueSize \in Nat
    BY <1>1, FeedAssumption DEF FD!TypeOK
  <2>2. queue' \in Seq(Event) /\ Len(queue') <= QueueSize
    BY <1>2, <2>1 DEF FD!Enqueued
  <2>3. born' \in [Event -> FD!Time \cup {None}]
    BY <1>1, <1>2 DEF FD!TypeOK
  <2> QED
    BY <1>1, <1>2, <2>2, <2>3 DEF FD!TypeOK, FD!Connected
<1>4. \A f \in Event : born'[f] = born[f] \/ (born[f] = None /\ born'[f] = now)
  BY <1>1, <1>2 DEF FD!TypeOK
<1> QED
  BY <1>1, <1>2, <1>3, <1>4, StillKeeps DEF FeedShape

\* What each way of writing a row does to its cursor.
LEMMA RowsAre ==
    ASSUME now \in FD!Time, NEW r \in FD!Row
    PROVE  /\ \A b \in BOOLEAN :
                 FD!Configured(r, b) \in FD!Row /\ FD!Configured(r, b).success = r.success
           /\ FD!AwaitingSyslog(r) \in FD!Row /\ FD!AwaitingSyslog(r).success = r.success
           /\ FD!Started(r) \in FD!Row /\ FD!Started(r).success = r.success
           /\ FD!Finished(r, TRUE) \in FD!Row /\ FD!Finished(r, TRUE).success = now
           /\ FD!Finished(r, FALSE) \in FD!Row /\ FD!Finished(r, FALSE).success = r.success
           /\ FD!Streaming(r) \in FD!Row /\ FD!Streaming(r).success = now
           /\ r # None => FD!Rewound(r) \in FD!Row /\ FD!Rewound(r).success = None
<1>1. PICK n \in FD!Time : n = now
  OBVIOUS
<1>2. \A b \in BOOLEAN :
          FD!Configured(r, b) \in FD!Row /\ FD!Configured(r, b).success = r.success
  BY DEF FD!Configured, FD!Row
<1>3. FD!AwaitingSyslog(r) \in FD!Row /\ FD!AwaitingSyslog(r).success = r.success
  BY DEF FD!AwaitingSyslog, FD!Row
<1>4. FD!Started(r) \in FD!Row /\ FD!Started(r).success = r.success
  <2>1. PICK s \in FD!Time \cup {None} : s = IF r.finished = None THEN n ELSE None
    OBVIOUS
  <2>2. FD!Started(r) = [r EXCEPT !.running = TRUE, !.syslog = FALSE, !.started = s]
    BY <1>1, <2>1 DEF FD!Started
  <2> QED
    BY <2>2 DEF FD!Row
<1>5. FD!Finished(r, TRUE) \in FD!Row /\ FD!Finished(r, TRUE).success = now
  BY <1>1 DEF FD!Finished, FD!Row
<1>6. FD!Finished(r, FALSE) \in FD!Row /\ FD!Finished(r, FALSE).success = r.success
  BY <1>1 DEF FD!Finished, FD!Row
<1>7. FD!Streaming(r) \in FD!Row /\ FD!Streaming(r).success = now
  BY <1>1 DEF FD!Streaming, FD!Row
<1>8. r # None => FD!Rewound(r) \in FD!Row /\ FD!Rewound(r).success = None
  BY DEF FD!Rewound, FD!NewRow, FD!Row
<1> QED
  BY <1>2, <1>3, <1>4, <1>5, <1>6, <1>7, <1>8

LEMMA CreateKeeps == ASSUME FeedInv, NEW i \in Integration, FD!Create(i) PROVE FeedInv'
<1>1. /\ FD!TypeOK /\ FeedShape /\ now \in Nat /\ now \in FD!Time
      /\ row \in [Integration -> FD!Row \cup {None}]
  BY FeedHas
<1>8. PICK s \in FD!Row : s = FD!Stored(i)
  BY <1>1, NewRowIs
<1>2. PICK r \in FD!Row : r = FD!AwaitingSyslog(s) /\ r.success = s.success
  BY <1>1, RowsAre
<1>3. /\ integration[i] = "none" /\ integration' = [integration EXCEPT ![i] = "connected"]
      /\ forwards' = forwards \cup {i} \/ forwards' = forwards
      /\ row' = [row EXCEPT ![i] = r] \/ row' = row
      /\ UNCHANGED <<acts, now, born, cache, thread, agenda, queue,
                     worker, posted, wiped, passed, disturbed>>
  BY <1>2, <1>8 DEF FD!Create, FD!polling, FD!syslog, FD!history
<1>4. /\ row' \in [Integration -> FD!Row \cup {None}]
      /\ \A k \in Integration : row'[k] = row[k] \/ (k = i /\ row'[k] = r)
  BY <1>1, <1>3
<1>5. /\ integration' \in [Integration -> {"none", "connected", "deleted"}]
      /\ integration'[i] = "connected"
      /\ \A k \in Integration \ {i} : integration'[k] = integration[k]
  BY <1>1, <1>3 DEF FD!TypeOK
<1>6. FD!TypeOK'
  BY <1>1, <1>3, <1>4, <1>5 DEF FD!TypeOK, FD!Connected
<1>7. /\ \A k \in Integration : integration[k] # "none" => integration'[k] # "none"
      /\ \A k \in Integration : integration'[k] = "connected" => integration[k] # "deleted"
      /\ \A k \in agenda : integration'[k] # "none"
  BY <1>1, <1>3, <1>5 DEF FeedShape, FD!TypeOK
<1> QED
  BY <1>1, <1>2, <1>3, <1>4, <1>6, <1>7, <1>8, StillKeeps DEF FeedShape

LEMMA DeleteKeeps == ASSUME FeedInv, NEW i \in Integration, FD!Delete(i) PROVE FeedInv'
<1>1. /\ FD!TypeOK /\ FeedShape /\ now \in Nat
      /\ row \in [Integration -> FD!Row \cup {None}]
  BY FeedHas
<1>2. /\ integration[i] = "connected" /\ integration' = [integration EXCEPT ![i] = "deleted"]
      /\ row' = [row EXCEPT ![i] = None] /\ acts' \in 0..MaxActs
      /\ UNCHANGED <<now, born, forwards, cache, thread, agenda, queue,
                     worker, posted, wiped, passed, disturbed>>
  BY <1>1, FeedAssumption
     DEF FD!Delete, FD!Connected, FD!devices, FD!polling, FD!syslog, FD!history, FD!Spend, FD!TypeOK
<1>3. /\ row' \in [Integration -> FD!Row \cup {None}] /\ row'[i] = None
      /\ \A k \in Integration \ {i} : row'[k] = row[k]
  BY <1>1, <1>2
<1>4. /\ integration' \in [Integration -> {"none", "connected", "deleted"}]
      /\ integration'[i] = "deleted"
      /\ \A k \in Integration \ {i} : integration'[k] = integration[k]
  BY <1>1, <1>2 DEF FD!TypeOK
<1>5. FD!TypeOK'
  BY <1>1, <1>2, <1>3, <1>4 DEF FD!TypeOK, FD!Connected
<1>6. /\ \A k \in Integration : integration[k] # "none" => integration'[k] # "none"
      /\ \A k \in Integration : integration'[k] = "connected" => integration[k] # "deleted"
      /\ \A k \in agenda : integration'[k] # "none"
      /\ \A k \in Integration : row'[k] = row[k] \/ (row'[k] = None /\ integration'[k] # "connected")
  BY <1>1, <1>2, <1>3, <1>4 DEF FeedShape, FD!TypeOK
<1> QED
  BY <1>1, <1>2, <1>5, <1>6, StillKeeps DEF FeedShape

\* A setting of a connected integration that leaves its cursor alone.
LEMMA SettingKeeps ==
    ASSUME FeedInv, NEW i \in Integration, integration[i] = "connected",
           NEW r \in FD!Row, r.success = FD!Stored(i).success, row' \in [Integration -> FD!Row \cup {None}],
           \A k \in Integration : row'[k] = row[k] \/ (k = i /\ row'[k] = r),
           acts' \in 0..MaxActs, forwards' \subseteq Integration,
           UNCHANGED <<now, born, integration, cache, thread, agenda, queue,
                       worker, posted, wiped, passed, disturbed>>
    PROVE  FeedInv'
<1>1. /\ FD!TypeOK /\ FeedShape /\ now \in Nat
  BY FeedHas
<1>2. FD!TypeOK'
  BY <1>1 DEF FD!TypeOK, FD!Connected
<1> QED
  BY <1>1, <1>2, StillKeeps DEF FeedShape, FD!TypeOK

LEMMA SettingsKeep ==
    ASSUME FeedInv, NEW i \in Integration,
           \/ FD!ApplyForwarding(i) \/ FD!ReadStatus(i) \/ \E b \in BOOLEAN : FD!Configure(i, b)
    PROVE  FeedInv'
<1>1. /\ FD!TypeOK /\ now \in FD!Time /\ row \in [Integration -> FD!Row \cup {None}]
  BY FeedHas
<1>2. PICK s \in FD!Row : s = FD!Stored(i)
  BY <1>1, NewRowIs
<1>3. CASE FD!ApplyForwarding(i)
  <2>1. /\ integration[i] = "connected" /\ acts' \in 0..MaxActs /\ forwards' \subseteq Integration
        /\ UNCHANGED <<now, born, integration, row, cache, thread, agenda, queue,
                       worker, posted, wiped, passed, disturbed>>
    BY <1>1, <1>3, FeedAssumption
       DEF FD!ApplyForwarding, FD!Connected, FD!polling, FD!syslog, FD!history, FD!Spend, FD!TypeOK
  <2> QED
    BY <1>1, <1>2, <2>1, SettingKeeps
<1>4. CASE FD!ReadStatus(i)
  <2>1. PICK r \in FD!Row :
            /\ r = IF i \in forwards /\ ~s.syslog THEN FD!AwaitingSyslog(s) ELSE s
            /\ r.success = s.success
    BY <1>1, RowsAre
  <2>2. /\ integration[i] = "connected" /\ acts' \in 0..MaxActs /\ forwards' \subseteq Integration
        /\ row' = [row EXCEPT ![i] = r]
        /\ UNCHANGED <<now, born, integration, cache, thread, agenda, queue,
                       worker, posted, wiped, passed, disturbed>>
    BY <1>1, <1>2, <1>4, <2>1, FeedAssumption
       DEF FD!ReadStatus, FD!Connected, FD!devices, FD!polling, FD!syslog, FD!history, FD!Spend, FD!TypeOK
  <2>3. /\ row' \in [Integration -> FD!Row \cup {None}]
        /\ \A k \in Integration : row'[k] = row[k] \/ (k = i /\ row'[k] = r)
    BY <1>1, <2>2
  <2> QED
    BY <1>2, <2>1, <2>2, <2>3, SettingKeeps
<1>5. CASE \E b \in BOOLEAN : FD!Configure(i, b)
  <2>1. PICK b \in BOOLEAN : FD!Configure(i, b)
    BY <1>5
  <2>2. PICK r \in FD!Row : r = FD!Configured(s, b) /\ r.success = s.success
    BY <1>1, RowsAre
  <2>3. /\ integration[i] = "connected" /\ acts' \in 0..MaxActs /\ forwards' \subseteq Integration
        /\ row' = [row EXCEPT ![i] = r]
        /\ UNCHANGED <<now, born, integration, cache, thread, agenda, queue,
                       worker, posted, wiped, passed, disturbed>>
    BY <1>1, <1>2, <2>1, <2>2, FeedAssumption
       DEF FD!Configure, FD!Connected, FD!devices, FD!polling, FD!syslog, FD!history, FD!Spend, FD!TypeOK
  <2>4. /\ row' \in [Integration -> FD!Row \cup {None}]
        /\ \A k \in Integration : row'[k] = row[k] \/ (k = i /\ row'[k] = r)
    BY <1>1, <2>3
  <2> QED
    BY <1>2, <2>2, <2>3, <2>4, SettingKeeps
<1> QED
  BY <1>3, <1>4, <1>5

LEMMA ListDueKeeps == FeedInv /\ FD!ListDue => FeedInv'
<1> SUFFICES ASSUME FeedInv, FD!ListDue PROVE FeedInv'
  OBVIOUS
<1>1. FD!TypeOK /\ FeedShape /\ now \in Nat
  BY FeedHas
<1>2. /\ agenda' \subseteq {i \in Integration : row[i] # None}
      /\ UNCHANGED <<acts, now, born, forwards, integration, row, cache, thread, queue,
                     worker, posted, wiped, passed, disturbed>>
  BY DEF FD!ListDue, FD!Due, FD!devices, FD!syslog, FD!history
<1>3. FD!TypeOK' /\ \A i \in agenda' : integration'[i] # "none"
  BY <1>1, <1>2 DEF FD!TypeOK, FD!Connected
<1> QED
  BY <1>1, <1>2, <1>3, StillKeeps DEF FeedShape, FD!TypeOK

LEMMA OutcomesAre ==
    \A o \in FD!PostOutcomes : o.served \in 0..2 /\ o.ok \in BOOLEAN /\ FD!Cost(o) \in Nat
<1> SUFFICES ASSUME NEW o \in FD!PostOutcomes
             PROVE  o.served \in 0..2 /\ o.ok \in BOOLEAN /\ FD!Cost(o) \in Nat
  OBVIOUS
<1>1. o.served \in {0, 1, 2} /\ o.ok \in BOOLEAN
  <2>1. CASE o = [served |-> 1, ok |-> TRUE]
    BY <2>1
  <2>2. CASE o = [served |-> 2, ok |-> TRUE]
    BY <2>2
  <2>3. CASE o = [served |-> 0, ok |-> FALSE]
    BY <2>3
  <2>4. CASE o = [served |-> 1, ok |-> FALSE]
    BY <2>4
  <2> QED
    BY <2>1, <2>2, <2>3, <2>4 DEF FD!PostOutcomes, FD!Smooth
<1>2. FD!Cost(o) \in Nat
  BY DEF FD!Cost
<1> QED
  BY <1>1, <1>2

LEMMA SpentIs ==
    ASSUME FD!TypeOK, NEW n \in Nat, FD!Spend(n)
    PROVE  acts' \in 0..MaxActs
BY FeedAssumption DEF FD!Spend, FD!TypeOK

LEMMA CollectorKeeps == FeedInv /\ FD!Collector => FeedInv'
<1> SUFFICES ASSUME FeedInv, FD!Collector PROVE FeedInv'
  OBVIOUS
<1>1. /\ FD!TypeOK /\ FeedShape /\ now \in Nat /\ now \in FD!Time
      /\ row \in [Integration -> FD!Row \cup {None}]
      /\ \A e \in Event : Of[e] \in Integration
  BY FeedHas
<1>2. CASE FD!TakeDatagram
  <2>1. /\ queue # <<>> /\ worker' = <<Head(queue), "taken">> /\ queue' = Tail(queue)
        /\ UNCHANGED <<acts, now, born, forwards, integration, row, cache, thread, agenda,
                       posted, wiped, passed, disturbed>>
    BY <1>2 DEF FD!TakeDatagram, FD!devices, FD!polling, FD!history
  <2>2. queue \in Seq(Event) /\ Len(queue) <= QueueSize /\ QueueSize \in Nat
    BY <1>1, FeedAssumption DEF FD!TypeOK
  <2>3. Head(queue) \in Event /\ queue' \in Seq(Event) /\ Len(queue') <= QueueSize
    BY <2>1, <2>2
  <2>4. FD!TypeOK' /\ worker'[2] = "taken"
    BY <1>1, <2>1, <2>3 DEF FD!TypeOK, FD!Connected
  <2> QED
    BY <1>1, <2>1, <2>4, StillKeeps DEF FeedShape
<1>3. CASE FD!ForwardDatagram
  <2>1. PICK e \in Event : worker = <<e, "taken">>
    BY <1>1, <1>3 DEF FD!ForwardDatagram, FD!TypeOK
  <2>8. PICK o \in FD!PostOutcomes :
            /\ FD!Spend(FD!Cost(o))
            /\ posted' = [posted EXCEPT ![worker[1]] = FD!Plus(@, o.served)]
            /\ worker' = IF o.ok /\ Of[worker[1]] \in FD!Connected
                         THEN <<worker[1], "forwarded">> ELSE None
    BY <1>3 DEF FD!ForwardDatagram
  <2>3. PICK k \in 0..2 : posted' = [posted EXCEPT ![e] = FD!Plus(posted[e], k)]
    BY <2>1, <2>8, OutcomesAre
  <2>2. /\ acts' \in 0..MaxActs
        /\ worker' = <<e, "forwarded">> \/ worker' = None
        /\ disturbed' = disturbed \cup {Of[e]}
        /\ UNCHANGED <<now, born, forwards, integration, row, cache, thread, agenda, queue, wiped, passed>>
    <3>1. acts' \in 0..MaxActs
      BY <1>1, <2>8, OutcomesAre, SpentIs
    <3> QED
      BY <1>3, <2>1, <2>8, <3>1 DEF FD!ForwardDatagram, FD!devices, FD!polling
  <2>4. PICK n \in 0..2 : n = FD!Plus(posted[e], k)
    BY <1>1 DEF FD!TypeOK, FD!Plus
  <2>5. posted' \in [Event -> 0..2] /\ \A f \in Event : posted'[f] = posted[f] \/ f = e
    BY <1>1, <2>3, <2>4 DEF FD!TypeOK
  <2>6. FD!TypeOK'
    BY <1>1, <2>1, <2>2, <2>5 DEF FD!TypeOK, FD!Connected
  <2>7. worker' # None => worker'[1] = e
    BY <2>2
  <2> QED
    BY <1>1, <2>2, <2>5, <2>6, <2>7, StillKeeps DEF FeedShape
<1>4. CASE FD!RecordDatagram
  <2>1. PICK e \in Event : worker = <<e, "forwarded">>
    BY <1>1, <1>4 DEF FD!RecordDatagram, FD!TypeOK
  <2>2. PICK i \in Integration : i = Of[e]
    BY <1>1
  <2>3. i \in disturbed
    BY <1>1, <1>4, <2>1, <2>2 DEF FeedShape, FD!RecordDatagram
  <2>8. PICK s \in FD!Row : s = FD!Stored(i)
    BY <1>1, NewRowIs
  <2>4. PICK r \in FD!Row : r = FD!Streaming(s) /\ r.success = now
    BY <1>1, RowsAre
  <2>5. /\ worker' = None
        /\ row' = row \/ (row' = [row EXCEPT ![i] = r] /\ integration[i] = "connected")
        /\ UNCHANGED <<acts, now, born, forwards, integration, cache, thread, agenda, queue,
                       posted, wiped, passed, disturbed>>
    BY <1>4, <2>1, <2>2, <2>4, <2>8
       DEF FD!RecordDatagram, FD!Connected, FD!devices, FD!polling, FD!history
  <2>6. /\ row' \in [Integration -> FD!Row \cup {None}]
        /\ \A k \in Integration : row'[k] = row[k] \/ (k = i /\ row'[k] = r /\ integration[i] = "connected")
    BY <1>1, <2>5
  <2>7. FD!TypeOK'
    BY <1>1, <2>5, <2>6 DEF FD!TypeOK, FD!Connected
  <2> QED
    BY <1>1, <2>3, <2>4, <2>5, <2>6, <2>7, StillKeeps DEF FeedShape
<1> QED
  BY <1>2, <1>3, <1>4 DEF FD!Collector

\* A step of a run keeps the invariant if its own integration stays clean.
LEMMA RunKeeps ==
    ASSUME FeedInv, FD!TypeOK', NEW t \in Thread, NEW x \in Run, thread[t] = x,
           NEW y \in Run, Moves(t, y), Sound(y),
           y.i = x.i \/ y.i = None \/ (x.i = None /\ y.pc = "cursor"),
           UNCHANGED <<now, born, integration, wiped, worker>>,
           \A i \in Integration : i # x.i => row'[i] = row[i],
           \A i \in Integration, r \in FD!Row : i = x.i /\ row'[i] = r =>
               r.success = None \/ r.success <= now,
           \A i \in Integration : cache'[i] # None => cache'[i].page \subseteq FD!Log(i),
           agenda' \subseteq agenda, disturbed \subseteq disturbed', passed \subseteq passed',
           \A e \in Event : posted'[e] = posted[e] \/ Of[e] = x.i,
           \A i \in Integration :
              i = x.i /\ integration[i] = "connected" /\ i \notin disturbed' => Clean(i)'
    PROVE  FeedInv'
<1>1. /\ FD!TypeOK /\ FeedShape
      /\ \A e \in Event : Of[e] \in Integration
      /\ thread \in [Thread -> Run]
  BY FeedHas
<1>2. \A u \in Thread, z \in Run : thread'[u] = z => Sound(z)'
  <2> SUFFICES ASSUME NEW u \in Thread, NEW z \in Run, thread'[u] = z PROVE Sound(z)'
    OBVIOUS
  <2>1. CASE u = t
    BY <2>1 DEF Moves, Sound
  <2>2. CASE u # t
    <3>1. Sound(z)
      BY <1>1, <2>2 DEF Moves, FeedShape
    <3> QED
      BY <3>1 DEF Sound
  <2> QED
    BY <2>1, <2>2
<1>3. \A i \in Integration : cache'[i] # None => cache'[i].page \subseteq FD!Log(i)'
  BY DEF FD!Log
<1>4. \A e \in Event : posted'[e] > 0 => integration'[Of[e]] # "none" \/ Of[e] \in disturbed'
  <2> SUFFICES ASSUME NEW e \in Event, posted'[e] > 0, posted'[e] # posted[e]
               PROVE  integration[Of[e]] # "none"
    BY <1>1 DEF FeedShape
  <2>1. Of[e] = x.i /\ Sound(x) /\ x.i \in Integration /\ x.pc # "idle"
    BY <1>1, FeedAssumption DEF FeedShape, FD!TypeOK, FD!Idle, Thread
  <2> QED
    BY <2>1 DEF Sound
<1>5. FeedShape'
  <2>1. \A i \in Integration, r \in FD!Row : row'[i] = r => r.success = None \/ r.success <= now
    BY <1>1 DEF FeedShape
  <2> QED
    BY <1>1, <1>2, <1>3, <1>4, <2>1 DEF FeedShape
<1>6. ASSUME NEW i \in Integration, integration'[i] = "connected", i \notin disturbed'
      PROVE  Clean(i)'
  <2>1. CASE i = x.i
    BY <1>6, <2>1
  <2>2. CASE i # x.i
    <3>1. Clean(i)
      BY <1>6 DEF FeedInv
    <3>2. \A u \in Thread : thread[u].i = i => thread'[u] = thread[u]
      BY <2>2 DEF Moves
    <3>3. \A u \in Thread : thread'[u].i = i /\ thread'[u].pc \in Past => thread'[u] = thread[u]
      BY <2>2, FeedAssumption DEF Moves, Past
    <3>4. Calm(i)
      BY <2>2, <3>2, <3>3 DEF Calm
    <3> QED
      BY <3>1, <3>4, CalmKeeps
  <2> QED
    BY <2>1, <2>2
<1> QED
  BY <1>5, <1>6 DEF FeedInv

\* What a run past its cursor has for itself, if nothing disturbs it.
LEMMA PastIsAlone ==
    ASSUME FeedInv, NEW i \in Integration, Clean(i), NEW t \in Thread, NEW x \in Run,
           thread[t] = x, x.i = i, x.pc \in Past
    PROVE  /\ ~wiped /\ Steady(i, x) /\ Sound(x)
           /\ \A u \in Thread \ {t} : thread[u].i = i => thread[u].pc \notin Past
           /\ \A e \in Event : Of[e] = i /\ posted[e] > 0 =>
                 born[e] # None /\ (Covered(i, e) \/ e \in x.page \ x.todo)
<1>1. FD!TypeOK /\ FeedShape /\ thread \in [Thread -> Run]
  BY FeedHas
<1>2. \A u \in Thread \ {t} : thread[u].i = i => thread[u].pc \notin Past /\ thread[u].page = {}
  BY <1>1 DEF Clean, FD!TypeOK, Past, Thread
<1>3. \A e \in Event : Of[e] = i /\ posted[e] > 0 =>
          born[e] # None /\ (Covered(i, e) \/ e \in x.page \ x.todo)
  BY <1>2 DEF Clean
<1> QED
  BY <1>1, <1>2, <1>3 DEF Clean, FeedShape

\* A step of that run leaves its integration clean, if the run goes on as it
\* should or is over, and the cursor covers what is posted.
LEMMA OwnKeeps ==
    ASSUME FeedInv, NEW i \in Integration, Clean(i), NEW t \in Thread, NEW x \in Run,
           thread[t] = x, x.i = i, x.pc \in Past, NEW y \in Run, Moves(t, y),
           UNCHANGED wiped,
           (y.i = i /\ y.pc \in Past /\ Steady(i, y)') \/ y.i = None,
           \A e \in Event : Of[e] = i /\ posted'[e] > 0 =>
               born'[e] # None /\ (Covered(i, e)' \/ (y.i = i /\ e \in y.page \ y.todo)),
           \A e \in Event, r \in FD!Row :
               Of[e] = i /\ born'[e] # None /\ row'[i] = r /\ FD!Behind(e, r.success)' =>
                   posted'[e] > 0 \/ e \in passed'
    PROVE  Clean(i)'
<1>1. /\ ~wiped /\ \A u \in Thread \ {t} : thread[u].i = i => thread[u].pc \notin Past
  BY PastIsAlone
<1>2. /\ \A u \in Thread \ {t} : thread'[u] = thread[u]
      /\ thread'[t] = y
  BY DEF Moves
<1>3. \A u, v \in Thread :
          thread'[u].i = i /\ thread'[v].i = i /\ thread'[u].pc \in Past /\ thread'[v].pc \in Past => u = v
  BY <1>1, <1>2
<1>4. \A u \in Thread, z \in Run : thread'[u] = z /\ z.i = i /\ z.pc \in Past => Steady(i, z)'
  <2> SUFFICES ASSUME NEW u \in Thread, NEW z \in Run, thread'[u] = z, z.i = i, z.pc \in Past
               PROVE  Steady(i, z)'
    OBVIOUS
  <2>1. z = y /\ y.i = i
    BY <1>1, <1>2
  <2> QED
    BY <2>1, FeedAssumption DEF Steady
<1>5. \A e \in Event : Of[e] = i /\ posted'[e] > 0 =>
          /\ born'[e] # None
          /\ \/ Covered(i, e)'
             \/ \E u \in Thread : thread'[u].i = i /\ e \in thread'[u].page \ thread'[u].todo
  BY <1>2
<1> QED
  BY <1>1, <1>3, <1>4, <1>5 DEF Clean

\* The thread of a run has become x, and nothing else changed in `thread'.
LEMMA BecomesIs ==
    ASSUME FeedInv, NEW t \in Thread, NEW y \in Run, FD!Become(t, y)
    PROVE  Moves(t, y)
<1>1. thread \in [Thread -> Run]
  BY FeedHas
<1> QED
  BY <1>1 DEF FD!Become, Moves

\* The types of what a step of a run does to the threads.
LEMMA RunTypes ==
    ASSUME FeedInv, NEW t \in Thread, NEW y \in Run, Moves(t, y),
           y.pc = "idle" <=> y = FD!Idle, y.page # {} => y.pc \in {"post", "fail"}
    PROVE  /\ thread' \in [Thread -> Run]
           /\ \A u \in Thread : (thread'[u].pc = "idle") <=> (thread'[u] = FD!Idle)
           /\ \A u \in Thread : thread'[u].page # {} => thread'[u].pc \in {"post", "fail"}
<1>1. FD!TypeOK
  BY FeedHas
<1> QED
  <2> SUFFICES ASSUME NEW u \in Thread
               PROVE  /\ (thread'[u].pc = "idle") <=> (thread'[u] = FD!Idle)
                      /\ thread'[u].page # {} => thread'[u].pc \in {"post", "fail"}
    BY DEF Moves
  <2>1. CASE u = t
    BY <2>1 DEF Moves
  <2>2. CASE u # t
    <3>1. thread'[u] = thread[u]
      BY <2>2 DEF Moves
    <3>2. /\ (thread[u].pc = "idle") <=> (thread[u] = FD!Idle)
          /\ thread[u].page # {} => thread[u].pc \in {"post", "fail"}
      BY <1>1 DEF FD!TypeOK, Thread
    <3> QED
      BY <3>1, <3>2
  <2> QED
    BY <2>1, <2>2

\* The run of a thread that is not idle.
LEMMA RunIs ==
    ASSUME FeedInv, NEW t \in Thread, thread[t].pc # "idle"
    PROVE  \E x \in Run, i \in Integration :
             /\ thread[t] = x /\ x.i = i /\ Sound(x)
             /\ x.page # {} => x.pc \in {"post", "fail"}
<1>1. FD!TypeOK /\ FeedShape /\ thread \in [Thread -> Run]
  BY FeedHas
<1>2. PICK x \in Run : thread[t] = x
  BY <1>1
<1>3. Sound(x) /\ x.i \in Integration
  BY <1>1, <1>2 DEF FeedShape, Sound
<1>4. x.page # {} => x.pc \in {"post", "fail"}
  BY <1>1, <1>2 DEF FD!TypeOK, Thread
<1> QED
  BY <1>2, <1>3, <1>4

\* A run that begins.
LEMMA BeginKeeps ==
    ASSUME FeedInv, NEW t \in Thread, thread[t] = FD!Idle, NEW i \in Integration,
           integration[i] # "none", FD!Begin(t, i), acts' \in 0..MaxActs, agenda' \subseteq agenda,
           UNCHANGED <<now, born, forwards, integration, row, cache, queue, worker,
                       posted, wiped, passed, disturbed>>
    PROVE  FeedInv'
<1>1. FD!TypeOK /\ FeedShape
  BY FeedHas
<1> DEFINE y == [FD!Idle EXCEPT !.pc = "cursor", !.i = i]
<1>2. /\ y \in Run /\ y.pc = "cursor" /\ y.i = i /\ y.page = {} /\ y.todo = {}
      /\ y # FD!Idle
  BY DEF Run, FD!Idle
<1>3. FD!Become(t, y)
  BY DEF FD!Begin
<1> HIDE DEF y
<1>4. Moves(t, y)
  BY <1>2, <1>3, BecomesIs
<1>5. FD!TypeOK'
  <2>1. /\ thread' \in [Thread -> Run]
        /\ \A u \in Thread : (thread'[u].pc = "idle") <=> (thread'[u] = FD!Idle)
        /\ \A u \in Thread : thread'[u].page # {} => thread'[u].pc \in {"post", "fail"}
    BY <1>2, <1>4, RunTypes
  <2> QED
    BY <1>1, <2>1 DEF FD!TypeOK, FD!Connected, Thread, Run
<1>6. Sound(y)
  BY <1>2 DEF Sound
<1>7. \A k \in Integration : k # None
  BY FeedAssumption
<1> QED
  BY <1>1, <1>2, <1>4, <1>5, <1>6, <1>7, IdleIsRun, RunKeeps DEF FeedShape

LEMMA BeginsKeep ==
    ASSUME FeedInv, NEW i \in Integration,
           (\E t \in Worker : FD!RunByHand(t, i)) \/ FD!RunNextDue(i)
    PROVE  FeedInv'
<1>1. FD!TypeOK /\ FeedShape
  BY FeedHas
<1>2. ASSUME NEW t \in Worker, FD!RunByHand(t, i) PROVE FeedInv'
  <2>1. acts' \in 0..MaxActs
    BY <1>1, <1>2, SpentIs DEF FD!RunByHand
  <2>2. /\ thread[t] = FD!Idle /\ integration[i] # "none" /\ FD!Begin(t, i) /\ agenda' = agenda
        /\ UNCHANGED <<now, born, forwards, integration, row, cache, queue, worker,
                       posted, wiped, passed, disturbed>>
    BY <1>2 DEF FD!RunByHand, FD!Connected, FD!devices, FD!syslog, FD!history
  <2>3. t \in Thread
    BY DEF Thread, FD!Thread
  <2> QED
    BY <2>1, <2>2, <2>3, BeginKeeps
<1>3. CASE FD!RunNextDue(i)
  <2>1. /\ thread[Scheduler] = FD!Idle /\ i \in agenda /\ FD!Begin(Scheduler, i)
        /\ agenda' = agenda \ {i}
        /\ UNCHANGED <<acts, now, born, forwards, integration, row, cache, queue, worker,
                       posted, wiped, passed, disturbed>>
    BY <1>3 DEF FD!RunNextDue, FD!devices, FD!syslog, FD!history
  <2>2. integration[i] # "none" /\ acts' \in 0..MaxActs
    BY <1>1, <2>1 DEF FeedShape, FD!TypeOK
  <2>3. Scheduler \in Thread
    BY DEF Thread, FD!Thread
  <2> QED
    BY <2>1, <2>2, <2>3, BeginKeeps
<1> QED
  BY <1>2, <1>3

\* A run whose integration is gone is over, or fails.
LEMMA GoneKeeps ==
    ASSUME FeedInv, NEW t \in Thread, thread[t].pc # "idle",
           integration[thread[t].i] # "connected",
           UNCHANGED <<acts, now, born, forwards, integration, row, cache, agenda, queue,
                       worker, posted, wiped, passed, disturbed>>,
           \/ FD!Become(t, FD!Idle)
           \/ thread[t].pc = "fetch" /\ FD!Become(t, [thread[t] EXCEPT !.pc = "fail"])
    PROVE  FeedInv'
<1>1. FD!TypeOK /\ FeedShape
  BY FeedHas
<1>2. PICK x \in Run, i \in Integration :
        thread[t] = x /\ x.i = i /\ Sound(x) /\ (x.page # {} => x.pc \in {"post", "fail"})
  BY RunIs
<1>3. PICK y \in Run :
        /\ FD!Become(t, y) /\ Sound(y) /\ (y.i = x.i \/ y.i = None)
        /\ y.pc = "idle" <=> y = FD!Idle
        /\ y.page # {} => y.pc \in {"post", "fail"}
  <2>1. CASE FD!Become(t, FD!Idle)
    <3>1. FD!Idle.page = {} /\ FD!Idle.todo = {}
      BY DEF FD!Idle
    <3> QED
      BY <2>1, <3>1, IdleIsRun DEF Sound
  <2>2. CASE x.pc = "fetch" /\ FD!Become(t, [x EXCEPT !.pc = "fail"])
    <3> DEFINE y == [x EXCEPT !.pc = "fail"]
    <3>1. y \in Run /\ y.pc = "fail" /\ y.i = x.i /\ y.page = x.page /\ y.todo = x.todo
      BY DEF Run
    <3>2. y # FD!Idle
      BY <3>1 DEF FD!Idle
    <3> HIDE DEF y
    <3>3. FD!Become(t, y)
      BY <2>2 DEF y
    <3> QED
      BY <1>2, <2>2, <3>1, <3>2, <3>3 DEF Sound
  <2> QED
    BY <1>2, <2>1, <2>2
<1>4. Moves(t, y)
  BY <1>3, BecomesIs
<1>5. FD!TypeOK'
  <2>1. /\ thread' \in [Thread -> Run]
        /\ \A u \in Thread : (thread'[u].pc = "idle") <=> (thread'[u] = FD!Idle)
        /\ \A u \in Thread : thread'[u].page # {} => thread'[u].pc \in {"post", "fail"}
    BY <1>3, <1>4, RunTypes
  <2> QED
    BY <1>1, <2>1 DEF FD!TypeOK, FD!Connected, Thread, Run
<1> QED
  BY <1>1, <1>2, <1>3, <1>4, <1>5, RunKeeps DEF FeedShape

LEMMA ReadCursorKeeps ==
    ASSUME FeedInv, NEW t \in Thread, FD!ReadCursor(t)
    PROVE  FeedInv'
<1>1. /\ FD!TypeOK /\ FeedShape /\ row \in [Integration -> FD!Row \cup {None}]
      /\ now \in FD!Time /\ thread \in [Thread -> Run]
  BY FeedHas
<1>2. PICK x \in Run, i \in Integration :
        thread[t] = x /\ x.i = i /\ Sound(x) /\ (x.page # {} => x.pc \in {"post", "fail"})
  BY RunIs DEF FD!ReadCursor
<1>3. /\ x.pc = "cursor" /\ x.page = {} /\ x.todo = {}
      /\ UNCHANGED <<acts, now, born, forwards, integration, cache, agenda, queue, worker,
                     posted, wiped>>
  BY <1>2 DEF FD!ReadCursor, FD!devices, FD!syslog, Sound
<1>4. CASE FD!Vanished(t)
  BY <1>2, <1>3, <1>4, GoneKeeps DEF FD!Vanished, FD!Connected
<1>5. CASE ~FD!Vanished(t)
  <2>1. PICK s \in FD!Row : s = FD!Stored(i)
    BY <1>1, NewRowIs
  <2> DEFINE y == [x EXCEPT !.pc = "start", !.cursor = s.success]
  <2>2. /\ integration[i] = "connected" /\ FD!Become(t, y)
        /\ row' = [row EXCEPT ![i] = s] /\ passed' = passed
        /\ disturbed' = IF FD!Running(i) # {t} \/ wiped THEN disturbed \cup {i} ELSE disturbed
    BY <1>2, <1>5, <2>1 DEF FD!ReadCursor, FD!Connected
  <2>3. s.success \in FD!Time \cup {None}
    BY DEF FD!Row
  <2>4. /\ y \in Run /\ y.pc = "start" /\ y.i = i /\ y.cursor = s.success
        /\ y.page = {} /\ y.todo = {} /\ y # FD!Idle
    BY <1>2, <1>3, <2>3 DEF Run, FD!Idle
  <2> HIDE DEF y
  <2>5. Moves(t, y)
    BY <2>2, <2>4, BecomesIs
  <2>6. /\ row' \in [Integration -> FD!Row \cup {None}] /\ row'[i] = s
        /\ \A k \in Integration \ {i} : row'[k] = row[k]
    BY <1>1, <2>2
  <2>7. disturbed \subseteq disturbed' /\ disturbed' \subseteq Integration
    BY <1>1, <2>2 DEF FD!TypeOK
  <2>8. FD!TypeOK'
    <3>1. /\ thread' \in [Thread -> Run]
          /\ \A u \in Thread : (thread'[u].pc = "idle") <=> (thread'[u] = FD!Idle)
          /\ \A u \in Thread : thread'[u].page # {} => thread'[u].pc \in {"post", "fail"}
      BY <2>4, <2>5, RunTypes
    <3> QED
      BY <1>1, <1>3, <2>2, <2>6, <2>7, <3>1 DEF FD!TypeOK, FD!Connected, Thread, Run
  <2>9. ASSUME i \notin disturbed'
        PROVE  Clean(i)'
    <3>1. Clean(i) /\ FD!Running(i) = {t} /\ ~wiped
      BY <2>2, <2>7, <2>9 DEF FeedInv
    <3>2. \A u \in Thread : thread[u].i = i => u = t
      BY <3>1 DEF FD!Running, Thread
    <3>3. \A u \in Thread : thread'[u].i = i => u = t /\ thread'[u] = y
      BY <3>2, <2>5 DEF Moves
    <3>4. Steady(i, y)'
      BY <2>4, <2>6, FeedAssumption DEF Steady
    <3>5. \A e \in Event : Of[e] = i /\ posted[e] > 0 => born[e] # None /\ Covered(i, e)
      BY <1>2, <1>3, <3>1, <3>2 DEF Clean
    <3>6. \A e \in Event : Covered(i, e) => Covered(i, e)'
      BY <1>3, <2>1, <2>6 DEF Covered, FD!Stored
    <3>7. ASSUME NEW e \in Event, NEW r \in FD!Row, Of[e] = i, born'[e] # None, row'[i] = r,
                 FD!Behind(e, r.success)'
          PROVE  posted'[e] > 0 \/ e \in passed'
      <4>1. r = s /\ FD!Behind(e, s.success)
        BY <1>3, <2>6, <3>7 DEF FD!Behind
      <4>2. row[i] = s
        BY <2>1, <4>1, NewRowIs DEF FD!Stored, FD!Behind
      <4> QED
        BY <1>3, <2>2, <3>1, <3>7, <4>1, <4>2 DEF Clean
    <3> QED
      BY <1>3, <3>1, <3>3, <3>4, <3>5, <3>6, <3>7 DEF Clean
  <2>10. s.success = None \/ s.success <= now
    BY <1>1, <2>1, NewRowIs DEF FeedShape, FD!Stored
  <2>11. Sound(y)
    BY <1>2, <1>3, <2>4 DEF Sound
  <2> QED
    BY <1>1, <1>2, <1>3, <2>2, <2>4, <2>5, <2>6, <2>7, <2>8, <2>9, <2>10, <2>11, RunKeeps DEF FeedShape
<1> QED
  BY <1>4, <1>5

LEMMA StartRunKeeps ==
    ASSUME FeedInv, NEW t \in Thread, FD!StartRun(t)
    PROVE  FeedInv'
<1>1. /\ FD!TypeOK /\ FeedShape /\ row \in [Integration -> FD!Row \cup {None}]
      /\ now \in FD!Time /\ thread \in [Thread -> Run]
  BY FeedHas
<1>2. PICK x \in Run, i \in Integration :
        thread[t] = x /\ x.i = i /\ Sound(x) /\ (x.page # {} => x.pc \in {"post", "fail"})
  BY RunIs DEF FD!StartRun
<1>3. /\ x.pc = "start" /\ x.page = {} /\ x.todo = {}
      /\ UNCHANGED <<acts, now, born, forwards, integration, cache, agenda, queue, worker,
                     posted, wiped>>
  BY <1>2 DEF FD!StartRun, FD!devices, FD!syslog, Sound
<1>4. CASE FD!Vanished(t)
  BY <1>2, <1>3, <1>4, GoneKeeps DEF FD!Vanished, FD!Connected
<1>5. CASE ~FD!Vanished(t)
  <2>1. PICK s \in FD!Row : s = FD!Stored(i)
    BY <1>1, NewRowIs
  <2>2. PICK r \in FD!Row : r = FD!Started(s) /\ r.success = s.success
    BY <1>1, RowsAre
  <2> DEFINE y == [x EXCEPT !.pc = "fetch"]
  <2>3. /\ integration[i] = "connected" /\ FD!Become(t, y)
        /\ row' = [row EXCEPT ![i] = r] /\ UNCHANGED <<passed, disturbed>>
    BY <1>2, <1>5, <2>1, <2>2 DEF FD!StartRun, FD!Connected
  <2>4. /\ y \in Run /\ y.pc = "fetch" /\ y.i = i /\ y.cursor = x.cursor
        /\ y.page = {} /\ y.todo = {} /\ y # FD!Idle
    BY <1>2, <1>3 DEF Run, FD!Idle
  <2> HIDE DEF y
  <2>5. Moves(t, y)
    BY <2>3, <2>4, BecomesIs
  <2>6. /\ row' \in [Integration -> FD!Row \cup {None}] /\ row'[i] = r
        /\ \A k \in Integration \ {i} : row'[k] = row[k]
    BY <1>1, <2>3
  <2>8. FD!TypeOK'
    <3>1. /\ thread' \in [Thread -> Run]
          /\ \A u \in Thread : (thread'[u].pc = "idle") <=> (thread'[u] = FD!Idle)
          /\ \A u \in Thread : thread'[u].page # {} => thread'[u].pc \in {"post", "fail"}
      BY <2>4, <2>5, RunTypes
    <3> QED
      BY <1>1, <1>3, <2>3, <2>6, <3>1 DEF FD!TypeOK, FD!Connected, Thread, Run
  <2>9. ASSUME i \notin disturbed'
        PROVE  Clean(i)'
    <3>1. Clean(i) /\ x.pc \in Past
      BY <1>3, <2>3, <2>9 DEF FeedInv, Past
    <3>2. /\ Steady(i, x)
          /\ \A e \in Event : Of[e] = i /\ posted[e] > 0 => born[e] # None /\ Covered(i, e)
      BY <1>2, <1>3, <3>1, PastIsAlone
    <3>3. row[i] = s /\ row[i] # None /\ r # None
      BY <2>1, <3>2, FeedAssumption DEF Steady, FD!Stored
    <3>4. Steady(i, y)' /\ y.pc \in Past
      BY <2>2, <2>4, <2>6, <3>2, <3>3 DEF Steady, Past
    <3>5. \A e \in Event : Of[e] = i /\ posted'[e] > 0 => born'[e] # None /\ Covered(i, e)'
      BY <1>3, <2>2, <2>6, <3>2, <3>3 DEF Covered
    <3>6. \A e \in Event, q \in FD!Row :
              Of[e] = i /\ born'[e] # None /\ row'[i] = q /\ FD!Behind(e, q.success)' =>
                  posted'[e] > 0 \/ e \in passed'
      <4>1. ~wiped
        BY <1>2, <3>1, PastIsAlone
      <4> QED
        BY <1>3, <2>2, <2>3, <2>6, <3>1, <3>3, <4>1 DEF Clean, FD!Behind
    <3> QED
      BY <1>2, <1>3, <2>4, <2>5, <3>1, <3>4, <3>5, <3>6, OwnKeeps
  <2>10. r.success = None \/ r.success <= now
    BY <1>1, <2>1, <2>2, NewRowIs DEF FeedShape, FD!Stored
  <2>11. Sound(y)
    BY <1>2, <1>3, <2>4 DEF Sound
  <2> QED
    BY <1>1, <1>2, <1>3, <2>3, <2>4, <2>5, <2>6, <2>8, <2>9, <2>10, <2>11, RunKeeps DEF FeedShape
<1> QED
  BY <1>4, <1>5

\* What the widget service reads is of the device.
LEMMA ReadingsAre ==
    ASSUME FeedInv, NEW i \in Integration
    PROVE  \A c \in {FD!Reading(i)} \cup FD!FaultyReadings(i) :
             /\ c \in [at : FD!Time, ok : BOOLEAN, page : SUBSET Event]
             /\ c.page \subseteq FD!Log(i)
<1>1. /\ FD!TypeOK /\ FeedShape /\ now \in FD!Time
  BY FeedHas
<1>2. FD!Latest(i) \subseteq FD!Log(i) /\ FD!Log(i) \subseteq Event
  BY DEF FD!Latest, FD!Log
<1>3. ASSUME NEW p \in SUBSET Event, p \subseteq FD!Log(i), NEW b \in BOOLEAN,
             NEW c, c = [at |-> now, ok |-> b, page |-> p]
      PROVE  c \in [at : FD!Time, ok : BOOLEAN, page : SUBSET Event] /\ c.page \subseteq FD!Log(i)
  <2>1. PICK n \in FD!Time : n = now
    BY <1>1
  <2> QED
    BY <1>3, <2>1
<1>4. ASSUME NEW c \in FD!FaultyReadings(i)
      PROVE  c \in [at : FD!Time, ok : BOOLEAN, page : SUBSET Event] /\ c.page \subseteq FD!Log(i)
  <2>1. \/ c = [at |-> now, ok |-> TRUE, page |-> FD!Latest(i) \ Login]
        \/ c = [at |-> now, ok |-> FALSE, page |-> {}]
    BY <1>4 DEF FD!FaultyReadings
  <2> QED
    BY <1>2, <1>3, <2>1
<1>5. ASSUME NEW c, c = FD!Reading(i)
      PROVE  c \in [at : FD!Time, ok : BOOLEAN, page : SUBSET Event] /\ c.page \subseteq FD!Log(i)
  <2>1. CASE cache[i] # None /\ now < cache[i].at + Ttl
    BY <1>1, <1>5, <2>1 DEF FD!Reading, FD!TypeOK, FeedShape
  <2>2. CASE ~(cache[i] # None /\ now < cache[i].at + Ttl)
    <3>1. c = [at |-> now, ok |-> TRUE, page |-> FD!Latest(i)]
      BY <1>5, <2>2 DEF FD!Reading
    <3> QED
      BY <1>2, <1>3, <3>1
  <2> QED
    BY <2>1, <2>2
<1> QED
  BY <1>4, <1>5

LEMMA FetchKeeps ==
    ASSUME FeedInv, NEW t \in Thread, FD!Fetch(t)
    PROVE  FeedInv'
<1>1. /\ FD!TypeOK /\ FeedShape /\ row \in [Integration -> FD!Row \cup {None}]
      /\ now \in FD!Time /\ thread \in [Thread -> Run]
  BY FeedHas
<1>2. PICK x \in Run, i \in Integration :
        thread[t] = x /\ x.i = i /\ Sound(x) /\ (x.page # {} => x.pc \in {"post", "fail"})
  BY RunIs DEF FD!Fetch
<1>3. /\ x.pc = "fetch" /\ x.page = {} /\ x.todo = {} /\ integration[i] = "connected"
      /\ UNCHANGED <<now, born, forwards, integration, row, agenda, queue, worker,
                     posted, wiped, passed, disturbed>>
  BY <1>2 DEF FD!Fetch, FD!Connected, FD!devices, FD!syslog, FD!history, Sound
<1>4. PICK c \in {FD!Reading(i)} \cup FD!FaultyReadings(i) :
        /\ FD!Spend(IF c = FD!Reading(i) THEN 0 ELSE 1)
        /\ cache' = [cache EXCEPT ![i] = c]
        /\ FD!Become(t, IF c.ok
                        THEN [x EXCEPT !.pc = "post", !.page = c.page,
                                       !.todo = FD!Fresh(c.page, x.cursor)]
                        ELSE [x EXCEPT !.pc = "fail"])
  BY <1>2 DEF FD!Fetch
<1>5. /\ c \in [at : FD!Time, ok : BOOLEAN, page : SUBSET Event]
      /\ c.page \subseteq FD!Log(i)
  BY ReadingsAre
<1>6. acts' \in 0..MaxActs
  <2>1. (IF c = FD!Reading(i) THEN 0 ELSE 1) \in Nat
    OBVIOUS
  <2> QED
    BY <1>1, <1>4, <2>1, SpentIs
<1>7. PICK f \in SUBSET c.page : f = FD!Fresh(c.page, x.cursor)
  BY DEF FD!Fresh
<1>8. PICK y \in Run :
        /\ FD!Become(t, y) /\ y.i = i /\ y.cursor = x.cursor /\ y # FD!Idle
        /\ \/ y.pc = "post" /\ y.page = c.page /\ y.todo = f
           \/ y.pc = "fail" /\ y.page = {} /\ y.todo = {}
  <2>1. CASE c.ok
    <3> DEFINE y == [x EXCEPT !.pc = "post", !.page = c.page, !.todo = f]
    <3>1. /\ y \in Run /\ y.pc = "post" /\ y.i = i /\ y.cursor = x.cursor
          /\ y.page = c.page /\ y.todo = f
      <4>1. PICK p \in SUBSET Event : p = c.page /\ f \in SUBSET Event
        BY <1>5
      <4> QED
        BY <1>2, <4>1 DEF Run
    <3>2. y # FD!Idle
      BY <3>1 DEF FD!Idle
    <3> HIDE DEF y
    <3>3. FD!Become(t, y)
      BY <1>4, <1>7, <2>1 DEF y
    <3> QED
      BY <3>1, <3>2, <3>3
  <2>2. CASE ~c.ok
    <3> DEFINE y == [x EXCEPT !.pc = "fail"]
    <3>1. /\ y \in Run /\ y.pc = "fail" /\ y.i = i /\ y.cursor = x.cursor
          /\ y.page = {} /\ y.todo = {}
      BY <1>2, <1>3 DEF Run
    <3>2. y # FD!Idle
      BY <3>1 DEF FD!Idle
    <3> HIDE DEF y
    <3>3. FD!Become(t, y)
      BY <1>4, <2>2 DEF y
    <3> QED
      BY <3>1, <3>2, <3>3
  <2> QED
    BY <2>1, <2>2
<1>9. Moves(t, y)
  BY <1>8, BecomesIs
<1>10. y.pc # "idle" /\ y.pc \in Past /\ (y.page # {} => y.pc \in {"post", "fail"})
  BY <1>8 DEF Past
<1>11. /\ cache' \in [Integration -> {None} \cup [at : FD!Time, ok : BOOLEAN, page : SUBSET Event]]
       /\ cache'[i] = c /\ \A k \in Integration \ {i} : cache'[k] = cache[k]
  BY <1>1, <1>4, <1>5 DEF FD!TypeOK
<1>12. FD!TypeOK'
  <2>1. /\ thread' \in [Thread -> Run]
        /\ \A u \in Thread : (thread'[u].pc = "idle") <=> (thread'[u] = FD!Idle)
        /\ \A u \in Thread : thread'[u].page # {} => thread'[u].pc \in {"post", "fail"}
    BY <1>8, <1>9, <1>10, RunTypes
  <2> QED
    BY <1>1, <1>3, <1>6, <1>11, <2>1 DEF FD!TypeOK, FD!Connected, Thread, Run
<1>13. Sound(y)
  BY <1>2, <1>3, <1>5, <1>7, <1>8 DEF Sound, FD!Log
<1>14. ASSUME i \notin disturbed'
       PROVE  Clean(i)'
  <2>1. Clean(i) /\ x.pc \in Past
    BY <1>3, <1>14 DEF FeedInv, Past
  <2>2. /\ Steady(i, x) /\ ~wiped
        /\ \A e \in Event : Of[e] = i /\ posted[e] > 0 => born[e] # None /\ Covered(i, e)
    BY <1>2, <1>3, <2>1, PastIsAlone
  <2>3. Steady(i, y)'
    <3>1. \A e \in y.page : e \in y.todo <=> ~FD!Behind(e, x.cursor)
      BY <1>7, <1>8 DEF FD!Fresh
    <3>2. \A e : FD!Behind(e, x.cursor)' <=> FD!Behind(e, x.cursor)
      BY <1>3 DEF FD!Behind
    <3>3. y.todo \subseteq y.page
      BY <1>13 DEF Sound
    <3> QED
      BY <1>3, <1>8, <2>2, <3>1, <3>2, <3>3 DEF Steady
  <2>4. \A e \in Event : Of[e] = i /\ posted'[e] > 0 => born'[e] # None /\ Covered(i, e)'
    BY <1>3, <2>2 DEF Covered
  <2>5. \A e \in Event, q \in FD!Row :
            Of[e] = i /\ born'[e] # None /\ row'[i] = q /\ FD!Behind(e, q.success)' =>
                posted'[e] > 0 \/ e \in passed'
    BY <1>3, <2>1, <2>2 DEF Clean, FD!Behind
  <2> QED
    BY <1>2, <1>3, <1>8, <1>9, <1>10, <2>1, <2>3, <2>4, <2>5, OwnKeeps
<1>15. \A k \in Integration : cache'[k] # None => cache'[k].page \subseteq FD!Log(k)
  BY <1>1, <1>5, <1>11 DEF FeedShape
<1> QED
  BY <1>1, <1>2, <1>3, <1>8, <1>9, <1>12, <1>13, <1>14, <1>15, RunKeeps DEF FeedShape

LEMMA FetchGoneKeeps ==
    ASSUME FeedInv, NEW t \in Thread, FD!FetchGone(t)
    PROVE  FeedInv'
<1>1. PICK x \in Run, i \in Integration : thread[t] = x /\ x.i = i
  BY RunIs DEF FD!FetchGone
<1> QED
  BY <1>1, GoneKeeps DEF FD!FetchGone, FD!Connected, FD!devices, FD!syslog, FD!history

LEMMA PlusIs ==
    ASSUME NEW n \in 0..2, NEW k \in 0..2
    PROVE  FD!Plus(n, k) \in 0..2 /\ (n > 0 \/ k > 0 => FD!Plus(n, k) > 0)
BY DEF FD!Plus

LEMMA PostGroupKeeps ==
    ASSUME FeedInv, NEW t \in Thread, NEW e \in Event, FD!PostGroup(t, e)
    PROVE  FeedInv'
<1>1. /\ FD!TypeOK /\ FeedShape /\ row \in [Integration -> FD!Row \cup {None}]
      /\ now \in FD!Time /\ thread \in [Thread -> Run]
  BY FeedHas
<1>2. PICK x \in Run, i \in Integration :
        thread[t] = x /\ x.i = i /\ Sound(x) /\ (x.page # {} => x.pc \in {"post", "fail"})
  BY RunIs DEF FD!PostGroup
<1>3. PICK S \in SUBSET x.todo : S = {f \in x.todo : Key[f] = Key[e]}
  OBVIOUS
<1>4. PICK o \in FD!PostOutcomes :
        /\ FD!Spend(FD!Cost(o))
        /\ posted' = [f \in Event |-> IF f \in S THEN FD!Plus(posted[f], o.served) ELSE posted[f]]
        /\ FD!Become(t, IF o.ok THEN [x EXCEPT !.todo = @ \ S] ELSE [x EXCEPT !.pc = "fail"])
        /\ disturbed' = IF o = FD!Smooth THEN disturbed ELSE disturbed \cup {x.i}
  BY <1>2, <1>3 DEF FD!PostGroup
<1>5. /\ x.pc = "post"
      /\ UNCHANGED <<now, born, forwards, integration, row, cache, agenda, queue, worker,
                     wiped, passed>>
  BY <1>2 DEF FD!PostGroup, FD!devices, FD!syslog
<1>6. acts' \in 0..MaxActs
  BY <1>1, <1>4, OutcomesAre, SpentIs
<1>7. PICK y \in Run :
        /\ FD!Become(t, y) /\ y.i = i /\ y.cursor = x.cursor /\ y # FD!Idle
        /\ y.page = x.page /\ y.todo \subseteq x.todo
        /\ \/ y.pc = "post" /\ y.todo = x.todo \ S
           \/ y.pc = "fail" /\ ~o.ok
  <2>1. CASE o.ok
    <3> DEFINE y == [x EXCEPT !.todo = x.todo \ S]
    <3>1. /\ y \in Run /\ y.pc = "post" /\ y.i = i /\ y.cursor = x.cursor
          /\ y.page = x.page /\ y.todo = x.todo \ S
      BY <1>2, <1>5 DEF Run
    <3>2. y # FD!Idle
      BY <3>1 DEF FD!Idle
    <3>3. FD!Become(t, y)
      BY <1>4, <2>1
    <3> HIDE DEF y
    <3> QED
      BY <3>1, <3>2, <3>3
  <2>2. CASE ~o.ok
    <3> DEFINE y == [x EXCEPT !.pc = "fail"]
    <3>1. /\ y \in Run /\ y.pc = "fail" /\ y.i = i /\ y.cursor = x.cursor
          /\ y.page = x.page /\ y.todo = x.todo
      BY <1>2 DEF Run
    <3>2. y # FD!Idle
      BY <3>1 DEF FD!Idle
    <3>3. FD!Become(t, y)
      BY <1>4, <2>2
    <3> HIDE DEF y
    <3> QED
      BY <2>2, <3>1, <3>2, <3>3
  <2> QED
    BY <2>1, <2>2
<1>8. Moves(t, y)
  BY <1>7, BecomesIs
<1>9. y.pc # "idle" /\ y.pc \in Past /\ y.pc \in {"post", "fail"}
  BY <1>7 DEF Past
<1>10. x.todo \subseteq x.page /\ \A f \in x.page : f \in Event /\ born[f] # None /\ Of[f] = i
  BY <1>2 DEF Sound, Run
<1>11. posted' \in [Event -> 0..2] /\ \A f \in Event \ S : posted'[f] = posted[f]
  <2>1. \A f \in Event : FD!Plus(posted[f], o.served) \in 0..2 /\ posted[f] \in 0..2
    BY <1>1, OutcomesAre, PlusIs DEF FD!TypeOK
  <2> QED
    BY <1>4, <2>1
<1>12. FD!TypeOK'
  <2>1. /\ thread' \in [Thread -> Run]
        /\ \A u \in Thread : (thread'[u].pc = "idle") <=> (thread'[u] = FD!Idle)
        /\ \A u \in Thread : thread'[u].page # {} => thread'[u].pc \in {"post", "fail"}
    BY <1>7, <1>8, <1>9, RunTypes
  <2>2. disturbed' \subseteq Integration
    BY <1>1, <1>2, <1>4 DEF FD!TypeOK
  <2> QED
    BY <1>1, <1>5, <1>6, <1>11, <2>1, <2>2 DEF FD!TypeOK, FD!Connected, Thread, Run
<1>13. Sound(y)
  BY <1>2, <1>5, <1>7, <1>10 DEF Sound
<1>14. ASSUME integration[i] = "connected", i \notin disturbed'
       PROVE  Clean(i)'
  <2>1. o = FD!Smooth /\ o.served = 1 /\ o.ok
    BY <1>2, <1>4, <1>14 DEF FD!Smooth
  <2>2. y.pc = "post" /\ y.todo = x.todo \ S
    BY <1>7, <2>1
  <2>3. Clean(i) /\ x.pc \in Past
    BY <1>4, <1>5, <1>14, <2>1 DEF FeedInv, Past
  <2>4. /\ Steady(i, x) /\ ~wiped
        /\ \A f \in Event : Of[f] = i /\ posted[f] > 0 =>
              born[f] # None /\ (Covered(i, f) \/ f \in x.page \ x.todo)
    BY <1>2, <2>3, PastIsAlone
  <2>5. \A f \in S : posted'[f] > 0
    <3> SUFFICES ASSUME NEW f \in S PROVE posted'[f] > 0
      OBVIOUS
    <3>1. f \in Event /\ posted[f] \in 0..2
      BY <1>1, <1>3, <1>10 DEF FD!TypeOK
    <3>2. posted'[f] = FD!Plus(posted[f], 1)
      BY <1>4, <2>1, <3>1
    <3>3. 1 \in 0..2
      OBVIOUS
    <3> QED
      BY <3>1, <3>2, <3>3, PlusIs
  <2>6. \A f \in Event : posted[f] > 0 => posted'[f] > 0
    BY <1>11, <2>5
  <2>7. Steady(i, y)'
    <3>1. \A f : FD!Behind(f, x.cursor)' <=> FD!Behind(f, x.cursor)
      BY <1>5 DEF FD!Behind
    <3>2. \A f \in y.page \ y.todo : posted'[f] > 0 \/ FD!Behind(f, x.cursor)
      BY <1>7, <1>10, <2>2, <2>4, <2>5, <2>6 DEF Steady
    <3> QED
      BY <1>5, <1>7, <2>2, <2>4, <3>1, <3>2 DEF Steady
  <2>8. \A f \in Event : Of[f] = i /\ posted'[f] > 0 =>
            born'[f] # None /\ (Covered(i, f)' \/ f \in y.page \ y.todo)
    <3> SUFFICES ASSUME NEW f \in Event, Of[f] = i, posted'[f] > 0
                 PROVE  born'[f] # None /\ (Covered(i, f)' \/ f \in y.page \ y.todo)
      OBVIOUS
    <3>1. CASE f \in S
      BY <1>3, <1>5, <1>7, <1>10, <2>2, <3>1
    <3>2. CASE f \notin S
      <4>1. posted[f] > 0
        BY <1>11, <3>2
      <4> QED
        BY <1>5, <1>7, <2>2, <2>4, <4>1 DEF Covered
    <3> QED
      BY <3>1, <3>2
  <2>9. \A f \in Event, q \in FD!Row :
            Of[f] = i /\ born'[f] # None /\ row'[i] = q /\ FD!Behind(f, q.success)' =>
                posted'[f] > 0 \/ f \in passed'
    BY <1>5, <2>3, <2>4, <2>6 DEF Clean, FD!Behind
  <2> QED
    BY <1>2, <1>5, <1>7, <1>8, <1>9, <2>3, <2>7, <2>8, <2>9, OwnKeeps
<1>15. disturbed \subseteq disturbed' /\ \A f \in Event : posted'[f] = posted[f] \/ Of[f] = x.i
  BY <1>2, <1>3, <1>4, <1>10, <1>11
<1> QED
  BY <1>1, <1>2, <1>5, <1>7, <1>8, <1>12, <1>13, <1>14, <1>15, RunKeeps DEF FeedShape

\* A run that is finished or has failed.
LEMMA EndsKeep ==
    ASSUME FeedInv, NEW t \in Thread, FD!FinishRun(t) \/ FD!FailRun(t)
    PROVE  FeedInv'
<1>1. /\ FD!TypeOK /\ FeedShape /\ row \in [Integration -> FD!Row \cup {None}]
      /\ now \in FD!Time /\ thread \in [Thread -> Run]
  BY FeedHas
<1>2. PICK x \in Run, i \in Integration :
        thread[t] = x /\ x.i = i /\ Sound(x) /\ (x.page # {} => x.pc \in {"post", "fail"})
  BY RunIs DEF FD!FinishRun, FD!FailRun
<1>3. /\ (x.pc = "post" /\ x.todo = {} /\ FD!FinishRun(t)) \/ (x.pc = "fail" /\ FD!FailRun(t))
      /\ UNCHANGED <<acts, now, born, forwards, integration, cache, agenda, queue, worker,
                     posted, wiped>>
  BY <1>2 DEF FD!FinishRun, FD!FailRun, FD!devices, FD!syslog
<1>4. CASE FD!Vanished(t)
  BY <1>2, <1>3, <1>4, GoneKeeps DEF FD!Vanished, FD!Connected
<1>5. CASE ~FD!Vanished(t)
  <2>1. PICK s \in FD!Row : s = FD!Stored(i)
    BY <1>1, NewRowIs
  <2>2. PICK r \in FD!Row :
          \/ x.pc = "post" /\ x.todo = {} /\ r = FD!Finished(s, TRUE) /\ r.success = now
          \/ x.pc = "fail" /\ r = FD!Finished(s, FALSE) /\ r.success = s.success
    BY <1>1, <1>3, RowsAre
  <2>3. /\ integration[i] = "connected" /\ FD!Become(t, FD!Idle)
        /\ row' = [row EXCEPT ![i] = r] /\ disturbed' = disturbed
        /\ IF x.pc = "post" THEN passed' = passed \cup (FD!Log(i) \ x.page) ELSE passed' = passed
    BY <1>2, <1>3, <1>5, <2>1, <2>2 DEF FD!FinishRun, FD!FailRun, FD!Connected
  <2> DEFINE y == FD!Idle
  <2>4. y \in Run /\ y.i = None /\ y.pc = "idle" /\ y.page = {} /\ y.todo = {}
    BY IdleIsRun DEF FD!Idle
  <2>5. Moves(t, y)
    BY <2>3, <2>4, BecomesIs
  <2>6. /\ row' \in [Integration -> FD!Row \cup {None}] /\ row'[i] = r
        /\ \A k \in Integration \ {i} : row'[k] = row[k]
    BY <1>1, <2>3
  <2>7. passed \subseteq passed' /\ passed' \subseteq Event
    BY <1>1, <2>3 DEF FD!TypeOK, FD!Log
  <2>8. FD!TypeOK'
    <3>1. /\ thread' \in [Thread -> Run]
          /\ \A u \in Thread : (thread'[u].pc = "idle") <=> (thread'[u] = FD!Idle)
          /\ \A u \in Thread : thread'[u].page # {} => thread'[u].pc \in {"post", "fail"}
      BY <2>4, <2>5, RunTypes
    <3> QED
      BY <1>1, <1>3, <2>3, <2>6, <2>7, <3>1 DEF FD!TypeOK, FD!Connected, Thread, Run
  <2> HIDE DEF y
  <2>9. ASSUME i \notin disturbed'
        PROVE  Clean(i)'
    <3>1. Clean(i) /\ x.pc \in Past
      BY <1>3, <2>3, <2>9 DEF FeedInv, Past
    <3>2. /\ Steady(i, x) /\ ~wiped
          /\ \A e \in Event : Of[e] = i /\ posted[e] > 0 =>
                born[e] # None /\ (Covered(i, e) \/ e \in x.page \ x.todo)
      BY <1>2, <3>1, PastIsAlone
    <3>3. row[i] = s /\ row[i] # None /\ r # None /\ x.cursor = s.success /\ now # None
      BY <2>1, <3>2, FeedHas, FeedAssumption DEF Steady, FD!Stored
    <3>4. \A e \in Event : Of[e] = i /\ posted'[e] > 0 => born'[e] # None /\ Covered(i, e)'
      <4>1. CASE x.pc = "post"
        BY <1>1, <1>3, <2>2, <2>6, <3>2, <3>3, <4>1 DEF Covered, FeedShape
      <4>2. CASE x.pc = "fail"
        BY <1>3, <2>2, <2>6, <3>2, <3>3, <4>2 DEF Covered, Steady
      <4> QED
        BY <1>3, <4>1, <4>2
    <3>5. \A e \in Event : Of[e] = i /\ born[e] # None /\ FD!Behind(e, s.success) =>
              posted[e] > 0 \/ e \in passed
      BY <3>1, <3>2, <3>3 DEF Clean
    <3>6. \A e \in Event, q \in FD!Row :
              Of[e] = i /\ born'[e] # None /\ row'[i] = q /\ FD!Behind(e, q.success)' =>
                  posted'[e] > 0 \/ e \in passed'
      <4>1. CASE x.pc = "post"
        <5> SUFFICES ASSUME NEW e \in Event, Of[e] = i, born[e] # None
                     PROVE  posted[e] > 0 \/ e \in passed'
          BY <1>3
        <5>1. CASE e \in x.page
          BY <1>3, <2>7, <3>2, <3>3, <3>5, <4>1, <5>1 DEF Steady
        <5>2. CASE e \notin x.page
          BY <2>3, <4>1, <5>2 DEF FD!Log
        <5> QED
          BY <5>1, <5>2
      <4>2. CASE x.pc = "fail"
        BY <1>3, <2>2, <2>6, <2>7, <3>5, <4>2 DEF FD!Behind
      <4> QED
        BY <1>3, <4>1, <4>2
    <3> QED
      BY <1>2, <1>3, <2>4, <2>5, <3>1, <3>4, <3>6, OwnKeeps
  <2>10. r.success = None \/ r.success <= now
    <3>1. now <= now
      BY <1>1, FeedHas
    <3>2. s.success = None \/ s.success <= now
      BY <1>1, <2>1, NewRowIs DEF FeedShape, FD!Stored
    <3> QED
      BY <2>2, <3>1, <3>2
  <2>11. Sound(y)
    BY <2>4 DEF Sound
  <2> QED
    BY <1>1, <1>2, <1>3, <2>3, <2>4, <2>5, <2>6, <2>7, <2>8, <2>9, <2>10, <2>11, RunKeeps DEF FeedShape
<1> QED
  BY <1>4, <1>5

\* The reset wipes what was posted, and disturbs the runs that are under way.
LEMMA WipeKeeps == FeedInv /\ FD!Wipe => FeedInv'
<1> SUFFICES ASSUME FeedInv, FD!Wipe PROVE FeedInv'
  OBVIOUS
<1>1. FD!TypeOK /\ FeedShape /\ thread \in [Thread -> Run]
  BY FeedHas
<1>2. /\ wiped' = TRUE /\ posted' = [e \in Event |-> 0]
      /\ disturbed \subseteq disturbed' /\ disturbed' \subseteq Integration
      /\ \A i \in Integration : FD!Running(i) # {} => i \in disturbed'
      /\ UNCHANGED <<now, born, forwards, integration, row, cache, thread, agenda, queue,
                     worker, passed>>
  BY <1>1 DEF FD!Wipe, FD!devices, FD!polling, FD!syslog, FD!TypeOK
<1>3. FD!TypeOK'
  <2>1. acts' \in 0..MaxActs
    BY <1>1, SpentIs DEF FD!Wipe
  <2> QED
    BY <1>1, <1>2, <2>1 DEF FD!TypeOK, FD!Connected
<1>4. \A e \in Event : posted'[e] = 0
  BY <1>2
<1>5. \A t \in Thread, x \in Run : thread[t] = x => Sound(x)'
  <2> SUFFICES ASSUME NEW x \in Run, Sound(x) PROVE Sound(x)'
    BY <1>1 DEF FeedShape
  <2> QED
    BY <1>2 DEF Sound
<1>6. FeedShape'
  <2>1. \A i \in Integration : cache'[i] # None => cache'[i].page \subseteq FD!Log(i)'
    BY <1>1, <1>2 DEF FeedShape, FD!Log
  <2> QED
    BY <1>1, <1>2, <1>4, <1>5, <2>1 DEF FeedShape
<1>7. ASSUME NEW i \in Integration, i \notin disturbed' PROVE Clean(i)'
  <2>1. \A t \in Thread : thread'[t].i # i
    BY <1>2, <1>7 DEF FD!Running, Thread
  <2> QED
    BY <1>2, <1>4, <2>1 DEF Clean
<1> QED
  BY <1>3, <1>6, <1>7 DEF FeedInv

\* The cursors start again where nothing is posted and nothing reads.
LEMMA ResetCursorsKeeps == FeedInv /\ FD!ResetCursors => FeedInv'
<1> SUFFICES ASSUME FeedInv, FD!ResetCursors PROVE FeedInv'
  OBVIOUS
<1>1. /\ FD!TypeOK /\ FeedShape /\ thread \in [Thread -> Run]
      /\ row \in [Integration -> FD!Row \cup {None}] /\ now \in FD!Time
  BY FeedHas
<1>2. /\ wiped /\ wiped' = FALSE /\ passed' = {}
      /\ row' = [i \in Integration |-> FD!Rewound(row[i])]
      /\ UNCHANGED <<acts, now, born, forwards, integration, cache, thread, agenda, queue,
                     worker, posted, disturbed>>
  BY DEF FD!ResetCursors, FD!devices, FD!polling, FD!syslog
<1>3. \A i \in Integration :
          \/ row'[i] = None /\ row[i] = None
          \/ row'[i] \in FD!Row /\ row'[i].success = None /\ row[i] # None
  <2> SUFFICES ASSUME NEW i \in Integration
               PROVE  \/ row'[i] = None /\ row[i] = None
                      \/ row'[i] \in FD!Row /\ row'[i].success = None /\ row[i] # None
    OBVIOUS
  <2>1. row'[i] = FD!Rewound(row[i])
    BY <1>2
  <2>2. CASE row[i] = None
    BY <2>1, <2>2 DEF FD!Rewound
  <2>3. CASE row[i] # None
    <3>1. PICK r \in FD!Row : r = row[i] /\ r # None
      BY <1>1, <2>3
    <3> QED
      BY <1>1, <2>1, <3>1, RowsAre
  <2> QED
    BY <2>2, <2>3
<1>4. FD!TypeOK'
  <2>1. row' \in [Integration -> FD!Row \cup {None}]
    BY <1>2, <1>3
  <2>2. \A i \in Integration : row'[i] # None => i \in FD!Connected'
    BY <1>1, <1>2, <1>3 DEF FD!TypeOK, FD!Connected
  <2> QED
    BY <1>1, <1>2, <2>1, <2>2 DEF FD!TypeOK, FD!Connected
<1>5. \A t \in Thread, x \in Run : thread[t] = x => Sound(x)'
  <2> SUFFICES ASSUME NEW x \in Run, Sound(x) PROVE Sound(x)'
    BY <1>1 DEF FeedShape
  <2> QED
    BY <1>2 DEF Sound
<1>6. FeedShape'
  <2>1. \A i \in Integration : cache'[i] # None => cache'[i].page \subseteq FD!Log(i)'
    BY <1>1, <1>2 DEF FeedShape, FD!Log
  <2>2. \A i \in Integration, r \in FD!Row : row'[i] = r => r.success = None \/ r.success <= now'
    BY <1>3, FeedAssumption
  <2> QED
    BY <1>1, <1>2, <1>5, <2>1, <2>2 DEF FeedShape
<1>7. ASSUME NEW i \in Integration, integration'[i] = "connected", i \notin disturbed'
      PROVE  Clean(i)'
  <2>1. Clean(i)
    BY <1>2, <1>7 DEF FeedInv
  <2>2. /\ \A e \in Event : Of[e] = i => posted'[e] = 0
        /\ \A t \in Thread : thread'[t].i = i => thread'[t].pc \notin Past
    BY <1>2, <2>1 DEF Clean
  <2>3. \A r \in FD!Row : row'[i] = r => r.success = None
    BY <1>3, FeedAssumption
  <2> QED
    BY <1>2, <2>2, <2>3 DEF Clean, FD!Behind
<1> QED
  BY <1>4, <1>6, <1>7 DEF FeedInv

\* A restart ends every run, which disturbs its integration.
LEMMA RestartKeeps == FeedInv /\ FD!Restart => FeedInv'
<1> SUFFICES ASSUME FeedInv, FD!Restart PROVE FeedInv'
  OBVIOUS
<1>1. FD!TypeOK /\ FeedShape /\ thread \in [Thread -> Run]
  BY FeedHas
<1>2. /\ thread' = [t \in Thread |-> FD!Idle] /\ wiped' = FALSE /\ worker' = None
      /\ cache' = [i \in Integration |-> None] /\ agenda' = {} /\ queue' = <<>>
      /\ disturbed \subseteq disturbed' /\ disturbed' \subseteq Integration
      /\ \A i \in Integration : wiped \/ FD!Running(i) # {} => i \in disturbed'
      /\ UNCHANGED <<now, born, forwards, integration, row, posted, passed>>
  BY <1>1 DEF FD!Restart, FD!devices, FD!TypeOK, Thread
<1>3. /\ FD!Idle \in Run /\ FD!Idle.i = None /\ FD!Idle.pc = "idle"
      /\ FD!Idle.page = {} /\ FD!Idle.todo = {}
  BY IdleIsRun DEF FD!Idle
<1>4. thread' \in [Thread -> Run] /\ \A t \in Thread : thread'[t] = FD!Idle
  BY <1>2, <1>3
<1>5. FD!TypeOK'
  <2>1. acts' \in 0..MaxActs
    BY <1>1, SpentIs DEF FD!Restart
  <2>2. queue' \in Seq(Event) /\ Len(queue') <= QueueSize
    BY <1>2, FeedAssumption
  <2> QED
    BY <1>1, <1>2, <1>3, <1>4, <2>1, <2>2 DEF FD!TypeOK, FD!Connected, Thread, Run
<1>6. FeedShape'
  <2>1. \A t \in Thread, x \in Run : thread'[t] = x => Sound(x)'
    BY <1>3, <1>4 DEF Sound
  <2> QED
    BY <1>1, <1>2, <2>1 DEF FeedShape
<1>7. ASSUME NEW i \in Integration, integration'[i] = "connected", i \notin disturbed'
      PROVE  Clean(i)'
  <2>1. Clean(i) /\ ~wiped
    BY <1>2, <1>7 DEF FeedInv
  <2>2. \A t \in Thread : thread[t].i # i
    BY <1>2, <1>7 DEF FD!Running, Thread
  <2>3. \A t \in Thread : thread'[t].pc \notin Past
    BY <1>3, <1>4 DEF Past
  <2>4. \A e \in Event : Of[e] = i /\ posted'[e] > 0 => born'[e] # None /\ Covered(i, e)'
    BY <1>2, <2>1, <2>2 DEF Clean, Covered
  <2>5. \A e \in Event, r \in FD!Row :
            Of[e] = i /\ born'[e] # None /\ row'[i] = r /\ FD!Behind(e, r.success)' =>
                posted'[e] > 0 \/ e \in passed'
    BY <1>2, <2>1 DEF Clean, FD!Behind
  <2> QED
    BY <1>2, <2>3, <2>4, <2>5 DEF Clean
<1> QED
  BY <1>5, <1>6, <1>7 DEF FeedInv

LEMMA NextFeed == FeedInv /\ FD!Next => FeedInv'
<1> SUFFICES ASSUME FeedInv, FD!Next PROVE FeedInv'
  OBVIOUS
<1>1. CASE FD!Tick \/ FD!Restart \/ FD!Collector \/ FD!Wipe \/ FD!ResetCursors
  BY <1>1, TickKeeps, RestartKeeps, CollectorKeeps, WipeKeeps, ResetCursorsKeeps
<1>2. CASE FD!SchedulerLoop
  BY <1>2, ListDueKeeps, BeginsKeep DEF FD!SchedulerLoop
<1>3. CASE \E e \in Event : FD!Happen(e)
  BY <1>3, HappenKeeps
<1>4. CASE \E i \in Integration : FD!Setting(i)
  BY <1>4, CreateKeeps, DeleteKeeps, SettingsKeep DEF FD!Setting
<1>5. CASE \E t \in Worker, i \in Integration : FD!RunByHand(t, i)
  BY <1>5, BeginsKeep
<1>6. CASE \E t \in Thread : FD!Poll(t)
  BY <1>6, ReadCursorKeeps, StartRunKeeps, FetchKeeps, FetchGoneKeeps, PostGroupKeeps, EndsKeep
     DEF FD!Poll
<1> QED
  BY <1>1, <1>2, <1>3, <1>4, <1>5, <1>6 DEF FD!Next, Thread

LEMMA FeedStays == FeedInv /\ UNCHANGED all => FeedInv'
<1> SUFFICES ASSUME FeedInv, UNCHANGED all PROVE FeedInv'
  OBVIOUS
<1>1. UNCHANGED <<acts, now, born, forwards, integration, row, cache, thread, agenda, queue,
                  worker, posted, wiped, passed, disturbed>>
  BY DEF all
<1>2. FD!TypeOK /\ FeedShape /\ now \in Nat
  BY FeedHas
<1>3. FD!TypeOK'
  BY <1>1, <1>2 DEF FD!TypeOK, FD!Connected
<1> QED
  BY <1>1, <1>2, <1>3, StillKeeps DEF FeedShape

LEMMA FeedImplies == FeedInv => FD!TypeOK /\ FD!PassedIfUnread
<1> SUFFICES ASSUME FeedInv, NEW i \in Integration, integration[i] = "connected", i \notin disturbed,
                    NEW e \in Event, Of[e] = i, born[e] # None, row[i] # None, ~wiped,
                    FD!Behind(e, row[i].success)
             PROVE  posted[e] > 0 \/ e \in passed
  BY DEF FD!PassedIfUnread, FD!Connected, FD!Log, FeedInv
<1>1. PICK r \in FD!Row : r = row[i]
  BY DEF FeedInv, FD!TypeOK
<1> QED
  BY <1>1 DEF FeedInv, Clean

\* Only the run of a thread takes something off what it has to post.
LEMMA TodoIsKept ==
    ASSUME FeedInv, FD!Next, NEW t \in Thread,
           NEW x \in Run, thread[t] = x, NEW e \in x.todo, e \notin thread'[t].todo,
           x.i \in FD!Connected, x.i \notin disturbed'
    PROVE  \E f \in Event : FD!PostGroup(t, f)
<1>1. FD!TypeOK /\ FeedShape /\ thread \in [Thread -> Run]
  BY FeedHas
<1>2. /\ Sound(x) /\ e \in x.page /\ x.pc \in {"post", "fail"} /\ thread'[t] # thread[t]
      /\ thread[t] # FD!Idle
  BY <1>1, IdleIsRun DEF FeedShape, Sound, FD!TypeOK, Thread
<1>3. ~FD!Restart
  BY <1>2 DEF FD!Restart, FD!Running, FD!Connected, Thread
<1>4. ~UNCHANGED thread
  BY <1>2
<1>5. ASSUME NEW u \in Thread, NEW y, FD!Become(u, y)
      PROVE  u = t
  BY <1>1, <1>2, <1>5 DEF FD!Become
<1>6. /\ ~FD!SchedulerLoop
      /\ \A u \in Worker, i \in Integration : ~FD!RunByHand(u, i)
  BY <1>2, <1>4, <1>5
     DEF FD!SchedulerLoop, FD!ListDue, FD!RunNextDue, FD!RunByHand, FD!Begin, Thread, FD!Thread
<1>7. PICK u \in Thread : FD!Poll(u)
  BY <1>3, <1>4, <1>6
     DEF FD!Next, Thread, FD!Tick, FD!Collector, FD!TakeDatagram, FD!ForwardDatagram,
         FD!RecordDatagram, FD!Wipe, FD!ResetCursors, FD!Happen, FD!Setting, FD!Create, FD!Delete,
         FD!ApplyForwarding, FD!ReadStatus, FD!Configure, FD!polling
<1>8. u = t
  BY <1>5, <1>7
     DEF FD!Poll, FD!ReadCursor, FD!StartRun, FD!Fetch, FD!FetchGone, FD!PostGroup, FD!FinishRun,
         FD!FailRun, FD!Vanished
<1>9. ~FD!FailRun(t)
  <2> SUFFICES ASSUME FD!FailRun(t) PROVE FALSE
    OBVIOUS
  <2>1. x.pc = "fail" /\ disturbed' = disturbed
    BY DEF FD!FailRun, FD!Vanished
  <2>2. Clean(x.i) /\ x.i \in Integration
    BY <2>1 DEF FeedInv, FD!Connected
  <2>3. Steady(x.i, x)
    BY <2>1, <2>2 DEF Clean, Past
  <2> QED
    BY <1>2, <2>1, <2>3 DEF Steady
<1>10. /\ ~FD!ReadCursor(t) /\ ~FD!StartRun(t) /\ ~FD!Fetch(t) /\ ~FD!FetchGone(t)
       /\ ~FD!FinishRun(t)
  BY <1>2 DEF FD!ReadCursor, FD!StartRun, FD!Fetch, FD!FetchGone, FD!FinishRun
<1> QED
  BY <1>7, <1>8, <1>9, <1>10 DEF FD!Poll

\* What such a run posts again lies in the second of its cursor.
LEMMA RepetitionsAre == FeedInv /\ FD!Next => FD!RepeatInItsSecond
<1> SUFFICES ASSUME FeedInv, FD!Next, NEW t \in Thread,
                    NEW e \in thread[t].todo, e \notin thread'[t].todo, posted[e] > 0,
                    thread[t].i \in FD!Connected, thread[t].i \notin disturbed'
             PROVE  /\ thread[t].cursor # None
                    /\ FD!Second(thread[t].cursor) = FD!Second(born[e])
  BY DEF FD!RepeatInItsSecond, Thread
<1>1. /\ FD!TypeOK /\ FeedShape /\ thread \in [Thread -> Run]
      /\ row \in [Integration -> FD!Row \cup {None}]
      /\ \A f \in Event : born[f] \in Nat \cup {None}
      /\ \A i \in Integration, r \in FD!Row : row[i] = r => r.success \in Nat \cup {None}
  BY FeedHas
<1>2. PICK x \in Run : x = thread[t]
  BY <1>1
<1>3. PICK i \in Integration : i = x.i
  BY <1>2 DEF FD!Connected
<1>4. PICK f \in Event : FD!PostGroup(t, f)
  BY <1>2, TodoIsKept
<1>5. /\ x.pc = "post" /\ disturbed \subseteq disturbed' /\ integration[i] = "connected"
  BY <1>2, <1>3, <1>4 DEF FD!PostGroup, FD!Connected
<1>6. Clean(i) /\ x.pc \in Past
  BY <1>2, <1>3, <1>5 DEF FeedInv, Past
<1>7. /\ Steady(i, x) /\ Sound(x)
      /\ \A g \in Event : Of[g] = i /\ posted[g] > 0 =>
            born[g] # None /\ (Covered(i, g) \/ g \in x.page \ x.todo)
  BY <1>2, <1>3, <1>6, PastIsAlone
<1>8. /\ e \in x.todo /\ e \in Event /\ Of[e] = i /\ ~FD!Behind(e, x.cursor)
  BY <1>2, <1>3, <1>7 DEF Sound, Steady, Run
<1>9. born[e] # None /\ Covered(i, e)
  BY <1>7, <1>8
<1>10. PICK r \in FD!Row : r = row[i]
  BY <1>1, <1>9 DEF Covered
<1>11. PICK c \in Nat, b \in Nat : c = x.cursor /\ b = born[e] /\ b <= c /\ c # None
  BY <1>1, <1>7, <1>8, <1>9, <1>10 DEF Covered, Steady
<1>12. ~(FD!Second(b) < FD!Second(c))
  BY <1>8, <1>11 DEF FD!Behind
<1>13. FD!Second(b) \in Nat /\ FD!Second(c) \in Nat /\ FD!Second(b) <= FD!Second(c)
  BY <1>11, HalvesGrow
<1>14. FD!Second(b) = FD!Second(c)
  BY <1>12, <1>13
<1> QED
  BY <1>2, <1>11, <1>14

-----------------------------------------------------------------------------
(* Playbooks: how a loop and a list come out. *)

\* A set that a loop does not leave holds all its turns.
LEMMA UpTo ==
    ASSUME NEW n \in Nat, NEW T, 0 \in T, \A k \in 0 .. n - 1 : k \in T => k + 1 \in T
    PROVE  0 .. n \subseteq T
<1> SUFFICES ASSUME ~(0 .. n \subseteq T) PROVE FALSE
  OBVIOUS
<1> DEFINE S == (0 .. n) \ T
<1>1. S \in SUBSET Nat /\ S # {}
  OBVIOUS
<1>2. PICK x \in S : \A y \in S : x <= y
  <2> HIDE DEF S
  <2> QED
    BY <1>1, LeastIs
<1>3. x \in Nat /\ x <= n /\ x \notin T /\ x # 0
  BY <1>2
<1>4. x - 1 \in 0 .. n - 1 /\ x - 1 \notin S
  BY <1>2, <1>3
<1> QED
  BY <1>3, <1>4

\* A loop with a turn of its own at each step has a result after each of them.
Results(n, A, a, F) ==
    {f \in [0 .. n -> A] : f[0] = a /\ \A k \in 1 .. n : f[k] = F[k][f[k - 1]]}

LEMMA LoopIs ==
    ASSUME NEW n \in Nat, NEW A, NEW a \in A, NEW F \in [1 .. n -> [A -> A]]
    PROVE  Results(n, A, a, F) # {}
<1> DEFINE T == {m \in 0 .. n : \E f \in [0 .. m -> A] :
                    f[0] = a /\ \A k \in 1 .. m : f[k] = F[k][f[k - 1]]}
<1>1. 0 \in T
  <2> DEFINE f == [k \in 0 .. 0 |-> a]
  <2>1. f \in [0 .. 0 -> A] /\ f[0] = a /\ \A k \in 1 .. 0 : f[k] = F[k][f[k - 1]]
    OBVIOUS
  <2> HIDE DEF f
  <2> QED
    BY <2>1
<1>2. ASSUME NEW m \in 0 .. n - 1, m \in T PROVE m + 1 \in T
  <2>1. PICK f \in [0 .. m -> A] : f[0] = a /\ \A k \in 1 .. m : f[k] = F[k][f[k - 1]]
    BY <1>2
  <2> DEFINE h == [k \in 0 .. m + 1 |-> IF k = m + 1 THEN F[m + 1][f[m]] ELSE f[k]]
  <2>2. F[m + 1] \in [A -> A] /\ f[m] \in A
    BY <2>1
  <2>3. h \in [0 .. m + 1 -> A]
    BY <2>1, <2>2
  <2>4. h[0] = a
    BY <2>1
  <2>5. ASSUME NEW k \in 1 .. m + 1 PROVE h[k] = F[k][h[k - 1]]
    <3>1. CASE k = m + 1
      BY <3>1
    <3>2. CASE k \in 1 .. m
      BY <3>2, <2>1
    <3> QED
      BY <3>1, <3>2
  <2> HIDE DEF h
  <2> QED
    BY <2>3, <2>4, <2>5
<1> HIDE DEF T
<1>3. 0 .. n \subseteq T
  BY <1>1, <1>2, UpTo
<1>4. n \in T
  BY <1>3
<1> QED
  BY <1>4 DEF T, Results

\* What no turn of a loop leaves holds after each.
LEMMA LoopStays ==
    ASSUME NEW n \in Nat, NEW A, NEW s, s[0] \in A,
           \A k \in 1 .. n : s[k - 1] \in A => s[k] \in A
    PROVE  \A k \in 0 .. n : s[k] \in A
<1> DEFINE T == {k \in 0 .. n : s[k] \in A}
<1>1. 0 \in T
  OBVIOUS
<1>2. ASSUME NEW k \in 0 .. n - 1, k \in T PROVE k + 1 \in T
  <2>1. k + 1 \in 1 .. n /\ (k + 1) - 1 = k /\ s[k] \in A
    BY <1>2
  <2>2. s[k + 1] \in A
    BY <2>1
  <2> QED
    BY <2>1, <2>2
<1> HIDE DEF T
<1>3. 0 .. n \subseteq T
  BY <1>1, <1>2, UpTo
<1> QED
  BY <1>3 DEF T

LEMMA CardIs == \A S : PG!Cardinality(S) = Cardinality(S)
BY DEF PG!Cardinality, Cardinality

\* Sets of positions, counted.
LEMMA Positions ==
    ASSUME NEW n \in Nat, NEW S \in SUBSET (1 .. n)
    PROVE  IsFiniteSet(S) /\ Cardinality(S) \in 0 .. n /\ Cardinality(1 .. n) = n
<1>1. IsFiniteSet(1 .. n) /\ Cardinality(1 .. n) = n
  <2>1. 1 \in Int /\ n \in Int
    OBVIOUS
  <2> QED
    BY <2>1, FS_Interval
<1>2. IsFiniteSet(S) /\ Cardinality(S) <= n
  BY <1>1, FS_Subset
<1>3. Cardinality(S) \in Nat
  BY <1>2, FS_CardinalityType
<1> QED
  BY <1>1, <1>2, <1>3

\* Listed is a list of the set without repetition.
LEMMA ListedIs ==
    ASSUME NEW n \in Nat, NEW S \in SUBSET (1 .. n)
    PROVE  /\ PG!Listed(S) \in Seq(S) /\ Range(PG!Listed(S)) = S
           /\ \A a, b \in 1 .. Len(PG!Listed(S)) : PG!Listed(S)[a] = PG!Listed(S)[b] => a = b
<1> DEFINE c == Cardinality(S)
           Upto(j) == {i \in S : i <= j}
           rank == [j \in S |-> Cardinality(Upto(j))]
           L == PG!Listed(S)
<1>1. c \in Nat /\ IsFiniteSet(S)
  BY Positions
<1>2. ASSUME NEW j \in S PROVE IsFiniteSet(Upto(j)) /\ Cardinality(Upto(j)) \in 1 .. c
  <2>1. IsFiniteSet(Upto(j)) /\ Cardinality(Upto(j)) <= c
    BY <1>1, FS_Subset
  <2>2. j \in Upto(j) /\ Cardinality(Upto(j)) \in Nat
    BY <2>1, FS_CardinalityType
  <2>3. Cardinality(Upto(j)) # 0
    BY <2>1, <2>2, FS_EmptySet
  <2> HIDE DEF Upto, c
  <2> QED
    BY <1>1, <2>1, <2>2, <2>3
<1>3. ASSUME NEW i \in S, NEW j \in S, i < j PROVE rank[i] # rank[j]
  <2>1. Upto(i) \in SUBSET Upto(j) /\ j \in Upto(j) /\ j \notin Upto(i)
    <3>1. \A x \in S : x \in Int
      OBVIOUS
    <3>2. \A x \in S : x <= i => x <= j
      BY <1>3, <3>1
    <3>3. j <= j /\ ~(j <= i)
      BY <1>3, <3>1
    <3> QED
      BY <3>2, <3>3
  <2>2. Upto(i) # Upto(j)
    BY <2>1
  <2>3. Cardinality(Upto(j)) # Cardinality(Upto(i))
    <3> HIDE DEF Upto
    <3> QED
      BY <1>2, <2>1, <2>2, FS_Subset
  <2> QED
    BY <2>3
<1>4. rank \in Injection(S, 1 .. c)
  <2>1. rank \in [S -> 1 .. c]
    BY <1>2
  <2>2. \A i, j \in S : rank[i] = rank[j] => i = j
    <3> HIDE DEF rank
    <3> QED
      BY <1>3
  <2> HIDE DEF rank, c
  <2> QED
    BY <2>1, <2>2 DEF Injection, IsInjective
<1>5. Cardinality(1 .. c) = c /\ IsFiniteSet(1 .. c)
  BY <1>1, Positions
<1>6. rank \in Surjection(S, 1 .. c)
  <2> HIDE DEF rank
  <2> QED
    BY <1>1, <1>4, <1>5, FS_Injection
<1>7. \A m \in 1 .. c : \E j \in S : rank[j] = m
  <2> HIDE DEF rank, c
  <2> QED
    BY <1>6 DEF Surjection
<1>8. L = [m \in 1 .. c |-> CHOOSE j \in S : PG!Cardinality(Upto(j)) = m]
  BY CardIs DEF PG!Listed
<1>9. \A m \in 1 .. c : L[m] \in S /\ rank[L[m]] = m
  <2> TAKE m \in 1 .. c
  <2>1. PICK j \in S : PG!Cardinality(Upto(j)) = m
    BY <1>7, CardIs
  <2>2. L[m] \in S /\ PG!Cardinality(Upto(L[m])) = m
    <3> HIDE DEF L, Upto, c
    <3> QED
      BY <1>8, <2>1
  <2> HIDE DEF L, Upto
  <2> QED
    BY <2>2, CardIs
<1>10. L \in [1 .. c -> S]
  <2> HIDE DEF rank, c, L
  <2> QED
    BY <1>8, <1>9
<1>11. L \in Seq(S) /\ Len(L) = c
  <2> HIDE DEF c, L
  <2> QED
    BY <1>1, <1>10
<1>12. \A a, b \in 1 .. c : L[a] = L[b] => a = b
  <2> HIDE DEF rank, c, L
  <2> QED
    BY <1>9
<1>13. \A j \in S : \E m \in 1 .. c : L[m] = j
  <2> TAKE j \in S
  <2>1. rank[j] \in 1 .. c
    BY <1>2
  <2>2. rank[L[rank[j]]] = rank[j] /\ L[rank[j]] \in S
    <3> HIDE DEF rank, L, c
    <3> QED
      BY <1>9, <2>1
  <2>3. L[rank[j]] = j
    <3> DEFINE l == L[rank[j]]
    <3>1. l \in S /\ rank[l] = rank[j]
      <4> HIDE DEF rank, L
      <4> QED
        BY <2>2
    <3> HIDE DEF rank, l
    <3>0. l \in Int /\ j \in Int
      BY <3>1
    <3>2. ~(l < j) /\ ~(j < l)
      BY <1>3, <3>1
    <3>3. l = j
      BY <3>0, <3>2
    <3> QED
      BY <3>3 DEF l
  <2> HIDE DEF rank, L, c
  <2> QED
    BY <2>1, <2>3
<1>14. Range(L) = S
  <2> HIDE DEF rank, L, c
  <2> QED
    BY <1>10, <1>13 DEF Range
<1> HIDE DEF L, c
<1> QED
  BY <1>11, <1>12, <1>14 DEF L
\* Lists without repetition.
Distinct(s) == \A a, b \in 1 .. Len(s) : s[a] = s[b] => a = b

LEMMA RangeIs ==
    ASSUME NEW A, NEW s \in Seq(A)
    PROVE  Range(s) = {s[a] : a \in 1 .. Len(s)} /\ Range(s) \subseteq A
BY DEF Range

LEMMA DistinctTail ==
    ASSUME NEW A, NEW s \in Seq(A), s # <<>>, Distinct(s)
    PROVE  /\ Head(s) \in A /\ Tail(s) \in Seq(A) /\ Distinct(Tail(s))
           /\ Head(s) \notin Range(Tail(s)) /\ Range(s) = {Head(s)} \cup Range(Tail(s))
<1>1. Head(s) \in A /\ Tail(s) \in Seq(A) /\ Len(s) \in Nat /\ Len(Tail(s)) = Len(s) - 1
      /\ Head(s) = s[1] /\ Len(s) > 0
  OBVIOUS
<1>2. \A a \in 1 .. Len(Tail(s)) : Tail(s)[a] = s[a + 1] /\ a + 1 \in 1 .. Len(s)
  BY <1>1
<1>3. Distinct(Tail(s))
  BY <1>1, <1>2 DEF Distinct
<1>4. Range(Tail(s)) = {s[a] : a \in 2 .. Len(s)}
  <2>1. Range(Tail(s)) = {Tail(s)[a] : a \in 1 .. Len(Tail(s))}
    BY <1>1, RangeIs
  <2>2. \A a \in 2 .. Len(s) : a - 1 \in 1 .. Len(Tail(s)) /\ Tail(s)[a - 1] = s[a]
    BY <1>1, <1>2
  <2>3. \A a \in 1 .. Len(Tail(s)) : a + 1 \in 2 .. Len(s) /\ Tail(s)[a] = s[a + 1]
    BY <1>1, <1>2
  <2> QED
    BY <2>1, <2>2, <2>3
<1>5. Range(s) = {s[a] : a \in 1 .. Len(s)}
  BY RangeIs
<1>6. s[1] \notin {s[a] : a \in 2 .. Len(s)}
  BY <1>1 DEF Distinct
<1>7. \A a \in 1 .. Len(s) : a = 1 \/ a \in 2 .. Len(s)
  BY <1>1
<1>8. {s[a] : a \in 1 .. Len(s)} = {s[1]} \cup {s[a] : a \in 2 .. Len(s)}
  BY <1>1, <1>7
<1> QED
  BY <1>1, <1>3, <1>4, <1>5, <1>6, <1>8

LEMMA DistinctConcat ==
    ASSUME NEW A, NEW s \in Seq(A), NEW t \in Seq(A), Distinct(s), Distinct(t),
           Range(s) \cap Range(t) = {}
    PROVE  s \o t \in Seq(A) /\ Distinct(s \o t) /\ Range(s \o t) = Range(s) \cup Range(t)
<1>1. s \o t \in Seq(A) /\ Len(s \o t) = Len(s) + Len(t) /\ Len(s) \in Nat /\ Len(t) \in Nat
  OBVIOUS
<1>2. /\ \A a \in 1 .. Len(s) : a \in 1 .. Len(s \o t) /\ (s \o t)[a] = s[a]
      /\ \A a \in 1 .. Len(t) : Len(s) + a \in 1 .. Len(s \o t) /\ (s \o t)[Len(s) + a] = t[a]
  BY <1>1
<1>3. \A a \in 1 .. Len(s \o t) :
        a \in 1 .. Len(s) \/ (a - Len(s) \in 1 .. Len(t) /\ a = Len(s) + (a - Len(s)))
  BY <1>1
<1> DEFINE r == s \o t
<1>5. Range(r) = {r[a] : a \in 1 .. Len(r)}
  BY <1>1, RangeIs
<1>6. Range(s) = {s[a] : a \in 1 .. Len(s)} /\ Range(t) = {t[a] : a \in 1 .. Len(t)}
  BY RangeIs
<1>4. \A a \in 1 .. Len(s), b \in 1 .. Len(t) : s[a] # t[b]
  BY <1>6
<1>7. \A a \in 1 .. Len(r) :
        \/ a \in 1 .. Len(s) /\ r[a] = s[a]
        \/ a - Len(s) \in 1 .. Len(t) /\ r[a] = t[a - Len(s)]
  BY <1>1, <1>2, <1>3
<1>8. ASSUME NEW a \in 1 .. Len(r), NEW b \in 1 .. Len(r), r[a] = r[b] PROVE a = b
  <2>1. a \in Int /\ b \in Int
    BY <1>1
  <2> HIDE DEF r
  <2> QED
    BY <1>1, <1>4, <1>7, <1>8, <2>1 DEF Distinct
<1>9. Range(r) = Range(s) \cup Range(t)
  <2>1. \A a \in 1 .. Len(s) : a \in 1 .. Len(r) /\ r[a] = s[a]
    BY <1>2
  <2>2. \A a \in 1 .. Len(t) : \E b \in 1 .. Len(r) : r[b] = t[a]
    BY <1>2
  <2> HIDE DEF r
  <2>3. \A a \in 1 .. Len(r) : r[a] \in Range(s) \cup Range(t)
    BY <1>6, <1>7
  <2>4. \A a \in 1 .. Len(s) : s[a] \in Range(r)
    BY <1>5, <2>1
  <2>5. \A a \in 1 .. Len(t) : t[a] \in Range(r)
    BY <1>5, <2>2
  <2> QED
    BY <1>5, <1>6, <2>3, <2>4, <2>5
<1> QED
  BY <1>1, <1>8, <1>9 DEF Distinct

LEMMA DistinctAppend ==
    ASSUME NEW A, NEW s \in Seq(A), Distinct(s), NEW x \in A, x \notin Range(s)
    PROVE  Append(s, x) \in Seq(A) /\ Distinct(Append(s, x)) /\ Range(Append(s, x)) = Range(s) \cup {x}
<1>1. <<x>> \in Seq(A) /\ Len(<<x>>) = 1 /\ <<x>>[1] = x
  OBVIOUS
<1>2. Range(<<x>>) = {x}
  BY DEF Range
<1>3. Distinct(<<x>>)
  BY <1>1 DEF Distinct
<1>4. Append(s, x) = s \o <<x>>
  OBVIOUS
<1> DEFINE t == <<x>>
<1> HIDE DEF t
<1>5. t \in Seq(A) /\ Distinct(t) /\ Range(t) = {x} /\ Append(s, x) = s \o t
  BY <1>1, <1>2, <1>3, <1>4 DEF t
<1>6. Range(s) \cap Range(t) = {}
  BY <1>5
<1> QED
  BY <1>5, <1>6, DistinctConcat

-----------------------------------------------------------------------------
(* Playbooks: the layout. *)

Nodes(g) == 1 .. Len(g.types)

LEMMA PlaybookIs ==
    ASSUME NEW g \in PG!Playbook
    PROVE  /\ Len(g.types) \in Nat /\ PG!Nodes(g) = Nodes(g) /\ DOMAIN g.types = Nodes(g)
           /\ \A i \in Nodes(g) : g.types[i] \in PG!NodeType
           /\ g.edges \in Seq([from : Nat, to : Nat, cond : {"success", "true", "false"}])
           /\ Len(g.edges) \in Nat /\ DOMAIN g.edges = 1 .. Len(g.edges)
           /\ \A k \in DOMAIN g.edges : g.edges[k].from \in Nodes(g) /\ g.edges[k].to \in Nodes(g)
           /\ \E i \in Nodes(g) : g.types[i] = "trigger"
<1>1. g \in [types : Seq(PG!NodeType), edges : Seq([from : Nat, to : Nat, cond : {"success", "true", "false"}])]
  BY DEF PG!Playbook
<1>2. g.types \in Seq(PG!NodeType)
      /\ g.edges \in Seq([from : Nat, to : Nat, cond : {"success", "true", "false"}])
  BY <1>1
<1>3. /\ \A k \in DOMAIN g.edges : {g.edges[k].from, g.edges[k].to} \subseteq PG!Nodes(g)
      /\ \E i \in PG!Nodes(g) : g.types[i] = "trigger"
  BY DEF PG!Playbook
<1>4. Len(g.types) \in Nat /\ DOMAIN g.types = Nodes(g) /\ PG!Nodes(g) = Nodes(g)
      /\ \A i \in Nodes(g) : g.types[i] \in PG!NodeType
  BY <1>2 DEF PG!Nodes, Nodes
<1>5. Len(g.edges) \in Nat /\ DOMAIN g.edges = 1 .. Len(g.edges)
  BY <1>2
<1> QED
  BY <1>2, <1>3, <1>4, <1>5

\* The edges to a node from outside of a set.
Into(g, j, O) == {k \in DOMAIN g.edges : g.edges[k].to = j /\ g.edges[k].from \notin O}
Between(g, i, j) == {k \in DOMAIN g.edges : g.edges[k].from = i /\ g.edges[k].to = j}

LEMMA EdgesAre ==
    ASSUME NEW g \in PG!Playbook, NEW K \in SUBSET DOMAIN g.edges
    PROVE  IsFiniteSet(K) /\ Cardinality(K) \in Nat /\ (Cardinality(K) = 0 <=> K = {})
<1>1. IsFiniteSet(K) /\ Cardinality(K) \in Nat
  BY PlaybookIs, Positions
<1> QED
  BY <1>1, FS_EmptySet

LEMMA DegreesAre ==
    ASSUME NEW g \in PG!Playbook
    PROVE  /\ \A i, j : PG!Edges(g, i, j) = Cardinality(Between(g, i, j))
           /\ PG!Degree(g) = [j \in Nodes(g) |-> Cardinality(Into(g, j, {}))]
<1>1. \A i, j : PG!Edges(g, i, j) = Cardinality(Between(g, i, j))
  BY CardIs DEF PG!Edges, Between
<1>2. ASSUME NEW j PROVE {k \in DOMAIN g.edges : g.edges[k].to = j} = Into(g, j, {})
  BY DEF Into
<1>3. \A j : PG!Cardinality({k \in DOMAIN g.edges : g.edges[k].to = j}) = Cardinality(Into(g, j, {}))
  BY <1>2, CardIs
<1>4. PG!Degree(g) = [j \in Nodes(g) |-> PG!Cardinality({k \in DOMAIN g.edges : g.edges[k].to = j})]
  BY PlaybookIs DEF PG!Degree
<1> QED
  BY <1>1, <1>3, <1>4

\* Taking a node takes its edges.
Taken(g, O, i, j) ==
    /\ Into(g, j, O \cup {i}) = Into(g, j, O) \ Between(g, i, j)
    /\ Between(g, i, j) \subseteq Into(g, j, O)
    /\ Cardinality(Into(g, j, O \cup {i})) = Cardinality(Into(g, j, O)) - PG!Edges(g, i, j)
    /\ PG!Edges(g, i, j) > 0 <=> Between(g, i, j) # {}

LEMMA TakenIs ==
    ASSUME NEW g \in PG!Playbook, NEW O, NEW i, i \notin O, NEW j
    PROVE  Taken(g, O, i, j)
<1> DEFINE I == Into(g, j, O)
           B == Between(g, i, j)
<1>1. Into(g, j, O \cup {i}) = I \ B /\ B \subseteq I
  BY DEF Into, Between
<1>2. I \in SUBSET DOMAIN g.edges /\ B \in SUBSET DOMAIN g.edges
  BY DEF Into, Between
<1> HIDE DEF I, B
<1>3. IsFiniteSet(I) /\ IsFiniteSet(B) /\ Cardinality(I) \in Nat /\ Cardinality(B) \in Nat
      /\ (Cardinality(B) = 0 <=> B = {})
  BY <1>2, EdgesAre
<1>4. Cardinality(I \ B) = Cardinality(I) - Cardinality(I \cap B) /\ I \cap B = B
  BY <1>1, <1>3, FS_Difference
<1>5. PG!Edges(g, i, j) = Cardinality(B)
  BY DegreesAre DEF B
<1>6. PG!Edges(g, i, j) \in Nat /\ (PG!Edges(g, i, j) > 0 <=> B # {})
  BY <1>3, <1>5
<1>7. Cardinality(Into(g, j, O \cup {i})) = Cardinality(I) - PG!Edges(g, i, j)
  BY <1>1, <1>4, <1>5
<1> QED
  BY <1>1, <1>3, <1>6, <1>7 DEF I, B, Taken

\* States of the loop.
Layouts(g) == [queue : Seq(Nodes(g)), order : Seq(Nodes(g)), degree : [Nodes(g) -> Int]]

LEMMA FirstIs ==
    ASSUME NEW g \in PG!Playbook
    PROVE  /\ PG!First(g) \in Layouts(g) /\ PG!First(g).order = <<>>
           /\ PG!First(g).degree = PG!Degree(g)
           /\ Distinct(PG!First(g).queue)
           /\ Range(PG!First(g).queue) = {j \in Nodes(g) : PG!Degree(g)[j] = 0}
<1> DEFINE S == {j \in Nodes(g) : PG!Degree(g)[j] = 0}
<1>1. PG!First(g) = [queue |-> PG!Listed(S), order |-> <<>>, degree |-> PG!Degree(g)]
  BY PlaybookIs DEF PG!First
<1>2. S \in SUBSET Nodes(g) /\ S \in SUBSET (1 .. Len(g.types)) /\ Len(g.types) \in Nat
  BY PlaybookIs DEF Nodes
<1> HIDE DEF S
<1>3. PG!Listed(S) \in Seq(S) /\ Range(PG!Listed(S)) = S /\ Distinct(PG!Listed(S))
  BY <1>2, ListedIs DEF Distinct
<1>4. PG!Listed(S) \in Seq(Nodes(g))
  <2> DEFINE L == PG!Listed(S)
             N == Nodes(g)
  <2>1. L \in Seq(S) /\ S \subseteq N
    BY <1>2, <1>3
  <2> HIDE DEF L, N
  <2>2. L \in Seq(N)
    BY <2>1
  <2> QED
    BY <2>2 DEF L, N
<1>5. PG!Degree(g) \in [Nodes(g) -> Int]
  <2>1. \A j : Into(g, j, {}) \in SUBSET DOMAIN g.edges
    BY DEF Into
  <2>2. \A j : Cardinality(Into(g, j, {})) \in Int
    BY <2>1, EdgesAre
  <2> QED
    BY <2>2, DegreesAre
<1>6. PG!First(g) \in Layouts(g)
  BY <1>1, <1>4, <1>5 DEF Layouts
<1> QED
  BY <1>1, <1>3, <1>6 DEF S

Left(g, s) == [j \in Nodes(g) |-> s.degree[j] - PG!Edges(g, Head(s.queue), j)]
Free(g, s) == {j \in Nodes(g) : PG!Edges(g, Head(s.queue), j) > 0 /\ Left(g, s)[j] = 0}

LEMMA SpendIs ==
    ASSUME NEW g \in PG!Playbook, NEW s \in Layouts(g), s.queue # <<>>
    PROVE  /\ PG!Spend(g, s) \in Layouts(g) /\ Head(s.queue) \in Nodes(g)
           /\ PG!Spend(g, s).queue = Tail(s.queue) \o PG!Listed(Free(g, s))
           /\ PG!Spend(g, s).order = Append(s.order, Head(s.queue))
           /\ PG!Spend(g, s).degree = Left(g, s)
           /\ PG!Listed(Free(g, s)) \in Seq(Nodes(g))
           /\ Range(PG!Listed(Free(g, s))) = Free(g, s) /\ Distinct(PG!Listed(Free(g, s)))
<1>1. s.queue \in Seq(Nodes(g)) /\ s.order \in Seq(Nodes(g)) /\ s.degree \in [Nodes(g) -> Int]
  BY DEF Layouts
<1>2. Head(s.queue) \in Nodes(g) /\ Tail(s.queue) \in Seq(Nodes(g))
      /\ Append(s.order, Head(s.queue)) \in Seq(Nodes(g))
  BY <1>1
<1> DEFINE F == Free(g, s)
<1>3. PG!Spend(g, s) = [queue |-> Tail(s.queue) \o PG!Listed(F),
                        order |-> Append(s.order, Head(s.queue)), degree |-> Left(g, s)]
  BY PlaybookIs DEF PG!Spend, Left, Free
<1>4. F \in SUBSET Nodes(g) /\ F \in SUBSET (1 .. Len(g.types)) /\ Len(g.types) \in Nat
  BY PlaybookIs DEF Free, Nodes
<1> HIDE DEF F
<1>5. PG!Listed(F) \in Seq(F) /\ Range(PG!Listed(F)) = F /\ Distinct(PG!Listed(F))
  BY <1>4, ListedIs DEF Distinct
<1>6. PG!Listed(F) \in Seq(Nodes(g))
  BY <1>4, <1>5
<1>7. Left(g, s) \in [Nodes(g) -> Int]
  <2>1. \A j : PG!Edges(g, Head(s.queue), j) \in Int
    <3>1. \A j : Between(g, Head(s.queue), j) \in SUBSET DOMAIN g.edges
      BY DEF Between
    <3> QED
      BY <3>1, EdgesAre, DegreesAre
  <2> QED
    BY <1>1, <2>1 DEF Left
<1>8. Tail(s.queue) \o PG!Listed(F) \in Seq(Nodes(g))
  BY <1>2, <1>6
<1>9. PG!Spend(g, s) \in Layouts(g)
  BY <1>2, <1>3, <1>7, <1>8 DEF Layouts
<1> QED
  BY <1>2, <1>3, <1>5, <1>6, <1>9 DEF F

\* The loop and its turns.
LEMMA LayoutIs ==
    ASSUME NEW g \in PG!Playbook
    PROVE  /\ PG!Layout(g) \in [0 .. Len(g.types) -> Layouts(g)]
           /\ PG!Layout(g)[0] = PG!First(g)
           /\ \A k \in 1 .. Len(g.types) : PG!Layout(g)[k] = PG!After(g, PG!Layout(g)[k - 1])
<1> DEFINE n == Len(g.types)
           A == Layouts(g)
           a == PG!First(g)
           F == [k \in 1 .. n |-> [s \in A |-> PG!After(g, s)]]
<1>1. n \in Nat
  BY PlaybookIs
<1>2. \A s \in A : PG!After(g, s) \in A
  BY SpendIs DEF PG!After
<1>3. F \in [1 .. n -> [A -> A]]
  BY <1>2
<1>4. a \in A
  BY FirstIs
<1>5. PICK f \in [0 .. n -> A] : f[0] = a /\ \A k \in 1 .. n : f[k] = F[k][f[k - 1]]
  <2> HIDE DEF n, A, F, a
  <2>1. Results(n, A, a, F) # {}
    BY <1>1, <1>3, <1>4, LoopIs
  <2> QED
    BY <2>1 DEF Results
<1>6. \A k \in 1 .. n : k - 1 \in 0 .. n /\ f[k] = PG!After(g, f[k - 1])
  <2>1. \A k \in 1 .. n : k - 1 \in 0 .. n /\ f[k - 1] \in A
    BY <1>1, <1>5
  <2> QED
    BY <1>5, <2>1
<1>7. f = [k \in 0 .. n |-> IF k = 0 THEN PG!First(g) ELSE PG!After(g, f[k - 1])]
  <2> HIDE DEF A, F
  <2> QED
    BY <1>1, <1>5, <1>6
<1> DEFINE s == PG!Layout(g)
<1>8. s = [k \in 0 .. n |-> IF k = 0 THEN PG!First(g) ELSE PG!After(g, s[k - 1])]
  BY <1>7 DEF PG!Layout
<1>9. s[0] = a /\ \A k \in 1 .. n : k - 1 \in 0 .. n /\ s[k] = PG!After(g, s[k - 1])
  <2>1. \A k \in 1 .. n : k - 1 \in 0 .. n /\ k \in 0 .. n /\ k # 0
    BY <1>1
  <2>2. 0 \in 0 .. n
    BY <1>1
  <2> HIDE DEF s, n, a
  <2>3. s[0] = a
    BY <1>8, <2>2 DEF a
  <2>4. \A k \in 1 .. n : s[k] = PG!After(g, s[k - 1])
    BY <1>8, <2>1
  <2> QED
    BY <2>1, <2>3, <2>4
<1>10. \A k \in 0 .. n : s[k] \in A
  <2> HIDE DEF s, A, a
  <2>1. \A k \in 1 .. n : s[k - 1] \in A => s[k] \in A
    BY <1>2, <1>9
  <2>2. s[0] \in A
    BY <1>4, <1>9
  <2> QED
    BY <1>1, <2>1, <2>2, LoopStays
<1> HIDE DEF A, s
<1> QED
  BY <1>8, <1>9, <1>10 DEF A, s

\* A list of nodes where none comes before one that leads to it.
Sorted(g, order) ==
    \A k \in DOMAIN g.edges, b \in 1 .. Len(order) :
        g.edges[k].to = order[b] => \E a \in 1 .. b - 1 : order[a] = g.edges[k].from

\* The nodes taken and those in the queue are the ones without an edge from a node
\* that was not taken, and the degrees count these edges.
LayoutInv(g, s) ==
    /\ s \in Layouts(g)
    /\ Distinct(s.queue) /\ Distinct(s.order) /\ Range(s.queue) \cap Range(s.order) = {}
    /\ \A j \in Nodes(g) : s.degree[j] = Cardinality(Into(g, j, Range(s.order)))
    /\ \A j \in Nodes(g) :
          Into(g, j, Range(s.order)) = {} <=> j \in Range(s.queue) \cup Range(s.order)
    /\ Sorted(g, s.order)

LEMMA FirstKeeps == ASSUME NEW g \in PG!Playbook PROVE LayoutInv(g, PG!First(g))
<1> DEFINE s == PG!First(g)
<1>1. /\ s \in Layouts(g) /\ s.order = <<>> /\ s.degree = PG!Degree(g) /\ Distinct(s.queue)
      /\ Range(s.queue) = {j \in Nodes(g) : PG!Degree(g)[j] = 0}
  BY FirstIs
<1>2. \A j \in Nodes(g) : PG!Degree(g)[j] = Cardinality(Into(g, j, {}))
  BY DegreesAre
<1>3. \A j : Cardinality(Into(g, j, {})) = 0 <=> Into(g, j, {}) = {}
  <2>1. \A j : Into(g, j, {}) \in SUBSET DOMAIN g.edges
    BY DEF Into
  <2> QED
    BY <2>1, EdgesAre
<1>4. Range(s.order) = {} /\ Distinct(s.order) /\ Sorted(g, s.order)
  BY <1>1 DEF Range, Distinct, Sorted
<1> HIDE DEF s
<1>5. \A j \in Nodes(g) : Into(g, j, {}) = {} <=> j \in Range(s.queue)
  BY <1>1, <1>2, <1>3
<1>6. /\ \A j \in Nodes(g) : s.degree[j] = Cardinality(Into(g, j, Range(s.order)))
      /\ \A j \in Nodes(g) :
          Into(g, j, Range(s.order)) = {} <=> j \in Range(s.queue) \cup Range(s.order)
  BY <1>1, <1>2, <1>4, <1>5
<1>7. Range(s.queue) \cap Range(s.order) = {}
  BY <1>4
<1> QED
  BY <1>1, <1>4, <1>6, <1>7 DEF LayoutInv, s

LEMMA SpendKeeps ==
    ASSUME NEW g \in PG!Playbook, NEW s, LayoutInv(g, s), s.queue # <<>>
    PROVE  LayoutInv(g, PG!Spend(g, s)) /\ Len(PG!Spend(g, s).order) = Len(s.order) + 1
<1> DEFINE N == Nodes(g)
           i == Head(s.queue)
           tail == Tail(s.queue)
           O == Range(s.order)
           Q == Range(tail)
           F == Free(g, s)
           free == PG!Listed(F)
           t == PG!Spend(g, s)
<1>1. /\ s \in Layouts(g) /\ s.queue \in Seq(N) /\ s.order \in Seq(N)
      /\ Distinct(s.queue) /\ Distinct(s.order) /\ Range(s.queue) \cap O = {}
      /\ \A j \in N : s.degree[j] = Cardinality(Into(g, j, O))
      /\ \A j \in N : Into(g, j, O) = {} <=> j \in Range(s.queue) \cup O
      /\ Sorted(g, s.order)
  BY DEF LayoutInv, Layouts
<1>2. /\ t \in Layouts(g) /\ i \in N /\ t.queue = tail \o free /\ t.order = Append(s.order, i)
      /\ t.degree = Left(g, s) /\ free \in Seq(N) /\ Range(free) = F /\ Distinct(free)
  BY <1>1, SpendIs
<1> HIDE DEF N, i, tail, F, free, t, Q, O
<1>3. /\ tail \in Seq(N) /\ Distinct(tail) /\ i \notin Q
      /\ Range(s.queue) = {i} \cup Q
  BY <1>1, DistinctTail DEF i, tail, Q
<1>4. i \notin O /\ Into(g, i, O) = {} /\ Q \cap O = {}
  BY <1>1, <1>2, <1>3
<1>5. \A j : /\ Into(g, j, O \cup {i}) = Into(g, j, O) \ Between(g, i, j)
             /\ Between(g, i, j) \subseteq Into(g, j, O)
             /\ Cardinality(Into(g, j, O \cup {i})) = Cardinality(Into(g, j, O)) - PG!Edges(g, i, j)
             /\ PG!Edges(g, i, j) > 0 <=> Between(g, i, j) # {}
  <2>1. \A j : Taken(g, O, i, j)
    BY <1>4, TakenIs
  <2> QED
    BY <2>1 DEF Taken
<1>6. \A j \in N : t.degree[j] = Cardinality(Into(g, j, O \cup {i}))
  BY <1>1, <1>2, <1>5 DEF Left, i, N
<1>7. \A j : Cardinality(Into(g, j, O \cup {i})) = 0 <=> Into(g, j, O \cup {i}) = {}
  <2>1. \A j : Into(g, j, O \cup {i}) \in SUBSET DOMAIN g.edges
    BY DEF Into
  <2> QED
    BY <2>1, EdgesAre
<1>8. \A j : j \in F <=> j \in N /\ Between(g, i, j) # {} /\ Into(g, j, O \cup {i}) = {}
  BY <1>2, <1>5, <1>6, <1>7 DEF F, Free, i, N
<1>9. F \cap O = {} /\ F \cap ({i} \cup Q) = {}
  BY <1>1, <1>3, <1>5, <1>8
<1>10. t.queue \in Seq(N) /\ Distinct(t.queue) /\ Range(t.queue) = Q \cup F
  <2>1. Range(tail) \cap Range(free) = {}
    BY <1>2, <1>9 DEF Q
  <2> QED
    BY <1>2, <1>3, <2>1, DistinctConcat DEF Q
<1>11. t.order \in Seq(N) /\ Distinct(t.order) /\ Range(t.order) = O \cup {i}
  BY <1>1, <1>2, <1>4, DistinctAppend DEF O
<1>12. Range(t.queue) \cap Range(t.order) = {}
  BY <1>3, <1>4, <1>9, <1>10, <1>11
<1>13. ASSUME NEW j \in N
       PROVE  Into(g, j, O \cup {i}) = {} <=> j \in Q \cup F \cup O \cup {i}
  <2>1. ASSUME j \in Q \cup O \cup {i} PROVE Into(g, j, O \cup {i}) = {}
    <3>1. Into(g, j, O) = {}
      BY <1>1, <1>3, <2>1
    <3> QED
      BY <1>5, <3>1
  <2>2. ASSUME Into(g, j, O \cup {i}) = {}, j \notin Q \cup O \cup {i} PROVE j \in F
    <3>1. Into(g, j, O) # {}
      BY <1>1, <1>3, <2>2
    <3>2. Between(g, i, j) # {}
      BY <1>5, <2>2, <3>1
    <3> QED
      BY <1>8, <2>2, <3>2
  <2> QED
    BY <1>8, <2>1, <2>2
<1>14. Len(t.order) = Len(s.order) + 1 /\ Len(s.order) \in Nat
       /\ t.order[Len(s.order) + 1] = i
       /\ \A b \in 1 .. Len(s.order) : t.order[b] = s.order[b]
  BY <1>1, <1>2
<1>15. Sorted(g, t.order)
  <2> SUFFICES ASSUME NEW k \in DOMAIN g.edges, NEW b \in 1 .. Len(t.order), g.edges[k].to = t.order[b]
               PROVE  \E a \in 1 .. b - 1 : t.order[a] = g.edges[k].from
    BY DEF Sorted
  <2>1. CASE b \in 1 .. Len(s.order)
    <3>1. PICK a \in 1 .. b - 1 : s.order[a] = g.edges[k].from
      BY <1>1, <1>14, <2>1 DEF Sorted
    <3>2. a \in 1 .. Len(s.order)
      BY <1>14, <2>1
    <3> QED
      BY <1>14, <3>1, <3>2
  <2>2. CASE b = Len(s.order) + 1
    <3>1. g.edges[k].to = i
      BY <1>14, <2>2
    <3>2. g.edges[k].from \in O
      BY <1>4, <3>1 DEF Into
    <3>3. PICK a \in 1 .. Len(s.order) : s.order[a] = g.edges[k].from
      BY <1>1, <3>2, RangeIs DEF O
    <3>4. a \in 1 .. b - 1
      BY <1>14, <2>2
    <3> QED
      BY <1>14, <3>3, <3>4
  <2> QED
    BY <1>14, <2>1, <2>2
<1>16. /\ \A j \in N : t.degree[j] = Cardinality(Into(g, j, Range(t.order)))
       /\ \A j \in N : Into(g, j, Range(t.order)) = {} <=> j \in Range(t.queue) \cup Range(t.order)
  BY <1>6, <1>10, <1>11, <1>13
<1>17. LayoutInv(g, t)
  BY <1>2, <1>10, <1>11, <1>12, <1>15, <1>16 DEF LayoutInv, N
<1> QED
  BY <1>14, <1>17 DEF t

\* A loop that has not come to its end has taken a node at each turn.
LEMMA LayoutKeeps ==
    ASSUME NEW g \in PG!Playbook
    PROVE  \A k \in 0 .. Len(g.types) :
              /\ LayoutInv(g, PG!Layout(g)[k])
              /\ PG!Layout(g)[k].queue = <<>> \/ Len(PG!Layout(g)[k].order) = k
<1> DEFINE n == Len(g.types)
           s == PG!Layout(g)
           T == {k \in 0 .. n : LayoutInv(g, s[k]) /\ (s[k].queue = <<>> \/ Len(s[k].order) = k)}
<1>1. n \in Nat /\ 0 \in 0 .. n
  BY PlaybookIs
<1>2. s[0] = PG!First(g) /\ \A k \in 1 .. n : s[k] = PG!After(g, s[k - 1])
  BY LayoutIs
<1> HIDE DEF s, n
<1>3. 0 \in T
  <2>1. LayoutInv(g, s[0])
    BY <1>2, FirstKeeps
  <2>2. Len(s[0].order) = 0
    BY <1>2, FirstIs
  <2> QED
    BY <1>1, <2>1, <2>2
<1>4. ASSUME NEW k \in 0 .. n - 1, k \in T PROVE k + 1 \in T
  <2>1. k + 1 \in 1 .. n /\ (k + 1) - 1 = k /\ k + 1 \in 0 .. n
    BY <1>1
  <2>2. s[k + 1] = PG!After(g, s[k])
    BY <1>2, <2>1
  <2>3. LayoutInv(g, s[k]) /\ (s[k].queue = <<>> \/ Len(s[k].order) = k)
    BY <1>4
  <2>4. CASE s[k].queue = <<>>
    <3>1. s[k + 1] = s[k]
      BY <2>2, <2>4 DEF PG!After
    <3> QED
      BY <2>1, <2>3, <2>4, <3>1
  <2>5. CASE s[k].queue # <<>>
    <3>1. s[k + 1] = PG!Spend(g, s[k])
      BY <2>2, <2>5 DEF PG!After
    <3>2. LayoutInv(g, s[k + 1]) /\ Len(s[k + 1].order) = Len(s[k].order) + 1
      BY <2>3, <2>5, <3>1, SpendKeeps
    <3>3. Len(s[k].order) = k
      BY <2>3, <2>5
    <3> QED
      BY <2>1, <3>2, <3>3
  <2> QED
    BY <2>4, <2>5
<1>5. 0 .. n \subseteq T
  <2> HIDE DEF T
  <2> QED
    BY <1>1, <1>3, <1>4, UpTo
<1> QED
  BY <1>5 DEF n, s

\* Lists of positions without repetition: a full one holds them all.
LEMMA FullIs ==
    ASSUME NEW n \in Nat, NEW s \in Seq(1 .. n), Distinct(s)
    PROVE  Len(s) <= n /\ (Len(s) = n <=> Range(s) = 1 .. n)
<1>1. s \in [1 .. Len(s) -> 1 .. n] /\ Len(s) \in Nat
  OBVIOUS
<1>2. s \in Injection(1 .. Len(s), 1 .. n)
  BY <1>1 DEF Distinct, Injection, IsInjective
<1>3. /\ IsFiniteSet(1 .. n) /\ Cardinality(1 .. n) = n
      /\ IsFiniteSet(1 .. Len(s)) /\ Cardinality(1 .. Len(s)) = Len(s)
  BY <1>1, Positions
<1>4. Len(s) <= n /\ (Len(s) = n <=> s \in Surjection(1 .. Len(s), 1 .. n))
  BY <1>2, <1>3, FS_Injection
<1>5. s \in Surjection(1 .. Len(s), 1 .. n) <=> \A j \in 1 .. n : \E a \in 1 .. Len(s) : s[a] = j
  BY <1>1 DEF Surjection
<1>6. Range(s) = {s[a] : a \in 1 .. Len(s)} /\ Range(s) \subseteq 1 .. n
  BY RangeIs
<1>7. Range(s) = 1 .. n <=> \A j \in 1 .. n : \E a \in 1 .. Len(s) : s[a] = j
  BY <1>6
<1> QED
  BY <1>4, <1>5, <1>7

\* The layout of a playbook holds each of its nodes once, and goes along the edges
\* if the graph has no cycle.
LEMMA OrderIs ==
    ASSUME NEW g \in PG!Playbook
    PROVE  LET order == PG!OrderedNodes(g)
           IN  /\ order \in Seq(Nodes(g)) /\ Len(order) = Len(g.types) /\ Distinct(order)
               /\ Range(order) = Nodes(g)
               /\ PG!Acyclic(g) => Sorted(g, order)
<1> DEFINE n == Len(g.types)
           s == PG!Layout(g)[n]
           O == Range(s.order)
           order == PG!OrderedNodes(g)
<1>1. n \in Nat /\ n \in 0 .. n /\ Nodes(g) = 1 .. n
  BY PlaybookIs DEF Nodes
<1>2. LayoutInv(g, s) /\ (s.queue = <<>> \/ Len(s.order) = n)
  BY <1>1, LayoutKeeps
<1>3. s.order \in Seq(Nodes(g)) /\ Distinct(s.order) /\ Sorted(g, s.order)
      /\ \A j \in Nodes(g) : Into(g, j, O) = {} <=> j \in Range(s.queue) \cup O
  BY <1>2 DEF LayoutInv, Layouts
<1>4. order = IF Len(s.order) = n THEN s.order ELSE [k \in Nodes(g) |-> k]
  BY PlaybookIs DEF PG!OrderedNodes
<1> HIDE DEF s, n, order
<1>5. CASE Len(s.order) = n
  <2>1. Range(s.order) = Nodes(g)
    BY <1>1, <1>3, <1>5, FullIs
  <2> QED
    BY <1>3, <1>4, <1>5, <2>1 DEF n, order
<1>6. CASE Len(s.order) # n
  <2>1. order = [k \in 1 .. n |-> k]
    BY <1>1, <1>4, <1>6
  <2>2. order \in Seq(1 .. n) /\ Len(order) = n /\ Distinct(order) /\ \A k \in 1 .. n : order[k] = k
    BY <1>1, <2>1 DEF Distinct
  <2>3. Range(order) = 1 .. n
    BY <1>1, <2>2, FullIs
  <2> DEFINE U == Nodes(g) \ O
  <2>4. U # {}
    <3>1. O \subseteq 1 .. n
      BY <1>1, <1>3, RangeIs
    <3>2. O # 1 .. n
      BY <1>1, <1>3, <1>6, FullIs
    <3> QED
      BY <1>1, <3>1, <3>2
  <2>5. Range(s.queue) = {}
    BY <1>2, <1>6 DEF Range
  <2>6. ASSUME NEW i \in U PROVE \E j \in U : PG!Edges(g, j, i) # 0
    <3>1. Into(g, i, O) # {}
      BY <1>3, <2>5
    <3>2. PICK k \in DOMAIN g.edges : g.edges[k].to = i /\ g.edges[k].from \notin O
      BY <3>1 DEF Into
    <3> DEFINE j == g.edges[k].from
    <3>3. j \in U
      BY <3>2, PlaybookIs
    <3>4. Between(g, j, i) # {} /\ Between(g, j, i) \in SUBSET DOMAIN g.edges
      BY <3>2 DEF Between
    <3>5. PG!Edges(g, j, i) # 0
      BY <3>4, EdgesAre, DegreesAre
    <3> QED
      BY <3>3, <3>5
  <2>7. ~PG!Acyclic(g)
    <3>1. U \in SUBSET PG!Nodes(g)
      BY PlaybookIs
    <3> HIDE DEF U
    <3> QED
      BY <2>4, <2>6, <3>1 DEF PG!Acyclic
  <2> QED
    BY <1>1, <2>2, <2>3, <2>7 DEF n, order
<1> QED
  BY <1>5, <1>6

-----------------------------------------------------------------------------
(* Playbooks: the walk. *)

LEMMA MinIs == ASSUME NEW S \in SUBSET Nat, S # {} PROVE PG!Min(S) \in S
<1>1. \E x \in S : \A y \in S : x <= y
  BY LeastIs
<1> QED
  BY <1>1 DEF PG!Min

LEMMA TriggerIs ==
    ASSUME NEW g \in PG!Playbook
    PROVE  PG!Trigger(g) \in Nodes(g) /\ g.types[PG!Trigger(g)] = "trigger"
<1> DEFINE S == {i \in Nodes(g) : g.types[i] = "trigger"}
<1>1. S \in SUBSET Nat /\ S # {}
  BY PlaybookIs DEF Nodes
<1>0. PG!Trigger(g) = PG!Min(S)
  BY PlaybookIs DEF PG!Trigger
<1>2. PG!Min(S) \in S
  <2> HIDE DEF S
  <2> QED
    BY <1>1, MinIs
<1> QED
  BY <1>0, <1>2

LEMMA TargetIs ==
    ASSUME NEW g \in PG!Playbook, NEW K \in SUBSET DOMAIN g.edges
    PROVE  \/ PG!Target(g, K) = None /\ K = {}
           \/ \E k \in K : PG!Target(g, K) = g.edges[k].to
<1>1. K \in SUBSET Nat
  BY PlaybookIs
<1>2. CASE K # {}
  BY <1>1, <1>2, MinIs DEF PG!Target
<1> QED
  BY <1>2 DEF PG!Target

\* Where the walk goes from a node: along an edge which is open.
Leads(g, i, n, m) ==
    \E k \in DOMAIN g.edges :
        /\ g.edges[k].from = i /\ g.edges[k].to = n
        /\ g.types[i] \notin PG!Gates => PG!Open(g, g.edges[k], m)

LEMMA NextNodeIs ==
    ASSUME NEW g \in PG!Playbook, NEW i \in Nodes(g), NEW m \in BOOLEAN
    PROVE  \/ PG!NextNode(g, i, m) = None
           \/ PG!NextNode(g, i, m) \in Nodes(g) /\ Leads(g, i, PG!NextNode(g, i, m), m)
<1> DEFINE out == PG!Out(g, i)
           yes == PG!OrElse(PG!With(g, out, "true"), PG!With(g, out, "success"))
           no == PG!With(g, out, "false")
           any == PG!OrElse(PG!With(g, out, "success"), out)
           n == PG!NextNode(g, i, m)
<1>1. out \in SUBSET DOMAIN g.edges /\ \A k \in out : g.edges[k].from = i
  BY DEF PG!Out
<1>2. \A k \in DOMAIN g.edges : g.edges[k].to \in Nodes(g)
  BY PlaybookIs
<1>3. CASE g.types[i] = "condition" /\ m
  <2>1. n = PG!Target(g, yes)
    BY <1>3 DEF PG!NextNode
  <2>2. yes \in SUBSET DOMAIN g.edges /\ \A k \in yes : k \in out /\ g.edges[k].cond \in {"true", "success"}
    BY <1>1 DEF PG!OrElse, PG!With
  <2> HIDE DEF yes, out, n
  <2>3. n = None \/ \E k \in yes : n = g.edges[k].to
    BY <2>1, <2>2, TargetIs
  <2>4. \A k \in yes : PG!Open(g, g.edges[k], m)
    BY <1>1, <1>3, <2>2 DEF PG!Open, PG!Gates
  <2> QED
    BY <1>1, <1>2, <2>2, <2>3, <2>4 DEF Leads, n
<1>4. CASE g.types[i] = "condition" /\ ~m
  <2>1. n = PG!Target(g, no)
    BY <1>4 DEF PG!NextNode
  <2>2. no \in SUBSET DOMAIN g.edges /\ \A k \in no : k \in out /\ g.edges[k].cond = "false"
    BY <1>1 DEF PG!With
  <2> HIDE DEF no, out, n
  <2>3. n = None \/ \E k \in no : n = g.edges[k].to
    BY <2>1, <2>2, TargetIs
  <2>4. \A k \in no : PG!Open(g, g.edges[k], m)
    BY <1>1, <1>4, <2>2 DEF PG!Open, PG!Gates
  <2> QED
    BY <1>1, <1>2, <2>2, <2>3, <2>4 DEF Leads, n
<1>5. CASE g.types[i] # "condition"
  <2>1. n = PG!Target(g, any)
    BY <1>5 DEF PG!NextNode
  <2>2. any \in SUBSET DOMAIN g.edges /\ \A k \in any : k \in out
    BY <1>1 DEF PG!OrElse, PG!With
  <2> HIDE DEF any, out, n
  <2>3. n = None \/ \E k \in any : n = g.edges[k].to
    BY <2>1, <2>2, TargetIs
  <2>4. \A k \in any : g.types[i] \notin PG!Gates => PG!Open(g, g.edges[k], m)
    BY <1>1, <1>5, <2>2 DEF PG!Open
  <2> QED
    BY <1>1, <1>2, <2>2, <2>3, <2>4 DEF Leads, n
<1> QED
  BY <1>3, <1>4, <1>5

\* A walk from a node: each of its nodes leads to the next.
Linked(g, m, w) ==
    /\ w \in Seq(Nodes(g))
    /\ \A a \in 1 .. Len(w) - 1 : w[a + 1] = PG!NextNode(g, w[a], m)

LEMMA FurtherKeeps ==
    ASSUME NEW g \in PG!Playbook, NEW m \in BOOLEAN, NEW w, Linked(g, m, w), w # <<>>
    PROVE  LET t == PG!Further(g, m, w) IN Linked(g, m, t) /\ t # <<>> /\ t[1] = w[1]
<1> DEFINE n == PG!NextNode(g, w[Len(w)], m)
           t == PG!Further(g, m, w)
<1>1. w \in Seq(Nodes(g)) /\ Len(w) \in Nat \ {0} /\ w[Len(w)] \in Nodes(g)
      /\ \A a \in 1 .. Len(w) - 1 : w[a + 1] = PG!NextNode(g, w[a], m)
  BY DEF Linked
<1>2. CASE t = w
  BY <1>2
<1>3. CASE n # None /\ t = Append(w, n)
  <2>1. n \in Nodes(g)
    BY <1>1, <1>3, NextNodeIs
  <2> HIDE DEF n, t
  <2>2. t \in Seq(Nodes(g)) /\ Len(t) = Len(w) + 1 /\ t[Len(w) + 1] = n
        /\ \A a \in 1 .. Len(w) : t[a] = w[a]
    BY <1>1, <1>3, <2>1
  <2>3. ASSUME NEW a \in 1 .. Len(t) - 1 PROVE t[a + 1] = PG!NextNode(g, t[a], m)
    <3>1. a \in 1 .. Len(w) /\ (a = Len(w) \/ (a \in 1 .. Len(w) - 1 /\ a + 1 \in 1 .. Len(w)))
      BY <1>1, <2>2
    <3>2. CASE a = Len(w)
      BY <2>2, <3>1, <3>2 DEF n
    <3>3. CASE a \in 1 .. Len(w) - 1 /\ a + 1 \in 1 .. Len(w)
      BY <1>1, <2>2, <3>1, <3>3
    <3> QED
      BY <3>1, <3>2, <3>3
  <2>4. t # <<>> /\ t[1] = w[1]
    BY <1>1, <2>2
  <2> QED
    BY <2>2, <2>3, <2>4 DEF Linked, t
<1>4. t = w \/ (n # None /\ t = Append(w, n))
  BY DEF PG!Further
<1> QED
  BY <1>2, <1>3, <1>4

LEMMA WalkIs ==
    ASSUME NEW g \in PG!Playbook, NEW m \in BOOLEAN
    PROVE  LET w == PG!Walk(g, m)
           IN  Linked(g, m, w) /\ w # <<>> /\ w[1] = PG!Trigger(g)
<1> DEFINE n == Len(g.types)
           a == <<PG!Trigger(g)>>
           A == {w \in Seq(Nodes(g)) : Linked(g, m, w) /\ w # <<>> /\ w[1] = PG!Trigger(g)}
           F == [k \in 1 .. n |-> [w \in A |-> PG!Further(g, m, w)]]
           s == PG!Walked(g, m)
<1>1. n \in Nat
  BY PlaybookIs
<1>2. ASSUME NEW w \in A PROVE PG!Further(g, m, w) \in A
  <2> DEFINE t == PG!Further(g, m, w)
  <2>1. Linked(g, m, t) /\ t # <<>> /\ t[1] = w[1]
    BY FurtherKeeps
  <2>2. t \in Seq(Nodes(g))
    BY <2>1 DEF Linked
  <2> HIDE DEF t
  <2> QED
    BY <2>1, <2>2 DEF t
<1>3. F \in [1 .. n -> [A -> A]]
  <2> HIDE DEF A, n
  <2> QED
    BY <1>2
<1>4. a \in A
  <2>1. a \in Seq(Nodes(g)) /\ a # <<>> /\ a[1] = PG!Trigger(g) /\ Len(a) = 1
    BY TriggerIs
  <2>2. Linked(g, m, a)
    <3> HIDE DEF a
    <3> QED
      BY <2>1 DEF Linked
  <2> HIDE DEF a
  <2> QED
    BY <2>1, <2>2
<1>5. PICK f \in [0 .. n -> A] : f[0] = a /\ \A k \in 1 .. n : f[k] = F[k][f[k - 1]]
  <2> HIDE DEF n, A, F, a
  <2>1. Results(n, A, a, F) # {}
    BY <1>1, <1>3, <1>4, LoopIs
  <2> QED
    BY <2>1 DEF Results
<1>6. \A k \in 1 .. n : k - 1 \in 0 .. n /\ f[k] = PG!Further(g, m, f[k - 1])
  <2> HIDE DEF A
  <2>1. \A k \in 1 .. n : k - 1 \in 0 .. n /\ f[k - 1] \in A
    BY <1>1, <1>5
  <2> QED
    BY <1>5, <2>1
<1>7. f = [k \in 0 .. n |-> IF k = 0 THEN a ELSE PG!Further(g, m, f[k - 1])]
  <2> HIDE DEF A, F, a
  <2> QED
    BY <1>1, <1>5, <1>6
<1>8. s = [k \in 0 .. n |-> IF k = 0 THEN a ELSE PG!Further(g, m, s[k - 1])]
  BY <1>7 DEF PG!Walked
<1>9. s[0] = a /\ \A k \in 1 .. n : s[k] = PG!Further(g, m, s[k - 1])
  <2>1. \A k \in 1 .. n : k - 1 \in 0 .. n /\ k \in 0 .. n /\ k # 0
    BY <1>1
  <2>2. 0 \in 0 .. n
    BY <1>1
  <2> HIDE DEF s, n, a
  <2>3. s[0] = a
    BY <1>8, <2>2
  <2>4. \A k \in 1 .. n : s[k] = PG!Further(g, m, s[k - 1])
    BY <1>8, <2>1
  <2> QED
    BY <2>3, <2>4
<1>10. \A k \in 0 .. n : s[k] \in A
  <2> HIDE DEF s, A, a
  <2>1. \A k \in 1 .. n : s[k - 1] \in A => s[k] \in A
    BY <1>2, <1>9
  <2>2. s[0] \in A
    BY <1>4, <1>9
  <2> QED
    BY <1>1, <2>1, <2>2, LoopStays
<1>11. PG!Walk(g, m) = s[n] /\ n \in 0 .. n
  BY <1>1 DEF PG!Walk
<1> HIDE DEF s, n
<1> QED
  BY <1>10, <1>11

-----------------------------------------------------------------------------
(* Playbooks: drafts. *)

\* A sensitive node comes right after an approval, and edges go to the next node.
Asks(types) == \A i \in 1 .. Len(types) : types[i] = "block" => i > 1 /\ types[i - 1] = "gate"
InChain(g) == \A k \in DOMAIN g.edges : g.edges[k].to = g.edges[k].from + 1

\* The types of a draft.
DraftTypes == {t \in Seq(PG!NodeType) : Len(t) > 0 /\ t[1] = "trigger" /\ Asks(t)}

LEMMA AsksOn ==
    ASSUME NEW s \in DraftTypes, NEW t \in Seq(PG!NodeType), Asks(t)
    PROVE  s \o t \in DraftTypes
<1> DEFINE r == s \o t
<1>1. s \in Seq(PG!NodeType) /\ Len(s) \in Nat \ {0} /\ s[1] = "trigger" /\ Asks(s) /\ Len(t) \in Nat
  BY DEF DraftTypes
<1>2. /\ r \in Seq(PG!NodeType) /\ Len(r) = Len(s) + Len(t)
      /\ \A i \in 1 .. Len(s) : r[i] = s[i]
      /\ \A i \in 1 .. Len(t) : r[Len(s) + i] = t[i]
  BY <1>1
<1> HIDE DEF r
<1>3. ASSUME NEW i \in 1 .. Len(r), r[i] = "block" PROVE i > 1 /\ r[i - 1] = "gate"
  <2>1. CASE i \in 1 .. Len(s)
    <3>1. i > 1 /\ s[i - 1] = "gate" /\ i - 1 \in 1 .. Len(s)
      BY <1>1, <1>2, <1>3, <2>1 DEF Asks
    <3> QED
      BY <1>2, <3>1
  <2>2. CASE i \notin 1 .. Len(s)
    <3> DEFINE j == i - Len(s)
    <3>1. j \in 1 .. Len(t) /\ i = Len(s) + j
      BY <1>1, <1>2, <2>2
    <3>2. t[j] = "block"
      BY <1>2, <1>3, <3>1
    <3>3. j > 1 /\ t[j - 1] = "gate" /\ j - 1 \in 1 .. Len(t)
      BY <1>1, <3>1, <3>2 DEF Asks
    <3>4. r[Len(s) + (j - 1)] = "gate" /\ Len(s) + (j - 1) = i - 1
      BY <1>1, <1>2, <3>1, <3>3
    <3> QED
      BY <1>1, <3>1, <3>3, <3>4
  <2> QED
    BY <2>1, <2>2
<1>4. Len(r) > 0 /\ r[1] = "trigger"
  BY <1>1, <1>2
<1> QED
  BY <1>2, <1>3, <1>4 DEF Asks, DraftTypes, r

LEMMA ChainIs ==
    ASSUME NEW t \in DraftTypes
    PROVE  PG!Chain(t) \in PG!Playbook /\ PG!Chain(t).types = t /\ InChain(PG!Chain(t))
<1> DEFINE g == PG!Chain(t)
           e == [k \in 1 .. Len(t) - 1 |-> [from |-> k, to |-> k + 1, cond |-> "success"]]
           Edge == [from : Nat, to : Nat, cond : {"success", "true", "false"}]
<1>1. t \in Seq(PG!NodeType) /\ Len(t) \in Nat \ {0} /\ t[1] = "trigger" /\ DOMAIN t = 1 .. Len(t)
  BY DEF DraftTypes
<1>2. g = [types |-> t, edges |-> e]
  BY DEF PG!Chain
<1>3. e \in Seq(Edge) /\ DOMAIN e = 1 .. Len(t) - 1
  <2>1. Len(t) - 1 \in Nat
    BY <1>1
  <2>2. \A k \in 1 .. Len(t) - 1 : e[k] \in Edge
    BY <1>1
  <2>3. e \in [1 .. Len(t) - 1 -> Edge]
    <3> HIDE DEF Edge
    <3> QED
      BY <2>2
  <2> HIDE DEF e, Edge
  <2> QED
    BY <2>1, <2>3
<1>4. \A k \in DOMAIN e : e[k].from = k /\ e[k].to = k + 1 /\ k \in 1 .. Len(t) /\ k + 1 \in 1 .. Len(t)
  BY <1>1, <1>3
<1> HIDE DEF e
<1>5. g \in [types : Seq(PG!NodeType), edges : Seq(Edge)]
  BY <1>1, <1>2, <1>3
<1>6. g.types = t /\ g.edges = e
  BY <1>2
<1> HIDE DEF g
<1>7. g \in PG!Playbook
  <2>1. \A k \in DOMAIN g.edges : {g.edges[k].from, g.edges[k].to} \subseteq PG!Nodes(g)
    BY <1>1, <1>4, <1>6 DEF PG!Nodes
  <2>2. 1 \in PG!Nodes(g) /\ g.types[1] = "trigger"
    BY <1>1, <1>6 DEF PG!Nodes
  <2> QED
    BY <1>5, <2>1, <2>2 DEF PG!Playbook
<1>8. InChain(g)
  BY <1>4, <1>6 DEF InChain
<1> QED
  BY <1>6, <1>7, <1>8 DEF g

LEMMA DraftIs ==
    ASSUME NEW steps \in PG!Answers
    PROVE  PG!Drafted(steps)[Len(steps)] \in DraftTypes
<1> DEFINE n == Len(steps)
           a == <<"trigger">>
           A == DraftTypes
           F == [k \in 1 .. n |-> [t \in A |-> t \o PG!DraftStep(steps[k])]]
           s == PG!Drafted(steps)
<1>1. n \in Nat /\ \A k \in 1 .. n : steps[k] \in [kind : {"block", "note", "enrich", "gate"}, approval : BOOLEAN]
  <2>1. PICK l \in 0 .. MaxSteps : steps \in [1 .. l -> AiStep]
    BY DEF PG!Answers
  <2>2. l \in Nat
    BY PlaybookAssumption
  <2>3. n = l
    BY <2>1, <2>2
  <2> QED
    BY <2>1, <2>2, <2>3, PlaybookAssumption
<1>2. ASSUME NEW k \in 1 .. n, NEW t \in A PROVE t \o PG!DraftStep(steps[k]) \in A
  <2> DEFINE x == steps[k]
             u == PG!DraftStep(x)
  <2>1. x.kind \in {"block", "note", "enrich", "gate"} /\ x.approval \in BOOLEAN
    BY <1>1
  <2> HIDE DEF x
  <2>2. u = <<"gate", x.kind>> \/ (u = <<x.kind>> /\ x.kind # "block")
    BY <2>1 DEF PG!DraftStep
  <2>3. u \in Seq(PG!NodeType) /\ Asks(u)
    <3>1. CASE u = <<"gate", x.kind>>
      <4>1. u \in Seq(PG!NodeType) /\ Len(u) = 2 /\ u[1] = "gate"
        BY <2>1, <3>1 DEF PG!NodeType
      <4> HIDE DEF u
      <4> QED
        BY <4>1 DEF Asks
    <3>2. CASE u = <<x.kind>> /\ x.kind # "block"
      <4>1. u \in Seq(PG!NodeType) /\ Len(u) = 1 /\ u[1] # "block"
        BY <2>1, <3>2 DEF PG!NodeType
      <4> HIDE DEF u
      <4> QED
        BY <4>1 DEF Asks
    <3> QED
      BY <2>2, <3>1, <3>2
  <2> HIDE DEF u
  <2> QED
    BY <2>3, AsksOn DEF u, x
<1>3. F \in [1 .. n -> [A -> A]]
  <2> HIDE DEF A, n
  <2> QED
    BY <1>2
<1>4. a \in A
  <2>1. a \in Seq(PG!NodeType) /\ Len(a) = 1 /\ a[1] = "trigger"
    BY DEF PG!NodeType
  <2> HIDE DEF a
  <2>2. \A i \in 1 .. Len(a) : a[i] # "block"
    BY <2>1
  <2>3. Asks(a)
    BY <2>2 DEF Asks
  <2>4. Len(a) > 0
    BY <2>1
  <2>5. a \in DraftTypes
    BY <2>1, <2>3, <2>4 DEF DraftTypes
  <2> QED
    BY <2>5
<1>5. PICK f \in [0 .. n -> A] : f[0] = a /\ \A k \in 1 .. n : f[k] = F[k][f[k - 1]]
  <2> HIDE DEF n, A, F, a
  <2>1. Results(n, A, a, F) # {}
    BY <1>1, <1>3, <1>4, LoopIs
  <2> QED
    BY <2>1 DEF Results
<1>6. \A k \in 1 .. n : k - 1 \in 0 .. n /\ f[k] = f[k - 1] \o PG!DraftStep(steps[k])
  <2>0. \A k \in 1 .. n : k - 1 \in 0 .. n
    BY <1>1
  <2> HIDE DEF A, n
  <2>1. \A k \in 1 .. n : k - 1 \in 0 .. n /\ f[k - 1] \in A
    BY <1>5, <2>0
  <2> QED
    BY <1>5, <2>1
<1>7. f = [k \in 0 .. n |-> IF k = 0 THEN a ELSE f[k - 1] \o PG!DraftStep(steps[k])]
  <2>1. \A k \in 0 .. n : k = 0 \/ k \in 1 .. n
    BY <1>1
  <2>2. \A k \in 0 .. n : f[k] = IF k = 0 THEN a ELSE f[k - 1] \o PG!DraftStep(steps[k])
    <3> HIDE DEF A, F, a, n
    <3> QED
      BY <1>5, <1>6, <2>1
  <2> HIDE DEF A, F, a, n
  <2> QED
    BY <1>5, <2>2
<1>8. s = [k \in 0 .. n |-> IF k = 0 THEN a ELSE s[k - 1] \o PG!DraftStep(steps[k])]
  BY <1>7 DEF PG!Drafted
<1>9. s[0] = a /\ \A k \in 1 .. n : s[k] = s[k - 1] \o PG!DraftStep(steps[k])
  <2>1. \A k \in 1 .. n : k \in 0 .. n /\ k # 0
    BY <1>1
  <2>2. 0 \in 0 .. n
    BY <1>1
  <2> HIDE DEF s, n, a
  <2>3. s[0] = a
    BY <1>8, <2>2
  <2>4. \A k \in 1 .. n : s[k] = s[k - 1] \o PG!DraftStep(steps[k])
    BY <1>8, <2>1
  <2> QED
    BY <2>3, <2>4
<1>10. \A k \in 0 .. n : s[k] \in A
  <2> HIDE DEF s, A, a
  <2>1. \A k \in 1 .. n : s[k - 1] \in A => s[k] \in A
    BY <1>2, <1>9
  <2>2. s[0] \in A
    BY <1>4, <1>9
  <2> QED
    BY <1>1, <2>1, <2>2, LoopStays
<1> HIDE DEF s, n
<1>11. n \in 0 .. n
  BY <1>1
<1> QED
  BY <1>10, <1>11 DEF s, n

LEMMA TemplateIs ==
    ASSUME NEW source \in BOOLEAN, NEW blocks \in BOOLEAN
    PROVE  \E t \in DraftTypes : PG!Template(source, blocks) = PG!Chain(t)
<1> DEFINE a == <<"trigger", "note">>
           b == IF source THEN <<"enrich">> ELSE <<>>
           c == IF source /\ blocks THEN <<"gate", "block">> ELSE <<>>
           d == <<"note">>
<1>1. a \in DraftTypes
  <2>1. a \in Seq(PG!NodeType) /\ Len(a) = 2 /\ a[1] = "trigger" /\ a[2] = "note"
    BY DEF PG!NodeType
  <2> HIDE DEF a
  <2>2. \A i \in 1 .. Len(a) : a[i] # "block"
    BY <2>1
  <2>3. Asks(a)
    BY <2>2 DEF Asks
  <2> QED
    BY <2>1, <2>3 DEF DraftTypes
<1>2. b \in Seq(PG!NodeType) /\ Asks(b)
  <2>1. b \in Seq(PG!NodeType) /\ (Len(b) = 0 \/ (Len(b) = 1 /\ b[1] = "enrich"))
    <3>1. CASE source
      BY <3>1 DEF PG!NodeType
    <3>2. CASE ~source
      BY <3>2
    <3> QED
      BY <3>1, <3>2
  <2> HIDE DEF b
  <2> QED
    BY <2>1 DEF Asks
<1>3. c \in Seq(PG!NodeType) /\ Asks(c)
  <2>1. c \in Seq(PG!NodeType) /\ (Len(c) = 0 \/ (Len(c) = 2 /\ c[1] = "gate"))
    <3>1. CASE source /\ blocks
      BY <3>1 DEF PG!NodeType
    <3>2. CASE ~(source /\ blocks)
      BY <3>2
    <3> QED
      BY <3>1, <3>2
  <2> HIDE DEF c
  <2> QED
    BY <2>1 DEF Asks
<1>4. d \in Seq(PG!NodeType) /\ Asks(d)
  <2>1. d \in Seq(PG!NodeType) /\ Len(d) = 1 /\ d[1] = "note"
    BY DEF PG!NodeType
  <2> HIDE DEF d
  <2> QED
    BY <2>1 DEF Asks
<1>5. PG!Template(source, blocks) = PG!Chain(((a \o b) \o c) \o d)
  BY DEF PG!Template
<1> HIDE DEF a, b, c, d
<1>6. ((a \o b) \o c) \o d \in DraftTypes
  BY <1>1, <1>2, <1>3, <1>4, AsksOn
<1> QED
  BY <1>5, <1>6

\* What the BFF drafts.
LEMMA DraftsAre ==
    ASSUME NEW g \in PG!Drafts
    PROVE  g \in PG!Playbook /\ Asks(g.types) /\ InChain(g)
<1>1. CASE \E s \in PG!Answers : g = PG!Draft(s)
  <2>1. PICK s \in PG!Answers : g = PG!Draft(s)
    BY <1>1
  <2> DEFINE t == PG!Drafted(s)[Len(s)]
  <2>2. t \in DraftTypes /\ g = PG!Chain(t)
    BY <2>1, DraftIs DEF PG!Draft
  <2> HIDE DEF t
  <2> QED
    BY <2>2, ChainIs DEF DraftTypes
<1>2. CASE \E s, b \in BOOLEAN : g = PG!Template(s, b)
  <2>1. PICK s \in BOOLEAN : \E b \in BOOLEAN : g = PG!Template(s, b)
    BY <1>2
  <2>2. PICK b \in BOOLEAN : g = PG!Template(s, b)
    BY <2>1
  <2>3. PICK t \in DraftTypes : g = PG!Chain(t)
    BY <2>2, TemplateIs
  <2> QED
    BY <2>3, ChainIs DEF DraftTypes
<1> QED
  BY <1>1, <1>2 DEF PG!Drafts

-----------------------------------------------------------------------------
(* Playbooks: the invariant. *)

\* A run holds all the nodes in their order, and one with a gate waits or was
\* approved.
PlaybookRun ==
    [graph : PG!Playbook, steps : Seq(Nat), status : {"waiting_approval", "completed"},
     approved : BOOLEAN]
Proper(x) ==
    /\ x.steps = PG!OrderedNodes(x.graph)
    /\ PG!Waits(x.graph) => x.status = "waiting_approval" \/ x.approved
SoundRun == {x \in PlaybookRun : Proper(x)}

\* What is still to visit is linked; what had its effect, and what comes next, lies
\* in every set with the trigger that open edges do not leave; a walk ends at a gate.
Walking(g, m, p, d, t) ==
    /\ Linked(g, m, p)
    /\ \A S \in SUBSET Nodes(g) :
          PG!Trigger(g) \in S /\ PG!Closed(g, S, m) => d \subseteq S /\ (p # <<>> => p[1] \in S)
    /\ d \subseteq Nodes(g)
    /\ t # None => p = <<>> /\ t \in Nodes(g) /\ g.types[t] \in PG!Gates

\* The walk of a draft comes to an approval first.
Careful(g, p, t) ==
    /\ p # <<>> => g.types[p[1]] # "block"
    /\ t # None => g.types[t] = "gate"

GraphTypes ==
    /\ {stored, fetched} \subseteq PG!Playbook \cup {None}
    /\ runs \in Seq(SoundRun) /\ Len(runs) <= 2
    /\ matches \in BOOLEAN /\ drafted \in BOOLEAN /\ edited \in BOOLEAN
    /\ pc \in {"idle", "created", "walking", "over"}
    /\ path \in Seq(Nat) /\ done \in SUBSET Nat /\ stop \in Nat \cup {None}
    /\ faults \in 0 .. MaxFaults

GraphInv ==
    /\ GraphTypes
    /\ pc = "idle" <=> runs = <<>>
    /\ ~edited => \A r \in DOMAIN runs : runs[r].graph = stored
    /\ pc \in {"idle", "created"} => fetched = None
    /\ fetched = None => path = <<>> /\ done = {} /\ stop = None
    /\ fetched # None /\ ~edited => fetched = stored
    /\ drafted /\ ~edited => stored \in PG!Drafts
    /\ \A g \in PG!Playbook, m \in BOOLEAN, p \in Seq(Nat), d \in SUBSET Nat, t \in Nat \cup {None} :
          fetched = g /\ matches = m /\ path = p /\ done = d /\ stop = t => Walking(g, m, p, d, t)
    /\ \A g \in PG!Playbook, p \in Seq(Nat), t \in Nat \cup {None} :
          fetched = g /\ path = p /\ stop = t /\ drafted /\ ~edited => Careful(g, p, t)

LEMMA SoundRunIs ==
    ASSUME NEW x \in SoundRun
    PROVE  /\ x \in PlaybookRun /\ x.graph \in PG!Playbook /\ x.steps \in Seq(Nat)
           /\ x.status \in {"waiting_approval", "completed"} /\ x.steps = PG!OrderedNodes(x.graph)
           /\ PG!Waits(x.graph) => x.status = "waiting_approval" \/ x.approved
<1>1. /\ x \in PlaybookRun /\ x.steps = PG!OrderedNodes(x.graph)
      /\ PG!Waits(x.graph) => x.status = "waiting_approval" \/ x.approved
  <2>1. x \in PlaybookRun /\ Proper(x)
    BY DEF SoundRun
  <2> QED
    BY <2>1, Zenon DEF Proper
<1>2. x.graph \in PG!Playbook /\ x.steps \in Seq(Nat) /\ x.status \in {"waiting_approval", "completed"}
  BY <1>1 DEF PlaybookRun
<1> QED
  BY <1>1, <1>2

LEMMA NewRunIs == ASSUME NEW g \in PG!Playbook PROVE PG!NewRun(g) \in SoundRun /\ PG!NewRun(g).graph = g
<1> DEFINE x == PG!NewRun(g)
<1>1. x = [graph |-> g, steps |-> PG!OrderedNodes(g),
           status |-> IF PG!Waits(g) THEN "waiting_approval" ELSE "completed", approved |-> FALSE]
  BY DEF PG!NewRun
<1>2. PG!OrderedNodes(g) \in Seq(Nat)
  <2> DEFINE o == PG!OrderedNodes(g)
  <2>1. o \in Seq(Nodes(g)) /\ Nodes(g) \subseteq Nat
    BY OrderIs DEF Nodes
  <2> HIDE DEF o
  <2>2. o \in Seq(Nat)
    BY <2>1
  <2> QED
    BY <2>2 DEF o
<1>3. x \in PlaybookRun
  BY <1>1, <1>2 DEF PlaybookRun
<1>4. /\ x.graph = g /\ x.steps = PG!OrderedNodes(g)
      /\ PG!Waits(g) => x.status = "waiting_approval"
  BY <1>1
<1> HIDE DEF x
<1>5. x \in SoundRun
  BY <1>3, <1>4 DEF SoundRun, Proper
<1> QED
  BY <1>4, <1>5 DEF x

LEMMA LinkedIs ==
    ASSUME NEW g \in PG!Playbook, NEW m \in BOOLEAN, NEW p, Linked(g, m, p), p # <<>>
    PROVE  /\ Head(p) = p[1] /\ p[1] \in Nodes(g) /\ Linked(g, m, Tail(p))
           /\ Tail(p) # <<>> => Tail(p)[1] = PG!NextNode(g, p[1], m) /\ Tail(p)[1] \in Nodes(g)
<1> DEFINE t == Tail(p)
<1>1. p \in Seq(Nodes(g)) /\ Len(p) \in Nat \ {0}
      /\ \A a \in 1 .. Len(p) - 1 : p[a + 1] = PG!NextNode(g, p[a], m)
  BY DEF Linked
<1>2. t \in Seq(Nodes(g)) /\ Len(t) = Len(p) - 1 /\ \A a \in 1 .. Len(t) : t[a] = p[a + 1]
      /\ Head(p) = p[1] /\ p[1] \in Nodes(g)
  BY <1>1
<1> HIDE DEF t
<1>3. ASSUME NEW a \in 1 .. Len(t) - 1 PROVE t[a + 1] = PG!NextNode(g, t[a], m)
  <2>1. a \in 1 .. Len(t) /\ a + 1 \in 1 .. Len(t) /\ a + 1 \in 1 .. Len(p) - 1
    BY <1>1, <1>2
  <2> QED
    BY <1>1, <1>2, <2>1
<1>4. t # <<>> => t[1] = PG!NextNode(g, p[1], m) /\ t[1] \in Nodes(g)
  <2> SUFFICES ASSUME t # <<>> PROVE t[1] = PG!NextNode(g, p[1], m) /\ t[1] \in Nodes(g)
    OBVIOUS
  <2>1. 1 \in 1 .. Len(t) /\ 1 \in 1 .. Len(p) - 1
    BY <1>1, <1>2
  <2>2. t[1] = p[2] /\ p[2] = PG!NextNode(g, p[1], m)
    BY <1>1, <1>2, <2>1
  <2> QED
    BY <1>2, <2>1, <2>2
<1> QED
  BY <1>2, <1>3, <1>4 DEF Linked, t

\* The next node of one which is no gate is not a sensitive one, in a draft.
LEMMA NextIsCareful ==
    ASSUME NEW g \in PG!Drafts, NEW i \in Nodes(g), NEW m \in BOOLEAN, NEW n \in Nodes(g),
           n = PG!NextNode(g, i, m), g.types[i] # "gate"
    PROVE  g.types[n] # "block"
<1>1. g \in PG!Playbook /\ Asks(g.types) /\ InChain(g)
  BY DraftsAre
<1>2. n \in Nat /\ n # None
  BY PlaybookAssumption DEF Nodes
<1>3. PICK k \in DOMAIN g.edges : g.edges[k].from = i /\ g.edges[k].to = n
  <2>1. Leads(g, i, n, m)
    BY <1>1, <1>2, NextNodeIs
  <2> QED
    BY <2>1 DEF Leads
<1>4. n = i + 1 /\ i \in Nat
  BY <1>1, <1>3 DEF InChain, Nodes
<1>5. n - 1 = i
  BY <1>4
<1> QED
  BY <1>1, <1>5 DEF Asks, Nodes

LEMMA WalkStarts ==
    ASSUME NEW g \in PG!Playbook, NEW m \in BOOLEAN
    PROVE  Walking(g, m, PG!Walk(g, m), {}, None) /\ Careful(g, PG!Walk(g, m), None)
<1>1. Linked(g, m, PG!Walk(g, m)) /\ PG!Walk(g, m)[1] = PG!Trigger(g)
  BY WalkIs
<1>2. g.types[PG!Trigger(g)] # "block"
  BY TriggerIs
<1> QED
  BY <1>1, <1>2 DEF Walking, Careful

LEMMA NoWalk ==
    ASSUME NEW g \in PG!Playbook, NEW m \in BOOLEAN
    PROVE  Walking(g, m, <<>>, {}, None) /\ Careful(g, <<>>, None)
<1>1. Linked(g, m, <<>>)
  BY DEF Linked
<1> QED
  BY <1>1 DEF Walking, Careful

\* A node is visited, and the walk goes on.
LEMMA WalkGoesOn ==
    ASSUME NEW g \in PG!Playbook, NEW m \in BOOLEAN, NEW p, NEW d, NEW t,
           Walking(g, m, p, d, t), p # <<>>, g.types[p[1]] \notin PG!Gates
    PROVE  /\ Walking(g, m, Tail(p), d \cup {p[1]}, t)
           /\ Walking(g, m, Tail(p), d, t)
           /\ Careful(g, p, t) /\ g \in PG!Drafts => Careful(g, Tail(p), t)
<1> DEFINE q == Tail(p)
           i == p[1]
<1>1. /\ Linked(g, m, p) /\ d \subseteq Nodes(g) /\ t = None
      /\ \A S \in SUBSET Nodes(g) :
          PG!Trigger(g) \in S /\ PG!Closed(g, S, m) => d \subseteq S /\ i \in S
  BY DEF Walking
<1>2. /\ i \in Nodes(g) /\ Linked(g, m, q)
      /\ q # <<>> => q[1] = PG!NextNode(g, i, m) /\ q[1] \in Nodes(g)
  BY <1>1, LinkedIs
<1> HIDE DEF q, i
<1>3. ASSUME NEW S \in SUBSET Nodes(g), PG!Trigger(g) \in S, PG!Closed(g, S, m)
      PROVE  d \subseteq S /\ i \in S /\ (q # <<>> => q[1] \in S)
  <2>1. d \subseteq S /\ i \in S
    BY <1>1, <1>3
  <2>2. ASSUME q # <<>> PROVE q[1] \in S
    <3>1. q[1] = PG!NextNode(g, i, m) /\ q[1] \in Nodes(g) /\ q[1] # None
      BY <1>2, <2>2, PlaybookAssumption DEF Nodes
    <3>2. Leads(g, i, q[1], m)
      BY <1>2, <3>1, NextNodeIs
    <3> QED
      BY <1>3, <2>1, <3>2 DEF Leads, PG!Closed, i
  <2> QED
    BY <2>1, <2>2
<1>4. Walking(g, m, q, d \cup {i}, t) /\ Walking(g, m, q, d, t)
  BY <1>1, <1>2, <1>3 DEF Walking
<1>5. ASSUME g \in PG!Drafts PROVE Careful(g, q, t)
  <2>1. g.types[i] # "gate"
    BY DEF PG!Gates, i
  <2>2. q # <<>> => g.types[q[1]] # "block"
    BY <1>2, <1>5, <2>1, NextIsCareful
  <2> QED
    BY <1>1, <2>2 DEF Careful
<1> QED
  BY <1>4, <1>5 DEF q, i

\* The walk stops at a gate.
LEMMA WalkStops ==
    ASSUME NEW g \in PG!Playbook, NEW m \in BOOLEAN, NEW p, NEW d, NEW t,
           Walking(g, m, p, d, t), p # <<>>
    PROVE  /\ Walking(g, m, <<>>, d, t)
           /\ g.types[p[1]] \in PG!Gates => Walking(g, m, <<>>, d, p[1])
           /\ Careful(g, p, t) => Careful(g, <<>>, t)
           /\ Careful(g, p, t) /\ g.types[p[1]] \in PG!Gates => Careful(g, <<>>, p[1])
<1>1. Linked(g, m, <<>>) /\ p[1] \in Nodes(g)
  BY LinkedIs DEF Walking, Linked
<1> QED
  BY <1>1 DEF Walking, Careful, PG!Gates

LEMMA InitGraph == InitPG => GraphInv
<1> SUFFICES ASSUME InitPG PROVE GraphInv
  OBVIOUS
<1>1. /\ (stored \in Graph /\ drafted = FALSE) \/ (stored \in PG!Drafts /\ drafted = TRUE)
      /\ matches \in BOOLEAN /\ runs = <<>> /\ edited = FALSE
      /\ pc = "idle" /\ fetched = None /\ path = <<>> /\ done = {} /\ stop = None /\ faults = 0
  BY DEF InitPG, PG!Init
<1>2. stored \in PG!Playbook /\ drafted \in BOOLEAN
  BY <1>1, DraftsAre, PlaybookAssumption
<1>3. runs \in Seq(SoundRun) /\ Len(runs) <= 2 /\ path \in Seq(Nat) /\ DOMAIN runs = {}
  BY <1>1
<1>4. faults \in 0 .. MaxFaults
  BY <1>1, PlaybookAssumption
<1>5. GraphTypes
  BY <1>1, <1>2, <1>3, <1>4 DEF GraphTypes
<1>6. None \notin PG!Playbook
  BY PlaybookAssumption
<1>7. drafted /\ ~edited => stored \in PG!Drafts
  BY <1>1
<1> QED
  BY <1>1, <1>3, <1>5, <1>6, <1>7 DEF GraphInv

\* A step that does not touch the walk.
WalkStays == UNCHANGED <<fetched, matches, path, done, stop>>

LEMMA WalkKeeps ==
    ASSUME GraphInv, WalkStays
    PROVE  \A g \in PG!Playbook, m \in BOOLEAN, p \in Seq(Nat), d \in SUBSET Nat, t \in Nat \cup {None} :
              fetched' = g /\ matches' = m /\ path' = p /\ done' = d /\ stop' = t
                => Walking(g, m, p, d, t)
BY DEF GraphInv, WalkStays

LEMMA CareKeeps ==
    ASSUME GraphInv, WalkStays, drafted' = drafted, edited => edited', edited \in BOOLEAN
    PROVE  \A g \in PG!Playbook, p \in Seq(Nat), t \in Nat \cup {None} :
              fetched' = g /\ path' = p /\ stop' = t /\ drafted' /\ ~edited' => Careful(g, p, t)
BY DEF GraphInv, WalkStays

LEMMA EditKeeps == GraphInv /\ PG!Edit => GraphInv'
<1> SUFFICES ASSUME GraphInv, PG!Edit PROVE GraphInv'
  OBVIOUS
<1>1. /\ stored' \in {Edited, None} /\ edited' = TRUE /\ WalkStays
      /\ UNCHANGED <<runs, matches, drafted, pc, fetched, path, done, stop, faults>>
  BY DEF PG!Edit, WalkStays
<1>2. stored' \in PG!Playbook \cup {None}
  BY <1>1, PlaybookAssumption
<1>3. GraphTypes'
  BY <1>1, <1>2 DEF GraphInv, GraphTypes
<1>4. edited \in BOOLEAN
  BY DEF GraphInv, GraphTypes
<1>5. \A g \in PG!Playbook, m \in BOOLEAN, p \in Seq(Nat), d \in SUBSET Nat, t \in Nat \cup {None} :
        fetched' = g /\ matches' = m /\ path' = p /\ done' = d /\ stop' = t
          => Walking(g, m, p, d, t)
  BY <1>1, WalkKeeps
<1> QED
  BY <1>1, <1>3, <1>5 DEF GraphInv

LEMMA CreateRunKeeps == GraphInv /\ PG!CreateRun => GraphInv'
<1> SUFFICES ASSUME GraphInv, PG!CreateRun PROVE GraphInv'
  OBVIOUS
<1> DEFINE x == PG!NewRun(stored)
<1>1. /\ pc = "idle" /\ stored # None /\ pc' = "created" /\ WalkStays
      /\ UNCHANGED <<stored, matches, drafted, edited, fetched, path, done, stop>>
      /\ runs' = <<x>> \/ runs' = <<x, x>>
      /\ faults' = faults \/ (faults < MaxFaults /\ faults' = faults + 1)
  BY DEF PG!CreateRun, WalkStays, PG!Faulty
<1>2. PICK g \in PG!Playbook : stored = g
  BY <1>1 DEF GraphInv, GraphTypes
<1>3. x \in SoundRun /\ x.graph = stored
  BY <1>2, NewRunIs
<1> HIDE DEF x
<1>4. runs' \in Seq(SoundRun) /\ Len(runs') <= 2 /\ runs' # <<>>
      /\ \A r \in DOMAIN runs' : runs'[r] = x
  <2>1. CASE runs' = <<x>>
    BY <1>3, <2>1
  <2>2. CASE runs' = <<x, x>>
    BY <1>3, <2>2
  <2> QED
    BY <1>1, <2>1, <2>2
<1>5. faults' \in 0 .. MaxFaults
  BY <1>1, PlaybookAssumption DEF GraphInv, GraphTypes
<1>6. GraphTypes'
  BY <1>1, <1>4, <1>5 DEF GraphInv, GraphTypes
<1>7. edited \in BOOLEAN
  BY DEF GraphInv, GraphTypes
<1>8. \A h \in PG!Playbook, m \in BOOLEAN, p \in Seq(Nat), d \in SUBSET Nat, t \in Nat \cup {None} :
        fetched' = h /\ matches' = m /\ path' = p /\ done' = d /\ stop' = t
          => Walking(h, m, p, d, t)
  BY <1>1, WalkKeeps
<1>9. \A h \in PG!Playbook, p \in Seq(Nat), t \in Nat \cup {None} :
        fetched' = h /\ path' = p /\ stop' = t /\ drafted' /\ ~edited' => Careful(h, p, t)
  BY <1>1, <1>7, CareKeeps
<1>10. \A r \in DOMAIN runs' : runs'[r].graph = stored'
  BY <1>1, <1>3, <1>4
<1> QED
  BY <1>1, <1>4, <1>6, <1>8, <1>9, <1>10 DEF GraphInv

LEMMA FetchPlaybookKeeps == GraphInv /\ PG!FetchPlaybook => GraphInv'
<1> SUFFICES ASSUME GraphInv, PG!FetchPlaybook PROVE GraphInv'
  OBVIOUS
<1>1. /\ pc = "created" /\ fetched' = stored
      /\ UNCHANGED <<stored, runs, matches, drafted, edited, done, stop, faults>>
  BY DEF PG!FetchPlaybook
<1>2. \/ pc' = "over" /\ path' = path
      \/ pc' = "walking" /\ path' = PG!Walk(stored, matches) /\ stored # None
  BY DEF PG!FetchPlaybook
<1>3. path = <<>> /\ done = {} /\ stop = None /\ matches \in BOOLEAN /\ stored \in PG!Playbook \cup {None}
      /\ None \notin PG!Playbook /\ runs # <<>> /\ drafted \in BOOLEAN /\ edited \in BOOLEAN
  BY <1>1, PlaybookAssumption DEF GraphInv, GraphTypes
<1>4. PICK m \in BOOLEAN : matches = m
  BY <1>3
<1>5. PICK w : path' = w
  OBVIOUS
<1>6. CASE stored = None
  <2>1. pc' = "over" /\ path' = <<>> /\ fetched' = None
    BY <1>1, <1>2, <1>3, <1>6
  <2>2. GraphTypes'
    BY <1>1, <2>1 DEF GraphInv, GraphTypes
  <2> QED
    BY <1>1, <1>3, <2>1, <2>2 DEF GraphInv
<1>7. CASE stored # None
  <2>1. PICK s \in PG!Playbook : stored = s
    BY <1>3, <1>7
  <2>2. w = <<>> \/ w = PG!Walk(s, m)
    BY <1>2, <1>3, <1>4, <1>5, <2>1
  <2>3. Walking(s, m, w, {}, None) /\ Careful(s, w, None)
    BY <2>2, WalkStarts, NoWalk
  <2>4. w \in Seq(Nat)
    <3>1. w \in Seq(Nodes(s)) /\ Nodes(s) \subseteq Nat
      BY <2>3 DEF Walking, Linked, Nodes
    <3> HIDE DEF Nodes
    <3> QED
      BY <3>1
  <2>5. pc' \in {"walking", "over"} /\ fetched' = s
    BY <1>1, <1>2, <2>1
  <2>6. GraphTypes'
    BY <1>1, <1>5, <2>1, <2>4, <2>5 DEF GraphInv, GraphTypes
  <2>7. fetched' = s /\ matches' = m /\ path' = w /\ done' = {} /\ stop' = None /\ s # None
    BY <1>1, <1>3, <1>4, <1>5, <2>1
  <2>8. \A g \in PG!Playbook, p \in Seq(Nat), t \in Nat \cup {None} :
          fetched' = g /\ path' = p /\ stop' = t /\ drafted' /\ ~edited' => Careful(g, p, t)
    BY <2>3, <2>7
  <2>9. \A g \in PG!Playbook, n \in BOOLEAN, p \in Seq(Nat), d \in SUBSET Nat, t \in Nat \cup {None} :
          fetched' = g /\ matches' = n /\ path' = p /\ done' = d /\ stop' = t
            => Walking(g, n, p, d, t)
    BY <2>3, <2>7
  <2> QED
    BY <1>1, <1>3, <2>1, <2>5, <2>6, <2>7, <2>8, <2>9 DEF GraphInv
<1> QED
  BY <1>6, <1>7

\* A node of the walk that is visited.
LEMMA VisitedIs ==
    ASSUME GraphInv, path # <<>>
    PROVE  \E g \in PG!Playbook, m \in BOOLEAN, p \in Seq(Nat), d \in SUBSET Nat, t \in Nat \cup {None} :
              /\ fetched = g /\ matches = m /\ path = p /\ done = d /\ stop = t
              /\ Walking(g, m, p, d, t) /\ g # None /\ pc \notin {"idle", "created"}
              /\ drafted /\ ~edited => Careful(g, p, t) /\ g \in PG!Drafts
              /\ Head(p) = p[1] /\ p[1] \in Nat /\ Tail(p) \in Seq(Nat)
              /\ PG!HeadType = g.types[p[1]]
<1>1. /\ fetched \in PG!Playbook \cup {None} /\ matches \in BOOLEAN /\ path \in Seq(Nat)
      /\ done \in SUBSET Nat /\ stop \in Nat \cup {None} /\ fetched # None
  BY DEF GraphInv, GraphTypes
<1>2. PICK g \in PG!Playbook : fetched = g
  BY <1>1
<1>3. PICK m \in BOOLEAN : matches = m
  BY <1>1
<1>4. PICK p \in Seq(Nat) : path = p
  BY <1>1
<1>5. PICK d \in SUBSET Nat : done = d
  BY <1>1
<1>6. PICK t \in Nat \cup {None} : stop = t
  BY <1>1
<1>7. Walking(g, m, p, d, t)
  BY <1>2, <1>3, <1>4, <1>5, <1>6 DEF GraphInv
<1>8. drafted /\ ~edited => Careful(g, p, t) /\ g \in PG!Drafts
  BY <1>1, <1>2, <1>4, <1>6 DEF GraphInv
<1>9. Head(p) = p[1] /\ p[1] \in Nat /\ Tail(p) \in Seq(Nat)
  BY <1>4
<1>10. PG!HeadType = g.types[p[1]]
  BY <1>2, <1>4, <1>9 DEF PG!HeadType
<1>11. pc \notin {"idle", "created"}
  BY <1>1 DEF GraphInv
<1> QED
  BY <1>1, <1>2, <1>3, <1>4, <1>5, <1>6, <1>7, <1>8, <1>9, <1>10, <1>11

\* What the walk comes to be.
LEMMA WalkBecomes ==
    ASSUME GraphInv, UNCHANGED <<stored, matches, drafted, edited, pc, fetched>>,
           NEW g \in PG!Playbook, fetched = g, g # None, pc \notin {"idle", "created"},
           NEW m \in BOOLEAN, matches = m,
           NEW p \in Seq(Nat), path' = p, NEW d \in SUBSET Nat, done' = d,
           NEW t \in Nat \cup {None}, stop' = t,
           Walking(g, m, p, d, t), drafted /\ ~edited => Careful(g, p, t),
           runs' = runs, faults' \in 0 .. MaxFaults
    PROVE  GraphInv'
<1>1. GraphTypes'
  BY DEF GraphInv, GraphTypes
<1>2. \A x \in PG!Playbook, n \in BOOLEAN, q \in Seq(Nat), e \in SUBSET Nat, u \in Nat \cup {None} :
        fetched' = x /\ matches' = n /\ path' = q /\ done' = e /\ stop' = u
          => Walking(x, n, q, e, u)
  OBVIOUS
<1>3. \A x \in PG!Playbook, q \in Seq(Nat), u \in Nat \cup {None} :
        fetched' = x /\ path' = q /\ stop' = u /\ drafted' /\ ~edited' => Careful(x, q, u)
  OBVIOUS
<1>4. /\ pc' = "idle" <=> runs' = <<>>
      /\ ~edited' => \A r \in DOMAIN runs' : runs'[r].graph = stored'
      /\ pc' \in {"idle", "created"} => fetched' = None
      /\ fetched' = None => path' = <<>> /\ done' = {} /\ stop' = None
      /\ fetched' # None /\ ~edited' => fetched' = stored'
      /\ drafted' /\ ~edited' => stored' \in PG!Drafts
  BY DEF GraphInv
<1> QED
  BY <1>1, <1>2, <1>3, <1>4 DEF GraphInv

LEMMA VisitKeeps == GraphInv /\ PG!Visit => GraphInv'
<1> SUFFICES ASSUME GraphInv, PG!Visit PROVE GraphInv'
  OBVIOUS
<1>1. /\ path # <<>>
      /\ UNCHANGED <<stored, runs, matches, drafted, edited, pc, fetched, faults>>
  BY DEF PG!Visit
<1>2. PICK g \in PG!Playbook : \E m \in BOOLEAN, p \in Seq(Nat), d \in SUBSET Nat, t \in Nat \cup {None} :
        /\ fetched = g /\ matches = m /\ path = p /\ done = d /\ stop = t
        /\ Walking(g, m, p, d, t) /\ g # None /\ pc \notin {"idle", "created"}
        /\ drafted /\ ~edited => Careful(g, p, t) /\ g \in PG!Drafts
        /\ Head(p) = p[1] /\ p[1] \in Nat /\ Tail(p) \in Seq(Nat)
        /\ PG!HeadType = g.types[p[1]]
  BY <1>1, VisitedIs
<1>3. PICK m \in BOOLEAN, p \in Seq(Nat), d \in SUBSET Nat, t \in Nat \cup {None} :
        /\ fetched = g /\ matches = m /\ path = p /\ done = d /\ stop = t
        /\ Walking(g, m, p, d, t) /\ g # None /\ pc \notin {"idle", "created"}
        /\ drafted /\ ~edited => Careful(g, p, t) /\ g \in PG!Drafts
        /\ Head(p) = p[1] /\ p[1] \in Nat /\ Tail(p) \in Seq(Nat)
        /\ PG!HeadType = g.types[p[1]]
  BY <1>2
<1>4. faults' \in 0 .. MaxFaults
  BY <1>1 DEF GraphInv, GraphTypes
<1>5. CASE g.types[p[1]] \in PG!Gates
  <2>1. stop' = p[1] /\ path' = <<>> /\ done' = d
    BY <1>3, <1>5 DEF PG!Visit, PG!Gates
  <2>2. Walking(g, m, <<>>, d, p[1]) /\ (drafted /\ ~edited => Careful(g, <<>>, p[1]))
    BY <1>1, <1>3, <1>5, WalkStops
  <2>3. <<>> \in Seq(Nat)
    OBVIOUS
  <2> QED
    BY <1>1, <1>3, <1>4, <2>1, <2>2, <2>3, WalkBecomes
<1>6. CASE g.types[p[1]] \notin PG!Gates
  <2>1. path' = Tail(p) /\ stop' = t
    BY <1>3, <1>6 DEF PG!Visit
  <2>2. PICK e \in {d, d \cup {p[1]}} : done' = e
    BY <1>3 DEF PG!Visit
  <2>3. Walking(g, m, Tail(p), e, t)
    BY <1>1, <1>3, <1>6, <2>2, WalkGoesOn
  <2>4. drafted /\ ~edited => Careful(g, Tail(p), t)
    BY <1>1, <1>3, <1>6, WalkGoesOn
  <2>5. e \in SUBSET Nat /\ Tail(p) \in Seq(Nat)
    BY <1>3, <2>2
  <2> QED
    BY <1>1, <1>3, <1>4, <2>1, <2>2, <2>3, <2>4, <2>5, WalkBecomes
<1> QED
  BY <1>5, <1>6

LEMMA VisitFailsKeeps == GraphInv /\ PG!VisitFails => GraphInv'
<1> SUFFICES ASSUME GraphInv, PG!VisitFails PROVE GraphInv'
  OBVIOUS
<1>1. /\ path # <<>> /\ path' = <<>> /\ faults < MaxFaults /\ faults' = faults + 1
      /\ UNCHANGED <<stored, runs, matches, drafted, edited, pc, fetched, done, stop>>
  BY DEF PG!VisitFails, PG!Faulty
<1>2. PICK g \in PG!Playbook : \E m \in BOOLEAN, p \in Seq(Nat), d \in SUBSET Nat, t \in Nat \cup {None} :
        /\ fetched = g /\ matches = m /\ path = p /\ done = d /\ stop = t
        /\ Walking(g, m, p, d, t) /\ g # None /\ pc \notin {"idle", "created"}
        /\ drafted /\ ~edited => Careful(g, p, t) /\ g \in PG!Drafts
  BY <1>1, VisitedIs
<1>3. PICK m \in BOOLEAN, p \in Seq(Nat), d \in SUBSET Nat, t \in Nat \cup {None} :
        /\ fetched = g /\ matches = m /\ path = p /\ done = d /\ stop = t
        /\ Walking(g, m, p, d, t) /\ g # None /\ pc \notin {"idle", "created"}
        /\ drafted /\ ~edited => Careful(g, p, t) /\ g \in PG!Drafts
  BY <1>2
<1>4. faults' \in 0 .. MaxFaults
  BY <1>1, PlaybookAssumption DEF GraphInv, GraphTypes
<1>5. Walking(g, m, <<>>, d, t) /\ (drafted /\ ~edited => Careful(g, <<>>, t))
  BY <1>1, <1>3, WalkStops
<1>6. <<>> \in Seq(Nat)
  OBVIOUS
<1> QED
  BY <1>1, <1>3, <1>4, <1>5, <1>6, WalkBecomes

LEMMA AnswerKeeps == GraphInv /\ PG!Answer => GraphInv'
<1> SUFFICES ASSUME GraphInv, PG!Answer PROVE GraphInv'
  OBVIOUS
<1>1. /\ pc = "walking" /\ pc' = "over" /\ WalkStays
      /\ UNCHANGED <<stored, runs, matches, drafted, edited, fetched, path, done, stop, faults>>
  BY DEF PG!Answer, WalkStays
<1>2. GraphTypes'
  BY <1>1 DEF GraphInv, GraphTypes
<1>3. edited \in BOOLEAN
  BY DEF GraphInv, GraphTypes
<1>4. \A g \in PG!Playbook, m \in BOOLEAN, p \in Seq(Nat), d \in SUBSET Nat, t \in Nat \cup {None} :
        fetched' = g /\ matches' = m /\ path' = p /\ done' = d /\ stop' = t
          => Walking(g, m, p, d, t)
  BY <1>1, WalkKeeps
<1>5. \A g \in PG!Playbook, p \in Seq(Nat), t \in Nat \cup {None} :
        fetched' = g /\ path' = p /\ stop' = t /\ drafted' /\ ~edited' => Careful(g, p, t)
  BY <1>1, <1>3, CareKeeps
<1> QED
  BY <1>1, <1>2, <1>4, <1>5 DEF GraphInv

LEMMA ApproveKeeps == ASSUME GraphInv, NEW r \in DOMAIN runs, PG!Approve(r) PROVE GraphInv'
<1> DEFINE x == runs[r]
           y == [x EXCEPT !.status = "completed", !.approved = TRUE]
<1>1. /\ WalkStays /\ runs' = [runs EXCEPT ![r].status = "completed", ![r].approved = TRUE]
      /\ UNCHANGED <<stored, matches, drafted, edited, pc, fetched, path, done, stop, faults>>
  BY DEF PG!Approve, WalkStays
<1>2. runs \in Seq(SoundRun) /\ x \in SoundRun
  BY DEF GraphInv, GraphTypes
<1>3. /\ x \in PlaybookRun /\ x.graph \in PG!Playbook /\ x.steps \in Seq(Nat)
      /\ x.steps = PG!OrderedNodes(x.graph)
  BY <1>2, SoundRunIs
<1>4. /\ y = [graph |-> x.graph, steps |-> x.steps, status |-> "completed", approved |-> TRUE]
      /\ y.graph = x.graph
  <2>1. PICK z \in PlaybookRun : x = z
    BY <1>3
  <2>2. [z EXCEPT !.status = "completed", !.approved = TRUE]
          = [graph |-> z.graph, steps |-> z.steps, status |-> "completed", approved |-> TRUE]
    <3> DEFINE w == [z EXCEPT !.status = "completed", !.approved = TRUE]
    <3>1. w \in PlaybookRun /\ w.graph = z.graph /\ w.steps = z.steps /\ w.status = "completed" /\ w.approved = TRUE
      BY DEF PlaybookRun
    <3> HIDE DEF w
    <3>2. w = [graph |-> w.graph, steps |-> w.steps, status |-> w.status, approved |-> w.approved]
      BY <3>1 DEF PlaybookRun
    <3>3. w = [graph |-> z.graph, steps |-> z.steps, status |-> "completed", approved |-> TRUE]
      BY <3>1, <3>2
    <3> QED
      BY <3>3 DEF w
  <2>3. y = [z EXCEPT !.status = "completed", !.approved = TRUE]
    BY <2>1
  <2> HIDE DEF x, y
  <2>4. y = [graph |-> x.graph, steps |-> x.steps, status |-> "completed", approved |-> TRUE]
    BY <2>1, <2>2, <2>3
  <2> QED
    BY <2>4
<1>5. y \in SoundRun
  BY <1>3, <1>4 DEF SoundRun, Proper, PlaybookRun
<1>6. runs' = [runs EXCEPT ![r] = y]
  BY <1>1, <1>2
<1> HIDE DEF y
<1>7. runs' \in Seq(SoundRun) /\ Len(runs') = Len(runs) /\ DOMAIN runs' = DOMAIN runs /\ runs' # <<>>
      /\ \A s \in DOMAIN runs : runs'[s].graph = runs[s].graph
  BY <1>2, <1>4, <1>5, <1>6
<1>8. GraphTypes'
  BY <1>1, <1>7 DEF GraphInv, GraphTypes
<1>9. edited \in BOOLEAN /\ runs # <<>>
  BY <1>7 DEF GraphInv, GraphTypes
<1>10. \A g \in PG!Playbook, m \in BOOLEAN, p \in Seq(Nat), d \in SUBSET Nat, t \in Nat \cup {None} :
        fetched' = g /\ matches' = m /\ path' = p /\ done' = d /\ stop' = t
          => Walking(g, m, p, d, t)
  BY <1>1, WalkKeeps
<1>11. \A g \in PG!Playbook, p \in Seq(Nat), t \in Nat \cup {None} :
        fetched' = g /\ path' = p /\ stop' = t /\ drafted' /\ ~edited' => Careful(g, p, t)
  BY <1>1, <1>9, CareKeeps
<1> QED
  BY <1>1, <1>7, <1>8, <1>9, <1>10, <1>11 DEF GraphInv

LEMMA NextGraph == GraphInv /\ PG!Next => GraphInv'
BY EditKeeps, CreateRunKeeps, FetchPlaybookKeeps, VisitKeeps, VisitFailsKeeps, AnswerKeeps,
   ApproveKeeps DEF PG!Next

LEMMA GraphStays == GraphInv /\ UNCHANGED all => GraphInv'
<1> SUFFICES ASSUME GraphInv, UNCHANGED all PROVE GraphInv'
  OBVIOUS
<1>1. UNCHANGED <<stored, runs, matches, drafted, edited, pc, fetched, path, done, stop, faults>>
  BY DEF all
<1>2. GraphTypes'
  BY <1>1 DEF GraphInv, GraphTypes
<1> QED
  BY <1>1, <1>2 DEF GraphInv

\* The steps of a run follow the edges of its playbook.
LEMMA StepsAre == GraphInv => PG!StepsFollowEdges
<1> SUFFICES ASSUME GraphInv, NEW r \in DOMAIN runs
             PROVE  LET g == runs[r].graph
                        at(i) == CHOOSE k \in DOMAIN runs[r].steps : runs[r].steps[k] = i
                    IN  /\ Len(runs[r].steps) = Len(g.types) /\ PG!Range(runs[r].steps) = PG!Nodes(g)
                        /\ PG!Acyclic(g) => \A k \in DOMAIN g.edges : at(g.edges[k].from) < at(g.edges[k].to)
  BY DEF PG!StepsFollowEdges
<1> DEFINE g == runs[r].graph
           s == runs[r].steps
           at(i) == CHOOSE k \in DOMAIN s : s[k] = i
<1>1. runs[r] \in SoundRun
  BY DEF GraphInv, GraphTypes
<1>2. g \in PG!Playbook /\ s = PG!OrderedNodes(g)
  BY <1>1, SoundRunIs
<1> HIDE DEF g, s, at
<1>3. /\ s \in Seq(Nodes(g)) /\ Len(s) = Len(g.types) /\ Distinct(s) /\ Range(s) = Nodes(g)
      /\ PG!Acyclic(g) => Sorted(g, s)
  BY <1>2, OrderIs
<1>4. Len(s) \in Nat /\ DOMAIN s = 1 .. Len(s)
  BY <1>3
<1>5. PG!Range(s) = PG!Nodes(g)
  <2>1. PG!Range(s) = Range(s)
    BY DEF PG!Range, Range
  <2> QED
    BY <1>2, <1>3, <2>1, PlaybookIs
<1>6. ASSUME NEW a \in 1 .. Len(s) PROVE at(s[a]) = a
  <2>1. \E k \in DOMAIN s : s[k] = s[a]
    BY <1>4
  <2>2. at(s[a]) \in DOMAIN s /\ s[at(s[a])] = s[a]
    BY <2>1 DEF at
  <2> QED
    BY <1>3, <1>4, <2>2 DEF Distinct
<1>7. \A i \in Nodes(g) : \E b \in 1 .. Len(s) : s[b] = i
  <2>1. Range(s) = {s[b] : b \in 1 .. Len(s)}
    BY <1>3, RangeIs
  <2> QED
    BY <1>3, <2>1
<1>8. ASSUME PG!Acyclic(g), NEW k \in DOMAIN g.edges PROVE at(g.edges[k].from) < at(g.edges[k].to)
  <2>1. g.edges[k].to \in Nodes(g)
    BY <1>2, PlaybookIs
  <2>2. PICK b \in 1 .. Len(s) : s[b] = g.edges[k].to
    BY <1>7, <2>1
  <2>3. PICK a \in 1 .. b - 1 : s[a] = g.edges[k].from
    BY <1>3, <1>8, <2>2 DEF Sorted
  <2>4. a \in 1 .. Len(s) /\ a < b /\ a \in Nat /\ b \in Nat
    BY <1>4
  <2>5. at(s[a]) = a /\ at(s[b]) = b
    BY <1>6, <2>4
  <2> QED
    BY <2>2, <2>3, <2>4, <2>5
<1>9. /\ Len(s) = Len(g.types) /\ PG!Range(s) = PG!Nodes(g)
      /\ PG!Acyclic(g) => \A k \in DOMAIN g.edges : at(g.edges[k].from) < at(g.edges[k].to)
  BY <1>3, <1>5, <1>8
<1> QED
  BY <1>9 DEF g, s, at

LEMMA GraphImplies == GraphInv => EffectsAreApproved
<1> SUFFICES ASSUME GraphInv
             PROVE  /\ PG!TypeOK /\ PG!StepsFollowEdges /\ PG!GatesHold
                    /\ PG!StoppedRunWaits /\ PG!DraftAsksFirst
  BY DEF EffectsAreApproved
<1>1. fetched \in PG!Playbook \cup {None} /\ matches \in BOOLEAN /\ path \in Seq(Nat)
      /\ done \in SUBSET Nat /\ stop \in Nat \cup {None}
  BY DEF GraphInv, GraphTypes
<1>2. ASSUME NEW g \in PG!Playbook, fetched = g
      PROVE  /\ g # None /\ PG!Nodes(g) = Nodes(g)
             /\ Range(path) \cup done \cup ({stop} \ {None}) \subseteq Nodes(g)
             /\ \A S \in SUBSET Nodes(g) :
                   PG!Trigger(g) \in S /\ PG!Closed(g, S, matches) => done \subseteq S
             /\ stop # None => path = <<>> /\ stop \in Nodes(g) /\ g.types[stop] \in PG!Gates
             /\ drafted /\ ~edited /\ stop # None => g.types[stop] = "gate"
  <2>1. PICK m \in BOOLEAN : matches = m
    BY <1>1
  <2>2. PICK p \in Seq(Nat) : path = p
    BY <1>1
  <2>3. PICK d \in SUBSET Nat : done = d
    BY <1>1
  <2>4. PICK t \in Nat \cup {None} : stop = t
    BY <1>1
  <2>5. Walking(g, m, p, d, t)
    BY <1>2, <2>1, <2>2, <2>3, <2>4 DEF GraphInv
  <2>6. drafted /\ ~edited => Careful(g, p, t)
    BY <1>2, <2>2, <2>4 DEF GraphInv
  <2>7. Range(p) \subseteq Nodes(g)
    BY <2>5, RangeIs DEF Walking, Linked
  <2>8. g # None /\ PG!Nodes(g) = Nodes(g)
    BY PlaybookAssumption, PlaybookIs
  <2> QED
    BY <2>1, <2>2, <2>3, <2>4, <2>5, <2>6, <2>7, <2>8 DEF Walking, Careful
<1>3. PG!TypeOK
  <2>1. \A r \in DOMAIN runs : runs[r].status \in {"waiting_approval", "completed"}
    <3>1. \A r \in DOMAIN runs : runs[r] \in SoundRun
      BY DEF GraphInv, GraphTypes
    <3> QED
      BY <3>1, SoundRunIs
  <2>2. fetched # None => (PG!Range(path) \cup done \cup ({stop} \ {None})) \subseteq PG!Nodes(fetched)
    <3>1. PG!Range(path) = Range(path)
      BY DEF PG!Range, Range
    <3>2. CASE fetched # None
      <4>1. PICK g \in PG!Playbook : fetched = g
        BY <1>1, <3>2
      <4> QED
        BY <1>2, <3>1, <4>1
    <3> QED
      BY <3>2
  <2>3. stop # None => path = <<>>
    <3>1. CASE fetched = None
      BY <3>1 DEF GraphInv
    <3>2. CASE fetched # None
      BY <1>1, <1>2, <3>2
    <3> QED
      BY <3>1, <3>2
  <2>4. /\ {matches, drafted, edited} \subseteq BOOLEAN /\ Len(runs) <= 2
        /\ pc \in {"idle", "created", "walking", "over"} /\ faults \in 0 .. MaxFaults
        /\ fetched = None => path = <<>> /\ done = {} /\ stop = None
    BY DEF GraphInv, GraphTypes
  <2> QED
    BY <2>1, <2>2, <2>3, <2>4 DEF PG!TypeOK
<1>4. PG!GatesHold
  BY <1>1, <1>2 DEF PG!GatesHold
<1>5. PG!StoppedRunWaits
  <2> SUFFICES ASSUME stop # None, ~edited
               PROVE  runs[Len(runs)].status = "waiting_approval" \/ runs[Len(runs)].approved
    BY DEF PG!StoppedRunWaits
  <2>1. fetched # None /\ fetched = stored /\ runs # <<>> /\ runs \in Seq(SoundRun)
        /\ \A r \in DOMAIN runs : runs[r].graph = stored
    BY DEF GraphInv, GraphTypes
  <2>2. PICK g \in PG!Playbook : fetched = g
    BY <1>1, <2>1
  <2>3. Len(runs) \in DOMAIN runs /\ runs[Len(runs)] \in SoundRun
    BY <2>1
  <2>4. runs[Len(runs)].graph = g
    BY <2>1, <2>2, <2>3
  <2>5. PG!Waits(g)
    BY <1>2, <2>2 DEF PG!Waits
  <2> QED
    BY <2>3, <2>4, <2>5, SoundRunIs
<1>6. PG!DraftAsksFirst
  BY <1>1, <1>2 DEF PG!DraftAsksFirst, GraphInv
<1> QED
  BY <1>3, <1>4, <1>5, <1>6, StepsAre

-----------------------------------------------------------------------------
(* The theorems. *)

\* The machine of a behaviour is chosen once.
LEMMA PartIsKept == [Next]_all => part' = part
BY DEF Next, all, OutOfFD, OutOfTR, OutOfTD, OutOfPG, OutOfEE

\* TriageIsConsistent, for any types, severities, attributes, entities, counts
\* and thresholds: mappings to ATT&CK cite evidence that is shown, a template
\* asks for a candidate the context has, with its approval, a recommended
\* playbook blocks only where the block is offered and asks for approval, and
\* the tier is that of the severity until an analyst changes it (the triage engine,
\* instantiate_recommended_playbook).
THEOREM TriageIsAlwaysConsistent == Spec => []TriageIsConsistent
<1> DEFINE I == part = "triage" => TriageInv
<1>1. Init => I
  BY InitTriage DEF Init, InitFD, InitTR, InitTD, InitPG, InitEE
<1>2. I /\ [Next]_all => I'
  <2> SUFFICES ASSUME I, [Next]_all, part = "triage" PROVE TriageInv'
    BY PartIsKept
  <2>1. CASE TR!Next
    BY <2>1, NextTriage
  <2>2. CASE UNCHANGED all
    <3>1. UNCHANGED TR!vars
      BY <2>2 DEF all, TR!vars
    <3> QED
      BY <3>1, NextTriage
  <2> QED
    BY <2>1, <2>2 DEF Next
<1>3. I => TriageIsConsistent
  BY TriageImplies DEF TriageIsConsistent
<1> QED
  BY <1>1, <1>2, <1>3, PTL DEF Spec

\* A step that leaves the tickets alone.
LEMMA TicketsStay == TicketInv /\ UNCHANGED all => TicketInv'
<1> SUFFICES ASSUME TicketInv, UNCHANGED all PROVE TicketInv'
  OBVIOUS
<1>1. UNCHANGED <<now, ticket, pc, audit, cache, expires, undone, unanswered, late>>
  BY DEF all
<1>2. TicketTypes' /\ VerdictInv'
  BY <1>1 DEF TicketInv, TicketTypes, Sensible, VerdictInv
<1>3. \A r \in Request : Written(r) => Written(r)'
  BY <1>1 DEF Written
<1>4. \A d \in Document : InUse(d)' => InUse(d)
  BY <1>1 DEF InUse
<1>5. now <= now'
  BY <1>1 DEF TicketInv, TicketTypes
<1> QED
  BY <1>1, <1>2, <1>3, <1>4, <1>5, DocumentsStay

\* TicketsAreTrue, for any requests, attempts, times to live and faults: also
\* after writes that were overtaken or came late every incident is counted; success
\* is audited of a change that is in the ticket, or was until an overtaking patch
\* was written, and a change that stays is audited as done unless the answer
\* was lost; and a verdict noted is no older than its time to live
\* (siem_kowalski update_ticket, _audit, ThreatIntelService).
THEOREM TicketsAreAlwaysTrue == Spec => []TicketsAreTrue
<1> DEFINE I == part = "tickets" => TicketInv
<1>1. Init => I
  BY InitTickets DEF Init, InitFD, InitTR, InitTD, InitPG, InitEE
<1>2. I /\ [Next]_all => I'
  BY PartIsKept, NextTickets, TicketsStay DEF Next
<1>3. I => TicketsAreTrue
  BY TicketsImply DEF TicketsAreTrue
<1> QED
  BY <1>1, <1>2, <1>3, PTL DEF Spec

\* A step that leaves the events of endpoints alone.
LEMMA EventsStay == EventInv /\ UNCHANGED all => EventInv'
<1> SUFFICES ASSUME EventInv, UNCHANGED all PROVE EventInv'
  OBVIOUS
<1>1. UNCHANGED <<events, work, late, cache, checked, row, timeline, incidents, audit, overtaken>>
  BY DEF all
<1> QED
  BY <1>1, OthersKeep DEF EventInv, EventTypes

\* EndpointEventsAgree, for any endpoints, threads, addresses, users, attempts
\* and bounds on events and faults: the BFF and xdr_rico match incidents with
\* endpoints alike, but for observed addresses and principals; no event is an
\* alarm for a verdict on an earlier one; a suspicious event audited as a
\* success is in siem_kowalski, though calls that were given up are served late;
\* and a verdict is not forgotten, unless a request came while another or such a
\* call was still served, or the endpoint was deleted (create_endpoint_event,
\* ingest_endpoint_event).
THEOREM EndpointEventsAlwaysAgree == Spec => []EndpointEventsAgree
<1> DEFINE I == part = "endpoints" => EventInv
<1>1. Init => I
  BY InitEvents DEF Init, InitFD, InitTR, InitTD, InitPG, InitEE
<1>2. I /\ [Next]_all => I'
  BY PartIsKept, NextEvents, EventsStay DEF Next
<1>3. I => EndpointEventsAgree
  BY EventsImply DEF EndpointEventsAgree
<1> QED
  BY <1>1, <1>2, <1>3, PTL DEF Spec

\* CursorLosesNothingRead, for any integrations, events, threads and bounds: the
\* cursor of a polled integration leaves an event behind only when it was posted,
\* or was not in the page that a successful run had read, whatever syslog, manual
\* runs, resets and restarts do meanwhile (_run_fortigate_event_ingestion).
THEOREM CursorNeverLosesWhatIsRead == Spec => []CursorLosesNothingRead
<1> DEFINE I == part = "feed" => FeedInv
<1>1. Init => I
  BY InitFeed DEF Init, InitFD, InitTR, InitTD, InitPG, InitEE
<1>2. I /\ [Next]_all => I'
  BY PartIsKept, NextFeed, FeedStays DEF Next
<1>3. I => CursorLosesNothingRead
  BY FeedImplies DEF CursorLosesNothingRead
<1> QED
  BY <1>1, <1>2, <1>3, PTL DEF Spec

\* RepetitionsAreHarmless, for the same: a run that is alone in moving the cursor
\* posts an event again only when the cursor lies in the very second of the
\* event; and no repeated PATCH or reopening of a ticket moves its time to
\* resolve, unless the document was written over (_filter_events_after_cursor,
\* update_ticket).
THEOREM RepetitionsAreAlwaysHarmless == Spec => RepetitionsAreHarmless
<1> DEFINE I == (part = "feed" => FeedInv) /\ (part = "tickets" => TicketInv)
<1> DEFINE A == /\ part = "feed" => FD!RepeatInItsSecond
                /\ part = "tickets" => TD!ResolutionKept
<1>1. Init => I
  BY InitFeed, InitTickets DEF Init, InitFD, InitTR, InitTD, InitPG, InitEE
<1>2. I /\ [Next]_all => I'
  BY PartIsKept, NextFeed, FeedStays, NextTickets, TicketsStay DEF Next
<1>3. I /\ I' /\ [Next]_all => [A]_all
  BY PartIsKept, RepetitionsAre, ResolutionIsKept DEF Next
<1> QED
  BY <1>1, <1>2, <1>3, PTL DEF Spec, RepetitionsAreHarmless

\* EffectsAreApproved, for any playbooks that may be stored, suggestions of the AI
\* and bounds: the steps of a run are its playbook's nodes in the order of the
\* edges; whatever the graph, a node has an effect only if the trigger leads to it
\* past no gate and along edges the severity allows; effects that stop at a gate
\* leave the run waiting or approved, if nobody edited the playbook; and drafts
\* never come to a sensitive node before an approval (_ordered_nodes,
\* execute_playbook_effects, draft_containment_playbook).
THEOREM EffectsAreAlwaysApproved == Spec => []EffectsAreApproved
<1> DEFINE I == part = "playbooks" => GraphInv
<1>1. Init => I
  BY InitGraph DEF Init, InitFD, InitTR, InitTD, InitPG, InitEE
<1>2. I /\ [Next]_all => I'
  BY PartIsKept, NextGraph, GraphStays DEF Next
<1>3. I => EffectsAreApproved
  BY GraphImplies DEF EffectsAreApproved
<1> QED
  BY <1>1, <1>2, <1>3, PTL DEF Spec
=============================================================================
