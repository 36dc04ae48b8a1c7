--------------------------- MODULE PlaybookGraph ---------------------------
(***************************************************************************)
(* A playbook is a graph of nodes.  soar_skipper lays all its nodes out in *)
(* topological order as the steps of a run (runtime.py), and the run waits *)
(* if one of them is a gate.  The BFF then fetches the playbook again and  *)
(* walks along its edges (playbooks/effects.py), with real effects, until  *)
(* the first gate.  Nothing holds the playbook still between the two.      *)
(*                                                                         *)
(* A node is its position in the list of nodes.  "note" stands for the     *)
(* nodes with an effect outside (case note, audit note, webhook), "gate"   *)
(* for approval.required, "block" for the sensitive nodes.                 *)
(***************************************************************************)
EXTENDS Naturals, Sequences, FiniteSetsExt

CONSTANTS Graph,      \* playbooks an analyst may have saved
          AiStep,     \* suggestions of the AI, [kind, approval]: their drafts are playbooks too
          MaxSteps,   \* bound: how many of them there are in one answer
          Edited,     \* what an analyst makes of a playbook while it runs
          MaxFaults,  \* bound: repeated requests and failing effects
          None

VARIABLES stored,     \* soar_skipper's playbook, None when deleted
          runs,       \* soar_skipper's runs: [graph, steps, status, approved]
          matches,    \* the severity of the incident is one the conditions allow
          drafted,    \* the playbook was drafted from a suggestion or a template
          edited,     \* it was changed or deleted since
          pc,         \* the handler of the BFF's run request
          fetched,    \* the playbook it has fetched
          path,       \* the nodes it has still to visit
          done,       \* nodes whose effect happened
          stop,       \* the gate it stopped at
          faults

vars == <<stored, runs, matches, drafted, edited, pc, fetched, path, done, stop, faults>>

Nodes(g) == DOMAIN g.types
Gates == {"gate", "block"}
NodeType == {"trigger", "condition", "note", "enrich", "gate", "block"}

(* What is stored: edges are between nodes, and some node is a trigger. *)
Playbook ==
    {g \in [types : Seq(NodeType), edges : Seq([from : Nat, to : Nat, cond : {"success", "true", "false"}])] :
        /\ \A k \in DOMAIN g.edges : {g.edges[k].from, g.edges[k].to} \subseteq Nodes(g)
        /\ \E i \in Nodes(g) : g.types[i] = "trigger"}

-----------------------------------------------------------------------------
(* Layout: repeatedly take the first node all of whose edges are spent.  *)

Edges(g, i, j) == Cardinality({k \in DOMAIN g.edges : g.edges[k].from = i /\ g.edges[k].to = j})
Degree(g) == [j \in Nodes(g) |-> Cardinality({k \in DOMAIN g.edges : g.edges[k].to = j})]

(* The nodes of S in the order of the playbook's list. *)
Listed(S) == [n \in 1 .. Cardinality(S) |-> CHOOSE j \in S : Cardinality({i \in S : i <= j}) = n]

First(g) ==
    [queue |-> Listed({j \in Nodes(g) : Degree(g)[j] = 0}), order |-> <<>>, degree |-> Degree(g)]

\* Mutant: a node is free when one of its edges is spent.
SpendAny(g, s) ==
    LET i == Head(s.queue)
        left == [j \in Nodes(g) |-> s.degree[j] - Edges(g, i, j)]
        free == {j \in Nodes(g) : Edges(g, i, j) > 0}
    IN  [queue |-> Tail(s.queue) \o Listed(free), order |-> Append(s.order, i), degree |-> left]

Spend(g, s) ==
    LET i == Head(s.queue)
        left == [j \in Nodes(g) |-> s.degree[j] - Edges(g, i, j)]
        free == {j \in Nodes(g) : Edges(g, i, j) > 0 /\ left[j] = 0}
    IN  [queue |-> Tail(s.queue) \o Listed(free), order |-> Append(s.order, i), degree |-> left]

(* A turn of the loop: every one takes a node, as long as one is free. *)
After(g, s) == IF s.queue = <<>> THEN s ELSE Spend(g, s)

Layout(g) ==
    LET s[k \in 0 .. Len(g.types)] == IF k = 0 THEN First(g) ELSE After(g, s[k - 1]) IN s

(* A graph with a cycle keeps the order of its list. *)
OrderedNodes(g) ==
    LET order == Layout(g)[Len(g.types)].order
    IN  IF Len(order) = Len(g.types) THEN order ELSE [k \in Nodes(g) |-> k]

\* Mutant: only an approval makes a run wait.
WaitsIfApproval(g) == \E i \in Nodes(g) : g.types[i] = "gate"
Waits(g) == \E i \in Nodes(g) : g.types[i] \in Gates
NewRun(g) ==
    [graph |-> g, steps |-> OrderedNodes(g),
     status |-> IF Waits(g) THEN "waiting_approval" ELSE "completed",
     approved |-> FALSE]

-----------------------------------------------------------------------------
(* Walk: one edge out of each node, chosen by its condition.  *)

Out(g, i) == {k \in DOMAIN g.edges : g.edges[k].from = i}
With(g, K, cond) == {k \in K : g.edges[k].cond = cond}
OrElse(K, L) == IF K = {} THEN L ELSE K

(* Where the first of some edges leads. *)
Target(g, K) == IF K = {} THEN None ELSE g.edges[Min(K)].to

\* Mutant: the first edge is taken, whatever its condition.
NextNodeAnyEdge(g, i, m) == Target(g, Out(g, i))

NextNode(g, i, m) ==
    LET out == Out(g, i)
    IN  CASE g.types[i] = "condition" /\ m ->
               Target(g, OrElse(With(g, out, "true"), With(g, out, "success")))
          [] g.types[i] = "condition" /\ ~m -> Target(g, With(g, out, "false"))
          [] OTHER -> Target(g, OrElse(With(g, out, "success"), out))

Trigger(g) == Min({i \in Nodes(g) : g.types[i] = "trigger"})

(* One node further; the walk ends where it would come back. *)
Further(g, m, w) ==
    LET n == NextNode(g, w[Len(w)], m)
    IN  IF n = None \/ n \in Range(w) THEN w ELSE Append(w, n)

(* The nodes in the order of the walk. *)
Walked(g, m) ==
    LET w[k \in 0 .. Len(g.types)] ==
            IF k = 0 THEN <<Trigger(g)>> ELSE Further(g, m, w[k - 1])
    IN  w
Walk(g, m) == Walked(g, m)[Len(g.types)]

-----------------------------------------------------------------------------
(* Playbooks the BFF writes itself are chains: a gate before each step that *)
(* asks for one or that is sensitive.                                      *)

Chain(types) ==
    [types |-> types,
     edges |-> [k \in 1 .. Len(types) - 1 |-> [from |-> k, to |-> k + 1, cond |-> "success"]]]

\* Mutant: the AI decides what needs an approval.
DraftStepTrusting(s) == IF s.approval THEN <<"gate", s.kind>> ELSE <<s.kind>>
DraftStep(s) == IF s.approval \/ s.kind = "block" THEN <<"gate", s.kind>> ELSE <<s.kind>>
Drafted(steps) ==
    LET t[k \in 0 .. Len(steps)] ==
            IF k = 0 THEN <<"trigger">> ELSE t[k - 1] \o DraftStep(steps[k])
    IN  t
Draft(steps) == Chain(Drafted(steps)[Len(steps)])

(* Recommended templates: a block only with a source and an integration. *)
Template(source, blocks) ==
    Chain(<<"trigger", "note">> \o (IF source THEN <<"enrich">> ELSE <<>>)
          \o (IF source /\ blocks THEN <<"gate", "block">> ELSE <<>>) \o <<"note">>)

Answers == UNION {[1 .. n -> AiStep] : n \in 0 .. MaxSteps}
Drafts == {Draft(s) : s \in Answers} \cup {Template(s, b) : s, b \in BOOLEAN}

-----------------------------------------------------------------------------
Init ==
    /\ \/ stored \in Graph /\ drafted = FALSE
       \/ stored \in Drafts /\ drafted = TRUE
    /\ matches \in BOOLEAN
    /\ runs = <<>> /\ edited = FALSE
    /\ pc = "idle" /\ fetched = None /\ path = <<>> /\ done = {} /\ stop = None
    /\ faults = 0

Faulty == faults < MaxFaults /\ faults' = faults + 1

(* PUT or DELETE of a playbook that is not a system template. *)
Edit ==
    /\ stored # None /\ ~edited
    /\ stored' \in {Edited, None}
    /\ edited' = TRUE
    /\ UNCHANGED <<runs, matches, drafted, pc, fetched, path, done, stop, faults>>

(* POST .../run: soar_skipper stores a run, two when the request is repeated. *)
CreateRun ==
    /\ pc = "idle" /\ stored # None
    /\ \/ runs' = <<NewRun(stored)>> /\ UNCHANGED faults
       \/ runs' = <<NewRun(stored), NewRun(stored)>> /\ Faulty
    /\ pc' = "created"
    /\ UNCHANGED <<stored, matches, drafted, edited, fetched, path, done, stop>>

FetchPlaybook ==
    /\ pc = "created"
    /\ fetched' = stored
    /\ IF stored = None \/ (\A i \in Nodes(stored) : stored.types[i] = "trigger")
       THEN pc' = "over" /\ UNCHANGED path
       ELSE pc' = "walking" /\ path' = Walk(stored, matches)
    /\ UNCHANGED <<stored, runs, matches, drafted, edited, done, stop, faults>>

HeadType == fetched.types[Head(path)]

(* execute_playbook_effects: the next node of the walk. *)
Visit ==
    /\ pc = "walking" /\ path # <<>>
    /\ done' = IF HeadType = "note" THEN done \cup {Head(path)} ELSE done
    /\ IF HeadType \in Gates
       THEN stop' = Head(path) /\ path' = <<>>
       ELSE path' = Tail(path) /\ UNCHANGED stop
    /\ UNCHANGED <<stored, runs, matches, drafted, edited, pc, fetched, faults>>

(* A note, an audit row or a webhook fails: the walk is abandoned. *)
VisitFails ==
    /\ pc = "walking" /\ path # <<>> /\ HeadType = "note"
    /\ Faulty
    /\ path' = <<>>
    /\ UNCHANGED <<stored, runs, matches, drafted, edited, pc, fetched, done, stop>>

Answer ==
    /\ pc = "walking" /\ path = <<>>
    /\ pc' = "over"
    /\ UNCHANGED <<stored, runs, matches, drafted, edited, fetched, path, done, stop, faults>>

(* approve_playbook_run: whatever the state of the run; no node is run for it. *)
Approve(r) ==
    /\ runs[r].status = "waiting_approval"
    /\ runs' = [runs EXCEPT ![r].status = "completed", ![r].approved = TRUE]
    /\ UNCHANGED <<stored, matches, drafted, edited, pc, fetched, path, done, stop, faults>>

Next ==
    \/ Edit \/ CreateRun \/ FetchPlaybook \/ Visit \/ VisitFails \/ Answer
    \/ \E r \in DOMAIN runs : Approve(r)

Spec == Init /\ [][Next]_vars

-----------------------------------------------------------------------------
TypeOK ==
    /\ {matches, drafted, edited} \subseteq BOOLEAN
    /\ Len(runs) <= 2
    /\ \A r \in DOMAIN runs : runs[r].status \in {"waiting_approval", "completed"}
    /\ pc \in {"idle", "created", "walking", "over"}
    /\ fetched = None => path = <<>> /\ done = {} /\ stop = None
    /\ fetched # None => (Range(path) \cup done \cup ({stop} \ {None})) \subseteq Nodes(fetched)
    /\ stop # None => path = <<>>
    /\ faults \in 0 .. MaxFaults

(* Edge e may be taken, if the severity is allowed or not. *)
Open(g, e, m) ==
    /\ g.types[e.from] \notin Gates
    /\ g.types[e.from] = "condition" => e.cond \in IF m THEN {"true", "success"} ELSE {"false"}

(* A set of nodes that such edges do not lead out of. *)
Closed(g, S, m) == \A k \in DOMAIN g.edges :
    g.edges[k].from \in S /\ Open(g, g.edges[k], m) => g.edges[k].to \in S

Acyclic(g) ==
    \A S \in SUBSET Nodes(g) :
        S # {} => \E i \in S : \A j \in S : Edges(g, j, i) = 0

(***************************************************************************)
(* The steps of a run are the nodes of its playbook, each once, and if the *)
(* graph has no cycle no step comes before one that leads to it.           *)
(***************************************************************************)
StepsFollowEdges ==
    \A r \in DOMAIN runs :
        LET g == runs[r].graph
            at(i) == CHOOSE k \in DOMAIN runs[r].steps : runs[r].steps[k] = i
        IN  /\ Len(runs[r].steps) = Len(g.types) /\ Range(runs[r].steps) = Nodes(g)
            /\ Acyclic(g) => \A k \in DOMAIN g.edges : at(g.edges[k].from) < at(g.edges[k].to)

(***************************************************************************)
(* Whatever the graph, a node had an effect only if the trigger leads to   *)
(* it without passing a gate and along edges the severity allows: it is in *)
(* every set that holds the trigger and that such edges do not leave.      *)
(***************************************************************************)
GatesHold ==
    fetched # None =>
        \A S \in SUBSET Nodes(fetched) :
            Trigger(fetched) \in S /\ Closed(fetched, S, matches) => done \subseteq S

(***************************************************************************)
(* When the effects of a request stop at a gate, the run it answers with   *)
(* waits for an approval or has had one, provided nobody edited the        *)
(* playbook between the run and the fetch.                                 *)
(***************************************************************************)
StoppedRunWaits ==
    stop # None /\ ~edited =>
        \/ runs[Len(runs)].status = "waiting_approval"
        \/ runs[Len(runs)].approved

(***************************************************************************)
(* Playbooks the BFF drafts never come to a sensitive node before an       *)
(* approval, whatever the AI marks as needing one.                         *)
(***************************************************************************)
DraftAsksFirst ==
    drafted /\ ~edited /\ stop # None => fetched.types[stop] = "gate"
=============================================================================
