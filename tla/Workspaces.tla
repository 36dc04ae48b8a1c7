----------------------------- MODULE Workspaces -----------------------------
(***************************************************************************)
(* Workspaces of widgets and the templates users publish from them         *)
(* (workspaces/store.py, routers/workspaces.py, workspaces/manifest.py).   *)
(* Every operation of the store selects a row, and writes the values it    *)
(* computed from it at commit: two requests may both have read before      *)
(* either writes.  A row that is gone at commit makes the request fail.    *)
(*                                                                         *)
(* One workspace id per user and one slug stand for all of them.  A widget *)
(* is its catalogue kind; presentation, layout and names are left out.     *)
(***************************************************************************)
EXTENDS Naturals, FiniteSets, FiniteSetsExt, Functions

CONSTANTS User,
          Kind,         \* kinds of widgets in the catalogue
          Prefix,       \* provider a kind's catalogue id starts with, or Generic
          Provider,     \* providers of integrations, the first in Detect's order is First
          First,
          Generic,
          Layout,       \* what browsers send: an integration or None for each kind
          Handler,      \* requests of the API under way
          MaxTemplate,  \* bound: templates ever published
          MaxRequests,  \* bound: requests in all
          None

VARIABLES owned,      \* integrations each user has, as providers
          space,      \* the user's workspace, or None
          template,   \* the template of the slug, or None
          published,  \* templates published so far, the ids given out
          installs,   \* workspaces created from each template
          missed,     \* counts of each template that overlapped another one
          lent,       \* history: bindings to others' integrations a user saved himself
          pc,         \* what each handler has read and will write
          requests    \* requests received so far

vars == <<owned, space, template, published, installs, missed, lent, pc, requests>>

Integration == [owner : User, provider : Provider]
Idle == [op |-> "idle"]
Received == requests < MaxRequests /\ requests' = requests + 1
Rows == {u \in User : space[u] # None}

-----------------------------------------------------------------------------
(* Manifests carry the provider of a widget, never its integration.  *)

(* manifest.py tests the providers in order: the catalogue id or the
   integration may give the first, then either may give the next.  *)
Detect(k, i) ==
    LET found == {Prefix[k]} \cup (IF i = None THEN {} ELSE {i.provider})
    IN  IF First \in found THEN First
        ELSE IF found \cap Provider # {} THEN CHOOSE p \in found \cap Provider : TRUE
        ELSE Generic

Manifest(widgets) == [k \in Kind |-> Detect(k, widgets[k])]

\* The widgets of u that are bound to an integration of another user.
Foreign(u, widgets) ==
    {<<k, widgets[k]>> : k \in {l \in Kind : widgets[l] # None /\ widgets[l].owner # u}}

\* Mutant: a binding of the publisher is kept.
BindKeeping(u, m) ==
    [k \in Kind |-> IF m[k] \in Provider
                    THEN [owner |-> IF m[k] \in owned[u] \/ template = None THEN u ELSE template.owner,
                          provider |-> m[k]]
                    ELSE None]
Bind(u, m) ==
    [k \in Kind |-> IF m[k] \in owned[u] THEN [owner |-> u, provider |-> m[k]] ELSE None]

\* Mutant: every provider of the manifest is missing.
MissingOfAll(u, m) == Range(m) \ {Generic}
Missing(u, m) == (Range(m) \ owned[u]) \ {Generic}

NewRow(u, m, made) ==
    [widgets |-> Bind(u, m), version |-> 1, made |-> made,
     missing |-> Missing(u, m), touched |-> FALSE]

-----------------------------------------------------------------------------
(* Saving, rebinding and deleting a workspace.  *)

Connect(u, p) ==
    /\ Received
    /\ owned' = [owned EXCEPT ![u] = @ \cup {p}]
    /\ p \notin owned[u]
    /\ UNCHANGED <<space, template, published, installs, missed, pc, lent>>

(* The browser sends all its widgets, bound to whatever integrations it says:
   nothing checks them. *)
Save(h, u, widgets) ==
    /\ pc[h] = Idle /\ Received
    /\ pc' = [pc EXCEPT ![h] = [op |-> "save", user |-> u, seen |-> space[u], widgets |-> widgets]]
    /\ UNCHANGED <<owned, space, template, published, installs, missed, lent>>

Rebind(h, u, k, p) ==
    /\ pc[h] = Idle /\ Received
    /\ p \in owned[u]
    /\ space[u] # None
    /\ pc' = [pc EXCEPT ![h] = [op |-> "rebind", user |-> u, seen |-> space[u], kind |-> k,
                                widgets |-> [space[u].widgets EXCEPT ![k] = [owner |-> u, provider |-> p]]]]
    /\ UNCHANGED <<owned, space, template, published, installs, missed, lent>>

(* The columns a write sets: SQLAlchemy leaves out those equal to what was
   read.  A rebind clears the list of missing providers, a save leaves it. *)
WriteColumns(row, r) ==
    [row EXCEPT !.widgets = IF r.widgets = r.seen.widgets THEN @ ELSE r.widgets,
                !.version = r.seen.version + 1,
                !.missing = IF r.op = "rebind" /\ r.seen.missing # {} THEN {} ELSE @,
                !.touched = TRUE]

Write(h) ==
    LET r == pc[h]  u == pc[h].user IN
    /\ r.op \in {"save", "rebind"}
    /\ \/ /\ r.seen = None /\ space[u] = None
          /\ space' = [space EXCEPT ![u] = [widgets |-> r.widgets, version |-> 1, made |-> "saved",
                                            missing |-> {}, touched |-> FALSE]]
       \/ /\ r.seen # None /\ space[u] # None
          /\ space' = [space EXCEPT ![u] = WriteColumns(@, r)]
       \/ /\ (r.seen = None) # (space[u] = None)      \* the key exists, or the row is gone
          /\ UNCHANGED space
    /\ lent' = IF r.op = "save" /\ (r.seen = None) = (space[u] = None)
               THEN [lent EXCEPT ![u] = @ \cup Foreign(u, r.widgets)] ELSE lent
    /\ pc' = [pc EXCEPT ![h] = Idle]
    /\ UNCHANGED <<owned, template, published, installs, missed, requests>>

Delete(u) ==
    /\ Received
    /\ space[u] # None
    /\ space' = [space EXCEPT ![u] = None]
    /\ UNCHANGED <<owned, template, published, installs, missed, pc, lent>>

(* A file exported from anybody's workspace. *)
Import(u, v) ==
    /\ Received
    /\ space[u] = None /\ space[v] # None
    /\ space' = [space EXCEPT ![u] = NewRow(u, Manifest(space[v].widgets), "imported")]
    /\ UNCHANGED <<owned, template, published, installs, missed, pc, lent>>

-----------------------------------------------------------------------------
(* Publishing a template: the slug is looked up, then inserted or updated. *)

Publish(h, u) ==
    /\ pc[h] = Idle /\ Received
    /\ space[u] # None
    /\ pc' = [pc EXCEPT ![h] = [op |-> "publish", user |-> u, manifest |-> Manifest(space[u].widgets)]]
    /\ UNCHANGED <<owned, space, template, published, installs, missed, lent>>

LookUpSlug(h) ==
    /\ pc[h].op = "publish"
    /\ pc' = [pc EXCEPT ![h] = IF template # None /\ template.owner # pc[h].user
                               THEN Idle
                               ELSE [op |-> "write", user |-> @.user, manifest |-> @.manifest,
                                     id |-> IF template = None THEN None ELSE template.id]]
    /\ UNCHANGED <<owned, space, template, published, installs, missed, requests, lent>>

(* The update names the row by its id: a slug deleted and taken meanwhile
   is not the row that was read. *)
HitsSlug(id) == template # None
Hits(id) == template # None /\ template.id = id

WriteTemplate(h) ==
    LET r == pc[h] IN
    /\ r.op = "write"
    /\ IF r.id = None /\ template = None
       THEN /\ published < MaxTemplate
            /\ published' = published + 1
            /\ template' = [id |-> published + 1, owner |-> r.user, manifest |-> r.manifest, count |-> 0]
       ELSE /\ UNCHANGED published
            /\ template' = IF r.id # None /\ Hits(r.id)
                           THEN [template EXCEPT !.owner = IF template.id = r.id THEN @ ELSE r.user,
                                                 !.manifest = r.manifest]
                           ELSE template                \* IntegrityError or StaleDataError
    /\ pc' = [pc EXCEPT ![h] = Idle]
    /\ UNCHANGED <<owned, space, installs, missed, requests, lent>>

DeleteTemplate(u) ==
    /\ Received
    /\ template # None /\ template.owner = u
    /\ template' = None
    /\ UNCHANGED <<owned, space, published, installs, missed, pc, lent>>

-----------------------------------------------------------------------------
(* Installing a template: the workspace first, then its count.  *)

Install(h, u) ==
    /\ pc[h] = Idle /\ Received
    /\ template # None
    /\ pc' = [pc EXCEPT ![h] = [op |-> "create", user |-> u, id |-> template.id,
                                row |-> NewRow(u, template.manifest, "installed")]]
    /\ UNCHANGED <<owned, space, template, published, installs, missed, lent>>

CreateInstalled(h) ==
    LET r == pc[h] IN
    /\ r.op = "create"
    /\ IF space[r.user] # None
       THEN pc' = [pc EXCEPT ![h] = Idle] /\ UNCHANGED <<space, installs>>
       ELSE /\ space' = [space EXCEPT ![r.user] = r.row]
            /\ installs' = [installs EXCEPT ![r.id] = @ + 1]
            /\ pc' = [pc EXCEPT ![h] = [op |-> "count", id |-> r.id]]
    /\ UNCHANGED <<owned, template, published, missed, requests, lent>>

ReadCount(h) ==
    /\ pc[h].op = "count"
    /\ pc' = [pc EXCEPT ![h] = IF Hits(@.id) THEN [op |-> "counted", id |-> @.id, to |-> template.count + 1]
                               ELSE Idle]
    /\ UNCHANGED <<owned, space, template, published, installs, missed, requests, lent>>

(* The answer to the install is the same when the count was lost. *)
WriteCountAgain(id, to) == Hits(id) /\ template' = [template EXCEPT !.count = @ + to]
WriteCount(id, to) == Hits(id) /\ template' = [template EXCEPT !.count = to]

StoreCount(h) ==
    LET r == pc[h] IN
    /\ r.op = "counted"
    /\ \/ /\ WriteCount(r.id, r.to)
          /\ missed' = [missed EXCEPT ![r.id] = @ + (template.count + 1 - r.to)]
       \/ /\ ~Hits(r.id)
          /\ UNCHANGED <<template, missed>>
    /\ pc' = [pc EXCEPT ![h] = Idle]
    /\ UNCHANGED <<owned, space, published, installs, requests, lent>>

(* The process stops between two steps of a request. *)
Abandon(h) ==
    /\ pc[h] # Idle
    /\ pc' = [pc EXCEPT ![h] = Idle]
    /\ UNCHANGED <<owned, space, template, published, installs, missed, requests, lent>>

-----------------------------------------------------------------------------
Init ==
    /\ owned \in [User -> SUBSET Provider]
    /\ space \in [User -> {None} \cup {[widgets |-> [k \in Kind |-> None], version |-> 1,
                                     made |-> "saved", missing |-> {}, touched |-> FALSE]}]
    /\ template = None
    /\ published = 0
    /\ installs = [t \in 1..MaxTemplate |-> 0]
    /\ missed = [t \in 1..MaxTemplate |-> 0]
    /\ lent = [u \in User |-> {}]
    /\ pc = [h \in Handler |-> Idle]
    /\ requests = 0

Next ==
    \/ \E u \in User, p \in Provider : Connect(u, p)
    \/ \E h \in Handler, u \in User : \E w \in Layout : Save(h, u, w)
    \/ \E h \in Handler, u \in User, k \in Kind, p \in Provider : Rebind(h, u, k, p)
    \/ \E h \in Handler : Write(h)
    \/ \E u \in User : Delete(u)
    \/ \E u, v \in User : Import(u, v)
    \/ \E h \in Handler, u \in User : Publish(h, u)
    \/ \E h \in Handler : LookUpSlug(h)
    \/ \E h \in Handler : WriteTemplate(h)
    \/ \E u \in User : DeleteTemplate(u)
    \/ \E h \in Handler, u \in User : Install(h, u)
    \/ \E h \in Handler : CreateInstalled(h)
    \/ \E h \in Handler : ReadCount(h)
    \/ \E h \in Handler : StoreCount(h)
    \/ \E h \in Handler : Abandon(h)

Spec == Init /\ [][Next]_vars

-----------------------------------------------------------------------------
(* Rows hold widgets and origins the store can hold; a template is one that
   was published.  *)
TypeOK ==
    /\ \A u \in Rows :
          /\ space[u].widgets \in [Kind -> Integration \cup {None}]
          /\ space[u].version \in 1..(MaxRequests + 1)
          /\ space[u].made \in {"saved", "imported", "installed"}
          /\ space[u].missing \subseteq Provider
    /\ template # None =>
          /\ template.id = published
          /\ template.owner \in User
          /\ template.manifest \in [Kind -> Provider \cup {Generic}]

(* A widget is bound to another user's integration only if the user of the
   workspace saved it so himself (update_workspace checks no integration).  No
   import, installation or rebind brings such a binding, whatever integrations
   the workspace had from which the manifest was made, however these requests
   overlap (manifest_to_widgets binds by provider). *)
OwnIntegrations ==
    \A u \in Rows : Foreign(u, space[u].widgets) \subseteq lent[u]

(* A workspace nobody has changed since it was installed or imported lists
   the provider of a widget exactly when that widget is unbound, so that the
   owner is asked to connect it, whatever integration the publisher had given
   the widget (missingProviderTypes). Only the first provider is told apart
   by every manifest: a widget of another, bound to an integration of the
   first, is exported as one of the first. *)
MissingIsUnbound ==
    \A u \in Rows :
        ~space[u].touched /\ space[u].made # "saved" =>
            /\ Generic \notin space[u].missing
            /\ \A k \in Kind : Prefix[k] = First =>
                  (First \in space[u].missing <=> space[u].widgets[k] = None)

(* A slug changes owner only by being deleted first, whatever two users
   publish under it at once (publish_template). *)
OwnerKept ==
    template # None /\ template' # None => template'.owner = template.owner

(* The count of a template is never above the workspaces made from it, and
   below it only by installs still counting, abandoned, or by counts that
   overlapped (increment_template_install). *)
CountedOnce ==
    template # None =>
        template.count + missed[template.id] <= installs[template.id]
=============================================================================
