-------------------------------- MODULE Roles --------------------------------
(***************************************************************************)
(* Who may do what in the BFF.  A session carries the roles that the         *)
(* identity provider (external) gave the user at login; its admin role       *)
(* allows everything.  All others have the permissions of the roles that     *)
(* they are members of, which users with roles.manage edit.  A request is    *)
(* authorised first and writes its transaction later; the rows are those of  *)
(* PostgreSQL under READ COMMITTED.                                          *)
(***************************************************************************)
EXTENDS Naturals, Sequences, FiniteSets

CONSTANTS
    User,        \* users
    Role,        \* ids of roles that can be created, used once
    Permission,  \* permission slugs
    Manage,      \* the slug roles.manage
    Handler,     \* request threads
    MaxChanges,  \* bound on the changes of the identity provider and of sessions
    None

\* The built-in role and what only it grants.
Super == "role_super_admin"
Wildcard == "*"

VARIABLES
    claim,      \* the users that the identity provider calls admin now
    session,    \* session[u]: None, or the claim the user's session carries
    exists,     \* the roles that exist
    grants,     \* grants[r]: the permissions of role r
    member,     \* member[r]: the users in role r
    handler,    \* handler[h]: the request it works on
    changes,    \* number of changes
    edits,      \* history: edits[r], the sets of permissions that role r was given
    disturbed,  \* history: roles that two handlers edited at once
    rooted      \* history: a user whom the identity provider calls admin logged in

vars == <<claim, session, exists, grants, member, handler, changes, edits, disturbed, rooted>>
rows == <<exists, grants, member>>

AllRoles == Role \cup {Super}
Resting == [pc |-> "idle", op |-> "none", role |-> None,
            perms |-> {}, seen |-> {}, target |-> None]

\* What the tables, the sessions and the handlers hold.
TypeOK ==
    /\ claim \subseteq User /\ exists \subseteq AllRoles
    /\ \A u \in User : session[u] \in {None, "admin", "analyst"}
    /\ \A r \in AllRoles :
         /\ grants[r] \subseteq Permission \cup {Wildcard} /\ member[r] \subseteq User
         /\ r \notin exists => grants[r] = {} /\ member[r] = {}
    /\ \A h \in Handler :
         /\ handler[h].pc \in {"idle", "authorised", "written"}
         /\ handler[h].pc = "written" => handler[h].op = "update"

Init ==
    /\ claim \in SUBSET User
    /\ session = [u \in User |-> None]
    /\ exists = {Super}
    /\ grants = [r \in AllRoles |-> IF r = Super THEN {Wildcard} ELSE {}]
    /\ member = [r \in AllRoles |-> {}]
    /\ handler = [h \in Handler |-> Resting]
    /\ changes = 0
    /\ edits = [r \in Role |-> {}]
    /\ disturbed = {}
    /\ rooted = FALSE

-----------------------------------------------------------------------------
(* Sessions. *)

\* The identity provider gives or takes the admin role of a user; the sessions
\* that are open do not hear of it.
ChangeClaim(u) ==
    /\ changes < MaxChanges /\ changes' = changes + 1
    /\ claim' = IF u \in claim THEN claim \ {u} ELSE claim \cup {u}
    /\ UNCHANGED <<session, rows, handler, edits, disturbed, rooted>>

LogIn(u) ==
    /\ session[u] = None
    /\ session' = [session EXCEPT ![u] = IF u \in claim THEN "admin" ELSE "analyst"]
    /\ rooted' = (rooted \/ u \in claim)
    /\ UNCHANGED <<claim, rows, handler, changes, edits, disturbed>>

\* The session is revoked, or expires.
EndSession(u) ==
    /\ session[u] # None /\ changes < MaxChanges /\ changes' = changes + 1
    /\ session' = [session EXCEPT ![u] = None]
    /\ UNCHANGED <<claim, rows, handler, edits, disturbed, rooted>>

-----------------------------------------------------------------------------
(* Permissions. *)

\* effective_permissions.
Effective(u) == UNION {grants[r] : r \in {q \in exists : u \in member[q]}}

\* Mutant: a session is enough as long as there are no roles.
PermittedFirst(u, slug) ==
    /\ session[u] # None
    /\ \/ session[u] = "admin" \/ slug \in Effective(u) \/ Wildcard \in Effective(u)
       \/ exists = {Super}

\* require_permission.
Permitted(u, slug) ==
    /\ session[u] # None
    /\ session[u] = "admin" \/ slug \in Effective(u) \/ Wildcard \in Effective(u)

\* A request to the roles API is authorised; perms passed _normalize_permissions,
\* which lets no wildcard through.
Submit(h, u, op, r, perms, target) ==
    /\ handler[h].pc = "idle" /\ Permitted(u, Manage)
    /\ handler' = [handler EXCEPT ![h] =
                     [pc |-> "authorised", op |-> op, role |-> r,
                      perms |-> perms, seen |-> {}, target |-> target]]
    /\ UNCHANGED <<claim, session, rows, changes, edits, disturbed, rooted>>

Finishes(h) == handler' = [handler EXCEPT ![h] = Resting]
Works(h, op) == handler[h].pc = "authorised" /\ handler[h].op = op

\* create_role.
CreateRole(h) ==
    LET r == handler[h].role IN
    /\ Works(h, "create") /\ r \notin exists /\ edits[r] = {}
    /\ exists' = exists \cup {r}
    /\ grants' = [grants EXCEPT ![r] = handler[h].perms]
    /\ edits' = [edits EXCEPT ![r] = {handler[h].perms}]
    /\ Finishes(h)
    /\ UNCHANGED <<claim, session, member, changes, disturbed, rooted>>

\* Mutant: a system role can be edited like any other.
EditableAny(r) == r \in exists

Editable(r) == r \in exists /\ r # Super

\* update_role deletes the permissions that it sees ...
UpdateDelete(h) ==
    LET r == handler[h].role IN
    /\ Works(h, "update") /\ Editable(r)
    /\ handler' = [handler EXCEPT ![h].pc = "written", ![h].seen = grants[r]]
    /\ disturbed' = IF \E g \in Handler : handler[g].pc = "written" /\ handler[g].role = r
                    THEN disturbed \cup {r} ELSE disturbed
    /\ UNCHANGED <<claim, session, rows, changes, edits, rooted>>

\* Mutant: the permissions that were there stay.
ReplacedAdding(old, seen, perms) == old \cup perms

\* ... and adds its own: those that came in between stay.
Replaced(old, seen, perms) == (old \ seen) \cup perms

\* The commit.  It fails when the role is gone, or when a permission to add came
\* in between.
UpdateCommit(h) ==
    LET r == handler[h].role
        q == handler[h] IN
    /\ q.pc = "written"
    /\ IF r \in exists /\ (grants[r] \ q.seen) \cap q.perms = {}
       THEN /\ grants' = [grants EXCEPT ![r] = Replaced(@, q.seen, q.perms)]
            /\ edits' = IF r \in Role THEN [edits EXCEPT ![r] = @ \cup {q.perms}] ELSE edits
       ELSE UNCHANGED <<grants, edits>>
    /\ Finishes(h)
    /\ UNCHANGED <<claim, session, exists, member, changes, disturbed, rooted>>

\* delete_role: the rows that refer to the role go with it.
DeleteRole(h) ==
    LET r == handler[h].role IN
    /\ Works(h, "delete") /\ Editable(r)
    /\ exists' = exists \ {r}
    /\ grants' = [grants EXCEPT ![r] = {}]
    /\ member' = [member EXCEPT ![r] = {}]
    /\ Finishes(h)
    /\ UNCHANGED <<claim, session, changes, edits, disturbed, rooted>>

\* add_member, update_user_roles: any role, the built-in one too.
AddMember(h) ==
    LET r == handler[h].role IN
    /\ Works(h, "add") /\ r \in exists
    /\ member' = [member EXCEPT ![r] = @ \cup {handler[h].target}]
    /\ Finishes(h)
    /\ UNCHANGED <<claim, session, exists, grants, changes, edits, disturbed, rooted>>

RemoveMember(h) ==
    LET r == handler[h].role IN
    /\ Works(h, "remove")
    /\ member' = [member EXCEPT ![r] = @ \ {handler[h].target}]
    /\ Finishes(h)
    /\ UNCHANGED <<claim, session, exists, grants, changes, edits, disturbed, rooted>>

\* The request is refused: the role is not there, or is a system role.
Refuse(h) ==
    LET r == handler[h].role IN
    /\ handler[h].pc = "authorised"
    /\ \/ handler[h].op = "create" /\ edits[r] # {}
       \/ handler[h].op \in {"update", "delete"} /\ ~Editable(r)
       \/ handler[h].op = "add" /\ r \notin exists
    /\ Finishes(h)
    /\ UNCHANGED <<claim, session, rows, changes, edits, disturbed, rooted>>

Next ==
    \/ \E u \in User : ChangeClaim(u) \/ LogIn(u) \/ EndSession(u)
    \/ \E h \in Handler :
         \/ \E u \in User, r \in Role, perms \in SUBSET Permission :
              Submit(h, u, "create", r, perms, None)
         \/ \E u \in User, r \in AllRoles :
              \/ \E perms \in SUBSET Permission : Submit(h, u, "update", r, perms, None)
              \/ Submit(h, u, "delete", r, {}, None)
              \/ \E t \in User, op \in {"add", "remove"} : Submit(h, u, op, r, {}, t)
         \/ CreateRole(h) \/ UpdateDelete(h) \/ UpdateCommit(h) \/ DeleteRole(h)
         \/ AddMember(h) \/ RemoveMember(h) \/ Refuse(h)

Spec == Init /\ [][Next]_vars

-----------------------------------------------------------------------------
(* What the code promises. *)

\* Everything is allowed only by the built-in role, which keeps that permission
\* and no other: no sequence of edits hands the wildcard to another role.
WildcardIsSuper == \A r \in AllRoles : r = Super <=> grants[r] = {Wildcard}

\* A role has the permissions that one request gave it, unless two requests
\* edited it at once: then it has those of both, which nobody asked for.
PermissionsOfOneEdit ==
    \A r \in Role \cap exists : r \notin disturbed => grants[r] \in edits[r]

\* All power starts with the identity provider: as long as nobody has logged in
\* whom it calls admin, no role is made and nobody is a member of one.
AdminComesFirst == ~rooted => exists = {Super} /\ \A r \in AllRoles : member[r] = {}
=============================================================================
