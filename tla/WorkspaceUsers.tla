---------------------------- MODULE WorkspaceUsers ----------------------------
(***************************************************************************)
(* The users of one workspace.  Its owner and its admins create users,     *)
(* within the number the plan allows, change their roles and switch them   *)
(* off and on; the platform's administrator changes the plan.  A request   *)
(* reads who makes it, then what it needs, and then writes: no row is      *)
(* locked between.                                                         *)
(***************************************************************************)
EXTENDS Integers, FiniteSets

CONSTANTS
    User,       \* 1 is the owner
    Email,
    OwnerEmail,
    Request,    \* requests of the workspace
    Overlap,    \* BOOLEAN: they are served at the same time
    MaxUsers,   \* bound: the limits a plan may have
    MaxChanges  \* bound: requests in all

VARIABLES
    user,    \* users: are they there, their role, are they active, their address
    limit,   \* Plan.max_users
    request, \* who asks for what, and what has been read
    changes

vars == <<user, limit, request, changes>>

Role == {"owner", "admin", "operator", "viewer"}
Nobody == [there |-> FALSE, role |-> "viewer", active |-> FALSE, email |-> OwnerEmail]
Idle == [pc |-> "idle", by |-> 1, role |-> "owner", of |-> 1, new |-> Nobody, read |-> Nobody]

UserType == [there: BOOLEAN, role: Role, active: BOOLEAN, email: Email]
TypeOK ==
    /\ user \in [User -> UserType]
    /\ limit \in 1..MaxUsers
    /\ request \in [Request -> [pc: {"idle", "create", "insert", "update", "write"}, by: User,
                                role: Role, of: User, new: UserType, read: UserType]]
    /\ changes \in Nat

Init ==
    /\ user = [u \in User |-> IF u = 1 THEN [Nobody EXCEPT !.there = TRUE, !.role = "owner", !.active = TRUE]
                                       ELSE Nobody]
    /\ limit \in 1..MaxUsers
    /\ request = [r \in Request |-> Idle]
    /\ changes = 0

ActiveUsers == {u \in User : user[u].there /\ user[u].active}

-----------------------------------------------------------------------------

\* Mutant of ValidateManagedRole: admins make admins.
ValidateManagedRoleOwner(by, role) == role # "owner"

\* validate_managed_role.
ValidateManagedRole(by, role) == role # "owner" /\ ~(by = "admin" /\ role = "admin")

\* Mutant of ValidateManagedUser: the owner is one like the others.
ValidateManagedUserAdmin(by, role) == ~(by = "admin" /\ role = "admin")

\* Mutant of ValidateManagedUser: admins manage each other.
ValidateManagedUserOwner(by, role) == role # "owner"

\* validate_managed_user.
ValidateManagedUser(by, role) == role # "owner" /\ ~(by = "admin" /\ role = "admin")

\* require_role(ADMIN): the user is read, with the role it has now.
Principal(u) == u \in ActiveUsers /\ user[u].role \in {"owner", "admin"}

Served == Overlap \/ \A r \in Request : request[r].pc = "idle"

\* create_user and update_user begin: a user that is created has an id of its own.
Ask(r, by, of, new) ==
    /\ request[r].pc = "idle" /\ Served /\ changes < MaxChanges /\ Principal(by)
    /\ user[of].there \/ \A o \in Request : request[o].of # of
    /\ request' = [request EXCEPT ![r] =
          [pc |-> IF user[of].there THEN "update" ELSE "create", by |-> by,
           role |-> user[by].role, of |-> of, new |-> new, read |-> user[of]]]
    /\ changes' = changes + 1
    /\ UNCHANGED <<user, limit>>

Ends(r) == request' = [request EXCEPT ![r] = Idle]

\* Mutant of UnderLimit: one user more.
UnderLimitByOne == Cardinality(ActiveUsers) <= limit

UnderLimit == Cardinality(ActiveUsers) < limit

\* Mutant of Taken: the address is looked up as it was typed.
NotTaken(email) == FALSE

\* The address is one of the workspace's: normalized, of active users or not.
Taken(email) == \E u \in User : user[u].there /\ user[u].email = email

\* create_user: the role, the limit and the address; or 403, 409.
CheckCreate(r) ==
    LET q == request[r] IN
    /\ q.pc = "create"
    /\ IF ValidateManagedRole(q.role, q.new.role) /\ UnderLimit /\ ~Taken(q.new.email)
       THEN request' = [request EXCEPT ![r].pc = "insert"] ELSE Ends(r)
    /\ UNCHANGED <<user, limit, changes>>

\* The user is added; UniqueConstraint("tenant_id", "email_normalized").
Insert(r) ==
    LET q == request[r] IN
    /\ q.pc = "insert"
    /\ user' = IF Taken(q.new.email) THEN user
               ELSE [user EXCEPT ![q.of] = [q.new EXCEPT !.there = TRUE, !.active = TRUE]]
    /\ Ends(r)
    /\ UNCHANGED <<limit, changes>>

\* The row as the session has it: the caller's own is not read again.
Loaded(q) == IF q.of = q.by THEN q.read ELSE user[q.of]

\* update_user: the row is read and checked; or 403, 409.
CheckUpdate(r) ==
    LET q == request[r] IN
    /\ q.pc = "update"
    /\ IF /\ ValidateManagedUser(q.role, Loaded(q).role)
          /\ ~(q.of = q.by /\ ~q.new.active)
          /\ q.new.role # Loaded(q).role => ValidateManagedRole(q.role, q.new.role)
       THEN request' = [request EXCEPT ![r].pc = "write", ![r].read = Loaded(q)] ELSE Ends(r)
    /\ UNCHANGED <<user, limit, changes>>

\* The UPDATE holds the attributes that differ from what was read.
Write(r) ==
    LET q == request[r] IN
    /\ q.pc = "write"
    /\ user' = [user EXCEPT ![q.of].role = IF q.new.role = q.read.role THEN @ ELSE q.new.role,
                            ![q.of].active = IF q.new.active = q.read.active THEN @ ELSE q.new.active]
    /\ Ends(r)
    /\ UNCHANGED <<limit, changes>>

\* update_workspace gives the workspace another plan, update_plan the plan another limit.
ChangePlan(n) ==
    /\ changes < MaxChanges /\ n # limit /\ Served
    /\ limit' = n /\ changes' = changes + 1
    /\ UNCHANGED <<user, request>>

Next ==
    \/ \E r \in Request :
          \/ \E by, of \in User, role \in Role, active \in BOOLEAN, email \in Email :
                Ask(r, by, of, [there |-> FALSE, role |-> role, active |-> active, email |-> email])
          \/ CheckCreate(r) \/ Insert(r) \/ CheckUpdate(r) \/ Write(r)
    \/ \E n \in 1..MaxUsers : ChangePlan(n)

Spec == Init /\ [][Next]_vars

-----------------------------------------------------------------------------
\* validate_managed_role, "preserve the single workspace owner": there is one owner,
\* who is active, whatever requests run at the same time.
SingleOwner ==
    /\ user[1].role = "owner" /\ user[1].active
    /\ \A u \in User \ {1} : user[u].role # "owner"

\* "Prevent privilege escalation": who becomes an admin was made one by the owner.
OwnerMakesAdmins ==
    \A u \in User : (user'[u].there /\ user'[u].role = "admin" /\ user[u].role # "admin") =>
        \E r \in Request : request[r].of = u /\ request[r].role = "owner"
                           /\ request'[r].pc = "idle"
OnlyOwnerMakesAdmins == [][OwnerMakesAdmins]_vars

WithinLimit ==
    \A u \in User : (user'[u].there /\ ~user[u].there) =>
        Cardinality({v \in User : user'[v].there /\ user'[v].active}) <= limit'
\* A user that is created does not take the workspace over its plan's limit, when no
\* other request runs: neither after the limit was lowered nor after users that were
\* switched off are on again (which nothing limits).
CreatedWithinLimit == [][WithinLimit]_vars

\* Two requests for the same address leave one user of it.
OneUserPerAddress ==
    \A u, v \in User : (user[u].there /\ user[v].there /\ user[u].email = user[v].email) => u = v

ThroughOwner ==
    \A u \in User : (user[u].role = "admin" /\ user'[u] # user[u]) =>
        \E r \in Request : request[r].of = u /\ request[r].role = "owner"
                           /\ request'[r].pc = "idle"
\* An admin changes no admin but through the owner, when no other request runs.
AdminsApart == [][ThroughOwner]_vars
=============================================================================
