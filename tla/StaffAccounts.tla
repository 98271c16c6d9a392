--------------------------- MODULE StaffAccounts ---------------------------
(***************************************************************************)
(* UsersService and RolesService behind their guards: staff accounts, their *)
(* roles, and what a role may do.  A call checks what it has read, and      *)
(* writes later, by id.                                                     *)
(***************************************************************************)
CONSTANTS
    Staff,       \* user ids
    Roles,       \* role ids
    FullAdmin,   \* the role named full_admin
    NoRole,
    Nobody,
    StaffCalls   \* calls that may overlap

ASSUME StaffAssumption == FullAdmin \in Roles /\ NoRole \notin Roles /\ Nobody \notin Staff

VARIABLES
    staff,      \* the User rows of staff
    roles,      \* the Role rows
    editors,    \* the roles that may create and edit users; the two permissions are one here
    staffCall   \* the calls in progress

staffVars == << staff, roles, editors, staffCall >>

\* admin: the coarse role ADMIN, which createUser gives to whoever gets a role.
StaffRows == [ known : BOOLEAN, admin : BOOLEAN, role : Roles \cup {NoRole}, active : BOOLEAN ]

StaffCallStates ==
    [ kind : {"none", "update", "delete role", "set permissions"},
      u : Staff \cup {Nobody}, role : Roles \cup {NoRole}, active : BOOLEAN,
      sets : SUBSET {"role", "active"} ]  \* the fields that the request names

IdleStaffCall == [ kind |-> "none", u |-> Nobody, role |-> NoRole,
                   active |-> FALSE, sets |-> {} ]

StaffTypeOK ==
    /\ staff \in [Staff -> StaffRows]
    /\ roles \in SUBSET Roles
    /\ editors \in SUBSET Roles
    /\ staffCall \in [StaffCalls -> StaffCallStates]

NoAccount == [ known |-> FALSE, admin |-> FALSE, role |-> NoRole, active |-> FALSE ]

\* The seed: one full admin.
StaffInit ==
    /\ \E u \in Staff : staff = [ v \in Staff |->
            IF v = u THEN [ known |-> TRUE, admin |-> TRUE, role |-> FullAdmin, active |-> TRUE ]
                     ELSE NoAccount ]
    /\ roles = {FullAdmin} /\ editors = {FullAdmin}
    /\ staffCall = [ c \in StaffCalls |-> IdleStaffCall ]

-----------------------------------------------------------------------------
(* JwtStrategy, RolesGuard, PermissionsGuard and FullAdminGuard: what the   *)
(* row says when the request arrives                                        *)

Authentic(actor)  == staff[actor].known /\ staff[actor].active /\ staff[actor].admin
MayEdit(actor)    == Authentic(actor) /\ staff[actor].role \in editors \cup {FullAdmin}
IsFullAdmin(actor) == Authentic(actor) /\ staff[actor].role = FullAdmin

Free(c)  == staffCall[c].kind = "none"

Enter(c, kind, u, role, active, sets) ==
    /\ Free(c)
    /\ staffCall' = [staffCall EXCEPT ![c] =
            [ kind |-> kind, u |-> u, role |-> role, active |-> active, sets |-> sets ]]
    /\ UNCHANGED << staff, roles, editors >>

Leave(c) == staffCall' = [staffCall EXCEPT ![c] = IdleStaffCall]

\* A refusal of the database or a stop before the write.
Quit(c) == ~Free(c) /\ Leave(c) /\ UNCHANGED << staff, roles, editors >>

IsActiveFullAdmin(u) == staff[u].known /\ staff[u].active /\ staff[u].role = FullAdmin

\* ensureNotLastFullAdmin
OthersRemain(u) == \E v \in Staff \ {u} : IsActiveFullAdmin(v)

-----------------------------------------------------------------------------
(* UsersService                                                             *)

\* email and username are free, the role exists, the password is hashed.
CreateUser(actor, u, role) ==
    /\ MayEdit(actor) /\ ~staff[u].known /\ role \in roles
    /\ staff' = [staff EXCEPT ![u] = [ known |-> TRUE, admin |-> TRUE, role |-> role, active |-> TRUE ]]
    /\ UNCHANGED << roles, editors, staffCall >>

\* createAdminUser makes an administrator without a role.
CreateAdminUser(actor, u) ==
    /\ MayEdit(actor) /\ ~staff[u].known
    /\ staff' = [staff EXCEPT ![u] = [ known |-> TRUE, admin |-> TRUE, role |-> NoRole, active |-> TRUE ]]
    /\ UNCHANGED << roles, editors, staffCall >>

\* Mutant: the check is made for a demotion only.
DemotesOnly(u, role, active, sets) ==
    IsActiveFullAdmin(u) /\ "role" \in sets /\ role # FullAdmin

\* It would take an active full admin away.
Demotes(u, role, active, sets) ==
    IsActiveFullAdmin(u) /\ (("role" \in sets /\ role # FullAdmin) \/ ("active" \in sets /\ ~active))

\* updateUser and disableUser: the row, the other full admins and the role are read.
UpdateRead(c, actor, u, role, active, sets) ==
    /\ MayEdit(actor) /\ staff[u].known
    /\ "role" \in sets /\ role # staff[u].role => actor # u
    /\ Demotes(u, role, active, sets) => OthersRemain(u)
    /\ role \in roles \cup {NoRole}
    /\ Enter(c, "update", u, role, active, sets)

\* The update, by id.  A role that was deleted meanwhile breaks the foreign key.
UpdateWrite(c) ==
    LET r == staffCall[c] IN
    /\ r.kind = "update" /\ r.role \in roles \cup {NoRole}
    /\ staff' = [staff EXCEPT ![r.u].role = IF "role" \in r.sets THEN r.role ELSE @,
                              ![r.u].active = IF "active" \in r.sets THEN r.active ELSE @]
    /\ Leave(c)
    /\ UNCHANGED << roles, editors >>

-----------------------------------------------------------------------------
(* RolesService                                                             *)

CreateRole(actor, role, edit) ==
    /\ IsFullAdmin(actor) /\ role \notin roles
    /\ roles' = roles \cup {role}
    /\ editors' = IF edit THEN editors \cup {role} ELSE editors
    /\ UNCHANGED << staff, staffCall >>

DeleteRoleRead(c, actor, role) ==
    /\ IsFullAdmin(actor) /\ role \in roles \ {FullAdmin}
    /\ \A u \in Staff : staff[u].role # role
    /\ Enter(c, "delete role", actor, role, FALSE, {})

\* ON DELETE SET NULL takes the role from who has got it meanwhile.
DeleteRole(c) ==
    LET r == staffCall[c] IN
    /\ r.kind = "delete role"
    /\ roles' = roles \ {r.role} /\ editors' = editors \ {r.role}
    /\ staff' = [ u \in Staff |-> IF staff[u].role = r.role
                                  THEN [staff[u] EXCEPT !.role = NoRole] ELSE staff[u] ]
    /\ Leave(c)

PermissionsRead(c, actor, role, edit) ==
    /\ IsFullAdmin(actor) /\ role \in roles
    /\ Enter(c, "set permissions", actor, role, edit, {})

\* deleteMany and createMany in a transaction.
SetPermissions(c) ==
    LET r == staffCall[c] IN
    /\ r.kind = "set permissions" /\ r.role \in roles
    /\ editors' = IF r.active THEN editors \cup {r.role} ELSE editors \ {r.role}
    /\ Leave(c)
    /\ UNCHANGED << staff, roles >>

StaffNext ==
    \E actor \in Staff :
        \/ \E u \in Staff : CreateAdminUser(actor, u) \/ \E role \in Roles : CreateUser(actor, u, role)
        \/ \E role \in Roles, edit \in BOOLEAN : CreateRole(actor, role, edit)
        \/ \E c \in StaffCalls :
            \/ \E u \in Staff, role \in Roles \cup {NoRole}, active \in BOOLEAN,
                  sets \in SUBSET {"role", "active"} : UpdateRead(c, actor, u, role, active, sets)
            \/ \E role \in Roles : DeleteRoleRead(c, actor, role)
            \/ \E role \in Roles, edit \in BOOLEAN : PermissionsRead(c, actor, role, edit)
            \/ UpdateWrite(c) \/ DeleteRole(c) \/ SetPermissions(c) \/ Quit(c)

StaffSpec == StaffInit /\ [][StaffNext]_staffVars

-----------------------------------------------------------------------------
\* updateUser: "Prevent disabling or demoting the last active Full Admin".  No sequence of
\* calls leaves the shop without an account that may do everything.
AlwaysAFullAdmin == \E u \in Staff : IsActiveFullAdmin(u)
=============================================================================
