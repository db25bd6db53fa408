------------------------------- MODULE Tenancy ------------------------------
(***************************************************************************)
(* Tenants, their users and their roles (backend/core): the requests that  *)
(* give or take access, each checked against the database it reads and     *)
(* written some statements later, without row locks.                       *)
(*                                                                         *)
(* A request is two steps: its reads and checks, and its writes with the   *)
(* commit.  A tenant has the system roles Owner and Tenant Admin, and one  *)
(* custom role that may hold the manage permissions.  A platform           *)
(* administrator is not a member; impersonating, it may do what needs a    *)
(* permission, but not what needs the Owner role.                          *)
(***************************************************************************)
EXTENDS FiniteSets, Naturals

CONSTANTS
  Tenants,
  Users,       \* accounts that are not platform administrators
  Platform,    \* a platform administrator
  Workers,     \* request threads
  Permissions, \* what the custom role may be saved with: "plain" or "manager"
  RoleLists    \* the role_ids that requests name

ASSUME ActorAssumption == Platform \notin Users
ASSUME PermissionsAssumption == Permissions \subseteq {"plain", "manager"}
ASSUME RoleListsAssumption ==
  {} \notin RoleLists /\ UNION RoleLists \subseteq {"Owner", "TenantAdmin", "Custom"}

VARIABLES
  tenant,   \* Tenant.status, "none" before the tenant exists
  enabled,  \* User.is_active
  member,   \* TenantMembership: its state and its roles
  custom,   \* the custom role: missing, without, or with the manage permissions
  request,  \* the writes each worker has still to do
  stale     \* history: another request has committed since a worker's checks

vars == <<tenant, enabled, member, custom, request, stale>>

Roles == {"Owner", "TenantAdmin", "Custom"}
Statuses == {"active", "suspended"}
NoMember == [state |-> "none", roles |-> {}]

\* roles = {} and state = "keep" leave a field out of the request.
Change == [kind : {"membership", "assign", "create_member", "create_tenant"},
           tenant : Tenants, user : Users, roles : SUBSET Roles,
           state : {"active", "disabled", "keep"}]
UserChange == [kind : {"user"}, user : Users, active : BOOLEAN]
RoleChange == [kind : {"role"}, tenant : Tenants, custom : {"missing", "plain", "manager"}]
\* "tenant_edit" writes back the status it has read.
TenantChange == [kind : {"tenant_status", "tenant_edit"}, tenant : Tenants, status : Statuses]
Requests == Change \cup UserChange \cup RoleChange \cup TenantChange
Idle == [kind |-> "idle"]

Init ==
  /\ tenant = [t \in Tenants |-> "none"]
  /\ enabled = [u \in Users |-> TRUE]
  /\ member = [t \in Tenants |-> [u \in Users |-> NoMember]]
  /\ custom = [t \in Tenants |-> "missing"]
  /\ request = [w \in Workers |-> Idle]
  /\ stale = [w \in Workers |-> FALSE]

-----------------------------------------------------------------------------
Exists(t, u) == member[t][u].state # "none"
Holds(t, u, role) == role \in member[t][u].roles

\* An owner who can use the role: active membership, active account.
ActiveOwner(t, u) == member[t][u].state = "active" /\ Holds(t, u, "Owner") /\ enabled[u]
HasOwner(t) == \E u \in Users : ActiveOwner(t, u)
OtherOwner(t, u) == \E o \in Users \ {u} : ActiveOwner(t, o)

\* Who passes TenantScopedPermission for user.manage and role.manage.
Actors(t) ==
  IF tenant[t] # "active" THEN {} ELSE
  {Platform} \cup {u \in Users :
    /\ enabled[u] /\ member[t][u].state = "active"
    /\ \/ Holds(t, u, "Owner") \/ Holds(t, u, "TenantAdmin")
       \/ Holds(t, u, "Custom") /\ custom[t] = "manager"}

\* membership_is_owner of the actor; an impersonation has no membership.
OwnsTenant(t, actor) == actor \in Users /\ Holds(t, actor, "Owner")

RolesOf(t) == {r \in Roles : r = "Custom" => custom[t] # "missing"}

\* Mutant of OwnerChangeIsSafe: the membership itself counts as another owner.
OwnerChangeCountsItself(t, u, roles, deactivate) ==
  ~Holds(t, u, "Owner") \/ HasOwner(t)

\* ensure_owner_change_is_safe.
OwnerChangeIsSafe(t, u, roles, deactivate) ==
  \/ ~Holds(t, u, "Owner")
  \/ ~deactivate /\ (roles = {} \/ "Owner" \in roles)
  \/ OtherOwner(t, u)

\* ensure_user_deactivation_is_safe looks at active tenants only.
DeactivationIsSafe(u) ==
  \A t \in Tenants :
    tenant[t] = "active" /\ member[t][u].state = "active" /\ Holds(t, u, "Owner")
      => OtherOwner(t, u)

-----------------------------------------------------------------------------
(* Reads and checks.                                                       *)

Begin(w, change) ==
  /\ request[w] = Idle
  /\ request' = [request EXCEPT ![w] = change]
  /\ stale' = [stale EXCEPT ![w] = FALSE]
  /\ UNCHANGED <<tenant, enabled, member, custom>>

\* TenantUserViewSet.create, for an account that exists or is created with it.
BeginCreateMember(w, actor, t, u, roles) ==
  /\ actor \in Actors(t)
  /\ ~Exists(t, u)
  /\ roles \subseteq RolesOf(t)
  /\ "Owner" \in roles => OwnsTenant(t, actor)
  /\ Begin(w, [kind |-> "create_member", tenant |-> t, user |-> u, roles |-> roles,
               state |-> "active"])

\* Mutant of GrantAllowed: user.manage is enough to grant or remove Owner.
GrantUnchecked(t, actor, u, roles) == roles \subseteq RolesOf(t)

GrantAllowed(t, actor, u, roles) ==
  /\ roles \subseteq RolesOf(t)
  /\ roles # {} /\ Holds(t, u, "Owner") # ("Owner" \in roles) => OwnsTenant(t, actor)

\* TenantUserViewSet.partial_update.
BeginUpdateMember(w, actor, t, u, roles, state) ==
  /\ actor \in Actors(t)
  /\ Exists(t, u)
  /\ GrantAllowed(t, actor, u, roles)
  /\ OwnerChangeIsSafe(t, u, roles,
       state = "disabled" \/ (state = "keep" /\ member[t][u].state = "disabled"))
  /\ Begin(w, [kind |-> "membership", tenant |-> t, user |-> u, roles |-> roles,
               state |-> state])

\* PlatformUserViewSet.remove_tenant, of a suspended tenant too.
BeginRemoveMember(w, t, u) ==
  /\ Exists(t, u)
  /\ OwnerChangeIsSafe(t, u, {}, TRUE)
  /\ Begin(w, [kind |-> "membership", tenant |-> t, user |-> u, roles |-> {},
               state |-> "disabled"])

\* TenantUserViewSet.destroy.
BeginDisableMember(w, actor, t, u) ==
  /\ actor \in Actors(t) \ {u}
  /\ Exists(t, u)
  /\ OwnerChangeIsSafe(t, u, {}, TRUE)
  /\ Begin(w, [kind |-> "membership", tenant |-> t, user |-> u, roles |-> {},
               state |-> "disabled"])

\* RoleViewSet.create and perform_update.
BeginSaveRole(w, actor, t, permissions) ==
  /\ actor \in Actors(t)
  /\ Begin(w, [kind |-> "role", tenant |-> t, custom |-> permissions])

\* Mutant of BeginDeleteRole: nobody looks whether the role is in use.
BeginDeleteUsedRole(w, actor, t) ==
  /\ actor \in Actors(t)
  /\ custom[t] # "missing"
  /\ Begin(w, [kind |-> "role", tenant |-> t, custom |-> "missing"])

\* RoleViewSet.destroy.
BeginDeleteRole(w, actor, t) ==
  /\ actor \in Actors(t)
  /\ custom[t] # "missing"
  /\ \A u \in Users : ~Holds(t, u, "Custom")
  /\ Begin(w, [kind |-> "role", tenant |-> t, custom |-> "missing"])

\* PlatformTenantViewSet.create.
BeginCreateTenant(w, t, u) ==
  /\ tenant[t] = "none"
  /\ enabled[u]
  /\ Begin(w, [kind |-> "create_tenant", tenant |-> t, user |-> u, roles |-> {"Owner"},
               state |-> "active"])

\* PlatformUserViewSet.assign_tenant.
BeginAssignTenant(w, t, u) ==
  /\ tenant[t] = "active"
  /\ Begin(w, [kind |-> "assign", tenant |-> t, user |-> u, roles |-> {"TenantAdmin"},
               state |-> "active"])

\* PlatformUserViewSet.partial_update: without is_active in the request the
\* value read is written back.
BeginUpdateUser(w, u, active) ==
  /\ enabled[u] /\ ~active => DeactivationIsSafe(u)
  /\ Begin(w, [kind |-> "user", user |-> u, active |-> active])

\* PlatformTenantViewSet.partial_update with a status.
BeginSetStatus(w, t, status) ==
  /\ tenant[t] # "none"
  /\ Begin(w, [kind |-> "tenant_status", tenant |-> t, status |-> status])

\* Mutant of BeginEditTenant: the status falls back to its default.
BeginEditDefault(w, actor, t) ==
  /\ tenant[t] # "none"
  /\ actor \in Actors(t) \cup {Platform}
  /\ Begin(w, [kind |-> "tenant_edit", tenant |-> t, status |-> "active"])

\* The same without a status, and TenantDetailView.patch, where it is read-only.
BeginEditTenant(w, actor, t) ==
  /\ tenant[t] # "none"
  /\ actor \in Actors(t) \cup {Platform}
  /\ Begin(w, [kind |-> "tenant_edit", tenant |-> t, status |-> tenant[t]])

-----------------------------------------------------------------------------
(* Writes and commit.                                                      *)

Finish(w) ==
  /\ request' = [request EXCEPT ![w] = Idle]
  /\ stale' = [v \in Workers |-> v # w /\ request[v] # Idle]

Applied(m, change) ==
  [state |-> IF change.state = "keep" THEN m.state ELSE change.state,
   roles |-> IF change.roles = {} THEN m.roles ELSE change.roles]

\* membership.save(update_fields) and roles.set: a role deleted meanwhile is a
\* foreign key violation that rolls the request back.
WriteMember(w) ==
  LET c == request[w] IN
  /\ c.kind \in {"membership", "assign"}
  /\ member' = IF c.roles \subseteq RolesOf(c.tenant)
                 THEN [member EXCEPT ![c.tenant][c.user] = Applied(@, c)]
                 ELSE member
  /\ Finish(w)
  /\ UNCHANGED <<tenant, enabled, custom>>

\* A second membership of the user violates the unique constraint.
WriteNewMember(w) ==
  LET c == request[w] IN
  /\ c.kind = "create_member"
  /\ member' = IF ~Exists(c.tenant, c.user) /\ c.roles \subseteq RolesOf(c.tenant)
                 THEN [member EXCEPT ![c.tenant][c.user] = Applied(@, c)]
                 ELSE member
  /\ Finish(w)
  /\ UNCHANGED <<tenant, enabled, custom>>

\* The tenant, its system roles and its first owner, or a duplicate slug.
WriteTenant(w) ==
  LET c == request[w] IN
  /\ c.kind = "create_tenant"
  /\ IF tenant[c.tenant] = "none"
       THEN /\ tenant' = [tenant EXCEPT ![c.tenant] = "active"]
            /\ member' = [member EXCEPT ![c.tenant][c.user] = Applied(@, c)]
       ELSE UNCHANGED <<tenant, member>>
  /\ Finish(w)
  /\ UNCHANGED <<enabled, custom>>

\* A role deleted meanwhile is created anew.
SaveRole(w) ==
  LET c == request[w] IN
  /\ c.kind = "role" /\ c.custom # "missing"
  /\ custom' = [custom EXCEPT ![c.tenant] = c.custom]
  /\ Finish(w)
  /\ UNCHANGED <<tenant, enabled, member>>

WithoutRole(m) == [state |-> m.state, roles |-> m.roles \ {"Custom"}]

\* Deletes the rows that give the role to a member, too.
DeleteRole(w) ==
  LET c == request[w] IN
  /\ c.kind = "role" /\ c.custom = "missing"
  /\ custom' = [custom EXCEPT ![c.tenant] = "missing"]
  /\ member' = [member EXCEPT ![c.tenant] =
                  [u \in Users |-> WithoutRole(member[c.tenant][u])]]
  /\ Finish(w)
  /\ UNCHANGED <<tenant, enabled>>

WriteUser(w) ==
  LET c == request[w] IN
  /\ c.kind = "user"
  /\ enabled' = [enabled EXCEPT ![c.user] = c.active]
  /\ Finish(w)
  /\ UNCHANGED <<tenant, member, custom>>

\* serializer.save() of a tenant writes the whole row.
SaveTenant(w) ==
  LET c == request[w] IN
  /\ c.kind \in {"tenant_status", "tenant_edit"}
  /\ tenant' = [tenant EXCEPT ![c.tenant] = c.status]
  /\ Finish(w)
  /\ UNCHANGED <<enabled, member, custom>>

-----------------------------------------------------------------------------
Memberships(w) ==
  \E t \in Tenants, u \in Users :
    \/ BeginCreateTenant(w, t, u)
    \/ BeginAssignTenant(w, t, u)
    \/ BeginRemoveMember(w, t, u)
    \/ \E actor \in Users \cup {Platform} :
         \/ \E roles \in RoleLists : BeginCreateMember(w, actor, t, u, roles)
         \/ BeginDisableMember(w, actor, t, u)
         \/ \E roles \in RoleLists \cup {{}}, state \in {"active", "disabled", "keep"} :
              BeginUpdateMember(w, actor, t, u, roles, state)

RoleEdits(w) ==
  \E t \in Tenants, actor \in Users \cup {Platform} :
    \/ \E permissions \in Permissions : BeginSaveRole(w, actor, t, permissions)
    \/ BeginDeleteRole(w, actor, t)

TenantEdits(w) ==
  \E t \in Tenants :
    \/ \E status \in Statuses : BeginSetStatus(w, t, status)
    \/ \E actor \in Users \cup {Platform} : BeginEditTenant(w, actor, t)

Accounts(w) == \E u \in Users, active \in BOOLEAN : BeginUpdateUser(w, u, active)

Write(w) == \/ WriteMember(w) \/ WriteNewMember(w) \/ WriteTenant(w) \/ SaveTenant(w)
            \/ SaveRole(w) \/ DeleteRole(w) \/ WriteUser(w)

Next == \E w \in Workers :
          Memberships(w) \/ RoleEdits(w) \/ TenantEdits(w) \/ Accounts(w) \/ Write(w)

Spec == Init /\ [][Next]_vars

-----------------------------------------------------------------------------
TypeOK ==
  /\ tenant \in [Tenants -> {"none", "active", "suspended"}]
  /\ enabled \in [Users -> BOOLEAN]
  /\ member \in [Tenants -> [Users -> [state : {"none", "active", "disabled"},
                                       roles : SUBSET Roles]]]
  /\ custom \in [Tenants -> {"missing", "plain", "manager"}]
  /\ request \in [Workers -> Requests \cup {Idle}]
  /\ stale \in [Workers -> BOOLEAN]

\* The request that commits in a step.
Commits(w) == request[w] # Idle /\ request'[w] = Idle

\* A tenant loses its last usable owner in three ways only: the platform makes
\* the owner a Tenant Admin, two requests overlap, or the owner's account is
\* disabled while the tenant is suspended.  No request that runs alone on an
\* active tenant gets past the two ensure_..._is_safe checks.
OwnerLossExplained ==
  [][\A t \in Tenants : HasOwner(t) /\ ~HasOwner(t)' =>
       \E w \in Workers : /\ Commits(w)
                          /\ \/ stale[w]
                             \/ request[w].kind = "assign"
                             \/ request[w].kind = "user" /\ tenant[t] = "suspended"]_vars

\* Such a tenant cannot help itself: nobody becomes its owner again, not by an
\* impersonating platform administrator either, except by a request checked
\* before the loss.
OwnerIsNotRegained ==
  [][\A t \in Tenants, u \in Users :
       /\ tenant[t] # "none" /\ ~HasOwner(t)
       /\ ~Holds(t, u, "Owner") /\ Holds(t, u, "Owner")'
       => \E w \in Workers : Commits(w) /\ stale[w]]_vars

\* A member always has a role: neither an edit nor the deletion of a role takes
\* a member's last one, unless the role is deleted while it is being given.
LastRoleKept ==
  [][\A t \in Tenants, u \in Users :
       member[t][u].roles # {} /\ member'[t][u].roles = {}
       => \E w \in Workers : Commits(w) /\ stale[w]]_vars

\* A suspended tenant works again only when the platform asks for it, or by an edit
\* of its name or settings that had read it before the suspension: save() then
\* writes the old status back, although members may not set it.
SuspensionHolds ==
  [][\A t \in Tenants : tenant[t] = "suspended" /\ tenant'[t] = "active" =>
       \E w \in Workers : /\ Commits(w)
                          /\ \/ request[w].kind = "tenant_status"
                             \/ request[w].kind = "tenant_edit" /\ stale[w]]_vars
=============================================================================
