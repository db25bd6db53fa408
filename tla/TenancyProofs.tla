---------------------------- MODULE TenancyProofs ----------------------------
(***************************************************************************)
(* The owners, the roles and the suspension of tenants, for every set of   *)
(* tenants, accounts and overlapping requests.                             *)
(***************************************************************************)
EXTENDS Tenancy, TLAPS

\* What holds of the writes of a request, whatever has happened since its checks.
Known(c) ==
  /\ c.kind \in {"membership", "assign", "create_member"} => tenant[c.tenant] # "none"
  /\ c.kind = "assign" => c.roles = {"TenantAdmin"}
  /\ c.kind = "create_tenant" => c.roles = {"Owner"} /\ c.state = "active"

\* What its checks have found.
Valid(c) ==
  /\ c.kind = "membership" =>
       OwnerChangeIsSafe(c.tenant, c.user, c.roles,
         c.state = "disabled" \/ (c.state = "keep" /\ member[c.tenant][c.user].state = "disabled"))
  /\ c.kind = "user" => (enabled[c.user] /\ ~c.active => DeactivationIsSafe(c.user))
  /\ c.kind = "role" /\ c.custom = "missing" => \A u \in Users : ~Holds(c.tenant, u, "Custom")
  /\ c.kind \in {"membership", "create_member"} /\ "Owner" \in c.roles
       /\ ~Holds(c.tenant, c.user, "Owner") => HasOwner(c.tenant)
  /\ c.kind = "tenant_edit" => c.status = tenant[c.tenant]

Founded == \A t \in Tenants : tenant[t] = "none" => \A u \in Users : ~Exists(t, u)

\* Checks go stale by the commit of another request only.
Pending(w) == Known(request[w]) /\ (~stale[w] => Valid(request[w]))

IInv == TypeOK /\ Founded /\ \A w \in Workers : Pending(w)

LEMMA IdleIsPending == Known(Idle) /\ Valid(Idle)
  BY DEF Known, Valid, Idle

LEMMA InitIInv == Init => IInv
<1> SUFFICES ASSUME Init PROVE IInv
  OBVIOUS
<1>1. TypeOK
  BY DEF Init, TypeOK, NoMember, Roles
<1>2. Founded
  BY DEF Init, Founded, Exists, NoMember
<1>3. \A w \in Workers : Pending(w)
  BY IdleIsPending DEF Init, Pending
<1> QED
  BY <1>1, <1>2, <1>3 DEF IInv

\* The kind of a request tells its fields.
LEMMA Kinds ==
  ASSUME TypeOK, NEW w \in Workers
  PROVE  LET c == request[w] IN
         /\ c.kind \in {"membership", "assign", "create_member", "create_tenant"} =>
              /\ c.tenant \in Tenants /\ c.user \in Users /\ c.roles \subseteq Roles
              /\ c.state \in {"active", "disabled", "keep"}
         /\ c.kind = "user" => c.user \in Users /\ c.active \in BOOLEAN
         /\ c.kind = "role" => c.tenant \in Tenants /\ c.custom \in {"missing", "plain", "manager"}
         /\ c.kind \in {"tenant_status", "tenant_edit"}
              => c.tenant \in Tenants /\ c.status \in Statuses
<1>1. request[w] \in Change \cup UserChange \cup RoleChange \cup TenantChange \cup {Idle}
  BY DEF TypeOK, Requests
<1>2. CASE request[w] \in Change
  BY <1>2 DEF Change
<1>3. CASE request[w] \in UserChange
  BY <1>3 DEF UserChange
<1>4. CASE request[w] \in RoleChange
  BY <1>4 DEF RoleChange
<1>5. CASE request[w] \in TenantChange
  BY <1>5 DEF TenantChange
<1>6. CASE request[w] = Idle
  BY <1>6 DEF Idle
<1> QED
  BY <1>1, <1>2, <1>3, <1>4, <1>5, <1>6

-----------------------------------------------------------------------------
(* A request begins with what its checks have found.                       *)

LEMMA BeginKeeps ==
  ASSUME IInv, NEW w \in Workers, NEW c \in Requests, Begin(w, c), Known(c), Valid(c)
  PROVE  IInv'
<1>1. TypeOK'
  BY DEF IInv, TypeOK, Begin
<1>2. Founded'
  BY DEF IInv, Founded, Exists, Begin
<1>3. ASSUME NEW v \in Workers PROVE Pending(v)'
  <2>1. UNCHANGED <<tenant, enabled, member, custom>>
    BY DEF Begin
  <2>2. CASE v = w
    <3>1. request'[v] = c
      BY <2>2 DEF IInv, TypeOK, Begin
    <3>2. Known(request[v])'
      BY <2>1, <3>1 DEF Known
    <3>3. Valid(request[v])'
      BY <2>1, <3>1 DEF Valid, OwnerChangeIsSafe, DeactivationIsSafe, OtherOwner, HasOwner,
         ActiveOwner, Holds
    <3> QED
      BY <3>2, <3>3 DEF Pending
  <2>3. CASE v # w
    <3>1. request'[v] = request[v] /\ stale'[v] = stale[v]
      BY <2>3 DEF IInv, TypeOK, Begin
    <3>2. Known(request[v])' <=> Known(request[v])
      BY <2>1, <3>1 DEF Known
    <3>3. Valid(request[v])' <=> Valid(request[v])
      BY <2>1, <3>1 DEF Valid, OwnerChangeIsSafe, DeactivationIsSafe, OtherOwner, HasOwner,
         ActiveOwner, Holds
    <3> QED
      BY <3>1, <3>2, <3>3 DEF IInv, Pending
  <2> QED
    BY <2>2, <2>3
<1> QED
  BY <1>1, <1>2, <1>3 DEF IInv

\* Who may act as an owner is one who can use the role.
LEMMA OwnerActs ==
  ASSUME NEW t \in Tenants, NEW actor \in Actors(t), OwnsTenant(t, actor)
  PROVE  HasOwner(t)
<1>1. actor \in Users /\ Holds(t, actor, "Owner")
  BY DEF OwnsTenant
<1>2. enabled[actor] /\ member[t][actor].state = "active"
  BY <1>1, ActorAssumption DEF Actors
<1> QED
  BY <1>1, <1>2 DEF HasOwner, ActiveOwner

LEMMA ActorsAreOfATenant ==
  ASSUME NEW t \in Tenants, NEW actor \in Actors(t)
  PROVE  tenant[t] = "active"
  BY DEF Actors

LEMMA MembershipsKeep ==
  ASSUME IInv, NEW w \in Workers, Memberships(w) PROVE IInv'
<1> PICK t \in Tenants, u \in Users :
      \/ BeginCreateTenant(w, t, u)
      \/ BeginAssignTenant(w, t, u)
      \/ BeginRemoveMember(w, t, u)
      \/ \E actor \in Users \cup {Platform} :
           \/ \E roles \in RoleLists : BeginCreateMember(w, actor, t, u, roles)
           \/ BeginDisableMember(w, actor, t, u)
           \/ \E roles \in RoleLists \cup {{}}, state \in {"active", "disabled", "keep"} :
                BeginUpdateMember(w, actor, t, u, roles, state)
  BY DEF Memberships
<1> DEFINE C(kind, roles, state) ==
      [kind |-> kind, tenant |-> t, user |-> u, roles |-> roles, state |-> state]
<1>1. ASSUME NEW kind \in {"membership", "assign", "create_member", "create_tenant"},
             NEW roles \in SUBSET Roles, NEW state \in {"active", "disabled", "keep"}
      PROVE  C(kind, roles, state) \in Requests
  BY DEF Requests, Change
<1>2. CASE BeginCreateTenant(w, t, u)
  <2>1. Begin(w, C("create_tenant", {"Owner"}, "active"))
    BY <1>2 DEF BeginCreateTenant
  <2>2. {"Owner"} \in SUBSET Roles
    BY DEF Roles
  <2>3. /\ Known(C("create_tenant", {"Owner"}, "active"))
        /\ Valid(C("create_tenant", {"Owner"}, "active"))
    BY DEF Known, Valid
  <2> QED
    BY <1>1, <2>1, <2>2, <2>3, BeginKeeps
<1>3. CASE BeginAssignTenant(w, t, u)
  <2>1. Begin(w, C("assign", {"TenantAdmin"}, "active")) /\ tenant[t] = "active"
    BY <1>3 DEF BeginAssignTenant
  <2>2. {"TenantAdmin"} \in SUBSET Roles
    BY DEF Roles
  <2>3. /\ Known(C("assign", {"TenantAdmin"}, "active"))
        /\ Valid(C("assign", {"TenantAdmin"}, "active"))
    BY <2>1 DEF Known, Valid
  <2> QED
    BY <1>1, <2>1, <2>2, <2>3, BeginKeeps
<1>4. ASSUME Exists(t, u), OwnerChangeIsSafe(t, u, {}, TRUE),
             Begin(w, C("membership", {}, "disabled"))
      PROVE  IInv'
  <2>1. Known(C("membership", {}, "disabled"))
    BY <1>4 DEF IInv, Founded, Known
  <2>2. Valid(C("membership", {}, "disabled"))
    BY <1>4 DEF Valid, OwnerChangeIsSafe
  <2> QED
    BY <1>1, <1>4, <2>1, <2>2, BeginKeeps
<1>5. ASSUME NEW actor \in Users \cup {Platform}, NEW roles \in RoleLists,
             BeginCreateMember(w, actor, t, u, roles)
      PROVE  IInv'
  <2>1. /\ Begin(w, C("create_member", roles, "active")) /\ tenant[t] = "active"
        /\ "Owner" \in roles => HasOwner(t)
    BY <1>5, OwnerActs, ActorsAreOfATenant DEF BeginCreateMember
  <2>2. roles \in SUBSET Roles
    BY RoleListsAssumption DEF Roles
  <2>3. Known(C("create_member", roles, "active")) /\ Valid(C("create_member", roles, "active"))
    BY <2>1 DEF Known, Valid
  <2> QED
    BY <1>1, <2>1, <2>2, <2>3, BeginKeeps
<1>6. ASSUME NEW actor \in Users \cup {Platform}, NEW roles \in RoleLists \cup {{}},
             NEW state \in {"active", "disabled", "keep"},
             BeginUpdateMember(w, actor, t, u, roles, state)
      PROVE  IInv'
  <2>1. /\ Begin(w, C("membership", roles, state)) /\ tenant[t] = "active"
        /\ "Owner" \in roles /\ ~Holds(t, u, "Owner") => HasOwner(t)
    BY <1>6, OwnerActs, ActorsAreOfATenant DEF BeginUpdateMember, GrantAllowed
  <2>2. roles \in SUBSET Roles
    BY RoleListsAssumption DEF Roles
  <2>3. Known(C("membership", roles, state))
    BY <2>1 DEF Known
  <2>4. Valid(C("membership", roles, state))
    BY <1>6, <2>1 DEF Valid, BeginUpdateMember
  <2> QED
    BY <1>1, <2>1, <2>2, <2>3, <2>4, BeginKeeps
<1>7. BeginRemoveMember(w, t, u) => IInv'
  BY <1>4 DEF BeginRemoveMember
<1>8. ASSUME NEW actor \in Users \cup {Platform}, BeginDisableMember(w, actor, t, u) PROVE IInv'
  BY <1>4, <1>8 DEF BeginDisableMember
<1> HIDE DEF C
<1> QED
  BY <1>2, <1>3, <1>5, <1>6, <1>7, <1>8

LEMMA EditsKeep ==
  ASSUME IInv, NEW w \in Workers, RoleEdits(w) \/ TenantEdits(w) \/ Accounts(w) PROVE IInv'
<1>1. ASSUME NEW t \in Tenants, NEW c \in {"missing", "plain", "manager"},
             Begin(w, [kind |-> "role", tenant |-> t, custom |-> c]),
             c = "missing" => \A u \in Users : ~Holds(t, u, "Custom")
      PROVE  IInv'
  <2> DEFINE change == [kind |-> "role", tenant |-> t, custom |-> c]
  <2>1. change \in Requests
    BY DEF Requests, RoleChange
  <2>2. Known(change) /\ Valid(change)
    BY <1>1 DEF Known, Valid
  <2> QED
    BY <1>1, <2>1, <2>2, BeginKeeps
<1>2. ASSUME NEW t \in Tenants, NEW kind \in {"tenant_status", "tenant_edit"}, NEW s \in Statuses,
             Begin(w, [kind |-> kind, tenant |-> t, status |-> s]),
             kind = "tenant_edit" => s = tenant[t]
      PROVE  IInv'
  <2> DEFINE change == [kind |-> kind, tenant |-> t, status |-> s]
  <2>1. change \in Requests
    BY DEF Requests, TenantChange
  <2>2. Known(change) /\ Valid(change)
    BY <1>2 DEF Known, Valid
  <2> QED
    BY <1>2, <2>1, <2>2, BeginKeeps
<1>3. ASSUME NEW u \in Users, NEW active \in BOOLEAN, BeginUpdateUser(w, u, active) PROVE IInv'
  <2> DEFINE change == [kind |-> "user", user |-> u, active |-> active]
  <2>1. change \in Requests
    BY DEF Requests, UserChange
  <2>2. Known(change) /\ Valid(change)
    BY <1>3 DEF Known, Valid, BeginUpdateUser
  <2> QED
    BY <1>3, <2>1, <2>2, BeginKeeps DEF BeginUpdateUser
<1>4. CASE RoleEdits(w)
  <2>1. ASSUME NEW t \in Tenants, NEW actor \in Users \cup {Platform}, BeginDeleteRole(w, actor, t)
        PROVE  IInv'
    BY <1>1, <2>1 DEF BeginDeleteRole
  <2>2. ASSUME NEW t \in Tenants, NEW actor \in Users \cup {Platform}, NEW c \in Permissions,
               BeginSaveRole(w, actor, t, c)
        PROVE  IInv'
    BY <1>1, <2>2, PermissionsAssumption DEF BeginSaveRole
  <2> QED
    BY <1>4, <2>1, <2>2 DEF RoleEdits
<1>5. CASE TenantEdits(w)
  <2>1. ASSUME NEW t \in Tenants, NEW s \in Statuses, BeginSetStatus(w, t, s) PROVE IInv'
    BY <1>2, <2>1 DEF BeginSetStatus
  <2>2. ASSUME NEW t \in Tenants, NEW actor \in Users \cup {Platform}, BeginEditTenant(w, actor, t)
        PROVE  IInv'
    <3>1. tenant[t] \in Statuses
      BY <2>2 DEF IInv, TypeOK, BeginEditTenant, Statuses
    <3> QED
      BY <1>2, <2>2, <3>1 DEF BeginEditTenant
  <2> QED
    BY <1>5, <2>1, <2>2 DEF TenantEdits
<1> QED
  BY <1>3, <1>4, <1>5 DEF Accounts

-----------------------------------------------------------------------------
(* A commit makes the checks of all others stale.                          *)

LEMMA FinishKeeps ==
  ASSUME IInv, NEW w \in Workers, Finish(w),
         tenant' \in [Tenants -> {"none", "active", "suspended"}],
         enabled' \in [Users -> BOOLEAN],
         member' \in [Tenants -> [Users -> [state : {"none", "active", "disabled"},
                                            roles : SUBSET Roles]]],
         custom' \in [Tenants -> {"missing", "plain", "manager"}],
         \A t \in Tenants : tenant[t] # "none" => tenant'[t] # "none",
         Founded'
  PROVE  IInv'
<1>1. TypeOK'
  BY DEF IInv, TypeOK, Finish
<1>2. ASSUME NEW v \in Workers PROVE Pending(v)'
  <2>1. CASE request'[v] = Idle
    BY <2>1 DEF Pending, Known, Valid, Idle
  <2>2. CASE request'[v] # Idle
    <3>1. request'[v] = request[v] /\ stale'[v] = TRUE
      BY <2>2 DEF IInv, TypeOK, Finish
    <3>2. Known(request[v])
      BY DEF IInv, Pending
    <3>3. request[v].kind \in {"membership", "assign", "create_member"} =>
            request[v].tenant \in Tenants
      BY Kinds DEF IInv
    <3>4. Known(request[v])'
      BY <3>1, <3>2, <3>3 DEF Known
    <3> QED
      BY <3>1, <3>4 DEF Pending
  <2> QED
    BY <2>1, <2>2
<1> QED
  BY <1>1, <1>2 DEF IInv

\* What the writes of a membership are.
LEMMA AppliedTo ==
  ASSUME IInv, NEW c, NEW t \in Tenants, NEW u \in Users,
         c.roles \subseteq Roles, c.state \in {"active", "disabled", "keep"},
         member' = [member EXCEPT ![t][u] = Applied(@, c)]
  PROVE  /\ member' \in [Tenants -> [Users -> [state : {"none", "active", "disabled"},
                                              roles : SUBSET Roles]]]
         /\ member'[t][u] = Applied(member[t][u], c)
         /\ \A q \in Tenants, v \in Users : q # t \/ v # u => member'[q][v] = member[q][v]
<1> DEFINE M == [state : {"none", "active", "disabled"}, roles : SUBSET Roles]
           new == Applied(member[t][u], c)
<1>1. member \in [Tenants -> [Users -> M]]
  BY DEF IInv, TypeOK
<1>2. new \in M
  BY <1>1 DEF Applied
<1>3. member' = [member EXCEPT ![t] = [member[t] EXCEPT ![u] = new]]
  BY <1>1
<1> HIDE DEF M, new
<1>4. member' \in [Tenants -> [Users -> M]]
  BY <1>1, <1>2, <1>3
<1>5. /\ member'[t][u] = new
      /\ \A q \in Tenants, v \in Users : q # t \/ v # u => member'[q][v] = member[q][v]
  BY <1>1, <1>3
<1> QED
  BY <1>4, <1>5 DEF M, new

LEMMA WriteMemberKeeps ==
  ASSUME IInv, NEW w \in Workers, WriteMember(w) PROVE IInv'
<1> DEFINE c == request[w]
<1>1. /\ c.tenant \in Tenants /\ c.user \in Users /\ c.roles \subseteq Roles
      /\ c.state \in {"active", "disabled", "keep"} /\ tenant[c.tenant] # "none"
  BY Kinds DEF IInv, Pending, Known, WriteMember
<1>2. /\ Finish(w) /\ UNCHANGED <<tenant, enabled, custom>>
      /\ \/ member' = [member EXCEPT ![c.tenant][c.user] = Applied(@, c)]
         \/ member' = member
  BY DEF WriteMember
<1> HIDE DEF c
<1>3. member' \in [Tenants -> [Users -> [state : {"none", "active", "disabled"},
                                        roles : SUBSET Roles]]]
  BY <1>1, <1>2, AppliedTo DEF IInv, TypeOK
<1>4. Founded'
  <2>1. \A t \in Tenants, u \in Users : tenant[t] = "none" => member'[t][u] = member[t][u]
    BY <1>1, <1>2, AppliedTo
  <2> QED
    BY <1>2, <2>1 DEF IInv, Founded, Exists
<1> QED
  BY <1>2, <1>3, <1>4, FinishKeeps DEF IInv, TypeOK

LEMMA WriteNewMemberKeeps ==
  ASSUME IInv, NEW w \in Workers, WriteNewMember(w) PROVE IInv'
<1> DEFINE c == request[w]
<1>1. /\ c.tenant \in Tenants /\ c.user \in Users /\ c.roles \subseteq Roles
      /\ c.state \in {"active", "disabled", "keep"} /\ tenant[c.tenant] # "none"
  BY Kinds DEF IInv, Pending, Known, WriteNewMember
<1>2. /\ Finish(w) /\ UNCHANGED <<tenant, enabled, custom>>
      /\ \/ member' = [member EXCEPT ![c.tenant][c.user] = Applied(@, c)]
         \/ member' = member
  BY DEF WriteNewMember
<1> HIDE DEF c
<1>3. member' \in [Tenants -> [Users -> [state : {"none", "active", "disabled"},
                                        roles : SUBSET Roles]]]
  BY <1>1, <1>2, AppliedTo DEF IInv, TypeOK
<1>4. Founded'
  <2>1. \A t \in Tenants, u \in Users : tenant[t] = "none" => member'[t][u] = member[t][u]
    BY <1>1, <1>2, AppliedTo
  <2> QED
    BY <1>2, <2>1 DEF IInv, Founded, Exists
<1> QED
  BY <1>2, <1>3, <1>4, FinishKeeps DEF IInv, TypeOK

LEMMA WriteTenantKeeps ==
  ASSUME IInv, NEW w \in Workers, WriteTenant(w) PROVE IInv'
<1> DEFINE c == request[w]
<1>1. /\ c.tenant \in Tenants /\ c.user \in Users /\ c.roles \subseteq Roles
      /\ c.state \in {"active", "disabled", "keep"}
  BY Kinds DEF IInv, WriteTenant
<1>2. /\ Finish(w) /\ UNCHANGED <<enabled, custom>>
      /\ \/ /\ tenant' = [tenant EXCEPT ![c.tenant] = "active"]
            /\ member' = [member EXCEPT ![c.tenant][c.user] = Applied(@, c)]
         \/ UNCHANGED <<tenant, member>>
  BY DEF WriteTenant
<1> HIDE DEF c
<1>3. /\ tenant' \in [Tenants -> {"none", "active", "suspended"}]
      /\ \A t \in Tenants : tenant[t] # "none" => tenant'[t] # "none"
  BY <1>1, <1>2 DEF IInv, TypeOK
<1>4. member' \in [Tenants -> [Users -> [state : {"none", "active", "disabled"},
                                        roles : SUBSET Roles]]]
  BY <1>1, <1>2, AppliedTo DEF IInv, TypeOK
<1>5. Founded'
  <2>1. \A t \in Tenants, u \in Users : tenant'[t] = "none" => member'[t][u] = member[t][u]
    BY <1>1, <1>2, AppliedTo DEF IInv, TypeOK
  <2> QED
    BY <1>3, <2>1 DEF IInv, Founded, Exists
<1> QED
  BY <1>2, <1>3, <1>4, <1>5, FinishKeeps DEF IInv, TypeOK

LEMMA SaveTenantKeeps ==
  ASSUME IInv, NEW w \in Workers, SaveTenant(w) PROVE IInv'
<1> DEFINE c == request[w]
<1>1. c.tenant \in Tenants /\ c.status \in Statuses
  BY Kinds DEF IInv, SaveTenant
<1>2. /\ Finish(w) /\ UNCHANGED <<enabled, member, custom>>
      /\ tenant' = [tenant EXCEPT ![c.tenant] = c.status]
  BY DEF SaveTenant
<1> HIDE DEF c
<1>3. /\ tenant' \in [Tenants -> {"none", "active", "suspended"}]
      /\ \A t \in Tenants : tenant'[t] = "none" => tenant[t] = "none"
  BY <1>1, <1>2 DEF IInv, TypeOK, Statuses
<1>4. Founded'
  BY <1>2, <1>3 DEF IInv, Founded, Exists
<1> QED
  BY <1>2, <1>3, <1>4, FinishKeeps DEF IInv, TypeOK

LEMMA SaveRoleKeeps ==
  ASSUME IInv, NEW w \in Workers, SaveRole(w) PROVE IInv'
<1>1. request[w].tenant \in Tenants /\ request[w].custom \in {"missing", "plain", "manager"}
  BY Kinds DEF IInv, SaveRole
<1>2. Founded'
  BY DEF IInv, SaveRole, Founded, Exists
<1>3. custom' \in [Tenants -> {"missing", "plain", "manager"}]
  BY <1>1 DEF IInv, TypeOK, SaveRole
<1> QED
  BY <1>2, <1>3, FinishKeeps DEF IInv, TypeOK, SaveRole

\* What a deleted role takes from the members.
LEMMA DeleteRoleTakes ==
  ASSUME IInv, NEW w \in Workers, DeleteRole(w), NEW t \in Tenants, NEW u \in Users
  PROVE  /\ member'[t][u].state = member[t][u].state
         /\ \A r : r \in member'[t][u].roles <=>
                    r \in member[t][u].roles /\ (t = request[w].tenant => r # "Custom")
         /\ member'[t][u] \in [state : {"none", "active", "disabled"}, roles : SUBSET Roles]
<1> DEFINE m == member[t][u]
<1>1. m \in [state : {"none", "active", "disabled"}, roles : SUBSET Roles]
  BY DEF IInv, TypeOK
<1>2. member'[t][u] = IF t = request[w].tenant THEN WithoutRole(m) ELSE m
  BY DEF IInv, TypeOK, DeleteRole
<1> QED
  BY <1>1, <1>2 DEF WithoutRole

LEMMA DeleteRoleKeeps ==
  ASSUME IInv, NEW w \in Workers, DeleteRole(w) PROVE IInv'
<1>1. Founded'
  BY DeleteRoleTakes DEF IInv, DeleteRole, Founded, Exists
<1>2. custom' \in [Tenants -> {"missing", "plain", "manager"}]
  BY DEF IInv, TypeOK, DeleteRole
<1>3. member' \in [Tenants -> [Users -> [state : {"none", "active", "disabled"},
                                        roles : SUBSET Roles]]]
  <2> DEFINE t == request[w].tenant
             taken == [u \in Users |-> WithoutRole(member[t][u])]
  <2>1. t \in Tenants
    BY Kinds DEF IInv, DeleteRole
  <2>2. member' = [member EXCEPT ![t] = taken]
    BY <2>1 DEF IInv, TypeOK, DeleteRole
  <2>3. \A u \in Users : taken[u] = member'[t][u]
    BY <2>1, <2>2 DEF IInv, TypeOK
  <2>4. taken \in [Users -> [state : {"none", "active", "disabled"}, roles : SUBSET Roles]]
    BY <2>1, <2>3, DeleteRoleTakes
  <2> HIDE DEF t, taken
  <2> QED
    BY <2>1, <2>2, <2>4 DEF IInv, TypeOK
<1> QED
  BY <1>1, <1>2, <1>3, FinishKeeps DEF IInv, TypeOK, DeleteRole

LEMMA WriteUserKeeps ==
  ASSUME IInv, NEW w \in Workers, WriteUser(w) PROVE IInv'
<1>1. request[w].user \in Users /\ request[w].active \in BOOLEAN
  BY Kinds DEF IInv, WriteUser
<1>2. Founded'
  BY DEF IInv, WriteUser, Founded, Exists
<1>3. enabled' \in [Users -> BOOLEAN]
  BY <1>1 DEF IInv, TypeOK, WriteUser
<1> QED
  BY <1>2, <1>3, FinishKeeps DEF IInv, TypeOK, WriteUser

LEMMA NextIInv == IInv /\ [Next]_vars => IInv'
<1> SUFFICES ASSUME IInv, [Next]_vars PROVE IInv'
  OBVIOUS
<1>1. CASE UNCHANGED vars
  <2>1. TypeOK' /\ Founded'
    BY <1>1 DEF IInv, TypeOK, Founded, Exists, vars
  <2>2. ASSUME NEW w \in Workers PROVE Pending(w)'
    <3>1. Known(request[w])' <=> Known(request[w])
      BY <1>1 DEF Known, vars
    <3>2. Valid(request[w])' <=> Valid(request[w])
      BY <1>1 DEF Valid, OwnerChangeIsSafe, DeactivationIsSafe, OtherOwner, HasOwner,
         ActiveOwner, Holds, vars
    <3> QED
      BY <1>1, <3>1, <3>2 DEF IInv, Pending, vars
  <2> QED
    BY <2>1, <2>2 DEF IInv
<1>2. ASSUME NEW w \in Workers, Memberships(w) PROVE IInv'
  BY <1>2, MembershipsKeep
<1>3. ASSUME NEW w \in Workers, RoleEdits(w) \/ TenantEdits(w) \/ Accounts(w) PROVE IInv'
  BY <1>3, EditsKeep
<1>4. ASSUME NEW w \in Workers, Write(w) PROVE IInv'
  BY <1>4, WriteMemberKeeps, WriteNewMemberKeeps, WriteTenantKeeps, SaveTenantKeeps,
     SaveRoleKeeps, DeleteRoleKeeps, WriteUserKeeps DEF Write
<1> QED
  BY <1>1, <1>2, <1>3, <1>4 DEF Next

\* Every variable keeps its type: no request names a role that does not exist or
\* leaves a field of a membership undefined.
THEOREM TypeCorrect == Spec => []TypeOK
<1> QED
  BY InitIInv, NextIInv, PTL DEF Spec, IInv

-----------------------------------------------------------------------------
(* Who commits, and what only its commit can do.                           *)

\* Nothing but a commit touches tenants, accounts, memberships and roles.
LEMMA OnlyCommits ==
  ASSUME IInv, [Next]_vars
  PROVE  \/ UNCHANGED <<tenant, enabled, member>>
         \/ \E w \in Workers : Write(w) /\ Commits(w)
<1>1. ASSUME NEW w \in Workers, NEW c, Begin(w, c) PROVE UNCHANGED <<tenant, enabled, member>>
  BY <1>1 DEF Begin
<1>2. ASSUME NEW w \in Workers, Memberships(w) PROVE UNCHANGED <<tenant, enabled, member>>
  <2>1. ASSUME NEW t \in Tenants, NEW u \in Users,
               \/ BeginCreateTenant(w, t, u) \/ BeginAssignTenant(w, t, u)
               \/ BeginRemoveMember(w, t, u)
        PROVE  UNCHANGED <<tenant, enabled, member>>
    BY <1>1, <2>1 DEF BeginCreateTenant, BeginAssignTenant, BeginRemoveMember
  <2>2. ASSUME NEW t \in Tenants, NEW u \in Users, NEW actor, NEW roles, NEW state,
               \/ BeginCreateMember(w, actor, t, u, roles)
               \/ BeginDisableMember(w, actor, t, u)
               \/ BeginUpdateMember(w, actor, t, u, roles, state)
        PROVE  UNCHANGED <<tenant, enabled, member>>
    BY <1>1, <2>2 DEF BeginCreateMember, BeginDisableMember, BeginUpdateMember
  <2> QED
    BY <1>2, <2>1, <2>2 DEF Memberships
<1>3. ASSUME NEW w \in Workers, RoleEdits(w) \/ TenantEdits(w) \/ Accounts(w)
      PROVE  UNCHANGED <<tenant, enabled, member>>
  BY <1>1, <1>3 DEF RoleEdits, BeginSaveRole, BeginDeleteRole, TenantEdits, BeginSetStatus,
     BeginEditTenant, Accounts, BeginUpdateUser
<1>4. ASSUME NEW w \in Workers, Write(w) PROVE Commits(w)
  <2>1. Finish(w) /\ request[w].kind # "idle"
    BY <1>4 DEF Write, WriteMember, WriteNewMember, WriteTenant, SaveTenant, SaveRole, DeleteRole,
       WriteUser
  <2> QED
    BY <2>1 DEF IInv, TypeOK, Finish, Commits, Idle
<1> QED
  BY <1>2, <1>3, <1>4 DEF Next, vars

\* A tenant loses its last owner only by assign_tenant, by overlapping requests, or
\* by disabling an account while it is suspended.
THEOREM OwnerLossExplainedHolds == Spec => OwnerLossExplained
<1> DEFINE Explained ==
      \A t \in Tenants : HasOwner(t) /\ ~HasOwner(t)' =>
        \E w \in Workers : /\ Commits(w)
                           /\ \/ stale[w]
                              \/ request[w].kind = "assign"
                              \/ request[w].kind = "user" /\ tenant[t] = "suspended"
<1>1. IInv /\ [Next]_vars => Explained
  <2> SUFFICES ASSUME IInv, [Next]_vars, NEW t \in Tenants, HasOwner(t), ~HasOwner(t)'
               PROVE  \E w \in Workers : /\ Commits(w)
                                         /\ \/ stale[w]
                                            \/ request[w].kind = "assign"
                                            \/ request[w].kind = "user" /\ tenant[t] = "suspended"
    OBVIOUS
  <2>1. PICK w \in Workers : Write(w) /\ Commits(w)
    BY OnlyCommits DEF HasOwner, ActiveOwner, Holds
  <2>2. SUFFICES ASSUME ~stale[w], request[w].kind # "assign"
                 PROVE  request[w].kind = "user" /\ tenant[t] = "suspended"
    BY <2>1
  <2> DEFINE c == request[w]
  <2>3. Valid(c) /\ Known(c)
    BY <2>2 DEF IInv, Pending
  <2>4. PICK o \in Users : ActiveOwner(t, o)
    BY DEF HasOwner
  <2>5. \A u \in Users : ~ActiveOwner(t, u)'
    BY DEF HasOwner
  <2>6. ~WriteMember(w)
    <3> SUFFICES ASSUME WriteMember(w) PROVE FALSE
      OBVIOUS
    <3>1. /\ c.kind = "membership" /\ enabled' = enabled
          /\ c.tenant \in Tenants /\ c.user \in Users /\ c.roles \subseteq Roles
          /\ c.state \in {"active", "disabled", "keep"}
      BY <2>2, Kinds DEF IInv, WriteMember
    <3>2. \/ member' = member
          \/ member' = [member EXCEPT ![c.tenant][c.user] = Applied(@, c)]
      BY DEF WriteMember
    <3>3. member' # member
      BY <2>4, <2>5, <3>1 DEF ActiveOwner, Holds
    <3> HIDE DEF c
    <3>4. /\ member'[c.tenant][c.user] = Applied(member[c.tenant][c.user], c)
          /\ \A q \in Tenants, v \in Users :
               q # c.tenant \/ v # c.user => member'[q][v] = member[q][v]
      BY <3>1, <3>2, <3>3, AppliedTo
    <3>5. t = c.tenant /\ \A v \in Users : ActiveOwner(t, v) => v = c.user
      BY <2>4, <2>5, <3>1, <3>4 DEF ActiveOwner, Holds
    <3>6. ~OtherOwner(t, c.user) /\ Holds(t, c.user, "Owner") /\ member[t][c.user].state = "active"
      BY <2>4, <3>5 DEF OtherOwner, ActiveOwner
    <3>7. c.state # "disabled" /\ (c.roles = {} \/ "Owner" \in c.roles)
      BY <2>3, <3>1, <3>5, <3>6 DEF Valid, OwnerChangeIsSafe
    <3>8. member'[t][o] = Applied(member[t][o], c) /\ enabled'[o]
      BY <2>4, <3>1, <3>4, <3>5 DEF ActiveOwner
    <3>9. member'[t][o].state = "active" /\ "Owner" \in member'[t][o].roles
      BY <2>4, <3>1, <3>7, <3>8 DEF ActiveOwner, Holds, Applied
    <3>10. ActiveOwner(t, o)'
      BY <3>8, <3>9 DEF ActiveOwner, Holds
    <3> QED
      BY <2>5, <3>10
  <2>7. ~WriteNewMember(w)
    <3> SUFFICES ASSUME WriteNewMember(w) PROVE FALSE
      OBVIOUS
    <3>1. /\ enabled' = enabled
          /\ c.tenant \in Tenants /\ c.user \in Users /\ c.roles \subseteq Roles
          /\ c.state \in {"active", "disabled", "keep"}
      BY Kinds DEF IInv, WriteNewMember
    <3>2. \/ member' = member
          \/ /\ member' = [member EXCEPT ![c.tenant][c.user] = Applied(@, c)]
             /\ ~Exists(c.tenant, c.user)
      BY DEF WriteNewMember
    <3> HIDE DEF c
    <3>3. \A v \in Users : ActiveOwner(t, v) => member'[t][v] = member[t][v]
      BY <3>1, <3>2, AppliedTo DEF ActiveOwner, Exists
    <3> QED
      BY <2>4, <2>5, <3>1, <3>3 DEF ActiveOwner, Holds
  <2>8. ~WriteTenant(w)
    <3> SUFFICES ASSUME WriteTenant(w) PROVE FALSE
      OBVIOUS
    <3>1. /\ enabled' = enabled
          /\ c.tenant \in Tenants /\ c.user \in Users /\ c.roles \subseteq Roles
          /\ c.state = "active"
      BY <2>3, Kinds DEF IInv, WriteTenant, Known
    <3>2. \/ member' = member
          \/ /\ member' = [member EXCEPT ![c.tenant][c.user] = Applied(@, c)]
             /\ tenant[c.tenant] = "none"
      BY DEF WriteTenant
    <3> HIDE DEF c
    <3>3. \A v \in Users : ActiveOwner(t, v) => member'[t][v] = member[t][v]
      BY <3>1, <3>2, AppliedTo DEF IInv, Founded, ActiveOwner, Exists
    <3> QED
      BY <2>4, <2>5, <3>1, <3>3 DEF ActiveOwner, Holds
  <2>9. ~SaveTenant(w) /\ ~SaveRole(w)
    BY <2>4, <2>5 DEF SaveTenant, SaveRole, ActiveOwner, Holds
  <2>10. ~DeleteRole(w)
    <3> SUFFICES ASSUME DeleteRole(w) PROVE FALSE
      OBVIOUS
    <3>1. enabled' = enabled
      BY DEF DeleteRole
    <3>2. /\ member'[t][o].state = member[t][o].state
          /\ "Owner" \in member'[t][o].roles <=> "Owner" \in member[t][o].roles
      BY DeleteRoleTakes
    <3> QED
      BY <2>4, <2>5, <3>1, <3>2 DEF ActiveOwner, Holds
  <2>11. CASE WriteUser(w)
    <3>1. /\ c.kind = "user" /\ c.user \in Users /\ member' = member
          /\ enabled' = [enabled EXCEPT ![c.user] = c.active] /\ c.active \in BOOLEAN
      BY <2>11, Kinds DEF IInv, WriteUser
    <3> HIDE DEF c
    <3>2. \A v \in Users : ActiveOwner(t, v) => v = c.user /\ ~c.active
      BY <2>5, <3>1 DEF IInv, TypeOK, ActiveOwner, Holds
    <3>3. ~OtherOwner(t, c.user) /\ ActiveOwner(t, c.user) /\ ~c.active
      BY <2>4, <3>2 DEF OtherOwner
    <3>4. tenant[t] # "active"
      BY <2>3, <3>1, <3>3 DEF Valid, DeactivationIsSafe, ActiveOwner
    <3>5. tenant[t] # "none"
      BY <2>4 DEF IInv, Founded, ActiveOwner, Exists
    <3> QED
      BY <3>1, <3>4, <3>5 DEF IInv, TypeOK, c
  <2> QED
    BY <2>1, <2>6, <2>7, <2>8, <2>9, <2>10, <2>11 DEF Write
<1> QED
  BY <1>1, InitIInv, NextIInv, PTL DEF Spec, OwnerLossExplained, Explained

\* A suspended tenant works again only when the platform asks for it, or by an edit
\* checked before the suspension.
THEOREM SuspensionHoldsHolds == Spec => SuspensionHolds
<1> DEFINE Explained ==
      \A t \in Tenants : tenant[t] = "suspended" /\ tenant'[t] = "active" =>
        \E w \in Workers : /\ Commits(w)
                           /\ \/ request[w].kind = "tenant_status"
                              \/ request[w].kind = "tenant_edit" /\ stale[w]
<1>1. IInv /\ [Next]_vars => Explained
  <2> SUFFICES ASSUME IInv, [Next]_vars, NEW t \in Tenants,
                      tenant[t] = "suspended", tenant'[t] = "active"
               PROVE  \E w \in Workers :
                        /\ Commits(w)
                        /\ \/ request[w].kind = "tenant_status"
                           \/ request[w].kind = "tenant_edit" /\ stale[w]
    OBVIOUS
  <2>1. PICK w \in Workers : Write(w) /\ Commits(w)
    BY OnlyCommits
  <2>2. ~WriteTenant(w)
    BY Kinds DEF IInv, TypeOK, WriteTenant
  <2>3. SaveTenant(w)
    BY <2>1, <2>2 DEF Write, WriteMember, WriteNewMember, SaveRole, DeleteRole, WriteUser
  <2>4. /\ request[w].kind \in {"tenant_status", "tenant_edit"}
        /\ request[w].tenant = t /\ request[w].status = "active"
    BY <2>3, Kinds DEF IInv, TypeOK, SaveTenant
  <2>5. request[w].kind = "tenant_edit" => stale[w]
    BY <2>4 DEF IInv, Pending, Valid
  <2> QED
    BY <2>1, <2>4, <2>5
<1> QED
  BY <1>1, InitIInv, NextIInv, PTL DEF Spec, SuspensionHolds, Explained

\* No request takes a member's last role, unless a role is deleted while another
\* request gives it.
THEOREM LastRoleKeptHolds == Spec => LastRoleKept
<1> DEFINE Explained ==
      \A t \in Tenants, u \in Users :
        member[t][u].roles # {} /\ member'[t][u].roles = {}
        => \E w \in Workers : Commits(w) /\ stale[w]
<1>1. IInv /\ [Next]_vars => Explained
  <2> SUFFICES ASSUME IInv, [Next]_vars, NEW t \in Tenants, NEW u \in Users,
                      member[t][u].roles # {}, member'[t][u].roles = {}
               PROVE  \E w \in Workers : Commits(w) /\ stale[w]
    OBVIOUS
  <2>1. PICK w \in Workers : Write(w) /\ Commits(w)
    BY OnlyCommits
  <2> DEFINE c == request[w]
  <2>2. ~(member' = [member EXCEPT ![c.tenant][c.user] = Applied(@, c)]
          /\ c.kind \in {"membership", "assign", "create_member", "create_tenant"})
    <3> SUFFICES ASSUME member' = [member EXCEPT ![c.tenant][c.user] = Applied(@, c)],
                        c.kind \in {"membership", "assign", "create_member", "create_tenant"}
                 PROVE  FALSE
      OBVIOUS
    <3>1. /\ c.tenant \in Tenants /\ c.user \in Users /\ c.roles \subseteq Roles
          /\ c.state \in {"active", "disabled", "keep"}
      BY Kinds DEF IInv
    <3> HIDE DEF c
    <3>2. member'[t][u] = member[t][u] \/ member'[t][u] = Applied(member[t][u], c)
      BY <3>1, AppliedTo
    <3> QED
      BY <3>2 DEF Applied
  <2>3. DeleteRole(w)
    BY <2>1, <2>2 DEF Write, WriteMember, WriteNewMember, WriteTenant, SaveTenant, SaveRole,
                     WriteUser
  <2>4. c.tenant = t /\ Holds(t, u, "Custom")
    <3>1. PICK r \in member[t][u].roles : TRUE
      OBVIOUS
    <3>2. c.tenant = t /\ r = "Custom"
      BY <2>3, <3>1, DeleteRoleTakes
    <3> QED
      BY <3>1, <3>2 DEF Holds
  <2>5. ~Valid(c)
    BY <2>3, <2>4 DEF Valid, DeleteRole
  <2> QED
    BY <2>1, <2>5 DEF IInv, Pending
<1> QED
  BY <1>1, InitIInv, NextIInv, PTL DEF Spec, LastRoleKept, Explained

\* A tenant without an owner gets none, except by a request checked before the loss.
THEOREM OwnerIsNotRegainedHolds == Spec => OwnerIsNotRegained
<1> DEFINE Explained ==
      \A t \in Tenants, u \in Users :
        /\ tenant[t] # "none" /\ ~HasOwner(t)
        /\ ~Holds(t, u, "Owner") /\ Holds(t, u, "Owner")'
        => \E w \in Workers : Commits(w) /\ stale[w]
<1>1. IInv /\ [Next]_vars => Explained
  <2> SUFFICES ASSUME IInv, [Next]_vars, NEW t \in Tenants, NEW u \in Users,
                      tenant[t] # "none", ~HasOwner(t),
                      ~Holds(t, u, "Owner"), Holds(t, u, "Owner")'
               PROVE  \E w \in Workers : Commits(w) /\ stale[w]
    OBVIOUS
  <2>1. PICK w \in Workers : Write(w) /\ Commits(w)
    BY OnlyCommits DEF Holds
  <2> DEFINE c == request[w]
  <2>2. Known(c)
    BY DEF IInv, Pending
  <2>3. ~DeleteRole(w)
    BY DeleteRoleTakes DEF Holds
  <2>4. /\ member' = [member EXCEPT ![c.tenant][c.user] = Applied(@, c)]
        /\ \/ c.kind \in {"membership", "assign", "create_member"}
           \/ c.kind = "create_tenant" /\ tenant[c.tenant] = "none"
    BY <2>1, <2>3 DEF Write, WriteMember, WriteNewMember, WriteTenant, SaveTenant, SaveRole,
                     WriteUser,
       Holds
  <2>5. /\ c.tenant \in Tenants /\ c.user \in Users /\ c.roles \subseteq Roles
        /\ c.state \in {"active", "disabled", "keep"}
    BY <2>4, Kinds DEF IInv
  <2>6. c.tenant = t /\ c.user = u /\ "Owner" \in c.roles
    <3> HIDE DEF c
    <3>1. \/ c.tenant = t /\ c.user = u /\ member'[t][u] = Applied(member[t][u], c)
          \/ member'[t][u] = member[t][u]
      BY <2>4, <2>5, AppliedTo
    <3> QED
      BY <3>1 DEF Holds, Applied
  <2>7. c.kind \in {"membership", "create_member"}
    BY <2>2, <2>4, <2>6 DEF Known
  <2>8. ~Valid(c)
    BY <2>6, <2>7 DEF Valid
  <2> QED
    BY <2>1, <2>8 DEF IInv, Pending
<1> QED
  BY <1>1, InitIInv, NextIInv, PTL DEF Spec, OwnerIsNotRegained, Explained
=============================================================================
