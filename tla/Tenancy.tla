------------------------------- MODULE Tenancy -------------------------------
(***************************************************************************)
(* ONE organization, its workspace, and the people in them: the routes of  *)
(* organizations.ts and workspaces.ts, the user administration of          *)
(* admin.ts, what authenticate (middleware.ts) does on the way to each of  *)
(* them, and the tables behind.                                            *)
(*                                                                         *)
(* A user can be in the organization three times over: a membership of the *)
(* organization, a membership of the workspace, and the tenant of the      *)
(* account.  Each is kept in memory and in a table.  The workspaces routes *)
(* change memory only; authenticate makes anybody of the tenant a member   *)
(* of the workspace; the boot links every account of the tenant to the     *)
(* organization.  A function that persists reports an error to the log and *)
(* returns: the handler goes on.                                           *)
(*                                                                         *)
(* Left out: domains, channels, settings, invitations, audit, the creation *)
(* of accounts.  is_active of organizations is a column no script creates: *)
(* the second UPDATE of the deactivation fails and is not modelled.        *)
(***************************************************************************)
EXTENDS Naturals, Sequences, FiniteSets, Functions

CONSTANTS
    Users,
    Founder,     \* who creates the organization
    Slots,       \* handlers that may be in flight
    MaxArrivals, \* bound: requests that do something
    MaxFaults,   \* bound: statements that fail
    MaxBoots     \* bound: restarts

ASSUME FounderAssumption == IsFiniteSet(Users) /\ Founder \in Users
ASSUME TenancyBoundAssumption == MaxArrivals \in Nat /\ MaxFaults \in Nat /\ MaxBoots \in Nat

VARIABLES
    mem,        \* db.organizations, organizationMembers, workspaces, workspaceMembers, users
    row,        \* the tables
    h,          \* the handlers
    landing,    \* members authenticate has made whose INSERT is under way
    unsaved,    \* history: users whose role or membership only memory knows
    overlapped, \* history: handlers overlapped since the start of the process
    missed,     \* history: a statement has failed since then
    unsure,     \* history: any of the three has ever been so
    stripped,   \* history: something that may cost the workspace its owner
    barred,     \* history: members the administration has suspended or deleted
    faults, boots, arrivals

history == <<unsaved, overlapped, missed, unsure, barred>>
tenancyVars == <<mem, row, h, landing, history, stripped, faults, boots, arrivals>>

Roles == {"Owner", "Admin", "Member"}
OrgStatuses == {"none", "Active", "INACTIVE"}
Ids == {"granted", "linked"}   \* the id a route gives to a membership, or the boot
Record == [role : Roles, status : {"Active", "Suspended", "Removed"}]
Store == [org : OrgStatuses, tenant : BOOLEAN, workspace : BOOLEAN,
          joined : [Users -> [Ids -> OrgStatuses]], members : [Users -> Seq(Record)],
          home : [Users -> BOOLEAN], role : [Users -> Roles], active : [Users -> BOOLEAN]]
Handler == [pc : {"idle", "organization", "tenant", "membership", "workspace", "owner", "read",
                  "switch", "remove", "member", "user", "close", "purge"},
            kind : {"create", "update", "add", "switch", "status", "role", "edit", "delete"},
            user : Users, id : Ids, value : OrgStatuses \cup Roles \cup {"Suspended", "keep"},
            rest : {"keep", "open", "shut"}]
NoRequest == [pc |-> "idle", kind |-> "create", user |-> Founder, id |-> "granted",
              value |-> "keep", rest |-> "keep"]

TenancyTypeOK ==
    /\ mem \in Store /\ row \in Store
    /\ h \in [Slots -> Handler] /\ landing \in [Users -> SUBSET Record]
    /\ unsaved \subseteq Users /\ barred \subseteq Users
    /\ {overlapped, missed, unsure, stripped} \subseteq BOOLEAN
    /\ faults \in 0..MaxFaults /\ boots \in 0..MaxBoots /\ arrivals \in 0..MaxArrivals

Nowhere == [i \in Ids |-> "none"]
Empty ==
    [org |-> "none", tenant |-> FALSE, workspace |-> FALSE,
     joined |-> [u \in Users |-> Nowhere], members |-> [u \in Users |-> <<>>],
     home |-> [u \in Users |-> FALSE], role |-> [u \in Users |-> "Member"],
     active |-> [u \in Users |-> TRUE]]
\* The organization a while later: the founder was granted a membership, the
\* others have come since and were linked by a boot.
Settled ==
    [Empty EXCEPT !.org = "Active", !.tenant = TRUE, !.workspace = TRUE,
        !.joined = [u \in Users |-> IF u = Founder THEN [Nowhere EXCEPT !["granted"] = "Active"]
                                    ELSE [Nowhere EXCEPT !["linked"] = "Active"]],
        !.members = [u \in Users |-> <<[role |-> IF u = Founder THEN "Owner" ELSE "Member",
                                        status |-> "Active"]>>],
        !.home = [u \in Users |-> TRUE]]

TenancyInit ==
    /\ mem \in {Empty, Settled} /\ row = mem
    /\ h = [s \in Slots |-> NoRequest] /\ landing = [u \in Users |-> {}]
    /\ unsaved = {} /\ barred = {}
    /\ overlapped = FALSE /\ missed = FALSE /\ unsure = FALSE /\ stripped = FALSE
    /\ faults = 0 /\ boots = 0 /\ arrivals = 0

-----------------------------------------------------------------------------
(* Who may do what *)

Busy == {s \in Slots : h[s].pc # "idle"}
IsMember(u) == mem.members[u] # <<>>
\* db.workspaceMembers.find: the first record counts.
First(u) == Head(mem.members[u])
InForce(m) == m.role = "Owner" /\ m.status = "Active"

\* authenticate: an open account of the tenant, and an active member.
Admitted(u) == mem.home[u] /\ mem.active[u] /\ mem.workspace
CanAct(u) == Admitted(u) /\ IsMember(u) /\ First(u).status = "Active"
\* requirePermission: members.update_role, members.remove, members.invite.
Manages(u) == CanAct(u) /\ First(u).role \in {"Owner", "Admin"}
HasOwner == \E u \in Users : IsMember(u) /\ InForce(First(u))

\* The membership find returns: organization_members are loaded by age.
Joined(u) == \E i \in Ids : mem.joined[u][i] # "none"
Oldest(u) == IF mem.joined[u]["granted"] # "none" THEN "granted" ELSE "linked"

Arrive == arrivals < MaxArrivals /\ arrivals' = arrivals + 1 /\ UNCHANGED <<faults, boots>>
Overlap == overlapped' = (overlapped \/ Busy # {} \/ \E u \in Users : landing[u] # {})

\* A handler reaches its first await.
Free(s) == h[s].pc = "idle" /\ arrivals < MaxArrivals
Enter(s, rec) ==
    /\ Free(s) /\ Arrive /\ h' = [h EXCEPT ![s] = rec]
    /\ Overlap /\ unsure' = (unsure \/ overlapped')
    /\ UNCHANGED <<row, landing, unsaved, missed>>

\* A statement is answered: done, or with an error the function logs.
Done == UNCHANGED <<faults, boots, arrivals, landing, unsaved, overlapped, missed, unsure>>
Failed ==
    /\ faults < MaxFaults /\ faults' = faults + 1 /\ missed' = TRUE /\ unsure' = TRUE
    /\ UNCHANGED <<row, boots, arrivals, landing, unsaved, overlapped>>

-----------------------------------------------------------------------------
(* The organization: organizations.ts *)

Advance(s, pc) == h' = [h EXCEPT ![s].pc = pc]
Finish(s) == h' = [h EXCEPT ![s] = NoRequest]

\* POST /organizations.
Create(s) ==
    /\ mem.org = "none" /\ row.org = "none"
    /\ mem' = [mem EXCEPT !.org = "Active"]
    /\ Enter(s, [NoRequest EXCEPT !.pc = "organization", !.value = "Active"])
    /\ UNCHANGED barred

\* PATCH, with or without a status, and DELETE, which asks for no permission.
UpdateOrganization(s, v) ==
    /\ mem.org # "none"
    /\ v = "INACTIVE" \/ \E u \in Users : Joined(u) \/ mem.role[u] = "Owner"
    /\ mem' = [mem EXCEPT !.org = IF v = "keep" THEN @ ELSE v]
    /\ Enter(s, [NoRequest EXCEPT !.pc = "organization", !.kind = "update", !.value = mem'.org])
    /\ UNCHANGED barred

\* What follows persistOrganization: the founder's membership, when it was a creation.
Founding(s) ==
    IF h[s].kind = "create"
    THEN /\ mem' = [mem EXCEPT !.joined[Founder]["granted"] = "Active"]
         /\ Advance(s, "membership")
    ELSE Finish(s) /\ UNCHANGED mem

\* persistOrganization: two statements in one try.
OrganizationRow(s) ==
    /\ h[s].pc = "organization"
    /\ \/ Failed /\ Founding(s)
       \/ row' = [row EXCEPT !.org = h[s].value] /\ Done /\ Advance(s, "tenant") /\ UNCHANGED mem
    /\ UNCHANGED barred

TenantRow(s) ==
    /\ h[s].pc = "tenant" /\ Founding(s)
    /\ Failed \/ (row' = [row EXCEPT !.tenant = TRUE] /\ Done)
    /\ UNCHANGED barred

\* Mutant of MembershipRow: ON CONFLICT leaves the status as it is.
MembershipRowKept(s) ==
    LET u == h[s].user
        i == h[s].id
        fits == row.org # "none" /\ row.joined[u][i] = "none" IN
    /\ h[s].pc = "membership"
    /\ \/ Failed
       \/ Done /\ row' = IF fits THEN [row EXCEPT !.joined[u][i] = "Active"] ELSE row
    /\ IF h[s].kind = "create"
       THEN mem' = [mem EXCEPT !.workspace = TRUE] /\ Advance(s, "workspace")
       ELSE Finish(s) /\ UNCHANGED mem
    /\ UNCHANGED barred

\* persistOrganizationMember; a foreign key and idx_org_members_active_unique.
MembershipRow(s) ==
    LET u == h[s].user
        i == h[s].id
        fits == row.org # "none" /\ \A j \in Ids \ {i} : row.joined[u][j] # "Active" IN
    /\ h[s].pc = "membership"
    /\ \/ Failed
       \/ Done /\ row' = IF fits THEN [row EXCEPT !.joined[u][i] = "Active"] ELSE row
    /\ IF h[s].kind = "create"
       THEN mem' = [mem EXCEPT !.workspace = TRUE] /\ Advance(s, "workspace")
       ELSE Finish(s) /\ UNCHANGED mem
    /\ UNCHANGED barred

OwnerRecord == [role |-> "Owner", status |-> "Active"]

\* persistWorkspace, which refers to the tenant, and the owner in memory.
WorkspaceRow(s) ==
    /\ h[s].pc = "workspace"
    /\ Failed \/ (Done /\ row' = [row EXCEPT !.workspace = row.tenant])
    /\ mem' = [mem EXCEPT !.members[Founder] = Append(@, OwnerRecord)]
    /\ Advance(s, "owner") /\ UNCHANGED barred

OwnerRow(s) ==
    /\ h[s].pc = "owner" /\ Finish(s)
    /\ \/ Failed
       \/ Done /\ row' = IF row.workspace THEN [row EXCEPT !.members[Founder] = Append(@, OwnerRecord)]
                         ELSE row
    /\ UNCHANGED <<mem, barred>>

\* POST /:id/switch and POST /:id/members ask PostgreSQL for the organization.
Ask(s, k, u) ==
    /\ Enter(s, [NoRequest EXCEPT !.pc = "read", !.kind = k, !.user = u, !.value = row.org])
    /\ UNCHANGED <<mem, barred>>

MaySwitch(u) == mem.role[u] \in {"Owner", "Admin"} \/ Joined(u) \/ mem.home[u]
\* The membership to write, and whether there is anything to do.
Membership(u) == IF Joined(u) THEN Oldest(u) ELSE "granted"
Outside(u) == mem.joined[u][Membership(u)] # "Active"

\* The answer is believed, in memory too; an error leaves what memory has.
Answer(s) ==
    LET u == h[s].user
        read == IF h[s].value = "none" THEN mem.org ELSE h[s].value IN
    /\ h[s].pc = "read" /\ UNCHANGED barred
    /\ \E o \in {read, mem.org} :
        /\ (o = read /\ Done /\ UNCHANGED row) \/ (o = mem.org /\ Failed)
        /\ \/ /\ o # "Active" \/ (IF h[s].kind = "switch" THEN ~MaySwitch(u) ELSE ~Outside(u))
              /\ mem' = [mem EXCEPT !.org = o] /\ Finish(s)
           \/ /\ o = "Active" /\ h[s].kind = "switch" /\ MaySwitch(u)
              /\ mem' = [mem EXCEPT !.org = o] /\ Advance(s, "switch")
           \/ /\ o = "Active" /\ h[s].kind = "add" /\ Outside(u)
              /\ mem' = [mem EXCEPT !.org = o, !.joined[u][Membership(u)] = "Active"]
              /\ h' = [h EXCEPT ![s].pc = "membership", ![s].id = Membership(u)]

\* The UPDATE of a switch is the one statement outside a try: see Abort.
SwitchRow(s) ==
    /\ h[s].pc = "switch" /\ row.tenant
    /\ row' = [row EXCEPT !.home[h[s].user] = TRUE]
    /\ mem' = [mem EXCEPT !.home[h[s].user] = TRUE]
    /\ Done /\ Finish(s) /\ UNCHANGED barred

\* admin.ts, POST /users/:id/organizations: the status in memory is enough.
Assign(s, u) ==
    /\ mem.org = "Active" /\ Outside(u) /\ \E c \in Users : Manages(c)
    /\ mem' = [mem EXCEPT !.joined[u][Membership(u)] = "Active"]
    /\ Enter(s, [NoRequest EXCEPT !.pc = "membership", !.kind = "add", !.user = u, !.id = Membership(u)])
    /\ UNCHANGED barred

\* removeOrganizationMember: every row, then the first membership in memory.
Remove(s, u) ==
    /\ mem.org # "none"
    /\ Enter(s, [NoRequest EXCEPT !.pc = "remove", !.kind = "add", !.user = u])
    /\ UNCHANGED <<mem, barred>>
Deactivated(m) == [i \in Ids |-> IF m[i] = "none" THEN "none" ELSE "INACTIVE"]
RemoveRow(s) ==
    LET u == h[s].user IN
    /\ h[s].pc = "remove" /\ Finish(s)
    /\ \/ Failed /\ UNCHANGED mem
       \/ /\ row' = [row EXCEPT !.joined[u] = Deactivated(@)] /\ Done
          /\ mem' = IF Joined(u) THEN [mem EXCEPT !.joined[u][Oldest(u)] = "INACTIVE"] ELSE mem
    /\ UNCHANGED barred

-----------------------------------------------------------------------------
(* The workspace: workspaces.ts and authenticate *)

\* authenticate: an account of the tenant that is no member becomes one; the
\* INSERT is not awaited.
Associate(u) ==
    LET m == [role |-> mem.role[u], status |-> "Active"] IN
    /\ Admitted(u) /\ ~IsMember(u) /\ landing[u] = {}
    /\ mem' = [mem EXCEPT !.members[u] = <<m>>]
    /\ landing' = [landing EXCEPT ![u] = {m}]
    /\ overlapped' = (overlapped \/ Busy # {}) /\ unsure' = (unsure \/ overlapped')
    /\ unsaved' = IF row.members[u] = <<>> THEN unsaved ELSE unsaved \cup {u}
    /\ UNCHANGED <<row, h, missed, barred, faults, boots, arrivals>>

Landed(u) ==
    \E m \in landing[u] :
        /\ landing' = [landing EXCEPT ![u] = {}]
        /\ \/ /\ row' = IF row.workspace THEN [row EXCEPT !.members[u] = Append(@, m)] ELSE row
              /\ UNCHANGED <<faults, missed, unsure>>
           \/ /\ faults < MaxFaults /\ faults' = faults + 1 /\ missed' = TRUE /\ unsure' = TRUE
              /\ UNCHANGED row
        /\ UNCHANGED <<mem, h, unsaved, overlapped, barred, boots, arrivals>>

\* The records of owners that are in force, over all of db.workspaceMembers.
Owners == UNION {{<<u, i>> : i \in {j \in DOMAIN mem.members[u] : InForce(mem.members[u][j])}} : u \in Users}
OwnerCount == Cardinality(Owners)
\* Mutant of LastOwner: owners who are suspended are counted.
LastOwnerOfAll(u) ==
    First(u).role = "Owner" /\ Cardinality({v \in Users : IsMember(v) /\ First(v).role = "Owner"}) <= 1
LastOwner(u) == First(u).role = "Owner" /\ OwnerCount <= 1

InMemoryOnly(u) ==
    /\ Arrive /\ Overlap /\ unsaved' = unsaved \cup {u} /\ unsure' = TRUE
    /\ UNCHANGED <<row, h, landing, missed>>

\* PUT /workspaces/members/:userId/role.
SetRole(u, r) ==
    /\ \E c \in Users : Manages(c)
    /\ IsMember(u) /\ (r # "Owner" => ~LastOwner(u))
    /\ mem' = [mem EXCEPT !.members[u][1].role = r, !.role[u] = r]
    /\ InMemoryOnly(u) /\ UNCHANGED barred

\* DELETE /workspaces/members/:userId.
RemoveMember(u) ==
    /\ \E c \in Users \ {u} : Manages(c)
    /\ IsMember(u) /\ ~LastOwner(u)
    /\ mem' = [mem EXCEPT !.members[u] = Tail(@)]
    /\ InMemoryOnly(u) /\ barred' = barred \ {u}

-----------------------------------------------------------------------------
(* The administration of users: admin.ts *)

Lock(a) == IF a THEN "open" ELSE "shut"

\* PUT and PATCH /users/:id/status.
UpdateStatus(s, u, open) ==
    LET status == IF open THEN "Active" ELSE "Suspended"
        shut == [mem EXCEPT !.active[u] = open] IN
    /\ \E c \in Users \ {u} : Manages(c)
    /\ mem' = IF IsMember(u) THEN [shut EXCEPT !.members[u][1].status = status] ELSE shut
    /\ Enter(s, [NoRequest EXCEPT !.kind = "status", !.user = u,
                         !.pc = IF IsMember(u) THEN "member" ELSE "user",
                         !.value = IF IsMember(u) THEN status ELSE "keep",
                         !.rest = IF IsMember(u) THEN "keep" ELSE Lock(open)])
    /\ barred' = IF open THEN barred \ {u} ELSE barred

\* PUT /users/:id/role.
UpdateRole(s, u, r) ==
    LET named == [mem EXCEPT !.role[u] = r] IN
    /\ \E c \in Users : Manages(c)
    /\ mem' = IF IsMember(u) THEN [named EXCEPT !.members[u][1].role = r] ELSE named
    /\ Enter(s, [NoRequest EXCEPT !.pc = IF IsMember(u) THEN "member" ELSE "user",
                         !.kind = "role", !.user = u, !.value = r])
    /\ UNCHANGED barred

\* PUT /users/:id: the role, an await if there is one, then the status.
SetOpen(m, u, a) == IF a = "keep" THEN m ELSE [m EXCEPT !.active[u] = (a = "open")]
EditUser(s, u, r, a) ==
    LET waits == r # "keep" /\ IsMember(u)
        named == IF r = "keep" THEN mem ELSE [mem EXCEPT !.role[u] = r] IN
    /\ \E c \in Users : Manages(c)
    /\ mem' = IF waits THEN [named EXCEPT !.members[u][1].role = r] ELSE SetOpen(named, u, a)
    /\ Enter(s, [NoRequest EXCEPT !.pc = IF waits THEN "member" ELSE "user", !.kind = "edit", !.user = u,
                         !.value = mem'.role[u], !.rest = IF waits THEN a ELSE Lock(mem'.active[u])])
    /\ barred' = IF a = "open" THEN barred \ {u} ELSE barred

\* Mutant of Written: the role is written to the other column.
WrittenAstray(m, v) == [m EXCEPT !.status = v]

\* persistWorkspaceMemberUpdate writes every row of the user; then the account.
Written(m, v) == IF v \in Roles THEN [m EXCEPT !.role = v] ELSE [m EXCEPT !.status = v]
MemberRow(s) ==
    LET u == h[s].user
        records == row.members[u] IN
    /\ h[s].pc = "member"
    /\ \/ Failed
       \/ /\ row' = [row EXCEPT !.members[u] =
                        [i \in DOMAIN records |-> Written(records[i], h[s].value)]]
          /\ Done
    /\ mem' = IF h[s].kind = "edit" THEN SetOpen(mem, u, h[s].rest) ELSE mem
    /\ h' = [h EXCEPT ![s].pc = "user",
                ![s].value = CASE h[s].kind = "status" -> "keep"
                               [] h[s].kind = "role" -> h[s].value
                               [] h[s].kind = "edit" -> mem.role[u],
                ![s].rest = IF h[s].kind = "role" THEN "keep" ELSE Lock(mem'.active[u])]
    /\ UNCHANGED barred

\* persistUserUpdate.
UserRow(s) ==
    LET u == h[s].user
        named == IF h[s].value = "keep" THEN row ELSE [row EXCEPT !.role[u] = h[s].value] IN
    /\ h[s].pc = "user" /\ Finish(s)
    /\ Failed \/ (row' = SetOpen(named, u, h[s].rest) /\ Done)
    /\ barred' = IF h[s].kind = "status" /\ h[s].rest = "shut" /\ IsMember(u) /\ ~overlapped
                 THEN barred \cup {u} ELSE barred
    /\ UNCHANGED mem

\* DELETE /users/:id.
DeleteUser(s, u) ==
    /\ \E c \in Users \ {u} : Manages(c)
    /\ mem' = [mem EXCEPT !.members[u] = <<>>, !.active[u] = FALSE]
    /\ Enter(s, [NoRequest EXCEPT !.pc = "close", !.kind = "delete", !.user = u])
    /\ UNCHANGED barred
CloseRow(s) ==
    /\ h[s].pc = "close" /\ Advance(s, "purge")
    /\ Failed \/ (row' = [row EXCEPT !.active[h[s].user] = FALSE] /\ Done)
    /\ UNCHANGED <<mem, barred>>

\* Mutant of PurgeRow: the UPDATE names the workspace of somebody else.
PurgeRowElsewhere(s) ==
    /\ h[s].pc = "purge" /\ Finish(s) /\ (Failed \/ (UNCHANGED row /\ Done))
    /\ barred' = IF overlapped \/ row.members[h[s].user] = <<>> THEN barred ELSE barred \cup {h[s].user}
    /\ UNCHANGED mem

\* Its second statement.
PurgeRow(s) ==
    LET u == h[s].user
        records == row.members[u] IN
    /\ h[s].pc = "purge" /\ Finish(s)
    /\ \/ Failed
       \/ /\ row' = [row EXCEPT !.members[u] =
                        [i \in DOMAIN records |-> Written(records[i], "Removed")]]
          /\ Done
    /\ barred' = IF overlapped \/ records = <<>> THEN barred ELSE barred \cup {u}
    /\ UNCHANGED mem

-----------------------------------------------------------------------------
(* The process ends and starts again *)

\* bootstrap.ts links the accounts of the tenant.  An id that is there is left;
\* an active membership with another id is an error, which ends the loop.
Unlinked == {u \in Users : row.tenant /\ row.home[u] /\ row.joined[u]["linked"] = "none"}
Obstacles == {u \in Unlinked : row.joined[u]["granted"] = "Active"}
Linked(D) == [u \in Users |-> IF u \in D THEN [row.joined[u] EXCEPT !["linked"] = "Active"]
                              ELSE row.joined[u]]

\* The load has no ORDER BY for the members of workspaces.
Orders(q) == {[i \in DOMAIN q |-> q[p[i]]] : p \in Bijection(DOMAIN q, DOMAIN q)}
Boot ==
    /\ boots < MaxBoots /\ boots' = boots + 1
    /\ \E D \in SUBSET (Unlinked \ Obstacles) :
        /\ Obstacles = {} => D = Unlinked
        /\ row' = [row EXCEPT !.joined = Linked(D)]
    /\ \E m \in [Users -> UNION {Orders(row.members[u]) : u \in Users}] :
        /\ \A u \in Users : m[u] \in Orders(row.members[u])
        /\ mem' = [row' EXCEPT !.members = m]
    /\ h' = [s \in Slots |-> NoRequest] /\ landing' = [u \in Users |-> {}]
    /\ unsaved' = {} /\ overlapped' = FALSE /\ missed' = FALSE
    /\ unsure' = (unsure \/ Busy # {} \/ \E u \in Users : landing[u] # {})
    /\ UNCHANGED <<barred, faults, arrivals>>

\* A rejection nobody handles ends the process.
Abort == \E s \in Slots : h[s].pc = "switch" /\ ~row.tenant /\ Boot
Reboot == Boot

-----------------------------------------------------------------------------

Statement(s) ==
    \/ OrganizationRow(s) \/ TenantRow(s) \/ MembershipRow(s) \/ WorkspaceRow(s) \/ OwnerRow(s)
    \/ Answer(s) \/ SwitchRow(s) \/ RemoveRow(s)
    \/ MemberRow(s) \/ UserRow(s) \/ CloseRow(s) \/ PurgeRow(s)

Organization(s) ==
    /\ Free(s)
    /\ \/ Create(s)
       \/ \E v \in {"keep", "Active", "INACTIVE"} : UpdateOrganization(s, v)
       \/ \E u \in Users :
           \/ \E k \in {"switch", "add"} : Ask(s, k, u)
           \/ Assign(s, u) \/ Remove(s, u)

Workspace ==
    \E u \in Users :
        \/ Associate(u) \/ Landed(u) \/ RemoveMember(u)
        \/ \E r \in Roles : SetRole(u, r)

Administration(s) ==
    Free(s) /\ \E u \in Users :
        \/ \E open \in BOOLEAN : UpdateStatus(s, u, open)
        \/ \E r \in Roles : UpdateRole(s, u, r)
        \/ \E r \in Roles \cup {"keep"}, a \in {"keep", "open", "shut"} : EditUser(s, u, r, a)
        \/ DeleteUser(s, u)

Twice == \E u \in Users : Len(mem.members[u]) > 1

TenancyNext ==
    \/ /\ Workspace \/ \E s \in Slots : Organization(s) \/ Statement(s)
       /\ stripped' = (stripped \/ Twice')
    \/ /\ \E s \in Slots : Administration(s)
       /\ stripped' = (stripped \/ ~HasOwner')
    \/ /\ Reboot \/ Abort
       /\ stripped' = (stripped \/ Twice' \/ unsure')

TenancySpec == TenancyInit /\ [][TenancyNext]_tenancyVars

-----------------------------------------------------------------------------
(* Properties *)

Quiet == Busy = {} /\ \A u \in Users : landing[u] = {}
Creating == \E s \in Busy : h[s].kind = "create"

\* A workspace keeps a person who acts as its owner (workspaces.ts, "Prevent
\* demoting the last Owner"), whatever the routes, the requests of its members
\* and restarts do, unless the administration took the last one, somebody had
\* two records, or a restart found tables that lag behind.
OwnerKept == mem.workspace /\ ~Creating /\ ~stripped => HasOwner

\* A member who was suspended or deleted stays out when ONE statement is lost,
\* across restarts too: the account and the membership of the workspace bar the
\* door independently.  A user the table of members does not know has no second
\* bar: of those nothing is said.
LockedOut ==
    faults <= 1 => \A u \in barred : ~(Admitted(u) /\ (IsMember(u) => First(u).status = "Active"))

\* With requests one at a time and no failing statement, the tables know what
\* memory knows: the organization and its memberships, for everybody the boot has
\* not linked beside a membership that was granted; roles, accounts and members,
\* unless the workspaces routes have changed them, who write nothing.
TablesAgree ==
    Quiet /\ ~overlapped /\ ~missed =>
        /\ mem.org = row.org /\ mem.home = row.home
        /\ \A u \in Users : (\E i \in Ids : mem.joined[u][i] = "none") => mem.joined[u] = row.joined[u]
        /\ \A u \in Users \ unsaved :
            /\ mem.role[u] = row.role[u] /\ mem.active[u] = row.active[u]
            /\ Len(mem.members[u]) = 1 => mem.members[u] = row.members[u]

-----------------------------------------------------------------------------
(* The inductive strengthening of the properties *)

Awaits(s, pc) == h[s].pc = pc
Of(s, u, pcs) == h[s].user = u /\ h[s].pc \in pcs

\* What the handlers carry, by the statement they wait for.
Carries(s) ==
    /\ Awaits(s, "idle") => h[s] = NoRequest
    /\ h[s].kind = "create" => h[s].user = Founder /\ h[s].id = "granted"
    /\ Awaits(s, "organization") => h[s].kind \in {"create", "update"} /\ h[s].value \in {"Active", "INACTIVE"}
    /\ Awaits(s, "tenant") => h[s].kind \in {"create", "update"} /\ row.org # "none"
    /\ Awaits(s, "membership") => h[s].kind \in {"create", "add"}
    /\ h[s].pc \in {"workspace", "owner"} => h[s].kind = "create" /\ mem.workspace
    /\ Awaits(s, "read") => h[s].kind \in {"switch", "add"} /\ h[s].value \in OrgStatuses
    /\ Awaits(s, "switch") => h[s].kind = "switch"
    /\ Awaits(s, "remove") => h[s].kind = "add"
    /\ Awaits(s, "member") => \/ h[s].kind = "status" /\ h[s].value \in {"Active", "Suspended"} /\ h[s].rest = "keep"
                              \/ h[s].kind = "role" /\ h[s].value \in Roles /\ h[s].rest = "keep"
                              \/ h[s].kind = "edit" /\ h[s].value \in Roles
    /\ Awaits(s, "user") => h[s].kind \in {"status", "role", "edit"} /\ h[s].value \in Roles \cup {"keep"}
    /\ h[s].pc \in {"close", "purge"} => h[s].kind = "delete"
HandlerInv == \A s \in Slots : Carries(s)

\* What refers to a row finds it there; the tenants of the accounts are changed
\* in memory and in the table at once.
ReferenceInv ==
    /\ row.tenant => row.org # "none"
    /\ row.workspace => row.tenant /\ mem.workspace
    /\ \A u \in Users : row.members[u] # <<>> => row.workspace
    /\ mem.home = row.home
    /\ missed => faults >= 1
    /\ \A u \in Users : landing[u] = {} \/ (mem.workspace /\ \E m \in Record : landing[u] = {m})

\* Requests one at a time since the start of the process.
AloneInv ==
    ~overlapped => \A s \in Busy : (\A t \in Busy : t = s) /\ \A u \in Users : landing[u] = {}

\* The row of the organization lags behind while it is being written.
OrganizationAgrees ==
    /\ (\A s \in Slots : ~Awaits(s, "organization")) => mem.org = row.org
    /\ \A s \in Slots : h[s].pc \in {"organization", "read"} => h[s].value = mem.org

\* The workspace follows its organization, its owner follows the workspace.
WorkspaceAgrees ==
    /\ mem.workspace /\ (\A s \in Slots : ~Awaits(s, "workspace")) => row.workspace
    /\ \A s \in Slots : h[s].kind = "create" /\ h[s].pc \in {"organization", "tenant", "membership", "workspace"}
          => ~row.workspace
    /\ \A s \in Slots : h[s].kind = "create" /\ h[s].pc \in {"membership", "workspace"} => row.tenant

MembershipsAgree ==
    /\ \A s \in Slots : Awaits(s, "membership") => row.org # "none" /\ mem.joined[h[s].user][h[s].id] = "Active"
    /\ \A u \in Users : (\E i \in Ids : mem.joined[u][i] = "none") =>
          \A i \in Ids : \/ mem.joined[u][i] = row.joined[u][i]
                         \/ \E s \in Slots : Awaits(s, "membership") /\ h[s].user = u /\ h[s].id = i

AccountsAgree ==
    \A u \in Users \ unsaved :
        /\ (\A s \in Slots : ~Of(s, u, {"member", "user"})) => mem.role[u] = row.role[u]
        /\ (\A s \in Slots : ~Of(s, u, {"member", "user", "close"})) => mem.active[u] = row.active[u]
        /\ \A s \in Slots : Of(s, u, {"member"}) =>
              IF h[s].kind = "status" THEN mem.role[u] = row.role[u]
              ELSE h[s].value = mem.role[u] /\ mem.active[u] = row.active[u]
        /\ \A s \in Slots : Of(s, u, {"user"}) =>
              /\ IF h[s].value = "keep" THEN mem.role[u] = row.role[u] ELSE h[s].value = mem.role[u]
              /\ IF h[s].rest = "keep" THEN mem.active[u] = row.active[u] ELSE h[s].rest = Lock(mem.active[u])

\* The rows of a member with one record: not there yet, to be rewritten, or the same.
MembersAgree ==
    /\ \A u \in Users \ unsaved : Len(mem.members[u]) = 1 =>
          \/ row.members[u] = <<>> /\ landing[u] = {mem.members[u][1]}
          \/ /\ row.members[u] = <<>> /\ u = Founder /\ mem.members[u][1] = OwnerRecord
             /\ \E s \in Slots : Awaits(s, "owner")
          \/ /\ Len(row.members[u]) = 1
             /\ \E s \in Slots : /\ Of(s, u, {"member"})
                               /\ mem.members[u][1] = Written(row.members[u][1], h[s].value)
          \/ /\ mem.members[u] = row.members[u] /\ landing[u] = {}
             /\ \A s \in Slots : ~(u = Founder /\ Awaits(s, "owner")) /\ ~Of(s, u, {"member"})
    /\ \A u \in Users : mem.members[u] # <<>> =>
          row.members[u] # <<>> \/ landing[u] # {} \/ (u = Founder /\ \E s \in Slots : Awaits(s, "owner"))

TablesInv ==
    ~overlapped /\ ~missed =>
        OrganizationAgrees /\ WorkspaceAgrees /\ MembershipsAgree /\ AccountsAgree /\ MembersAgree

\* Nobody has two records and somebody is the owner; a restart that can do no
\* harm finds the owner in the table, or somebody with two rows.
OwnerInv ==
    /\ ~stripped => \A u \in Users : Len(mem.members[u]) <= 1
    /\ ~stripped /\ mem.workspace /\ (\A s \in Slots : ~Awaits(s, "workspace")) => HasOwner
    /\ ~unsure => /\ ~overlapped /\ ~missed
                  /\ \A u \in unsaved : Len(row.members[u]) >= 2 \/ (landing[u] # {} /\ row.members[u] # <<>>)

\* A door is shut by the account, in memory and in the table, or by the records.
Silent(q) == \A i \in DOMAIN q : q[i].status # "Active"
ShutOut(u) ==
    /\ ~mem.active[u] /\ ~row.active[u]
    /\ \A s \in Slots : Of(s, u, {"user"}) => h[s].rest # "open"
SilentOut(u) ==
    /\ mem.active[u] => IsMember(u) /\ First(u).status # "Active"
    /\ row.members[u] # <<>> /\ Silent(row.members[u])
    /\ \A s \in Busy : h[s].kind # "create"
BarredInv ==
    faults <= 1 => \A u \in barred :
        /\ landing[u] = {}
        /\ \A s \in Slots : Of(s, u, {"member"}) => h[s].value # "Active" /\ h[s].rest # "open"
        /\ ShutOut(u) \/ SilentOut(u)

\* What the administration has done on the way to closing an account.
ClosingInv ==
    ~overlapped => \A s \in Slots : LET u == h[s].user IN
        /\ Awaits(s, "member") => IsMember(u)
        /\ h[s].kind = "status" /\ Awaits(s, "member") =>
              IF h[s].value = "Suspended" THEN ~mem.active[u] /\ First(u).status # "Active" ELSE mem.active[u]
        /\ h[s].kind = "status" /\ Awaits(s, "user") /\ h[s].rest = "shut" /\ IsMember(u) =>
              /\ ~mem.active[u]
              /\ faults = 0 => row.members[u] # <<>> /\ Silent(row.members[u])
        /\ h[s].pc \in {"close", "purge"} => ~mem.active[u] /\ ~IsMember(u)
        /\ Awaits(s, "purge") /\ faults = 0 => ~row.active[u]

TenancyInv ==
    /\ TenancyTypeOK /\ HandlerInv /\ ReferenceInv /\ AloneInv /\ TablesInv
    /\ OwnerInv /\ BarredInv /\ ClosingInv

=============================================================================
