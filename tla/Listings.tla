------------------------------ MODULE Listings ------------------------------
(***************************************************************************)
(* The tables of the web client: for each page that shows a DataTable, the  *)
(* columns it defines, the filters its toolbar offers and what the page     *)
(* does with the table's state.                                             *)
(*                                                                          *)
(*   columns  ids of the columns that have an accessor: the header of such  *)
(*            a column sorts, and table.getColumn finds it by id            *)
(*   filters  keys of the filters in the toolbar                            *)
(*   where    who searches, filters, sorts and cuts the pages: the backend, *)
(*            the page itself, or nobody                                    *)
(*   asks     the parts of the table's state that reach the rows: "search", *)
(*            "sort" and keys of filters                                    *)
(*   sorts    columns the backend can sort by (external)                    *)
(*   hides    the backend drops, from the page it has counted and cut, the  *)
(*            rows the reader may not see                                   *)
(*   order    where the sort asked for comes from: the header's state, or   *)
(*            useDataTable's, which keeps the last one; "dead" when the     *)
(*            header does nothing                                           *)
(*   restart  a click on a header goes back to the first page (setSort)     *)
(*   shows    the toolbar is told which filter is chosen (columnFilters)    *)
(*   resync   the effect that copies the chosen filters runs at every       *)
(*            render                                                        *)
(***************************************************************************)

\* What a page does with the events of its DataTable. onSortingChange keeps the
\* header's sorting and calls setSort, or only keeps it, or does nothing.
Restarting  == [order |-> "header", restart |-> TRUE, shows |-> TRUE]
Keeping     == [order |-> "header", restart |-> FALSE, shows |-> TRUE]
Unanswering == [order |-> "dead", restart |-> FALSE, shows |-> FALSE]

Listing(columns, filters, wiring, where, asks, sorts) ==
    [columns |-> columns, filters |-> filters, where |-> where, asks |-> asks,
     sorts |-> sorts, order |-> wiring.order, restart |-> wiring.restart,
     shows |-> wiring.shows, resync |-> FALSE, hides |-> FALSE]

-----------------------------------------------------------------------------
\* admin.users.index.tsx

UserColumns == {"username", "email", "role", "is_active", "is_verified", "nuke_balance",
                "daily_allowance", "created_at", "login_count"}

UserFilters == {"role", "status"}

UserTable == Restarting

UserListing ==
    Listing(UserColumns, UserFilters, UserTable, "backend",
            {"search", "sort", "role", "status"}, UserColumns)

\* components/admin/credits/users-tab.tsx

CreditUserColumns == {"username", "email", "nuke_balance", "daily_allowance", "role"}

CreditUserTable == Restarting

CreditUserListing ==
    Listing(CreditUserColumns, {}, CreditUserTable, "backend",
            {"search", "sort"}, CreditUserColumns)

\* activity.tsx

ActivityColumns == {"action", "target_type", "timestamp"}

ActivityFilters == {"action", "target_type"}

ActivityTable == [Keeping EXCEPT !.shows = FALSE]

ActivityListing ==
    Listing(ActivityColumns, ActivityFilters, ActivityTable, "backend",
            {"action", "target_type"}, {})

\* admin.audit-logs.tsx

AuditColumns == {"action", "target_type", "actor_id", "ip_address", "created_at"}

AuditFilters == {"action", "target_type"}

AuditTable == Keeping

AuditListing ==
    Listing(AuditColumns, AuditFilters, AuditTable, "backend",
            {"action", "target_type"}, {})

\* admin.quotas.tsx

QuotaColumns == {"username", "role", "max_servers_total", "max_cpu_total",
                 "max_memory_total", "max_disk_total", "max_gpu_total"}

QuotaTable == Restarting

QuotaListing == Listing(QuotaColumns, {}, QuotaTable, "backend", {"search"}, {})

\* admin.volumes.tsx

VolumeColumns == {"display_name", "owner", "size_bytes", "status", "visibility",
                  "server_count", "created_at"}

VolumeFilters == {"status", "visibility"}

VolumeTable == Restarting

VolumeListing ==
    [Listing(VolumeColumns, VolumeFilters, VolumeTable, "backend",
             {"search", "sort", "status", "visibility"},
             {"display_name", "size_bytes", "created_at"})
        EXCEPT !.order = "state"]

\* admin.environments.tsx: the column of the state is there for who manages them,
\* which are those the page lets in. To a reader without ADMIN_ACCESS (a moderator)
\* the backend answers the active ones, whatever state is asked for.

EnvironmentColumns == {"name", "slug", "image", "category", "is_active", "created_at"}

EnvironmentFilters == {"category", "is_active"}

EnvironmentTable == Restarting

EnvironmentListing ==
    Listing(EnvironmentColumns, EnvironmentFilters, EnvironmentTable, "backend",
            {"search", "category", "is_active"}, {})

ModeratedEnvironmentListing ==
    [EnvironmentListing EXCEPT !.asks = {"search", "category"}]

\* admin.plans.tsx: the same, and a reader without ADMIN_ACCESS (a moderator, who
\* may manage plans) does not see every plan.

PlanColumns == {"name", "slug", "cpu_limit", "memory_limit", "disk_limit", "cost_per_hour",
                "is_active", "created_at"}

PlanFilters == {"category", "is_active"}

PlanTable == Restarting

PlanListing ==
    Listing(PlanColumns, PlanFilters, PlanTable, "backend", {"category", "is_active"}, {})

ModeratedPlanListing == [PlanListing EXCEPT !.hides = TRUE]

\* admin.plans.tsx, the dialog of who may use a plan

GrantedUserColumns == {"username", "granted_by_username", "granted_at"}

GrantedUserTable == Keeping

GrantedUserListing ==
    Listing(GrantedUserColumns, {}, GrantedUserTable, "page",
            {"search", "sort"}, GrantedUserColumns)

GrantedWorkspaceColumns == {"workspace_name", "granted_by_username", "granted_at"}

GrantedWorkspaceTable == Keeping

GrantedWorkspaceListing ==
    Listing(GrantedWorkspaceColumns, {}, GrantedWorkspaceTable, "page",
            {"search", "sort"}, GrantedWorkspaceColumns)

\* admin.workspaces.tsx

WorkspaceColumns == {"name", "owner_username", "member_count", "volume_count", "is_active",
                     "created_at"}

WorkspaceFilters == {"status"}

WorkspaceTable == Restarting

WorkspaceListing ==
    [Listing(WorkspaceColumns, WorkspaceFilters, WorkspaceTable, "backend",
             {"search", "sort", "status"}, {"name", "created_at"})
        EXCEPT !.order = "state"]

\* workspaces.$workspaceId.tsx

MemberColumns == {"username", "role"}

MemberFilters == {"role"}

MemberTable == Restarting

MemberListing ==
    [Listing(MemberColumns, MemberFilters, MemberTable, "backend",
             {"search", "sort", "role"}, MemberColumns)
        EXCEPT !.resync = TRUE]

WorkspaceVolumeColumns == {"display_name", "owner", "role"}

WorkspaceVolumeTable == Restarting

WorkspaceVolumeListing ==
    Listing(WorkspaceVolumeColumns, {}, WorkspaceVolumeTable, "backend",
            {"search", "sort"}, {"display_name", "role"})

WorkspaceActivityColumns == {"actor", "action", "created_at"}

WorkspaceActivityTable == Restarting

WorkspaceActivityListing ==
    Listing(WorkspaceActivityColumns, {}, WorkspaceActivityTable, "backend", {}, {})

\* admin.servers.tsx

AdminServerColumns == {"name", "status", "health_status", "username", "allocated_cpu",
                       "allocated_memory", "external_url", "created_at"}

AdminServerFilters == {"owner", "status"}

AdminServerTable == Keeping

AdminServerListing ==
    Listing(AdminServerColumns, AdminServerFilters, AdminServerTable, "page",
            {"search", "sort", "owner", "status"}, AdminServerColumns)

\* servers.index.tsx

ServerColumns == {"name", "status", "external_url", "created_at"}

ServerFilters == {"status"}

ServerTable == Keeping

ServerListing ==
    Listing(ServerColumns, ServerFilters, ServerTable, "page",
            {"search", "sort", "status"}, ServerColumns)

\* admin.ip-restrictions.tsx and admin.maintenance-windows.tsx show all they have.

RestrictionColumns == {"ip_range", "restriction_type", "note", "created_at"}

RestrictionTable == Unanswering

RestrictionListing ==
    Listing(RestrictionColumns, {}, RestrictionTable, "nobody", {}, {})

WindowColumns == {"title", "status", "start_at", "end_at"}

WindowTable == Unanswering

WindowListing ==
    Listing(WindowColumns, {}, WindowTable, "nobody", {}, {})

-----------------------------------------------------------------------------
Listings ==
    [users              |-> UserListing,
     creditUsers        |-> CreditUserListing,
     activity           |-> ActivityListing,
     audit              |-> AuditListing,
     quotas             |-> QuotaListing,
     volumes            |-> VolumeListing,
     environments       |-> EnvironmentListing,
     moderatedEnvironments |-> ModeratedEnvironmentListing,
     plans              |-> PlanListing,
     moderatedPlans     |-> ModeratedPlanListing,
     grantedUsers       |-> GrantedUserListing,
     grantedWorkspaces  |-> GrantedWorkspaceListing,
     workspaces         |-> WorkspaceListing,
     members            |-> MemberListing,
     workspaceVolumes   |-> WorkspaceVolumeListing,
     workspaceActivity  |-> WorkspaceActivityListing,
     adminServers       |-> AdminServerListing,
     servers            |-> ServerListing,
     restrictions       |-> RestrictionListing,
     windows            |-> WindowListing]

\* Controls that are offered and do nothing, or do it unseen: the table does not
\* show what such a control says.

SearchGaps == {"activity", "audit", "plans", "moderatedPlans", "workspaceActivity",
               "restrictions", "windows"}

PageGaps == {"restrictions", "windows"}

FilterGaps == {<<"users", "status">>, <<"workspaces", "status">>, <<"adminServers", "owner">>,
               <<"plans", "category">>, <<"moderatedPlans", "category">>,
               <<"moderatedEnvironments", "is_active">>,
               <<"activity", "action">>, <<"activity", "target_type">>}

SortGaps ==
    UNION {{l} \X Listings[l].columns :
             l \in {"activity", "audit", "quotas", "environments", "moderatedEnvironments",
                    "plans", "moderatedPlans", "workspaceActivity"}}
    \cup ({"volumes"} \X {"owner", "status", "visibility", "server_count"})
    \cup ({"workspaces"} \X {"owner_username", "member_count", "volume_count", "is_active"})
    \cup {<<"workspaceVolumes", "owner">>}

\* The page cannot be turned while a filter is chosen.
TurnGaps == {"members"}

\* A page holds the rows of the cut that the reader may see: it may be short, or
\* empty, while rows that match and that the reader may see stand on another.
HideGaps == {"moderatedPlans"}
=============================================================================
