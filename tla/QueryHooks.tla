----------------------------- MODULE QueryHooks -----------------------------
(***************************************************************************)
(* The query and mutation hooks of the web client (frontend/src/hooks and   *)
(* the useMutation calls inside routes), as data.                           *)
(*                                                                          *)
(* A query is the key prefix it is cached under, what of the backend its    *)
(* answer is computed from, whether the hook polls, whether its staleTime   *)
(* is zero (staleTime 0 refetches on every mount; the default of lib/api.ts *)
(* is 30 s), and whether the backend answers it from a cache of its own.    *)
(* Parameters that follow the prefix are left out.                          *)
(*                                                                          *)
(* A mutation is what its endpoint writes, the key prefixes its onSuccess   *)
(* invalidates, those it patches in place with setQueryData (creates: also  *)
(* when nothing is cached yet), and whether a failure is reported by a      *)
(* toast of the hook itself.                                                *)
(***************************************************************************)
EXTENDS Sequences, SequencesExt, TLC

Q(key, reads) ==
    [key |-> key, reads |-> reads, polls |-> FALSE, zero |-> FALSE, kept |-> FALSE]
Polled(q)        == [q EXCEPT !.polls = TRUE]
KeptByBackend(q) == [q EXCEPT !.kept = TRUE]
AlwaysStale(q)   == [q EXCEPT !.zero = TRUE]

M(writes, invalidates) ==
    [writes |-> writes, invalidates |-> invalidates, patches |-> {}, creates |-> FALSE,
     toasts |-> TRUE]
Silent(m)        == [m EXCEPT !.toasts = FALSE]
Patching(m, ks)  == [m EXCEPT !.patches = ks]
Creating(m, ks)  == [m EXCEPT !.patches = ks, !.creates = TRUE]

-----------------------------------------------------------------------------
\* hooks/use-users.ts

UserQueries ==
    [users        |-> Q(<<"users">>, {"user", "block", "balance"}),
     discover     |-> Q(<<"users", "discover">>, {"user"}),
     publicProfile|-> Q(<<"users", "profile">>, {"user"})]

UserActions ==
    [createUser  |-> M({"user", "balance"}, {<<"users">>}),
     updateUser  |-> M({"user", "balance"}, {<<"users">>}),
     disableUser |-> M({"user"}, {<<"users">>}),
     deleteUser  |-> M({"user"}, {<<"users">>})]

UserDetailQueries ==
    [userDetail  |-> Q(<<"users", "detail">>, {"user", "block", "balance"}),
     userServers |-> Q(<<"users", "servers">>, {"server"}),
     userQuota   |-> Q(<<"users", "quota">>, {"quota"})]

-----------------------------------------------------------------------------
\* hooks/use-credits.ts

CreditQueries ==
    [creditSummary   |-> Q(<<"credits", "summary">>, {"balance"}),
     myCreditSummary |-> Q(<<"credits", "my-summary">>, {"balance"}),
     myCreditHistory |-> Q(<<"credits", "my-history">>, {"balance"}),
     creditHistory   |-> Q(<<"credits", "history">>, {"balance"}),
     lowBalance      |-> Q(<<"credits", "low-balance">>, {"user", "balance"})]

CreditActions ==
    [grantCredits   |-> M({"balance"}, {<<"credits">>, <<"users">>, <<"dashboard">>}),
     deductCredits  |-> M({"balance"}, {<<"credits">>, <<"users">>, <<"dashboard">>}),
     updateUserDailyAllowance |->
                        M({"user"}, {<<"credits">>, <<"users">>, <<"dashboard">>})]

BulkCreditActions ==
    [bulkGrantCredits |-> M({"balance"}, {<<"credits">>, <<"users">>, <<"dashboard">>}),
     bulkSetAllowance |-> M({"user"}, {<<"credits">>, <<"users">>, <<"dashboard">>})]

AllowanceOverride ==
    [setOverride   |-> M({"user"}, {<<"credits">>, <<"users">>}),
     clearOverride |-> M({"user"}, {<<"credits">>, <<"users">>})]

-----------------------------------------------------------------------------
\* hooks/use-credit-requests.ts

CreditRequestQueries ==
    [myRequests     |-> Q(<<"credit-requests", "mine">>, {"request"}),
     allRequests    |-> Q(<<"credit-requests", "all">>, {"request"}),
     pendingCount   |-> Q(<<"credit-requests", "pending-count">>, {"request"}),
     requestStats   |-> Q(<<"credit-requests", "stats">>, {"request"}),
     requestMessages|-> Q(<<"credit-requests", "messages">>, {"message"})]

AddCreditRequestMessage ==
    [addMessage |-> M({"message", "request"}, {<<"credit-requests">>})]

BulkReviewCreditRequests ==
    [bulkReview |-> M({"request", "balance"}, {<<"credit-requests">>, <<"credits">>})]

\* A request below the system's limit is approved and paid as it is created.
OwnCreditRequestActions ==
    [setCreditRequestBlock |-> M({"block"}, {<<"users">>, <<"credit-requests">>}),
     cancelRequest         |-> M({"request"}, {<<"credit-requests">>}),
     createRequest         |-> M({"request", "balance"}, {<<"credit-requests">>})]

ReviewCreditRequest ==
    [approveRequest |-> M({"request", "balance"}, {<<"credit-requests">>, <<"credits">>}),
     rejectRequest  |-> M({"request"}, {<<"credit-requests">>, <<"credits">>})]

-----------------------------------------------------------------------------
\* hooks/use-plans.ts, hooks/use-environments.ts, hooks/use-quotas.ts

PlanQueries == [plans |-> Q(<<"plans">>, {"plan"})]

PlanActions ==
    [n \in {"createPlan", "updatePlan", "deletePlan", "activatePlan", "deactivatePlan"} |->
        M({"plan"}, {<<"plans">>})]

PlanAccessQueries ==
    [planUsers      |-> AlwaysStale(Q(<<"plans", "id", "users">>, {"planUsers"})),
     planWorkspaces |-> AlwaysStale(Q(<<"plans", "id", "workspaces">>, {"planWorkspaces"}))]

\* The access lists are patched and then refetched while they are on screen:
\* refetchQueries with type "active" acts on a mounted list as an
\* invalidation does, and staleTime 0 covers a list that is not mounted.
PlanAccessActions ==
    LET users == <<"plans", "id", "users">>
        spaces == <<"plans", "id", "workspaces">>
    IN  [grantUserAccess       |-> Creating(M({"planUsers"}, {users}), {users}),
         revokeUserAccess      |-> Creating(M({"planUsers"}, {users}), {users}),
         grantWorkspaceAccess  |-> Creating(M({"planWorkspaces"}, {spaces}), {spaces}),
         revokeWorkspaceAccess |-> Creating(M({"planWorkspaces"}, {spaces}), {spaces})]

EnvironmentQueries == [environments |-> Q(<<"environments">>, {"environment"})]

\* No onError: a failure is reported by the page or by nobody.
EnvironmentActions ==
    [n \in {"createEnvironment", "updateEnvironment", "deleteEnvironment",
            "activateEnvironment", "deactivateEnvironment", "cloneEnvironment"} |->
        Silent(M({"environment"}, {<<"environments">>}))]

QuotaQueries ==
    [myQuota      |-> Q(<<"quota", "me">>, {"quota", "server"}),
     quotas       |-> Q(<<"quotas">>, {"quota"}),
     quotaDefaults|-> Q(<<"system-quota-defaults">>, {"quotaDefault"})]

QuotaActions ==
    [updateQuota |-> M({"quota"}, {<<"quotas">>}),
     updateSystemQuotaDefaults |->
        M({"quotaDefault", "quota"}, {<<"system-quota-defaults">>, <<"quotas">>})]

-----------------------------------------------------------------------------
\* hooks/use-servers.ts

ServerQueries ==
    [servers      |-> KeptByBackend(Q(<<"servers">>, {"server"})),
     serverByPath |-> Q(<<"server-by-path">>, {"server"})]

\* createServer and updateServer may create the volumes they mount; neither
\* toasts. The four operations patch the list with the status the answer
\* carries, then invalidate it. A start notes when its volumes were mounted, a
\* delete gives them up.
ServerActions ==
    LET both == {<<"servers">>, <<"dashboard">>}
        operation(writes) == Patching(M({"server", "process"} \cup writes, both), {<<"servers">>})
    IN  [createServer  |-> Silent(M({"server", "volume", "mount"}, both)),
         updateServer  |-> Silent(M({"server", "volume", "mount"}, both)),
         startServer   |-> operation({"mount"}),
         stopServer    |-> operation({}),
         restartServer |-> operation({}),
         deleteServer  |-> operation({"mount"})]

ServerSchedules ==
    [schedules |-> Q(<<"server-schedules">>, {"schedule"})]

ScheduleActions ==
    [createSchedule |-> Silent(M({"schedule"}, {<<"server-schedules">>})),
     deleteSchedule |-> Silent(M({"schedule"}, {<<"server-schedules">>}))]

ServerStreams ==
    [serverLogs  |-> Polled(Q(<<"server-logs">>, {"process"})),
     serverTasks |-> Polled(Q(<<"server-tasks">>, {"process"}))]

BulkServerActions ==
    [bulkServerAction |->
        M({"server", "process", "mount"}, {<<"servers">>, <<"dashboard">>})]

-----------------------------------------------------------------------------
\* hooks/use-volumes.ts, hooks/use-admin-volumes.ts

VolumeQueries ==
    [volumes     |-> Q(<<"volumes">>, {"volume", "mount", "attachment", "member"}),
     volumeFiles |-> Q(<<"volume-files">>, {"file"})]

VolumeActions ==
    [n \in {"createVolume", "deleteVolume", "updateVolume", "refreshVolumeSize"} |->
        Silent(M({"volume"}, {<<"volumes">>}))]
    @@ [deleteVolumeFile |-> Silent(M({"file"}, {<<"volume-files">>}))]

AdminVolumeQueries ==
    [adminVolumes |-> Q(<<"admin-volumes">>, {"volume", "mount"}),
     adminVolume  |-> Q(<<"admin-volume">>, {"volume"})]

AdminVolumeActions ==
    [adminUpdateVolume |-> M({"volume"}, {<<"admin-volumes">>, <<"admin-volume">>})]
    @@ [n \in {"adminDeleteVolume", "bulkVolumeAction", "adminRefreshSize", "refreshAllSizes"} |->
          M({"volume"}, {<<"admin-volumes">>})]

-----------------------------------------------------------------------------
\* hooks/use-workspaces.ts, hooks/use-admin-workspaces.ts, use-workspace-pins.ts

WorkspaceQueries ==
    [workspaces |-> Q(<<"workspaces">>, {"workspace", "member"}),
     workspace  |-> Q(<<"workspace", "id">>, {"workspace", "member", "attachment", "invitation"})]

WorkspaceTableQueries ==
    [workspaceActivity    |-> Q(<<"workspace", "id", "activity">>,
                                {"workspace", "member", "attachment", "invitation"}),
     workspaceMembers     |-> Q(<<"workspace", "id", "members">>, {"member"}),
     workspaceVolumes     |-> Q(<<"workspace", "id", "volumes">>, {"attachment"}),
     workspaceInvitations |-> Q(<<"workspace", "id", "invitations">>, {"invitation"})]

WorkspaceActions ==
    [createWorkspace |-> M({"workspace"}, {<<"workspaces">>}),
     updateWorkspace |-> M({"workspace"}, {<<"workspaces">>, <<"workspace", "id">>}),
     deleteWorkspace |-> M({"workspace"}, {<<"workspaces">>})]

WorkspaceMemberActions ==
    [n \in {"addMember", "removeMember", "updateMemberRole"} |->
        M({"member"}, {<<"workspace", "id">>})]

WorkspaceVolumeActions ==
    [addVolume        |-> M({"attachment"}, {<<"workspace", "id">>, <<"workspaces">>}),
     removeVolume     |-> M({"attachment"}, {<<"workspace", "id">>, <<"workspaces">>}),
     updateVolumeRole |-> M({"attachment"}, {<<"workspace", "id">>})]

InvitationActions ==
    LET both == {<<"workspace", "id">>, <<"workspaces">>}
    IN  [inviteMember     |-> M({"invitation"}, {<<"workspace", "id">>}),
         acceptInvitation |-> M({"invitation", "member"}, both),
         rejectInvitation |-> M({"invitation"}, both),
         cancelInvitation |-> M({"invitation"}, {<<"workspace", "id">>})]

OwnershipActions ==
    LET both == {<<"workspace", "id">>, <<"workspaces">>}
    IN  [leaveWorkspace    |-> M({"member"}, both),
         transferOwnership |-> M({"workspace", "member"}, both)]

AdminWorkspaceQueries ==
    [adminWorkspaces |-> Q(<<"admin-workspaces">>, {"workspace"}),
     adminWorkspace  |-> Q(<<"admin-workspace">>, {"workspace"})]

AdminWorkspaceActions ==
    [adminUpdateWorkspace |-> M({"workspace"}, {<<"admin-workspaces">>, <<"admin-workspace">>}),
     adminDeleteWorkspace |-> M({"workspace"}, {<<"admin-workspaces">>}),
     bulkWorkspaceAction  |-> M({"workspace"}, {<<"admin-workspaces">>})]

WorkspacePins == [updatePins |-> Silent(M({"preference"}, {<<"me">>}))]

-----------------------------------------------------------------------------
\* hooks/use-tokens.ts, use-maintenance-windows.ts, use-system-config.ts,
\* use-retention.ts, use-email-settings.ts, use-health*.ts, use-dashboard.ts

TokenQueries ==
    [tokens     |-> Q(<<"tokens">>, {"token"}),
     tokenUsage |-> Q(<<"tokens", "id", "usage">>, {"tokenUse"})]

TokenActions ==
    [n \in {"createToken", "regenerateToken", "revokeToken", "deleteToken"} |->
        M({"token"}, {<<"tokens">>})]

MaintenanceWindowQueries == [windows |-> Q(<<"maintenance-windows">>, {"window"})]

MaintenanceWindowActions ==
    [n \in {"createWindow", "updateWindow", "deleteWindow"} |->
        Silent(M({"window"}, {<<"maintenance-windows">>}))]

SystemConfig ==
    [systemConfig |-> Q(<<"system-config">>, {"config", "creditConfig"})]

SystemConfigActions ==
    [updateSystemConfig |-> Silent(M({"config"}, {<<"system-config">>, <<"health">>})),
     toggleMaintenance  |-> Silent(M({"config"}, {<<"system-config">>, <<"health">>}))]

\* Six settings with a query and a mutation each.
CreditSettingNames ==
    {"system-daily-allowance", "system-max-balance", "system-auto-approve-max",
     "system-request-cooldown", "system-initial-balance", "system-allowance-login-window"}

CreditSettingQueries == [s \in CreditSettingNames |-> Q(<<s>>, {s})]

CreditSettingActions ==
    [s \in CreditSettingNames |-> M({s, "creditConfig"}, {<<s>>, <<"system-config">>})]

RetentionQueries == [retention |-> AlwaysStale(Q(<<"retention-policy">>, {"retention"}))]

RetentionActions == [updateRetention |-> Silent(M({"retention"}, {<<"retention-policy">>}))]

EmailQueries ==
    [emailConfig |-> Q(<<"admin", "email-config">>, {"email"}),
     emailStatus |-> Polled(Q(<<"admin", "email-status">>, {"email"}))]

MonitoringQueries == [healthMonitoring |-> Polled(Q(<<"health-monitoring">>, {"server"}))]

Health == [health |-> Polled(Q(<<"health">>, {"config"}))]

Dashboard == [dashboard |-> Polled(Q(<<"dashboard">>, {"server", "balance", "quota"}))]

-----------------------------------------------------------------------------
\* hooks/use-notifications.ts, use-current-user.ts and the calls of
\* useMutation inside routes

NotificationQueries ==
    [notifications |-> Q(<<"notifications">>, {"notification"}),
     unreadCount   |-> Polled(Q(<<"notifications", "unread-count">>, {"notification"}))]

NotificationActions ==
    [n \in {"markAsRead", "markAllAsRead", "deleteNotification", "deleteNotifications"} |->
        Silent(M({"notification"}, {<<"notifications">>}))]

CurrentUser == [me |-> AlwaysStale(Q(<<"me">>, {"user", "preference", "balance"}))]

IpRestrictionActions ==
    [createIpRestriction |-> Silent(M({"iprule"}, {<<"ip-restrictions">>})),
     deleteIpRestriction |-> Silent(M({"iprule"}, {<<"ip-restrictions">>}))]

IpRestrictionQueries == [ipRestrictions |-> Q(<<"ip-restrictions">>, {"iprule"})]

\* The gateway page starts the server with the operation above and then
\* invalidates its own query.
GatewayStart ==
    [startFromGateway |->
        M({"server", "process", "mount"},
          {<<"servers">>, <<"dashboard">>, <<"server-by-path">>})]

\* The three preference pages patch ["me"] with what they saved and
\* invalidate nothing.
SaveServerPreferences ==
    [saveServerPrefs |-> Patching(M({"preference"}, {}), {<<"me">>})]

SaveNotificationPreferences ==
    [saveNotificationPrefs |-> Patching(M({"preference"}, {}), {<<"me">>})]

SaveTimezone ==
    [saveTimezone |-> Patching(M({"preference"}, {}), {<<"me">>})]

-----------------------------------------------------------------------------
Queries ==
    UserQueries @@ UserDetailQueries @@ CreditQueries @@ CreditRequestQueries
    @@ PlanQueries @@ PlanAccessQueries @@ EnvironmentQueries @@ QuotaQueries
    @@ ServerQueries @@ ServerSchedules @@ ServerStreams @@ VolumeQueries
    @@ AdminVolumeQueries @@ WorkspaceQueries @@ WorkspaceTableQueries
    @@ AdminWorkspaceQueries @@ TokenQueries @@ MaintenanceWindowQueries
    @@ SystemConfig @@ CreditSettingQueries @@ RetentionQueries @@ EmailQueries
    @@ MonitoringQueries @@ Health @@ Dashboard @@ NotificationQueries
    @@ CurrentUser @@ IpRestrictionQueries

Mutations ==
    UserActions @@ CreditActions @@ BulkCreditActions @@ AllowanceOverride
    @@ AddCreditRequestMessage @@ BulkReviewCreditRequests @@ OwnCreditRequestActions
    @@ ReviewCreditRequest @@ PlanActions @@ PlanAccessActions @@ EnvironmentActions
    @@ QuotaActions @@ ServerActions @@ ScheduleActions @@ BulkServerActions
    @@ VolumeActions @@ AdminVolumeActions @@ WorkspaceActions
    @@ WorkspaceMemberActions @@ WorkspaceVolumeActions @@ InvitationActions
    @@ OwnershipActions @@ AdminWorkspaceActions @@ WorkspacePins @@ TokenActions
    @@ MaintenanceWindowActions @@ SystemConfigActions @@ RetentionActions
    @@ NotificationActions @@ IpRestrictionActions @@ SaveServerPreferences
    @@ SaveNotificationPreferences @@ SaveTimezone @@ CreditSettingActions
    @@ GatewayStart

\* A prefix matches every key that starts with it (lib/api.ts uses the
\* library's defaults: exact is false).
Matches(prefixes, key) == \E p \in prefixes : IsPrefix(p, key)
=============================================================================
