------------------------------- MODULE Pages -------------------------------
(***************************************************************************)
(* Which queries a page of the web client keeps on screen and which         *)
(* mutations it offers while they are on screen (the hooks the component    *)
(* and its dialogs call). Names are those of QueryHooks.                    *)
(***************************************************************************)
EXTENDS QueryHooks

Page(shows, offers) == [shows |-> shows, offers |-> offers]

ServerOperations == {"startServer", "stopServer", "restartServer", "deleteServer"}

-----------------------------------------------------------------------------
\* Servers

ServersPage ==
    Page({"servers", "environments", "plans", "volumes"},
         ServerOperations \cup {"createServer", "updateServer", "bulkServerAction"})

AdminServersPage ==
    Page({"servers", "environments", "plans", "volumes"},
         ServerOperations \cup {"createServer", "bulkServerAction"})

ServerDetailPage ==
    Page({"servers", "serverLogs", "serverTasks"}, ServerOperations)

ScheduleDialog == Page({"schedules"}, {"createSchedule", "deleteSchedule"})

ServerGatewayPage == Page({"serverByPath"}, {"startFromGateway"})

DashboardPage == Page({"dashboard", "servers"}, {})

-----------------------------------------------------------------------------
\* Users and credits

AdminUsersPage ==
    Page({"users", "system-daily-allowance"},
         {"createUser", "updateUser", "disableUser", "deleteUser",
          "grantCredits", "deductCredits"})

UserProfilePage ==
    Page({"userDetail", "userServers", "userQuota", "creditSummary", "creditHistory",
          "adminVolumes"}, {})

CreditUsersTab ==
    Page({"users", "lowBalance"},
         {"setCreditRequestBlock", "grantCredits", "deductCredits",
          "updateUserDailyAllowance", "setOverride", "clearOverride",
          "bulkGrantCredits", "bulkSetAllowance"})

CreditRequestsTab ==
    Page({"requestStats", "allRequests", "requestMessages"},
         {"bulkReview", "approveRequest", "rejectRequest", "addMessage"})

CreditSettingsTab == Page(CreditSettingNames, CreditSettingNames)

MyCreditsPage ==
    Page({"myCreditSummary", "myRequests", "myCreditHistory", "requestMessages"},
         {"createRequest", "cancelRequest", "addMessage"})

-----------------------------------------------------------------------------
\* Catalogue, quotas, settings

AdminPlansPage ==
    Page({"plans"}, {"createPlan", "updatePlan", "deletePlan", "activatePlan",
                     "deactivatePlan"})

AccessManagementDialog ==
    Page({"planUsers", "planWorkspaces", "discover", "workspaces"},
         {"grantUserAccess", "revokeUserAccess", "grantWorkspaceAccess",
          "revokeWorkspaceAccess"})

AdminEnvironmentsPage ==
    Page({"environments"}, {"createEnvironment", "updateEnvironment", "deleteEnvironment",
                            "activateEnvironment", "deactivateEnvironment",
                            "cloneEnvironment"})

AdminQuotasPage == Page({"quotas"}, {"updateQuota"})

QuotaDefaultsCard == Page({"quotaDefaults"}, {"updateSystemQuotaDefaults"})

MaintenanceWindowsPage ==
    Page({"windows", "systemConfig", "health"},
         {"createWindow", "updateWindow", "deleteWindow", "updateSystemConfig"})

AdminSettingsPage ==
    Page({"emailConfig", "emailStatus", "retention"}, {"updateRetention"})

IPRestrictionsPage ==
    Page({"ipRestrictions"}, {"createIpRestriction", "deleteIpRestriction"})

-----------------------------------------------------------------------------
\* Volumes and workspaces

VolumesPage ==
    Page({"volumes", "me"},
         {"createVolume", "deleteVolume", "updateVolume", "refreshVolumeSize"})

VolumeFileBrowser == Page({"volumeFiles"}, {"deleteVolumeFile"})

AdminVolumesPage ==
    Page({"adminVolumes"}, {"adminUpdateVolume", "adminDeleteVolume", "bulkVolumeAction",
                            "adminRefreshSize", "refreshAllSizes"})

WorkspacesPage == Page({"workspaces", "me"}, {"createWorkspace", "deleteWorkspace", "updatePins"})

WorkspaceDetailPage ==
    Page({"workspace", "discover", "volumes", "workspaceMembers",
          "workspaceInvitations", "workspaceVolumes", "workspaceActivity"},
         {"updateWorkspace", "removeMember", "updateMemberRole", "addVolume", "removeVolume",
          "updateVolumeRole", "inviteMember", "acceptInvitation", "rejectInvitation",
          "cancelInvitation", "leaveWorkspace", "transferOwnership"})

AdminWorkspacesPage ==
    Page({"adminWorkspaces"}, {"adminUpdateWorkspace", "adminDeleteWorkspace",
                               "bulkWorkspaceAction"})

-----------------------------------------------------------------------------
\* The signed-in user's own pages

TokensPage == Page({"tokens"}, {"createToken", "regenerateToken", "revokeToken", "deleteToken"})

NotificationsPage ==
    Page({"notifications"}, {"markAsRead", "markAllAsRead", "deleteNotification",
                             "deleteNotifications"})

NotificationCenter ==
    Page({"unreadCount", "notifications"}, {"markAsRead", "markAllAsRead", "deleteNotification"})

SettingsServersPage == Page({"me", "plans", "environments"}, {"saveServerPrefs"})

SettingsNotificationsPage == Page({"me"}, {"saveNotificationPrefs"})

AppearancePage == Page({"me"}, {"saveTimezone"})

-----------------------------------------------------------------------------
Pages ==
    {ServersPage, AdminServersPage, ServerDetailPage, ScheduleDialog, ServerGatewayPage,
     DashboardPage, AdminUsersPage, UserProfilePage, CreditUsersTab, CreditRequestsTab,
     CreditSettingsTab, MyCreditsPage, AdminPlansPage, AccessManagementDialog,
     AdminEnvironmentsPage, AdminQuotasPage, QuotaDefaultsCard, MaintenanceWindowsPage,
     AdminSettingsPage, IPRestrictionsPage, VolumesPage, VolumeFileBrowser,
     AdminVolumesPage, WorkspacesPage, WorkspaceDetailPage, AdminWorkspacesPage,
     TokensPage, NotificationsPage, NotificationCenter, SettingsServersPage,
     SettingsNotificationsPage, AppearancePage}
=============================================================================
