----------------------------- MODULE Operations -----------------------------
(***************************************************************************)
(* What the pages of the web client let a user do, as data: for each form,  *)
(* row of a table, card and bulk action, the mutation it calls and          *)
(*   start   where it begins: a row, the ticked rows on screen, the whole   *)
(*           selection map, or the page itself                              *)
(*   ask     what comes first: nothing, a confirmation, a reason, a form    *)
(*   fan     one call for all its rows, or one call for each                *)
(*   close   what closes the form: the submission itself, the callback      *)
(*           given to mutate, the one of the hook, an awaited promise       *)
(*   tells   how the page reports a failure, beside the hook's own toast:   *)
(*           the callback given to mutate ("call"), a toast in a catch      *)
(*           ("catch") or in the page's own hook ("hook"), the observer's   *)
(*           error inside the form ("inline"), a text put into the form by  *)
(*           a catch or by the hook ("form") or into the page ("page")      *)
(*   clears  success empties the selection                                  *)
(*   held    what disables the control while a call is under way            *)
(*   paging  which rows the table around it holds                           *)
(* Layout, wording and the fields of the forms are left out.                *)
(***************************************************************************)
EXTENDS Pages

Op(m, start) ==
    [mutation |-> m, start |-> start, ask |-> "none", fan |-> "one", close |-> "never",
     tells |-> {}, clears |-> FALSE, held |-> "no", paging |-> "all"]

RowOp(m)  == Op(m, "row")
PageOp(m) == Op(m, "page")
BulkOp(m) == Op(m, "ticked")
MapOp(m)  == Op(m, "map")

Confirmed(o)    == [o EXCEPT !.ask = "confirm"]
Reasoned(o)     == [o EXCEPT !.ask = "reason"]
Form(o, close)  == [o EXCEPT !.ask = "form", !.close = close]
Each(o)         == [o EXCEPT !.fan = "each"]
Clearing(o)     == [o EXCEPT !.clears = TRUE]
Telling(o, how) == [o EXCEPT !.tells = {how}]

With(ops, control)    == {[o EXCEPT !.held = control] : o \in ops}
InTable(ops, paging)  == {[o EXCEPT !.paging = paging] : o \in ops}

\* Controls. "pending" is isPending of the mutation's observer, "other" that
\* of another component's, "busy" a flag around an await, "last row" a flag
\* that names the row, "start flag" one that only a failure takes back, "hook
\* marks" the pendingOps of use-servers, "own marks" a set of row ids kept by
\* the page, "valid" a test of the draft alone.
\* Button spreads its props after its own disabled: a disabled that is passed
\* replaces the test of loading.
Button(loading, disabled) == IF disabled = "absent" THEN loading ELSE disabled

\* ActionButton disables itself for either.
ActionButton(loading, disabled) == IF loading # "no" THEN loading ELSE disabled

-----------------------------------------------------------------------------
\* Servers

\* pendingOps of use-servers.ts: a mark per server, removed by the answer, by
\* a list that shows the target status, or by a timer.
PendingOps == "hook marks"

ServersTable == "client"

DeployServer       == {Telling(Form(PageOp("createServer"), "answer"), "inline")}
DeployServerButton == Button("pending", "valid")
EditServer         == {Telling(Form(RowOp("updateServer"), "answer"), "inline")}
EditServerButton   == Button("pending", "valid")

StartStopRestart == {"startServer", "stopServer", "restartServer"}

ServerRows ==
    With({RowOp(m) : m \in StartStopRestart} \cup {Confirmed(RowOp("deleteServer"))}, PendingOps)

ServerCards ==
    With({RowOp(m) : m \in StartStopRestart} \cup {Confirmed(RowOp("deleteServer"))}, PendingOps)

ServerBulk ==
    {Clearing(BulkOp("bulkServerAction")), Confirmed(Clearing(BulkOp("bulkServerAction")))}

\* Opening a stopped server starts it first and awaits the answer.
OpenServer == With({RowOp("startServer")}, PendingOps)

\* useServerActionsWithReason: another user's server needs a reason, one's own
\* does not.
WithReason(ms) == {RowOp(m) : m \in ms} \cup {Reasoned(RowOp(m)) : m \in ms}

\* A deletion is confirmed first, one's own or not.
DeleteWithReason == {Confirmed(RowOp("deleteServer")), Reasoned(RowOp("deleteServer"))}

AdminServerRows  == With(WithReason(StartStopRestart) \cup DeleteWithReason, PendingOps)
AdminServerCards == With(WithReason(StartStopRestart) \cup DeleteWithReason, PendingOps)
AdminServerBulk  ==
    {Clearing(BulkOp("bulkServerAction")), Reasoned(Clearing(BulkOp("bulkServerAction")))}

ServerDetailActions ==
    With(WithReason(StartStopRestart) \cup DeleteWithReason, PendingOps)

ScheduleForm == {Form(PageOp("createSchedule"), "submit")}
ScheduleRows == {Confirmed(RowOp("deleteSchedule"))}

\* isStarting of the gateway page: set before the reason is asked for.
GatewayStartButton ==
    With({PageOp("startFromGateway"), Reasoned(PageOp("startFromGateway"))}, "start flag")

ServerPageOps ==
    With(DeployServer, DeployServerButton) \cup With(EditServer, EditServerButton)
    \cup InTable(ServerRows \cup ServerCards \cup ServerBulk \cup OpenServer \cup AdminServerRows
                 \cup AdminServerCards \cup AdminServerBulk, ServersTable)
    \cup ServerDetailActions \cup ScheduleForm \cup ScheduleRows \cup GatewayStartButton
-----------------------------------------------------------------------------
\* Users and credits

UsersTable == "server"

UserForm ==
    {Form(PageOp("createUser"), "answer"), Form(RowOp("updateUser"), "answer")}
UserFormButton == Button("pending", "absent")
UserRows  == With({Confirmed(RowOp("deleteUser"))}, "pending")
UserCards == With({Confirmed(RowOp("deleteUser"))}, "pending")
UserBulk  == {Each(BulkOp("disableUser"))}

CreditAdjust ==
    {Form(RowOp("grantCredits"), "answer"), Form(RowOp("deductCredits"), "answer")}
CreditAdjustButton == Button("pending", "valid")

DailyAllowance       == {Form(RowOp("updateUserDailyAllowance"), "answer")}
DailyAllowanceButton == Button("pending", "valid")

AllowanceOverrideForm ==
    {Form(RowOp("setOverride"), "answer"), Form(RowOp("clearOverride"), "answer")}
AllowanceOverrideButton == Button("pending", "valid")
ClearOverrideButton     == Button("no", "pending")

\* The dialog is given every id of the selection map, on screen or not.
BulkCredit ==
    {Form(MapOp("bulkGrantCredits"), "answer"), Form(MapOp("bulkSetAllowance"), "answer")}
BulkCreditButton == Button("pending", "valid")

CreditUserRows  == {Confirmed(RowOp("setCreditRequestBlock"))}
CreditUserCards == {Confirmed(RowOp("setCreditRequestBlock"))}

ReviewRequest ==
    {Form(RowOp("approveRequest"), "answer"), Form(RowOp("rejectRequest"), "answer")}
ReviewRequestButton == Button("pending", "absent")
BulkReview        == {Confirmed(Clearing(MapOp("bulkReview")))}
BulkReviewButtons == Button("pending", "absent")

RequestCredits       == {Form(PageOp("createRequest"), "answer")}
RequestCreditsButton == Button("pending", "absent")
CancelRequestRows    == {Confirmed(RowOp("cancelRequest"))}

\* A message is typed into the thread, and the draft goes when it was sent.
ThreadMessage       == {Form(PageOp("addMessage"), "answer")}
ThreadMessageButton == Button("pending", "valid")

CreditSettingSave == {PageOp(m) : m \in CreditSettingNames}
CreditSettingRow  == Button("no", "pending")

UserPageOps ==
    InTable(With(UserForm, UserFormButton) \cup UserRows \cup UserCards \cup UserBulk
            \cup With(CreditAdjust, CreditAdjustButton)
            \cup With(DailyAllowance, DailyAllowanceButton)
            \cup With({o \in AllowanceOverrideForm : o.mutation = "setOverride"},
                      AllowanceOverrideButton)
            \cup With({o \in AllowanceOverrideForm : o.mutation = "clearOverride"},
                      ClearOverrideButton)
            \cup With(BulkCredit, BulkCreditButton) \cup CreditUserRows \cup CreditUserCards,
            UsersTable)
    \cup InTable(With(ReviewRequest, ReviewRequestButton) \cup With(BulkReview, BulkReviewButtons),
                 "server")
    \cup With(RequestCredits, RequestCreditsButton) \cup CancelRequestRows
    \cup With(ThreadMessage, ThreadMessageButton) \cup With(CreditSettingSave, CreditSettingRow)
-----------------------------------------------------------------------------
\* Plans, environments, quotas, settings

\* Both catalogue forms close as they are submitted.
PlanForm       == {Form(PageOp("createPlan"), "submit"), Form(RowOp("updatePlan"), "submit")}
PlanFormButton == Button("pending", "absent")
PlanRows ==
    With({RowOp("activatePlan"), RowOp("deactivatePlan"), Confirmed(RowOp("deletePlan"))}, "pending")
PlanCards ==
    With({RowOp("activatePlan"), RowOp("deactivatePlan"), Confirmed(RowOp("deletePlan"))}, "pending")
PlanBulk == {Each(BulkOp("activatePlan")), Each(BulkOp("deactivatePlan"))}

AccessGrants  == With({PageOp("grantUserAccess"), PageOp("grantWorkspaceAccess")},
                      Button("pending", "pending"))
AccessColumns == With({RowOp("revokeUserAccess"), RowOp("revokeWorkspaceAccess")}, "pending")
AccessCards   == With({RowOp("revokeUserAccess"), RowOp("revokeWorkspaceAccess")}, "pending")

EnvironmentForm ==
    {Form(PageOp("createEnvironment"), "submit"), Form(RowOp("updateEnvironment"), "submit")}
EnvironmentFormButton == Button("pending", "absent")
EnvironmentRows ==
    With({RowOp("activateEnvironment"), RowOp("deactivateEnvironment"),
          Reasoned(RowOp("cloneEnvironment")), Confirmed(RowOp("deleteEnvironment"))}, "pending")
EnvironmentCards ==
    With({RowOp("activateEnvironment"), RowOp("deactivateEnvironment"),
          Reasoned(RowOp("cloneEnvironment")), Confirmed(RowOp("deleteEnvironment"))}, "pending")
EnvironmentBulk == {Each(BulkOp("activateEnvironment")), Each(BulkOp("deactivateEnvironment"))}

QuotaForm       == {Form(RowOp("updateQuota"), "answer")}
QuotaFormButton == Button("pending", "absent")
QuotaDefaults   == With({PageOp("updateSystemQuotaDefaults")}, Button("pending", "pending"))

\* The window form awaits its call and shows the error it catches.
WindowForm ==
    {Telling(Form(PageOp("createWindow"), "await"), "form"),
     Telling(Form(RowOp("updateWindow"), "await"), "form")}
WindowFormButton == Button("no", "pending")
WindowToggle     == {Telling(RowOp("updateWindow"), "catch")}
WindowDelete     == {Telling(Confirmed(RowOp("deleteWindow")), "catch")}
WindowRows       == With(WindowToggle, "pending") \cup WindowDelete
WindowCards      == With(WindowToggle, "pending") \cup WindowDelete
MaintenanceSwitch == With({PageOp("updateSystemConfig")}, "pending")

\* The restriction form is closed, and its error shown, by the hook.
RestrictionForm       == {Telling(Form(PageOp("createIpRestriction"), "hook"), "form")}
RestrictionFormButton == Button("no", "pending")
RestrictionRows       == {Confirmed(RowOp("deleteIpRestriction"))}

TestEmail     == With({Telling(PageOp("testEmail"), "call")}, Button("no", "pending"))
SaveRetention == With({Telling(PageOp("updateRetention"), "call")}, Button("no", "pending"))

\* saveRole and the flag that names the role being saved.
SaveRole       == {Telling(RowOp("saveRole"), "page")}
SaveRoleButton == Button("last row", "absent")

CataloguePageOps ==
    InTable(With(PlanForm, PlanFormButton) \cup PlanRows \cup PlanCards \cup PlanBulk
            \cup With(EnvironmentForm, EnvironmentFormButton) \cup EnvironmentRows
            \cup EnvironmentCards \cup EnvironmentBulk \cup With(QuotaForm, QuotaFormButton),
            "server")
    \cup AccessGrants \cup InTable(AccessColumns \cup AccessCards, "client") \cup QuotaDefaults
    \cup InTable(With(WindowForm, WindowFormButton) \cup WindowRows \cup WindowCards, "server")
    \cup MaintenanceSwitch
    \cup InTable(With(RestrictionForm, RestrictionFormButton) \cup RestrictionRows, "server")
    \cup TestEmail \cup SaveRetention \cup With(SaveRole, SaveRoleButton)
-----------------------------------------------------------------------------
\* Volumes and workspaces

\* refreshingIds and deletingIds: the callback given to mutate unmarks a row.
VolumeMarks == "own marks"

\* createError and editError of the page are set by its own checks only.
VolumeForm ==
    {Form(PageOp("createVolume"), "answer"), Form(RowOp("updateVolume"), "answer")}
CreateVolumeButton == Button("pending", "absent")
EditVolumeButton   == Button("pending", "absent")
VolumeRefresh      == With({RowOp("refreshVolumeSize")}, VolumeMarks)
VolumeDelete       == {Confirmed(RowOp("deleteVolume"))}

FileDelete == With({Telling(Confirmed(RowOp("deleteVolumeFile")), "catch")}, "last row")

AdminVolumeForm       == {Form(RowOp("adminUpdateVolume"), "answer")}
AdminVolumeFormButton == Button("pending", "absent")
AdminVolumeRows       ==
    With({RowOp("adminRefreshSize"), Confirmed(RowOp("adminDeleteVolume"))}, VolumeMarks)
AdminVolumeCards      ==
    With({RowOp("adminRefreshSize"), Confirmed(RowOp("adminDeleteVolume"))}, VolumeMarks)
AdminVolumeBulk       ==
    {Clearing(BulkOp("bulkVolumeAction")), Confirmed(Clearing(BulkOp("bulkVolumeAction")))}
RefreshAllSizes       == With({PageOp("refreshAllSizes")}, ActionButton("pending", "no"))

CreateWorkspace       == {Form(PageOp("createWorkspace"), "answer")}
CreateWorkspaceButton == Button("pending", "absent")
DeleteWorkspace       == {Confirmed(RowOp("deleteWorkspace"))}
PinWorkspace          == {RowOp("updatePins")}

InviteMember       == {Form(PageOp("inviteMember"), "answer")}
InviteMemberButton == Button("pending", "valid")

\* A volume attached elsewhere is confirmed while the form stays open.
AddVolume         == {Form(PageOp("addVolume"), "answer")}
AddVolumeButton   == Button("pending", "valid")
LeaveWorkspace    == With({Confirmed(PageOp("leaveWorkspace"))}, Button("pending", "absent"))
TransferOwnership == {Form(PageOp("transferOwnership"), "answer")}
TransferButton    == Button("pending", "valid")
EditWorkspace     == With({Form(PageOp("updateWorkspace"), "answer")}, Button("pending", "absent"))
InvitationView    == With({PageOp("acceptInvitation"), PageOp("rejectInvitation")},
                          Button("pending", "absent"))
MemberRows        == {RowOp("updateMemberRole"), Confirmed(RowOp("removeMember"))}
MemberCards       == {RowOp("updateMemberRole"), Confirmed(RowOp("removeMember"))}
WorkspaceVolumeRows  == {RowOp("updateVolumeRole"), Confirmed(RowOp("removeVolume"))}
WorkspaceVolumeCards == {RowOp("updateVolumeRole"), Confirmed(RowOp("removeVolume"))}
CancelInvitation  == {Confirmed(RowOp("cancelInvitation"))}

AdminWorkspaceForm       == {Form(RowOp("adminUpdateWorkspace"), "answer")}
AdminWorkspaceFormButton == Button("pending", "absent")
AdminWorkspaceRows       == With({Confirmed(RowOp("adminDeleteWorkspace"))}, "pending")
AdminWorkspaceCards      == {Confirmed(RowOp("adminDeleteWorkspace"))}
AdminWorkspaceBulk       ==
    {Clearing(BulkOp("bulkWorkspaceAction")), Confirmed(Clearing(BulkOp("bulkWorkspaceAction")))}

StoragePageOps ==
    With({o \in VolumeForm : o.start = "page"}, CreateVolumeButton)
    \cup With({o \in VolumeForm : o.start = "row"}, EditVolumeButton)
    \cup VolumeRefresh \cup VolumeDelete \cup FileDelete \cup RefreshAllSizes
    \cup InTable(With(AdminVolumeForm, AdminVolumeFormButton) \cup AdminVolumeRows
                 \cup AdminVolumeCards \cup AdminVolumeBulk
                 \cup With(AdminWorkspaceForm, AdminWorkspaceFormButton) \cup AdminWorkspaceRows
                 \cup AdminWorkspaceCards \cup AdminWorkspaceBulk, "server")
    \cup With(CreateWorkspace, CreateWorkspaceButton) \cup DeleteWorkspace \cup PinWorkspace
    \cup With(InviteMember, InviteMemberButton) \cup With(AddVolume, AddVolumeButton)
    \cup LeaveWorkspace \cup With(TransferOwnership, TransferButton) \cup EditWorkspace
    \cup InvitationView
    \cup InTable(MemberRows \cup MemberCards \cup WorkspaceVolumeRows \cup WorkspaceVolumeCards,
                 "server")
    \cup CancelInvitation

-----------------------------------------------------------------------------
\* The signed-in user's own pages

\* The form calls the hook itself and watches isPending of the page's.
CreateToken       == {Form(PageOp("createToken"), "answer")}
CreateTokenButton == Button("other", "absent")
TokenCards ==
    {Confirmed(RowOp(m)) : m \in {"regenerateToken", "revokeToken", "deleteToken"}}
TokenCardButtons == Button("no", "pending")

NotificationBulk ==
    With({Clearing(MapOp("deleteNotifications")), PageOp("deleteNotifications"),
          Confirmed(PageOp("deleteNotifications"))}, "pending")
NotificationRows   == {RowOp("markAsRead"), RowOp("deleteNotification")}
NotificationPanel  == {PageOp("markAllAsRead"), RowOp("markAsRead"), RowOp("deleteNotification")}

\* Calls of the API without a hook.
EditProfile      == With({Telling(Form(PageOp("saveProfile"), "await"), "catch")},
                         Button("busy", "absent"))
SyncProfile      == With({Telling(PageOp("syncProfile"), "catch")}, Button("busy", "busy"))
ToggleVisibility == With({Telling(PageOp("toggleVisibility"), "catch")}, "busy")
UploadAvatar     == With({Telling(Form(PageOp("uploadAvatar"), "await"), "catch")},
                         Button("busy", "absent"))
RemoveAvatar     == {Telling(Form(PageOp("removeAvatar"), "await"), "catch")}

PushSwitch ==
    With({Telling(PageOp("subscribePush"), "hook"), Telling(PageOp("unsubscribePush"), "hook")},
         "pending")

OwnPageOps ==
    With(CreateToken, CreateTokenButton) \cup With(TokenCards, TokenCardButtons)
    \cup NotificationBulk \cup NotificationRows \cup NotificationPanel
    \cup EditProfile \cup SyncProfile \cup ToggleVisibility \cup UploadAvatar \cup RemoveAvatar
    \cup PushSwitch

-----------------------------------------------------------------------------
AllOps == ServerPageOps \cup UserPageOps \cup CataloguePageOps \cup StoragePageOps \cup OwnPageOps
=============================================================================
