---------------------------- MODULE StoreSettings ----------------------------
(***************************************************************************)
(* SettingsService: maintenance mode, which two rows hold, and the two-     *)
(* factor duty of administrators.  A row that does not exist yet reads as   *)
(* if everything in it were off.                                            *)
(***************************************************************************)
CONSTANT SettingsCalls    \* calls of administrators that may overlap

VARIABLES
    siteRow,      \* SiteSettings: isMaintenanceMode
    systemRow,    \* SystemSettings: maintenanceMode and enforce2FAGlobally
    settingsCall,
    torn          \* history: two switches overlapped or one stopped, and none since was alone

settingsVars == << siteRow, systemRow, settingsCall, torn >>

NoSettingsCall == [ pc |-> "idle", value |-> FALSE, last |-> FALSE ]

SettingsTypeOK ==
    /\ siteRow \in {"none", "on", "off"}
    /\ systemRow \in [ exists : BOOLEAN, maintenance : BOOLEAN, duty : BOOLEAN ]
    /\ settingsCall \in [ SettingsCalls -> [ pc : {"idle", "site", "system"},
                                             value : BOOLEAN, last : BOOLEAN ] ]
    /\ torn \in BOOLEAN

SettingsInit ==
    /\ siteRow = "none"
    /\ systemRow = [ exists |-> FALSE, maintenance |-> FALSE, duty |-> FALSE ]
    /\ settingsCall = [ c \in SettingsCalls |-> NoSettingsCall ]
    /\ torn = FALSE

NoSwitchRuns == \A c \in SettingsCalls : settingsCall[c].pc = "idle"

-----------------------------------------------------------------------------
\* getSiteSettings: the first reader creates the row; update: {} leaves one that exists.
GetSiteSettings ==
    /\ siteRow = "none" /\ siteRow' = "off"
    /\ UNCHANGED << systemRow, settingsCall, torn >>

\* updateSiteSettings with isMaintenanceMode; last: setMaintenanceMode, which writes the
\* second row once more.
Switch(c, value, last) ==
    /\ settingsCall[c].pc = "idle"
    /\ settingsCall' = [settingsCall EXCEPT ![c] = [ pc |-> "site", value |-> value, last |-> last ]]
    /\ torn' = ~NoSwitchRuns
    /\ UNCHANGED << siteRow, systemRow >>

WriteSite(c) ==
    /\ settingsCall[c].pc = "site"
    /\ siteRow' = (IF settingsCall[c].value THEN "on" ELSE "off")
    /\ settingsCall' = [settingsCall EXCEPT ![c].pc = "system"]
    /\ UNCHANGED << systemRow, torn >>

WriteSystem(c) ==
    /\ settingsCall[c].pc = "system"
    /\ systemRow' = [systemRow EXCEPT !.exists = TRUE, !.maintenance = settingsCall[c].value]
    /\ settingsCall' = [settingsCall EXCEPT ![c] =
                          IF settingsCall[c].last THEN [@ EXCEPT !.last = FALSE] ELSE NoSettingsCall]
    /\ UNCHANGED << siteRow, torn >>

\* A statement fails or the process stops.
StopSwitch(c) ==
    /\ settingsCall[c].pc # "idle"
    /\ settingsCall' = [settingsCall EXCEPT ![c] = NoSettingsCall]
    /\ torn' = TRUE
    /\ UNCHANGED << siteRow, systemRow >>

SetEnforce2FA(duty) ==
    /\ systemRow' = [systemRow EXCEPT !.exists = TRUE, !.duty = duty]
    /\ UNCHANGED << siteRow, settingsCall, torn >>

SettingsNext ==
    \/ GetSiteSettings
    \/ \E c \in SettingsCalls :
        \/ \E value, last \in BOOLEAN : Switch(c, value, last)
        \/ WriteSite(c) \/ WriteSystem(c) \/ StopSwitch(c)
    \/ \E duty \in BOOLEAN : SetEnforce2FA(duty)

SettingsSpec == SettingsInit /\ [][SettingsNext]_settingsVars

-----------------------------------------------------------------------------
\* MaintenanceGuard asks getMaintenanceMode, that is SiteSettings alone; the panel shows
\* getSettings, either row.
GuardCloses == siteRow = "on"
PanelShows  == siteRow = "on" \/ systemRow.maintenance

\* After switches that neither overlapped nor stopped half-way, the panel shows what the
\* guard does, whoever read the defaults or set the two-factor duty in between.
SwitchesAgree == NoSwitchRuns /\ ~torn => PanelShows = GuardCloses
=============================================================================
