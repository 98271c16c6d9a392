--------------------------- MODULE PermissionSync ---------------------------
(***************************************************************************)
(* PermissionsService.syncPermissionCatalog: at start, and when the list of *)
(* permissions is opened, an instance of the application brings the tables  *)
(* Permission and RolePermission from the coarse keys of an earlier release *)
(* to the catalog.  Its statements are not in a transaction, several        *)
(* instances start at once, and a seed run may write the catalog meanwhile. *)
(***************************************************************************)
CONSTANTS
    Keys,         \* permission keys, old and new
    Catalog,      \* PERMISSION_CATALOG
    Expands,      \* LEGACY_PERMISSION_MAP: coarse key -> its replacements
    ExtraGrants,  \* LEGACY_EXTRA_GRANTS: key that meant more -> the keys split off it
    SplitKey,     \* "reviews.view": it is missing before the split and only then
    Groups,       \* roles besides full_admin
    Superuser,    \* full_admin
    Instances     \* instances of the application

\* In permission-catalog.ts what a key is replaced by, or split into, is in the catalog and is
\* not split itself.
ASSUME PermissionSyncAssumption ==
    /\ Catalog \subseteq Keys /\ SplitKey \in Catalog \ DOMAIN ExtraGrants
    /\ DOMAIN Expands \subseteq Keys \ Catalog /\ DOMAIN ExtraGrants \subseteq Catalog
    /\ \A k \in DOMAIN Expands : Expands[k] \subseteq Catalog \ DOMAIN ExtraGrants
    /\ \A k \in DOMAIN ExtraGrants : ExtraGrants[k] \subseteq Catalog \ DOMAIN ExtraGrants
    /\ Superuser \notin Groups

VARIABLES
    known,  \* the Permission rows
    holds,  \* the RolePermission rows
    sync,   \* what each instance has read and does next
    had,    \* history: what the roles held before the release
    cutShort \* history: the split that SplitKey stands for was not carried out to its end

syncVars == << known, holds, sync, had, cutShort >>

Legacy == DOMAIN Expands
Holders == Groups \cup {Superuser}

SyncStates ==
    [ pc : {"idle", "create", "holders", "grant", "superuser", "drop grants", "drop keys"},
      legacy : SUBSET Legacy,                 \* legacyRows
      missing : SUBSET Catalog,
      preSplit : BOOLEAN,
      grants : SUBSET (Groups \X Keys) ]      \* grants

IdleSync == [ pc |-> "idle", legacy |-> {}, missing |-> {}, preSplit |-> FALSE, grants |-> {} ]

SyncTypeOK ==
    /\ known \in SUBSET Keys
    /\ holds \in [Holders -> SUBSET Keys]
    /\ sync \in [Instances -> SyncStates]
    /\ had \in [Groups -> SUBSET Keys] /\ cutShort \in BOOLEAN

\* A database of one of the releases before: keys that meant more, with or without coarse ones.
SyncInit ==
    /\ known \in { DOMAIN ExtraGrants, DOMAIN ExtraGrants \cup Legacy }
    /\ had \in [Groups -> SUBSET known]
    /\ holds = [ r \in Holders |-> IF r = Superuser THEN known ELSE had[r] ]
    /\ sync = [ i \in Instances |-> IdleSync ] /\ cutShort = FALSE

-----------------------------------------------------------------------------
SyncAt(i, pc)   == sync[i].pc = pc
SyncGoto(i, pc) == sync' = [sync EXCEPT ![i].pc = pc]

\* findMany of the permissions; nothing to do if all are there and no coarse one is.
ReadKeys(i) ==
    /\ SyncAt(i, "idle")
    /\ ~(Catalog \subseteq known /\ known \cap Legacy = {})
    /\ sync' = [sync EXCEPT ![i] =
                 [ pc |-> "create", legacy |-> known \cap Legacy, missing |-> Catalog \ known,
                   preSplit |-> SplitKey \notin known, grants |-> {} ]]
    /\ UNCHANGED << known, holds, had, cutShort >>

CreateMissing(i) ==
    /\ SyncAt(i, "create")
    /\ known' = known \cup sync[i].missing
    /\ SyncGoto(i, IF sync[i].legacy # {} \/ sync[i].preSplit THEN "holders" ELSE "superuser")
    /\ UNCHANGED << holds, had, cutShort >>

\* Mutant: the keys that were split off are not granted.
OnlyExpanded(i, key) == IF key \in Legacy THEN Expands[key] ELSE {}

\* What a holder of key gets.
Targets(i, key) ==
    IF key \in Legacy THEN Expands[key]
    ELSE IF sync[i].preSplit /\ key \in DOMAIN ExtraGrants THEN ExtraGrants[key] ELSE {}

ReadHolders(i) ==
    /\ SyncAt(i, "holders")
    /\ sync' = [sync EXCEPT ![i].pc = "grant", ![i].grants =
                 { g \in Groups \X Keys : \E key \in holds[g[1]] : g[2] \in Targets(i, key) }]
    /\ UNCHANGED << known, holds, had, cutShort >>

\* createMany with skipDuplicates.
GrantTargets(i) ==
    /\ SyncAt(i, "grant")
    /\ holds' = [ r \in Holders |-> holds[r] \cup { k \in Keys : << r, k >> \in sync[i].grants } ]
    /\ SyncGoto(i, "superuser")
    /\ UNCHANGED << known, had, cutShort >>

GrantSuperuser(i) ==
    /\ SyncAt(i, "superuser")
    /\ holds' = [holds EXCEPT ![Superuser] = @ \cup Catalog]
    /\ IF sync[i].legacy = {} THEN sync' = [sync EXCEPT ![i] = IdleSync]
                              ELSE SyncGoto(i, "drop grants")
    /\ UNCHANGED << known, had, cutShort >>

DropGrants(i) ==
    /\ SyncAt(i, "drop grants")
    /\ holds' = [ r \in Holders |-> holds[r] \ sync[i].legacy ]
    /\ SyncGoto(i, "drop keys")
    /\ UNCHANGED << known, had, cutShort >>

DropKeys(i) ==
    /\ SyncAt(i, "drop keys")
    /\ known' = known \ sync[i].legacy
    /\ holds' = [ r \in Holders |-> holds[r] \ sync[i].legacy ]
    /\ sync' = [sync EXCEPT ![i] = IdleSync]
    /\ UNCHANGED << had, cutShort >>

\* The instance stops, or a statement fails: onModuleInit catches that and starts anyway.
SyncStops(i) ==
    /\ ~SyncAt(i, "idle") /\ sync' = [sync EXCEPT ![i] = IdleSync]
    /\ cutShort' = (cutShort \/ (sync[i].preSplit /\ sync[i].pc \in {"holders", "grant", "superuser"}))
    /\ UNCHANGED << known, holds, had >>

\* seedDatabase, on every run: an upsert per key.  Its work on the roles is in SeedRun.
SeedKey(k) ==
    /\ known' = known \cup {k}
    /\ cutShort' = (cutShort \/ (k = SplitKey /\ SplitKey \notin known))
    /\ UNCHANGED << holds, sync, had >>

SyncNext ==
    \/ \E k \in Catalog : SeedKey(k)
    \/ \E i \in Instances :
        \/ ReadKeys(i) \/ CreateMissing(i) \/ ReadHolders(i) \/ GrantTargets(i)
        \/ GrantSuperuser(i) \/ DropGrants(i) \/ DropKeys(i) \/ SyncStops(i)

SyncSpec == SyncInit /\ [][SyncNext]_syncVars

-----------------------------------------------------------------------------
\* What the keys of the release before amount to in the catalog, without what was split off
\* and with it.
Replacement(keys) == (keys \ Legacy) \cup (UNION { Expands[k] : k \in keys \cap Legacy })
Equivalent(keys)  == Replacement(keys) \cup (UNION { ExtraGrants[k] : k \in keys \cap DOMAIN ExtraGrants })

\* Nothing is left to do, and nobody is doing it.
Synchronised ==
    /\ Catalog \subseteq known /\ known \cap Legacy = {}
    /\ \A i \in Instances : SyncAt(i, "idle")

\* However the instances overlap, stop and are joined by a seed run: once nothing is left to
\* do, every role has the replacements of its old keys, and no more than these amounted to; and
\* it has all of that, and the superuser the whole catalog, unless the split was cut short.
AccessKept ==
    Synchronised =>
        /\ \A r \in Groups : Replacement(had[r]) \subseteq holds[r] /\ holds[r] \subseteq Equivalent(had[r])
        /\ ~cutShort => /\ \A r \in Groups : Equivalent(had[r]) \subseteq holds[r]
                        /\ Catalog \subseteq holds[Superuser]

\* syncPermissionCatalog: "so nobody gains or loses access".
NobodyLosesAccess == Synchronised => \A r \in Groups : Equivalent(had[r]) \subseteq holds[r]
=============================================================================
