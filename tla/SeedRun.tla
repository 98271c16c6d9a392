------------------------------- MODULE SeedRun -------------------------------
(***************************************************************************)
(* seedDatabase: the rows that a first run writes and a later run leaves to *)
(* the owner of the store.  The statements of a run commit one by one.  One *)
(* row stands for each kind of demo data, and one for a variant that the    *)
(* owner adds to a seeded product.                                          *)
(***************************************************************************)
EXTENDS Naturals, Sequences

CONSTANTS
    MostEdits    \* bound on the changes of the owner

ASSUME SeedAssumption == MostEdits \in Nat

VARIABLES
    seeded,   \* per kind: absent, as seeded, or as the owner left it; bare: a role without
              \* permissions, a variant switched off
    admin,    \* the account admin@rive.com and whether it has a roleId
    run,      \* the seed run in progress: the work left
    first,    \* it took the database for a new one
    settled,  \* history: what the owner changed on a database that was seeded
    edits     \* the number of these changes

seedVars == << seeded, admin, run, first, settled, edits >>

SeedRoles == {"full_admin", "sales", "support"}

Step(do, on) == [ do |-> do, on |-> on ]

\* upsert whose update writes what is seeded.
ListWork     == << Step("write", "list"), Step("write", "list item") >>
CategoryWork == << Step("write", "category") >>
TemplateWork == << Step("write", "template") >>

\* findFirst before a create, or an upsert with update: {}.
UserWork     == << Step("keep", "user") >>
WorkflowWork == << Step("keep", "workflow"), Step("ask", "approval"), Step("keep", "automation run") >>
PageWork     == << Step("keep", "page") >>

\* Each in a try of its own: a failure is logged and the run goes on.
ProductWork == << Step("product", "product"), Step("try", "images"), Step("try", "variant"),
                  Step("stale", "own variant") >>
SyncWork    == << Step("keep", "category item") >>
ZoneWork    == << Step("city", "city zone"), Step("try", "zone") >>

DataWork == UserWork \o ListWork \o CategoryWork \o ProductWork \o SyncWork \o WorkflowWork
                \o ZoneWork \o TemplateWork \o PageWork

DataDo    == { DataWork[i].do : i \in DOMAIN DataWork }
Touchable == SeedRoles \cup { DataWork[i].on : i \in DOMAIN DataWork }
SeedSteps == [ do : { "upsert", "clear", "grant", "admin", "repair" } \cup DataDo,
               on : Touchable \cup {"account"} ]

SeedTypeOK ==
    /\ seeded \in [ Touchable -> {"absent", "bare", "seeded", "owner"} ]
    /\ admin \in {"absent", "without role", "with role"}
    /\ \A i \in DOMAIN run : run[i] \in SeedSteps
    /\ first \in BOOLEAN
    /\ settled \in [ Touchable -> {"unknown", "absent", "owner"} ]
    /\ edits \in 0 .. MostEdits

Forgotten == [ k \in Touchable |-> "unknown" ]

SeedInit ==
    /\ seeded = [ k \in Touchable |-> "absent" ]
    /\ admin = "absent"
    /\ run = << >> /\ first = FALSE
    /\ settled = Forgotten /\ edits = 0

-----------------------------------------------------------------------------
(* seedDatabase                                                             *)

NoRoles == \A r \in SeedRoles : seeded[r] = "absent"

\* Mutant: every run writes all data.
AlwaysFirst(force) == TRUE

\* force: SEED_FORCE=true.
IsFirstSeedRun(force) == force \/ NoRoles

\* upsert, deleteMany and createMany.
RoleWork(r) == << Step("upsert", r), Step("clear", r), Step("grant", r) >>

\* The upserts of the permissions, which come first, are PermissionSync's SeedKey.
FirstWork ==
    RoleWork("full_admin") \o RoleWork("sales") \o RoleWork("support") \o << Step("admin", "account") >>
        \o DataWork

LaterWork == RoleWork("full_admin") \o << Step("repair", "account") >>

StartRun(force) ==
    /\ run = << >>
    /\ first' = IsFirstSeedRun(force)
    /\ run' = IF first' THEN FirstWork ELSE LaterWork
    /\ settled' = IF force THEN Forgotten ELSE [settled EXCEPT !["full_admin"] = "unknown"]
    /\ UNCHANGED << seeded, admin, edits >>

\* The run throws or is stopped.
StopRun ==
    /\ run # << >> /\ run' = << >> /\ first' = FALSE
    /\ UNCHANGED << seeded, admin, settled, edits >>

Do(what) ==
    /\ run # << >> /\ Head(run).do = what
    /\ run' = Tail(run) /\ first' = (first /\ Tail(run) # << >>)
    /\ UNCHANGED << settled, edits >>

Subject == Head(run).on

IfAbsent(k, new) == IF seeded[k] = "absent" THEN new ELSE seeded[k]
Writes(k, value) == seeded' = [seeded EXCEPT ![k] = value] /\ UNCHANGED admin

\* Of a role: its permissions stay.
Upsert     == Do("upsert") /\ Writes(Subject, IfAbsent(Subject, "bare"))
WriteData  == Do("write") /\ Writes(Subject, "seeded")
KeepData   == Do("keep") /\ Writes(Subject, IfAbsent(Subject, "seeded"))
TryToWrite == Do("try") /\ \E value \in {"seeded", seeded[Subject]} : Writes(Subject, value)

\* Not for a workflow that its owner has switched off or trusts.
SeedApproval ==
    Do("ask") /\ \E value \in {"seeded"} \cup (IF seeded["workflow"] = "owner" THEN {"absent"} ELSE {}) :
        Writes("approval", IfAbsent("approval", value))

\* If it fails, the product's images and variants are skipped.
WriteProduct ==
    \/ Do("product") /\ Writes("product", "seeded")
    \/ /\ run # << >> /\ Head(run).do = "product"
       /\ run' = SubSeq(run, 1 + Len(ProductWork), Len(run))
       /\ UNCHANGED << seeded, admin, first, settled, edits >>

\* A variant that the seed does not list is deleted, or switched off if it has been ordered.
DropStaleVariant ==
    Do("stale") /\ \E value \in {"absent", "bare", seeded["own variant"]} :
        Writes("own variant", IF seeded["own variant"] = "absent" THEN "absent" ELSE value)

\* For the cities of the orders there are; also in a try.
MigrateCities ==
    Do("city") /\ \E value \in {"absent", "seeded"} : Writes("city zone", IfAbsent("city zone", value))

ClearGrants ==
    /\ Do("clear")
    /\ Writes(Subject, IF seeded[Subject] = "absent" THEN "absent" ELSE "bare")

\* createMany fails if the role has been deleted meanwhile.
WriteGrants ==
    /\ Do("grant") /\ seeded[Subject] # "absent"
    /\ Writes(Subject, "seeded")

\* The account is created, or gets the role that it lacks.
WriteAdmin ==
    /\ Do("admin") /\ admin' = "with role"
    /\ UNCHANGED seeded

\* Later runs never create it.
RepairAdmin ==
    /\ Do("repair") /\ admin' = IF admin = "without role" THEN "with role" ELSE admin
    /\ UNCHANGED seeded

-----------------------------------------------------------------------------
(* The owner, through the administration                                    *)

\* What the owner does while a first run writes may be written over: that is left out.
OwnerMay(k) ==
    /\ ~first /\ (seeded[k] # "absent" \/ (k = "own variant" /\ seeded["product"] # "absent"))
    /\ edits < MostEdits /\ edits' = edits + 1
    /\ UNCHANGED << admin, run, first >>

\* deleteRole refuses full_admin; a product is only marked as deleted.
Deletable == { "sales", "support", "list item", "category", "images", "variant", "own variant",
               "category item", "city zone", "zone" }

OwnerDeletes(k) ==
    /\ k \in Deletable /\ OwnerMay(k)
    /\ seeded' = [seeded EXCEPT ![k] = "absent"] /\ settled' = [settled EXCEPT ![k] = "absent"]

\* The run in progress is about to write the role full_admin anew, as every run does.
WritesFullAdmin == \E i \in DOMAIN run : run[i].on = "full_admin"

\* Of a role: setRolePermissions and updateRole.
OwnerEdits(k) ==
    /\ k \notin { "list", "automation run" } /\ OwnerMay(k)
    /\ seeded' = [seeded EXCEPT ![k] = "owner"]
    /\ settled' = [settled EXCEPT ![k] = IF k = "full_admin" /\ WritesFullAdmin THEN "unknown" ELSE "owner"]

AdminLosesRole ==
    /\ admin = "with role" /\ admin' = "without role"
    /\ UNCHANGED << seeded, run, first, settled, edits >>

SeedNext ==
    \/ \E force \in BOOLEAN : StartRun(force)
    \/ StopRun \/ Upsert \/ WriteData \/ KeepData \/ TryToWrite \/ SeedApproval \/ WriteProduct
    \/ DropStaleVariant \/ MigrateCities \/ ClearGrants \/ WriteGrants \/ WriteAdmin \/ RepairAdmin
    \/ \E k \in Touchable : OwnerDeletes(k) \/ OwnerEdits(k)
    \/ AdminLosesRole

SeedSpec == SeedInit /\ [][SeedNext]_seedVars

-----------------------------------------------------------------------------
\* "Things the store owner deleted or edited are not brought back by later runs", unless
\* SEED_FORCE asks for it; wherever earlier runs, the first one included, were stopped.  What
\* the owner makes of full_admin only stands until the next run.
OwnerDecides == \A k \in Touchable : settled[k] # "unknown" => seeded[k] = settled[k]

\* A stop, or an edit by the owner, leaves full_admin without the whole catalog only until
\* the next run has come that far.
FullAdminHoldsCatalog ==
    run # << >> /\ Len(run) <= Len(LaterWork) - 3 /\ ~first /\ settled["full_admin"] = "unknown"
        => seeded["full_admin"] = "seeded"

SeedingSparesOwner == OwnerDecides /\ FullAdminHoldsCatalog
=============================================================================
