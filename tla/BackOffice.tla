------------------------------ MODULE BackOffice ------------------------------
(***************************************************************************)
(* The services that keep single rows for the back office: reviews, notes,  *)
(* suppliers, expenses, lists, banners, bundles, collections, pages and     *)
(* message templates.  Each call looks the row up or does not, writes it by *)
(* id, and then adds an entry to the audit log, each with a statement of    *)
(* its own.  AuditLogService.record never fails: an entry that cannot be    *)
(* written is logged and left out.                                          *)
(*                                                                          *)
(* One service and one of its rows are followed; an id is used once.        *)
(***************************************************************************)
EXTENDS Naturals

CONSTANTS
    Clerks,       \* calls that may overlap
    Days,         \* dates of a banner
    MostChanges   \* bound on the calls

ASSUME BackOfficeAssumption ==
    /\ Days \subseteq Nat /\ MostChanges \in Nat
    /\ \E first, last \in Days : first < last /\ \A d \in Days : first <= d /\ d <= last

VARIABLES
    service,   \* the service that is followed
    entry,     \* the row
    supplier,  \* the supplier that an expense may name
    clerk,     \* the calls in progress
    made,      \* history: rows written, per operation
    trail,     \* entries of the audit log, per operation
    missing    \* history: a call stopped before its entry, or an entry could not be written

officeVars == << service, entry, supplier, clerk, made, trail, missing >>

Operations == {"create", "update", "remove"}

-----------------------------------------------------------------------------
(* The services: whether a call looks its row up, whether a removal only    *)
(* marks the row, the operations, and those without an entry in the log     *)

Keeps(looks, marks, ops, silent) == [ looks |-> looks, marks |-> marks, ops |-> ops, silent |-> silent ]

\* Customers write reviews; setApproval and removeReview are the administrators'.
Reviews     == Keeps(TRUE, FALSE, Operations, {"create"})
Notes       == Keeps(TRUE, FALSE, Operations, {})
Suppliers   == Keeps(TRUE, TRUE,  Operations, {})
Expenses    == Keeps(TRUE, FALSE, Operations, {})
\* deactivateItem is an update.
ListItems   == Keeps(FALSE, FALSE, Operations, {})
Banners     == Keeps(TRUE, FALSE, Operations, {})
Bundles     == Keeps(TRUE, FALSE, Operations, {})
Collections == Keeps(TRUE, FALSE, Operations, {})
\* Created by the seed.
Pages       == Keeps(TRUE, FALSE, {"update"}, {})
Templates   == Keeps(TRUE, FALSE, {"update"}, {})

Services == [ review |-> Reviews, note |-> Notes, supplier |-> Suppliers, expense |-> Expenses,
              listItem |-> ListItems, banner |-> Banners, bundle |-> Bundles,
              collection |-> Collections, page |-> Pages, template |-> Templates ]

Rules == Services[service]

-----------------------------------------------------------------------------
EntryRows   == [ state : {"none", "there", "marked", "gone"}, starts : Days, ends : Days, named : BOOLEAN ]
ClerkStates == [ pc : {"idle", "looked", "wrote"}, op : Operations, row : EntryRows ]

FirstDay == CHOOSE d \in Days : \A e \in Days : d <= e
LastDay  == CHOOSE d \in Days : \A e \in Days : d >= e

FirstEntry == [ state |-> IF "create" \in Rules.ops THEN "none" ELSE "there",
                starts |-> FirstDay, ends |-> LastDay, named |-> FALSE ]
IdleClerk  == [ pc |-> "idle", op |-> "create", row |-> FirstEntry ]
Never      == [ op \in Operations |-> 0 ]

OfficeTypeOK ==
    /\ service \in DOMAIN Services
    /\ entry \in EntryRows
    /\ supplier \in {"live", "marked"}
    /\ clerk \in [ Clerks -> ClerkStates ]
    /\ made \in [ Operations -> 0 .. MostChanges ] /\ trail \in [ Operations -> 0 .. MostChanges ]
    /\ missing \in BOOLEAN

OfficeInit ==
    /\ service \in DOMAIN Services
    /\ entry = FirstEntry /\ supplier = "live"
    /\ clerk = [ c \in Clerks |-> IdleClerk ]
    /\ made = Never /\ trail = Never /\ missing = FALSE

-----------------------------------------------------------------------------
\* What a call finds before it writes; listItem calls write at once and fail without a row.
Found(op) ==
    CASE op = "create" -> entry.state = "none"
      [] Rules.looks   -> entry.state = "there"
      [] OTHER         -> TRUE

\* The row that an expense or a banner asks for: the supplier is looked up among the live
\* ones, and the dates not sent are those of the row that was found.
Asked(op, starts, ends, named) ==
    IF op = "remove" THEN entry
    ELSE [entry EXCEPT !.starts = starts, !.ends = ends, !.named = named]

OpenClerks == { c \in Clerks : clerk[c].pc # "idle" }
WritesLeft == made["create"] + made["update"] + made["remove"] < MostChanges

Look(c, op, starts, ends, named) ==
    /\ clerk[c].pc = "idle" /\ op \in Rules.ops /\ Found(op) /\ WritesLeft
    /\ op = "remove" \/ service # "banner" => starts = entry.starts /\ ends = entry.ends
    /\ starts < ends    \* "endsAt must be after startsAt"
    /\ op = "remove" \/ service # "expense" => named = entry.named
    /\ named /\ ~entry.named => supplier = "live"
    /\ clerk' = [clerk EXCEPT ![c] = [ pc |-> "looked", op |-> op, row |-> Asked(op, starts, ends, named) ]]
    /\ UNCHANGED << service, entry, supplier, made, trail, missing >>

\* update by id writes both dates of a banner and leaves deletedAt alone.
Updated(c) == [clerk[c].row EXCEPT !.state = entry.state]

WriteEntry(c) ==
    LET op == clerk[c].op IN
    /\ clerk[c].pc = "looked" /\ WritesLeft
    /\ op = "create" \/ entry.state \in {"there", "marked"}    \* or the row is not found
    /\ entry' = CASE op = "create" -> [clerk[c].row EXCEPT !.state = "there"]
                  [] op = "update" -> Updated(c)
                  [] op = "remove" -> [entry EXCEPT !.state = IF Rules.marks THEN "marked" ELSE "gone"]
    /\ op = "create" => entry.state = "none"
    /\ made' = [made EXCEPT ![op] = @ + 1]
    /\ clerk' = [clerk EXCEPT ![c] = IF op \in Rules.silent THEN IdleClerk ELSE [@ EXCEPT !.pc = "wrote"]]
    /\ UNCHANGED << service, supplier, trail, missing >>

\* AuditLogService.record
RecordEntry(c) ==
    /\ clerk[c].pc = "wrote" /\ clerk' = [clerk EXCEPT ![c] = IdleClerk]
    /\ \/ trail' = [trail EXCEPT ![clerk[c].op] = @ + 1] /\ UNCHANGED missing
       \/ UNCHANGED trail /\ missing' = TRUE
    /\ UNCHANGED << service, entry, supplier, made >>

\* Not found, an exception, or a stopped process.
LeaveOffice(c) ==
    /\ clerk[c].pc # "idle" /\ clerk' = [clerk EXCEPT ![c] = IdleClerk]
    /\ missing' = (missing \/ clerk[c].pc = "wrote")
    /\ UNCHANGED << service, entry, supplier, made, trail >>

\* SuppliersService.softDelete, of the supplier of an expense.
DropSupplier ==
    /\ service = "expense" /\ supplier = "live" /\ supplier' = "marked"
    /\ UNCHANGED << service, entry, clerk, made, trail, missing >>

OfficeNext ==
    \/ \E c \in Clerks :
        \/ \E op \in Operations, starts, ends \in Days, named \in BOOLEAN : Look(c, op, starts, ends, named)
        \/ WriteEntry(c) \/ RecordEntry(c) \/ LeaveOffice(c)
    \/ DropSupplier

OfficeSpec == OfficeInit /\ [][OfficeNext]_officeVars

-----------------------------------------------------------------------------
\* However calls on one row overlap and stop, no entry of the audit log tells of a write that
\* did not happen, none is missing unless a call stopped or its entry failed, and a row is
\* created once and, unless it is only marked, removed once; a call that found the row before
\* its removal does not bring it back; and a banner ends after it starts, though each of two
\* calls looked at only one of its dates.
TrailHolds ==
    /\ \A op \in Operations : trail[op] <= made[op]
    /\ OpenClerks = {} /\ ~missing => \A op \in Operations \ Rules.silent : trail[op] = made[op]
    /\ made["create"] <= 1
    /\ made["remove"] > 0 => entry.state = IF Rules.marks THEN "marked" ELSE "gone"
    /\ ~Rules.marks => made["remove"] <= 1
    /\ entry.starts < entry.ends
=============================================================================
