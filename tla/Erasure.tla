------------------------------- MODULE Erasure -------------------------------
(***************************************************************************)
(* CustomersService: the personal data of one customer, and the requests to *)
(* delete it.  What the customer does meanwhile checks the account when the *)
(* call arrives (JwtStrategy) and writes later.                             *)
(*                                                                          *)
(* The erasing transaction begins with the User row.  It changes the email, *)
(* a key, and so locks the row against the inserts that refer to it: their  *)
(* rows come before all of its statements or after its commit, and the      *)
(* transaction is one step.                                                 *)
(***************************************************************************)
CONSTANTS
    Petitions,   \* DataDeletionRequest ids
    NoPetition,
    Visits       \* calls that may overlap

ASSUME ErasureAssumption == NoPetition \notin Petitions

VARIABLES
    customer,  \* the User row
    purchase,  \* how far an order of the customer is
    names,     \* the kinds of records of which one names the customer
    petition,  \* the DataDeletionRequest rows
    visit,     \* the calls in progress
    pending,   \* history: what the calls under way at the erasure may still write
    overruled  \* history: two decisions about one request overlapped

erasureVars == << customer, purchase, names, petition, visit, pending, overruled >>

Kinds == {"token", "order", "wishlist", "cart", "review", "referral", "petition"}

\* deletion: deleteCustomer has run.
Customers == [ erased : BOOLEAN, active : BOOLEAN, blocked : BOOLEAN, deletion : BOOLEAN ]

VisitStates ==
    [ call : {"none", "write", "approve", "reject", "delete", "block", "drop tokens", "unblock"},
      kind : Kinds, p : Petitions \cup {NoPetition} ]

IdleVisit == [ call |-> "none", kind |-> "token", p |-> NoPetition ]

ErasureTypeOK ==
    /\ customer \in Customers
    /\ purchase \in {"none", "active", "paid", "over"}
    /\ names \in SUBSET Kinds
    /\ petition \in [Petitions -> {"none", "pending", "approved", "rejected"}]
    /\ visit \in [Visits -> VisitStates]
    /\ pending \in SUBSET Kinds
    /\ overruled \in BOOLEAN

\* register has issued the first pair of tokens.
ErasureInit ==
    /\ customer = [ erased |-> FALSE, active |-> TRUE, blocked |-> FALSE, deletion |-> FALSE ]
    /\ purchase = "none" /\ names = {"token"}
    /\ petition = [ p \in Petitions |-> "none" ]
    /\ visit = [ v \in Visits |-> IdleVisit ]
    /\ pending = {} /\ overruled = FALSE

-----------------------------------------------------------------------------
Calls(v, call) == visit[v].call = call

Arrive(v, call, kind, p) ==
    /\ Calls(v, "none")
    /\ visit' = [visit EXCEPT ![v] = [ call |-> call, kind |-> kind, p |-> p ]]
    /\ UNCHANGED << customer, purchase, names, petition, pending, overruled >>

Depart(v) == visit' = [visit EXCEPT ![v] = IdleVisit]

\* The client leaves, a later check refuses, or the process stops.
Abandon(v) ==
    /\ ~Calls(v, "none") /\ Depart(v)
    /\ UNCHANGED << customer, purchase, names, petition, pending, overruled >>

\* Mutant: only isActive is looked at.
ActiveOnly == customer.active

\* validateUser: finds leave deleted rows out; then isActive is asked.
Admitted == ~customer.erased /\ customer.active

-----------------------------------------------------------------------------
(* The customer                                                             *)

\* A second request that finds the first one pending gets that one.
Visit(v, kind) ==
    /\ Admitted
    /\ kind = "petition" => \A p \in Petitions : petition[p] # "pending"
    /\ Arrive(v, "write", kind, NoPetition)

WriteRecord(v) ==
    LET kind == visit[v].kind IN
    /\ Calls(v, "write")
    /\ IF kind = "petition"
       THEN \E p \in Petitions : petition[p] = "none" /\ petition' = [petition EXCEPT ![p] = "pending"]
       ELSE UNCHANGED petition
    /\ kind = "order" => purchase = "none"
    /\ purchase' = IF kind = "order" THEN "active" ELSE purchase
    /\ names' = IF kind = "petition" THEN names ELSE names \cup {kind}
    /\ Depart(v)
    /\ UNCHANGED << customer, pending, overruled >>

\* PENDING, CONFIRMED, PROCESSING and SHIPPED are active; PAID comes before or between.
Ship(to) ==
    /\ << purchase, to >> \in { << "active", "paid" >>, << "paid", "active" >>,
                                << "active", "over" >>, << "paid", "over" >> }
    /\ purchase' = to
    /\ UNCHANGED << customer, names, petition, visit, pending, overruled >>

-----------------------------------------------------------------------------
(* The administrators                                                       *)

\* approveDeletionRequest: the request is pending and no order is active.  The user comes
\* with the request, so that a deleted one is not filtered out.
ApproveRead(v, p) ==
    /\ petition[p] = "pending" /\ purchase # "active"
    /\ Arrive(v, "approve", "petition", p)

\* Rows are deleted, or stay without the name; what the calls under way write comes later.
NamesAfterErasure == {}

Erase(v, byAdmin) ==
    /\ customer' = [ erased |-> TRUE, active |-> FALSE, deletion |-> byAdmin \/ customer.deletion,
                     blocked |-> IF byAdmin THEN FALSE ELSE customer.blocked ]
    /\ names' = NamesAfterErasure
    /\ pending' = pending \cup { visit[w].kind : w \in { w \in Visits : Calls(w, "write") } }
    /\ Depart(v)

\* Another decision about p has been checked and not written.
Contested(v, p) == \E w \in Visits \ {v} : visit[w].call \in {"approve", "reject"} /\ visit[w].p = p

\* The ten statements; the request is updated by id.
Approve(v) ==
    LET p == visit[v].p IN
    /\ Calls(v, "approve")
    /\ Erase(v, FALSE)
    /\ overruled' = (overruled \/ Contested(v, p))
    /\ petition' = [petition EXCEPT ![p] = "approved"]
    /\ UNCHANGED purchase

RejectRead(v, p) == petition[p] = "pending" /\ Arrive(v, "reject", "petition", p)

Reject(v) ==
    LET p == visit[v].p IN
    /\ Calls(v, "reject")
    /\ petition' = [petition EXCEPT ![p] = "rejected"]
    /\ overruled' = (overruled \/ Contested(v, p))
    /\ Depart(v)
    /\ UNCHANGED << customer, purchase, names, pending >>

\* deleteCustomer looks neither at orders nor at requests.
DeleteRead(v) == ~customer.erased /\ Arrive(v, "delete", "token", NoPetition)

DeleteCustomer(v) ==
    /\ Calls(v, "delete") /\ Erase(v, TRUE)
    /\ UNCHANGED << purchase, petition, overruled >>

BlockRead(v, call) ==
    call \in {"block", "unblock"} /\ ~customer.erased /\ Arrive(v, call, "token", NoPetition)

\* The update is by id; then the tokens are deleted.
BlockCustomer(v) ==
    /\ Calls(v, "block")
    /\ customer' = [customer EXCEPT !.blocked = TRUE, !.active = FALSE]
    /\ visit' = [visit EXCEPT ![v].call = "drop tokens"]
    /\ UNCHANGED << purchase, names, petition, pending, overruled >>

DropTokens(v) ==
    /\ Calls(v, "drop tokens")
    /\ names' = names \ {"token"} /\ Depart(v)
    /\ UNCHANGED << customer, purchase, petition, pending, overruled >>

UnblockCustomer(v) ==
    /\ Calls(v, "unblock")
    /\ customer' = [customer EXCEPT !.blocked = FALSE, !.active = TRUE]
    /\ Depart(v)
    /\ UNCHANGED << purchase, names, petition, pending, overruled >>

ErasureNext ==
    \/ \E v \in Visits :
        \/ \E kind \in Kinds : Visit(v, kind)
        \/ \E p \in Petitions : ApproveRead(v, p) \/ RejectRead(v, p)
        \/ \E call \in {"block", "unblock"} : BlockRead(v, call)
        \/ WriteRecord(v) \/ Approve(v) \/ Reject(v) \/ DeleteRead(v) \/ DeleteCustomer(v)
        \/ BlockCustomer(v) \/ DropTokens(v) \/ UnblockCustomer(v) \/ Abandon(v)
    \/ \E to \in {"active", "paid", "over"} : Ship(to)

ErasureSpec == ErasureInit /\ [][ErasureNext]_erasureVars

-----------------------------------------------------------------------------
\* deleteCustomer and approveDeletionRequest anonymise or delete whatever names the
\* customer; afterwards only the calls that were under way at that moment can leave a
\* record with a name, also when an unblock is written over the erased row.
ErasedIsNameless == customer.erased => names \subseteq pending

\* The customer is erased exactly if an administrator deleted the account or approved a
\* request, unless two decisions about one request overlapped.
ErasedByDecision ==
    ~overruled => (customer.erased <=> customer.deletion \/ \E p \in Petitions : petition[p] = "approved")

ErasureStands == ErasedIsNameless /\ ErasedByDecision
=============================================================================
