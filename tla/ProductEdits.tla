----------------------------- MODULE ProductEdits -----------------------------
(***************************************************************************)
(* ProductsService.update, reorder, and the images of a product: calls of   *)
(* administrators without a version of the row.  The three have no row in   *)
(* common that a call decides by, and a behaviour follows one: the topic.   *)
(***************************************************************************)
EXTENDS Integers, FiniteSets

CONSTANTS
    Desks,     \* calls that may overlap
    Tags,      \* prices
    Shelved,   \* products that are sorted
    Pictures   \* images of one product

ASSUME ProductAssumption == IsFiniteSet(Shelved) /\ Tags # {} /\ Pictures # {}

VARIABLES
    topic,
    tag,          \* the price of a product
    tagLog,       \* the newPrice of its last PriceHistory row
    tagCall,      \* the calls of update
    spoilt,       \* history: two of them overlapped, or one stopped before its PriceHistory row
    rank,         \* displayOrder of the products, as the transactions have left it
    sortCall,     \* the transactions of reorder
    picture,      \* the ProductImage rows
    pictureCall,  \* the calls of updateImage
    doubled       \* history: two that ask for a primary image overlapped, or one was added

tagVars     == << tag, tagLog, tagCall, spoilt >>
sortVars    == << rank, sortCall >>
pictureVars == << picture, pictureCall, doubled >>
productVars == << topic, tagVars, sortVars, pictureVars >>

Size     == Cardinality(Shelved)
\* A list that leaves products out would give its places to others too.
Listings == { l \in [1 .. Size -> Shelved] : \A i, j \in 1 .. Size : l[i] = l[j] => i = j }
NoRank   == [ g \in Shelved |-> 0 ]

AnyTag      == CHOOSE p \in Tags : TRUE
NoTagCall   == [ pc |-> "idle", old |-> AnyTag, new |-> AnyTag ]
NoSort      == [ open |-> FALSE, list |-> CHOOSE l \in Listings : TRUE, at |-> 0, was |-> NoRank ]
NoPick      == [ pc |-> "idle", picture |-> CHOOSE i \in Pictures : TRUE, primary |-> FALSE ]

ProductsTypeOK ==
    /\ topic \in {"price", "order", "images"}
    /\ tag \in Tags /\ tagLog \in Tags /\ spoilt \in BOOLEAN
    /\ tagCall \in [ Desks -> [ pc : {"idle", "read", "log"}, old : Tags, new : Tags ] ]
    /\ rank \in [ Shelved -> 0 .. Size ]
    /\ sortCall \in [ Desks -> [ open : BOOLEAN, list : Listings, at : 0 .. Size, was : [ Shelved -> 0 .. Size ] ] ]
    /\ picture \in [ Pictures -> {"none", "plain", "primary"} ] /\ doubled \in BOOLEAN
    /\ pictureCall \in [ Desks -> [ pc : {"idle", "unset", "set"}, picture : Pictures, primary : BOOLEAN ] ]

ProductsInit ==
    /\ topic \in {"price", "order", "images"}
    /\ tag = AnyTag /\ tagLog = AnyTag /\ spoilt = FALSE /\ tagCall = [ d \in Desks |-> NoTagCall ]
    /\ rank = NoRank /\ sortCall = [ d \in Desks |-> NoSort ]
    /\ picture = [ i \in Pictures |-> "none" ] /\ doubled = FALSE
    /\ pictureCall = [ d \in Desks |-> NoPick ]

-----------------------------------------------------------------------------
(* update                                                                   *)

ReadTag(d, new) ==
    /\ tagCall[d].pc = "idle"
    /\ tagCall' = [tagCall EXCEPT ![d] = [ pc |-> "read", old |-> tag, new |-> new ]]
    /\ spoilt' = (spoilt \/ \E e \in Desks : tagCall[e].pc # "idle")
    /\ UNCHANGED << tag, tagLog >>

WriteTag(d) ==
    LET r == tagCall[d] IN
    /\ r.pc = "read" /\ tag' = r.new
    /\ tagCall' = [tagCall EXCEPT ![d] = IF r.old # r.new THEN [r EXCEPT !.pc = "log"] ELSE NoTagCall]
    /\ UNCHANGED << tagLog, spoilt >>

LogTag(d) ==
    /\ tagCall[d].pc = "log" /\ tagLog' = tagCall[d].new
    /\ tagCall' = [tagCall EXCEPT ![d] = NoTagCall]
    /\ UNCHANGED << tag, spoilt >>

StopTag(d) ==
    /\ tagCall[d].pc # "idle" /\ tagCall' = [tagCall EXCEPT ![d] = NoTagCall]
    /\ spoilt' = (spoilt \/ tagCall[d].pc = "log")
    /\ UNCHANGED << tag, tagLog >>

-----------------------------------------------------------------------------
(* reorder: one transaction, one statement per product of the list          *)

Locks(d) == { sortCall[d].list[i] : i \in 1 .. sortCall[d].at }

BeginSort(d, list) ==
    /\ ~sortCall[d].open
    /\ sortCall' = [sortCall EXCEPT ![d] = [ open |-> TRUE, list |-> list, at |-> 0, was |-> NoRank ]]
    /\ UNCHANGED rank

\* The row lock of another transaction is waited for.
SortOne(d) ==
    LET r == sortCall[d]
        g == r.list[r.at + 1]
    IN
    /\ r.open /\ r.at < Size
    /\ \A e \in Desks \ {d} : g \notin Locks(e)
    /\ rank' = [rank EXCEPT ![g] = r.at]
    /\ sortCall' = [sortCall EXCEPT ![d].at = @ + 1, ![d].was[g] = rank[g]]

CommitSort(d) ==
    /\ sortCall[d].open /\ sortCall[d].at = Size
    /\ sortCall' = [sortCall EXCEPT ![d] = NoSort]
    /\ UNCHANGED rank

\* A deadlock, a product that is gone, or a stop.
RollbackSort(d) ==
    /\ sortCall[d].open
    /\ rank' = [ g \in Shelved |-> IF g \in Locks(d) THEN sortCall[d].was[g] ELSE rank[g] ]
    /\ sortCall' = [sortCall EXCEPT ![d] = NoSort]

-----------------------------------------------------------------------------
(* addImage, updateImage, removeImage                                       *)

AddImage(i, kind) ==
    /\ picture[i] = "none" /\ picture' = [picture EXCEPT ![i] = kind]
    /\ doubled' = (doubled \/ kind = "primary")
    /\ UNCHANGED pictureCall

RemoveImage(i) ==
    /\ picture[i] # "none" /\ picture' = [picture EXCEPT ![i] = "none"]
    /\ UNCHANGED << pictureCall, doubled >>

FindImage(d, i, primary) ==
    /\ pictureCall[d].pc = "idle" /\ picture[i] # "none"
    /\ pictureCall' = [pictureCall EXCEPT ![d] =
                          [ pc |-> IF primary THEN "unset" ELSE "set", picture |-> i, primary |-> primary ]]
    /\ doubled' = (doubled \/ (primary /\ \E e \in Desks : pictureCall[e].pc # "idle" /\ pictureCall[e].primary))
    /\ UNCHANGED picture

UnsetPrimary(d) ==
    /\ pictureCall[d].pc = "unset"
    /\ picture' = [ i \in Pictures |-> IF picture[i] = "primary" THEN "plain" ELSE picture[i] ]
    /\ pictureCall' = [pictureCall EXCEPT ![d].pc = "set"]
    /\ UNCHANGED doubled

\* By id: an image that was removed meanwhile is not found, and there is no primary one.
UpdateImage(d) ==
    LET r == pictureCall[d] IN
    /\ r.pc = "set" /\ picture[r.picture] # "none"
    /\ picture' = [picture EXCEPT ![r.picture] = IF r.primary THEN "primary" ELSE "plain"]
    /\ pictureCall' = [pictureCall EXCEPT ![d] = NoPick]
    /\ UNCHANGED doubled

StopImage(d) ==
    /\ pictureCall[d].pc # "idle" /\ pictureCall' = [pictureCall EXCEPT ![d] = NoPick]
    /\ UNCHANGED << picture, doubled >>

-----------------------------------------------------------------------------
EditPrice == \E d \in Desks :
    (\E new \in Tags : ReadTag(d, new)) \/ WriteTag(d) \/ LogTag(d) \/ StopTag(d)

Reorder == \E d \in Desks :
    (\E list \in Listings : BeginSort(d, list)) \/ SortOne(d) \/ CommitSort(d) \/ RollbackSort(d)

EditImages ==
    \/ \E i \in Pictures : AddImage(i, "plain") \/ AddImage(i, "primary") \/ RemoveImage(i)
    \/ \E d \in Desks : \/ \E i \in Pictures, primary \in BOOLEAN : FindImage(d, i, primary)
                        \/ UnsetPrimary(d) \/ UpdateImage(d) \/ StopImage(d)

ProductsNext ==
    /\ UNCHANGED topic
    /\ \/ topic = "price"  /\ EditPrice  /\ UNCHANGED << sortVars, pictureVars >>
       \/ topic = "order"  /\ Reorder    /\ UNCHANGED << tagVars, pictureVars >>
       \/ topic = "images" /\ EditImages /\ UNCHANGED << tagVars, sortVars >>

ProductsSpec == ProductsInit /\ [][ProductsNext]_productVars

-----------------------------------------------------------------------------
\* While no reorder is open the places of the products are those of one list, however two
\* of them overlapped, waited for each other and were rolled back; calls of updateImage that
\* do not overlap leave at most one primary image; and unless two calls of update overlapped
\* or one stopped, the price history ends with the price of the product.
PagesHold ==
    /\ (\A d \in Desks : ~sortCall[d].open) =>
         rank = NoRank \/ \A g, h \in Shelved : rank[g] = rank[h] => g = h
    /\ ~doubled => Cardinality({ i \in Pictures : picture[i] = "primary" }) <= 1
    /\ ~spoilt /\ (\A d \in Desks : tagCall[d].pc # "log") => tagLog = tag
=============================================================================
