------------------------------ MODULE Catalogue ------------------------------
(***************************************************************************)
(* ProductsService and CategoriesService, with the rows of collections and  *)
(* wishlists that refer to products.  A product is deleted by hiding it;    *)
(* the removal of a category deletes rows for good.                         *)
(*                                                                          *)
(* The foreign keys are part of it: a product keeps its category and an     *)
(* order item its product (Restrict), a link goes with its product (Cascade)*)
(* and what breaks a key rolls the transaction back.                        *)
(***************************************************************************)
CONSTANTS
    Cats,           \* categories
    Uncategorized,  \* the one whose slug is "uncategorized"
    NoCat,
    Goods,          \* product ids; each one is created at most once
    Editors         \* calls that may overlap

ASSUME CatalogueAssumption == Uncategorized \in Cats /\ NoCat \notin Cats

VARIABLES
    cats,     \* the Category rows
    good,     \* the Product rows
    sold,     \* the products with order items
    linked,   \* the products in a collection or on a wishlist
    editor,   \* the calls in progress
    mislaid   \* history: live products that went with a category, though not by force

catalogueVars == << cats, good, sold, linked, editor, mislaid >>

GoodRows == [ state : {"none", "live", "hidden", "purged"}, cat : Cats \cup {NoCat} ]

EditorStates ==
    [ call : {"none", "create", "delete", "sell", "link", "remove", "move", "force"},
      cat : Cats \cup {NoCat}, to : Cats \cup {NoCat}, g : SUBSET Goods ]

IdleEditor == [ call |-> "none", cat |-> NoCat, to |-> NoCat, g |-> {} ]

CatalogueTypeOK ==
    /\ cats \in SUBSET Cats
    /\ good \in [Goods -> GoodRows]
    /\ sold \in SUBSET Goods /\ linked \in SUBSET Goods
    /\ editor \in [Editors -> EditorStates]
    /\ mislaid \in SUBSET Goods

CatalogueInit ==
    /\ cats = {} /\ sold = {} /\ linked = {} /\ mislaid = {}
    /\ good = [ g \in Goods |-> [ state |-> "none", cat |-> NoCat ] ]
    /\ editor = [ e \in Editors |-> IdleEditor ]

-----------------------------------------------------------------------------
LiveGood(g) == good[g].state = "live"
HasGood(g)  == good[g].state \in {"live", "hidden"}
OnShelf(c)  == { g \in Goods : HasGood(g) /\ good[g].cat = c }

Checked(e, call, cat, to, gs) ==
    /\ editor[e].call = "none"
    /\ editor' = [editor EXCEPT ![e] = [ call |-> call, cat |-> cat, to |-> to, g |-> gs ]]
    /\ UNCHANGED << cats, good, sold, linked, mislaid >>

Finishes(e, call) == editor[e].call = call /\ editor' = [editor EXCEPT ![e] = IdleEditor]

\* A key that is broken, an exception or a stop: nothing has been written.
EditorFails(e) ==
    /\ editor[e].call # "none" /\ Finishes(e, editor[e].call)
    /\ UNCHANGED << cats, good, sold, linked, mislaid >>

-----------------------------------------------------------------------------
(* ProductsService                                                          *)

AddCategory(c) ==
    /\ c \notin cats /\ cats' = cats \cup {c}
    /\ UNCHANGED << good, sold, linked, editor, mislaid >>

\* create: the category is looked up; without one, "uncategorized" is made if need be.
CreateRead(e, c) ==
    /\ c \in cats \cup {Uncategorized}
    /\ IF c \in cats THEN Checked(e, "create", c, NoCat, {}) ELSE AddCategory(c)

CreateProduct(e) ==
    /\ editor[e].cat \in cats
    /\ Finishes(e, "create")
    /\ \E g \in Goods : /\ good[g].state = "none"
                        /\ good' = [good EXCEPT ![g] = [ state |-> "live", cat |-> editor[e].cat ]]
    /\ UNCHANGED << cats, sold, linked, mislaid >>

\* delete, the order of a customer, and a new link all look for a live product first.
GoodRead(e, call, g) ==
    call \in {"delete", "sell", "link"} /\ LiveGood(g) /\ Checked(e, call, NoCat, NoCat, {g})

\* The update is by id: it hides a row once more, but cannot bring one back.
HideProduct(e) ==
    /\ Finishes(e, "delete")
    /\ \A g \in editor[e].g : HasGood(g)
    /\ good' = [ g \in Goods |-> IF g \in editor[e].g THEN [good[g] EXCEPT !.state = "hidden"] ELSE good[g] ]
    /\ UNCHANGED << cats, sold, linked, mislaid >>

Sell(e) ==
    /\ Finishes(e, "sell") /\ \A g \in editor[e].g : HasGood(g)
    /\ sold' = sold \cup editor[e].g
    /\ UNCHANGED << cats, good, linked, mislaid >>

\* addProductToCollection and addToWishlist
AddLink(e) ==
    /\ Finishes(e, "link") /\ \A g \in editor[e].g : HasGood(g)
    /\ linked' = linked \cup editor[e].g
    /\ UNCHANGED << cats, good, sold, mislaid >>

Unlink(g) ==
    /\ g \in linked /\ linked' = linked \ {g}
    /\ UNCHANGED << cats, good, sold, editor, mislaid >>

-----------------------------------------------------------------------------
(* CategoriesService.remove: a transaction whose first query is a step      *)

RemoveRead(e, c, call, to) ==
    /\ c \in cats
    /\ call = "remove" => to = NoCat /\ \A g \in OnShelf(c) : ~LiveGood(g)
    /\ call = "move"   => to \in cats \ {c}
    /\ call = "force"  => to = NoCat
    /\ Checked(e, call, c, to, {})

\* Mutant: DELETE FROM "Product" without "deletedAt" IS NOT NULL.
DoomedAll(e) == IF editor[e].call = "move" THEN {} ELSE OnShelf(editor[e].cat)

\* The rows that the raw DELETE takes.
Doomed(e) ==
    CASE editor[e].call = "remove" -> { g \in OnShelf(editor[e].cat) : ~LiveGood(g) }
      [] editor[e].call = "force"  -> OnShelf(editor[e].cat)
      [] OTHER                     -> {}

Purge(e) ==
    LET r == editor[e] IN
    /\ good' = [ g \in Goods |-> IF g \in Doomed(e) THEN [ state |-> "purged", cat |-> NoCat ] ELSE good[g] ]
    /\ OnShelf(r.cat) \subseteq Doomed(e)   \* or the foreign key keeps the category
    /\ mislaid' = IF r.call = "force" THEN mislaid ELSE mislaid \cup { g \in Doomed(e) : LiveGood(g) }

MoveGoods(e) ==
    LET r == editor[e] IN
    /\ r.to \in cats
    /\ good' = [ g \in Goods |-> IF g \in OnShelf(r.cat) THEN [good[g] EXCEPT !.cat = r.to] ELSE good[g] ]
    /\ UNCHANGED mislaid

RemoveCategory(e) ==
    LET r == editor[e] IN
    /\ r.call \in {"remove", "move", "force"} /\ Finishes(e, r.call)
    /\ r.cat \in cats /\ Doomed(e) \cap sold = {}
    /\ IF r.call = "move" THEN MoveGoods(e) ELSE Purge(e)
    /\ cats' = cats \ {r.cat}
    /\ linked' = linked \ Doomed(e)
    /\ UNCHANGED sold

CatalogueNext ==
    \/ \E e \in Editors :
        \/ \E c \in Cats :
            \/ CreateRead(e, c)
            \/ \E call \in {"remove", "move", "force"}, to \in Cats \cup {NoCat} : RemoveRead(e, c, call, to)
        \/ \E g \in Goods, call \in {"delete", "sell", "link"} : GoodRead(e, call, g)
        \/ CreateProduct(e) \/ HideProduct(e) \/ Sell(e) \/ AddLink(e)
        \/ RemoveCategory(e) \/ EditorFails(e)
    \/ \E c \in Cats : AddCategory(c)
    \/ \E g \in Goods : Unlink(g)

CatalogueSpec == CatalogueInit /\ [][CatalogueNext]_catalogueVars

-----------------------------------------------------------------------------
\* CategoriesService.remove: without force "the category must have no live products", and "no
\* order history is ever lost": a product created, sold or hidden while a category goes is
\* neither taken along while it is live nor taken from under an order, and none is left
\* without a category.
LiveProductsStay ==
    /\ mislaid = {}
    /\ \A g \in sold : HasGood(g)
    /\ \A g \in Goods : HasGood(g) => good[g].cat \in cats
=============================================================================
