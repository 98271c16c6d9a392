----------------------------- MODULE VariantEdits -----------------------------
(***************************************************************************)
(* One product variant under ProductsService.updateVariant, the stock       *)
(* changes of orders, and the bulk imports of ExcelService.  An             *)
(* administrator loads the row, edits it, and sends it back with the        *)
(* updatedAt that was loaded.                                               *)
(***************************************************************************)
EXTENDS Naturals

CONSTANTS
    Forms,      \* edits that may overlap
    Prices,
    MostStock,  \* bound on the stock
    MostWrites  \* bound on the writes of the row

ASSUME VariantAssumption == Prices # {} /\ MostStock \in Nat /\ MostWrites \in Nat

VARIABLES
    variant,  \* the ProductVariant row
    form,     \* the edits: loaded, sent, updated
    ledger,   \* the newPrice of the last PriceHistory row
    blind,    \* history: an edit overwrote what its administrator had not seen
    patchy    \* history: a price changed without its PriceHistory row, or out of order

variantVars == << variant, form, ledger, blind, patchy >>

\* at: updatedAt.  Every write moves it on: two writes are more than a millisecond apart.
VariantRows == [ price : Prices, stock : 0 .. MostStock, at : 0 .. MostWrites ]

FormStates ==
    [ pc : {"idle", "open", "sent", "log"},
      saw : VariantRows,                       \* the row as it was loaded
      old : Prices,                            \* existing.price, read by the call
      price : Prices, stock : 0 .. MostStock,  \* what the form asks for
      sets : SUBSET {"price", "stock"} ]       \* the fields that it names

IdleForm(row) ==
    [ pc |-> "idle", saw |-> row, old |-> row.price, price |-> row.price, stock |-> 0, sets |-> {} ]

VariantTypeOK ==
    /\ variant \in VariantRows
    /\ form \in [Forms -> FormStates]
    /\ ledger \in Prices
    /\ blind \in BOOLEAN /\ patchy \in BOOLEAN

\* The price at which the variant was created.
AnyPrice == CHOOSE p \in Prices : TRUE
FirstRow == [ price |-> AnyPrice, stock |-> 0, at |-> 0 ]

VariantInit ==
    /\ variant = FirstRow
    /\ form = [ f \in Forms |-> IdleForm(FirstRow) ]
    /\ ledger = FirstRow.price
    /\ blind = FALSE /\ patchy = FALSE

-----------------------------------------------------------------------------
WriteVariant(price, stock) ==
    /\ variant.at < MostWrites
    /\ variant' = [ price |-> price, stock |-> stock, at |-> variant.at + 1 ]

Load(f) ==
    /\ form[f].pc = "idle"
    /\ form' = [form EXCEPT ![f] = [IdleForm(variant) EXCEPT !.pc = "open"]]
    /\ UNCHANGED << variant, ledger, blind, patchy >>

\* The form is sent; updateVariant reads the row that it calls existing.
Send(f, price, stock, sets) ==
    /\ form[f].pc = "open" /\ sets # {}
    /\ form' = [form EXCEPT ![f].pc = "sent", ![f].old = variant.price,
                            ![f].price = IF "price" \in sets THEN price ELSE variant.price,
                            ![f].stock = IF "stock" \in sets THEN stock ELSE 0, ![f].sets = sets]
    /\ UNCHANGED << variant, ledger, blind, patchy >>

\* Mutant: the update is by id.
Whatever(f) == TRUE

\* where: updatedAt is the one that was loaded; otherwise a conflict.
StillAsSeen(f) == form[f].saw.at = variant.at

UpdateVariant(f) ==
    LET r == form[f] IN
    /\ r.pc = "sent" /\ StillAsSeen(f)
    /\ WriteVariant(IF "price" \in r.sets THEN r.price ELSE variant.price,
                    IF "stock" \in r.sets THEN r.stock ELSE variant.stock)
    /\ blind' = (blind \/ r.saw # variant)
    /\ form' = [form EXCEPT ![f] = IF "price" \in r.sets /\ r.price # r.old
                                   THEN [r EXCEPT !.pc = "log"] ELSE IdleForm(FirstRow)]
    /\ UNCHANGED << ledger, patchy >>

\* priceHistory.create, after the update and outside of its statement.
LogPrice(f) ==
    LET r == form[f] IN
    /\ r.pc = "log"
    /\ ledger' = r.price
    /\ patchy' = (patchy \/ r.old # ledger)
    /\ form' = [form EXCEPT ![f] = IdleForm(FirstRow)]
    /\ UNCHANGED << variant, blind >>

\* A conflict, an administrator who leaves, an exception, or a stop.
CloseForm(f) ==
    /\ form[f].pc # "idle"
    /\ form' = [form EXCEPT ![f] = IdleForm(FirstRow)]
    /\ patchy' = (patchy \/ form[f].pc = "log")
    /\ UNCHANGED << variant, ledger, blind >>

\* Orders decrement and increment; importInventory writes the stock of the sheet.
StockMoves(stock) ==
    /\ stock # variant.stock /\ WriteVariant(variant.price, stock)
    /\ UNCHANGED << form, ledger, blind, patchy >>

\* importProducts writes price and stock, and no PriceHistory.
ImportProducts(price, stock) ==
    /\ WriteVariant(price, stock)
    /\ patchy' = (patchy \/ price # variant.price)
    /\ UNCHANGED << form, ledger, blind >>

VariantNext ==
    \/ \E f \in Forms :
        \/ \E price \in Prices, stock \in 0 .. MostStock, sets \in SUBSET {"price", "stock"} :
                Send(f, price, stock, sets)
        \/ Load(f) \/ UpdateVariant(f) \/ LogPrice(f) \/ CloseForm(f)
    \/ \E stock \in 0 .. MostStock : StockMoves(stock)
    \/ \E price \in Prices, stock \in 0 .. MostStock : ImportProducts(price, stock)

VariantSpec == VariantInit /\ [][VariantNext]_variantVars

-----------------------------------------------------------------------------
\* updateVariant's "optimistic locking": an edit replaces only what its administrator saw, so
\* that no order and no other edit since then is undone; and unless a call stopped before
\* its PriceHistory row, an import changed the price, or two rows came in the wrong order,
\* the history ends with the price of the row.
NoBlindEdit ==
    /\ ~blind
    /\ ~patchy /\ (\A f \in Forms : form[f].pc # "log") => ledger = variant.price
=============================================================================
