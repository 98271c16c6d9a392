------------------------------ MODULE Storefront ------------------------------
(***************************************************************************)
(* The price of an order: the coupon, the shipping zone and the settings    *)
(* that OrdersService.create and CouponsService.validateCoupon read while   *)
(* administrators edit them.  Stock and the use of a coupon per customer    *)
(* are in OrderTx.                                                          *)
(*                                                                          *)
(* Amounts are in piasters.  A percentage of an amount has hundredths of a  *)
(* piaster; the columns keep two decimals of a pound, rounded half up.      *)
(***************************************************************************)
EXTENDS Naturals

CONSTANTS
    Terms,      \* what the coupon may be: percent, value, least, limit, active
    Sites,      \* SiteSettings: free, least, codFee, codMax, cod
    Fees,       \* prices of the shipping zone of the city
    Subtotals,  \* sums of the prices of the items
    MostUses,   \* bound on usageCount
    Buyers      \* checkouts that may overlap

ASSUME StorefrontAssumption ==
    /\ Terms # {} /\ Sites # {} /\ Subtotals \subseteq Nat /\ Fees \subseteq Nat /\ MostUses \in Nat
    /\ Terms \subseteq [ percent : BOOLEAN, value : Nat, least : Nat, limit : Nat, active : BOOLEAN ]
    /\ Sites \subseteq [ free : Nat, least : Nat, codFee : Nat, codMax : Nat, cod : BOOLEAN ]

VARIABLES
    coupon,   \* the Coupon row
    expired,  \* its expiresAt is over
    site,     \* the SiteSettings row
    zone,     \* the ShippingZone row of the city
    quote,    \* the last answer of validateCoupon
    buyer,    \* the checkouts in progress
    sale,     \* the amounts of the last order, until the next checkout begins
    lowered   \* history: usageLimit was lowered, or set where there was none

storefrontVars == << coupon, expired, site, zone, quote, buyer, sale, lowered >>

NoAmounts == [ subtotal |-> 0, discount |-> 0, fee |-> 0, codFee |-> 0, total |-> 0 ]
NoQuote   == [ fresh |-> FALSE, subtotal |-> 0, discount |-> 0 ]

AnyTerms  == CHOOSE t \in Terms : TRUE
IdleBuyer == [ pc |-> "idle", subtotal |-> 0, cod |-> FALSE, plain |-> FALSE,
               site |-> CHOOSE s \in Sites : TRUE, terms |-> AnyTerms ]

\* limit 0 stands for usageLimit null, free 0 and codMax 0 for no threshold.
StorefrontTypeOK ==
    /\ coupon \in [ there : BOOLEAN, terms : Terms, used : 0 .. MostUses ]
    /\ site \in Sites
    /\ zone \in [ state : {"none", "closed", "open"}, fee : Fees ]
    /\ expired \in BOOLEAN /\ lowered \in BOOLEAN
    /\ quote \in [ fresh : BOOLEAN, subtotal : Subtotals \cup {0}, discount : Nat ]
    /\ \A b \in Buyers : /\ buyer[b].pc \in {"idle", "coupon", "redeem"}
                         /\ buyer[b].subtotal \in Subtotals \cup {0}
    /\ \A f \in DOMAIN sale : sale[f] \in Nat

StorefrontInit ==
    /\ coupon \in [ there : {TRUE}, terms : Terms, used : {0} ]
    /\ site \in Sites
    /\ zone \in [ state : {"open"}, fee : Fees ]
    /\ buyer = [ b \in Buyers |-> IdleBuyer ]
    /\ expired = FALSE /\ lowered = FALSE
    /\ quote = NoQuote /\ sale = NoAmounts

shopVars  == << coupon, expired, site, zone, lowered >>
buyerVars == << quote, buyer, sale >>

-----------------------------------------------------------------------------
(* Amounts                                                                  *)

\* NUMERIC(10,2): half a piaster goes up.
Rounded(hundredths) == (hundredths + 50) \div 100

Smaller(a, b) == IF a < b THEN a ELSE b
Larger(a, b)  == IF a > b THEN a ELSE b

\* Mutant: a fixed discount is not limited to the subtotal.
FullValue(terms, subtotal) ==
    IF terms.percent THEN subtotal * terms.value ELSE 100 * terms.value

\* OrdersService.create, in hundredths.
OrderDiscount(terms, subtotal) ==
    IF terms.percent THEN subtotal * terms.value ELSE 100 * Smaller(terms.value, subtotal)

\* CouponsService.validateCoupon, in hundredths.
QuotedDiscount(terms, subtotal) ==
    IF terms.percent THEN subtotal * terms.value ELSE 100 * Smaller(terms.value, subtotal)

ShippingFee(s, price, subtotal, discount) ==
    IF s.free > 0 /\ 100 * subtotal >= discount + 100 * s.free THEN 0 ELSE price

\* The amounts as they are stored; discount in hundredths.
Amounts(s, price, subtotal, discount, cod) ==
    LET fee    == ShippingFee(s, price, subtotal, discount)
        codFee == IF cod THEN s.codFee ELSE 0
        before == Larger(100 * (subtotal + fee), discount) - discount
    IN  [ subtotal |-> subtotal, discount |-> Rounded(discount), fee |-> fee, codFee |-> codFee,
          total |-> Rounded(before + 100 * codFee) ]

\* codMaxAmount is compared with the exact total before codFee.
WithinCodMax(s, price, subtotal, discount) ==
    s.codMax = 0 \/ 100 * (subtotal + ShippingFee(s, price, subtotal, discount)) <= discount + 100 * s.codMax

-----------------------------------------------------------------------------
(* CouponsService, ShippingZonesService and updateSiteSettings              *)

\* over: whether the expiresAt that is given is over; none never is.
EditCoupon(terms, over) ==
    /\ coupon.there /\ << terms, over >> # << coupon.terms, expired >>
    /\ coupon' = [coupon EXCEPT !.terms = terms] /\ expired' = over
    /\ lowered' = (lowered \/ (terms.limit > 0 /\ (coupon.terms.limit = 0 \/ terms.limit < coupon.terms.limit)))
    /\ quote' = NoQuote
    /\ UNCHANGED << site, zone, buyer, sale >>

\* A checkout that has read the row finds none to update, and fails.
RemoveCoupon ==
    /\ coupon.there /\ coupon' = [coupon EXCEPT !.there = FALSE, !.used = 0]
    /\ buyer' = [ b \in Buyers |-> IF buyer[b].pc = "redeem" /\ ~buyer[b].plain
                                   THEN IdleBuyer ELSE buyer[b] ]
    /\ expired' = FALSE /\ lowered' = FALSE /\ quote' = NoQuote
    /\ UNCHANGED << site, zone, sale >>

CreateCoupon(terms, over) ==
    /\ ~coupon.there /\ coupon' = [ there |-> TRUE, terms |-> terms, used |-> 0 ] /\ expired' = over
    /\ UNCHANGED << site, zone, lowered >> /\ UNCHANGED buyerVars

\* Time passes expiresAt.
CouponExpires ==
    /\ coupon.there /\ ~expired /\ expired' = TRUE
    /\ quote' = NoQuote
    /\ UNCHANGED << coupon, site, zone, lowered, buyer, sale >>

EditSite(s) ==
    /\ s # site /\ site' = s
    /\ UNCHANGED << coupon, expired, zone, lowered >> /\ UNCHANGED buyerVars

SetZone(state, fee) ==
    /\ zone' = [ state |-> state, fee |-> fee ]
    /\ UNCHANGED << coupon, expired, site, lowered >> /\ UNCHANGED buyerVars

CreateZone(state, fee) == zone.state = "none" /\ SetZone(state, fee)
UpdateZone(state, fee) == zone.state # "none" /\ SetZone(state, fee)
DeactivateZone == zone.state # "none" /\ SetZone("closed", zone.fee)
RemoveZone     == zone.state # "none" /\ SetZone("none", zone.fee)

UsesLeftNow == coupon.terms.limit = 0 \/ coupon.used < coupon.terms.limit

ValidateCoupon(subtotal) ==
    /\ coupon.there /\ coupon.terms.active /\ ~expired /\ UsesLeftNow /\ subtotal >= coupon.terms.least
    /\ quote' = [ fresh |-> TRUE, subtotal |-> subtotal,
                  discount |-> QuotedDiscount(coupon.terms, subtotal) ]
    /\ UNCHANGED shopVars /\ UNCHANGED << buyer, sale >>

-----------------------------------------------------------------------------
(* OrdersService.create: each query reads what is committed when it runs    *)

ReadSite(b, subtotal, cod, plain) ==
    /\ buyer[b].pc = "idle"
    /\ cod => site.cod
    /\ subtotal >= site.least
    /\ buyer' = [buyer EXCEPT ![b] = [ pc |-> IF plain THEN "redeem" ELSE "coupon", subtotal |-> subtotal,
                                       cod |-> cod, plain |-> plain, site |-> site, terms |-> AnyTerms ]]
    /\ sale' = NoAmounts
    /\ UNCHANGED shopVars /\ UNCHANGED quote

\* usagePerCustomer may refuse besides (RefuseOrder; the count is in OrderTx).
ReadCoupon(b) ==
    /\ buyer[b].pc = "coupon"
    /\ coupon.there /\ coupon.terms.active /\ ~expired /\ buyer[b].subtotal >= coupon.terms.least
    /\ buyer' = [buyer EXCEPT ![b].pc = "redeem", ![b].terms = coupon.terms]
    /\ UNCHANGED shopVars /\ UNCHANGED << quote, sale >>

\* updateMany where isActive and usageCount < the usageLimit that was read.
Redeemable(b) ==
    coupon.there /\ coupon.terms.active /\ (buyer[b].terms.limit = 0 \/ coupon.used < buyer[b].terms.limit)

\* The update, the zone, and the insert; the row lock holds others back until COMMIT.
PlaceOrder(b) ==
    LET r == buyer[b]
        discount == IF r.plain THEN 0 ELSE OrderDiscount(r.terms, r.subtotal)
    IN
    /\ r.pc = "redeem"
    /\ r.plain \/ (Redeemable(b) /\ coupon.used < MostUses)
    /\ zone.state = "open"
    /\ r.cod => WithinCodMax(r.site, zone.fee, r.subtotal, discount)
    /\ sale' = Amounts(r.site, zone.fee, r.subtotal, discount, r.cod)
    /\ coupon' = IF r.plain THEN coupon ELSE [coupon EXCEPT !.used = @ + 1]
    /\ quote' = IF r.plain THEN quote ELSE NoQuote
    /\ buyer' = [buyer EXCEPT ![b] = IdleBuyer]
    /\ UNCHANGED << expired, site, zone, lowered >>

\* A check that refuses, or an exception.
RefuseOrder(b) ==
    /\ buyer[b].pc # "idle" /\ buyer' = [buyer EXCEPT ![b] = IdleBuyer]
    /\ UNCHANGED shopVars /\ UNCHANGED << quote, sale >>

\* A release gives the use back.
ReturnUse ==
    /\ coupon.used > 0 /\ coupon' = [coupon EXCEPT !.used = @ - 1]
    /\ quote' = NoQuote
    /\ UNCHANGED << expired, site, zone, lowered, buyer, sale >>

StorefrontNext ==
    \/ \E terms \in Terms, over \in BOOLEAN : EditCoupon(terms, over) \/ CreateCoupon(terms, over)
    \/ CouponExpires \/ RemoveCoupon \/ DeactivateZone \/ RemoveZone
    \/ \E fee \in Fees, state \in {"closed", "open"} : CreateZone(state, fee) \/ UpdateZone(state, fee)
    \/ \E s \in Sites : EditSite(s)
    \/ \E subtotal \in Subtotals : ValidateCoupon(subtotal)
    \/ \E b \in Buyers :
        \/ \E subtotal \in Subtotals, cod, plain \in BOOLEAN : ReadSite(b, subtotal, cod, plain)
        \/ ReadCoupon(b) \/ PlaceOrder(b) \/ RefuseOrder(b)
    \/ ReturnUse

StorefrontSpec == StorefrontInit /\ [][StorefrontNext]_storefrontVars

-----------------------------------------------------------------------------
\* What validateCoupon has promised holds for an order as long as the coupon is neither edited
\* nor used and has not expired: every check of the coupon that both make still passes in
\* create, and create gives the same discount.  Only create looks at usagePerCustomer.
QuoteStands ==
    quote.fresh =>
        /\ coupon.there /\ coupon.terms.active /\ ~expired /\ quote.subtotal >= coupon.terms.least /\ UsesLeftNow
        /\ OrderDiscount(coupon.terms, quote.subtotal) = quote.discount

\* However edits and checkouts overlap: a coupon is only used beyond its limit after the
\* limit was lowered; a total is never less than its fee for cash on delivery; and the
\* amounts of an order add up, to one piaster, unless the discount exceeds the subtotal.
AmountsHold ==
    /\ coupon.terms.limit > 0 /\ coupon.used > coupon.terms.limit => lowered
    /\ sale.total >= sale.codFee
    /\ sale.discount <= sale.subtotal =>
        sale.total + sale.discount - (sale.subtotal + sale.fee + sale.codFee) \in 0 .. 1

QuotesAndAmounts == QuoteStands /\ AmountsHold
=============================================================================
