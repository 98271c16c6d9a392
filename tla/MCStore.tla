------------------------------ MODULE MCStore ------------------------------
(***************************************************************************)
(* Instances of the services around the store for TLC, one of them per      *)
(* behaviour as in MCAccounts.                                              *)
(***************************************************************************)
EXTENDS MCOrders, AgentOutbox, AgentRequests, Approvals, Catalogue, VariantEdits, Storefront, StoreSettings,
        SeedRun, Inbox, BackOffice, ProductEdits, OrderTracking

CONSTANTS k1, sender

VARIABLE area

storeVars ==
    << vars, outboxVars, agentVars, approvalVars, catalogueVars, variantVars,
       storefrontVars, settingsVars, seedVars, inboxVars, officeVars, productVars, trackingVars, area >>

Coupon(percent, value, least, limit, active) ==
    [ percent |-> percent, value |-> value, least |-> least, limit |-> limit, active |-> active ]

\* A tenth off, twice; 30 piasters off, once; more than the subtotal off; switched off.
SomeTerms == { Coupon(TRUE, 10, 0, 2, TRUE), Coupon(FALSE, 30, 0, 1, TRUE),
               Coupon(TRUE, 150, 40, 0, TRUE), Coupon(TRUE, 10, 0, 0, FALSE) }

Site(free, least, codFee, codMax, cod) ==
    [ free |-> free, least |-> least, codFee |-> codFee, codMax |-> codMax, cod |-> cod ]

\* With free shipping and cash on delivery; with a least order and without either.
SomeSites == { Site(90, 0, 5, 100, TRUE), Site(0, 40, 0, 0, FALSE) }

OneSender == [ c \in Chats |-> sender ]

\* Here the calls on orders come one after another: what the races break holds then.
\* A service that does not run has one initial state.
StoreInit ==
    /\ area \in {"orders", "outbox", "agent", "approvals", "catalogue", "variants", "storefront",
                "settings", "seed", "inbox", "office", "products", "tracking"}
    /\ Init /\ OutboxInit /\ AgentInit /\ ApprovalsInit /\ CatalogueInit /\ VariantInit
    /\ StorefrontInit /\ SettingsInit /\ SeedInit /\ InboxInit /\ OfficeInit /\ ProductsInit /\ TrackingInit
    /\ area # "agent" => agentOrder = "PAID" /\ \A c \in AgentCalls : agentCall[c].key = k1
    /\ area # "office" => service = "note"
    /\ area # "products" => topic = "price"
    /\ area # "storefront" =>
         /\ coupon.terms = AnyTerms
         /\ site = CHOOSE s \in Sites : TRUE
         /\ zone.fee = CHOOSE f \in Fees : TRUE

InOrders ==
    /\ area = "orders" /\ Next
    /\ UNCHANGED << outboxVars, agentVars, approvalVars, catalogueVars, variantVars, storefrontVars >>
    /\ UNCHANGED << settingsVars, seedVars, inboxVars, officeVars, productVars, trackingVars, area >>
InOutbox ==
    /\ area = "outbox" /\ OutboxNext
    /\ UNCHANGED << vars, agentVars, approvalVars, catalogueVars, variantVars, storefrontVars >>
    /\ UNCHANGED << settingsVars, seedVars, inboxVars, officeVars, productVars, trackingVars, area >>
InAgent ==
    /\ area = "agent" /\ AgentNext
    /\ UNCHANGED << vars, outboxVars, approvalVars, catalogueVars, variantVars, storefrontVars >>
    /\ UNCHANGED << settingsVars, seedVars, inboxVars, officeVars, productVars, trackingVars, area >>
InApprovals ==
    /\ area = "approvals" /\ ApprovalsNext
    /\ UNCHANGED << vars, outboxVars, agentVars, catalogueVars, variantVars, storefrontVars >>
    /\ UNCHANGED << settingsVars, seedVars, inboxVars, officeVars, productVars, trackingVars, area >>
InCatalogue ==
    /\ area = "catalogue" /\ CatalogueNext
    /\ UNCHANGED << vars, outboxVars, agentVars, approvalVars, variantVars, storefrontVars >>
    /\ UNCHANGED << settingsVars, seedVars, inboxVars, officeVars, productVars, trackingVars, area >>
InVariants ==
    /\ area = "variants" /\ VariantNext
    /\ UNCHANGED << vars, outboxVars, agentVars, approvalVars, catalogueVars, storefrontVars >>
    /\ UNCHANGED << settingsVars, seedVars, inboxVars, officeVars, productVars, trackingVars, area >>
InStorefront ==
    /\ area = "storefront" /\ StorefrontNext
    /\ UNCHANGED << vars, outboxVars, agentVars, approvalVars, catalogueVars, variantVars >>
    /\ UNCHANGED << settingsVars, seedVars, inboxVars, officeVars, productVars, trackingVars, area >>
InSettings ==
    /\ area = "settings" /\ SettingsNext
    /\ UNCHANGED << vars, outboxVars, agentVars, approvalVars, catalogueVars, variantVars >>
    /\ UNCHANGED << storefrontVars, seedVars, inboxVars, officeVars, productVars, trackingVars, area >>
InSeed ==
    /\ area = "seed" /\ SeedNext
    /\ UNCHANGED << vars, outboxVars, agentVars, approvalVars, catalogueVars, variantVars >>
    /\ UNCHANGED << storefrontVars, settingsVars, inboxVars, officeVars, productVars, trackingVars, area >>
InInbox ==
    /\ area = "inbox" /\ InboxNext
    /\ UNCHANGED << vars, outboxVars, agentVars, approvalVars, catalogueVars, variantVars >>
    /\ UNCHANGED << storefrontVars, settingsVars, seedVars, officeVars, productVars, trackingVars, area >>
InOffice ==
    /\ area = "office" /\ OfficeNext
    /\ UNCHANGED << vars, outboxVars, agentVars, approvalVars, catalogueVars, variantVars >>
    /\ UNCHANGED << storefrontVars, settingsVars, seedVars, inboxVars, productVars, trackingVars, area >>
InProducts ==
    /\ area = "products" /\ ProductsNext
    /\ UNCHANGED << vars, outboxVars, agentVars, approvalVars, catalogueVars, variantVars >>
    /\ UNCHANGED << storefrontVars, settingsVars, seedVars, inboxVars, officeVars, trackingVars, area >>
InTracking ==
    /\ area = "tracking" /\ TrackingNext
    /\ UNCHANGED << vars, outboxVars, agentVars, approvalVars, catalogueVars, variantVars >>
    /\ UNCHANGED << storefrontVars, settingsVars, seedVars, inboxVars, officeVars, productVars, area >>

StoreNext == \/ InOrders \/ InOutbox \/ InAgent \/ InApprovals \/ InCatalogue \/ InVariants
        \/ InStorefront \/ InSettings \/ InSeed \/ InInbox \/ InOffice \/ InProducts \/ InTracking

StoreSpec == StoreInit /\ [][StoreNext]_storeVars

\* Calls do not depend on which process runs them.
StoreSymmetry == Permutations(Hooks)

\* Every row, call and history variable of the store stays in its set.
StoreTypeOK ==
    /\ TypeOK /\ OutboxTypeOK /\ AgentTypeOK /\ ApprovalsTypeOK /\ CatalogueTypeOK /\ VariantTypeOK
    /\ StorefrontTypeOK /\ SettingsTypeOK /\ SeedTypeOK /\ InboxTypeOK /\ OfficeTypeOK
    /\ ProductsTypeOK /\ TrackingTypeOK

\* What a caller was told holds afterwards: the decision about an approval, the answer under
\* an idempotency key, the maintenance mode that the panel shows, and what the audit log tells
\* of a row of the back office.
AnswersStand == DecisionStands /\ AnsweredRunsOnce /\ SwitchesAgree /\ TrailHolds

\* Overlapping edits of products do not mix: a product on the shelf stays there when a category
\* goes, and its place, primary image and price history are those of one edit.
ShelvesHold == LiveProductsStay /\ PagesHold

\* A limit holds whatever order calls come in: of one customer on a coupon, and of the calls
\* per minute that may ask for an order.
LimitsHold == PerCustomerLimit /\ TrackingLimited
=============================================================================
