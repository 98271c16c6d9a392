----------------------- MODULE ReservationLedgerProofs -----------------------
(***************************************************************************)
(* The two conservation laws of the ledger, for every set of orders and     *)
(* variants (infinite ones too), every cart, stock and coupon limit.        *)
(***************************************************************************)
EXTENDS ReservationLedger, FiniteSetTheorems, TLAPS

StockLaw(v) ==
    /\ IsFiniteSet(Units(Holders, v))
    /\ stock[v] + Cardinality(Units(Holders, v)) = InitialStock[v]

CouponLaw ==
    /\ IsFiniteSet(Holders \cap Couponed)
    /\ used = Cardinality(Holders \cap Couponed)

LedgerInv ==
    /\ LedgerTypeOK
    /\ \A v \in Variants : StockLaw(v)
    /\ CouponLaw

\* The units of one order: as many as its quantity.
LEMMA CartUnits ==
    ASSUME LedgerConstants, NEW o \in Orders, NEW v \in Variants
    PROVE  /\ IsFiniteSet({o} \X (1 .. Qty[o][v]))
           /\ Cardinality({o} \X (1 .. Qty[o][v])) = Qty[o][v]
<1>1. Qty[o][v] \in Nat
    BY DEF LedgerConstants
<1> DEFINE q == Qty[o][v]
<1> HIDE DEF q
<1>2. q \in Nat
    BY <1>1 DEF q
<1>3. IsFiniteSet(1 .. q) /\ Cardinality(1 .. q) = q
    <2>1. /\ IsFiniteSet(1 .. q)
          /\ Cardinality(1 .. q) = IF 1 > q THEN 0 ELSE q - 1 + 1
        BY <1>2, FS_Interval
    <2> QED
        BY <1>2, <2>1
<1>4. IsFiniteSet({o}) /\ Cardinality({o}) = 1
    BY FS_Singleton
<1>5. /\ IsFiniteSet({o} \X (1 .. q))
      /\ Cardinality({o} \X (1 .. q)) = Cardinality({o}) * Cardinality(1 .. q)
    BY <1>3, <1>4, FS_Product
<1> QED
    BY <1>2, <1>3, <1>4, <1>5 DEF q

\* Taking an order's cart adds its units to those already held.
LEMMA UnitsAdd ==
    ASSUME LedgerConstants, NEW S \in SUBSET Orders, NEW o \in Orders \ S,
           NEW v \in Variants, IsFiniteSet(Units(S, v))
    PROVE  /\ IsFiniteSet(Units(S \cup {o}, v))
           /\ Cardinality(Units(S \cup {o}, v)) = Cardinality(Units(S, v)) + Qty[o][v]
<1> DEFINE C == {o} \X (1 .. Qty[o][v])
<1>1. Units(S \cup {o}, v) = Units(S, v) \cup C
    BY DEF Units
<1>2. Units(S, v) \cap C = {}
    BY DEF Units
<1>3. Qty[o][v] \in Nat
    BY DEF LedgerConstants
<1>4. IsFiniteSet(C) /\ Cardinality(C) = Qty[o][v]
    BY CartUnits
<1> HIDE DEF C
<1>5. Cardinality({}) = 0 /\ Cardinality(Units(S, v)) \in Nat
    BY FS_EmptySet, FS_CardinalityType
<1>6. /\ IsFiniteSet(Units(S, v) \cup C)
      /\ Cardinality(Units(S, v) \cup C)
            = Cardinality(Units(S, v)) + Cardinality(C) - Cardinality(Units(S, v) \cap C)
    BY <1>4, FS_Union
<1>7. Cardinality(Units(S, v) \cap C) = 0
    BY <1>2, <1>5
<1>8. Cardinality(Units(S, v) \cup C) = Cardinality(Units(S, v)) + Qty[o][v]
    BY <1>3, <1>4, <1>5, <1>6, <1>7
<1> QED
    BY <1>1, <1>6, <1>8

\* Giving a cart back takes exactly its units away.
LEMMA UnitsRemove ==
    ASSUME LedgerConstants, NEW S \in SUBSET Orders, NEW o \in S,
           NEW v \in Variants, IsFiniteSet(Units(S, v))
    PROVE  /\ IsFiniteSet(Units(S \ {o}, v))
           /\ Cardinality(Units(S, v)) = Cardinality(Units(S \ {o}, v)) + Qty[o][v]
<1>1. Units(S \ {o}, v) \subseteq Units(S, v)
    BY DEF Units
<1>2. IsFiniteSet(Units(S \ {o}, v))
    BY <1>1, FS_Subset
<1>3. (S \ {o}) \cup {o} = S
    OBVIOUS
<1> DEFINE R == S \ {o}
<1>4. R \in SUBSET Orders /\ o \in Orders \ R
    OBVIOUS
<1> HIDE DEF R
<1>5. Cardinality(Units(R \cup {o}, v)) = Cardinality(Units(R, v)) + Qty[o][v]
    BY <1>2, <1>4, UnitsAdd DEF R
<1> QED
    BY <1>2, <1>3, <1>5 DEF R

LEMMA LedgerInitInv == LedgerConstants /\ LedgerInit => LedgerInv
<1> SUFFICES ASSUME LedgerConstants, LedgerInit PROVE LedgerInv
    OBVIOUS
<1>1. Holders = {}
    BY DEF Holders, LedgerInit
<1>2. \A v : Units({}, v) = {}
    BY DEF Units
<1>3. LedgerTypeOK
    BY DEF LedgerTypeOK, LedgerInit, LedgerConstants, Claims
<1>4. ASSUME NEW v \in Variants PROVE StockLaw(v)
    <2>1. Units(Holders, v) = {}
        BY <1>1, <1>2
    <2>2. IsFiniteSet(Units(Holders, v)) /\ Cardinality(Units(Holders, v)) = 0
        BY <2>1, FS_EmptySet
    <2>3. stock[v] = InitialStock[v] /\ InitialStock[v] \in Nat
        BY DEF LedgerInit, LedgerConstants
    <2> QED
        BY <2>2, <2>3 DEF StockLaw
<1>5. CouponLaw
    BY <1>1, FS_EmptySet DEF CouponLaw, LedgerInit
<1> QED
    BY <1>3, <1>4, <1>5 DEF LedgerInv

LEMMA TakeStep ==
    ASSUME LedgerConstants, LedgerInv, NEW o \in Orders, Take(o)
    PROVE  LedgerInv'
<1>1. /\ Holders' = Holders \cup {o} /\ o \notin Holders /\ Holders \subseteq Orders
    BY DEF Holders, Take, LedgerInv, LedgerTypeOK
<1>2. LedgerTypeOK'
    BY DEF LedgerTypeOK, LedgerInv, Take, LedgerConstants, Uses, Claims
<1>3. ASSUME NEW v \in Variants PROVE StockLaw(v)'
    <2>1. /\ IsFiniteSet(Units(Holders', v))
          /\ Cardinality(Units(Holders', v)) = Cardinality(Units(Holders, v)) + Qty[o][v]
        BY <1>1, UnitsAdd DEF LedgerInv, StockLaw
    <2>2. stock'[v] = stock[v] - Qty[o][v] /\ stock[v] \in Nat /\ Qty[o][v] \in Nat
        BY DEF Take, LedgerInv, LedgerTypeOK, LedgerConstants
    <2>3. Cardinality(Units(Holders, v)) \in Nat
        BY FS_CardinalityType DEF LedgerInv, StockLaw
    <2> QED
        BY <2>1, <2>2, <2>3 DEF LedgerInv, StockLaw, Units
<1>4. CouponLaw'
    <2>1. CASE o \in Couponed
        <3> DEFINE S == Holders \cap Couponed
        <3>1. Holders' \cap Couponed = S \cup {o} /\ o \notin S
            BY <1>1, <2>1
        <3>2. IsFiniteSet(S) /\ used = Cardinality(S) /\ used' = used + 1
            BY <2>1 DEF LedgerInv, CouponLaw, Take, Uses
        <3> HIDE DEF S
        <3>3. IsFiniteSet(S \cup {o}) /\ Cardinality(S \cup {o}) = Cardinality(S) + 1
            BY <3>1, <3>2, FS_AddElement
        <3> QED
            BY <3>1, <3>2, <3>3 DEF CouponLaw
    <2>2. CASE o \notin Couponed
        <3>1. Holders' \cap Couponed = Holders \cap Couponed
            BY <1>1, <2>2
        <3>2. used' = used
            BY <2>2 DEF LedgerInv, LedgerTypeOK, Take, Uses
        <3> QED
            BY <3>1, <3>2 DEF LedgerInv, CouponLaw
    <2> QED
        BY <2>1, <2>2
<1> QED
    BY <1>2, <1>3, <1>4 DEF LedgerInv

LEMMA GiveBackStep ==
    ASSUME LedgerConstants, LedgerInv, NEW o \in Orders, GiveBack(o)
    PROVE  LedgerInv'
<1>1. /\ Holders' = Holders \ {o} /\ o \in Holders /\ Holders \subseteq Orders
    BY DEF Holders, GiveBack, LedgerInv, LedgerTypeOK
<1>2. CouponLaw'
    <2>1. CASE o \in Couponed
        <3> DEFINE S == Holders \cap Couponed
        <3>1. Holders' \cap Couponed = S \ {o} /\ o \in S
            BY <1>1, <2>1
        <3>2. IsFiniteSet(S) /\ used = Cardinality(S) /\ used' = used - 1
            BY <2>1 DEF LedgerInv, CouponLaw, GiveBack, Uses
        <3> HIDE DEF S
        <3>3. IsFiniteSet(S \ {o}) /\ Cardinality(S \ {o}) = Cardinality(S) - 1
            BY <3>1, <3>2, FS_RemoveElement
        <3> QED
            BY <3>1, <3>2, <3>3 DEF CouponLaw
    <2>2. CASE o \notin Couponed
        <3>1. Holders' \cap Couponed = Holders \cap Couponed
            BY <1>1, <2>2
        <3>2. used' = used
            BY <2>2 DEF LedgerInv, LedgerTypeOK, GiveBack, Uses
        <3> QED
            BY <3>1, <3>2 DEF LedgerInv, CouponLaw
    <2> QED
        BY <2>1, <2>2
<1>3. LedgerTypeOK'
    <2>1. used' \in Nat
        BY <1>2, FS_CardinalityType DEF CouponLaw
    <2>2. used' <= used
        BY DEF GiveBack, Uses, LedgerInv, LedgerTypeOK, LedgerConstants
    <2> QED
        BY <2>1, <2>2 DEF LedgerTypeOK, LedgerInv, GiveBack, LedgerConstants, Claims
<1>4. ASSUME NEW v \in Variants PROVE StockLaw(v)'
    <2>1. /\ IsFiniteSet(Units(Holders', v))
          /\ Cardinality(Units(Holders, v)) = Cardinality(Units(Holders', v)) + Qty[o][v]
        BY <1>1, UnitsRemove DEF LedgerInv, StockLaw
    <2>2. stock'[v] = stock[v] + Qty[o][v] /\ stock[v] \in Nat /\ Qty[o][v] \in Nat
        BY DEF GiveBack, LedgerInv, LedgerTypeOK, LedgerConstants
    <2>3. Cardinality(Units(Holders', v)) \in Nat
        BY <2>1, FS_CardinalityType
    <2> QED
        BY <2>1, <2>2, <2>3 DEF LedgerInv, StockLaw, Units
<1> QED
    BY <1>2, <1>3, <1>4 DEF LedgerInv

LEMMA LedgerStep == LedgerConstants /\ LedgerInv /\ [LedgerNext]_vars => LedgerInv'
<1> SUFFICES ASSUME LedgerConstants, LedgerInv, [LedgerNext]_vars PROVE LedgerInv'
    OBVIOUS
<1>1. CASE \E o \in Orders : Take(o)
    BY <1>1, TakeStep
<1>2. CASE \E o \in Orders : GiveBack(o)
    BY <1>2, GiveBackStep
<1>3. CASE UNCHANGED vars
    BY <1>3 DEF vars, LedgerInv, LedgerTypeOK, StockLaw, CouponLaw, Holders, Units
<1> QED
    BY <1>1, <1>2, <1>3 DEF LedgerNext

\* The ledger loses no unit of stock and hands none out twice: what create
\* decrements is what the orders hold until they give it back.
THEOREM LedgerConserves == ASSUME LedgerConstants PROVE LedgerSpec => []Conservation
<1>1. LedgerInit => LedgerInv
    BY LedgerInitInv
<1>2. LedgerInv /\ [LedgerNext]_vars => LedgerInv'
    BY LedgerStep
<1>3. LedgerInv => Conservation
    BY DEF LedgerInv, StockLaw, Conservation
<1> QED
    BY <1>1, <1>2, <1>3, PTL DEF LedgerSpec

\* The coupon's usageCount is exactly the number of orders that hold a use.
THEOREM LedgerCountsCoupons == ASSUME LedgerConstants PROVE LedgerSpec => []CouponExact
<1>1. LedgerInit => LedgerInv
    BY LedgerInitInv
<1>2. LedgerInv /\ [LedgerNext]_vars => LedgerInv'
    BY LedgerStep
<1>3. LedgerInv => CouponExact
    BY DEF LedgerInv, CouponLaw, CouponExact
<1> QED
    BY <1>1, <1>2, <1>3, PTL DEF LedgerSpec
=============================================================================
