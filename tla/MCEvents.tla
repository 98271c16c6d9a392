------------------------------ MODULE MCEvents ------------------------------
(***************************************************************************)
(* Instances of the orders with their events for TLC.                       *)
(***************************************************************************)
EXTENDS OrderEvents, TLC

CONSTANTS o1, o2

OneUnitEach == [ o \in Orders |-> [ v \in Variants |-> 1 ] ]
OneInStock  == [ v \in Variants |-> 1 ]
OwnKey      == [ o \in Orders |-> o ]
Alice       == [ o \in Orders |-> "alice" ]

FirstEvents  == [ o \in Orders |-> IF o = o1 THEN 1 ELSE 3 ]
SecondEvents == [ o \in Orders |-> IF o = o1 THEN 2 ELSE 4 ]
=============================================================================
