---------------------------- MODULE OrderTracking ----------------------------
(***************************************************************************)
(* OrdersService.trackOrder: who knows an order number and the phone of the *)
(* order sees it, and one process answers three calls per number and        *)
(* minute.  The limit is a Map in the memory of the process.                *)
(***************************************************************************)
EXTENDS Naturals, FiniteSets

CONSTANTS
    Numbers,     \* order numbers that are asked for
    Trackers,    \* calls that may overlap
    Window,      \* windowMs
    MostTries,   \* maxAttempts
    LastMoment   \* bound of the clock

ASSUME TrackingAssumption ==
    Window \in Nat \ {0} /\ MostTries \in Nat /\ LastMoment \in Nat /\ Numbers # {}

VARIABLES
    moment,   \* Date.now()
    tries,    \* orderTrackRateMap: per number, the timestamps of a list
    tracker,  \* the calls in progress
    phone,    \* whether the order still has its phone
    passed,   \* history: the times of the calls that were let through since the start
    failures  \* history: calls that ended with "order.track_failed", per number

trackingVars == << moment, tries, tracker, phone, passed, failures >>

NoTracker == [ open |-> FALSE, number |-> CHOOSE n \in Numbers : TRUE, right |-> FALSE ]
Fresh     == [ n \in Numbers |-> {} ]

\* A timestamp that is in the list more than once is told apart by its place among the equal
\* ones; the code asks for the length of the list only.
Stamps == [ at : 0 .. LastMoment, nth : Nat ]

TrackingTypeOK ==
    /\ moment \in 0 .. LastMoment
    /\ tries \in [ Numbers -> SUBSET Stamps ] /\ passed \in [ Numbers -> SUBSET Stamps ]
    /\ tracker \in [ Trackers -> [ open : BOOLEAN, number : Numbers, right : BOOLEAN ] ]
    /\ phone \in [ Numbers -> BOOLEAN ]
    /\ failures \in [ Numbers -> Nat ]

TrackingInit ==
    /\ moment = 0 /\ tries = Fresh /\ passed = Fresh
    /\ tracker = [ c \in Trackers |-> NoTracker ]
    /\ phone = [ n \in Numbers |-> TRUE ]
    /\ failures = [ n \in Numbers |-> 0 ]

-----------------------------------------------------------------------------
\* The timestamps of the last minute.
Recent(stamps) == { s \in stamps : moment - s.at < Window }

\* One more timestamp of now.
Stamp(stamps) ==
    [ at |-> moment, nth |-> Cardinality({ s \in stamps : s.at = moment }) + 1 ]

\* checkOrderTrackRateLimit runs to its end before another call.
Track(c, n, right) ==
    /\ ~tracker[c].open /\ Cardinality(Recent(tries[n])) < MostTries
    /\ tries' = [tries EXCEPT ![n] = Recent(@) \cup { Stamp(@) }]
    /\ passed' = [passed EXCEPT ![n] = @ \cup { Stamp(tries[n]) }]
    /\ tracker' = [tracker EXCEPT ![c] = [ open |-> TRUE, number |-> n, right |-> right ]]
    /\ UNCHANGED << moment, phone, failures >>

\* An order without a phone matches no phone; a failure is written to the audit log.
AnswerTracker(c) ==
    LET r == tracker[c] IN
    /\ r.open /\ tracker' = [tracker EXCEPT ![c] = NoTracker]
    /\ failures' = IF r.right /\ phone[r.number] THEN failures
                   ELSE [failures EXCEPT ![r.number] = @ + 1]
    /\ UNCHANGED << moment, tries, phone, passed >>

\* The customer was erased.
ErasePhone(n) ==
    /\ phone[n] /\ phone' = [phone EXCEPT ![n] = FALSE]
    /\ UNCHANGED << moment, tries, tracker, passed, failures >>

Restart ==
    /\ tries' = Fresh /\ passed' = Fresh /\ failures' = [ n \in Numbers |-> 0 ]
    /\ tracker' = [ c \in Trackers |-> NoTracker ]
    /\ UNCHANGED << moment, phone >>

MinuteGoes ==
    /\ moment < LastMoment /\ moment' = moment + 1
    /\ UNCHANGED << tries, tracker, phone, passed, failures >>

TrackingNext ==
    \/ \E c \in Trackers : AnswerTracker(c) \/ \E n \in Numbers, right \in BOOLEAN : Track(c, n, right)
    \/ \E n \in Numbers : ErasePhone(n)
    \/ Restart \/ MinuteGoes

TrackingSpec == TrackingInit /\ [][TrackingNext]_trackingVars

-----------------------------------------------------------------------------
\* The limit, counted from its effect and not from the Map: no more than maxAttempts calls
\* for one number get through in any minute of one process; a call is refused only when that
\* many did in the last minute; and each failure is one of the calls that got through.
TrackingLimited ==
    \A n \in Numbers :
        /\ \A m \in 0 .. LastMoment :
            Cardinality({ s \in passed[n] : s.at \in m .. (m + Window - 1) }) <= MostTries
        /\ Recent(tries[n]) = Recent(passed[n])
        /\ failures[n] <= Cardinality(passed[n])
=============================================================================
