----------------------------- MODULE MCAccounts -----------------------------
(***************************************************************************)
(* Instances of the services around accounts for TLC.  No service here      *)
(* decides by a row that another one of them changes, but for what its      *)
(* module says; so a behaviour runs one of them, the area, while the others *)
(* stay as they begin, and the states add up instead of multiplying.        *)
(***************************************************************************)
EXTENDS Sessions, LoginLockout, TwoFactor, StaffAccounts, PermissionSync, Erasure, EmailVerification, TLC

CONSTANTS s1, coarse, viewing, fine, reviews, exporting

VARIABLE area

accountVars == << sessionVars, lockoutVars, twoFactorVars, staffVars, syncVars, erasureVars, linkVars, area >>

ExpandsCoarse == coarse :> {fine}
SplitViewing  == viewing :> {reviews, exporting}

\* A service that does not run has one initial state.
Init ==
    /\ area \in {"sessions", "lockout", "two factor", "staff", "permissions", "erasure", "links"}
    /\ SessionsInit /\ LockoutInit /\ TwoFactorInit /\ StaffInit /\ SyncInit /\ ErasureInit /\ LinkInit
    /\ area # "staff" => staff[s1].known
    /\ area # "permissions" => known = DOMAIN ExtraGrants /\ \A r \in Groups : had[r] = {}

InSessions ==
    /\ area = "sessions" /\ SessionsNext
    /\ UNCHANGED << lockoutVars, twoFactorVars, staffVars, syncVars, erasureVars, linkVars, area >>
InLockout ==
    /\ area = "lockout" /\ LockoutNext
    /\ UNCHANGED << sessionVars, twoFactorVars, staffVars, syncVars, erasureVars, linkVars, area >>
InTwoFactor ==
    /\ area = "two factor" /\ TwoFactorNext
    /\ UNCHANGED << sessionVars, lockoutVars, staffVars, syncVars, erasureVars, linkVars, area >>
InStaff ==
    /\ area = "staff" /\ StaffNext
    /\ UNCHANGED << sessionVars, lockoutVars, twoFactorVars, syncVars, erasureVars, linkVars, area >>
InPermissions ==
    /\ area = "permissions" /\ SyncNext
    /\ UNCHANGED << sessionVars, lockoutVars, twoFactorVars, staffVars, erasureVars, linkVars, area >>
InErasure ==
    /\ area = "erasure" /\ ErasureNext
    /\ UNCHANGED << sessionVars, lockoutVars, twoFactorVars, staffVars, syncVars, linkVars, area >>
InLinks ==
    /\ area = "links" /\ LinkNext
    /\ UNCHANGED << sessionVars, lockoutVars, twoFactorVars, staffVars, syncVars, erasureVars, area >>

Next == InSessions \/ InLockout \/ InTwoFactor \/ InStaff \/ InPermissions \/ InErasure \/ InLinks

Spec == Init /\ [][Next]_accountVars

AccountSymmetry == Permutations(Tokens) \cup Permutations(Requests)

\* Every row, call and history variable of the accounts stays in its set.
TypeOK ==
    /\ SessionsTypeOK /\ LockoutTypeOK /\ TwoFactorTypeOK /\ StaffTypeOK /\ SyncTypeOK /\ ErasureTypeOK
    /\ LinkTypeOK

\* A secret that works once works once, and the newest one works: no time step of an
\* authenticator is taken twice, and the last link to verify an address is not lost.
SecretsHold == NoStepTwice /\ NewestLinkWorks
=============================================================================
