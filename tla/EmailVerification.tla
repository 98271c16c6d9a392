-------------------------- MODULE EmailVerification --------------------------
(***************************************************************************)
(* AuthService.requestEmailVerification and confirmEmailVerification for    *)
(* one user.  A confirmation finds the user by the token, and later writes  *)
(* by id whatever token the row has by then.                                *)
(***************************************************************************)
CONSTANTS
    Links,    \* tokens that are mailed
    NoLink,
    Readers   \* confirmations that may overlap

ASSUME LinkAssumption == NoLink \notin Links

VARIABLES
    address,  \* the User row
    outgoing, \* tokens whose mail is being sent
    mailed,   \* tokens that have reached the address
    newest,   \* history: the token that was generated last
    reader,   \* the confirmations in progress: the token that was found
    proven    \* history: the tokens that were found in time

linkVars == << address, outgoing, mailed, newest, reader, proven >>

LinkTypeOK ==
    /\ address \in [ verified : BOOLEAN, link : Links \cup {NoLink}, lapsed : BOOLEAN ]
    /\ outgoing \subseteq Links /\ mailed \subseteq Links /\ proven \subseteq Links
    /\ newest \in Links \cup {NoLink}
    /\ reader \in [ Readers -> Links \cup {NoLink} ]

LinkInit ==
    /\ address = [ verified |-> FALSE, link |-> NoLink, lapsed |-> FALSE ]
    /\ outgoing = {} /\ mailed = {} /\ newest = NoLink /\ proven = {}
    /\ reader = [ c \in Readers |-> NoLink ]

\* A token is random: none is generated twice.  Its mail goes out after the update.
RequestVerification(l) ==
    /\ l \notin outgoing \cup mailed
    /\ address' = [address EXCEPT !.link = l, !.lapsed = FALSE]
    /\ newest' = l /\ outgoing' = outgoing \cup {l}
    /\ UNCHANGED << mailed, reader, proven >>

SendMail(l) ==
    /\ l \in outgoing \ mailed /\ mailed' = mailed \cup {l}
    /\ UNCHANGED << address, outgoing, newest, reader, proven >>

LinkLapses ==
    /\ address.link # NoLink /\ ~address.lapsed
    /\ address' = [address EXCEPT !.lapsed = TRUE]
    /\ UNCHANGED << outgoing, mailed, newest, reader, proven >>

\* Every token that was mailed may come, the ones that were replaced too.
FindLink(c, l) ==
    /\ reader[c] = NoLink /\ l \in mailed
    /\ address.link = l /\ ~address.lapsed
    /\ reader' = [reader EXCEPT ![c] = l]
    /\ proven' = proven \cup {l}
    /\ UNCHANGED << address, outgoing, mailed, newest >>

ConfirmLink(c) ==
    /\ reader[c] # NoLink
    /\ address' = [ verified |-> TRUE, link |-> NoLink, lapsed |-> FALSE ]
    /\ reader' = [reader EXCEPT ![c] = NoLink]
    /\ UNCHANGED << outgoing, mailed, newest, proven >>

StopReader(c) ==
    /\ reader[c] # NoLink /\ reader' = [reader EXCEPT ![c] = NoLink]
    /\ UNCHANGED << address, outgoing, mailed, newest, proven >>

LinkNext ==
    \/ \E l \in Links : RequestVerification(l) \/ SendMail(l)
    \/ LinkLapses
    \/ \E c \in Readers : (\E l \in Links : FindLink(c, l)) \/ ConfirmLink(c) \/ StopReader(c)

LinkSpec == LinkInit /\ [][LinkNext]_linkVars

-----------------------------------------------------------------------------
\* However requests and confirmations overlap: the newest link is the one that works, unless
\* the address is verified by then; only a link that reached the mailbox verifies; and a link
\* is stored only as long as it is the newest.
NewestLinkWorks ==
    /\ address.link = newest \/ address.verified
    /\ address.verified => proven \cap mailed # {}
    /\ address.link \in {newest, NoLink}
=============================================================================
