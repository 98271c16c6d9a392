-------------------------------- MODULE Inbox --------------------------------
(***************************************************************************)
(* The messages of customers: the webhooks of WhatsApp (WhatsAppService)    *)
(* and of Facebook and Instagram (MetaService), and the replies of staff.   *)
(* The platforms may deliver one payload again, at the same time too.       *)
(***************************************************************************)
EXTENDS Naturals, Sequences

CONSTANTS
    Texts,       \* messages that customers send on WhatsApp
    Chats,       \* messages that customers send on Facebook or Instagram
    Senders,     \* platform users who write them
    SenderOf,    \* [Chats -> Senders]
    Hooks,       \* calls that may overlap
    MostRows     \* bound on the copies of one message

ASSUME InboxAssumption == SenderOf \in [Chats -> Senders] /\ Texts \cap Chats = {} /\ MostRows \in Nat

VARIABLES
    stored,     \* rows of WhatsAppMessage and of MetaMessage per message
    talk,       \* rows of MetaConversation per platform user
    reply,      \* the last reply to a customer, at the platform and as a row
    hook,       \* the calls in progress
    answered    \* history: messages of the first entry of payloads answered with success: true

inboxVars == << stored, talk, reply, hook, answered >>

Received == Texts \cup Chats
IdleHook == [ pc |-> "idle", left |-> << >>, all |-> << >> ]
NoReply  == [ there |-> FALSE, row |-> "none" ]

HookStates == {"idle", "read", "create", "append", "window", "sent"}

\* The messages of one entry: what is neither an echo nor a receipt, and has a sender.
Entries == { << m >> : m \in Received }
           \cup { p \in (Texts \X Texts) \cup (Chats \X Chats) : p[1] # p[2] }

\* The platforms may put several entries into one payload.
Payloads == { << e >> : e \in Entries }
            \cup { p \in Entries \X Entries : p[1][1] \in Texts <=> p[2][1] \in Texts }

InboxTypeOK ==
    /\ stored \in [ Received -> 0 .. MostRows ]
    /\ talk \in [ Senders -> Nat ]
    /\ reply.there \in BOOLEAN /\ reply.row \in {"none", "SENT", "FAILED", "READ"}
    /\ \A h \in Hooks : hook[h].pc \in HookStates /\ hook[h].all \in Entries \cup {<< >>}
    /\ answered \in SUBSET Received

InboxInit ==
    /\ stored = [ m \in Received |-> 0 ]
    /\ talk = [ s \in Senders |-> 0 ]
    /\ reply = NoReply
    /\ hook = [ h \in Hooks |-> IdleHook ]
    /\ answered = {}

-----------------------------------------------------------------------------
(* handleWebhookPayload, item by item                                       *)

HookAt(h, pc) == hook[h].pc = pc
HookMoves(h, pc) == hook' = [hook EXCEPT ![h].pc = pc]
ItemDone(h) == hook' = [hook EXCEPT ![h].pc = "read", ![h].left = Tail(@)]

\* payload.entry[0], and of WhatsApp changes[0]: what else there is, is never read.
Receive(h, payload) ==
    LET entry == Head(payload) IN
    /\ HookAt(h, "idle")
    /\ hook' = [hook EXCEPT ![h] = [ pc |-> "read", left |-> entry, all |-> entry ]]
    /\ UNCHANGED << stored, talk, reply, answered >>

Item(h) == Head(hook[h].left)
Reading(h) == HookAt(h, "read") /\ hook[h].left # << >>

\* Mutant: WhatsAppMessage.create.
RowsAfterCreate(m) == stored[m] + 1

\* upsert by messageId: one statement.
RowsAfterUpsert(m) == IF stored[m] = 0 THEN 1 ELSE stored[m]

StoreText(h) ==
    /\ Reading(h) /\ Item(h) \in Texts /\ stored[Item(h)] < MostRows
    /\ stored' = [stored EXCEPT ![Item(h)] = RowsAfterUpsert(Item(h))]
    /\ ItemDone(h)
    /\ UNCHANGED << talk, reply, answered >>

\* findUnique of the conversation; one that exists is updated.
FindTalk(h) ==
    /\ Reading(h) /\ Item(h) \in Chats
    /\ HookMoves(h, IF talk[SenderOf[Item(h)]] = 0 THEN "create" ELSE "append")
    /\ UNCHANGED << stored, talk, reply, answered >>

\* platformUserId is unique: of two first messages one fails, and with it its payload.
CreateTalk(h) ==
    /\ HookAt(h, "create") /\ talk[SenderOf[Item(h)]] = 0
    /\ talk' = [talk EXCEPT ![SenderOf[Item(h)]] = @ + 1]
    /\ HookMoves(h, "append")
    /\ UNCHANGED << stored, reply, answered >>

\* Nothing tells a message that is delivered again.
StoreChat(h) ==
    /\ HookAt(h, "append") /\ stored[Item(h)] < MostRows
    /\ stored' = [stored EXCEPT ![Item(h)] = @ + 1]
    /\ ItemDone(h)
    /\ UNCHANGED << talk, reply, answered >>

\* The end of the loop: success, whatever else the payload held.
AnswerHook(h) ==
    /\ HookAt(h, "read") /\ hook[h].left = << >>
    /\ answered' = answered \cup { hook[h].all[i] : i \in DOMAIN hook[h].all }
    /\ hook' = [hook EXCEPT ![h] = IdleHook]
    /\ UNCHANGED << stored, talk, reply >>

\* An exception, answered with success: false and status 200, or a stopped process.
FailHook(h) ==
    /\ ~HookAt(h, "idle") /\ hook' = [hook EXCEPT ![h] = IdleHook]
    /\ UNCHANGED << stored, talk, reply, answered >>

-----------------------------------------------------------------------------
(* replyToConversation and sendReply                                        *)

\* The last message of the customer is at most a day old.
ReadWindow(h) ==
    /\ HookAt(h, "idle") /\ \E m \in Received : stored[m] > 0
    /\ HookMoves(h, "window") /\ reply' = NoReply
    /\ \A g \in Hooks : ~HookAt(g, "window") /\ ~HookAt(g, "sent")    \* one reply at a time
    /\ UNCHANGED << stored, talk, answered >>

\* The platform takes the message; the answer may be lost.
PostReply(h) ==
    /\ HookAt(h, "window") /\ reply' = [reply EXCEPT !.there = TRUE]
    /\ HookMoves(h, "sent")
    /\ UNCHANGED << stored, talk, answered >>

\* The platform refuses: WhatsAppService keeps a FAILED row.
ReplyRefused(h) ==
    /\ HookAt(h, "window") /\ reply' = [reply EXCEPT !.row = "FAILED"]
    /\ hook' = [hook EXCEPT ![h] = IdleHook]
    /\ UNCHANGED << stored, talk, answered >>

KeepReply(h) ==
    /\ HookAt(h, "sent") /\ reply' = [reply EXCEPT !.row = "SENT"]
    /\ hook' = [hook EXCEPT ![h] = IdleHook]
    /\ UNCHANGED << stored, talk, answered >>

\* A status webhook updates the rows with that id; it may come before there is one.
Status ==
    /\ reply.there
    /\ reply' = IF reply.row = "none" THEN reply ELSE [reply EXCEPT !.row = "READ"]
    /\ UNCHANGED << stored, talk, hook, answered >>

InboxNext ==
    \/ \E h \in Hooks :
        \/ \E payload \in Payloads : Receive(h, payload)
        \/ StoreText(h) \/ FindTalk(h) \/ CreateTalk(h) \/ StoreChat(h) \/ AnswerHook(h) \/ FailHook(h)
        \/ ReadWindow(h) \/ PostReply(h) \/ ReplyRefused(h) \/ KeepReply(h)
    \/ Status

InboxSpec == InboxInit /\ [][InboxNext]_inboxVars

-----------------------------------------------------------------------------
\* However payloads are repeated, overlap and fail: a message on WhatsApp is stored once and
\* a customer has one conversation; a message of the first entry of a payload that was answered
\* with success is there, in a conversation (of later entries nothing is kept, whatever the
\* answer); and no row says that a reply was sent that the platform did not take.
KeptOnce ==
    /\ \A m \in Texts : stored[m] <= 1
    /\ \A s \in Senders : talk[s] <= 1
    /\ \A m \in answered : stored[m] > 0
    /\ \A m \in Chats : stored[m] > 0 => talk[SenderOf[m]] = 1
    /\ reply.row \in {"SENT", "READ"} => reply.there
=============================================================================
