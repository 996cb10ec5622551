------------------------------ MODULE EvidenceChat ------------------------------
(***************************************************************************)
(* The conversations about one run's evidence (conversation.py) and the    *)
(* Responses protocol in front of them (chat_protocol.py).                 *)
(*                                                                         *)
(* A turn is claimed, asks the model up to three times, each request       *)
(* counted before it is sent, and is finished; each of these is a          *)
(* transaction of its own, and the event loop may serve other requests     *)
(* between any two of them.  A key stands for its message.                 *)
(***************************************************************************)
EXTENDS BudgetGrants

CONSTANTS
    Chats,        \* conversation identifiers
    TurnKeys,     \* idempotency keys of messages and of responses
    Clients,      \* requests being served
    MaxRequests,  \* the chat policy's allowance
    TurnLimit,    \* turns of a conversation when the budget is enforced; 12 in the code
    CallLimit,    \* model requests of a turn; 3 in the code
    MaxUsed,      \* bound: requests that are counted
    MaxTurns      \* bound: turns of a conversation

ASSUME ChatBoundAssumption ==
    {MaxRequests, TurnLimit, CallLimit, MaxUsed, MaxTurns} \subseteq Nat

VARIABLES
    enforced,   \* whether the store enforces its budget; fixed when it is made
    chats,      \* chats rows: revision and turns
    responses,  \* chat_response_requests: what each response key was bound to
    used,       \* chat_budgets.used
    client      \* what each request knows and where it is

chat == <<enforced, chats, responses, used, client>>

Turn == [key : TurnKeys, at : Nat, status : {"running", "finished"}, calls : Nat]

ASSUME ChatNoneAssumption == None \notin Seq(Turn)

NoChat == [rev |-> 0, turns |-> None]
NewChat == [rev |-> 0, turns |-> <<>>]
NoClient == [pc |-> "idle"]

ChatInit ==
    /\ enforced \in BOOLEAN
    /\ chats = [c \in Chats |-> NoChat]
    /\ responses = [k \in TurnKeys |-> None]
    /\ used = 0
    /\ client = [t \in Clients |-> NoClient]

Serve(t, new) == client' = [client EXCEPT ![t] = new]
Leave(t) == Serve(t, NoClient)
Is(t, pc) == client[t].pc = pc
Open(c) == chats[c].turns # None
Limit == MaxRequests + AddedRequests

CreateChat(c) ==
    /\ ~ Open(c)
    /\ chats' = [chats EXCEPT ![c] = NewChat]
    /\ UNCHANGED <<enforced, responses, used, client>>

\* POST /conversations/{chat_id}/messages, with the latest revision: an older
\* one has no effect.
SendMessage(t, c, k) ==
    /\ Is(t, "idle")
    /\ Open(c)
    /\ Serve(t, [pc |-> "claim", chat |-> c, key |-> k, rev |-> chats[c].rev, calls |-> 0])
    /\ UNCHANGED <<enforced, chats, responses, used>>

\* POST /responses.  A key is bound, for ever, to a conversation and to the
\* revision its turn is expected at: a new conversation, or the one of the
\* latest response.  The turn is claimed in a later transaction.
SendResponse(t, k, c, previous) ==
    /\ Is(t, "idle")
    /\ LET row == responses[k]
           at == IF previous THEN chats[c].rev ELSE 0
       IN  IF row # None
           THEN /\ row.previous = previous
                /\ Serve(t, [pc |-> "claim", chat |-> row.chat, key |-> k, rev |-> row.rev, calls |-> 0])
                /\ UNCHANGED <<chats, responses>>
           ELSE /\ IF previous THEN Open(c) /\ at >= 1 ELSE ~ Open(c)
                /\ chats' = IF previous THEN chats ELSE [chats EXCEPT ![c] = NewChat]
                /\ responses' = [responses EXCEPT ![k] = [chat |-> c, rev |-> at, previous |-> previous]]
                /\ Serve(t, [pc |-> "claim", chat |-> c, key |-> k, rev |-> at, calls |-> 0])
    /\ UNCHANGED <<enforced, used>>

\* Mutant of TurnMayRun: a turn that is still running is no obstacle.
TurnMayRunBesides(c, k, rev) ==
    /\ \A i \in DOMAIN chats[c].turns : chats[c].turns[i].key # k
    /\ chats[c].rev = rev
    /\ enforced => Len(chats[c].turns) < TurnLimit

TurnMayRun(c, k, rev) ==
    /\ \A i \in DOMAIN chats[c].turns :
          chats[c].turns[i].key # k /\ chats[c].turns[i].status # "running"
    /\ chats[c].rev = rev
    /\ enforced => Len(chats[c].turns) < TurnLimit

\* ChatStore.claim; otherwise the turn of the key is returned, or a Conflict.
ClaimTurn(t) ==
    /\ Is(t, "claim")
    /\ LET c == client[t].chat
       IN  IF TurnMayRun(c, client[t].key, client[t].rev)
           THEN /\ Len(chats[c].turns) < MaxTurns
                /\ chats' = [chats EXCEPT ![c].turns =
                      Append(@, [key |-> client[t].key, at |-> client[t].rev, status |-> "running", calls |-> 0])]
                /\ Serve(t, [client[t] EXCEPT !.pc = IF enforced /\ used = Limit THEN "finish" ELSE "ask"])
           ELSE /\ Leave(t)
                /\ UNCHANGED chats
    /\ UNCHANGED <<enforced, responses, used>>

\* Mutant of MayReserve: the budget was looked at when the turn was claimed.
MayReserveUnchecked == TRUE

MayReserve == enforced => used < Limit

\* BudgetTransport: a turn's requests are limited, and each is counted first.
Reserve(t) ==
    /\ Is(t, "ask")
    /\ IF client[t].calls < CallLimit /\ MayReserve
       THEN /\ used < MaxUsed
            /\ used' = used + 1
            /\ Serve(t, [client[t] EXCEPT !.pc = "send", !.calls = @ + 1])
       ELSE /\ Serve(t, [client[t] EXCEPT !.pc = "finish"])
            /\ UNCHANGED used
    /\ UNCHANGED <<enforced, chats, responses>>

\* The model calls a tool and is asked again, or it answers or fails.
Ask(t, next) ==
    /\ Is(t, "send")
    /\ Serve(t, [client[t] EXCEPT !.pc = next])
    /\ UNCHANGED <<enforced, chats, responses, used>>

\* ChatStore.finish closes the last turn, with its answer or its error, and
\* moves the conversation on.
FinishTurn(t) ==
    /\ Is(t, "finish")
    /\ LET c == client[t].chat
           turns == chats[c].turns
           n == Len(turns)
           ended == [turns[n] EXCEPT !.status = "finished", !.calls = client[t].calls]
       IN  chats' = IF turns[n].key = client[t].key /\ turns[n].status = "running"
                    THEN [chats EXCEPT ![c] =
                            [rev |-> chats[c].rev + 1, turns |-> [turns EXCEPT ![n] = ended]]]
                    ELSE chats
    /\ Leave(t)
    /\ UNCHANGED <<enforced, responses, used>>

\* A request is cut short: its turn stays running, and has to be reviewed.
Drop(t) ==
    /\ ~ Is(t, "idle")
    /\ Leave(t)
    /\ UNCHANGED <<enforced, chats, responses, used>>

RestartChat == client' = [t \in Clients |-> NoClient] /\ UNCHANGED <<enforced, chats, responses, used>>

Service(t) ==
    \/ \E c \in Chats, k \in TurnKeys : SendMessage(t, c, k)
    \/ \E c \in Chats, k \in TurnKeys, previous \in BOOLEAN : SendResponse(t, k, c, previous)
    \/ ClaimTurn(t) \/ Reserve(t) \/ FinishTurn(t) \/ Drop(t)
    \/ \E next \in {"ask", "finish"} : Ask(t, next)

ChatNext ==
    /\ \/ \E c \in Chats : CreateChat(c)
       \/ \E t \in Clients : Service(t)
    /\ UNCHANGED grants

\* The server is started with a grant file; requests do not survive it.
RestartChatWith(g, a) == ApplyGrant(g, a) /\ RestartChat

ChatSpec ==
    /\ grants = <<>> /\ ChatInit
    /\ [][ChatNext \/ \E g \in Grants, a \in Authorities : RestartChatWith(g, a)]_<<grants, chat>>

---------------------------------------------------------------------------
(* Properties.                                                             *)

ChatTypeOK ==
    /\ enforced \in BOOLEAN
    /\ used \in 0 .. MaxUsed
    /\ \A c \in Chats : chats[c].rev \in Nat /\ (Open(c) => Len(chats[c].turns) <= MaxTurns)
    /\ \A k \in TurnKeys : responses[k] # None => responses[k].chat \in Chats

\* A request to the model is counted before it is sent.  A store that enforces
\* its budget never counts more than the policy and the grants applied allow,
\* whatever conversations run beside each other; and no turn makes more
\* requests than a turn may.
RequestsArePaid ==
    /\ enforced => used <= Limit
    /\ \A c \in Chats : Open(c) => \A i \in DOMAIN chats[c].turns : chats[c].turns[i].calls <= CallLimit

\* The revision of a conversation counts its finished turns: the i-th turn was
\* asked for at revision i - 1, as the identifier of its response says, one
\* turn has each key, and only the last may be running.
TurnsAreNumbered ==
    \A c \in Chats : Open(c) =>
        LET turns == chats[c].turns
            finished == {i \in DOMAIN turns : turns[i].status # "running"}
        IN  /\ chats[c].rev = Cardinality(finished)
            /\ \A i \in DOMAIN turns : turns[i].at = i - 1
            /\ \A i, j \in DOMAIN turns : turns[i].key = turns[j].key => i = j
            /\ DOMAIN turns \ finished \subseteq {Len(turns)}
=============================================================================
