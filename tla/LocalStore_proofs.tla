--------------------------- MODULE LocalStore_proofs ---------------------------
(***************************************************************************)
(* Proofs about EvidenceChat, for any number of conversations, requests,   *)
(* keys and limits, whether or not the store enforces its budget; and      *)
(* about the local store with both its users.                              *)
(***************************************************************************)
EXTENDS LocalStore, LiveAnalysis_proofs

----------------------------------------------------------------------------
(* Conversations.                                                          *)

\* A request that is being served, with the conversation it is about.
ChatRequests ==
    [pc : {"claim", "ask", "send", "finish"}, chat : Chats, key : TurnKeys, rev : Nat, calls : Nat]

ChatTypes ==
    /\ chats \in [Chats -> [rev : Nat, turns : Seq(Turn) \cup {None}]]
    /\ responses \in [TurnKeys -> {None} \cup [chat : Chats, rev : Nat, previous : BOOLEAN]]
    /\ client \in [Clients -> {NoClient} \cup ChatRequests]

\* The conversation of a request is there, and has a turn once one was claimed.
HasTurn(q) ==
    q.pc # "idle" =>
        /\ Open(q.chat)
        /\ q.pc # "claim" => chats[q.chat].turns # <<>>

ClientsHaveTurns == \A t \in Clients : HasTurn(client[t])

ResponsesHaveChats == \A k \in TurnKeys : responses[k] # None => Open(responses[k].chat)

\* How many turns of a conversation are finished: all, or all but the last.
FinishedTurns(turns) ==
    IF turns # <<>> /\ turns[Len(turns)].status = "running" THEN Len(turns) - 1 ELSE Len(turns)

\* Of a list of turns: each was asked for at its place, with a key of its own, and
\* no turn but the last runs.
Numbered(turns) ==
    /\ \A i \in DOMAIN turns : turns[i].at = i - 1
    /\ \A i, j \in DOMAIN turns : turns[i].key = turns[j].key => i = j
    /\ \A i \in DOMAIN turns : turns[i].status = "running" => i = Len(turns)

ChatsAreNumbered ==
    \A c \in Chats : Open(c) =>
        Numbered(chats[c].turns) /\ chats[c].rev = FinishedTurns(chats[c].turns)

\* The inductive invariant.
ChatIInv == ChatTypes /\ ClientsHaveTurns /\ ResponsesHaveChats /\ ChatsAreNumbered

\* Conversations are only opened and continued.
ChatsGrow ==
    \A c \in Chats : Open(c) =>
        Open(c)' /\ (chats[c].turns # <<>> => chats'[c].turns # <<>>)

----------------------------------------------------------------------------
(* Lists of turns.                                                         *)

\* A claimed turn continues the numbering.
LEMMA AppendTurn ==
    ASSUME NEW turns \in Seq(Turn), Numbered(turns), NEW turn \in Turn,
           \A i \in DOMAIN turns : turns[i].key # turn.key /\ turns[i].status # "running",
           turn.at = FinishedTurns(turns), turn.status = "running"
    PROVE  /\ Append(turns, turn) \in Seq(Turn)
           /\ Append(turns, turn) # <<>>
           /\ Numbered(Append(turns, turn))
           /\ FinishedTurns(Append(turns, turn)) = FinishedTurns(turns)
  <1> DEFINE new == Append(turns, turn)
             n == Len(turns)
  <1>1. /\ n \in Nat /\ DOMAIN turns = 1 .. n
        /\ new \in Seq(Turn) /\ Len(new) = n + 1 /\ DOMAIN new = 1 .. n + 1
        /\ new[n + 1] = turn /\ (\A i \in 1 .. n : new[i] = turns[i]) /\ new # <<>>
    OBVIOUS
  <1> HIDE DEF new
  <1>2. FinishedTurns(turns) = n
    <2>1. turns # <<>> => n \in DOMAIN turns
      BY <1>1
    <2> QED BY <2>1 DEF FinishedTurns
  <1>3. \A i \in DOMAIN new : new[i].at = i - 1
    BY <1>1, <1>2 DEF Numbered
  <1>4. \A i, j \in DOMAIN new : new[i].key = new[j].key => i = j
    BY <1>1 DEF Numbered
  <1>5. \A i \in DOMAIN new : new[i].status = "running" => i = Len(new)
    BY <1>1 DEF Numbered
  <1>6. FinishedTurns(new) = n
    BY <1>1 DEF FinishedTurns
  <1> QED BY <1>1, <1>2, <1>3, <1>4, <1>5, <1>6 DEF Numbered, new

\* The end of the last turn keeps the numbering and is one more finished turn.
LEMMA EndLastTurn ==
    ASSUME NEW turns \in Seq(Turn), Numbered(turns), turns # <<>>,
           turns[Len(turns)].status = "running",
           NEW ended \in Turn, ended.status = "finished",
           ended.at = turns[Len(turns)].at, ended.key = turns[Len(turns)].key,
           NEW new, new = [turns EXCEPT ![Len(turns)] = ended]
    PROVE  /\ new \in Seq(Turn)
           /\ new # <<>>
           /\ Numbered(new)
           /\ FinishedTurns(new) = FinishedTurns(turns) + 1
  <1> DEFINE n == Len(turns)
  <1>1. /\ n \in Nat \ {0} /\ DOMAIN turns = 1 .. n
        /\ \A i \in 1 .. n : turns[i] \in Turn
    OBVIOUS
  <1>3. /\ DOMAIN new = 1 .. n
        /\ new[n] = ended
        /\ \A i \in 1 .. n : i # n => new[i] = turns[i]
    BY <1>1
  <1>4. new \in Seq(Turn) /\ Len(new) = n
    BY <1>1, <1>3
  <1> HIDE DEF n
  <1>5. new[n].at = turns[n].at /\ new[n].key = turns[n].key /\ new[n].status = "finished"
    BY <1>1, <1>3 DEF n
  <1>6. \A i \in 1 .. n : new[i].at = turns[i].at /\ new[i].key = turns[i].key
    BY <1>3, <1>5
  <1>7. \A i \in 1 .. n : new[i].status # "running"
    BY <1>1, <1>3, <1>5 DEF Numbered, n
  <1>8. Numbered(new)
    BY <1>1, <1>3, <1>4, <1>6, <1>7 DEF Numbered
  <1>9. FinishedTurns(turns) = n - 1
    BY DEF FinishedTurns, n
  <1>10. new # <<>> /\ FinishedTurns(new) = n
    BY <1>1, <1>4, <1>7 DEF FinishedTurns
  <1> QED BY <1>1, <1>4, <1>8, <1>9, <1>10

\* The finished turns of a numbered list are as many as FinishedTurns says.
LEMMA CountFinished ==
    ASSUME NEW turns \in Seq(Turn), Numbered(turns)
    PROVE  Cardinality({i \in DOMAIN turns : turns[i].status # "running"}) = FinishedTurns(turns)
  <1> DEFINE m == FinishedTurns(turns)
             finished == {i \in DOMAIN turns : turns[i].status # "running"}
  <1>1. Len(turns) \in Nat /\ DOMAIN turns = 1 .. Len(turns) /\ (turns # <<>> => Len(turns) # 0)
    OBVIOUS
  <1>2. m \in Nat
    BY <1>1 DEF FinishedTurns
  <1>3. finished = 1 .. m
    BY <1>1 DEF FinishedTurns, Numbered
  <1>4. Cardinality(1 .. m) = m
    BY <1>2, FS_Interval
  <1> QED BY <1>3, <1>4

----------------------------------------------------------------------------
(* The invariant.                                                          *)

LEMMA ChatInitInvariant == ASSUME ChatInit PROVE ChatIInv
  <1>1. chats = [c \in Chats |-> NoChat] /\ client = [t \in Clients |-> NoClient]
        /\ responses = [k \in TurnKeys |-> None]
    BY DEF ChatInit
  <1>2. \A c \in Chats : chats[c].turns = None
    BY <1>1 DEF NoChat
  <1>3. ChatTypes
    BY <1>1 DEF ChatTypes, NoChat
  <1>4. ClientsHaveTurns
    BY <1>1 DEF ClientsHaveTurns, HasTurn, NoClient
  <1>5. ResponsesHaveChats /\ ChatsAreNumbered
    BY <1>1, <1>2 DEF ResponsesHaveChats, ChatsAreNumbered, Open
  <1> QED BY <1>3, <1>4, <1>5 DEF ChatIInv

\* What a request relies on stays when conversations are only continued.
LEMMA KeepsRequest ==
    ASSUME ChatsGrow, NEW q \in {NoClient} \cup ChatRequests, HasTurn(q)
    PROVE  HasTurn(q)'
  <1>1. CASE q = NoClient
    BY <1>1 DEF HasTurn, NoClient
  <1>2. CASE q \in ChatRequests
    BY <1>2 DEF HasTurn, ChatsGrow, ChatRequests, Open
  <1> QED BY <1>1, <1>2

\* A step that serves one client and continues conversations.
LEMMA KeepsClients ==
    ASSUME ChatIInv, ChatsGrow, NEW t \in Clients, NEW q, client' = [client EXCEPT ![t] = q], HasTurn(q)'
    PROVE  ClientsHaveTurns'
  <1>1. \A s \in Clients : client'[s] = IF s = t THEN q ELSE client[s]
    BY DEF ChatIInv, ChatTypes
  <1>2. \A s \in Clients : HasTurn(client[s])'
    <2> TAKE s \in Clients
    <2>1. client[s] \in {NoClient} \cup ChatRequests /\ HasTurn(client[s])
      BY DEF ChatIInv, ChatTypes, ClientsHaveTurns
    <2>2. CASE s = t
      BY <1>1, <2>2 DEF HasTurn, Open
    <2>3. CASE s # t
      <3> DEFINE p == client[s]
      <3>1. p \in {NoClient} \cup ChatRequests /\ HasTurn(p)
        BY <2>1
      <3>2. client'[s] = p
        BY <1>1, <2>3
      <3> HIDE DEF p
      <3> QED BY <3>1, <3>2, KeepsRequest DEF HasTurn, Open
    <2> QED BY <2>2, <2>3
  <1> QED BY <1>2 DEF ClientsHaveTurns

\* A step that changes no conversation, and whose request is proper.
LEMMA KeepsChats ==
    ASSUME ChatIInv, UNCHANGED <<chats, responses>>,
           NEW t \in Clients, NEW q \in {NoClient} \cup ChatRequests,
           client' = [client EXCEPT ![t] = q], HasTurn(q)
    PROVE  ChatIInv'
  <1>1. ChatsGrow
    BY DEF ChatsGrow, Open
  <1>2. ChatTypes'
    BY DEF ChatIInv, ChatTypes
  <1>3. ClientsHaveTurns'
    BY <1>1, KeepsRequest, KeepsClients
  <1>4. ResponsesHaveChats' /\ ChatsAreNumbered'
    BY DEF ChatIInv, ResponsesHaveChats, ChatsAreNumbered, Open
  <1> QED BY <1>2, <1>3, <1>4 DEF ChatIInv

\* A request of a client that is not idle.
LEMMA ServedRequest ==
    ASSUME ChatIInv, NEW t \in Clients, client[t].pc # "idle"
    PROVE  /\ client[t] \in ChatRequests
           /\ HasTurn(client[t])
  BY DEF ChatIInv, ChatTypes, ClientsHaveTurns, NoClient

\* A client that leaves, or that was served without a step of a conversation.
LEMMA LeaveInvariant ==
    ASSUME ChatIInv, UNCHANGED <<chats, responses>>, NEW t \in Clients, Leave(t)
    PROVE  ChatIInv'
  <1>1. HasTurn(NoClient)
    BY DEF HasTurn, NoClient
  <1> QED BY <1>1, KeepsChats DEF Leave, Serve

LEMMA ServeInvariant ==
    ASSUME ChatIInv, UNCHANGED <<chats, responses>>, NEW t \in Clients,
           client[t].pc \notin {"idle", "claim"},
           NEW pc \in {"ask", "send", "finish"}, NEW n \in Nat,
           Serve(t, [client[t] EXCEPT !.pc = pc, !.calls = n])
    PROVE  ChatIInv'
  <1> DEFINE old == client[t]
             q == [old EXCEPT !.pc = pc, !.calls = n]
  <1>1. old \in ChatRequests /\ HasTurn(old)
    BY ServedRequest
  <1>2. q \in ChatRequests /\ q.chat = old.chat /\ q.pc = pc
    BY <1>1 DEF ChatRequests
  <1>3. HasTurn(q)
    BY <1>1, <1>2 DEF HasTurn
  <1> QED BY <1>2, <1>3, KeepsChats DEF Serve

LEMMA OpenTypes ==
    ASSUME ChatIInv, NEW c \in Chats, Open(c)
    PROVE  /\ chats[c].turns \in Seq(Turn)
           /\ chats[c].rev \in Nat
           /\ Numbered(chats[c].turns)
           /\ chats[c].rev = FinishedTurns(chats[c].turns)
  BY DEF ChatIInv, ChatTypes, ChatsAreNumbered, Open

\* A conversation that is opened has no turns, and no request is about it.
LEMMA OpenChat ==
    ASSUME ChatIInv, NEW c \in Chats, ~ Open(c), chats' = [chats EXCEPT ![c] = NewChat]
    PROVE  /\ chats' \in [Chats -> [rev : Nat, turns : Seq(Turn) \cup {None}]]
           /\ ChatsGrow
           /\ ChatsAreNumbered'
           /\ Open(c)'
           /\ \A d \in Chats : Open(d) => Open(d)'
  <1>1. /\ \A d \in Chats : chats'[d] = IF d = c THEN NewChat ELSE chats[d]
        /\ chats' \in [Chats -> [rev : Nat, turns : Seq(Turn) \cup {None}]]
    BY DEF ChatIInv, ChatTypes, NewChat
  <1>2. Numbered(<<>>) /\ FinishedTurns(<<>>) = 0 /\ <<>> # None
    <2>1. <<>> \in Seq(Turn) /\ DOMAIN <<>> = {} /\ Len(<<>>) = 0
      OBVIOUS
    <2>2. <<>> # None
      BY <2>1, ChatNoneAssumption
    <2>3. Numbered(<<>>)
      BY <2>1 DEF Numbered
    <2>4. FinishedTurns(<<>>) = 0
      BY <2>1 DEF FinishedTurns
    <2> QED BY <2>2, <2>3, <2>4
  <1>3. ChatsGrow /\ (\A d \in Chats : Open(d) => Open(d)') /\ Open(c)'
    BY <1>1, <1>2 DEF ChatsGrow, Open, NewChat
  <1>4. ChatsAreNumbered'
    <2> SUFFICES ASSUME NEW d \in Chats, Open(d)'
                 PROVE  Numbered(chats'[d].turns) /\ chats'[d].rev = FinishedTurns(chats'[d].turns)
      BY DEF ChatsAreNumbered, Numbered, FinishedTurns
    <2>1. CASE d = c
      BY <1>1, <1>2, <2>1 DEF NewChat
    <2>2. CASE d # c
      BY <1>1, <2>2 DEF ChatIInv, ChatsAreNumbered, Open
    <2> QED BY <2>1, <2>2
  <1> QED BY <1>1, <1>3, <1>4

\* A step of the turns of one conversation that is open.
LEMMA ContinueChat ==
    ASSUME ChatIInv, NEW c \in Chats, Open(c), NEW row \in [rev : Nat, turns : Seq(Turn)],
           row.turns # <<>>, Numbered(row.turns), row.rev = FinishedTurns(row.turns),
           chats' = [chats EXCEPT ![c] = row], UNCHANGED responses,
           NEW t \in Clients, NEW q \in {NoClient} \cup ChatRequests,
           client' = [client EXCEPT ![t] = q], q = NoClient \/ q.chat = c
    PROVE  ChatIInv'
  <1>1. /\ \A d \in Chats : chats'[d] = IF d = c THEN row ELSE chats[d]
        /\ chats' \in [Chats -> [rev : Nat, turns : Seq(Turn) \cup {None}]]
    BY DEF ChatIInv, ChatTypes
  <1>2. row.turns # None
    BY ChatNoneAssumption
  <1>3. ChatsGrow
    BY <1>1, <1>2 DEF ChatsGrow, Open
  <1>4. ChatTypes'
    BY <1>1 DEF ChatIInv, ChatTypes
  <1>5. HasTurn(q)'
    BY <1>1, <1>2 DEF HasTurn, Open, NoClient
  <1>6. ClientsHaveTurns'
    BY <1>3, <1>5, KeepsClients
  <1>7. ResponsesHaveChats'
    BY <1>3 DEF ChatsGrow, ChatIInv, ChatTypes, ResponsesHaveChats, Open
  <1>8. ChatsAreNumbered'
    <2> SUFFICES ASSUME NEW d \in Chats, Open(d)'
                 PROVE  Numbered(chats'[d].turns) /\ chats'[d].rev = FinishedTurns(chats'[d].turns)
      BY DEF ChatsAreNumbered, Numbered, FinishedTurns
    <2>1. CASE d = c
      BY <1>1, <2>1
    <2>2. CASE d # c
      BY <1>1, <2>2 DEF ChatIInv, ChatsAreNumbered, Open
    <2> QED BY <2>1, <2>2
  <1> QED BY <1>4, <1>6, <1>7, <1>8 DEF ChatIInv

----------------------------------------------------------------------------
(* The steps.                                                              *)

LEMMA CreateChatInvariant == ASSUME ChatIInv, NEW c \in Chats, CreateChat(c) PROVE ChatIInv'
  <1>1. /\ ~ Open(c) /\ chats' = [chats EXCEPT ![c] = NewChat]
        /\ UNCHANGED <<responses, client>>
    BY DEF CreateChat
  <1>2. ChatTypes' /\ ChatsGrow /\ ChatsAreNumbered' /\ (\A d \in Chats : Open(d) => Open(d)')
    BY <1>1, OpenChat DEF ChatIInv, ChatTypes
  <1>3. ResponsesHaveChats'
    BY <1>1, <1>2 DEF ChatIInv, ChatTypes, ResponsesHaveChats, Open
  <1>4. ClientsHaveTurns'
    <2>1. \A t \in Clients : HasTurn(client[t])'
      <3> TAKE t \in Clients
      <3> DEFINE q == client[t]
      <3>1. q \in {NoClient} \cup ChatRequests /\ HasTurn(q)
        BY DEF ChatIInv, ChatTypes, ClientsHaveTurns
      <3>2. client'[t] = q
        BY <1>1
      <3> HIDE DEF q
      <3> QED BY <1>2, <3>1, <3>2, KeepsRequest DEF HasTurn, Open
    <2> QED BY <2>1 DEF ClientsHaveTurns
  <1> QED BY <1>2, <1>3, <1>4 DEF ChatIInv

LEMMA SendMessageInvariant ==
    ASSUME ChatIInv, NEW t \in Clients, NEW c \in Chats, NEW k \in TurnKeys, SendMessage(t, c, k)
    PROVE  ChatIInv'
  <1> DEFINE q == [pc |-> "claim", chat |-> c, key |-> k, rev |-> chats[c].rev, calls |-> 0]
  <1>1. Open(c) /\ client' = [client EXCEPT ![t] = q] /\ UNCHANGED <<chats, responses>>
    BY DEF SendMessage, Serve
  <1>2. q \in ChatRequests /\ HasTurn(q)
    BY <1>1, OpenTypes DEF ChatRequests, HasTurn
  <1> QED BY <1>1, <1>2, KeepsChats

\* The key of a response is new, or it is bound to a conversation that is open.
LEMMA SendResponseInvariant ==
    ASSUME ChatIInv, NEW t \in Clients, NEW k \in TurnKeys, NEW c \in Chats,
           NEW previous \in BOOLEAN, SendResponse(t, k, c, previous)
    PROVE  ChatIInv'
  <1> DEFINE row == responses[k]
             at == IF previous THEN chats[c].rev ELSE 0
             bound == [chat |-> c, rev |-> at, previous |-> previous]
             q == [pc |-> "claim", chat |-> c, key |-> k, rev |-> at, calls |-> 0]
             r == [pc |-> "claim", chat |-> row.chat, key |-> k, rev |-> row.rev, calls |-> 0]
  <1>1. CASE row # None
    <2>1. client' = [client EXCEPT ![t] = r] /\ UNCHANGED <<chats, responses>>
      BY <1>1 DEF SendResponse, Serve
    <2>2. row \in [chat : Chats, rev : Nat, previous : BOOLEAN] /\ Open(row.chat)
      BY <1>1 DEF ChatIInv, ChatTypes, ResponsesHaveChats
    <2>3. r \in ChatRequests /\ HasTurn(r)
      BY <2>2 DEF ChatRequests, HasTurn
    <2> QED BY <2>1, <2>3, KeepsChats
  <1>2. CASE row = None
    <2>1. /\ client' = [client EXCEPT ![t] = q]
          /\ responses' = [responses EXCEPT ![k] = bound]
      BY <1>2 DEF SendResponse, Serve
    <2>2. at \in Nat
      BY DEF ChatIInv, ChatTypes
    <2>3. /\ chats' \in [Chats -> [rev : Nat, turns : Seq(Turn) \cup {None}]]
          /\ ChatsGrow /\ ChatsAreNumbered' /\ Open(c)'
          /\ \A d \in Chats : Open(d) => Open(d)'
      <3>1. CASE previous
        <4>1. Open(c) /\ chats' = chats
          BY <1>2, <3>1 DEF SendResponse
        <4> QED BY <4>1 DEF ChatIInv, ChatTypes, ChatsGrow, ChatsAreNumbered, Open
      <3>2. CASE ~ previous
        <4>1. ~ Open(c) /\ chats' = [chats EXCEPT ![c] = NewChat]
          BY <1>2, <3>2 DEF SendResponse
        <4> QED BY <4>1, OpenChat
      <3> QED BY <3>1, <3>2
    <2>4. q \in ChatRequests
      BY <2>2 DEF ChatRequests
    <2>6. bound \in [chat : Chats, rev : Nat, previous : BOOLEAN]
      BY <2>2
    <2>7. ChatTypes'
      BY <2>1, <2>3, <2>4, <2>6 DEF ChatIInv, ChatTypes
    <2>8. ClientsHaveTurns'
      <3>1. PICK p : p = q
        OBVIOUS
      <3>2. client' = [client EXCEPT ![t] = p] /\ p \in ChatRequests /\ p.chat = c /\ p.pc = "claim"
        BY <2>1, <2>4, <3>1
      <3>3. HasTurn(p)'
        BY <2>3, <3>2 DEF HasTurn, Open
      <3> QED BY <2>3, <3>2, <3>3, KeepsClients
    <2>9. ResponsesHaveChats'
      BY <2>1, <2>3 DEF ChatIInv, ChatTypes, ResponsesHaveChats, Open
    <2> QED BY <2>3, <2>7, <2>8, <2>9 DEF ChatIInv
  <1> QED BY <1>1, <1>2

\* The turn of a claim is asked for at the revision that counts the turns before it.
LEMMA ClaimTurnInvariant == ASSUME ChatIInv, NEW t \in Clients, ClaimTurn(t) PROVE ChatIInv'
  <1> DEFINE old == client[t]
             c == old.chat
             turn == [key |-> old.key, at |-> old.rev, status |-> "running", calls |-> 0]
             row == [chats[c] EXCEPT !.turns = Append(chats[c].turns, turn)]
             pc == IF enforced /\ used = Limit THEN "finish" ELSE "ask"
             q == [old EXCEPT !.pc = pc]
  <1>1. old \in ChatRequests /\ Open(c) /\ c \in Chats
    BY ServedRequest DEF ClaimTurn, Is, HasTurn, ChatRequests
  <1>2. CASE TurnMayRun(c, old.key, old.rev)
    <2>1. /\ chats' = [chats EXCEPT ![c].turns = Append(@, turn)]
          /\ client' = [client EXCEPT ![t] = q]
          /\ UNCHANGED responses
      BY <1>2 DEF ClaimTurn, Serve
    <2>2. /\ chats[c] \in [rev : Nat, turns : Seq(Turn) \cup {None}]
          /\ chats[c].turns \in Seq(Turn) /\ chats[c].rev \in Nat /\ Numbered(chats[c].turns)
          /\ chats[c].rev = FinishedTurns(chats[c].turns)
      BY <1>1, OpenTypes DEF ChatIInv, ChatTypes
    <2>3. /\ turn \in Turn
          /\ turn.at = FinishedTurns(chats[c].turns)
          /\ \A i \in DOMAIN chats[c].turns :
                chats[c].turns[i].key # turn.key /\ chats[c].turns[i].status # "running"
      BY <1>1, <1>2, <2>2 DEF Turn, ChatRequests, TurnMayRun
    <2>4. /\ row.turns = Append(chats[c].turns, turn) /\ row.rev = chats[c].rev
          /\ row \in [rev : Nat, turns : Seq(Turn)]
          /\ row.turns # <<>> /\ Numbered(row.turns) /\ row.rev = FinishedTurns(row.turns)
      <3>1. /\ Append(chats[c].turns, turn) \in Seq(Turn)
            /\ Append(chats[c].turns, turn) # <<>>
            /\ Numbered(Append(chats[c].turns, turn))
            /\ FinishedTurns(Append(chats[c].turns, turn)) = FinishedTurns(chats[c].turns)
        <4> HIDE DEF turn
        <4>1. turn.status = "running"
          BY DEF turn
        <4> QED BY <2>2, <2>3, <4>1, AppendTurn
      <3>2. row.turns = Append(chats[c].turns, turn) /\ row.rev = chats[c].rev
        BY <2>2
      <3>3. row \in [rev : Nat, turns : Seq(Turn)]
        BY <2>2, <3>1
      <3> QED BY <2>2, <3>1, <3>2, <3>3
    <2>5. chats' = [chats EXCEPT ![c] = row]
      BY <1>1, <2>1, <2>2 DEF ChatIInv, ChatTypes
    <2>6. q \in ChatRequests /\ q.chat = c
      BY <1>1 DEF ChatRequests
    <2> HIDE DEF row, q, c
    <2> QED BY <1>1, <2>1, <2>4, <2>5, <2>6, ContinueChat
  <1>3. CASE ~ TurnMayRun(c, old.key, old.rev)
    BY <1>3, LeaveInvariant DEF ClaimTurn
  <1> QED BY <1>2, <1>3

LEMMA ReserveInvariant == ASSUME ChatIInv, NEW t \in Clients, Reserve(t) PROVE ChatIInv'
  <1>1. client[t] \in ChatRequests /\ client[t].pc = "ask" /\ UNCHANGED <<chats, responses>>
    BY ServedRequest DEF Reserve, Is
  <1>2. CASE client[t].calls < CallLimit /\ MayReserve
    <2>1. client[t].calls + 1 \in Nat
      BY <1>1 DEF ChatRequests
    <2>2. Serve(t, [client[t] EXCEPT !.pc = "send", !.calls = client[t].calls + 1])
      BY <1>2 DEF Reserve
    <2> QED BY <1>1, <2>1, <2>2, ServeInvariant
  <1>3. CASE ~ (client[t].calls < CallLimit /\ MayReserve)
    <2>1. client[t].calls \in Nat
      BY <1>1 DEF ChatRequests
    <2>2. Serve(t, [client[t] EXCEPT !.pc = "finish", !.calls = client[t].calls])
      <3>1. Serve(t, [client[t] EXCEPT !.pc = "finish"])
        BY <1>3 DEF Reserve
      <3>2. [client[t] EXCEPT !.pc = "finish"] = [client[t] EXCEPT !.pc = "finish", !.calls = client[t].calls]
        BY <1>1 DEF ChatRequests
      <3> QED BY <3>1, <3>2
    <2> QED BY <1>1, <2>1, <2>2, ServeInvariant
  <1> QED BY <1>2, <1>3

LEMMA AskInvariant ==
    ASSUME ChatIInv, NEW t \in Clients, NEW next \in {"ask", "finish"}, Ask(t, next)
    PROVE  ChatIInv'
  <1>1. client[t] \in ChatRequests /\ client[t].pc = "send" /\ UNCHANGED <<chats, responses>>
    BY ServedRequest DEF Ask, Is
  <1>2. client[t].calls \in Nat
    BY <1>1 DEF ChatRequests
  <1>3. Serve(t, [client[t] EXCEPT !.pc = next, !.calls = client[t].calls])
    <2>1. Serve(t, [client[t] EXCEPT !.pc = next])
      BY DEF Ask
    <2>2. [client[t] EXCEPT !.pc = next] = [client[t] EXCEPT !.pc = next, !.calls = client[t].calls]
      BY <1>1 DEF ChatRequests
    <2> QED BY <2>1, <2>2
  <1> QED BY <1>1, <1>2, <1>3, ServeInvariant

\* Only the last turn is finished, once, and the revision moves with it.
LEMMA FinishTurnInvariant == ASSUME ChatIInv, NEW t \in Clients, FinishTurn(t) PROVE ChatIInv'
  <1> DEFINE old == client[t]
             c == old.chat
             turns == chats[c].turns
             n == Len(turns)
             last == turns[n]
             ended == [last EXCEPT !.status = "finished", !.calls = old.calls]
             new == [turns EXCEPT ![n] = ended]
             row == [rev |-> chats[c].rev + 1, turns |-> new]
  <1>1. old \in ChatRequests /\ c \in Chats /\ Open(c) /\ turns # <<>>
    BY ServedRequest DEF FinishTurn, Is, HasTurn, ChatRequests
  <1>2. /\ turns \in Seq(Turn) /\ chats[c].rev \in Nat /\ Numbered(turns)
        /\ chats[c].rev = FinishedTurns(turns)
        /\ chats[c] \in [rev : Nat, turns : Seq(Turn) \cup {None}]
    BY <1>1, OpenTypes DEF ChatIInv, ChatTypes
  <1>3. n \in DOMAIN turns /\ last \in Turn
    BY <1>1, <1>2
  <1>4. CASE last.key = old.key /\ last.status = "running"
    <2>1. ended \in Turn /\ ended.status = "finished" /\ ended.at = last.at /\ ended.key = last.key
      BY <1>1, <1>3 DEF Turn, ChatRequests
    <2>2. /\ new \in Seq(Turn) /\ new # <<>> /\ Numbered(new)
          /\ FinishedTurns(new) = FinishedTurns(turns) + 1
      <3> HIDE DEF ended, turns
      <3> QED BY <1>1, <1>2, <1>4, <2>1, EndLastTurn
    <2>3. /\ row \in [rev : Nat, turns : Seq(Turn)]
          /\ row.turns = new /\ row.rev = FinishedTurns(new)
      <3> HIDE DEF new
      <3> QED BY <1>2, <2>2
    <2>4. chats' = [chats EXCEPT ![c] = row]
      BY <1>4 DEF FinishTurn
    <2>5. client' = [client EXCEPT ![t] = NoClient] /\ UNCHANGED responses
      BY DEF FinishTurn, Leave, Serve
    <2> HIDE DEF row, new, c
    <2> QED BY <1>1, <2>2, <2>3, <2>4, <2>5, ContinueChat
  <1>5. CASE ~ (last.key = old.key /\ last.status = "running")
    BY <1>5, LeaveInvariant DEF FinishTurn
  <1> QED BY <1>4, <1>5

LEMMA RestartInvariant == ASSUME ChatIInv, RestartChat PROVE ChatIInv'
  <1>1. client' = [t \in Clients |-> NoClient] /\ UNCHANGED <<chats, responses>>
    BY DEF RestartChat
  <1>2. ChatTypes' /\ ClientsHaveTurns'
    BY <1>1 DEF ChatIInv, ChatTypes, ClientsHaveTurns, HasTurn, NoClient
  <1>3. ResponsesHaveChats' /\ ChatsAreNumbered'
    BY <1>1 DEF ChatIInv, ResponsesHaveChats, ChatsAreNumbered, Open
  <1> QED BY <1>2, <1>3 DEF ChatIInv

LEMMA ServiceInvariant == ASSUME ChatIInv, NEW t \in Clients, Service(t) PROVE ChatIInv'
  <1>1. CASE \E c \in Chats, k \in TurnKeys : SendMessage(t, c, k)
    BY <1>1, SendMessageInvariant
  <1>2. CASE \E c \in Chats, k \in TurnKeys, previous \in BOOLEAN : SendResponse(t, k, c, previous)
    BY <1>2, SendResponseInvariant
  <1>3. CASE ClaimTurn(t)
    BY <1>3, ClaimTurnInvariant
  <1>4. CASE Reserve(t)
    BY <1>4, ReserveInvariant
  <1>5. CASE FinishTurn(t)
    BY <1>5, FinishTurnInvariant
  <1>6. CASE Drop(t)
    BY <1>6, LeaveInvariant DEF Drop
  <1>7. CASE \E next \in {"ask", "finish"} : Ask(t, next)
    BY <1>7, AskInvariant
  <1> QED BY <1>1, <1>2, <1>3, <1>4, <1>5, <1>6, <1>7 DEF Service

LEMMA ChatNextInvariant ==
    ASSUME ChatIInv, [ChatNext \/ \E g \in Grants, a \in Authorities : RestartChatWith(g, a)]_<<grants, chat>>
    PROVE  ChatIInv'
  <1>1. CASE \E c \in Chats : CreateChat(c)
    BY <1>1, CreateChatInvariant
  <1>2. CASE \E t \in Clients : Service(t)
    BY <1>2, ServiceInvariant
  <1>3. CASE \E g \in Grants, a \in Authorities : RestartChatWith(g, a)
    BY <1>3, RestartInvariant DEF RestartChatWith
  <1>4. CASE UNCHANGED <<grants, chat>>
    BY <1>4 DEF chat, ChatIInv, ChatTypes, ClientsHaveTurns, HasTurn, ResponsesHaveChats, ChatsAreNumbered, Open
  <1> QED BY <1>1, <1>2, <1>3, <1>4 DEF ChatNext

----------------------------------------------------------------------------
(* What the grants add.                                                    *)

\* Every set of numbers has a least one.
LEMMA LeastNumber ==
    ASSUME NEW T \in SUBSET Nat, T # {}
    PROVE  \E m \in T : \A n \in T : m <= n
  <1> DEFINE R == {ss \in Nat \X Nat : ss[1] < ss[2]}
  <1>1. IsWellFoundedOn(R, Nat)
    BY NatLessThanWellFounded DEF OpToRel
  <1> HIDE DEF R
  <1>2. PICK m \in T : \A n \in T : ~ (<<n, m>> \in R)
    BY <1>1, WFMin
  <1>3. ASSUME NEW n \in T PROVE m <= n
    <2>1. <<n, m>> \in Nat \X Nat /\ ~ (<<n, m>> \in R)
      BY <1>2
    <2> QED BY <2>1 DEF R
  <1> QED BY <1>3

\* What holds of 0, and of a number up to n when of the one before, holds of n.
LEMMA UpTo ==
    ASSUME NEW n \in Nat, NEW G, 0 \in G, \A i \in 1 .. n : i - 1 \in G => i \in G
    PROVE  0 .. n \subseteq G
  <1> DEFINE Bad == {i \in 0 .. n : i \notin G}
  <1> SUFFICES ASSUME Bad # {} PROVE FALSE
    OBVIOUS
  <1>1. PICK m \in Bad : \A i \in Bad : m <= i
    <2>1. Bad \in SUBSET Nat
      OBVIOUS
    <2> HIDE DEF Bad
    <2> QED BY <2>1, LeastNumber
  <1>2. m \in 1 .. n
    BY <1>1
  <1>3. m - 1 \in 0 .. n /\ m - 1 \notin Bad
    BY <1>1, <1>2
  <1> QED BY <1>1, <1>2, <1>3

\* What is computed step by step from the first value.
LEMMA Recursion ==
    ASSUME NEW T, NEW b \in T, NEW n \in Nat, NEW step \in [1 .. n -> [T -> T]]
    PROVE  \E h \in [0 .. n -> T] : h[0] = b /\ \A i \in 1 .. n : h[i] = step[i][h[i - 1]]
  <1> DEFINE Good(k, h) == h[0] = b /\ \A i \in 1 .. k : h[i] = step[i][h[i - 1]]
             Can == {k \in 0 .. n : \E h \in [0 .. k -> T] : Good(k, h)}
  <1>1. 0 \in Can
    <2>1. [i \in 0 .. 0 |-> b] \in [0 .. 0 -> T] /\ Good(0, [i \in 0 .. 0 |-> b])
      OBVIOUS
    <2> HIDE DEF Good
    <2> QED BY <2>1
  <1>2. ASSUME NEW m \in 1 .. n, m - 1 \in Can PROVE m \in Can
    <2>1. PICK h \in [0 .. m - 1 -> T] : Good(m - 1, h)
      BY <1>2
    <2> DEFINE g == [i \in 0 .. m |-> IF i = m THEN step[m][h[m - 1]] ELSE h[i]]
    <2>2. step[m][h[m - 1]] \in T
      BY <1>2, <2>1
    <2>3. g \in [0 .. m -> T]
      BY <2>1, <2>2
    <2>4. Good(m, g)
      <3>1. g[0] = b
        BY <1>2, <2>1
      <3>2. \A i \in 1 .. m : g[i] = step[i][g[i - 1]]
        BY <1>2, <2>1
      <3> QED BY <3>1, <3>2
    <2> HIDE DEF Good, g
    <2> QED BY <1>2, <2>3, <2>4
  <1>3. n \in Can
    <2> HIDE DEF Can
    <2>1. 0 .. n \subseteq Can
      BY <1>1, <1>2, UpTo
    <2> QED BY <2>1
  <1> QED BY <1>3

GrantRows == [id : Grants, payload : Authorities]

LEMMA GrantedRequests ==
    ASSUME NEW s \in Seq(GrantRows), NEW i \in 1 .. Len(s)
    PROVE  s[i].payload.requests \in Nat
  <1>1. i \in DOMAIN s
    OBVIOUS
  <1>2. s[i] \in GrantRows
    BY <1>1, ElementOfSeq
  <1> QED BY <1>2, AuthoritiesAssumption DEF GrantRows

\* The sums of the requests of a list of grants, up to each of them.
Totals(s, f) == f = [i \in 0 .. Len(s) |-> IF i = 0 THEN 0 ELSE f[i - 1] + s[i].payload.requests]
Total(s) == (CHOOSE f : Totals(s, f))[Len(s)]

LEMMA TotalsAdd ==
    ASSUME NEW s \in Seq(GrantRows), NEW f, Totals(s, f)
    PROVE  f[0] = 0 /\ \A i \in 1 .. Len(s) : f[i] = f[i - 1] + s[i].payload.requests
  <1>1. f = [i \in 0 .. Len(s) |-> IF i = 0 THEN 0 ELSE f[i - 1] + s[i].payload.requests]
    BY DEF Totals
  <1>2. Len(s) \in Nat
    OBVIOUS
  <1>3. f[0] = 0
    BY <1>1, <1>2
  <1>4. ASSUME NEW i \in 1 .. Len(s) PROVE f[i] = f[i - 1] + s[i].payload.requests
    <2>1. i \in 0 .. Len(s) /\ i # 0
      BY <1>2
    <2> QED BY <1>1, <2>1
  <1> QED BY <1>3, <1>4

LEMMA TotalsAreNumbers ==
    ASSUME NEW s \in Seq(GrantRows), NEW f, Totals(s, f)
    PROVE  \A i \in 0 .. Len(s) : f[i] \in Nat
  <1> DEFINE G == {i \in 0 .. Len(s) : f[i] \in Nat}
  <1>1. Len(s) \in Nat /\ \A i \in 1 .. Len(s) : s[i].payload.requests \in Nat
    BY GrantedRequests
  <1>2. f[0] = 0 /\ \A i \in 1 .. Len(s) : f[i] = f[i - 1] + s[i].payload.requests
    BY TotalsAdd
  <1>3. 0 \in G /\ \A i \in 1 .. Len(s) : i - 1 \in G => i \in G
    <2>1. 0 \in G
      BY <1>1, <1>2
    <2>2. ASSUME NEW i \in 1 .. Len(s), i - 1 \in G PROVE i \in G
      <3>1. f[i] = f[i - 1] + s[i].payload.requests /\ s[i].payload.requests \in Nat /\ i \in 0 .. Len(s)
        BY <1>1, <1>2
      <3> QED BY <2>2, <3>1
    <2> QED BY <2>1, <2>2
  <1>4. 0 .. Len(s) \subseteq G
    <2> HIDE DEF G
    <2> QED BY <1>1, <1>3, UpTo
  <1> QED BY <1>4

\* There are such sums of every list, so that Total is one of them.
LEMMA TotalIsASum ==
    ASSUME NEW s \in Seq(GrantRows)
    PROVE  Totals(s, CHOOSE f : Totals(s, f))
  <1> DEFINE n == Len(s)
             step == [i \in 1 .. n |-> [x \in Nat |-> x + s[i].payload.requests]]
  <1>1. n \in Nat /\ \A i \in 1 .. n : s[i].payload.requests \in Nat
    BY GrantedRequests
  <1>2. step \in [1 .. n -> [Nat -> Nat]] /\ 0 \in Nat
    BY <1>1
  <1>3. PICK h \in [0 .. n -> Nat] : h[0] = 0 /\ \A i \in 1 .. n : h[i] = step[i][h[i - 1]]
    <2>1. PICK N, b, m, g : N = Nat /\ b = 0 /\ m = n /\ g = step
      OBVIOUS
    <2>2. b \in N /\ m \in Nat /\ g \in [1 .. m -> [N -> N]]
      BY <1>1, <1>2, <2>1
    <2>3. \E h \in [0 .. m -> N] : h[0] = b /\ \A i \in 1 .. m : h[i] = g[i][h[i - 1]]
      BY <2>2, Recursion
    <2> HIDE DEF step
    <2> QED BY <2>1, <2>3
  <1>4. \A i \in 1 .. n : h[i] = h[i - 1] + s[i].payload.requests
    <2> TAKE i \in 1 .. n
    <2>1. h[i - 1] \in Nat
      BY <1>1, <1>3
    <2> QED BY <1>3, <2>1
  <1>5. h = [i \in 0 .. n |-> IF i = 0 THEN 0 ELSE h[i - 1] + s[i].payload.requests]
    BY <1>1, <1>3, <1>4
  <1>6. Totals(s, h)
    BY <1>5 DEF Totals
  <1> QED BY <1>6

\* A grant more adds its requests to the sum.
LEMMA TotalOfOneMore ==
    ASSUME NEW s \in Seq(GrantRows), NEW x \in GrantRows
    PROVE  /\ Total(s) \in Nat
           /\ Total(Append(s, x)) = Total(s) + x.payload.requests
  <1> DEFINE n == Len(s)
             t == Append(s, x)
  <1>1. /\ n \in Nat /\ t \in Seq(GrantRows) /\ Len(t) = n + 1
        /\ t[n + 1] = x /\ \A i \in 1 .. n : t[i] = s[i]
    OBVIOUS
  <1> HIDE DEF t
  <1>2. PICK f : f = CHOOSE g : Totals(s, g)
    OBVIOUS
  <1>3. PICK h : h = CHOOSE g : Totals(t, g)
    OBVIOUS
  <1>4. Totals(s, f) /\ Totals(t, h)
    BY <1>1, <1>2, <1>3, TotalIsASum
  <1>5. f[0] = 0 /\ (\A i \in 1 .. n : f[i] = f[i - 1] + s[i].payload.requests)
    BY <1>4, TotalsAdd
  <1>6. h[0] = 0 /\ (\A i \in 1 .. n + 1 : h[i] = h[i - 1] + t[i].payload.requests)
    <2>1. h[0] = 0 /\ (\A i \in 1 .. Len(t) : h[i] = h[i - 1] + t[i].payload.requests)
      BY <1>1, <1>4, TotalsAdd
    <2> QED BY <1>1, <2>1
  <1> DEFINE Same == {i \in 0 .. n : h[i] = f[i]}
  <1>7. 0 \in Same /\ \A i \in 1 .. n : i - 1 \in Same => i \in Same
    <2>1. 0 \in Same
      BY <1>1, <1>5, <1>6
    <2>2. ASSUME NEW i \in 1 .. n, i - 1 \in Same PROVE i \in Same
      <3>1. i \in 1 .. n + 1 /\ t[i] = s[i]
        BY <1>1
      <3>2. h[i] = h[i - 1] + s[i].payload.requests /\ f[i] = f[i - 1] + s[i].payload.requests
        BY <1>5, <1>6, <3>1
      <3> QED BY <2>2, <3>2
    <2> QED BY <2>1, <2>2
  <1>8. n \in Same
    <2> HIDE DEF Same
    <2>1. 0 .. n \subseteq Same
      BY <1>1, <1>7, UpTo
    <2> QED BY <1>1, <2>1
  <1>9. f[n] \in Nat
    <2>1. n \in 0 .. Len(s)
      BY <1>1
    <2> QED BY <1>4, <2>1, TotalsAreNumbers
  <1>10. h[n + 1] = f[n] + x.payload.requests
    BY <1>1, <1>6, <1>8
  <1> QED BY <1>1, <1>2, <1>3, <1>9, <1>10 DEF Total, t

LEMMA TotalIsNumber == ASSUME NEW s \in Seq(GrantRows) PROVE Total(s) \in Nat
  <1>1. PICK f : f = CHOOSE g : Totals(s, g)
    OBVIOUS
  <1>2. Totals(s, f) /\ Len(s) \in 0 .. Len(s)
    BY <1>1, TotalIsASum
  <1> QED BY <1>1, <1>2, TotalsAreNumbers DEF Total

LEMMA LimitIs == Limit = MaxRequests + Total(grants) /\ Limit' = MaxRequests + Total(grants')
  <1>1. AddedRequests = Total(grants)
    BY DEF AddedRequests, Total, Totals
  <1>2. AddedRequests' = Total(grants')
    BY DEF AddedRequests, Total, Totals
  <1> QED BY <1>1, <1>2 DEF Limit

GrantsOK == grants \in Seq(GrantRows)

\* The allowance only grows.
LEMMA LimitGrows ==
    ASSUME GrantsOK, UNCHANGED grants \/ \E g \in Grants, a \in Authorities : ApplyGrant(g, a)
    PROVE  GrantsOK' /\ Limit \in Nat /\ Limit' \in Nat /\ Limit <= Limit'
  <1>1. Limit = MaxRequests + Total(grants) /\ Limit' = MaxRequests + Total(grants')
    BY LimitIs
  <1>2. MaxRequests \in Nat /\ Total(grants) \in Nat
    BY ChatBoundAssumption, TotalIsNumber DEF GrantsOK
  <1>3. CASE UNCHANGED grants
    BY <1>1, <1>2, <1>3 DEF GrantsOK
  <1>4. ASSUME NEW g \in Grants, NEW a \in Authorities, ApplyGrant(g, a)
        PROVE  GrantsOK' /\ Limit \in Nat /\ Limit' \in Nat /\ Limit <= Limit'
    <2> DEFINE x == [id |-> g, payload |-> a]
    <2>1. x \in GrantRows /\ x.payload.requests \in Nat
      BY AuthoritiesAssumption DEF GrantRows
    <2>2. grants' = Append(grants, x) /\ grants' \in Seq(GrantRows)
      BY <1>4, <2>1 DEF ApplyGrant, GrantsOK
    <2> HIDE DEF x
    <2>3. Total(grants') = Total(grants) + x.payload.requests
      BY <2>1, <2>2, TotalOfOneMore DEF GrantsOK
    <2> QED BY <1>1, <1>2, <2>1, <2>2, <2>3 DEF GrantsOK
  <1> QED BY <1>3, <1>4

----------------------------------------------------------------------------
(* The budget.                                                             *)

\* Of a list of turns: it is within its bound, and each turn within the limit of
\* its requests.
Paid(turns) == Len(turns) <= MaxTurns /\ \A i \in DOMAIN turns : turns[i].calls <= CallLimit

UseIsPaid == enforced \in BOOLEAN /\ used \in 0 .. MaxUsed /\ (enforced => used <= Limit)
ClientsArePaid == \A t \in Clients : client[t].pc # "idle" => client[t].calls <= CallLimit
ChatsArePaid == \A c \in Chats : Open(c) => Paid(chats[c].turns)

Budget == GrantsOK /\ UseIsPaid /\ ClientsArePaid /\ ChatsArePaid

LEMMA ClientPaid ==
    ASSUME ChatTypes, ClientsArePaid, NEW t \in Clients, NEW q, client' = [client EXCEPT ![t] = q],
           q.pc # "idle" => q.calls <= CallLimit
    PROVE  ClientsArePaid'
  BY DEF ChatTypes, ClientsArePaid

LEMMA ChatPaid ==
    ASSUME ChatTypes, ChatsArePaid, NEW c \in Chats, NEW row, chats' = [chats EXCEPT ![c] = row],
           Paid(row.turns)
    PROVE  ChatsArePaid'
  <1> SUFFICES ASSUME NEW d \in Chats, chats'[d].turns # None PROVE Paid(chats'[d].turns)
    BY DEF ChatsArePaid, Open, Paid
  <1>1. CASE d = c
    BY <1>1 DEF ChatTypes
  <1>2. CASE d # c
    BY <1>2 DEF ChatTypes, ChatsArePaid, Open
  <1> QED BY <1>1, <1>2

LEMMA NewChatPaid == Paid(NewChat.turns)
  <1>1. Len(<<>>) = 0 /\ DOMAIN <<>> = {} /\ NewChat.turns = <<>>
    BY DEF NewChat
  <1>2. 0 <= MaxTurns
    BY ChatBoundAssumption
  <1> QED BY <1>1, <1>2 DEF Paid

\* The budget of a step that sends no request.
LEMMA UseStays ==
    ASSUME Budget, UNCHANGED <<enforced, used>>,
           UNCHANGED grants \/ \E g \in Grants, a \in Authorities : ApplyGrant(g, a)
    PROVE  GrantsOK' /\ UseIsPaid'
  <1>1. GrantsOK' /\ Limit \in Nat /\ Limit' \in Nat /\ Limit <= Limit'
    BY LimitGrows DEF Budget
  <1>2. used \in Nat
    BY DEF Budget, UseIsPaid
  <1> QED BY <1>1, <1>2 DEF Budget, UseIsPaid

\* Each request is counted while there is room for it.
LEMMA ReservePaid == ASSUME ChatIInv, Budget, NEW t \in Clients, Reserve(t), UNCHANGED grants PROVE Budget'
  <1>1. /\ client[t] \in ChatRequests /\ client[t].calls \in Nat /\ client[t].calls <= CallLimit
        /\ UNCHANGED <<enforced, chats>>
    <2>1. client[t].pc = "ask" /\ UNCHANGED <<enforced, chats>>
      BY DEF Reserve, Is
    <2>2. client[t] \in ChatRequests
      BY <2>1, ServedRequest
    <2> QED BY <2>1, <2>2 DEF ChatRequests, Budget, ClientsArePaid
  <1>2. ChatsArePaid' /\ GrantsOK' /\ ChatTypes
    BY <1>1 DEF Budget, ChatsArePaid, Open, Paid, GrantsOK, ChatIInv
  <1>3. CASE client[t].calls < CallLimit /\ MayReserve
    <2>1. /\ used < MaxUsed /\ used' = used + 1
          /\ client' = [client EXCEPT ![t] = [client[t] EXCEPT !.pc = "send", !.calls = client[t].calls + 1]]
      BY <1>3 DEF Reserve, Serve
    <2>2. UseIsPaid'
      <3>1. Limit' = Limit /\ Limit \in Nat
        BY LimitGrows, LimitIs DEF Budget
      <3>2. used \in Nat /\ MaxUsed \in Nat
        BY ChatBoundAssumption DEF Budget, UseIsPaid
      <3> QED BY <1>1, <1>3, <2>1, <3>1, <3>2 DEF Budget, UseIsPaid, MayReserve
    <2>3. ClientsArePaid'
      <3> DEFINE q == [client[t] EXCEPT !.pc = "send", !.calls = client[t].calls + 1]
      <3>1. q.calls = client[t].calls + 1
        BY <1>1 DEF ChatRequests
      <3>2. q.calls <= CallLimit
        BY <1>1, <1>3, <3>1, ChatBoundAssumption
      <3>3. client' = [client EXCEPT ![t] = q]
        BY <2>1
      <3> HIDE DEF q
      <3> QED BY <1>2, <3>2, <3>3, ClientPaid DEF Budget
    <2> QED BY <1>2, <2>2, <2>3 DEF Budget
  <1>4. CASE ~ (client[t].calls < CallLimit /\ MayReserve)
    <2> DEFINE q == [client[t] EXCEPT !.pc = "finish"]
    <2>1. client' = [client EXCEPT ![t] = q] /\ UNCHANGED used
      BY <1>4 DEF Reserve, Serve
    <2>2. q.calls <= CallLimit
      BY <1>1 DEF ChatRequests
    <2> HIDE DEF q
    <2>3. ClientsArePaid'
      BY <1>2, <2>1, <2>2, ClientPaid DEF Budget
    <2> QED BY <1>1, <1>2, <2>1, <2>3, UseStays DEF Budget
  <1> QED BY <1>3, <1>4

LEMMA ClaimTurnPaid == ASSUME ChatIInv, Budget, NEW t \in Clients, ClaimTurn(t), UNCHANGED grants PROVE Budget'
  <1> DEFINE c == client[t].chat
  <1>1. client[t] \in ChatRequests /\ Open(c) /\ c \in Chats /\ client[t].calls <= CallLimit
    <2>1. client[t].pc = "claim"
      BY DEF ClaimTurn, Is
    <2>2. client[t] \in ChatRequests /\ Open(c)
      BY <2>1, ServedRequest DEF HasTurn
    <2> QED BY <2>1, <2>2 DEF ChatRequests, Budget, ClientsArePaid
  <1>2. UNCHANGED <<enforced, used>> /\ ChatTypes
    BY DEF ClaimTurn, ChatIInv
  <1>3. GrantsOK' /\ UseIsPaid'
    BY <1>2, UseStays
  <1>4. CASE TurnMayRun(c, client[t].key, client[t].rev)
    <2> DEFINE turn == [key |-> client[t].key, at |-> client[t].rev, status |-> "running", calls |-> 0]
               turns == chats[c].turns
               row == [chats[c] EXCEPT !.turns = Append(turns, turn)]
               q == [client[t] EXCEPT !.pc = IF enforced /\ used = Limit THEN "finish" ELSE "ask"]
    <2>1. /\ Len(turns) < MaxTurns
          /\ chats' = [chats EXCEPT ![c] = row]
          /\ client' = [client EXCEPT ![t] = q]
      BY <1>4 DEF ClaimTurn, Serve
    <2>2. turns \in Seq(Turn) /\ Paid(turns) /\ turn.calls <= CallLimit /\ turn \in Turn
      <3>1. turns \in Seq(Turn) /\ Paid(turns)
        BY <1>1, OpenTypes DEF Budget, ChatsArePaid
      <3>2. turn \in Turn
        BY <1>1 DEF Turn, ChatRequests
      <3> QED BY <3>1, <3>2, ChatBoundAssumption
    <2>3. row.turns = Append(turns, turn)
      BY <1>1 DEF ChatIInv, ChatTypes
    <2>4. Paid(Append(turns, turn))
      <3> HIDE DEF turns, turn
      <3>1. /\ Len(turns) \in Nat /\ Len(Append(turns, turn)) = Len(turns) + 1 /\ MaxTurns \in Nat
            /\ \A i \in 1 .. Len(turns) : i \in DOMAIN turns /\ Append(turns, turn)[i] = turns[i]
            /\ Append(turns, turn)[Len(turns) + 1] = turn
            /\ DOMAIN Append(turns, turn) = 1 .. Len(turns) + 1
        BY <2>2, ChatBoundAssumption
      <3>2. \A i \in DOMAIN Append(turns, turn) : i \in 1 .. Len(turns) \/ i = Len(turns) + 1
        BY <3>1
      <3>3. Len(turns) < MaxTurns
        BY <2>1 DEF turns
      <3> QED BY <2>2, <3>1, <3>2, <3>3 DEF Paid
    <2>5. q.calls <= CallLimit
      BY <1>1 DEF ChatRequests
    <2>6. ChatsArePaid'
      <3> HIDE DEF row, c
      <3> QED BY <1>1, <1>2, <2>1, <2>3, <2>4, ChatPaid DEF Budget
    <2>7. ClientsArePaid'
      <3> HIDE DEF q
      <3> QED BY <1>2, <2>1, <2>5, ClientPaid DEF Budget
    <2> QED BY <1>3, <2>6, <2>7 DEF Budget
  <1>5. CASE ~ TurnMayRun(c, client[t].key, client[t].rev)
    <2>1. client' = [client EXCEPT ![t] = NoClient] /\ UNCHANGED chats
      BY <1>5 DEF ClaimTurn, Leave, Serve
    <2>2. ClientsArePaid'
      BY <1>2, <2>1, ClientPaid DEF Budget, NoClient
    <2>3. ChatsArePaid'
      BY <2>1 DEF Budget, ChatsArePaid, Open, Paid
    <2> QED BY <1>3, <2>2, <2>3 DEF Budget
  <1> QED BY <1>4, <1>5

LEMMA FinishTurnPaid == ASSUME ChatIInv, Budget, NEW t \in Clients, FinishTurn(t), UNCHANGED grants PROVE Budget'
  <1> DEFINE c == client[t].chat
             turns == chats[c].turns
             n == Len(turns)
             ended == [turns[n] EXCEPT !.status = "finished", !.calls = client[t].calls]
             new == [turns EXCEPT ![n] = ended]
             row == [rev |-> chats[c].rev + 1, turns |-> new]
  <1>1. client[t] \in ChatRequests /\ Open(c) /\ c \in Chats /\ client[t].calls <= CallLimit
    <2>1. client[t].pc = "finish"
      BY DEF FinishTurn, Is
    <2>2. client[t] \in ChatRequests /\ Open(c)
      BY <2>1, ServedRequest DEF HasTurn
    <2> QED BY <2>1, <2>2 DEF ChatRequests, Budget, ClientsArePaid
  <1>2. UNCHANGED <<enforced, used>> /\ ChatTypes /\ client' = [client EXCEPT ![t] = NoClient]
    BY DEF FinishTurn, ChatIInv, Leave, Serve
  <1>3. GrantsOK' /\ UseIsPaid' /\ ClientsArePaid'
    BY <1>2, UseStays, ClientPaid DEF Budget, NoClient
  <1>4. CASE turns[n].key = client[t].key /\ turns[n].status = "running"
    <2>1. chats' = [chats EXCEPT ![c] = row]
      BY <1>4 DEF FinishTurn
    <2>2. turns \in Seq(Turn) /\ Paid(turns)
      BY <1>1, OpenTypes DEF Budget, ChatsArePaid
    <2>3. turns # <<>>
      BY <1>1, ServedRequest DEF FinishTurn, Is, HasTurn
    <2>4. n \in DOMAIN turns /\ turns[n] \in Turn
      BY <2>2, <2>3
    <2>5. ended.calls <= CallLimit
      <3>1. ended.calls = client[t].calls
        BY <2>4 DEF Turn
      <3> QED BY <1>1, <3>1
    <2>6. Paid(new)
      <3> HIDE DEF ended
      <3>1. Len(new) = n /\ DOMAIN new = DOMAIN turns /\ \A i \in DOMAIN turns : new[i] = IF i = n THEN ended ELSE turns[i]
        <4> HIDE DEF turns
        <4> QED BY <2>2, <2>4
      <3> HIDE DEF new
      <3> QED BY <2>2, <2>5, <3>1 DEF Paid
    <2>7. ChatsArePaid'
      <3>1. row.turns = new
        OBVIOUS
      <3> HIDE DEF row, c
      <3> QED BY <1>1, <1>2, <2>1, <2>6, <3>1, ChatPaid DEF Budget
    <2> QED BY <1>3, <2>7 DEF Budget
  <1>5. CASE ~ (turns[n].key = client[t].key /\ turns[n].status = "running")
    <2>1. UNCHANGED chats
      BY <1>5 DEF FinishTurn
    <2> QED BY <1>3, <2>1 DEF Budget, ChatsArePaid, Open, Paid
  <1> QED BY <1>4, <1>5

\* A request that comes in has made no call.
LEMMA SentPaid ==
    ASSUME ChatIInv, Budget, NEW t \in Clients, NEW c \in Chats, NEW k \in TurnKeys,
           SendMessage(t, c, k) \/ \E previous \in BOOLEAN : SendResponse(t, k, c, previous), UNCHANGED grants
    PROVE  Budget'
  <1>1. ChatTypes /\ UNCHANGED <<enforced, used>> /\ 0 <= CallLimit
    <2>1. 0 <= CallLimit
      BY ChatBoundAssumption
    <2>2. UNCHANGED <<enforced, used>>
      BY DEF SendMessage, SendResponse
    <2> QED BY <2>1, <2>2 DEF ChatIInv
  <1>2. GrantsOK' /\ UseIsPaid'
    BY <1>1, UseStays
  <1>3. UNCHANGED chats \/ chats' = [chats EXCEPT ![c] = NewChat]
    BY DEF SendMessage, SendResponse
  <1>4. ChatsArePaid'
    <2>1. CASE UNCHANGED chats
      BY <2>1 DEF Budget, ChatsArePaid, Open, Paid
    <2>2. CASE chats' = [chats EXCEPT ![c] = NewChat]
      BY <1>1, <2>2, NewChatPaid, ChatPaid DEF Budget
    <2> QED BY <1>3, <2>1, <2>2
  <1>5. \E d, r : client' = [client EXCEPT ![t] = [pc |-> "claim", chat |-> d, key |-> k, rev |-> r, calls |-> 0]]
    BY DEF SendMessage, SendResponse, Serve
  <1>6. ClientsArePaid'
    <2>1. PICK q : q.calls = 0 /\ client' = [client EXCEPT ![t] = q]
      BY <1>5
    <2> QED BY <1>1, <2>1, ClientPaid DEF Budget
  <1> QED BY <1>2, <1>4, <1>6 DEF Budget

LEMMA AskPaid ==
    ASSUME ChatIInv, Budget, NEW t \in Clients, NEW next \in {"ask", "finish"}, Ask(t, next), UNCHANGED grants
    PROVE  Budget'
  <1> DEFINE q == [client[t] EXCEPT !.pc = next]
  <1>1. client' = [client EXCEPT ![t] = q] /\ UNCHANGED <<enforced, chats, used>> /\ client[t].pc = "send"
    BY DEF Ask, Serve, Is
  <1>2. client[t] \in ChatRequests /\ client[t].calls <= CallLimit
    BY <1>1, ServedRequest DEF Budget, ClientsArePaid
  <1>3. q.calls <= CallLimit
    BY <1>2 DEF ChatRequests
  <1> HIDE DEF q
  <1>4. ClientsArePaid'
    BY <1>1, <1>3, ClientPaid DEF Budget, ChatIInv
  <1> QED BY <1>1, <1>4, UseStays DEF Budget, ChatsArePaid, Open, Paid

LEMMA BudgetStays ==
    ASSUME Budget, UNCHANGED <<enforced, chats, used>>, \A t \in Clients : client'[t] \in {client[t], NoClient},
           UNCHANGED grants \/ \E g \in Grants, a \in Authorities : ApplyGrant(g, a)
    PROVE  Budget'
  <1>1. GrantsOK' /\ UseIsPaid'
    BY UseStays
  <1>2. ClientsArePaid' /\ ChatsArePaid'
    BY DEF Budget, ClientsArePaid, ChatsArePaid, Open, Paid, NoClient
  <1> QED BY <1>1, <1>2 DEF Budget

LEMMA InitBudget == ASSUME grants = <<>>, ChatInit PROVE Budget
  <1>1. GrantsOK
    <2>1. <<>> \in Seq(GrantRows)
      OBVIOUS
    <2> QED BY <2>1 DEF GrantsOK
  <1>2. Limit \in Nat
    <2>1. Total(grants) \in Nat /\ MaxRequests \in Nat
      BY <1>1, TotalIsNumber, ChatBoundAssumption DEF GrantsOK
    <2> QED BY <2>1, LimitIs
  <1>3. UseIsPaid
    BY <1>2, ChatBoundAssumption DEF ChatInit, UseIsPaid
  <1>4. ClientsArePaid /\ ChatsArePaid
    BY DEF ChatInit, ClientsArePaid, ChatsArePaid, Open, NoChat, NoClient
  <1> QED BY <1>1, <1>3, <1>4 DEF Budget

LEMMA NextBudget ==
    ASSUME ChatIInv, Budget,
           [ChatNext \/ \E g \in Grants, a \in Authorities : RestartChatWith(g, a)]_<<grants, chat>>
    PROVE  Budget'
  <1>1. ASSUME NEW c \in Chats, CreateChat(c), UNCHANGED grants PROVE Budget'
    <2>1. ChatsArePaid'
      BY <1>1, NewChatPaid, ChatPaid DEF CreateChat, Budget, ChatIInv
    <2>2. GrantsOK' /\ UseIsPaid'
      BY <1>1, UseStays DEF CreateChat
    <2>3. ClientsArePaid'
      BY <1>1 DEF CreateChat, Budget, ClientsArePaid
    <2> QED BY <2>1, <2>2, <2>3 DEF Budget
  <1>2. ASSUME NEW t \in Clients, Service(t), UNCHANGED grants PROVE Budget'
    <2>1. ASSUME Drop(t) PROVE Budget'
      <3>1. UNCHANGED <<enforced, chats, used>> /\ client' = [client EXCEPT ![t] = NoClient]
        BY <2>1 DEF Drop, Leave, Serve
      <3>2. \A s \in Clients : client'[s] \in {client[s], NoClient}
        BY <3>1 DEF ChatIInv, ChatTypes
      <3> QED BY <1>2, <3>1, <3>2, BudgetStays
    <2> QED BY <1>2, <2>1, SentPaid, ClaimTurnPaid, ReservePaid, FinishTurnPaid, AskPaid DEF Service
  <1>3. ASSUME NEW g \in Grants, NEW a \in Authorities, RestartChatWith(g, a) PROVE Budget'
    <2>1. UNCHANGED <<enforced, chats, used>> /\ (\A t \in Clients : client'[t] = NoClient) /\ ApplyGrant(g, a)
      BY <1>3 DEF RestartChatWith, RestartChat
    <2> QED BY <2>1, BudgetStays
  <1>4. CASE UNCHANGED <<grants, chat>>
    BY <1>4, BudgetStays DEF chat
  <1> QED BY <1>1, <1>2, <1>3, <1>4 DEF ChatNext

----------------------------------------------------------------------------
(* Theorems.                                                               *)

\* The conversations, the bindings of response keys and the requests being
\* served have their types, and a request's conversation exists: every step of
\* conversation.py and chat_protocol.py keeps them so.
THEOREM ChatInvariant == ChatSpec => []ChatIInv
  <1>1. ChatInit => ChatIInv
    BY ChatInitInvariant
  <1>2. ChatIInv /\ [ChatNext \/ \E g \in Grants, a \in Authorities : RestartChatWith(g, a)]_<<grants, chat>> => ChatIInv'
    BY ChatNextInvariant
  <1> QED BY <1>1, <1>2, PTL DEF ChatSpec

\* However requests are interleaved, cut short or repeated, and whether a key
\* is a message's or a response's: the i-th turn of a conversation was asked for
\* at revision i - 1, under a key of its own; the revision counts the finished
\* turns, and none but the last is running (ChatStore.claim and finish).
THEOREM TurnsNumbered == ChatSpec => []TurnsAreNumbered
  <1>1. ChatIInv => TurnsAreNumbered
    <2> SUFFICES ASSUME ChatIInv, NEW c \in Chats, Open(c)
                 PROVE  LET turns == chats[c].turns
                            finished == {i \in DOMAIN turns : turns[i].status # "running"}
                        IN  /\ chats[c].rev = Cardinality(finished)
                            /\ \A i \in DOMAIN turns : turns[i].at = i - 1
                            /\ \A i, j \in DOMAIN turns : turns[i].key = turns[j].key => i = j
                            /\ DOMAIN turns \ finished \subseteq {Len(turns)}
      BY DEF TurnsAreNumbered
    <2>1. /\ chats[c].turns \in Seq(Turn) /\ Numbered(chats[c].turns)
          /\ chats[c].rev = FinishedTurns(chats[c].turns)
      BY OpenTypes
    <2>2. Cardinality({i \in DOMAIN chats[c].turns : chats[c].turns[i].status # "running"})
            = FinishedTurns(chats[c].turns)
      BY <2>1, CountFinished
    <2> QED BY <2>1, <2>2 DEF Numbered
  <1> QED BY <1>1, ChatInvariant, PTL

\* Whatever conversations run beside each other, and whatever grants are applied
\* between them: a store that enforces its budget has counted no more requests
\* than the policy and the grants allow, and no turn has made more than a turn
\* may (BudgetTransport, ChatStore.reserve).
THEOREM RequestsWerePaid == ChatSpec => [](ChatTypeOK /\ RequestsArePaid)
  <1>1. ChatIInv /\ Budget => ChatTypeOK /\ RequestsArePaid
    <2> SUFFICES ASSUME ChatIInv, Budget PROVE ChatTypeOK /\ RequestsArePaid
      OBVIOUS
    <2>1. \A c \in Chats : chats[c].rev \in Nat
      BY DEF ChatIInv, ChatTypes
    <2>2. \A k \in TurnKeys : responses[k] # None => responses[k].chat \in Chats
      BY DEF ChatIInv, ChatTypes
    <2>3. ChatTypeOK
      BY <2>1, <2>2 DEF ChatTypeOK, Budget, UseIsPaid, ChatsArePaid, Paid
    <2>4. RequestsArePaid
      BY DEF RequestsArePaid, Budget, UseIsPaid, ChatsArePaid, Paid
    <2> QED BY <2>3, <2>4
  <1>2. grants = <<>> /\ ChatInit => ChatIInv /\ Budget
    BY ChatInitInvariant, InitBudget
  <1>3. /\ ChatIInv /\ Budget
        /\ [ChatNext \/ \E g \in Grants, a \in Authorities : RestartChatWith(g, a)]_<<grants, chat>>
        => (ChatIInv /\ Budget)'
    BY ChatNextInvariant, NextBudget
  <1> QED BY <1>1, <1>2, <1>3, PTL DEF ChatSpec

\* Each user of the local store behaves as it does alone: what the other does is
\* a stutter for it, and a start of the server a restart with the same grant.
THEOREM UsersKeepToThemselves == LocalSpec => LiveSpec /\ ChatSpec
  <1>1. [LocalNext]_<<grants, live, chat>> =>
          [LiveNext \/ \E g \in Grants, a \in Authorities : Restart(g, a)]_<<grants, live>>
    BY DEF LocalNext, StartServer, ChatNext
  <1>2. [LocalNext]_<<grants, live, chat>> =>
          [ChatNext \/ \E g \in Grants, a \in Authorities : RestartChatWith(g, a)]_<<grants, chat>>
    BY DEF LocalNext, StartServer, LiveNext, Restart, RestartChatWith
  <1> QED BY <1>1, <1>2, PTL DEF LocalSpec, LiveSpec, ChatSpec

\* The rows of the local store keep their types whoever writes beside each other.
THEOREM LocalTypes == LocalSpec => []TypeOK
  <1>1. ChatTypeOK /\ RequestsArePaid /\ LiveTypeOK => TypeOK
    BY DEF TypeOK
  <1> QED BY <1>1, UsersKeepToThemselves, AnalysisTypes, RequestsWerePaid, PTL

\* Preparations and conversations together spend what was granted: no slot
\* beyond the grants, none given twice, one run for each key, and no model
\* request beyond an enforced budget.
THEOREM SpendWasGranted == LocalSpec => []SpendIsGranted
  <1>1. SlotsAreGranted /\ ChatTypeOK /\ RequestsArePaid => SpendIsGranted
    BY DEF SpendIsGranted
  <1> QED BY <1>1, UsersKeepToThemselves, SlotsWereGranted, RequestsWerePaid, PTL
=============================================================================
