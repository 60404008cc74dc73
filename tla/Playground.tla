----------------------------- MODULE Playground -----------------------------
(***************************************************************************)
(* The playground's chat (frontend pages/AccessPage.tsx, api/overview.ts   *)
(* streamChat): sessions kept in the page, one answer streamed at a time,  *)
(* the model list of the chosen account, and the catalogs' late answers.   *)
(* An abort rejects the pending read before the next event of the user, so *)
(* the handlers of an aborted answer are part of the step that aborts it.  *)
(***************************************************************************)
EXTENDS Naturals, Sequences

CONSTANTS
    ChatAccount,  \* accounts; "" is automatic, whose list is the pool's
    ChatModel,
    MaxSessions,
    MaxTurns,     \* bound: questions in a session
    MaxChunks,    \* bound: chunks of an answer
    MaxChoices,   \* bound: changes of the account
    None

\* Where an answer under way goes: the session and the message, and the chunks so far.
StreamType == [session : Nat, at : Nat, chunks : Nat]

\* The page opens with a session.
PlaygroundAssumption ==
    /\ MaxSessions \in Nat \ {0} /\ MaxTurns \in Nat /\ MaxChunks \in Nat /\ MaxChoices \in Nat
    /\ None \notin StreamType

VARIABLES
    sessions,   \* the sessions' messages, in the order they were made
    active,     \* the session in view
    chat,       \* chatState
    stream,     \* the answer under way: [session, at, chunks], or None
    account,    \* accountId
    poolModels, \* fetchModels() on mount
    catalog,    \* accountCatalog: [account, models]
    fetching,   \* the account whose list is awaited, or None
    model,      \* the model last picked; `selectedModel` is derived
    choices,
    serves,     \* the models each account serves
    sent        \* history: the last request, as [account, model]

playgroundVars == <<sessions, active, chat, stream, account, poolModels, catalog, fetching, model, choices, serves, sent>>
catalogVars == <<account, poolModels, catalog, fetching, model, choices, serves, sent>>

-----------------------------------------------------------------------------
(* What the page derives *)

\* Bug: the last list that came stands for any account.
CatalogReadyAny == TRUE

CatalogReady == account = "" \/ catalog.account = account

Models == IF account = "" THEN poolModels ELSE IF CatalogReady THEN catalog.models ELSE {}

\* The model picked while the list still has it, else the list's first.
SelectedModels == IF model \in Models THEN {model} ELSE Models

Message(role, status) == [role |-> role, chunks |-> 0, status |-> status]

\* patchAssistant: the message is looked up in the session its send closed over.
PatchAssistant(field, value) ==
    IF stream = None THEN sessions ELSE [sessions EXCEPT ![stream.session][stream.at][field] = value]

Streaming ==
    {m \in (1..MaxSessions) \X (1..(2 * MaxTurns)) :
        /\ m[1] <= Len(sessions) /\ m[2] <= Len(sessions[m[1]])
        /\ sessions[m[1]][m[2]].status = "streaming"}

-----------------------------------------------------------------------------
(* Sending and stopping *)

\* onChatSend: the history, the question, and an empty answer to stream into.
OnChatSend ==
    /\ chat # "loading" /\ CatalogReady /\ Len(sessions[active]) < 2 * MaxTurns
    /\ \E m \in SelectedModels :
        /\ sent' = [account |-> account, model |-> m]
        /\ sessions' = [PatchAssistant("status", "done") EXCEPT
                            ![active] = @ \o <<Message("user", "done"), Message("assistant", "streaming")>>]
        /\ stream' = [session |-> active, at |-> Len(sessions[active]) + 2, chunks |-> 0]
    /\ chat' = "loading"
    /\ UNCHANGED <<active, account, poolModels, catalog, fetching, model, choices, serves>>

\* A content frame: the whole text so far replaces the message's.
OnContent ==
    /\ stream # None /\ stream.chunks < MaxChunks
    /\ stream' = [stream EXCEPT !.chunks = @ + 1]
    /\ sessions' = PatchAssistant("chunks", stream.chunks + 1)
    /\ UNCHANGED <<active, chat>> /\ UNCHANGED catalogVars

\* [DONE], or a body that ends (the same to streamChat): or an error.
StreamDone ==
    /\ stream # None
    /\ \/ sessions' = PatchAssistant("status", "done") /\ chat' = "success"
       \/ sessions' = PatchAssistant("status", "error") /\ chat' = "error"
    /\ stream' = None
    /\ UNCHANGED active /\ UNCHANGED catalogVars

\* The Stop button, which takes the place of Send while an answer streams.
StopChat ==
    /\ stream # None /\ chat = "loading"
    /\ sessions' = PatchAssistant("status", "done")
    /\ stream' = None
    /\ chat' = "success"
    /\ UNCHANGED active /\ UNCHANGED catalogVars

\* Bug: the answer of the session left behind streams on.
OnSelectSessionStreaming(s) ==
    /\ s \in 1..Len(sessions) /\ s # active
    /\ active' = s /\ chat' = "idle"
    /\ UNCHANGED <<sessions, stream>> /\ UNCHANGED catalogVars

\* The idle state set on leaving is overwritten by the aborted answer's own end.
OnSelectSession(s) ==
    /\ s \in 1..Len(sessions) /\ s # active
    /\ active' = s
    /\ sessions' = PatchAssistant("status", "done")
    /\ chat' = IF stream = None THEN "idle" ELSE "success"
    /\ stream' = None
    /\ UNCHANGED catalogVars

OnNewChat ==
    /\ Len(sessions) < MaxSessions
    /\ sessions' = Append(PatchAssistant("status", "done"), <<>>)
    /\ active' = Len(sessions) + 1
    /\ chat' = IF stream = None THEN "idle" ELSE "success"
    /\ stream' = None
    /\ UNCHANGED catalogVars

-----------------------------------------------------------------------------
(* The model lists *)

OnMount ==
    /\ poolModels = {}
    /\ poolModels' = ChatModel
    /\ UNCHANGED <<sessions, active, chat, stream, account, catalog, fetching, model, choices, sent, serves>>

\* A new account: the list awaited is cancelled and its own asked for.
OnAccountChange(a) ==
    /\ a # account /\ choices < MaxChoices
    /\ account' = a
    /\ fetching' = IF a = "" THEN None ELSE a
    /\ choices' = choices + 1
    /\ UNCHANGED <<sessions, active, chat, stream, poolModels, catalog, model, sent, serves>>

\* A failure leaves the account with no models.
CatalogAnswers ==
    /\ fetching # None
    /\ \E ms \in {serves[fetching], {}} : catalog' = [account |-> fetching, models |-> ms]
    /\ fetching' = None
    /\ UNCHANGED <<sessions, active, chat, stream, account, poolModels, model, choices, sent, serves>>

OnModelChange(m) ==
    /\ m \in Models /\ m # model
    /\ model' = m
    /\ UNCHANGED <<sessions, active, chat, stream, account, poolModels, catalog, fetching, choices, sent, serves>>

-----------------------------------------------------------------------------
PlaygroundInit ==
    /\ sessions = << <<>> >> /\ active = 1
    /\ chat = "idle" /\ stream = None
    /\ account = "" /\ poolModels = {} /\ catalog = [account |-> None, models |-> {}] /\ fetching = None
    /\ model = None /\ choices = 0 /\ sent = None
    /\ serves \in [ChatAccount -> SUBSET ChatModel]

PlaygroundNext ==
    \/ OnChatSend \/ OnContent \/ StreamDone \/ StopChat \/ OnNewChat
    \/ \E s \in 1..MaxSessions : OnSelectSession(s)
    \/ OnMount \/ CatalogAnswers
    \/ \E a \in ChatAccount \union {""} : OnAccountChange(a)
    \/ \E m \in ChatModel : OnModelChange(m)

PlaygroundSpec == PlaygroundInit /\ [][PlaygroundNext]_playgroundVars

-----------------------------------------------------------------------------
\* An answer under way is in view and can be stopped: whichever session is
\* opened, made or asked in, the one message that streams belongs to the
\* request that is still read, and the composer shows Stop for it.
AnswersAreInView ==
    /\ stream = None => Streaming = {} /\ chat # "loading"
    /\ stream # None => Streaming = {<<active, stream.at>>} /\ stream.session = active /\ chat = "loading"

\* A question goes to a chosen account only with a model of that account's
\* list, however the account was changed while lists were on their way.
ModelIsServed == sent # None /\ sent.account # "" => sent.model \in serves[sent.account]
=============================================================================
