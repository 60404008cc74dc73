---------------------------- MODULE AccountsPage ----------------------------
(***************************************************************************)
(* The accounts (frontend pages/AccountsPage.tsx, AccountCard): a list of  *)
(* rows over the server's accounts, the operations its cards start, the    *)
(* values shown for a row while an operation writes them, filter and pages.*)
(* Operations of several cards run at once; each is a chain of requests.   *)
(* Confirm dialogs and text fields are part of the press they lead to.     *)
(***************************************************************************)
EXTENDS Naturals, Sequences, FiniteSets, Functions

CONSTANTS
    Account,
    Operation,    \* bound: operations at one time
    RefreshBatch, \* ACCOUNT_REFRESH_BATCH_SIZE
    PageSize,     \* rows per page
    Filter,       \* the status filters, "all" among them
    MaxChanges,   \* bound: changes of the server's accounts
    MaxErrors,    \* bound: requests that fail
    None

\* An account as the server answers it, a request, and what an operation is made of.
Question == {"write", "list", "row", "read"}
AccountRow == [there : BOOLEAN, on : BOOLEAN, ver : Nat]
Reply == [ok : BOOLEAN, rows : [Account -> AccountRow] \cup {None}]
Call == [what : Question, id : Account \cup {None}, back : Reply \cup {None}]
OperationType ==
    [kind : {"toggle", "settings", "auto", "delete", "checkin", "login", "refresh", "export",
             "reload", "credits"},
     id : Account \cup {None}, chain : Seq([what : Question, ids : SUBSET (Account \cup {None})]),
     calls : SUBSET Call, on : BOOLEAN]

AccountsAssumption ==
    /\ "all" \in Filter /\ Filter \subseteq {"all", "available", "disabled"}
    /\ RefreshBatch \in Nat \ {0} /\ PageSize \in Nat \ {0}
    /\ MaxChanges \in Nat /\ MaxErrors \in Nat
    /\ IsFiniteSet(Account) /\ None \notin Account \cup [Account -> AccountRow]
    /\ None \notin Reply /\ None \notin OperationType

VARIABLES
    server,     \* the server's accounts; ver counts the changes of all their fields
    list,       \* `accounts`: the rows the page has; a row that is not there is not listed
    masks,      \* what is shown in place of a row's fields: enabledById; name and limits
    busy,       \* the one operation the page counts as busy
    ops,        \* the operations under way
    view,       \* filter, page, and whether the first load is still awaited
    faults,     \* requests that have failed
    heard,      \* history: the newest version the page was told of each account
    missed      \* history: accounts whose last change the page never read back

accountsVars == <<server, list, masks, busy, ops, view, faults, heard, missed>>

-----------------------------------------------------------------------------
(* What the page shows *)

ShownOn(rows, msk, a) == IF msk[a].on = None THEN rows[a].on ELSE msk[a].on

\* accountState: a switched-off account is disabled, whatever else; the other
\* states are one here.
State(rows, msk, a) == IF ShownOn(rows, msk, a) THEN "available" ELSE "disabled"

\* statusCounts and filteredRows.
Matching(rows, msk, f) == {a \in Account : rows[a].there /\ f \in {"all", State(rows, msk, a)}}

PageTotal(n) == IF n = 0 THEN 1 ELSE (n + PageSize - 1) \div PageSize

\* A render: a new filter starts at page 1, a page past the end becomes the last.
AccountsView(v, rows, msk, f) ==
    LET last == PageTotal(Cardinality(Matching(rows, msk, f)))
        page == IF v.filter # f THEN 1 ELSE v.page
    IN  [v EXCEPT !.filter = f, !.page = IF page > last THEN last ELSE page]

Paged(n) == IF n <= (view.page - 1) * PageSize THEN 0 ELSE n - (view.page - 1) * PageSize

-----------------------------------------------------------------------------
(* Operations: chains of requests *)

Unmasked == [on |-> None, fields |-> FALSE]

Req(what, ids) == [what |-> what, ids |-> ids]

\* What each operation asks of the server, in order.  reloadAccounts is a "list",
\* refreshAccountsInBatches a "row" for each id, the operation's own call a "write".
Chain(kind, a) ==
    CASE kind \in {"toggle", "settings", "auto", "delete", "checkin"} ->
            <<Req("write", {a}), Req("list", {a})>>
      [] kind = "login"   -> <<Req("write", {a}), Req("list", {a}), Req("row", {a})>>
      [] kind = "refresh" -> <<Req("row", {a})>>
      [] kind = "export"  -> <<Req("read", {a})>>
      [] kind = "reload"  -> <<Req("list", {a})>>

\* The chain with its first request, or batch of requests, sent.
Sent(op) ==
    IF op.chain = << >> THEN {[op EXCEPT !.calls = {}]}
    ELSE LET head == Head(op.chain)
         IN  {[op EXCEPT !.calls = {[what |-> head.what, id |-> a, back |-> None] : a \in batch},
                         !.chain = IF batch = head.ids THEN Tail(@)
                                   ELSE <<Req(head.what, head.ids \ batch)>> \o Tail(@)] :
                batch \in {b \in SUBSET head.ids :
                              \/ b = head.ids /\ Cardinality(b) <= RefreshBatch
                              \/ Cardinality(b) = RefreshBatch}}

\* on: what a toggle asks for, the opposite of what the card shows.
NewOp(kind, a, chain) ==
    [kind |-> kind, id |-> a, chain |-> chain, calls |-> {},
     on |-> kind = "toggle" /\ ~ShownOn(list, masks, a)]

Begin(kind, a, chain) ==
    \E o \in {p \in Operation : ops[p] = None} :
        \E op \in Sent(NewOp(kind, a, chain)) : ops' = [ops EXCEPT ![o] = op]

AccountsInit ==
    /\ server \in [Account -> [there : BOOLEAN, on : {TRUE}, ver : {0}]]
    /\ list = [a \in Account |-> [there |-> FALSE, on |-> FALSE, ver |-> 0]]
    /\ masks = [a \in Account |-> Unmasked]
    /\ busy = None
    /\ \E o \in Operation : \E op \in Sent(NewOp("reload", None, <<Req("list", {None})>>)) :
          ops = [p \in Operation |-> IF p = o THEN op ELSE None]
    /\ view = [filter |-> "all", page |-> 1, loading |-> TRUE]
    /\ faults = 0
    /\ heard = [a \in Account |-> 0]
    /\ missed = {}

-----------------------------------------------------------------------------
(* The operator's presses *)

CanChange == FoldFunction(+, 0, [a \in Account |-> server[a].ver]) < MaxChanges
Listed == {a \in Account : list[a].there}
Skeleton == view.loading /\ Listed = {}
OnPage(a) == ~Skeleton /\ a \in Listed
BusyWith(a) == IF busy # None /\ busy.id = a THEN busy.kind ELSE ""
OnlyOps == UNCHANGED <<server, list, view, faults, heard, missed>>

Press(kind, a) ==
    /\ OnPage(a)
    /\ Begin(kind, a, Chain(kind, a))
    /\ busy' = [id |-> a, kind |-> kind]

\* onToggle: the switch moves at once.
Toggle(a) ==
    /\ BusyWith(a) # "toggle"
    /\ Press("toggle", a)
    /\ masks' = [masks EXCEPT ![a].on = ~ShownOn(list, masks, a)]
    /\ view' = AccountsView(view, list, masks', view.filter)
    /\ UNCHANGED <<server, list, faults, heard, missed>>

\* onSaveSettings, from the editor: the new fields show at once.
SaveSettings(a) ==
    /\ BusyWith(a) # "settings"
    /\ Press("settings", a)
    /\ masks' = [masks EXCEPT ![a].fields = TRUE]
    /\ OnlyOps

\* The card's sign-in panel, which a switched-off account does not have.
OffersSignIn(a) == State(list, masks, a) # "disabled"

\* The card's other controls: a switched-off account can't check in, and an
\* operation of its own holds up some of them.
Offers(kind, a) ==
    CASE kind = "checkin" -> State(list, masks, a) # "disabled" /\ BusyWith(a) = ""
      [] kind = "auto"    -> BusyWith(a) = ""
      [] kind = "refresh" -> BusyWith(a) # "refresh"
      [] OTHER            -> TRUE

\* An operation that changes nothing on the page until it is answered.
PressPlain(kind, a) == Press(kind, a) /\ UNCHANGED masks /\ OnlyOps

\* onDeviceLogin, onCallback, onPat; the polls of a device login are its write.
SignIn(a) == OffersSignIn(a) /\ PressPlain("login", a)

\* onToggleAutoCheckin, onCheckin.
CheckIn(a) == \E kind \in {"auto", "checkin"} : Offers(kind, a) /\ PressPlain(kind, a)

RefreshAccount(a) == Offers("refresh", a) /\ PressPlain("refresh", a)

ExportAccount(a) == PressPlain("export", a)

\* Behind a dialog, which the confirmed operation closes.
DeleteAccount(a) == PressPlain("delete", a)

\* onRefreshCredits: all rows, in batches.
RefreshCredits ==
    /\ ~Skeleton /\ Listed # {}
    /\ ~\E o \in Operation : ops[o] # None /\ ops[o].kind = "credits"
    /\ Begin("credits", None, <<Req("row", Listed)>>)
    /\ UNCHANGED <<busy, masks>>
    /\ OnlyOps

\* An account the wizard or an import created: the page reloads.
AccountAdded(a) ==
    /\ ~Skeleton /\ ~server[a].there /\ CanChange
    /\ server' = [server EXCEPT ![a] = [there |-> TRUE, on |-> TRUE, ver |-> @.ver + 1]]
    /\ Begin("reload", a, Chain("reload", a))
    /\ UNCHANGED <<list, masks, busy, view, faults, heard, missed>>

ChooseAccountFilter(f) ==
    /\ ~Skeleton /\ Listed # {} /\ f # view.filter
    /\ view' = AccountsView(view, list, masks, f)
    /\ UNCHANGED <<server, list, masks, busy, ops, faults, heard, missed>>

ChooseAccountPage(p) ==
    /\ p \in 1 .. PageTotal(Cardinality(Matching(list, masks, view.filter))) /\ p # view.page
    /\ view' = [view EXCEPT !.page = p]
    /\ UNCHANGED <<server, list, masks, busy, ops, faults, heard, missed>>

-----------------------------------------------------------------------------
(* The server (external): it takes the requests in any order *)

Changed(op, c, acc) ==
    LET new == [acc EXCEPT !.ver = @ + 1]
    IN  IF c.what = "row" THEN new
        ELSE IF op.kind = "toggle" THEN [new EXCEPT !.on = op.on]
        ELSE IF op.kind = "delete" THEN [new EXCEPT !.there = FALSE]
        ELSE new

\* What a request does, and the answer: the whole list, the refreshed row, or done.
\* A check-in that fails leaves its record on the account.
Serve(o, c) ==
    LET op == ops[o]
        reply(ans) == ops' = [ops EXCEPT ![o].calls = (@ \ {c}) \cup {[c EXCEPT !.back = ans]}]
        changes == c.what = "row" \/ c.what = "write"
    IN  /\ c.back = None
        /\ \/ /\ c.what \in {"list", "read"}
              /\ reply([ok |-> TRUE, rows |-> server])
              /\ UNCHANGED <<server, faults>>
           \/ /\ changes /\ server[c.id].there /\ CanChange
              /\ server' = [server EXCEPT ![c.id] = Changed(op, c, @)]
              /\ \/ /\ reply([ok |-> TRUE, rows |-> server'])
                    /\ UNCHANGED faults
                 \/ /\ faults < MaxErrors   \* done, but the answer is an error or lost
                    /\ reply([ok |-> FALSE, rows |-> server'])
                    /\ faults' = faults + 1
           \/ /\ faults < MaxErrors \/ (changes /\ (~server[c.id].there \/ ~CanChange))
              /\ reply([ok |-> FALSE, rows |-> None])
              /\ faults' = IF faults < MaxErrors THEN faults + 1 ELSE faults
              /\ UNCHANGED server
        /\ UNCHANGED <<list, masks, busy, view, heard, missed>>

-----------------------------------------------------------------------------
(* The answers *)

\* Bug: a check-in reloads only when it succeeded.
GoesOnIfOk(op, c) == c.back.ok \/ c.what = "row"

\* What follows an answer: a refused row is noted and the batch goes on, a check-in
\* reloads also when it failed, any other failure ends the operation.
GoesOn(op, c) == c.back.ok \/ c.what = "row" \/ (op.kind = "checkin" /\ c.what = "write")

\* The rows after an answer: setAccounts with the whole list, or with one row.
Took(c) ==
    IF ~c.back.ok \/ c.what \in {"write", "read"} THEN list
    ELSE IF c.what = "list" THEN c.back.rows
    ELSE [list EXCEPT ![c.id] = IF @.there THEN c.back.rows[c.id] ELSE @]

Told(c) == IF ~c.back.ok \/ c.what \in {"write", "read"} THEN {}
           ELSE IF c.what = "list" THEN Account ELSE {c.id}

\* Accounts whose change was answered by an error, or whose reload failed; a later
\* answer with the account as it is makes up for it.
Missing(op, c) ==
    LET lost == IF c.back.ok THEN {}
                ELSE IF c.what = "list" THEN IF op.id = None THEN Account ELSE {op.id}
                ELSE IF c.back.rows # None /\ (c.what = "row" \/ op.kind # "checkin") THEN {c.id} ELSE {}
    IN  {a \in missed : a \notin Told(c) \/ c.back.rows[a].ver < server[a].ver} \cup lost

\* The end of an operation takes back what it showed, also when it failed.
Settled(op, ok) == IF op.kind = "toggle" THEN [masks[op.id] EXCEPT !.on = None]
                   ELSE IF op.kind = "settings" THEN [masks[op.id] EXCEPT !.fields = FALSE]
                   ELSE masks[op.id]

\* run's and the others' finally: busy is cleared, whoever holds it.
Ended(o, ok) ==
    LET op == ops[o]
    IN  /\ ops' = [ops EXCEPT ![o] = None]
        /\ busy' = IF op.kind \in {"reload", "credits"} THEN busy ELSE None
        /\ masks' = IF op.id = None THEN masks ELSE [masks EXCEPT ![op.id] = Settled(op, ok)]

Answered(o, c) ==
    LET op   == ops[o]
        rest == [op EXCEPT !.calls = @ \ {c}]
    IN  /\ c.back # None
        /\ list' = Took(c)
        /\ heard' = [a \in Account |-> IF a \in Told(c) /\ c.back.rows[a].ver > heard[a]
                                       THEN c.back.rows[a].ver ELSE heard[a]]
        /\ missed' = Missing(op, c)
        /\ IF ~GoesOn(op, c) \/ (rest.calls = {} /\ rest.chain = << >>)
           THEN Ended(o, c.back.ok)
           ELSE /\ IF rest.calls # {} THEN ops' = [ops EXCEPT ![o] = rest]
                   ELSE \E next \in Sent(rest) : ops' = [ops EXCEPT ![o] = next]
                /\ UNCHANGED <<busy, masks>>
        /\ view' = [AccountsView(view, list', masks', view.filter)
                       EXCEPT !.loading = @ /\ c.what # "list"]
        /\ UNCHANGED <<server, faults>>

AccountsNext ==
    \/ \E a \in Account :
          \/ Toggle(a) \/ SaveSettings(a) \/ SignIn(a) \/ CheckIn(a)
          \/ RefreshAccount(a) \/ ExportAccount(a) \/ DeleteAccount(a) \/ AccountAdded(a)
    \/ RefreshCredits
    \/ \E f \in Filter : ChooseAccountFilter(f)
    \/ \E p \in 1 .. Cardinality(Account) : ChooseAccountPage(p)
    \/ \E o \in Operation : ops[o] # None /\ \E c \in ops[o].calls : Serve(o, c) \/ Answered(o, c)

AccountsSpec == AccountsInit /\ [][AccountsNext]_accountsVars

-----------------------------------------------------------------------------
Resting == ~view.loading /\ \A o \in Operation : ops[o] = None

\* When every operation has ended, each row is what the server has and nothing is
\* shown in its place, whatever ran side by side and failed: unless the change was
\* never read back (its answer or its reload failed) or an older answer came last.
SettledListIsCurrent ==
    Resting => \A a \in Account :
        /\ masks[a] = Unmasked
        /\ \/ a \in missed
           \/ list[a].ver < heard[a]
           \/ list[a] = server[a]

\* No page without rows while the filter has some.
NoEmptyPage ==
    LET n == Cardinality(Matching(list, masks, view.filter)) IN n > 0 => Paged(n) > 0
=============================================================================
