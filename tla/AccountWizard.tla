--------------------------- MODULE AccountWizard ---------------------------
(***************************************************************************)
(* The dialog that adds an account (frontend components/AddAccountModal):  *)
(* choose a provider, sign in by browser, pasted callback or token, or     *)
(* import a credential.  A run is a press of one of its buttons; it lives  *)
(* on across every await, also when the dialog is closed and opened anew.  *)
(***************************************************************************)
EXTENDS Naturals, FiniteSets

CONSTANTS
    Provider,     \* the entries of the provider wall
    Methods,      \* Methods[p]: which of browser, pat, import p can do
    Pasting,      \* the providers with a callback to paste (showCallbackPaste)
    KeyOnly,      \* zhipu: one form, no tabs
    RunId,        \* bound: runs, a number for each
    AccountId,    \* bound: accounts created, numbers
    PollAttempts, \* POLL_ATTEMPTS
    MaxSessions,  \* bound: times the dialog opens
    None          \* no provider, account or run

WizardAssumption ==
    /\ Methods \in [Provider -> SUBSET {"browser", "pat", "import"}]
    /\ Pasting \subseteq Provider /\ KeyOnly \subseteq Provider
    /\ PollAttempts \in Nat /\ MaxSessions \in Nat
    /\ None \notin AccountId

VARIABLES
    wizard,     \* the dialog's state
    runs,       \* runs[r]: where run r is, or None before it
    pollTimer,  \* pollTimer.current: the run whose wait it is, or None
    closers,    \* finishAndClose timers that will fire
    login,      \* the server: login[a] is absent, new, ok or error
    added       \* history: the account onAdded was last called for

wizardVars == <<wizard, runs, pollTimer, closers, login, added>>

Closed == [open |-> FALSE, step |-> "method", tab |-> "browser", provider |-> None,
           phase |-> "idle", created |-> None]

WizardInit ==
    /\ wizard = [session |-> 0, state |-> Closed]
    /\ runs = [r \in RunId |-> None]
    /\ pollTimer = None
    /\ closers = 0
    /\ login = [a \in AccountId |-> "absent"]
    /\ added = None

Dialog == wizard.state
Busy == Dialog.phase \in {"busy", "polling"}
ToDialog(d) == wizard' = [wizard EXCEPT !.state = d]

-----------------------------------------------------------------------------
(* The operator in the dialog *)

OpenWizard ==
    /\ ~Dialog.open /\ wizard.session < MaxSessions
    /\ wizard' = [session |-> wizard.session + 1,
                  state |-> [Dialog EXCEPT !.open = TRUE, !.provider = None, !.tab = "browser"]]
    /\ UNCHANGED <<runs, pollTimer, closers, login, added>>

\* The descriptor's methods as the effects depend on them; all before a choice.
MethodsOf(p) == IF p = None THEN {"browser", "pat", "import"} ELSE Methods[p]

\* The tab effects.  The first leaves a tab the provider does not have, the
\* second leaves the browser tab, but runs only when the methods have changed.
TabAfter(tab, old, new) ==
    IF "browser" \notin MethodsOf(new) /\ MethodsOf(old) # MethodsOf(new)
    THEN IF "pat" \in MethodsOf(new) THEN "pat"
         ELSE IF "import" \in MethodsOf(new) THEN "import" ELSE tab
    ELSE IF tab \in {"pat", "import"} /\ tab \notin MethodsOf(new) THEN "browser" ELSE tab

ChooseProvider(p) ==
    /\ Dialog.open /\ Dialog.step = "method" /\ ~Busy /\ Dialog.created = None
    /\ ToDialog([Dialog EXCEPT
            !.provider = p, !.step = "login",
            !.tab = TabAfter(IF p \in KeyOnly THEN "pat" ELSE "browser", Dialog.provider, p)])
    /\ UNCHANGED <<runs, pollTimer, closers, login, added>>

BackToProviders ==
    /\ Dialog.open /\ Dialog.step = "login" /\ ~Busy /\ Dialog.created = None
    /\ ToDialog([Dialog EXCEPT !.step = "method"])
    /\ UNCHANGED <<runs, pollTimer, closers, login, added>>

ChooseTab(tab) ==
    /\ Dialog.open /\ Dialog.step = "login" /\ Dialog.provider \notin KeyOnly
    /\ ~Busy /\ tab \in Methods[Dialog.provider] \ {Dialog.tab}
    /\ ToDialog([Dialog EXCEPT !.tab = tab])
    /\ UNCHANGED <<runs, pollTimer, closers, login, added>>

\* stopPolling clears the timer; a run that waits for it never goes on.
Polls(kept) ==
    IF pollTimer # None /\ kept[pollTimer] # None /\ kept[pollTimer].at = "wait"
    THEN [kept EXCEPT ![pollTimer].at = "over"] ELSE kept

Reset ==
    /\ ToDialog(Closed)
    /\ runs' = Polls(runs)
    /\ pollTimer' = None

CloseWizard ==
    /\ Dialog.open /\ ~Busy /\ Reset
    /\ UNCHANGED <<closers, login, added>>

\* finishAndClose, some time after a run is done.
FinishAndClose ==
    /\ closers > 0
    /\ closers' = closers - 1
    /\ Reset
    /\ UNCHANGED <<login, added>>

-----------------------------------------------------------------------------
(* The buttons *)

\* Which buttons can be pressed; a press while a run is busy is refused, but a
\* callback can be pasted while the browser run polls.
Pressable(kind) ==
    /\ Dialog.open /\ Dialog.step = "login" /\ Dialog.phase # "done"
    /\ CASE kind = "browser" -> ~Busy /\ Dialog.tab = "browser" /\ Dialog.provider \notin KeyOnly
         [] kind = "callback" -> /\ Dialog.phase # "busy" /\ Dialog.tab = "browser"
                                 /\ Dialog.provider \in Pasting
         [] kind = "pat" -> ~Busy /\ Dialog.tab = "pat" /\ Dialog.provider \notin KeyOnly
         [] kind = "import" -> ~Busy /\ (Dialog.tab = "import" \/ Dialog.provider \in KeyOnly)

\* Runs take their names in order.
Unused(r) == runs[r] = None /\ \A q \in RunId : q < r => runs[q] # None

\* What a run of this kind does once it has its account.
After(kind) == CASE kind = "browser" -> "start" [] kind = "callback" -> "complete" [] kind = "pat" -> "login"

\* runBrowser, runCallback, runPat, runImport and runZhipu up to their first
\* await.  ensureAccount takes the account that is there.
Press(kind, r) ==
    /\ Pressable(kind) /\ Unused(r)
    /\ LET has == Dialog.created # None /\ kind # "import"
           at == IF kind = "import" THEN "import" ELSE IF has THEN After(kind) ELSE "create"
           run == [kind |-> kind, at |-> at, account |-> Dialog.created,
                   session |-> wizard.session, polls |-> 0]
       IN  /\ runs' = [(IF kind = "callback" /\ has THEN Polls(runs) ELSE runs) EXCEPT ![r] = run]
           /\ pollTimer' = IF kind = "callback" /\ has THEN None ELSE pollTimer
           /\ ToDialog([Dialog EXCEPT !.phase = IF kind = "browser" /\ has THEN "polling" ELSE "busy"])
    /\ UNCHANGED <<closers, login, added>>

\* The end of a run that failed; a failed callback goes back to polling.
Fail(r) ==
    /\ runs' = [runs EXCEPT ![r].at = "over"]
    /\ ToDialog([Dialog EXCEPT !.phase = IF runs[r].kind = "callback" THEN "polling" ELSE "idle"])
    /\ UNCHANGED <<pollTimer, closers, added>>

Succeed(r, a) ==
    /\ runs' = [runs EXCEPT ![r].at = "over"]
    /\ ToDialog([Dialog EXCEPT !.phase = "done"])
    /\ added' = a
    /\ closers' = closers + 1
    /\ UNCHANGED pollTimer

Created(r, a) ==
    LET moved == [runs EXCEPT ![r].at = After(runs[r].kind), ![r].account = a]
    IN  /\ ToDialog([Dialog EXCEPT !.created = a,
                                   !.phase = IF runs[r].kind = "browser" THEN "polling" ELSE @])
        /\ IF runs[r].kind = "callback"
           THEN runs' = Polls(moved) /\ pollTimer' = None
           ELSE runs' = moved /\ UNCHANGED pollTimer

FreshAccount == {a \in AccountId : login[a] = "absent" /\ \A b \in AccountId : b < a => login[b] # "absent"}

AccountCreated(r) ==
    /\ runs[r] # None /\ runs[r].at = "create"
    /\ \/ /\ Fail(r)
          /\ UNCHANGED login
       \/ \E a \in FreshAccount :
             /\ login' = [login EXCEPT ![a] = "new"]
             /\ Created(r, a)
             /\ UNCHANGED <<closers, added>>

LoginStarted(r) ==
    /\ runs[r] # None /\ runs[r].at = "start"
    /\ \/ Fail(r)
       \/ /\ runs' = [runs EXCEPT ![r].at = "wait"]
          /\ pollTimer' = r
          /\ UNCHANGED <<wizard, closers, added>>
    /\ UNCHANGED login

PollTimerFires(r) ==
    /\ runs[r] # None /\ runs[r].at = "wait"
    /\ runs' = [runs EXCEPT ![r].at = "poll"]
    /\ UNCHANGED <<wizard, pollTimer, closers, login, added>>

\* Bug: whatever is not pending any more is a login.
PolledHasty(r) ==
    /\ runs[r] # None /\ runs[r].at = "poll"
    /\ LET status == login[runs[r].account]
       IN  IF status # "new" THEN Succeed(r, runs[r].account) ELSE Fail(r)
    /\ UNCHANGED login

\* One answer of fetchLoginStatus.  The run fails with the login, with the
\* request and after the last attempt; only then does it not wait again.
Polled(r) ==
    /\ runs[r] # None /\ runs[r].at = "poll"
    /\ LET status == login[runs[r].account]
       IN  \/ status = "ok" /\ Succeed(r, runs[r].account)
           \/ Fail(r)
           \/ /\ status = "new" /\ runs[r].polls + 1 < PollAttempts
              /\ runs' = [runs EXCEPT ![r].at = "wait", ![r].polls = @ + 1]
              /\ pollTimer' = r
              /\ UNCHANGED <<wizard, closers, added>>
    /\ UNCHANGED login

\* completeLoginCallback and loginWithPat: the server signs the account in or not.
Submitted(r) ==
    /\ runs[r] # None /\ runs[r].at \in {"complete", "login"}
    /\ \/ Fail(r) /\ UNCHANGED login
       \/ Succeed(r, runs[r].account) /\ login' = [login EXCEPT ![runs[r].account] = "ok"]

\* importAccount: the account comes with its credential.
Imported(r) ==
    /\ runs[r] # None /\ runs[r].at = "import"
    /\ \/ Fail(r) /\ UNCHANGED login
       \/ \E a \in FreshAccount :
             /\ login' = [login EXCEPT ![a] = "ok"]
             /\ Succeed(r, a)

\* The operator finishes, or spoils, the login in the browser.
BrowserLogin(a) ==
    /\ login[a] = "new"
    /\ \E outcome \in {"ok", "error"} : login' = [login EXCEPT ![a] = outcome]
    /\ UNCHANGED <<wizard, runs, pollTimer, closers, added>>

RunStep(r) ==
    \/ AccountCreated(r) \/ LoginStarted(r) \/ PollTimerFires(r) \/ Polled(r)
    \/ Submitted(r) \/ Imported(r)

WizardNext ==
    \/ OpenWizard \/ BackToProviders \/ CloseWizard \/ FinishAndClose
    \/ \E p \in Provider : ChooseProvider(p)
    \/ \E tab \in {"browser", "pat", "import"} : ChooseTab(tab)
    \/ \E kind \in {"browser", "callback", "pat", "import"}, r \in RunId : Press(kind, r)
    \/ \E r \in RunId : RunStep(r)
    \/ \E a \in AccountId : BrowserLogin(a)

WizardSpec == WizardInit /\ [][WizardNext]_wizardVars

-----------------------------------------------------------------------------
\* The list is told of an account only when it can serve: what the dialog calls
\* ready has its credential on the server, whichever run came first.
AddedIsReady == added # None => login[added] = "ok"

\* The runs of the first opening share one account, whatever fails and is tried
\* again: a callback beside a poll, a token after a browser that timed out.
\* (A run that survives into a later opening can end that one's busy phase.)
OneAccountPerSession ==
    \A r, s \in RunId :
        runs[r] # None /\ runs[s] # None /\ "import" \notin {runs[r].kind, runs[s].kind}
        /\ runs[r].session = 1 /\ runs[s].session = 1
        /\ runs[r].account # None /\ runs[s].account # None
            => runs[r].account = runs[s].account

\* "Providers without a browser login must not land on an empty browser tab."
NoEmptyBrowserTab ==
    Dialog.open /\ Dialog.step = "login" /\ Dialog.tab = "browser" => "browser" \in Methods[Dialog.provider]
=============================================================================
