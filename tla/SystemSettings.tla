--------------------------- MODULE SystemSettings ---------------------------
(***************************************************************************)
(* The settings tabs of the system page (frontend pages/SystemPage.tsx,    *)
(* checkin/CheckinDefaults.tsx) and what a PATCH does (internal/control/   *)
(* system.go, internal/proxy, runtime ReloadProxyURL): the proxy address   *)
(* in the database, in the manager and in the workers it restarts, and the *)
(* pages of the operators, which are shown its password as a mask. One     *)
(* setting stands for the others.                                          *)
(***************************************************************************)
EXTENDS Naturals, FiniteSets

CONSTANTS
    Browser,       \* operators with the page open
    Worker,        \* the workers that use the global proxy
    Typed,         \* addresses an operator types, <<host, password>>
    MaxPatches,    \* bound: PATCH requests
    MaxRestarts,   \* bound: restarts of the server
    None

NoProxy == <<"", "">>

\* proxy.Redact, and Preserve, which knows an address by what Redact shows of it.
Redact(url) == IF url[2] = "" THEN url ELSE <<url[1], "******">>
Preserve(existing, url) == IF existing # NoProxy /\ Redact(existing) = url THEN existing ELSE url

VARIABLES
    proxy,         \* [stored, config, pending, running]: running per worker
    other,         \* another setting
    page,          \* a browser's page: [settings, draft, typed, busy, checkin]
    patches,       \* requests under way
    sends,         \* PATCH requests so far
    restarts

settingsVars == <<proxy, other, page, patches, sends, restarts>>

Current == [proxy |-> Redact(proxy.stored), other |-> other]

PageRequest(b, kind, url, value) ==
    [from |-> b, kind |-> kind, at |-> "sent", url |-> url, value |-> value, changed |-> FALSE, failed |-> FALSE,
     left |-> {}, data |-> None, typed |-> page[b].typed, saved |-> page[b].settings]

Send(c) ==
    /\ sends < MaxPatches /\ c \notin patches
    /\ patches' = patches \union {c}
    /\ sends' = sends + 1

Becomes(c, d) == patches' = (patches \ {c}) \union {d}

-----------------------------------------------------------------------------
(* The page *)

OpenSettings(b) ==
    /\ page[b].settings = None
    /\ page' = [page EXCEPT ![b].settings = Current, ![b].draft = Current.proxy, ![b].typed = FALSE]
    /\ UNCHANGED <<proxy, other, patches, sends, restarts>>

Type(b, url) ==
    /\ page[b].settings # None /\ ~page[b].busy /\ url # page[b].draft
    /\ page' = [page EXCEPT ![b].draft = url, ![b].typed = TRUE]
    /\ UNCHANGED <<proxy, other, patches, sends, restarts>>

\* updateProxyURL: a field that shows what is saved sends nothing.
Blur(b) ==
    LET p == page[b]
    IN  /\ p.settings # None /\ ~p.busy /\ p.draft # p.settings.proxy
        /\ Send(PageRequest(b, "proxy", p.draft, FALSE))
        /\ page' = [page EXCEPT ![b].settings.proxy = p.draft, ![b].busy = TRUE]
        /\ UNCHANGED <<proxy, other, restarts>>

\* updateRoutingStrategy and its like show the change at once.
ChangeOther(b) ==
    LET p == page[b]
    IN  /\ p.settings # None /\ ~p.busy
        /\ Send(PageRequest(b, "other", NoProxy, ~p.settings.other))
        /\ page' = [page EXCEPT ![b].settings.other = ~@, ![b].busy = TRUE]
        /\ UNCHANGED <<proxy, other, restarts>>

\* CheckinDefaults has a busy flag of its own and only takes the answer.
SaveCheckin(b) ==
    /\ page[b].settings # None /\ ~page[b].checkin
    /\ Send(PageRequest(b, "checkin", NoProxy, FALSE))
    /\ page' = [page EXCEPT ![b].checkin = TRUE]
    /\ UNCHANGED <<proxy, other, restarts>>

\* The whole settings come with every answer; the field follows only its own.
SettingsAnswered(c) ==
    LET b == c.from
        p == page[b]
    IN  /\ c \in patches /\ c.at \in {"answered", "failed"}
        /\ patches' = patches \ {c}
        /\ page' = [page EXCEPT ![b] =
              CASE c.at = "answered" /\ c.kind = "proxy" ->
                      [p EXCEPT !.settings = c.data, !.draft = c.data.proxy, !.typed = FALSE, !.busy = FALSE]
                [] c.at = "answered" /\ c.kind = "other"   -> [p EXCEPT !.settings = c.data, !.busy = FALSE]
                [] c.at = "answered" /\ c.kind = "checkin" -> [p EXCEPT !.settings = c.data, !.checkin = FALSE]
                [] c.at = "failed" /\ c.kind = "proxy" ->
                      [p EXCEPT !.settings.proxy = c.saved.proxy, !.draft = c.url, !.busy = FALSE]
                [] c.at = "failed" /\ c.kind = "other"     -> [p EXCEPT !.settings.other = c.saved.other, !.busy = FALSE]
                [] OTHER                                   -> [p EXCEPT !.checkin = FALSE]]
        /\ UNCHANGED <<proxy, other, sends, restarts>>

-----------------------------------------------------------------------------
(* System.Patch, under its mutex *)

Holding == {d \in patches : d.at \in {"begun", "saved", "reloading"}}

PatchOther(c) ==
    /\ c \in patches /\ c.at = "sent" /\ c.kind # "proxy" /\ Holding = {}
    /\ \/ /\ other' = IF c.kind = "other" THEN c.value ELSE other
          /\ Becomes(c, [c EXCEPT !.at = "done"])
       \/ /\ Becomes(c, [c EXCEPT !.at = "failed"])
          /\ UNCHANGED other
    /\ UNCHANGED <<proxy, page, sends, restarts>>

\* Bug: the stored address is read before the mutex is taken.
BeginUnlocked(c) ==
    LET url == Preserve(proxy.stored, c.url)
    IN  /\ c \in patches /\ c.at = "sent" /\ c.kind = "proxy"
        /\ Becomes(c, [c EXCEPT !.at = "begun", !.url = url, !.changed = url # proxy.stored])
        /\ UNCHANGED <<proxy, other, page, sends, restarts>>

\* The stored address is read, the mask resolved and the change decided.
Begin(c) ==
    LET url == Preserve(proxy.stored, c.url)
    IN  /\ c \in patches /\ c.at = "sent" /\ c.kind = "proxy" /\ Holding = {}
        /\ Becomes(c, [c EXCEPT !.at = "begun", !.url = url, !.changed = url # proxy.stored])
        /\ UNCHANGED <<proxy, other, page, sends, restarts>>

SaveProxy(c) ==
    /\ c \in patches /\ c.at = "begun"
    /\ \/ /\ proxy' = IF c.changed THEN [proxy EXCEPT !.stored = c.url] ELSE proxy
          /\ Becomes(c, [c EXCEPT !.at = "saved"])
       \/ /\ Becomes(c, [c EXCEPT !.at = "failed"])
          /\ UNCHANGED proxy
    /\ UNCHANGED <<other, page, sends, restarts>>

\* ReloadProxyURL, under a mutex of the manager's: nothing to do when the workers
\* have the address and the last reload succeeded.
BeginReload(c) ==
    /\ c \in patches /\ c.at = "saved" /\ ~ \E d \in patches : d.at = "reloading"
    /\ IF proxy.config = c.url /\ ~proxy.pending
       THEN /\ Becomes(c, [c EXCEPT !.at = "done"])
            /\ UNCHANGED proxy
       ELSE /\ Becomes(c, [c EXCEPT !.at = "reloading", !.left = Worker])
            /\ proxy' = [proxy EXCEPT !.config = c.url, !.pending = TRUE]
    /\ UNCHANGED <<other, page, sends, restarts>>

\* A worker is stopped and started with the manager's address, or either fails.
RestartWorker(c, w) ==
    /\ c \in patches /\ c.at = "reloading" /\ w \in c.left
    /\ \/ /\ proxy' = [proxy EXCEPT !.running[w] = proxy.config]
          /\ Becomes(c, [c EXCEPT !.left = @ \ {w}])
       \/ /\ Becomes(c, [c EXCEPT !.left = @ \ {w}, !.failed = TRUE])
          /\ UNCHANGED proxy
    /\ UNCHANGED <<other, page, sends, restarts>>

EndReload(c) ==
    /\ c \in patches /\ c.at = "reloading" /\ c.left = {}
    /\ proxy' = [proxy EXCEPT !.pending = c.failed]
    /\ Becomes(c, [c EXCEPT !.at = IF c.failed THEN "failed" ELSE "done"])
    /\ UNCHANGED <<other, page, sends, restarts>>

\* Current, read after the mutex was released.
AnswerPatch(c) ==
    /\ c \in patches /\ c.at = "done"
    /\ Becomes(c, [c EXCEPT !.at = "answered", !.data = Current])
    /\ UNCHANGED <<proxy, other, page, sends, restarts>>

\* The workers go down with the server, which starts them with what is stored.
RestartServer ==
    /\ restarts < MaxRestarts
    /\ restarts' = restarts + 1
    /\ proxy' = [stored |-> proxy.stored, config |-> proxy.stored, pending |-> FALSE,
                 running |-> [w \in Worker |-> proxy.stored]]
    /\ patches' = {IF c.at \in {"answered", "failed"} THEN c ELSE [c EXCEPT !.at = "failed"] : c \in patches}
    /\ UNCHANGED <<other, page, sends>>

-----------------------------------------------------------------------------
SettingsInit ==
    /\ \E url \in Typed \union {NoProxy} :
          proxy = [stored |-> url, config |-> url, pending |-> FALSE, running |-> [w \in Worker |-> url]]
    /\ other = FALSE
    /\ page = [b \in Browser |-> [settings |-> None, draft |-> NoProxy, typed |-> FALSE, busy |-> FALSE, checkin |-> FALSE]]
    /\ patches = {} /\ sends = 0 /\ restarts = 0

SettingsNext ==
    \/ RestartServer
    \/ \E b \in Browser :
          \/ OpenSettings(b) \/ Blur(b) \/ ChangeOther(b) \/ SaveCheckin(b)
          \/ \E url \in Typed \union {NoProxy} : Type(b, url)
    \/ \E c \in patches :
          \/ PatchOther(c) \/ Begin(c) \/ SaveProxy(c) \/ BeginReload(c) \/ EndReload(c) \/ AnswerPatch(c)
          \/ SettingsAnswered(c)
          \/ \E w \in Worker : RestartWorker(c, w)

SettingsSpec == SettingsInit /\ [][SettingsNext]_settingsVars

-----------------------------------------------------------------------------
\* system.go warns of "the database and the running workers disagreeing": between
\* PATCHes every worker runs with the stored address, however requests, failed
\* writes, failed restarts of workers and restarts of the server mixed -- or the
\* manager knows that a reload is pending, and the same address retries it.
WorkersRunTheStoredProxy ==
    Holding = {} /\ ~proxy.pending => \A w \in Worker : proxy.running[w] = proxy.stored

\* SystemPage.tsx: "Nothing changed in the field: keep the draft as-is and skip the
\* PATCH so a no-op blur never reloads workers". Leaving the field without having
\* typed in it sends no address.
NoOpBlurIsQuiet == \A c \in patches : c.kind = "proxy" => c.typed
=============================================================================
